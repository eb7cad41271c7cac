------------------------------- MODULE MCQueue -------------------------------
(* Bounds for QueueClient: two bids at one price and an ask; books whose bid *)
(* level grows, shrinks, vanishes and is topped by a better one.             *)
EXTENDS QueueClient, TLC

CONSTANTS b1, b2

MCOrderIds == {b1, b2}
MCOrderOf ==
    (b1 :> [side |-> BUY, price |-> 10, size |-> 8, postOnly |-> TRUE])
 @@ (b2 :> [side |-> BUY, price |-> 10, size |-> 2, postOnly |-> TRUE])

MCBooks == {[bids |-> 10 :> 6, asks |-> 12 :> 4],
            [bids |-> 10 :> 3, asks |-> 12 :> 2 @@ 13 :> 5],
            [bids |-> 11 :> 1 @@ 10 :> 6, asks |-> 12 :> 4],
            [bids |-> 9 :> 5, asks |-> 13 :> 5]}

Hit(side, price, size) == [side |-> side, price |-> price, size |-> size]
MCTradeLists == {<<>>, <<Hit(SELL, 10, 2)>>, <<Hit(SELL, 9, 4), Hit(SELL, 10, 1)>>,
                 <<Hit(BUY, 12, 3), Hit(SELL, 11, 2)>>}
MCTruths == {[p \in {} |-> 0], 10 :> 2}
=============================================================================
