-------------------------------- MODULE MCCore --------------------------------
(* Bounds for FIFOCore: those of MCQueue, with a third order on the other    *)
(* side so that one trade list fills both sides.                             *)
EXTENDS FIFOCore, TLC

CONSTANTS b1, b2, s1

MCOrderIds == {b1, b2, s1}
MCOrderOf ==
    (b1 :> [side |-> BUY, price |-> 10, size |-> 8, postOnly |-> TRUE])
 @@ (b2 :> [side |-> BUY, price |-> 10, size |-> 2, postOnly |-> TRUE])
 @@ (s1 :> [side |-> SELL, price |-> 12, size |-> 2, postOnly |-> TRUE])

MCBooks == {[bids |-> 10 :> 6, asks |-> 12 :> 4],
            [bids |-> 11 :> 1 @@ 10 :> 2, asks |-> 12 :> 2 @@ 13 :> 5]}

Hit(side, price, size) == [side |-> side, price |-> price, size |-> size]
MCTradeLists == {<<>>, <<Hit(SELL, 9, 4), Hit(SELL, 10, 2)>>,
                 <<Hit(BUY, 12, 3), Hit(SELL, 10, 5)>>}
=============================================================================
