------------------------------- MODULE MCPassive -------------------------------
(* Bounds for PassiveEngine: two streams that tie, a bid, an ask that may     *)
(* turn the position over, and an order for the other symbol.                 *)
EXTENDS PassiveEngine

CONSTANTS A, B, a1, a2, b1

Lim(side, price, size) == [side |-> side, price |-> price, size |-> size, postOnly |-> FALSE]
MCOrderOf  == a1 :> Lim(BUY, 10, 3) @@ a2 :> Lim(SELL, 11, 4)
               @@ b1 :> [Lim(BUY, 12, 2) EXCEPT !.postOnly = TRUE]
MCSymbolOf == a1 :> A @@ a2 :> A @@ b1 :> B
MCRows     == A :> <<0, 2, 2, 4>> @@ B :> <<1, 2, 3>>

\* One in which a1 rests with depth at its price and a2 rests; one in which a1
\* rests alone and a2 sweeps two levels; one in which a1 takes.
MCBooks == {[bids |-> 10 :> 2 @@ 9 :> 1, asks |-> 13 :> 1],
            [bids |-> 12 :> 1 @@ 11 :> 2, asks |-> 13 :> 1],
            [bids |-> 8 :> 1, asks |-> 9 :> 1 @@ 10 :> 3]}

Hit(side, price, size) == [side |-> side, price |-> price, size |-> size]
MCTradeLists == {<<>>, <<Hit(SELL, 10, 2), Hit(BUY, 12, 3)>>, <<Hit(SELL, 9, 1), Hit(SELL, 10, 3)>>}

MakerFee == <<-1, 2>>
TakerFee == <<1, 3>>
=============================================================================
