--------------------------- MODULE OrderLifecycle ---------------------------
(***************************************************************************)
(* What an engine promises about the orders it is given, whatever the      *)
(* latencies, the queue and the market do: an order lives once, the states *)
(* that end its life are never left, and the position moves only when an   *)
(* order is filled, once per order, in its direction and by no more than   *)
(* its size.  README.md ("The core loop") and core/types.py.               *)
(***************************************************************************)
EXTENDS Integers

CONSTANTS OrderIds, OrderOf

VARIABLES status, position

\* "dead": blocked by the risk check, cancelled, or taken by nothing (IOC).
States == {"new", "flying", "resting", "hit", "filled", "rejected", "dead"}

Edges ==
    {<<"new", "flying">>, <<"new", "dead">>,
     <<"flying", "resting">>, <<"flying", "rejected">>, <<"flying", "dead">>,
     <<"resting", "hit">>, <<"resting", "dead">>}

Init == status = [id \in OrderIds |-> "new"] /\ position = 0

\* Any number of orders advance, the position stands still.
Advance ==
    /\ status' \in [OrderIds -> States]
    /\ \A id \in OrderIds :
          status'[id] = status[id] \/ <<status[id], status'[id]>> \in Edges
    /\ position' = position

\* A taker fill on arrival, or a maker fill of an order that was hit.
Fill(id) ==
    /\ status[id] \in {"flying", "hit"}
    /\ status' = [status EXCEPT ![id] = "filled"]
    /\ \E size \in 1..OrderOf[id].size : position' = position + OrderOf[id].side * size

Next == Advance \/ \E id \in OrderIds : Fill(id)

Spec == Init /\ [][Next]_<<status, position>>
=============================================================================
