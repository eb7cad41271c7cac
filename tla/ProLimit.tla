------------------------------- MODULE ProLimit -------------------------------
(***************************************************************************)
(* What the inventory limit is worth (risk/base.py).  An order is checked  *)
(* once, against the position of the moment it is sent; orders on their    *)
(* way, resting, or accepted in the same turn are not counted, so the      *)
(* position may pass the limit.  A history of the orders that were         *)
(* outstanding together says when it may.                                  *)
(***************************************************************************)
EXTENDS ProEngine

VARIABLE overlapped  \* pairs of orders of one side once outstanding together

limitVars == <<vars, overlapped>>

Outstanding == Flying \cup Resting \cup HitIds

OneSide(x, y) == OrderOf[x].side = OrderOf[y].side

Together == {xy \in Outstanding \X Outstanding : OneSide(xy[1], xy[2])}

LimitInit == Init /\ overlapped = {}

LimitNext == Next /\ overlapped' = overlapped \cup Together'

LimitSpec == LimitInit /\ [][LimitNext]_limitVars
-----------------------------------------------------------------------------
\* The limit is broken only by orders outstanding at the same time: past it,
\* on either side, there are two filled orders of that side which once were.
\* A strategy with at most one order a side never exceeds max_position,
\* whatever its latencies and however its cancels race with fills
\* (risk/base.py 25-27, types.py apply_fill).
LimitPassedTogether ==
    Abs(position) > MaxPosition =>
        \E x, y \in DOMAIN fills :
            /\ x # y /\ <<x, y>> \in overlapped
            /\ OrderOf[x].side * position > 0
=============================================================================
