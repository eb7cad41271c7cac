------------------------------ MODULE MCViews -------------------------------
(* Windows that wrap more than once; the ring and the history differ. *)
(* Open interest is listed out of order, with two values at one time.  *)
EXTENDS Views

Point(ts, oi) == [ts |-> ts, oi |-> oi]
MCPoints == <<Point(4, 30), Point(1, 10), Point(4, 31), Point(2, 20)>>
=============================================================================
