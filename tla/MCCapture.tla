------------------------------ MODULE MCCapture -----------------------------
(* Three orders, two of them bids at one price. *)
EXTENDS L3Capture

MCIds   == {1, 2, 3}
MCSide  == [id \in MCIds |-> IF id = 3 THEN -1 ELSE 1]
MCPrice == [id \in MCIds |-> IF id = 3 THEN 2 ELSE 1]
MCListed == {1, 3}
=============================================================================
