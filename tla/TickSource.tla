----------------------------- MODULE TickSource -----------------------------
(***************************************************************************)
(* CSVExchange.load_ticks (data/exchange.py): the ticks of one symbol's    *)
(* file from start_ts to end_ts, read row by row and no further than the   *)
(* first row past the end.  A row is its time.                             *)
(***************************************************************************)
EXTENDS Ordering, Sequences

CONSTANTS
    Symbols,
    Rows,           \* symbol -> the times of the rows of its file
    StartTs, EndTs

ASSUME RowsAssumption ==
    /\ Rows \in [Symbols -> Seq(Int)] /\ {StartTs, EndTs} \subseteq Int
    /\ \A s \in Symbols : \A i \in 2..Len(Rows[s]) : Rows[s][i - 1] <= Rows[s][i]

\* Reading stops at the first row past the end; rows before the start are skipped.
LoadTicks(rows) ==
    Picked(rows, {i \in DOMAIN rows : /\ \A j \in 1..i : rows[j] <= EndTs
                                      /\ rows[i] >= StartTs})

\* The streams given to an engine.
Streams == [s \in Symbols |-> LoadTicks(Rows[s])]
=============================================================================
