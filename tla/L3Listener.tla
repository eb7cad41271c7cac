----------------------------- MODULE L3Listener -----------------------------
(***************************************************************************)
(* The capture process of scripts/bitfinex_l3_listener.py: BitfinexL3-     *)
(* Listener with its reconnect loop, and Writer with its batches of rows   *)
(* and numbered files.  Sequence numbers are only logged and left out.     *)
(***************************************************************************)
EXTENDS Integers, Sequences, FiniteSetsExt

CONSTANTS
    BatchSize,   \* rows that trigger a flush
    MaxSessions, \* bound: connections
    MaxCrashes   \* bound: times the process is killed and started again

VARIABLES
    pc,        \* "start" | "dial" | "recv" | "sleep" | "exit" | "done"
    stop,      \* _stop is set
    session,   \* connections made so far
    chans,     \* channels acknowledged on this one       (_chan_info)
    buffer,    \* rows not written yet                    (Writer._buffer)
    fileCount, \* number of the next file                 (Writer._file_count)
    files,     \* the output directory: file name -> rows
    clock,     \* time.time(), in seconds since the start
    received,  \* history: rows handed to the writer
    lost,      \* history: those of them a killed process had not written
    crashes    \* history: times the process was killed

writerVars   == <<buffer, fileCount, files>>
listenerVars == <<pc, stop, session, chans, writerVars, clock, received, lost, crashes>>

NoFiles == [name \in {} |-> <<>>]

ListenerInit ==
    /\ pc = "start" /\ stop = FALSE /\ session = 0 /\ chans = {}
    /\ buffer = <<>> /\ fileCount = 0 /\ files = NoFiles
    /\ clock = 0 /\ received = 0 /\ lost = {} /\ crashes = 0

-----------------------------------------------------------------------------
(* Writer                                                                  *)

\* flush: the file is named after the time of its first row and the counter; a
\* file of that name is overwritten.
Flush(rows) ==
    IF rows = <<>> THEN UNCHANGED writerVars
    ELSE /\ LET new == [ts |-> Head(rows).ts, count |-> fileCount]
            IN  files' = [name \in DOMAIN files \cup {new} |->
                             IF name = new THEN rows ELSE files[name]]
         /\ buffer' = <<>>
         /\ fileCount' = fileCount + 1

\* add, add_many: late is whether flush_interval_s has passed.
Add(rows, late) ==
    IF rows # <<>> /\ (Len(buffer) + Len(rows) >= BatchSize \/ late)
    THEN Flush(buffer \o rows)
    ELSE buffer' = buffer \o rows /\ UNCHANGED <<fileCount, files>>

\* Faulty: numbering starts again.
NextFileCount_zero == 0
\* _get_next_file_count: one more than the highest number in the directory.
NextFileCount == Max({0} \cup {name.count + 1 : name \in DOMAIN files})

-----------------------------------------------------------------------------
(* run, _run_once                                                          *)

\* Faulty: rows of the last session wait for those of the next.
FlushOnReconnect_skipped == UNCHANGED writerVars
FlushOnReconnect == Flush(buffer)

\* At first, or when the backoff is over: the loop looks at _stop, and _run_once
\* goes up to the connection it awaits.
Dial ==
    /\ pc \in {"start", "sleep"} /\ ~stop
    /\ FlushOnReconnect
    /\ chans' = {} /\ pc' = "dial"
    /\ UNCHANGED <<stop, session, clock, received, lost, crashes>>

\* The connection is made; the loop over its messages looks at _stop first.  The
\* wall clock moves here only, and may be set back: what matters is whether the
\* rows of two connections, and their files, begin in one second or in two.
Connect ==
    /\ pc = "dial" /\ session < MaxSessions
    /\ session' = session + 1
    /\ clock' \in IF session = 0 THEN {clock} ELSE (clock - 1)..(clock + 1)
    /\ pc' = IF stop THEN "exit" ELSE "recv"
    /\ UNCHANGED <<stop, chans, writerVars, received, lost, crashes>>

\* Rows as they are written: the second they came in and, to tell them apart,
\* their session and number.
Stamped(rows) ==
    [i \in DOMAIN rows |->
        [ts |-> clock, session |-> session, n |-> received + i, type |-> rows[i].type,
         id |-> rows[i].id, size |-> rows[i].size, live |-> rows[i].live]]

\* _handle: an acknowledgement, data of a channel, or data of a channel not
\* acknowledged yet, which is dropped.  The loop looks at _stop after it.
Receive(m, late) ==
    LET rows == IF m.chan \in chans THEN Stamped(m.rows) ELSE <<>>
    IN  /\ pc = "recv"
        /\ chans' = chans \cup m.ack
        /\ Add(rows, late)
        /\ received' = received + Len(rows)
        /\ pc' = IF stop THEN "exit" ELSE "recv"
        /\ UNCHANGED <<stop, session, clock, lost, crashes>>

\* The connection is not made or closed, or nothing came for 60 s: the except
\* clause of run.
Lose ==
    /\ pc \in {"dial", "recv"}
    /\ pc' = IF stop THEN "exit" ELSE "sleep"
    /\ UNCHANGED <<stop, session, chans, writerVars, clock, received, lost, crashes>>

\* run ends: what is left is written, and the process is gone.
Exit ==
    /\ pc = "exit" \/ (pc \in {"start", "sleep"} /\ stop)
    /\ Flush(buffer)
    /\ pc' = "done"
    /\ stop' = FALSE /\ chans' = {} /\ session' = 0 /\ clock' = 0 /\ crashes' = 0
    /\ UNCHANGED <<received, lost>>

Running == pc \in {"start", "dial", "recv", "sleep", "exit"}

\* A signal, or the end of --duration.
RequestStop ==
    /\ Running /\ ~stop
    /\ stop' = TRUE
    /\ UNCHANGED <<pc, session, chans, writerVars, clock, received, lost, crashes>>

\* The process is killed, or a handler raises, and it is started again.
Restart ==
    /\ Running /\ crashes < MaxCrashes
    /\ crashes' = crashes + 1
    /\ lost' = lost \cup {buffer[i].n : i \in DOMAIN buffer}
    /\ pc' = "start" /\ stop' = FALSE /\ chans' = {}
    /\ buffer' = <<>> /\ fileCount' = NextFileCount
    /\ UNCHANGED <<session, files, clock, received>>
=============================================================================
