------------------------------ MODULE L3Capture -----------------------------
(***************************************************************************)
(* Capture and replay together: an exchange whose book changes, the        *)
(* connection it is watched over, the listener that writes what it hears,  *)
(* and replay_l3 over the files left when the listener has stopped.        *)
(* The exchange is external: it sends what the listener's handlers accept, *)
(* a snapshot first, then every change and print, in order.                *)
(***************************************************************************)
EXTENDS L3Listener, L3Replay

CONSTANTS
    Listed,    \* orders on the exchange when the listener starts
    InPlace,   \* merge_l3.py's --output lies in the directory of the batches
    MaxSize,   \* sizes are 1..MaxSize
    MaxEvents, \* bound: things that happen at the exchange
    MaxWire    \* bound: messages under way

ASSUME CaptureAssumption ==
    /\ SideOf \in [L3Ids -> {1, -1}] /\ Listed \subseteq L3Ids /\ IsFiniteSet(Listed)
    /\ InPlace \in BOOLEAN
    /\ {MaxSize, BatchSize} \subseteq Nat \ {0}
    /\ {MaxSessions, MaxCrashes, MaxEvents, MaxWire} \subseteq Nat

VARIABLES
    live,      \* the exchange's book: order id -> size
    born,      \* order ids used so far
    events,    \* things that happened at the exchange
    announced, \* channels it has acknowledged on this connection
    wire,      \* messages under way
    merged,    \* rows of the file merge_l3.py wrote, <<>> before it did
    delivered  \* history: numbers of the prints attached to ticks

exchangeVars == <<live, born, events, announced, wire>>
vars == <<listenerVars, replayVars, exchangeVars, merged, delivered>>

Init ==
    /\ ListenerInit /\ ReplayInit
    /\ live = [id \in Listed |-> MaxSize] /\ born = Listed /\ events = 0
    /\ announced = {} /\ wire = <<>> /\ merged = <<>> /\ delivered = <<>>

-----------------------------------------------------------------------------
(* The exchange.  Every row carries, for the properties, the book of the   *)
(* exchange once it has taken effect; a print, the order it filled.        *)

Ack(chan) == [ack |-> {chan}, chan |-> chan, rows |-> <<>>]
Row(type, id, size, book) == [type |-> type, id |-> id, size |-> size, live |-> book]
OnBook(rows) == [ack |-> {}, chan |-> "book", rows |-> rows]
Update(id, size, book) == OnBook(<<Row("update", id, size, book)>>)
Printed(id, size, book) ==
    [ack |-> {}, chan |-> "trades", rows |-> <<Row("trade", id, size, book)>>]

\* The first messages of a connection.
Opening ==
    LET ids == SetToSeq(DOMAIN live)
    IN  <<Ack("book"),
          OnBook([i \in DOMAIN ids |-> Row("snapshot", ids[i], live[ids[i]], live)])>>

\* Messages reach the wire while there is a connection.
Send(messages) ==
    wire' = IF pc = "recv" THEN wire \o messages ELSE <<>>

\* Something happens at the exchange, watched or between two connections.
Happens ==
    /\ pc = "recv" \/ (pc = "sleep" /\ session < MaxSessions)
    /\ events < MaxEvents /\ Len(wire) < MaxWire
    /\ events' = events + 1
    /\ UNCHANGED <<listenerVars, replayVars, announced, merged, delivered>>

Place(id, size) ==
    /\ Happens
    /\ id \notin born
    /\ born' = born \cup {id}
    /\ live' = [i \in DOMAIN live \cup {id} |-> IF i = id THEN size ELSE live[i]]
    /\ Send(<<Update(id, size, live')>>)

Cancel(id) ==
    /\ Happens
    /\ id \in DOMAIN live
    /\ live' = [i \in DOMAIN live \ {id} |-> live[i]]
    /\ Send(<<Update(id, 0, live')>>)
    /\ UNCHANGED born

\* A fill is a print and a change of the book, told in either order.
Fill(id, size, printFirst) ==
    /\ Happens
    /\ id \in DOMAIN live /\ size <= live[id]
    /\ live' = IF size = live[id] THEN [i \in DOMAIN live \ {id} |-> live[i]]
                                  ELSE [live EXCEPT ![id] = @ - size]
    /\ LET change == Update(id, live[id] - size, live')
       IN  Send(IF printFirst THEN <<Printed(id, size, live'), change>>
                              ELSE <<change, Printed(id, size, live')>>)
    /\ UNCHANGED born

Heartbeat ==
    /\ Happens /\ pc = "recv"
    /\ Send(<<OnBook(<<Row("heartbeat", 0, 0, live)>>)>>)
    /\ UNCHANGED <<live, born>>

\* The trades channel is acknowledged.
AckTrades ==
    /\ pc = "recv" /\ "trades" \notin announced /\ Len(wire) < MaxWire
    /\ announced' = announced \cup {"trades"}
    /\ Send(<<Ack("trades")>>)
    /\ UNCHANGED <<listenerVars, replayVars, live, born, events, merged, delivered>>

-----------------------------------------------------------------------------
(* The listener, and the replay of what it left                            *)

Unwatched == UNCHANGED <<replayVars, live, born, events, merged, delivered>>

Connects ==
    /\ Connect
    /\ wire' = (IF stop THEN <<>> ELSE Opening) /\ announced' = {"book"}
    /\ Unwatched

Receives ==
    /\ wire # <<>>
    /\ \E late \in BOOLEAN : Receive(Head(wire), late)
    /\ wire' = IF pc' = "recv" THEN Tail(wire) ELSE <<>>
    /\ UNCHANGED announced
    /\ Unwatched

\* The connection is gone, and what was under way with it.
Breaks ==
    /\ Lose \/ Restart
    /\ wire' = <<>> /\ announced' = {}
    /\ Unwatched

Goes ==
    /\ Dial \/ RequestStop
    /\ UNCHANGED <<wire, announced>>
    /\ Unwatched

\* Nobody watches the exchange any more, and it is forgotten.
Ends ==
    /\ Exit
    /\ live' = Nothing /\ born' = {} /\ events' = 0 /\ announced' = {} /\ wire' = <<>>
    /\ UNCHANGED <<replayVars, merged, delivered>>

\* The merged file, if it is one of the directory of the batches.
Among == IF InPlace THEN merged ELSE <<>>

\* merge_l3.py, run while the listener is, after it, and again, over all files of
\* the directory of the batches; a last output among them is overwritten.
\* Bound: it runs when a connection is being made, or none will be.
Merge ==
    /\ files # NoFiles /\ pc \in {"dial", "done"}
    /\ merged' = ByTime(DropDuplicates(RowsOf(files) \o Among))
    /\ UNCHANGED <<listenerVars, replayVars, exchangeVars, delivered>>

\* _load_symbol_frame, of the directory of the batches or of the merged file
\* alone, when there is a row to replay.  The replay is another process: of the
\* capture only the files are left, and they are in the frame.
Load ==
    /\ pc = "done" /\ files # NoFiles
    /\ frame' \in {Frame(files, Among), Frame(NoFiles, merged)} \ {<<>>}
    /\ merged' = <<>>
    /\ pc' = "replay" /\ stop' = FALSE /\ session' = 0 /\ chans' = {}
    /\ buffer' = <<>> /\ fileCount' = 0 /\ files' = NoFiles
    /\ clock' = 0 /\ received' = 0 /\ lost' = {} /\ crashes' = 0
    /\ UNCHANGED <<exchangeVars, orders, lastType, tradeBuffer, knownCancels, emitted, at, delivered>>

Numbers(rows) == [i \in DOMAIN rows |-> rows[i].n]

\* The prints of the k-th of the ticks of one row: there are at most two.
Attached(ticks, k) == IF k \in DOMAIN ticks THEN Numbers(ticks[k].trades) ELSE <<>>

Reads ==
    /\ Read
    /\ delivered' = delivered \o Attached(emitted', 1) \o Attached(emitted', 2)
    /\ UNCHANGED <<listenerVars, exchangeVars, merged>>

\* There is nothing to replay, or nothing left.
Done == pc \in {"done", "replay"} /\ files = NoFiles /\ at = Len(frame) /\ UNCHANGED vars

Next ==
    \/ \E id \in L3Ids, size \in 1..MaxSize : Place(id, size)
    \/ \E id \in L3Ids : Cancel(id)
    \/ \E id \in L3Ids, size \in 1..MaxSize, printFirst \in BOOLEAN : Fill(id, size, printFirst)
    \/ Heartbeat
    \/ AckTrades
    \/ Connects
    \/ Receives
    \/ Breaks
    \/ Goes
    \/ Ends
    \/ Merge
    \/ Load
    \/ Reads
    \/ Done

Spec == Init /\ [][Next]_vars

-----------------------------------------------------------------------------
(* Properties                                                              *)

Seen      == SubSeq(frame, 1, at)
BookSeen  == Picked(frame, {i \in 1..at : frame[i].type # "trade"})
Prints    == Picked(frame, {i \in 1..at : frame[i].type = "trade"})

\* Every displayed size is that of an order the exchange could show, every
\* credit positive, and no tick has an empty side.
TypeOK ==
    /\ DOMAIN orders \subseteq L3Ids /\ \A id \in DOMAIN orders : orders[id] \in 1..MaxSize
    /\ \A p \in DOMAIN knownCancels : knownCancels[p] > 0
    /\ \A i \in DOMAIN emitted : DOMAIN emitted[i].bids # {} /\ DOMAIN emitted[i].asks # {}
    /\ at \in 0..Len(frame) /\ Len(emitted) <= 2
    /\ lastType \in {"none", "snapshot", "update", "heartbeat"}
    /\ DOMAIN files \subseteq [ts : Int, count : 0..(fileCount - 1)]

\* In the order of the wall clock and, within a second, of receipt; each once.
InTime(rows) ==
    \A j \in DOMAIN rows : \A i \in 1..(j - 1) :
        rows[i].ts < rows[j].ts \/ (rows[i].ts = rows[j].ts /\ rows[i].n < rows[j].n)

\* In the order of receipt, as they are unless the clock was set back.
InReceipt(rows) == \A j \in DOMAIN rows : \A i \in 1..(j - 1) : rows[i].n < rows[j].n

\* Places of the row of this number.
Times(rows, n) == Cardinality({i \in DOMAIN rows : rows[i].n = n})

\* Whatever files the rows were spread over, by batches, timeouts, reconnections
\* and kills, a replay of their directory reads them all, and only those are
\* missing that a killed process had not written: each once, in the order they
\* came in but for a clock set back between them (l3_bitfinex.py 77-85); and the
\* merged ones once more if the merged file is among the batches, as nothing
\* drops duplicates there.
CaptureComplete ==
    pc = "done" =>
        LET read == Frame(files, Among)
        IN  /\ ToSet(Numbers(read)) = (1..received) \ lost
            /\ \A n \in ToSet(Numbers(read)) :
                  Times(read, n) = IF n \in ToSet(Numbers(Among)) THEN 2 ELSE 1
            /\ Among = <<>> => InTime(read)

\* Merging, at any time, again, or into the directory of the batches, yields
\* what a replay of the batches written by then reads: of all that is captured
\* its beginning, unless the clock was set back (merge_l3.py 43-48).
MergedIsPrefix ==
    /\ InTime(merged)
    /\ merged # <<>> /\ files # NoFiles =>
          IsPrefix(merged, Frame(files, <<>>)) \/ ~InReceipt(Frame(files, <<>>))

\* flush_on_reconnect "prevents mixing epochs in one file": no file holds rows
\* of two connections.
EpochsApart ==
    \A name \in DOMAIN files :
        Cardinality({files[name][i].session : i \in DOMAIN files[name]}) = 1

\* The rows of the last snapshot: the last run of snapshot rows.
LastSnapshot ==
    LET others(i) == {j \in 1..i : BookSeen[j].type # "snapshot"}
        last  == Max({0} \cup {i \in DOMAIN BookSeen : BookSeen[i].type = "snapshot"})
        first == Max({0} \cup others(last)) + 1
    IN  SubSeq(BookSeen, first, last)

InStep == orders = Last(BookSeen).live

\* The replayed book is the book of the exchange after every complete snapshot,
\* change and heartbeat, whatever was lost with earlier connections, provided
\* the frame has no row twice, the clock was not set back, and the last snapshot
\* is this connection's alone: no other ended before its first change.
BookInStep ==
    /\ InTime(frame) /\ InReceipt(Seen)
    /\ BookSeen # <<>> /\ (at = Len(frame) \/ frame[at + 1].type # "snapshot")
    /\ {r.session : r \in ToSet(LastSnapshot)} = {Last(BookSeen).session}
    => InStep

\* The module's promise (l3_bitfinex.py:24-29): a new snapshot clears prior
\* state, "instead of carrying stale orders forward".  It does not when the
\* connection dropped before anything followed its snapshot.
BookNeverStale == InReceipt(Seen) /\ lastType = "update" => InStep

\* Every print read reaches exactly one tick, in the order it was read, or waits
\* for the next.
TradesOnce == delivered \o Numbers(tradeBuffer) = Numbers(Prints)

\* What is credited at a price, by the buffer and by the k-th of the ticks.
CreditAt(cancels, price) == IF price \in DOMAIN cancels THEN cancels[price] ELSE 0
TickSays(ticks, k, price) == IF k \in DOMAIN ticks THEN CreditAt(ticks[k].cancels, price) ELSE 0

\* The row read is a removal, and the one before it the print that caused it.
RemovesFilled ==
    LET r == frame[at + 1]
    IN  /\ at' = at + 1 /\ at > 0
        /\ r.type = "update" /\ r.size = 0
        /\ frame[at].type = "trade" /\ frame[at].id = r.id

\* What the buffer and the ticks of the row hold together does not grow.
CreditsKept(price) ==
    CreditAt(knownCancels', price) + TickSays(emitted', 1, price) + TickSays(emitted', 2, price)
        = CreditAt(knownCancels, price)

\* A removal that follows the print that caused it is never counted as a
\* cancel, not even on the row that completes a snapshot.
FillsNotCancels == [][RemovesFilled => \A id \in L3Ids : CreditsKept(PriceOf[id])]_vars
=============================================================================
