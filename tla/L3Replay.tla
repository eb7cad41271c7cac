------------------------------ MODULE L3Replay ------------------------------
(***************************************************************************)
(* replay_l3 (data/l3_bitfinex.py): the ticks made of the rows of an L3    *)
(* capture, one symbol, row by row.  A row is a trade print, an entry of a *)
(* book snapshot, a change of one order, or a heartbeat (or checksum) of   *)
(* the book channel.  An exchange order keeps its side and price; the cut  *)
(* of a tick to the best levels is left out.                               *)
(***************************************************************************)
EXTENDS Ordering, Sequences, FiniteSetsExt, SequencesExt

CONSTANTS
    L3Ids,   \* orders of the exchange
    SideOf,  \* L3Ids -> {1, -1}
    PriceOf  \* L3Ids -> price

VARIABLES
    orders,       \* order id -> displayed size               (_LiveBook._orders)
    lastType,     \* type of the last book row, "none" at first (last_msg_type)
    tradeBuffer,  \* prints not attached to a tick yet          (trade_buffer)
    knownCancels, \* price -> size cancelled since the last tick (known_cancels)
    emitted,      \* the ticks the last row made the generator yield
    frame,        \* the rows to replay, <<>> until they are loaded (df)
    at            \* rows read so far

replayVars == <<orders, lastType, tradeBuffer, knownCancels, emitted, frame, at>>

Nothing == [x \in {} |-> 0]

ReplayInit ==
    /\ orders = Nothing /\ knownCancels = Nothing
    /\ lastType = "none" /\ tradeBuffer = <<>> /\ emitted = <<>>
    /\ frame = <<>> /\ at = 0

\* Files are named <first row's second>_<counter>.
NameBefore(f, g) == f.ts < g.ts \/ (f.ts = g.ts /\ f.count < g.count)

\* The rows of every file in the order of their names.
RowsOf(files) ==
    LET names == DOMAIN files
        named == InOrder(names, {p \in names \X names : NameBefore(p[1], p[2])})
    IN  FlattenSeq([k \in DOMAIN named |-> files[named[k]]])

\* _load_symbol_frame: every *.parquet of the directory, the batches and what was
\* merged among them, whose name comes behind theirs (tBTCUSD.parquet); then
\* sort_values("ts_recv", kind="stable").
Frame(files, among) == ByTime(RowsOf(files) \o among)

\* Faulty: what is read again is kept.
DropDuplicates_keepsAll(rows) == rows

\* drop_duplicates: the first of equal rows stays.
DropDuplicates(rows) ==
    Picked(rows, {i \in DOMAIN rows : \A j \in 1..(i - 1) : rows[j] # rows[i]})

-----------------------------------------------------------------------------
(* _LiveBook                                                               *)

\* Faulty: a removed order stays in the book.
Applied_keepsRemoved(book, r) ==
    [id \in DOMAIN book \cup {r.id} |-> IF id = r.id THEN r.size ELSE book[id]]

\* A removal is a row without size.
Applied(book, r) ==
    IF r.size = 0 THEN [id \in DOMAIN book \ {r.id} |-> book[id]]
    ELSE [id \in DOMAIN book \cup {r.id} |-> IF id = r.id THEN r.size ELSE book[id]]

Side(book, side) == {id \in DOMAIN book : SideOf[id] = side}

Level(book, side) ==
    [p \in {PriceOf[id] : id \in Side(book, side)} |->
        MapThenSumSet(LAMBDA id : book[id], {id \in Side(book, side) : PriceOf[id] = p})]

\* levels() is not None: both sides show something and they do not cross.
Shows(book) ==
    /\ Side(book, 1) # {} /\ Side(book, -1) # {}
    /\ \A b \in Side(book, 1), a \in Side(book, -1) : PriceOf[b] < PriceOf[a]

TickOf(book, trades, cancels) ==
    [bids |-> Level(book, 1), asks |-> Level(book, -1), trades |-> trades, cancels |-> cancels]

-----------------------------------------------------------------------------

ReadTrade(r) ==
    /\ r.type = "trade"
    /\ tradeBuffer' = Append(tradeBuffer, r)
    /\ emitted' = <<>>
    /\ UNCHANGED <<orders, lastType, knownCancels>>

\* Faulty: a snapshot never discards what the book held.
ReadSnapshot_keepsOrders(r) ==
    /\ r.type = "snapshot"
    /\ orders' = Applied(orders, r)
    /\ knownCancels' = IF lastType \in {"none", "snapshot"} THEN knownCancels ELSE Nothing
    /\ lastType' = "snapshot" /\ emitted' = <<>>
    /\ UNCHANGED tradeBuffer

\* The first entry of a snapshot discards the book, if it follows a row of
\* another type.
ReadSnapshot(r) ==
    LET fresh == lastType \notin {"none", "snapshot"}
    IN  /\ r.type = "snapshot"
        /\ orders' = Applied(IF fresh THEN Nothing ELSE orders, r)
        /\ knownCancels' = IF fresh THEN Nothing ELSE knownCancels
        /\ lastType' = "snapshot" /\ emitted' = <<>>
        /\ UNCHANGED tradeBuffer

\* _removal_explained_by_trade: some buffered print hit the order's side at its
\* price.
Explained(id, trades) ==
    \E i \in DOMAIN trades :
        SideOf[trades[i].id] = SideOf[id] /\ PriceOf[trades[i].id] = PriceOf[id]

Credit(cancels, price, size) ==
    [p \in DOMAIN cancels \cup {price} |->
        (IF p \in DOMAIN cancels THEN cancels[p] ELSE 0) + (IF p = price THEN size ELSE 0)]

\* The first row after a snapshot makes the tick of the snapshot's book.
FlushesSnapshot == lastType = "snapshot" /\ Shows(orders)
SnapshotTick == IF FlushesSnapshot THEN <<TickOf(orders, tradeBuffer, knownCancels)>> ELSE <<>>

\* Faulty: asked after the snapshot's tick has taken the buffered prints.
IsCancel_afterFlush(r) ==
    /\ r.type = "update" /\ r.size = 0 /\ r.id \in DOMAIN orders
    /\ FlushesSnapshot \/ ~Explained(r.id, tradeBuffer)

\* A removal that no print explains is a cancel: asked before any tick takes
\* the buffered prints.
IsCancel(r) ==
    /\ r.type = "update" /\ r.size = 0 /\ r.id \in DOMAIN orders
    /\ ~Explained(r.id, tradeBuffer)

ReadHeartbeat(r) ==
    /\ r.type = "heartbeat"
    /\ emitted' = SnapshotTick
    /\ tradeBuffer' = IF FlushesSnapshot THEN <<>> ELSE tradeBuffer
    /\ knownCancels' = IF FlushesSnapshot THEN Nothing ELSE knownCancels
    /\ lastType' = "heartbeat"
    /\ UNCHANGED orders

\* Faulty: the prints stay buffered when their tick has been made.
ReadUpdate_keepsTrades(r) ==
    LET book    == Applied(orders, r)
        pending == IF FlushesSnapshot THEN Nothing ELSE knownCancels
        cancels == IF IsCancel(r) THEN Credit(pending, PriceOf[r.id], orders[r.id]) ELSE pending
    IN  /\ r.type = "update"
        /\ orders' = book
        /\ emitted' = SnapshotTick \o
                (IF Shows(book) THEN <<TickOf(book, tradeBuffer, cancels)>> ELSE <<>>)
        /\ knownCancels' = IF Shows(book) THEN Nothing ELSE cancels
        /\ lastType' = "update"
        /\ UNCHANGED tradeBuffer

ReadUpdate(r) ==
    LET book    == Applied(orders, r)
        trades  == IF FlushesSnapshot THEN <<>> ELSE tradeBuffer
        pending == IF FlushesSnapshot THEN Nothing ELSE knownCancels
        cancels == IF IsCancel(r) THEN Credit(pending, PriceOf[r.id], orders[r.id]) ELSE pending
    IN  /\ r.type = "update"
        /\ orders' = book
        /\ emitted' = SnapshotTick \o
                (IF Shows(book) THEN <<TickOf(book, trades, cancels)>> ELSE <<>>)
        /\ tradeBuffer' = IF Shows(book) THEN <<>> ELSE trades
        /\ knownCancels' = IF Shows(book) THEN Nothing ELSE cancels
        /\ lastType' = "update"

\* One pass of the loop over the frame's rows.
Read ==
    LET r == frame[at + 1]
    IN  /\ at < Len(frame)
        /\ ReadTrade(r) \/ ReadSnapshot(r) \/ ReadHeartbeat(r) \/ ReadUpdate(r)
        /\ at' = at + 1 /\ UNCHANGED frame
=============================================================================
