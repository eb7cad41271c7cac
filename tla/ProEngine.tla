------------------------------ MODULE ProEngine ------------------------------
(***************************************************************************)
(* ProBacktestEngine (engine/pro.py) driving one strategy: every tick it   *)
(* lands the orders and cancels that have reached the exchange, runs the   *)
(* FIFO queue over the tick, records the fills, and lets the strategy send *)
(* new orders and cancels through the risk check and the latency simulator *)
(* (latency/simulator.py, risk/base.py).                                   *)
(*                                                                         *)
(* Strategies of one engine share nothing but the ticks, so one is enough. *)
(* What a strategy decides from its delayed view of the market is left     *)
(* open: it may send any orders it has not sent yet and cancel any it has. *)
(***************************************************************************)
EXTENDS FIFOQueue

CONSTANTS
    Horizon,      \* bound: timestamp of the last tick
    Gaps,         \* time between two ticks
    OrderDelays,  \* sampled order latencies
    CancelDelays, \* sampled cancel latencies
    MaxPosition,  \* MaxInventoryRiskManager.max_position
    MaxCancels    \* bound: cancels a strategy sends for one order

VARIABLES
    phase,          \* where _step is
    now,            \* tick.ts
    tick,           \* the tick being processed
    todo,           \* its trades still to be matched
    inflight,       \* orders and cancels on their way    (LatencySimulator._heap)
    registerTs,     \* resting order -> when it landed    (order_register_ts)
    pendingCancels, \* order -> arrival of its cancel     (pending_cancels)
    position,       \* InventoryState.position
    fills,          \* filled order -> its Fill           (metrics.fills)
    rejected,       \* orders rejected at the exchange    (metrics.rejected_orders)
    sent,           \* orders the strategy has sent
    cancels         \* order -> cancels the strategy has sent for it

engineVars == <<phase, now, tick, todo>>
flightVars == <<inflight, registerTs, pendingCancels>>
ledgerVars == <<position, fills, rejected>>
strategyVars == <<sent, cancels>>
vars == <<queueVars, engineVars, flightVars, ledgerVars, strategyVars>>

ASSUME EngineAssumption ==
    /\ Horizon \in Nat /\ Gaps \subseteq Nat
    /\ OrderDelays \subseteq Nat /\ CancelDelays \subseteq Nat
    /\ MaxPosition \in Nat /\ MaxCancels \in Nat

Ticks  == [book : Books, trades : TradeLists, truth : Truths \cup {NoTruth}]
NoTick == [book |-> EmptyBook, trades |-> <<>>, truth |-> NoTruth]

OrderEvent(id, at)     == [kind |-> "order", id |-> id, at |-> at, nth |-> 0]
CancelEvent(id, at, n) == [kind |-> "cancel", id |-> id, at |-> at, nth |-> n]

Init ==
    /\ QueueInit
    /\ phase = "idle" /\ now = 0 /\ tick = NoTick /\ todo = <<>>
    /\ inflight = {}
    /\ registerTs = [id \in {} |-> 0] /\ pendingCancels = [id \in {} |-> 0]
    /\ position = 0 /\ fills = [id \in {} |-> 0] /\ rejected = {}
    /\ sent = {} /\ cancels = [id \in OrderIds |-> 0]

-----------------------------------------------------------------------------
(* A tick arrives                                                          *)

Tick(t, gap) ==
    /\ phase = "idle"
    /\ now + gap <= Horizon
    /\ now' = now + gap /\ tick' = t /\ phase' = "land"
    /\ UNCHANGED <<queueVars, todo, flightVars, ledgerVars, strategyVars>>

-----------------------------------------------------------------------------
(* _land_pending                                                           *)

\* Faulty: an event that arrives with the tick misses it.
Due_strict == {e \in inflight : e.at < now}
Due == {e \in inflight : e.at <= now}

\* The heap compares arrival times only, so equal ones come out in any order.
Earliest(e) == \A d \in inflight : e.at <= d.at

\* Faulty: a sale adds to the position.
RecordFill_unsigned(id, size, maker, displacement) ==
    /\ position' = position + size
    /\ fills' = Put(fills, id, [size |-> size, maker |-> maker,
                                displacement |-> displacement])

\* _record_fill, as far as the position and the list of fills go.
RecordFill(id, size, maker, displacement) ==
    /\ position' = position + OrderOf[id].side * size
    /\ fills' = Put(fills, id, [size |-> size, maker |-> maker,
                                displacement |-> displacement])

Rest(id) ==
    /\ ~Crosses(OrderOf[id], tick.book)
    /\ Register(id, tick.book)
    /\ registerTs' = Put(registerTs, id, now)
    /\ UNCHANGED ledgerVars

Reject(id) ==
    /\ Crosses(OrderOf[id], tick.book) /\ OrderOf[id].postOnly
    /\ rejected' = rejected \cup {id}
    /\ UNCHANGED <<queueVars, registerTs, position, fills>>

Take(id) ==
    LET size == TakerSize(OrderOf[id], tick.book)
    IN  /\ Crosses(OrderOf[id], tick.book) /\ ~OrderOf[id].postOnly
        /\ IF size > 0 THEN RecordFill(id, size, FALSE, 0) ELSE UNCHANGED <<position, fills>>
        /\ UNCHANGED <<queueVars, registerTs, rejected>>

\* Faulty: the order stays on the heap, or drops the entry of its own cancel.
LandOrder_notPopped(e) ==
    /\ phase = "land" /\ e \in Due /\ Earliest(e) /\ e.kind = "order"
    /\ Rest(e.id) \/ Reject(e.id) \/ Take(e.id)
    /\ UNCHANGED <<engineVars, inflight, pendingCancels, strategyVars>>
LandOrder_forgetsCancel(e) ==
    /\ phase = "land" /\ e \in Due /\ Earliest(e) /\ e.kind = "order"
    /\ inflight' = inflight \ {e}
    /\ Rest(e.id) \/ Reject(e.id) \/ Take(e.id)
    /\ pendingCancels' = Without(pendingCancels, {e.id})
    /\ UNCHANGED <<engineVars, strategyVars>>

LandOrder(e) ==
    /\ phase = "land" /\ e \in Due /\ Earliest(e) /\ e.kind = "order"
    /\ inflight' = inflight \ {e}
    /\ Rest(e.id) \/ Reject(e.id) \/ Take(e.id)
    /\ UNCHANGED <<engineVars, pendingCancels, strategyVars>>

\* Faulty: one of the three maps keeps the order.
LandCancel_keepsPending(e) ==
    /\ phase = "land" /\ e \in Due /\ Earliest(e) /\ e.kind = "cancel"
    /\ inflight' = inflight \ {e}
    /\ Cancel(e.id)
    /\ UNCHANGED pendingCancels
    /\ registerTs' = Without(registerTs, {e.id})
    /\ UNCHANGED <<engineVars, ledgerVars, strategyVars>>
LandCancel_keepsRegisterTs(e) ==
    /\ phase = "land" /\ e \in Due /\ Earliest(e) /\ e.kind = "cancel"
    /\ inflight' = inflight \ {e}
    /\ Cancel(e.id)
    /\ pendingCancels' = Without(pendingCancels, {e.id})
    /\ UNCHANGED registerTs
    /\ UNCHANGED <<engineVars, ledgerVars, strategyVars>>
LandCancel_keepsResting(e) ==
    /\ phase = "land" /\ e \in Due /\ Earliest(e) /\ e.kind = "cancel"
    /\ inflight' = inflight \ {e}
    /\ UNCHANGED queueVars
    /\ pendingCancels' = Without(pendingCancels, {e.id})
    /\ registerTs' = Without(registerTs, {e.id})
    /\ UNCHANGED <<engineVars, ledgerVars, strategyVars>>

LandCancel(e) ==
    /\ phase = "land" /\ e \in Due /\ Earliest(e) /\ e.kind = "cancel"
    /\ inflight' = inflight \ {e}
    /\ Cancel(e.id)
    /\ pendingCancels' = Without(pendingCancels, {e.id})
    /\ registerTs' = Without(registerTs, {e.id})
    /\ UNCHANGED <<engineVars, ledgerVars, strategyVars>>

-----------------------------------------------------------------------------
(* process_tick, and the loop that records the fills it returns            *)

NothingRests == DOMAIN front = {}

SkipQueue ==
    /\ phase = "land" /\ Due = {} /\ NothingRests
    /\ UpdateBook(tick)
    /\ phase' = "record"
    /\ UNCHANGED <<now, tick, todo, flightVars, ledgerVars, strategyVars>>

StartQueue ==
    /\ phase = "land" /\ Due = {} /\ ~NothingRests
    /\ InferCancels(tick)
    /\ phase' = "match" /\ todo' = tick.trades
    /\ UNCHANGED <<now, tick, flightVars, ledgerVars, strategyVars>>

NextTrade ==
    /\ phase = "match" /\ todo # <<>>
    /\ MatchTrade(Head(todo), Len(todo))
    /\ todo' = Tail(todo)
    /\ UNCHANGED <<phase, now, tick, flightVars, ledgerVars, strategyVars>>

EndQueue ==
    /\ phase = "match" /\ todo = <<>>
    /\ UpdateBook(tick)
    /\ phase' = "record"
    /\ UNCHANGED <<now, tick, todo, flightVars, ledgerVars, strategyVars>>

\* Faulty: counted from now instead of from the landing.
Displacement_fromNow(id) ==
    IF id \in DOMAIN pendingCancels THEN pendingCancels[id] - now ELSE 0

\* A fill that beat a cancel in flight is charged with the time its order
\* would have spent in the queue until that cancel.
Displacement(id) ==
    IF id \in DOMAIN pendingCancels THEN pendingCancels[id] - registerTs[id] ELSE 0

RecordHit(h) ==
    /\ phase = "record" /\ h \in hits
    /\ \A g \in hits : g.left <= h.left
    /\ RecordFill(h.id, h.size, TRUE, Displacement(h.id))
    /\ pendingCancels' = Without(pendingCancels, {h.id})
    /\ registerTs' = Without(registerTs, {h.id})
    /\ hits' = hits \ {h}
    /\ UNCHANGED <<front, prevBook, engineVars, inflight, rejected, strategyVars>>

-----------------------------------------------------------------------------
(* The strategy acts                                                       *)

\* Faulty: the position is compared without the order.
WithinLimit_ignoresSize(id) == Abs(position) <= MaxPosition

WithinLimit(id) == Abs(position + OrderOf[id].side * OrderOf[id].size) <= MaxPosition

\* Every order is checked against the position of this moment and sent, then
\* every cancel is sent, one for an order; each gets a latency of its own.
Quote(new, gone) ==
    /\ phase = "record" /\ hits = {}
    /\ new \subseteq OrderIds \ sent
    /\ gone \subseteq sent \cup new /\ \A id \in gone : cancels[id] < MaxCancels
    /\ \E od \in [{id \in new : WithinLimit(id)} -> OrderDelays],
          cd \in [gone -> CancelDelays] :
          /\ inflight' = inflight
                \cup {OrderEvent(id, now + od[id]) : id \in DOMAIN od}
                \cup {CancelEvent(id, now + cd[id], cancels[id] + 1) : id \in gone}
          /\ pendingCancels' = [id \in DOMAIN pendingCancels \cup gone |->
                IF id \in gone THEN now + cd[id] ELSE pendingCancels[id]]
    /\ sent' = sent \cup new
    /\ cancels' = [id \in OrderIds |-> IF id \in gone THEN cancels[id] + 1 ELSE cancels[id]]
    /\ phase' = "idle" /\ tick' = NoTick
    /\ UNCHANGED <<queueVars, now, todo, registerTs, ledgerVars>>

-----------------------------------------------------------------------------

Land  == \E e \in inflight : LandOrder(e) \/ LandCancel(e)
Queue == SkipQueue \/ StartQueue \/ NextTrade \/ EndQueue
Act   == \E new, gone \in SUBSET OrderIds : Quote(new, gone)

\* The steps of _step: once a tick has arrived they run to their end.
Step == Land \/ Queue \/ (\E h \in hits : RecordHit(h)) \/ Act

NextTick == \E t \in Ticks, gap \in Gaps : Tick(t, gap)

Next == NextTick \/ Step

Spec == Init /\ [][Next]_vars

\* _step always returns, and run feeds ticks until the data ends.
FairSpec == Spec /\ WF_vars(Step) /\ WF_vars(NextTick)
-----------------------------------------------------------------------------
(* Properties                                                              *)

Flying     == {e.id : e \in {d \in inflight : d.kind = "order"}}
HitIds     == {h.id : h \in hits}
Resting    == DOMAIN front
Cancelling == {e \in inflight : e.kind = "cancel"}

\* Estimates and sizes stay natural, landing times in the past, and every map is
\* about orders the strategy has.
TypeOK ==
    /\ QueueTypeOK
    /\ phase \in {"idle", "land", "match", "record"}
    /\ now \in Nat
    /\ tick \in Ticks \cup {NoTick}
    /\ todo \in Seq(Trade)
    /\ \A e \in inflight : e \in [kind : {"order", "cancel"}, id : OrderIds, at : Nat, nth : Nat]
    /\ DOMAIN registerTs \subseteq OrderIds /\ \A id \in DOMAIN registerTs : registerTs[id] \in 0..now
    /\ DOMAIN pendingCancels \subseteq OrderIds /\ \A id \in DOMAIN pendingCancels : pendingCancels[id] \in Nat
    /\ position \in Int
    /\ DOMAIN fills \subseteq OrderIds
    /\ rejected \subseteq OrderIds /\ sent \subseteq OrderIds
    /\ cancels \in [OrderIds -> Nat]

\* An order is in one place at a time: on its way, resting, hit and about to
\* be recorded, filled, or rejected.  A fill that leaves its order in the
\* queue (fifo.py _process_tick_python, dead) would be paid twice.
OneHome ==
    /\ Flying \cup Resting \cup HitIds \cup DOMAIN fills \cup rejected \subseteq sent
    /\ Flying \cap (Resting \cup HitIds \cup DOMAIN fills \cup rejected) = {}
    /\ Resting \cap (HitIds \cup DOMAIN fills \cup rejected) = {}
    /\ HitIds \cap (DOMAIN fills \cup rejected) = {}
    /\ DOMAIN fills \cap rejected = {}
    /\ \A d, e \in inflight : d.kind = "order" /\ e.kind = "order" /\ d.id = e.id => d = e
    /\ \A g, h \in hits : g.id = h.id => g = h

\* The engine's landing times and the simulator's queue are two maps kept in
\* step by hand (pro.py 115-118, 157-159, 166-167): an order has a landing time
\* exactly while it rests or its fill is not recorded, so the fallback of
\* line 115 is never taken and nothing leaks.
RegisteredMatchesQueue == DOMAIN registerTs = Resting \cup HitIds

\* Every pending cancel is a cancel in flight, with that arrival time: no entry
\* survives its cancel to charge a later fill (pro.py 111-117, 150, 158).
PendingCancelInFlight ==
    \A id \in DOMAIN pendingCancels :
        \E e \in Cancelling : e.id = id /\ e.at = pendingCancels[id]

\* A fill is charged displacement only if a cancel for it really was late: that
\* cancel is still on its way, and the charge is the time from the order's
\* landing to that arrival, past the present tick (pro.py 111-117).
DisplacementMeansLate ==
    [][\A id \in DOMAIN fills' \ DOMAIN fills :
         fills'[id].displacement # 0 =>
            \E e \in Cancelling :
                /\ e.id = id /\ e.at > now
                /\ fills'[id].displacement = e.at - registerTs[id]]_vars

\* Conversely every maker fill that beats a cancel is charged.  It takes at most
\* one cancel per order: see PendingWhileInFlight.
LateCancelCharged ==
    [][\A id \in DOMAIN fills' \ DOMAIN fills :
         fills'[id].maker /\ (\E e \in Cancelling : e.id = id) =>
            fills'[id].displacement > 0]_vars

\* pro.py 27-29: a cancel is pending while it is still in flight, until it
\* lands or the order fills.
PendingWhileInFlight ==
    \A e \in Cancelling : e.id \in Resting => e.id \in DOMAIN pendingCancels

-----------------------------------------------------------------------------
(* The engine keeps the promises of OrderLifecycle                         *)

Status(id) ==
    CASE id \notin sent -> "new"
      [] id \in Flying -> "flying"
      [] id \in Resting -> "resting"
      [] id \in HitIds -> "hit"
      [] id \in DOMAIN fills -> "filled"
      [] id \in rejected -> "rejected"
      [] OTHER -> "dead"

Lifecycle == INSTANCE OrderLifecycle WITH status <- [id \in OrderIds |-> Status(id)]

\* Every behaviour of the engine is one of the abstract life cycle.
ImplementsLifecycle == Lifecycle!Spec

-----------------------------------------------------------------------------
(* Liveness                                                                *)

\* _step returns: whatever has arrived and however many trades a tick holds,
\* the strategy gets its turn.
StepReturns == phase # "idle" ~> phase = "idle"

\* A cancel sent for a resting order ends its life, by landing or because the
\* fill was first, if ticks go on until it arrives.
CancelTakesEffect ==
    \A id \in OrderIds :
        (id \in Resting /\ \E e \in Cancelling : e.id = id /\ e.at <= Horizon)
            ~> id \notin Resting

\* Whatever is sent to the exchange lands if ticks go on until it arrives.
EverythingLands ==
    \A id \in OrderIds : (\E e \in inflight : e.id = id /\ e.at <= Horizon)
            ~> ~(\E e \in inflight : e.id = id /\ e.at <= Horizon)
=============================================================================
