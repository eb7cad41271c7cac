--------------------------- MODULE ProEngineProofs ---------------------------
(***************************************************************************)
(* The bookkeeping of ProBacktestEngine, proved for any orders, books,     *)
(* trades, latencies and strategy decisions; and, last, what the inventory *)
(* limit is worth.                                                         *)
(***************************************************************************)
EXTENDS ProLimit, FIFOQueueProofs

\* Fills exist only while the tick that made them is processed, and never
\* exceed their order.
HitsInTick ==
    /\ phase \in {"idle", "land"} => hits = {}
    /\ \A h \in hits : h.size \in 1..OrderOf[h.id].size

\* The queue never runs, and no fill is recorded, while something that has
\* already reached the exchange has not landed (pro.py 108 before 110).
NothingOverdue == phase \in {"match", "record"} => Due = {}

IInv ==
    /\ TypeOK
    /\ OneHome
    /\ RegisteredMatchesQueue
    /\ PendingCancelInFlight
    /\ NothingOverdue
    /\ HitsInTick

Homes == <<inflight, front, hits, fills, rejected, sent>>

\* What keeps the parts that do not mention the changed variables.
LEMMA OneHomeStays ==
    ASSUME OneHome, UNCHANGED Homes
    PROVE  OneHome'
  BY DEF OneHome, Homes, Flying, Resting, HitIds

\* PendingCancelInFlight depends on the heap and pending_cancels only.
LEMMA PendingStays ==
    ASSUME PendingCancelInFlight, UNCHANGED <<inflight, pendingCancels>>
    PROVE  PendingCancelInFlight'
  BY DEF PendingCancelInFlight, Cancelling

\* A new engine satisfies the invariant.
LEMMA InitInv == Init => IInv
  BY EngineAssumption
     DEF Init, QueueInit, IInv, TypeOK, QueueTypeOK, OneHome, RegisteredMatchesQueue,
         PendingCancelInFlight, NothingOverdue, HitsInTick, Flying, Resting, HitIds,
         NoTick

\* A tick arriving preserves the invariant (pro.py 93-96).
LEMMA TickStep ==
    ASSUME IInv, NEW t \in Ticks, NEW gap \in Gaps, Tick(t, gap)
    PROVE  IInv'
<1> USE DEF Tick, IInv, queueVars, flightVars, ledgerVars, strategyVars
<1>1. now' \in Nat /\ now' >= now
  BY EngineAssumption DEF TypeOK
<1>2. QueueTypeOK'
  BY DEF TypeOK, QueueTypeOK
<1>3. TypeOK'
  BY <1>1, <1>2 DEF TypeOK
<1>4. OneHome'
  BY OneHomeStays DEF Homes
<1>5. PendingCancelInFlight'
  BY PendingStays
<1> QED
  BY <1>3, <1>4, <1>5 DEF RegisteredMatchesQueue, Resting, HitIds, NothingOverdue, HitsInTick

\* Any way an order lands takes its only event out of the air.
LEMMA LandOrderFacts ==
    ASSUME IInv, NEW e \in inflight, LandOrder(e)
    PROVE  /\ e.id \in OrderIds /\ OrderOf[e.id] \in Order
           /\ e.id \in sent
           /\ e.id \notin Resting \cup HitIds \cup DOMAIN fills \cup rejected
           /\ Flying' = Flying \ {e.id}
           /\ hits = {} /\ HitIds = {}
           /\ tick.book \in Books \cup {EmptyBook}
<1> USE DEF LandOrder, IInv
<1>1. e.id \in OrderIds /\ OrderOf[e.id] \in Order
  BY OrderAssumption DEF TypeOK
<1>2. e.id \in Flying
  BY DEF Flying
<1>3. e.id \in sent /\ e.id \notin Resting \cup HitIds \cup DOMAIN fills \cup rejected
  BY <1>2 DEF OneHome
<1>4. Flying' = Flying \ {e.id}
  BY DEF Flying, OneHome
<1>5. hits = {} /\ HitIds = {}
  BY DEF HitsInTick, HitIds
<1>6. tick.book \in Books \cup {EmptyBook}
  BY DEF TypeOK, Ticks, NoTick
<1> QED
  BY <1>1, <1>3, <1>4, <1>5, <1>6

\* The parts of IInv every landing order keeps the same way.
LEMMA LandOrderCommon ==
    ASSUME IInv, NEW e \in inflight, LandOrder(e)
    PROVE  PendingCancelInFlight' /\ NothingOverdue' /\ HitsInTick'
<1> USE DEF LandOrder, IInv, engineVars
<1>1. Cancelling' = Cancelling
  BY DEF Cancelling
<1>2. PendingCancelInFlight'
  BY <1>1 DEF PendingCancelInFlight
<1>3. hits' = hits
  BY DEF Rest, Reject, Take, Register, queueVars
<1> QED
  BY <1>2, <1>3 DEF NothingOverdue, HitsInTick

\* An order that lands and rests preserves the invariant (pro.py 165-168).
LEMMA RestStep ==
    ASSUME IInv, NEW e \in inflight, LandOrder(e), Rest(e.id)
    PROVE  IInv'
<1> DEFINE id == e.id
<1>1. /\ id \in OrderIds /\ OrderOf[id] \in Order /\ id \in sent
      /\ id \notin Resting \cup HitIds \cup DOMAIN fills \cup rejected
      /\ Flying' = Flying \ {id} /\ hits = {} /\ HitIds = {}
      /\ tick.book \in Books \cup {EmptyBook}
  BY LandOrderFacts
<1>2. QueueTypeOK'
  BY <1>1, RegisterType DEF IInv, TypeOK, Rest
<1>3. DOMAIN registerTs' = DOMAIN registerTs \cup {id} /\ \A x \in DOMAIN registerTs' : registerTs'[x] \in 0..now
  BY DEF Rest, Put, IInv, TypeOK
<1>4. TypeOK'
  BY <1>1, <1>2, <1>3
     DEF LandOrder, IInv, TypeOK, Rest, engineVars, ledgerVars, strategyVars
<1>5. Resting' = Resting \cup {id} /\ hits' = {} /\ HitIds' = {}
  BY <1>1 DEF Rest, Register, Put, Resting, HitIds
<1>6. fills' = fills /\ rejected' = rejected /\ sent' = sent /\ inflight' = inflight \ {e}
  BY DEF LandOrder, Rest, ledgerVars, strategyVars
<1>7. OneHome'
  BY <1>1, <1>5, <1>6 DEF OneHome, IInv
<1>8. RegisteredMatchesQueue'
  BY <1>1, <1>3, <1>5 DEF RegisteredMatchesQueue, IInv
<1> QED
  BY <1>4, <1>7, <1>8, LandOrderCommon DEF IInv

\* So does one rejected at the exchange (pro.py 169-171).
LEMMA RejectStep ==
    ASSUME IInv, NEW e \in inflight, LandOrder(e), Reject(e.id)
    PROVE  IInv'
<1> DEFINE id == e.id
<1>1. /\ id \in OrderIds /\ id \in sent
      /\ id \notin Resting \cup HitIds \cup DOMAIN fills \cup rejected
      /\ Flying' = Flying \ {id}
  BY LandOrderFacts
<1>2. /\ UNCHANGED <<queueVars, registerTs, fills, sent>>
      /\ rejected' = rejected \cup {id} /\ inflight' = inflight \ {e}
  BY DEF LandOrder, Reject, strategyVars
<1>3. QueueTypeOK'
  BY <1>2 DEF queueVars, QueueTypeOK, IInv, TypeOK
<1>4. TypeOK'
  BY <1>1, <1>2, <1>3
     DEF LandOrder, IInv, TypeOK, Reject, engineVars, strategyVars
<1>5. Resting' = Resting /\ HitIds' = HitIds /\ hits' = hits
  BY <1>2 DEF queueVars, Resting, HitIds
<1>6. OneHome'
  BY <1>1, <1>2, <1>5 DEF OneHome, IInv
<1>7. RegisteredMatchesQueue'
  BY <1>2, <1>5 DEF RegisteredMatchesQueue, IInv
<1> QED
  BY <1>4, <1>6, <1>7, LandOrderCommon DEF IInv

\* So does one that takes, whatever depth it finds (pro.py 172-180).
LEMMA TakeStep ==
    ASSUME IInv, NEW e \in inflight, LandOrder(e), Take(e.id)
    PROVE  IInv'
<1> DEFINE id == e.id
           size == TakerSize(OrderOf[id], tick.book)
<1>1. /\ id \in OrderIds /\ OrderOf[id] \in Order /\ id \in sent
      /\ id \notin Resting \cup HitIds \cup DOMAIN fills \cup rejected
      /\ Flying' = Flying \ {id}
      /\ tick.book \in Books \cup {EmptyBook}
  BY LandOrderFacts
<1>2. /\ UNCHANGED <<queueVars, registerTs, rejected, sent>> /\ inflight' = inflight \ {e}
  BY DEF LandOrder, Take, strategyVars
<1>3. size \in Nat
  BY <1>1, DepthsAreSizes
<1> HIDE DEF size
<1>4. position' \in Int /\ DOMAIN fills' \subseteq DOMAIN fills \cup {id}
  <2>1. OrderOf[id].side \in Int
    BY <1>1 DEF Order, BUY, SELL
  <2>2. \/ position' = position + OrderOf[id].side * size /\ DOMAIN fills' = DOMAIN fills \cup {id}
        \/ position' = position /\ fills' = fills
    BY DEF Take, RecordFill, Put, size
  <2> QED
    BY <1>3, <2>1, <2>2 DEF IInv, TypeOK
<1>5. QueueTypeOK'
  BY <1>2 DEF queueVars, QueueTypeOK, IInv, TypeOK
<1>6. TypeOK'
  BY <1>1, <1>2, <1>4, <1>5 DEF LandOrder, IInv, TypeOK, engineVars, strategyVars
<1>7. Resting' = Resting /\ HitIds' = HitIds /\ hits' = hits
  BY <1>2 DEF queueVars, Resting, HitIds
<1>8. OneHome'
  BY <1>1, <1>2, <1>4, <1>7 DEF OneHome, IInv
<1>9. RegisteredMatchesQueue'
  BY <1>2, <1>7 DEF RegisteredMatchesQueue, IInv
<1> QED
  BY <1>6, <1>8, <1>9, LandOrderCommon DEF IInv

\* A cancel that lands preserves the invariant, whether or not its order
\* rests (pro.py 156-159).
LEMMA LandCancelStep ==
    ASSUME IInv, NEW e \in inflight, LandCancel(e)
    PROVE  IInv'
<1> USE DEF LandCancel
<1>1. QueueTypeOK'
  BY CancelType DEF IInv, TypeOK
<1>2. TypeOK'
  BY <1>1 DEF IInv, TypeOK, Without, engineVars, ledgerVars, strategyVars
<1>3. /\ hits' = hits /\ HitIds' = HitIds /\ hits = {} /\ HitIds = {}
      /\ Resting' = Resting \ {e.id}
  BY DEF Cancel, Without, Resting, HitIds, IInv, HitsInTick
<1>4. Flying' = Flying
  BY DEF Flying
<1>5. fills' = fills /\ rejected' = rejected /\ sent' = sent
  BY DEF ledgerVars, strategyVars
<1>6. OneHome'
  BY <1>3, <1>4, <1>5 DEF OneHome, IInv
<1>7. RegisteredMatchesQueue'
  BY <1>3 DEF RegisteredMatchesQueue, Without, IInv
<1>8. PendingCancelInFlight'
  <2> SUFFICES ASSUME NEW id \in DOMAIN pendingCancels'
               PROVE  \E d \in Cancelling' : d.id = id /\ d.at = pendingCancels'[id]
    BY DEF PendingCancelInFlight
  <2>1. id \in DOMAIN pendingCancels /\ id # e.id /\ pendingCancels'[id] = pendingCancels[id]
    BY DEF Without
  <2>2. PICK d \in Cancelling : d.id = id /\ d.at = pendingCancels[id]
    BY <2>1 DEF PendingCancelInFlight, IInv
  <2>3. d \in Cancelling'
    BY <2>1, <2>2 DEF Cancelling
  <2> QED
    BY <2>1, <2>2, <2>3
<1>9. NothingOverdue' /\ HitsInTick'
  BY <1>3 DEF NothingOverdue, HitsInTick, engineVars
<1> QED
  BY <1>2, <1>6, <1>7, <1>8, <1>9 DEF IInv

\* Ending the queue's tick preserves the invariant (fifo.py 203-205).
LEMMA UpdateBookStep ==
    ASSUME IInv, SkipQueue \/ EndQueue
    PROVE  IInv'
<1> USE DEF SkipQueue, EndQueue, flightVars, ledgerVars, strategyVars
<1>1. tick.book \in Books \cup {EmptyBook}
  BY DEF IInv, TypeOK, Ticks, NoTick
<1>2. QueueTypeOK'
  BY <1>1, UpdateBookType DEF IInv, TypeOK
<1>3. front' = front /\ hits' = hits
  BY DEF UpdateBook
<1>4. TypeOK'
  BY <1>2 DEF IInv, TypeOK
<1>5. OneHome' /\ PendingCancelInFlight'
  BY <1>3, OneHomeStays, PendingStays DEF Homes, IInv
<1>6. NothingOverdue'
  BY DEF NothingOverdue, Due, IInv
<1>7. HitsInTick' /\ RegisteredMatchesQueue'
  BY <1>3 DEF HitsInTick, RegisteredMatchesQueue, Resting, HitIds, IInv
<1> QED
  BY <1>4, <1>5, <1>6, <1>7 DEF IInv

\* Inferring the cancels of a tick preserves the invariant (fifo.py 192).
LEMMA StartQueueStep ==
    ASSUME IInv, StartQueue
    PROVE  IInv'
<1> USE DEF StartQueue, flightVars, ledgerVars, strategyVars
<1>1. tick \in TickArg \/ tick = NoTick
  BY DEF IInv, TypeOK, Ticks, TickArg
<1>2. QueueTypeOK'
  <2>1. CASE tick \in TickArg
    BY <2>1, InferCancelsType DEF IInv, TypeOK
  <2>2. CASE tick = NoTick
    <3>1. \A id \in OrderIds : SizeAt(prevBook, OrderOf[id].price) \in Nat
      BY DepthsAreSizes DEF IInv, TypeOK, QueueTypeOK
    <3>2. \A id \in OrderIds : SizeAt(tick.book, OrderOf[id].price) \in Nat
      BY <2>2, DepthsAreSizes DEF NoTick
    <3>3. \A id \in OrderIds : Cancelled(OrderOf[id].price, tick) \in Nat
      BY <2>2, <3>1, <3>2 DEF Cancelled, Monus, NoTick
    <3>4. \A id \in DOMAIN front : id \in OrderIds /\ front[id] \in Nat
      BY DEF IInv, TypeOK, QueueTypeOK
    <3>5. \A id \in DOMAIN front : Monus(front[id], Cancelled(OrderOf[id].price, tick)) \in Nat
      BY <3>3, <3>4 DEF Monus
    <3> QED
      BY <3>5 DEF InferCancels, IInv, TypeOK, QueueTypeOK
  <2> QED
    BY <1>1, <2>1, <2>2
<1>3. Resting' = Resting /\ hits' = hits /\ HitIds' = HitIds
  BY DEF InferCancels, Resting, HitIds
<1>4. todo' \in Seq(Trade)
  <2>1. todo' = tick.trades /\ (tick \in Ticks \/ tick = NoTick)
    BY DEF IInv, TypeOK
  <2>2. CASE tick \in Ticks
    BY <2>1, <2>2, TickAssumption DEF Ticks
  <2>3. CASE tick = NoTick
    BY <2>1, <2>3 DEF NoTick
  <2> QED
    BY <2>1, <2>2, <2>3
<1>5. TypeOK'
  BY <1>2, <1>4 DEF IInv, TypeOK
<1>6. OneHome'
  BY <1>3 DEF OneHome, Flying, IInv
<1>7. PendingCancelInFlight'
  BY PendingStays DEF IInv
<1>8. NothingOverdue' /\ HitsInTick' /\ RegisteredMatchesQueue'
  BY <1>3 DEF NothingOverdue, Due, HitsInTick, RegisteredMatchesQueue, IInv
<1> QED
  BY <1>5, <1>6, <1>7, <1>8 DEF IInv

\* Matching one trade preserves the invariant: filled orders leave the queue
\* as their hits appear (fifo.py 194-203).
LEMMA NextTradeStep ==
    ASSUME IInv, NextTrade
    PROVE  IInv'
<1> DEFINE t == Head(todo)
           left == Len(todo)
<1>1. t \in Trade /\ left \in Nat /\ Tail(todo) \in Seq(Trade)
  <2>1. todo \in Seq(Trade) /\ todo # <<>>
    BY DEF NextTrade, IInv, TypeOK
  <2> QED
    BY <2>1
<1>2. MatchTrade(t, left)
  BY DEF NextTrade
<1>3. UNCHANGED <<phase, now, tick, flightVars, ledgerVars, strategyVars>>
  BY DEF NextTrade
<1>4. todo' = Tail(todo)
  BY DEF NextTrade
<1> HIDE DEF t, left
<1>5. QueueTypeOK'
  BY <1>1, <1>2, MatchTradeType DEF IInv, TypeOK
<1>6. TypeOK'
  BY <1>1, <1>3, <1>4, <1>5 DEF IInv, TypeOK, flightVars, ledgerVars, strategyVars
<1>7. /\ HitIds' = HitIds \cup HitBy(t) /\ HitBy(t) \subseteq Resting
      /\ Resting' = Resting \ HitBy(t)
  BY <1>2, MatchTradeMoves DEF HitIds, Resting
<1>8. \A g, h \in hits' : g.id = h.id => g = h
  <2> SUFFICES ASSUME NEW g \in hits', NEW h \in hits', g.id = h.id PROVE g = h
    OBVIOUS
  <2> DEFINE Made(id) == [id |-> id, size |-> FillSize(front[id], OrderOf[id], t), left |-> left]
  <2>1. \A x \in hits' : x \in hits \/ \E id \in HitBy(t) : x = Made(id)
    BY <1>2 DEF MatchTrade
  <2>2. \A id : Made(id).id = id
    OBVIOUS
  <2>3. \A x \in hits : x.id \notin HitBy(t)
    BY <1>7 DEF IInv, OneHome, HitIds
  <2> HIDE DEF Made
  <2>4. CASE g \in hits /\ h \in hits
    BY <2>4 DEF IInv, OneHome
  <2> QED
    BY <2>1, <2>2, <2>3, <2>4
<1>9. UNCHANGED <<inflight, fills, rejected, sent, registerTs, pendingCancels, now, phase>>
  BY <1>3 DEF flightVars, ledgerVars, strategyVars
<1>10. OneHome'
  <2>1. Flying' = Flying
    BY <1>9 DEF Flying
  <2> QED
    BY <1>7, <1>8, <1>9, <2>1 DEF OneHome, IInv
<1>11. RegisteredMatchesQueue'
  BY <1>7, <1>9 DEF RegisteredMatchesQueue, IInv
<1>12. PendingCancelInFlight' /\ NothingOverdue'
  BY <1>9, PendingStays DEF NothingOverdue, Due, IInv
<1>13. \A h \in hits' : h.size \in 1..OrderOf[h.id].size
  <2>1. ASSUME NEW id \in HitBy(t) PROVE FillSize(front[id], OrderOf[id], t) \in 1..OrderOf[id].size
    <3>1. id \in OrderIds /\ front[id] \in Nat /\ OrderOf[id] \in Order
      BY <1>7, OrderAssumption DEF IInv, TypeOK, QueueTypeOK, Resting
    <3>2. FillSize(front[id], OrderOf[id], t) \in 0..OrderOf[id].size
      BY <1>1, <3>1, FillSizeBounds
    <3>3. OrderOf[id].size \in Nat
      BY <3>1 DEF Order
    <3> QED
      BY <3>2, <3>3 DEF HitBy
  <2>2. \A h \in hits' : \/ h \in hits
                         \/ \E id \in HitBy(t) : h.id = id /\ h.size = FillSize(front[id], OrderOf[id], t)
    BY <1>2 DEF MatchTrade
  <2> QED
    BY <2>1, <2>2 DEF IInv, HitsInTick
<1>14. HitsInTick'
  <2>1. phase' = "match"
    BY DEF NextTrade
  <2> QED
    BY <1>13, <2>1 DEF HitsInTick
<1> QED
  BY <1>6, <1>10, <1>11, <1>12, <1>14 DEF IInv

\* Recording a fill preserves the invariant (pro.py 110-119).
LEMMA RecordHitStep ==
    ASSUME IInv, NEW h \in hits, RecordHit(h)
    PROVE  IInv'
<1> DEFINE id == h.id
<1>1. /\ UNCHANGED <<front, prevBook, inflight, rejected, sent, cancels, phase, now, tick, todo>>
      /\ hits' = hits \ {h} /\ phase = "record"
      /\ registerTs' = Without(registerTs, {id})
      /\ pendingCancels' = Without(pendingCancels, {id})
      /\ RecordFill(id, h.size, TRUE, Displacement(id))
  BY DEF RecordHit, engineVars, strategyVars
<1>2. /\ id \in OrderIds /\ id \in HitIds /\ id \in sent
      /\ id \notin Flying \cup Resting \cup DOMAIN fills \cup rejected
      /\ h.size \in Nat
  BY DEF HitIds, IInv, OneHome, TypeOK, QueueTypeOK
<1>3. HitIds' = HitIds \ {id} /\ Resting' = Resting /\ Flying' = Flying
  <2>1. \A g \in hits : g.id = h.id => g = h
    BY DEF IInv, OneHome
  <2> QED
    BY <1>1, <2>1 DEF HitIds, Resting, Flying
<1>4. DOMAIN fills' = DOMAIN fills \cup {id} /\ position' \in Int
  <2>1. OrderOf[id].side \in Int
    BY <1>2, OrderAssumption DEF Order, BUY, SELL
  <2> QED
    BY <1>1, <1>2, <2>1 DEF RecordFill, Put, IInv, TypeOK
<1>5. QueueTypeOK'
  BY <1>1 DEF QueueTypeOK, IInv, TypeOK
<1>6. TypeOK'
  BY <1>1, <1>2, <1>4, <1>5 DEF TypeOK, IInv, Without
<1>7. OneHome'
  BY <1>1, <1>2, <1>3, <1>4 DEF OneHome, IInv
<1>8. RegisteredMatchesQueue'
  BY <1>1, <1>2, <1>3 DEF RegisteredMatchesQueue, Without, IInv
<1>9. PendingCancelInFlight'
  BY <1>1 DEF PendingCancelInFlight, Cancelling, Without, IInv
<1>10. NothingOverdue' /\ HitsInTick'
  BY <1>1 DEF NothingOverdue, Due, HitsInTick, IInv
<1> QED
  BY <1>6, <1>7, <1>8, <1>9, <1>10 DEF IInv

\* The strategy's turn preserves the invariant (pro.py 136-150).
LEMMA QuoteStep ==
    ASSUME IInv, NEW new \in SUBSET OrderIds, NEW gone \in SUBSET OrderIds, Quote(new, gone)
    PROVE  IInv'
<1>1. PICK od \in [{id \in new : WithinLimit(id)} -> OrderDelays], cd \in [gone -> CancelDelays] :
        /\ inflight' = inflight
              \cup {OrderEvent(id, now + od[id]) : id \in DOMAIN od}
              \cup {CancelEvent(id, now + cd[id], cancels[id] + 1) : id \in gone}
        /\ pendingCancels' = [id \in DOMAIN pendingCancels \cup gone |->
              IF id \in gone THEN now + cd[id] ELSE pendingCancels[id]]
  BY DEF Quote
<1>2. /\ phase = "record" /\ hits = {} /\ phase' = "idle" /\ tick' = NoTick
      /\ new \cap sent = {} /\ sent' = sent \cup new
      /\ cancels' = [id \in OrderIds |-> IF id \in gone THEN cancels[id] + 1 ELSE cancels[id]]
      /\ UNCHANGED <<front, prevBook, hits, now, todo, registerTs, position, fills, rejected>>
  BY DEF Quote, queueVars, ledgerVars
<1>3. DOMAIN od \subseteq new /\ \A id \in DOMAIN od : od[id] \in Nat
  BY EngineAssumption
<1>4. \A id \in gone : cd[id] \in Nat /\ cancels[id] \in Nat /\ id \in OrderIds
  BY EngineAssumption DEF IInv, TypeOK
<1>5. now \in Nat
  BY DEF IInv, TypeOK
<1>6. \A e \in inflight' :
        \/ e \in inflight
        \/ \E id \in new : e.kind = "order" /\ e.id = id /\ e = OrderEvent(id, now + od[id]) /\ now + od[id] \in Nat
        \/ \E id \in gone : e.kind = "cancel" /\ e.id = id /\ e = CancelEvent(id, now + cd[id], cancels[id] + 1)
                            /\ now + cd[id] \in Nat /\ cancels[id] + 1 \in Nat
  BY <1>1, <1>3, <1>4, <1>5 DEF OrderEvent, CancelEvent
<1>7. QueueTypeOK'
  BY <1>2 DEF QueueTypeOK, IInv, TypeOK
<1>8. TypeOK'
  <2>1. \A e \in inflight' : e \in [kind : {"order", "cancel"}, id : OrderIds, at : Nat, nth : Nat]
    BY <1>6 DEF OrderEvent, CancelEvent, IInv, TypeOK
  <2>2. DOMAIN pendingCancels' \subseteq OrderIds /\ \A id \in DOMAIN pendingCancels' : pendingCancels'[id] \in Nat
    BY <1>1, <1>4, <1>5 DEF IInv, TypeOK
  <2>3. cancels' \in [OrderIds -> Nat]
    BY <1>2 DEF IInv, TypeOK
  <2> QED
    BY <1>2, <1>7, <2>1, <2>2, <2>3 DEF IInv, TypeOK
<1>9. OneHome'
  <2>1. Resting' = Resting /\ HitIds' = HitIds
    BY <1>2 DEF Resting, HitIds
  <2>2. Flying' \subseteq Flying \cup new
    BY <1>6 DEF Flying, CancelEvent
  <2>3. Flying \cup Resting \cup HitIds \cup DOMAIN fills \cup rejected \subseteq sent
    BY DEF IInv, OneHome
  <2>4. \A d, e \in inflight' : d.kind = "order" /\ e.kind = "order" /\ d.id = e.id => d = e
    <3> SUFFICES ASSUME NEW d \in inflight', NEW e \in inflight', d.kind = "order", e.kind = "order", d.id = e.id
                 PROVE  d = e
      OBVIOUS
    <3>1. \A x \in inflight' : x.kind = "order" =>
            \/ x \in inflight /\ x.id \in sent
            \/ x.id \in new /\ x = OrderEvent(x.id, now + od[x.id])
      BY <1>6, <2>3 DEF Flying, CancelEvent
    <3> QED
      BY <1>2, <3>1 DEF IInv, OneHome
  <2> QED
    BY <1>2, <2>1, <2>2, <2>3, <2>4 DEF IInv, OneHome
<1>10. PendingCancelInFlight'
  <2> SUFFICES ASSUME NEW id \in DOMAIN pendingCancels'
               PROVE  \E e \in Cancelling' : e.id = id /\ e.at = pendingCancels'[id]
    BY DEF PendingCancelInFlight
  <2>1. CASE id \in gone
    <3> DEFINE e == CancelEvent(id, now + cd[id], cancels[id] + 1)
    <3>1. e \in inflight' /\ e.kind = "cancel" /\ e.id = id /\ e.at = now + cd[id]
      BY <1>1, <2>1 DEF CancelEvent
    <3>2. pendingCancels'[id] = now + cd[id]
      BY <1>1, <2>1
    <3> HIDE DEF e
    <3> QED
      BY <3>1, <3>2 DEF Cancelling
  <2>2. CASE id \notin gone
    <3>1. id \in DOMAIN pendingCancels /\ pendingCancels'[id] = pendingCancels[id]
      BY <1>1, <2>2
    <3>2. Cancelling \subseteq Cancelling'
      BY <1>1 DEF Cancelling
    <3> QED
      BY <3>1, <3>2 DEF IInv, PendingCancelInFlight
  <2> QED
    BY <2>1, <2>2
<1>11. RegisteredMatchesQueue' /\ NothingOverdue' /\ HitsInTick'
  BY <1>2 DEF RegisteredMatchesQueue, Resting, HitIds, NothingOverdue, HitsInTick, IInv
<1> QED
  BY <1>8, <1>9, <1>10, <1>11 DEF IInv

\* Every step preserves the invariant.
LEMMA NextInv == IInv /\ [Next]_vars => IInv'
<1> SUFFICES ASSUME IInv, [Next]_vars PROVE IInv'
  OBVIOUS
<1>1. CASE NextTick
  BY <1>1, TickStep DEF NextTick
<1>2. CASE Land
  <2>1. PICK e \in inflight : LandOrder(e) \/ LandCancel(e)
    BY <1>2 DEF Land
  <2>2. CASE LandOrder(e)
    BY <2>2, RestStep, RejectStep, TakeStep DEF LandOrder
  <2>3. CASE LandCancel(e)
    BY <2>3, LandCancelStep
  <2> QED
    BY <2>1, <2>2, <2>3
<1>3. CASE Queue
  BY <1>3, UpdateBookStep, StartQueueStep, NextTradeStep DEF Queue
<1>4. CASE \E h \in hits : RecordHit(h)
  BY <1>4, RecordHitStep
<1>5. CASE Act
  BY <1>5, QuoteStep DEF Act
<1>6. CASE UNCHANGED vars
  <2>1. UNCHANGED <<front, prevBook, hits, phase, now, tick, todo, inflight, registerTs,
                    pendingCancels, position, fills, rejected, sent, cancels>>
    BY <1>6 DEF vars, queueVars, engineVars, flightVars, ledgerVars, strategyVars
  <2>2. QueueTypeOK' /\ TypeOK'
    BY <2>1 DEF IInv, TypeOK, QueueTypeOK
  <2>3. OneHome' /\ PendingCancelInFlight'
    BY <2>1, OneHomeStays, PendingStays DEF Homes, IInv
  <2>4. RegisteredMatchesQueue' /\ NothingOverdue' /\ HitsInTick'
    BY <2>1 DEF RegisteredMatchesQueue, Resting, HitIds, NothingOverdue, Due, HitsInTick, IInv
  <2> QED
    BY <2>2, <2>3, <2>4 DEF IInv
<1> QED
  BY <1>1, <1>2, <1>3, <1>4, <1>5, <1>6 DEF Next, Step

\* The invariant holds in every reachable state.
LEMMA InvHolds == Spec => []IInv
  BY InitInv, NextInv, PTL DEF Spec

\* Every variable of the engine keeps its type; in particular no order lands
\* after the present tick.
THEOREM TypeCorrect == Spec => []TypeOK
<1>1. IInv => TypeOK
  BY DEF IInv
<1> QED
  BY <1>1, InvHolds, PTL

\* An order is in one place at a time, so no order is filled twice and none is
\* filled after it was rejected (pro.py _land_order, fifo.py _process_tick_python).
THEOREM OneHomeHolds == Spec => []OneHome
<1>1. IInv => OneHome
  BY DEF IInv
<1> QED
  BY <1>1, InvHolds, PTL

\* The landing times and the queue never drift apart (pro.py 115-118, 157-167).
THEOREM RegisteredMatches == Spec => []RegisteredMatchesQueue
<1>1. IInv => RegisteredMatchesQueue
  BY DEF IInv
<1> QED
  BY <1>1, InvHolds, PTL

\* No pending cancel outlives the cancel it stands for (pro.py 111-117, 150, 158).
THEOREM PendingIsInFlight == Spec => []PendingCancelInFlight
<1>1. IInv => PendingCancelInFlight
  BY DEF IInv
<1> QED
  BY <1>1, InvHolds, PTL

\* The only steps that record a fill: of a resting order, or of one that takes.
LEMMA NewFill ==
    ASSUME Next, NEW id \in DOMAIN fills', id \notin DOMAIN fills
    PROVE  \/ \E h \in hits : RecordHit(h) /\ h.id = id
           \/ fills'[id].displacement = 0 /\ ~fills'[id].maker
<1>1. CASE NextTick
  BY <1>1 DEF NextTick, Tick, ledgerVars
<1>2. CASE Land
  <2>1. PICK e \in inflight : LandOrder(e) \/ LandCancel(e)
    BY <1>2 DEF Land
  <2>2. LandOrder(e) /\ Take(e.id)
    BY <2>1 DEF LandOrder, LandCancel, Rest, Reject, ledgerVars
  <2> QED
    BY <2>2 DEF Take, RecordFill, Put
<1>3. CASE Queue
  BY <1>3 DEF Queue, SkipQueue, StartQueue, NextTrade, EndQueue, ledgerVars
<1>4. CASE \E h \in hits : RecordHit(h)
  BY <1>4 DEF RecordHit, RecordFill, Put
<1>5. CASE Act
  BY <1>5 DEF Act, Quote, ledgerVars
<1> QED
  BY <1>1, <1>2, <1>3, <1>4, <1>5 DEF Next, Step

\* A fill is charged queue displacement only against a cancel that is really
\* late, for the time between the order's landing and that cancel's arrival.
THEOREM DisplacementIsLate == Spec => DisplacementMeansLate
<1> DEFINE P == \A id \in DOMAIN fills' \ DOMAIN fills :
                   fills'[id].displacement # 0 =>
                      \E e \in Cancelling :
                         /\ e.id = id /\ e.at > now
                         /\ fills'[id].displacement = e.at - registerTs[id]
<1>1. IInv /\ [Next]_vars => P
  <2> SUFFICES ASSUME IInv, Next, NEW id \in DOMAIN fills' \ DOMAIN fills,
                      fills'[id].displacement # 0
               PROVE  \E e \in Cancelling :
                         /\ e.id = id /\ e.at > now
                         /\ fills'[id].displacement = e.at - registerTs[id]
    BY DEF vars, ledgerVars
  <2>1. PICK h \in hits : RecordHit(h) /\ h.id = id
    BY NewFill
  <2>2. fills'[id].displacement = Displacement(id)
    BY <2>1 DEF RecordHit, RecordFill, Put
  <2>3. id \in DOMAIN pendingCancels /\ Displacement(id) = pendingCancels[id] - registerTs[id]
    BY <2>2 DEF Displacement
  <2>4. PICK e \in Cancelling : e.id = id /\ e.at = pendingCancels[id]
    BY <2>3 DEF IInv, PendingCancelInFlight
  <2>5. e \notin Due /\ e \in inflight
    BY <2>1 DEF RecordHit, IInv, NothingOverdue, Cancelling
  <2>6. e.at \in Nat /\ now \in Nat
    BY <2>5 DEF IInv, TypeOK
  <2>7. e.at > now
    BY <2>5, <2>6 DEF Due
  <2> QED
    BY <2>2, <2>3, <2>4, <2>7
<1> QED
  BY <1>1, InvHolds, PTL DEF Spec, DisplacementMeansLate

-----------------------------------------------------------------------------
(* With one cancel per order at most, no late one goes uncharged.          *)

\* An order has one cancel on its way at most, of those sent for it, and it is
\* pending until it lands or the order is filled.
OneCancel ==
    /\ \A e \in Cancelling : cancels[e.id] # 0
    /\ \A d, e \in Cancelling : d.id = e.id => d = e
    /\ \A e \in Cancelling : e.id \in DOMAIN fills \/ e.id \in DOMAIN pendingCancels

\* What keeps it: no cancel is new, no entry goes but with its cancel or a fill.
LEMMA OneCancelStays ==
    ASSUME OneCancel, Cancelling' \subseteq Cancelling, cancels' = cancels,
           DOMAIN fills \subseteq DOMAIN fills',
           \A e \in Cancelling' : e.id \in DOMAIN pendingCancels =>
               e.id \in DOMAIN fills' \/ e.id \in DOMAIN pendingCancels'
    PROVE  OneCancel'
  BY DEF OneCancel

\* An order lands: its cancel stays on its way, and pending (pro.py 161-180).
LEMMA LandOrderKeepsCancel ==
    ASSUME OneCancel, NEW e \in inflight, LandOrder(e)
    PROVE  OneCancel'
<1>1. inflight' = inflight \ {e} /\ pendingCancels' = pendingCancels /\ cancels' = cancels
  BY DEF LandOrder, strategyVars
<1>2. DOMAIN fills \subseteq DOMAIN fills'
  BY DEF LandOrder, Rest, Reject, Take, RecordFill, Put, ledgerVars
<1> QED
  BY <1>1, <1>2, OneCancelStays DEF Cancelling

\* A cancel lands, and its entry goes with it (pro.py 156-159).
LEMMA LandCancelKeepsCancel ==
    ASSUME OneCancel, NEW e \in inflight, LandCancel(e)
    PROVE  OneCancel'
<1>1. /\ inflight' = inflight \ {e} /\ fills' = fills /\ cancels' = cancels
      /\ DOMAIN pendingCancels' = DOMAIN pendingCancels \ {e.id} /\ e \in Cancelling
  BY DEF LandCancel, Without, strategyVars, ledgerVars, Cancelling
<1>2. \A d \in Cancelling' : d \in Cancelling /\ d # e
  BY <1>1 DEF Cancelling
<1>3. \A d \in Cancelling' : d.id # e.id
  BY <1>1, <1>2 DEF OneCancel
<1> QED
  BY <1>1, <1>2, <1>3, OneCancelStays

\* A fill is recorded: the entry of its cancel goes, and the order is filled
\* (pro.py 110-119).
LEMMA RecordHitKeepsCancel ==
    ASSUME OneCancel, NEW h \in hits, RecordHit(h)
    PROVE  OneCancel'
<1>1. /\ inflight' = inflight /\ cancels' = cancels
      /\ DOMAIN fills' = DOMAIN fills \cup {h.id}
      /\ DOMAIN pendingCancels' = DOMAIN pendingCancels \ {h.id}
  BY DEF RecordHit, RecordFill, Put, Without, strategyVars
<1> QED
  BY <1>1, OneCancelStays DEF Cancelling

\* The strategy cancels what it has not cancelled yet (pro.py 141-150).
LEMMA QuoteKeepsCancel ==
    ASSUME MaxCancels <= 1, IInv, OneCancel, NEW new \in SUBSET OrderIds, NEW gone \in SUBSET OrderIds,
           Quote(new, gone)
    PROVE  OneCancel'
<1>1. PICK od \in [{id \in new : WithinLimit(id)} -> OrderDelays], cd \in [gone -> CancelDelays] :
          /\ inflight' = inflight
                \cup {OrderEvent(id, now + od[id]) : id \in DOMAIN od}
                \cup {CancelEvent(id, now + cd[id], cancels[id] + 1) : id \in gone}
          /\ pendingCancels' = [id \in DOMAIN pendingCancels \cup gone |->
                IF id \in gone THEN now + cd[id] ELSE pendingCancels[id]]
  BY DEF Quote
<1>2. /\ \A id \in OrderIds : cancels[id] \in Nat
      /\ \A id \in gone : cancels[id] < MaxCancels
      /\ cancels' = [id \in OrderIds |-> IF id \in gone THEN cancels[id] + 1 ELSE cancels[id]]
      /\ fills' = fills
  BY DEF Quote, IInv, TypeOK, ledgerVars
<1>3. \A id \in gone : id \in OrderIds /\ cancels[id] = 0 /\ cancels'[id] = 1
  BY <1>2, EngineAssumption
<1>4. \A e \in Cancelling : e.id \in OrderIds /\ e.id \notin gone /\ cancels'[e.id] = cancels[e.id]
  <2> TAKE e \in Cancelling
  <2>1. e.id \in OrderIds
    BY DEF IInv, TypeOK, Cancelling
  <2>2. e.id \notin gone
    BY <1>3 DEF OneCancel
  <2> QED
    BY <1>2, <2>1, <2>2
<1>5. \A e \in Cancelling' : \/ e \in Cancelling
                             \/ e.id \in gone /\ e = CancelEvent(e.id, now + cd[e.id], cancels[e.id] + 1)
  BY <1>1 DEF Cancelling, OrderEvent, CancelEvent
<1>6. \A e \in Cancelling' : cancels'[e.id] # 0
  BY <1>3, <1>4, <1>5 DEF OneCancel
<1>7. \A d, e \in Cancelling' : d.id = e.id => d = e
  BY <1>4, <1>5 DEF OneCancel
<1>8. \A e \in Cancelling' : e.id \in DOMAIN fills' \/ e.id \in DOMAIN pendingCancels'
  BY <1>1, <1>2, <1>5 DEF OneCancel
<1> QED
  BY <1>6, <1>7, <1>8 DEF OneCancel

\* Every step keeps it.
LEMMA StepKeepsCancel ==
    ASSUME MaxCancels <= 1, IInv, OneCancel, [Next]_vars
    PROVE  OneCancel'
<1>1. CASE NextTick \/ Queue \/ UNCHANGED vars
  <2>1. inflight' = inflight /\ pendingCancels' = pendingCancels /\ fills' = fills /\ cancels' = cancels
    BY <1>1 DEF NextTick, Tick, Queue, SkipQueue, StartQueue, NextTrade, EndQueue, vars,
                flightVars, ledgerVars, strategyVars
  <2> QED
    BY <2>1, OneCancelStays DEF Cancelling
<1>2. CASE Land
  BY <1>2, LandOrderKeepsCancel, LandCancelKeepsCancel DEF Land
<1>3. CASE \E h \in hits : RecordHit(h)
  BY <1>3, RecordHitKeepsCancel
<1>4. CASE Act
  BY <1>4, QuoteKeepsCancel DEF Act
<1> QED
  BY <1>1, <1>2, <1>3, <1>4 DEF Next, Step

\* A maker fill that beats a cancel on its way is charged, if a strategy sends
\* one cancel per order at most: its arrival is past the present tick, which the
\* order's landing is not (pro.py 110-118).
THEOREM LateCancelsAreCharged == ASSUME MaxCancels <= 1 PROVE Spec => LateCancelCharged
<1> DEFINE P == \A id \in DOMAIN fills' \ DOMAIN fills :
                   fills'[id].maker /\ (\E e \in Cancelling : e.id = id) =>
                      fills'[id].displacement > 0
<1>1. IInv /\ OneCancel /\ [Next]_vars => P
  <2> SUFFICES ASSUME IInv, OneCancel, Next, NEW id \in DOMAIN fills' \ DOMAIN fills,
                      fills'[id].maker, NEW e \in Cancelling, e.id = id
               PROVE  fills'[id].displacement > 0
    BY DEF vars, ledgerVars
  <2>1. PICK h \in hits : RecordHit(h) /\ h.id = id
    BY NewFill
  <2>2. fills'[id].displacement = Displacement(id) /\ phase = "record"
    BY <2>1 DEF RecordHit, RecordFill, Put
  <2>3. id \in DOMAIN pendingCancels
    BY DEF OneCancel
  <2>4. PICK d \in Cancelling : d.id = id /\ d.at = pendingCancels[id]
    BY <2>3 DEF IInv, PendingCancelInFlight
  <2>5. d.at > now /\ d.at \in Nat /\ now \in Nat
    BY <2>2, <2>4 DEF IInv, NothingOverdue, Due, Cancelling, TypeOK
  <2>6. id \in DOMAIN registerTs /\ registerTs[id] \in 0..now
    BY <2>1 DEF IInv, RegisteredMatchesQueue, TypeOK, HitIds
  <2> QED
    BY <2>2, <2>3, <2>4, <2>5, <2>6 DEF Displacement
<1>2. Init => OneCancel
  BY DEF Init, OneCancel, Cancelling
<1>3. IInv /\ OneCancel /\ [Next]_vars => OneCancel'
  BY StepKeepsCancel
<1>4. P => (\A id \in DOMAIN fills' \ DOMAIN fills :
               fills'[id].maker /\ (\E e \in Cancelling : e.id = id) =>
                  fills'[id].displacement > 0)
  OBVIOUS
<1> QED
  BY <1>1, <1>2, <1>3, <1>4, InvHolds, PTL DEF Spec, LateCancelCharged

-----------------------------------------------------------------------------
(* The engine implements OrderLifecycle                                    *)

\* With every order in one place, Status can be read off in any order.
LEMMA StatusOf ==
    ASSUME OneHome, NEW id
    PROVE  /\ id \notin sent => Status(id) = "new"
           /\ id \in Flying => Status(id) = "flying"
           /\ id \in Resting => Status(id) = "resting"
           /\ id \in HitIds => Status(id) = "hit"
           /\ id \in DOMAIN fills => Status(id) = "filled"
           /\ id \in rejected => Status(id) = "rejected"
           /\ id \in sent /\ id \notin Flying \cup Resting \cup HitIds \cup DOMAIN fills \cup rejected
                 => Status(id) = "dead"
  BY DEF OneHome, Status

\* Every order is in one of the states of the life cycle.
LEMMA StatusInStates ==
    ASSUME NEW id
    PROVE  Status(id) \in Lifecycle!States /\ Status(id)' \in Lifecycle!States
<1>1. Status(id) \in Lifecycle!States
  BY DEF Status, Lifecycle!States
<1>2. Status(id)' \in Lifecycle!States
  BY DEF Status, Lifecycle!States
<1> QED
  BY <1>1, <1>2

\* A step that moves orders along the edges only and leaves the position alone.
Moves == \A id \in OrderIds :
            Status(id)' = Status(id) \/ <<Status(id), Status(id)'>> \in Lifecycle!Edges

\* Moves along the life cycle that leave the position are steps of it.
LEMMA AdvanceFromMoves ==
    ASSUME Moves, position' = position
    PROVE  Lifecycle!Advance
  BY StatusInStates DEF Moves, Lifecycle!Advance

\* Where no home changes no status does.
LEMMA StatusStays ==
    ASSUME UNCHANGED Homes
    PROVE  Moves
<1>1. Flying' = Flying /\ Resting' = Resting /\ HitIds' = HitIds
  BY DEF Homes, Flying, Resting, HitIds
<1> QED
  BY <1>1 DEF Moves, Homes, Status

\* An order landing is a step of the life cycle (pro.py 161-180).
LEMMA LandOrderRefines ==
    ASSUME IInv, IInv', NEW e \in inflight, LandOrder(e)
    PROVE  Lifecycle!Next
<1> DEFINE id == e.id
<1>1. /\ id \in OrderIds /\ OrderOf[id] \in Order /\ id \in sent
      /\ id \notin Resting \cup HitIds \cup DOMAIN fills \cup rejected
      /\ Flying' = Flying \ {id} /\ id \in Flying
      /\ tick.book \in Books \cup {EmptyBook}
  BY LandOrderFacts DEF Flying, LandOrder
<1>2. Status(id) = "flying"
  BY <1>1, StatusOf DEF IInv
<1>3. sent' = sent /\ OneHome /\ OneHome'
  BY DEF LandOrder, strategyVars, IInv
<1>4. ASSUME HitIds' = HitIds, Resting' \subseteq Resting \cup {id}, Resting \subseteq Resting',
             DOMAIN fills' \subseteq DOMAIN fills \cup {id}, DOMAIN fills \subseteq DOMAIN fills',
             rejected' \subseteq rejected \cup {id}, rejected \subseteq rejected'
      PROVE  \A x \in OrderIds \ {id} : Status(x)' = Status(x)
  BY <1>1, <1>3, <1>4 DEF Status
<1>5. CASE Rest(id)
  <2>1. /\ HitIds' = HitIds /\ Resting' = Resting \cup {id}
        /\ fills' = fills /\ rejected' = rejected /\ position' = position
    BY <1>5 DEF Rest, Register, Put, HitIds, Resting, ledgerVars
  <2>2. Status(id)' = "resting"
    BY <1>1, <1>3, <2>1 DEF Status
  <2>3. Moves
    BY <1>2, <1>4, <2>1, <2>2 DEF Moves, Lifecycle!Edges
  <2> QED
    BY <2>1, <2>3, AdvanceFromMoves DEF Lifecycle!Next
<1>6. CASE Reject(id)
  <2>1. /\ HitIds' = HitIds /\ Resting' = Resting /\ position' = position
        /\ fills' = fills /\ rejected' = rejected \cup {id}
    BY <1>6 DEF Reject, HitIds, Resting, queueVars
  <2>2. Status(id)' = "rejected"
    BY <1>1, <1>3, <2>1 DEF Status
  <2>3. Moves
    BY <1>2, <1>4, <2>1, <2>2 DEF Moves, Lifecycle!Edges
  <2> QED
    BY <2>1, <2>3, AdvanceFromMoves DEF Lifecycle!Next
<1>7. CASE Take(id)
  <2> DEFINE size == TakerSize(OrderOf[id], tick.book)
  <2>1. HitIds' = HitIds /\ Resting' = Resting /\ rejected' = rejected
    BY <1>7 DEF Take, HitIds, Resting, queueVars
  <2>2. CASE size > 0
    <3>1. DOMAIN fills' = DOMAIN fills \cup {id} /\ position' = position + OrderOf[id].side * size
      BY <1>7, <2>2 DEF Take, RecordFill, Put
    <3>2. Status(id)' = "filled"
      BY <1>1, <1>3, <2>1, <3>1 DEF Status
    <3>3. \A x \in OrderIds \ {id} : Status(x)' = Status(x)
      BY <1>4, <2>1, <3>1
    <3>4. size \in 1..OrderOf[id].size
      <4>1. size \in Nat
        BY <1>1, DepthsAreSizes
      <4>2. OrderOf[id].size \in Nat
        BY <1>1 DEF Order
      <4>3. \A n : Lesser(OrderOf[id].size, n) \in Nat => Lesser(OrderOf[id].size, n) <= OrderOf[id].size
        BY <4>2 DEF Lesser
      <4>4. size <= OrderOf[id].size
        BY <4>1, <4>3 DEF TakerSize
      <4> QED
        BY <2>2, <4>1, <4>2, <4>4
    <3>5. [x \in OrderIds |-> Status(x)]' = [[x \in OrderIds |-> Status(x)] EXCEPT ![id] = "filled"]
      BY <1>1, <3>2, <3>3
    <3> HIDE DEF size
    <3>6. Lifecycle!Fill(id)
      BY <1>1, <1>2, <3>1, <3>4, <3>5 DEF Lifecycle!Fill
    <3> QED
      BY <1>1, <3>6 DEF Lifecycle!Next
  <2>3. CASE ~(size > 0)
    <3>1. fills' = fills /\ position' = position
      BY <1>7, <2>3 DEF Take
    <3>2. Status(id)' = "dead"
      BY <1>1, <1>3, <2>1, <3>1 DEF Status
    <3>3. Moves
      BY <1>2, <1>4, <2>1, <3>1, <3>2 DEF Moves, Lifecycle!Edges
    <3> QED
      BY <3>1, <3>3, AdvanceFromMoves DEF Lifecycle!Next
  <2> QED
    BY <2>2, <2>3
<1> QED
  BY <1>5, <1>6, <1>7 DEF LandOrder

\* A cancel landing is a step of the life cycle, or none (pro.py 156-159).
LEMMA LandCancelRefines ==
    ASSUME IInv, IInv', NEW e \in inflight, LandCancel(e)
    PROVE  Moves /\ position' = position
<1>1. /\ Flying' = Flying /\ HitIds' = HitIds /\ Resting' = Resting \ {e.id}
      /\ fills' = fills /\ rejected' = rejected /\ sent' = sent /\ position' = position
  BY DEF LandCancel, Cancel, Without, Flying, HitIds, Resting, ledgerVars, strategyVars
<1>2. ASSUME NEW x \in OrderIds, x \notin Resting \/ x # e.id
      PROVE  Status(x)' = Status(x)
  BY <1>1, <1>2 DEF Status
<1>3. ASSUME NEW x \in OrderIds, x \in Resting, x = e.id
      PROVE  Status(x) = "resting" /\ Status(x)' = "dead"
  <2>1. Status(x) = "resting"
    BY <1>3, StatusOf DEF IInv
  <2>2. x \in sent /\ x \notin Flying \cup HitIds \cup DOMAIN fills \cup rejected
    BY <1>3 DEF IInv, OneHome
  <2>3. Status(x)' = "dead"
    BY <1>1, <1>3, <2>2 DEF Status
  <2> QED
    BY <2>1, <2>3
<1> QED
  BY <1>1, <1>2, <1>3 DEF Moves, Lifecycle!Edges

\* A trade moves the orders it fills from resting to hit, and no other.
LEMMA NextTradeRefines ==
    ASSUME IInv, IInv', NextTrade
    PROVE  Moves /\ position' = position
<1> DEFINE t == Head(todo)
<1>1. MatchTrade(t, Len(todo))
  BY DEF NextTrade
<1> HIDE DEF t
<1>2. /\ HitIds' = HitIds \cup HitBy(t) /\ HitBy(t) \subseteq Resting
      /\ Resting' = Resting \ HitBy(t)
  BY <1>1, MatchTradeMoves DEF HitIds, Resting
<1>3. /\ Flying' = Flying /\ fills' = fills /\ rejected' = rejected /\ sent' = sent
      /\ position' = position
  BY DEF NextTrade, flightVars, ledgerVars, strategyVars, Flying
<1>4. ASSUME NEW x \in OrderIds, x \notin HitBy(t) PROVE Status(x)' = Status(x)
  BY <1>2, <1>3, <1>4 DEF Status
<1>5. ASSUME NEW x \in HitBy(t) PROVE Status(x) = "resting" /\ Status(x)' = "hit"
  <2>1. Status(x) = "resting"
    BY <1>2, StatusOf DEF IInv
  <2>2. x \in sent /\ x \notin Flying \cup DOMAIN fills \cup rejected
    BY <1>2 DEF IInv, OneHome
  <2>3. x \in HitIds' /\ x \notin Resting'
    BY <1>2
  <2>4. Status(x)' = "hit"
    BY <1>3, <2>2, <2>3 DEF Status
  <2> QED
    BY <2>1, <2>4
<1> QED
  BY <1>3, <1>4, <1>5 DEF Moves, Lifecycle!Edges

\* Recording a fill is a fill of the life cycle (pro.py 182-188).
LEMMA RecordHitRefines ==
    ASSUME IInv, IInv', NEW h \in hits, RecordHit(h)
    PROVE  Lifecycle!Fill(h.id)
<1> DEFINE id == h.id
<1>1. /\ UNCHANGED <<front, inflight, rejected, sent>> /\ hits' = hits \ {h}
      /\ DOMAIN fills' = DOMAIN fills \cup {id}
      /\ position' = position + OrderOf[id].side * h.size
  BY DEF RecordHit, RecordFill, Put, strategyVars
<1>2. id \in HitIds /\ id \in OrderIds /\ h.size \in 1..OrderOf[id].size
  BY DEF HitIds, IInv, HitsInTick, TypeOK, QueueTypeOK
<1>3. Status(id) = "hit"
  BY <1>2, StatusOf DEF IInv
<1>4. Flying' = Flying /\ Resting' = Resting /\ HitIds' = HitIds \ {id}
  <2>1. \A g \in hits : g.id = h.id => g = h
    BY DEF IInv, OneHome
  <2> QED
    BY <1>1, <2>1 DEF Flying, Resting, HitIds
<1>5. Status(id)' = "filled"
  <2>1. id \in DOMAIN fills' /\ OneHome'
    BY <1>1 DEF IInv
  <2>2. id \in sent' /\ id \notin Flying' \cup Resting' \cup HitIds' \cup rejected'
    BY <2>1 DEF OneHome
  <2> QED
    BY <2>1, <2>2 DEF Status
<1>6. ASSUME NEW x \in OrderIds \ {id} PROVE Status(x)' = Status(x)
  BY <1>1, <1>4 DEF Status
<1>7. [x \in OrderIds |-> Status(x)]' = [[x \in OrderIds |-> Status(x)] EXCEPT ![id] = "filled"]
  BY <1>2, <1>5, <1>6
<1> QED
  BY <1>1, <1>2, <1>3, <1>7 DEF Lifecycle!Fill

\* The strategy's turn moves new orders to flying or dead (pro.py 141-150).
LEMMA QuoteRefines ==
    ASSUME IInv, IInv', NEW new \in SUBSET OrderIds, NEW gone \in SUBSET OrderIds, Quote(new, gone)
    PROVE  Moves /\ position' = position
<1>1. /\ UNCHANGED <<front, hits, position, fills, rejected>>
      /\ sent' = sent \cup new /\ new \cap sent = {}
  BY DEF Quote, queueVars, ledgerVars
<1>2. Resting' = Resting /\ HitIds' = HitIds
  BY <1>1 DEF Resting, HitIds
<1>3. Flying \subseteq Flying' /\ Flying' \subseteq Flying \cup new
  <2>1. PICK od \in [{id \in new : WithinLimit(id)} -> OrderDelays], cd \in [gone -> CancelDelays] :
           inflight' = inflight
              \cup {OrderEvent(id, now + od[id]) : id \in DOMAIN od}
              \cup {CancelEvent(id, now + cd[id], cancels[id] + 1) : id \in gone}
    BY DEF Quote
  <2>2. \A e \in inflight' : e.kind = "order" => e \in inflight \/ e.id \in new
    BY <2>1 DEF OrderEvent, CancelEvent
  <2> QED
    BY <2>1, <2>2 DEF Flying
<1>4. ASSUME NEW x \in OrderIds, x \in new
      PROVE  Status(x) = "new" /\ Status(x)' \in {"flying", "dead"}
  <2>1. x \notin sent
    BY <1>1, <1>4
  <2>2. Status(x) = "new"
    BY <2>1, StatusOf DEF IInv
  <2>3. x \notin Resting \cup HitIds \cup DOMAIN fills \cup rejected
    BY <2>1 DEF IInv, OneHome
  <2> QED
    BY <1>1, <1>2, <1>4, <2>2, <2>3 DEF Status
<1>5. ASSUME NEW x \in OrderIds, x \notin new PROVE Status(x)' = Status(x)
  BY <1>1, <1>2, <1>3, <1>5 DEF Status
<1> QED
  BY <1>1, <1>4, <1>5 DEF Moves, Lifecycle!Edges

\* Every step of the engine is a step of the life cycle or a stutter.
LEMMA StepRefines ==
    IInv /\ IInv' /\ [Next]_vars
      => [Lifecycle!Next]_<<[id \in OrderIds |-> Status(id)], position>>
<1> SUFFICES ASSUME IInv, IInv', [Next]_vars
             PROVE  Lifecycle!Next \/ UNCHANGED <<[id \in OrderIds |-> Status(id)], position>>
  OBVIOUS
<1>1. ASSUME UNCHANGED <<Homes, position>> PROVE Lifecycle!Next
  BY <1>1, StatusStays, AdvanceFromMoves DEF Lifecycle!Next
<1>2. CASE NextTick
  BY <1>1, <1>2 DEF NextTick, Tick, Homes, queueVars, flightVars, ledgerVars, strategyVars
<1>3. CASE Land
  BY <1>3, LandOrderRefines, LandCancelRefines, AdvanceFromMoves DEF Land, Lifecycle!Next
<1>4. CASE Queue
  <2>1. CASE NextTrade
    BY <2>1, NextTradeRefines, AdvanceFromMoves DEF Lifecycle!Next
  <2>2. CASE SkipQueue \/ EndQueue
    BY <1>1, <2>2 DEF SkipQueue, EndQueue, UpdateBook, Homes, flightVars, ledgerVars, strategyVars
  <2>3. CASE StartQueue
    <3>1. /\ Resting' = Resting /\ HitIds' = HitIds /\ Flying' = Flying
          /\ UNCHANGED <<fills, rejected, sent, position>>
      BY <2>3 DEF StartQueue, InferCancels, Resting, HitIds, Flying, flightVars, ledgerVars,
                  strategyVars
    <3>2. Moves
      BY <3>1 DEF Moves, Status
    <3> QED
      BY <3>1, <3>2, AdvanceFromMoves DEF Lifecycle!Next
  <2> QED
    BY <1>4, <2>1, <2>2, <2>3 DEF Queue
<1>5. CASE \E h \in hits : RecordHit(h)
  <2>1. PICK h \in hits : RecordHit(h)
    BY <1>5
  <2>2. h.id \in OrderIds
    BY DEF IInv, TypeOK, QueueTypeOK
  <2> QED
    BY <2>1, <2>2, RecordHitRefines DEF Lifecycle!Next
<1>6. CASE Act
  BY <1>6, QuoteRefines, AdvanceFromMoves DEF Act, Lifecycle!Next
<1>7. CASE UNCHANGED vars
  BY <1>1, <1>7 DEF vars, Homes, queueVars, engineVars, flightVars, ledgerVars, strategyVars
<1> QED
  BY <1>2, <1>3, <1>4, <1>5, <1>6, <1>7 DEF Next, Step

\* The engine starts where the life cycle starts.
LEMMA InitRefines == Init => Lifecycle!Init
<1> SUFFICES ASSUME Init PROVE Lifecycle!Init
  OBVIOUS
<1>1. \A id \in OrderIds : Status(id) = "new"
  BY InitInv, StatusOf DEF Init, IInv
<1> QED
  BY <1>1 DEF Init, Lifecycle!Init

\* Whatever the latencies, the market and the strategy do, the engine treats
\* every order as OrderLifecycle promises.
THEOREM EngineImplementsLifecycle == Spec => ImplementsLifecycle
  BY InitRefines, StepRefines, InvHolds, PTL DEF Spec, ImplementsLifecycle, Lifecycle!Spec

-----------------------------------------------------------------------------
(* The limit.  The life cycle of the orders carries the argument: only the *)
(* strategy's turn makes an order outstanding, and only a fill moves the   *)
(* position.                                                               *)

\* A filled order of its side was once outstanding together with this one.
Shadowed(id) == \E y \in DOMAIN fills : OneSide(id, y) /\ <<id, y>> \in overlapped

\* Filled to its whole size, the order would not take the position past the limit.
Fits(id) == OrderOf[id].side * position + OrderOf[id].size <= MaxPosition

LimitInv ==
    /\ Together \subseteq overlapped
    /\ \A id \in Outstanding : Fits(id) \/ Shadowed(id)
    /\ LimitPassedTogether

\* What an order is, and that the limit is a number.
LEMMA OrderFacts ==
    /\ MaxPosition \in Nat
    /\ \A id \in OrderIds : OrderOf[id].side \in {1, -1} /\ OrderOf[id].size \in Nat
<1>1. BUY = 1 /\ SELL = -1
  BY DEF BUY, SELL
<1> QED
  BY <1>1, OrderAssumption, EngineAssumption DEF Order

\* The states in which an order can still be filled.
Open == {"flying", "resting", "hit"}

\* Outstanding and filled orders, told from the states of the life cycle.
LEMMA OpenOrFilled ==
    ASSUME IInv, IInv'
    PROVE  /\ Outstanding \subseteq OrderIds /\ Outstanding' \subseteq OrderIds
           /\ DOMAIN fills \subseteq OrderIds /\ DOMAIN fills' \subseteq OrderIds
           /\ \A id \in OrderIds :
                 /\ id \in Outstanding <=> Status(id) \in Open
                 /\ id \in Outstanding' <=> Status(id)' \in Open
                 /\ id \in DOMAIN fills <=> Status(id) = "filled"
                 /\ id \in DOMAIN fills' <=> Status(id)' = "filled"
<1>1. /\ DOMAIN fills \subseteq OrderIds /\ DOMAIN fills' \subseteq OrderIds
      /\ sent \subseteq OrderIds /\ sent' \subseteq OrderIds
  BY DEF IInv, TypeOK
<1>2. Outstanding \subseteq sent /\ Outstanding' \subseteq sent'
  BY DEF IInv, OneHome, Outstanding
<1>3. ASSUME NEW id \in OrderIds
      PROVE  /\ id \in Outstanding <=> Status(id) \in Open
             /\ id \in DOMAIN fills <=> Status(id) = "filled"
  BY DEF IInv, OneHome, Outstanding, Open, Status
<1>4. ASSUME NEW id \in OrderIds
      PROVE  /\ id \in Outstanding' <=> Status(id)' \in Open
             /\ id \in DOMAIN fills' <=> Status(id)' = "filled"
  BY DEF IInv, OneHome, Outstanding, Open, Status
<1> QED
  BY <1>1, <1>2, <1>3, <1>4

\* While the position stands still, whatever becomes outstanding has to fit.
LEMMA StillLimit ==
    ASSUME LimitInv, overlapped' = overlapped \cup Together',
           DOMAIN fills \subseteq DOMAIN fills', position' = position,
           \A id \in Outstanding' \ Outstanding : Fits(id)
    PROVE  LimitInv'
<1>1. Together' \subseteq overlapped'
  OBVIOUS
<1>2. \A id \in Outstanding' : Fits(id)' \/ Shadowed(id)'
  BY DEF LimitInv, Fits, Shadowed
<1>3. LimitPassedTogether'
  BY DEF LimitInv, LimitPassedTogether
<1> QED
  BY <1>1, <1>2, <1>3 DEF LimitInv

\* A fill passes the limit only for an order that is shadowed, and shadows all
\* the others of its side.
LEMMA FillLimit ==
    ASSUME IInv, IInv', LimitInv, overlapped' = overlapped \cup Together',
           NEW id \in Outstanding, NEW size \in 1..OrderOf[id].size,
           position' = position + OrderOf[id].side * size,
           DOMAIN fills' = DOMAIN fills \cup {id}, id \notin DOMAIN fills,
           Outstanding' \subseteq Outstanding \ {id}
    PROVE  LimitInv'
<1>1. /\ position \in Int /\ MaxPosition \in Nat /\ id \in OrderIds /\ Outstanding \subseteq OrderIds
      /\ \A x \in OrderIds : OrderOf[x].side \in {1, -1} /\ OrderOf[x].size \in Nat
  BY OrderFacts, OpenOrFilled DEF IInv, TypeOK
<1>2. Together' \subseteq overlapped' /\ overlapped \subseteq overlapped'
  OBVIOUS
<1>3. ASSUME NEW x \in Outstanding' PROVE Fits(x)' \/ Shadowed(x)'
  <2>1. x \in Outstanding /\ x \in OrderIds
    BY <1>1, <1>3
  <2>2. CASE OneSide(x, id)
    <3>1. <<x, id>> \in Together
      BY <2>1, <2>2 DEF Together
    <3> QED
      BY <1>2, <2>2, <3>1 DEF LimitInv, Shadowed
  <2>3. CASE ~OneSide(x, id)
    <3>1. CASE Shadowed(x)
      BY <1>2, <3>1 DEF Shadowed
    <3>2. CASE Fits(x)
      <4>1. OrderOf[x].side = -OrderOf[id].side
        BY <1>1, <2>1, <2>3 DEF OneSide
      <4>2. OrderOf[x].side * position' <= OrderOf[x].side * position
        BY <1>1, <2>1, <4>1
      <4> QED
        BY <1>1, <2>1, <3>2, <4>2 DEF Fits
    <3> QED
      BY <2>1, <3>1, <3>2 DEF LimitInv
  <2> QED
    BY <2>2, <2>3
<1>4. LimitPassedTogether'
  <2> SUFFICES ASSUME Abs(position') > MaxPosition
               PROVE  \E x, y \in DOMAIN fills' :
                         x # y /\ <<x, y>> \in overlapped' /\ OrderOf[x].side * position' > 0
    BY DEF LimitPassedTogether
  <2>1. CASE OrderOf[id].side * position' > 0
    <3>1. CASE Fits(id)
      <4>1. OrderOf[id].side * position' <= MaxPosition
        BY <1>1, <3>1 DEF Fits
      <4> QED
        BY <1>1, <2>1, <4>1 DEF Abs
    <3>2. CASE Shadowed(id)
      BY <1>2, <2>1, <3>2 DEF Shadowed
    <3> QED
      BY <3>1, <3>2 DEF LimitInv
  <2>2. CASE ~(OrderOf[id].side * position' > 0)
    <3>1. /\ Abs(position) > MaxPosition
          /\ \A s \in {1, -1} : s * position > 0 => s * position' > 0
      <4>1. CASE OrderOf[id].side = 1
        BY <1>1, <2>2, <4>1 DEF Abs
      <4>2. CASE OrderOf[id].side = -1
        BY <1>1, <2>2, <4>2 DEF Abs
      <4> QED
        BY <1>1, <4>1, <4>2
    <3>2. PICK x, y \in DOMAIN fills :
             x # y /\ <<x, y>> \in overlapped /\ OrderOf[x].side * position > 0
      BY <3>1 DEF LimitInv, LimitPassedTogether
    <3>3. OrderOf[x].side \in {1, -1}
      BY <1>1, OpenOrFilled
    <3> QED
      BY <1>2, <3>1, <3>2, <3>3
  <2> QED
    BY <2>1, <2>2
<1> QED
  BY <1>2, <1>3, <1>4 DEF LimitInv

\* The strategy's turn: what is sent fits (pro.py 141-150, risk/base.py 25-27).
LEMMA QuoteLimit ==
    ASSUME IInv, IInv', LimitInv, overlapped' = overlapped \cup Together',
           NEW new \in SUBSET OrderIds, NEW gone \in SUBSET OrderIds, Quote(new, gone)
    PROVE  LimitInv'
<1>1. /\ UNCHANGED <<front, hits, position, fills>>
  BY DEF Quote, queueVars, ledgerVars
<1>2. PICK od \in [{id \in new : WithinLimit(id)} -> OrderDelays], cd \in [gone -> CancelDelays] :
         inflight' = inflight
            \cup {OrderEvent(id, now + od[id]) : id \in DOMAIN od}
            \cup {CancelEvent(id, now + cd[id], cancels[id] + 1) : id \in gone}
  BY DEF Quote
<1>3. \A e \in inflight' : e.kind = "order" => e \in inflight \/ (e.id \in new /\ WithinLimit(e.id))
  BY <1>2 DEF OrderEvent, CancelEvent
<1>4. \A id \in Outstanding' \ Outstanding : id \in new /\ WithinLimit(id)
  BY <1>1, <1>3 DEF Outstanding, Flying, Resting, HitIds
<1>5. ASSUME NEW id \in OrderIds, WithinLimit(id) PROVE Fits(id)
  <2>1. /\ position \in Int /\ MaxPosition \in Nat
        /\ OrderOf[id].side \in {1, -1} /\ OrderOf[id].size \in Nat
    BY OrderFacts DEF IInv, TypeOK
  <2>2. CASE OrderOf[id].side = 1
    BY <1>5, <2>1, <2>2 DEF Fits, WithinLimit, Abs
  <2>3. CASE OrderOf[id].side = -1
    BY <1>5, <2>1, <2>3 DEF Fits, WithinLimit, Abs
  <2> QED
    BY <2>1, <2>2, <2>3
<1> QED
  BY <1>1, <1>4, <1>5, StillLimit

\* Apart from the strategy's turn no order becomes outstanding.
LEMMA OthersLimit ==
    ASSUME IInv, IInv', LimitInv, overlapped' = overlapped \cup Together',
           [Lifecycle!Next]_<<[id \in OrderIds |-> Status(id)], position>>, sent' = sent
    PROVE  LimitInv'
<1> DEFINE st == [id \in OrderIds |-> Status(id)]
<1>1. ASSUME NEW id \in OrderIds, Status(id) = "new" PROVE Status(id)' = "new"
  <2>1. id \notin sent
    BY <1>1 DEF Status, IInv, OneHome
  <2> QED
    BY <2>1 DEF Status, IInv, OneHome
<1>2. \A id \in OrderIds : st[id] = Status(id) /\ st'[id] = Status(id)'
  OBVIOUS
<1>3. CASE Lifecycle!Advance \/ UNCHANGED <<st, position>>
  <2>1. /\ position' = position
        /\ \A id \in OrderIds : Status(id)' = Status(id) \/ <<Status(id), Status(id)'>> \in Lifecycle!Edges
    BY <1>2, <1>3 DEF Lifecycle!Advance
  <2>2. \A id \in OrderIds : Status(id)' \in Open => Status(id) \in Open
    BY <1>1, <2>1 DEF Lifecycle!Edges, Open
  <2>3. \A id \in OrderIds : Status(id) = "filled" => Status(id)' = "filled"
    BY <2>1 DEF Lifecycle!Edges
  <2> QED
    BY <2>1, <2>2, <2>3, OpenOrFilled, StillLimit
<1>4. CASE \E id \in OrderIds : Lifecycle!Fill(id)
  <2>1. PICK id \in OrderIds : Lifecycle!Fill(id)
    BY <1>4
  <2>2. PICK size \in 1..OrderOf[id].size : position' = position + OrderOf[id].side * size
    BY <2>1 DEF Lifecycle!Fill
  <2>3. /\ Status(id) \in {"flying", "hit"} /\ Status(id)' = "filled"
        /\ \A x \in OrderIds \ {id} : Status(x)' = Status(x)
    <3>1. st[id] \in {"flying", "hit"} /\ st' = [st EXCEPT ![id] = "filled"]
      BY <2>1 DEF Lifecycle!Fill
    <3> HIDE DEF st
    <3>2. st'[id] = "filled" /\ \A x \in OrderIds \ {id} : st'[x] = st[x]
      <4>1. DOMAIN st = OrderIds
        BY DEF st
      <4> QED
        BY <3>1, <4>1
    <3> QED
      BY <1>2, <3>1, <3>2
  <2>4. /\ id \in Outstanding /\ id \notin DOMAIN fills /\ Outstanding' \subseteq Outstanding \ {id}
        /\ DOMAIN fills' = DOMAIN fills \cup {id}
    BY <2>3, OpenOrFilled DEF Open
  <2> QED
    BY <2>2, <2>4, FillLimit
<1> QED
  BY <1>3, <1>4 DEF Lifecycle!Next

\* One step of the engine keeps the invariant.
LEMMA LimitStep ==
    IInv /\ IInv' /\ LimitInv /\ [LimitNext]_limitVars => LimitInv'
<1> SUFFICES ASSUME IInv, IInv', LimitInv, [LimitNext]_limitVars PROVE LimitInv'
  OBVIOUS
<1>1. CASE UNCHANGED limitVars
  <2>1. UNCHANGED <<position, fills, inflight, front, hits, overlapped>>
    BY <1>1 DEF limitVars, vars, queueVars, flightVars, ledgerVars
  <2>2. Outstanding' = Outstanding
    BY <2>1 DEF Outstanding, Flying, Resting, HitIds
  <2>3. Together' = Together
    BY <2>2 DEF Together
  <2>4. overlapped' = overlapped \cup Together'
    BY <2>1, <2>3 DEF LimitInv
  <2> QED
    BY <2>1, <2>2, <2>4, StillLimit
<1>2. CASE LimitNext
  <2>1. Next /\ overlapped' = overlapped \cup Together'
    BY <1>2 DEF LimitNext
  <2>2. CASE Act
    BY <2>1, <2>2, QuoteLimit DEF Act
  <2>3. CASE ~Act
    <3>1. sent' = sent
      BY <2>1, <2>3 DEF Next, NextTick, Tick, Step, Land, LandOrder, LandCancel, Queue, SkipQueue,
                        StartQueue, NextTrade, EndQueue, RecordHit, strategyVars
    <3> QED
      BY <2>1, <3>1, StepRefines, OthersLimit
  <2> QED
    BY <2>2, <2>3
<1> QED
  BY <1>1, <1>2

\* A new engine has no order and no position.
LEMMA LimitInitInv == LimitInit => LimitInv
<1> SUFFICES ASSUME LimitInit PROVE LimitInv
  OBVIOUS
<1>1. Outstanding = {} /\ position = 0
  BY DEF LimitInit, Init, QueueInit, Outstanding, Flying, Resting, HitIds
<1>2. Together = {}
  BY <1>1 DEF Together
<1>3. LimitPassedTogether
  BY <1>1, OrderFacts DEF LimitPassedTogether, Abs
<1> QED
  BY <1>1, <1>2, <1>3 DEF LimitInv

\* The history only watches: the engine under it is the engine.
LEMMA LimitSpecIsSpec == LimitSpec => Spec
<1>1. LimitInit => Init
  BY DEF LimitInit
<1>2. [LimitNext]_limitVars => [Next]_vars
  BY DEF LimitNext, limitVars
<1> QED
  BY <1>1, <1>2, PTL DEF LimitSpec, Spec

\* Whatever the latencies, the market and the strategy do, the position passes
\* max_position only by orders that were outstanding together
\* (risk/base.py 25-27).
THEOREM LimitPassedOnlyTogether == LimitSpec => []LimitPassedTogether
<1>1. LimitInv => LimitPassedTogether
  BY DEF LimitInv
<1> QED
  BY <1>1, LimitInitInv, LimitStep, LimitSpecIsSpec, InvHolds, PTL DEF LimitSpec
=============================================================================
