---------------------------- MODULE FIFOCoreProofs ----------------------------
(***************************************************************************)
(* The Rust queue is the Python queue, proved for any orders, books,       *)
(* trades and cancel ratios, and any order in which the map yields them.   *)
(***************************************************************************)
EXTENDS FIFOCore, FIFOQueueProofs

\* Between calls the core holds nothing of the last one, and a trade that some
\* order has still to meet is a trade.
CallOver ==
    /\ pc # "matching" => /\ filledIds = {} /\ unmet = {} /\ todo = <<>>
                          /\ book = EmptyBook
    /\ pc = "ready" => filled = {}
    /\ unmet # {} => trade \in Trade

CoreInv == TypeOK /\ CallOver

-----------------------------------------------------------------------------
(* CoreInv is inductive: one lemma per operation.                          *)

\* A new core is well formed (lib.rs 57-79).
LEMMA InitCore == Init => CoreInv
  BY DEF Init, CoreInv, TypeOK, CallOver

\* register (lib.rs 82-93).
LEMMA RegisterCore ==
    ASSUME CoreInv, NEW id \in OrderIds, NEW b \in Books, CoreRegister(id, b)
    PROVE  CoreInv'
<1>1. QtyInFront(OrderOf[id], b) \in Nat
  BY DepthsAreSizes
<1> QED
  BY <1>1 DEF CoreInv, TypeOK, CallOver, CoreRegister

\* cancel (lib.rs 95-97).
LEMMA CancelCore ==
    ASSUME CoreInv, NEW id \in OrderIds, CoreCancel(id)
    PROVE  CoreInv'
  BY DEF CoreInv, TypeOK, CallOver, CoreCancel

\* infer_cancels never takes an estimate below zero (lib.rs 148-164).
LEMMA StartTickCore ==
    ASSUME CoreInv, NEW b \in Books, NEW trades \in TradeLists, StartTick(b, trades)
    PROVE  CoreInv'
<1>1. \A id \in DOMAIN slots : slots[id] \in Nat /\ id \in OrderIds
  BY DEF CoreInv, TypeOK
<1>2. \A id \in DOMAIN slots : Delta(id, b) \in Nat
  <2>1. \A id \in OrderIds : /\ SizeAt(prevMap, OrderOf[id].price) \in Nat
                             /\ SizeAt(b, OrderOf[id].price) \in Nat
    BY DepthsAreSizes DEF CoreInv, TypeOK
  <2> QED
    BY <1>1, <2>1 DEF Delta, Monus
<1>3. \A id \in DOMAIN slots : Monus(slots[id], Delta(id, b)) \in Nat
  BY <1>1, <1>2 DEF Monus
<1>4. trades \in Seq(Trade)
  BY TickAssumption
<1>5. DOMAIN slots' = DOMAIN slots /\ \A id \in DOMAIN slots' : slots'[id] \in Nat
  BY <1>3 DEF StartTick
<1> QED
  BY <1>4, <1>5 DEF CoreInv, TypeOK, CallOver, StartTick

\* Beginning a trade (lib.rs 116).
LEMMA NextTradeCore ==
    ASSUME CoreInv, NextTrade
    PROVE  CoreInv'
<1>1. Head(todo) \in Trade /\ Tail(todo) \in Seq(Trade)
  BY DEF CoreInv, TypeOK, NextTrade
<1> QED
  BY <1>1 DEF CoreInv, TypeOK, CallOver, NextTrade

\* try_fill on one slot (lib.rs 171-209).
LEMMA MeetCore ==
    ASSUME CoreInv, NEW id \in OrderIds, Meet(id)
    PROVE  CoreInv'
<1> USE DEF CoreInv, TypeOK, CallOver
<1>1. id \in DOMAIN slots /\ slots[id] \in Nat /\ trade \in Trade /\ OrderOf[id] \in Order
  BY OrderAssumption DEF Meet
<1>2. NewFront(slots[id], trade) \in Nat
  BY <1>1, NewFrontShrinks
<1>3. DOMAIN slots' = DOMAIN slots /\ \A x \in DOMAIN slots' : slots'[x] \in Nat
  BY <1>1, <1>2 DEF Meet
<1>4. Fills(id) => TheFill(id) \in [id : OrderIds, size : Nat \ {0}, left : Nat]
  <2>1. FillSize(slots[id], OrderOf[id], trade) \in 0..OrderOf[id].size
    BY <1>1, FillSizeBounds
  <2>2. OrderOf[id].size \in Nat /\ Len(todo) + 1 \in Nat
    BY <1>1 DEF Order
  <2> QED
    BY <2>1, <2>2 DEF Fills, TheFill
<1>5. filledIds' \subseteq DOMAIN slots' /\ unmet' \subseteq DOMAIN slots'
  BY <1>1, <1>3 DEF Meet
<1>6. filled' \subseteq [id : OrderIds, size : Nat \ {0}, left : Nat]
  BY <1>4 DEF Meet
<1> QED
  BY <1>1, <1>3, <1>5, <1>6 DEF Meet

\* Every step keeps the core well formed.
LEMMA StepCore == CoreInv /\ [Next]_vars => CoreInv'
<1> SUFFICES ASSUME CoreInv, [Next]_vars PROVE CoreInv'
  OBVIOUS
<1>1. ASSUME NEW id \in OrderIds, NEW b \in Books, CoreRegister(id, b) PROVE CoreInv'
  BY <1>1, RegisterCore
<1>2. ASSUME NEW id \in OrderIds, CoreCancel(id) PROVE CoreInv'
  BY <1>2, CancelCore
<1>3. ASSUME NEW id \in OrderIds, Meet(id) PROVE CoreInv'
  BY <1>3, MeetCore
<1>4. ASSUME NEW b \in Books, SkipTick(b) PROVE CoreInv'
  BY <1>4 DEF SkipTick, CoreInv, TypeOK, CallOver
<1>5. ASSUME NEW b \in Books, NEW trades \in TradeLists, StartTick(b, trades) PROVE CoreInv'
  BY <1>5, StartTickCore
<1>6. CASE NextTrade
  BY <1>6, NextTradeCore
<1>7. CASE EndTick
  BY <1>7 DEF EndTick, CoreInv, TypeOK, CallOver
<1>8. CASE Return
  BY <1>8 DEF Return, CoreInv, TypeOK, CallOver
<1>9. CASE UNCHANGED vars
  BY <1>9 DEF vars, CoreInv, TypeOK, CallOver
<1> QED
  BY <1>1, <1>2, <1>3, <1>4, <1>5, <1>6, <1>7, <1>8, <1>9 DEF Next

\* The core's maps are about orders it holds and its estimates are sizes
\* (lib.rs).
THEOREM TypeCorrect == Spec => []TypeOK
<1>1. CoreInv => TypeOK
  BY DEF CoreInv
<1> QED
  BY InitCore, StepCore, <1>1, PTL DEF Spec

-----------------------------------------------------------------------------
(* The refinement.  Calls! repeats the market rules of this module.        *)

\* The fills the Python queue has made.
Hits == filled \cup {TheFill(id) : id \in Due}

\* Both queues read the market by the same rules.
LEMMA SameRules ==
    /\ \A o, b : Calls!QtyInFront(o, b) = QtyInFront(o, b)
    /\ \A p, b : Calls!SizeAt(b, p) = SizeAt(b, p)
    /\ \A o, t : Calls!Matches(t, o) = Matches(t, o)
    /\ \A q, t : Calls!NewFront(q, t) = NewFront(q, t)
    /\ \A q, o, t : Calls!FillSize(q, o, t) = FillSize(q, o, t)
    /\ \A x, y : Calls!Monus(x, y) = Monus(x, y)
    /\ Calls!EmptyBook = EmptyBook
<1>1. \A o, b : Calls!QtyInFront(o, b) = QtyInFront(o, b)
  BY DEF QtyInFront, Calls!QtyInFront, OwnSide, Calls!OwnSide, BUY, Calls!BUY,
         MapThenSumSet, Calls!MapThenSumSet, MapThenFoldSet, Calls!MapThenFoldSet
<1>2. \A p, b : Calls!SizeAt(b, p) = SizeAt(b, p)
  BY DEF SizeAt, Calls!SizeAt
<1>3. \A x, y : Calls!Monus(x, y) = Monus(x, y)
  BY DEF Monus, Calls!Monus
<1>4. \A q, s : Calls!Consumed(q, s) = Consumed(q, s)
  BY DEF Consumed, Calls!Consumed, CancelledFraction, Calls!CancelledFraction,
         Lesser, Calls!Lesser, Greater, Calls!Greater
<1>5. \A q, o, t : Calls!FillSize(q, o, t) = FillSize(q, o, t)
  BY <1>3, <1>4 DEF FillSize, Calls!FillSize, Lesser, Calls!Lesser
<1>6. \A q, t : Calls!NewFront(q, t) = NewFront(q, t)
  BY <1>3, <1>4 DEF NewFront, Calls!NewFront
<1>7. \A o, t : Calls!Matches(t, o) = Matches(t, o)
  BY DEF Matches, Calls!Matches
<1>8. Calls!EmptyBook = EmptyBook
  BY DEF EmptyBook, Calls!EmptyBook
<1> QED
  BY <1>1, <1>2, <1>3, <1>5, <1>6, <1>7, <1>8

\* While no order has a trade to meet, the queue is the map without the filled.
LEMMA NothingDue ==
    ASSUME unmet = {}
    PROVE  /\ Due = {}
           /\ Hits = filled
           /\ Front = [id \in DOMAIN slots \ filledIds |-> slots[id]]
  BY DEF Due, Hits, Front

\* A new core is a new simulator.
LEMMA InitIsQueue == Init => Calls!CallInit
<1> SUFFICES ASSUME Init PROVE Calls!CallInit
  OBVIOUS
<1>1. Hits = {} /\ Front = [id \in {} |-> 0]
  BY NothingDue DEF Init
<1> QED
  BY <1>1, SameRules DEF Init, Hits, Calls!CallInit, Calls!QueueInit, Calls!NoTick

\* register and cancel change the same position (lib.rs 82-97).
LEMMA RegisterIsQueue ==
    ASSUME CoreInv, NEW id \in OrderIds, NEW b \in Books, CoreRegister(id, b)
    PROVE  Calls!CallRegister(id, b)
<1> USE DEF CoreRegister
<1>1. unmet = {} /\ unmet' = {} /\ filledIds = {} /\ filledIds' = {}
  BY DEF CoreInv, CallOver
<1>2. /\ Front = [x \in DOMAIN slots |-> slots[x]] /\ Hits = filled
      /\ Front' = [x \in DOMAIN slots' |-> slots'[x]] /\ Hits' = filled'
  BY <1>1 DEF Due, Hits, Front
<1>3. Front' = Calls!Put(Front, id, Calls!QtyInFront(OrderOf[id], b))
  BY <1>2, SameRules DEF Calls!Put
<1> QED
  BY <1>2, <1>3 DEF Hits, Calls!CallRegister, Calls!Register, Calls!callVars

\* A cancelled order leaves both queues (lib.rs 95-97).
LEMMA CancelIsQueue ==
    ASSUME CoreInv, NEW id \in OrderIds, CoreCancel(id)
    PROVE  Calls!CallCancel(id)
<1> USE DEF CoreCancel
<1>1. unmet = {} /\ unmet' = {} /\ filledIds = {} /\ filledIds' = {}
  BY DEF CoreInv, CallOver
<1>2. /\ Front = [x \in DOMAIN slots |-> slots[x]] /\ Hits = filled
      /\ Front' = [x \in DOMAIN slots' |-> slots'[x]] /\ Hits' = filled'
  BY <1>1 DEF Due, Hits, Front
<1>3. Front' = Calls!Without(Front, {id})
  BY <1>2 DEF Calls!Without
<1> QED
  BY <1>2, <1>3 DEF Hits, Calls!CallCancel, Calls!Cancel, Calls!callVars

\* With nothing resting only the book is kept (lib.rs 105-108).
LEMMA SkipTickIsQueue ==
    ASSUME CoreInv, NEW b \in Books, SkipTick(b)
    PROVE  Calls!CallSkip([book |-> b, truth |-> NoTruth])
<1> USE DEF SkipTick
<1>1. unmet = {} /\ unmet' = {} /\ filledIds = {} /\ filledIds' = {}
  BY DEF CoreInv, CallOver
<1>2. /\ Front = [x \in DOMAIN slots |-> slots[x]] /\ Hits = filled
      /\ Front' = [x \in DOMAIN slots' |-> slots'[x]] /\ Hits' = filled'
  BY <1>1 DEF Due, Hits, Front
<1>3. Front = [x \in {} |-> 0] /\ Front' = Front
  BY <1>2
<1> QED
  BY <1>2, <1>3 DEF Hits, Calls!CallSkip, Calls!UpdateBook

\* The core credits the drop the Python queue infers (lib.rs 148-164).
LEMMA StartTickIsQueue ==
    ASSUME CoreInv, NEW b \in Books, NEW trades \in TradeLists, StartTick(b, trades)
    PROVE  Calls!CallStart([book |-> b, truth |-> NoTruth], trades)
<1> USE DEF StartTick
<1> DEFINE t == [book |-> b, truth |-> NoTruth]
<1>1. unmet = {} /\ unmet' = {} /\ filledIds = {} /\ filledIds' = {}
  BY DEF CoreInv, CallOver
<1>2. /\ Front = [x \in DOMAIN slots |-> slots[x]] /\ Hits = filled
      /\ Front' = [x \in DOMAIN slots' |-> slots'[x]] /\ Hits' = filled'
  BY <1>1 DEF Due, Hits, Front
<1>3. \A id \in OrderIds : Calls!Cancelled(OrderOf[id].price, t) = Delta(id, b)
  BY SameRules DEF Calls!Cancelled, Delta
<1>4. DOMAIN slots \subseteq OrderIds
  BY DEF CoreInv, TypeOK
<1>5. Front' = [id \in DOMAIN Front |->
                   Calls!Monus(Front[id], Calls!Cancelled(OrderOf[id].price, t))]
  BY <1>2, <1>3, <1>4, SameRules
<1>6. Front # [x \in {} |-> 0]
  BY <1>2
<1> QED
  BY <1>2, <1>5, <1>6 DEF Hits, Calls!CallStart, Calls!InferCancels

\* Beginning a trade is the step in which the Python queue matches it
\* (lib.rs 116, fifo.py 194-203).
LEMMA NextTradeIsQueue ==
    ASSUME CoreInv, NextTrade
    PROVE  Calls!CallTrade
<1> USE DEF NextTrade
<1> DEFINE t == Head(todo)
<1>1. Front = [id \in DOMAIN slots \ filledIds |-> slots[id]] /\ Hits = filled
  BY NothingDue
<1>2. Len(todo') + 1 = Len(todo)
  BY DEF CoreInv, TypeOK
<1>3. Due' = {id \in DOMAIN slots : /\ id \notin filledIds /\ Matches(t, OrderOf[id])
                                   /\ FillSize(slots[id], OrderOf[id], t) > 0}
  BY DEF Due, Fills
<1>4. Due' = Calls!HitBy(t)
  BY <1>1, <1>3, SameRules DEF Calls!HitBy
<1>5. Hits' = Hits \cup {[id |-> id, left |-> Len(todo),
                         size |-> Calls!FillSize(Front[id], OrderOf[id], t)] :
                            id \in Calls!HitBy(t)}
  <2>1. \A id \in Due' : id \in DOMAIN Front /\ Front[id] = slots[id]
    BY <1>1, <1>3
  <2> DEFINE Made(id) == [id |-> id, left |-> Len(todo),
                          size |-> Calls!FillSize(Front[id], OrderOf[id], t)]
  <2>2. \A id \in Due' : TheFill(id)' = Made(id)
    BY <1>2, <2>1, SameRules DEF TheFill
  <2>3. filled' = filled
    OBVIOUS
  <2> QED
    BY <1>1, <1>4, <2>2, <2>3 DEF Hits
<1>6. Front' = [id \in DOMAIN Front \ Calls!HitBy(t) |->
                   IF Calls!Matches(t, OrderOf[id])
                   THEN Calls!NewFront(Front[id], t) ELSE Front[id]]
  BY <1>1, <1>4, SameRules DEF Front
<1> QED
  BY <1>5, <1>6 DEF Hits, Calls!CallTrade, Calls!MatchTrade

\* Meeting an order changes nothing the Python queue has not done already
\* (lib.rs 117-125).
LEMMA MeetIsNoStep ==
    ASSUME CoreInv, NEW id \in OrderIds, Meet(id)
    PROVE  Front' = Front /\ Hits' = Hits
<1> USE DEF Meet
<1>1. id \in DOMAIN slots /\ DOMAIN slots' = DOMAIN slots
  BY DEF CoreInv, TypeOK
<1>2. \A x \in DOMAIN slots \ {id} :
         /\ slots'[x] = slots[x] /\ (x \in filledIds' <=> x \in filledIds)
         /\ (x \in unmet' <=> x \in unmet)
  OBVIOUS
<1>3. unmet \subseteq DOMAIN slots
  BY DEF CoreInv, TypeOK
<1>4. Due' = Due \ {id}
  BY <1>2, <1>3 DEF Due, Fills
<1>5. (id \in Due <=> Fills(id)) /\ trade' = trade /\ todo' = todo
  BY DEF Due
<1>6. filledIds' \cup Due' = filledIds \cup Due
  BY <1>4, <1>5
<1>7. Front' = Front
  <2>1. \A x \in DOMAIN slots \ (filledIds \cup Due) :
           (IF x \in unmet' /\ Matches(trade', OrderOf[x])
            THEN NewFront(slots'[x], trade') ELSE slots'[x])
         = (IF x \in unmet /\ Matches(trade, OrderOf[x])
            THEN NewFront(slots[x], trade) ELSE slots[x])
    BY <1>1, <1>2
  <2> QED
    BY <1>1, <1>6, <2>1 DEF Front
<1>8. Hits' = Hits
  <2>1. \A x \in Due' : TheFill(x)' = TheFill(x)
    BY <1>2, <1>3, <1>4, <1>5 DEF TheFill, Due
  <2>2. Hits' = filled' \cup {TheFill(x) : x \in Due'}
    BY <2>1 DEF Hits
  <2>3. filled' = filled \cup {TheFill(x) : x \in Due \cap {id}}
    BY <1>5
  <2> QED
    BY <1>4, <2>2, <2>3 DEF Hits
<1> QED
  BY <1>7, <1>8

\* Dropping the filled slots shows what the Python queue shows already
\* (lib.rs 128-133).
LEMMA EndTickIsQueue ==
    ASSUME CoreInv, EndTick
    PROVE  Calls!CallEnd
<1> USE DEF EndTick
<1>1. Front = [x \in DOMAIN slots \ filledIds |-> slots[x]] /\ Hits = filled
  BY NothingDue
<1>2. Front' = [x \in DOMAIN slots' |-> slots'[x]] /\ Hits' = filled'
  BY DEF Due, Hits, Front
<1>3. Front' = Front
  BY <1>1, <1>2
<1> QED
  BY <1>1, <1>2, <1>3, SameRules
  DEF Hits, Calls!CallEnd, Calls!UpdateBook, Calls!NoTick

\* The fills go to the caller (fifo.py 167-181).
LEMMA ReturnIsQueue ==
    ASSUME CoreInv, Return
    PROVE  Calls!CallReturn
<1> USE DEF Return
<1>1. unmet = {} /\ unmet' = {}
  BY DEF CoreInv, CallOver
<1>2. Front' = Front /\ Hits' = {}
  BY <1>1 DEF Due, Hits, Front
<1> QED
  BY <1>2 DEF Hits, Calls!CallReturn

\* Every step of the core is a step of the Python queue, or none of it.
LEMMA StepIsQueue ==
    ASSUME CoreInv, [Next]_vars
    PROVE  [Calls!CallNext]_<<Calls!queueVars, Calls!callVars>>
<1> USE DEF Calls!CallNext
<1>1. ASSUME NEW id \in OrderIds, NEW b \in Books, CoreRegister(id, b) PROVE Calls!CallNext
  BY <1>1, RegisterIsQueue
<1>2. ASSUME NEW id \in OrderIds, CoreCancel(id) PROVE Calls!CallNext
  BY <1>2, CancelIsQueue
<1>3. ASSUME NEW id \in OrderIds, Meet(id)
      PROVE  UNCHANGED <<Calls!queueVars, Calls!callVars>>
  BY <1>3, MeetIsNoStep DEF Meet, Hits, Calls!queueVars, Calls!callVars
<1>4. \A b \in Books : [book |-> b, truth |-> NoTruth] \in Calls!Ticks
  BY DEF Calls!Ticks
<1>5. ASSUME NEW b \in Books, SkipTick(b) PROVE Calls!CallNext
  BY <1>4, <1>5, SkipTickIsQueue
<1>6. ASSUME NEW b \in Books, NEW trades \in TradeLists, StartTick(b, trades)
      PROVE  Calls!CallNext
  BY <1>4, <1>6, StartTickIsQueue
<1>7. CASE NextTrade
  BY <1>7, NextTradeIsQueue
<1>8. CASE EndTick
  BY <1>8, EndTickIsQueue
<1>9. CASE Return
  BY <1>9, ReturnIsQueue
<1>10. CASE UNCHANGED vars
  BY <1>10 DEF vars, Calls!queueVars, Calls!callVars, Front, Due, Fills, TheFill
<1> QED
  BY <1>1, <1>2, <1>3, <1>5, <1>6, <1>7, <1>8, <1>9, <1>10 DEF Next

\* Whatever order the map yields its slots in, the core answers every call as
\* the Python queue does (lib.rs, fifo.py 167-205).
THEOREM CoreImplementsQueue == Spec => CoreIsQueue
  BY InitIsQueue, InitCore, StepCore, StepIsQueue, PTL
  DEF Spec, CoreIsQueue, Calls!CallSpec
=============================================================================
