-------------------------- MODULE QueueClientProofs --------------------------
(***************************************************************************)
(* The promises of the FIFO queue, proved for any number of orders, any    *)
(* books, trades, known cancels and cancel ratios, and any sequence of     *)
(* calls.                                                                  *)
(***************************************************************************)
EXTENDS QueueClient, FIFOQueueProofs

HitIds == {h.id : h \in hits}

\* The fills of a call are returned before the next one, and a filled order no
\* longer rests.
HitsApart ==
    /\ pc = "ready" => hits = {}
    /\ HitIds \cap DOMAIN front = {}

TypeInv == TypeOK /\ HitsApart

\* A new simulator is well typed.
LEMMA InitType == Init => TypeInv
  BY DEF Init, CallInit, QueueInit, TypeInv, TypeOK, QueueTypeOK, HitsApart, HitIds, NoTick

\* Registering keeps the types (fifo.py 115-125).
LEMMA RegisterOrderType ==
    ASSUME TypeInv, NEW id \in OrderIds, NEW b \in Books, RegisterOrder(id, b)
    PROVE  TypeInv'
<1> USE DEF RegisterOrder, CallRegister, TypeInv, TypeOK, HitsApart, HitIds
<1>1. QueueTypeOK'
  BY RegisterType
<1>2. QtyInFront(OrderOf[id], b) \in Nat
  BY DepthsAreSizes
<1>3. hits = {} /\ hits' = {}
  BY DEF Register
<1>4. DOMAIN front' = DOMAIN front \cup {id}
  BY DEF Register, Put
<1>5. /\ DOMAIN joined' = DOMAIN joined \cup {id}
      /\ DOMAIN volume' = DOMAIN joined \cup {id}
      /\ DOMAIN gone' = DOMAIN joined \cup {id}
  BY DEF Put
<1>6. \A x \in DOMAIN joined' : joined'[x] \in Nat /\ volume'[x] \in Nat /\ gone'[x] \in Nat
  BY <1>2 DEF Put
<1>7. DOMAIN joined' = DOMAIN front' \cup HitIds'
  BY <1>3, <1>4, <1>5
<1>8. pc' = pc /\ tick' = tick /\ todo' = todo /\ ticks' = ticks
  BY DEF callVars
<1>9. TypeOK'
  BY <1>1, <1>5, <1>6, <1>7, <1>8
<1> QED
  BY <1>3, <1>8, <1>9

\* Cancelling keeps the types (fifo.py 127-137).
LEMMA CancelOrderType ==
    ASSUME TypeInv, NEW id \in OrderIds, CancelOrder(id)
    PROVE  TypeInv'
<1> USE DEF CancelOrder, CallCancel, TypeInv, TypeOK, HitsApart, HitIds
<1>1. QueueTypeOK'
  BY CancelType
<1> QED
  BY <1>1 DEF Cancel, Forget, Without, callVars

\* Beginning a tick keeps the types (fifo.py 192).
LEMMA StartTickType ==
    ASSUME TypeInv, NEW t \in Ticks, NEW trades \in TradeLists, StartTick(t, trades)
    PROVE  TypeInv'
<1> USE DEF StartTick, CallStart, TypeInv, TypeOK, HitsApart, HitIds
<1> DEFINE arg == [book |-> t.book, trades |-> trades, truth |-> t.truth]
<1>1. arg \in TickArg
  BY DEF Ticks, TickArg
<1>2. \A p : Cancelled(p, arg) = Cancelled(p, t)
  BY DEF Cancelled
<1>3. \A id \in OrderIds : Cancelled(OrderOf[id].price, t) \in Nat
  BY <1>1, <1>2, CancelledNat DEF TickArg
<1>4. InferCancels(arg)
  BY <1>2 DEF InferCancels
<1>5. QueueTypeOK'
  BY <1>1, <1>4, InferCancelsType
<1>6. DOMAIN front' = DOMAIN front /\ hits' = hits
  BY DEF InferCancels
<1>7. \A id \in DOMAIN gone : gone[id] + (IF id \in DOMAIN front THEN Cancelled(OrderOf[id].price, t) ELSE 0) \in Nat
  BY <1>3 DEF QueueTypeOK
<1>8. trades \in Seq(Trade)
  BY TickAssumption
<1>9. DOMAIN gone' = DOMAIN gone /\ \A id \in DOMAIN gone : gone'[id] \in Nat
  BY <1>7
<1>10. joined' = joined /\ volume' = volume /\ ticks' \in Nat /\ pc' = "matching" /\ hits = {}
  OBVIOUS
<1>11. tick' \in Ticks /\ todo' \in Seq(Trade)
  BY <1>8
<1>12. HitIds' = {} /\ HitIds = {}
  BY <1>6, <1>10
<1>13. TypeOK'
  BY <1>5, <1>6, <1>9, <1>10, <1>11, <1>12
<1> QED
  BY <1>10, <1>12, <1>13

\* Matching a trade keeps the types (fifo.py 194-203).
LEMMA NextTradeType ==
    ASSUME TypeInv, NextTrade
    PROVE  TypeInv'
<1> USE DEF NextTrade, CallTrade, TypeInv, TypeOK, HitsApart, HitIds
<1> DEFINE t == Head(todo)
<1>1. t \in Trade /\ Tail(todo) \in Seq(Trade) /\ Len(todo) \in Nat
  OBVIOUS
<1>2. QueueTypeOK'
  BY <1>1, MatchTradeType
<1>3. /\ HitIds' = HitIds \cup HitBy(t)
      /\ HitBy(t) \subseteq DOMAIN front
      /\ DOMAIN front' = DOMAIN front \ HitBy(t)
  BY MatchTradeMoves
<1>5. t.size \in Nat
  BY <1>1 DEF Trade
<1>6. /\ DOMAIN volume' = DOMAIN volume
      /\ \A id \in DOMAIN volume : volume'[id] \in Nat
  BY <1>5
<1> HIDE DEF t
<1>7. TypeOK'
  BY <1>1, <1>2, <1>3, <1>6 DEF t
<1> QED
  BY <1>3, <1>7

\* A tick with nothing resting keeps the types (fifo.py 189-191).
LEMMA SkipTickType ==
    ASSUME TypeInv, NEW t \in Ticks, SkipTick(t)
    PROVE  TypeInv'
<1>1. QueueTypeOK'
  BY UpdateBookType DEF SkipTick, CallSkip, TypeInv, TypeOK, Ticks
<1> QED
  BY <1>1 DEF SkipTick, CallSkip, TypeInv, TypeOK, HitsApart, HitIds, UpdateBook, history

\* Ending a tick keeps the types (fifo.py 204).
LEMMA EndTickType ==
    ASSUME TypeInv, EndTick
    PROVE  TypeInv'
<1>1. tick.book \in Books \cup {EmptyBook}
  BY DEF TypeInv, TypeOK, Ticks, NoTick
<1>2. QueueTypeOK'
  BY <1>1, UpdateBookType DEF EndTick, CallEnd, TypeInv, TypeOK
<1> QED
  BY <1>2 DEF EndTick, CallEnd, TypeInv, TypeOK, HitsApart, HitIds, UpdateBook, history

\* Returning the fills keeps the types (fifo.py 205).
LEMMA ReturnType ==
    ASSUME TypeInv, Return
    PROVE  TypeInv'
<1> USE DEF Return, CallReturn, TypeInv, TypeOK, HitsApart, HitIds
<1>1. QueueTypeOK'
  BY DEF QueueTypeOK
<1>2. DOMAIN joined' = DOMAIN front' /\ DOMAIN volume' = DOMAIN front' /\ DOMAIN gone' = DOMAIN front'
  BY DEF Forget, Without
<1>3. \A id \in DOMAIN joined' : joined'[id] \in Nat /\ volume'[id] \in Nat /\ gone'[id] \in Nat
  BY DEF Forget, Without
<1>4. HitIds' = {}
  OBVIOUS
<1> QED
  BY <1>1, <1>2, <1>3, <1>4

\* Every call keeps the types.
LEMMA TypeStep == TypeInv /\ [Next]_vars => TypeInv'
<1> SUFFICES ASSUME TypeInv, [Next]_vars PROVE TypeInv'
  OBVIOUS
<1>1. CASE \E id \in OrderIds, b \in Books : RegisterOrder(id, b)
  BY <1>1, RegisterOrderType
<1>2. CASE \E id \in OrderIds : CancelOrder(id)
  BY <1>2, CancelOrderType
<1>3. CASE \E t \in Ticks, trades \in TradeLists : SkipTick(t) \/ StartTick(t, trades)
  BY <1>3, SkipTickType, StartTickType
<1>4. CASE NextTrade
  BY <1>4, NextTradeType
<1>5. CASE EndTick
  BY <1>5, EndTickType
<1>6. CASE Return
  BY <1>6, ReturnType
<1>7. CASE UNCHANGED vars
  BY <1>7 DEF vars, queueVars, callVars, history, TypeInv, TypeOK, QueueTypeOK, HitsApart, HitIds
<1> QED
  BY <1>1, <1>2, <1>3, <1>4, <1>5, <1>6, <1>7 DEF Next

\* The simulator's state is always well formed: in particular no position in
\* the queue is ever negative (fifo.py 65, 222, 231).
THEOREM TypeCorrect == Spec => []TypeOK
<1>1. Init => TypeInv
  BY InitType
<1>2. TypeInv /\ [Next]_vars => TypeInv'
  BY TypeStep
<1>3. TypeInv => TypeOK
  BY DEF TypeInv
<1> QED
  BY <1>1, <1>2, <1>3, PTL DEF Spec

-----------------------------------------------------------------------------
(* Time priority                                                           *)

\* The orders at one price lose the same cancels.
LEMMA InferCancelsPriority ==
    ASSUME TypeInv, NEW t \in Ticks, NEW trades \in TradeLists, StartTick(t, trades),
           NEW a \in DOMAIN front, NEW b \in DOMAIN front,
           SameQueue(a, b), front[a] <= front[b]
    PROVE  b \in DOMAIN front' /\ front'[a] <= front'[b]
<1> DEFINE arg == [book |-> t.book, trades |-> trades, truth |-> t.truth]
<1>1. arg \in TickArg /\ Cancelled(OrderOf[a].price, arg) = Cancelled(OrderOf[a].price, t)
  BY DEF Ticks, TickArg, Cancelled
<1>2. a \in OrderIds /\ front[a] \in Nat /\ front[b] \in Nat
  BY DEF TypeInv, TypeOK, QueueTypeOK
<1>3. Cancelled(OrderOf[a].price, t) \in Nat
  BY <1>1, <1>2, CancelledNat DEF TypeInv, TypeOK, TickArg
<1>4. OrderOf[a].price = OrderOf[b].price
  BY DEF SameQueue
<1>5. /\ DOMAIN front' = DOMAIN front
      /\ front'[a] = Monus(front[a], Cancelled(OrderOf[a].price, t))
      /\ front'[b] = Monus(front[b], Cancelled(OrderOf[a].price, t))
  BY <1>4 DEF StartTick, CallStart, InferCancels
<1> QED
  BY <1>2, <1>3, <1>5 DEF Monus

\* A trade keeps the order of two orders at one price (fifo.py 52-81).
LEMMA NextTradePriority ==
    ASSUME TypeInv, NextTrade,
           NEW a \in DOMAIN front, NEW b \in DOMAIN front,
           SameQueue(a, b), front[a] <= front[b], a \in DOMAIN front'
    PROVE  b \in DOMAIN front' /\ front'[a] <= front'[b]
<1> DEFINE t == Head(todo)
<1>1. t \in Trade
  BY DEF NextTrade, CallTrade, TypeInv, TypeOK
<1>2. MatchTrade(t, Len(todo))
  BY DEF NextTrade, CallTrade
<1> HIDE DEF t
<1>3. /\ a \in OrderIds /\ b \in OrderIds /\ front[a] \in Nat /\ front[b] \in Nat
      /\ OrderOf[a] \in Order /\ OrderOf[b] \in Order
  BY OrderAssumption DEF TypeInv, TypeOK, QueueTypeOK
<1>4. Matches(t, OrderOf[a]) <=> Matches(t, OrderOf[b])
  BY DEF SameQueue, Matches
<1>5. /\ NewFront(front[a], t) <= NewFront(front[b], t)
      /\ FillSize(front[b], OrderOf[b], t) > 0 => FillSize(front[a], OrderOf[a], t) > 0
  BY <1>1, <1>3, TradeKeepsPriority
<1>6. a \notin HitBy(t)
  BY <1>2 DEF MatchTrade
<1>7. b \notin HitBy(t)
  BY <1>4, <1>5, <1>6 DEF HitBy
<1> QED
  BY <1>2, <1>4, <1>5, <1>6, <1>7 DEF MatchTrade

\* Time priority among a strategy's own orders at a price survives every
\* inferred cancel and every trade, whatever the cancel model.
THEOREM PriorityIsKept == Spec => PriorityKept
<1> DEFINE P == pc = "matching" \/ pc' = "matching" =>
                  \A a, b \in DOMAIN front :
                     SameQueue(a, b) /\ front[a] <= front[b] /\ a \in DOMAIN front' =>
                        b \in DOMAIN front' /\ front'[a] <= front'[b]
<1>1. TypeInv /\ [Next]_vars => P
  <2> SUFFICES ASSUME TypeInv, [Next]_vars, pc = "matching" \/ pc' = "matching",
                      NEW a \in DOMAIN front, NEW b \in DOMAIN front,
                      SameQueue(a, b), front[a] <= front[b], a \in DOMAIN front'
               PROVE  b \in DOMAIN front' /\ front'[a] <= front'[b]
    OBVIOUS
  <2>1. CASE \E t \in Ticks, trades \in TradeLists : StartTick(t, trades)
    BY <2>1, InferCancelsPriority
  <2>2. CASE NextTrade
    BY <2>2, NextTradePriority
  <2>3. CASE EndTick
    BY <2>3 DEF EndTick, CallEnd, UpdateBook
  <2>4. CASE UNCHANGED vars
    BY <2>4 DEF vars, queueVars
  <2>5. CASE \E id \in OrderIds, book \in Books : RegisterOrder(id, book)
    BY <2>5 DEF RegisterOrder, CallRegister, callVars
  <2>6. CASE \E id \in OrderIds : CancelOrder(id)
    BY <2>6 DEF CancelOrder, CallCancel, callVars
  <2>7. CASE \E t \in Ticks : SkipTick(t)
    BY <2>7 DEF SkipTick, CallSkip
  <2>8. CASE Return
    BY <2>8 DEF Return, CallReturn
  <2> QED
    BY <2>1, <2>2, <2>3, <2>4, <2>5, <2>6, <2>7, <2>8 DEF Next
<1>2. Spec => []TypeInv
  BY InitType, TypeStep, PTL DEF Spec
<1> QED
  BY <1>1, <1>2, PTL DEF Spec, PriorityKept

-----------------------------------------------------------------------------
(* The account of what stands in front of an order                         *)

\* FrontAccounted for one order, in numbers.
Balanced(f, j, v, g) ==
    /\ f <= Monus(j, v + g)
    /\ RatioDen * f >= RatioDen * (j - g) - (RatioDen + MaxRatio) * v

\* Clipping at zero, scaled by the denominator of ratios.
LEMMA ScaleMonus ==
    ASSUME NEW f \in Nat, NEW x \in Nat
    PROVE  RatioDen * Monus(f, x) >= RatioDen * f - RatioDen * x
<1>1. Monus(f, x) \in Nat /\ f <= Monus(f, x) + x
  BY DEF Monus
<1>2. RatioDen * f <= RatioDen * (Monus(f, x) + x)
  BY <1>1, ProductMonotone, RatioAssumption
<1>3. RatioDen * (Monus(f, x) + x) = RatioDen * Monus(f, x) + RatioDen * x
  BY <1>1, RatioAssumption
<1> QED
  BY <1>1, <1>2, <1>3, RatioAssumption

\* Crediting cancels keeps the balance ...
LEMMA BalancedCancel ==
    ASSUME NEW f \in Nat, NEW j \in Nat, NEW v \in Nat, NEW g \in Nat, NEW x \in Nat,
           Balanced(f, j, v, g)
    PROVE  Balanced(Monus(f, x), j, v, g + x)
<1>1. Monus(f, x) <= Monus(j, v + (g + x))
  BY DEF Balanced, Monus
<1>2. RatioDen * Monus(f, x) >= RatioDen * f - RatioDen * x
  BY ScaleMonus
<1>3. RatioDen * (j - (g + x)) = RatioDen * (j - g) - RatioDen * x
  BY RatioAssumption
<1> DEFINE F == RatioDen * f
           X == RatioDen * x
           G == RatioDen * (j - g)
           V == (RatioDen + MaxRatio) * v
           N == RatioDen * Monus(f, x)
<1>4. F \in Int /\ X \in Int /\ G \in Int /\ V \in Int /\ N \in Int
  BY RatioAssumption DEF Monus
<1>5. F >= G - V /\ N >= F - X
  BY <1>2 DEF Balanced
<1> HIDE DEF F, X, G, V, N
<1>6. N >= (G - X) - V
  BY <1>4, <1>5
<1> QED
  BY <1>1, <1>3, <1>6 DEF Balanced, F, X, G, V, N

\* ... and so does a trade.
LEMMA BalancedTrade ==
    ASSUME NEW f \in Nat, NEW j \in Nat, NEW v \in Nat, NEW g \in Nat, NEW s \in Nat,
           Balanced(f, j, v, g)
    PROVE  Balanced(Monus(f, Consumed(f, s)), j, v + s, g)
<1> DEFINE c == Consumed(f, s)
<1>1. c \in Nat /\ c >= s /\ RatioDen * c <= (RatioDen + MaxRatio) * s
  BY ConsumedCoversTrade, ConsumedAtMost
<1> HIDE DEF c
<1>2. Monus(f, c) <= Monus(j, (v + s) + g)
  BY <1>1 DEF Balanced, Monus
<1>3. RatioDen * Monus(f, c) >= RatioDen * f - RatioDen * c
  BY <1>1, ScaleMonus
<1>4. (RatioDen + MaxRatio) * (v + s) = (RatioDen + MaxRatio) * v + (RatioDen + MaxRatio) * s
  BY RatioAssumption
<1> DEFINE F == RatioDen * f
           C == RatioDen * c
           G == RatioDen * (j - g)
           V == (RatioDen + MaxRatio) * v
           S == (RatioDen + MaxRatio) * s
           N == RatioDen * Monus(f, c)
<1>5. F \in Int /\ C \in Int /\ G \in Int /\ V \in Int /\ S \in Int /\ N \in Int
  BY <1>1, RatioAssumption DEF Monus
<1>6. F >= G - V /\ N >= F - C /\ C <= S
  BY <1>1, <1>3 DEF Balanced
<1> HIDE DEF F, C, G, V, S, N
<1>7. N >= G - (V + S)
  BY <1>5, <1>6
<1> QED
  BY <1>2, <1>4, <1>7 DEF Balanced, F, C, G, V, S, N, c

\* What a fill takes is covered by the volume that matched the order.
LEMMA BalancedFill ==
    ASSUME NEW f \in Nat, NEW j \in Nat, NEW v \in Nat, NEW g \in Nat,
           NEW t \in Trade, NEW o \in Order, Balanced(f, j, v, g), FillSize(f, o, t) > 0
    PROVE  RatioDen * (j + FillSize(f, o, t)) <=
              (RatioDen + MaxRatio) * (v + t.size) + RatioDen * g
<1> DEFINE s == t.size
           c == Consumed(f, s)
           z == FillSize(f, o, t)
<1>1. s \in Nat /\ o.size \in Nat
  BY DEF Trade, Order
<1>2. c \in Nat /\ c >= s /\ RatioDen * c <= (RatioDen + MaxRatio) * s
  BY <1>1, ConsumedCoversTrade, ConsumedAtMost
<1>3. z \in Nat /\ f + z <= c
  <2>1. z = Lesser(o.size, IF f > 0 THEN Monus(c, f) ELSE s) /\ z > 0
    BY DEF FillSize
  <2> HIDE DEF z, c
  <2> QED
    BY <1>1, <1>2, <2>1 DEF Lesser, Monus
<1> HIDE DEF c, z
<1>4. RatioDen * (f + z) <= RatioDen * c
  BY <1>2, <1>3, ProductMonotone, RatioAssumption
<1> DEFINE F == RatioDen * f
           Z == RatioDen * z
           C == RatioDen * c
           J == RatioDen * j
           G == RatioDen * g
           V == (RatioDen + MaxRatio) * v
           S == (RatioDen + MaxRatio) * s
<1>5. /\ F \in Int /\ Z \in Int /\ C \in Int /\ J \in Int /\ G \in Int /\ V \in Int
      /\ S \in Int
  BY <1>1, <1>2, <1>3, RatioAssumption
<1>6. /\ RatioDen * (f + z) = F + Z /\ RatioDen * (j + z) = J + Z
      /\ RatioDen * (j - g) = J - G
      /\ (RatioDen + MaxRatio) * (v + s) = V + S
  BY <1>1, <1>3, RatioAssumption
<1>7. F >= (J - G) - V /\ F + Z <= C /\ C <= S
  BY <1>2, <1>4, <1>6 DEF Balanced
<1>8. G = RatioDen * g /\ z = FillSize(f, o, t)
  BY DEF z
<1> HIDE DEF F, Z, C, J, G, V, S
<1>9. J + Z <= (V + S) + G
  BY <1>5, <1>7
<1> QED
  BY <1>6, <1>8, <1>9

AccountInv == TypeInv /\ FrontAccounted /\ FilledInTime /\ NoEarlyFill

\* FrontAccounted and FilledInTime speak of one resting order at a time.
OrderAccounted(id) ==
    /\ Balanced(front[id], joined[id], volume[id], gone[id])
    /\ volume[id] <= joined[id]

\* The account of all resting orders is kept order by order.
LEMMA AccountedByOrder ==
    FrontAccounted /\ FilledInTime <=> \A id \in DOMAIN front : OrderAccounted(id)
  BY DEF FrontAccounted, FilledInTime, OrderAccounted, Balanced

\* A new order opens its account with what it joins behind.
LEMMA RegisterOrderAccount ==
    ASSUME AccountInv, NEW id \in OrderIds, NEW b \in Books, RegisterOrder(id, b)
    PROVE  FrontAccounted' /\ FilledInTime' /\ NoEarlyFill'
<1> DEFINE q == QtyInFront(OrderOf[id], b)
<1>1. q \in Nat
  BY DepthsAreSizes
<1>2. /\ front' = Put(front, id, q) /\ joined' = Put(joined, id, q)
      /\ volume' = Put(volume, id, 0) /\ gone' = Put(gone, id, 0)
      /\ hits' = {}
  BY DEF RegisterOrder, CallRegister, Register, AccountInv, TypeInv, HitsApart
<1> HIDE DEF q
<1>3. Balanced(q, q, 0, 0)
  BY <1>1, RatioAssumption DEF Balanced, Monus
<1>4. SUFFICES ASSUME NEW x \in DOMAIN front' PROVE OrderAccounted(x)'
  BY <1>2 DEF FrontAccounted, FilledInTime, NoEarlyFill, OrderAccounted, Balanced
<1>5. CASE x = id
  <2>1. front'[x] = q /\ joined'[x] = q /\ volume'[x] = 0 /\ gone'[x] = 0
    BY <1>2, <1>5 DEF Put
  <2> QED
    BY <1>1, <1>3, <2>1 DEF OrderAccounted
<1>6. CASE x # id
  <2>1. x \in DOMAIN front /\ x \in DOMAIN joined /\ x \in DOMAIN volume /\ x \in DOMAIN gone
    BY <1>2, <1>6 DEF Put, AccountInv, TypeInv, TypeOK
  <2>2. front'[x] = front[x] /\ joined'[x] = joined[x] /\ volume'[x] = volume[x] /\ gone'[x] = gone[x]
    BY <1>2, <1>6, <2>1 DEF Put
  <2> QED
    BY <2>1, <2>2, AccountedByOrder DEF OrderAccounted, AccountInv
<1> QED
  BY <1>5, <1>6

\* Inferred cancels keep the accounts (fifo.py 207-231).
LEMMA StartTickAccount ==
    ASSUME AccountInv, NEW t \in Ticks, NEW trades \in TradeLists, StartTick(t, trades)
    PROVE  FrontAccounted' /\ FilledInTime' /\ NoEarlyFill'
<1> DEFINE arg == [book |-> t.book, trades |-> trades, truth |-> t.truth]
<1>1. hits' = {}
  BY DEF StartTick, CallStart, InferCancels, AccountInv, TypeInv, HitsApart
<1>2. SUFFICES ASSUME NEW id \in DOMAIN front' PROVE OrderAccounted(id)'
  BY <1>1 DEF FrontAccounted, FilledInTime, NoEarlyFill, OrderAccounted, Balanced
<1> DEFINE x == Cancelled(OrderOf[id].price, t)
<1>3. id \in DOMAIN front /\ id \in OrderIds /\ id \in DOMAIN joined /\ id \in DOMAIN gone
  BY DEF StartTick, CallStart, InferCancels, AccountInv, TypeInv, TypeOK, QueueTypeOK
<1>4. arg \in TickArg /\ Cancelled(OrderOf[id].price, arg) = x
  BY DEF Ticks, TickArg, Cancelled
<1>5. x \in Nat
  BY <1>3, <1>4, CancelledNat DEF TickArg, AccountInv, TypeInv, TypeOK
<1>6. front'[id] = Monus(front[id], x) /\ gone'[id] = gone[id] + x
  BY <1>3 DEF StartTick, CallStart, InferCancels
<1>7. joined' = joined /\ volume' = volume
  BY DEF StartTick, CallStart
<1> HIDE DEF x
<1>8. front[id] \in Nat /\ joined[id] \in Nat /\ volume[id] \in Nat /\ gone[id] \in Nat
  BY <1>3 DEF AccountInv, TypeInv, TypeOK, QueueTypeOK
<1>9. OrderAccounted(id)
  BY <1>3, AccountedByOrder DEF AccountInv
<1> QED
  BY <1>5, <1>6, <1>7, <1>8, <1>9, BalancedCancel DEF OrderAccounted

\* A matched trade keeps the accounts, and a fill settles its own
\* (fifo.py 52-81).
LEMMA NextTradeAccount ==
    ASSUME AccountInv, NextTrade
    PROVE  FrontAccounted' /\ FilledInTime' /\ NoEarlyFill'
<1> DEFINE t == Head(todo)
<1>1. t \in Trade /\ t.size \in Nat \ {0}
  <2>1. todo \in Seq(Trade) /\ todo # <<>>
    BY DEF NextTrade, CallTrade, AccountInv, TypeInv, TypeOK
  <2>2. t \in Trade
    BY <2>1
  <2> QED
    BY <2>2 DEF Trade
<1>2. MatchTrade(t, Len(todo)) /\ joined' = joined /\ gone' = gone
  BY DEF NextTrade, CallTrade
<1>3. \A id \in DOMAIN joined :
         volume'[id] = IF id \in DOMAIN front /\ Matches(t, OrderOf[id])
                       THEN volume[id] + t.size ELSE volume[id]
  BY DEF NextTrade, CallTrade, AccountInv, TypeInv, TypeOK
<1> HIDE DEF t
<1>4. \A id \in DOMAIN front :
         /\ id \in DOMAIN joined /\ id \in OrderIds /\ OrderOf[id] \in Order
         /\ front[id] \in Nat /\ joined[id] \in Nat /\ volume[id] \in Nat /\ gone[id] \in Nat
         /\ OrderAccounted(id)
  BY OrderAssumption, AccountedByOrder DEF AccountInv, TypeInv, TypeOK, QueueTypeOK
<1>5. ASSUME NEW id \in DOMAIN front' PROVE OrderAccounted(id)'
  <2>1. id \in DOMAIN front /\ id \notin HitBy(t)
    BY <1>2, <1>5 DEF MatchTrade
  <2>2. front'[id] = IF Matches(t, OrderOf[id]) THEN NewFront(front[id], t) ELSE front[id]
    BY <1>2, <2>1 DEF MatchTrade
  <2>3. CASE ~Matches(t, OrderOf[id])
    BY <1>2, <1>3, <1>4, <2>1, <2>2, <2>3 DEF OrderAccounted
  <2>4. CASE Matches(t, OrderOf[id])
    <3>1. Balanced(front'[id], joined[id], volume[id] + t.size, gone[id])
      BY <1>1, <1>4, <2>1, <2>2, <2>4, BalancedTrade DEF NewFront, OrderAccounted
    <3>2. front[id] # 0 /\ Consumed(front[id], t.size) <= front[id]
      <4>1. ~(FillSize(front[id], OrderOf[id], t) > 0)
        BY <2>1, <2>4 DEF HitBy
      <4>2. Consumed(front[id], t.size) \in Nat
        BY <1>1, <1>4, <2>1, ConsumedCoversTrade
      <4>3. OrderOf[id].size \in Nat \ {0}
        BY <1>4, <2>1 DEF Order
      <4> QED
        BY <1>1, <1>4, <2>1, <4>1, <4>2, <4>3 DEF FillSize, Lesser, Monus
    <3>3. t.size <= front[id]
      <4>1. Consumed(front[id], t.size) \in Nat /\ Consumed(front[id], t.size) >= t.size
        BY <1>1, <1>4, <2>1, ConsumedCoversTrade
      <4> QED
        BY <1>1, <1>4, <2>1, <3>2, <4>1
    <3>4. volume[id] + t.size <= joined[id]
      BY <1>1, <1>4, <2>1, <3>2, <3>3 DEF OrderAccounted, Balanced, Monus
    <3> QED
      BY <1>2, <1>3, <1>4, <2>1, <2>4, <3>1, <3>4 DEF OrderAccounted
  <2> QED
    BY <2>3, <2>4
<1>6. NoEarlyFill'
  <2> SUFFICES ASSUME NEW h \in hits'
               PROVE  RatioDen * (joined[h.id] + h.size) <=
                        (RatioDen + MaxRatio) * volume'[h.id] + RatioDen * gone[h.id]
    BY <1>2 DEF NoEarlyFill
  <2>1. CASE h \in hits
    <3>1. h.id \in DOMAIN joined /\ h.id \notin DOMAIN front
      BY <2>1 DEF AccountInv, TypeInv, TypeOK, HitsApart, HitIds
    <3>2. volume'[h.id] = volume[h.id]
      BY <1>3, <3>1
    <3> QED
      BY <2>1, <3>2 DEF AccountInv, NoEarlyFill
  <2>2. CASE h \notin hits
    <3>1. PICK id \in HitBy(t) : h.id = id /\ h.size = FillSize(front[id], OrderOf[id], t)
      BY <1>2, <2>2 DEF MatchTrade
    <3>2. id \in DOMAIN front /\ Matches(t, OrderOf[id]) /\ FillSize(front[id], OrderOf[id], t) > 0
      BY DEF HitBy
    <3>3. volume'[id] = volume[id] + t.size
      BY <1>3, <1>4, <3>2
    <3>4. Balanced(front[id], joined[id], volume[id], gone[id])
      BY <1>4, <3>2 DEF OrderAccounted
    <3> QED
      BY <1>1, <1>4, <3>1, <3>2, <3>3, <3>4, BalancedFill
  <2> QED
    BY <2>1, <2>2
<1>7. FrontAccounted' /\ FilledInTime'
  BY <1>5 DEF FrontAccounted, FilledInTime, OrderAccounted, Balanced
<1> QED
  BY <1>6, <1>7

\* Dropping an order leaves the accounts of the others.
LEMMA ForgetAccount ==
    ASSUME AccountInv, \/ \E id \in OrderIds : CancelOrder(id)
                       \/ Return
    PROVE  FrontAccounted' /\ FilledInTime' /\ NoEarlyFill'
<1>1. PICK ids : /\ Forget(ids)
                 /\ front' = Without(front, ids) \/ (front' = front /\ ids \cap DOMAIN front = {})
                 /\ hits' = {}
  <2>1. CASE \E id \in OrderIds : CancelOrder(id)
    BY <2>1 DEF CancelOrder, CallCancel, Cancel, AccountInv, TypeInv, HitsApart
  <2>2. CASE Return
    BY <2>2 DEF Return, CallReturn, AccountInv, TypeInv, HitsApart, HitIds
  <2> QED
    BY <2>1, <2>2
<1>2. DOMAIN front \subseteq DOMAIN joined /\ DOMAIN volume = DOMAIN joined /\ DOMAIN gone = DOMAIN joined
  BY DEF AccountInv, TypeInv, TypeOK
<1>3. ASSUME NEW id \in DOMAIN front' PROVE OrderAccounted(id)'
  <2>1. id \in DOMAIN front /\ id \notin ids /\ front'[id] = front[id]
    BY <1>1, <1>3 DEF Without
  <2>2. joined'[id] = joined[id] /\ volume'[id] = volume[id] /\ gone'[id] = gone[id]
    BY <1>1, <1>2, <2>1 DEF Forget, Without
  <2> QED
    BY <2>1, <2>2, AccountedByOrder DEF OrderAccounted, AccountInv
<1>4. FrontAccounted' /\ FilledInTime'
  BY <1>3 DEF FrontAccounted, FilledInTime, OrderAccounted, Balanced
<1> QED
  BY <1>1, <1>4 DEF NoEarlyFill

\* A new simulator has nothing to account for.
LEMMA AccountInit == Init => AccountInv
<1> SUFFICES ASSUME Init PROVE FrontAccounted /\ FilledInTime /\ NoEarlyFill
  BY InitType DEF AccountInv
<1>1. DOMAIN front = {} /\ hits = {}
  BY DEF Init, CallInit, QueueInit
<1> QED
  BY <1>1 DEF FrontAccounted, FilledInTime, NoEarlyFill

\* Every call keeps the accounts.
LEMMA AccountStep == AccountInv /\ [Next]_vars => AccountInv'
<1> SUFFICES ASSUME AccountInv, [Next]_vars
             PROVE  FrontAccounted' /\ FilledInTime' /\ NoEarlyFill'
  BY TypeStep DEF AccountInv
<1>1. CASE \E id \in OrderIds, b \in Books : RegisterOrder(id, b)
  BY <1>1, RegisterOrderAccount
<1>2. CASE (\E id \in OrderIds : CancelOrder(id)) \/ Return
  BY <1>2, ForgetAccount
<1>3. CASE \E t \in Ticks, trades \in TradeLists : StartTick(t, trades)
  BY <1>3, StartTickAccount
<1>4. CASE NextTrade
  BY <1>4, NextTradeAccount
<1>5. CASE (\E t \in Ticks : SkipTick(t)) \/ EndTick \/ UNCHANGED vars
  <2>1. UNCHANGED <<front, hits, joined, volume, gone>>
    BY <1>5 DEF SkipTick, CallSkip, EndTick, CallEnd, UpdateBook, vars, queueVars, history
  <2> QED
    BY <2>1 DEF AccountInv, FrontAccounted, FilledInTime, NoEarlyFill
<1> QED
  BY <1>1, <1>2, <1>3, <1>4, <1>5 DEF Next

\* What stands in front of a resting order is always accounted for, from above
\* and from below, by what it joined behind, the cancels credited to it and
\* the volume that matched it (fifo.py process_trade, _infer_cancels).
THEOREM FrontIsAccounted == Spec => []FrontAccounted
<1>1. AccountInv => FrontAccounted
  BY DEF AccountInv
<1> QED
  BY <1>1, AccountInit, AccountStep, PTL DEF Spec

\* No order starves: it rests only while the volume that matched it has not
\* exceeded what it joined behind (fifo.py 63-75).
THEOREM OrdersAreFilledInTime == Spec => []FilledInTime
<1>1. AccountInv => FilledInTime
  BY DEF AccountInv
<1> QED
  BY <1>1, AccountInit, AccountStep, PTL DEF Spec

\* No order is filled early or too large: matched volume, swollen by the largest
\* cancel ratio, and credited cancels cover the queue and the fill.
THEOREM NoFillIsEarly == Spec => []NoEarlyFill
<1>1. AccountInv => NoEarlyFill
  BY DEF AccountInv
<1> QED
  BY <1>1, AccountInit, AccountStep, PTL DEF Spec
=============================================================================
