--------------------------- MODULE FIFOQueueProofs ---------------------------
(***************************************************************************)
(* What a trade consumes, leaves and fills by the market rules, and that   *)
(* each operation of the simulator keeps its state well formed, for every  *)
(* value of the constants.                                                 *)
(***************************************************************************)
EXTENDS FIFOQueue, OrderingProofs

-----------------------------------------------------------------------------
(* What books show.                                                        *)

\* Levels hold sizes, on both sides of any book.
LEMMA SidesShowSizes ==
    ASSUME NEW b \in Books \cup {EmptyBook}
    PROVE  \A side \in {b.bids, b.asks} :
              IsFiniteSet(DOMAIN side) /\ \A p \in DOMAIN side : side[p] \in Nat
<1>1. CASE b \in Books
  BY <1>1, BookAssumption
<1>2. CASE b = EmptyBook
  <2>1. b.bids = [p \in {} |-> 0] /\ b.asks = [p \in {} |-> 0]
    BY <1>2 DEF EmptyBook
  <2>2. \A side \in {b.bids, b.asks} : DOMAIN side = {}
    BY <2>1
  <2> QED
    BY <2>2, FS_EmptySet
<1> QED
  BY <1>1, <1>2

\* What a book shows an order is a size: in front of it, to take, and at its
\* price (fifo.py 225-255, taker.py 25-60).
LEMMA DepthsAreSizes ==
    ASSUME NEW b \in Books \cup {EmptyBook}, NEW id \in OrderIds
    PROVE  /\ QtyInFront(OrderOf[id], b) \in Nat
           /\ TakerSize(OrderOf[id], b) \in Nat
           /\ SizeAt(b, OrderOf[id].price) \in Nat
<1> DEFINE o == OrderOf[id]
           own == OwnSide(o, b)
           other == OppositeSide(o, b)
<1>1. o \in Order
  BY OrderAssumption
<1>2. own \in {b.bids, b.asks} /\ other \in {b.bids, b.asks}
  BY DEF OwnSide, OppositeSide
<1>3. /\ IsFiniteSet(DOMAIN own) /\ \A p \in DOMAIN own : own[p] \in Nat
      /\ IsFiniteSet(DOMAIN other) /\ \A p \in DOMAIN other : other[p] \in Nat
  BY <1>2, SidesShowSizes
<1>4. QtyInFront(o, b) \in Nat
  <2> DEFINE T == {p \in DOMAIN own : o.side * p >= o.side * o.price}
  <2>1. QtyInFront(o, b) = SumFunctionOnSet(own, T)
    BY DEF QtyInFront, MapThenSumSet, MapThenFoldSet, SumFunctionOnSet, FoldFunctionOnSet
  <2>2. IsFiniteSet(T) /\ \A p \in T : own[p] \in Nat
    BY <1>3, FS_Subset
  <2> QED
    BY <2>1, <2>2, SumOfSizes
<1>5. TakerSize(o, b) \in Nat
  <2> DEFINE T == {p \in DOMAIN other : o.side * p <= o.side * o.price}
  <2>1. TakerSize(o, b) = Lesser(o.size, SumFunctionOnSet(other, T))
    BY DEF TakerSize, MapThenSumSet, MapThenFoldSet, SumFunctionOnSet, FoldFunctionOnSet
  <2>2. IsFiniteSet(T) /\ \A p \in T : other[p] \in Nat
    BY <1>3, FS_Subset
  <2>3. SumFunctionOnSet(other, T) \in Nat
    BY <2>2, SumOfSizes
  <2> QED
    BY <1>1, <2>1, <2>3 DEF Lesser, Order
<1>6. SizeAt(b, o.price) \in Nat
  <2>1. /\ \A p \in DOMAIN b.asks : b.asks[p] \in Nat
        /\ \A p \in DOMAIN b.bids : b.bids[p] \in Nat
    BY SidesShowSizes
  <2> QED
    BY <2>1 DEF SizeAt
<1> QED
  BY <1>4, <1>5, <1>6

-----------------------------------------------------------------------------
(* What a trade does.                                                      *)

\* Natural division stays natural (the ratio arithmetic of the cancel models).
LEMMA DivNat ==
    ASSUME NEW n \in Nat, NEW d \in Nat \ {0}
    PROVE  n \div d \in Nat
  OBVIOUS

\* A cancel model's fraction is a natural number of 1/RatioDen (cancel_models.py
\* 19-20, 35-38).
LEMMA FractionNat ==
    ASSUME NEW q \in Nat, NEW s \in Nat
    PROVE  CancelledFraction(q, s) \in Nat
<1>1. CASE q = 0
  BY <1>1 DEF CancelledFraction
<1>2. CASE q # 0
  <2>1. s * RatioDen \in Nat
    BY RatioAssumption
  <2>2. (s * RatioDen) \div q \in Nat
    BY <1>2, <2>1, DivNat
  <2> QED
    BY <1>2, <2>2, RatioAssumption DEF CancelledFraction, Greater, Lesser
<1> QED
  BY <1>1, <1>2

\* A trade consumes at least its own size of the queue (fifo.py 62-63).
LEMMA ConsumedCoversTrade ==
    ASSUME NEW q \in Nat, NEW s \in Nat
    PROVE  Consumed(q, s) \in Nat /\ Consumed(q, s) >= s
<1> DEFINE extra == (s * CancelledFraction(q, s)) \div RatioDen
<1>1. s * CancelledFraction(q, s) \in Nat
  BY FractionNat
<1>2. extra \in Nat
  BY <1>1, DivNat, RatioAssumption
<1> HIDE DEF extra
<1>3. s + extra \in Nat /\ s + extra >= s
  BY <1>2
<1> QED
  BY <1>3 DEF Consumed, extra

\* The queue in front never grows by a trade and never goes below zero
\* (fifo.py 64-67).
LEMMA NewFrontShrinks ==
    ASSUME NEW q \in Nat, NEW t \in Trade
    PROVE  NewFront(q, t) \in Nat /\ NewFront(q, t) <= q
<1>1. t.size \in Nat
  BY DEF Trade
<1>2. Consumed(q, t.size) \in Nat
  BY <1>1, ConsumedCoversTrade
<1> QED
  BY <1>2 DEF NewFront, Monus

\* A fill never exceeds its order, and a trade that reaches an order at the
\* head of the queue always fills it (fifo.py 66-75).
LEMMA FillSizeBounds ==
    ASSUME NEW q \in Nat, NEW t \in Trade, NEW o \in Order
    PROVE  /\ FillSize(q, o, t) \in 0..o.size
           /\ q = 0 => FillSize(q, o, t) > 0
           /\ FillSize(q, o, t) > 0 => NewFront(q, t) = 0
<1>1. t.size \in Nat \ {0} /\ o.size \in Nat \ {0}
  BY DEF Trade, Order
<1>2. Consumed(q, t.size) \in Nat /\ Consumed(q, t.size) >= t.size
  BY <1>1, ConsumedCoversTrade
<1> QED
  BY <1>1, <1>2 DEF FillSize, Lesser, Monus, NewFront

-----------------------------------------------------------------------------
(* Time priority: the order with less in front never loses its place.      *)

\* Multiplication and division are monotone.
LEMMA ProductMonotone ==
    ASSUME NEW s \in Nat, NEW a \in Nat, NEW b \in Nat, a <= b
    PROVE  s * a <= s * b
  OBVIOUS

\* n \div d is the largest quotient whose product fits in n.
LEMMA QuotientLargest ==
    ASSUME NEW n \in Nat, NEW d \in Nat \ {0}, NEW k \in Nat, k * d <= n
    PROVE  k <= n \div d
<1>1. n \div d \in Nat /\ n < d * (n \div d) + d
  OBVIOUS
<1>2. SUFFICES ASSUME k >= (n \div d) + 1 PROVE FALSE
  BY <1>1
<1>3. ((n \div d) + 1) * d <= k * d
  BY <1>1, <1>2
<1> QED
  BY <1>1, <1>3

\* Integer division never exceeds the quotient: the rounding of every ratio is down.
LEMMA QuotientFits ==
    ASSUME NEW n \in Nat, NEW d \in Nat \ {0}
    PROVE  (n \div d) * d <= n
  OBVIOUS

\* A larger queue dilutes the pro-rata cancel rate (cancel_models.py 38).
LEMMA FractionAntitone ==
    ASSUME NEW a \in Nat \ {0}, NEW b \in Nat \ {0}, a <= b, NEW s \in Nat
    PROVE  CancelledFraction(b, s) <= CancelledFraction(a, s)
<1> DEFINE n == s * RatioDen
           k == n \div b
<1>1. n \in Nat
  BY RatioAssumption
<1> HIDE DEF n
<1>2. k \in Nat /\ k * b <= n
  BY <1>1, DivNat, QuotientFits
<1> HIDE DEF k
<1>3. k * a <= n
  BY <1>1, <1>2, ProductMonotone
<1>4. k <= n \div a
  BY <1>1, <1>2, <1>3, QuotientLargest
<1>5. n \div a \in Nat
  BY <1>1, DivNat
<1> QED
  BY <1>2, <1>4, <1>5, RatioAssumption DEF CancelledFraction, Greater, Lesser, k, n

\* A larger cancelled size gives no smaller a ratio.
LEMMA QuotientMonotone ==
    ASSUME NEW m \in Nat, NEW n \in Nat, m <= n, NEW d \in Nat \ {0}
    PROVE  m \div d <= n \div d
<1> DEFINE k == m \div d
<1>1. k \in Nat /\ k * d <= m
  BY DivNat, QuotientFits
<1> HIDE DEF k
<1>2. k <= n \div d
  BY <1>1, QuotientLargest
<1> QED
  BY <1>2 DEF k

\* So the same trade consumes no less of a shorter queue.
LEMMA ConsumedAntitone ==
    ASSUME NEW a \in Nat \ {0}, NEW b \in Nat \ {0}, a <= b, NEW s \in Nat
    PROVE  Consumed(b, s) <= Consumed(a, s)
<1> DEFINE fa == CancelledFraction(a, s)
           fb == CancelledFraction(b, s)
<1>1. fa \in Nat /\ fb \in Nat /\ fb <= fa
  BY FractionNat, FractionAntitone
<1> HIDE DEF fa, fb
<1>2. s * fb \in Nat /\ s * fa \in Nat /\ s * fb <= s * fa
  BY <1>1, ProductMonotone
<1>3. (s * fb) \div RatioDen <= (s * fa) \div RatioDen
  BY <1>2, QuotientMonotone, RatioAssumption
<1>4. (s * fb) \div RatioDen \in Nat /\ (s * fa) \div RatioDen \in Nat
  BY <1>2, DivNat, RatioAssumption
<1> DEFINE xa == (s * fa) \div RatioDen
           xb == (s * fb) \div RatioDen
<1>5. xa \in Nat /\ xb \in Nat /\ xb <= xa
  BY <1>3, <1>4
<1> HIDE DEF xa, xb
<1>6. s + xb <= s + xa
  BY <1>5
<1> QED
  BY <1>6 DEF Consumed, xa, xb, fa, fb

\* A trade leaves the order that had less in front ahead, and cannot fill the
\* other without filling it (fifo.py process_trade, both cancel models).
LEMMA TradeKeepsPriority ==
    ASSUME NEW a \in Nat, NEW b \in Nat, a <= b, NEW t \in Trade,
           NEW oa \in Order, NEW ob \in Order
    PROVE  /\ NewFront(a, t) <= NewFront(b, t)
           /\ FillSize(b, ob, t) > 0 => FillSize(a, oa, t) > 0
<1>1. t.size \in Nat \ {0} /\ oa.size \in Nat \ {0} /\ ob.size \in Nat \ {0}
  BY DEF Trade, Order
<1>2. CASE a = 0
  <2>1. NewFront(a, t) = 0
    BY <1>2, NewFrontShrinks
  <2>2. FillSize(a, oa, t) > 0
    BY <1>2, FillSizeBounds
  <2> QED
    BY <2>1, <2>2, NewFrontShrinks
<1>3. CASE a # 0
  <2>1. Consumed(b, t.size) <= Consumed(a, t.size)
    BY <1>1, <1>3, ConsumedAntitone
  <2>2. Consumed(a, t.size) \in Nat /\ Consumed(b, t.size) \in Nat
    BY <1>1, ConsumedCoversTrade
  <2> QED
    BY <1>1, <1>3, <2>1, <2>2 DEF NewFront, FillSize, Monus, Lesser
<1> QED
  BY <1>2, <1>3

\* A trade never consumes more than its size and the largest cancel ratio.
LEMMA ConsumedAtMost ==
    ASSUME NEW q \in Nat, NEW s \in Nat
    PROVE  RatioDen * Consumed(q, s) <= (RatioDen + MaxRatio) * s
<1> DEFINE f == CancelledFraction(q, s)
           x == (s * f) \div RatioDen
<1>1. f \in Nat /\ f <= MaxRatio
  <2>1. (s * RatioDen) \div q \in Nat \/ q = 0
    BY DivNat, RatioAssumption
  <2> QED
    BY <2>1, FractionNat, RatioAssumption DEF CancelledFraction, Greater, Lesser
<1> HIDE DEF f
<1>2. s * f \in Nat /\ s * f <= s * MaxRatio
  BY <1>1, ProductMonotone, RatioAssumption
<1>3. x \in Nat /\ x * RatioDen <= s * f
  BY <1>2, DivNat, QuotientFits, RatioAssumption
<1>4. Consumed(q, s) = s + x
  BY DEF Consumed, x, f
<1> HIDE DEF x
<1>5. RatioDen * (s + x) = RatioDen * s + x * RatioDen
  BY <1>3, RatioAssumption
<1>6. (RatioDen + MaxRatio) * s = RatioDen * s + s * MaxRatio
  BY RatioAssumption
<1>7. /\ RatioDen * s \in Nat /\ x * RatioDen \in Nat /\ s * MaxRatio \in Nat
      /\ x * RatioDen <= s * MaxRatio
  BY <1>2, <1>3, RatioAssumption
<1> QED
  BY <1>4, <1>5, <1>6, <1>7

-----------------------------------------------------------------------------
(* The operations of the simulator.                                        *)

\* What the heuristic or the feed credits as cancelled is a size.
LEMMA CancelledNat ==
    ASSUME QueueTypeOK, NEW id \in OrderIds,
           NEW t \in [book : Books, trades : TradeLists, truth : Truths \cup {NoTruth}]
    PROVE  Cancelled(OrderOf[id].price, t) \in Nat
<1>1. SizeAt(prevBook, OrderOf[id].price) \in Nat
  BY DepthsAreSizes DEF QueueTypeOK
<1>2. SizeAt(t.book, OrderOf[id].price) \in Nat
  BY DepthsAreSizes
<1>3. t.truth # NoTruth => t.truth \in Truths
  OBVIOUS
<1> QED
  BY <1>1, <1>2, <1>3, TickAssumption DEF Cancelled, Monus

TickArg == [book : Books, trades : TradeLists, truth : Truths \cup {NoTruth}]

\* register (fifo.py 115-125) leaves the queue well typed.
LEMMA RegisterType ==
    ASSUME QueueTypeOK, NEW id \in OrderIds, NEW b \in Books \cup {EmptyBook}, Register(id, b)
    PROVE  QueueTypeOK'
<1>1. QtyInFront(OrderOf[id], b) \in Nat
  BY DepthsAreSizes
<1> QED
  BY <1>1 DEF QueueTypeOK, Register, Put

\* cancel (fifo.py 127-137) leaves the queue well typed.
LEMMA CancelType ==
    ASSUME QueueTypeOK, NEW id, Cancel(id)
    PROVE  QueueTypeOK'
  BY DEF QueueTypeOK, Cancel, Without

\* _infer_cancels (fifo.py 207-231) never takes an estimate below zero.
LEMMA InferCancelsType ==
    ASSUME QueueTypeOK, NEW t \in TickArg, InferCancels(t)
    PROVE  QueueTypeOK'
<1>1. \A id \in OrderIds : Cancelled(OrderOf[id].price, t) \in Nat
  BY CancelledNat DEF TickArg
<1>2. \A id \in DOMAIN front : front[id] \in Nat /\ id \in OrderIds
  BY DEF QueueTypeOK
<1>3. \A id \in DOMAIN front : Monus(front[id], Cancelled(OrderOf[id].price, t)) \in Nat
  BY <1>1, <1>2 DEF Monus
<1> QED
  BY <1>3 DEF QueueTypeOK, InferCancels

\* process_trade (fifo.py 52-81), over every resting order, never leaves a
\* negative estimate nor a fill of nothing.
LEMMA MatchTradeType ==
    ASSUME QueueTypeOK, NEW t \in Trade, NEW left \in Nat, MatchTrade(t, left)
    PROVE  QueueTypeOK'
<1>1. \A id \in DOMAIN front : front[id] \in Nat /\ id \in OrderIds /\ OrderOf[id] \in Order
  BY OrderAssumption DEF QueueTypeOK
<1>2. \A id \in DOMAIN front : NewFront(front[id], t) \in Nat
  BY <1>1, NewFrontShrinks
<1>3. \A id \in HitBy(t) : FillSize(front[id], OrderOf[id], t) \in Nat \ {0}
  <2> TAKE id \in HitBy(t)
  <2>1. id \in DOMAIN front /\ FillSize(front[id], OrderOf[id], t) > 0
    BY DEF HitBy
  <2>2. FillSize(front[id], OrderOf[id], t) \in 0..OrderOf[id].size
    BY <1>1, <2>1, FillSizeBounds
  <2>3. OrderOf[id].size \in Nat
    BY <1>1, <2>1 DEF Order
  <2> QED
    BY <2>1, <2>2, <2>3
<1>4. HitBy(t) \subseteq OrderIds
  BY <1>1 DEF HitBy
<1>5. hits' \subseteq [id : OrderIds, size : Nat \ {0}, left : Nat]
  BY <1>3, <1>4 DEF MatchTrade, QueueTypeOK
<1>6. DOMAIN front' \subseteq OrderIds /\ \A id \in DOMAIN front' : front'[id] \in Nat
  BY <1>1, <1>2 DEF MatchTrade
<1> QED
  BY <1>5, <1>6 DEF MatchTrade, QueueTypeOK

\* _update_book (fifo.py 233-234) leaves the queue well typed.
LEMMA UpdateBookType ==
    ASSUME QueueTypeOK, NEW t, t.book \in Books \cup {EmptyBook}, UpdateBook(t)
    PROVE  QueueTypeOK'
  BY DEF QueueTypeOK, UpdateBook

\* The fills a trade adds are those of the orders it takes out of the queue.
LEMMA MatchTradeMoves ==
    ASSUME NEW t, NEW left, MatchTrade(t, left)
    PROVE  /\ {h.id : h \in hits'} = {h.id : h \in hits} \cup HitBy(t)
           /\ HitBy(t) \subseteq DOMAIN front
           /\ DOMAIN front' = DOMAIN front \ HitBy(t)
<1> DEFINE Made(id) == [id |-> id, size |-> FillSize(front[id], OrderOf[id], t), left |-> left]
           made     == {Made(id) : id \in HitBy(t)}
<1>1. hits' = hits \cup made
  BY DEF MatchTrade
<1>2. \A id : Made(id).id = id
  OBVIOUS
<1>3. {h.id : h \in made} = HitBy(t)
  <2> HIDE DEF Made
  <2> QED
    BY <1>2
<1> HIDE DEF made
<1>4. {h.id : h \in hits'} = {h.id : h \in hits} \cup {h.id : h \in made}
  BY <1>1
<1>5. HitBy(t) \subseteq DOMAIN front
  BY DEF HitBy
<1>6. DOMAIN front' = DOMAIN front \ HitBy(t)
  BY DEF MatchTrade
<1> QED
  BY <1>3, <1>4, <1>5, <1>6
=============================================================================
