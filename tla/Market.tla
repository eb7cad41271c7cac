------------------------------- MODULE Market -------------------------------
(***************************************************************************)
(* The data every engine of mmbt works on, and the pure rules about it:    *)
(* order books, trades and orders (core/types.py), the crossing test and   *)
(* the depth a taker order may take (queue/taker.py), the queue a resting  *)
(* order joins (queue/fifo.py) and the share of that queue a cancel model  *)
(* removes with each trade (queue/cancel_models.py).                       *)
(*                                                                         *)
(* Sizes are whole lots and prices whole ticks, so the code's 1e-9 and     *)
(* 1e-12 tolerances become exact comparisons.  An order's attributes never *)
(* change once submitted: an id stands for its order, and what a strategy  *)
(* chooses is which orders to submit and when.                             *)
(***************************************************************************)
EXTENDS Integers, Sequences, FiniteSets, FiniteSetsExt

CONSTANTS
    OrderIds,   \* the ids a strategy may use, each at most once
    OrderOf,    \* the order behind an id
    Books,      \* the books a tick may carry
    TradeLists, \* the trades a tick may carry, in print order
    Truths,     \* the known_cancels a tick may carry: cancelled size by price
    NoTruth,    \* known_cancels is None
    RatioDen,   \* cancel ratios are multiples of 1/RatioDen
    MinRatio,   \* smallest and ...
    MaxRatio    \* ... largest cancelled fraction, times RatioDen

BUY  == 1
SELL == -1

Order == [side : {BUY, SELL}, price : Int, size : Nat \ {0}, postOnly : BOOLEAN]
Trade == [side : {BUY, SELL}, price : Int, size : Nat \ {0}]

Lesser(a, b)  == IF a < b THEN a ELSE b
Greater(a, b) == IF a > b THEN a ELSE b
\* max(0.0, a - b)
Monus(a, b)   == IF a > b THEN a - b ELSE 0
Abs(a)        == IF a < 0 THEN -a ELSE a

-----------------------------------------------------------------------------
(* Books: each side maps the prices it shows to the sizes it shows.        *)

EmptyBook == [bids |-> [p \in {} |-> 0], asks |-> [p \in {} |-> 0]]

OwnSide(o, b)      == IF o.side = BUY THEN b.bids ELSE b.asks
OppositeSide(o, b) == IF o.side = BUY THEN b.asks ELSE b.bids

\* {lvl.price: lvl.size for lvl in book.bids + book.asks}.get(p, 0.0)
SizeAt(b, p) ==
    CASE p \in DOMAIN b.asks -> b.asks[p]
      [] p \in DOMAIN b.bids /\ p \notin DOMAIN b.asks -> b.bids[p]
      [] OTHER -> 0

Crosses(o, b) ==
    /\ DOMAIN b.bids # {} /\ DOMAIN b.asks # {}
    /\ \E p \in DOMAIN OppositeSide(o, b) : o.side * p <= o.side * o.price

\* What a taker order fills: the acceptable depth, up to its size.  The rest
\* of the order is dropped (IOC).
TakerSize(o, b) ==
    LET side       == OppositeSide(o, b)
        acceptable == {p \in DOMAIN side : o.side * p <= o.side * o.price}
    IN  Lesser(o.size, MapThenSumSet(LAMBDA p : side[p], acceptable))

\* What it pays: its lots are taken level by level, the best price first.
TakerNotional(o, b) ==
    LET side   == OppositeSide(o, b)
        taken  == TakerSize(o, b)
        before == [p \in DOMAIN side |->
                      MapThenSumSet(LAMBDA q : side[q],
                                    {q \in DOMAIN side : o.side * q < o.side * p})]
    IN  MapThenSumSet(LAMBDA p : p * Lesser(side[p], Monus(taken, before[p])), DOMAIN side)

\* The size displayed on the order's own side at its price or better.
QtyInFront(o, b) ==
    LET side  == OwnSide(o, b)
        ahead == {p \in DOMAIN side : o.side * p >= o.side * o.price}
    IN  MapThenSumSet(LAMBDA p : side[p], ahead)

-----------------------------------------------------------------------------
(* Trades against a resting order.                                         *)

\* An aggressor of the other side that reached the order's price.
Matches(t, o) == t.side = -o.side /\ o.side * t.price <= o.side * o.price

\* Faulty variants, here and in the other modules, are the slips that the
\* properties must catch; each is named for what it gets wrong.
CancelledFraction_deepOnly(q, size) ==
    IF q <= size THEN 0 ELSE Greater(MinRatio, Lesser(MaxRatio, (size * RatioDen) \div q))

\* The two cancel models, times RatioDen.  ReduceRatio is MinRatio = MaxRatio.
CancelledFraction(q, size) ==
    IF q <= 0 THEN 0
    ELSE Greater(MinRatio, Lesser(MaxRatio, (size * RatioDen) \div q))

\* Faulty: the trade itself is not counted.
Consumed_cancelsOnly(q, size) == (size * CancelledFraction(q, size)) \div RatioDen

\* trade.size * (1 + frac), rounded down to whole lots.
Consumed(q, size) == size + (size * CancelledFraction(q, size)) \div RatioDen

NewFront(q, t) == Monus(q, Consumed(q, t.size))

\* Faulty: the overshoot is measured after the queue was clipped at zero.
FillSize_clipped(q, o, t) == IF q > 0 THEN 0 ELSE Lesser(o.size, t.size)
\* Faulty: a trade that clears the queue fills as if nothing had been in front.
FillSize_whole(q, o, t) ==
    IF q > 0 /\ Consumed(q, t.size) <= q THEN 0 ELSE Lesser(o.size, t.size)

\* A trade that only reaches the queue in front fills nothing.
FillSize(q, o, t) ==
    Lesser(o.size, IF q > 0 THEN Monus(Consumed(q, t.size), q) ELSE t.size)

-----------------------------------------------------------------------------

ASSUME OrderAssumption == OrderOf \in [OrderIds -> Order]

ASSUME TickAssumption ==
    /\ TradeLists \subseteq Seq(Trade)
    /\ NoTruth \notin Truths
    /\ \A k \in Truths : DOMAIN k \subseteq Int /\ \A p \in DOMAIN k : k[p] \in Nat

ASSUME RatioAssumption ==
    /\ RatioDen \in Nat \ {0}
    /\ MinRatio \in Nat /\ MaxRatio \in Nat /\ MinRatio <= MaxRatio

\* A book is finite; a level may show no size.
ASSUME BookAssumption ==
    \A b \in Books : \A side \in {b.bids, b.asks} :
        /\ IsFiniteSet(DOMAIN side) /\ DOMAIN side \subseteq Int
        /\ \A p \in DOMAIN side : side[p] \in Nat
=============================================================================
