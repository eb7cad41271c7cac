---------------------------- MODULE PassiveEngine ----------------------------
(***************************************************************************)
(* MultiAssetEngine (engine/multi_asset.py) and BacktestEngine             *)
(* (engine/simple.py), whose _step and _record_fill are the same code: the *)
(* latter is this module with one symbol per strategy.  Ticks of all       *)
(* symbols are merged by timestamp; each tick fills resting orders by the  *)
(* passive heuristic (queue/passive.py) and then lets the strategy act at  *)
(* once, without latency.  Every few ticks the engine takes a snapshot of  *)
(* a symbol's equity; the strategy keeps a Portfolio of its fills.         *)
(***************************************************************************)
EXTENDS Inventory, TickSource, SequencesExt

CONSTANTS
    SymbolOf,    \* Order.symbol
    SnapshotEvery, \* snapshot_every
    FillNum, FillDen,  \* PassiveFillSimulator.fill_ratio
    MaxPosition, \* MaxInventoryRiskManager.max_position
    MakerRate, TakerRate

VARIABLES
    heap,    \* the next tick of every symbol: [ts, nth, symbol]  (_merge_by_ts)
    pulled,  \* ticks drawn from each stream
    pushes,  \* the tie-breaking counter
    phase,   \* "idle" | "record" | "place"
    now, at, \* timestamp and symbol of the tick
    book,    \* its book
    due,     \* its passive fills still to be recorded
    placing, \* accepted new orders still to be placed
    pending, \* symbol -> resting orders, oldest first    (_SymbolState.pending)
    left,    \* order -> size not filled yet               (Order.size)
    inv,     \* symbol -> inventory
    portfolio, \* the strategy's Portfolio: symbol -> inventory
    equity,  \* symbol -> equity at its snapshots         (metrics.equity_snapshots)
    rejected,
    sent,    \* orders the strategy has sent
    cash,    \* history: symbol -> money received less money paid
    got,     \* history: order -> lots it has been filled
    served   \* history: the ticks processed, [symbol, ts]

mergeVars == <<heap, pulled, pushes>>
tickVars  == <<phase, now, at, book>>
moneyVars == <<inv, portfolio, cash, got>>
vars == <<mergeVars, tickVars, due, placing, pending, left, moneyVars, equity, rejected, sent, served>>

\* _step reads the mid of every book it is given, which raises unless the book is
\* two-sided (multi_asset.py 82, types.py 24-26).  A rate is a fraction, as
\* negative as a rebate.
ASSUME StreamAssumption ==
    /\ SymbolOf \in [OrderIds -> Symbols]
    /\ IsFiniteSet(Symbols) /\ IsFiniteSet(OrderIds)
    /\ {MakerRate, TakerRate} \subseteq Int \X (Nat \ {0})
    /\ \A b \in Books : DOMAIN b.bids # {} /\ DOMAIN b.asks # {}
    /\ SnapshotEvery \in Nat \ {0} /\ FillNum \in Nat /\ FillDen \in Nat \ {0} /\ MaxPosition \in Nat

-----------------------------------------------------------------------------
(* _merge_by_ts                                                            *)

Entry(s, i, n) == [ts |-> Streams[s][i], nth |-> n, symbol |-> s]

\* The first tick of each stream, in the order the streams were given.
MergeInit ==
    \E order \in SetToSeqs({s \in Symbols : Streams[s] # <<>>}) :
        /\ heap = {Entry(order[n], 1, n) : n \in DOMAIN order}
        /\ pushes = Len(order)
        /\ pulled = [s \in Symbols |-> IF Streams[s] # <<>> THEN 1 ELSE 0]

\* Faulty: the entries are a stack, or the counter is left out of the comparison.
First_lastPushed(e) == \A d \in heap : d.nth <= e.nth
First_tsOnly(e) == \A d \in heap : e.ts <= d.ts

First(e) == \A d \in heap : e.ts < d.ts \/ (e.ts = d.ts /\ e.nth <= d.nth)

\* The generator is resumed: the symbol's stream yields its next tick.
Refill ==
    IF pulled[at] < Len(Streams[at])
    THEN /\ heap' = heap \cup {Entry(at, pulled[at] + 1, pushes + 1)}
         /\ pulled' = [pulled EXCEPT ![at] = @ + 1]
         /\ pushes' = pushes + 1
    ELSE UNCHANGED mergeVars

-----------------------------------------------------------------------------
(* try_fill_orders                                                         *)

\* Faulty: the fill is sized by what the order asked for at first.
PassiveFill_fullSize(id, b, trades) ==
    LET o      == OrderOf[id]
        volume == MapThenSumSet(LAMBDA i : trades[i].size,
                                {i \in DOMAIN trades : Matches(trades[i], o)})
    IN  Lesser(o.size, (volume * FillNum) \div FillDen)

\* simulate: a share of the volume that crossed the order, pro rata of its size
\* in the depth displayed at its price, rounded down to whole lots.
PassiveFill(id, b, trades) ==
    LET o      == OrderOf[id]
        volume == MapThenSumSet(LAMBDA i : trades[i].size,
                                {i \in DOMAIN trades : Matches(trades[i], o)})
        depth  == IF o.price \in DOMAIN OwnSide(o, b) THEN OwnSide(o, b)[o.price] ELSE 0
    IN  IF depth = 0
        THEN Lesser(left[id], (volume * FillNum) \div FillDen)
        ELSE Lesser(left[id], (volume * left[id] * FillNum) \div (depth * FillDen))

\* Faulty: any fill takes the order out of the book.
Rests_ifUnfilled(id, filled) == filled = 0
Rests(id, filled) == left[id] - filled > 0

Tick(e, b, trades) ==
    LET resting    == pending[e.symbol]
        filled(id) == PassiveFill(id, b, trades)
        hit        == Picked(resting, {i \in DOMAIN resting : filled(resting[i]) > 0})
    IN  /\ phase = "idle" /\ e \in heap /\ First(e)
        /\ heap' = heap \ {e}
        /\ now' = e.ts /\ at' = e.symbol /\ book' = b /\ phase' = "record"
        /\ due' = [i \in DOMAIN hit |-> [id |-> hit[i], size |-> filled(hit[i])]]
        /\ left' = [id \in OrderIds |->
                      IF Contains(resting, id) THEN left[id] - filled(id) ELSE left[id]]
        /\ pending' = [pending EXCEPT
             ![e.symbol] = Picked(@, {i \in DOMAIN @ : Rests(@[i], filled(@[i]))})]
        /\ served' = Append(served, [symbol |-> e.symbol, ts |-> e.ts])
        /\ UNCHANGED <<pulled, pushes, placing, moneyVars, equity, rejected, sent>>

-----------------------------------------------------------------------------
(* _record_fill and the strategy's actions                                 *)

\* The inventory is that of the ticking symbol; the fill handed to the strategy
\* names the order's.
RecordFill(id, size, notional, rate) ==
    LET side  == OrderOf[id].side
        price == Rat(notional, size)
    IN  /\ portfolio' = PortfolioFill(portfolio, SymbolOf[id], side, size, price, rate)
        /\ inv' = [inv EXCEPT ![at] = ApplyFill(@, side, size, price, rate)]
        /\ cash' = [cash EXCEPT ![at] =
                       Plus(@, Plus(Whole(-side * notional), Scaled(-notional, rate)))]
        /\ got' = [got EXCEPT ![id] = @ + size]

RecordPassive ==
    /\ phase = "record" /\ due # <<>>
    /\ LET f == Head(due)
       IN  RecordFill(f.id, f.size, OrderOf[f.id].price * f.size, MakerRate)
    /\ due' = Tail(due)
    /\ UNCHANGED <<mergeVars, tickVars, placing, pending, left, equity, rejected, sent, served>>

WithinLimit(id) ==
    Abs(inv[at].position + OrderOf[id].side * OrderOf[id].size) <= MaxPosition

Mid(b) == Rat(Max(DOMAIN b.bids) + Min(DOMAIN b.asks), 2)

\* Every SnapshotEvery ticks of the symbol, once the tick's fills are recorded.
Snapshot ==
    LET ticks == Cardinality({i \in DOMAIN served : served[i].symbol = at})
    IN  equity' = IF ticks % SnapshotEvery = 0
                  THEN [equity EXCEPT ![at] = Append(@, TotalPnl(inv[at], Mid(book)))]
                  ELSE equity

\* The snapshot is taken before the strategy acts.  Cancels reach the resting
\* orders of the ticking symbol before any new order is placed; the risk check
\* sees the position of this moment.
Act(new, gone) ==
    /\ phase = "record" /\ due = <<>>
    /\ Snapshot
    /\ pending' = [pending EXCEPT ![at] = Picked(@, {i \in DOMAIN @ : @[i] \notin gone})]
    /\ placing' = Picked(new, {i \in DOMAIN new : WithinLimit(new[i])})
    /\ sent' = sent \cup Range(new)
    /\ phase' = "place"
    /\ UNCHANGED <<mergeVars, now, at, book, due, left, moneyVars, rejected, served>>

Rest(id) ==
    /\ ~Crosses(OrderOf[id], book)
    /\ pending' = [pending EXCEPT ![at] = Append(@, id)]
    /\ UNCHANGED <<moneyVars, rejected>>

Reject(id) ==
    /\ Crosses(OrderOf[id], book) /\ OrderOf[id].postOnly
    /\ rejected' = rejected \cup {id}
    /\ UNCHANGED <<pending, moneyVars>>

\* Faulty: what a taker order leaves unfilled rests.
Take_remainderRests(id) ==
    LET size == TakerSize(OrderOf[id], book)
    IN  /\ Crosses(OrderOf[id], book) /\ ~OrderOf[id].postOnly
        /\ IF size > 0
           THEN RecordFill(id, size, TakerNotional(OrderOf[id], book), TakerRate)
           ELSE UNCHANGED moneyVars
        /\ pending' = IF size < OrderOf[id].size
                      THEN [pending EXCEPT ![at] = Append(@, id)] ELSE pending
        /\ UNCHANGED rejected

Take(id) ==
    LET size == TakerSize(OrderOf[id], book)
    IN  /\ Crosses(OrderOf[id], book) /\ ~OrderOf[id].postOnly
        /\ IF size > 0
           THEN RecordFill(id, size, TakerNotional(OrderOf[id], book), TakerRate)
           ELSE UNCHANGED moneyVars
        /\ UNCHANGED <<pending, rejected>>

Place ==
    /\ phase = "place" /\ placing # <<>>
    /\ LET id == Head(placing) IN Rest(id) \/ Reject(id) \/ Take(id)
    /\ placing' = Tail(placing)
    /\ UNCHANGED <<mergeVars, tickVars, due, left, equity, sent, served>>

\* _step is over.
Done ==
    /\ phase = "place" /\ placing = <<>>
    /\ Refill
    /\ phase' = "idle" /\ book' = EmptyBook
    /\ UNCHANGED <<now, at, due, placing, pending, left, moneyVars, equity, rejected, sent, served>>

-----------------------------------------------------------------------------

Init ==
    /\ MergeInit
    /\ phase = "idle" /\ now = 0 /\ at \in Symbols /\ book = EmptyBook
    /\ due = <<>> /\ placing = <<>>
    /\ pending = [s \in Symbols |-> <<>>]
    /\ left = [id \in OrderIds |-> OrderOf[id].size]
    /\ inv = [s \in Symbols |-> Flat] /\ portfolio = NoPositions
    /\ equity = [s \in Symbols |-> <<>>]
    /\ rejected = {} /\ sent = {} /\ served = <<>>
    /\ cash = [s \in Symbols |-> Whole(0)] /\ got = [id \in OrderIds |-> 0]

Next ==
    \/ \E e \in heap, b \in Books, trades \in TradeLists : Tick(e, b, trades)
    \/ RecordPassive
    \/ \E chosen \in SUBSET (OrderIds \ sent), gone \in SUBSET OrderIds :
          \E new \in SetToSeqs(chosen) : Act(new, gone)
    \/ Place
    \/ Done

Spec == Init /\ [][Next]_vars
-----------------------------------------------------------------------------
(* Properties                                                              *)

\* Events are drawn from their queues, sizes stay positive and rests stay within
\* their orders (simple.py, multi_asset.py).
TypeOK ==
    /\ \A e \in heap : e \in [ts : Int, nth : Nat, symbol : Symbols]
    /\ pulled \in [Symbols -> Nat] /\ pushes \in Nat
    /\ phase \in {"idle", "record", "place"} /\ at \in Symbols
    /\ book \in Books \cup {EmptyBook}
    /\ due \in Seq([id : OrderIds, size : Nat \ {0}])
    /\ placing \in Seq(OrderIds) /\ pending \in [Symbols -> Seq(OrderIds)]
    /\ left \in [OrderIds -> Nat] /\ got \in [OrderIds -> Nat]
    /\ \A s \in Symbols : inv[s].position \in Int
    /\ rejected \subseteq sent /\ sent \subseteq OrderIds

\* Ticks of all symbols are processed in time order, each symbol's in the order
\* of its file from the first row in the window on; when the run is over, no row
\* of the window was left out (multi_asset.py _merge_by_ts, exchange.py 55-60).
ServedInOrder ==
    /\ \A i \in 2..Len(served) : served[i - 1].ts <= served[i].ts
    /\ \A s \in Symbols :
          LET mine   == Picked(served, {i \in DOMAIN served : served[i].symbol = s})
              window == Picked(Rows[s], {i \in DOMAIN Rows[s] :
                                            StartTs <= Rows[s][i] /\ Rows[s][i] <= EndTs})
          IN  /\ IsPrefix([i \in DOMAIN mine |-> mine[i].ts], window)
              /\ phase = "idle" /\ heap = {} => Len(mine) = Len(window)

\* Ticks at one time are taken in turn: a symbol is not served again while
\* another one waits with a tick of the same time (the counter of _merge_by_ts).
TiesInTurn ==
    [][phase = "idle" /\ phase' = "record" /\ served # <<>> /\ at' = at /\ now' = now =>
         \A e \in heap : e.ts = now => e.symbol = at]_vars

\* Average-cost accounting neither makes nor loses money: at any mid price the
\* total pnl of a symbol is the cash its fills moved, fees included, plus what
\* its position is worth there; and so is the strategy's portfolio over all
\* symbols, though it keeps its positions by the order's symbol and the engine
\* by the tick's (types.py apply_fill, total_pnl, portfolio.py 20-36; taker.py
\* sweep_book for the price of a fill over several levels).
PnlIsCash ==
    /\ \A s \in Symbols, mid \in {0, 1} :
          TotalPnl(inv[s], Whole(mid)) = Plus(cash[s], Whole(mid * inv[s].position))
    /\ \A mids \in [Symbols -> {0, 1}] :
          PortfolioPnl(portfolio, [s \in Symbols |-> Whole(mids[s])]) =
              Plus(Total(cash),
                   Total([id \in OrderIds |-> Whole(mids[SymbolOf[id]] * OrderOf[id].side * got[id])]))

\* Faulty: the fall since the first snapshot.
MaxDrawdown_sinceStart(values) ==
    FoldLeft(LAMBDA worst, e : Larger(worst, Minus(values[1], e)), Whole(0), values)

\* _max_drawdown: the fall from the highest value so far.
MaxDrawdown(values) ==
    IF values = <<>> THEN Whole(0)
    ELSE FoldLeft(LAMBDA acc, e :
                      LET peak == Larger(acc.peak, e)
                      IN  [peak |-> peak, worst |-> Larger(acc.worst, Minus(peak, e))],
                  [peak |-> values[1], worst |-> Whole(0)], values).worst

\* The drawdown a report gives of a symbol is the largest loss anyone could have
\* made between two of its snapshots, in their order, and none was missed: as
\* many as its ticks allow (metrics.py _max_drawdown, multi_asset.py 84-92).
DrawdownIsWorstFall ==
    \A s \in Symbols :
        LET values == equity[s]
            falls  == {Whole(0)} \cup UNION {{Minus(values[i], values[j]) : i \in 1..j} :
                                           j \in DOMAIN values}
            ticks  == Cardinality({i \in DOMAIN served : served[i].symbol = s})
        IN  /\ MaxDrawdown(values) \in falls
            /\ \A fall \in falls : Larger(MaxDrawdown(values), fall) = MaxDrawdown(values)
            /\ (phase = "record" /\ at = s) \/ Len(values) = ticks \div SnapshotEvery

DueFor(id) == MapThenSumSet(LAMBDA i : due[i].size, {i \in DOMAIN due : due[i].id = id})

RestingOrders == {id \in OrderIds : \E s \in Symbols : Contains(pending[s], id)}

\* Partial fills add up: an order is never filled beyond its size, and one that
\* rests has been filled all but what it has left (passive.py 72-77).
SizeAccounted ==
    /\ \A id \in OrderIds : got[id] + DueFor(id) <= OrderOf[id].size
    /\ \A id \in RestingOrders :
          left[id] > 0 /\ left[id] + got[id] + DueFor(id) = OrderOf[id].size

\* A partial fill leaves the remainder resting: only a full fill or a cancel
\* takes an order out of the book (passive.py 60-66).
RemainderRests ==
    [][\A s \in Symbols, id \in OrderIds :
          Contains(pending[s], id) /\ ~Contains(pending'[s], id) =>
             left'[id] = 0 \/ (phase = "record" /\ phase' = "place")]_vars

\* multi_asset.py 35-37: each symbol has an inventory and resting orders of its
\* own, so its position comes from the orders for that symbol.
PositionsStayApart ==
    \A s \in Symbols :
        inv[s].position = MapThenSumSet(LAMBDA id : OrderOf[id].side * got[id],
                                        {id \in OrderIds : SymbolOf[id] = s})
=============================================================================
