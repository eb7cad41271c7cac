# A verification of realistic-mm-backtester in TLA+

`mmbt` replays market data through a market-making strategy and reports what the
strategy would have earned. A bug in it does not crash: it reports a number that
is wrong. This directory holds TLA+ models of the parts that decide that number,
the TLC configurations that check them on small instances, and TLAPS proofs of
the most important ones for every instance.

Paths below are relative to the repository; `pro.py:110` is a line of
`mmbt/engine/pro.py`. `PROJECT.json` maps each definition to its lines, lists
every hazard of the code with the properties aimed at it, and for every checked
property gives a plausible slip in the code that makes it fail (the `Faulty`
definitions in the modules).

## The system

| part | state it keeps | operations | called by |
|---|---|---|---|
| FIFO queue, Python (`queue/fifo.py`, `cancel_models.py`) | estimate in front of each resting order, last book | `register`, `cancel`, `process_tick` | latency engine |
| FIFO queue, Rust (`src/lib.rs`, wrapper in `fifo.py`) | hash map of slots, last book | the same | the same, when the extension is built |
| Latency engine (`engine/pro.py`, `latency/simulator.py`) | event heap, landing times, pending cancels, inventory, fills | `run`, `_step`, `_land_pending`, `_record_fill` | user |
| Risk manager (`risk/base.py`) | none | `check` | engines |
| Simple and multi-asset engines (`engine/simple.py`, `multi_asset.py`) | merge heap; per symbol: resting orders and inventory | `run`, `_merge_by_ts`, `_step` | user |
| Passive fills, taker execution (`queue/passive.py`, `taker.py`) | sizes of the orders, reduced in place | `try_fill_orders`, `sweep_book` | simple engines; `sweep_book` also the latency engine |
| Inventory (`core/types.py`) | position, average entry, realized pnl, fees | `apply_fill`, `total_pnl` | engines |
| Portfolio (`core/portfolio.py`) | inventories of the symbols filled so far | `get`, `apply_fill`, `total_pnl` | a strategy |
| Feed view, mid history (`latency/book_history.py`, `reporting/mid_history.py`, `metrics.py`) | two bounded windows | `push`, `as_of`, `append`, `to_arrays`, `_adverse_scores` | latency engine, report |
| Open interest (`data/open_interest.py`) | sorted points | `as_of`, `change` | a strategy, with the time of the view it is shown |
| Tick source (`data/exchange.py`, `loader.py`) | none | `load_ticks` over a window of time | engines |
| Sweep and validation (`engine/sweep.py`) | results, in the order they arrive | `ParameterSweep.run`, `best`, `out_of_sample_validate`, `walk_forward_validate` | user |
| L3 listener (`scripts/bitfinex_l3_listener.py`) | channels, row buffer, numbered files | `run`, `_run_once`, `_handle`, `Writer` | user, the exchange's messages, signals |
| L3 replay (`data/l3_bitfinex.py`) | live book, buffered prints, cancels since the last tick | `replay_l3` | engines, through `exchange.py` |
| L3 merge (`scripts/merge_l3.py`) | one merged file | `merge` | user, while the listener runs or after |
| Synthetic data, plots, HTML export | see "Not modelled" | | |

How they interact. An engine pulls ticks from a source (loader, synthetic data or
L3 replay). The latency engine, at every tick, first lands the orders and cancels
whose latency is over (each order rests in the queue, takes, or is rejected),
then gives the tick to the queue, records the fills it returns, shows the
strategy a *past* tick, and sends what the strategy decides through the risk
check to the latency simulator. The simple engines have neither queue nor
latency. Listener and replay are two processes that share only a directory of
files, and so does the merge script, whose output the replay may read instead
of them, or along with them: `_load_symbol_frame` reads every `*.parquet` of the
directory it is given (`l3_bitfinex.py:63`), a merged file among the batches included. The simple engine snapshots each symbol's equity every few ticks, and
the report takes the drawdown from the snapshots; the strategy may keep a
portfolio of the fills it is handed, beside the engine's inventories. A sweep
runs whole backtests in a pool of processes.

What is hard, and what makes each part correct:

* **Queue**: long sequences of registrations, cancels, books and trades at the
  edges (trade equal to or larger than what is in front, cancels larger than it).
  Positions must be explained by trades and cancels, fills come neither early nor
  late, time priority holds; the Rust code must do the same although its map
  yields orders in any order and keeps the filled ones until the tick ends.
* **Latency engine**: fills racing cancels, cancels overtaking orders, several
  events for an order in one tick. Three maps (queue, `order_register_ts`,
  `pending_cancels`) are kept in step by hand; an order must have one life. The
  risk check looks at one order at a time, so the limit holds only for strategies
  that keep one order a side outstanding.
* **Simple engines**: streams with equal times, windows that cut files, partial
  fills across ticks, positions that turn over, two books kept of one fill. Order
  of ticks, sizes, money and drawdown must add up.
* **Views**: windows that wrap, points listed out of order. A view must be the
  one the delay asks for, and the open interest that of the view, not of now.
* **Sweep**: results arriving in any order, failing runs, fold boundaries. No
  future data in training, results paired with their own configuration.
* **Listener and replay**: lost connections, kills, late acknowledgements, stops
  in the middle of an await, a clock set back, prints and changes in either
  order, a merge while rows are still written or into the directory it reads.
  Nothing written may be lost or reordered, nor doubled unless the merged file is
  replayed along with its batches, and the replayed book must be the exchange's.

## The modules

```
Market ── FIFOQueue ─┬─ QueueCalls ─┬─ QueueClient ── MCQueue
                     │              └─ (refined by) FIFOCore ── MCCore
                     └─ ProEngine ─┬─ MCPro,   refines OrderLifecycle
                                   └─ ProLimit ── MCProLimit
Market + Rational ── Inventory ─┬─ PassiveEngine ── MCPassive
           Ordering ── TickSource ─┘
L3Listener + L3Replay (uses Ordering) ── L3Capture ── MCCapture
Ordering ─┬─ Sweep ── MCSweep
          └─ Views ── MCViews

proofs: OrderingProofs ─┬─ FIFOQueueProofs ─┬─ FIFOCoreProofs
                        │                   ├─ QueueClientProofs
                        │                   └─ ProEngineProofs (and ProLimit)
                        ├─ PassiveEngineProofs
                        ├─ HistoryProofs (Sweep and Views)
                        └─ L3CaptureProofs
```

* **Market**: books, trades and orders, and the pure rules about them: crossing,
  depth a taker gets and pays, size in front, matching, consumption of the queue.
* **FIFOQueue**: `FIFOQueueSimulator` on the Python path. `front` is `_states`,
  `hits` the fills `process_tick` has collected. The two loops (over the trades,
  over the orders) are one action per trade, which the engine and the callers
  compose, so that properties see the state between two trades.
* **QueueCalls** is the calls, in the order the code makes them, and at the same
  time the abstract specification of a queue. **QueueClient** lets a caller make
  any of them and adds history: what an order joined behind, the volume that has
  matched it, the cancels credited to it.
* **FIFOCore**: the Rust core. `Meet(id)` is one turn of the inner loop of
  `lib.rs:116-126`, in any order. `CoreIsQueue` refines it to QueueCalls:
  orders not met yet in the current trade are seen as the trade will leave them.
* **ProEngine**: `_step` as actions: `Tick`, `LandOrder`/`LandCancel` (one event
  of the heap), `SkipQueue`/`StartQueue`/`NextTrade`/`EndQueue`, `RecordHit`,
  `Quote` (strategy, risk check, latencies). It implements **OrderLifecycle**,
  the promise to a user: an order lives once and the position moves only by
  a fill, once per order, by at most its size. **ProLimit** adds the history of
  which orders were outstanding together, to say when `max_position` holds.
* **PassiveEngine**: `_merge_by_ts` and `_step` of both simple engines (the
  single-symbol engine is the case of one symbol), the equity snapshots and the
  drawdown of the report, with **Inventory** (and the strategy's `Portfolio`) in
  exact fractions. The streams it merges are what **TickSource** loads.
* **L3Listener**, **L3Replay**, and **L3Capture**, which puts an exchange on one
  side (external; it sends only what the handlers accept) and runs `merge_l3.py`
  and the replay on the files left on the other. `InPlace` says whether the
  script's `--output` is in the directory of the batches; `Frame` reads all the
  files of a directory, so then the merged one too (`Among`).
* **Sweep**: both validations; **Views**: the two windows and open interest.
* **Ordering** says what sorting with a key, stably, and picking some elements of a
  sequence return: the listing of a finite set in a total order. Sweep ranks by it,
  Views sorts the points of open interest, TickSource selects the rows of a window,
  the replay sorts the rows it reads.

Each MC module only gives bounds; each cfg names the constants.

## The runs

All pass in less than five minutes with two workers, most in seconds.

| run | question | bounds, and why they are enough |
|---|---|---|
| `queue` | Are positions accounted for, fills in time, priority kept? | two bids at one price with sizes above and below the trades, four books (level grows, shrinks, vanishes, is bettered), trades that stop short of, exactly clear and overshoot the front, ratios 1/4 to 3/4, three ticks: join, shrink and fill, in any order, for both orders |
| `pro` | Do the engine's maps stay in step? Does it implement the life cycle? When is the limit passed? | two bids and an ask that may take, latencies 1 and 2 so that a cancel may arrive before, with or after its order, ticks at 1, 2 and 3; one cancel per order (the second is `pro_pending`); a limit of 3, at which an order is blocked and which the two bids pass together |
| `pro_live` | Does a step return, does everything land? | one bid and an ask, same latencies, under fairness |
| `core` | Does the Rust queue do what the Python queue does? | three orders, both sides, two trades in a tick, three ticks |
| `passive` | Do order of ticks, sizes, money and drawdown add up? | two symbols with three ticks at one time, a file with rows before and after the window from 1 to 3, a snapshot at every tick, fill ratio 1/2, books with one and two takeable levels, an order large enough to turn the position over, a rebate and a fee |
| `capture` | Is anything lost or reordered, does the book follow the exchange? | three orders, two at one price; two connections, at each of which the clock may have moved by a second, either way; one kill, batches of two rows, two events at the exchange, two messages under way; merged between connections and after, any number of times, into the directory of the batches, so that merging reads its own output and the replay reads both; replayed before it is merged (the batches alone), after, or from the merged file alone |
| `sweep` | Is each result the right one, tested on the right ticks? | three configurations with one listed twice, equal scores, failures, one worker or a pool, 7 ticks in 2 folds with a remainder |
| `views` | Is a view, and a scored fill, the right tick? | windows of 2 and 3, six ticks (both wrap more than once), equal timestamps, delays from none to more than the window; four points of open interest out of order, two at one time |
| `pro_pending`, `passive_apart`, `l3_stale`, `sweep_pairing` | see below | as above (`pro_pending`: two cancels per order; `l3_stale`: merged into a directory of its own, so that no row is doubled) |

The cfgs of `queue`, `pro*`, `core`, `passive*` and `views` say
`CHECK_DEADLOCK FALSE`: these systems stop when the data ends, which the bound on
ticks stands for. Capture and sweep have an explicit final step instead, so TLC
does look for deadlocks there.

Names of bounds: `MaxTicks`, `Horizon` (last timestamp), `MaxCancels`,
`MaxSessions`, `MaxCrashes`, `MaxEvents`, `MaxWire`.
`StartTs`, `EndTs`, `SnapshotEvery`, `BatchSize`, `MaxLen` and the like are
parameters of the code.

### What was found

Four runs end in a violation. Each shows that the code does otherwise than a
comment or docstring of it says; `PROJECT.json` quotes the lines.

* `pro_pending`: `pending_cancels` holds one arrival per order. With two cancels
  for it the first to land drops the entry (`pro.py:158`) while the other
  one is still in flight; a fill that beats that one is not charged. The comment at
  `pro.py:27-29` says the entry stays while the cancel is in flight.
* `passive_apart`: the multi-asset engine applies every order to the symbol that
  happens to tick (`multi_asset.py:101`); `order.symbol` is never read. A hedge
  for A decided on a tick of B moves B's inventory.
* `l3_stale`: a snapshot that directly follows another connection's snapshot is
  merged into it (`l3_bitfinex.py:183`): stale orders are carried forward.
* `sweep_pairing`: with a pool, results come in completion order (`sweep.py:147`)
  and are zipped with the ranking (`:241`).

The passing runs state what does hold nearby: `LateCancelCharged` with one
cancel per order, `BookInStep` when a connection got past its snapshot and the
clock was not set back and no row is read twice, `PairedInTurn` for one worker and
for walk-forward folds, `LimitPassedTogether` for `max_position`, which several
orders may pass together.

One more thing to know, stated by a property that holds: with the merged file in the
directory of the batches, a replay of that directory reads each merged row twice and
attaches its print to ticks twice, because `_load_symbol_frame` concatenates every
`*.parquet` there and drops no duplicates (`l3_bitfinex.py:63-86`). The example in
`scripts/README.md` writes the merged file elsewhere; nothing checks that one does.
`CaptureComplete` says which rows are read twice, those merged and no other; the
theorem `PrintsInOneTick`, that with the merged file elsewhere each print is in one tick.

## Fairness

Only `pro_live` needs it. `FairSpec` is weak fairness of `Step` (the actions
inside `_step`, a sequential function without waiting) and of `NextTick` (`run`
feeds ticks until the source is exhausted). Nothing is assumed about the strategy
beyond its returning. `CancelTakesEffect` and `EverythingLands` speak only of
events that arrive by the last tick: the code leaves later ones in the heap.

## The proofs

TLAPS checks the theorems of eight modules for all values of the constants that
meet the ASSUMEs (TLC evaluates these on every run). Two of them are the ground
the others stand on.

**OrderingProofs** is about sequences and sums, whatever they hold. *Argument.* A
strict total order of a finite set has one listing; the place of an element is
the number of elements before it, and as many places as elements leave none
empty, so no induction is needed (`Picked`, stable sorting and appending to both
follow). Sums need one: the library's induction theorems take an operator as
parameter, which the installed provers cannot instantiate, so `UpTo` and
`SubsetBySubset` state it for sets (a set of numbers or of subsets that holds
the first and with each the next holds all), and a lemma names the set as a
comprehension. `FoldsExist` builds the fold of a finite set step by step,
`Addition` and `SumOfSizes` say that sums of natural numbers are natural
numbers and grow by what is added.

**FIFOQueueProofs** holds the arithmetic of one trade and what it means for the
queue.

**QueueClientProofs**: `TypeCorrect`,
`PriorityIsKept`, `FrontIsAccounted`, `OrdersAreFilledInTime`, `NoFillIsEarly`.
*Argument.* `TypeInv` is `TypeOK` with `HitsApart`: hits exist only during a call
and a hit order does not rest, so the history of an order is never dropped while
it is needed. `AccountInv` adds the three accounts, which need each other: a fill
is explained (`NoEarlyFill`) by the bounds that held for the order while it still
rested (`FrontAccounted`), and an order that stays after a trade has matched no
more than it joined behind (`FilledInTime`) because its front has not reached zero.
One trade is the arithmetic: it consumes at least its own size and at most the
largest ratio more (`ConsumedCoversTrade`, `ConsumedAtMost`). Priority rests on
`TradeKeepsPriority`: the cancelled fraction falls as the queue in front grows
(`FractionAntitone`), so a trade consumes no more of the longer queue than of the
shorter (`ConsumedAntitone`), and whatever fills the order behind fills the one ahead.

**ProEngineProofs**: `TypeCorrect`, `OneHomeHolds`, `RegisteredMatches`,
`PendingIsInFlight`, `DisplacementIsLate`, `LateCancelsAreCharged`
(`LateCancelCharged`, if `MaxCancels` is at most one), and
`EngineImplementsLifecycle`, the refinement of OrderLifecycle.
*Argument.* The inductive invariant `IInv` is `TypeOK`, `OneHome`,
`RegisteredMatchesQueue`, `PendingCancelInFlight`, `NothingOverdue` (what has
arrived has landed before a tick is matched) and
`HitsInTick` (hits exist only while a tick is matched or recorded, and none is
larger than its order). The parts need each other: that an order lands once needs
its single home; that a charged cancel is still on its way, past the present tick,
needs that every pending entry is in flight and everything due has landed. The refinement maps
an order to where it is (`Status`): each action moves the orders along the edges
of the life cycle or is one `Fill`. `OneCancel` says that an order has one cancel on its
way at most and that it is pending until it lands or the order is filled, so a fill
that beats it finds the entry; `pro_pending` shows that two cancels break this.

The limit (`LimitPassedOnlyTogether`, about ProLimit): a position beyond `max_position` was
built by fills of two orders of one side that were outstanding together.
*Argument.* `LimitInv` says of every outstanding order that it `Fits` (filled
whole, it would not pass the limit) or is `Shadowed` (a filled order of its side
was outstanding with it). The risk check makes an order fit when it is sent. A
fill of its own side shadows every other outstanding order of that side, a fill
of the other side only makes more room, so the disjunction survives; and a fill
passes the limit only if the order did not fit. Which orders can be outstanding
after a step comes from `StepRefines` and `OneHome`.

**FIFOCoreProofs**: `TypeCorrect` and `CoreImplementsQueue` (`CoreIsQueue`).
*Argument.* The Rust loop meets the orders in any order, so in the middle of a
trade the map is half old, half new. The mapping shows an order not met yet as the
trade will leave it: then the start of a trade is the abstract queue's whole
step (`CallTrade`) and every `Meet` a stutter. `CoreInv` is `TypeOK` with
`CallOver`: between calls there is no unmet order, no filled slot and no hit.
There is one step lemma per action; `SameRules` says the mapped queue matches and
consumes by the same rules.

**HistoryProofs**, of Sweep: `EveryRunCounts` (`OneResultEach`: results and runs
awaited add up to the configurations, each as often as it was listed),
`PairedWhenInTurn` (`PairedInTurn`), `TheBestIsTested` (`BestIsBest`), and
`NoLookAhead` (`TestedOnTheFuture`).
*Argument.* `SweepInv` says what each job is in each phase, that trained and
awaited configurations balance while training, that no more is re-run than was
chosen, and that with one worker, or one chosen, tests are appended in the order
of the ranking. `CountAppended` and `AwaitedLess` are the two countings a finished
run changes. `FutureInv` adds the splits: what is ranked was trained on the
training slice of the present fold and what is returned belongs to an earlier fold, one
entry of a fold at most in a walk. That each fold tests on what follows its
training is arithmetic about the slices, expanding or rolling (`sweep.py:276-338`).
Of Views: `RingReadsAsWindow`, `LatestViewShown`, `OpenInterestNeverAhead` and
`ScoredWithTheFuture`.
*Argument.* `ViewsInv`: times never decrease, the deque holds the last `MaxLen`
ticks, and slot `i` of the ring the last tick written to it (`RingSlots`), which says where
the window starts after any number of turns. Bisection in a window is bisection in
the history, cut at the window's start (`BisectsLast`).

**PassiveEngineProofs**: `TiesTakeTurns` (`TiesInTurn`), `TicksServedInOrder`
(`ServedInOrder`), `PassiveTypes` (`TypeOK`), `SizesAddUp` (`SizeAccounted`),
`RemaindersRest` (`RemainderRests`), `AccountsBalance` (`PnlIsCash`) and
`ReportedDrawdowns` (`DrawdownIsWorstFall`).
*Argument.* `MergeInv`: the heap holds at most one entry per symbol and none of
the symbol being processed, push numbers are distinct and not beyond the counter,
and between two ticks the entry of the symbol served last carries the last
push. So of entries with its time it is the last, and served only if alone.
`StreamInv` counts along: of each stream as many ticks are served as were pulled,
less the one that waits, they are its first ones, and nothing that waits is older than
what was served last; when the heap is empty every stream is at its end. That the
stream is the window of the file, all of it, is `LoadTicks` on rows in time order.
`OrdersInv` is `TypeOK` and `SizeAccounted` with what they need: an order rests
once, with one symbol, or waits once to be placed, and has one fill to be recorded
at most (`Apart`); the phases leave nothing over (`InTurn`); an order not placed
yet is whole (`Untouched`). A passive fill is at most
what is left, so what leaves `left` enters `due`, and from there `got`.
The accounts need the algebra first: `Rat` reduces by the greatest common divisor, so two
fractions are equal if they are in cross product (`RatEqual`), sums and
multiples over a common denominator are those of the numerators (`RatAlgebra`,
`Common`), and addition may be regrouped (`FractionLaws`). `FillBalances` is the
identity of average-cost accounting: whether a fill opens, adds, reduces, closes or
turns over, the pnl at any mid changes by the cash paid and the lots bought.
`TotalLaws` says that a sum over symbols grows by what one term grows, in any order of
summation. `Accounts` then is `PnlIsCash` with what is a fraction.
The drawdown is a fold, read as one state of its loop after every prefix
(`LoopsOver`): the loop has seen the highest value and the worst loss so far, and the
worst loss to the next value is from the highest before it (`LoopKeepsWorst`).
`Snapshots` counts: `ticks \div SnapshotEvery` of them, less that of the tick being
recorded.

**L3CaptureProofs**: `CaptureTypes` (`TypeOK`), `NothingElseLost`
(`CaptureComplete`), `MergedReadsFirst` (`MergedIsPrefix`), `NoMixedEpochs`
(`EpochsApart`), `PrintsReachOneTick` (`TradesOnce`), `PrintsInOneTick` (`PrintsOnce`,
unless `InPlace`), `FilledOrCancelled` (`FillsNotCancels`) and `ReplayedBookInStep` (`BookInStep`).
*Argument.* `CaptureInv`: a file's rows, and the buffer's, come from one connection
and one second; what is in a file of a higher number, and in the buffer, was received
later; every row received is in a file, in the buffer, or lost with a killed process.
`MergedInv` says the merged file holds, with a row, all rows received before it; a
later flush only adds rows received later (`Grows`), whatever the clock does. So the
rows sorted by name and then by time, stably, are the captured ones, and of those
of one second the order of receipt. A replay of their directory sorts them with what
was merged into it behind them: sorting is a bijection of places (`SortedKeeps`), and a
number names one row (`NumberedOnce`), so each is there once, and once more if it was
merged there (`FrameTwice`). `ReplayInv` is the shape of the replay's state while
it reads. `TradesInv`: the prints attached to ticks, then those buffered, are the
prints read so far, in their order, each once; it holds with `ReplayInv` after each row
whatever its type. Without a merged file among the batches no row of the
frame is there twice (`FrameOnce`), so neither is a print in the ticks.
`BookInStep` takes three steps. `Faithful` says of a set of rows that they tell the
exchange's book: a connection's snapshot comes first and is whole, since it is one
message and written at once; what a later row of the book tells is what it makes of
the book of the one before, with none left out between. `ToldInv`: what is kept (files and buffer), what
the files alone hold, which is all that a kill leaves, and what was merged are
`Faithful`; and while there is a connection, `Underway`: the messages on the wire, one after
the other, take the book of the last row kept to the exchange's present book, with at
most one snapshot still to come. So the loaded frame is `Faithful` (`FrameHolds`). In a
frame in time, rows of one connection lie together (`Contiguous`), and after a
snapshot's last row all of it has been read (`RunComplete`). `BookInv`, of a
frame in time, so without a row twice: the replayed book is that of the last row read
of the book, or while a snapshot comes in, the orders of it that have come in, if the
last run of snapshot rows (`LastRun`) is of one connection. The premise `InReceipt` is not used: with rows of a connection in
one second, as they are here, a clock set back between connections only changes
which is read first. It stays in the property, which does not depend on that
simplification.

*Assumptions.* `OrderAssumption`, `TickAssumption`, `RatioAssumption`,
`EngineAssumption`, `SweepAssumption`, `ViewsAssumption` say what the constants are.
`BookAssumption`: books are finite, at whole prices, with sizes that are natural numbers.
`RowsAssumption`: a file's rows are in time order. `StreamAssumption`: finitely many
symbols and orders, each order for one symbol, rates that are fractions, and books that
are two-sided, as `_step` reads the mid of each (`multi_asset.py:82`) and raises on
others. `CaptureAssumption`: finitely many orders
are listed at a time. That sums over levels are numbers and that loaded streams are
sequences of times, once assumed, is proved.

*Only model-checked.* Liveness (`StepReturns`, `CancelTakesEffect`, `EverythingLands`),
which is outside the prover's reach. `LateCancelCharged` is proved for at most one
cancel per order, which is when it holds.

## What the models leave out or simplify

* Sizes are whole lots, prices whole ticks; comparisons with 1e-9 or 1e-12 are
  exact. `Consumed` and `PassiveFill` round down to lots. Timestamps are small
  naturals. Inventory is in exact fractions, so rounding of floats is not covered.
* A strategy sends at most one cancel per order in a turn (`Quote`). `pro.py:148` would
  send each of several; two cancels for an order come in two turns (`pro_pending`).
* The Rust wrapper's `_order_cache` (`fifo.py:123`), the orders by id from which it builds
  the fills that the core reports by id, is not a variable of FIFOCore: orders are
  constants there, and an entry comes and goes with the calls that add and remove its slot.
* An order id is used once. The code does not enforce it; a strategy that reuses
  one overwrites its own queue entry.
* The fallback of `pro.py:115` is never taken: `RegisteredMatches` proves it.
* The heap compares arrival times only; ties come out in any order.
* Strategies of an engine share only ticks, so one is modelled. Its decisions are
  unconstrained, which covers every stale view it may be shown.
* Books that ticks carry are two-sided, because `OrderBook.mid` raises on others.
  A level may show size zero.
* `Truths = {}` in a run is a feed without `known_cancels`; the Rust path ignores
  them (`fifo.py:145-151`), so FIFOCore has none.
* Files of ticks are in time order (`RowsAssumption`): `load_ticks` stops at the
  first row past the end, and the merge compares only the heads of the streams.
  A row of a file is its time alone; which book and trades it carries is open.
* Capture: sequence numbers are only logged; "tu" messages, trade snapshots and
  checksums change nothing the replay reads; a heartbeat of the trades channel
  is skipped by the replay. An empty snapshot writes no row. The wall clock moves
  when a connection is made, by a second either way. Set back, it makes the
  replay read rows out of the order they came in, which the code does not guard
  against: `CaptureComplete` still says how often each is read, and that unmerged ones are by time; the
  properties of the replayed book ask that the rows read came in order. Merging
  writes to one place in a behaviour (`InPlace`); a file name of its own there sorts
  behind the batches' names, which changes the order of rows of one second only. As
  all rows of a connection have one second, the copies of a frame read twice come one
  behind the other, second by second; with a finer clock they would alternate.
  `CaptureComplete`, `TradesOnce` and `FillsNotCancels` do not depend on it; of the
  book of such a frame nothing is claimed (`BookInStep` asks that no row is twice). Of
  `merge` the filter by symbol and the default of a missing column are left out;
  rows are equal only if they are one row read twice, and two listeners side by
  side are not modelled. The replay is another process and starts from the files:
  `Load` forgets the capture. `Frame` is the files by name, then rows by time,
  stably. The cut to `depth` levels is left out. What a killed process had
  not written is lost.
* Sweep: the outcome of a run is any score or an error, independent of the
  configuration; a pool's results arrive in any order. `train_frac` is in tenths
  and its product with the length exact.
* Reproducibility is not modelled: per-strategy seeds come from `hash(name)`,
  which Python salts per process (`pro.py:82`).

Not modelled: turning the cells of CSV and Parquet rows into books and trades
(`loader.py`; conversions without state), reading open interest from CSV or making
it up, synthetic data (a random walk), plots, HTML export, examples and
benchmarks; Sharpe and the other formulas of the report, which are averages of
floats.

## Plan

Done, in this order: Market and FIFOQueue, QueueClient with its proofs,
ProEngine and OrderLifecycle with their proofs, FIFOCore, PassiveEngine, the
capture modules, Sweep, Views; then ProLimit with its proof, the merge script and
a clock that is set back in the capture, merging into the directory that is replayed,
open interest in Views, the tick source,
the portfolio and the drawdown in PassiveEngine, and the proofs of FIFOCore, Sweep,
PassiveEngine with its accounts, Views and the capture, of which `BookInStep` came last.

Every safety invariant and action property that a passing run checks is now proved.
What is left to TLC is liveness.
