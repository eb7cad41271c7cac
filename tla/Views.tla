------------------------------- MODULE Views --------------------------------
(***************************************************************************)
(* The two bounded windows ProBacktestEngine keeps on its own history:     *)
(* BookHistory (latency/book_history.py), from which a strategy is shown   *)
(* the market feed_us late, and MidHistoryBuffer (reporting/mid_history.py)*)
(* from which _adverse_scores (reporting/metrics.py) looks up the mid some *)
(* ticks after a fill; and the open interest it looks up for the time of   *)
(* what it is shown (data/open_interest.py).  Books and mids are named by  *)
(* the tick they are of.                                                   *)
(***************************************************************************)
EXTENDS Integers, Sequences, FiniteSetsExt, Ordering

CONSTANTS
    MaxLen,   \* books retained                (BookHistory._maxlen)
    Capacity, \* mids retained                 (MidHistoryBuffer._capacity)
    Lookback, \* lookback_ticks
    Delays,   \* feed delays
    Points,   \* open interest as it is listed, in any order
    OiBack,   \* lookback_us of its change
    Steps,    \* time between two ticks, 0 among them: ticks may share a time
    MaxTicks  \* bound: ticks

ASSUME ViewsAssumption ==
    /\ MaxLen \in Nat \ {0} /\ Capacity \in Nat \ {0}
    /\ Lookback \in Nat /\ MaxTicks \in Nat
    /\ Delays \subseteq Nat /\ Steps \subseteq Nat
    /\ Points \in Seq([ts : Int, oi : Nat]) /\ OiBack \in Nat

VARIABLES
    times,    \* history: the time of every tick so far
    retained, \* ticks whose book is retained, oldest first (_ts, _snaps)
    shown,    \* the last view: the time looked for, the tick seen, its open interest
    ring,     \* slot -> tick whose mid it holds            (_ts, _mid)
    write,    \* next slot                                  (_write)
    count,    \* slots in use                               (_count)
    fills     \* times of the fills of one tick, any one   (fill_records)

viewsVars == <<times, retained, shown, ring, write, count, fills>>

None == 0
At(all, ticks) == [i \in DOMAIN ticks |-> all[ticks[i]]]

\* bisect_left and bisect_right: how many are before, or not after, t.
BisectLeft(s, t)  == Cardinality({i \in DOMAIN s : s[i] < t})
BisectRight(s, t) == Cardinality({i \in DOMAIN s : s[i] <= t})

ViewsInit ==
    /\ times = <<>> /\ retained = <<>> /\ shown = [target |-> 0, tick |-> None, oi |-> {}, change |-> {}]
    /\ ring = [slot \in 0..(Capacity - 1) |-> None] /\ write = 0 /\ count = 0
    /\ fills = {}

-----------------------------------------------------------------------------

\* BookHistory.push
Pushed(ticks, tick) ==
    LET all == Append(ticks, tick)
    IN  IF Len(all) > MaxLen THEN Tail(all) ELSE all

\* Faulty: a time that no retained tick is as old as shows the latest.
AsOf_wraps(ticks, seen, t) ==
    LET i == BisectRight(seen, t)
    IN  IF i = 0 THEN ticks[Len(ticks)] ELSE ticks[i]

\* as_of: the last tick not after t, or else the oldest retained.
AsOf(ticks, seen, t) ==
    LET i == BisectRight(seen, t)
    IN  IF i = 0 THEN ticks[1] ELSE ticks[i]

\* The points in the order of their times, equal ones as they are listed.
Schedule == ByTime(Points)

\* Faulty: a point does not count at its own time.
OiAsOf_left(t) ==
    LET i == BisectLeft([k \in DOMAIN Schedule |-> Schedule[k].ts], t)
    IN  IF i = 0 THEN {} ELSE {Schedule[i].oi}

\* OpenInterestSchedule.as_of: a value, or none.
OiAsOf(t) ==
    LET i == BisectRight([k \in DOMAIN Schedule |-> Schedule[k].ts], t)
    IN  IF i = 0 THEN {} ELSE {Schedule[i].oi}

\* change: none if either value is missing.
OiChange(t) == {now - past : now \in OiAsOf(t), past \in OiAsOf(t - OiBack)}

\* Faulty: from slot 0 on, though the ring has wrapped.
ToArrays_unrotated == [i \in 1..count |-> ring[i - 1]]
\* to_arrays: once the ring is full its oldest entry is at _write.
ToArrays ==
    IF count < Capacity THEN [i \in 1..count |-> ring[i - 1]]
    ELSE [i \in 1..Capacity |-> ring[(write + i - 1) % Capacity]]

\* One tick, its fills first: a maker fill has the time of its print, from the
\* last tick's time to this one's; filled is whether this is the
\* tick whose fills are followed, one of each such time.  Then its mid is
\* recorded, its book retained, a view looked up, and the open interest at the
\* time of that view.
Tick(step, delay, filled) ==
    LET tick == Len(times) + 1
        last == IF times = <<>> THEN 0 ELSE times[Len(times)]
        ts   == last + step
        seen == AsOf(retained', At(times', retained'), ts - delay)
    IN  /\ Len(times) < MaxTicks
        /\ times' = Append(times, ts)
        /\ fills' = IF filled /\ fills = {} THEN last..ts ELSE fills
        /\ ring' = [ring EXCEPT ![write] = tick]
        /\ write' = (write + 1) % Capacity
        /\ count' = Min({count + 1, Capacity})
        /\ retained' = Pushed(retained, tick)
        /\ shown' = [target |-> ts - delay, tick |-> seen,
                     oi |-> OiAsOf(times'[seen]), change |-> OiChange(times'[seen])]

ViewsNext == \E step \in Steps, delay \in Delays, filled \in BOOLEAN : Tick(step, delay, filled)

ViewsSpec == ViewsInit /\ [][ViewsNext]_viewsVars

-----------------------------------------------------------------------------
(* _adverse_scores, once the run is over                                   *)

\* Faulty: fills older than the window are scored too.
Scorable_any(fill) ==
    LET ticks == ToArrays
    IN  count > 0 /\ BisectLeft(At(times, ticks), fill) + 1 + Lookback <= count

\* A fill is its time.  It is not older than the window, nor too close to its end.
Scorable(fill) ==
    LET ticks == ToArrays
    IN  /\ count > 0 /\ fill >= times[ticks[1]]
        /\ BisectLeft(At(times, ticks), fill) + 1 + Lookback <= count

\* The tick whose mid the fill is scored with.
ScoredWith(fill) ==
    LET ticks == ToArrays IN ticks[BisectLeft(At(times, ticks), fill) + 1 + Lookback]

-----------------------------------------------------------------------------
(* Properties                                                              *)

\* However often the ring has wrapped, it reads as the last Capacity points of
\* the whole history, in order.
RingIsWindow ==
    LET kept == Min({Len(times), Capacity})
    IN  ToArrays = [i \in 1..kept |-> Len(times) - kept + i]

\* A strategy is shown the last tick of the whole history that is not later
\* than now minus the delay: never a later one, never an older one; except that
\* when that tick is no longer retained, or there is none, it is shown the
\* oldest retained one, which then is later than asked for.
ViewIsLatest ==
    shown.tick # None =>
        LET due == BisectRight(times, shown.target)
        IN  IF due > Len(times) - MaxLen /\ due > 0
            THEN shown.tick = due
            ELSE shown.tick = Max({1, Len(times) - MaxLen + 1}) /\ times[shown.tick] > shown.target

\* The open interest a strategy reads for the market it is shown is the one in
\* force then: of the points listed, in whatever order, the latest not after
\* that market, of several at one time the last listed; none before the first.
\* So it is never ahead of a market shown late (open_interest.py 34-37, 55-73).
OpenInterestInForce ==
    shown.tick # None =>
        LET t == times[shown.tick]
            Latest(i, u) ==
                /\ Points[i].ts <= u
                /\ \A j \in DOMAIN Points : Points[j].ts <= u =>
                        Points[j].ts < Points[i].ts \/ (Points[j].ts = Points[i].ts /\ j <= i)
            InForce(u) == {Points[i].oi : i \in {k \in DOMAIN Points : Latest(k, u)}}
        IN  /\ shown.oi = InForce(t)
            /\ shown.change = {now - past : now \in InForce(t), past \in InForce(t - OiBack)}

\* A fill is scored with the mid Lookback ticks after the first tick of the
\* whole history at or after its time, though the window may have dropped the
\* fill's past; where ticks share that time the window may begin among them,
\* and the mid is as many ticks later at most.
ScoredAfterFill ==
    \A fill \in fills : Scorable(fill) =>
        LET first == BisectLeft(times, fill) + 1
            same  == BisectRight(times, fill)
        IN  /\ ScoredWith(fill) >= first + Lookback
            /\ ScoredWith(fill) <= Max({first, same}) + Lookback
=============================================================================
