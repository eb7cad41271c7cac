-------------------------- MODULE PassiveEngineProofs --------------------------
(***************************************************************************)
(* The merge of the symbols' ticks, the sizes of the orders, the accounts  *)
(* and the drawdown of the report, proved for any number of symbols and    *)
(* orders and any streams, books and rates, whatever the strategy does at  *)
(* each tick.                                                              *)
(***************************************************************************)
EXTENDS PassiveEngine, OrderingProofs

-----------------------------------------------------------------------------
(* What is loaded (exchange.py 46-60).                                     *)

\* A file's rows never go back in time.
LEMMA RowsAscend ==
    ASSUME NEW s \in Symbols
    PROVE  /\ Rows[s] \in Seq(Int)
           /\ \A i, j \in 1..Len(Rows[s]) : i <= j => Rows[s][i] <= Rows[s][j]
<1> DEFINE rows == Rows[s]
           n == Len(rows)
           S == {k \in 0..n : \A i, j \in 1..k : i <= j => rows[i] <= rows[j]}
<1>1. rows \in Seq(Int) /\ n \in Nat /\ \A i \in 1..n : rows[i] \in Int
  BY RowsAssumption
<1>2. \A i \in 2..n : rows[i - 1] <= rows[i]
  BY RowsAssumption
<1> HIDE DEF rows, n
<1>3. 0 \in S
  BY <1>1
<1>4. ASSUME NEW k \in 0..n, k \in S, k < n PROVE k + 1 \in S
  <2>1. k + 1 \in 0..n
    BY <1>1, <1>4
  <2>2. ASSUME NEW i \in 1..(k + 1), NEW j \in 1..(k + 1), i <= j PROVE rows[i] <= rows[j]
    <3>1. i \in 1..n /\ j \in 1..n
      BY <1>1, <2>1
    <3>2. rows[i] \in Int /\ rows[j] \in Int
      BY <1>1, <3>1
    <3>3. CASE j <= k
      <4>1. i \in 1..k /\ j \in 1..k
        BY <2>2, <3>3
      <4> QED
        BY <1>4, <2>2, <4>1
    <3>4. CASE i = j
      BY <3>2, <3>4
    <3>5. CASE j = k + 1 /\ i <= k
      <4>1. i \in 1..k /\ k \in 1..k /\ k + 1 \in 2..n /\ (k + 1) - 1 = k
        BY <1>1, <1>4, <3>5
      <4>2. rows[i] <= rows[k]
        BY <1>4, <4>1
      <4>3. rows[k] <= rows[k + 1] /\ rows[k] \in Int
        BY <1>1, <1>2, <2>1, <4>1
      <4> QED
        BY <3>2, <3>5, <4>2, <4>3
    <3> QED
      BY <2>2, <3>3, <3>4, <3>5
  <2> QED
    BY <2>1, <2>2
<1> HIDE DEF S
<1>5. n \in S
  <2>1. \A k \in 0..n : k \in S /\ k < n => k + 1 \in S
    BY <1>4
  <2>2. \A k \in 0..n : k \in S
    BY <1>1, <1>3, <2>1, UpTo
  <2> QED
    BY <1>1, <2>2
<1> QED
  BY <1>1, <1>5 DEF S, rows, n

\* The times of the rows in the window, in the order of the file.
Window(s) == Picked(Rows[s], {i \in DOMAIN Rows[s] : StartTs <= Rows[s][i] /\ Rows[s][i] <= EndTs})

\* Stopping at the first row past the end misses nothing, because rows never go
\* back in time; and so the ticks of a stream do not either.
LEMMA StreamIsWindow ==
    ASSUME NEW s \in Symbols
    PROVE  /\ Streams[s] = Window(s)
           /\ Streams[s] \in Seq(Int)
           /\ \A i, j \in 1..Len(Streams[s]) : i <= j => Streams[s][i] <= Streams[s][j]
<1> DEFINE rows == Rows[s]
           W == {i \in DOMAIN rows : StartTs <= rows[i] /\ rows[i] <= EndTs}
           L == {i \in DOMAIN rows : /\ \A j \in 1..i : rows[j] <= EndTs
                                     /\ rows[i] >= StartTs}
<1>1. /\ rows \in Seq(Int) /\ Len(rows) \in Nat /\ DOMAIN rows = 1..Len(rows)
      /\ \A i \in DOMAIN rows : rows[i] \in Int
      /\ \A i, j \in DOMAIN rows : i <= j => rows[i] <= rows[j]
      /\ StartTs \in Int /\ EndTs \in Int
  <2>1. rows \in Seq(Int) /\ \A i, j \in 1..Len(rows) : i <= j => rows[i] <= rows[j]
    BY RowsAscend
  <2>2. StartTs \in Int /\ EndTs \in Int
    BY RowsAssumption
  <2> HIDE DEF rows, W, L
  <2>3. Len(rows) \in Nat /\ DOMAIN rows = 1..Len(rows) /\ \A i \in DOMAIN rows : rows[i] \in Int
    BY <2>1
  <2>4. \A i, j \in DOMAIN rows : i <= j => rows[i] <= rows[j]
    BY <2>1, <2>3
  <2> QED
    BY <2>1, <2>2, <2>3, <2>4
<1>2. Streams[s] = Picked(rows, L) /\ Window(s) = Picked(rows, W)
  BY DEF Streams, LoadTicks, Window
<1> HIDE DEF rows
<1>3. ASSUME NEW i \in DOMAIN rows PROVE i \in L <=> i \in W
  <2>1. \A j \in 1..i : j \in DOMAIN rows /\ j <= i
    BY <1>1
  <2>2. i \in 1..i
    BY <1>1
  <2>3. \A j \in 1..i : rows[j] <= rows[i] /\ rows[j] \in Int
    BY <1>1, <2>1
  <2>4. rows[i] \in Int
    BY <1>1
  <2>5. (\A j \in 1..i : rows[j] <= EndTs) <=> rows[i] <= EndTs
    BY <1>1, <2>2, <2>3, <2>4
  <2>6. rows[i] >= StartTs <=> StartTs <= rows[i]
    BY <1>1, <2>4
  <2> QED
    BY <2>5, <2>6
<1>4. L = W
  BY <1>3
<1>5. Streams[s] = Window(s)
  BY <1>2, <1>4
<1> DEFINE a == Ascending(W)
           n == Cardinality(W)
           P == Picked(rows, W)
<1>6. /\ n \in Nat /\ P \in Seq(Int) /\ Len(P) = n
      /\ a \in [1..n -> W] /\ \A k, l \in 1..n : k < l <=> a[k] < a[l]
      /\ \A k \in 1..n : P[k] = rows[a[k]]
  <2>1. W \in SUBSET DOMAIN rows
    OBVIOUS
  <2> HIDE DEF W
  <2> QED
    BY <1>1, <2>1, PickedFrom
<1>7. ASSUME NEW i \in 1..n, NEW j \in 1..n, i <= j PROVE P[i] <= P[j]
  <2>1. a[i] \in DOMAIN rows /\ a[j] \in DOMAIN rows
    BY <1>6
  <2>2. a[i] \in Int /\ a[j] \in Int
    BY <1>1, <2>1
  <2>3. i = j \/ i < j
    BY <1>7
  <2>4. a[i] <= a[j]
    BY <1>6, <2>2, <2>3
  <2> HIDE DEF a, P, n, W
  <2> QED
    BY <1>1, <1>6, <2>1, <2>4
<1> QED
  BY <1>2, <1>5, <1>6, <1>7

-----------------------------------------------------------------------------
(* The merge (multi_asset.py 125-144).                                     *)

\* The generator holds at most one tick of every symbol, none of the symbol
\* whose tick is processed; pushes tell its entries apart, and the entry of the
\* symbol served last is the last pushed.
MergeInv ==
    /\ phase \in {"idle", "record", "place"} /\ at \in Symbols
    /\ pushes \in Nat /\ pulled \in [Symbols -> Nat]
    /\ served \in Seq([symbol : Symbols, ts : Int])
    /\ heap \subseteq [ts : Int, nth : 1..pushes, symbol : Symbols]
    /\ \A d, e \in heap : d.nth = e.nth \/ d.symbol = e.symbol => d = e
    /\ phase # "idle" => \A e \in heap : e.symbol # at
    /\ phase = "idle" /\ served # <<>> => \A e \in heap : e.symbol = at => e.nth = pushes

\* The first ticks are pushed in the order of the streams (multi_asset.py 130-137).
LEMMA InitMerge == Init => MergeInv
<1> SUFFICES ASSUME Init PROVE MergeInv
  OBVIOUS
<1> DEFINE S == {s \in Symbols : Streams[s] # <<>>}
           N == Cardinality(S)
<1>1. PICK order \in SetToSeqs(S) :
         /\ heap = {Entry(order[n], 1, n) : n \in DOMAIN order}
         /\ pushes = Len(order)
  BY DEF Init, MergeInit
<1>2. N \in Nat
  BY StreamAssumption, FS_Subset, FS_CardinalityType
<1>3. /\ order \in [1..N -> S]
      /\ \A m, n \in 1..N : m # n => order[m] # order[n]
  BY DEF SetToSeqs
<1> HIDE DEF N
<1>4. pushes = N /\ DOMAIN order = 1..N
  BY <1>1, <1>2, <1>3
<1>5. \A s \in S : Streams[s][1] \in Int
  <2>1. \A s \in S : Streams[s] \in Seq(Int) /\ Streams[s] # <<>>
    BY StreamIsWindow
  <2> QED
    BY <2>1
<1>6. heap \subseteq [ts : Int, nth : 1..pushes, symbol : Symbols]
  BY <1>1, <1>3, <1>4, <1>5 DEF Entry
<1>7. \A d, e \in heap : d.nth = e.nth \/ d.symbol = e.symbol => d = e
  BY <1>1, <1>3, <1>4 DEF Entry
<1>8. pulled \in [Symbols -> Nat]
  BY DEF Init, MergeInit
<1> QED
  BY <1>2, <1>4, <1>6, <1>7, <1>8 DEF Init, MergeInv

\* The tick leaves the heap (multi_asset.py 139-140).
LEMMA TickMerge ==
    ASSUME MergeInv, NEW e \in heap, NEW b, NEW trades, Tick(e, b, trades)
    PROVE  MergeInv'
<1>1. /\ heap' = heap \ {e} /\ at' = e.symbol /\ phase' = "record"
      /\ pulled' = pulled /\ pushes' = pushes
      /\ served' = Append(served, [symbol |-> e.symbol, ts |-> e.ts])
  BY DEF Tick
<1>2. e \in [ts : Int, nth : 1..pushes, symbol : Symbols]
  BY DEF MergeInv
<1> QED
  BY <1>1, <1>2 DEF MergeInv

\* The symbol's next tick is pushed behind all that wait (multi_asset.py 141-144).
LEMMA DoneMerge ==
    ASSUME MergeInv, Done
    PROVE  MergeInv'
<1>1. phase = "place" /\ phase' = "idle" /\ at' = at /\ served' = served /\ Refill
  BY DEF Done
<1>2. CASE pulled[at] < Len(Streams[at])
  <2> DEFINE new == Entry(at, pulled[at] + 1, pushes + 1)
  <2>1. /\ heap' = heap \cup {new} /\ pushes' = pushes + 1
        /\ pulled' = [pulled EXCEPT ![at] = @ + 1]
    BY <1>1, <1>2 DEF Refill
  <2>2. Streams[at][pulled[at] + 1] \in Int
    <3>1. Streams[at] \in Seq(Int) /\ pulled[at] \in Nat
      BY StreamIsWindow DEF MergeInv
    <3> QED
      BY <1>2, <3>1
  <2>3. new \in [ts : Int, nth : 1..pushes', symbol : Symbols] /\ new.nth = pushes' /\ new.symbol = at
    BY <2>1, <2>2 DEF MergeInv, Entry
  <2> HIDE DEF new
  <2>4. \A d \in heap : d.symbol # at /\ d.nth < pushes' /\ d \in [ts : Int, nth : 1..pushes', symbol : Symbols]
    BY <1>1, <2>1 DEF MergeInv
  <2>5. heap' \subseteq [ts : Int, nth : 1..pushes', symbol : Symbols]
    BY <2>1, <2>3, <2>4
  <2>6. \A d, e \in heap' : d.nth = e.nth \/ d.symbol = e.symbol => d = e
    BY <2>1, <2>3, <2>4 DEF MergeInv
  <2>7. \A d \in heap' : d.symbol = at => d.nth = pushes'
    BY <2>1, <2>3, <2>4
  <2> QED
    BY <1>1, <2>1, <2>5, <2>6, <2>7 DEF MergeInv
<1>3. CASE ~(pulled[at] < Len(Streams[at]))
  BY <1>1, <1>3 DEF Refill, mergeVars, MergeInv
<1> QED
  BY <1>2, <1>3

\* Every step keeps the merge well formed.
LEMMA StepMerge == MergeInv /\ [Next]_vars => MergeInv'
<1> SUFFICES ASSUME MergeInv, [Next]_vars PROVE MergeInv'
  OBVIOUS
<1>1. ASSUME NEW e \in heap, NEW b, NEW trades, Tick(e, b, trades) PROVE MergeInv'
  BY <1>1, TickMerge
<1>2. CASE Done
  BY <1>2, DoneMerge
<1>3. ASSUME /\ UNCHANGED mergeVars /\ at' = at /\ served' = served
             /\ phase' \in {"idle", "record", "place"} /\ (phase' = "idle" => phase = "idle")
             /\ (phase = "idle" => phase' = "idle")
      PROVE  MergeInv'
  BY <1>3 DEF mergeVars, MergeInv
<1>4. CASE RecordPassive
  BY <1>3, <1>4 DEF RecordPassive, tickVars, MergeInv
<1>5. ASSUME NEW new, NEW gone, Act(new, gone) PROVE MergeInv'
  BY <1>3, <1>5 DEF Act
<1>6. CASE Place
  BY <1>3, <1>6 DEF Place, tickVars, MergeInv
<1>7. CASE UNCHANGED vars
  BY <1>3, <1>7 DEF vars, tickVars, MergeInv
<1> QED
  BY <1>1, <1>2, <1>4, <1>5, <1>6, <1>7 DEF Next

\* However many symbols tick at one time, none is served again before the others
\* that wait (multi_asset.py 125-144).
THEOREM TiesTakeTurns == Spec => TiesInTurn
<1> DEFINE Fair == phase = "idle" /\ phase' = "record" /\ served # <<>> /\ at' = at /\ now' = now =>
                      \A e \in heap : e.ts = now => e.symbol = at
<1>1. MergeInv /\ [Next]_vars => [Fair]_vars
  <2> SUFFICES ASSUME MergeInv, Next, phase = "idle", phase' = "record", served # <<>>,
                      at' = at, now' = now,
                      NEW d \in heap, d.ts = now
               PROVE  d.symbol = at
    OBVIOUS
  <2>1. PICK e \in heap : e.ts = now /\ e.symbol = at /\ First(e)
    BY DEF Next, Tick, RecordPassive, Act, Place, Done
  <2>2. e.nth = pushes /\ e.nth <= d.nth
    BY <2>1 DEF MergeInv, First
  <2>3. d.nth = e.nth
    BY <2>2 DEF MergeInv
  <2> QED
    BY <2>1, <2>3 DEF MergeInv
<1> QED
  BY InitMerge, StepMerge, <1>1, PTL DEF Spec, TiesInTurn
-----------------------------------------------------------------------------
(* The order in which ticks are served.                                    *)

\* What was served of a symbol.
Mine(s) == Picked(served, {i \in DOMAIN served : served[i].symbol = s})

\* Of every stream the ticks served are the first, and the next one waits while
\* there is one; nothing that waits is older than what was served last.
StreamInv ==
    /\ \A s \in Symbols : pulled[s] \in 0..Len(Streams[s])
    /\ \A e \in heap : pulled[e.symbol] > 0 /\ e.ts = Streams[e.symbol][pulled[e.symbol]]
    /\ \A s \in Symbols : (\A e \in heap : e.symbol # s) =>
          IF phase # "idle" /\ s = at THEN pulled[s] > 0 /\ now = Streams[s][pulled[s]]
                                      ELSE pulled[s] = Len(Streams[s])
    /\ \A s \in Symbols :
          /\ Len(Mine(s)) = IF \E e \in heap : e.symbol = s THEN pulled[s] - 1 ELSE pulled[s]
          /\ \A k \in 1..Len(Mine(s)) : Mine(s)[k].ts = Streams[s][k]
    /\ \A i \in 2..Len(served) : served[i - 1].ts <= served[i].ts
    /\ served # <<>> => now = served[Len(served)].ts /\ \A e \in heap : now <= e.ts
    /\ phase # "idle" => served # <<>>

\* An element more at the end is picked last or not at all.
LEMMA PickedAppended ==
    ASSUME NEW T, NEW s \in Seq(T), NEW x \in T, NEW W \in SUBSET DOMAIN s
    PROVE  /\ Picked(Append(s, x), W) = Picked(s, W)
           /\ Picked(Append(s, x), W \cup {Len(s) + 1}) = Append(Picked(s, W), x)
<1> DEFINE t == Append(s, x)
           m == Len(s) + 1
<1>1. /\ Len(s) \in Nat /\ DOMAIN s = 1..Len(s)
      /\ t \in Seq(T) /\ t[m] = x /\ \A i \in 1..Len(s) : t[i] = s[i]
  BY AppendProperties
<1>2. IsFiniteSet(W) /\ W \subseteq Int /\ Picked(s, W) \in Seq(T)
  BY PickedFrom
<1>3. m \in Int /\ \A i \in W : i < m /\ s[i] = t[i]
  <2>1. \A i \in W : i \in 1..Len(s)
    BY <1>1
  <2> QED
    BY <1>1, <2>1
<1> HIDE DEF t, m
<1>4. Picked(t, W) = Picked(s, W)
  BY <1>2, <1>3, PickedSame
<1>5. Picked(t, W \cup {m}) = Append(Picked(t, W), t[m])
  <2>1. t[m] \in T /\ Picked(t, W) \in Seq(T)
    BY <1>1, <1>2, <1>4
  <2> QED
    BY <1>2, <1>3, <2>1, PickedMore
<1> QED
  BY <1>1, <1>4, <1>5 DEF t, m

\* A tick served is added to those of its symbol.
LEMMA MineAfter ==
    ASSUME MergeInv, NEW tick \in [symbol : Symbols, ts : Int], served' = Append(served, tick),
           NEW s \in Symbols
    PROVE  Mine(s)' = IF s = tick.symbol THEN Append(Mine(s), tick) ELSE Mine(s)
<1> DEFINE W == {i \in DOMAIN served : served[i].symbol = s}
           V == {i \in DOMAIN served' : served'[i].symbol = s}
<1>1. /\ served \in Seq([symbol : Symbols, ts : Int])
      /\ served' \in Seq([symbol : Symbols, ts : Int]) /\ Len(served) \in Nat
      /\ DOMAIN served = 1..Len(served) /\ DOMAIN served' = 1..(Len(served) + 1)
      /\ served'[Len(served) + 1] = tick
      /\ \A i \in 1..Len(served) : served'[i] = served[i]
  BY AppendProperties DEF MergeInv
<1>2. /\ \A i \in 1..(Len(served) + 1) : i \in 1..Len(served) \/ i = Len(served) + 1
      /\ \A i \in 1..Len(served) : i \in 1..(Len(served) + 1)
      /\ Len(served) + 1 \in 1..(Len(served) + 1)
  BY <1>1
<1>3. V = IF s = tick.symbol THEN W \cup {Len(served) + 1} ELSE W
  BY <1>1, <1>2
<1>4. Mine(s)' = Picked(served', V) /\ Mine(s) = Picked(served, W) /\ W \in SUBSET DOMAIN served
  BY DEF Mine
<1> HIDE DEF V, W
<1>5. /\ Picked(Append(served, tick), W) = Picked(served, W)
      /\ Picked(Append(served, tick), W \cup {Len(served) + 1}) = Append(Picked(served, W), tick)
  <2> DEFINE T == [symbol : Symbols, ts : Int]
  <2>1. served \in Seq(T) /\ tick \in T /\ W \in SUBSET DOMAIN served
    BY <1>1, <1>4
  <2> HIDE DEF T
  <2> QED
    BY ONLY <2>1, PickedAppended, ZenonT(60)
<1> QED
  BY <1>3, <1>4, <1>5

\* The ticks served of a symbol make a sequence.
LEMMA MineTyped ==
    ASSUME MergeInv, NEW s \in Symbols
    PROVE  /\ Mine(s) \in Seq([symbol : Symbols, ts : Int]) /\ Len(Mine(s)) \in Nat
           /\ \A k \in 1..Len(Mine(s)) : Mine(s)[k].ts \in Int
<1> DEFINE W == {i \in DOMAIN served : served[i].symbol = s}
<1>1. served \in Seq([symbol : Symbols, ts : Int]) /\ W \in SUBSET DOMAIN served
  BY DEF MergeInv
<1>2. Mine(s) = Picked(served, W)
  BY DEF Mine
<1> HIDE DEF W
<1>3. Mine(s) \in Seq([symbol : Symbols, ts : Int])
  BY <1>1, <1>2, PickedFrom
<1>4. Len(Mine(s)) \in Nat /\ \A k \in 1..Len(Mine(s)) : Mine(s)[k] \in [symbol : Symbols, ts : Int]
  BY <1>3, LenProperties
<1> QED
  BY <1>3, <1>4

\* Nothing is served at first and the first tick of every stream waits.
LEMMA InitStream == Init => StreamInv
<1> SUFFICES ASSUME Init PROVE StreamInv
  OBVIOUS
<1> DEFINE S == {s \in Symbols : Streams[s] # <<>>}
           N == Cardinality(S)
<1>1. PICK order \in SetToSeqs(S) : heap = {Entry(order[n], 1, n) : n \in DOMAIN order}
  BY DEF Init, MergeInit
<1>2. IsFiniteSet(S) /\ N \in Nat
  BY StreamAssumption, FS_Subset, FS_CardinalityType
<1>3. /\ order \in [1..N -> S]
      /\ \A m, n \in 1..N : m # n => order[m] # order[n]
  BY DEF SetToSeqs
<1>4. \A s \in S : \E n \in 1..N : order[n] = s
  <2>1. IsFiniteSet(1..N) /\ Cardinality(1..N) = N
    BY <1>2, FirstFew
  <2> HIDE DEF S
  <2>2. order \in Injection(1..N, S)
    BY <1>3, Fun_IsInj
  <2>3. order \in Surjection(1..N, S)
    BY <1>2, <2>1, <2>2, FS_Injection
  <2>4. \A s \in S : \E n \in 1..N : order[n] = s
    <3> DEFINE I == 1..N
    <3>1. order \in Surjection(I, S)
      BY <2>3
    <3> HIDE DEF I
    <3>2. \A s \in S : \E n \in I : order[n] = s
      BY ONLY <3>1, Fun_SurjectionProperties
    <3> QED
      BY <3>2 DEF I
  <2> QED
    BY <2>4
<1> HIDE DEF N
<1>5. /\ \A e \in heap : e.symbol \in S /\ e.ts = Streams[e.symbol][1]
      /\ \A s \in S : \E e \in heap : e.symbol = s
  <2>1. DOMAIN order = 1..N /\ \A n \in 1..N : order[n] \in S
    BY <1>3
  <2> HIDE DEF S, N
  <2>2. \A n \in 1..N : LET e == Entry(order[n], 1, n)
                        IN  e \in heap /\ e.symbol = order[n] /\ e.ts = Streams[order[n]][1]
    BY <1>1, <2>1 DEF Entry
  <2>3. \A e \in heap : \E n \in 1..N : e = Entry(order[n], 1, n)
    BY <1>1, <2>1
  <2> QED
    BY <1>4, <2>1, <2>2, <2>3
<1>6. \A s \in Symbols : Len(Streams[s]) \in Nat /\ (s \in S <=> Len(Streams[s]) > 0)
  <2> TAKE s \in Symbols
  <2>1. Streams[s] \in Seq(Int)
    BY StreamIsWindow
  <2> HIDE DEF Streams
  <2> QED
    BY <2>1
<1>7. \A s \in Symbols : pulled[s] = IF s \in S THEN 1 ELSE 0
  BY DEF Init, MergeInit
<1>8. served = <<>> /\ phase = "idle"
  BY DEF Init
<1>9. \A s \in Symbols : Len(Mine(s)) = 0
  <2> TAKE s \in Symbols
  <2>1. {i \in DOMAIN served : served[i].symbol = s} = {}
    BY <1>8
  <2>2. Mine(s) = [k \in 1..Cardinality({}) |-> served[Ascending({})[k]]]
    BY <2>1 DEF Mine, Picked
  <2>3. Cardinality({}) = 0
    BY FS_EmptySet
  <2>4. Mine(s) = <<>>
    BY <2>2, <2>3
  <2> QED
    BY <2>4
<1> HIDE DEF S
<1>10. \A s \in Symbols : (\E e \in heap : e.symbol = s) <=> s \in S
  BY <1>5
<1>11. \A s \in Symbols : pulled[s] \in 0..Len(Streams[s])
  BY <1>6, <1>7
<1>12. \A e \in heap : pulled[e.symbol] > 0 /\ e.ts = Streams[e.symbol][pulled[e.symbol]]
  <2> TAKE e \in heap
  <2>1. e.symbol \in Symbols /\ pulled[e.symbol] = 1
    BY <1>5, <1>7 DEF S
  <2> QED
    BY <1>5, <2>1
<1>13. \A s \in Symbols : (\A e \in heap : e.symbol # s) => pulled[s] = Len(Streams[s])
  BY <1>6, <1>7, <1>10
<1>14. \A s \in Symbols : /\ Len(Mine(s)) = IF \E e \in heap : e.symbol = s THEN pulled[s] - 1 ELSE pulled[s]
                          /\ \A k \in 1..Len(Mine(s)) : Mine(s)[k].ts = Streams[s][k]
  <2> TAKE s \in Symbols
  <2>1. Len(Mine(s)) = 0 /\ (IF \E e \in heap : e.symbol = s THEN pulled[s] - 1 ELSE pulled[s]) = 0
    BY <1>7, <1>9, <1>10
  <2> QED
    BY <2>1
<1> QED
  BY <1>8, <1>11, <1>12, <1>13, <1>14 DEF StreamInv

\* The tick served is the one that waited longest, and the next of its stream.
LEMMA TickStream ==
    ASSUME MergeInv, StreamInv, NEW e \in heap, NEW b, NEW trades, Tick(e, b, trades)
    PROVE  StreamInv'
<1> DEFINE tick == [symbol |-> e.symbol, ts |-> e.ts]
<1>1. /\ phase = "idle" /\ First(e) /\ heap' = heap \ {e} /\ at' = e.symbol /\ phase' = "record"
      /\ pulled' = pulled /\ now' = e.ts /\ served' = Append(served, tick)
  BY DEF Tick
<1>2. /\ \A d \in heap : d.ts \in Int /\ d.symbol \in Symbols /\ (d.symbol = e.symbol => d = e)
      /\ served \in Seq([symbol : Symbols, ts : Int]) /\ pulled \in [Symbols -> Nat]
  BY DEF MergeInv
<1>3. tick \in [symbol : Symbols, ts : Int] /\ tick.symbol = e.symbol /\ tick.ts = e.ts
  BY <1>2
<1> HIDE DEF tick
<1>4. \A d \in heap' : d \in heap /\ d.symbol # e.symbol
  BY <1>1, <1>2
<1>5. \A s \in Symbols : pulled'[s] \in 0..Len(Streams[s])
  BY <1>1 DEF StreamInv
<1>6. \A d \in heap' : pulled'[d.symbol] > 0 /\ d.ts = Streams[d.symbol][pulled'[d.symbol]]
  BY <1>1, <1>4 DEF StreamInv
<1>7. pulled[e.symbol] > 0 /\ e.ts = Streams[e.symbol][pulled[e.symbol]]
  BY DEF StreamInv
<1>8. \A s \in Symbols : (\A d \in heap' : d.symbol # s) =>
          IF phase' # "idle" /\ s = at' THEN pulled'[s] > 0 /\ now' = Streams[s][pulled'[s]]
                                        ELSE pulled'[s] = Len(Streams[s])
  <2> SUFFICES ASSUME NEW s \in Symbols, \A d \in heap' : d.symbol # s
               PROVE  IF s = e.symbol THEN pulled[s] > 0 /\ e.ts = Streams[s][pulled[s]]
                                      ELSE pulled[s] = Len(Streams[s])
    BY <1>1
  <2>1. s # e.symbol => \A d \in heap : d.symbol # s
    BY <1>1
  <2> QED
    BY <1>1, <1>7, <2>1 DEF StreamInv
<1>9. ASSUME NEW s \in Symbols
      PROVE  /\ Len(Mine(s)') = IF \E d \in heap' : d.symbol = s THEN pulled'[s] - 1 ELSE pulled'[s]
             /\ \A k \in 1..Len(Mine(s)') : Mine(s)'[k].ts = Streams[s][k]
  <2>1. /\ Len(Mine(s)) = IF \E d \in heap : d.symbol = s THEN pulled[s] - 1 ELSE pulled[s]
        /\ \A k \in 1..Len(Mine(s)) : Mine(s)[k].ts = Streams[s][k]
    BY DEF StreamInv
  <2>2. Mine(s)' = IF s = e.symbol THEN Append(Mine(s), tick) ELSE Mine(s)
    BY <1>1, <1>3, MineAfter
  <2>3. CASE s # e.symbol
    <3>1. (\E d \in heap' : d.symbol = s) <=> (\E d \in heap : d.symbol = s)
      BY <1>1, <2>3
    <3> QED
      BY <1>1, <2>1, <2>2, <2>3, <3>1
  <2>4. CASE s = e.symbol
    <3>1. (\E d \in heap : d.symbol = s) /\ ~\E d \in heap' : d.symbol = s
      BY <1>4, <2>4
    <3>2. Mine(s) \in Seq([symbol : Symbols, ts : Int]) /\ Len(Mine(s)) \in Nat
      BY MineTyped
    <3>3. Len(Mine(s)) = pulled[s] - 1 /\ pulled[s] \in Nat /\ pulled[s] = Len(Mine(s)) + 1
      BY <1>2, <2>1, <3>1
    <3>4. /\ Len(Mine(s)') = Len(Mine(s)) + 1 /\ Mine(s)'[Len(Mine(s)) + 1] = tick
          /\ \A k \in 1..Len(Mine(s)) : Mine(s)'[k] = Mine(s)[k]
      BY <1>3, <2>2, <2>4, <3>2, AppendProperties
    <3>5. \A k \in 1..(Len(Mine(s)) + 1) : k \in 1..Len(Mine(s)) \/ k = Len(Mine(s)) + 1
      BY <3>2
    <3>6. tick.ts = Streams[s][Len(Mine(s)) + 1]
      BY <1>3, <1>7, <2>4, <3>3
    <3> QED
      BY <1>1, <2>1, <3>1, <3>3, <3>4, <3>5, <3>6
  <2> QED
    BY <2>3, <2>4
<1>10. /\ Len(served) \in Nat /\ Len(served') = Len(served) + 1 /\ served'[Len(served) + 1] = tick
       /\ \A i \in 1..Len(served) : served'[i] = served[i] /\ served[i].ts \in Int
       /\ served' # <<>> /\ (Len(served) > 0 => served # <<>>)
  <2>1. /\ Len(served) \in Nat /\ served' \in Seq([symbol : Symbols, ts : Int])
        /\ Len(served') = Len(served) + 1 /\ served'[Len(served) + 1] = tick
        /\ \A i \in 1..Len(served) : served'[i] = served[i]
    BY <1>1, <1>2, <1>3, AppendProperties
  <2>2. \A i \in 1..Len(served) : served[i] \in [symbol : Symbols, ts : Int]
    <3>1. served \in Seq([symbol : Symbols, ts : Int])
      BY <1>2
    <3> QED
      BY ONLY <3>1, ElementOfSeq
  <2>3. Len(<<>>) = 0
    OBVIOUS
  <2> QED
    BY <2>1, <2>2, <2>3
<1>11. \A i \in 2..Len(served') : served'[i - 1].ts <= served'[i].ts
  <2> SUFFICES ASSUME NEW i \in 2..(Len(served) + 1) PROVE served'[i - 1].ts <= served'[i].ts
    BY <1>10
  <2>1. i - 1 \in 1..Len(served) /\ i \in Int
    BY <1>10
  <2>2. CASE i \in 2..Len(served)
    <3>1. i \in 1..Len(served)
      BY <1>10, <2>2
    <3>2. served[i - 1].ts <= served[i].ts
      BY <2>2 DEF StreamInv
    <3> QED
      BY <1>10, <2>1, <3>1, <3>2
  <2>3. CASE i = Len(served) + 1
    <3>1. i - 1 = Len(served) /\ served # <<>>
      BY <1>10, <2>1, <2>3
    <3>2. now = served[Len(served)].ts /\ now <= e.ts
      BY <3>1 DEF StreamInv
    <3> QED
      BY <1>3, <1>10, <2>1, <2>3, <3>1, <3>2
  <2>4. i \in 2..Len(served) \/ i = Len(served) + 1
    BY <1>10
  <2> QED
    BY <2>2, <2>3, <2>4
<1>12. now' = served'[Len(served')].ts /\ \A d \in heap' : now' <= d.ts
  <2>1. now' = served'[Len(served')].ts
    BY <1>1, <1>3, <1>10
  <2>2. \A d \in heap' : e.ts < d.ts \/ e.ts = d.ts
    BY <1>1, <1>4 DEF First
  <2>3. \A d \in heap' : d.ts \in Int
    BY <1>2, <1>4
  <2>4. \A d \in heap' : e.ts <= d.ts
    BY <1>2, <2>2, <2>3
  <2> QED
    BY <1>1, <2>1, <2>4
<1> QED
  BY <1>5, <1>6, <1>8, <1>9, <1>10, <1>11, <1>12 DEF StreamInv

\* The stream yields its next tick, which is not older than the one served.
LEMMA DoneStream ==
    ASSUME MergeInv, StreamInv, Done
    PROVE  StreamInv'
<1>1. /\ phase = "place" /\ phase' = "idle" /\ at' = at /\ served' = served /\ now' = now /\ Refill
      /\ \A s \in Symbols : Mine(s)' = Mine(s)
  BY DEF Done, Mine
<1>2. /\ at \in Symbols /\ pulled \in [Symbols -> Nat] /\ \A e \in heap : e.symbol # at
      /\ served # <<>> /\ now = served[Len(served)].ts /\ \A e \in heap : now <= e.ts
      /\ pulled[at] > 0 /\ now = Streams[at][pulled[at]]
  BY <1>1 DEF MergeInv, StreamInv
<1>3. /\ Streams[at] \in Seq(Int) /\ Len(Streams[at]) \in Nat
      /\ \A i, j \in 1..Len(Streams[at]) : i <= j => Streams[at][i] <= Streams[at][j]
  <2>1. /\ Streams[at] \in Seq(Int)
        /\ \A i, j \in 1..Len(Streams[at]) : i <= j => Streams[at][i] <= Streams[at][j]
    BY <1>2, StreamIsWindow
  <2>2. Len(Streams[at]) \in Nat
    BY <2>1, LenProperties
  <2> QED
    BY <2>1, <2>2
<1>4. \A s \in Symbols :
          /\ Len(Mine(s)) = IF \E e \in heap : e.symbol = s THEN pulled[s] - 1 ELSE pulled[s]
          /\ \A k \in 1..Len(Mine(s)) : Mine(s)[k].ts = Streams[s][k]
  BY DEF StreamInv
<1>5. CASE pulled[at] < Len(Streams[at])
  <2> DEFINE new == Entry(at, pulled[at] + 1, pushes + 1)
  <2>1. heap' = heap \cup {new} /\ pulled' = [pulled EXCEPT ![at] = @ + 1]
    BY <1>1, <1>5 DEF Refill
  <2>2. new.symbol = at /\ new.ts = Streams[at][pulled[at] + 1]
    BY DEF Entry
  <2> HIDE DEF new
  <2>3. pulled'[at] = pulled[at] + 1 /\ \A s \in Symbols : s # at => pulled'[s] = pulled[s]
    BY <1>2, <2>1
  <2>4. /\ pulled[at] \in 1..Len(Streams[at]) /\ pulled[at] + 1 \in 1..Len(Streams[at])
        /\ pulled[at] \in Nat
    BY <1>2, <1>3, <1>5
  <2>5. \A s \in Symbols : pulled'[s] \in 0..Len(Streams[s])
    <3>1. pulled'[at] \in 0..Len(Streams[at])
      BY <1>3, <2>3, <2>4
    <3> QED
      BY <2>3, <3>1 DEF StreamInv
  <2>6. \A e \in heap' : pulled'[e.symbol] > 0 /\ e.ts = Streams[e.symbol][pulled'[e.symbol]]
    <3>1. pulled'[at] > 0 /\ new.ts = Streams[at][pulled'[at]]
      BY <2>2, <2>3, <2>4
    <3>2. \A e \in heap : e.symbol \in Symbols /\ pulled'[e.symbol] = pulled[e.symbol]
      BY <1>2, <2>3 DEF MergeInv
    <3> QED
      BY <2>1, <2>2, <3>1, <3>2 DEF StreamInv
  <2>7. \A s \in Symbols : (\A e \in heap' : e.symbol # s) => pulled'[s] = Len(Streams[s])
    <3> SUFFICES ASSUME NEW s \in Symbols, \A e \in heap' : e.symbol # s
                 PROVE  pulled'[s] = Len(Streams[s])
      OBVIOUS
    <3>1. s # at /\ \A e \in heap : e.symbol # s
      BY <2>1, <2>2
    <3> QED
      BY <2>3, <3>1 DEF StreamInv
  <2>8. \A s \in Symbols : Len(Mine(s)) = IF \E e \in heap' : e.symbol = s THEN pulled'[s] - 1 ELSE pulled'[s]
    <3> TAKE s \in Symbols
    <3>1. CASE s = at
      <4>1. (\E e \in heap' : e.symbol = s) /\ ~\E e \in heap : e.symbol = s
        BY <1>2, <2>1, <2>2, <3>1
      <4>2. Len(Mine(s)) = pulled[at] /\ pulled'[s] - 1 = pulled[at]
        BY <1>4, <2>3, <2>4, <3>1, <4>1
      <4> QED
        BY <4>1, <4>2
    <3>2. CASE s # at
      <4>1. (\E e \in heap' : e.symbol = s) <=> \E e \in heap : e.symbol = s
        BY <2>1, <2>2, <3>2
      <4> QED
        BY <1>4, <2>3, <3>2, <4>1
    <3> QED
      BY <3>1, <3>2
  <2>9. \A e \in heap' : now <= e.ts
    <3>1. Streams[at][pulled[at]] <= Streams[at][pulled[at] + 1]
      BY <1>3, <2>4
    <3> QED
      BY <1>2, <2>1, <2>2, <3>1
  <2> QED
    BY <1>1, <1>2, <1>4, <2>5, <2>6, <2>7, <2>8, <2>9 DEF StreamInv
<1>6. CASE ~(pulled[at] < Len(Streams[at]))
  <2>1. heap' = heap /\ pulled' = pulled
    BY <1>1, <1>6 DEF Refill, mergeVars
  <2>2. pulled[at] = Len(Streams[at])
    <3>1. pulled[at] \in 0..Len(Streams[at])
      BY <1>2 DEF StreamInv
    <3> QED
      BY <1>3, <1>6, <3>1
  <2>3. \A s \in Symbols : (\A e \in heap : e.symbol # s) => pulled[s] = Len(Streams[s])
    BY <1>1, <2>2 DEF StreamInv
  <2> QED
    BY <1>1, <2>1, <2>3 DEF StreamInv
<1> QED
  BY <1>5, <1>6

\* Every step keeps the order.
LEMMA StepStream == MergeInv /\ StreamInv /\ [Next]_vars => StreamInv'
<1> SUFFICES ASSUME MergeInv, StreamInv, [Next]_vars PROVE StreamInv'
  OBVIOUS
<1>1. ASSUME NEW e \in heap, NEW b, NEW trades, Tick(e, b, trades) PROVE StreamInv'
  BY <1>1, TickStream
<1>2. CASE Done
  BY <1>2, DoneStream
<1>3. ASSUME UNCHANGED mergeVars, at' = at, now' = now, served' = served,
             phase' # "idle" <=> phase # "idle"
      PROVE  StreamInv'
  <2>1. \A s \in Symbols : Mine(s)' = Mine(s)
    BY <1>3 DEF Mine
  <2> QED
    BY <1>3, <2>1 DEF mergeVars, StreamInv
<1>4. CASE RecordPassive
  BY <1>3, <1>4 DEF RecordPassive, tickVars
<1>5. ASSUME NEW new, NEW gone, Act(new, gone) PROVE StreamInv'
  BY <1>3, <1>5 DEF Act
<1>6. CASE Place
  BY <1>3, <1>6 DEF Place, tickVars
<1>7. CASE UNCHANGED vars
  BY <1>3, <1>7 DEF vars, tickVars
<1> QED
  BY <1>1, <1>2, <1>4, <1>5, <1>6, <1>7 DEF Next

\* Ticks are served in time order, each symbol's as its file has them in the
\* window, and all of them by the end (multi_asset.py 125-144, exchange.py 55-60).
THEOREM TicksServedInOrder == Spec => []ServedInOrder
<1>1. MergeInv /\ StreamInv => ServedInOrder
  <2> SUFFICES ASSUME MergeInv, StreamInv PROVE ServedInOrder
    OBVIOUS
  <2>1. \A i \in 2..Len(served) : served[i - 1].ts <= served[i].ts
    BY DEF StreamInv
  <2>2. ASSUME NEW s \in Symbols
        PROVE  /\ IsPrefix([i \in DOMAIN Mine(s) |-> Mine(s)[i].ts], Window(s))
               /\ phase = "idle" /\ heap = {} => Len(Mine(s)) = Len(Window(s))
    <3> DEFINE n == Len(Mine(s))
               u == [i \in DOMAIN Mine(s) |-> Mine(s)[i].ts]
               w == Window(s)
    <3>1. w = Streams[s] /\ w \in Seq(Int)
      BY StreamIsWindow
    <3>2. n \in Nat /\ DOMAIN Mine(s) = 1..n /\ \A k \in 1..n : Mine(s)[k].ts \in Int
      BY MineTyped, LenProperties
    <3>3. u \in Seq(Int) /\ Len(u) = n /\ \A k \in 1..n : u[k] = Mine(s)[k].ts
      <4>1. u \in [1..n -> Int]
        BY <3>2
      <4> QED
        BY <3>2, <4>1, Listing
    <3>4. /\ pulled[s] \in 0..Len(w) /\ Len(w) \in Nat
          /\ n = IF \E e \in heap : e.symbol = s THEN pulled[s] - 1 ELSE pulled[s]
          /\ \A k \in 1..n : Mine(s)[k].ts = w[k]
      BY <3>1, LenProperties DEF StreamInv
    <3>5. n <= Len(w)
      BY <3>2, <3>4
    <3>6. phase = "idle" /\ heap = {} => n = Len(w)
      BY <3>1, <3>4 DEF StreamInv
    <3> HIDE DEF n, u, w
    <3>7. SubSeq(w, 1, n) = u
      <4>1. 1 \in Int /\ n \in Int /\ \A k \in 1..n : k \in 1..Len(w) /\ w[k] \in Int
        BY <3>1, <3>2, <3>4, <3>5
      <4>2. /\ SubSeq(w, 1, n) \in Seq(Int) /\ Len(SubSeq(w, 1, n)) = IF 1 <= n THEN n - 1 + 1 ELSE 0
            /\ \A k \in 1..(n - 1 + 1) : SubSeq(w, 1, n)[k] = w[1 + k - 1]
        BY <4>1, SubSeqProperties
      <4>3. Len(SubSeq(w, 1, n)) = n /\ \A k \in 1..n : SubSeq(w, 1, n)[k] = u[k]
        BY <3>2, <3>3, <3>4, <4>2
      <4> QED
        BY <3>3, <4>2, <4>3, SeqEqual
    <3>8. IsPrefix(u, w)
      BY <3>3, <3>5, <3>7 DEF IsPrefix
    <3> QED
      BY <3>6, <3>8 DEF n, u, w
  <2> QED
    BY <2>1, <2>2 DEF ServedInOrder, Mine, Window
<1> QED
  BY InitMerge, InitStream, StepMerge, StepStream, <1>1, PTL DEF Spec
-----------------------------------------------------------------------------
(* What the simulator fills (passive.py 24-78).                            *)

\* Levels hold sizes, on both sides of a book.
LEMMA LevelsAreSizes ==
    ASSUME NEW b \in Books, NEW id \in OrderIds
    PROVE  \A side \in {OwnSide(OrderOf[id], b), OppositeSide(OrderOf[id], b)} :
              IsFiniteSet(DOMAIN side) /\ \A p \in DOMAIN side : side[p] \in Nat
<1>1. {OwnSide(OrderOf[id], b), OppositeSide(OrderOf[id], b)} \subseteq {b.bids, b.asks}
  BY DEF OwnSide, OppositeSide
<1>2. \A side \in {b.bids, b.asks} : IsFiniteSet(DOMAIN side) /\ \A p \in DOMAIN side : side[p] \in Nat
  BY BookAssumption
<1> QED
  BY <1>1, <1>2

\* Whole lots: a share of a size is one.
LEMMA ShareOfSize ==
    ASSUME NEW n \in Nat, NEW d \in Nat \ {0}
    PROVE  n \div d \in Nat
  OBVIOUS

\* A passive fill is no more than what the order has left (passive.py 72-77).
LEMMA FillWithinLeft ==
    ASSUME NEW id \in OrderIds, left[id] \in Nat, NEW b \in Books, NEW trades \in TradeLists
    PROVE  PassiveFill(id, b, trades) \in 0..left[id]
<1> DEFINE o == OrderOf[id]
           T == {i \in DOMAIN trades : Matches(trades[i], o)}
           f == [i \in DOMAIN trades |-> trades[i].size]
           g == [i \in T |-> trades[i].size]
           volume == MapThenSumSet(LAMBDA i : trades[i].size, T)
           depth == IF o.price \in DOMAIN OwnSide(o, b) THEN OwnSide(o, b)[o.price] ELSE 0
<1>1. volume \in Nat
  <2>1. trades \in Seq(Trade)
    BY TickAssumption
  <2>2. DOMAIN trades = 1..Len(trades) /\ Len(trades) \in Nat /\ \A i \in DOMAIN trades : trades[i].size \in Nat
    <3>1. DOMAIN trades = 1..Len(trades) /\ Len(trades) \in Nat
      BY <2>1, LenProperties
    <3>2. \A i \in 1..Len(trades) : trades[i] \in Trade
      BY <2>1, ElementOfSeq
    <3> QED
      BY <3>1, <3>2 DEF Trade
  <2>3. IsFiniteSet(T)
    BY <2>2, FirstFew, FS_Subset
  <2>4. volume = SumFunctionOnSet(f, T)
    BY DEF MapThenSumSet, MapThenFoldSet, SumFunctionOnSet, FoldFunctionOnSet
  <2>5. \A i \in T : f[i] \in Nat
    BY <2>2
  <2> HIDE DEF f, T, volume
  <2> QED
    BY <2>3, <2>4, <2>5, SumOfSizes
<1>2. depth \in Nat
  BY LevelsAreSizes
<1>3. PassiveFill(id, b, trades) =
        IF depth = 0 THEN Lesser(left[id], (volume * FillNum) \div FillDen)
        ELSE Lesser(left[id], (volume * left[id] * FillNum) \div (depth * FillDen))
  BY DEF PassiveFill
<1> HIDE DEF volume, depth
<1>4. FillNum \in Nat /\ FillDen \in Nat \ {0}
  BY StreamAssumption
<1>5. (volume * FillNum) \div FillDen \in Nat
  <2>1. volume * FillNum \in Nat
    BY <1>1, <1>4
  <2> QED
    BY <1>4, <2>1, ShareOfSize
<1>6. depth # 0 => (volume * left[id] * FillNum) \div (depth * FillDen) \in Nat
  <2> SUFFICES ASSUME depth # 0 PROVE (volume * left[id] * FillNum) \div (depth * FillDen) \in Nat
    OBVIOUS
  <2>1. volume * left[id] \in Nat
    BY <1>1
  <2>2. volume * left[id] * FillNum \in Nat
    BY <1>4, <2>1
  <2>3. depth * FillDen \in Nat \ {0}
    BY <1>2, <1>4
  <2> QED
    BY <2>2, <2>3, ShareOfSize
<1>7. \A x \in Nat : Lesser(left[id], x) \in 0..left[id]
  BY DEF Lesser
<1> QED
  BY <1>3, <1>5, <1>6, <1>7

\* A taker order takes no more than its size (taker.py 25-60).
LEMMA TakesWithinSize ==
    ASSUME NEW b \in Books, NEW id \in OrderIds
    PROVE  TakerSize(OrderOf[id], b) \in 0..OrderOf[id].size
<1> DEFINE o == OrderOf[id]
           other == OppositeSide(o, b)
           T == {p \in DOMAIN other : o.side * p <= o.side * o.price}
<1>1. o.size \in Nat
  BY OrderAssumption DEF Order
<1>2. TakerSize(o, b) = Lesser(o.size, SumFunctionOnSet(other, T))
  BY DEF TakerSize, MapThenSumSet, MapThenFoldSet, SumFunctionOnSet, FoldFunctionOnSet
<1>3. IsFiniteSet(T) /\ \A p \in T : other[p] \in Nat
  BY LevelsAreSizes, FS_Subset
<1>4. SumFunctionOnSet(other, T) \in Nat
  BY <1>3, SumOfSizes
<1> QED
  BY <1>1, <1>2, <1>4 DEF Lesser

\* What is due to an order in a list of fills.
Owed(fills, id) == MapThenSumSet(LAMBDA i : fills[i].size, {i \in DOMAIN fills : fills[i].id = id})

Fill == [id : OrderIds, size : Nat \ {0}]

\* It is a sum over a set.
LEMMA OwedIsSum ==
    ASSUME NEW fills, NEW id
    PROVE  Owed(fills, id) = SumFunctionOnSet([i \in DOMAIN fills |-> fills[i].size],
                                              {i \in DOMAIN fills : fills[i].id = id})
<1> DEFINE f == [i \in DOMAIN fills |-> fills[i].size]
           T == {i \in DOMAIN fills : fills[i].id = id}
<1>1. Owed(fills, id) = MapThenSumSet(LAMBDA i : fills[i].size, T)
  BY DEF Owed
<1>2. MapThenSumSet(LAMBDA i : fills[i].size, T) = SumFunctionOnSet(f, T)
  BY DEF MapThenSumSet, MapThenFoldSet, SumFunctionOnSet, FoldFunctionOnSet
<1> QED
  BY <1>1, <1>2

\* When no order has two, it is the one fill it has.
LEMMA OwedOnce ==
    ASSUME NEW fills \in Seq(Fill),
           \A i, j \in DOMAIN fills : fills[i].id = fills[j].id => i = j
    PROVE  /\ \A i \in DOMAIN fills : Owed(fills, fills[i].id) = fills[i].size
           /\ \A id : (\A i \in DOMAIN fills : fills[i].id # id) => Owed(fills, id) = 0
<1> DEFINE f == [i \in DOMAIN fills |-> fills[i].size]
           W(id) == {i \in DOMAIN fills : fills[i].id = id}
<1>1. ASSUME NEW id PROVE Owed(fills, id) = SumFunctionOnSet(f, W(id))
  BY OwedIsSum
<1>2. \A i \in DOMAIN fills : f[i] \in Int
  <2>1. \A i \in DOMAIN fills : fills[i] \in Fill
    BY ElementOfSeq, LenProperties
  <2> QED
    BY <2>1 DEF Fill
<1>3. ASSUME NEW i \in DOMAIN fills PROVE Owed(fills, fills[i].id) = fills[i].size
  <2>1. W(fills[i].id) = {i}
    OBVIOUS
  <2>2. IsFiniteSet({i}) /\ {i} \ {i} = {} /\ f[i] = fills[i].size
    BY FS_Singleton
  <2> HIDE DEF f, W
  <2>3. SumFunctionOnSet(f, {i}) = f[i] + SumFunctionOnSet(f, {})
    BY <1>2, <2>2, SumLaws
  <2>4. SumFunctionOnSet(f, {}) = 0
    BY FS_EmptySet, SumLaws
  <2>5. f[i] \in Int
    BY <1>2
  <2>6. SumFunctionOnSet(f, {i}) = fills[i].size
    BY <2>2, <2>3, <2>4, <2>5
  <2>7. Owed(fills, fills[i].id) = SumFunctionOnSet(f, W(fills[i].id))
    BY <1>1
  <2> QED
    BY <2>1, <2>6, <2>7
<1>4. ASSUME NEW id, \A i \in DOMAIN fills : fills[i].id # id PROVE Owed(fills, id) = 0
  <2>1. W(id) = {}
    BY <1>4
  <2> HIDE DEF f, W
  <2>2. SumFunctionOnSet(f, {}) = 0
    BY FS_EmptySet, SumLaws
  <2> QED
    BY <1>1, <2>1, <2>2
<1> QED
  BY <1>3, <1>4

-----------------------------------------------------------------------------
(* Where orders rest (multi_asset.py 35-37).                               *)

\* An order rests in one place at most, and once.
Separate(p) ==
    \A s, t \in Symbols : \A i \in 1..Len(p[s]), j \in 1..Len(p[t]) :
        p[s][i] = p[t][j] => s = t /\ i = j

\* Of the orders of x those at the positions W stay.
Thinned(p, q, x, W) == q = [s \in Symbols |-> IF s = x THEN Picked(p[x], W) ELSE p[s]]

\* Those and the orders of the other symbols are there still.
Kept(p, q, x, W) ==
    \A s \in Symbols, id \in OrderIds :
        Contains(q[s], id) <=> Contains(p[s], id) /\ (s = x => \E i \in W : p[x][i] = id)

\* Orders taken out of a symbol's list leave the others in their places.
LEMMA SomeLeave ==
    ASSUME NEW p \in [Symbols -> Seq(OrderIds)], Separate(p), NEW x \in Symbols,
           NEW W \in SUBSET DOMAIN p[x],
           NEW q, Thinned(p, q, x, W)
    PROVE  /\ q \in [Symbols -> Seq(OrderIds)] /\ Separate(q)
           /\ Kept(p, q, x, W)
<1>1. /\ p[x] \in Seq(OrderIds) /\ q[x] = Picked(p[x], W)
      /\ DOMAIN p[x] = 1..Len(p[x])
      /\ \A s \in Symbols : s # x => q[s] = p[s]
  BY LenProperties DEF Thinned
<1>2. q[x] \in Seq(OrderIds) /\ DOMAIN q[x] = 1..Len(q[x])
  BY <1>1, PickedFrom, LenProperties
<1>3. /\ \A k \in 1..Len(q[x]) : \E i \in W : q[x][k] = p[x][i]
      /\ \A i \in W : \E k \in 1..Len(q[x]) : q[x][k] = p[x][i]
      /\ \A k, l \in 1..Len(q[x]) : q[x][k] = q[x][l] => k = l
  <2>1. \A i, j \in DOMAIN p[x] : p[x][i] = p[x][j] => i = j
    BY <1>1 DEF Separate
  <2>2. /\ \A k \in DOMAIN q[x] : \E i \in W : q[x][k] = p[x][i]
        /\ \A i \in W : \E k \in DOMAIN q[x] : q[x][k] = p[x][i]
        /\ \A k, l \in DOMAIN q[x] : q[x][k] = q[x][l] => k = l
    <3>1. W \in SUBSET DOMAIN p[x]
      OBVIOUS
    <3>2. /\ \A k \in DOMAIN Picked(p[x], W) : \E i \in W : Picked(p[x], W)[k] = p[x][i]
          /\ \A i \in W : \E k \in DOMAIN Picked(p[x], W) : Picked(p[x], W)[k] = p[x][i]
      BY <1>1, <3>1, PickedElements
    <3>3. \A k, l \in DOMAIN Picked(p[x], W) : Picked(p[x], W)[k] = Picked(p[x], W)[l] => k = l
      BY <1>1, <2>1, <3>1, PickedElements
    <3> QED
      BY <1>1, <3>2, <3>3
  <2>3. DOMAIN q[x] = 1..Len(q[x])
    BY <1>2
  <2> QED
    BY ONLY <2>2, <2>3
<1>4. q \in [Symbols -> Seq(OrderIds)]
  BY <1>1, <1>2 DEF Thinned
<1>5. \A i \in W : i \in 1..Len(p[x])
  BY <1>1
<1>6. Separate(q)
  <2> SUFFICES ASSUME NEW s \in Symbols, NEW t \in Symbols,
                      NEW i \in 1..Len(q[s]), NEW j \in 1..Len(q[t]), q[s][i] = q[t][j]
               PROVE  s = t /\ i = j
    BY DEF Separate
  <2>1. CASE s # x /\ t # x
    BY <1>1, <2>1 DEF Separate
  <2>2. CASE s = x /\ t = x
    BY <1>3, <2>2
  <2>3. CASE s = x /\ t # x
    <3>1. PICK k \in W : q[s][i] = p[x][k]
      BY <1>3, <2>3
    <3> QED
      BY <1>1, <1>5, <2>3, <3>1 DEF Separate
  <2>4. CASE s # x /\ t = x
    <3>1. PICK k \in W : q[t][j] = p[x][k]
      BY <1>3, <2>4
    <3> QED
      BY <1>1, <1>5, <2>4, <3>1 DEF Separate
  <2> QED
    BY <2>1, <2>2, <2>3, <2>4
<1>7. ASSUME NEW s \in Symbols, NEW id \in OrderIds
      PROVE  Contains(q[s], id) <=> Contains(p[s], id) /\ (s = x => \E i \in W : p[x][i] = id)
  <2>1. CASE s # x
    BY <1>1, <2>1
  <2>2. CASE s = x
    <3>1. Contains(q[x], id) <=> \E i \in W : p[x][i] = id
      BY <1>3 DEF Contains
    <3>2. (\E i \in W : p[x][i] = id) => Contains(p[x], id)
      BY <1>5 DEF Contains
    <3> QED
      BY <2>2, <3>1, <3>2
  <2> QED
    BY <2>1, <2>2
<1> QED
  BY <1>4, <1>6, <1>7 DEF Kept

\* One more order rests, behind the others of x.
Joined(p, q, x, id) == q = [s \in Symbols |-> IF s = x THEN Append(p[x], id) ELSE p[s]]

\* It is there, and all others where they were.
AlsoKept(p, q, x, id) ==
    \A s \in Symbols, y \in OrderIds : Contains(q[s], y) <=> Contains(p[s], y) \/ (s = x /\ y = id)

\* An order that comes to rest is behind the others of its symbol.
LEMMA OneRests ==
    ASSUME NEW p \in [Symbols -> Seq(OrderIds)], Separate(p), NEW x \in Symbols,
           NEW id \in OrderIds, \A s \in Symbols : ~Contains(p[s], id),
           NEW q, Joined(p, q, x, id)
    PROVE  q \in [Symbols -> Seq(OrderIds)] /\ Separate(q) /\ AlsoKept(p, q, x, id)
<1> DEFINE n == Len(p[x])
<1>1. /\ p[x] \in Seq(OrderIds) /\ n \in Nat /\ q[x] = Append(p[x], id)
      /\ q[x] \in Seq(OrderIds) /\ Len(q[x]) = n + 1 /\ q[x][n + 1] = id
      /\ \A i \in 1..n : q[x][i] = p[x][i]
      /\ \A s \in Symbols : s # x => q[s] = p[s]
  BY LenProperties, AppendProperties DEF Joined
<1>2. /\ \A i \in 1..(n + 1) : i \in 1..n \/ i = n + 1
      /\ \A i \in 1..n : i \in 1..(n + 1)
      /\ n + 1 \in 1..(n + 1)
  BY <1>1
<1>3. q \in [Symbols -> Seq(OrderIds)]
  BY <1>1 DEF Joined
<1>4. \A s \in Symbols : \A i \in 1..Len(p[s]) : p[s][i] # id
  BY DEF Contains
<1> HIDE DEF n
<1>5. \A s \in Symbols : \A i \in 1..Len(q[s]) :
         \/ i \in 1..Len(p[s]) /\ q[s][i] = p[s][i]
         \/ s = x /\ i = n + 1 /\ q[s][i] = id
  BY <1>1, <1>2 DEF n
<1>6. Separate(q)
  <2> SUFFICES ASSUME NEW s \in Symbols, NEW t \in Symbols,
                      NEW i \in 1..Len(q[s]), NEW j \in 1..Len(q[t]), q[s][i] = q[t][j]
               PROVE  s = t /\ i = j
    BY DEF Separate
  <2>1. CASE i \in 1..Len(p[s]) /\ q[s][i] = p[s][i]
    <3>1. CASE j \in 1..Len(p[t]) /\ q[t][j] = p[t][j]
      <4>1. p[s][i] = p[t][j] /\ i \in 1..Len(p[s]) /\ j \in 1..Len(p[t])
        BY <2>1, <3>1
      <4>2. Separate(p)
        OBVIOUS
      <4> QED
        BY ONLY <4>1, <4>2 DEF Separate
    <3>2. CASE q[t][j] = id
      BY <1>4, <2>1, <3>2
    <3> QED
      BY <1>5, <3>1, <3>2
  <2>2. CASE s = x /\ i = n + 1 /\ q[s][i] = id
    BY <1>4, <1>5, <2>2
  <2> QED
    BY <1>5, <2>1, <2>2
<1>7. ASSUME NEW s \in Symbols, NEW y \in OrderIds
      PROVE  Contains(q[s], y) <=> Contains(p[s], y) \/ (s = x /\ y = id)
  <2>1. CASE s # x
    BY <1>1, <2>1
  <2>2. CASE s = x
    BY <1>1, <1>2, <2>2 DEF Contains, n
  <2> QED
    BY <2>1, <2>2
<1> QED
  BY <1>3, <1>6, <1>7 DEF AlsoKept
-----------------------------------------------------------------------------
(* Where every order is.                                                   *)

\* The book is there, and an inventory for every symbol.
Typed == TypeOK /\ DOMAIN inv = Symbols

\* Orders rest, wait to be placed or have a fill due once; what waits to be
\* placed is nowhere in the book.
Apart ==
    /\ Separate(pending)
    /\ \A i, j \in 1..Len(placing) : placing[i] = placing[j] => i = j
    /\ \A i, j \in 1..Len(due) : due[i].id = due[j].id => i = j
    /\ \A i \in 1..Len(placing) : placing[i] \in sent /\ placing[i] \notin RestingOrders
    /\ \A i \in 1..Len(due) : due[i].id \in sent
    /\ RestingOrders \subseteq sent

\* There is nothing to place but while placing, and nothing due but while recording.
InTurn ==
    /\ phase # "place" => placing = <<>>
    /\ phase # "record" => due = <<>>

\* What was not placed yet is whole.
Untouched ==
    \A id \in OrderIds : id \notin sent \/ Contains(placing, id) =>
        got[id] = 0 /\ left[id] = OrderOf[id].size

OrdersInv == Typed /\ Apart /\ InTurn /\ Untouched /\ SizeAccounted

\* What is owed to an order.
LEMMA DueOnce ==
    ASSUME Typed, Apart, NEW id \in OrderIds
    PROVE  /\ DueFor(id) \in Nat
           /\ \A i \in 1..Len(due) : due[i].id = id => DueFor(id) = due[i].size
           /\ (\A i \in 1..Len(due) : due[i].id # id) => DueFor(id) = 0
<1>1. due \in Seq(Fill) /\ DOMAIN due = 1..Len(due) /\ \A i \in 1..Len(due) : due[i].size \in Nat
  <2>1. due \in Seq(Fill)
    BY DEF Typed, TypeOK, Fill
  <2>2. DOMAIN due = 1..Len(due) /\ \A i \in 1..Len(due) : due[i] \in Fill
    BY <2>1, LenProperties, ElementOfSeq
  <2> QED
    BY <2>1, <2>2 DEF Fill
<1>2. DueFor(id) = Owed(due, id)
  BY DEF DueFor, Owed
<1>3. /\ \A i \in DOMAIN due : Owed(due, due[i].id) = due[i].size
      /\ (\A i \in DOMAIN due : due[i].id # id) => Owed(due, id) = 0
  <2>1. \A i, j \in DOMAIN due : due[i].id = due[j].id => i = j
    BY <1>1 DEF Apart
  <2> QED
    BY <1>1, <2>1, OwedOnce
<1> QED
  BY <1>1, <1>2, <1>3

\* So it is after a step.
LEMMA DueOnceNext ==
    ASSUME Typed', Apart', NEW id \in OrderIds
    PROVE  /\ DueFor(id)' \in Nat
           /\ \A i \in 1..Len(due') : due'[i].id = id => DueFor(id)' = due'[i].size
           /\ (\A i \in 1..Len(due') : due'[i].id # id) => DueFor(id)' = 0
<1>1. due' \in Seq(Fill) /\ DOMAIN due' = 1..Len(due') /\ \A i \in 1..Len(due') : due'[i].size \in Nat
  <2>1. due' \in Seq(Fill)
    BY DEF Typed, TypeOK, Fill
  <2>2. DOMAIN due' = 1..Len(due') /\ \A i \in 1..Len(due') : due'[i] \in Fill
    BY <2>1, LenProperties, ElementOfSeq
  <2> QED
    BY <2>1, <2>2 DEF Fill
<1>2. DueFor(id)' = Owed(due', id)
  BY DEF DueFor, Owed, MapThenSumSet, MapThenFoldSet
<1>3. /\ \A i \in DOMAIN due' : Owed(due', due'[i].id) = due'[i].size
      /\ (\A i \in DOMAIN due' : due'[i].id # id) => Owed(due', id) = 0
  <2>1. \A i, j \in DOMAIN due' : due'[i].id = due'[j].id => i = j
    BY <1>1 DEF Apart
  <2> QED
    BY <1>1, <2>1, OwedOnce
<1> QED
  BY <1>1, <1>2, <1>3

\* Nothing was sent yet (multi_asset.py 35-60).
LEMMA InitOrders == Init => OrdersInv
<1> SUFFICES ASSUME Init PROVE OrdersInv
  OBVIOUS
<1>1. MergeInv
  BY InitMerge
<1>2. /\ phase = "idle" /\ book = EmptyBook /\ due = <<>> /\ placing = <<>>
      /\ pending = [s \in Symbols |-> <<>>] /\ left = [id \in OrderIds |-> OrderOf[id].size]
      /\ inv = [s \in Symbols |-> Flat] /\ rejected = {} /\ sent = {}
      /\ got = [id \in OrderIds |-> 0]
  BY DEF Init
<1>3. \A id \in OrderIds : OrderOf[id].size \in Nat
  BY OrderAssumption DEF Order
<1>4. Typed
  <2>1. /\ \A e \in heap : e \in [ts : Int, nth : Nat, symbol : Symbols]
        /\ pulled \in [Symbols -> Nat] /\ pushes \in Nat /\ at \in Symbols
    BY <1>1 DEF MergeInv
  <2>2. \A s \in Symbols : inv[s].position \in Int
    BY <1>2 DEF Flat
  <2>3. /\ due \in Seq([id : OrderIds, size : Nat \ {0}])
        /\ placing \in Seq(OrderIds) /\ pending \in [Symbols -> Seq(OrderIds)]
        /\ left \in [OrderIds -> Nat] /\ got \in [OrderIds -> Nat]
    BY <1>2, <1>3
  <2> QED
    BY <1>2, <2>1, <2>2, <2>3 DEF Typed, TypeOK
<1>5. RestingOrders = {}
  BY <1>2 DEF RestingOrders, Contains
<1>6. Len(<<>>) = 0
  OBVIOUS
<1>7. Apart
  BY <1>2, <1>5, <1>6 DEF Apart, Separate
<1>8. InTurn
  BY <1>2 DEF InTurn
<1>9. Untouched
  BY <1>2 DEF Untouched
<1>10. SizeAccounted
  <2>1. \A id \in OrderIds : DueFor(id) = 0 /\ got[id] = 0
    BY <1>2, <1>4, <1>6, <1>7, DueOnce
  <2> QED
    BY <1>3, <1>5, <2>1 DEF SizeAccounted
<1> QED
  BY <1>4, <1>7, <1>8, <1>9, <1>10 DEF OrdersInv

\* The simulator fills resting orders of the ticking symbol; an order it fills
\* whole leaves the book (multi_asset.py 70-80, passive.py 24-78).
LEMMA TickOrders ==
    ASSUME MergeInv', OrdersInv, NEW e \in heap, NEW b \in Books, NEW trades \in TradeLists,
           Tick(e, b, trades)
    PROVE  /\ OrdersInv'
           /\ \A s \in Symbols, id \in OrderIds :
                 Contains(pending[s], id) /\ ~Contains(pending'[s], id) => left'[id] = 0
<1> DEFINE x == e.symbol
           resting == pending[x]
           filled == [id \in OrderIds |-> PassiveFill(id, b, trades)]
           H == {i \in DOMAIN resting : filled[resting[i]] > 0}
           R == {i \in DOMAIN resting : left[resting[i]] - filled[resting[i]] > 0}
           hit == Picked(resting, H)
<1>1. Typed /\ Apart /\ InTurn /\ Untouched /\ SizeAccounted
  BY DEF OrdersInv
<1>2. /\ x \in Symbols /\ resting \in Seq(OrderIds) /\ DOMAIN resting = 1..Len(resting)
      /\ \A i \in DOMAIN resting : resting[i] \in OrderIds
      /\ pending \in [Symbols -> Seq(OrderIds)]
  <2>1. x \in Symbols /\ pending \in [Symbols -> Seq(OrderIds)]
    BY <1>1 DEF Typed, TypeOK
  <2>2. resting \in Seq(OrderIds)
    BY <2>1
  <2> HIDE DEF x, resting
  <2> QED
    BY <2>1, <2>2, LenProperties, ElementOfSeq
<1>3. /\ phase = "idle" /\ at' = x /\ book' = b /\ phase' = "record"
      /\ due' = [i \in DOMAIN hit |-> [id |-> hit[i], size |-> filled[hit[i]]]]
      /\ left' = [id \in OrderIds |-> IF Contains(resting, id) THEN left[id] - filled[id] ELSE left[id]]
      /\ pending' = [pending EXCEPT ![x] = Picked(@, R)]
      /\ placing' = placing /\ inv' = inv /\ got' = got /\ rejected' = rejected /\ sent' = sent
  <2>1. {i \in DOMAIN resting : PassiveFill(resting[i], b, trades) > 0} = H
    BY <1>2
  <2>2. {i \in DOMAIN resting : Rests(resting[i], PassiveFill(resting[i], b, trades))} = R
    BY <1>2 DEF Rests
  <2>3. /\ phase = "idle" /\ at' = x /\ book' = b /\ phase' = "record"
        /\ placing' = placing /\ inv' = inv /\ got' = got /\ rejected' = rejected /\ sent' = sent
    BY DEF Tick, moneyVars
  <2>4. LET h == Picked(resting, {i \in DOMAIN resting : PassiveFill(resting[i], b, trades) > 0})
        IN  due' = [i \in DOMAIN h |-> [id |-> h[i], size |-> PassiveFill(h[i], b, trades)]]
    BY DEF Tick
  <2>5. \A i \in DOMAIN hit : hit[i] \in OrderIds
    <3>1. H \in SUBSET DOMAIN resting
      OBVIOUS
    <3> HIDE DEF H, resting
    <3>2. hit \in Seq(OrderIds)
      BY <1>2, <3>1, PickedFrom
    <3> HIDE DEF hit
    <3> QED
      BY <3>2
  <2>6. due' = [i \in DOMAIN hit |-> [id |-> hit[i], size |-> PassiveFill(hit[i], b, trades)]]
    BY <2>1, <2>4
  <2>7. \A i \in DOMAIN hit : filled[hit[i]] = PassiveFill(hit[i], b, trades)
    BY <2>5
  <2>8. left' = [id \in OrderIds |->
                   IF Contains(resting, id) THEN left[id] - PassiveFill(id, b, trades) ELSE left[id]]
    BY DEF Tick
  <2>9. pending' = [pending EXCEPT
          ![x] = Picked(@, {i \in DOMAIN @ : Rests(@[i], PassiveFill(@[i], b, trades))})]
    BY DEF Tick
  <2>10. pending' = [pending EXCEPT ![x] = Picked(@, R)]
    BY <1>2, <2>2, <2>9
  <2>11. left' = [id \in OrderIds |-> IF Contains(resting, id) THEN left[id] - filled[id] ELSE left[id]]
    BY <2>8
  <2> HIDE DEF hit, filled
  <2>12. due' = [i \in DOMAIN hit |-> [id |-> hit[i], size |-> filled[hit[i]]]]
    BY <2>6, <2>7
  <2> QED
    BY <2>3, <2>10, <2>11, <2>12
<1>4. \A id \in OrderIds : /\ left[id] \in Nat /\ filled[id] \in 0..left[id]
                           /\ got[id] \in Nat /\ OrderOf[id].size \in Nat
  <2> TAKE id \in OrderIds
  <2>1. left[id] \in Nat /\ got[id] \in Nat
    BY <1>1 DEF Typed, TypeOK
  <2>2. filled[id] \in 0..left[id]
    BY <2>1, FillWithinLeft
  <2> QED
    BY <2>1, <2>2, OrderAssumption DEF Order
<1> HIDE DEF filled
<1>5. /\ H \in SUBSET DOMAIN resting /\ R \in SUBSET DOMAIN resting
      /\ \A i \in DOMAIN resting : /\ i \in H <=> filled[resting[i]] > 0
                                   /\ i \in R <=> left[resting[i]] - filled[resting[i]] > 0
  OBVIOUS
<1> HIDE DEF H, R
<1>6. /\ hit \in Seq(OrderIds) /\ DOMAIN hit = 1..Len(hit)
      /\ \A k \in 1..Len(hit) : \E i \in H : hit[k] = resting[i]
      /\ \A i \in H : \E k \in 1..Len(hit) : hit[k] = resting[i]
      /\ \A k, l \in 1..Len(hit) : hit[k] = hit[l] => k = l
  <2>1. \A i, j \in DOMAIN resting : resting[i] = resting[j] => i = j
    <3>1. Separate(pending)
      BY <1>1 DEF Apart
    <3> QED
      BY <1>2, <3>1 DEF Separate
  <2> HIDE DEF resting
  <2>2. hit \in Seq(OrderIds)
    BY <1>2, <1>5, PickedFrom
  <2>3. /\ \A k \in DOMAIN hit : \E i \in H : hit[k] = resting[i]
        /\ \A i \in H : \E k \in DOMAIN hit : hit[k] = resting[i]
    BY <1>2, <1>5, PickedElements
  <2>4. \A k, l \in DOMAIN hit : hit[k] = hit[l] => k = l
    BY <1>2, <1>5, <2>1, PickedElements
  <2> HIDE DEF hit
  <2>5. DOMAIN hit = 1..Len(hit)
    BY <2>2, LenProperties
  <2> QED
    BY <2>2, <2>3, <2>4, <2>5
<1> HIDE DEF hit
<1>7. \A k \in 1..Len(hit) : /\ hit[k] \in OrderIds /\ filled[hit[k]] \in Nat \ {0}
                             /\ Contains(resting, hit[k])
  <2> TAKE k \in 1..Len(hit)
  <2>1. PICK i \in H : hit[k] = resting[i]
    BY <1>6
  <2>2. i \in DOMAIN resting /\ resting[i] \in OrderIds
    BY <1>2, <1>5, <2>1
  <2>3. filled[resting[i]] > 0 /\ filled[resting[i]] \in 0..left[resting[i]]
    BY <1>4, <1>5, <2>1, <2>2
  <2>4. Contains(resting, resting[i])
    BY <1>2, <2>2 DEF Contains
  <2> QED
    BY <1>4, <2>1, <2>2, <2>3, <2>4
<1>8. /\ due' \in Seq(Fill) /\ Len(due') = Len(hit)
      /\ \A k \in 1..Len(hit) : due'[k].id = hit[k] /\ due'[k].size = filled[hit[k]]
  <2>1. due' \in [1..Len(hit) -> Fill]
    BY <1>3, <1>6, <1>7 DEF Fill
  <2>2. Len(hit) \in Nat
    BY <1>6, LenProperties
  <2> QED
    BY <1>3, <1>6, <2>1, <2>2, Listing
<1>9. /\ pending' \in [Symbols -> Seq(OrderIds)] /\ Separate(pending')
      /\ \A s \in Symbols, id \in OrderIds :
            Contains(pending'[s], id) <=>
               Contains(pending[s], id) /\ (s = x => \E i \in R : resting[i] = id)
  <2>1. Separate(pending)
    BY <1>1 DEF Apart
  <2> HIDE DEF x
  <2>2. /\ x \in Symbols /\ pending \in [Symbols -> Seq(OrderIds)]
        /\ R \in SUBSET DOMAIN pending[x]
        /\ pending' = [pending EXCEPT ![x] = Picked(@, R)]
    BY <1>2, <1>3, <1>5
  <2> DEFINE q == pending'
  <2>3. Thinned(pending, q, x, R)
    BY <2>2 DEF Thinned
  <2> HIDE DEF q
  <2>4. q \in [Symbols -> Seq(OrderIds)] /\ Separate(q) /\ Kept(pending, q, x, R)
    <3>1. x \in Symbols /\ pending \in [Symbols -> Seq(OrderIds)] /\ R \in SUBSET DOMAIN pending[x]
      BY <2>2
    <3> QED
      BY ONLY <2>1, <2>3, <3>1, SomeLeave
  <2> QED
    BY <2>4 DEF q, Kept
<1>10. RestingOrders' \subseteq RestingOrders /\ RestingOrders \subseteq sent
  BY <1>1, <1>9 DEF RestingOrders, Apart
<1>11. \A id \in OrderIds : left'[id] = IF Contains(resting, id) THEN left[id] - filled[id] ELSE left[id]
  BY <1>3
<1>12. left' \in [OrderIds -> Nat]
  <2>1. \A id \in OrderIds : left'[id] \in Nat
    BY <1>4, <1>11
  <2> QED
    BY <1>3, <2>1
<1>13. Typed'
  <2>1. /\ \A d \in heap' : d \in [ts : Int, nth : Nat, symbol : Symbols]
        /\ pulled' \in [Symbols -> Nat] /\ pushes' \in Nat
    BY DEF MergeInv
  <2>2. due' \in Seq([id : OrderIds, size : Nat \ {0}])
    BY <1>8 DEF Fill
  <2>3. /\ phase' \in {"idle", "record", "place"} /\ at' \in Symbols
        /\ book' \in Books \cup {EmptyBook}
    BY <1>2, <1>3
  <2>4. /\ placing' \in Seq(OrderIds) /\ got' \in [OrderIds -> Nat]
        /\ \A s \in Symbols : inv'[s].position \in Int
        /\ rejected' \subseteq sent' /\ sent' \subseteq OrderIds /\ DOMAIN inv' = Symbols
    BY <1>1, <1>3 DEF Typed, TypeOK
  <2> QED
    BY <1>9, <1>12, <2>1, <2>2, <2>3, <2>4 DEF Typed, TypeOK
<1>14. placing = <<>> /\ due = <<>> /\ Len(<<>>) = 0
  BY <1>1, <1>3 DEF InTurn
<1>15. Apart'
  <2>1. \A i, j \in 1..Len(due') : due'[i].id = due'[j].id => i = j
    BY <1>6, <1>8
  <2>2. \A i \in 1..Len(due') : due'[i].id \in sent'
    <3> SUFFICES ASSUME NEW i \in 1..Len(hit) PROVE hit[i] \in sent
      BY <1>3, <1>8
    <3>1. Contains(pending[x], hit[i]) /\ hit[i] \in OrderIds
      BY <1>7
    <3> QED
      BY <1>2, <1>10, <3>1 DEF RestingOrders
  <2>3. RestingOrders' \subseteq sent'
    BY <1>3, <1>10
  <2>4. Len(placing') = 0
    BY <1>3, <1>14
  <2>5. /\ \A i, j \in 1..Len(placing') : placing'[i] = placing'[j] => i = j
        /\ \A i \in 1..Len(placing') : placing'[i] \in sent' /\ placing'[i] \notin RestingOrders'
    BY <2>4
  <2>6. Separate(pending')
    BY <1>9
  <2> QED
    BY ONLY <2>1, <2>2, <2>3, <2>5, <2>6 DEF Apart
<1>16. InTurn'
  BY <1>3, <1>14 DEF InTurn
<1>17. Untouched'
  <2> SUFFICES ASSUME NEW id \in OrderIds, id \notin sent
               PROVE  got[id] = 0 /\ left'[id] = OrderOf[id].size
    BY <1>3, <1>14 DEF Untouched, Contains
  <2>1. ~Contains(resting, id)
    BY <1>2, <1>10 DEF RestingOrders
  <2> QED
    BY <1>1, <1>11, <2>1 DEF Untouched
<1>18. \A id \in OrderIds : DueFor(id)' = IF Contains(resting, id) THEN filled[id] ELSE 0
  <2> TAKE id \in OrderIds
  <2>1. /\ \A i \in 1..Len(due') : due'[i].id = id => DueFor(id)' = due'[i].size
        /\ (\A i \in 1..Len(due') : due'[i].id # id) => DueFor(id)' = 0
    BY <1>13, <1>15, DueOnceNext
  <2>2. CASE \E k \in 1..Len(hit) : hit[k] = id
    <3>1. PICK k \in 1..Len(hit) : hit[k] = id
      BY <2>2
    <3> QED
      BY <1>7, <1>8, <2>1, <3>1
  <2>3. CASE ~\E k \in 1..Len(hit) : hit[k] = id
    <3>1. DueFor(id)' = 0
      BY <1>8, <2>1, <2>3
    <3>2. ASSUME Contains(resting, id) PROVE filled[id] = 0
      <4>1. PICK i \in 1..Len(resting) : resting[i] = id
        BY <3>2 DEF Contains
      <4>2. i \notin H /\ i \in DOMAIN resting
        BY <1>2, <1>6, <2>3, <4>1
      <4>3. ~(filled[id] > 0)
        BY <1>5, <4>1, <4>2
      <4> QED
        BY <1>4, <4>3
    <3> QED
      BY <3>1, <3>2
  <2> QED
    BY <2>2, <2>3
<1>19. \A id \in OrderIds : DueFor(id) = 0
  BY <1>1, <1>14, DueOnce
<1>20. SizeAccounted'
  <2>1. ASSUME NEW id \in OrderIds PROVE got[id] + DueFor(id)' <= OrderOf[id].size
    <3>1. CASE Contains(resting, id)
      <4>1. id \in RestingOrders
        BY <1>2, <3>1 DEF RestingOrders
      <4>2. left[id] + got[id] + 0 = OrderOf[id].size
        BY <1>1, <1>19, <4>1 DEF SizeAccounted
      <4> QED
        BY <1>4, <1>18, <3>1, <4>2
    <3>2. CASE ~Contains(resting, id)
      BY <1>1, <1>18, <1>19, <3>2 DEF SizeAccounted
    <3> QED
      BY <3>1, <3>2
  <2>2. ASSUME NEW id \in RestingOrders'
        PROVE  left'[id] > 0 /\ left'[id] + got[id] + DueFor(id)' = OrderOf[id].size
    <3>1. id \in RestingOrders /\ id \in OrderIds
      BY <1>10 DEF RestingOrders
    <3>2. left[id] > 0 /\ left[id] + got[id] + 0 = OrderOf[id].size
      BY <1>1, <1>19, <3>1 DEF SizeAccounted
    <3>3. CASE Contains(resting, id)
      <4>1. left[id] - filled[id] > 0
        <5>1. PICK s \in Symbols : Contains(pending'[s], id)
          BY <2>2 DEF RestingOrders
        <5>2. Contains(pending[s], id)
          BY <1>9, <3>1, <5>1
        <5>3. s = x
          <6>1. /\ \E i \in 1..Len(pending[s]) : pending[s][i] = id
                /\ \E i \in 1..Len(pending[x]) : pending[x][i] = id
            BY <3>3, <5>2 DEF Contains
          <6>2. Separate(pending)
            BY <1>1 DEF Apart
          <6> QED
            BY <1>2, <6>1, <6>2 DEF Separate
        <5>4. PICK i \in R : resting[i] = id
          BY <1>9, <3>1, <5>1, <5>3
        <5> QED
          BY <1>5, <5>4
      <4> QED
        BY <1>4, <1>11, <1>18, <3>1, <3>2, <3>3, <4>1
    <3>4. CASE ~Contains(resting, id)
      BY <1>4, <1>11, <1>18, <3>1, <3>2, <3>4
    <3> QED
      BY <3>3, <3>4
  <2> QED
    BY <1>3, <2>1, <2>2 DEF SizeAccounted
<1>21. ASSUME NEW s \in Symbols, NEW id \in OrderIds,
              Contains(pending[s], id), ~Contains(pending'[s], id)
       PROVE  left'[id] = 0
  <2>1. s = x /\ ~\E i \in R : resting[i] = id
    BY <1>9, <1>21
  <2>2. PICK i \in 1..Len(resting) : resting[i] = id
    BY <1>21, <2>1 DEF Contains
  <2>3. ~(left[id] - filled[id] > 0)
    BY <1>2, <1>5, <2>1, <2>2
  <2>4. left'[id] = left[id] - filled[id]
    BY <1>11, <1>21, <2>1
  <2> QED
    BY <1>4, <2>3, <2>4
<1> QED
  BY <1>13, <1>15, <1>16, <1>17, <1>20, <1>21 DEF OrdersInv
\* A fill due is recorded (multi_asset.py 81-83).
LEMMA RecordOrders ==
    ASSUME MergeInv', OrdersInv, RecordPassive
    PROVE  OrdersInv'
<1> DEFINE fill == Head(due)
<1>1. Typed /\ Apart /\ InTurn /\ Untouched /\ SizeAccounted
  BY DEF OrdersInv
<1>2. /\ phase = "record" /\ due # <<>> /\ due' = Tail(due)
      /\ phase' = phase /\ at' = at /\ book' = book /\ placing' = placing /\ pending' = pending
      /\ left' = left /\ rejected' = rejected /\ sent' = sent
      /\ RecordFill(fill.id, fill.size, OrderOf[fill.id].price * fill.size, MakerRate)
  BY DEF RecordPassive, tickVars
<1>3. /\ at \in Symbols /\ due \in Seq(Fill) /\ got \in [OrderIds -> Nat]
  BY <1>1 DEF Typed, TypeOK, Fill
<1>4. /\ Len(due) \in Nat /\ Len(due) >= 1 /\ fill = due[1]
      /\ \A i \in 1..Len(due) : due[i] \in Fill
      /\ due' \in Seq(Fill) /\ Len(due') = Len(due) - 1
      /\ \A i \in 1..Len(due') : due'[i] = due[i + 1]
  BY <1>2, <1>3, HeadTailProperties, LenProperties, ElementOfSeq, EmptySeq
<1>5. fill \in Fill /\ fill.id \in OrderIds /\ fill.size \in Nat
  BY <1>4 DEF Fill
<1> HIDE DEF fill
<1>6. /\ got' = [got EXCEPT ![fill.id] = @ + fill.size]
      /\ inv' = [inv EXCEPT ![at] = ApplyFill(@, OrderOf[fill.id].side, fill.size,
                    Rat(OrderOf[fill.id].price * fill.size, fill.size), MakerRate)]
  BY <1>2 DEF RecordFill
<1>7. /\ got' \in [OrderIds -> Nat] /\ got'[fill.id] = got[fill.id] + fill.size
      /\ \A id \in OrderIds : id # fill.id => got'[id] = got[id]
  BY <1>3, <1>5, <1>6
<1>8. DOMAIN inv' = Symbols /\ \A s \in Symbols : inv'[s].position \in Int
  <2>1. DOMAIN inv = Symbols /\ \A s \in Symbols : inv[s].position \in Int
    BY <1>1 DEF Typed, TypeOK
  <2>2. OrderOf[fill.id].side * fill.size \in Int
    <3>1. OrderOf[fill.id].side \in {1, -1}
      BY <1>5, OrderAssumption DEF Order, BUY, SELL
    <3> QED
      BY <1>5, <3>1
  <2>3. inv'[at].position = inv[at].position + OrderOf[fill.id].side * fill.size
    BY <1>3, <1>6, <2>1 DEF ApplyFill
  <2>4. DOMAIN inv' = Symbols /\ \A s \in Symbols : s # at => inv'[s] = inv[s]
    BY <1>6, <2>1
  <2> QED
    BY <1>3, <2>1, <2>2, <2>3, <2>4
<1>9. Typed'
  <2>1. /\ \A d \in heap' : d \in [ts : Int, nth : Nat, symbol : Symbols]
        /\ pulled' \in [Symbols -> Nat] /\ pushes' \in Nat
    BY DEF MergeInv
  <2>2. due' \in Seq([id : OrderIds, size : Nat \ {0}])
    BY <1>4 DEF Fill
  <2> QED
    BY <1>1, <1>2, <1>7, <1>8, <2>1, <2>2 DEF Typed, TypeOK
<1>10. RestingOrders' = RestingOrders
  BY <1>2 DEF RestingOrders
<1>11. placing = <<>>
  BY <1>1, <1>2 DEF InTurn
<1>12. \A i \in 1..Len(due') : i + 1 \in 1..Len(due) /\ i + 1 # 1 /\ due'[i] = due[i + 1] /\ i \in Int
  BY <1>4
<1>13. Apart'
  <2>1. \A i, j \in 1..Len(due') : due'[i].id = due'[j].id => i = j
    <3> TAKE i, j \in 1..Len(due')
    <3>1. due[i + 1].id = due[j + 1].id => i + 1 = j + 1
      BY <1>1, <1>12 DEF Apart
    <3> QED
      BY <1>12, <3>1
  <2>2. \A i \in 1..Len(due') : due'[i].id \in sent
    BY <1>1, <1>12 DEF Apart
  <2>3. Separate(pending')
    BY <1>1, <1>2 DEF Apart
  <2> QED
    BY <1>1, <1>2, <1>10, <2>1, <2>2, <2>3 DEF Apart
<1>14. InTurn'
  BY <1>1, <1>2 DEF InTurn
<1>15. fill.id \in sent /\ 1 \in 1..Len(due)
  BY <1>1, <1>4 DEF Apart
<1>16. Untouched'
  <2> SUFFICES ASSUME NEW id \in OrderIds, id \notin sent
               PROVE  got'[id] = 0 /\ left[id] = OrderOf[id].size
    <3>1. \A id : ~Contains(<<>>, id)
      BY DEF Contains
    <3> QED
      BY <1>2, <1>11, <3>1 DEF Untouched
  <2>1. id # fill.id
    BY <1>15
  <2> QED
    BY <1>1, <1>7, <2>1 DEF Untouched
<1>17. ASSUME NEW id \in OrderIds
       PROVE  /\ DueFor(id) \in Nat /\ DueFor(id)' \in Nat
              /\ got'[id] + DueFor(id)' = got[id] + DueFor(id)
  <2>1. /\ DueFor(id) \in Nat
        /\ \A i \in 1..Len(due) : due[i].id = id => DueFor(id) = due[i].size
        /\ (\A i \in 1..Len(due) : due[i].id # id) => DueFor(id) = 0
    BY <1>1, DueOnce
  <2>2. /\ DueFor(id)' \in Nat
        /\ \A i \in 1..Len(due') : due'[i].id = id => DueFor(id)' = due'[i].size
        /\ (\A i \in 1..Len(due') : due'[i].id # id) => DueFor(id)' = 0
    BY <1>9, <1>13, DueOnceNext
  <2>3. got[id] \in Nat
    BY <1>3
  <2>4. CASE id = fill.id
    <3>1. DueFor(id) = fill.size
      BY <1>4, <1>15, <2>1, <2>4
    <3>2. \A i \in 1..Len(due') : due'[i].id # id
      BY <1>1, <1>4, <1>12, <1>15, <2>4 DEF Apart
    <3> QED
      BY <1>5, <1>7, <2>1, <2>2, <2>3, <2>4, <3>1, <3>2
  <2>5. CASE id # fill.id
    <3>1. DueFor(id)' = DueFor(id)
      <4>1. CASE \E i \in 1..Len(due') : due'[i].id = id
        BY <1>12, <2>1, <2>2, <4>1
      <4>2. CASE \A i \in 1..Len(due') : due'[i].id # id
        <5>1. ASSUME NEW i \in 1..Len(due) PROVE due[i].id # id
          <6>1. CASE i = 1
            BY <1>4, <2>5, <6>1
          <6>2. CASE i # 1
            <7>1. i - 1 \in 1..Len(due') /\ (i - 1) + 1 = i
              BY <1>4, <6>2
            <7>2. due'[i - 1] = due[i]
              BY <1>12, <7>1
            <7> QED
              BY <4>2, <7>1, <7>2
          <6> QED
            BY <6>1, <6>2
        <5> QED
          BY <2>1, <2>2, <4>2, <5>1
      <4> QED
        BY <4>1, <4>2
    <3> QED
      BY <1>7, <2>1, <2>3, <2>5, <3>1
  <2> QED
    BY <2>1, <2>2, <2>4, <2>5
<1>18. SizeAccounted'
  <2>1. \A id \in OrderIds : got'[id] + DueFor(id)' <= OrderOf[id].size
    BY <1>1, <1>17 DEF SizeAccounted
  <2>2. ASSUME NEW id \in RestingOrders
        PROVE  left[id] > 0 /\ left[id] + got'[id] + DueFor(id)' = OrderOf[id].size
    <3>1. id \in OrderIds /\ left[id] > 0 /\ left[id] + got[id] + DueFor(id) = OrderOf[id].size
      BY <1>1 DEF SizeAccounted, RestingOrders
    <3>2. left[id] \in Nat /\ got[id] \in Nat /\ got'[id] \in Nat
      BY <1>1, <1>7, <3>1 DEF Typed, TypeOK
    <3> QED
      BY <1>17, <3>1, <3>2
  <2> QED
    BY <1>2, <1>10, <2>1, <2>2 DEF SizeAccounted
<1> QED
  BY <1>9, <1>13, <1>14, <1>16, <1>18 DEF OrdersInv

\* The strategy cancels and sends orders (multi_asset.py 84-110).
LEMMA ActOrders ==
    ASSUME MergeInv', OrdersInv, NEW chosen \in SUBSET (OrderIds \ sent), NEW gone,
           NEW new \in SetToSeqs(chosen), Act(new, gone)
    PROVE  OrdersInv'
<1> DEFINE W == {i \in DOMAIN pending[at] : pending[at][i] \notin gone}
           V == {i \in DOMAIN new : WithinLimit(new[i])}
           n == Cardinality(chosen)
<1>1. Typed /\ Apart /\ InTurn /\ Untouched /\ SizeAccounted
  BY DEF OrdersInv
<1>2. /\ phase = "record" /\ due = <<>> /\ phase' = "place"
      /\ pending' = [pending EXCEPT ![at] = Picked(@, W)] /\ placing' = Picked(new, V)
      /\ sent' = sent \cup {new[i] : i \in DOMAIN new}
      /\ at' = at /\ book' = book /\ due' = due /\ left' = left /\ got' = got /\ inv' = inv
      /\ rejected' = rejected
  BY <1>1 DEF Act, moneyVars, Range, Typed, TypeOK
<1>3. /\ new \in Seq(OrderIds) /\ DOMAIN new = 1..Len(new)
      /\ \A i \in DOMAIN new : new[i] \in OrderIds \ sent
      /\ \A i, j \in DOMAIN new : new[i] = new[j] => i = j
  <2>1. n \in Nat
    BY StreamAssumption, FS_Subset, FS_CardinalityType
  <2>2. new \in [1..n -> chosen] /\ \A i, j \in 1..n : i # j => new[i] # new[j]
    BY DEF SetToSeqs
  <2> HIDE DEF n
  <2>3. new \in [1..n -> OrderIds] /\ \A i \in 1..n : new[i] \in OrderIds \ sent
    BY <2>2
  <2>4. new \in Seq(OrderIds) /\ Len(new) = n /\ DOMAIN new = 1..n
    BY <2>1, <2>3, Listing
  <2> QED
    BY <2>2, <2>3, <2>4
<1>4. /\ at \in Symbols /\ pending \in [Symbols -> Seq(OrderIds)]
      /\ W \in SUBSET DOMAIN pending[at] /\ V \in SUBSET DOMAIN new
  BY <1>1 DEF Typed, TypeOK
<1> HIDE DEF W, V
<1>5. /\ pending' \in [Symbols -> Seq(OrderIds)] /\ Separate(pending')
      /\ Kept(pending, pending', at, W)
  <2> DEFINE q == pending'
  <2>1. Separate(pending)
    BY <1>1 DEF Apart
  <2>2. Thinned(pending, q, at, W)
    BY <1>2, <1>4 DEF Thinned
  <2> HIDE DEF q
  <2>3. q \in [Symbols -> Seq(OrderIds)] /\ Separate(q) /\ Kept(pending, q, at, W)
    BY ONLY <1>4, <2>1, <2>2, SomeLeave
  <2> QED
    BY <2>3 DEF q
<1>6. RestingOrders' \subseteq RestingOrders
  BY <1>5 DEF RestingOrders, Kept
<1>7. /\ placing' \in Seq(OrderIds) /\ DOMAIN placing' = 1..Len(placing')
      /\ \A k \in 1..Len(placing') : \E i \in DOMAIN new : placing'[k] = new[i]
      /\ \A k, l \in 1..Len(placing') : placing'[k] = placing'[l] => k = l
  <2> DEFINE P == Picked(new, V)
  <2>1. P \in Seq(OrderIds)
    BY <1>3, <1>4, PickedFrom
  <2>2. \A k \in DOMAIN P : \E i \in V : P[k] = new[i]
    BY <1>3, <1>4, PickedElements
  <2>3. \A k, l \in DOMAIN P : P[k] = P[l] => k = l
    BY <1>3, <1>4, PickedElements
  <2> HIDE DEF P
  <2>4. DOMAIN P = 1..Len(P)
    BY <2>1, LenProperties
  <2>5. placing' = P
    BY <1>2 DEF P
  <2> QED
    BY <1>4, <2>1, <2>2, <2>3, <2>4, <2>5
<1>8. Typed'
  <2>1. /\ \A d \in heap' : d \in [ts : Int, nth : Nat, symbol : Symbols]
        /\ pulled' \in [Symbols -> Nat] /\ pushes' \in Nat
    BY DEF MergeInv
  <2>2. sent' \subseteq OrderIds /\ rejected' \subseteq sent'
    BY <1>1, <1>2, <1>3 DEF Typed, TypeOK
  <2> QED
    BY <1>1, <1>2, <1>5, <1>7, <2>1, <2>2 DEF Typed, TypeOK
<1>9. \A i \in 1..Len(placing') :
         placing'[i] \in sent' /\ placing'[i] \notin RestingOrders' /\ placing'[i] \notin sent
  <2> TAKE k \in 1..Len(placing')
  <2>1. PICK i \in DOMAIN new : placing'[k] = new[i]
    BY <1>7
  <2>2. new[i] \in sent' /\ new[i] \notin sent
    BY <1>2, <1>3
  <2>3. RestingOrders \subseteq sent
    BY <1>1 DEF Apart
  <2> QED
    BY <1>6, <2>1, <2>2, <2>3
<1>10. Apart'
  <2>1. RestingOrders' \subseteq sent'
    BY <1>1, <1>2, <1>6 DEF Apart
  <2>2. Len(due') = 0
    BY <1>2
  <2>3. /\ \A i, j \in 1..Len(due') : due'[i].id = due'[j].id => i = j
        /\ \A i \in 1..Len(due') : due'[i].id \in sent'
    BY <2>2
  <2> QED
    BY ONLY <1>5, <1>7, <1>9, <2>1, <2>3 DEF Apart
<1>11. InTurn'
  BY <1>2 DEF InTurn
<1>12. Untouched'
  <2> SUFFICES ASSUME NEW id \in OrderIds, id \notin sent' \/ Contains(placing', id)
               PROVE  got[id] = 0 /\ left[id] = OrderOf[id].size
    BY <1>2 DEF Untouched
  <2>1. id \notin sent
    BY <1>2, <1>9 DEF Contains
  <2> QED
    BY <1>1, <2>1 DEF Untouched
<1>13. \A id \in OrderIds : DueFor(id)' = DueFor(id)
  BY <1>2 DEF DueFor, MapThenSumSet, MapThenFoldSet
<1>14. SizeAccounted'
  <2>1. \A id \in RestingOrders' : id \in OrderIds /\ id \in RestingOrders
    BY <1>6 DEF RestingOrders
  <2> QED
    BY <1>1, <1>2, <1>13, <2>1 DEF SizeAccounted
<1> QED
  BY <1>8, <1>10, <1>11, <1>12, <1>14 DEF OrdersInv
\* A new order comes to rest, is refused or takes what it can (multi_asset.py
\* 98-123, taker.py 62-90).
LEMMA PlaceOrders ==
    ASSUME MergeInv', OrdersInv, Place
    PROVE  /\ OrdersInv'
           /\ \A s \in Symbols, id \in OrderIds : Contains(pending[s], id) => Contains(pending'[s], id)
<1> DEFINE id == Head(placing)
<1>1. Typed /\ Apart /\ InTurn /\ Untouched /\ SizeAccounted
  BY DEF OrdersInv
<1>2. /\ phase = "place" /\ placing # <<>> /\ placing' = Tail(placing)
      /\ Rest(id) \/ Reject(id) \/ Take(id)
      /\ phase' = phase /\ at' = at /\ book' = book /\ due' = due /\ left' = left /\ sent' = sent
  BY DEF Place, tickVars
<1>3. /\ at \in Symbols /\ placing \in Seq(OrderIds) /\ got \in [OrderIds -> Nat]
      /\ pending \in [Symbols -> Seq(OrderIds)] /\ left \in [OrderIds -> Nat]
      /\ DOMAIN inv = Symbols /\ \A s \in Symbols : inv[s].position \in Int
      /\ due = <<>> /\ rejected \subseteq sent /\ book \in Books \cup {EmptyBook}
  BY <1>1, <1>2 DEF Typed, TypeOK, InTurn
<1>4. /\ Len(placing) \in Nat /\ Len(placing) >= 1 /\ id = placing[1]
      /\ \A i \in 1..Len(placing) : placing[i] \in OrderIds
      /\ placing' \in Seq(OrderIds) /\ Len(placing') = Len(placing) - 1
      /\ \A i \in 1..Len(placing') : placing'[i] = placing[i + 1]
  BY <1>2, <1>3, HeadTailProperties, LenProperties, ElementOfSeq, EmptySeq
<1> HIDE DEF id
<1>5. /\ 1 \in 1..Len(placing) /\ id \in OrderIds /\ id \in sent /\ id \notin RestingOrders
      /\ Contains(placing, id)
  <2>1. 1 \in 1..Len(placing)
    BY <1>4
  <2> QED
    BY <1>1, <1>4, <2>1 DEF Apart, Contains
<1>6. /\ \A i \in 1..Len(placing') : /\ i + 1 \in 1..Len(placing) /\ i + 1 # 1 /\ i \in Int
                                     /\ placing'[i] = placing[i + 1] /\ placing'[i] # id
      /\ \A y : Contains(placing', y) => Contains(placing, y) /\ y # id
  <2>1. \A i \in 1..Len(placing') : i + 1 \in 1..Len(placing) /\ i + 1 # 1 /\ i \in Int
    BY <1>4
  <2>2. \A i \in 1..Len(placing') : placing'[i] = placing[i + 1] /\ placing'[i] # id
    BY <1>1, <1>4, <1>5, <2>1 DEF Apart
  <2> QED
    BY <2>1, <2>2 DEF Contains
<1>7. got[id] = 0 /\ left[id] = OrderOf[id].size /\ OrderOf[id].size \in Nat \ {0}
  BY <1>1, <1>5, OrderAssumption DEF Untouched, Order
<1>8. \A y \in OrderIds : DueFor(y) = 0 /\ DueFor(y)' = DueFor(y)
  <2>1. Len(due) = 0
    BY <1>3
  <2>2. \A y \in OrderIds : DueFor(y) = 0
    BY <1>1, <2>1, DueOnce
  <2>3. \A y \in OrderIds : DueFor(y)' = DueFor(y)
    BY <1>2 DEF DueFor, MapThenSumSet, MapThenFoldSet
  <2> QED
    BY <2>2, <2>3
<1>9. \A i, j \in 1..Len(placing') : placing'[i] = placing'[j] => i = j
  <2> TAKE i, j \in 1..Len(placing')
  <2>1. placing[i + 1] = placing[j + 1] => i + 1 = j + 1
    BY <1>1, <1>6 DEF Apart
  <2> QED
    BY <1>6, <2>1
<1>10. /\ \A d \in heap' : d \in [ts : Int, nth : Nat, symbol : Symbols]
       /\ pulled' \in [Symbols -> Nat] /\ pushes' \in Nat
  BY DEF MergeInv
<1>11. InTurn'
  BY <1>1, <1>2, <1>3 DEF InTurn
<1>12. ASSUME /\ pending' \in [Symbols -> Seq(OrderIds)] /\ Separate(pending')
              /\ RestingOrders' \subseteq RestingOrders \cup {id}
              /\ got' \in [OrderIds -> Nat] /\ got'[id] <= OrderOf[id].size
              /\ \A y \in OrderIds : y # id => got'[y] = got[y]
              /\ id \in RestingOrders' => got'[id] = 0
              /\ DOMAIN inv' = Symbols /\ \A s \in Symbols : inv'[s].position \in Int
              /\ rejected' \subseteq sent
       PROVE  OrdersInv'
  <2>1. Typed'
    BY <1>1, <1>2, <1>4, <1>10, <1>12 DEF Typed, TypeOK
  <2>2. Apart'
    <3>1. RestingOrders' \subseteq sent'
      BY <1>1, <1>2, <1>5, <1>12 DEF Apart
    <3>2. ASSUME NEW i \in 1..Len(placing')
          PROVE  placing'[i] \in sent' /\ placing'[i] \notin RestingOrders'
      <4>1. placing[i + 1] \in sent /\ placing[i + 1] \notin RestingOrders
        BY <1>1, <1>6 DEF Apart
      <4> QED
        BY <1>2, <1>6, <1>12, <4>1
    <3>3. /\ \A i, j \in 1..Len(due') : due'[i].id = due'[j].id => i = j
          /\ \A i \in 1..Len(due') : due'[i].id \in sent'
      BY <1>1, <1>2 DEF Apart
    <3>4. Separate(pending')
      BY <1>12
    <3> QED
      BY ONLY <1>9, <3>1, <3>2, <3>3, <3>4 DEF Apart
  <2>3. Untouched'
    <3> SUFFICES ASSUME NEW y \in OrderIds, y \notin sent \/ Contains(placing', y)
                 PROVE  got'[y] = 0 /\ left[y] = OrderOf[y].size
      BY <1>2 DEF Untouched
    <3>1. y # id /\ (y \notin sent \/ Contains(placing, y))
      BY <1>5, <1>6
    <3> QED
      BY <1>1, <1>12, <3>1 DEF Untouched
  <2>4. SizeAccounted'
    <3>1. ASSUME NEW y \in OrderIds PROVE got'[y] + DueFor(y)' <= OrderOf[y].size
      <4>1. CASE y = id
        BY <1>7, <1>8, <1>12, <4>1
      <4>2. CASE y # id
        BY <1>1, <1>8, <1>12, <4>2 DEF SizeAccounted
      <4> QED
        BY <4>1, <4>2
    <3>2. ASSUME NEW y \in RestingOrders'
          PROVE  left[y] > 0 /\ left[y] + got'[y] + DueFor(y)' = OrderOf[y].size
      <4>1. y \in OrderIds
        BY DEF RestingOrders
      <4>2. CASE y = id
        <5>1. got'[id] = 0
          BY <1>12, <4>2
        <5>2. DueFor(y)' = 0
          BY <1>8, <4>1
        <5> QED
          BY <1>7, <4>2, <5>1, <5>2
      <4>3. CASE y # id
        <5>1. y \in RestingOrders
          BY <1>12, <4>3
        <5> QED
          BY <1>1, <1>8, <1>12, <4>1, <4>3, <5>1 DEF SizeAccounted
      <4> QED
        BY <4>2, <4>3
    <3> QED
      BY <1>2, <3>1, <3>2 DEF SizeAccounted
  <2> QED
    BY <1>11, <2>1, <2>2, <2>3, <2>4 DEF OrdersInv
<1>13. Separate(pending) /\ RestingOrders \subseteq OrderIds
  BY <1>1 DEF Apart, RestingOrders
<1>14. CASE Rest(id)
  <2>1. pending' = [pending EXCEPT ![at] = Append(@, id)] /\ inv' = inv /\ got' = got /\ rejected' = rejected
    BY <1>14 DEF Rest, moneyVars
  <2> DEFINE q == pending'
  <2>2. Joined(pending, q, at, id)
    BY <1>3, <2>1 DEF Joined
  <2>3. \A s \in Symbols : ~Contains(pending[s], id)
    BY <1>5 DEF RestingOrders
  <2> HIDE DEF q
  <2>4. q \in [Symbols -> Seq(OrderIds)] /\ Separate(q) /\ AlsoKept(pending, q, at, id)
    <3>1. pending \in [Symbols -> Seq(OrderIds)] /\ at \in Symbols
      BY <1>3
    <3> QED
      BY ONLY <1>5, <1>13, <2>2, <2>3, <3>1, OneRests
  <2>5. \A s \in Symbols, y \in OrderIds :
           Contains(pending'[s], y) <=> Contains(pending[s], y) \/ (s = at /\ y = id)
    BY <2>4 DEF q, AlsoKept
  <2>6. RestingOrders' \subseteq RestingOrders \cup {id}
    BY <2>5 DEF RestingOrders
  <2>7. OrdersInv'
    BY <1>3, <1>7, <1>12, <2>1, <2>4, <2>6 DEF q
  <2> QED
    BY <2>5, <2>7
<1>15. ASSUME pending' = pending PROVE RestingOrders' = RestingOrders
  BY <1>15 DEF RestingOrders
<1>16. CASE Reject(id)
  <2>1. pending' = pending /\ inv' = inv /\ got' = got /\ rejected' = rejected \cup {id}
    BY <1>16 DEF Reject, moneyVars
  <2>2. OrdersInv'
    BY <1>3, <1>5, <1>7, <1>12, <1>13, <1>15, <2>1
  <2> QED
    BY <2>1, <2>2
<1>17. CASE Take(id)
  <2> DEFINE size == TakerSize(OrderOf[id], book)
             price == Rat(TakerNotional(OrderOf[id], book), size)
  <2>1. /\ pending' = pending /\ rejected' = rejected /\ Crosses(OrderOf[id], book)
        /\ IF size > 0
           THEN /\ inv' = [inv EXCEPT ![at] = ApplyFill(@, OrderOf[id].side, size, price, TakerRate)]
                /\ got' = [got EXCEPT ![id] = @ + size]
           ELSE inv' = inv /\ got' = got
    BY <1>17 DEF Take, RecordFill, moneyVars
  <2>2. size \in 0..OrderOf[id].size
    <3>1. book # EmptyBook
      BY <2>1 DEF Crosses, EmptyBook
    <3> QED
      BY <1>3, <1>5, <3>1, TakesWithinSize
  <2> HIDE DEF size, price
  <2>3. /\ got' \in [OrderIds -> Nat] /\ got'[id] <= OrderOf[id].size
        /\ \A y \in OrderIds : y # id => got'[y] = got[y]
    <3>1. CASE size > 0
      <4>1. got'[id] = 0 + size /\ \A y \in OrderIds : y # id => got'[y] = got[y]
        BY <1>3, <1>5, <1>7, <2>1, <3>1
      <4>2. got' \in [OrderIds -> Nat]
        BY <1>3, <1>7, <2>1, <2>2, <3>1
      <4> QED
        BY <1>7, <2>2, <4>1, <4>2
    <3>2. CASE ~(size > 0)
      BY <1>3, <1>7, <2>1, <3>2
    <3> QED
      BY <3>1, <3>2
  <2>4. DOMAIN inv' = Symbols /\ \A s \in Symbols : inv'[s].position \in Int
    <3>1. CASE size > 0
      <4>1. OrderOf[id].side * size \in Int
        <5>1. OrderOf[id].side \in {1, -1} /\ size \in Int
          BY <1>5, <1>7, <2>2, OrderAssumption DEF Order, BUY, SELL
        <5> QED
          BY <5>1
      <4>2. inv'[at].position = inv[at].position + OrderOf[id].side * size
        BY <1>3, <2>1, <3>1 DEF ApplyFill
      <4>3. DOMAIN inv' = Symbols /\ \A s \in Symbols : s # at => inv'[s] = inv[s]
        BY <1>3, <2>1, <3>1
      <4>4. \A s \in Symbols : inv[s].position \in Int
        BY <1>3
      <4>5. at \in Symbols
        BY <1>3
      <4>6. inv'[at].position \in Int
        BY <4>1, <4>2, <4>4, <4>5
      <4> QED
        BY <4>3, <4>4, <4>6
    <3>2. CASE ~(size > 0)
      BY <1>3, <2>1, <3>2
    <3> QED
      BY <3>1, <3>2
  <2>5. OrdersInv'
    BY <1>3, <1>5, <1>12, <1>13, <1>15, <2>1, <2>3, <2>4
  <2> QED
    BY <2>1, <2>5
<1> QED
  BY <1>2, <1>14, <1>16, <1>17

\* Every step keeps the orders apart and their sizes accounted for.
LEMMA StepOrders == MergeInv /\ MergeInv' /\ OrdersInv /\ [Next]_vars => OrdersInv'
<1> SUFFICES ASSUME MergeInv, MergeInv', OrdersInv, [Next]_vars PROVE OrdersInv'
  OBVIOUS
<1>1. ASSUME NEW e \in heap, NEW b \in Books, NEW trades \in TradeLists, Tick(e, b, trades)
      PROVE  OrdersInv'
  BY <1>1, TickOrders
<1>2. CASE RecordPassive
  BY <1>2, RecordOrders
<1>3. ASSUME NEW chosen \in SUBSET (OrderIds \ sent), NEW gone \in SUBSET OrderIds,
             NEW new \in SetToSeqs(chosen), Act(new, gone)
      PROVE  OrdersInv'
  BY <1>3, ActOrders
<1>4. CASE Place
  BY <1>4, PlaceOrders
<1>5. ASSUME /\ due' = due /\ placing' = placing /\ pending' = pending /\ left' = left
             /\ inv' = inv /\ got' = got /\ rejected' = rejected /\ sent' = sent
             /\ book' \in {book, EmptyBook} /\ InTurn'
      PROVE  OrdersInv'
  <2>1. /\ \A d \in heap' : d \in [ts : Int, nth : Nat, symbol : Symbols]
        /\ pulled' \in [Symbols -> Nat] /\ pushes' \in Nat
        /\ phase' \in {"idle", "record", "place"} /\ at' \in Symbols
    <3>1. /\ heap' \subseteq [ts : Int, nth : 1..pushes', symbol : Symbols] /\ pushes' \in Nat
          /\ pulled' \in [Symbols -> Nat]
          /\ phase' \in {"idle", "record", "place"} /\ at' \in Symbols
      BY DEF MergeInv
    <3> QED
      BY ONLY <3>1
  <2>2. RestingOrders' = RestingOrders /\ Separate(pending') = Separate(pending)
    BY <1>5 DEF RestingOrders
  <2>3. \A id \in OrderIds : DueFor(id)' = DueFor(id)
    BY <1>5 DEF DueFor, MapThenSumSet, MapThenFoldSet
  <2>4. Typed'
    BY <1>5, <2>1 DEF OrdersInv, Typed, TypeOK
  <2>5. Apart'
    BY <1>5, <2>2 DEF OrdersInv, Apart
  <2>6. Untouched'
    BY <1>5 DEF OrdersInv, Untouched
  <2>7. SizeAccounted'
    <3>1. SizeAccounted
      BY DEF OrdersInv
    <3>2. \A id \in RestingOrders : id \in OrderIds
      BY DEF RestingOrders
    <3> QED
      BY <1>5, <2>2, <2>3, <3>1, <3>2 DEF SizeAccounted
  <2> QED
    BY <1>5, <2>4, <2>5, <2>6, <2>7 DEF OrdersInv
<1>6. CASE Done
  <2>1. InTurn'
    BY <1>6 DEF Done, OrdersInv, InTurn
  <2> QED
    BY <1>5, <1>6, <2>1 DEF Done, moneyVars
<1>7. CASE UNCHANGED vars
  <2>1. InTurn'
    BY <1>7 DEF vars, tickVars, OrdersInv, InTurn
  <2> QED
    BY <1>5, <1>7, <2>1 DEF vars, tickVars, moneyVars
<1> QED
  BY <1>1, <1>2, <1>3, <1>4, <1>6, <1>7 DEF Next

\* The engine's types, for any number of symbols and orders (multi_asset.py 35-60).
THEOREM PassiveTypes == Spec => []TypeOK
<1>1. OrdersInv => TypeOK
  BY DEF OrdersInv, Typed
<1> QED
  BY InitMerge, StepMerge, InitOrders, StepOrders, <1>1, PTL DEF Spec

\* However its fills come in, an order is never filled beyond its size, and while
\* it rests what it has left and what it was filled make its size (passive.py 72-77).
THEOREM SizesAddUp == Spec => []SizeAccounted
<1>1. OrdersInv => SizeAccounted
  BY DEF OrdersInv
<1> QED
  BY InitMerge, StepMerge, InitOrders, StepOrders, <1>1, PTL DEF Spec

\* Nothing but a full fill or a cancel takes an order out of the book (passive.py 60-66).
THEOREM RemaindersRest == Spec => RemainderRests
<1> DEFINE Stays == \A s \in Symbols, id \in OrderIds :
                       Contains(pending[s], id) /\ ~Contains(pending'[s], id) =>
                          left'[id] = 0 \/ (phase = "record" /\ phase' = "place")
<1>1. MergeInv' /\ OrdersInv /\ [Next]_vars => [Stays]_vars
  <2> SUFFICES ASSUME MergeInv', OrdersInv, Next PROVE Stays
    OBVIOUS
  <2>1. ASSUME NEW e \in heap, NEW b \in Books, NEW trades \in TradeLists, Tick(e, b, trades)
        PROVE  Stays
    BY <2>1, TickOrders
  <2>2. ASSUME NEW new, NEW gone, Act(new, gone) PROVE Stays
    BY <2>2 DEF Act
  <2>3. CASE Place
    BY <2>3, PlaceOrders
  <2>4. CASE RecordPassive \/ Done
    BY <2>4 DEF RecordPassive, Done
  <2> QED
    BY <2>1, <2>2, <2>3, <2>4 DEF Next
<1> QED
  BY InitMerge, StepMerge, InitOrders, StepOrders, <1>1, PTL DEF Spec, RemainderRests
-----------------------------------------------------------------------------
(* Fractions in lowest terms.                                              *)

Positive  == Nat \ {0}
Fractions == {Rat(n, d) : n \in Int, d \in Positive}

\* A product of positive numbers is one, and tells its factors apart.
LEMMA PositiveProducts ==
    ASSUME NEW d \in Positive, NEW e \in Positive
    PROVE  /\ d * e \in Positive
           /\ \A x, y \in Int : d * x = d * y => x = y
<1>1. d * e \in Nat /\ d * e > 0
  BY DEF Positive
<1>2. \A x, y \in Int : x < y => d * x < d * y
  <2> TAKE x, y \in Int
  <2> HAVE x < y
  <2>1. d * (y - x) > 0
    BY DEF Positive
  <2>2. d * (y - x) = d * y - d * x
    BY DEF Positive
  <2> QED
    BY <2>1, <2>2 DEF Positive
<1>3. \A x, y \in Int : d * x = d * y => x = y
  <2> TAKE x, y \in Int
  <2>1. x < y => d * x < d * y
    BY <1>2
  <2>2. y < x => d * y < d * x
    BY <1>2
  <2>3. d * x \in Int /\ d * y \in Int
    BY DEF Positive
  <2> QED
    BY <2>1, <2>2, <2>3
<1> QED
  BY <1>1, <1>3 DEF Positive

\* What divides a number without rest.
LEMMA Divides ==
    ASSUME NEW n \in Int, NEW k \in Positive
    PROVE  /\ n \div k \in Int /\ n % k = 0 => n = k * (n \div k)
           /\ \A c \in Int : n = k * c => n % k = 0 /\ n \div k = c
  BY DEF Positive

\* The greatest common divisor there is.
LEMMA Greatest ==
    ASSUME NEW n \in Int, NEW d \in Positive
    PROVE  LET S == {k \in 1..d : n % k = 0 /\ d % k = 0}
           IN  Max(S) \in S /\ \A k \in S : k <= Max(S)
<1> DEFINE S == {k \in 1..d : n % k = 0 /\ d % k = 0}
<1>1. 1 \in S
  BY DEF Positive
<1>2. IsFiniteSet(S) /\ S \subseteq Int
  <2>1. IsFiniteSet(1..d)
    BY FirstFew DEF Positive
  <2> QED
    BY <2>1, FS_Subset DEF Positive
<1> HIDE DEF S
<1> QED
  BY <1>1, <1>2, LeastAndGreatest DEF S

\* A fraction in lowest terms is the fraction, and no smaller denominator would do.
LEMMA RatLowest ==
    ASSUME NEW n \in Int, NEW d \in Positive
    PROVE  /\ Rat(n, d) \in Int \X Positive
           /\ Rat(n, d)[1] * d = n * Rat(n, d)[2]
           /\ \A p \in Int, q \in Positive : p * d = n * q => Rat(n, d)[2] <= q
<1> DEFINE S == {k \in 1..d : n % k = 0 /\ d % k = 0}
           g == Max(S)
           a == n \div g
           b == d \div g
<1>1. g \in 1..d /\ n % g = 0 /\ d % g = 0 /\ \A k \in S : k <= g
  BY Greatest
<1>2. Rat(n, d) = <<a, b>>
  BY DEF Rat
<1> HIDE DEF S
<1>3. g \in Positive /\ d \in Int /\ n \in Int /\ g \in Int /\ d > 0
  BY <1>1 DEF Positive
<1> HIDE DEF g
<1>4. a \in Int /\ b \in Int /\ n = g * a /\ d = g * b
  BY <1>1, <1>3, Divides
<1> HIDE DEF a, b
<1>5. b \in Positive
  BY <1>3, <1>4 DEF Positive
<1>6. a * d = n * b
  BY <1>3, <1>4
<1>7. ASSUME NEW p \in Int, NEW q \in Positive, p * d = n * q PROVE b <= q
  <2> DEFINE Q == {k \in 1..q : \E m \in Int : m * d = n * k}
  <2>1. IsFiniteSet(Q) /\ Q \subseteq Int /\ q \in Q
    <3>1. IsFiniteSet(1..q) /\ q \in 1..q
      BY FirstFew DEF Positive
    <3> QED
      BY <1>7, <3>1, FS_Subset DEF Positive
  <2>2. PICK k \in Q : \A l \in Q : k <= l
    BY <2>1, LeastAndGreatest
  <2>3. k \in Positive /\ k \in 1..q /\ k <= q /\ \E m \in Int : m * d = n * k
    BY <2>1, <2>2 DEF Positive
  <2>4. PICK m \in Int : m * d = n * k
    BY <2>3
  <2>5. \A l \in Positive : (\E j \in Int : j * d = n * l) => k <= l
    <3> TAKE l \in Positive
    <3> HAVE \E j \in Int : j * d = n * l
    <3>1. l <= q => l \in Q
      BY DEF Positive
    <3> QED
      BY <2>2, <2>3, <3>1 DEF Positive
  <2> HIDE DEF Q
  <2> DEFINE c == d \div k
             r == d % k
  <2>6. c \in Int /\ r \in 0..(k - 1) /\ d = c * k + r
    BY <1>3, <2>3 DEF Positive
  <2> HIDE DEF c, r
  <2>7. (n - c * m) * d = n * r
    <3>1. k \in Int /\ r \in Int
      BY <2>3, <2>6 DEF Positive
    <3>2. (n - c * m) * d = n * d - c * (m * d)
      BY <1>3, <2>4, <2>6
    <3>3. c * (m * d) = c * (n * k)
      BY <2>4
    <3>4. n * d - c * (n * k) = n * (d - c * k)
      BY <1>3, <2>6, <3>1
    <3>5. d - c * k = r
      BY <1>3, <2>6, <3>1
    <3> QED
      BY <3>2, <3>3, <3>4, <3>5
  <2>8. r = 0
    <3>1. n - c * m \in Int
      BY <2>4, <2>6
    <3>2. r # 0 => r \in Positive /\ r < k
      BY <2>3, <2>6 DEF Positive
    <3>3. r \in Positive => k <= r
      BY <2>5, <2>7, <3>1
    <3> QED
      BY <2>3, <2>6, <3>2, <3>3 DEF Positive
  <2>9. d = c * k /\ n = c * m
    <3>1. d = c * k
      BY <1>3, <2>3, <2>6, <2>8 DEF Positive
    <3>2. (n - c * m) * d = 0
      BY <2>7, <2>8, <1>3
    <3>3. n - c * m \in Int
      BY <2>4, <2>6
    <3>4. n - c * m = 0
      BY <1>3, <3>2, <3>3
    <3> QED
      BY <1>3, <2>4, <2>6, <3>1, <3>4
  <2>10. c \in Positive /\ c <= d
    <3>1. c > 0
      BY <1>3, <2>3, <2>6, <2>9 DEF Positive
    <3>2. c * k >= c
      BY <2>3, <2>6, <3>1 DEF Positive
    <3> QED
      BY <1>3, <2>3, <2>6, <2>9, <3>1, <3>2 DEF Positive
  <2>11. c \in S
    <3>1. n % c = 0 /\ d % c = 0
      BY <1>3, <2>3, <2>4, <2>9, <2>10, Divides DEF Positive
    <3> QED
      BY <1>3, <2>10, <3>1 DEF S, Positive
  <2>12. c <= g
    BY <1>1, <2>11
  <2>13. c * k = g * b
    BY <1>4, <2>9
  <2>14. c * b <= g * b
    BY <1>3, <1>5, <2>10, <2>12 DEF Positive
  <2>15. c * b <= c * k
    BY <2>13, <2>14
  <2>16. b <= k
    BY <1>5, <2>3, <2>10, <2>15 DEF Positive
  <2> QED
    BY <1>5, <2>3, <2>16 DEF Positive
<1> QED
  BY <1>2, <1>4, <1>5, <1>6, <1>7

\* Two fractions are one in lowest terms just if they are equal.
LEMMA RatEqual ==
    ASSUME NEW n \in Int, NEW d \in Positive, NEW m \in Int, NEW e \in Positive
    PROVE  Rat(n, d) = Rat(m, e) <=> n * e = m * d
<1> DEFINE a == Rat(n, d)
           b == Rat(m, e)
<1>1. /\ a \in Int \X Positive /\ b \in Int \X Positive
      /\ a[1] * d = n * a[2] /\ b[1] * e = m * b[2]
      /\ \A p \in Int, q \in Positive : p * d = n * q => a[2] <= q
      /\ \A p \in Int, q \in Positive : p * e = m * q => b[2] <= q
  BY RatLowest
<1> HIDE DEF a, b
<1> DEFINE p == a[1]
           q == a[2]
           r == b[1]
           s == b[2]
<1>2. p \in Int /\ q \in Positive /\ r \in Int /\ s \in Positive /\ a = <<p, q>> /\ b = <<r, s>>
  BY <1>1
<1>3. /\ p * d = n * q /\ r * e = m * s
      /\ \A x \in Int, y \in Positive : x * d = n * y => q <= y
      /\ \A x \in Int, y \in Positive : x * e = m * y => s <= y
  BY <1>1
<1> HIDE DEF p, q, r, s
<1>4. ASSUME p = r, q = s PROVE n * e = m * d
  <2>1. q * (n * e) = (n * q) * e /\ q * (m * d) = (m * q) * d
    BY <1>2 DEF Positive
  <2>2. (n * q) * e = (p * d) * e /\ (m * q) * d = (p * e) * d
    BY <1>3, <1>4
  <2>3. (p * d) * e = (p * e) * d
    BY <1>2 DEF Positive
  <2>4. q * (n * e) = q * (m * d) /\ n * e \in Int /\ m * d \in Int
    BY <2>1, <2>2, <2>3 DEF Positive
  <2> QED
    BY <1>2, <2>4, PositiveProducts
<1>5. ASSUME n * e = m * d PROVE p = r /\ q = s
  <2>1. ASSUME NEW x \in Int, NEW y \in Positive PROVE x * d = n * y <=> x * e = m * y
    <3>1. d * (x * e) = (x * d) * e /\ d * (m * y) = (n * y) * e
      <4>1. d * (m * y) = (m * d) * y /\ (n * e) * y = (n * y) * e
        BY DEF Positive
      <4>2. d * (x * e) = (x * d) * e
        BY DEF Positive
      <4> QED
        BY <1>5, <4>1, <4>2
    <3>2. e * (x * d) = (x * d) * e /\ e * (n * y) = (n * y) * e
      BY DEF Positive
    <3>3. x * d \in Int /\ n * y \in Int /\ x * e \in Int /\ m * y \in Int
      BY DEF Positive
    <3>4. x * d = n * y => d * (x * e) = d * (m * y)
      BY <3>1
    <3>5. x * e = m * y => e * (x * d) = e * (n * y)
      BY <3>1, <3>2
    <3> QED
      BY <3>3, <3>4, <3>5, PositiveProducts
  <2>2. q <= s /\ s <= q
    BY <1>2, <1>3, <2>1
  <2>3. q = s
    BY <1>2, <2>2 DEF Positive
  <2>4. p * d = r * d
    BY <1>2, <1>3, <2>1, <2>3
  <2>5. d * p = d * r
    BY <1>2, <2>4 DEF Positive
  <2> QED
    BY <1>2, <2>3, <2>5, PositiveProducts
<1> QED
  BY <1>2, <1>4, <1>5 DEF a, b

\* Numerator and denominator may be multiplied alike.
LEMMA RatWiden ==
    ASSUME NEW n \in Int, NEW d \in Positive, NEW k \in Positive
    PROVE  d * k \in Positive /\ n * k \in Int /\ Rat(n * k, d * k) = Rat(n, d)
<1>1. d * k \in Positive /\ n * k \in Int
  BY PositiveProducts DEF Positive
<1>2. (n * k) * d = n * (d * k)
  BY DEF Positive
<1> QED
  BY <1>1, <1>2, RatEqual

\* Sum and multiple of fractions of one denominator, product of any two.
LEMMA RatAlgebra ==
    ASSUME NEW x \in Int, NEW y \in Int, NEW d \in Positive
    PROVE  /\ Plus(Rat(x, d), Rat(y, d)) = Rat(x + y, d)
           /\ \A k \in Int : Scaled(k, Rat(x, d)) = Rat(k * x, d)
           /\ \A p \in Int, q \in Positive : Times(Rat(x, d), <<p, q>>) = Rat(x * p, d * q)
<1> DEFINE a == Rat(x, d)
           b == Rat(y, d)
<1>1. /\ a \in Int \X Positive /\ b \in Int \X Positive
      /\ a[1] * d = x * a[2] /\ b[1] * d = y * b[2]
  BY RatLowest
<1> HIDE DEF a, b
<1> DEFINE p == a[1]
           q == a[2]
           r == b[1]
           s == b[2]
<1>2. p \in Int /\ q \in Positive /\ r \in Int /\ s \in Positive
  BY <1>1
<1>3. p * d = x * q /\ r * d = y * s
  BY <1>1
<1>4. Plus(a, b) = Rat(p * s + r * q, q * s)
  BY DEF Plus
<1>5. \A k \in Int : Scaled(k, a) = Rat(k * p, q)
  BY DEF Scaled
<1>6. \A m \in Int, e \in Positive : Times(a, <<m, e>>) = Rat(p * m, q * e)
  BY DEF Times
<1> HIDE DEF p, q, r, s
<1>7. Rat(p * s + r * q, q * s) = Rat(x + y, d)
  <2>1. p * s + r * q \in Int /\ q * s \in Positive /\ x + y \in Int
    BY <1>2, PositiveProducts DEF Positive
  <2>2. (p * s + r * q) * d = (p * d) * s + (r * d) * q
    BY <1>2 DEF Positive
  <2>3. (x * q) * s + (y * s) * q = (x + y) * (q * s)
    BY <1>2 DEF Positive
  <2>4. (p * s + r * q) * d = (x + y) * (q * s)
    BY <1>3, <2>2, <2>3
  <2> QED
    BY <2>1, <2>4, RatEqual
<1>8. ASSUME NEW k \in Int PROVE Rat(k * p, q) = Rat(k * x, d)
  <2>1. (k * p) * d = k * (p * d) /\ k * (x * q) = (k * x) * q /\ k * p \in Int /\ k * x \in Int
    BY <1>2 DEF Positive
  <2>2. (k * p) * d = (k * x) * q
    BY <1>3, <2>1
  <2> QED
    BY <1>2, <2>1, <2>2, RatEqual
<1>9. ASSUME NEW m \in Int, NEW e \in Positive PROVE Rat(p * m, q * e) = Rat(x * m, d * e)
  <2>1. p * m \in Int /\ q * e \in Positive /\ x * m \in Int /\ d * e \in Positive
    BY <1>2, PositiveProducts DEF Positive
  <2>2. (p * m) * (d * e) = (p * d) * (m * e) /\ (x * q) * (m * e) = (x * m) * (q * e)
    BY <1>2 DEF Positive
  <2>3. (p * m) * (d * e) = (x * m) * (q * e)
    BY <1>3, <2>2
  <2> QED
    BY <2>1, <2>3, RatEqual
<1> QED
  BY <1>4, <1>5, <1>6, <1>7, <1>8, <1>9 DEF a, b

\* A fraction is that of its own numerator and denominator.
LEMMA FractionOf ==
    ASSUME NEW a \in Fractions
    PROVE  a \in Int \X Positive /\ a = Rat(a[1], a[2])
<1>1. PICK n \in Int, d \in Positive : a = Rat(n, d)
  BY DEF Fractions
<1>2. a \in Int \X Positive /\ a[1] * d = n * a[2]
  BY <1>1, RatLowest
<1>3. a[1] \in Int /\ a[2] \in Positive
  BY <1>2
<1> QED
  BY <1>1, <1>2, <1>3, RatEqual

\* Whole numbers are fractions, of any denominator.
LEMMA Wholes ==
    ASSUME NEW n \in Int
    PROVE  Whole(n) \in Fractions /\ \A d \in Positive : Whole(n) = Rat(n * d, d)
<1>1. 1 \in Positive
  BY DEF Positive
<1>2. Rat(n, 1) = Whole(n)
  <2> DEFINE a == Rat(n, 1)
  <2>1. a \in Int \X Positive /\ a[1] * 1 = n * a[2] /\ (n * 1 = n * 1 => a[2] <= 1)
    BY <1>1, RatLowest
  <2> HIDE DEF a
  <2> DEFINE p == a[1]
             q == a[2]
  <2>2. p \in Int /\ q \in Positive /\ p * 1 = n * q /\ q <= 1 /\ a = <<p, q>>
    BY <2>1
  <2> HIDE DEF p, q
  <2>3. q = 1
    BY <2>2 DEF Positive
  <2>4. p = n
    BY <2>2, <2>3
  <2> QED
    BY <2>2, <2>3, <2>4 DEF a, Whole
<1>3. ASSUME NEW d \in Positive PROVE Rat(n * d, d) = Rat(n, 1)
  <2>1. n * d \in Int /\ (n * d) * 1 = n * d
    BY DEF Positive
  <2> QED
    BY <1>1, <2>1, RatEqual
<1> QED
  BY <1>1, <1>2, <1>3 DEF Fractions

\* Two fractions have a common denominator, with any third.
LEMMA Common ==
    ASSUME NEW a \in Fractions, NEW b \in Fractions, NEW c \in Fractions
    PROVE  \E d \in Positive : \E x, y, z \in Int :
               a = Rat(x, d) /\ b = Rat(y, d) /\ c = Rat(z, d)
<1> DEFINE p == a[1]
           q == a[2]
           r == b[1]
           s == b[2]
           u == c[1]
           v == c[2]
<1>1. /\ p \in Int /\ q \in Positive /\ r \in Int /\ s \in Positive /\ u \in Int /\ v \in Positive
      /\ a = Rat(p, q) /\ b = Rat(r, s) /\ c = Rat(u, v)
  BY FractionOf
<1> HIDE DEF p, q, r, s, u, v
<1>2. s * v \in Positive /\ q * v \in Positive /\ q * s \in Positive
  BY <1>1, PositiveProducts
<1> DEFINE d == q * (s * v)
<1>3. /\ d \in Positive /\ p * (s * v) \in Int /\ r * (q * v) \in Int /\ u * (q * s) \in Int
      /\ a = Rat(p * (s * v), q * (s * v))
      /\ b = Rat(r * (q * v), s * (q * v))
      /\ c = Rat(u * (q * s), v * (q * s))
  BY <1>1, <1>2, RatWiden
<1>4. s * (q * v) = d /\ v * (q * s) = d
  BY <1>1 DEF Positive
<1> HIDE DEF d
<1> QED
  BY <1>3, <1>4 DEF d
-----------------------------------------------------------------------------
(* What a fill earns, and totals (types.py 150-190).                       *)

\* Sums and multiples are fractions, and sums may be taken in any order.
LEMMA FractionLaws ==
    /\ \A a, b \in Fractions : Plus(a, b) \in Fractions /\ Plus(a, b) = Plus(b, a)
    /\ \A a \in Fractions, k \in Int : Scaled(k, a) \in Fractions
    /\ \A a, b, c \in Fractions : Plus(a, Plus(b, c)) = Plus(Plus(a, b), c)
    /\ \A a \in Fractions : Plus(a, Whole(0)) = a
    /\ \A a, b \in Fractions : Scaled(-1, Plus(a, b)) = Plus(Scaled(-1, a), Scaled(-1, b))
<1>1. ASSUME NEW a \in Fractions, NEW b \in Fractions, NEW c \in Fractions, NEW k \in Int
      PROVE  /\ Plus(a, b) \in Fractions /\ Plus(a, b) = Plus(b, a)
             /\ Scaled(k, a) \in Fractions
             /\ Plus(a, Plus(b, c)) = Plus(Plus(a, b), c)
             /\ Plus(a, Whole(0)) = a
             /\ Scaled(-1, Plus(a, b)) = Plus(Scaled(-1, a), Scaled(-1, b))
  <2>1. PICK d \in Positive : \E x, y, z \in Int :
                a = Rat(x, d) /\ b = Rat(y, d) /\ c = Rat(z, d)
    BY Common
  <2>2. PICK x \in Int, y \in Int, z \in Int : a = Rat(x, d) /\ b = Rat(y, d) /\ c = Rat(z, d)
    BY <2>1
  <2>3. \A m, n \in Int : Plus(Rat(m, d), Rat(n, d)) = Rat(m + n, d)
    BY RatAlgebra
  <2>4. Scaled(k, a) = Rat(k * x, d) /\ k * x \in Int
    BY <2>2, RatAlgebra
  <2>5. Whole(0) = Rat(0, d)
    <3>1. 0 \in Int /\ 0 * d = 0
      BY DEF Positive
    <3> QED
      BY <3>1, Wholes
  <2>6. x + y \in Int /\ y + z \in Int /\ x + y = y + x /\ x + (y + z) = (x + y) + z /\ x + 0 = x
    OBVIOUS
  <2>7. Plus(a, b) = Rat(x + y, d) /\ Plus(b, a) = Rat(y + x, d)
    BY <2>2, <2>3
  <2>8. Plus(b, c) = Rat(y + z, d)
    BY <2>2, <2>3
  <2>9. Plus(a, Plus(b, c)) = Rat(x + (y + z), d) /\ Plus(Plus(a, b), c) = Rat((x + y) + z, d)
    BY <2>2, <2>3, <2>6, <2>7, <2>8
  <2>10. Plus(a, Whole(0)) = a
    BY <2>2, <2>3, <2>5, <2>6
  <2>11. Scaled(-1, Plus(a, b)) = Plus(Scaled(-1, a), Scaled(-1, b))
    <3>1. \A n \in Int : Scaled(-1, Rat(n, d)) = Rat(-1 * n, d)
      BY RatAlgebra
    <3>2. -1 * x \in Int /\ -1 * y \in Int /\ -1 * (x + y) = (-1 * x) + (-1 * y)
      OBVIOUS
    <3> QED
      BY <2>2, <2>3, <2>6, <2>7, <3>1, <3>2
  <2> QED
    BY <2>4, <2>6, <2>7, <2>9, <2>10, <2>11 DEF Fractions
<1>2. Whole(0) \in Fractions /\ 0 \in Int
  BY Wholes
<1>3. ASSUME NEW a \in Fractions, NEW b \in Fractions
      PROVE  /\ Plus(a, b) \in Fractions /\ Plus(a, b) = Plus(b, a)
             /\ Plus(a, Whole(0)) = a
             /\ Scaled(-1, Plus(a, b)) = Plus(Scaled(-1, a), Scaled(-1, b))
  BY <1>1, <1>2
<1>4. ASSUME NEW a \in Fractions, NEW k \in Int PROVE Scaled(k, a) \in Fractions
  BY <1>1
<1>5. ASSUME NEW a \in Fractions, NEW b \in Fractions, NEW c \in Fractions
      PROVE  Plus(a, Plus(b, c)) = Plus(Plus(a, b), c)
  BY <1>1, <1>2
<1>6. \A a \in Fractions : Plus(a, Whole(0)) = a
  BY <1>3
<1> QED
  BY <1>3, <1>4, <1>5, <1>6

Inventories == [position : Int, avgEntry : Fractions, realized : Fractions, fees : Fractions]

\* What a position is worth beyond what it cost, of fractions of one denominator.
LEMMA UnrealizedOf ==
    ASSUME NEW d \in Positive, NEW m \in Int, NEW z \in Int, NEW pos \in Int
    PROVE  Scaled(pos, Plus(Rat(m, d), Scaled(-1, Rat(z, d)))) = Rat(pos * (m - z), d)
<1>1. -1 \in Int /\ -1 * z \in Int /\ m + (-1 * z) = m - z /\ m - z \in Int
  OBVIOUS
<1>2. Scaled(-1, Rat(z, d)) = Rat(-1 * z, d)
  BY <1>1, RatAlgebra
<1>3. Plus(Rat(m, d), Scaled(-1, Rat(z, d))) = Rat(m - z, d)
  BY <1>1, <1>2, RatAlgebra
<1> QED
  BY <1>1, <1>3, RatAlgebra

\* With z / d as the average before a fill at p / d, what closing realizes less
\* what the position now has cost is what it had cost less what the fill paid.
Balanced(own, side, size, p, z, d, m) ==
    LET after == own.position + side * size
        avg   == AvgEntry(own, side, size, Rat(p, d))
    IN  /\ avg \in Fractions
        /\ \E c, v \in Int :
              /\ Closed(own, side, size, Rat(p, d)) = Rat(c, d)
              /\ Scaled(after, Plus(Rat(m, d), Scaled(-1, avg))) = Rat(after * m - v, d)
              /\ c - v = -(own.position * z) - side * (size * p)

\* A fill moves what closing realizes, less what the position has cost, by what
\* it paid: average-cost accounting (types.py apply_fill).
LEMMA FillBalances ==
    ASSUME NEW own \in Inventories, NEW side \in {1, -1}, NEW size \in Positive,
           NEW d \in Positive, NEW z \in Int, NEW p \in Int, NEW m \in Int,
           own.avgEntry = Rat(z, d)
    PROVE  Balanced(own, side, size, p, z, d, m)
<1> DEFINE price == Rat(p, d)
           pos == own.position
           after == pos + side * size
           avg == AvgEntry(own, side, size, price)
           held == Abs(pos)
           closed == Closed(own, side, size, price)
<1>1. /\ pos \in Int /\ size \in Nat /\ size \in Int /\ size > 0 /\ after \in Int /\ held \in Nat
      /\ after = pos + side * size /\ held = IF pos < 0 THEN -pos ELSE pos
      /\ (side = 1 \/ side = -1)
  BY DEF Inventories, Positive, Abs
<1>2. /\ pos = 0 => avg = price
      /\ pos # 0 /\ side * pos > 0 =>
            avg = Times(Plus(Scaled(held, own.avgEntry), Scaled(size, price)), <<1, held + size>>)
      /\ pos # 0 /\ ~(side * pos > 0) => avg = IF size > held THEN price ELSE own.avgEntry
  BY DEF AvgEntry
<1>3. closed = IF side * pos < 0
               THEN Scaled(-side * Lesser(size, held), Plus(price, Scaled(-1, own.avgEntry)))
               ELSE Whole(0)
  BY DEF Closed
<1> HIDE DEF pos, after, avg, held, closed
<1>4. Plus(price, Scaled(-1, own.avgEntry)) = Rat(p - z, d) /\ p - z \in Int
  <2>1. -1 \in Int /\ -1 * z \in Int /\ p + (-1 * z) = p - z /\ p - z \in Int
    OBVIOUS
  <2>2. Scaled(-1, Rat(z, d)) = Rat(-1 * z, d)
    BY <2>1, RatAlgebra
  <2> QED
    BY <2>1, <2>2, RatAlgebra
<1>5. Whole(0) = Rat(0, d) /\ 0 \in Int
  <2>1. 0 \in Int /\ 0 * d = 0
    BY DEF Positive
  <2>2. \A e \in Positive : Whole(0) = Rat(0 * e, e)
    BY <2>1, Wholes
  <2> QED
    BY <2>1, <2>2
<1>11. \A x \in Int : Scaled(after, Plus(Rat(m, d), Scaled(-1, Rat(x, d)))) = Rat(after * (m - x), d)
  <2>1. after \in Int
    BY <1>1
  <2>2. \A e \in Positive, j, x, k \in Int :
            Scaled(k, Plus(Rat(j, e), Scaled(-1, Rat(x, e)))) = Rat(k * (j - x), e)
    BY UnrealizedOf
  <2> QED
    BY <2>1, <2>2
<1>12. \A k \in Int : Scaled(k, Rat(p - z, d)) = Rat(k * (p - z), d)
  <2> DEFINE q == p - z
  <2>1. q \in Int
    OBVIOUS
  <2> HIDE DEF q
  <2>2. \A k \in Int : Scaled(k, Rat(q, d)) = Rat(k * q, d)
    BY <2>1, RatAlgebra
  <2> QED
    BY <2>2 DEF q
<1>6. ASSUME avg \in Fractions, NEW c \in Int, NEW v \in Int, closed = Rat(c, d),
             Scaled(after, Plus(Rat(m, d), Scaled(-1, avg))) = Rat(after * m - v, d),
             c - v = -(pos * z) - side * (size * p)
      PROVE  Balanced(own, side, size, p, z, d, m)
  BY <1>6 DEF Balanced, pos, after, avg, closed
<1>7. CASE pos = 0
  <2>1. side * pos = 0
    BY <1>1, <1>7
  <2>2. avg = price /\ closed = Rat(0, d)
    BY <1>2, <1>3, <1>5, <1>7, <2>1
  <2>3. Scaled(after, Plus(Rat(m, d), Scaled(-1, avg))) = Rat(after * (m - p), d)
    BY <1>11, <2>2
  <2>4. after * (m - p) = after * m - after * p /\ after * p \in Int
    BY <1>1
  <2>5. 0 - after * p = -(pos * z) - side * (size * p)
    BY <1>1, <1>7
  <2>6. avg \in Fractions
    BY <2>2 DEF Fractions
  <2>7. Scaled(after, Plus(Rat(m, d), Scaled(-1, avg))) = Rat(after * m - after * p, d)
    BY <2>3, <2>4
  <2> QED
    BY <1>5, <1>6, <2>2, <2>4, <2>5, <2>6, <2>7
<1>8. CASE pos # 0 /\ side * pos > 0
  <2> DEFINE a == held * z + size * p
             w == held + size
             D == d * w
  <2>1. w \in Positive /\ a \in Int /\ held * z \in Int /\ size * p \in Int /\ held \in Int
    BY <1>1 DEF Positive
  <2>2. ~(side * pos < 0)
    BY <1>1, <1>8
  <2>3. side * held = pos /\ after = side * w
    BY <1>1, <1>8
  <2>4. /\ avg = Times(Plus(Scaled(held, own.avgEntry), Scaled(size, price)), <<1, w>>)
        /\ closed = Rat(0, d)
    BY <1>2, <1>3, <1>5, <1>8, <2>2
  <2>5. a = held * z + size * p
    OBVIOUS
  <2> HIDE DEF w, a
  <2>6. avg = Rat(a, D)
    <3>1. Scaled(held, own.avgEntry) = Rat(held * z, d)
      <4>1. \A k \in Int : Scaled(k, Rat(z, d)) = Rat(k * z, d)
        BY RatAlgebra
      <4> QED
        BY <2>1, <4>1
    <3>5. Scaled(size, price) = Rat(size * p, d)
      <4>1. \A k \in Int : Scaled(k, Rat(p, d)) = Rat(k * p, d)
        BY RatAlgebra
      <4> QED
        BY <1>1, <4>1
    <3>2. Plus(Rat(held * z, d), Rat(size * p, d)) = Rat(a, d)
      BY <2>1, <2>5, RatAlgebra
    <3>3. 1 \in Int /\ a * 1 = a
      BY <2>1
    <3>4. Times(Rat(a, d), <<1, w>>) = Rat(a * 1, d * w)
      BY <2>1, <3>3, RatAlgebra
    <3> QED
      BY <2>4, <3>1, <3>2, <3>3, <3>4, <3>5 DEF D
  <2>7. D \in Positive /\ m * w \in Int /\ Rat(m, d) = Rat(m * w, D)
    BY <2>1, RatWiden
  <2>8. \A x \in Int : Rat(x * w, D) = Rat(x, d)
    BY <2>1, RatWiden
  <2> HIDE DEF D
  <2>9. Scaled(after, Plus(Rat(m, d), Scaled(-1, avg))) = Rat(after * (m * w - a), D)
    <3> DEFINE n == m * w
    <3>1. n \in Int /\ Rat(m, d) = Rat(n, D)
      BY <2>7
    <3> HIDE DEF n
    <3>2. \A x \in Int : Scaled(after, Plus(Rat(n, D), Scaled(-1, Rat(x, D)))) = Rat(after * (n - x), D)
      <4>1. after \in Int
        BY <1>1
      <4>2. \A e \in Positive, j, x, k \in Int :
                Scaled(k, Plus(Rat(j, e), Scaled(-1, Rat(x, e)))) = Rat(k * (j - x), e)
        BY UnrealizedOf
      <4> QED
        BY <2>7, <3>1, <4>1, <4>2
    <3> QED
      BY <2>1, <2>6, <3>1, <3>2 DEF n
  <2>10. after * (m * w - a) = (after * m - side * a) * w /\ after * m - side * a \in Int
    <3>1. w \in Int /\ side \in Int
      BY <2>1 DEF Positive
    <3>2. side * w * (m * w - a) = (side * w * m - side * a) * w
      BY <2>1, <3>1
    <3> QED
      BY <1>1, <2>1, <2>3, <3>1, <3>2
  <2>11. Scaled(after, Plus(Rat(m, d), Scaled(-1, avg))) = Rat(after * m - side * a, d)
    BY <2>8, <2>9, <2>10
  <2>12. 0 - side * a = -(pos * z) - side * (size * p) /\ side * a \in Int
    <3>1. side * a = side * (held * z) + side * (size * p)
      BY <2>1, <2>5
    <3>2. side * (held * z) = (side * held) * z
      BY <1>1
    <3> QED
      BY <1>1, <2>1, <2>3, <3>1, <3>2
  <2>13. avg \in Fractions
    BY <2>1, <2>6, <2>7 DEF Fractions
  <2> QED
    BY <1>5, <1>6, <2>4, <2>11, <2>12, <2>13
<1>9. CASE pos # 0 /\ ~(side * pos > 0) /\ size > held
  <2> DEFINE c == pos * (p - z)
  <2>1. avg = price
    BY <1>2, <1>9
  <2>2. side * pos < 0 /\ Lesser(size, held) = held /\ -side * held = pos
    BY <1>1, <1>9 DEF Lesser
  <2>3. closed = Scaled(pos, Rat(p - z, d))
    BY <1>3, <1>4, <2>2
  <2>4. Scaled(pos, Rat(p - z, d)) = Rat(c, d)
    BY <1>1, <1>12
  <2>5. Scaled(after, Plus(Rat(m, d), Scaled(-1, avg))) = Rat(after * (m - p), d)
    BY <1>11, <2>1
  <2>6. after * (m - p) = after * m - after * p /\ after * p \in Int /\ c \in Int
    BY <1>1
  <2>7. c - after * p = -(pos * z) - side * (size * p)
    BY <1>1
  <2>8. avg \in Fractions
    BY <2>1 DEF Fractions
  <2> HIDE DEF c
  <2>9. Scaled(after, Plus(Rat(m, d), Scaled(-1, avg))) = Rat(after * m - after * p, d)
    BY <2>5, <2>6
  <2> QED
    BY <1>6, <2>3, <2>4, <2>6, <2>7, <2>8, <2>9
<1>10. CASE pos # 0 /\ ~(side * pos > 0) /\ ~(size > held)
  <2> DEFINE k == -side * size
             c == k * (p - z)
  <2>1. avg = own.avgEntry
    BY <1>2, <1>10
  <2>2. side * pos < 0 /\ Lesser(size, held) = size
    BY <1>1, <1>10 DEF Lesser
  <2>3. closed = Scaled(k, Rat(p - z, d))
    BY <1>3, <1>4, <2>2
  <2>4. k \in Int
    BY <1>1
  <2>5. c - after * z = -(pos * z) - side * (size * p)
    BY <1>1
  <2> HIDE DEF k
  <2>6. Scaled(k, Rat(p - z, d)) = Rat(c, d) /\ c \in Int
    BY <1>4, <1>12, <2>4
  <2>7. Scaled(after, Plus(Rat(m, d), Scaled(-1, avg))) = Rat(after * (m - z), d)
    BY <1>11, <2>1
  <2>8. after * (m - z) = after * m - after * z /\ after * z \in Int
    BY <1>1
  <2>9. avg \in Fractions
    BY <2>1 DEF Fractions
  <2> HIDE DEF c
  <2>10. Scaled(after, Plus(Rat(m, d), Scaled(-1, avg))) = Rat(after * m - after * z, d)
    BY <2>7, <2>8
  <2> QED
    BY <1>6, <2>3, <2>5, <2>6, <2>8, <2>9, <2>10
<1> QED
  BY <1>7, <1>8, <1>9, <1>10

\* Sums of fractions may be sorted.
LEMMA SortedSums ==
    \A a, b, c, d \in Fractions :
        /\ Plus(Plus(a, b), c) = Plus(Plus(a, c), b)
        /\ Plus(Plus(a, b), Plus(c, d)) = Plus(Plus(a, c), Plus(b, d))
<1> TAKE a, b, c, d \in Fractions
<1>1. Plus(Plus(a, b), c) = Plus(Plus(a, c), b)
  <2>1. Plus(Plus(a, b), c) = Plus(a, Plus(b, c)) /\ Plus(b, c) = Plus(c, b)
    BY FractionLaws
  <2>2. Plus(Plus(a, c), b) = Plus(a, Plus(c, b))
    BY FractionLaws
  <2> QED
    BY <2>1, <2>2
<1>2. Plus(Plus(a, b), Plus(c, d)) = Plus(Plus(a, c), Plus(b, d))
  <2>1. Plus(b, Plus(c, d)) = Plus(c, Plus(b, d))
    <3>1. Plus(b, Plus(c, d)) = Plus(Plus(b, c), d) /\ Plus(c, Plus(b, d)) = Plus(Plus(c, b), d)
      BY FractionLaws
    <3>2. Plus(b, c) = Plus(c, b)
      BY FractionLaws
    <3> QED
      BY <3>1, <3>2
  <2>2. Plus(c, d) \in Fractions /\ Plus(b, d) \in Fractions
    BY FractionLaws
  <2>3. Plus(Plus(a, b), Plus(c, d)) = Plus(a, Plus(b, Plus(c, d)))
    BY <2>2, FractionLaws
  <2>4. Plus(Plus(a, c), Plus(b, d)) = Plus(a, Plus(c, Plus(b, d)))
    BY <2>2, FractionLaws
  <2> QED
    BY <2>1, <2>3, <2>4
<1> QED
  BY <1>1, <1>2

\* What a fill pays or brings in, its fee included.
Paid(side, notional, rate) == Plus(Whole(-side * notional), Scaled(-notional, rate))

\* With a fill, the inventory is worth more by the cash moved and the lots brought.
Earns(own, side, size, notional, rate, mid) ==
    LET after == ApplyFill(own, side, size, Rat(notional, size), rate)
    IN  /\ after \in Inventories /\ Paid(side, notional, rate) \in Fractions
        /\ TotalPnl(own, Whole(mid)) \in Fractions
        /\ TotalPnl(after, Whole(mid)) =
              Plus(Plus(TotalPnl(own, Whole(mid)), Paid(side, notional, rate)), Whole(mid * (side * size)))

\* A fill changes what an inventory is worth, at any price of the market, by the
\* cash it moves and by the lots it brings (types.py apply_fill, total_pnl).
LEMMA FillEarns ==
    ASSUME NEW own \in Inventories, NEW side \in {1, -1}, NEW size \in Positive,
           NEW notional \in Int, NEW rate \in Int \X Positive, NEW mid \in Int
    PROVE  Earns(own, side, size, notional, rate, mid)
<1> DEFINE price == Rat(notional, size)
           after == ApplyFill(own, side, size, price, rate)
           avg == AvgEntry(own, side, size, price)
           C == Closed(own, side, size, price)
           F == Times(Scaled(size, price), rate)
           R == own.realized
           f == own.fees
           pos == own.position
           U == Scaled(pos, Plus(Whole(mid), Scaled(-1, own.avgEntry)))
           V == Scaled(pos + side * size, Plus(Whole(mid), Scaled(-1, avg)))
           W == Whole(-side * notional)
           X == Whole(mid * (side * size))
<1>1. /\ R \in Fractions /\ f \in Fractions /\ own.avgEntry \in Fractions /\ pos \in Int
      /\ size \in Int /\ side \in Int /\ price \in Fractions /\ size > 0
  BY DEF Inventories, Positive, Fractions
<1>2. PICK d \in Positive, z \in Int, p \in Int : own.avgEntry = Rat(z, d) /\ price = Rat(p, d)
  <2>1. \E d \in Positive : \E x, y, u \in Int :
               own.avgEntry = Rat(x, d) /\ price = Rat(y, d) /\ price = Rat(u, d)
    BY <1>1, Common
  <2> QED
    BY <2>1
<1>3. size * p = notional * d
  <2>1. p * size = notional * d
    BY <1>2, RatEqual
  <2> QED
    BY <1>1, <2>1
<1>4. PICK m \in Int : m = mid * d /\ Whole(mid) = Rat(m, d)
  <2>1. \A e \in Positive : Whole(mid) = Rat(mid * e, e)
    BY Wholes
  <2> QED
    BY <2>1 DEF Positive
<1>5. PICK c \in Int, v \in Int :
           /\ avg \in Fractions
           /\ C = Rat(c, d) /\ V = Rat((pos + side * size) * m - v, d)
           /\ c - v = -(pos * z) - side * (size * p)
  <2> HIDE DEF price
  <2>1. own.avgEntry = Rat(z, d) /\ price = Rat(p, d)
    BY <1>2
  <2>2. Balanced(own, side, size, p, z, d, m)
    BY <2>1, FillBalances
  <2> QED
    BY <1>4, <2>1, <2>2 DEF Balanced
<1> HIDE DEF price
<1>6. U = Rat(pos * (m - z), d)
  <2>1. \A k \in Int : Scaled(k, Plus(Rat(m, d), Scaled(-1, Rat(z, d)))) = Rat(k * (m - z), d)
    BY UnrealizedOf
  <2>2. Scaled(pos, Plus(Rat(m, d), Scaled(-1, Rat(z, d)))) = Rat(pos * (m - z), d)
    BY <1>1, <2>1
  <2>3. own.avgEntry = Rat(z, d) /\ Whole(mid) = Rat(m, d)
    BY <1>2, <1>4
  <2> QED
    BY <2>2, <2>3
<1>7. F \in Fractions /\ Scaled(-notional, rate) = Scaled(-1, F) /\ Scaled(-1, F) \in Fractions
  <2>1. PICK r \in Int, q \in Positive : rate = <<r, q>>
    OBVIOUS
  <2>2. Scaled(size, price) = Rat(notional, 1) /\ 1 \in Positive
    <3>1. \A k \in Int : Scaled(k, Rat(notional, size)) = Rat(k * notional, size)
      BY RatAlgebra
    <3>2. 1 \in Positive /\ size * notional = notional * size /\ 1 * size = size
      BY <1>1 DEF Positive
    <3>3. Rat(notional * size, 1 * size) = Rat(notional, 1)
      BY <3>2, RatWiden
    <3> QED
      BY <1>1, <3>1, <3>2, <3>3 DEF price
  <2>3. PICK n \in Int : n = notional * r
    OBVIOUS
  <2>4. F = Rat(n, q)
    <3>1. \A j \in Int, e \in Positive : Times(Rat(notional, 1), <<j, e>>) = Rat(notional * j, 1 * e)
      BY <2>2, RatAlgebra
    <3>2. 1 * q = q
      BY DEF Positive
    <3> QED
      BY <2>1, <2>2, <2>3, <3>1, <3>2
  <2>5. -1 * n \in Int /\ -notional * r = -1 * n
    BY <2>3
  <2>6. Scaled(-notional, rate) = Rat(-1 * n, q)
    BY <2>1, <2>5 DEF Scaled
  <2>7. Scaled(-1, Rat(n, q)) = Rat(-1 * n, q)
    <3>1. \A k \in Int : Scaled(k, Rat(n, q)) = Rat(k * n, q)
      BY RatAlgebra
    <3> QED
      BY <3>1
  <2> QED
    BY <2>4, <2>5, <2>6, <2>7 DEF Fractions
<1>8. PICK w \in Int, x \in Int :
           W = Rat(w, d) /\ X = Rat(x, d) /\ w = -side * (notional * d) /\ x = m * (side * size)
  <2>1. \A n \in Int : Whole(n) = Rat(n * d, d)
    BY Wholes
  <2>2. d \in Int /\ -side * notional \in Int /\ mid * (side * size) \in Int
    BY <1>1 DEF Positive
  <2>3. /\ (-side * notional) * d = -side * (notional * d)
        /\ (mid * (side * size)) * d = m * (side * size)
    BY <1>1, <1>4, <2>2
  <2>4. W = Rat(-side * (notional * d), d) /\ X = Rat(m * (side * size), d)
    BY <2>1, <2>2, <2>3
  <2>5. -side * (notional * d) \in Int /\ m * (side * size) \in Int
    BY <1>1, <2>2
  <2> QED
    BY <2>4, <2>5
<1>9. Plus(C, V) = Plus(Plus(U, W), X)
  <2>1. PICK n \in Int : n = pos
    BY <1>1
  <2>2. PICK a \in Int : a = (n + side * size) * m - v
    BY <1>1
  <2>3. PICK b \in Int : b = n * (m - z)
    OBVIOUS
  <2>4. \A i, j \in Int : Plus(Rat(i, d), Rat(j, d)) = Rat(i + j, d)
    BY RatAlgebra
  <2>5. c + a = (b + w) + x
    <3>1. PICK s \in Int : s = side * size
      BY <1>1
    <3>2. side * (size * p) = side * (notional * d)
      BY <1>3
    <3>3. c - v = -(n * z) + w
      BY <1>5, <1>8, <2>1, <3>2
    <3>4. a = n * m + s * m - v /\ b = n * m - n * z /\ x = s * m
      BY <1>8, <2>2, <2>3, <3>1
    <3> QED
      BY <3>3, <3>4
  <2>6. Plus(C, V) = Rat(c + a, d)
    BY <1>5, <2>1, <2>2, <2>4
  <2>7. Plus(U, W) = Rat(b + w, d) /\ b + w \in Int
    <3>1. U = Rat(b, d) /\ W = Rat(w, d) /\ b + w \in Int
      BY <1>6, <1>8, <2>1, <2>3
    <3> QED
      BY <2>4, <3>1
  <2>8. Plus(Plus(U, W), X) = Rat((b + w) + x, d)
    BY <1>8, <2>4, <2>7
  <2> QED
    BY <2>5, <2>6, <2>8
<1>10. TotalPnl(own, Whole(mid)) = Plus(Plus(R, Scaled(-1, f)), U)
  BY DEF TotalPnl
<1>11. /\ after = [position |-> pos + side * size, avgEntry |-> avg,
                   realized |-> Plus(R, C), fees |-> Plus(f, F)]
       /\ TotalPnl(after, Whole(mid)) = Plus(Plus(Plus(R, C), Scaled(-1, Plus(f, F))), V)
  BY DEF TotalPnl, ApplyFill
<1>12. U \in Fractions /\ V \in Fractions /\ W \in Fractions /\ X \in Fractions /\ C \in Fractions
  <2>1. pos * (m - z) \in Int /\ (pos + side * size) * m - v \in Int
    BY <1>1
  <2> QED
    BY <1>5, <1>6, <1>8, <2>1 DEF Fractions
<1> DEFINE E == Scaled(-1, f)
           G == Scaled(-1, F)
<1>13. E \in Fractions /\ G \in Fractions /\ Scaled(-1, Plus(f, F)) = Plus(E, G)
  <2>1. \A a \in Fractions, k \in Int : Scaled(k, a) \in Fractions
    BY FractionLaws
  <2>2. E \in Fractions /\ G \in Fractions
    <3>1. -1 \in Int
      OBVIOUS
    <3> QED
      BY <1>1, <1>7, <2>1, <3>1
  <2>3. Scaled(-1, Plus(f, F)) = Plus(E, G)
    <3>1. \A a, b \in Fractions : Scaled(-1, Plus(a, b)) = Plus(Scaled(-1, a), Scaled(-1, b))
      BY FractionLaws
    <3> QED
      BY <1>1, <1>7, <3>1
  <2> QED
    BY <2>2, <2>3
<1>14. Plus(W, Scaled(-notional, rate)) = Plus(W, G)
  BY <1>7
<1> HIDE DEF C, F, R, f, U, V, W, X, E, G
<1> DEFINE T == Plus(R, E)
<1>15. /\ T \in Fractions /\ Plus(C, G) \in Fractions /\ Plus(W, G) \in Fractions
       /\ Plus(U, W) \in Fractions /\ Plus(C, V) \in Fractions /\ Plus(T, U) \in Fractions
  BY <1>1, <1>12, <1>13, FractionLaws
<1>16. Plus(Plus(Plus(R, C), Plus(E, G)), V) = Plus(Plus(T, Plus(C, V)), G)
  <2>1. Plus(Plus(R, C), Plus(E, G)) = Plus(T, Plus(C, G))
    BY <1>1, <1>12, <1>13, SortedSums
  <2>2. Plus(Plus(T, Plus(C, G)), V) = Plus(T, Plus(Plus(C, G), V))
    BY <1>12, <1>15, FractionLaws
  <2>3. Plus(Plus(C, G), V) = Plus(Plus(C, V), G)
    BY <1>12, <1>13, SortedSums
  <2>4. Plus(T, Plus(Plus(C, V), G)) = Plus(Plus(T, Plus(C, V)), G)
    BY <1>13, <1>15, FractionLaws
  <2> QED
    BY <2>1, <2>2, <2>3, <2>4
<1>17. Plus(Plus(Plus(T, U), Plus(W, G)), X) = Plus(Plus(T, Plus(Plus(U, W), X)), G)
  <2>1. Plus(Plus(T, U), Plus(W, G)) = Plus(Plus(Plus(T, U), W), G)
    BY <1>12, <1>13, <1>15, FractionLaws
  <2>2. Plus(Plus(T, U), W) = Plus(T, Plus(U, W))
    BY <1>12, <1>15, FractionLaws
  <2>3. Plus(T, Plus(U, W)) \in Fractions
    BY <1>15, FractionLaws
  <2>4. Plus(Plus(Plus(T, Plus(U, W)), G), X) = Plus(Plus(Plus(T, Plus(U, W)), X), G)
    BY <1>12, <1>13, <2>3, SortedSums
  <2>5. Plus(Plus(T, Plus(U, W)), X) = Plus(T, Plus(Plus(U, W), X))
    BY <1>12, <1>15, FractionLaws
  <2> QED
    BY <2>1, <2>2, <2>4, <2>5
<1>18. TotalPnl(after, Whole(mid)) = Plus(Plus(TotalPnl(own, Whole(mid)), Plus(W, G)), X)
  <2>1. TotalPnl(after, Whole(mid)) = Plus(Plus(Plus(R, C), Plus(E, G)), V)
    BY <1>11, <1>13
  <2>2. TotalPnl(own, Whole(mid)) = Plus(T, U)
    BY <1>10 DEF E
  <2> QED
    BY <1>9, <1>16, <1>17, <2>1, <2>2
<1>19. after \in Inventories
  <2>1. Plus(R, C) \in Fractions /\ Plus(f, F) \in Fractions /\ pos + side * size \in Int
    <3>1. R \in Fractions /\ C \in Fractions /\ f \in Fractions /\ F \in Fractions
      BY <1>1, <1>7, <1>12
    <3>2. pos + side * size \in Int
      BY <1>1
    <3> QED
      BY <3>1, <3>2, FractionLaws
  <2> QED
    BY <1>5, <1>11, <2>1 DEF Inventories
<1>20. TotalPnl(own, Whole(mid)) \in Fractions
  BY <1>10, <1>15 DEF E
<1> QED
  BY <1>14, <1>15, <1>18, <1>19, <1>20 DEF Earns, Paid, after, price, W, X
-----------------------------------------------------------------------------
(* Totals.                                                                 *)

\* The sum of two fractions, as a function.
Addends == [p \in Fractions \X Fractions |-> Plus(p[1], p[2])]

\* g is the total of f over every part of S.
TotalsTo(g, f, S) ==
    /\ g[{}] = Whole(0)
    /\ \A s \in SUBSET S : \A y \in s : g[s] = Plus(f[y], g[s \ {y}])
    /\ \A s \in SUBSET S : FoldFunctionOnSet(Plus, Whole(0), f, s) = g[s]

\* Fractions of a finite set are added in any order.
LEMMA TotalsFold ==
    ASSUME NEW S, IsFiniteSet(S), NEW f, \A x \in S : f[x] \in Fractions
    PROVE  \E g \in [SUBSET S -> Fractions] : TotalsTo(g, f, S)
<1>1. /\ Addends \in [Fractions \X Fractions -> Fractions]
      /\ \A a, b \in Fractions : Addends[<<a, b>>] = Plus(a, b)
  <2>1. \A p \in Fractions \X Fractions : Plus(p[1], p[2]) \in Fractions
    BY FractionLaws
  <2> QED
    BY <2>1 DEF Addends
<1>2. Whole(0) \in Fractions
  BY Wholes
<1>3. PICK g \in [SUBSET S -> Fractions] : FoldsTo(g, Addends, Whole(0), f, S)
  <2>1. \A a, b, c \in Fractions :
           Addends[<<a, Addends[<<b, c>>]>>] = Addends[<<b, Addends[<<a, c>>]>>]
    <3> TAKE a, b, c \in Fractions
    <3>1. Plus(b, c) \in Fractions /\ Plus(a, c) \in Fractions
      BY FractionLaws
    <3>2. /\ Addends[<<b, c>>] = Plus(b, c) /\ Addends[<<a, c>>] = Plus(a, c)
          /\ Addends[<<a, Plus(b, c)>>] = Plus(a, Plus(b, c))
          /\ Addends[<<b, Plus(a, c)>>] = Plus(b, Plus(a, c))
      BY <1>1, <3>1
    <3>3. Plus(a, Plus(b, c)) = Plus(Plus(a, b), c) /\ Plus(b, Plus(a, c)) = Plus(Plus(b, a), c)
      BY FractionLaws
    <3>4. Plus(a, b) = Plus(b, a)
      BY FractionLaws
    <3> QED
      BY <3>2, <3>3, <3>4
  <2> QED
    BY <1>1, <1>2, <2>1, FoldsExist
<1>4. g[{}] = Whole(0) /\ \A s \in SUBSET S : \A y \in s : g[s] = Addends[<<f[y], g[s \ {y}]>>]
  BY <1>3 DEF FoldsTo
<1>5. \A s \in SUBSET S : \A y \in s : g[s] = Plus(f[y], g[s \ {y}])
  <2> TAKE s \in SUBSET S
  <2> TAKE y \in s
  <2>1. f[y] \in Fractions /\ g[s \ {y}] \in Fractions
    BY <1>3
  <2> QED
    BY <1>1, <1>4, <2>1
<1>6. ASSUME NEW t \in SUBSET S PROVE FoldFunctionOnSet(Plus, Whole(0), f, t) = g[t]
  <2> DEFINE Adds(h) == h = [s \in SUBSET t |-> IF s = {} THEN Whole(0)
                               ELSE Plus(f[CHOOSE x \in s : TRUE], h[s \ {CHOOSE x \in s : TRUE}])]
             k == [s \in SUBSET t |-> g[s]]
  <2>1. \A s \in SUBSET t : s # {} => (CHOOSE x \in s : TRUE) \in s
    OBVIOUS
  <2>2. Adds(k)
    <3> SUFFICES ASSUME NEW s \in SUBSET t
                 PROVE  k[s] = IF s = {} THEN Whole(0)
                               ELSE Plus(f[CHOOSE x \in s : TRUE], k[s \ {CHOOSE x \in s : TRUE}])
      OBVIOUS
    <3> DEFINE x == CHOOSE x \in s : TRUE
    <3>1. k[s] = g[s] /\ k[s \ {x}] = g[s \ {x}]
      OBVIOUS
    <3>2. s # {} => x \in s
      BY <2>1
    <3>3. s \in SUBSET S
      OBVIOUS
    <3> HIDE DEF x, k
    <3> QED
      BY <1>4, <1>5, <3>1, <3>2, <3>3 DEF x
  <2>3. ASSUME NEW h, Adds(h) PROVE h = k
    <3> DEFINE W == {s \in SUBSET t : h[s] = k[s]}
    <3>1. DOMAIN h = SUBSET t /\ h[{}] = Whole(0) /\ k[{}] = Whole(0)
      BY <1>4, <2>3
    <3>2. \A s \in SUBSET t : s # {} /\ s \ {CHOOSE x \in s : TRUE} \in W => s \in W
      <4> TAKE s \in SUBSET t
      <4>1. s # {} => /\ h[s] = Plus(f[CHOOSE x \in s : TRUE], h[s \ {CHOOSE x \in s : TRUE}])
                      /\ k[s] = Plus(f[CHOOSE x \in s : TRUE], k[s \ {CHOOSE x \in s : TRUE}])
        BY <2>2, <2>3
      <4> HIDE DEF k
      <4> QED
        BY <4>1
    <3>3. {} \in W
      BY <3>1
    <3>4. IsFiniteSet(t)
      BY FS_Subset
    <3> HIDE DEF W
    <3>5. \A s \in SUBSET t : s \in W
      BY <3>2, <3>3, <3>4, SubsetBySubset
    <3>6. \A s \in SUBSET t : h[s] = k[s]
      BY <3>5 DEF W
    <3> QED
      BY <2>3, <3>6
  <2>4. t \in SUBSET t /\ k[t] = g[t]
    OBVIOUS
  <2> HIDE DEF k
  <2>5. FoldFunctionOnSet(Plus, Whole(0), f, t) = k[t]
    BY <2>2, <2>3 DEF FoldFunctionOnSet, MapThenFoldSet
  <2> QED
    BY <2>4, <2>5
<1>7. TotalsTo(g, f, S)
  BY <1>4, <1>5, <1>6 DEF TotalsTo
<1> QED
  BY <1>3, <1>7

\* Parts alike have one total.
LEMMA TotalsAlike ==
    ASSUME NEW S, IsFiniteSet(S), NEW T, IsFiniteSet(T), NEW R \in SUBSET (S \cap T),
           NEW f, NEW e, \A x \in S : f[x] \in Fractions, \A x \in T : e[x] \in Fractions,
           \A x \in R : e[x] = f[x],
           NEW g, NEW h, TotalsTo(g, f, S), TotalsTo(h, e, T)
    PROVE  g[R] = h[R]
<1> DEFINE W == {s \in SUBSET R : g[s] = h[s]}
<1>1. {} \in W
  BY DEF TotalsTo
<1>2. \A s \in SUBSET R : s # {} /\ s \ {CHOOSE x \in s : TRUE} \in W => s \in W
  <2> SUFFICES ASSUME NEW s \in SUBSET R, s # {}, s \ {CHOOSE x \in s : TRUE} \in W
               PROVE  g[s] = h[s]
    OBVIOUS
  <2> DEFINE x == CHOOSE x \in s : TRUE
  <2>1. x \in s /\ s \in SUBSET S /\ s \in SUBSET T /\ e[x] = f[x]
    OBVIOUS
  <2>2. g[s \ {x}] = h[s \ {x}]
    OBVIOUS
  <2> HIDE DEF x
  <2>3. g[s] = Plus(f[x], g[s \ {x}]) /\ h[s] = Plus(e[x], h[s \ {x}])
    BY <2>1 DEF TotalsTo
  <2> QED
    BY <2>1, <2>2, <2>3
<1>3. IsFiniteSet(R)
  BY FS_Subset
<1> HIDE DEF W
<1>4. R \in W
  BY <1>1, <1>2, <1>3, SubsetBySubset
<1> QED
  BY <1>4 DEF W

\* A total changes with one amount by what that amount does, and with an amount
\* that joins by all of it.
LEMMA TotalLaws ==
    ASSUME NEW S, IsFiniteSet(S), NEW f \in [S -> Fractions]
    PROVE  /\ Total(f) \in Fractions
           /\ S = {} => Total(f) = Whole(0)
           /\ \A y \in S, a \in Fractions :
                 \A e \in [S -> Fractions] :
                    e[y] = Plus(f[y], a) /\ (\A x \in S \ {y} : e[x] = f[x]) =>
                       Total(e) = Plus(Total(f), a)
           /\ \A y : \A e \in [S \cup {y} -> Fractions] :
                 y \notin S /\ (\A x \in S : e[x] = f[x]) => Total(e) = Plus(Total(f), e[y])
<1>1. PICK g \in [SUBSET S -> Fractions] : TotalsTo(g, f, S)
  BY TotalsFold
<1>2. Total(f) = g[S] /\ g[S] \in Fractions
  BY <1>1 DEF Total, FoldFunction, TotalsTo
<1>3. S = {} => Total(f) = Whole(0)
  BY <1>1, <1>2 DEF TotalsTo
<1>4. ASSUME NEW y \in S, NEW a \in Fractions, NEW e \in [S -> Fractions],
             e[y] = Plus(f[y], a), \A x \in S \ {y} : e[x] = f[x]
      PROVE  Total(e) = Plus(Total(f), a)
  <2>1. PICK h \in [SUBSET S -> Fractions] : TotalsTo(h, e, S)
    BY TotalsFold
  <2>2. Total(e) = h[S]
    BY <2>1 DEF Total, FoldFunction, TotalsTo
  <2>3. g[S \ {y}] = h[S \ {y}]
    <3> DEFINE R == S \ {y}
    <3>1. R \in SUBSET (S \cap S) /\ \A x \in R : e[x] = f[x]
      BY <1>4
    <3> HIDE DEF R
    <3>2. g[R] = h[R]
      BY <1>1, <2>1, <3>1, TotalsAlike
    <3> QED
      BY <3>2 DEF R
  <2>4. g[S] = Plus(f[y], g[S \ {y}]) /\ h[S] = Plus(e[y], h[S \ {y}])
    BY <1>1, <2>1 DEF TotalsTo
  <2>5. f[y] \in Fractions /\ g[S \ {y}] \in Fractions
    BY <1>1
  <2>6. Plus(Plus(f[y], a), g[S \ {y}]) = Plus(Plus(f[y], g[S \ {y}]), a)
    BY <2>5, SortedSums
  <2> QED
    BY <1>2, <1>4, <2>2, <2>3, <2>4, <2>6
<1>5. ASSUME NEW y, NEW e \in [S \cup {y} -> Fractions], y \notin S, \A x \in S : e[x] = f[x]
      PROVE  Total(e) = Plus(Total(f), e[y])
  <2> DEFINE T == S \cup {y}
  <2>1. IsFiniteSet(T) /\ T \ {y} = S /\ y \in T /\ e \in [T -> Fractions] /\ S \in SUBSET (S \cap T)
    BY <1>5, FS_AddElement
  <2> HIDE DEF T
  <2>2. PICK h \in [SUBSET T -> Fractions] : TotalsTo(h, e, T)
    BY <2>1, TotalsFold
  <2>3. Total(e) = h[T]
    BY <2>1, <2>2 DEF Total, FoldFunction, TotalsTo
  <2>4. g[S] = h[S]
    BY <1>1, <1>5, <2>1, <2>2, TotalsAlike
  <2>5. h[T] = Plus(e[y], h[S])
    BY <2>1, <2>2 DEF TotalsTo
  <2>6. e[y] \in Fractions
    BY <2>1
  <2> QED
    <3>1. \A a, b \in Fractions : Plus(a, b) = Plus(b, a)
      BY FractionLaws
    <3>2. Plus(e[y], g[S]) = Plus(g[S], e[y])
      BY <1>2, <2>6, <3>1
    <3> QED
      BY <1>2, <2>3, <2>4, <2>5, <3>2
<1> QED
  BY <1>2, <1>3, <1>4, <1>5
-----------------------------------------------------------------------------
(* The accounts (types.py 150-190, portfolio.py 20-36).                    *)

\* Sums of whole numbers are sums of fractions.
LEMMA WholeSums ==
    \A m, n \in Int : Whole(m) \in Fractions /\ Plus(Whole(m), Whole(n)) = Whole(m + n)
<1> TAKE m, n \in Int
<1>1. 1 \in Positive /\ m * 1 = m /\ n * 1 = n /\ m + n \in Int /\ (m + n) * 1 = m + n
  BY DEF Positive
<1>2. \A k \in Int : Whole(k) \in Fractions /\ Whole(k) = Rat(k * 1, 1)
  BY <1>1, Wholes
<1>3. \A x, y \in Int : Plus(Rat(x, 1), Rat(y, 1)) = Rat(x + y, 1)
  BY <1>1, RatAlgebra
<1>4. Whole(m) = Rat(m, 1) /\ Whole(n) = Rat(n, 1) /\ Whole(m + n) = Rat(m + n, 1)
  BY <1>1, <1>2
<1> QED
  BY <1>1, <1>2, <1>3, <1>4

\* An inventory nothing was filled into is worth nothing (types.py 141-146).
LEMMA FlatIsNothing ==
    ASSUME NEW mid \in Int
    PROVE  Flat \in Inventories /\ TotalPnl(Flat, Whole(mid)) = Whole(0)
<1>1. 1 \in Positive /\ 0 \in Int /\ -1 \in Int /\ mid * 1 = mid /\ 0 * 1 = 0
  BY DEF Positive
<1>2. \A k \in Int : Whole(k) \in Fractions /\ Whole(k) = Rat(k * 1, 1)
  BY <1>1, Wholes
<1>3. Whole(0) = Rat(0, 1) /\ Whole(mid) = Rat(mid, 1)
  BY <1>1, <1>2
<1>4. Scaled(-1, Whole(0)) = Rat(0, 1)
  <2>1. \A k \in Int : Scaled(k, Rat(0, 1)) = Rat(k * 0, 1)
    BY <1>1, RatAlgebra
  <2>2. \A k \in Int : k * 0 = 0
    OBVIOUS
  <2> QED
    BY <1>1, <1>3, <2>1, <2>2
<1>5. Scaled(0, Plus(Whole(mid), Scaled(-1, Whole(0)))) = Rat(0, 1)
  <2>1. \A j, x, k \in Int : Scaled(k, Plus(Rat(j, 1), Scaled(-1, Rat(x, 1)))) = Rat(k * (j - x), 1)
    BY <1>1, UnrealizedOf
  <2>2. 0 * (mid - 0) = 0
    OBVIOUS
  <2> QED
    BY <1>1, <1>3, <2>1, <2>2
<1>6. Plus(Rat(0, 1), Rat(0, 1)) = Rat(0, 1)
  <2>1. \A x, y \in Int : Plus(Rat(x, 1), Rat(y, 1)) = Rat(x + y, 1)
    BY <1>1, RatAlgebra
  <2> QED
    BY <1>1, <2>1
<1>7. TotalPnl(Flat, Whole(mid)) = Whole(0)
  BY <1>3, <1>4, <1>5, <1>6 DEF TotalPnl, Flat
<1> QED
  BY <1>1, <1>2, <1>7 DEF Flat, Inventories

\* Mid prices of the symbols.
Prices == [Symbols -> {0, 1}]

\* Inventories of some of the symbols.
Holdings(p) == DOMAIN p \subseteq Symbols /\ p \in [DOMAIN p -> Inventories]

\* What every position is worth at the mids.
Held(p, mids) == [s \in DOMAIN p |-> TotalPnl(p[s], Whole(mids[s]))]

\* The portfolio is worth their total, for every symbol held has a mid (portfolio.py 20-36).
LEMMA PortfolioIsTotal ==
    ASSUME NEW p, Holdings(p), NEW mids \in Prices
    PROVE  /\ PortfolioPnl(p, [s \in Symbols |-> Whole(mids[s])]) = Total(Held(p, mids))
           /\ IsFiniteSet(DOMAIN p) /\ Held(p, mids) \in [DOMAIN p -> Fractions]
<1>1. DOMAIN p \subseteq Symbols /\ IsFiniteSet(DOMAIN p) /\ \A s \in DOMAIN p : p[s] \in Inventories
  BY StreamAssumption, FS_Subset DEF Holdings
<1>2. \A s \in DOMAIN p : mids[s] \in Int
  BY <1>1 DEF Prices
<1>3. PortfolioPnl(p, [s \in Symbols |-> Whole(mids[s])]) = Total(Held(p, mids))
  <2> DEFINE m == [s \in Symbols |-> Whole(mids[s])]
             f == [s \in DOMAIN p |-> TotalPnl(p[s], IF s \in DOMAIN m THEN m[s] ELSE p[s].avgEntry)]
  <2>1. f = Held(p, mids)
    BY <1>1 DEF Held
  <2>2. PortfolioPnl(p, m) = Total(f)
    BY DEF PortfolioPnl
  <2> HIDE DEF f
  <2> QED
    BY <2>1, <2>2
<1>4. \A s \in DOMAIN p : TotalPnl(p[s], Whole(mids[s])) \in Fractions
  <2> TAKE s \in DOMAIN p
  <2>1. 1 \in {1, -1} /\ 1 \in Positive /\ 0 \in Int /\ <<0, 1>> \in Int \X Positive
    BY DEF Positive
  <2>2. p[s] \in Inventories /\ mids[s] \in Int
    BY <1>1, <1>2
  <2> QED
    BY <2>1, <2>2, FillEarns DEF Earns
<1> QED
  BY <1>1, <1>3, <1>4 DEF Held

\* A fill changes what the portfolio is worth by the cash it moves and the lots
\* it brings, whether or not the symbol was held before (portfolio.py 14-18).
LEMMA PortfolioEarns ==
    ASSUME NEW p, Holdings(p), NEW mids \in Prices, NEW s \in Symbols,
           NEW side \in {1, -1}, NEW size \in Positive, NEW notional \in Int,
           NEW rate \in Int \X Positive, NEW q,
           q = PortfolioFill(p, s, side, size, Rat(notional, size), rate)
    PROVE  /\ Holdings(q)
           /\ Total(Held(q, mids)) =
                 Plus(Total(Held(p, mids)),
                      Plus(Paid(side, notional, rate), Whole(mids[s] * (side * size))))
<1> DEFINE held == IF s \in DOMAIN p THEN p[s] ELSE Flat
           after == ApplyFill(held, side, size, Rat(notional, size), rate)
           paid == Paid(side, notional, rate)
           brought == Whole(mids[s] * (side * size))
<1>1. mids[s] \in Int /\ side \in Int /\ size \in Int
  BY DEF Prices, Positive
<1>2. held \in Inventories
  BY FlatIsNothing DEF Holdings
<1>3. /\ DOMAIN q = DOMAIN p \cup {s} /\ q[s] = after
      /\ \A x \in DOMAIN p \ {s} : q[x] = p[x]
  BY DEF PortfolioFill
<1> HIDE DEF held
<1>4. /\ after \in Inventories /\ paid \in Fractions
      /\ TotalPnl(held, Whole(mids[s])) \in Fractions
      /\ TotalPnl(after, Whole(mids[s])) = Plus(Plus(TotalPnl(held, Whole(mids[s])), paid), brought)
  <2>1. Earns(held, side, size, notional, rate, mids[s])
    BY <1>1, <1>2, FillEarns
  <2> QED
    BY <2>1 DEF Earns
<1>5. brought \in Fractions
  <2>1. mids[s] * (side * size) \in Int
    BY <1>1
  <2> QED
    BY <2>1, WholeSums
<1> HIDE DEF after, paid, brought
<1>6. Plus(paid, brought) \in Fractions
  BY <1>4, <1>5, FractionLaws
<1>7. Plus(Plus(TotalPnl(held, Whole(mids[s])), paid), brought) =
         Plus(TotalPnl(held, Whole(mids[s])), Plus(paid, brought))
  BY <1>4, <1>5, FractionLaws
<1>8. Holdings(q)
  <2>1. \A x \in DOMAIN q : q[x] \in Inventories
    BY <1>3, <1>4 DEF Holdings
  <2>2. q = [x \in DOMAIN q |-> q[x]]
    BY DEF PortfolioFill
  <2>3. DOMAIN q \subseteq Symbols
    BY <1>3 DEF Holdings
  <2> QED
    BY <2>1, <2>2, <2>3 DEF Holdings
<1> DEFINE f == Held(p, mids)
           e == Held(q, mids)
           S == DOMAIN p
<1>9. IsFiniteSet(S) /\ f \in [S -> Fractions] /\ e \in [S \cup {s} -> Fractions]
  BY <1>3, <1>8, PortfolioIsTotal
<1>10. /\ \A x \in S \ {s} : e[x] = f[x]
       /\ e[s] = Plus(TotalPnl(held, Whole(mids[s])), Plus(paid, brought))
  BY <1>3, <1>4, <1>7 DEF Held
<1>11. s \in S => f[s] = TotalPnl(held, Whole(mids[s]))
  BY DEF held, Held
<1>12. s \notin S => TotalPnl(held, Whole(mids[s])) = Whole(0)
  BY <1>1, FlatIsNothing DEF held
<1> HIDE DEF f, e, S
<1>13. Total(e) = Plus(Total(f), Plus(paid, brought))
  <2>1. CASE s \in S
    <3>1. e \in [S -> Fractions] /\ e[s] = Plus(f[s], Plus(paid, brought))
      <4>1. S \cup {s} = S
        BY <2>1
      <4> QED
        BY <1>9, <1>10, <1>11, <2>1, <4>1
    <3> QED
      BY <1>6, <1>9, <1>10, <2>1, <3>1, TotalLaws
  <2>2. CASE s \notin S
    <3>1. Total(e) = Plus(Total(f), e[s])
      <4>1. \A x \in S : e[x] = f[x]
        BY <1>10, <2>2
      <4> QED
        BY <1>9, <2>2, <4>1, TotalLaws
    <3>2. e[s] = Plus(paid, brought)
      <4>1. \A a \in Fractions : Plus(a, Whole(0)) = a
        BY FractionLaws
      <4>2. \A a \in Fractions : Plus(Whole(0), a) = Plus(a, Whole(0))
        BY Wholes, FractionLaws
      <4> QED
        BY <1>6, <1>10, <1>12, <2>2, <4>1, <4>2
    <3> QED
      BY <3>1, <3>2
  <2> QED
    BY <2>1, <2>2
<1> QED
  BY <1>8, <1>13 DEF e, f, paid, brought

\* What a taker order pays is a whole number of ticks (taker.py 25-60).
LEMMA NotionalIsWhole ==
    ASSUME NEW b \in Books, NEW id \in OrderIds
    PROVE  TakerNotional(OrderOf[id], b) \in Int
<1> DEFINE o == OrderOf[id]
           side == OppositeSide(o, b)
           taken == TakerSize(o, b)
           Better(p) == {q \in DOMAIN side : o.side * q < o.side * p}
           before == [p \in DOMAIN side |-> MapThenSumSet(LAMBDA q : side[q], Better(p))]
           f == [p \in DOMAIN side |-> p * Lesser(side[p], Monus(taken, before[p]))]
<1>1. IsFiniteSet(DOMAIN side) /\ DOMAIN side \subseteq Int /\ \A p \in DOMAIN side : side[p] \in Nat
  BY LevelsAreSizes, BookAssumption DEF OppositeSide
<1>2. taken \in Nat
  <2>1. o.size \in Nat
    BY OrderAssumption DEF Order
  <2>2. taken \in 0..o.size
    BY TakesWithinSize
  <2> QED
    BY <2>1, <2>2
<1>3. ASSUME NEW p \in DOMAIN side PROVE before[p] \in Nat
  <2> DEFINE T == Better(p)
  <2>1. IsFiniteSet(T) /\ \A q \in T : side[q] \in Nat
    BY <1>1, FS_Subset
  <2>2. MapThenSumSet(LAMBDA q : side[q], T) = SumFunctionOnSet(side, T)
    BY DEF MapThenSumSet, MapThenFoldSet, SumFunctionOnSet, FoldFunctionOnSet
  <2>3. SumFunctionOnSet(side, T) \in Nat
    BY <2>1, SumOfSizes
  <2>4. before[p] = MapThenSumSet(LAMBDA q : side[q], T)
    OBVIOUS
  <2> QED
    BY <2>2, <2>3, <2>4
<1>4. TakerNotional(o, b) = SumFunctionOnSet(f, DOMAIN side)
  BY DEF TakerNotional, MapThenSumSet, MapThenFoldSet, SumFunctionOnSet, FoldFunctionOnSet
<1> HIDE DEF side, before, taken
<1>5. \A p \in DOMAIN side : f[p] \in Int
  <2> TAKE p \in DOMAIN side
  <2>1. p \in Int /\ side[p] \in Nat /\ before[p] \in Nat
    BY <1>1, <1>3
  <2>2. Monus(taken, before[p]) \in Int
    BY <1>2, <2>1 DEF Monus
  <2>3. Lesser(side[p], Monus(taken, before[p])) \in Int
    BY <2>1, <2>2 DEF Lesser
  <2> QED
    BY <2>1, <2>3
<1> HIDE DEF f
<1>6. SumFunctionOnSet(f, DOMAIN side) \in Int
  BY <1>1, <1>5, SumLaws
<1> QED
  BY <1>4, <1>6

\* What the orders' fills are worth.
Bought(mids) == [id \in OrderIds |-> Whole(mids[SymbolOf[id]] * OrderOf[id].side * got[id])]

\* Amounts are fractions, and they balance.
Accounts ==
    /\ inv \in [Symbols -> Inventories] /\ Holdings(portfolio) /\ cash \in [Symbols -> Fractions]
    /\ PnlIsCash

\* Nothing is owned at first.
LEMMA InitAccounts == Init => Accounts
<1> SUFFICES ASSUME Init PROVE Accounts
  OBVIOUS
<1>1. /\ inv = [s \in Symbols |-> Flat] /\ portfolio = NoPositions
      /\ cash = [s \in Symbols |-> Whole(0)] /\ got = [id \in OrderIds |-> 0]
  BY DEF Init
<1>2. Whole(0) \in Fractions /\ Plus(Whole(0), Whole(0)) = Whole(0)
  BY WholeSums, FractionLaws
<1>3. inv \in [Symbols -> Inventories] /\ Holdings(portfolio) /\ cash \in [Symbols -> Fractions]
  <2>1. 0 \in Int
    OBVIOUS
  <2>2. Flat \in Inventories
    BY <2>1, FlatIsNothing
  <2>3. DOMAIN portfolio = {} /\ portfolio = [s \in {} |-> Flat]
    BY <1>1 DEF NoPositions
  <2>4. Holdings(portfolio)
    BY <2>3 DEF Holdings
  <2> QED
    BY <1>1, <1>2, <2>2, <2>4
<1>4. ASSUME NEW s \in Symbols, NEW mid \in {0, 1}
      PROVE  TotalPnl(inv[s], Whole(mid)) = Plus(cash[s], Whole(mid * inv[s].position))
  <2>1. inv[s] = Flat /\ cash[s] = Whole(0) /\ mid \in Int /\ Flat.position = 0
    BY <1>1 DEF Flat
  <2>2. mid * 0 = 0
    BY <2>1
  <2>3. TotalPnl(Flat, Whole(mid)) = Whole(0)
    BY <2>1, FlatIsNothing
  <2> QED
    BY <1>2, <2>1, <2>2, <2>3
<1>5. ASSUME NEW f, NEW S, IsFiniteSet(S), f = [x \in S |-> Whole(0)]
      PROVE  Total(f) = Whole(0)
  <2>1. PICK g \in [SUBSET S -> Fractions] : TotalsTo(g, f, S)
    <3>1. \A x \in S : f[x] \in Fractions
      BY <1>2, <1>5
    <3> QED
      BY <1>5, <3>1, TotalsFold
  <2> DEFINE W == {s \in SUBSET S : g[s] = Whole(0)}
  <2>2. {} \in W
    BY <2>1 DEF TotalsTo
  <2>3. \A s \in SUBSET S : s # {} /\ s \ {CHOOSE x \in s : TRUE} \in W => s \in W
    <3> SUFFICES ASSUME NEW s \in SUBSET S, s # {}, s \ {CHOOSE x \in s : TRUE} \in W
                 PROVE  g[s] = Whole(0)
      OBVIOUS
    <3> DEFINE x == CHOOSE x \in s : TRUE
    <3>1. x \in s /\ g[s \ {x}] = Whole(0)
      OBVIOUS
    <3> HIDE DEF x
    <3>2. g[s] = Plus(f[x], g[s \ {x}])
      BY <2>1, <3>1 DEF TotalsTo
    <3>3. f[x] = Whole(0)
      BY <1>5, <3>1
    <3> QED
      BY <1>2, <3>1, <3>2, <3>3
  <2> HIDE DEF W
  <2>4. S \in W
    BY <1>5, <2>2, <2>3, SubsetBySubset
  <2>5. DOMAIN f = S
    BY <1>5
  <2> QED
    BY <2>1, <2>4, <2>5 DEF W, Total, FoldFunction, TotalsTo
<1>6. ASSUME NEW mids \in Prices
      PROVE  PortfolioPnl(portfolio, [s \in Symbols |-> Whole(mids[s])]) = Plus(Total(cash), Total(Bought(mids)))
  <2>1. Total(cash) = Whole(0)
    BY <1>1, <1>5, StreamAssumption
  <2>2. Total(Bought(mids)) = Whole(0)
    <3>1. \A id \in OrderIds : mids[SymbolOf[id]] * OrderOf[id].side * got[id] = 0
      <4> TAKE id \in OrderIds
      <4>1. SymbolOf[id] \in Symbols /\ OrderOf[id].side \in Int /\ got[id] = 0
        BY <1>1, OrderAssumption, StreamAssumption DEF Order, BUY, SELL
      <4>2. mids[SymbolOf[id]] \in Int
        BY <4>1 DEF Prices
      <4>3. \A i, j \in Int : i * j * 0 = 0
        OBVIOUS
      <4> QED
        BY <4>1, <4>2, <4>3
    <3>2. Bought(mids) = [id \in OrderIds |-> Whole(0)]
      BY <3>1 DEF Bought
    <3> QED
      BY <1>5, <3>2, StreamAssumption
  <2>3. PortfolioPnl(portfolio, [s \in Symbols |-> Whole(mids[s])]) = Total(Held(portfolio, mids))
    BY <1>3, PortfolioIsTotal
  <2>4. Total(Held(portfolio, mids)) = Whole(0)
    <3>1. Held(portfolio, mids) \in [{} -> Fractions]
      BY <1>1 DEF Held, NoPositions
    <3> QED
      BY <3>1, FS_EmptySet, TotalLaws
  <2> QED
    BY <1>2, <2>1, <2>2, <2>3, <2>4
<1> QED
  BY <1>3, <1>4, <1>6 DEF Accounts, PnlIsCash, Prices, Bought

\* A fill recorded keeps the balance (multi_asset.py 95-113, types.py 150-176).
LEMMA FillAccounts ==
    ASSUME Accounts, at \in Symbols, got \in [OrderIds -> Nat], NEW id \in OrderIds,
           NEW size \in Positive, NEW notional \in Int, NEW rate \in Int \X Positive,
           RecordFill(id, size, notional, rate)
    PROVE  Accounts'
<1> DEFINE side == OrderOf[id].side
           t == SymbolOf[id]
           price == Rat(notional, size)
           paid == Paid(side, notional, rate)
<1>1. side \in {1, -1} /\ t \in Symbols /\ side \in Int /\ size \in Int
  BY OrderAssumption, StreamAssumption DEF Order, BUY, SELL, Positive
<1>2. /\ portfolio' = PortfolioFill(portfolio, t, side, size, price, rate)
      /\ inv' = [inv EXCEPT ![at] = ApplyFill(@, side, size, price, rate)]
      /\ cash' = [cash EXCEPT ![at] = Plus(@, paid)]
      /\ got' = [got EXCEPT ![id] = @ + size]
  BY DEF RecordFill, Paid
<1>3. inv \in [Symbols -> Inventories] /\ Holdings(portfolio) /\ cash \in [Symbols -> Fractions]
  BY DEF Accounts
<1> DEFINE held == inv[at]
           after == ApplyFill(held, side, size, price, rate)
<1>4. held \in Inventories /\ cash[at] \in Fractions /\ held.position \in Int
  BY <1>3 DEF Inventories
<1> HIDE DEF side, t, held
<1>5. /\ after \in Inventories /\ paid \in Fractions
      /\ \A mid \in Int :
            TotalPnl(after, Whole(mid)) =
               Plus(Plus(TotalPnl(held, Whole(mid)), paid), Whole(mid * (side * size)))
  <2>1. ASSUME NEW mid \in Int
        PROVE  /\ after \in Inventories /\ paid \in Fractions
               /\ TotalPnl(after, Whole(mid)) =
                     Plus(Plus(TotalPnl(held, Whole(mid)), paid), Whole(mid * (side * size)))
    <3>1. Earns(held, side, size, notional, rate, mid)
      BY <1>1, <1>4, FillEarns
    <3> QED
      BY <3>1 DEF Earns
  <2>2. 0 \in Int
    OBVIOUS
  <2> HIDE DEF after, paid
  <2> QED
    BY <2>1, <2>2
<1>11. after.position = held.position + side * size
  BY DEF ApplyFill
<1>12. inv' = [inv EXCEPT ![at] = after]
  BY <1>2 DEF held
<1> HIDE DEF price, paid, after
<1>6. Plus(cash[at], paid) \in Fractions
  BY <1>4, <1>5, FractionLaws
<1>7. inv' \in [Symbols -> Inventories] /\ cash' \in [Symbols -> Fractions]
  BY <1>2, <1>3, <1>5, <1>6, <1>12
<1>8. ASSUME NEW s \in Symbols, NEW mid \in {0, 1}
      PROVE  TotalPnl(inv'[s], Whole(mid)) = Plus(cash'[s], Whole(mid * inv'[s].position))
  <2>1. TotalPnl(inv[s], Whole(mid)) = Plus(cash[s], Whole(mid * inv[s].position))
    BY DEF Accounts, PnlIsCash
  <2>2. CASE s # at
    BY <1>2, <1>3, <1>12, <2>1, <2>2
  <2>3. CASE s = at
    <3> DEFINE c == cash[at]
               w == Whole(mid * held.position)
               x == Whole(mid * (side * size))
    <3>1. mid \in Int /\ mid * held.position \in Int /\ mid * (side * size) \in Int
      BY <1>1, <1>4
    <3>2. mid * held.position + mid * (side * size) = mid * after.position
      BY <1>1, <1>4, <1>11, <3>1
    <3>3. w \in Fractions /\ x \in Fractions /\ Plus(w, x) = Whole(mid * after.position)
      BY <3>1, <3>2, WholeSums
    <3>4. inv'[s] = after /\ cash'[s] = Plus(c, paid) /\ TotalPnl(held, Whole(mid)) = Plus(c, w)
      BY <1>2, <1>3, <1>12, <2>1, <2>3 DEF held
    <3>5. TotalPnl(after, Whole(mid)) = Plus(Plus(TotalPnl(held, Whole(mid)), paid), x)
      BY <1>5, <3>1
    <3> HIDE DEF c, w, x
    <3>6. c \in Fractions
      BY <1>4 DEF c
    <3>7. Plus(Plus(c, w), paid) = Plus(Plus(c, paid), w)
      BY <1>5, <3>3, <3>6, SortedSums
    <3>8. Plus(c, paid) \in Fractions
      BY <1>5, <3>6, FractionLaws
    <3>9. Plus(Plus(Plus(c, paid), w), x) = Plus(Plus(c, paid), Plus(w, x))
      BY <3>3, <3>8, FractionLaws
    <3> QED
      BY <3>3, <3>4, <3>5, <3>7, <3>9
  <2> QED
    BY <2>2, <2>3
<1>9. ASSUME NEW mids \in Prices
      PROVE  /\ Holdings(portfolio')
             /\ Total(Held(portfolio', mids)) =
                   Plus(Total(Held(portfolio, mids)), Plus(paid, Whole(mids[t] * (side * size))))
  <2>1. portfolio' = PortfolioFill(portfolio, t, side, size, Rat(notional, size), rate)
    BY <1>2 DEF price
  <2> QED
    BY <1>1, <1>3, <2>1, PortfolioEarns DEF paid
<1>13. Holdings(portfolio')
  <2>1. [s \in Symbols |-> 0] \in Prices
    BY DEF Prices
  <2> QED
    BY <1>9, <2>1
<1>10. ASSUME NEW mids \in Prices
       PROVE  PortfolioPnl(portfolio', [s \in Symbols |-> Whole(mids[s])]) =
                 Plus(Total(cash'), Total(Bought(mids)'))
  <2> DEFINE x == Whole(mids[t] * (side * size))
             P == Total(Held(portfolio, mids))
             f == Bought(mids)
             e == Bought(mids)'
  <2>1. Total(cash') = Plus(Total(cash), paid) /\ Total(cash) \in Fractions
    <3>1. cash'[at] = Plus(cash[at], paid) /\ \A s \in Symbols \ {at} : cash'[s] = cash[s]
      BY <1>2, <1>3
    <3> QED
      BY <1>3, <1>5, <1>7, <3>1, StreamAssumption, TotalLaws
  <2>2. x \in Fractions
    <3>1. mids[t] * (side * size) \in Int
      BY <1>1 DEF Prices
    <3> QED
      BY <3>1, WholeSums
  <2>3. Total(e) = Plus(Total(f), x) /\ Total(f) \in Fractions
    <3>1. ASSUME NEW o \in OrderIds PROVE mids[SymbolOf[o]] \in Int /\ OrderOf[o].side \in Int /\ got[o] \in Int
      <4>1. SymbolOf[o] \in Symbols
        BY StreamAssumption
      <4> QED
        BY <4>1, OrderAssumption DEF Prices, Order, BUY, SELL
    <3>2. ASSUME NEW o \in OrderIds PROVE f[o] \in Fractions
      <4>1. mids[SymbolOf[o]] * OrderOf[o].side * got[o] \in Int
        BY <3>1
      <4>2. f[o] = Whole(mids[SymbolOf[o]] * OrderOf[o].side * got[o])
        BY DEF Bought
      <4> HIDE DEF f
      <4> QED
        BY <4>1, <4>2, WholeSums
    <3>3. ASSUME NEW o \in OrderIds, o # id PROVE e[o] = f[o]
      BY <1>2, <3>3 DEF Bought
    <3>4. e[id] = Plus(f[id], x)
      <4> DEFINE m == mids[t]
                 n == got[id]
      <4>1. m \in Int /\ n \in Int /\ f[id] = Whole(m * side * n)
        BY <3>1 DEF Bought, t, side
      <4>2. got'[id] = n + size
        BY <1>2
      <4>3. e[id] = Whole(m * side * (n + size))
        BY <4>2 DEF Bought, t, side
      <4> HIDE DEF m, n, e, f
      <4>4. m * side * n \in Int /\ m * (side * size) \in Int
        BY <1>1, <4>1
      <4>5. m * side * (n + size) = m * side * n + m * (side * size)
        BY <1>1, <4>1
      <4>6. x = Whole(m * (side * size))
        BY DEF m
      <4> QED
        BY <4>1, <4>3, <4>4, <4>5, <4>6, WholeSums
    <3>5. f \in [OrderIds -> Fractions] /\ e \in [OrderIds -> Fractions]
      <4>1. DOMAIN f = OrderIds /\ DOMAIN e = OrderIds
        BY DEF Bought
      <4>2. \A o \in OrderIds : e[o] \in Fractions
        <5>1. Plus(f[id], x) \in Fractions
          BY <2>2, <3>2, FractionLaws
        <5> QED
          BY <3>2, <3>3, <3>4, <5>1
      <4>3. f = [o \in OrderIds |-> f[o]] /\ e = [o \in OrderIds |-> e[o]]
        BY DEF Bought
      <4> HIDE DEF e, f
      <4> QED
        BY <3>2, <4>2, <4>3
    <3> HIDE DEF e, f, x
    <3> QED
      BY <2>2, <3>3, <3>4, <3>5, StreamAssumption, TotalLaws
  <2>4. P = Plus(Total(cash), Total(f)) /\ P \in Fractions
    <3>1. PortfolioPnl(portfolio, [s \in Symbols |-> Whole(mids[s])]) = Plus(Total(cash), Total(f))
      BY DEF Accounts, PnlIsCash, Prices, Bought
    <3>2. PortfolioPnl(portfolio, [s \in Symbols |-> Whole(mids[s])]) = P
      BY <1>3, PortfolioIsTotal
    <3>3. Plus(Total(cash), Total(f)) \in Fractions
      BY <2>1, <2>3, FractionLaws
    <3> QED
      BY <3>1, <3>2, <3>3
  <2>5. PortfolioPnl(portfolio', [s \in Symbols |-> Whole(mids[s])]) = Plus(P, Plus(paid, x))
    BY <1>9, <1>13, PortfolioIsTotal
  <2> HIDE DEF x, P, e, f
  <2>6. Plus(Plus(Total(cash), Total(f)), Plus(paid, x)) = Plus(Plus(Total(cash), paid), Plus(Total(f), x))
    BY <1>5, <2>1, <2>2, <2>3, SortedSums
  <2>7. PortfolioPnl(portfolio', [s \in Symbols |-> Whole(mids[s])]) = Plus(Total(cash'), Total(e))
    BY <2>1, <2>3, <2>4, <2>5, <2>6
  <2> QED
    BY <2>7 DEF e
<1> QED
  BY <1>7, <1>8, <1>10, <1>13 DEF Accounts, PnlIsCash, Prices, Bought

\* What moves no money keeps the balance.
LEMMA IdleAccounts == Accounts /\ UNCHANGED moneyVars => Accounts'
<1> SUFFICES ASSUME Accounts, UNCHANGED moneyVars PROVE Accounts'
  OBVIOUS
<1>1. inv' = inv /\ portfolio' = portfolio /\ cash' = cash /\ got' = got
  BY DEF moneyVars
<1>2. ASSUME NEW mids \in [Symbols -> {0, 1}]
      PROVE  PortfolioPnl(portfolio', [s \in Symbols |-> Whole(mids[s])]) =
                Plus(Total(cash'),
                     Total([id \in OrderIds |-> Whole(mids[SymbolOf[id]] * OrderOf[id].side * got'[id])]))
  BY <1>1 DEF Accounts, PnlIsCash
<1> QED
  BY <1>1, <1>2 DEF Accounts, PnlIsCash, Holdings

\* Every step keeps the accounts balanced.
LEMMA StepAccounts == OrdersInv /\ Accounts /\ [Next]_vars => Accounts'
<1> SUFFICES ASSUME OrdersInv, Accounts, [Next]_vars PROVE Accounts'
  OBVIOUS
<1>1. /\ at \in Symbols /\ got \in [OrderIds -> Nat] /\ due \in Seq(Fill) /\ placing \in Seq(OrderIds)
      /\ book \in Books \cup {EmptyBook}
  BY DEF OrdersInv, Typed, TypeOK, Fill
<1>2. MakerRate \in Int \X Positive /\ TakerRate \in Int \X Positive
  BY StreamAssumption DEF Positive
<1>3. CASE RecordPassive
  <2> DEFINE f == Head(due)
  <2>1. f \in Fill
    BY <1>1, <1>3, HeadTailProperties DEF RecordPassive
  <2>2. RecordFill(f.id, f.size, OrderOf[f.id].price * f.size, MakerRate)
    BY <1>3 DEF RecordPassive
  <2> HIDE DEF f
  <2>3. f.id \in OrderIds /\ f.size \in Positive /\ f.size \in Int
    BY <2>1 DEF Fill, Positive
  <2>4. OrderOf[f.id].price * f.size \in Int
    <3>1. OrderOf[f.id].price \in Int
      BY <2>3, OrderAssumption DEF Order
    <3> QED
      BY <2>3, <3>1
  <2> QED
    BY <1>1, <1>2, <2>2, <2>3, <2>4, FillAccounts
<1>4. CASE Place
  <2> DEFINE id == Head(placing)
  <2>1. id \in OrderIds /\ (Rest(id) \/ Reject(id) \/ Take(id))
    BY <1>1, <1>4, HeadTailProperties DEF Place
  <2> HIDE DEF id
  <2>2. CASE Rest(id) \/ Reject(id)
    BY <2>2, IdleAccounts DEF Rest, Reject
  <2>3. CASE Take(id)
    <3> DEFINE size == TakerSize(OrderOf[id], book)
               notional == TakerNotional(OrderOf[id], book)
    <3>1. book \in Books
      BY <1>1, <2>3 DEF Take, Crosses, EmptyBook
    <3>2. size \in 0..OrderOf[id].size /\ OrderOf[id].size \in Nat /\ notional \in Int
      BY <2>1, <3>1, TakesWithinSize, NotionalIsWhole, OrderAssumption DEF Order
    <3>3. IF size > 0 THEN RecordFill(id, size, notional, TakerRate) ELSE UNCHANGED moneyVars
      BY <2>3 DEF Take
    <3> HIDE DEF size, notional
    <3>4. CASE size > 0
      <4>1. size \in Positive /\ RecordFill(id, size, notional, TakerRate)
        BY <3>2, <3>3, <3>4 DEF Positive
      <4> QED
        BY <1>1, <1>2, <2>1, <3>2, <4>1, FillAccounts
    <3>5. CASE ~(size > 0)
      BY <3>3, <3>5, IdleAccounts
    <3> QED
      BY <3>4, <3>5
  <2> QED
    BY <2>1, <2>2, <2>3
<1>5. CASE Done \/ UNCHANGED vars
  BY <1>5, IdleAccounts DEF Done, vars
<1>6. ASSUME NEW e \in heap, NEW b, NEW trades, Tick(e, b, trades) PROVE Accounts'
  BY <1>6, IdleAccounts DEF Tick
<1>7. ASSUME NEW new, NEW gone, Act(new, gone) PROVE Accounts'
  BY <1>7, IdleAccounts DEF Act
<1> QED
  BY <1>3, <1>4, <1>5, <1>6, <1>7 DEF Next

\* However orders fill, at the maker's price or over several levels of the book,
\* and however the position turns over, the accounts make no money and lose none:
\* those of the engine and those of the portfolio (types.py 150-190).
THEOREM AccountsBalance == Spec => []PnlIsCash
<1>1. Accounts => PnlIsCash
  BY DEF Accounts
<1> QED
  BY InitMerge, StepMerge, InitOrders, StepOrders, InitAccounts, StepAccounts, <1>1, PTL DEF Spec
-----------------------------------------------------------------------------
(* The drawdown (metrics.py 151-158).                                      *)

\* The loop of _max_drawdown: its first state, and what an iteration makes of it.
Start(v) == [peak |-> v[1], worst |-> Whole(0)]
Fallen(acc, e) ==
    LET peak == Larger(acc.peak, e)
    IN  [peak |-> peak, worst |-> Larger(acc.worst, Minus(peak, e))]

\* h is the state of the loop after the values of every part of the first k.
Loops(h, v, k) ==
    /\ h[{}] = Start(v)
    /\ \A s \in SUBSET (1..k) : s # {} => h[s] = Fallen(h[s \ {Max(s)}], v[Max(s)])

\* The greatest of a few of the first numbers.
LEMMA GreatestOfFirst ==
    ASSUME NEW k \in Nat, NEW s \in SUBSET (1..(k + 1)), s # {}
    PROVE  /\ Max(s) \in s /\ Max(s) \in 1..(k + 1)
           /\ s \ {Max(s)} \in SUBSET (1..k)
           /\ k + 1 \in s => Max(s) = k + 1
           /\ k + 1 \notin s => s \in SUBSET (1..k)
<1>1. IsFiniteSet(s) /\ s \subseteq Int
  <2>1. k + 1 \in Nat /\ s \subseteq Int
    OBVIOUS
  <2>2. IsFiniteSet(1..(k + 1))
    BY <2>1, FirstFew
  <2> QED
    BY <2>1, <2>2, FS_Subset
<1>2. Max(s) \in s /\ \A y \in s : y <= Max(s)
  BY <1>1, LeastAndGreatest
<1>3. Max(s) \in 1..(k + 1)
  BY <1>2
<1>4. ASSUME NEW y \in s, y # Max(s) PROVE y \in 1..k
  BY <1>2, <1>3, <1>4
<1>5. k + 1 \in s => Max(s) = k + 1
  BY <1>2, <1>3
<1>6. k + 1 \notin s => \A y \in s : y \in 1..k
  OBVIOUS
<1> QED
  BY <1>2, <1>3, <1>4, <1>5, <1>6

\* The loop has a state after every part of the values, and ends in that after all.
LEMMA LoopsOver ==
    ASSUME NEW v, NEW n \in Nat, DOMAIN v = 1..n, v # <<>>
    PROVE  \E g : Loops(g, v, n) /\ MaxDrawdown(v) = g[1..n].worst
<1> DEFINE N == {k \in 0..n : \E h : Loops(h, v, k)}
<1>1. 0 \in N
  <2> DEFINE h == [s \in {{}} |-> Start(v)]
  <2>1. 1..0 = {} /\ h[{}] = Start(v)
    OBVIOUS
  <2>2. \A s \in SUBSET (1..0) : s = {}
    BY <2>1
  <2> HIDE DEF h
  <2>3. Loops(h, v, 0)
    BY <2>1, <2>2 DEF Loops
  <2> QED
    BY <2>3
<1>2. ASSUME NEW k \in 0..n, k \in N, k < n PROVE k + 1 \in N
  <2>1. PICK h : Loops(h, v, k)
    BY <1>2
  <2> DEFINE g == [s \in SUBSET (1..(k + 1)) |->
                      IF k + 1 \in s THEN Fallen(h[s \ {k + 1}], v[k + 1]) ELSE h[s]]
  <2>2. k \in Nat /\ k + 1 \in 0..n /\ k + 1 \notin {}
    BY <1>2
  <2>3. g[{}] = Start(v)
    BY <2>1 DEF Loops
  <2>4. ASSUME NEW s \in SUBSET (1..(k + 1)), s # {}
        PROVE  g[s] = Fallen(g[s \ {Max(s)}], v[Max(s)])
    <3>1. /\ Max(s) \in s /\ s \ {Max(s)} \in SUBSET (1..k)
          /\ k + 1 \in s => Max(s) = k + 1
          /\ k + 1 \notin s => s \in SUBSET (1..k)
      BY <2>2, <2>4, GreatestOfFirst
    <3>2. \A r \in SUBSET (1..k) : r \in SUBSET (1..(k + 1)) /\ k + 1 \notin r
      BY <2>2
    <3>3. \A r \in SUBSET (1..k) : g[r] = h[r]
      BY <3>2
    <3>4. g[s] = IF k + 1 \in s THEN Fallen(h[s \ {k + 1}], v[k + 1]) ELSE h[s]
      BY <2>4
    <3> HIDE DEF g
    <3>5. CASE k + 1 \in s
      BY <3>1, <3>3, <3>4, <3>5
    <3>6. CASE k + 1 \notin s
      BY <2>1, <2>4, <3>1, <3>3, <3>4, <3>6 DEF Loops
    <3> QED
      BY <3>5, <3>6
  <2> HIDE DEF g
  <2>5. Loops(g, v, k + 1)
    BY <2>3, <2>4 DEF Loops
  <2> QED
    BY <2>2, <2>5
<1> HIDE DEF N
<1>3. n \in N
  <2>1. \A k \in 0..n : k \in N /\ k < n => k + 1 \in N
    BY <1>2
  <2> QED
    BY <1>1, <2>1, UpTo
<1>4. PICK g : Loops(g, v, n)
  BY <1>3 DEF N
<1> DEFINE D == SUBSET DOMAIN v
           Does(h) == h = [s \in D |-> IF s = {} THEN Start(v) ELSE Fallen(h[s \ {Max(s)}], v[Max(s)])]
           f == [s \in D |-> g[s]]
<1>5. Does(f)
  <2>1. \A s \in D : s \ {Max(s)} \in D
    OBVIOUS
  <2> QED
    BY <1>4, <2>1 DEF Loops
<1>6. ASSUME NEW h, Does(h) PROVE h = f
  <2> DEFINE W == {k \in 0..n : \A s \in SUBSET (1..k) : h[s] = f[s]}
  <2>1. ASSUME NEW s \in D
        PROVE  /\ h[s] = IF s = {} THEN Start(v) ELSE Fallen(h[s \ {Max(s)}], v[Max(s)])
               /\ f[s] = IF s = {} THEN Start(v) ELSE Fallen(f[s \ {Max(s)}], v[Max(s)])
    BY <1>5, <1>6
  <2> HIDE DEF f
  <2>2. 0 \in W
    <3>1. 1..0 = {} /\ {} \in D
      OBVIOUS
    <3>2. h[{}] = f[{}]
      BY <2>1, <3>1
    <3>3. 0 \in 0..n /\ \A s \in SUBSET (1..0) : s = {}
      BY <3>1
    <3> QED
      BY <3>2, <3>3
  <2>3. ASSUME NEW k \in 0..n, k \in W, k < n PROVE k + 1 \in W
    <3>1. k \in Nat /\ k + 1 \in 0..n
      BY <2>3
    <3>2. ASSUME NEW s \in SUBSET (1..(k + 1)) PROVE h[s] = f[s]
      <4>1. s \in D
        BY <2>3
      <4>2. s # {} => s \ {Max(s)} \in SUBSET (1..k)
        BY <3>1, GreatestOfFirst
      <4>3. s # {} => h[s \ {Max(s)}] = f[s \ {Max(s)}]
        BY <2>3, <4>2
      <4> QED
        BY <2>1, <4>1, <4>3
    <3> QED
      BY <3>1, <3>2
  <2> HIDE DEF W
  <2>4. n \in W
    <3>1. \A k \in 0..n : k \in W /\ k < n => k + 1 \in W
      BY <2>3
    <3> QED
      BY <2>2, <3>1, UpTo
  <2>5. \A s \in D : h[s] = f[s]
    BY <2>4 DEF W
  <2> QED
    BY <1>6, <2>5 DEF f
<1>7. f[DOMAIN v] = g[1..n]
  OBVIOUS
<1> HIDE DEF f
<1>8. MaxDrawdown(v) = f[DOMAIN v].worst
  BY <1>5, <1>6 DEF MaxDrawdown, FoldLeft, MapThenFoldSet, Fallen, Start
<1> QED
  BY <1>4, <1>7, <1>8

\* The order of fractions.
Below(a, b) == a[1] * b[2] <= b[1] * a[2]

\* It is that of the numerators over one denominator.
LEMMA RatOrder ==
    ASSUME NEW x \in Int, NEW y \in Int, NEW d \in Positive
    PROVE  Below(Rat(x, d), Rat(y, d)) <=> x <= y
<1> DEFINE a == Rat(x, d)
           b == Rat(y, d)
           p == a[1]
           q == a[2]
           r == b[1]
           s == b[2]
<1>1. p \in Int /\ q \in Positive /\ r \in Int /\ s \in Positive /\ p * d = x * q /\ r * d = y * s
  <2> HIDE DEF a, b
  <2>1. a \in Int \X Positive /\ b \in Int \X Positive /\ a[1] * d = x * a[2] /\ b[1] * d = y * b[2]
    BY RatLowest DEF a, b
  <2> QED
    BY <2>1
<1>2. Below(a, b) <=> p * s <= r * q
  BY DEF Below
<1> HIDE DEF p, q, r, s, a, b
<1>3. \A e \in Positive, i, j \in Int : i <= j <=> i * e <= j * e
  <2> TAKE e \in Positive, i, j \in Int
  <2>1. i <= j => i * e <= j * e
    BY DEF Positive
  <2>2. j < i => j * e < i * e
    BY DEF Positive
  <2>3. i * e \in Int /\ j * e \in Int
    BY DEF Positive
  <2> QED
    BY <2>1, <2>2, <2>3
<1>4. p * s \in Int /\ r * q \in Int /\ q * s \in Positive
  BY <1>1, PositiveProducts DEF Positive
<1>5. (p * s) * d = x * (q * s) /\ (r * q) * d = y * (q * s)
  <2>1. (p * s) * d = (p * d) * s /\ (r * q) * d = (r * d) * q
    BY <1>1 DEF Positive
  <2>2. (x * q) * s = x * (q * s) /\ (y * s) * q = y * (q * s)
    BY <1>1 DEF Positive
  <2> QED
    BY <1>1, <2>1, <2>2
<1>6. p * s <= r * q <=> (p * s) * d <= (r * q) * d
  BY <1>3, <1>4
<1>7. x <= y <=> x * (q * s) <= y * (q * s)
  BY <1>3, <1>4
<1> QED
  BY <1>2, <1>5, <1>6, <1>7 DEF a, b

\* Fractions are ordered, and taking away the same leaves them in order.
LEMMA FractionOrder ==
    \A a, b, c \in Fractions :
        /\ Below(a, a) /\ (Below(a, b) \/ Below(b, a))
        /\ Below(a, b) /\ Below(b, c) => Below(a, c)
        /\ Larger(a, b) \in {a, b} /\ Below(a, Larger(a, b)) /\ Below(b, Larger(a, b))
        /\ Below(b, a) => Larger(a, b) = a
        /\ Minus(a, c) \in Fractions /\ (Below(a, b) => Below(Minus(a, c), Minus(b, c)))
<1> TAKE a, b, c \in Fractions
<1>1. PICK d \in Positive, x \in Int, y \in Int, z \in Int : a = Rat(x, d) /\ b = Rat(y, d) /\ c = Rat(z, d)
  BY Common
<1>2. \A i, j \in Int : Below(Rat(i, d), Rat(j, d)) <=> i <= j
  BY RatOrder
<1>3. \A i, j \in Int : Below(Rat(i, d), Rat(j, d)) \/ Below(Rat(j, d), Rat(i, d))
  BY <1>2
<1>4. Below(a, a) /\ (Below(a, b) \/ Below(b, a))
  BY <1>1, <1>3
<1>5. Below(a, b) /\ Below(b, c) => Below(a, c)
  <2>1. (Below(a, b) <=> x <= y) /\ (Below(b, c) <=> y <= z) /\ (Below(a, c) <=> x <= z)
    BY <1>1, <1>2
  <2> QED
    BY <2>1
<1>6. /\ Larger(a, b) = IF ~Below(b, a) THEN b ELSE a
  <2> DEFINE i == a[1] * b[2]
             j == b[1] * a[2]
  <2>1. i \in Int /\ j \in Int
    <3>1. a \in Int \X Positive /\ b \in Int \X Positive
      BY FractionOf
    <3>2. a[1] \in Int /\ a[2] \in Int /\ b[1] \in Int /\ b[2] \in Int
      BY <3>1 DEF Positive
    <3> QED
      BY <3>2
  <2>2. Larger(a, b) = (IF i < j THEN b ELSE a) /\ (Below(b, a) <=> j <= i)
    BY DEF Larger, Below
  <2> HIDE DEF i, j
  <2>3. i < j <=> ~(j <= i)
    BY <2>1
  <2> QED
    BY <2>2, <2>3
<1>7. Below(b, b)
  BY <1>1, <1>3
<1>8. /\ Larger(a, b) \in {a, b} /\ Below(a, Larger(a, b)) /\ Below(b, Larger(a, b))
      /\ Below(b, a) => Larger(a, b) = a
  BY <1>4, <1>6, <1>7
<1>9. Minus(a, c) \in Fractions /\ (Below(a, b) => Below(Minus(a, c), Minus(b, c)))
  <2>1. \A i \in Int : Scaled(-1, Rat(i, d)) = Rat(-1 * i, d)
    BY RatAlgebra
  <2>2. \A i, j \in Int : Plus(Rat(i, d), Rat(j, d)) = Rat(i + j, d)
    BY RatAlgebra
  <2>3. -1 * z \in Int /\ x + (-1 * z) = x - z /\ y + (-1 * z) = y - z /\ x - z \in Int /\ y - z \in Int
    OBVIOUS
  <2>4. Minus(a, c) = Rat(x - z, d) /\ Minus(b, c) = Rat(y - z, d)
    BY <1>1, <2>1, <2>2, <2>3 DEF Minus
  <2>5. (Below(a, b) <=> x <= y) /\ (Below(Minus(a, c), Minus(b, c)) <=> x - z <= y - z)
    BY <1>1, <1>2, <2>3, <2>4
  <2>6. x <= y => x - z <= y - z
    OBVIOUS
  <2> QED
    BY <2>3, <2>4, <2>5, <2>6 DEF Fractions
<1> QED
  BY <1>4, <1>5, <1>8, <1>9

\* A loss between two of the first k values, in their order, or none.
FallIn(v, k, fall) == fall = Whole(0) \/ \E j \in 1..k : \E i \in 1..j : fall = Minus(v[i], v[j])

\* The loop has seen the highest value and the worst loss so far.
Worst(v, k, acc) ==
    /\ acc.peak \in Fractions /\ (acc.peak = v[1] \/ \E i \in 1..k : acc.peak = v[i])
    /\ \A i \in 1..k : Below(v[i], acc.peak)
    /\ acc.worst \in Fractions /\ FallIn(v, k, acc.worst)
    /\ \A fall : FallIn(v, k, fall) => Below(fall, acc.worst)

\* An iteration keeps them, because the worst loss to a value is from the highest before.
LEMMA LoopKeepsWorst ==
    ASSUME NEW v \in Seq(Fractions), NEW k \in Nat, k < Len(v), NEW acc, Worst(v, k, acc)
    PROVE  Worst(v, k + 1, Fallen(acc, v[k + 1]))
<1> DEFINE e == v[k + 1]
           peak == Larger(acc.peak, e)
           fall == Minus(peak, e)
           worst == Larger(acc.worst, fall)
<1>1. /\ \A i \in 1..(k + 1) : v[i] \in Fractions
      /\ k + 1 \in 1..(k + 1) /\ 1 \in 1..(k + 1)
      /\ \A i \in 1..(k + 1) : i \in 1..k \/ i = k + 1
      /\ \A i \in 1..k : i \in 1..(k + 1)
  OBVIOUS
<1>2. e \in Fractions /\ acc.peak \in Fractions /\ acc.worst \in Fractions
  <2>1. e \in Fractions
    BY <1>1
  <2>2. acc.peak \in Fractions /\ acc.worst \in Fractions
    BY DEF Worst
  <2> QED
    BY <2>1, <2>2
<1>0. \A x, y, z \in Fractions : Below(x, y) /\ Below(y, z) => Below(x, z)
  BY FractionOrder
<1> HIDE DEF e
<1>3. peak \in {acc.peak, e} /\ Below(acc.peak, peak) /\ Below(e, peak) /\ peak \in Fractions
  <2>1. \A x, y \in Fractions : Larger(x, y) \in {x, y} /\ Below(x, Larger(x, y)) /\ Below(y, Larger(x, y))
    BY FractionOrder
  <2> QED
    BY <1>2, <2>1
<1>4. Fallen(acc, e) = [peak |-> peak, worst |-> worst]
  BY DEF Fallen
<1> HIDE DEF peak
<1>5. fall \in Fractions
  BY <1>2, <1>3, FractionOrder
<1> HIDE DEF fall
<1>6. worst \in {acc.worst, fall} /\ Below(acc.worst, worst) /\ Below(fall, worst) /\ worst \in Fractions
  BY <1>2, <1>5, FractionOrder
<1> HIDE DEF worst
<1>7. \E i \in 1..(k + 1) : peak = v[i]
  <2>1. acc.peak = v[1] \/ \E i \in 1..k : acc.peak = v[i]
    BY DEF Worst
  <2> QED
    BY <1>1, <1>3, <2>1 DEF e
<1>8. \A i \in 1..(k + 1) : Below(v[i], peak)
  <2> TAKE i \in 1..(k + 1)
  <2>1. CASE i = k + 1
    BY <1>3, <2>1 DEF e
  <2>2. CASE i \in 1..k
    <3>1. Below(v[i], acc.peak) /\ v[i] \in Fractions
      BY <1>1, <2>2 DEF Worst
    <3> QED
      BY <1>2, <1>3, <1>0, <3>1
  <2> QED
    BY <1>1, <2>1, <2>2
<1>9. FallIn(v, k + 1, worst)
  <2>1. CASE worst = acc.worst
    <3>1. FallIn(v, k, worst)
      BY <2>1 DEF Worst
    <3> QED
      BY <1>1, <3>1 DEF FallIn
  <2>2. CASE worst = fall
    <3>1. \E i \in 1..(k + 1) : worst = Minus(v[i], v[k + 1])
      BY <1>7, <2>2 DEF fall, e
    <3> QED
      BY <1>1, <3>1 DEF FallIn
  <2> QED
    BY <1>6, <2>1, <2>2
<1>10. ASSUME NEW x, FallIn(v, k + 1, x) PROVE Below(x, worst)
  <2>1. CASE FallIn(v, k, x)
    <3>1. Below(x, acc.worst)
      BY <2>1 DEF Worst
    <3>2. x \in Fractions
      <4>1. \A i, j \in 1..k : Minus(v[i], v[j]) \in Fractions
        BY <1>1, FractionOrder
      <4>2. Whole(0) \in Fractions
        BY Wholes
      <4>3. \A j \in 1..k : \A i \in 1..j : i \in 1..k
        OBVIOUS
      <4> QED
        BY <2>1, <4>1, <4>2, <4>3 DEF FallIn
    <3> QED
      BY <1>2, <1>6, <1>0, <3>1, <3>2
  <2>2. CASE ~FallIn(v, k, x)
    <3>1. PICK i \in 1..(k + 1) : x = Minus(v[i], e)
      BY <1>1, <1>10, <2>2 DEF FallIn, e
    <3>2. v[i] \in Fractions /\ Below(v[i], peak)
      BY <1>1, <1>8
    <3>3. x \in Fractions /\ Below(x, fall)
      BY <1>2, <1>3, <3>1, <3>2, FractionOrder DEF fall
    <3> QED
      BY <1>5, <1>6, <1>0, <3>3
  <2> QED
    BY <2>1, <2>2
<1> QED
  BY <1>3, <1>4, <1>6, <1>7, <1>8, <1>9, <1>10 DEF Worst, e

\* The drawdown of a list of values is the worst loss between two of them.
LEMMA DrawdownIsWorst ==
    ASSUME NEW v \in Seq(Fractions)
    PROVE  LET falls == {Whole(0)} \cup UNION {{Minus(v[i], v[j]) : i \in 1..j} : j \in DOMAIN v}
           IN  /\ MaxDrawdown(v) \in falls
               /\ \A fall \in falls : Larger(MaxDrawdown(v), fall) = MaxDrawdown(v)
<1> DEFINE n == Len(v)
           falls == {Whole(0)} \cup UNION {{Minus(v[i], v[j]) : i \in 1..j} : j \in DOMAIN v}
<1>1. n \in Nat /\ DOMAIN v = 1..n /\ \A i \in 1..n : v[i] \in Fractions
  OBVIOUS
<1>2. \A fall : fall \in falls <=> FallIn(v, n, fall)
  BY <1>1 DEF FallIn
<1> HIDE DEF falls
<1>3. Whole(0) \in Fractions
  BY Wholes
<1>4. CASE v = <<>>
  <2>1. MaxDrawdown(v) = Whole(0) /\ n = 0
    BY <1>4 DEF MaxDrawdown
  <2>2. \A fall \in falls : fall = Whole(0)
    BY <1>2, <2>1 DEF FallIn
  <2>3. Larger(Whole(0), Whole(0)) = Whole(0) /\ Whole(0) \in falls
    BY <1>2 DEF Larger, FallIn
  <2> QED
    BY <2>1, <2>2, <2>3 DEF falls
<1>5. CASE v # <<>>
  <2>1. PICK g : Loops(g, v, n) /\ MaxDrawdown(v) = g[1..n].worst
    BY <1>1, <1>5, LoopsOver
  <2> DEFINE W == {k \in 0..n : Worst(v, k, g[1..k])}
  <2>2. 0 \in W
    <3>1. 1..0 = {} /\ g[{}] = Start(v) /\ v[1] \in Fractions /\ 0 \in 0..n
      BY <1>1, <1>5, <2>1 DEF Loops
    <3>2. Below(Whole(0), Whole(0))
      BY <1>3, FractionOrder
    <3>3. Worst(v, 0, Start(v))
      BY <1>3, <3>1, <3>2 DEF Worst, Start, FallIn
    <3> QED
      BY <3>1, <3>3
  <2>3. ASSUME NEW k \in 0..n, k \in W, k < n PROVE k + 1 \in W
    <3>1. k \in Nat /\ k + 1 \in 0..n /\ 1..(k + 1) \in SUBSET (1..n) /\ 1..(k + 1) # {}
      <4>1. k \in Nat /\ k + 1 \in 0..n
        BY <1>1, <2>3
      <4>2. \A i \in 1..(k + 1) : i \in 1..n
        BY <1>1, <2>3
      <4>3. 1 \in 1..(k + 1)
        BY <4>1
      <4> QED
        BY <4>1, <4>2, <4>3
    <3>2. Max(1..(k + 1)) = k + 1
      <4>1. k + 1 \in 1..(k + 1) /\ 1..(k + 1) \in SUBSET (1..(k + 1))
        BY <3>1
      <4> QED
        BY <3>1, <4>1, GreatestOfFirst
    <3>3. (1..(k + 1)) \ {k + 1} = 1..k
      BY <3>1
    <3>4. g[1..(k + 1)] = Fallen(g[1..k], v[k + 1])
      BY <2>1, <3>1, <3>2, <3>3 DEF Loops
    <3>5. Worst(v, k, g[1..k])
      BY <2>3
    <3>6. Worst(v, k + 1, Fallen(g[1..k], v[k + 1]))
      BY <2>3, <3>1, <3>5, LoopKeepsWorst
    <3> QED
      BY <3>1, <3>4, <3>6
  <2> HIDE DEF W, n
  <2>4. n \in W
    <3>1. \A k \in 0..n : k \in W /\ k < n => k + 1 \in W
      BY <2>3
    <3> QED
      BY <1>1, <2>2, <3>1, UpTo
  <2>5. Worst(v, n, g[1..n])
    BY <2>4 DEF W
  <2>6. /\ MaxDrawdown(v) \in Fractions /\ FallIn(v, n, MaxDrawdown(v))
        /\ \A fall : FallIn(v, n, fall) => Below(fall, MaxDrawdown(v))
    BY <2>1, <2>5 DEF Worst
  <2>7. \A fall : FallIn(v, n, fall) => fall \in Fractions
    <3>1. \A i, j \in 1..n : Minus(v[i], v[j]) \in Fractions
      BY <1>1, FractionOrder
    <3>2. \A j \in 1..n : \A i \in 1..j : i \in 1..n
      BY <1>1
    <3> QED
      BY <1>3, <3>1, <3>2 DEF FallIn
  <2>8. \A fall \in falls : Larger(MaxDrawdown(v), fall) = MaxDrawdown(v)
    BY <1>2, <2>6, <2>7, FractionOrder
  <2>9. MaxDrawdown(v) \in falls
    BY <1>2, <2>6
  <2> QED
    BY <2>8, <2>9 DEF falls
<1> QED
  BY <1>4, <1>5

\* The mid price of a book is a fraction (types.py 24-26).
LEMMA MidOf ==
    ASSUME NEW b \in Books
    PROVE  Mid(b) \in Fractions
<1>1. /\ IsFiniteSet(DOMAIN b.bids) /\ DOMAIN b.bids \subseteq Int /\ DOMAIN b.bids # {}
      /\ IsFiniteSet(DOMAIN b.asks) /\ DOMAIN b.asks \subseteq Int /\ DOMAIN b.asks # {}
  BY BookAssumption, StreamAssumption
<1>2. Max(DOMAIN b.bids) \in Int
  BY <1>1, LeastAndGreatest
<1>3. Min(DOMAIN b.asks) \in Int
  <2> DEFINE S == DOMAIN b.asks
  <2>1. PICK x \in S : \A y \in S : x <= y
    BY <1>1, LeastAndGreatest
  <2> HIDE DEF S
  <2>2. Min(S) \in S
    BY <2>1 DEF Min
  <2> QED
    BY <1>1, <2>2 DEF S
<1>4. Max(DOMAIN b.bids) + Min(DOMAIN b.asks) \in Int /\ 2 \in Positive
  BY <1>2, <1>3 DEF Positive
<1> QED
  BY <1>4 DEF Mid, Fractions

\* What an inventory of fractions is worth is a fraction.
LEMMA PnlIsFraction ==
    ASSUME NEW held \in Inventories, NEW mid \in Fractions
    PROVE  TotalPnl(held, mid) \in Fractions
<1>1. /\ held.position \in Int /\ held.avgEntry \in Fractions
      /\ held.realized \in Fractions /\ held.fees \in Fractions /\ -1 \in Int
  BY DEF Inventories
<1>2. Scaled(-1, held.fees) \in Fractions /\ Scaled(-1, held.avgEntry) \in Fractions
  BY <1>1, FractionLaws
<1>3. Plus(held.realized, Scaled(-1, held.fees)) \in Fractions /\ Plus(mid, Scaled(-1, held.avgEntry)) \in Fractions
  BY <1>1, <1>2, FractionLaws
<1>4. Scaled(held.position, Plus(mid, Scaled(-1, held.avgEntry))) \in Fractions
  BY <1>1, <1>3, FractionLaws
<1> QED
  BY <1>3, <1>4, FractionLaws DEF TotalPnl

\* The multiples of k up to n, from those before it.
LEMMA NextMultiple ==
    ASSUME NEW n \in Nat, NEW k \in Positive
    PROVE  /\ n \div k \in Nat /\ (n - 1) \div k \in Int /\ 0 \div k = 0
           /\ n % k = 0 => n \div k = (n - 1) \div k + 1
           /\ n % k # 0 => n \div k = (n - 1) \div k
<1> DEFINE q == n \div k
           r == n % k
<1>1. q \in Nat /\ r \in Int /\ 0 <= r /\ r < k /\ n = k * q + r /\ k \in Int
  BY DEF Positive
<1>2. \A c \in Int, s \in 0..(k - 1) : (k * c + s) \div k = c
  BY DEF Positive
<1> HIDE DEF q, r
<1>3. CASE r = 0
  <2>1. k * q = k * (q - 1) + k
    BY <1>1
  <2>2. n - 1 = k * (q - 1) + (k - 1) /\ q - 1 \in Int /\ k - 1 \in 0..(k - 1)
    BY <1>1, <1>3, <2>1 DEF Positive
  <2>3. (n - 1) \div k = q - 1
    BY <1>2, <2>2
  <2> QED
    BY <1>1, <1>3, <2>3 DEF q, r
<1>4. CASE r # 0
  <2>1. n - 1 = k * q + (r - 1) /\ r - 1 \in 0..(k - 1)
    <3>1. k * q \in Int
      BY <1>1
    <3> QED
      BY <1>1, <1>4, <3>1
  <2>2. (n - 1) \div k = q
    BY <1>1, <1>2, <2>1
  <2> QED
    BY <1>1, <1>4, <2>2 DEF q, r
<1>5. 0 \div k = 0
  BY DEF Positive
<1> QED
  BY <1>3, <1>4, <1>5 DEF q, r

\* Every symbol has a snapshot for every SnapshotEvery ticks served of it; that
\* of the tick being recorded is still to come (multi_asset.py 84-92).
SnapshotsOf(s) ==
    (IF phase = "record" /\ at = s THEN Len(Mine(s)) - 1 ELSE Len(Mine(s))) \div SnapshotEvery

Snapshots ==
    /\ phase # "idle" => book \in Books
    /\ DOMAIN equity = Symbols
    /\ \A s \in Symbols : equity[s] \in Seq(Fractions) /\ Len(equity[s]) = SnapshotsOf(s)

\* The ticks served of a symbol, counted.
LEMMA MineCounted ==
    ASSUME MergeInv, NEW s \in Symbols
    PROVE  Cardinality({i \in DOMAIN served : served[i].symbol = s}) = Len(Mine(s))
<1> DEFINE W == {i \in DOMAIN served : served[i].symbol = s}
<1>1. served \in Seq([symbol : Symbols, ts : Int]) /\ W \in SUBSET DOMAIN served
  BY DEF MergeInv
<1>2. Mine(s) = Picked(served, W)
  BY DEF Mine
<1> HIDE DEF W
<1>3. Len(Mine(s)) = Cardinality(W)
  BY <1>1, <1>2, PickedFrom
<1> QED
  BY <1>3 DEF W

\* Nothing was served at first.
LEMMA InitSnapshots == Init => Snapshots
<1> SUFFICES ASSUME Init PROVE Snapshots
  OBVIOUS
<1>1. phase = "idle" /\ equity = [s \in Symbols |-> <<>>] /\ served = <<>>
  BY DEF Init
<1>2. MergeInv
  BY InitMerge
<1>3. SnapshotEvery \in Positive /\ 0 \in Nat
  BY StreamAssumption DEF Positive
<1>4. ASSUME NEW s \in Symbols PROVE Len(Mine(s)) = 0
  <2>1. {i \in DOMAIN served : served[i].symbol = s} = {}
    BY <1>1
  <2> QED
    BY <1>2, <2>1, MineCounted, FS_EmptySet
<1>5. \A s \in Symbols : SnapshotsOf(s) = 0
  BY <1>1, <1>3, <1>4, NextMultiple DEF SnapshotsOf
<1> QED
  BY <1>1, <1>5 DEF Snapshots

\* The snapshot of a tick is taken before the strategy acts on it.
LEMMA ActSnapshots ==
    ASSUME MergeInv, Accounts, Snapshots, NEW new, NEW gone, Act(new, gone)
    PROVE  Snapshots'
<1>1. /\ phase = "record" /\ phase' = "place" /\ Snapshot
      /\ at' = at /\ book' = book /\ served' = served
  BY DEF Act
<1>2. at \in Symbols /\ book \in Books /\ inv[at] \in Inventories /\ DOMAIN equity = Symbols
  BY <1>1 DEF MergeInv, Accounts, Snapshots
<1> DEFINE value == TotalPnl(inv[at], Mid(book))
           n == Len(Mine(at))
<1>3. value \in Fractions
  BY <1>2, MidOf, PnlIsFraction
<1>4. equity' = IF n % SnapshotEvery = 0 THEN [equity EXCEPT ![at] = Append(@, value)] ELSE equity
  <2>1. Cardinality({i \in DOMAIN served : served[i].symbol = at}) = n
    BY <1>2, MineCounted
  <2> QED
    BY <1>1, <2>1 DEF Snapshot
<1>5. \A s \in Symbols : Mine(s)' = Mine(s)
  BY <1>1 DEF Mine
<1>6. n \in Nat /\ SnapshotEvery \in Positive
  BY <1>2, MineTyped, StreamAssumption DEF Positive
<1> HIDE DEF value
<1>7. ASSUME NEW s \in Symbols
      PROVE  equity'[s] \in Seq(Fractions) /\ Len(equity'[s]) = SnapshotsOf(s)'
  <2>1. equity[s] \in Seq(Fractions) /\ Len(equity[s]) = SnapshotsOf(s) /\ Len(equity[s]) \in Nat
    BY LenProperties DEF Snapshots
  <2>2. SnapshotsOf(s)' = Len(Mine(s)) \div SnapshotEvery
    BY <1>1, <1>5 DEF SnapshotsOf
  <2>3. CASE s # at
    <3>1. equity'[s] = equity[s]
      BY <1>2, <1>4, <2>3
    <3>2. SnapshotsOf(s) = Len(Mine(s)) \div SnapshotEvery
      BY <2>3 DEF SnapshotsOf
    <3> QED
      BY <2>1, <2>2, <3>1, <3>2
  <2>4. CASE s = at
    <3>1. SnapshotsOf(s) = (n - 1) \div SnapshotEvery /\ SnapshotsOf(s)' = n \div SnapshotEvery
      BY <1>1, <2>2, <2>4 DEF SnapshotsOf
    <3> HIDE DEF n
    <3>2. CASE n % SnapshotEvery = 0
      <4>1. equity'[s] = Append(equity[s], value)
        BY <1>2, <1>4, <2>4, <3>2
      <4>2. n \div SnapshotEvery = (n - 1) \div SnapshotEvery + 1
        BY <1>6, <3>2, NextMultiple
      <4>3. equity'[s] \in Seq(Fractions) /\ Len(equity'[s]) = Len(equity[s]) + 1
        BY <1>3, <2>1, <4>1, AppendProperties
      <4> QED
        BY <2>1, <3>1, <4>2, <4>3
    <3>3. CASE n % SnapshotEvery # 0
      <4>1. n \div SnapshotEvery = (n - 1) \div SnapshotEvery
        BY <1>6, <3>3, NextMultiple
      <4> QED
        BY <1>4, <2>1, <3>1, <3>3, <4>1
    <3> QED
      BY <3>2, <3>3
  <2> QED
    BY <2>3, <2>4
<1>8. DOMAIN equity' = Symbols
  BY <1>2, <1>4
<1> QED
  BY <1>1, <1>2, <1>7, <1>8 DEF Snapshots

\* A tick is counted before its snapshot is taken.
LEMMA TickSnapshots ==
    ASSUME MergeInv, Snapshots, NEW e \in heap, NEW b \in Books, NEW trades, Tick(e, b, trades)
    PROVE  Snapshots'
<1> DEFINE tick == [symbol |-> e.symbol, ts |-> e.ts]
<1>1. /\ phase = "idle" /\ phase' = "record" /\ at' = e.symbol /\ book' = b
      /\ equity' = equity /\ served' = Append(served, tick)
  BY DEF Tick
<1>2. tick \in [symbol : Symbols, ts : Int] /\ tick.symbol = e.symbol
  BY DEF MergeInv
<1> HIDE DEF tick
<1>3. ASSUME NEW s \in Symbols PROVE SnapshotsOf(s)' = SnapshotsOf(s)
  <2>1. Mine(s)' = IF s = e.symbol THEN Append(Mine(s), tick) ELSE Mine(s)
    BY <1>1, <1>2, MineAfter
  <2>2. Mine(s) \in Seq([symbol : Symbols, ts : Int]) /\ Len(Mine(s)) \in Nat
    BY MineTyped
  <2>3. SnapshotsOf(s) = Len(Mine(s)) \div SnapshotEvery
    BY <1>1 DEF SnapshotsOf
  <2>4. CASE s = e.symbol
    <3>1. Len(Mine(s)') = Len(Mine(s)) + 1
      BY <1>2, <2>1, <2>2, <2>4, AppendProperties
    <3>2. SnapshotsOf(s)' = (Len(Mine(s)') - 1) \div SnapshotEvery
      BY <1>1, <2>4 DEF SnapshotsOf
    <3>3. Len(Mine(s)') - 1 = Len(Mine(s))
      BY <2>2, <3>1
    <3> QED
      BY <2>3, <3>2, <3>3
  <2>5. CASE s # e.symbol
    <3>1. SnapshotsOf(s)' = Len(Mine(s)') \div SnapshotEvery
      BY <1>1, <2>5 DEF SnapshotsOf
    <3> QED
      BY <2>1, <2>3, <2>5, <3>1
  <2> QED
    BY <2>4, <2>5
<1> QED
  BY <1>1, <1>3 DEF Snapshots

\* Every step keeps count of the snapshots.
LEMMA StepSnapshots == MergeInv /\ Accounts /\ Snapshots /\ [Next]_vars => Snapshots'
<1> SUFFICES ASSUME MergeInv, Accounts, Snapshots, [Next]_vars PROVE Snapshots'
  OBVIOUS
<1>1. ASSUME equity' = equity, served' = served, at' = at, phase # "record" => phase' # "record",
             phase = "record" => phase' = "record", phase' # "idle" => phase # "idle" /\ book' = book
      PROVE  Snapshots'
  <2>1. \A s \in Symbols : Mine(s)' = Mine(s)
    BY <1>1 DEF Mine
  <2>2. \A s \in Symbols : SnapshotsOf(s)' = SnapshotsOf(s)
    BY <1>1, <2>1 DEF SnapshotsOf
  <2> QED
    BY <1>1, <2>2 DEF Snapshots
<1>2. CASE RecordPassive \/ Place \/ Done \/ UNCHANGED vars
  BY <1>1, <1>2 DEF RecordPassive, Place, Done, vars, tickVars
<1>3. ASSUME NEW e \in heap, NEW b \in Books, NEW trades, Tick(e, b, trades) PROVE Snapshots'
  BY <1>3, TickSnapshots
<1>4. ASSUME NEW new, NEW gone, Act(new, gone) PROVE Snapshots'
  BY <1>4, ActSnapshots
<1> QED
  BY <1>2, <1>3, <1>4 DEF Next

\* The drawdown reported of a symbol is the worst anyone could have lost between
\* two of its snapshots, and no snapshot was missed: for any book, fill and number
\* of ticks (metrics.py 151-158, multi_asset.py 84-92).
THEOREM ReportedDrawdowns == Spec => []DrawdownIsWorstFall
<1>1. MergeInv /\ Snapshots => DrawdownIsWorstFall
  <2> SUFFICES ASSUME MergeInv, Snapshots, NEW s \in Symbols
               PROVE  LET values == equity[s]
                          falls  == {Whole(0)} \cup UNION {{Minus(values[i], values[j]) : i \in 1..j} :
                                                         j \in DOMAIN values}
                          ticks  == Cardinality({i \in DOMAIN served : served[i].symbol = s})
                      IN  /\ MaxDrawdown(values) \in falls
                          /\ \A fall \in falls : Larger(MaxDrawdown(values), fall) = MaxDrawdown(values)
                          /\ (phase = "record" /\ at = s) \/ Len(values) = ticks \div SnapshotEvery
    BY DEF DrawdownIsWorstFall
  <2>1. equity[s] \in Seq(Fractions) /\ Len(equity[s]) = SnapshotsOf(s)
    BY DEF Snapshots
  <2>2. Cardinality({i \in DOMAIN served : served[i].symbol = s}) = Len(Mine(s))
    BY MineCounted
  <2>3. (phase = "record" /\ at = s) \/ SnapshotsOf(s) = Len(Mine(s)) \div SnapshotEvery
    BY DEF SnapshotsOf
  <2> QED
    BY <2>1, <2>2, <2>3, DrawdownIsWorst
<1> QED
  BY InitMerge, StepMerge, InitOrders, StepOrders, InitAccounts, StepAccounts, InitSnapshots, StepSnapshots,
     <1>1, PTL DEF Spec
=============================================================================
