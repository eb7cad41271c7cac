---------------------------- MODULE HistoryProofs ----------------------------
(***************************************************************************)
(* No look-ahead.  Of a sweep and the two validations built on it: the     *)
(* best is chosen, and tested on later ticks only, for any configurations, *)
(* scores, history, folds and top_n, and any order in which a pool's       *)
(* results arrive.  Of the views a run keeps on its own history: what is   *)
(* read is of its time, for any windows, delays, prints and points.        *)
(***************************************************************************)
EXTENDS Sweep, Views, OrderingProofs, SequenceTheorems

-----------------------------------------------------------------------------
(* ParameterSweep (engine/sweep.py)                                        *)

Jobs == [kind : {"walk_forward", "out_of_sample"}, expanding : BOOLEAN, workers : {1, 2}]

Outcomes == Scores \cup {Failed}

\* The results a sweep of the training or of the test slice can have.
Trainable == {Result(Configs[i], Windows[fold].train, o) : i \in DOMAIN Configs, o \in Outcomes}
Testable  == {Result(ranked[i].params, Windows[fold].test, o) : i \in DOMAIN ranked, o \in Outcomes}

\* The results of a configuration, and the awaited ones.
Count(s, p)   == Cardinality({i \in DOMAIN s : s[i].params = p})
Awaited(T, p) == Cardinality({i \in T : Configs[i] = p})

\* What remains to come and what has come add up.
Balanced(s, T) == \A p : Count(s, p) + Awaited(T, p) = Awaited(DOMAIN Configs, p)

\* A sequence, whatever its elements.
IsSeq(s) == s \in Seq({s[i] : i \in DOMAIN s})

\* As many configurations are re-run as were chosen, one of a fold.
Chosen ==
    phase = "test" =>
        /\ ranked \in [1..Len(ranked) -> {ranked[i] : i \in DOMAIN ranked}] /\ Len(ranked) \in Nat
        /\ job.kind = "walk_forward" => Len(ranked) <= 1
        /\ todo \subseteq 1..Len(ranked)

\* Results that come in turn are those of the first of the ranking.
TestedInTurn ==
    phase = "test" /\ (job.workers = 1 \/ Len(ranked) <= 1) =>
        /\ todo = {i \in 1..Len(ranked) : i > Len(tested)} /\ Len(tested) <= Len(ranked)
        /\ \A i \in 1..Len(tested) : tested[i].params = ranked[i].params

SweepInv ==
    /\ job \in Jobs /\ phase \in {"train", "test", "done"} /\ IsSeq(out)
    /\ phase = "train" => todo \subseteq DOMAIN Configs /\ trained \in Seq(Trainable)
    /\ phase # "test" => tested = <<>>
    /\ phase = "test" => tested \in Seq(Testable)
    /\ phase = "train" => Balanced(trained, todo)
    /\ Chosen /\ TestedInTurn /\ PairedInTurn

\* Appending to a sequence (results.append, sweep.py 131-156).
LEMMA Appended ==
    ASSUME NEW S, NEW s \in Seq(S), NEW x \in S
    PROVE  /\ Append(s, x) \in Seq(S) /\ Len(Append(s, x)) = Len(s) + 1 /\ Len(s) \in Nat
           /\ \A i \in 1..Len(s) : Append(s, x)[i] = s[i]
           /\ Append(s, x)[Len(s) + 1] = x
  OBVIOUS

\* Appending a result adds one to its configuration's.
LEMMA CountAppended ==
    ASSUME NEW S, NEW s \in Seq(S), NEW x \in S, NEW p
    PROVE  /\ Count(s, p) \in Nat
           /\ Count(Append(s, x), p) = Count(s, p) + (IF x.params = p THEN 1 ELSE 0)
<1> DEFINE before == {i \in 1..Len(s) : s[i].params = p}
           t      == Append(s, x)
           after  == {i \in 1..(Len(s) + 1) : t[i].params = p}
<1>1. /\ DOMAIN s = 1..Len(s) /\ Len(s) \in Nat /\ DOMAIN t = 1..(Len(s) + 1)
      /\ \A i \in 1..Len(s) : t[i] = s[i]
      /\ t[Len(s) + 1] = x
  OBVIOUS
<1> HIDE DEF t
<1>2. IsFiniteSet(before) /\ Len(s) + 1 \notin before
  <2>1. IsFiniteSet(1..Len(s)) /\ before \subseteq 1..Len(s)
    BY <1>1, FS_Interval
  <2> QED
    BY <1>1, <2>1, FS_Subset
<1>3. after = IF x.params = p THEN before \cup {Len(s) + 1} ELSE before
  BY <1>1
<1>4. Count(s, p) = Cardinality(before) /\ Count(t, p) = Cardinality(after)
  BY <1>1 DEF Count
<1> HIDE DEF before, after
<1>5. Cardinality(before) \in Nat
  BY <1>2, FS_CardinalityType
<1>6. Cardinality(before \cup {Len(s) + 1}) = Cardinality(before) + 1
  BY <1>2, FS_AddElement
<1>7. Cardinality(after) = Cardinality(before) + (IF x.params = p THEN 1 ELSE 0)
  BY <1>3, <1>5, <1>6
<1> QED
  BY <1>4, <1>5, <1>7 DEF t

\* The configurations are finitely many.
LEMMA AwaitedNat ==
    ASSUME NEW T, T \subseteq DOMAIN Configs, NEW p
    PROVE  IsFiniteSet({i \in T : Configs[i] = p}) /\ Awaited(T, p) \in Nat
<1>1. DOMAIN Configs = 1..Len(Configs) /\ Len(Configs) \in Nat
  BY SweepAssumption
<1>2. IsFiniteSet(DOMAIN Configs) /\ {i \in T : Configs[i] = p} \subseteq DOMAIN Configs
  BY <1>1, FS_Interval
<1> QED
  BY <1>2, FS_Subset, FS_CardinalityType DEF Awaited

\* One result less is awaited when that of i has come.
LEMMA AwaitedLess ==
    ASSUME NEW T, T \subseteq DOMAIN Configs, NEW i \in T, NEW p
    PROVE  Awaited(T, p) = Awaited(T \ {i}, p) + (IF Configs[i] = p THEN 1 ELSE 0)
<1> DEFINE before == {j \in T : Configs[j] = p}
           after  == {j \in T \ {i} : Configs[j] = p}
<1>1. IsFiniteSet(after) /\ i \notin after /\ Awaited(T \ {i}, p) \in Nat
  BY AwaitedNat
<1>2. before = IF Configs[i] = p THEN after \cup {i} ELSE after
  OBVIOUS
<1>3. Awaited(T, p) = Cardinality(before) /\ Awaited(T \ {i}, p) = Cardinality(after)
  BY DEF Awaited
<1> HIDE DEF before, after
<1>4. Cardinality(after \cup {i}) = Cardinality(after) + 1
  BY <1>1, FS_AddElement
<1> QED
  BY <1>1, <1>2, <1>3, <1>4

\* Before a sweep begins every configuration is awaited (sweep.py 120-131).
LEMMA NoneCollected == Balanced(<<>>, DOMAIN Configs)
<1>2. \A p : Awaited(DOMAIN Configs, p) \in Nat
  BY AwaitedNat
<1> SUFFICES ASSUME NEW p PROVE Count(<<>>, p) = 0
  BY <1>2 DEF Balanced
<1>1. {i \in DOMAIN <<>> : <<>>[i].params = p} = {}
  OBVIOUS
<1> QED
  BY <1>1, FS_EmptySet DEF Count

\* What best returns has at most n places (sweep.py 158-175).
LEMMA BestLength ==
    ASSUME NEW S, NEW s \in Seq(S), NEW n \in Nat
    PROVE  \E m \in 0..n : DOMAIN Best(s, n) = 1..m /\ IsSeq(Best(s, n)) /\ Len(Best(s, n)) = m
<1> DEFINE valid == Succeeded(s)
           m     == IF n < Cardinality(valid) THEN n ELSE Cardinality(valid)
<1>1. Cardinality(valid) \in Nat
  <2>1. IsFiniteSet(DOMAIN s) /\ valid \subseteq DOMAIN s
    BY FS_Interval DEF Succeeded
  <2> QED
    BY <2>1, FS_Subset, FS_CardinalityType
<1> HIDE DEF valid
<1>2. m \in 0..n
  BY <1>1
<1> DEFINE b == Best(s, n)
<1>3. DOMAIN b = 1..m /\ b = [k \in 1..m |-> b[k]]
  BY DEF Best, valid
<1> HIDE DEF m, b
<1>4. IsSeq(b) /\ Len(b) = m
  BY <1>2, <1>3 DEF IsSeq
<1> QED
  BY <1>2, <1>3, <1>4 DEF b

-----------------------------------------------------------------------------
(* SweepInv is inductive: one lemma per action.                            *)

\* A call begins with every configuration awaited (sweep.py 245-315).
LEMMA InitSweep == Init => SweepInv
  BY NoneCollected
  DEF Init, SweepInv, Jobs, IsSeq, Chosen, TestedInTurn, PairedInTurn

\* A training result takes the place of an awaited one (sweep.py 131-156).
LEMMA TrainedStep ==
    ASSUME SweepInv, NEW i \in todo, NEW outcome \in Outcomes, CollectTrained(i, outcome)
    PROVE  SweepInv'
<1> USE DEF CollectTrained
<1> DEFINE r == Result(Configs[i], Windows[fold].train, outcome)
<1>1. trained \in Seq(Trainable) /\ todo \subseteq DOMAIN Configs
  BY DEF SweepInv
<1>2. r \in Trainable /\ r.params = Configs[i] /\ trained' = Append(trained, r)
  BY <1>1 DEF Trainable, Result
<1>3. trained' \in Seq(Trainable)
  BY <1>1, <1>2, Appended
<1>4. Trainable' = Trainable
  BY DEF Trainable, Windows
<1>5. Balanced(trained', todo')
  <2> SUFFICES ASSUME NEW p
               PROVE  Count(trained', p) + Awaited(todo', p) = Awaited(DOMAIN Configs, p)
    BY DEF Balanced
  <2>1. Count(trained, p) + Awaited(todo, p) = Awaited(DOMAIN Configs, p)
    BY DEF SweepInv, Balanced
  <2> HIDE DEF r
  <2>2. /\ Count(trained, p) \in Nat
        /\ Count(trained', p) = Count(trained, p) + (IF Configs[i] = p THEN 1 ELSE 0)
    BY <1>1, <1>2, CountAppended
  <2>3. Awaited(todo, p) = Awaited(todo', p) + (IF Configs[i] = p THEN 1 ELSE 0)
    BY <1>1, AwaitedLess
  <2>4. todo' \subseteq DOMAIN Configs
    BY <1>1
  <2>5. Awaited(todo', p) \in Nat
    BY <2>4, AwaitedNat
  <2> QED
    BY <2>1, <2>2, <2>3, <2>5
<1> QED
  BY <1>1, <1>3, <1>4, <1>5 DEF SweepInv, Chosen, TestedInTurn, PairedInTurn, Balanced

\* The next split begins like the first (sweep.py 317-340).
LEMMA NextSplitStep ==
    ASSUME SweepInv, NextSplit, IsSeq(out'), PairedInTurn'
    PROVE  SweepInv'
<1>1. phase' = "train" => todo' = DOMAIN Configs /\ trained' = <<>>
  BY DEF NextSplit
<1>2. phase' = "train" => Balanced(trained', todo')
  BY <1>1, NoneCollected
<1> QED
  BY <1>1, <1>2 DEF NextSplit, SweepInv, Chosen, TestedInTurn, Balanced

\* What is re-run is ranked first (sweep.py 234-238).
LEMMA RankStep ==
    ASSUME SweepInv, Rank
    PROVE  SweepInv'
<1> USE DEF Rank
<1>1. Wanted \in Nat /\ (job.kind = "walk_forward" => Wanted = 1)
  BY SweepAssumption DEF Wanted
<1>2. trained \in Seq(Trainable)
  BY DEF SweepInv
<1>3. /\ IsSeq(ranked') /\ Len(ranked') \in 0..Wanted
      /\ DOMAIN ranked' = 1..Len(ranked')
  <2> HIDE DEF Rank
  <2>1. \E m \in 0..Wanted : /\ DOMAIN Best(trained, Wanted) = 1..m
                            /\ IsSeq(Best(trained, Wanted)) /\ Len(Best(trained, Wanted)) = m
    BY <1>1, <1>2, BestLength
  <2>2. ranked' = Best(trained, Wanted)
    BY DEF Rank
  <2> QED
    BY <2>1, <2>2
<1>4. tested' = <<>>
  BY DEF SweepInv
<1>5. Chosen'
  BY <1>1, <1>3 DEF Chosen, IsSeq
<1>6. TestedInTurn'
  BY <1>3, <1>4 DEF TestedInTurn
<1>7. out' = out /\ job' = job /\ phase' = "test" /\ PairedInTurn'
  BY DEF SweepInv, PairedInTurn
<1>8. tested' \in Seq(Testable')
  BY <1>4
<1> QED
  BY <1>5, <1>6, <1>7, <1>8 DEF SweepInv

\* Results that come in turn are those of the next in the ranking
\* (sweep.py 131-139, 237).
LEMMA TestedStep ==
    ASSUME SweepInv, NEW i \in todo, NEW outcome \in Outcomes, CollectTested(i, outcome)
    PROVE  SweepInv'
<1> USE DEF CollectTested
<1> DEFINE r == Result(ranked[i].params, Windows[fold].test, outcome)
<1>1. /\ tested \in Seq(Testable) /\ todo \subseteq 1..Len(ranked) /\ Len(ranked) \in Nat
      /\ DOMAIN ranked = 1..Len(ranked)
  BY DEF SweepInv, Chosen
<1>2. r \in Testable /\ r.params = ranked[i].params /\ tested' = Append(tested, r)
  BY <1>1 DEF Testable, Result
<1>3. Testable' = Testable
  BY DEF Testable, Windows
<1> HIDE DEF r
<1>4. /\ tested' \in Seq(Testable) /\ Len(tested') = Len(tested) + 1 /\ Len(tested) \in Nat
      /\ \A k \in 1..Len(tested) : tested'[k] = tested[k]
      /\ tested'[Len(tested) + 1] = r
  BY <1>1, <1>2, Appended
<1>5. TestedInTurn'
  <2> SUFFICES ASSUME job.workers = 1 \/ Len(ranked) <= 1
               PROVE  /\ todo' = {k \in 1..Len(ranked) : k > Len(tested')}
                      /\ Len(tested') <= Len(ranked)
                      /\ \A k \in 1..Len(tested') : tested'[k].params = ranked[k].params
    BY DEF TestedInTurn
  <2>1. /\ todo = {k \in 1..Len(ranked) : k > Len(tested)}
        /\ \A k \in 1..Len(tested) : tested[k].params = ranked[k].params
    BY DEF SweepInv, TestedInTurn
  <2>2. i \in Nat /\ i >= 1 /\ i <= Len(ranked) /\ i > Len(tested)
    BY <1>1, <2>1
  <2>3. \A j \in todo : i <= j
    BY <1>1, <2>2 DEF InTurn
  <2>4. i = Len(tested) + 1
    BY <1>1, <1>4, <2>1, <2>2, <2>3
  <2> QED
    BY <1>1, <1>2, <1>4, <2>1, <2>2, <2>4
<1>6. Chosen' /\ PairedInTurn'
  BY <1>1 DEF SweepInv, Chosen, PairedInTurn
<1> QED
  BY <1>3, <1>4, <1>5, <1>6 DEF SweepInv

\* The two lists joined hold what either held (sweep.py 339-340).
LEMMA Joined ==
    ASSUME NEW a, NEW b, IsSeq(a), IsSeq(b)
    PROVE  /\ IsSeq(a \o b) /\ Len(a) \in Nat /\ Len(b) \in Nat
           /\ DOMAIN a = 1..Len(a) /\ DOMAIN b = 1..Len(b)
           /\ DOMAIN (a \o b) = 1..(Len(a) + Len(b))
           /\ \A i \in DOMAIN (a \o b) :
                  \/ i \in DOMAIN a /\ (a \o b)[i] = a[i]
                  \/ i > Len(a) /\ i - Len(a) \in DOMAIN b /\ (a \o b)[i] = b[i - Len(a)]
<1> DEFINE A == {a[i] : i \in DOMAIN a}
           B == {b[i] : i \in DOMAIN b}
           c == a \o b
<1>1. a \in Seq(A \cup B) /\ b \in Seq(A \cup B)
  BY SeqMonotonic DEF IsSeq
<1> HIDE DEF A, B
<1>2. /\ Len(a) \in Nat /\ Len(b) \in Nat /\ DOMAIN a = 1..Len(a) /\ DOMAIN b = 1..Len(b)
      /\ c \in Seq(A \cup B) /\ DOMAIN c = 1..(Len(a) + Len(b))
      /\ \A i \in DOMAIN c : c[i] = IF i <= Len(a) THEN a[i] ELSE b[i - Len(a)]
  BY <1>1, ConcatProperties
<1> HIDE DEF c
<1>3. \A i \in DOMAIN c :
         \/ i \in DOMAIN a /\ c[i] = a[i]
         \/ i > Len(a) /\ i - Len(a) \in DOMAIN b /\ c[i] = b[i - Len(a)]
  <2> TAKE i \in DOMAIN c
  <2>1. CASE i <= Len(a)
    <3>1. i \in DOMAIN a /\ c[i] = a[i]
      BY <1>2, <2>1
    <3> QED
      BY <3>1
  <2>2. CASE ~(i <= Len(a))
    <3>1. i \in 1..(Len(a) + Len(b)) /\ i > Len(a) /\ c[i] = b[i - Len(a)]
      BY <1>2, <2>2
    <3>2. i - Len(a) \in 1..Len(b)
      BY <1>2, <3>1
    <3> QED
      BY <1>2, <3>1, <3>2
  <2> QED
    BY <2>1, <2>2
<1>4. IsSeq(c)
  <2>1. c \in Seq(Range(c))
    BY <1>2, SeqOfRange
  <2>2. Range(c) = {c[i] : i \in DOMAIN c}
    BY DEF Range
  <2> QED
    BY <2>1, <2>2 DEF IsSeq
<1> QED
  BY <1>2, <1>3, <1>4 DEF c

\* What is paired by position is of one configuration (sweep.py 239-242).
LEMMA PairStep ==
    ASSUME SweepInv, Pair
    PROVE  SweepInv'
<1> DEFINE PairAt(i) == [fold |-> fold, params |-> ranked[i].params,
                         in_sample |-> ranked[i], out_of_sample |-> tested[i]]
           pairs     == [i \in DOMAIN ranked |-> PairAt(i)]
<1>1. out' = out \o pairs /\ job' = job /\ NextSplit
  BY DEF Pair, NextSplit
<1>2. Len(ranked) \in Nat /\ DOMAIN ranked = 1..Len(ranked) /\ tested \in Seq(Testable)
  BY DEF SweepInv, Chosen, Pair
<1>3. IsSeq(pairs) /\ DOMAIN pairs = DOMAIN ranked
  BY <1>2 DEF IsSeq
<1>4. \A i \in DOMAIN pairs : pairs[i] = PairAt(i)
  OBVIOUS
<1>5. ASSUME job.kind = "walk_forward" \/ job.workers = 1
      PROVE  \A i \in DOMAIN pairs : Paired(pairs[i])
  <2>1. job.workers = 1 \/ Len(ranked) <= 1
    BY <1>5 DEF SweepInv, Chosen, Pair
  <2>2. /\ {i \in 1..Len(ranked) : i > Len(tested)} = {}
        /\ \A i \in 1..Len(tested) : tested[i].params = ranked[i].params
    BY <2>1 DEF SweepInv, TestedInTurn, Pair
  <2>3. \A i \in 1..Len(ranked) : tested[i].params = ranked[i].params
    BY <1>2, <2>2
  <2> QED
    BY <1>2, <1>3, <1>4, <2>3 DEF Paired
<1> HIDE DEF pairs
<1>6. IsSeq(out') /\ \A i \in DOMAIN out' : \/ \E j \in DOMAIN out : out'[i] = out[j]
                                            \/ \E j \in DOMAIN pairs : out'[i] = pairs[j]
  BY <1>1, <1>3, Joined DEF SweepInv
<1>7. PairedInTurn'
  BY <1>1, <1>5, <1>6 DEF PairedInTurn, SweepInv, Paired
<1> QED
  BY <1>1, <1>6, <1>7, NextSplitStep

\* Every step keeps the promises of the sweep.
LEMMA StepSweep == SweepInv /\ [Next]_vars => SweepInv'
<1> SUFFICES ASSUME SweepInv, [Next]_vars PROVE SweepInv'
  OBVIOUS
<1>1. ASSUME NEW i \in todo, NEW outcome \in Outcomes, CollectTrained(i, outcome)
      PROVE  SweepInv'
  BY <1>1, TrainedStep
<1>2. ASSUME NEW i \in todo, NEW outcome \in Outcomes, CollectTested(i, outcome)
      PROVE  SweepInv'
  BY <1>2, TestedStep
<1>3. CASE NoneValid
  <2>1. NextSplit /\ out' = out /\ job' = job
    BY <1>3 DEF NoneValid, NextSplit
  <2>2. IsSeq(out') /\ PairedInTurn'
    BY <2>1 DEF SweepInv, PairedInTurn
  <2> QED
    BY <2>1, <2>2, NextSplitStep
<1>4. CASE Rank
  BY <1>4, RankStep
<1>5. CASE Pair
  BY <1>5, PairStep
<1>6. CASE UNCHANGED vars \/ Done
  <2>1. UNCHANGED vars
    BY <1>6 DEF Done
  <2>2. Trainable' = Trainable /\ Testable' = Testable
    BY <2>1 DEF vars, Trainable, Testable, Windows
  <2>3. Chosen' /\ TestedInTurn' /\ PairedInTurn'
    BY <2>1 DEF vars, SweepInv, Chosen, TestedInTurn, PairedInTurn
  <2> QED
    BY <2>1, <2>2, <2>3 DEF vars, SweepInv
<1> QED
  BY <1>1, <1>2, <1>3, <1>4, <1>5, <1>6 DEF Next, Outcomes

\* SweepInv holds throughout.
LEMMA SweepInvHolds == Spec => []SweepInv
  BY InitSweep, StepSweep, PTL DEF Spec

-----------------------------------------------------------------------------
(* The windows, and what is chosen and tested on them.                     *)

\* A number of chunks is as long as the chunks (sweep.py 277-283).
LEMMA Chunks ==
    ASSUME NEW chunk \in Nat, NEW i \in Nat, NEW j \in Nat
    PROVE  /\ i * chunk \in Nat /\ (i + 1) * chunk = i * chunk + chunk
           /\ i <= j => i * chunk <= j * chunk
<1>1. i * chunk \in Nat /\ (i + 1) * chunk = i * chunk + chunk
  OBVIOUS
<1>2. ASSUME i <= j PROVE i * chunk <= j * chunk
  <2>1. j - i \in Nat /\ (j - i) * chunk \in Nat /\ j * chunk = i * chunk + (j - i) * chunk
    BY <1>2
  <2>2. i * chunk \in Int /\ (j - i) * chunk >= 0
    BY <2>1
  <2> QED
    BY <2>1, <2>2
<1> QED
  BY <1>1, <1>2

\* Unless a slice is empty, which is refused, every split trains on some ticks
\* and tests on some that follow directly; the test slices of a walk follow
\* each other and reach the end (sweep.py 221-228, 276-289).
LEMMA SplitsInOrder ==
    ASSUME job \in Jobs, ~Refused
    PROVE  /\ Len(Windows) \in Nat \ {0} /\ DOMAIN Windows = 1..Len(Windows)
           /\ \A i \in 1..Len(Windows) :
                  /\ Windows[i].train[1] < Windows[i].train[2]
                  /\ Windows[i].train[2] = Windows[i].test[1]
                  /\ Windows[i].test[1] < Windows[i].test[2]
           /\ job.kind = "walk_forward" =>
                  /\ Len(Windows) = NFolds /\ Windows[NFolds].test[2] = NTicks
                  /\ \A i, j \in 1..NFolds : i < j =>
                         /\ Windows[i].test[2] <= Windows[j].test[1]
                         /\ j = i + 1 => Windows[i].test[2] = Windows[j].test[1]
<1>1. NTicks \in Nat \ {0} /\ NFolds \in Nat \ {0} /\ TrainShare \in 1..9
  BY SweepAssumption
<1>2. CASE job.kind = "walk_forward"
  <2> DEFINE chunk == NTicks \div (NFolds + 1)
             W     == Folds(NTicks, job.expanding)
  <2>1. Windows = W
    BY <1>2 DEF Windows
  <2>2. /\ DOMAIN W = 1..NFolds /\ Len(W) = NFolds
        /\ \A i \in 1..NFolds :
              /\ W[i].train[1] = IF job.expanding THEN 0 ELSE (i - 1) * chunk
              /\ W[i].train[2] = i * chunk /\ W[i].test[1] = i * chunk
              /\ W[i].test[2] = IF i = NFolds THEN NTicks ELSE (i + 1) * chunk
    <3> HIDE DEF chunk
    <3>1. W = [i \in 1..NFolds |->
            [train |-> <<IF job.expanding THEN 0 ELSE (i - 1) * chunk, i * chunk>>,
             test  |-> <<i * chunk, IF i = NFolds THEN NTicks ELSE (i + 1) * chunk>>]]
      BY DEF Folds, chunk
    <3> HIDE DEF W
    <3>2. DOMAIN W = 1..NFolds
      BY <3>1
    <3>3. Len(W) = NFolds
      BY <1>1, <3>1
    <3> QED
      BY <3>1, <3>2, <3>3
  <2>3. chunk \in Nat /\ (NFolds + 1) * chunk <= NTicks
    BY <1>1
  <2> HIDE DEF chunk, W
  <2>4. \A i \in 1..NFolds : W[i].train[1] # W[i].train[2] /\ W[i].test[1] # W[i].test[2]
    BY <2>1, <2>2 DEF Refused
  <2>5. chunk > 0
    <3>1. W[1].train[1] # W[1].train[2] /\ 1 \in 1..NFolds
      BY <1>1, <2>4
    <3>2. W[1].train[1] = 0 /\ W[1].train[2] = chunk
      BY <2>2, <2>3, <3>1
    <3> QED
      BY <2>3, <3>1, <3>2
  <2>6. ASSUME NEW i \in 1..NFolds
        PROVE  /\ W[i].train[1] < W[i].train[2] /\ W[i].train[2] = W[i].test[1]
               /\ W[i].test[1] < W[i].test[2] /\ W[i].test[2] <= NTicks
               /\ i # NFolds => W[i].test[2] = (i + 1) * chunk
    <3>1. i \in Nat /\ i - 1 \in Nat /\ (i - 1) + 1 = i /\ i <= NFolds /\ NFolds \in Nat
      BY <1>1
    <3>2. i * chunk \in Nat /\ (i + 1) * chunk = i * chunk + chunk
      BY <2>3, <3>1, Chunks
    <3>3. (i - 1) * chunk \in Nat /\ i * chunk = (i - 1) * chunk + chunk
      BY <2>3, <3>1, Chunks
    <3>4. (i + 1) * chunk <= (NFolds + 1) * chunk
      <4>1. i + 1 \in Nat /\ NFolds + 1 \in Nat /\ i + 1 <= NFolds + 1
        BY <3>1
      <4> QED
        BY <2>3, <4>1, Chunks
    <3>5. (i + 1) * chunk <= NTicks /\ i * chunk < NTicks
      <4>1. (NFolds + 1) * chunk \in Int /\ (i + 1) * chunk \in Int
        BY <2>3, <3>1
      <4> QED
        BY ONLY <1>1, <2>3, <2>5, <3>2, <3>4, <4>1
    <3> QED
      BY <1>1, <2>2, <2>3, <2>5, <3>2, <3>3, <3>5
  <2>7. ASSUME NEW i \in 1..NFolds, NEW j \in 1..NFolds, i < j
        PROVE  /\ W[i].test[2] <= W[j].test[1] /\ (j = i + 1 => W[i].test[2] = W[j].test[1])
    <3>1. i # NFolds /\ W[i].test[2] = (i + 1) * chunk /\ W[j].test[1] = j * chunk
      BY <1>1, <2>2, <2>6, <2>7
    <3>2. (i + 1) * chunk <= j * chunk
      <4>1. i + 1 \in Nat /\ j \in Nat /\ i + 1 <= j
        BY <2>7
      <4> QED
        BY <2>3, <4>1, Chunks
    <3> QED
      BY <3>1, <3>2
  <2>8. W[NFolds].test[2] = NTicks
    BY <1>1, <2>2
  <2> QED
    BY <1>1, <2>1, <2>2, <2>6, <2>7, <2>8
<1>3. CASE job.kind # "walk_forward"
  <2> DEFINE cut == (NTicks * TrainShare) \div 10
  <2>1. cut \in Nat /\ cut <= NTicks
    <3>1. NTicks * TrainShare \in Nat /\ NTicks * TrainShare <= 10 * NTicks
      <4>1. TrainShare \in Nat /\ 10 - TrainShare \in Nat
        BY <1>1
      <4>2. NTicks * TrainShare \in Nat /\ NTicks * (10 - TrainShare) \in Nat
        BY <1>1, <4>1
      <4>3. NTicks * (10 - TrainShare) = 10 * NTicks - NTicks * TrainShare
        BY <1>1, <4>1
      <4> QED
        BY <1>1, <4>2, <4>3
    <3> QED
      BY <1>1, <3>1
  <2>2. Windows = <<[train |-> <<0, cut>>, test |-> <<cut, NTicks>>]>>
    BY <1>3 DEF Windows, Splits
  <2> HIDE DEF cut
  <2>3. /\ Len(Windows) = 1 /\ DOMAIN Windows = {1}
        /\ Windows[1] = [train |-> <<0, cut>>, test |-> <<cut, NTicks>>]
    BY <2>2
  <2>4. 0 # cut /\ cut # NTicks
    BY <2>3 DEF Refused
  <2> QED
    BY <1>1, <1>3, <2>1, <2>3, <2>4
<1> QED
  BY <1>2, <1>3

\* The results that scored higher than r.
Higher(s, r) == {i \in Succeeded(s) : s[i].outcome > r.outcome}

\* What best returns: the place of a result is after all that scored higher,
\* and none is missing (sweep.py 158-175).
LEMMA BestRanks ==
    ASSUME NEW S, NEW s \in Seq(S), NEW n \in Nat,
           \A i \in DOMAIN s : Valid(s[i]) => s[i].outcome \in Int
    PROVE  /\ DOMAIN Best(s, n) = 1..Len(Best(s, n))
           /\ Len(Best(s, n)) = IF Cardinality(Succeeded(s)) < n THEN Cardinality(Succeeded(s)) ELSE n
           /\ \A k \in DOMAIN Best(s, n) :
                  /\ \E i \in DOMAIN s : Best(s, n)[k] = s[i]
                  /\ Valid(Best(s, n)[k])
                  /\ Cardinality(Higher(s, Best(s, n)[k])) < k
<1> DEFINE valid == Succeeded(s)
           many == Cardinality(valid)
           m     == IF n < many THEN n ELSE many
           R     == {p \in valid \X valid : \/ s[p[1]].outcome > s[p[2]].outcome
                                            \/ s[p[1]].outcome = s[p[2]].outcome /\ p[1] < p[2]}
           order == InOrder(valid, R)
           b     == Best(s, n)
<1>1. /\ IsFiniteSet(valid) /\ many \in Nat
      /\ \A i \in valid : i \in DOMAIN s /\ i \in Int /\ Valid(s[i]) /\ s[i].outcome \in Int
  <2>1. IsFiniteSet(DOMAIN s) /\ DOMAIN s \subseteq Int /\ valid \subseteq DOMAIN s
    BY FS_Interval DEF Succeeded
  <2> QED
    BY <2>1, FS_Subset, FS_CardinalityType DEF Succeeded
<1>2. b = [k \in 1..m |-> s[order[k]]]
  BY DEF Best, ByScore
<1> HIDE DEF valid
<1>3. ASSUME NEW i \in valid, NEW j \in valid
      PROVE  <<i, j>> \in R <=> \/ s[i].outcome > s[j].outcome
                                \/ s[i].outcome = s[j].outcome /\ i < j
  <2>1. <<i, j>> \in valid \X valid /\ <<i, j>>[1] = i /\ <<i, j>>[2] = j
    OBVIOUS
  <2> QED
    BY <2>1
<1> HIDE DEF R, many, b
<1>4. Orders(R, valid)
  <2> DEFINE score(i) == s[i].outcome
  <2>1. \A x \in valid : x \in Int /\ score(x) \in Int
    BY <1>1
  <2>2. \A x, y \in valid :
            <<x, y>> \in R <=> score(x) > score(y) \/ (score(x) = score(y) /\ x < y)
    BY <1>3
  <2> HIDE DEF score
  <2>3. \A x \in valid : <<x, x>> \notin R
    BY <2>1, <2>2
  <2>4. ASSUME NEW x \in valid, NEW y \in valid PROVE x = y \/ <<x, y>> \in R \/ <<y, x>> \in R
    <3>1. /\ x \in Int /\ y \in Int /\ score(x) \in Int /\ score(y) \in Int
          /\ <<x, y>> \in R <=> score(x) > score(y) \/ (score(x) = score(y) /\ x < y)
          /\ <<y, x>> \in R <=> score(y) > score(x) \/ (score(y) = score(x) /\ y < x)
      BY <2>1, <2>2
    <3> QED
      BY ONLY <3>1
  <2>5. \A x, y, z \in valid : <<x, y>> \in R /\ <<y, z>> \in R => <<x, z>> \in R
    BY <2>1, <2>2
  <2> QED
    BY <2>3, <2>4, <2>5 DEF Orders
<1>5. Lists(order, valid, R)
  BY <1>1, <1>4, InOrderLists
<1> HIDE DEF order
<1>6. m \in 0..many /\ m <= n /\ m \in Nat
  BY <1>1
<1>7. DOMAIN b = 1..m /\ Len(b) = m /\ \A k \in 1..m : b[k] = s[order[k]]
  <2> HIDE DEF m
  <2>1. DOMAIN b = 1..m /\ \A k \in 1..m : b[k] = s[order[k]]
    BY <1>2
  <2> QED
    BY <1>6, <2>1
<1>8. ASSUME NEW k \in 1..m
      PROVE  /\ order[k] \in valid
             /\ Cardinality(Higher(s, s[order[k]])) < k
  <2> DEFINE higher == Higher(s, s[order[k]])
             B == Before(order[k], valid, R)
  <2>1. k \in 1..many /\ k \in Nat
    BY <1>1, <1>6
  <2>2. order[k] \in valid /\ Cardinality(B) = k - 1
    BY <1>1, <1>5, <2>1, PlaceOf DEF many
  <2>3. higher \subseteq B /\ B \subseteq valid
    <3>1. \A i \in higher : i \in valid /\ <<i, order[k]>> \in R
      BY <1>3, <2>2 DEF Higher, valid
    <3> HIDE DEF higher
    <3> QED
      BY <3>1 DEF Before
  <2> HIDE DEF higher, B
  <2>4. IsFiniteSet(B)
    BY <1>1, <2>3, FS_Subset
  <2>5. Cardinality(higher) <= Cardinality(B) /\ Cardinality(higher) \in Nat
    BY <2>3, <2>4, FS_Subset, FS_CardinalityType
  <2>6. Cardinality(higher) < k
    BY <2>1, <2>2, <2>5
  <2> QED
    BY <2>2, <2>6 DEF higher
<1>9. Len(b) = IF many < n THEN many ELSE n
  BY <1>1, <1>7
<1> HIDE DEF m
<1>10. \A k \in DOMAIN b :
          /\ \E i \in DOMAIN s : b[k] = s[i]
          /\ Valid(b[k])
          /\ Cardinality(Higher(s, b[k])) < k
  BY <1>1, <1>7, <1>8
<1> QED
  BY <1>7, <1>9, <1>10 DEF b, valid, many

\* An entry of the walk: a result on each slice of its split.
SplitOf(o) == /\ o.fold \in 1..Len(Windows)
              /\ o.in_sample.ticks = Windows[o.fold].train
              /\ o.out_of_sample.ticks = Windows[o.fold].test

\* What is returned is of the splits before the one worked on, and of a walk
\* one entry of a fold at most.
FutureInv ==
    /\ fold \in 1..Len(Windows)
    /\ Refused => phase = "done" /\ out = <<>>
    /\ phase = "test" =>
           /\ \A k \in DOMAIN ranked : ranked[k].ticks = Windows[fold].train
           /\ Len(tested) + Cardinality(todo) = Len(ranked)
    /\ \A i \in DOMAIN out : SplitOf(out[i]) /\ (phase = "done" \/ out[i].fold < fold)
    /\ job.kind = "walk_forward" =>
           \A i \in DOMAIN out :
               /\ i <= out[i].fold
               /\ \A j \in DOMAIN out : i < j => out[i].fold < out[j].fold

\* A call works on its own splits from first to last (sweep.py 221-238, 276-338).
LEMMA WindowsFixed ==
    /\ SweepInv => Len(Windows) \in Nat \ {0} /\ DOMAIN Windows = 1..Len(Windows)
    /\ [Next]_vars => Windows' = Windows /\ job' = job
<1>1. ASSUME SweepInv PROVE Len(Windows) \in Nat \ {0} /\ DOMAIN Windows = 1..Len(Windows)
  <2>1. NFolds \in Nat \ {0}
    BY SweepAssumption
  <2>2. CASE job.kind = "walk_forward"
    <3>1. DOMAIN Windows = 1..NFolds
      BY <2>2 DEF Windows, Folds
    <3>2. Len(Windows) = NFolds
      BY <2>1, <3>1
    <3> QED
      BY <2>1, <3>1, <3>2
  <2>3. CASE job.kind # "walk_forward"
    BY <2>3 DEF Windows, Splits
  <2> QED
    BY <2>2, <2>3
<1>2. ASSUME [Next]_vars PROVE job' = job
  BY <1>2 DEF Next, CollectTrained, CollectTested, NoneValid, Rank, Pair, NextSplit, Done, vars
<1> QED
  BY <1>1, <1>2 DEF Windows

\* A call begins with its first split (sweep.py 216-230, 271-304).
LEMMA InitFuture == Init /\ SweepInv => FutureInv
  BY WindowsFixed DEF Init, FutureInv

\* A step that returns nothing and stays with its split.
LEMMA SameSplit ==
    ASSUME FutureInv, Windows' = Windows, job' = job, out' = out, fold' = fold,
           phase # "done", phase' # "done",
           phase' = "test" =>
               /\ \A k \in DOMAIN ranked' : ranked'[k].ticks = Windows[fold].train
               /\ Len(tested') + Cardinality(todo') = Len(ranked')
    PROVE  FutureInv'
  BY DEF FutureInv, SplitOf, Refused

\* The next split, or the end, leaves what was returned behind (sweep.py 306-338).
LEMMA NextFuture ==
    ASSUME SweepInv, FutureInv, NextSplit, Windows' = Windows, ~Refused,
           \A i \in DOMAIN out' : SplitOf(out'[i]) /\ out'[i].fold <= fold,
           job.kind = "walk_forward" =>
               \A i \in DOMAIN out' :
                   /\ i <= out'[i].fold
                   /\ \A j \in DOMAIN out' : i < j => out'[i].fold < out'[j].fold
    PROVE  FutureInv'
<1>1. Len(Windows) \in Nat \ {0} /\ fold \in 1..Len(Windows)
  BY WindowsFixed DEF FutureInv
<1>2. job' = job /\ phase' # "test"
  BY DEF NextSplit
<1>3. Refused' = Refused /\ \A o : SplitOf(o)' <=> SplitOf(o)
  BY DEF Refused, SplitOf
<1>4. fold' \in 1..Len(Windows) /\ \A i \in DOMAIN out' : phase' = "done" \/ out'[i].fold < fold'
  <2>1. CASE fold < Len(Windows)
    <3>1. fold' = fold + 1
      BY <2>1 DEF NextSplit
    <3>2. \A i \in DOMAIN out' : out'[i].fold \in Int
      BY DEF SplitOf
    <3> QED
      BY <1>1, <2>1, <3>1, <3>2
  <2>2. CASE ~(fold < Len(Windows))
    BY <1>1, <2>2 DEF NextSplit
  <2> QED
    BY <2>1, <2>2
<1> QED
  BY <1>2, <1>3, <1>4 DEF FutureInv, SplitOf

\* The entries of a split follow those of the splits before (sweep.py 232-244,
\* 306-338).
LEMMA PairFuture ==
    ASSUME SweepInv, FutureInv, Pair
    PROVE  FutureInv'
<1> DEFINE PairAt(i) == [fold |-> fold, params |-> ranked[i].params,
                         in_sample |-> ranked[i], out_of_sample |-> tested[i]]
           pairs     == [i \in DOMAIN ranked |-> PairAt(i)]
<1>1. out' = out \o pairs /\ Windows' = Windows /\ NextSplit /\ phase = "test" /\ todo = {}
  BY DEF Pair, NextSplit, Windows
<1>2. /\ Len(ranked) \in Nat /\ DOMAIN ranked = 1..Len(ranked) /\ tested \in Seq(Testable)
      /\ job.kind = "walk_forward" => Len(ranked) <= 1
  BY DEF SweepInv, Chosen, Pair
<1>3. Len(tested) = Len(ranked)
  BY <1>1, <1>2, FS_EmptySet DEF FutureInv
<1>4. ~Refused /\ fold \in 1..Len(Windows) /\ Len(Windows) \in Nat
  BY <1>1, WindowsFixed DEF FutureInv
<1>5. IsSeq(pairs) /\ DOMAIN pairs = 1..Len(ranked)
  BY <1>2 DEF IsSeq
<1>6. \A i \in 1..Len(ranked) : pairs[i].fold = fold /\ SplitOf(pairs[i])
  <2> TAKE i \in 1..Len(ranked)
  <2>1. pairs[i] = PairAt(i)
    BY <1>2
  <2>2. ranked[i].ticks = Windows[fold].train
    BY <1>1, <1>2 DEF FutureInv
  <2>3. tested[i] \in Testable
    BY <1>2, <1>3
  <2>4. tested[i].ticks = Windows[fold].test
    BY <2>3 DEF Testable, Result
  <2> QED
    BY <1>4, <2>1, <2>2, <2>4 DEF SplitOf
<1> HIDE DEF pairs
<1>7. /\ Len(out) \in Nat /\ DOMAIN out = 1..Len(out)
      /\ \A i \in DOMAIN out' :
             \/ i \in DOMAIN out /\ out'[i] = out[i]
             \/ i > Len(out) /\ i - Len(out) \in 1..Len(ranked) /\ out'[i] = pairs[i - Len(out)]
      /\ DOMAIN out' \subseteq Nat
  BY <1>1, <1>5, Joined DEF SweepInv
<1>8. \A i \in DOMAIN out :
         /\ SplitOf(out[i]) /\ out[i].fold < fold /\ out[i].fold \in Nat
         /\ job.kind = "walk_forward" =>
                i <= out[i].fold /\ \A j \in DOMAIN out : i < j => out[i].fold < out[j].fold
  BY <1>1 DEF FutureInv, SplitOf
<1>9. \A i \in DOMAIN out' :
         \/ i \in DOMAIN out /\ out'[i] = out[i]
         \/ /\ i > Len(out) /\ SplitOf(out'[i]) /\ out'[i].fold = fold
            /\ job.kind = "walk_forward" => i = Len(out) + 1
  <2> TAKE i \in DOMAIN out'
  <2>1. CASE i > Len(out) /\ i - Len(out) \in 1..Len(ranked) /\ out'[i] = pairs[i - Len(out)]
    <3>1. SplitOf(out'[i]) /\ out'[i].fold = fold
      BY <1>6, <2>1
    <3>2. job.kind = "walk_forward" => i = Len(out) + 1
      <4>1. i \in Nat /\ i - Len(out) >= 1 /\ i - Len(out) <= Len(ranked)
        BY <1>2, <1>7, <2>1
      <4> QED
        BY <1>2, <1>7, <4>1
    <3> QED
      BY <2>1, <3>1, <3>2
  <2> QED
    BY <1>7, <2>1
<1>10. \A i \in DOMAIN out' : SplitOf(out'[i]) /\ out'[i].fold <= fold
  <2> TAKE i \in DOMAIN out'
  <2>1. fold \in Nat
    BY <1>4
  <2>2. CASE i \in DOMAIN out /\ out'[i] = out[i]
    BY <1>8, <2>1, <2>2
  <2>3. CASE SplitOf(out'[i]) /\ out'[i].fold = fold
    BY <2>1, <2>3
  <2> QED
    BY <1>9, <2>2, <2>3
<1>11. ASSUME job.kind = "walk_forward"
       PROVE  \A i \in DOMAIN out' :
                  /\ i <= out'[i].fold
                  /\ \A j \in DOMAIN out' : i < j => out'[i].fold < out'[j].fold
  <2>0. fold \in Nat /\ fold >= 1
    BY <1>4
  <2>1. fold >= Len(out) + 1
    <3>1. CASE Len(out) = 0
      BY <2>0, <3>1
    <3>2. CASE Len(out) # 0
      <4>1. Len(out) \in DOMAIN out
        BY <1>7, <3>2
      <4>2. Len(out) <= out[Len(out)].fold /\ out[Len(out)].fold < fold /\ out[Len(out)].fold \in Nat
        BY <1>8, <1>11, <4>1
      <4> QED
        BY <1>7, <2>0, <4>2
    <3> QED
      BY <3>1, <3>2
  <2> TAKE i \in DOMAIN out'
  <2>2. i <= out'[i].fold
    <3>1. CASE i \in DOMAIN out /\ out'[i] = out[i]
      BY <1>8, <1>11, <3>1
    <3>2. CASE i = Len(out) + 1 /\ out'[i].fold = fold
      BY <2>1, <3>2
    <3> QED
      BY <1>9, <1>11, <3>1, <3>2
  <2>3. ASSUME NEW j \in DOMAIN out', i < j PROVE out'[i].fold < out'[j].fold
    <3>1. i \in Nat /\ j \in Nat
      BY <1>7
    <3>2. CASE j \in DOMAIN out /\ out'[j] = out[j]
      <4>1. i \in DOMAIN out
        BY <1>7, <2>3, <3>1, <3>2
      <4>2. out'[i] = out[i]
        BY <1>7, <1>9, <4>1
      <4> QED
        BY <1>8, <1>11, <2>3, <3>2, <4>1, <4>2
    <3>3. CASE j = Len(out) + 1 /\ out'[j].fold = fold
      <4>1. i \in DOMAIN out
        <5>1. ~(i > Len(out))
          BY <1>7, <2>3, <3>1, <3>3
        <5> QED
          BY <1>9, <5>1
      <4>2. out'[i] = out[i]
        BY <1>7, <1>9, <4>1
      <4> QED
        BY <1>8, <3>3, <4>1, <4>2
    <3> QED
      BY <1>9, <1>11, <3>2, <3>3
  <2> QED
    BY <2>2, <2>3
<1> QED
  BY <1>1, <1>4, <1>10, <1>11, NextFuture

\* Every step keeps what is returned in the order of the splits.
LEMMA StepFuture == SweepInv /\ FutureInv /\ [Next]_vars => FutureInv'
<1> SUFFICES ASSUME SweepInv, FutureInv, [Next]_vars PROVE FutureInv'
  OBVIOUS
<1>1. Windows' = Windows /\ job' = job
  BY WindowsFixed
<1>2. phase # "done" => ~Refused
  BY DEF FutureInv
<1>3. \A i \in DOMAIN out :
         /\ SplitOf(out[i]) /\ (phase = "done" \/ out[i].fold < fold) /\ out[i].fold \in Nat
         /\ job.kind = "walk_forward" =>
                i <= out[i].fold /\ \A j \in DOMAIN out : i < j => out[i].fold < out[j].fold
  BY DEF FutureInv, SplitOf
<1>4. ASSUME NEW i \in todo, NEW outcome \in Outcomes, CollectTrained(i, outcome)
      PROVE  FutureInv'
  BY <1>1, <1>4, SameSplit DEF CollectTrained
<1>5. ASSUME NEW i \in todo, NEW outcome \in Outcomes, CollectTested(i, outcome)
      PROVE  FutureInv'
  <2>1. /\ phase = "test" /\ phase' = phase /\ out' = out /\ fold' = fold /\ ranked' = ranked
        /\ todo' = todo \ {i}
        /\ tested' = Append(tested, Result(ranked[i].params, Windows[fold].test, outcome))
    BY <1>5 DEF CollectTested
  <2>2. /\ tested \in Seq(Testable) /\ todo \subseteq 1..Len(ranked) /\ Len(ranked) \in Nat
        /\ DOMAIN ranked = 1..Len(ranked)
    BY <2>1 DEF SweepInv, Chosen
  <2>3. Len(tested') = Len(tested) + 1 /\ Len(tested) \in Nat
    BY <2>1, <2>2
  <2>4. Cardinality(todo') = Cardinality(todo) - 1 /\ Cardinality(todo) \in Nat
    <3>1. IsFiniteSet(todo)
      <4>1. IsFiniteSet(1..Len(ranked))
        BY <2>2, FS_Interval
      <4> QED
        BY <2>2, <4>1, FS_Subset
    <3> QED
      BY <2>1, <3>1, FS_RemoveElement, FS_CardinalityType
  <2>5. /\ Len(tested') + Cardinality(todo') = Len(ranked')
        /\ \A k \in DOMAIN ranked' : ranked'[k].ticks = Windows[fold].train
    BY <2>1, <2>3, <2>4 DEF FutureInv
  <2> QED
    BY <1>1, <2>1, <2>5, SameSplit
<1>6. CASE NoneValid
  <2>1. NextSplit /\ out' = out /\ phase = "train"
    BY <1>6 DEF NoneValid
  <2>2. fold \in Nat /\ \A i \in DOMAIN out : out[i].fold <= fold
    <3>1. fold \in Nat
      BY WindowsFixed DEF FutureInv
    <3> QED
      BY <1>3, <2>1, <3>1
  <2> QED
    BY <1>1, <1>2, <1>3, <2>1, <2>2, NextFuture
<1>7. CASE Rank
  <2> DEFINE b == Best(trained, Wanted)
  <2>1. /\ phase = "train" /\ phase' = "test" /\ out' = out /\ fold' = fold /\ tested' = tested
        /\ ranked' = b /\ todo' = DOMAIN ranked'
    BY <1>7 DEF Rank
  <2>2. trained \in Seq(Trainable) /\ tested = <<>> /\ Wanted \in Nat
    BY <2>1, SweepAssumption DEF SweepInv, Wanted
  <2>3. \A k \in DOMAIN trained :
           trained[k].ticks = Windows[fold].train /\ trained[k].outcome \in Outcomes
    <3>1. \A k \in DOMAIN trained : trained[k] \in Trainable
      BY <2>2
    <3> QED
      BY <3>1 DEF Trainable, Result
  <2>4. \A k \in DOMAIN trained : Valid(trained[k]) => trained[k].outcome \in Int
    BY <2>3, SweepAssumption DEF Valid, Outcomes
  <2>5. DOMAIN b = 1..Len(b) /\ \A k \in DOMAIN b : \E i \in DOMAIN trained : b[k] = trained[i]
    BY <2>2, <2>4, BestRanks
  <2>6. Len(b) \in Nat
    BY <2>2, BestLength
  <2> HIDE DEF b
  <2>7. Cardinality(todo') = Len(b) /\ Len(tested') = 0
    <3>1. Cardinality(1..Len(b)) = Len(b)
      BY ONLY <2>6, FirstFew
    <3> QED
      BY <2>1, <2>2, <2>5, <3>1
  <2>8. \A k \in DOMAIN ranked' : ranked'[k].ticks = Windows[fold].train
    BY <2>1, <2>3, <2>5
  <2> QED
    BY <1>1, <2>1, <2>6, <2>7, <2>8, SameSplit
<1>8. CASE Pair
  BY <1>8, PairFuture
<1>9. CASE UNCHANGED vars \/ Done
  <2>1. UNCHANGED vars
    BY <1>9 DEF Done
  <2>2. Refused' = Refused /\ \A o : SplitOf(o)' <=> SplitOf(o)
    BY <1>1 DEF Refused, SplitOf
  <2> QED
    BY <1>1, <2>1, <2>2 DEF vars, FutureInv, SplitOf
<1> QED
  BY <1>4, <1>5, <1>6, <1>7, <1>8, <1>9 DEF Next, Outcomes

\* What is ranked stays the best while it is tested (sweep.py 234-238, 313-321).
LEMMA StepBest == SweepInv /\ BestIsBest /\ [Next]_vars => BestIsBest'
<1> SUFFICES ASSUME SweepInv, BestIsBest, [Next]_vars, phase' = "test" PROVE BestIsBest'
  BY DEF BestIsBest
<1>1. job' = job /\ Wanted' = Wanted
  BY WindowsFixed DEF Wanted
<1>2. CASE Rank
  <2> DEFINE b == Best(trained, Wanted)
  <2>1. phase = "train" /\ trained' = trained /\ ranked' = b
    BY <1>2 DEF Rank
  <2>2. trained \in Seq(Trainable) /\ Wanted \in Nat
    BY <2>1, SweepAssumption DEF SweepInv, Wanted
  <2>3. \A k \in DOMAIN trained : Valid(trained[k]) => trained[k].outcome \in Int
    <3>1. \A k \in DOMAIN trained : trained[k] \in Trainable
      BY <2>2
    <3> QED
      BY <3>1, SweepAssumption DEF Trainable, Result, Valid, Outcomes
  <2>4. /\ Len(b) = IF Cardinality(Succeeded(trained)) < Wanted
                    THEN Cardinality(Succeeded(trained)) ELSE Wanted
        /\ \A k \in DOMAIN b :
               /\ \E i \in DOMAIN trained : b[k] = trained[i]
               /\ Valid(b[k])
               /\ Cardinality(Higher(trained, b[k])) < k
    BY <2>2, <2>3, BestRanks
  <2> HIDE DEF b
  <2> QED
    BY <1>1, <2>1, <2>4 DEF BestIsBest, ToSet, Succeeded, Higher
<1>3. CASE UNCHANGED <<phase, trained, ranked>>
  BY <1>1, <1>3 DEF BestIsBest, Succeeded
<1>4. Rank \/ UNCHANGED <<phase, trained, ranked>>
  BY DEF Next, CollectTrained, CollectTested, NoneValid, Pair, NextSplit, Done, vars
<1> QED
  BY <1>2, <1>3, <1>4

\* However many workers, however often a configuration is listed and whichever
\* runs raise, every listing has one result when its sweep ends (sweep.py
\* 120-156).
THEOREM EveryRunCounts == Spec => []OneResultEach
<1>1. SweepInv => OneResultEach
  BY DEF SweepInv, Balanced, Count, Awaited, OneResultEach
<1> QED
  BY SweepInvHolds, <1>1, PTL

\* A fold's two results, and those of a serial sweep, are of one configuration
\* whatever the ranking and the order of arrival (sweep.py 239-242).
THEOREM PairedWhenInTurn == Spec => []PairedInTurn
<1>1. SweepInv => PairedInTurn
  BY DEF SweepInv
<1> QED
  BY SweepInvHolds, <1>1, PTL

\* Whatever the scores, and however many runs raised: what is re-run on the
\* test slice is the best of its sweep, and as many as asked for if so many
\* succeeded (sweep.py 158-175).
THEOREM TheBestIsTested == Spec => []BestIsBest
<1>1. Init => BestIsBest
  BY DEF Init, BestIsBest
<1> QED
  BY SweepInvHolds, <1>1, StepBest, PTL DEF Spec

\* For any history, share, number of folds and either kind of window: nothing a
\* configuration was chosen on is tested on, and the folds of a walk test on
\* the ticks after the first training slice without gap or overlap (sweep.py
\* 221-228, 276-289).
THEOREM NoLookAhead == Spec => []TestedOnTheFuture
<1>1. SweepInv /\ FutureInv => TestedOnTheFuture
  <2> SUFFICES ASSUME SweepInv, FutureInv PROVE TestedOnTheFuture
    OBVIOUS
  <2>1. CASE out = <<>>
    BY <2>1, SweepAssumption DEF TestedOnTheFuture
  <2>2. CASE out # <<>>
    <3>1. ~Refused /\ job \in Jobs
      BY <2>2 DEF FutureInv, SweepInv
    <3>2. /\ \A i \in 1..Len(Windows) :
                 /\ Windows[i].train[1] < Windows[i].train[2]
                 /\ Windows[i].train[2] = Windows[i].test[1]
                 /\ Windows[i].test[1] < Windows[i].test[2]
          /\ job.kind = "walk_forward" =>
                 /\ Len(Windows) = NFolds /\ Windows[NFolds].test[2] = NTicks
                 /\ \A i, j \in 1..NFolds : i < j =>
                        /\ Windows[i].test[2] <= Windows[j].test[1]
                        /\ j = i + 1 => Windows[i].test[2] = Windows[j].test[1]
      BY <3>1, SplitsInOrder
    <3>3. \A i \in DOMAIN out : SplitOf(out[i])
      BY DEF FutureInv
    <3>4. \A i \in DOMAIN out :
             LET train == out[i].in_sample.ticks
                 test  == out[i].out_of_sample.ticks
             IN  train[1] < train[2] /\ train[2] = test[1] /\ test[1] < test[2]
      BY <3>2, <3>3 DEF SplitOf
    <3>5. ASSUME job.kind = "walk_forward"
          PROVE  \A i, j \in DOMAIN out : i < j =>
                     LET first == out[i].out_of_sample.ticks
                         next  == out[j].out_of_sample.ticks
                     IN  first[2] <= next[1] /\ (out[j].fold = out[i].fold + 1 => first[2] = next[1])
      <4> TAKE i, j \in DOMAIN out
      <4> HAVE i < j
      <4>1. out[i].fold < out[j].fold
        BY <3>5 DEF FutureInv
      <4> QED
        BY <3>2, <3>3, <3>5, <4>1 DEF SplitOf
    <3>6. ASSUME job.kind = "walk_forward", Len(out) = NFolds
          PROVE  out[NFolds].out_of_sample.ticks[2] = NTicks
      <4>1. NFolds \in DOMAIN out /\ NFolds \in Nat
        BY <3>6, SweepAssumption DEF SweepInv, IsSeq
      <4>2. NFolds <= out[NFolds].fold /\ out[NFolds].fold \in 1..NFolds
        BY <3>2, <3>3, <3>6, <4>1 DEF FutureInv, SplitOf
      <4>3. out[NFolds].fold = NFolds
        BY <4>1, <4>2
      <4> QED
        BY <3>2, <3>3, <3>6, <4>1, <4>3 DEF SplitOf
    <3> QED
      BY <3>4, <3>5, <3>6 DEF TestedOnTheFuture
  <2> QED
    BY <2>1, <2>2
<1>2. Init /\ SweepInv => FutureInv
  BY InitFuture
<1> QED
  BY SweepInvHolds, <1>1, <1>2, StepFuture, PTL DEF Spec

-----------------------------------------------------------------------------
(* The views a run keeps on its own history (latency/book_history.py,      *)
(* reporting/mid_history.py, data/open_interest.py)                        *)

\* Times that never decrease.
InTime(s, n) ==
    /\ n \in Nat /\ DOMAIN s = 1..n /\ \A i \in 1..n : s[i] \in Int
    /\ \A i, j \in 1..n : i <= j => s[i] <= s[j]

\* In such times bisecting counts the places before, or not after, a time
\* (np.searchsorted, bisect; book_history.py 47, open_interest.py 57,
\* metrics.py 60).
LEMMA Bisects ==
    ASSUME NEW s, NEW n, InTime(s, n), NEW t \in Int
    PROVE  /\ BisectRight(s, t) \in 0..n /\ \A i \in 1..n : s[i] <= t <=> i <= BisectRight(s, t)
           /\ BisectLeft(s, t) \in 0..n /\ \A i \in 1..n : s[i] < t <=> i <= BisectLeft(s, t)
<1>1. n \in Nat /\ DOMAIN s = 1..n
  BY DEF InTime
<1>2. \A i \in 1..n : s[i] \in Int /\ \A j \in 1..i : j \in 1..n /\ s[j] \in Int /\ s[j] <= s[i]
  BY <1>1 DEF InTime
<1>3. ASSUME NEW S, S \subseteq 1..n, \A i \in S : \A j \in 1..i : j \in S
      PROVE  Cardinality(S) \in 0..n /\ \A i \in 1..n : i \in S <=> i <= Cardinality(S)
  <2>1. Cardinality(S) \in 0..n /\ S = 1..Cardinality(S)
    BY <1>1, <1>3, PrefixCount
  <2>2. \A i \in 1..n : i \in 1..Cardinality(S) <=> i <= Cardinality(S)
    BY <1>1, <2>1
  <2> QED
    BY <2>1, <2>2
<1>4. BisectRight(s, t) \in 0..n /\ \A i \in 1..n : s[i] <= t <=> i <= BisectRight(s, t)
  <2> DEFINE S == {i \in 1..n : s[i] <= t}
  <2>1. BisectRight(s, t) = Cardinality(S) /\ \A i \in 1..n : i \in S <=> s[i] <= t
    BY <1>1 DEF BisectRight
  <2>2. S \subseteq 1..n /\ \A i \in S : \A j \in 1..i : j \in S
    BY <1>1, <1>2
  <2> HIDE DEF S
  <2> QED
    BY <1>3, <2>1, <2>2
<1>5. BisectLeft(s, t) \in 0..n /\ \A i \in 1..n : s[i] < t <=> i <= BisectLeft(s, t)
  <2> DEFINE S == {i \in 1..n : s[i] < t}
  <2>1. BisectLeft(s, t) = Cardinality(S) /\ \A i \in 1..n : i \in S <=> s[i] < t
    BY <1>1 DEF BisectLeft
  <2>2. S \subseteq 1..n /\ \A i \in S : \A j \in 1..i : j \in S
    BY <1>1, <1>2
  <2> HIDE DEF S
  <2> QED
    BY <1>3, <2>1, <2>2
<1> QED
  BY <1>4, <1>5

\* The last few ticks, oldest first.
LastOf(n, kept) == [i \in 1..kept |-> n - kept + i]
Kept(n, most)   == IF n <= most THEN n ELSE most

\* A slot of the ring holds the last tick that was written there.
RingSlots ==
    /\ write \in 0..(Capacity - 1) /\ count = Kept(Len(times), Capacity)
    /\ count < Capacity => write = count
    /\ \A slot \in 0..(Capacity - 1) :
           slot < write \/ count = Capacity =>
               ring[slot] = IF slot < write THEN Len(times) - write + slot + 1
                            ELSE Len(times) - write - Capacity + slot + 1

\* The times of the history never decrease, both windows are its last ticks, and
\* a fill has a time.
ViewsInv ==
    /\ times \in Seq(Nat) /\ InTime(times, Len(times))
    /\ retained = LastOf(Len(times), Kept(Len(times), MaxLen))
    /\ DOMAIN ring = 0..(Capacity - 1) /\ RingSlots
    /\ fills \subseteq Int

\* What is looked up of the last few ticks: as of the whole history, unless it
\* is before them.
LEMMA BisectsLast ==
    ASSUME NEW s, NEW n, InTime(s, n), NEW kept \in 1..n, NEW t \in Int
    PROVE  LET seen == At(s, LastOf(n, kept))
               Beyond(k) == IF k > n - kept THEN k - (n - kept) ELSE 0
           IN  /\ BisectRight(seen, t) = Beyond(BisectRight(s, t))
               /\ BisectLeft(seen, t) = Beyond(BisectLeft(s, t))
<1> DEFINE seen == At(s, LastOf(n, kept))
<1>1. n \in Nat /\ kept \in Nat /\ kept >= 1 /\ kept <= n
  BY DEF InTime
<1>2. /\ DOMAIN seen = 1..kept
      /\ \A i \in 1..kept : seen[i] = s[n - kept + i] /\ n - kept + i \in 1..n
  BY <1>1 DEF At, LastOf
<1> HIDE DEF seen
<1>3. InTime(seen, kept)
  BY <1>1, <1>2 DEF InTime
<1>4. ASSUME NEW k \in 0..n, NEW c \in 0..kept,
             \A i \in 1..kept : i <= c <=> n - kept + i <= k
      PROVE  c = IF k > n - kept THEN k - (n - kept) ELSE 0
  <2>1. c = 0 \/ n - kept + c <= k
    BY <1>1, <1>4
  <2>2. c = kept \/ ~(n - kept + (c + 1) <= k)
    BY <1>1, <1>4
  <2> QED
    BY <1>1, <2>1, <2>2
<1>5. /\ BisectRight(seen, t) \in 0..kept /\ BisectRight(s, t) \in 0..n
      /\ \A i \in 1..kept : i <= BisectRight(seen, t) <=> n - kept + i <= BisectRight(s, t)
  BY <1>2, <1>3, Bisects
<1>6. /\ BisectLeft(seen, t) \in 0..kept /\ BisectLeft(s, t) \in 0..n
      /\ \A i \in 1..kept : i <= BisectLeft(seen, t) <=> n - kept + i <= BisectLeft(s, t)
  BY <1>2, <1>3, Bisects
<1>7. BisectRight(seen, t) = IF BisectRight(s, t) > n - kept THEN BisectRight(s, t) - (n - kept) ELSE 0
  BY <1>4, <1>5
<1>8. BisectLeft(seen, t) = IF BisectLeft(s, t) > n - kept THEN BisectLeft(s, t) - (n - kept) ELSE 0
  BY <1>4, <1>6
<1> QED
  BY <1>7, <1>8 DEF seen

\* A slot after the last is the first (mid_history.py 34).
LEMMA Wraps ==
    ASSUME NEW c \in Nat \ {0}, NEW a \in 0..(2 * c - 1)
    PROVE  a % c = IF a < c THEN a ELSE a - c
  OBVIOUS

\* A run begins with no history (book_history.py 22-26, mid_history.py 22-28).
LEMMA InitViews == ViewsInit => ViewsInv
<1> SUFFICES ASSUME ViewsInit PROVE ViewsInv
  OBVIOUS
<1>1. MaxLen \in Nat \ {0} /\ Capacity \in Nat \ {0}
  BY ViewsAssumption
<1>2. times = <<>> /\ retained = <<>> /\ write = 0 /\ count = 0 /\ fills = {}
      /\ DOMAIN ring = 0..(Capacity - 1)
  BY DEF ViewsInit
<1>3. InTime(times, Len(times))
  BY <1>2 DEF InTime
<1>4. retained = LastOf(Len(times), Kept(Len(times), MaxLen))
  BY <1>1, <1>2 DEF LastOf, Kept
<1>5. RingSlots
  BY <1>1, <1>2 DEF RingSlots, Kept
<1> QED
  BY <1>2, <1>3, <1>4, <1>5 DEF ViewsInv

\* A tick is later than those before it, or of the same time.
LEMMA TimesStep ==
    ASSUME ViewsInv, NEW step \in Steps, NEW delay \in Delays, NEW filled \in BOOLEAN,
           Tick(step, delay, filled)
    PROVE  /\ times' \in Seq(Nat) /\ Len(times') = Len(times) + 1 /\ Len(times) \in Nat
           /\ InTime(times', Len(times'))
           /\ times'[Len(times')] - delay \in Int
           /\ fills' \subseteq Int
<1> DEFINE n    == Len(times)
           last == IF times = <<>> THEN 0 ELSE times[n]
           ts   == last + step
<1>1. /\ times \in Seq(Nat) /\ InTime(times, n) /\ fills \subseteq Int
      /\ step \in Nat /\ delay \in Nat
  BY ViewsAssumption DEF ViewsInv
<1>2. times' = Append(times, ts) /\ (fills' = fills \/ fills' = last..ts)
  BY DEF Tick
<1>3. n \in Nat /\ DOMAIN times = 1..n /\ (times = <<>> <=> n = 0)
  BY <1>1
<1>4. last \in Nat /\ \A i \in 1..n : times[i] \in Nat /\ times[i] <= last
  <2>1. CASE n = 0
    BY <1>3, <2>1
  <2>2. CASE n # 0
    <3>1. n \in 1..n /\ times[n] \in Nat /\ last = times[n]
      BY <1>1, <1>3, <2>2
    <3>2. \A i \in 1..n : times[i] \in Nat /\ times[i] <= times[n]
      BY <1>1, <1>3, <3>1 DEF InTime
    <3> QED
      BY <3>1, <3>2
  <2> QED
    BY <2>1, <2>2
<1> HIDE DEF last
<1>5. ts \in Nat /\ ts >= last
  BY <1>1, <1>4
<1> HIDE DEF ts
<1>6. /\ times' \in Seq(Nat) /\ Len(times') = n + 1 /\ DOMAIN times' = 1..(n + 1)
      /\ times'[n + 1] = ts /\ \A i \in 1..n : times'[i] = times[i]
  BY <1>1, <1>2, <1>3, <1>5
<1>7. InTime(times', n + 1)
  <2>1. \A i \in 1..(n + 1) : times'[i] \in Int
    BY <1>6
  <2>2. ASSUME NEW i \in 1..(n + 1), NEW j \in 1..(n + 1), i <= j
        PROVE  times'[i] <= times'[j]
    <3>1. CASE j \in 1..n
      <4>1. i \in 1..n
        BY <1>3, <2>2, <3>1
      <4> QED
        BY <1>1, <1>6, <2>2, <3>1, <4>1 DEF InTime
    <3>2. CASE j = n + 1
      <4>1. i = n + 1 \/ i \in 1..n
        BY <1>3
      <4> QED
        BY <1>4, <1>5, <1>6, <3>2, <4>1
    <3> QED
      BY <1>3, <3>1, <3>2
  <2> QED
    BY <1>3, <1>6, <2>1, <2>2 DEF InTime
<1>8. fills' \subseteq Int
  <2>1. last..ts \subseteq Int
    BY <1>4, <1>5
  <2> QED
    BY <1>1, <1>2, <2>1
<1> QED
  BY <1>1, <1>3, <1>5, <1>6, <1>7, <1>8

\* The books retained are the last ticks' (book_history.py 28-31).
LEMMA PushStep ==
    ASSUME NEW n \in Nat, NEW most \in Nat \ {0}, NEW ticks, ticks = LastOf(n, Kept(n, most))
    PROVE  LET all == Append(ticks, n + 1)
           IN  (IF Len(all) > most THEN Tail(all) ELSE all) = LastOf(n + 1, Kept(n + 1, most))
<1> DEFINE k   == Kept(n, most)
           all == Append(ticks, n + 1)
           got == IF Len(all) > most THEN Tail(all) ELSE all
           due == LastOf(n + 1, Kept(n + 1, most))
<1>1. k \in Nat /\ k <= n /\ k <= most /\ (k < most => k = n)
  BY DEF Kept
<1>2. Kept(n + 1, most) = IF k < most THEN k + 1 ELSE most
  BY DEF Kept
<1> HIDE DEF k
<1>3. ticks = [i \in 1..k |-> n - k + i] /\ ticks \in Seq(Nat) /\ Len(ticks) = k
  <2>1. ticks = [i \in 1..k |-> n - k + i]
    BY DEF LastOf, k
  <2>2. ticks \in [1..k -> Nat]
    BY <1>1, <2>1
  <2> QED
    BY <1>1, <2>1, <2>2
<1>4. /\ all \in Seq(Nat) /\ Len(all) = k + 1 /\ DOMAIN all = 1..(k + 1)
      /\ \A i \in 1..(k + 1) : all[i] = n - k + i
  <2>1. all \in Seq(Nat) /\ Len(all) = k + 1 /\ all[k + 1] = n + 1 /\ \A i \in 1..k : all[i] = ticks[i]
    BY <1>1, <1>3
  <2> HIDE DEF all
  <2>2. \A i \in 1..(k + 1) : all[i] = n - k + i
    <3> TAKE i \in 1..(k + 1)
    <3>1. CASE i = k + 1
      BY <1>1, <2>1, <3>1
    <3>2. CASE i \in 1..k
      BY <1>3, <2>1, <3>2
    <3> QED
      BY <1>1, <3>1, <3>2
  <2> QED
    BY <2>1, <2>2
<1> HIDE DEF all
<1>5. /\ got \in Seq(Nat) /\ Len(got) = Kept(n + 1, most)
      /\ \A i \in 1..Len(got) : got[i] = n + 1 - Len(got) + i
  <2>1. CASE k < most
    <3>1. got = all
      BY <1>1, <1>4, <2>1
    <3>2. \A i \in 1..(k + 1) : n - k + i = n + 1 - (k + 1) + i
      BY <1>1
    <3> QED
      BY <1>2, <1>4, <2>1, <3>1, <3>2
  <2>2. CASE ~(k < most)
    <3>1. k = most /\ got = Tail(all)
      BY <1>1, <1>4, <2>2
    <3>2. Tail(all) \in Seq(Nat) /\ Len(Tail(all)) = k /\ \A i \in 1..k : Tail(all)[i] = all[i + 1]
      BY <1>1, <1>4, <3>1
    <3>3. \A i \in 1..k : all[i + 1] = n + 1 - k + i
      <4> TAKE i \in 1..k
      <4>1. i + 1 \in 1..(k + 1) /\ n - k + (i + 1) = n + 1 - k + i
        BY <1>1
      <4> QED
        BY <1>4, <4>1
    <3> QED
      BY <1>2, <2>2, <3>1, <3>2, <3>3
  <2> QED
    BY <2>1, <2>2
<1> HIDE DEF got
<1>6. Kept(n + 1, most) \in Nat /\ Kept(n + 1, most) <= n + 1
  BY <1>1, <1>2
<1>7. due = [i \in 1..Len(got) |-> n + 1 - Len(got) + i]
  BY <1>5 DEF LastOf
<1>8. due \in Seq(Nat) /\ Len(due) = Len(got) /\ \A i \in 1..Len(got) : due[i] = n + 1 - Len(got) + i
  <2>1. \A i \in 1..Len(got) : n + 1 - Len(got) + i \in Nat
    BY <1>5, <1>6
  <2> HIDE DEF due
  <2>2. due \in [1..Len(got) -> Nat] /\ Len(got) \in Nat
    BY <1>5, <1>6, <1>7, <2>1
  <2> QED
    BY <1>7, <2>2
<1> HIDE DEF due
<1>9. got = due
  BY <1>5, <1>8, SeqEqual
<1> QED
  BY <1>9 DEF got, due, all

\* A mid goes to the next slot, over the oldest one once the ring is full
\* (mid_history.py 30-36).
LEMMA RingStep ==
    ASSUME ViewsInv, NEW step \in Steps, NEW delay \in Delays, NEW filled \in BOOLEAN,
           Tick(step, delay, filled)
    PROVE  DOMAIN ring' = 0..(Capacity - 1) /\ RingSlots'
<1> DEFINE n == Len(times)
<1>1. /\ Capacity \in Nat \ {0} /\ write \in 0..(Capacity - 1) /\ DOMAIN ring = 0..(Capacity - 1)
      /\ count = Kept(n, Capacity) /\ (count < Capacity => write = count)
      /\ \A slot \in 0..(Capacity - 1) :
             slot < write \/ count = Capacity =>
                 ring[slot] = IF slot < write THEN n - write + slot + 1
                              ELSE n - write - Capacity + slot + 1
  BY ViewsAssumption DEF ViewsInv, RingSlots
<1>2. n \in Nat /\ Len(times') = n + 1
  BY TimesStep
<1>3. count \in Nat /\ count <= Capacity /\ (count < Capacity => count = n)
  BY <1>1, <1>2 DEF Kept
<1>4. /\ ring' = [ring EXCEPT ![write] = n + 1] /\ write' = (write + 1) % Capacity
      /\ count' = Min({count + 1, Capacity})
  BY DEF Tick
<1>5. count' = IF count < Capacity THEN count + 1 ELSE Capacity
  BY <1>1, <1>3, <1>4, MinMaxPair
<1>6. count' = Kept(n + 1, Capacity)
  BY <1>1, <1>2, <1>3, <1>5 DEF Kept
<1>7. write' = IF write + 1 < Capacity THEN write + 1 ELSE 0
  <2>1. write + 1 \in 0..(2 * Capacity - 1) /\ (~(write + 1 < Capacity) => write + 1 - Capacity = 0)
    BY <1>1
  <2> QED
    BY <1>1, <1>4, <2>1, Wraps
<1>8. write' \in 0..(Capacity - 1) /\ (count' < Capacity => write' = count')
  BY <1>1, <1>3, <1>5, <1>7
<1>9. ASSUME NEW slot \in 0..(Capacity - 1), slot < write' \/ count' = Capacity
      PROVE  ring'[slot] = IF slot < write' THEN Len(times') - write' + slot + 1
                           ELSE Len(times') - write' - Capacity + slot + 1
  <2>1. slot = write => ring'[slot] = n + 1
    BY <1>1, <1>4
  <2>2. slot # write => ring'[slot] = ring[slot]
    BY <1>1, <1>4
  <2>3. slot < write \/ slot = write \/ count = Capacity
    BY <1>1, <1>3, <1>5, <1>7, <1>9
  <2>4. slot # write =>
            ring[slot] = IF slot < write THEN n - write + slot + 1
                         ELSE n - write - Capacity + slot + 1
    BY <1>1, <2>3
  <2>5. CASE write + 1 < Capacity
    BY <1>1, <1>2, <1>7, <2>1, <2>2, <2>4, <2>5
  <2>6. CASE ~(write + 1 < Capacity)
    BY <1>1, <1>2, <1>7, <2>1, <2>2, <2>4, <2>6
  <2> QED
    BY <2>5, <2>6
<1>10. DOMAIN ring' = 0..(Capacity - 1)
  BY <1>1, <1>4
<1>11. RingSlots'
  <2>1. \A slot \in 0..(Capacity - 1) :
            slot < write' \/ count' = Capacity =>
                ring'[slot] = IF slot < write' THEN Len(times') - write' + slot + 1
                              ELSE Len(times') - write' - Capacity + slot + 1
    BY ONLY <1>9
  <2>2. count' = Kept(Len(times'), Capacity)
    BY <1>2, <1>6
  <2> QED
    BY <1>8, <2>1, <2>2 DEF RingSlots
<1> QED
  BY <1>10, <1>11

\* ViewsInv is inductive.
LEMMA StepViews == ViewsInv /\ [ViewsNext]_viewsVars => ViewsInv'
<1> SUFFICES ASSUME ViewsInv, [ViewsNext]_viewsVars PROVE ViewsInv'
  OBVIOUS
<1>1. ASSUME NEW step \in Steps, NEW delay \in Delays, NEW filled \in BOOLEAN,
             Tick(step, delay, filled)
      PROVE  ViewsInv'
  <2>1. /\ times' \in Seq(Nat) /\ Len(times') = Len(times) + 1 /\ Len(times) \in Nat
        /\ InTime(times', Len(times')) /\ fills' \subseteq Int
    BY <1>1, TimesStep
  <2>2. DOMAIN ring' = 0..(Capacity - 1) /\ RingSlots'
    BY <1>1, RingStep
  <2>3. retained' = LastOf(Len(times'), Kept(Len(times'), MaxLen))
    <3>1. retained = LastOf(Len(times), Kept(Len(times), MaxLen)) /\ MaxLen \in Nat \ {0}
      BY ViewsAssumption DEF ViewsInv
    <3>2. retained' = Pushed(retained, Len(times) + 1)
      BY <1>1 DEF Tick
    <3> QED
      BY <2>1, <3>1, <3>2, PushStep DEF Pushed
  <2> QED
    BY <2>1, <2>2, <2>3 DEF ViewsInv
<1>2. CASE UNCHANGED viewsVars
  BY <1>2 DEF viewsVars, ViewsInv, RingSlots
<1> QED
  BY <1>1, <1>2 DEF ViewsNext

\* Read from its oldest slot on, the ring is the end of the history
\* (mid_history.py 38-44).
LEMMA RingReads ==
    ASSUME ViewsInv
    PROVE  ToArrays = LastOf(Len(times), Kept(Len(times), Capacity))
<1> DEFINE n    == Len(times)
           kept == Kept(n, Capacity)
<1>1. /\ Capacity \in Nat \ {0} /\ write \in 0..(Capacity - 1) /\ n \in Nat
      /\ count = kept /\ (count < Capacity => write = count)
      /\ \A slot \in 0..(Capacity - 1) :
             slot < write \/ count = Capacity =>
                 ring[slot] = IF slot < write THEN n - write + slot + 1
                              ELSE n - write - Capacity + slot + 1
  BY ViewsAssumption DEF ViewsInv, RingSlots
<1>2. kept \in Nat /\ kept <= Capacity
  BY <1>1 DEF Kept
<1> HIDE DEF n, kept
<1>3. CASE count < Capacity
  <2>1. ToArrays = [i \in 1..count |-> ring[i - 1]]
    BY <1>3 DEF ToArrays
  <2>2. \A i \in 1..count : ring[i - 1] = n - count + i
    <3> TAKE i \in 1..count
    <3>1. i - 1 \in 0..(Capacity - 1) /\ i - 1 < write
      BY <1>1, <1>2, <1>3
    <3>2. ring[i - 1] = n - write + (i - 1) + 1
      BY <1>1, <3>1
    <3> QED
      BY <1>1, <1>2, <1>3, <3>2
  <2> QED
    BY <1>1, <2>1, <2>2 DEF LastOf, n, kept
<1>4. CASE count = Capacity
  <2>1. ToArrays = [i \in 1..Capacity |-> ring[(write + i - 1) % Capacity]]
    BY <1>1, <1>4 DEF ToArrays
  <2>2. \A i \in 1..Capacity : ring[(write + i - 1) % Capacity] = n - Capacity + i
    <3> TAKE i \in 1..Capacity
    <3> DEFINE a    == write + i - 1
               slot == a % Capacity
    <3>1. a \in 0..(2 * Capacity - 1)
      BY <1>1
    <3>2. slot = IF a < Capacity THEN a ELSE a - Capacity
      BY <1>1, <3>1, Wraps
    <3> HIDE DEF slot
    <3>3. slot \in 0..(Capacity - 1)
      BY <1>1, <3>2
    <3>4. ring[slot] = IF slot < write THEN n - write + slot + 1
                       ELSE n - write - Capacity + slot + 1
      BY <1>1, <1>4, <3>3
    <3>5. ring[slot] = n - Capacity + i
      BY <1>1, <3>2, <3>4
    <3> QED
      BY <3>5 DEF slot
  <2> QED
    BY <1>1, <1>4, <2>1, <2>2 DEF LastOf, n, kept
<1> QED
  BY <1>1, <1>2, <1>3, <1>4

\* The last retained tick not after t, or else the oldest retained, which is
\* then later than t (book_history.py 33-53).
LEMMA AsOfLatest ==
    ASSUME NEW s, NEW n, InTime(s, n), NEW kept \in 1..n, NEW t \in Int
    PROVE  LET seen == AsOf(LastOf(n, kept), At(s, LastOf(n, kept)), t)
               due  == BisectRight(s, t)
           IN  /\ due \in 0..n /\ seen \in 1..n
               /\ IF due > n - kept THEN seen = due ELSE seen = n - kept + 1 /\ s[seen] > t
<1> DEFINE ticks == LastOf(n, kept)
           seen  == AsOf(ticks, At(s, ticks), t)
           due   == BisectRight(s, t)
           i     == BisectRight(At(s, ticks), t)
<1>1. n \in Nat /\ kept \in Nat /\ kept >= 1 /\ kept <= n /\ \A k \in 1..n : s[k] \in Int
  BY DEF InTime
<1>2. due \in 0..n /\ \A k \in 1..n : s[k] <= t <=> k <= due
  BY Bisects
<1>3. i = IF due > n - kept THEN due - (n - kept) ELSE 0
  BY BisectsLast
<1>4. seen = IF i = 0 THEN ticks[1] ELSE ticks[i]
  BY DEF AsOf
<1>5. \A k \in 1..kept : ticks[k] = n - kept + k
  BY DEF LastOf
<1> HIDE DEF ticks, seen, due, i
<1>6. CASE due > n - kept
  <2>1. i \in 1..kept /\ i # 0 /\ n - kept + i = due
    BY <1>1, <1>2, <1>3, <1>6
  <2>2. seen = due
    BY <1>4, <1>5, <2>1
  <2> QED
    BY <1>1, <1>2, <1>6, <2>2 DEF seen, due, ticks
<1>7. CASE ~(due > n - kept)
  <2>1. i = 0 /\ 1 \in 1..kept
    BY <1>1, <1>3, <1>7
  <2>2. seen = n - kept + 1
    BY <1>4, <1>5, <2>1
  <2>3. seen \in 1..n /\ ~(seen <= due)
    BY <1>1, <1>2, <1>7, <2>2
  <2>4. s[seen] > t
    BY <1>1, <1>2, <2>3
  <2> QED
    BY <1>2, <1>7, <2>2, <2>3, <2>4 DEF seen, due, ticks
<1> QED
  BY <1>6, <1>7

\* A point not after u that no other such point is later than; of several at
\* one time the last listed.
LatestPoint(i, u) ==
    /\ Points[i].ts <= u
    /\ \A j \in DOMAIN Points : Points[j].ts <= u =>
            Points[j].ts < Points[i].ts \/ (Points[j].ts = Points[i].ts /\ j <= i)

\* Looking a time up in the schedule finds the value in force, whatever the
\* order in which the points are listed (open_interest.py 34-37, 55-61).
LEMMA OiInForce ==
    ASSUME NEW u \in Int
    PROVE  OiAsOf(u) = {Points[i].oi : i \in {k \in DOMAIN Points : LatestPoint(k, u)}}
<1> DEFINE n == Len(Points)
<1>1. n \in Nat /\ DOMAIN Points = 1..n /\ \A i \in 1..n : Points[i].ts \in Int
  <2> DEFINE Point == [ts : Int, oi : Nat]
  <2>1. Points \in Seq(Point)
    BY ViewsAssumption
  <2>2. \A p \in Point : p.ts \in Int
    OBVIOUS
  <2> HIDE DEF Point
  <2>3. n \in Nat /\ DOMAIN Points = 1..n /\ \A i \in 1..n : Points[i] \in Point
    BY <2>1
  <2> QED
    BY <2>2, <2>3
<1> HIDE DEF n
<1>2. PICK order \in [1..n -> 1..n] :
         /\ Schedule = [k \in 1..n |-> Points[order[k]]]
         /\ \A i \in 1..n : \E k \in 1..n : order[k] = i
         /\ \A i, j \in 1..n : i < j <=>
                \/ Points[order[i]].ts < Points[order[j]].ts
                \/ Points[order[i]].ts = Points[order[j]].ts /\ order[i] < order[j]
  BY <1>1, ByTimeSorts DEF Schedule
<1> DEFINE s == [k \in DOMAIN Schedule |-> Schedule[k].ts]
           c == BisectRight(s, u)
<1>3. DOMAIN s = 1..n /\ \A k \in 1..n : s[k] = Points[order[k]].ts /\ s[k] \in Int
  BY <1>1, <1>2
<1>4. OiAsOf(u) = IF c = 0 THEN {} ELSE {Schedule[c].oi}
  BY DEF OiAsOf
<1> HIDE DEF s
<1>5. InTime(s, n)
  <2>1. ASSUME NEW i \in 1..n, NEW j \in 1..n, i < j PROVE s[i] <= s[j]
    <3>1. \/ Points[order[i]].ts < Points[order[j]].ts
          \/ Points[order[i]].ts = Points[order[j]].ts
      BY <1>2, <2>1
    <3>2. s[i] < s[j] \/ s[i] = s[j]
      BY <1>3, <3>1
    <3>3. s[i] \in Int /\ s[j] \in Int
      BY <1>3
    <3> QED
      BY ONLY <3>2, <3>3
  <2>2. \A i, j \in 1..n : i <= j => s[i] <= s[j]
    <3> TAKE i, j \in 1..n
    <3>1. i = j => s[i] <= s[j]
      BY <1>3
    <3>2. i <= j => i < j \/ i = j
      BY <1>1
    <3> QED
      BY <2>1, <3>1, <3>2
  <2> QED
    BY <1>1, <1>3, <2>2 DEF InTime
<1>6. c \in 0..n /\ \A k \in 1..n : s[k] <= u <=> k <= c
  BY <1>5, Bisects
<1> HIDE DEF c
<1>7. ASSUME NEW k \in 1..n
      PROVE  LatestPoint(order[k], u) <=> k = c
  <2> DEFINE Later(i, j) == \/ Points[i].ts < Points[j].ts
                            \/ Points[i].ts = Points[j].ts /\ i <= j
  <2>1. \A i, j \in 1..n : i <= j <=> Later(order[i], order[j])
    <3> TAKE i, j \in 1..n
    <3>1. order[i] \in 1..n /\ order[j] \in 1..n
      BY <1>2
    <3>2. /\ i < j <=> \/ Points[order[i]].ts < Points[order[j]].ts
                       \/ Points[order[i]].ts = Points[order[j]].ts /\ order[i] < order[j]
          /\ j < i <=> \/ Points[order[j]].ts < Points[order[i]].ts
                       \/ Points[order[j]].ts = Points[order[i]].ts /\ order[j] < order[i]
      BY <1>2
    <3>3. s[i] = Points[order[i]].ts /\ s[j] = Points[order[j]].ts
      BY <1>3
    <3>4. s[i] \in Int /\ s[j] \in Int /\ i \in Int /\ j \in Int /\ order[i] \in Int /\ order[j] \in Int
      BY <1>3, <3>1
    <3>5. /\ i < j <=> s[i] < s[j] \/ (s[i] = s[j] /\ order[i] < order[j])
          /\ j < i <=> s[j] < s[i] \/ (s[j] = s[i] /\ order[j] < order[i])
          /\ Later(order[i], order[j]) <=> s[i] < s[j] \/ (s[i] = s[j] /\ order[i] <= order[j])
      BY <3>2, <3>3
    <3> HIDE DEF Later
    <3> QED
      BY ONLY <3>4, <3>5
  <2>2. LatestPoint(order[k], u) <=>
            Points[order[k]].ts <= u /\ \A j \in 1..n : Points[j].ts <= u => Later(j, order[k])
    BY <1>1 DEF LatestPoint
  <2> HIDE DEF Later
  <2>3. Points[order[k]].ts <= u <=> k <= c
    BY <1>3, <1>6
  <2>4. (\A j \in 1..n : Points[j].ts <= u => Later(j, order[k])) <=> \A m \in 1..n : m <= c => m <= k
    <3>1. \A m \in 1..n : order[m] \in 1..n /\ (Points[order[m]].ts <= u <=> m <= c)
      BY <1>2, <1>3, <1>6
    <3>2. \A m \in 1..n : m <= k <=> Later(order[m], order[k])
      BY <2>1
    <3> QED
      BY <1>2, <3>1, <3>2
  <2>5. (k <= c /\ \A m \in 1..n : m <= c => m <= k) <=> k = c
    <3>1. ASSUME k <= c, \A m \in 1..n : m <= c => m <= k PROVE k = c
      <4>1. c \in 1..n
        BY <1>1, <1>6, <3>1
      <4> QED
        BY <1>1, <3>1, <4>1
    <3>2. ASSUME k = c PROVE k <= c /\ \A m \in 1..n : m <= c => m <= k
      BY <1>1, <3>2
    <3> QED
      BY <3>1, <3>2
  <2> QED
    BY <2>2, <2>3, <2>4, <2>5
<1>8. CASE c = 0
  <2>1. \A i \in 1..n : ~LatestPoint(i, u)
    <3> TAKE i \in 1..n
    <3>1. PICK k \in 1..n : order[k] = i
      BY <1>2
    <3>2. k # c
      BY <1>1, <1>8
    <3> QED
      BY <1>7, <3>1, <3>2
  <2> QED
    BY <1>1, <1>4, <1>8, <2>1
<1>9. CASE c # 0
  <2>1. c \in 1..n /\ Schedule[c] = Points[order[c]]
    BY <1>1, <1>2, <1>6, <1>9
  <2>2. \A i \in 1..n : LatestPoint(i, u) <=> i = order[c]
    BY <1>2, <1>7, <2>1
  <2>3. order[c] \in 1..n
    BY <1>2, <2>1
  <2> QED
    BY <1>1, <1>4, <1>9, <2>1, <2>2, <2>3
<1> QED
  BY <1>8, <1>9

\* ViewsInv holds throughout.
LEMMA ViewsInvHolds == ViewsSpec => []ViewsInv
  BY InitViews, StepViews, PTL DEF ViewsSpec

\* A view is looked up as of now minus the delay, and its open interest as of
\* the view (pro_engine.py 262-283).
LEMMA ShownStep ==
    ASSUME ViewsInv, NEW step \in Steps, NEW delay \in Delays, NEW filled \in BOOLEAN,
           Tick(step, delay, filled)
    PROVE  ViewIsLatest' /\ OpenInterestInForce'
<1> DEFINE n    == Len(times')
           kept == Kept(n, MaxLen)
           t    == times'[n] - delay
           due  == BisectRight(times', t)
           seen == shown'.tick
<1>1. /\ times' \in Seq(Nat) /\ n = Len(times) + 1 /\ Len(times) \in Nat
      /\ InTime(times', n) /\ t \in Int
  BY TimesStep
<1>2. retained' = LastOf(n, kept) /\ MaxLen \in Nat \ {0} /\ OiBack \in Nat
  <2>1. ViewsInv'
    BY StepViews DEF ViewsNext
  <2> QED
    BY <2>1, ViewsAssumption DEF ViewsInv
<1>3. kept \in 1..n
  BY <1>1, <1>2 DEF Kept
<1>4. /\ shown'.target = t
      /\ seen = AsOf(retained', At(times', retained'), t)
      /\ shown'.oi = OiAsOf(times'[seen]) /\ shown'.change = OiChange(times'[seen])
  <2> DEFINE last == IF times = <<>> THEN 0 ELSE times[Len(times)]
             ts   == last + step
  <2>1. times' = Append(times, ts) /\ times \in Seq(Nat)
    BY DEF Tick, ViewsInv
  <2>2. times'[n] = ts
    <3> HIDE DEF ts
    <3> QED
      BY <1>1, <2>1
  <2>3. shown' = [target |-> ts - delay, tick |-> AsOf(retained', At(times', retained'), ts - delay),
                  oi |-> OiAsOf(times'[AsOf(retained', At(times', retained'), ts - delay)]),
                  change |-> OiChange(times'[AsOf(retained', At(times', retained'), ts - delay)])]
    BY DEF Tick
  <2> HIDE DEF ts
  <2> QED
    BY <2>2, <2>3
<1> HIDE DEF n, kept, t, seen
<1>5. /\ due \in 0..n /\ seen \in 1..n
      /\ IF due > n - kept THEN seen = due ELSE seen = n - kept + 1 /\ times'[seen] > t
  <2>1. LET now == AsOf(LastOf(n, kept), At(times', LastOf(n, kept)), t)
        IN  /\ BisectRight(times', t) \in 0..n /\ now \in 1..n
            /\ IF BisectRight(times', t) > n - kept THEN now = BisectRight(times', t)
               ELSE now = n - kept + 1 /\ times'[now] > t
    BY <1>1, <1>3, AsOfLatest
  <2> QED
    BY <1>2, <1>4, <2>1
<1> HIDE DEF due
<1>6. ViewIsLatest'
  <2>1. /\ due > n - kept <=> due > n - MaxLen /\ due > 0
        /\ n - kept + 1 = Max({1, n - MaxLen + 1})
    <3>1. kept = IF n <= MaxLen THEN n ELSE MaxLen
      BY DEF kept, Kept
    <3>2. n \in Nat /\ n >= 1 /\ n - MaxLen + 1 \in Int /\ 1 \in Int
      BY <1>1, <1>2
    <3>3. Max({1, n - MaxLen + 1}) = IF 1 >= n - MaxLen + 1 THEN 1 ELSE n - MaxLen + 1
      BY <3>2, MinMaxPair
    <3> QED
      BY <1>2, <1>5, <3>1, <3>2, <3>3
  <2> QED
    BY <1>4, <1>5, <2>1 DEF ViewIsLatest, n, due, t, seen
<1>7. OpenInterestInForce'
  <2>1. times'[seen] \in Int /\ times'[seen] - OiBack \in Int
    BY <1>1, <1>2, <1>5 DEF InTime
  <2>2. \A u \in Int : OiAsOf(u) = {Points[i].oi : i \in {k \in DOMAIN Points : LatestPoint(k, u)}}
    BY OiInForce
  <2>3. /\ shown'.oi = {Points[i].oi : i \in {k \in DOMAIN Points : LatestPoint(k, times'[seen])}}
        /\ shown'.change = {now - past :
              now \in {Points[i].oi : i \in {k \in DOMAIN Points : LatestPoint(k, times'[seen])}},
              past \in {Points[i].oi : i \in {k \in DOMAIN Points :
                                                LatestPoint(k, times'[seen] - OiBack)}}}
    BY <1>4, <2>1, <2>2 DEF OiChange
  <2> QED
    BY <2>3 DEF OpenInterestInForce, LatestPoint, seen
<1> QED
  BY <1>6, <1>7

\* What is shown stays as it was looked up.
LEMMA StepShown ==
    ViewsInv /\ ViewIsLatest /\ OpenInterestInForce /\ [ViewsNext]_viewsVars
        => ViewIsLatest' /\ OpenInterestInForce'
<1> SUFFICES ASSUME ViewsInv, ViewIsLatest, OpenInterestInForce, [ViewsNext]_viewsVars
             PROVE  ViewIsLatest' /\ OpenInterestInForce'
  OBVIOUS
<1>1. CASE UNCHANGED viewsVars
  BY <1>1 DEF viewsVars, ViewIsLatest, OpenInterestInForce
<1>2. CASE ViewsNext
  BY <1>2, ShownStep DEF ViewsNext
<1> QED
  BY <1>1, <1>2

\* For any capacity, and however often the ring has wrapped, the mids read from
\* it are the last of the history, in order (mid_history.py 30-44).
THEOREM RingReadsAsWindow == ViewsSpec => []RingIsWindow
<1>1. ASSUME ViewsInv PROVE RingIsWindow
  <2>1. Len(times) \in Nat /\ Capacity \in Nat
    BY <1>1, ViewsAssumption DEF ViewsInv, InTime
  <2>2. Min({Len(times), Capacity}) = Kept(Len(times), Capacity)
    BY <2>1, MinMaxPair DEF Kept
  <2> QED
    BY <1>1, <2>2, RingReads DEF RingIsWindow, LastOf
<1> QED
  BY ViewsInvHolds, <1>1, PTL

\* For any delays, steps and number of retained books: a strategy sees the last
\* market not later than now minus the delay, or the oldest one retained
\* (book_history.py 33-53).
THEOREM LatestViewShown == ViewsSpec => []ViewIsLatest
<1>1. ViewsInit => ViewIsLatest /\ OpenInterestInForce
  BY DEF ViewsInit, ViewIsLatest, OpenInterestInForce
<1> QED
  BY ViewsInvHolds, <1>1, StepShown, PTL DEF ViewsSpec

\* For any points in any order, repeated times among them: the open interest
\* and its change are those in force at the market shown (open_interest.py
\* 34-37, 55-73).
THEOREM OpenInterestNeverAhead == ViewsSpec => []OpenInterestInForce
<1>1. ViewsInit => ViewIsLatest /\ OpenInterestInForce
  BY DEF ViewsInit, ViewIsLatest, OpenInterestInForce
<1> QED
  BY ViewsInvHolds, <1>1, StepShown, PTL DEF ViewsSpec

\* For any fill times, lookback and capacity: a fill the window still covers is
\* scored with the mid as many ticks after it as asked for, counted from its
\* own time, never from before it (metrics.py 44-79).
THEOREM ScoredWithTheFuture == ViewsSpec => []ScoredAfterFill
<1>1. ASSUME ViewsInv PROVE ScoredAfterFill
  <2> DEFINE n    == Len(times)
             kept == Kept(n, Capacity)
  <2>1. /\ Capacity \in Nat \ {0} /\ Lookback \in Nat /\ fills \subseteq Int
        /\ InTime(times, n) /\ count = kept /\ ToArrays = LastOf(n, kept)
    BY <1>1, RingReads, ViewsAssumption DEF ViewsInv, RingSlots
  <2>2. n \in Nat /\ \A i \in 1..n : times[i] \in Int
    BY <2>1 DEF InTime
  <2> HIDE DEF n
  <2>3. kept \in Nat /\ kept <= n
    BY <2>1, <2>2 DEF Kept
  <2> HIDE DEF kept
  <2>4. ASSUME NEW fill \in fills, Scorable(fill)
        PROVE  LET first == BisectLeft(times, fill) + 1
                   same  == BisectRight(times, fill)
               IN  /\ ScoredWith(fill) >= first + Lookback
                   /\ ScoredWith(fill) <= Max({first, same}) + Lookback
    <3> DEFINE ticks == LastOf(n, kept)
               b     == BisectLeft(At(times, ticks), fill)
               first == BisectLeft(times, fill) + 1
               same  == BisectRight(times, fill)
    <3>1. fill \in Int /\ kept \in 1..n
      BY <2>1, <2>2, <2>3, <2>4 DEF Scorable
    <3>2. fill >= times[ticks[1]] /\ b + 1 + Lookback <= kept /\ ScoredWith(fill) = ticks[b + 1 + Lookback]
      BY <2>1, <2>4 DEF Scorable, ScoredWith
    <3>3. \A i \in 1..kept : ticks[i] = n - kept + i
      BY DEF LastOf
    <3>4. b = IF first - 1 > n - kept THEN first - 1 - (n - kept) ELSE 0
      <4>1. BisectLeft(times, fill) \in Int
        BY <2>1, <3>1, Bisects
      <4> QED
        BY <2>1, <3>1, <4>1, BisectsLast
    <3>5. first \in 1..(n + 1) /\ same \in 0..n /\ \A i \in 1..n : times[i] <= fill <=> i <= same
      <4>1. BisectLeft(times, fill) \in 0..n
        BY <2>1, <3>1, Bisects
      <4>2. same \in 0..n /\ \A i \in 1..n : times[i] <= fill <=> i <= same
        BY <2>1, <3>1, Bisects
      <4> QED
        BY <2>2, <4>1, <4>2
    <3> HIDE DEF ticks, b, first, same
    <3>6. first \in Int /\ same \in Int /\ b \in Nat
      BY <2>2, <2>3, <3>4, <3>5
    <3>7. ScoredWith(fill) = n - kept + (b + 1 + Lookback)
      BY <2>1, <2>3, <3>2, <3>3, <3>6
    <3>8. n - kept + 1 <= same
      <4>1. n - kept + 1 \in 1..n /\ ticks[1] = n - kept + 1
        BY <2>2, <3>1, <3>3
      <4>2. times[n - kept + 1] <= fill
        BY <2>2, <3>1, <3>2, <4>1
      <4> QED
        BY <3>5, <4>1, <4>2
    <3>9. Max({first, same}) = IF first >= same THEN first ELSE same
      BY <3>6, MinMaxPair
    <3>10. /\ ScoredWith(fill) >= first + Lookback
           /\ ScoredWith(fill) <= Max({first, same}) + Lookback
      BY <2>1, <2>2, <2>3, <3>4, <3>6, <3>7, <3>8, <3>9
    <3> QED
      BY <3>10 DEF first, same
  <2> QED
    BY <2>4 DEF ScoredAfterFill
<1> QED
  BY ViewsInvHolds, <1>1, PTL
=============================================================================
