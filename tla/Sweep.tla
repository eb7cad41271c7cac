------------------------------- MODULE Sweep --------------------------------
(***************************************************************************)
(* ParameterSweep and the two validations built on it (engine/sweep.py):   *)
(* out_of_sample_validate, one split and top_n configurations, and         *)
(* walk_forward_validate, a split per fold and the best configuration of   *)
(* each.  A run of a configuration is a score or an error; results of a    *)
(* process pool arrive in any order.                                       *)
(***************************************************************************)
EXTENDS Integers, Sequences, FiniteSets, SequencesExt, Ordering, TLC

CONSTANTS
    Configs,    \* the configurations, a sequence of parameters
    NTicks,     \* length of the history
    TrainShare, \* train_frac is TrainShare / 10
    NFolds,     \* n_folds
    TopN,       \* top_n of out_of_sample_validate
    Scores,     \* scores a run may have
    Failed      \* the outcome of a run that raised

ASSUME SweepAssumption ==
    /\ Configs \in Seq(ToSet(Configs)) \ {<<>>}
    /\ {NTicks, NFolds, TopN} \subseteq Nat \ {0}
    /\ TrainShare \in 1..9
    /\ Scores \subseteq Int /\ Failed \notin Scores

VARIABLES
    job,     \* the call: which validation, whether windows expand, n_workers
    fold,    \* split being worked on
    phase,   \* "train" | "test" | "done"
    todo,    \* positions of the configurations whose result is awaited
    trained, \* in_sample_results of the fold, as collected
    ranked,  \* best
    tested,  \* oos_results
    out      \* what the call returns

vars == <<job, fold, phase, todo, trained, ranked, tested, out>>

-----------------------------------------------------------------------------
(* The splits: ticks [first, last) to train on and to test on.             *)

Splits(n) == LET cut == (n * TrainShare) \div 10
             IN  <<[train |-> <<0, cut>>, test |-> <<cut, n>>]>>

\* NFolds + 1 chunks; the last fold tests on the remainder too.
Folds(n, expanding) ==
    LET chunk == n \div (NFolds + 1)
    IN  [i \in 1..NFolds |->
            [train |-> <<IF expanding THEN 0 ELSE (i - 1) * chunk, i * chunk>>,
             test  |-> <<i * chunk, IF i = NFolds THEN n ELSE (i + 1) * chunk>>]]

Windows == IF job.kind = "walk_forward" THEN Folds(NTicks, job.expanding) ELSE Splits(NTicks)

\* ValueError: a slice is empty.
Refused == \E i \in DOMAIN Windows : Windows[i].train[1] = Windows[i].train[2]
                                  \/ Windows[i].test[1] = Windows[i].test[2]

\* Faulty: a fold re-runs several configurations.
Wanted_always == TopN
\* A fold re-runs its best configuration only.
Wanted == IF job.kind = "walk_forward" THEN 1 ELSE TopN

-----------------------------------------------------------------------------
(* ParameterSweep                                                          *)

\* With one worker, or one configuration, results come in the order of the
\* configurations; a pool's come in any order.
InTurn(configs, i) == job.workers = 1 \/ Len(configs) = 1 => \A j \in todo : i <= j

\* _worker: a run that raises has a result too.
Result(params, ticks, outcome) == [params |-> params, ticks |-> ticks, outcome |-> outcome]

Valid(r) == r.outcome # Failed

\* The positions of the results a run did not fail.
Succeeded(results) == {i \in DOMAIN results : Valid(results[i])}

\* Faulty: ranked from the lowest score.
ByScore_ascending(results) ==
    LET valid == Succeeded(results)
    IN  InOrder(valid, {p \in valid \X valid :
            \/ results[p[1]].outcome < results[p[2]].outcome
            \/ results[p[1]].outcome = results[p[2]].outcome /\ p[1] < p[2]})

\* The valid results by score, highest first, equals as they came.
ByScore(results) ==
    LET valid == Succeeded(results)
    IN  InOrder(valid, {p \in valid \X valid :
            \/ results[p[1]].outcome > results[p[2]].outcome
            \/ results[p[1]].outcome = results[p[2]].outcome /\ p[1] < p[2]})

\* best.
Best(results, n) ==
    LET count == Cardinality(Succeeded(results))
    IN  [k \in 1..(IF n < count THEN n ELSE count) |-> results[ByScore(results)[k]]]

-----------------------------------------------------------------------------

Init ==
    /\ job \in [kind : {"walk_forward", "out_of_sample"}, expanding : BOOLEAN, workers : {1, 2}]
    /\ fold = 1 /\ phase = IF Refused THEN "done" ELSE "train"
    /\ todo = DOMAIN Configs
    /\ trained = <<>> /\ ranked = <<>> /\ tested = <<>> /\ out = <<>>

\* Faulty: the result of a run that raised is not kept.
CollectTrained_validOnly(i, outcome) ==
    /\ phase = "train" /\ i \in todo /\ InTurn(Configs, i)
    /\ todo' = todo \ {i}
    /\ trained' = IF outcome = Failed THEN trained
                  ELSE Append(trained, Result(Configs[i], Windows[fold].train, outcome))
    /\ UNCHANGED <<job, fold, phase, ranked, tested, out>>

\* ParameterSweep.run on the training slice.
CollectTrained(i, outcome) ==
    /\ phase = "train" /\ i \in todo /\ InTurn(Configs, i)
    /\ todo' = todo \ {i}
    /\ trained' = Append(trained, Result(Configs[i], Windows[fold].train, outcome))
    /\ UNCHANGED <<job, fold, phase, ranked, tested, out>>

\* On to the next split, or back to the caller.
NextSplit ==
    /\ IF fold < Len(Windows)
       THEN fold' = fold + 1 /\ phase' = "train" /\ todo' = DOMAIN Configs
       ELSE phase' = "done" /\ todo' = {} /\ UNCHANGED fold
    /\ trained' = <<>> /\ ranked' = <<>> /\ tested' = <<>>
    /\ UNCHANGED job

\* Every run raised: the split has no result.
NoneValid ==
    /\ phase = "train" /\ todo = {} /\ Best(trained, Wanted) = <<>>
    /\ NextSplit /\ UNCHANGED out

Rank ==
    /\ phase = "train" /\ todo = {} /\ Best(trained, Wanted) # <<>>
    /\ ranked' = Best(trained, Wanted)
    /\ phase' = "test" /\ todo' = DOMAIN ranked'
    /\ UNCHANGED <<job, fold, trained, tested, out>>

\* Faulty: re-run on the slice they were chosen on.
CollectTested_onTrain(i, outcome) ==
    /\ phase = "test" /\ i \in todo /\ InTurn(ranked, i)
    /\ todo' = todo \ {i}
    /\ tested' = Append(tested, Result(ranked[i].params, Windows[fold].train, outcome))
    /\ UNCHANGED <<job, fold, phase, trained, ranked, out>>

\* ParameterSweep.run of the best on the test slice.
CollectTested(i, outcome) ==
    /\ phase = "test" /\ i \in todo /\ InTurn(ranked, i)
    /\ todo' = todo \ {i}
    /\ tested' = Append(tested, Result(ranked[i].params, Windows[fold].test, outcome))
    /\ UNCHANGED <<job, fold, phase, trained, ranked, out>>

\* zip(best, oos_results).
Pair ==
    /\ phase = "test" /\ todo = {}
    /\ out' = out \o [i \in DOMAIN ranked |->
                  [fold |-> fold, params |-> ranked[i].params,
                   in_sample |-> ranked[i], out_of_sample |-> tested[i]]]
    /\ NextSplit

Done == phase = "done" /\ UNCHANGED vars

Next ==
    \/ \E i \in todo, outcome \in Scores \cup {Failed} :
           CollectTrained(i, outcome) \/ CollectTested(i, outcome)
    \/ NoneValid
    \/ Rank
    \/ Pair
    \/ Done

Spec == Init /\ [][Next]_vars

-----------------------------------------------------------------------------
(* Properties                                                              *)

ParamsOf(results) == [i \in DOMAIN results |-> results[i].params]

\* A configuration listed n times has n results when its sweep ends, errors
\* included; until then the awaited ones make up the difference.
OneResultEach ==
    phase = "train" =>
        \A p \in ToSet(Configs) :
            Cardinality({i \in DOMAIN trained : trained[i].params = p})
            + Cardinality({i \in todo : Configs[i] = p})
            = Cardinality({i \in DOMAIN Configs : Configs[i] = p})

\* Nothing better was left out: a valid result is chosen, or every chosen one
\* scored at least as high; and as many are chosen as asked for, if there are.
BestIsBest ==
    phase = "test" =>
        LET valid == Succeeded(trained)
        IN  /\ Len(ranked) = IF Cardinality(valid) < Wanted THEN Cardinality(valid) ELSE Wanted
            /\ \A k \in DOMAIN ranked :
                   /\ ranked[k] \in ToSet(trained) /\ Valid(ranked[k])
                   /\ Cardinality({i \in valid : trained[i].outcome > ranked[k].outcome}) < k

\* Nothing leaks: a configuration is tested on ticks that all come after those
\* it was chosen on, and directly after them; and walking forward, the folds with
\* a result test on disjoint slices in order, when every fold has one on
\* everything after the first training slice.
TestedOnTheFuture ==
    /\ \A i \in DOMAIN out :
           LET train == out[i].in_sample.ticks
               test  == out[i].out_of_sample.ticks
           IN  train[1] < train[2] /\ train[2] = test[1] /\ test[1] < test[2]
    /\ job.kind = "walk_forward" =>
           \A i, j \in DOMAIN out : i < j =>
               LET first == out[i].out_of_sample.ticks
                   next  == out[j].out_of_sample.ticks
               IN  first[2] <= next[1] /\ (out[j].fold = out[i].fold + 1 => first[2] = next[1])
    /\ job.kind = "walk_forward" /\ Len(out) = NFolds => out[NFolds].out_of_sample.ticks[2] = NTicks

Paired(o) == o.in_sample.params = o.out_of_sample.params

\* A fold's two results are of one configuration whatever the number of
\* workers, and so are those of a split swept by one worker.
PairedInTurn ==
    \A i \in DOMAIN out : job.kind = "walk_forward" \/ job.workers = 1 => Paired(out[i])

\* "A config's in-sample (training) result paired with its out-of-sample
\* (held-out) result" (sweep.py:39-40), whatever the number of workers.  The
\* pool's results come as they complete, and are zipped with the ranking.
PairedAlways == \A i \in DOMAIN out : Paired(out[i])
=============================================================================
