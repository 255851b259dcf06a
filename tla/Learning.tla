------------------------------ MODULE Learning ------------------------------
(***************************************************************************)
(* The life of one model of ml/: the hourly retrainer and an administrator *)
(* who calls it train in threads, number their files by the directories    *)
(* there are, and register in index.json; datasets change meanwhile, index *)
(* files are cut off, the process restarts.                                *)
(***************************************************************************)
EXTENDS Integers, Sequences, FiniteSets, SequencesExt

CONSTANTS
  Hashes,      \* contents of datasets
  F1,          \* per set of contents, the score in tenths of a model trained on it
  BaselineF1,  \* that of the synthetic model
  Callers,     \* sets of callers of check_and_retrain; a behaviour has one of them
  Threshold,   \* retrain_threshold in tenths
  MaxVersions, \* bound on the model files
  MaxChanges   \* bound on changes of the datasets and on restarts

VARIABLES
  datasets, \* the contents registered now
  index,    \* index.json: a sequence of models, or Torn
  files,    \* version |-> the model in its directory
  experiments, \* their states, in the order they started
  pc, run,  \* per caller: its place; [hashes, latest, data, version, experiment]
  changes

vars == <<datasets, index, files, experiments, pc, run, changes>>

\* The retrainer always runs; the administrator may.
Sensible ==
  /\ \A called \in Callers : "tick" \in called /\ IsFiniteSet(called)
  /\ F1 \in [SUBSET Hashes -> Int] /\ BaselineF1 \in Int
  /\ Threshold \in Nat /\ MaxVersions \in Nat \ {0} /\ MaxChanges \in Nat

AllCallers == UNION Callers
None == [version |-> 0]
Torn == <<None>> \* cut off, unreadable
NoRun == [hashes |-> {}, latest |-> None, data |-> {}, version |-> 0, experiment |-> 0]
Baseline(v) == [version |-> v, score |-> BaselineF1, hashes |-> {}, data |-> {}]
-----------------------------------------------------------------------------
(* The catalogue                                                           *)

\* _load_index, get_latest: an index that cannot be read is an empty one.
Models == IF index = Torn THEN <<>> ELSE index
Latest ==
  IF Models = <<>> THEN None
  ELSE LET m == CHOOSE n \in DOMAIN Models :
         \A k \in DOMAIN Models : Models[k].version < Models[n].version \/ (Models[k].version = Models[n].version /\ n <= k)
       IN Models[m]
NextVersion == Cardinality(DOMAIN files) + 1
WithFile(v, model) == [x \in DOMAIN files \cup {v} |-> IF x = v THEN model ELSE files[x]]

\* _dataset_change_ratio beyond the threshold, _metrics_improved
Drifted(latest, hashes) ==
  LET old == IF latest = None THEN {} ELSE latest.hashes
      union == old \cup hashes
  IN latest = None \/ 10 * Cardinality(union \ (old \cap hashes)) > Threshold * Cardinality(union)
BadImproved(latest, model) == latest # model
Improved(latest, model) == latest # None => model.score >= latest.score

\* The boot registers a synthetic model when the catalogue is empty.
Init ==
  /\ datasets \in {{}, Hashes}
  /\ files = [v \in {1} |-> Baseline(1)] /\ index = <<Baseline(1)>> /\ experiments = <<"completed">>
  /\ \E called \in Callers : pc = [c \in AllCallers |-> IF c \in called THEN "idle" ELSE "never"]
  /\ run = [c \in AllCallers |-> NoRun] /\ changes = 0

-----------------------------------------------------------------------------
(* check_and_retrain, train_model                                          *)

Goto(c, from, to) == pc[c] = from /\ pc' = [pc EXCEPT ![c] = to]
Leave(c) == pc' = [pc EXCEPT ![c] = "idle"] /\ run' = [run EXCEPT ![c] = NoRun]

ListDatasets(c) ==
  /\ Goto(c, "idle", "compare") /\ run' = [run EXCEPT ![c].hashes = datasets]
  /\ UNCHANGED <<datasets, index, files, experiments, changes>>

Unchanged(c) ==
  /\ pc[c] = "compare" /\ ~Drifted(Latest, run[c].hashes) /\ Leave(c)
  /\ UNCHANGED <<datasets, index, files, experiments, changes>>
Drift(c) ==
  /\ Goto(c, "compare", "build") /\ Drifted(Latest, run[c].hashes)
  /\ run' = [run EXCEPT ![c].latest = Latest]
  /\ UNCHANGED <<datasets, index, files, experiments, changes>>

\* An administrator asks for a model: nothing is compared before or after.
RequestTraining(c) ==
  /\ c = "admin" /\ Goto(c, "idle", "build")
  /\ UNCHANGED <<datasets, index, files, experiments, run, changes>>

\* The builder lists the datasets once more; without samples the model is left alone.
NoSamples(c) ==
  /\ pc[c] = "build" /\ datasets = {} /\ Leave(c)
  /\ UNCHANGED <<datasets, index, files, experiments, changes>>
StartTraining(c) ==
  /\ Goto(c, "build", "train") /\ datasets # {} /\ Len(experiments) < MaxVersions + 1
  /\ run' = [run EXCEPT ![c].data = datasets, ![c].experiment = Len(experiments) + 1]
  /\ experiments' = Append(experiments, "running")
  /\ UNCHANGED <<datasets, index, files, changes>>

\* A failure is raised again; the experiment stays as it is.
TrainingFails(c) ==
  /\ pc[c] = "train" /\ Leave(c)
  /\ UNCHANGED <<datasets, index, files, experiments, changes>>
\* In the thread: the next number that has no directory yet, then the file.
PickVersion(c) ==
  /\ Goto(c, "train", "dump") /\ NextVersion <= MaxVersions
  /\ run' = [run EXCEPT ![c].version = NextVersion]
  /\ UNCHANGED <<datasets, index, files, experiments, changes>>
Trained(c) == [version |-> run[c].version, score |-> F1[run[c].data], hashes |-> run[c].hashes, data |-> run[c].data]
Dump(c) ==
  /\ Goto(c, "dump", "done") /\ files' = WithFile(run[c].version, Trained(c))
  /\ UNCHANGED <<datasets, index, experiments, run, changes>>

\* Back on the event loop, in one step: the experiment ends, and the model is
\* registered unless it is worse than the latest there was at the start.
Finish(c) ==
  /\ pc[c] = "done" /\ experiments' = [experiments EXCEPT ![run[c].experiment] = "completed"]
  /\ index' = IF Improved(run[c].latest, Trained(c)) THEN Append(Models, Trained(c)) ELSE index
  /\ Leave(c) /\ UNCHANGED <<datasets, files, changes>>
\* The disk is full while index.json is written over itself.
RegisterFails(c) ==
  /\ pc[c] = "done" /\ Improved(run[c].latest, Trained(c)) /\ changes < MaxChanges /\ changes' = changes + 1
  /\ index' = Torn /\ experiments' = [experiments EXCEPT ![run[c].experiment] = "completed"]
  /\ Leave(c) /\ UNCHANGED <<datasets, files>>

-----------------------------------------------------------------------------
ChangeDatasets ==
  /\ changes < MaxChanges /\ changes' = changes + 1 /\ datasets' \in (SUBSET Hashes) \ {datasets}
  /\ UNCHANGED <<index, files, experiments, pc, run>>

\* Trainings die with the process; the next boot looks for models first.
Restart ==
  /\ changes < MaxChanges /\ changes' = changes + 1
  /\ pc' = [c \in AllCallers |-> IF pc[c] = "never" THEN "never" ELSE "idle"] /\ run' = [c \in AllCallers |-> NoRun]
  /\ IF Models = <<>> /\ NextVersion <= MaxVersions
     THEN /\ files' = WithFile(NextVersion, Baseline(NextVersion)) /\ index' = <<Baseline(NextVersion)>>
          /\ experiments' = Append(experiments, "completed")
     ELSE UNCHANGED <<index, files, experiments>>
  /\ UNCHANGED datasets

Retrain(c) ==
  \/ ListDatasets(c) \/ RequestTraining(c) \/ Unchanged(c) \/ Drift(c) \/ NoSamples(c) \/ StartTraining(c) \/ TrainingFails(c)
  \/ PickVersion(c) \/ Dump(c) \/ Finish(c) \/ RegisterFails(c)
Next == (\E c \in AllCallers : Retrain(c)) \/ ChangeDatasets \/ Restart
Spec == Init /\ [][Next]_vars

-----------------------------------------------------------------------------
(* The split into training, validation and test samples (dataset_builder)  *)

\* round(count * percent / 100), halves to the even neighbour.
Rounded(count, percent) ==
  LET q == (count * percent) \div 100
      r == (count * percent) % 100
  IN IF r > 50 \/ (r = 50 /\ q % 2 = 1) THEN q + 1 ELSE q
AtLeastOne(n) == IF n > 1 THEN n ELSE 1
AtMost(n, limit) == IF n < limit THEN n ELSE limit
SplitSizes(count, test, validation) ==
  LET t == IF count >= 3 THEN AtMost(AtLeastOne(Rounded(count, test)), count - 2) ELSE 0
      v == IF count >= 3 THEN AtMost(AtLeastOne(Rounded(count, validation)), count - t - 1) ELSE 0
  IN [test |-> t, validation |-> v, train |-> count - t - v]

\* _balance_training_split of two classes: below 200 the smaller one is filled up with
\* points between its own, from 200 on the larger one is cut down.
Balanced(a, b) ==
  LET more == IF a >= b THEN a ELSE b
      less == IF a >= b THEN b ELSE a
  IN IF a + b < 4 \/ less = 0 \/ 2 * more <= 3 * less THEN <<a, b>>
     ELSE IF more >= 200 THEN <<less, less>> ELSE <<more, more>>

\* prediction_to_score of a classifier that gives the second class p tenths.
ClassifierScore(p) ==
  LET prediction == IF p > 5 THEN 1 ELSE 0
      confidence == IF p > 5 THEN p ELSE 10 - p
  IN IF prediction = 1 THEN confidence ELSE 10 - confidence

-----------------------------------------------------------------------------
TypeOK == changes \in 0..MaxChanges /\ Len(Models) <= MaxVersions + 1 /\ datasets \subseteq Hashes

\* What is registered can be loaded, at every moment and after any restart; an
\* experiment of a registered model is completed.
RegisteredIsThere ==
  /\ \A n \in DOMAIN Models : Models[n].version \in DOMAIN files
  /\ Len(Models) <= Cardinality({e \in DOMAIN experiments : experiments[e] = "completed"})

\* With one retrainer at a time a later model is no worse than one before it, and its
\* file holds that model. (Two at a time compare with the same latest and may pick the
\* same number.)
OneAtATime ==
  Cardinality({c \in AllCallers : pc[c] # "never"}) = 1 =>
    /\ \A n, k \in DOMAIN Models : n < k => Models[n].version < Models[k].version /\ Models[n].score <= Models[k].score
    /\ \A n \in DOMAIN Models : files[Models[n].version] = Models[n]

\* Every class keeps a training sample, from three on a sample of each kind; balancing
\* never takes a sample from the smaller class and makes two uneven classes equal.
SplitIsWhole ==
  /\ \A count \in 0..30, test \in {20, 90}, validation \in {0, 10, 90} :
       LET s == SplitSizes(count, test, validation) IN
         /\ s.test >= 0 /\ s.validation >= 0 /\ (count > 0 => s.train > 0)
         /\ count >= 3 => s.test > 0 /\ s.validation > 0
  /\ \A a, b \in {0, 1, 2, 3, 5, 199, 200, 300} : LET c == Balanced(a, b) IN
       /\ a <= b => c[1] >= a
       /\ a + b >= 4 /\ a > 0 /\ 2 * b > 3 * a => c[1] = c[2]
  /\ \A p \in 0..10 : ClassifierScore(p) = p

\* What depends on no variable is looked at while nothing has happened.
LearningSafe == TypeOK /\ RegisteredIsThere /\ OneAtATime /\ (changes = 0 /\ Len(experiments) = 1 => SplitIsWhole)

\* No model is taken out of the catalogue while it can be read.
CatalogueGrows == index # Torn => index' = Torn \/ IsPrefix(index, index')
=============================================================================
