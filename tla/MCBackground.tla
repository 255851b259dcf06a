----------------------------- MODULE MCBackground -----------------------------
(***************************************************************************)
(* One run for the parts that go on beside the requests: background tasks   *)
(* and shutdown, the parser threads of a stage, the registration of         *)
(* datasets, and the container, which several threads ask for objects. They *)
(* share no state, so each behaviour is one of one part, chosen at the      *)
(* start. The container has its own variables; v1, v2, ... stand for those  *)
(* of the other parts, and the fairness of each holds in its behaviours.    *)
(***************************************************************************)
EXTENDS Wiring, MCWiring, Integers, FiniteSets, TLC

CONSTANT Parts
VARIABLES part, v1, v2, v3, v4, v5, v6, v7, v8, v9

vs == <<part, v1, v2, v3, v4, v5, v6, v7, v8, v9, vars>>

\* The variables after the n-th are not used.
Unused8 == v9 = 0
Unused0 ==
  /\ v1 = 0 /\ v2 = 0 /\ v3 = 0 /\ v4 = 0 /\ v5 = 0 /\ v6 = 0
  /\ v7 = 0 /\ Unused8 /\ v8 = 0
Unused6 == v7 = 0 /\ v8 = 0 /\ Unused8
Kept9 == UNCHANGED <<part, vars>>
Kept8 == UNCHANGED v9 /\ Kept9
Kept6 == UNCHANGED <<v7, v8>> /\ Kept8
-----------------------------------------------------------------------------
(* Background tasks and shutdown                                           *)

RestartOf == [r1 |-> "watcher", r2 |-> "watcher"]
ShutdownBy == {"signal", "lifespan"}
RunLoops == {"l1", "l2", "l3", "l4"}
T == INSTANCE Runtime WITH Names <- {"watcher", "health"}, Restarts <- {"r1", "r2"}, TaskOf <- RestartOf, Loops <- RunLoops, Jobs <- {"j1"}, NoLoop <- "none",
  stopEvent <- v1, tracked <- v2, loop <- v3, isRunning <- v4, restart <- v5, shut <- v6, job <- v7, engine <- v8, overlapped <- v9
-----------------------------------------------------------------------------
(* The parsing stage of two jobs and the one thread they share             *)

Entry(i, k, w, r) == [inode |-> i, kind |-> k, wanted |-> w, records |-> r]
Image ==
  0 :> <<Entry(1, "directory", "none", 0), Entry(2, "file", "registry", 2), Entry(0, "unknown", "none", 0)>>
  @@ 1 :> <<Entry(3, "deleted", "browser", 1), Entry(6, "file", "eventlog", 1), Entry(1, "directory", "none", 0),
            Entry(4, "directory", "none", 0)>>
  @@ 4 :> <<Entry(2, "file", "registry", 2), Entry(5, "file", "none", 0)>>
StagePlans ==
  {<<<<"registry", "browser">>, <<"memory">>>>, <<<<"memory", "eventlog">>, <<"filesystem">>>>,
   <<<<"filesystem">>, <<"memory", "filesystem">>>>}
P == INSTANCE Parsing WITH Jobs <- {1, 2}, Plans <- StagePlans, Images <- {Image}, Workers <- 1, MaxArtefacts <- 2,
  MaxDepth <- 1, MaxParsers <- 2, Plugins <- <<[optional |-> FALSE], [optional |-> TRUE]>>,
  stage <- v1, plan <- v2, image <- v3, thread <- v4, queue <- v5, progress <- v6
-----------------------------------------------------------------------------
(* Two scans of the dataset tree, an administrator, changing files         *)

File(format, words, body) == [format |-> format, words |-> words, body |-> body]
Scanners == {"watch", "scan"}
D == INSTANCE Datasets WITH Order <- <<"p", "q">>,
  Contents <- <<File("json", {"dataset"}, "odd"), File("csv", {"dataset", "train"}, "list")>>,
  Watcher <- "watch", Scanner <- "scan", Admin <- "admin", Budget <- 3, Ids <- 1..5,
  disk <- v1, rows <- v2, pc <- v3, at <- v4, found <- v5, held <- v6, exists <- v7, calls <- v8
-----------------------------------------------------------------------------
PartInit(p) ==
  CASE p = "runtime" -> T!Init
    [] p = "parsing" -> P!Init /\ Unused6
    [] p = "datasets" -> D!Init /\ Unused8
    [] p = "container" -> Unused0
PartsInit ==
  /\ part \in Parts /\ PartInit(part)
  /\ Init /\ (part # "container" => wanted = {})

Runtime == part = "runtime" /\ T!Next /\ Kept9
Parsing == part = "parsing" /\ P!Next /\ Kept6
Datasets == part = "datasets" /\ D!Next /\ Kept8
Container == part = "container" /\ Next /\ UNCHANGED <<part, v1, v2, v3, v4, v5, v6, v7, v8, v9>>
PartsNext == Runtime \/ Parsing \/ Datasets \/ Container

LoopStep(l) == part = "runtime" /\ T!LoopStep(l) /\ Kept9
RestartCreate(r) == part = "runtime" /\ T!RestartCreate(r) /\ Kept9
ShutStep(h) == part = "runtime" /\ T!ShutStep(h) /\ Kept9
StageSteps(j) == part = "parsing" /\ P!StageSteps(j) /\ Kept6
Save(c) == part = "datasets" /\ D!Save(c) /\ Kept8
Scan(c) == part = "datasets" /\ D!Scan(c) /\ Kept8

\* The fairness that Runtime, Parsing and Datasets state and justify.
PartsFairness ==
  /\ \A l \in RunLoops : WF_vs(LoopStep(l))
  /\ \A r \in {"r1", "r2"} : WF_vs(RestartCreate(r))
  /\ \A h \in ShutdownBy : WF_vs(ShutStep(h))
  /\ \A j \in {1, 2} : WF_vs(StageSteps(j))
  /\ \A c \in Scanners : WF_vs(Save(c)) /\ WF_vs(Scan(c))
  /\ WF_vs(Save("admin"))
PartsSpec == PartsInit /\ [][PartsNext]_vs /\ PartsFairness
-----------------------------------------------------------------------------
(* What each part promises, wherever its behaviours are the ones that run; *)
(* what the container promises is in Wiring                                *)

\* task_manager and shutdown_handler: Runtime. What is shown as running runs,
\* nothing is disposed of under a job that is waited for, and a shutdown ends
\* with every loop.
RuntimeInv ==
  /\ [](part = "runtime" => T!Sensible /\ T!TypeOK /\ T!StatusTruthful
                             /\ T!LoopsAccounted /\ T!DisposedUnderJob)
  /\ <>[](part = "runtime" => T!AtRest)


\* dataset_scanner and dataset_registry: Datasets. Overlapping scans and edits
\* never mix two files up, and a file that stays is registered in the end.
DatasetsInv ==
  /\ [](part = "datasets" => D!Sensible /\ D!DatasetsSafe)
  /\ <>[](part = "datasets" => D!AllRegistered)
===============================================================================
