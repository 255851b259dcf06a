------------------------------ MODULE MCResults ------------------------------
(***************************************************************************)
(* One run for what jobs work on and what is made of it: the acquired file, *)
(* triage, the stores that jobs learn from, models and rules, reports,     *)
(* benchmarks, and the API and the health checks in front of them. They    *)
(* share no state, so each behaviour is one of one part, chosen at the     *)
(* start. Acquisition has its own variables; v1, v2, ... stand for those   *)
(* of the other parts.                                                     *)
(***************************************************************************)
EXTENDS Acquisition, Integers, FiniteSets, TLC

CONSTANT Parts
VARIABLES part, v1, v2, v3, v4, v5, v6, v7, v8, v9, v10, v11, v12, v13, v14

vs == <<part, v1, v2, v3, v4, v5, v6, v7, v8, v9, v10, v11, v12, v13, v14, vars>>

\* The variables after the n-th are not used.
Unused9 == v10 = 0 /\ v11 = 0 /\ v12 = 0 /\ v13 = 0 /\ v14 = 0
Unused8 == v9 = 0 /\ Unused9
Unused7 == v8 = 0 /\ Unused8
Unused6 == v7 = 0 /\ Unused7
Unused5 == v6 = 0 /\ Unused6
Unused0 == v1 = 0 /\ v2 = 0 /\ v3 = 0 /\ v4 = 0 /\ v5 = 0 /\ Unused5
Kept14 == UNCHANGED <<part, vars>>
Kept9 == UNCHANGED <<v10, v11, v12, v13, v14>> /\ Kept14
Kept8 == UNCHANGED <<v9>> /\ Kept9
Kept7 == UNCHANGED <<v8>> /\ Kept8
Kept6 == UNCHANGED <<v7>> /\ Kept7
Kept5 == UNCHANGED <<v6>> /\ Kept6
-----------------------------------------------------------------------------
(* Triage of the artefacts of one job                                       *)

Art(id, cat, flags, slash, pid, path, times) ==
  [id |-> id, cat |-> cat, flags |-> flags, slash |-> slash, pid |-> pid, path |-> path, times |-> times]
Pool ==
  <<Art(1, "file", {"executable", "deleted"}, "/", 0, "x", {1, 4}), Art(2, "file", {"executable", "deleted"}, "/", 0, "x", {1, 4}),
    Art(3, "registry", {"run", "executable"}, "\\", 0, "x", {2}), Art(4, "process", {"tool", "temp"}, "\\", 7, "y", {3}),
    Art(5, "network", {"external", "bad_remote_port"}, "/", 7, "", {}), Art(6, "injected", {"pid", "mz"}, "/", 7, "", {}),
    Art(7, "event", {"cleared"}, "/", 7, "y", {7}), Art(8, "browser", {}, "/", 0, "", {9}),
    Art(9, "process", {"temp", "quoted"}, "\\", 8, "y", {})>>
Inputs ==
  {[n \in 1..3 |-> Pool[s[n]]] : s \in {t \in [1..3 -> 1..9] : t[2] # t[3] /\ t[1] # t[3] /\ t[1] < t[2]}}
    \cup {<<>>, [n \in 1..5 |-> Pool[n + 2]] \o <<Art(10, "network", {}, "/", 7, "", {})>>}
On == [correlation |-> TRUE, timeline |-> TRUE, iocs |-> TRUE, fallback |-> FALSE]
Settings == {On, [On EXCEPT !.correlation = FALSE, !.timeline = FALSE], [On EXCEPT !.iocs = FALSE], [On EXCEPT !.fallback = TRUE]}
T == INSTANCE Triage WITH Inputs <- Inputs, Settings <- Settings, Window <- 3, Proximity <- 1, TopLimit <- 2, FindingsLimit <- 1,
  pc <- v1, settings <- v2, input <- v3, current <- v4, links <- v5, iocs <- v6, ranked <- v7, final <- v8, source <- v9
-----------------------------------------------------------------------------
(* What jobs learn from each other: the stores and the graph                *)

Fact(f, v) == [field |-> f, value |-> v]
Findings == <<{Fact("address", "a"), Fact("listed", "b")}, {Fact("address", "a"), Fact("name", "c")}, {Fact("address", "a")}>>
K == INSTANCE Knowledge WITH Jobs <- {1, 2, 3}, Earlier <- {3}, FindingsOf <- Findings,
  Lines <- <<<<"x">>, <<"y", "z">>>>, Lengths <- {5, 7, 11}, Size <- 4, Overlap <- 2,
  pc <- v1, call <- v2, lock <- v3, templates <- v4, orig <- v5, sources <- v6, vectors <- v7, iocs <- v8, graph <- v9, file <- v10, version <- v11, row <- v12, docs <- v13, indexing <- v14

Node(id, category, about, user, near) ==
  [id |-> id, category |-> category, about |-> about, user |-> user, near |-> near]
FoundBy == [j1 |-> <<Node("a", "process", "x", "none", {"b", "a"}), Node("b", "network", "y", "u", {"a", "z"})>>,
            j2 |-> <<Node("c", "process", "x", "none", {}), Node("d", "log", "q", "u", {"c"})>>,
            j3 |-> <<Node("e", "network", "y", "none", {})>>]
G == INSTANCE EvidenceGraph WITH Jobs <- {"j1", "j2", "j3"}, Readers <- {"r1"}, Found <- FoundBy,
  Listed <- [j1 |-> <<"y">>, j2 |-> <<>>, j3 |-> <<"y">>], Asks <- [r1 |-> "a"], Depth <- 2,
  pc <- v1, todo <- v2, types <- v3, added <- v4, query <- v5
-----------------------------------------------------------------------------
(* Retraining                                                               *)

ScoreOf == [S \in SUBSET {"h1", "h2"} |-> IF Cardinality(S) > 1 THEN 9 ELSE 5 + Cardinality(S)]
L == INSTANCE Learning WITH Hashes <- {"h1", "h2"}, F1 <- ScoreOf, BaselineF1 <- 6, Callers <- {{"tick"}, {"tick", "admin"}},
  Threshold <- 1, MaxVersions <- 3, MaxChanges <- 1,
  datasets <- v1, index <- v2, files <- v3, experiments <- v4, pc <- v5, run <- v6, changes <- v7
-----------------------------------------------------------------------------
(* Rules of threat intelligence                                             *)

Feeds == [engine : {"yara", "sigma"}, file : {"f1", "f2"}, good : BOOLEAN]
Scanned ==
  {[category |-> "network_connection", facts |-> {"external", "powershell"}, suspicion |-> "high", techniques |-> <<"T1071", "T1003", "T1003">>],
   [category |-> "running_process", facts |-> {}, suspicion |-> "critical", techniques |-> <<>>]}
I == INSTANCE ThreatIntel WITH Files <- {"f1", "f2"}, Feeds <- Feeds, Artefacts <- Scanned, MaxFeeds <- 3, MaxBoots <- 1,
  dir <- v1, loaded <- v2, feed <- v3, fed <- v4, scan <- v5, boots <- v6
-----------------------------------------------------------------------------
(* Reports of two jobs on one evidence item                                 *)

Reported == <<[category |-> 1, level |-> "low", data |-> "a"], [category |-> 1, level |-> "high", data |-> "b"]>>
R == INSTANCE Reporting WITH Jobs <- {1, 2}, Recovered <- Reported, Draws <- {<<<<1, 2>>, <<4, 3>>>>, <<<<2, 1>>, <<3, 4>>>>}, MaxChain <- 2, MaxFaults <- 1,
  pc <- v1, ids <- v2, repo <- v3, tasks <- v4, audit <- v5, files <- v6, chain <- v7, custody <- v8, faults <- v9
-----------------------------------------------------------------------------
(* Benchmarks and questionnaires                                            *)

V(t) == [token |-> t, spelling |-> "plain"]
W(t) == [token |-> t, spelling |-> "shouted"]
Entry(c, parts, id) == [category |-> c, known |-> c # "other", parts |-> parts, id |-> id]
Truths ==
  [d1 |-> [format |-> "dfrws", named |-> TRUE,
           entries |-> <<Entry("file", <<W("a"), W("a")>>, "x"), Entry("process", <<V("p"), V("")>>, "y")>>],
   d2 |-> [format |-> "cfreds", named |-> FALSE,
           entries |-> <<Entry("file", <<V(""), V("")>>, "x"), Entry("file", <<V(""), V("")>>, "z"), Entry("process", <<V("p"), V("7")>>, "y")>>],
   d3 |-> [format |-> "dfrws", named |-> FALSE, entries |-> <<>>]]
Benched == {[category |-> "file", path |-> V("a"), parts |-> <<V(""), V("")>>], [category |-> "process", path |-> V(""), parts |-> <<W("p"), V("")>>]}
Rated(a, b) == [Q1 |-> a, Q2 |-> 3, Q3 |-> 3, Q4 |-> b, Q5 |-> 3]
Answers == {Rated(3, 4), Rated(5, 4), [Q1 |-> 4], [usefulness |-> 4, accuracy |-> 4, clarity |-> 4]}
E == INSTANCE Evaluation WITH Callers <- {"stage", "request"}, Staged <- {"stage"}, Truths <- Truths, Recovered <- Benched,
  Answers <- Answers, MaxSent <- 2, MaxFaults <- 1,
  bench <- v1, rows <- v2, ratings <- v3, pending <- v4, audit <- v5, sent <- v6, wiped <- v7, faults <- v8
-----------------------------------------------------------------------------
(* The middleware                                                           *)

Request(c, m, a, role, e) == [client |-> c, method |-> m, area |-> a, role |-> role, raises |-> e]
About ==
  <<Request("c1", "GET", "cases", "admin", "none"), Request("c2", "POST", "cases", "admin", "none"),
    Request("c1", "GET", "cases", "admin", "none"), Request("c1", "GET", "health", "auditor", "CaseAlreadyClosed")>>
A == INSTANCE ApiEdge WITH Requests <- 1..4, About <- About, Areas <- [cases |-> [group |-> "general", ttl |-> 2], health |-> [group |-> "health", ttl |-> 2]],
  Rate <- [general |-> 1], Capacity <- [general |-> 2], Cost <- 2, IdleTicks <- 2, MaxTime <- 4,
  now <- v1, buckets <- v2, store <- v3, version <- v4, stage <- v5, answer <- v6, overlap <- v7, granted <- v8, audit <- v9
-----------------------------------------------------------------------------
(* Health and readiness                                                     *)

H == INSTANCE Health WITH Services <- <<"database", "ollama", "audit">>, Critical <- {"database", "audit"}, Required <- {"database", "audit"},
  Optional <- {"ollama", "pipeline"}, Checkers <- {1, 2}, Readers <- {3}, HistoryMax <- 2, MaxFlips <- 1,
  up <- v1, flips <- v2, latest <- v3, history <- v4, serial <- v5, checker <- v6, reader <- v7
-----------------------------------------------------------------------------
PartInit(p) ==
  CASE p = "acquisition" -> Unused0
    [] p = "triage" -> T!Init /\ Unused9
    [] p = "knowledge" -> K!Init
    [] p = "graph" -> G!Init /\ Unused5
    [] p = "learning" -> L!Init /\ Unused7
    [] p = "threat" -> I!Init /\ Unused6
    [] p = "reporting" -> R!Init /\ Unused9
    [] p = "evaluation" -> E!Init /\ Unused8
    [] p = "edge" -> A!Init /\ Unused9
    [] p = "health" -> H!Init /\ Unused7
PartsInit ==
  /\ part \in Parts /\ PartInit(part)
  /\ Init /\ (part # "acquisition" => kind = "disk" /\ soft /\ stored /\ file = Original /\ status = "validated")

Acquires ==
  part = "acquisition" /\ Next /\ UNCHANGED <<part, v1, v2, v3, v4, v5, v6, v7, v8, v9, v10, v11, v12, v13, v14>>

Triage == part = "triage" /\ T!Next /\ Kept9
Knowledge == part = "knowledge" /\ K!Next /\ Kept14
EvidenceGraph == part = "graph" /\ G!Next /\ Kept5
Learning == part = "learning" /\ L!Next /\ Kept7
ThreatIntel == part = "threat" /\ I!Next /\ Kept6
Reporting == part = "reporting" /\ R!Next /\ Kept9
Evaluation == part = "evaluation" /\ E!Next /\ Kept8
ApiEdge == part = "edge" /\ A!Next /\ Kept9
Health == part = "health" /\ H!Next /\ Kept7
PartsNext ==
  Acquires \/ Triage \/ Knowledge \/ EvidenceGraph \/ Learning \/ ThreatIntel \/ Reporting \/ Evaluation \/ ApiEdge \/ Health
PartsSpec == PartsInit /\ [][PartsNext]_vs
-----------------------------------------------------------------------------
(* What each part promises, wherever its behaviours are the ones that run;  *)
(* what an acquisition promises is in Acquisition                           *)

\* artefact_processor, rule_engine and the triage stage: Triage. No artefact is
\* lost on the way to the summary, and more evidence never lowers a score.
TriageInv == part = "triage" => T!Sensible /\ T!TriageSafe

\* rag_analyzer, the stores and knowledge_graph: Knowledge and EvidenceGraph. A
\* prompt is built from what its own job was shown and never from its own
\* findings; what jobs stored is found again, whatever threads do meanwhile.
KnowledgeInv ==
  /\ part = "knowledge" => K!Sensible /\ K!KnowledgeSafe
  /\ part = "graph" => G!Sensible /\ G!GraphSafe

\* retrainer, model_registry and threat_intel: Learning and ThreatIntel. What is
\* registered can be loaded, and no model leaves the catalogue while it can be
\* read; rules in memory are those of a whole directory, and rules of Sigma go
\* only when the process restarts.
LearningInv ==
  /\ [](part = "learning" => L!Sensible /\ L!LearningSafe) /\ [][part = "learning" => L!CatalogueGrows]_vs
  /\ [](part = "threat" => I!Sensible /\ I!ThreatIntelSafe) /\ [][part = "threat" => I!SigmaStep]_vs

\* report_service, the exporters, evaluation and questionnaires: Reporting and
\* Evaluation. The trail says "completed" only of a stored report, verification
\* tells what was edited, and every row of a benchmark is earned and agrees with
\* its metrics, whatever writes fail.
ReportingInv ==
  /\ part = "reporting" => R!Sensible /\ R!ReportingSafe
  /\ part = "evaluation" => E!Sensible /\ E!EvaluationSafe

-----------------------------------------------------------------------------
(* What the documents and comments say, and the code does not do            *)

\* docs/dissertation/REPRODUCIBILITY_PROOF.md:18: "identical recovered artefact
\* content yields identical evidential hashes across runs". See Reporting.
RunsReproduce == part = "reporting" => R!RunsReproduce

\* rules.py:116: "Registry persistence via CurrentVersion\Run". See Triage.
RunKeysRaised == part = "triage" => T!RunKeysRaised
===============================================================================
