------------------------------ MODULE MCServices ------------------------------
(***************************************************************************)
(* One run for the services around the pipeline and the boot. They share   *)
(* no state, so each behaviour is one of one part, chosen at the start.    *)
(* The desk for evidence has its own variables; v1, v2, ... stand for      *)
(* those of the other parts.                                               *)
(***************************************************************************)
EXTENDS EvidenceDesk, MCWiring, Integers, TLC

CONSTANT Parts
VARIABLES part, v1, v2, v3, v4, v5, v6, v7, v8, v9, v10, v11

vs == <<part, v1, v2, v3, v4, v5, v6, v7, v8, v9, v10, v11, vars>>

\* The variables after the n-th are not used.
Unused9 == v10 = 0 /\ v11 = 0
Unused8 == v9 = 0 /\ Unused9
Unused6 == v7 = 0 /\ v8 = 0 /\ Unused8
Unused5 == v6 = 0 /\ Unused6
Unused2 == v3 = 0 /\ v4 = 0 /\ v5 = 0 /\ Unused5
Unused0 == v1 = 0 /\ v2 = 0 /\ Unused2
Kept11 == UNCHANGED <<part, vars>>
Kept9 == UNCHANGED <<v10, v11>> /\ Kept11
Kept8 == UNCHANGED v9 /\ Kept9
Kept6 == UNCHANGED <<v7, v8>> /\ Kept8
Kept5 == UNCHANGED v6 /\ Kept6
Kept2 == UNCHANGED <<v3, v4, v5>> /\ Kept5

As(a, b, c) == [c1 |-> a, c2 |-> b, c3 |-> c]
-----------------------------------------------------------------------------
(* Accounts, sessions and permissions                                      *)

SessionKinds ==
  {As("wrong", "wrong", "change"), As("login", "deactivate", "refresh"), As("wrong", "login", "wrong"),
   As("refresh", "refresh", "logout_all"), As("change", "deactivate", "request"), As("logout", "login", "request")}
SessionRequests == {[role |-> "analyst", resource |-> "cases", action |-> a] : a \in {"read", "update"}}
U == INSTANCE Sessions WITH Kinds <- SessionKinds, MaxAttempts <- 2, MaxSessions <- 3, Requests <- SessionRequests,
  account <- v1, sessions <- v2, expired <- v3, call <- v4, epoch <- v5, stale <- v6

-----------------------------------------------------------------------------
(* One evidence item: calls on it                                           *)

DeskKinds ==
  {As("register", "verify", "quarantine"), As("validate", "verify", "validate"),
   As("validate", "processing", "quarantine"), As("processing", "processed", "quarantine")}
First == CHOOSE f \in Valid : TRUE
IdleKind == CHOOSE f \in DeskKinds : f.c1 # "register"
-----------------------------------------------------------------------------
(* The model: the client, what is made of its answers, the requests        *)

GatewayKinds == {As("generate", "generate", "ask"), As("generate", "stream", "probe"), As("ask", "explain", "chat")}
G == INSTANCE LlmGateway WITH Kinds <- GatewayKinds, Prompts <- {"p", "q"}, MaxSize <- 1, Ttl <- 1, Attempts <- 2,
  Pieces <- 1, MaxTime <- 2, store <- v1, memo <- v2, now <- v3, stats <- v4, call <- v5

Art(id, category, size, rule) == [id |-> id, category |-> category, size |-> size, rule |-> rule]
Item(id, level, reason) == [id |-> id, level |-> level, reason |-> reason]
NoScore == -1
ArtSets == {<<Art("a", a, s, -1), Art("b", b, 2, r), Art("c", 1, 2, 12)>> : a \in 1..2, b \in 1..2, s \in {1, 5}, r \in {-1, 7}}
Items == {Item(id, level, TRUE) : id \in {"a", "b", "ghost"}, level \in {0, 2, 9}} \cup {Item("a", 0, FALSE)}
Replies ==
  {[form |-> "array", items |-> <<x>>] : x \in Items}
    \cup {[form |-> f, items |-> <<x, y>>] : f \in {"lines", "cut"}, x, y \in Items}
Scores == {<<>>, "a" :> 14, "b" :> -3, "a" :> 5 @@ "b" :> 9, "ghost" :> 3}
Prompts == {[prefix |-> p, suffix |-> 1, budget |-> n,
             blocks |-> <<[rank |-> r, size |-> 1], [rank |-> s, size |-> 2], [rank |-> t, size |-> 2]>>] :
             p \in 1..2, n \in 1..8, r, s, t \in {0, 2, 4}}
Answers == [refs : 0..4, unsure : BOOLEAN, ids : 0..3, terms : 0..4, claims : 0..2]
A == INSTANCE AiAnalysis WITH Sets <- ArtSets, BatchTokens <- 4, task <- v1, state <- v2

Work == [c1 |-> [kind |-> "classify", evidence |-> "e1"], c2 |-> [kind |-> "explain", evidence |-> "e1"],
         c3 |-> [kind |-> "explain", evidence |-> "e1"]]
R == INSTANCE AiRequests WITH Evidence <- {"e1"}, Levels <- {"high", "info"}, Unranked <- "info", FreshFor <- 1,
  MaxFlips <- 1, MaxParses <- 2, MaxFaults <- 1,
  up <- v1, sinceDown <- v2, flips <- v3, faults <- v4, health <- v5, stored <- v6, parses <- v7, answers <- v8,
  usage <- v9, rows <- v10, call <- v11

-----------------------------------------------------------------------------
(* The boot, and the objects it makes: the whole container on one thread,   *)
(* from which requests ask for each thing once                              *)

Single == {"secret length", "relative paths", "unwritable tree", "database down", "jwt",
  "audit path", "probe raises", "no parser", "no volatility", "dataset_discovery",
  "vector_store", "ioc_database", "sigma_rules", "llm_service", "rag_pipeline",
  "report_output", "benchmark_datasets", "model registry", "training"}
FaultSets == {{}, {"pdf_export", "probe raises"}, {"no volatility", "yara_rules"}} \cup {{f} : f \in Single}
B == INSTANCE Startup WITH Heads <- {1, 2, 3}, AddsColumns <- {2}, MaxCrashes <- 1,
  create <- v1, production <- v2, release <- v3, db <- v4, torn <- v5, boot <- v6, old <- v7, ahead <- v8, crashes <- v9

C == INSTANCE Wiring WITH Providers <- AllNames, Shared <- SharedAll, Needs <- NeedsAll, Ports <- PortNames,
  Default <- Defaults, Late <- Lates, Optional <- OnlyWithRag, Script <- StartScript, Main <- "main", Workers <- {},
  Routes <- AllRoutes, Rank <- RankAll, MaxAsks <- 1,
  wanted <- v1, pos <- v2, slot <- v3, objects <- v4, stack <- v5, handed <- v6, booted <- v7, raced <- v8

-----------------------------------------------------------------------------
PartInit(p) ==
  CASE p = "sessions" -> U!Init /\ Unused6
    [] p = "desk" -> Unused0
    [] p = "gateway" -> G!Init /\ Unused5
    [] p = "analysis" -> A!Init /\ Unused2
    [] p = "requests" -> R!Init
    [] p = "startup" -> B!Init /\ Unused9
    [] p = "container" -> C!Init /\ Unused8
PartsInit ==
  /\ part \in Parts /\ PartInit(part)
  /\ Init /\ (part # "desk" => kind = IdleKind /\ file = First)

Sessions == part = "sessions" /\ U!Next /\ Kept6
Desk == part = "desk" /\ Next /\ UNCHANGED <<part, v1, v2, v3, v4, v5, v6, v7, v8, v9, v10, v11>>
LlmGateway == part = "gateway" /\ G!Next /\ Kept5
AiAnalysis == part = "analysis" /\ A!Next /\ Kept2
AiRequests == part = "requests" /\ R!Next /\ Kept11
Startup == part = "startup" /\ B!Next /\ Kept9
Container == part = "container" /\ C!Next /\ Kept8
PartsNext ==
  Sessions \/ Desk \/ LlmGateway \/ AiAnalysis \/ AiRequests \/ Startup \/ Container

PartsSpec == PartsInit /\ [][PartsNext]_vs

-----------------------------------------------------------------------------
(* What each part promises, wherever its behaviours are the ones that run;     *)
(* what the desk promises is in EvidenceDesk                                   *)



\* bootstrap, migrations and container: Startup and Wiring. The readiness report
\* says what the boot met, a system that serves has the schema of its release, and
\* every object that keeps state in memory was made, with what the overrides name,
\* before requests on threads can ask for it: what the initialisers and the
\* shutdown handler happen to take decides that.
KeepersAreBooted == C!Serving => \A p \in Keepers : C!Booted(v3[p])
=============================================================================
