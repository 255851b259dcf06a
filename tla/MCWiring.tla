------------------------------ MODULE MCWiring -------------------------------
(***************************************************************************)
(* The container of the repository as parameters of Wiring: all of it, for *)
(* one thread (MCServices), and what the pipeline's objects reach, asked   *)
(* from the event loop and a worker (MCBackground).                        *)
(***************************************************************************)
EXTENDS Naturals, Sequences, Containers

AllNames == {r.name : r \in Rows}
RowOf == [p \in AllNames |-> CHOOSE r \in Rows : r.name = p]
SharedOf(ps) == {p \in ps : RowOf[p].shared}
Defaults == [d \in PortNames |-> DefaultOf(d)]
Lates    == [d \in PortNames |-> LateOf(d)]
MayBe(d) == IF d \in PortNames THEN {DefaultOf(d), LateOf(d)} ELSE {d}

\* Providers by the length of the longest chain of things they need: after n
\* rounds, those that need only what was there after n - 1.
RankIn(needs) ==
  LET Rounds[n \in Nat] ==
        IF n = 0 THEN <<{}>>
        ELSE LET before == Rounds[n - 1]
                 known  == before[n]
             IN Append(before, {p \in DOMAIN needs : \A d \in needs[p] : MayBe(d) \subseteq known})
      rounds == Rounds[20]
  IN [p \in DOMAIN needs |-> CHOOSE n \in 1..20 : p \in rounds[n + 1] /\ p \notin rounds[n]]

NeedsAll  == [p \in AllNames |-> RowOf[p].needs]
SharedAll == SharedOf(AllNames)
RankAll   == RankIn(NeedsAll)

\* Of what api/dependencies.py and the handlers ask for: what reaches all that is
\* not made during the boot, and something that is.
AllRoutes == {"analysis_service", "report_service", "evaluation_service", "case_service",
  "recovery_manager", "llm_client"}

\* What the two threads can race for, and the ports; a provider left out passes
\* what it needs on to the one that needs it.
Raced == {"pipeline_orchestrator", "stage_registry", "acquisition_stage", "triage_stage",
  "job_manager", "job_runner", "ml_predictor", "llm_client", "rag_analyzer",
  "forensic_audit_logger", "settings", "boot_sequencer", "task_manager", "shutdown_handler",
  "evidence_management_service", "chain_of_custody_service", "rag_context_builder",
  "audit_service", "pipeline_knowledge_hooks", "undefined", "no_predictor", "no_hooks"}
Reach(p) ==
  LET Out[n \in Nat] ==
        IF n = 0 THEN RowOf[p].needs
        ELSE LET out == Out[n - 1]
                 gone == out \ (Raced \cup PortNames)
             IN (out \ gone) \cup UNION {RowOf[q].needs : q \in gone}
  IN Out[12]
NeedsRaced  == [p \in Raced |-> Reach(p)]
SharedRaced == SharedOf(Raced)
RankRaced   == RankIn(NeedsRaced)
SomeRoutes  == {"pipeline_orchestrator", "job_runner", "llm_client"}

\* What keeps state in memory that the whole application must agree on: the lock
\* and the last hash of the audit file, the pool, the jobs and their bound, the
\* tasks, the caches, the stores with one writer each, the models and the rules.
Keepers ==
  {"forensic_audit_logger", "database_engine", "job_manager", "task_manager", "ai_response_cache",
   "connection_manager", "vector_store", "ioc_knowledge_base", "knowledge_graph", "model_registry",
   "experiment_tracker", "ml_predictor", "yara_engine", "sigma_engine", "ai_monitor", "parser_registry"}
=============================================================================
