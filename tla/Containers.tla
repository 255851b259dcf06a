----------------------------- MODULE Containers ------------------------------
(***************************************************************************)
(* The providers of src/src/dfat/container.py, one definition per          *)
(* container: S is a Singleton, F a Factory (or a Callable that makes an   *)
(* object), each with what it takes. The arguments of providers.Container  *)
(* are followed to the provider they name, and a name that two containers  *)
(* use is prefixed here.                                                   *)
(*                                                                         *)
(* Left out are the objects that never change after their constructor and  *)
(* take nothing but settings or others of the kind (templates, builders of *)
(* prompts, parsers of answers, exporters, validators, processors): it     *)
(* makes no difference how many of them there are. The settings, which     *)
(* most providers read, are made while the container is built.             *)
(***************************************************************************)
EXTENDS Naturals, Sequences

S(p, needs) == [name |-> p, shared |-> TRUE, needs |-> needs]
F(p, needs) == [name |-> p, shared |-> FALSE, needs |-> needs]
Leaves(ps)  == {S(p, {}) : p \in ps}

Logging  == Leaves({"forensic_audit_logger"})
Database == Leaves({"database_engine"}) \cup {F("session_factory", {"database_engine"})}
Cache    == Leaves({"artefact_cache"})

\* The file repositories take only storages, which keep nothing.
Repositories ==
  Leaves({"file_evidence_repo", "file_artefact_repo", "file_report_repo"})
  \cup {S(r, {"session_factory"}) : r \in
    {"evidence_repo", "dataset_repo", "artefact_repo", "report_repo", "user_repo", "session_repo",
     "audit_repo", "benchmark_repo", "usability_repo", "case_repo", "custody_repo",
     "evidence_status_repo", "evidence_metadata_repo", "pipeline_repo", "ai_analysis_repo"}}

Knowledge ==
  Leaves({"embedding_engine", "ioc_knowledge_base", "knowledge_graph"})
  \cup
  {S("vector_store", {"embedding_engine"}),
   F("document_indexer", {"embedding_engine", "vector_store", "audit_service", "dataset_repo"}),
   F("unified_retriever", {"vector_store", "ioc_knowledge_base", "knowledge_graph", "embedding_engine"}),
   F("rag_context_builder", {"unified_retriever"}),
   F("pipeline_knowledge_hooks",
     {"document_indexer", "knowledge_graph", "ioc_knowledge_base", "audit_service"})}

DatasetIntelligence ==
  {F("dataset_scanner", {"audit_service"}),
   F("dataset_registry", {"dataset_repo", "dataset_scanner", "audit_service"}),
   S("dataset_watcher", {"dataset_registry", "audit_service"})}

ML ==
  Leaves({"experiment_tracker", "model_registry"})
  \cup
  {F("dataset_builder", {"dataset_registry"}), F("model_trainer", {"experiment_tracker"}),
   S("ml_predictor", {"model_registry"}),
   F("auto_retrainer",
     {"dataset_registry", "dataset_builder", "model_trainer", "model_registry", "audit_service"})}

ThreatIntel ==
  Leaves({"yara_engine", "sigma_engine", "stix_handler"})
  \cup
  {F("feed_manager", {"dataset_registry", "ioc_knowledge_base", "yara_engine", "sigma_engine",
     "stix_handler", "knowledge_graph", "audit_service"})}

DiskParsers   == {"filesystem_parser", "registry_parser", "browser_parser", "eventlog_parser"}
MemoryParsers == {"process_parser", "network_parser", "injection_parser", "memory_registry_parser"}
Handlers == {"image_handler", "memory_handler"}
ForensicEngine ==
  {S(p, {"forensic_audit_logger"}) : p \in
     {"integrity_checker", "multi_hash_service", "disk_image_accessor", "volatility_runner"}}
  \cup {S(p, {"integrity_checker", "forensic_audit_logger"}) : p \in Handlers}
  \cup {S(p, {"disk_image_accessor", "forensic_audit_logger"}) : p \in DiskParsers}
  \cup {S(p, {"plugin_executor", "forensic_audit_logger"}) : p \in MemoryParsers}
  \cup
  {F("plugin_executor", {"volatility_runner", "forensic_audit_logger"}),
   F("parsers", DiskParsers \cup MemoryParsers),
   S("forensic_orchestrator", Handlers \cup {"parsers", "integrity_checker", "forensic_audit_logger"})}

\* The client, and one asker for each task.
Askers == {"llm_artefact_classifier", "llm_relevance_ranker", "llm_investigative_summarizer"}
AIEngine ==
  Leaves({"ai_response_cache"})
  \cup {S(p, {"ollama_client", "forensic_audit_logger"}) : p \in Askers}
  \cup
  {S("connection_manager", {"forensic_audit_logger"}),
   S("ollama_client", {"connection_manager", "forensic_audit_logger", "ai_response_cache"}),
   F("null_audit_service", {}), S("ai_monitor", {"null_audit_service"}),
   S("llm_client", Askers \cup {"ollama_client", "connection_manager", "ai_response_cache",
     "ai_monitor", "forensic_audit_logger"}),
   S("rag_analyzer", {"llm_client", "port:rag_context_builder", "port:audit_service"}),
   S("fallback", {"forensic_audit_logger"}),
   S("classifier", {"llm_client"}), S("summarizer", {"llm_client"}),
   F("active_analyzer", {"llm_client", "fallback"})}

AuditOf == {"audit_repo", "forensic_audit_logger"}
ReportingEngine ==
  {F("reporting_audit_service", AuditOf),
   S("report_builder", {"report_repo", "reporting_audit_service"})}

EvaluationEngine ==
  {F("evaluation_audit_service", AuditOf),
   S("comparator", {"evaluation_audit_service", "benchmark_repo"}),
   S("performance_analyzer", {"benchmark_repo"}),
   S("response_collector", {"usability_repo", "evaluation_audit_service"})}

\* The five stages, each made anew; the registry of stages keeps the ones it was
\* made with. A stage reports to the tracker and writes to the audit service.
Reports == {"progress_tracker", "pipeline_audit_service"}
Stages == {"acquisition_stage", "parsing_stage", "triage_stage", "reporting_stage", "evaluation_stage"}
Pipeline ==
  Leaves({"progress_tracker"})
  \cup
  {F("pipeline_audit_service", AuditOf), F("pipeline_logger", {"pipeline_audit_service"}),
   F("pipeline_error_handler", {"pipeline_logger"}),
   F("evidence_discovery_service", {"evidence_repo", "pipeline_audit_service"}),
   F("evidence_loader", Handlers \cup {"integrity_checker", "multi_hash_service",
     "pipeline_audit_service"}),
   S("parser_registry", {"parsers"}), F("evidence_router", {"parser_registry"}),
   S("scoring_engine", {"port:ml_predictor"}), S("rule_based_triage_engine", {"scoring_engine"}),
   F("acquisition_stage", Reports \cup {"evidence_loader", "port:evidence_management_service",
     "port:custody_service"}),
   F("parsing_stage", Reports \cup {"parser_registry", "evidence_router", "pipeline_error_handler"}),
   F("triage_stage", Reports \cup {"scoring_engine", "rule_based_triage_engine",
     "port:llm_analyzer", "fallback"}),
   F("reporting_stage", Reports \cup {"report_builder"}),
   F("evaluation_stage", Reports \cup {"comparator"}),
   S("stage_registry", Stages), S("job_manager", {"pipeline_audit_service"}),
   F("job_runner", {"job_manager", "stage_registry", "pipeline_audit_service"}),
   S("pipeline_orchestrator", Reports \cup {"stage_registry", "job_manager", "job_runner",
     "pipeline_logger", "evidence_repo", "case_repo", "port:evidence_management_service",
     "port:custody_service", "comparator", "pipeline_repo", "parser_registry",
     "port:post_complete_hooks"})}

Services ==
  {F("audit_service", AuditOf),
   F("evidence_metadata_service", {"evidence_metadata_repo", "multi_hash_service"}),
   F("evidence_validation_service", {"multi_hash_service", "evidence_status_repo",
     "forensic_audit_logger", "evidence_metadata_repo"}),
   F("chain_of_custody_service", {"custody_repo", "multi_hash_service", "audit_service", "evidence_repo"}),
   F("custody_report_generator", {"chain_of_custody_service", "multi_hash_service"}),
   F("audit_report_generator", {"audit_service"}),
   F("case_service", {"case_repo", "evidence_repo", "user_repo", "audit_service",
     "chain_of_custody_service"}),
   F("user_service", {"user_repo", "session_repo", "audit_repo"}),
   F("evidence_service", Handlers \cup {"evidence_repo", "integrity_checker", "audit_repo"}),
   F("evidence_management_service", {"evidence_service", "evidence_validation_service",
     "multi_hash_service", "chain_of_custody_service", "evidence_metadata_repo",
     "evidence_status_repo", "evidence_repo", "case_repo", "audit_service"}),
   F("analysis_service", {"pipeline_orchestrator", "evidence_repo", "artefact_repo", "report_repo",
     "audit_repo", "integrity_checker"}),
   F("report_service", {"report_repo", "audit_repo", "custody_report_generator",
     "audit_report_generator", "case_repo", "evidence_repo"}),
   F("evaluation_service", {"benchmark_repo", "usability_repo", "comparator", "audit_repo",
     "artefact_repo", "response_collector", "performance_analyzer"})}

Initializers == {"db_initializer", "auth_initializer", "audit_initializer", "parser_initializer",
  "dataset_initializer", "knowledge_initializer", "ai_initializer", "threat_intel_initializer",
  "worker_initializer"}
Bootstrap ==
  Leaves({"task_manager"})
  \cup
  {F("db_initializer", {"database_engine"}), F("auth_initializer", {"user_repo"}),
   F("audit_initializer", {"audit_service"}), F("parser_initializer", {"parser_registry"}),
   F("dataset_initializer", {"dataset_registry"}),
   F("knowledge_initializer", {"vector_store", "embedding_engine", "document_indexer",
     "ioc_knowledge_base", "knowledge_graph"}),
   F("ai_initializer", {"connection_manager", "rag_analyzer", "fallback", "ml_predictor",
     "model_registry", "auto_retrainer"}),
   F("threat_intel_initializer", {"feed_manager", "yara_engine", "sigma_engine"}),
   S("worker_initializer", {"task_manager", "dataset_registry", "auto_retrainer",
     "connection_manager", "database_engine", "session_repo", "ai_response_cache"}),
   F("boot_sequencer", Initializers)}

BadRuntimeServices ==
  {S("service_monitor", {"database_engine", "connection_manager", "vector_store", "forensic_audit_logger"}),
   S("resource_tracker", {"database_engine", "vector_store", "job_manager", "task_manager"}),
   S("recovery_manager", {"service_monitor", "boot_sequencer", "audit_service"}),
   F("shutdown_handler", {"task_manager", "database_engine", "audit_service"})}
RuntimeServices ==
  {S("service_monitor", {"database_engine", "connection_manager", "vector_store", "forensic_audit_logger"}),
   S("resource_tracker", {"database_engine", "vector_store", "job_manager", "task_manager"}),
   S("recovery_manager", {"service_monitor", "boot_sequencer", "audit_service"}),
   F("shutdown_handler", {"task_manager", "database_engine", "audit_service", "job_manager"})}

\* What a port stands for unless it is overridden: nothing at all ("undefined" is
\* the error of asking for it), no predictor, no hooks; the plain analyser.
Application ==
  Leaves({"settings", "metrics_collector"})
  \cup {F("undefined", {}), F("no_predictor", {}), F("no_hooks", {})}

Rows == Logging \cup Database \cup Cache \cup Repositories \cup Knowledge \cup DatasetIntelligence
  \cup ML \cup ThreatIntel \cup ForensicEngine \cup AIEngine \cup ReportingEngine
  \cup EvaluationEngine \cup Pipeline \cup Services \cup Bootstrap \cup RuntimeServices \cup Application

-----------------------------------------------------------------------------
(* build_application_container, and what the application starts with        *)

Plugs == <<"port:evidence_management_service", "port:custody_service", "port:rag_context_builder",
  "port:audit_service", "port:post_complete_hooks", "port:ml_predictor">>
PortNames == {Plugs[i] : i \in DOMAIN Plugs} \cup {"port:llm_analyzer"}
DefaultOf(d) ==
  CASE d = "port:llm_analyzer" -> "llm_client"
    [] d = "port:ml_predictor" -> "no_predictor"
    [] d = "port:post_complete_hooks" -> "no_hooks"
    [] OTHER -> "undefined"
LateOf(d) ==
  CASE d = "port:evidence_management_service" -> "evidence_management_service"
    [] d = "port:custody_service" -> "chain_of_custody_service"
    [] d = "port:rag_context_builder" -> "rag_context_builder"
    [] d = "port:audit_service" -> "audit_service"
    [] d = "port:post_complete_hooks" -> "pipeline_knowledge_hooks"
    [] d = "port:ml_predictor" -> "ml_predictor"
    [] d = "port:llm_analyzer" -> "rag_analyzer"
OnlyWithRag == {"port:llm_analyzer"}

\* The settings are read to decide on the last override; create_app takes them and
\* the audit logger, the lifespan its sequencer, task manager and shutdown handler.
PlugOf(d) == [do |-> "plug", what |-> d]
GetOf(p)  == [do |-> "get", what |-> p]
StartScript ==
  [i \in DOMAIN Plugs |-> PlugOf(Plugs[i])]
  \o <<GetOf("settings"), PlugOf("port:llm_analyzer"), GetOf("settings"),
       GetOf("forensic_audit_logger"), GetOf("boot_sequencer"), GetOf("task_manager"),
       GetOf("shutdown_handler")>>
=============================================================================
