------------------------------- MODULE Startup --------------------------------
(***************************************************************************)
(* The boot sequence and what it finds: BootSequencer and its initialisers *)
(* (src/src/dfat/bootstrap/), the lifespan of app.py, over a database that *)
(* outlives boots, crashes and new releases of the program.                *)
(*                                                                         *)
(* A boot runs the phases in order. Outside conditions are faults, chosen  *)
(* when the boot begins; each phase turns them into a status and a set of  *)
(* degraded capabilities, and the report is made from those. The database  *)
(* phase may first build every missing table (create_tables_on_startup),   *)
(* then stamps or upgrades; a migration is a number, and either creates    *)
(* tables or adds columns to a table of the first one. An upgrade is one   *)
(* transaction.                                                            *)
(***************************************************************************)
EXTENDS Naturals, FiniteSets, Sequences

CONSTANTS
  Heads,       \* 1..h: the migrations of the newest release
  AddsColumns, \* those that add columns to a table of migration 1
  FaultSets,   \* the conditions a boot may meet
  MaxCrashes   \* bound on deaths of the process

Roles == {"admin", "investigator", "analyst", "viewer"}

\* ConfigValidator.validate: every check is made and recorded; those on the
\* placeholder secret and on relative paths only in production.
AlwaysChecked == {"environment name", "secret length", "database url", "empty path",
                  "remote llm", "no llm model", "ports", "token expiry"}
ProductionChecked == {"placeholder secret", "relative paths"}

\* What a boot can meet and what is missing then: services, and conditions that
\* phases look for.
Services == {"dataset_discovery", "vector_store", "embedding_engine", "knowledge_graph", "ioc_database",
  "yara_rules", "sigma_rules", "llm_service", "rag_pipeline", "report_output", "report_schema",
  "narrative_template", "pdf_export", "benchmark_datasets"}
Conditions == Services \cup AlwaysChecked \cup ProductionChecked
  \cup {"unwritable tree", "database down", "jwt", "audit path", "probe raises", "no parser", "no volatility",
        "model registry", "training"}
Sensible ==
  /\ Heads \subseteq Nat /\ \E h \in Heads : Heads = 1..h
  /\ AddsColumns \subseteq Heads /\ MaxCrashes \in Nat /\ FaultSets \subseteq SUBSET Conditions

VARIABLES
  create,     \* create_tables_on_startup
  production, \* DFAT_ENV is production
  release,  \* the newest migration the deployed program knows
  db,       \* revision (0: none), what its schema has, roles with active users,
            \* whether the account "admin" exists, whether the roles are seeded,
            \* whether the model registry holds a model
  torn,     \* the audit file has a line that does not parse
  boot,     \* where the boot is, its faults and the results so far
  old,      \* history: tables were built without a revision by an older release
  ahead,    \* history: tables were built that a later upgrade would create
  crashes

deployed == <<create, production, release>>
vars == <<deployed, db, torn, boot, old, ahead, crashes>>

Phases == <<"configuration", "directories", "database", "authentication",
  "audit_logging", "forensic_parsers", "dataset_discovery", "knowledge_base",
  "ioc_database", "threat_intelligence", "ml_models", "llm_service", "rag_pipeline",
  "reporting", "evaluation", "background_workers">>
Critical == {"configuration", "directories", "database", "authentication",
             "audit_logging", "reporting"}

Down == [pc |-> "down", at |-> 0, db |-> "create", faults |-> {},
         degraded |-> {}, failed |-> {}, able |-> {}]
Here == Phases[boot.at]
Met(f) == f \in boot.faults

Completed     == [status |-> "completed", caps |-> {}]
Failed        == [status |-> "failed", caps |-> {}]
Degraded(c)   == [status |-> IF c = {} THEN "completed" ELSE "degraded", caps |-> c]
FailedIf(bad) == IF bad THEN Failed ELSE Completed
Lost(caps)    == Degraded(boot.faults \cap caps)

Checked == AlwaysChecked \cup (IF production THEN ProductionChecked ELSE {})
Configuration == FailedIf(boot.faults \cap Checked # {})

Directories  == FailedIf(Met("unwritable tree"))
AuditLogging == FailedIf(Met("audit path") \/ torn)

\* Some parsers without their library leave the phase completed, yet named;
\* none at all degrades it; a probe that raises fails it.
ForensicParsers ==
  IF Met("probe raises") THEN Failed
  ELSE IF Met("no parser") THEN [status |-> "degraded", caps |-> {"disk", "memory"}]
  ELSE IF Met("no volatility") THEN [status |-> "completed", caps |-> {"memory"}]
  ELSE Completed

\* Each of these probes what its faults are named after, logs and goes on; seed
\* documents that cannot be stored are no fault.
DatasetDiscovery   == Lost({"dataset_discovery"})
KnowledgeBase      == Lost({"vector_store", "embedding_engine", "knowledge_graph"})
IocDatabase        == Lost({"ioc_database"})
ThreatIntelligence == Lost({"yara_rules", "sigma_rules"})
LlmService         == Lost({"llm_service"})
RagPipeline        == Lost({"rag_pipeline"})
Reporting          == Lost({"report_output", "report_schema", "narrative_template", "pdf_export"})
Evaluation         == Lost({"benchmark_datasets"})

\* Five loops are registered; nothing is probed.
BackgroundWorkers == Completed

\* An empty model registry is filled with a baseline, if it can be trained.
HasModel == ~Met("model registry") /\ (db.model \/ ~Met("training"))
MlModels == Degraded(IF HasModel THEN {} ELSE {"ml_models"})

\* What a phase other than the database's and the authentication's returns.
Result == [configuration |-> Configuration, directories |-> Directories,
  audit_logging |-> AuditLogging, forensic_parsers |-> ForensicParsers,
  dataset_discovery |-> DatasetDiscovery, knowledge_base |-> KnowledgeBase,
  ioc_database |-> IocDatabase, threat_intelligence |-> ThreatIntelligence,
  ml_models |-> MlModels, llm_service |-> LlmService, rag_pipeline |-> RagPipeline,
  reporting |-> Reporting, evaluation |-> Evaluation, background_workers |-> BackgroundWorkers]

\* _collect_degraded and the failed non-critical phases; _collect_capabilities.
Names(p, r) == (IF r.status \in {"degraded", "failed"} THEN {p} ELSE {}) \cup r.caps

\* _run_phase and the loop of boot(): a critical failure aborts, the last phase
\* makes the report and the lifespan begins to serve.
Record(p, r) ==
  LET aborts == r.status = "failed" /\ p \in Critical IN
  boot' = [boot EXCEPT
    !.degraded = @ \cup (IF aborts THEN {} ELSE Names(p, r)),
    !.failed = @ \cup (IF r.status = "failed" THEN {p} ELSE {}),
    !.able = @ \cup (IF r.status = "failed" THEN {} ELSE {p}),
    !.pc = IF aborts THEN "unavailable"
           ELSE IF boot.at < Len(Phases) THEN "booting" ELSE "serving",
    !.at = IF ~aborts /\ boot.at < Len(Phases) THEN @ + 1 ELSE @]

\* SystemReadiness of the report.
Readiness ==
  CASE boot.pc = "unavailable" -> "unavailable"
    [] boot.pc = "serving" -> IF boot.degraded = {} THEN "ready" ELSE "degraded"
    [] OTHER -> "initializing"

Init ==
  /\ create \in BOOLEAN /\ production \in BOOLEAN
  /\ release \in Heads
  /\ db = [rev |-> 0, has |-> {}, users |-> {}, admin |-> FALSE,
          roles |-> FALSE, model |-> FALSE]
  /\ torn = FALSE /\ boot = Down
  /\ old = FALSE /\ ahead = FALSE /\ crashes = 0

-----------------------------------------------------------------------------
Begin ==
  /\ boot.pc = "down"
  /\ \E f \in FaultSets : boot' = [Down EXCEPT !.pc = "booting", !.at = 1, !.faults = f]
  /\ UNCHANGED <<deployed, db, torn, old, ahead, crashes>>

\* UNAVAILABLE: the lifespan raises SystemExit.
Exits ==
  /\ boot.pc = "unavailable"
  /\ boot' = Down
  /\ UNCHANGED <<deployed, db, torn, old, ahead, crashes>>

PlainPhase ==
  /\ boot.pc = "booting" /\ Here \notin {"database", "authentication"}
  /\ Record(Here, Result[Here])
  /\ db' = [db EXCEPT !.model = @ \/ (Here = "ml_models" /\ HasModel)]
  /\ UNCHANGED <<deployed, torn, old, ahead, crashes>>

(* The database phase: connect and create, migrate, verify and seed.        *)
In(step) == boot.pc = "booting" /\ Here = "database" /\ boot.db = step
Known   == 1..release
Tables  == Known \ AddsColumns
Pending == (db.rev + 1)..release

\* create_all builds whole tables: the columns of later migrations come with
\* the tables it builds, never with those that exist.
Built == db.has \cup Tables \cup (IF 1 \in db.has THEN {} ELSE Known \cap AddsColumns)

ConnectAndCreate ==
  /\ In("create")
  /\ IF Met("database down")
     THEN Record(Here, Failed) /\ UNCHANGED <<db, ahead>>
     ELSE /\ boot' = [boot EXCEPT !.db = "migrate"]
          /\ db' = IF create THEN [db EXCEPT !.has = Built] ELSE db
          /\ ahead' = (ahead \/ (create /\ db.rev > 0 /\ Built # db.has))
  /\ UNCHANGED <<deployed, torn, old, crashes>>

\* _apply_migrations: stamp a schema without a revision; else upgrade, which
\* raises when a pending migration creates what is there.
Stamps == db.rev = 0 /\ db.has # {}
Clashes == Pending \cap db.has # {}
Migrate ==
  /\ In("migrate")
  /\ IF Stamps
     THEN /\ db' = [db EXCEPT !.rev = release]
          /\ boot' = [boot EXCEPT !.db = "verify"]
     ELSE IF Clashes \/ db.rev > release
     THEN Record(Here, Failed) /\ UNCHANGED db
     ELSE /\ db' = [db EXCEPT !.rev = release, !.has = @ \cup Pending,
                              !.roles = @ \/ 1 \in Pending]
          /\ boot' = [boot EXCEPT !.db = "verify"]
  /\ UNCHANGED <<deployed, torn, old, ahead, crashes>>

\* _missing_tables looks for tables, not for columns; _verify_seed_data inserts
\* the roles that are missing.
VerifyAndSeed ==
  /\ In("verify")
  /\ IF Tables \subseteq db.has
     THEN Record(Here, Completed) /\ db' = [db EXCEPT !.roles = TRUE]
     ELSE Record(Here, Failed) /\ UNCHANGED db
  /\ UNCHANGED <<deployed, torn, old, ahead, crashes>>

\* The account "admin" is created when there is none, also when the phase then
\* fails for a role without an active user.
EnsuredUsers == IF db.admin THEN db.users ELSE {"admin"} \cup db.users
Authentication ==
  /\ boot.pc = "booting" /\ Here = "authentication"
  /\ IF Met("jwt")
     THEN Record(Here, Failed) /\ UNCHANGED db
     ELSE /\ db' = [db EXCEPT !.admin = TRUE, !.users = EnsuredUsers]
          /\ Record(Here, FailedIf(EnsuredUsers # Roles))
  /\ UNCHANGED <<deployed, torn, old, ahead, crashes>>

-----------------------------------------------------------------------------
(* Around the boots                                                        *)

\* Accounts come and go: UserService while serving, a script at any time.
AddUser(r) ==
  /\ boot.pc \in {"down", "serving"} /\ db.roles /\ r \notin db.users
  /\ db' = [db EXCEPT !.users = @ \cup {r}]
  /\ UNCHANGED <<deployed, torn, boot, old, ahead, crashes>>

LastDeactivated(r) ==
  /\ boot.pc = "serving" /\ r \in db.users
  /\ db' = [db EXCEPT !.users = @ \ {r}]
  /\ UNCHANGED <<deployed, torn, boot, old, ahead, crashes>>

\* scripts/seed_dev_data.py builds the tables without a revision.
SeedScript ==
  /\ boot.pc = "down" /\ create /\ db.rev = 0 /\ db.has # Built
  /\ db' = [db EXCEPT !.has = Built]
  /\ UNCHANGED <<deployed, torn, boot, old, ahead, crashes>>

\* A newer release is installed between boots.
Deploy ==
  /\ boot.pc = "down" /\ release + 1 \in Heads
  /\ release' = release + 1
  /\ old' = (old \/ (db.rev = 0 /\ db.has # {}))
  /\ UNCHANGED <<create, production, db, torn, boot, ahead, crashes>>

\* The process stops or is killed; an audit line may be cut short.
Dies ==
  /\ boot.pc \in {"booting", "serving"} /\ crashes < MaxCrashes
  /\ crashes' = crashes + 1
  /\ boot' = Down
  /\ torn' \in (IF boot.pc = "serving" THEN {torn, TRUE} ELSE {torn})
  /\ UNCHANGED <<deployed, db, old, ahead>>

BootStep == PlainPhase \/ ConnectAndCreate \/ Migrate \/ VerifyAndSeed \/ Authentication
Next ==
  \/ Begin \/ Exits \/ BootStep \/ SeedScript \/ Deploy \/ Dies
  \/ \E r \in Roles : AddUser(r) \/ LastDeactivated(r)

Spec == Init /\ [][Next]_vars

-----------------------------------------------------------------------------
\* Every variable has its type.
TypeOK ==
  /\ {create, production, torn, db.model} \subseteq BOOLEAN /\ release \in Heads
  /\ db.rev \in Heads \cup {0} /\ db.has \subseteq Heads /\ db.users \subseteq Roles
  /\ boot.pc \in {"down", "booting", "unavailable", "serving"}
  /\ boot.at \in 0..Len(Phases) /\ crashes \in 0..MaxCrashes

\* The report says what the boot met. A system that is "ready" met nothing that
\* is probed in its environment; every capability that a condition takes away is
\* among the degraded services; no critical phase failed and none was skipped.
ReportTruthful ==
  boot.pc = "serving" =>
    /\ Readiness = "ready" =>
         boot.faults \subseteq ProductionChecked \cup (IF db.model THEN {"training"} ELSE {})
    /\ boot.faults \subseteq boot.degraded \cup ProductionChecked
         \cup {"no volatility", "no parser", "probe raises", "model registry", "training"}
    /\ ~db.model \/ Met("model registry") => "ml_models" \in boot.degraded
    /\ Met("no volatility") => {"memory", "forensic_parsers"} \cap boot.degraded # {}
    /\ boot.able \cup boot.failed = {Phases[i] : i \in DOMAIN Phases}
    /\ boot.failed \cap Critical = {}

\* A boot without faults is refused only for a role without an active user, a
\* torn audit line, or tables that were built ahead of their migration; the
\* last two make every later boot of that release fail too.
SoundBootServes ==
  boot.pc = "unavailable" /\ boot.faults = {} =>
    \/ Here = "authentication" /\ db.users # Roles
    \/ Here = "audit_logging" /\ torn
    \/ Here = "database" /\ (ahead \/ old)

\* A system that serves has the whole schema of its release, columns too, unless
\* tables were built without a revision under an older release.
ServesWithSchema ==
  boot.pc = "serving" => (db.has = Known /\ db.rev = release) \/ old

\* The two together: what a boot may be refused for, and what a system that
\* serves has, over any history of boots, crashes, releases and scripts.
BootOutcome == SoundBootServes /\ ServesWithSchema
===============================================================================
