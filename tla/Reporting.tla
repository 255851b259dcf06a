------------------------------ MODULE Reporting ------------------------------
(***************************************************************************)
(* The reporting stage of jobs on one evidence item: a report is built and *)
(* hashed, stored and audited, exported, verified and compared; a custody  *)
(* report is put together while the chain grows.                           *)
(***************************************************************************)
EXTENDS Integers, Sequences, FiniteSets

CONSTANTS
  Jobs,      \* jobs on the evidence item
  Recovered, \* the artefacts each of them finds: a sequence of [category, level, data]
  Draws,     \* possible identifiers: job |-> one per artefact; every parse draws new ones (uuid4)
  MaxChain,  \* bound on custody records
  MaxFaults  \* bound on failing writes, edits of stored rows and crashes

VARIABLES
  pc,     \* job |-> "wait" | "built" | "stored" | "done" | "failed" | "escaped"
  ids,    \* job |-> the identifiers of its artefacts
  repo,   \* job |-> the stored report, or NoReport
  tasks,  \* audit writes of the builder that nobody awaits: <<job, action>>
  audit,  \* entries written
  files,  \* job |-> its exported JSON file: "absent" | "cut" | "wrong" | "verified"
  chain,  \* length of the custody chain
  custody,\* the custody report under way: [pc, length, total]
  faults

vars == <<pc, ids, repo, tasks, audit, files, chain, custody, faults>>

NoReport == [stored |-> FALSE, rows |-> <<>>, hash |-> <<>>, edited |-> FALSE]
Stored(j) == repo[j].stored
NoCustody == [pc |-> "idle", length |-> 0, total |-> 0]
Builder == {"JSON_REPORT_GENERATED", "NARRATIVE_GENERATED", "REPORT_GENERATED"}
-----------------------------------------------------------------------------
(* The report document                                                     *)

Row(j, n) == [category |-> Recovered[n].category, id |-> ids[j][n], level |-> Recovered[n].level, data |-> Recovered[n].data]
\* Sorted by category and, within it, by identifier.
Before(a, b) == a.category < b.category \/ (a.category = b.category /\ a.id < b.id)
Rows(j) ==
  CHOOSE s \in [DOMAIN Recovered -> {Row(j, n) : n \in DOMAIN Recovered}] :
    \A m, n \in DOMAIN Recovered : m < n => Before(s[m], s[n])
\* The hash of the canonical form stands for the rows themselves.
Hash(rows) == rows
Document(j) == [stored |-> TRUE, rows |-> Rows(j), hash |-> Hash(Rows(j)), edited |-> FALSE]

Verifies(r) == r.stored /\ r.hash = Hash(r.rows)
CountOf(r, field, v) == Cardinality({n \in DOMAIN r.rows : r.rows[n][field] = v})
SameDistribution(a, b, field) ==
  \A v \in {a.rows[n][field] : n \in DOMAIN a.rows} \cup {b.rows[n][field] : n \in DOMAIN b.rows} : CountOf(a, field, v) = CountOf(b, field, v)
Reproducible(a, b) ==
  /\ Hash(a.rows) = Hash(b.rows) /\ Len(a.rows) = Len(b.rows)
  /\ SameDistribution(a, b, "category") /\ SameDistribution(a, b, "level")

-----------------------------------------------------------------------------
Init ==
  /\ pc = [j \in Jobs |-> "wait"] /\ repo = [j \in Jobs |-> NoReport]
  /\ ids \in Draws /\ tasks = {} /\ audit = {} /\ files = [j \in Jobs |-> "absent"]
  /\ chain = 1 /\ custody = NoCustody /\ faults = 0

Fault == faults < MaxFaults /\ faults' = faults + 1
Enter(j, from, to) == pc[j] = from /\ pc' = [pc EXCEPT ![j] = to]
Log(j, action) == audit' = audit \cup {<<j, action>>}

-----------------------------------------------------------------------------
(* ReportingStage.execute                                                  *)

\* Without an await: document, validation, narrative; the builder's audit writes start
\* as tasks of their own.
Build(j) ==
  /\ Enter(j, "wait", "built") /\ tasks' = tasks \cup ({j} \X Builder)
  /\ UNCHANGED <<ids, repo, audit, files, chain, custody, faults>>
BuildFails(j) ==
  /\ Enter(j, "wait", "failing") /\ Fault
  /\ UNCHANGED <<ids, repo, tasks, audit, files, chain, custody>>

Persist(j) ==
  /\ Enter(j, "built", "stored") /\ repo' = [repo EXCEPT ![j] = Document(j)]
  /\ UNCHANGED <<ids, tasks, audit, files, chain, custody, faults>>
PersistFails(j) ==
  /\ Enter(j, "built", "failing") /\ Fault
  /\ UNCHANGED <<ids, repo, tasks, audit, files, chain, custody>>

BadComplete(j) ==
  /\ pc[j] \in {"built", "stored"} /\ pc' = [pc EXCEPT ![j] = "done"] /\ Log(j, "REPORTING_STAGE_COMPLETED")
  /\ UNCHANGED <<ids, repo, tasks, files, chain, custody, faults>>
Complete(j) ==
  /\ Enter(j, "stored", "done") /\ Log(j, "REPORTING_STAGE_COMPLETED")
  /\ UNCHANGED <<ids, repo, tasks, files, chain, custody, faults>>
\* The report is stored and named in the job, yet the stage fails.
CompleteFails(j) ==
  /\ Enter(j, "stored", "failing") /\ Fault
  /\ UNCHANGED <<ids, repo, tasks, audit, files, chain, custody>>
Fail(j) ==
  /\ Enter(j, "failing", "failed") /\ Log(j, "REPORTING_STAGE_FAILED")
  /\ UNCHANGED <<ids, repo, tasks, files, chain, custody, faults>>
\* The audit write of the failure fails, too: the error leaves the stage.
Escape(j) ==
  /\ Enter(j, "failing", "escaped") /\ Fault
  /\ UNCHANGED <<ids, repo, tasks, audit, files, chain, custody>>

AuditTask(t) ==
  /\ t \in tasks /\ tasks' = tasks \ {t} /\ Log(t[1], t[2])
  /\ UNCHANGED <<pc, ids, repo, files, chain, custody, faults>>
\* Nobody awaits the task: its error is lost.
AuditTaskFails(t) ==
  /\ t \in tasks /\ tasks' = tasks \ {t} /\ Fault
  /\ UNCHANGED <<pc, ids, repo, audit, files, chain, custody>>

-----------------------------------------------------------------------------
(* Exports and verification of stored reports                              *)

\* A JSON file is read back and verified after it is written; when that fails the
\* request does, and the file stays. (PDF and HTML files are written and not checked.)
Export(j) ==
  /\ Stored(j) /\ files' = [files EXCEPT ![j] = IF Verifies(repo[j]) THEN "verified" ELSE "wrong"]
  /\ UNCHANGED <<pc, ids, repo, tasks, audit, chain, custody, faults>>
ExportFails(j) ==
  /\ Stored(j) /\ files' = [files EXCEPT ![j] = "cut"] /\ Fault
  /\ UNCHANGED <<pc, ids, repo, tasks, audit, chain, custody>>

\* Somebody edits a stored row behind the program.
EditRow(j) ==
  /\ Stored(j) /\ Fault
  /\ \E n \in DOMAIN repo[j].rows : repo' = [repo EXCEPT ![j].rows[n].data = "edited", ![j].edited = TRUE]
  /\ UNCHANGED <<pc, ids, tasks, audit, files, chain, custody>>

-----------------------------------------------------------------------------
(* CustodyReportGenerator.generate                                         *)

ReadChain ==
  /\ custody.pc = "idle" /\ \E j \in Jobs : Stored(j)
  /\ custody' = [pc |-> "verify", length |-> chain, total |-> 0]
  /\ UNCHANGED <<pc, ids, repo, tasks, audit, files, chain, faults>>
\* verify_custody_chain reads the chain once more.
VerifyChain ==
  /\ custody.pc = "verify" /\ custody' = [custody EXCEPT !.pc = "made", !.total = chain]
  /\ UNCHANGED <<pc, ids, repo, tasks, audit, files, chain, faults>>
Deliver ==
  /\ custody.pc = "made" /\ custody' = NoCustody
  /\ UNCHANGED <<pc, ids, repo, tasks, audit, files, chain, faults>>
ChainGrows ==
  /\ chain < MaxChain /\ chain' = chain + 1
  /\ UNCHANGED <<pc, ids, repo, tasks, audit, files, custody, faults>>

Crash ==
  /\ Fault /\ tasks' = {} /\ custody' = NoCustody
  /\ pc' = [j \in Jobs |-> IF pc[j] \in {"built", "stored", "failing"} THEN "escaped" ELSE pc[j]]
  /\ UNCHANGED <<ids, repo, audit, files, chain>>

Stage(j) ==
  \/ Build(j) \/ BuildFails(j) \/ Persist(j) \/ PersistFails(j)
  \/ Complete(j) \/ CompleteFails(j) \/ Fail(j) \/ Escape(j)
Next ==
  \/ \E j \in Jobs : Stage(j) \/ EditRow(j) \/ Export(j) \/ ExportFails(j)
  \/ \E t \in Jobs \X Builder : AuditTask(t) \/ AuditTaskFails(t)
  \/ ReadChain \/ VerifyChain \/ Deliver \/ ChainGrows \/ Crash
Spec == Init /\ [][Next]_vars

-----------------------------------------------------------------------------
Wrote(action) == {j \in Jobs : <<j, action>> \in audit}

\* A stage succeeds with its report stored, holding every artefact of the job; the trail
\* says "completed" of no other stage and never says both.
SuccessIsStored ==
  \A j \in Jobs :
    /\ pc[j] = "done" => Stored(j) /\ j \in Wrote("REPORTING_STAGE_COMPLETED")
    /\ j \in Wrote("REPORTING_STAGE_COMPLETED") => pc[j] = "done"
    /\ Stored(j) => {repo[j].rows[n].id : n \in DOMAIN repo[j].rows} = {ids[j][n] : n \in DOMAIN Recovered}
    /\ j \in Wrote("REPORTING_STAGE_FAILED") => pc[j] = "failed"

\* Verification tells a stored report that was edited from one that was not, and a file
\* that failed it is that of an edited report.
VerifiedIsUntouched ==
  \A j \in Jobs :
    /\ Stored(j) => (Verifies(repo[j]) <=> ~repo[j].edited)
    /\ files[j] = "wrong" => repo[j].edited

\* A custody report never has more records than its verification counted.
CustodyIsCounted == custody.pc = "made" => custody.length <= custody.total /\ custody.total <= chain

\* Two reports of the same artefacts, identifiers included, are reproducible; otherwise
\* never, even when they count alike.
CompareTellsRows ==
  \A j, k \in Jobs : Stored(j) /\ Stored(k) => (Reproducible(repo[j], repo[k]) <=> repo[j].rows = repo[k].rows)

\* Artefacts come in a list, their categories and identifiers have an order, one
\* parse draws no identifier twice, and none of what it finds reads as an edit.
Sensible ==
  /\ Len(Recovered) \in Nat /\ DOMAIN Recovered = 1..Len(Recovered)
  /\ \A n \in DOMAIN Recovered : Recovered[n].category \in Int /\ Recovered[n].data # "edited"
  /\ \A d \in Draws : \A j \in Jobs : \A m, n \in DOMAIN Recovered : d[j][n] \in Int /\ (m # n => d[j][m] # d[j][n])

ReportingSafe == SuccessIsStored /\ VerifiedIsUntouched /\ CustodyIsCounted /\ CompareTellsRows

\* "identical recovered artefact content yields identical evidential hashes across runs,
\* even if report metadata differs" (docs/dissertation/REPRODUCIBILITY_PROOF.md:18).
RunsReproduce ==
  \A j, k \in Jobs : (\A x \in {j, k} : Stored(x) /\ ~repo[x].edited) => Reproducible(repo[j], repo[k])
=============================================================================
