---------------------------- MODULE PipelineJobs -----------------------------
(***************************************************************************)
(* The pipeline back end: JobManager, JobRunner, ProgressTracker, the      *)
(* orchestrator's submit / execute / cancel paths, the five stage          *)
(* handlers and the pipeline_jobs table (src/src/dfat/pipeline).           *)
(*                                                                         *)
(* The program is one asyncio process: code between two awaits that        *)
(* really suspend runs alone, so an action below is such a segment and pc  *)
(* names the await a job's coroutine is parked at. JobManager and          *)
(* ProgressTracker methods never suspend; audit writes, table writes and   *)
(* stage bodies do. A job is driven by one coroutine from submit_pipeline  *)
(* to the end of execute_submitted_job, and cancel requests, the evidence  *)
(* desk and a death of the process interleave with it.                     *)
(***************************************************************************)
EXTENDS Naturals, Sequences, FiniteSets, EvidenceTransitions

CONSTANTS
  Jobs,          \* job ids that may be handed out
  Evidence,      \* registered evidence items
  Modes,         \* the pipeline modes in use
  StagesOf,      \* _MODE_STAGES: mode -> its stages in order
  Cancellable,   \* the jobs somebody may ask to cancel
  StoreMayFail,  \* may an audit or status write raise DatabaseError?
  SaveMayFail,   \* may the best-effort write of the job row fail?
  MaxCrashes     \* bound on deaths of the process

Stages == {"acquisition", "parsing", "ai_triage", "reporting", "evaluation"}

ASSUME StagesAssumption ==
  /\ StagesOf \in [Modes -> Seq(Stages) \ {<<>>}]
  /\ \A m \in Modes : \A a, b \in 1..Len(StagesOf[m]) :
       StagesOf[m][a] = StagesOf[m][b] => a = b
ASSUME BoundsAssumption ==
  /\ Modes # {} /\ Evidence # {}
  /\ StoreMayFail \in BOOLEAN
  /\ SaveMayFail \in BOOLEAN
  /\ MaxCrashes \in Nat
  /\ Cancellable \subseteq Jobs
\* _MODE_STAGES: a triage-only job begins with the triage, which needs artefacts.
ASSUME TriageAssumption ==
  "triage-only" \in Modes => StagesOf["triage-only"][1] = "ai_triage"

VARIABLES
  status,    \* JobManager._jobs[j].status, "none" when j is not in memory
  mode,      \* job.mode
  target,    \* job.evidence_id
  exec,      \* job.stage_executions: stage -> its recorded status
  pos,       \* how many stages run_job's loop has entered
  out,       \* what the stages left on the PipelineContext
  pc,        \* the await the job's coroutine is parked at
  snap,      \* the row being written by the coroutine's pending save
  row,       \* the job's row in pipeline_jobs
  cpc,       \* the await a cancel_pipeline call for j is parked at
  csnap,     \* the row being written by that call's pending save
  progress,  \* ProgressTracker state of j
  ev,        \* current status of each evidence item
  analysed,  \* number of ANALYSED custody records naming j
  cache,     \* evidence ids with an entry in _artefact_cache
  crashes    \* deaths of the process so far

request == <<mode, target>>
saves   == <<snap, row>>
cancels == <<cpc, csnap>>
world   == <<ev, analysed, crashes>>
vars == <<status, request, exec, pos, out, pc, saves, cancels, progress, world,
          cache>>

-----------------------------------------------------------------------------
JobStatuses ==
  {"queued", "running", "stage_complete", "completed", "failed", "cancelled"}
Terminal    == {"completed", "failed", "cancelled"}
\* Faulty variants, named Bad..., stand before the definition they replace when
\* a run is tried against a plausible bug.
BadCancelFromActive == {"queued", "running", "stage_complete"}
CancelFrom  == {"queued", "running"}              \* _CANCELLABLE_STATUSES
ExecStatuses == {"none", "running", "completed", "failed"}
Outputs      == {"evidence", "artefacts", "ranked", "report"}

\* Where the coroutine awaits while a stage handler's execute() is running.
InStage == {"executing", "acqWrite", "acqAudit", "acqRecheck", "stageFailing",
            "stageDone"}
\* The two places from which run_job comes (back) to the head of its loop.
AtLoopHead == {"startAudit", "stageAudit"}
\* run_job has returned, or is parked in its last audit write.
AfterRun == {"failAudit", "completeAudit", "finalise", "finaliseWrite",
             "finaliseAudit", "analysis", "finishAudit", "saving", "done"}
BeforeRun == {"submitAudit", "startedAudit", "submitSave", "submitted"}
\* refused: submit_pipeline raised; aborted: execute_submitted_job raised.
Ended     == {"done", "aborted", "lost"}
PCs == {"idle", "refused"} \cup BeforeRun \cup AtLoopHead \cup InStage
         \cup AfterRun \cup Ended
\* The awaits of an audit or status write whose DatabaseError nobody catches.
StorePoints == {"submitAudit", "startedAudit", "startAudit", "stageAudit",
                "failAudit", "completeAudit", "finalise", "finaliseWrite",
                "finaliseAudit", "finishAudit"}

\* validate_preconditions: what a stage needs on the context, and what it adds.
Needs  == [acquisition |-> {}, parsing |-> {"evidence"},
           ai_triage |-> {"artefacts"}, reporting |-> {"artefacts", "ranked"},
           evaluation |-> {}]
Yields == [acquisition |-> {"evidence"}, parsing |-> {"artefacts"},
           ai_triage |-> {"ranked"}, reporting |-> {"report"},
           evaluation |-> {}]

NoExec     == [s \in Stages |-> "none"]
NoRow      == [status |-> "none", exec |-> NoExec]
NoProgress == [status |-> "none", done |-> 0]

Plan(j)  == StagesOf[mode[j]]
Total(j) == Len(Plan(j))
Cur(j)   == Plan(j)[pos[j]]

\* pipeline_job_domain_to_orm: the row a save started now will write.
Snapshot(j) == [status |-> status[j], exec |-> exec[j]]

-----------------------------------------------------------------------------
Init ==
  /\ status = [j \in Jobs |-> "none"]
  /\ mode = [j \in Jobs |-> CHOOSE m \in Modes : TRUE]
  /\ target = [j \in Jobs |-> CHOOSE e \in Evidence : TRUE]
  /\ exec = [j \in Jobs |-> NoExec]
  /\ pos = [j \in Jobs |-> 0]
  /\ out = [j \in Jobs |-> {}]
  /\ pc = [j \in Jobs |-> "idle"]
  /\ snap = [j \in Jobs |-> NoRow]
  /\ row = [j \in Jobs |-> NoRow]
  /\ cpc = [j \in Jobs |-> "idle"]
  /\ csnap = [j \in Jobs |-> NoRow]
  /\ progress = [j \in Jobs |-> NoProgress]
  /\ ev = [e \in Evidence |-> "validated"]
  /\ analysed = [j \in Jobs |-> 0]
  /\ cache = {}
  /\ crashes = 0

-----------------------------------------------------------------------------
(* submit_pipeline *)

Goto(j, where) == pc' = [pc EXCEPT ![j] = where]

\* Only the await changes.
Move(j, from, to) ==
  /\ pc[j] = from
  /\ Goto(j, to)
  /\ UNCHANGED <<status, request, exec, pos, out, saves, cancels, progress, world,
                 cache>>

\* JobManager.submit_job creates the job; submit_pipeline then waits for the
\* PIPELINE_JOB_SUBMITTED audit entry.
Submit(j, e, m) ==
  /\ pc[j] = "idle"
  /\ status' = [status EXCEPT ![j] = "queued"]
  /\ mode' = [mode EXCEPT ![j] = m]
  /\ target' = [target EXCEPT ![j] = e]
  /\ Goto(j, "submitAudit")
  /\ UNCHANGED <<exec, pos, out, saves, cancels, progress, world, cache>>

\* A triage-only job takes over the artefacts cached for its evidence.
BadCachedFor(j) == mode[j] = "triage-only" /\ cache # {}
CachedFor(j)    == mode[j] = "triage-only" /\ target[j] \in cache

\* Progress tracking starts and the context is made; two more audit entries.
OpenContext(j) ==
  /\ pc[j] = "submitAudit"
  /\ progress' = [progress EXCEPT ![j] = [status |-> "initialising", done |-> 0]]
  /\ out' = [out EXCEPT ![j] = IF CachedFor(j) THEN {"artefacts"} ELSE {}]
  /\ Goto(j, "startedAudit")
  /\ UNCHANGED <<status, request, exec, pos, saves, cancels, world, cache>>

\* _persist_job: the row to write is built, then the save is awaited.
SaveStarts(j, from, saving) ==
  /\ pc[j] = from
  /\ snap' = [snap EXCEPT ![j] = Snapshot(j)]
  /\ Goto(j, saving)
  /\ UNCHANGED <<status, request, exec, pos, out, row, cancels, progress, world,
                 cache>>

\* The save commits the row built when it started, or fails and is logged.
SaveEnds(j, saving, next) ==
  /\ pc[j] = saving
  /\ \/ row' = [row EXCEPT ![j] = snap[j]]
     \/ SaveMayFail /\ UNCHANGED row
  /\ snap' = [snap EXCEPT ![j] = NoRow]
  /\ Goto(j, next)
  /\ UNCHANGED <<status, request, exec, pos, out, cancels, progress, world, cache>>

SaveQueued(j)    == SaveStarts(j, "startedAudit", "submitSave")
SubmitReturns(j) == SaveEnds(j, "submitSave", "submitted")

-----------------------------------------------------------------------------
(* JobRunner.run_job *)

\* The background task begins: RUNNING, whatever the status was.
StartJob(j) ==
  /\ pc[j] = "submitted"
  /\ status' = [status EXCEPT ![j] = "running"]
  /\ Goto(j, "startAudit")
  /\ UNCHANGED <<request, exec, pos, out, saves, cancels, progress, world, cache>>

\* run_job returns and _cache_job_outputs runs at once.
BadCacheKey(j) == j
CacheKey(j)    == target[j]
RunReturns(j, from, next) ==
  /\ pc[j] = from
  /\ cache' = IF "artefacts" \in out[j] THEN cache \cup {CacheKey(j)} ELSE cache
  /\ Goto(j, next)
  /\ UNCHANGED <<status, request, exec, pos, out, saves, cancels, progress, world>>

\* Head of the loop: a job found CANCELLED is returned as it is.
StopCancelled(j) ==
  /\ status[j] = "cancelled"
  /\ \E head \in AtLoopHead : RunReturns(j, head, "finishAudit")

\* A job that was not cancelled goes on with the next stage of its mode.
MoreStages(j) ==
  pc[j] \in AtLoopHead /\ status[j] # "cancelled" /\ pos[j] < Total(j)
Following(j) == Plan(j)[pos[j] + 1]

\* The stage is recorded RUNNING and the job RUNNING; preconditions hold and
\* the handler's execute() reports the stage to the progress tracker.
EnterStage(j) ==
  /\ MoreStages(j)
  /\ Needs[Following(j)] \subseteq out[j]
  /\ exec' = [exec EXCEPT ![j][Following(j)] = "running"]
  /\ pos' = [pos EXCEPT ![j] = @ + 1]
  /\ status' = [status EXCEPT ![j] = "running"]
  /\ progress' = [progress EXCEPT ![j].status = "running"]
  /\ Goto(j, "executing")
  /\ UNCHANGED <<request, out, saves, cancels, world, cache>>

\* Preconditions do not hold (for parsing also: no parser for the evidence
\* type), and _fail_stage marks the stage and the job failed.
BadRefusal(j) == UNCHANGED <<status, exec, pc>>
Refusal(j) ==
  /\ exec' = [exec EXCEPT ![j][Following(j)] = "failed"]
  /\ status' = [status EXCEPT ![j] = "failed"]
  /\ Goto(j, "failAudit")
RefuseStage(j) ==
  /\ MoreStages(j)
  /\ Following(j) = "parsing" \/ ~(Needs[Following(j)] \subseteq out[j])
  /\ pos' = [pos EXCEPT ![j] = @ + 1]
  /\ Refusal(j)
  /\ UNCHANGED <<request, out, saves, cancels, progress, world, cache>>

\* No stage is left.
BadAllWorked(j) == pos[j] > 0
AllWorked(j)    == pos[j] = Total(j)
CompleteJob(j) ==
  /\ pc[j] \in AtLoopHead /\ status[j] # "cancelled" /\ AllWorked(j)
  /\ status' = [status EXCEPT ![j] = "completed"]
  /\ Goto(j, "completeAudit")
  /\ UNCHANGED <<request, exec, pos, out, saves, cancels, progress, world, cache>>

\* The stage being executed gets the result e, the job the status s.
StageEnds(j, e, s, next) ==
  /\ exec' = [exec EXCEPT ![j][Cur(j)] = e]
  /\ status' = [status EXCEPT ![j] = s]
  /\ Goto(j, next)
  /\ UNCHANGED <<request, pos, out, saves, cancels, progress, world, cache>>

\* _fail_stage; the variants stay in the loop, retry, or forget the job.
BadFailStageGoesOn(j)  == StageEnds(j, "failed", "running", "stageAudit")
BadFailStageOnly(j)    == StageEnds(j, "failed", status[j], "failAudit")
FailStage(j)           == StageEnds(j, "failed", "failed", "failAudit")

\* execute() raised or reported failure; once the handler has finished its
\* work only its own audit entry can still fail.
StageFails(j) ==
  /\ \/ pc[j] \in {"executing", "acqWrite", "acqRecheck", "stageFailing"}
     \/ pc[j] \in {"acqAudit", "stageDone"} /\ StoreMayFail
  /\ FailStage(j)

\* The handler succeeded: COMPLETED, and the job STAGE_COMPLETE.
BadStageReturns(j) ==
  pc[j] = "stageDone" /\ StageEnds(j, "running", "stage_complete", "stageAudit")
StageReturns(j) ==
  pc[j] = "stageDone" /\ StageEnds(j, "completed", "stage_complete", "stageAudit")

-----------------------------------------------------------------------------
(* The stage handlers' execute() *)

\* ProgressTracker.complete_stage.
ProgressComplete(j) ==
  LET n == IF progress[j].done < Total(j) THEN progress[j].done + 1 ELSE Total(j)
  IN  progress' = [progress EXCEPT ![j] =
        [done |-> n,
         status |-> IF n >= Total(j) /\ Total(j) > 0 THEN "completed"
                                                     ELSE "stage_complete"]]

\* The handler stores its outputs on the context and completes its progress
\* entry, then writes its own audit entry.
Deliver(j) ==
  /\ out' = [out EXCEPT ![j] = @ \cup Yields[Cur(j)]]
  /\ ProgressComplete(j)
  /\ Goto(j, "stageDone")
  /\ UNCHANGED <<status, request, exec, pos, saves, cancels, world, cache>>

\* Parsing (some parser succeeded), triage, reporting, evaluation.
StageWorks(j) == pc[j] = "executing" /\ Cur(j) # "acquisition" /\ Deliver(j)

\* Every parser failed: progress still counts the stage as completed.
AllParsersFail(j) ==
  /\ pc[j] = "executing" /\ Cur(j) = "parsing"
  /\ ProgressComplete(j)
  /\ Goto(j, "stageFailing")
  /\ UNCHANGED <<status, request, exec, pos, out, saves, cancels, world, cache>>

\* Acquisition has verified and loaded the evidence and reads its status: the
\* change to PROCESSING is permitted, or refused and examined further.
AcquireRead(j) ==
  /\ pc[j] = "executing" /\ Cur(j) = "acquisition"
  /\ ev[target[j]] # "processing"
  /\ Move(j, "executing",
          IF EvidenceMayMove(ev[target[j]], "processing") THEN "acqWrite"
                                                          ELSE "acqRecheck")

\* Already PROCESSING (another job has it): acquisition goes on regardless.
AcquireShared(j) ==
  /\ pc[j] = "executing" /\ Cur(j) = "acquisition"
  /\ ev[target[j]] = "processing"
  /\ Deliver(j)

\* A status write, which does not look at the status again.
WriteEvidence(j, from, s, next) ==
  /\ pc[j] = from
  /\ ev' = [ev EXCEPT ![target[j]] = s]
  /\ Goto(j, next)
  /\ UNCHANGED <<status, request, exec, pos, out, saves, cancels, progress,
                 analysed, crashes, cache>>

BadAcquireWrite(j) == WriteEvidence(j, "acqWrite", "processed", "acqAudit")
AcquireWrite(j)    == WriteEvidence(j, "acqWrite", "processing", "acqAudit")

\* The transition is audited, or a second read finds PROCESSING after all.
AcquireDone(j) ==
  /\ \/ pc[j] = "acqAudit"
     \/ pc[j] = "acqRecheck" /\ ev[target[j]] = "processing"
  /\ Deliver(j)

-----------------------------------------------------------------------------
(* The rest of execute_submitted_job *)

\* A FAILED job is audited and saved, a COMPLETED one finalised first.
BadFailReturnsUnsaved(j) == RunReturns(j, "failAudit", "done")
FailReturns(j)           == RunReturns(j, "failAudit", "finishAudit")
CompleteReturns(j)       == RunReturns(j, "completeAudit", "finalise")

\* _finalise_success: read, then write; a change that is not permitted is
\* skipped.
FinaliseRead(j) ==
  Move(j, "finalise",
       IF EvidenceMayMove(ev[target[j]], "processed") THEN "finaliseWrite"
                                                      ELSE "analysis")
FinaliseWrite(j)   == WriteEvidence(j, "finaliseWrite", "processed", "finaliseAudit")
FinaliseAudited(j) == Move(j, "finaliseAudit", "analysis")

\* record_analysis; any error of it is swallowed.
RecordAnalysed(j) ==
  /\ pc[j] = "analysis"
  /\ \/ analysed' = [analysed EXCEPT ![j] = @ + 1]
     \/ StoreMayFail /\ UNCHANGED analysed
  /\ Goto(j, "finishAudit")
  /\ UNCHANGED <<status, request, exec, pos, out, saves, cancels, progress, ev,
                 crashes, cache>>

SaveResult(j)  == SaveStarts(j, "finishAudit", "saving")
ResultSaved(j) == SaveEnds(j, "saving", "done")

\* DatabaseError out of an audit or status write: it leaves submit_pipeline, or
\* run_job and execute_submitted_job, where _run_job_background only logs it.
StoreFails(j) ==
  /\ StoreMayFail
  /\ \E p \in StorePoints :
       Move(j, p, IF p \in BeforeRun THEN "refused" ELSE "aborted")

-----------------------------------------------------------------------------
(* cancel_pipeline, one call per job at a time *)

\* A client knows the job id once submit_pipeline answered or the row is there.
Known(j) ==
  \/ row[j] # NoRow
  \/ pc[j] \notin {"idle", "submitAudit", "startedAudit", "submitSave", "refused",
                   "lost"}

\* A job in memory is cancelled if its status allows it.
CancelJob(j) ==
  /\ j \in Cancellable
  /\ cpc[j] = "idle" /\ Known(j)
  /\ status[j] \in CancelFrom
  /\ status' = [status EXCEPT ![j] = "cancelled"]
  /\ cpc' = [cpc EXCEPT ![j] = "cancelAudit"]
  /\ UNCHANGED <<request, exec, pos, out, pc, saves, csnap, progress, world, cache>>

\* A job that is not in memory is put there from its row first, and stays
\* there when the row's status does not allow the cancel.
CancelHydrated(j) ==
  /\ j \in Cancellable
  /\ cpc[j] = "idle"
  /\ status[j] = "none" /\ row[j] # NoRow
  /\ exec' = [exec EXCEPT ![j] = row[j].exec]
  /\ IF row[j].status \in CancelFrom
       THEN /\ status' = [status EXCEPT ![j] = "cancelled"]
            /\ cpc' = [cpc EXCEPT ![j] = "cancelAudit"]
       ELSE /\ status' = [status EXCEPT ![j] = row[j].status]
            /\ UNCHANGED cpc
  /\ UNCHANGED <<request, pos, out, pc, saves, csnap, progress, world, cache>>

\* The PIPELINE_JOB_CANCELLED entry is written, and the row to save is built
\* from the job as it is by now; or the audit write raises.
CancelAudited(j) ==
  /\ cpc[j] = "cancelAudit"
  /\ \/ /\ csnap' = [csnap EXCEPT ![j] = Snapshot(j)]
        /\ cpc' = [cpc EXCEPT ![j] = "cancelSave"]
     \/ /\ StoreMayFail
        /\ cpc' = [cpc EXCEPT ![j] = "idle"]
        /\ UNCHANGED csnap
  /\ UNCHANGED <<status, request, exec, pos, out, pc, saves, progress, world, cache>>

CancelReturns(j) ==
  /\ cpc[j] = "cancelSave"
  /\ \/ row' = [row EXCEPT ![j] = csnap[j]]
     \/ SaveMayFail /\ UNCHANGED row
  /\ csnap' = [csnap EXCEPT ![j] = NoRow]
  /\ cpc' = [cpc EXCEPT ![j] = "idle"]
  /\ UNCHANGED <<status, request, exec, pos, out, pc, snap, progress, world, cache>>

-----------------------------------------------------------------------------
(* The environment *)

\* Quarantine and revalidation from the evidence routes, reduced to the two
\* statuses the pipeline tells apart.
EvidenceDesk(e) ==
  /\ \E s \in {"validated", "quarantined"} : ev' = [ev EXCEPT ![e] = s]
  /\ UNCHANGED <<status, request, exec, pos, out, pc, saves, cancels, progress,
                 analysed, crashes, cache>>

\* The process dies and is started again: memory is gone, the tables stay.
\* Nothing in the code looks at unfinished rows when it starts.
Crash ==
  /\ crashes < MaxCrashes
  /\ crashes' = crashes + 1
  /\ status' = [j \in Jobs |-> "none"]
  /\ exec' = [j \in Jobs |-> NoExec]
  /\ pos' = [j \in Jobs |-> 0]
  /\ out' = [j \in Jobs |-> {}]
  /\ pc' = [j \in Jobs |-> IF pc[j] = "idle" THEN "idle" ELSE "lost"]
  /\ snap' = [j \in Jobs |-> NoRow]
  /\ cpc' = [j \in Jobs |-> "idle"]
  /\ csnap' = [j \in Jobs |-> NoRow]
  /\ progress' = [j \in Jobs |-> NoProgress]
  /\ cache' = {}
  /\ UNCHANGED <<request, row, ev, analysed>>

-----------------------------------------------------------------------------
Submission(j) == \E e \in Evidence, m \in Modes : Submit(j, e, m)

RunStep(j) ==
  \/ OpenContext(j) \/ SaveQueued(j) \/ SubmitReturns(j) \/ StartJob(j)
  \/ StopCancelled(j) \/ EnterStage(j) \/ RefuseStage(j) \/ CompleteJob(j)
  \/ StageWorks(j) \/ AllParsersFail(j) \/ AcquireRead(j) \/ AcquireShared(j)
  \/ AcquireWrite(j) \/ AcquireDone(j) \/ StageFails(j) \/ StageReturns(j)
  \/ FailReturns(j) \/ CompleteReturns(j) \/ FinaliseRead(j) \/ FinaliseWrite(j)
  \/ FinaliseAudited(j) \/ RecordAnalysed(j) \/ SaveResult(j) \/ ResultSaved(j)
  \/ StoreFails(j)

CancelStep(j) == CancelAudited(j) \/ CancelReturns(j)

Next ==
  \/ \E j \in Jobs : Submission(j) \/ RunStep(j) \/ CancelJob(j)
                     \/ CancelHydrated(j) \/ CancelStep(j)
  \/ \E e \in Evidence : EvidenceDesk(e)
  \/ Crash

Spec == Init /\ [][Next]_vars

\* The event loop runs every ready coroutine again, and stage bodies, audit
\* writes and saves end one way or the other; users and crashes owe nothing.
Fairness == \A j \in Jobs : WF_vars(RunStep(j)) /\ WF_vars(CancelStep(j))

FairSpec == Spec /\ Fairness

-----------------------------------------------------------------------------
(* Properties *)

RowType == [status : JobStatuses \cup {"none"}, exec : [Stages -> ExecStatuses]]

\* Every variable holds a value of its kind; progress counts no more stages
\* than the job has.
TypeOK ==
  /\ status \in [Jobs -> JobStatuses \cup {"none"}]
  /\ mode \in [Jobs -> Modes]
  /\ target \in [Jobs -> Evidence]
  /\ exec \in [Jobs -> [Stages -> ExecStatuses]]
  /\ pos \in [Jobs -> Nat]
  /\ out \in [Jobs -> SUBSET Outputs]
  /\ pc \in [Jobs -> PCs]
  /\ snap \in [Jobs -> RowType]
  /\ row \in [Jobs -> RowType]
  /\ cpc \in [Jobs -> {"idle", "cancelAudit", "cancelSave"}]
  /\ csnap \in [Jobs -> RowType]
  /\ progress \in [Jobs -> [status : {"none", "initialising", "running",
                                     "stage_complete", "completed"},
                           done : Nat]]
  /\ ev \in [Evidence -> EvidenceStatuses]
  /\ analysed \in [Jobs -> Nat]
  /\ cache \subseteq Evidence
  /\ crashes \in 0..MaxCrashes

\* run_job is a strict pipeline: all stages before the one it is at COMPLETED,
\* none after it has been touched, whatever cancels and failures interleave.
StagesInOrder ==
  \A j \in Jobs : pc[j] # "lost" =>
    /\ pos[j] <= Total(j)
    /\ \A i \in 1..Total(j) :
         /\ i < pos[j] => exec[j][Plan(j)[i]] = "completed"
         /\ i > pos[j] => exec[j][Plan(j)[i]] = "none"

\* A stage is recorded RUNNING exactly while its handler is being executed: no
\* failure, cancel or lost audit write leaves one RUNNING behind.
RunningIsCurrent ==
  \A j \in Jobs : pc[j] # "lost" =>
    \A s \in Stages : exec[j][s] = "running" <=> (pc[j] \in InStage /\ s = Cur(j))

AllStagesDone(j, e) == \A i \in 1..Total(j) : e[Plan(j)[i]] = "completed"

\* A job is COMPLETED, in memory or in its row, only if every stage of its
\* mode is; a row never mixes a COMPLETED job with an unfinished stage.
CompletedIsEarned ==
  \A j \in Jobs :
    /\ status[j] = "completed" => AllStagesDone(j, exec[j])
    /\ row[j].status = "completed" => AllStagesDone(j, row[j].exec)

\* The inductive strengthening of StagesInOrder, CompletedIsEarned and
\* VerdictIsFinal: where the loop stands for each await, that a job with a
\* verdict is out of the loop, and that no status, row or pending row says
\* COMPLETED of a job with an unfinished stage.
Untouched == {"idle", "submitAudit", "startedAudit", "submitSave", "submitted",
              "startAudit", "refused"}
LoopPosition(j) ==
  /\ pos[j] <= Total(j)
  /\ pc[j] \in Untouched => pos[j] = 0 /\ exec[j] = NoExec
  /\ pc[j] = "idle" => /\ row[j] = NoRow /\ snap[j] = NoRow /\ csnap[j] = NoRow
                       /\ cpc[j] = "idle"
  /\ pc[j] = "idle" <=> status[j] = "none"
  /\ pc[j] \in InStage \cup {"stageAudit"} => pos[j] > 0
  /\ pc[j] = "stageAudit" => exec[j][Cur(j)] = "completed"
  /\ \A i \in 1..Total(j) : /\ i < pos[j] => exec[j][Plan(j)[i]] = "completed"
                            /\ i > pos[j] => exec[j][Plan(j)[i]] = "none"
Earned(j, r) == r.status = "completed" => AllStagesDone(j, r.exec)
JobInv(j) ==
  /\ pc[j] # "lost" => LoopPosition(j)
  /\ status[j] \in {"completed", "failed"} =>
       pc[j] \notin Untouched \cup AtLoopHead \cup InStage
  /\ Earned(j, Snapshot(j)) /\ Earned(j, row[j])
  /\ Earned(j, snap[j]) /\ Earned(j, csnap[j])
RunnerInv == \A j \in Jobs : JobInv(j)

\* When nobody cancels a job and saves succeed, the row of a job that has run
\* to its end is the job itself, with a terminal status.
ResultRowCurrent ==
  \A j \in Jobs \ Cancellable :
    (~SaveMayFail /\ pc[j] = "done") =>
      row[j] = Snapshot(j) /\ row[j].status \in Terminal

\* The only cancel that takes effect is one that arrives before the first
\* stage: a job that ended CANCELLED has not run any part of any stage.
CancelledMeansUntouched ==
  \A j \in Jobs : (pc[j] = "done" /\ status[j] = "cancelled") => exec[j] = NoExec

Completed(j) == Cardinality({s \in Stages : exec[j][s] = "completed"})

\* The progress counter equals the completed stages, or is one ahead while the
\* runner has not recorded the stage yet, or for good when that stage failed
\* after it had reported itself complete.
ProgressTracksStages ==
  \A j \in Jobs : pc[j] # "lost" =>
    progress[j].done - Completed(j) \in
      IF pc[j] \in {"stageDone", "stageFailing"} THEN {1}
      ELSE IF status[j] = "failed" THEN {0, 1} ELSE {0}

\* What a client can see of a running job is where it is: in its stage records
\* and in its progress.
RecordsAgree == RunningIsCurrent /\ ProgressTracksStages

\* An ANALYSED custody record names a job at most once, and only one that went
\* through all its stages.
AnalysedIsEarned ==
  \A j \in Jobs :
    /\ analysed[j] <= 1
    /\ analysed[j] = 1 /\ pc[j] # "lost" => status[j] = "completed"

\* Evidence is PROCESSED only because some job on it completed.
ProcessedIsEarned ==
  \A e \in Evidence : ev[e] = "processed" =>
    \E j \in Jobs : target[j] = e /\ (status[j] = "completed" \/ pc[j] = "lost")

\* What a job leaves on its evidence is what it earned: the custody record and
\* the status.
EvidenceIsEarned == AnalysedIsEarned /\ ProcessedIsEarned

\* Without write failures the artefacts a triage-only job starts from were
\* parsed from the same evidence by another job of this process.
TriageArtefactsHaveSource ==
  \A j \in Jobs :
    (mode[j] = "triage-only" /\ out[j] # {} /\ ~StoreMayFail) =>
      \E k \in Jobs : target[k] = target[j] /\ exec[k]["parsing"] = "completed"

\* COMPLETED and FAILED are final for as long as the process lives.
VerdictIsFinal ==
  [][\A j \in Jobs : status[j] \in {"completed", "failed"} /\ crashes' = crashes
       => status'[j] = status[j]]_vars

\* A job whose submission was answered stops running, and with a terminal status
\* unless a write that raises or the death of the process ends it.
VerdictReached ==
  \A j \in Jobs : pc[j] = "submitted" ~>
    (pc[j] \in {"aborted", "lost"} \/ (pc[j] = "done" /\ status[j] \in Terminal))

\* Every run is a run of the abstract job: stages one after the other, then one
\* verdict, which is COMPLETED only with all of them worked off.
Verdict(j) ==
  CASE pc[j] = "idle" -> "none"
    [] pc[j] = "lost" -> "lost"
    [] pc[j] \notin {"idle", "lost"} /\ status[j] \in {"completed", "failed"}
         -> status[j]
    [] status[j] = "cancelled" /\ pc[j] \in {"saving", "done"}
         -> "stopped"
    [] pc[j] \in {"refused", "aborted"}
         /\ status[j] \notin {"completed", "failed"} -> "abandoned"
    [] OTHER -> "pending"

Outcome == INSTANCE JobOutcome WITH
  MaxStages <- Cardinality(Stages),
  total   <- [j \in Jobs |-> IF pc[j] = "idle" THEN 0 ELSE Total(j)],
  done    <- [j \in Jobs |-> IF pc[j] = "lost" THEN 0 ELSE Completed(j)],
  verdict <- [j \in Jobs |-> Verdict(j)]

ImplementsOutcome == Outcome!Spec

-----------------------------------------------------------------------------
(* What documents, comments and tests promise and the code does not keep *)

\* job_manager.py cancel_job: "Updated job with CANCELLED status". A job that
\* was cancelled stays cancelled while the process lives.
CancelSticks ==
  [][\A j \in Jobs : status[j] = "cancelled" /\ crashes' = crashes
       => status'[j] = "cancelled"]_vars
==============================================================================
