------------------------- MODULE PipelineJobsProofs --------------------------
(***************************************************************************)
(* Proofs about PipelineJobs for every set of jobs, evidence items, modes  *)
(* and stage lists. IInv is inductive: the type invariant alone is not,    *)
(* because the stage a handler works on, Cur(j), is a stage only while the *)
(* loop's position is inside the plan, and that needs RunnerInv.           *)
(***************************************************************************)
EXTENDS PipelineJobs, FiniteSetTheorems, TLAPS

IInv == TypeOK /\ RunnerInv

\* A plan is a list of stages, and names a stage once.
LEMMA StageListFacts ==
  ASSUME NEW m \in Modes
  PROVE  /\ StagesOf[m] \in Seq(Stages)
         /\ Len(StagesOf[m]) \in Nat
         /\ \A i \in 1..Len(StagesOf[m]) : StagesOf[m][i] \in Stages
         /\ \A a, b \in 1..Len(StagesOf[m]) : StagesOf[m][a] = StagesOf[m][b] => a = b
  BY StagesAssumption

LEMMA PlanFacts ==
  ASSUME TypeOK, NEW j \in Jobs
  PROVE  /\ Plan(j) \in Seq(Stages)
         /\ Total(j) \in Nat
         /\ \A i \in 1..Total(j) : Plan(j)[i] \in Stages
         /\ \A a, b \in 1..Total(j) : Plan(j)[a] = Plan(j)[b] => a = b
  BY StageListFacts DEF TypeOK, Plan, Total

\* The initial states satisfy the type invariant.
LEMMA InitTypeOK == Init => TypeOK
  BY BoundsAssumption DEF Init, TypeOK, NoExec, NoRow, NoProgress, RowType, ExecStatuses,
     JobStatuses, PCs, EvidenceStatuses, Outputs

\* The initial states satisfy the inductive invariant.
LEMMA InitIInv == Init => IInv
<1> SUFFICES ASSUME Init PROVE IInv
  OBVIOUS
<1>1. TypeOK
  BY InitTypeOK
<1>2. ASSUME NEW j \in Jobs PROVE JobInv(j)
  <2>1. Total(j) \in Nat /\ \A i \in 1..Total(j) : Plan(j)[i] \in Stages
    BY <1>1, PlanFacts
  <2>2. /\ pos[j] = 0 /\ exec[j] = NoExec /\ pc[j] = "idle" /\ status[j] = "none"
        /\ row[j] = NoRow /\ snap[j] = NoRow /\ csnap[j] = NoRow /\ cpc[j] = "idle"
    BY DEF Init
  <2>3. \A i \in 1..Total(j) : exec[j][Plan(j)[i]] = "none"
    BY <2>1, <2>2 DEF NoExec
  <2>4. LoopPosition(j)
    BY <2>1, <2>2, <2>3 DEF LoopPosition, InStage
  <2>5. Earned(j, Snapshot(j)) /\ Earned(j, row[j]) /\ Earned(j, snap[j])
        /\ Earned(j, csnap[j])
    BY <2>2 DEF Earned, Snapshot, NoRow
  <2> QED
    BY <2>2, <2>4, <2>5 DEF JobInv
<1> QED
  BY <1>1, <1>2 DEF IInv, RunnerInv

\* A step that leaves everything of a job alone preserves the job's invariant.
LEMMA OthersKeep ==
  ASSUME NEW k \in Jobs, JobInv(k),
         status'[k] = status[k], mode'[k] = mode[k], exec'[k] = exec[k],
         pos'[k] = pos[k], pc'[k] = pc[k], snap'[k] = snap[k], row'[k] = row[k],
         cpc'[k] = cpc[k], csnap'[k] = csnap[k]
  PROVE  JobInv(k)'
<1>1. Plan(k)' = Plan(k) /\ Total(k)' = Total(k) /\ Cur(k)' = Cur(k)
  BY DEF Plan, Total, Cur
<1>2. LoopPosition(k)' = LoopPosition(k)
  BY <1>1 DEF LoopPosition
<1> QED
  BY <1>1, <1>2 DEF JobInv, Earned, Snapshot, AllStagesDone

-----------------------------------------------------------------------------
(* Type correctness, one step per action. *)

\* The stage a handler works on, and the one the loop enters next, are stages.
LEMMA CurrentIsStage ==
  ASSUME IInv, NEW j \in Jobs, pc[j] \in InStage
  PROVE  Cur(j) \in Stages /\ pos[j] \in 1..Total(j)
<1>1. LoopPosition(j)
  BY DEF IInv, RunnerInv, JobInv, InStage
<1>2. pos[j] \in 1..Total(j)
  BY <1>1, PlanFacts DEF LoopPosition, IInv, TypeOK
<1> QED
  BY <1>2, PlanFacts DEF Cur, IInv

LEMMA FollowingIsStage ==
  ASSUME TypeOK, NEW j \in Jobs, MoreStages(j)
  PROVE  Following(j) \in Stages /\ pos[j] + 1 \in 1..Total(j)
<1>1. pos[j] + 1 \in 1..Total(j)
  BY PlanFacts DEF MoreStages, TypeOK
<1> QED
  BY <1>1, PlanFacts DEF Following

\* The steps that only move to another await keep the types.
LEMMA MoveTypeOK ==
  ASSUME TypeOK, NEW j \in Jobs, NEW from, NEW to \in PCs, Move(j, from, to)
  PROVE  TypeOK'
  BY DEF Move, Goto, TypeOK, request, saves, cancels, world

LEMMA SubmissionTypeOK ==
  ASSUME TypeOK, NEW j \in Jobs, Submission(j) \/ OpenContext(j) \/ StartJob(j)
  PROVE  TypeOK'
<1>1. CASE Submission(j)
  BY <1>1 DEF Submission, Submit, Goto, TypeOK, saves, cancels, world, JobStatuses, PCs,
     BeforeRun
<1>2. CASE OpenContext(j)
  BY <1>2 DEF OpenContext, Goto, TypeOK, request, saves, cancels, world, PCs, BeforeRun,
     Outputs
<1>3. CASE StartJob(j)
  BY <1>3 DEF StartJob, Goto, TypeOK, request, saves, cancels, world, PCs, AtLoopHead,
     JobStatuses
<1> QED
  BY <1>1, <1>2, <1>3

LEMMA SaveTypeOK ==
  ASSUME TypeOK, NEW j \in Jobs,
         SaveQueued(j) \/ SubmitReturns(j) \/ SaveResult(j) \/ ResultSaved(j)
  PROVE  TypeOK'
<1>1. Snapshot(j) \in RowType /\ NoRow \in RowType /\ snap[j] \in RowType
  BY DEF TypeOK, Snapshot, RowType, NoRow, NoExec, ExecStatuses
<1>2. ASSUME NEW from, NEW saving \in PCs, SaveStarts(j, from, saving) PROVE TypeOK'
  BY <1>1, <1>2 DEF SaveStarts, Goto, TypeOK, request, cancels, world
<1>3. ASSUME NEW saving, NEW next \in PCs, SaveEnds(j, saving, next) PROVE TypeOK'
  BY <1>1, <1>3 DEF SaveEnds, Goto, TypeOK, request, cancels, world
<1>4. {"submitSave", "submitted", "saving", "done"} \subseteq PCs
  BY DEF PCs, BeforeRun, AfterRun
<1> QED
  BY <1>2, <1>3, <1>4 DEF SaveQueued, SubmitReturns, SaveResult, ResultSaved

LEMMA LoopTypeOK ==
  ASSUME TypeOK, NEW j \in Jobs,
         EnterStage(j) \/ RefuseStage(j) \/ CompleteJob(j)
  PROVE  TypeOK'
<1>1. CASE EnterStage(j)
  <2>1. Following(j) \in Stages
    BY <1>1, FollowingIsStage DEF EnterStage
  <2>2. exec' \in [Jobs -> [Stages -> ExecStatuses]]
    BY <1>1, <2>1 DEF EnterStage, TypeOK, ExecStatuses
  <2>3. progress' \in [Jobs -> [status : {"none", "initialising", "running",
                                         "stage_complete", "completed"},
                                done : Nat]]
    BY <1>1 DEF EnterStage, TypeOK
  <2> QED
    BY <1>1, <2>2, <2>3 DEF EnterStage, Goto, TypeOK, request, saves, cancels, world, PCs,
       InStage, JobStatuses
<1>2. CASE RefuseStage(j)
  <2>1. Following(j) \in Stages
    BY <1>2, FollowingIsStage DEF RefuseStage
  <2>2. exec' \in [Jobs -> [Stages -> ExecStatuses]]
    BY <1>2, <2>1 DEF RefuseStage, Refusal, TypeOK, ExecStatuses
  <2> QED
    BY <1>2, <2>2 DEF RefuseStage, Refusal, Goto, TypeOK, request, saves, cancels, world,
       PCs, AfterRun, JobStatuses
<1>3. CASE CompleteJob(j)
  BY <1>3 DEF CompleteJob, Goto, TypeOK, request, saves, cancels, world, PCs, AfterRun,
     JobStatuses
<1> QED
  BY <1>1, <1>2, <1>3

LEMMA RunReturnsTypeOK ==
  ASSUME TypeOK, NEW j \in Jobs,
         StopCancelled(j) \/ FailReturns(j) \/ CompleteReturns(j)
  PROVE  TypeOK'
<1>1. ASSUME NEW from, NEW next \in PCs, RunReturns(j, from, next) PROVE TypeOK'
  BY <1>1 DEF RunReturns, CacheKey, Goto, TypeOK, request, saves, cancels, world
<1>2. {"finishAudit", "finalise"} \subseteq PCs
  BY DEF PCs, AfterRun
<1> QED
  BY <1>1, <1>2 DEF StopCancelled, FailReturns, CompleteReturns

LEMMA StageEndsTypeOK ==
  ASSUME IInv, NEW j \in Jobs, StageFails(j) \/ StageReturns(j)
  PROVE  TypeOK'
<1>1. pc[j] \in InStage
  BY DEF StageFails, StageReturns, InStage
<1>2. Cur(j) \in Stages
  BY <1>1, CurrentIsStage
<1>3. ASSUME NEW e \in ExecStatuses, NEW s \in JobStatuses, NEW next \in PCs,
             StageEnds(j, e, s, next)
      PROVE  TypeOK'
  BY <1>2, <1>3 DEF StageEnds, Goto, IInv, TypeOK, request, saves, cancels, world
<1>4. /\ {"failed", "completed"} \subseteq ExecStatuses
      /\ {"failed", "stage_complete"} \subseteq JobStatuses
      /\ {"failAudit", "stageAudit"} \subseteq PCs
  BY DEF ExecStatuses, JobStatuses, PCs, AfterRun, AtLoopHead
<1> QED
  BY <1>3, <1>4 DEF StageFails, FailStage, StageReturns

\* A handler's steps while its stage is being executed.
LEMMA HandlerTypeOK ==
  ASSUME IInv, NEW j \in Jobs,
         StageWorks(j) \/ AllParsersFail(j) \/ AcquireRead(j) \/ AcquireShared(j)
           \/ AcquireWrite(j) \/ AcquireDone(j)
  PROVE  TypeOK'
<1> USE DEF IInv
<1>1. pc[j] \in InStage \cup {"acqWrite"} /\ Cur(j) \in Stages
  <2>1. pc[j] \in InStage
    BY DEF StageWorks, AllParsersFail, AcquireRead, AcquireShared, AcquireWrite,
       WriteEvidence, AcquireDone, InStage
  <2> QED
    BY <2>1, CurrentIsStage
<1>2. ASSUME ProgressComplete(j)
      PROVE  progress' \in [Jobs -> [status : {"none", "initialising", "running",
                                               "stage_complete", "completed"},
                                     done : Nat]]
  <2>1. Total(j) \in Nat
    BY PlanFacts
  <2>2. progress[j].done \in Nat
    BY DEF TypeOK
  <2> QED
    BY <1>2, <2>1, <2>2 DEF ProgressComplete, TypeOK
<1>3. {"acqWrite", "acqAudit", "acqRecheck", "stageFailing", "stageDone"} \subseteq PCs
  BY DEF PCs, InStage
<1>4. ASSUME Deliver(j) PROVE TypeOK'
  <2>1. Yields[Cur(j)] \subseteq Outputs
    BY <1>1 DEF Yields, Outputs, Stages
  <2>2. progress' \in [Jobs -> [status : {"none", "initialising", "running",
                                         "stage_complete", "completed"},
                                done : Nat]]
    BY <1>4, <1>2 DEF Deliver
  <2> QED
    BY <1>3, <1>4, <2>1, <2>2 DEF Deliver, Goto, TypeOK, request, saves, cancels, world
<1>5. CASE AllParsersFail(j)
  <2>1. ProgressComplete(j)
    BY <1>5 DEF AllParsersFail
  <2> QED
    BY <1>2, <1>3, <1>5, <2>1 DEF AllParsersFail, Goto, TypeOK, request, saves, cancels,
       world
<1>6. CASE AcquireRead(j)
  BY <1>3, <1>6, MoveTypeOK DEF AcquireRead
<1>7. CASE AcquireWrite(j)
  BY <1>3, <1>7 DEF AcquireWrite, WriteEvidence, Goto, TypeOK, request, saves, cancels,
     EvidenceStatuses
<1> QED
  BY <1>4, <1>5, <1>6, <1>7 DEF StageWorks, AcquireShared, AcquireDone

LEMMA FinaliseTypeOK ==
  ASSUME TypeOK, NEW j \in Jobs,
         FinaliseRead(j) \/ FinaliseWrite(j) \/ FinaliseAudited(j)
           \/ RecordAnalysed(j) \/ StoreFails(j)
  PROVE  TypeOK'
<1>1. {"finaliseWrite", "finaliseAudit", "analysis", "finishAudit", "refused",
       "aborted"} \subseteq PCs
  BY DEF PCs, AfterRun, Ended
<1>2. CASE FinaliseRead(j)
  BY <1>1, <1>2, MoveTypeOK DEF FinaliseRead
<1>3. CASE FinaliseWrite(j)
  BY <1>1, <1>3 DEF FinaliseWrite, WriteEvidence, Goto, TypeOK, request, saves, cancels,
     EvidenceStatuses
<1>4. CASE FinaliseAudited(j)
  BY <1>1, <1>4, MoveTypeOK DEF FinaliseAudited
<1>5. CASE RecordAnalysed(j)
  BY <1>1, <1>5 DEF RecordAnalysed, Goto, TypeOK, request, saves, cancels
<1>6. CASE StoreFails(j)
  BY <1>1, <1>6, MoveTypeOK DEF StoreFails
<1> QED
  BY <1>2, <1>3, <1>4, <1>5, <1>6

LEMMA CancelTypeOK ==
  ASSUME TypeOK, NEW j \in Jobs, CancelJob(j) \/ CancelHydrated(j) \/ CancelStep(j)
  PROVE  TypeOK'
<1>1. /\ Snapshot(j) \in RowType /\ NoRow \in RowType
      /\ row[j] \in RowType /\ csnap[j] \in RowType
  BY DEF TypeOK, Snapshot, RowType, NoRow, NoExec, ExecStatuses
<1>2. row[j].status \in JobStatuses \cup {"none"} /\ row[j].exec \in [Stages -> ExecStatuses]
  BY <1>1 DEF RowType
<1>3. CASE CancelJob(j)
  BY <1>3 DEF CancelJob, TypeOK, request, saves, world, JobStatuses
<1>4. CASE CancelHydrated(j)
  <2>1. exec' \in [Jobs -> [Stages -> ExecStatuses]]
    BY <1>2, <1>4 DEF CancelHydrated, TypeOK
  <2>2. /\ status' \in [Jobs -> JobStatuses \cup {"none"}]
        /\ cpc' \in [Jobs -> {"idle", "cancelAudit", "cancelSave"}]
    BY <1>2, <1>4 DEF CancelHydrated, TypeOK, JobStatuses
  <2> QED
    BY <1>4, <2>1, <2>2 DEF CancelHydrated, TypeOK, request, saves, world
<1>5. CASE CancelAudited(j)
  <2>1. \/ csnap' = [csnap EXCEPT ![j] = Snapshot(j)]
        \/ csnap' = csnap
    BY <1>5 DEF CancelAudited
  <2>2. csnap' \in [Jobs -> RowType]
    BY <1>1, <2>1 DEF TypeOK
  <2>3. \E s \in {"cancelSave", "idle"} : cpc' = [cpc EXCEPT ![j] = s]
    BY <1>5 DEF CancelAudited
  <2>4. cpc' \in [Jobs -> {"idle", "cancelAudit", "cancelSave"}]
    BY <2>3 DEF TypeOK
  <2> QED
    BY <1>5, <2>2, <2>4 DEF CancelAudited, TypeOK, request, saves, world
<1>6. CASE CancelReturns(j)
  <2>1. /\ row' \in [Jobs -> RowType] /\ csnap' \in [Jobs -> RowType]
        /\ cpc' \in [Jobs -> {"idle", "cancelAudit", "cancelSave"}]
    BY <1>1, <1>6 DEF CancelReturns, TypeOK
  <2> QED
    BY <1>6, <2>1 DEF CancelReturns, TypeOK, request, world
<1> QED
  BY <1>3, <1>4, <1>5, <1>6 DEF CancelStep

\* Somebody else's change of an evidence status, and a death of the process.
LEMMA WorldTypeOK ==
  ASSUME TypeOK, (\E e \in Evidence : EvidenceDesk(e)) \/ Crash
  PROVE  TypeOK'
<1>1. ASSUME NEW e \in Evidence, EvidenceDesk(e) PROVE TypeOK'
  BY <1>1 DEF EvidenceDesk, TypeOK, request, saves, cancels, EvidenceStatuses
<1>2. CASE Crash
  <2>1. crashes' \in 0..MaxCrashes
    BY <1>2, BoundsAssumption DEF Crash, TypeOK
  <2>2. "idle" \in PCs /\ "lost" \in PCs
    BY DEF PCs, Ended
  <2>3. NoRow \in RowType /\ NoExec \in [Stages -> ExecStatuses]
    BY DEF RowType, NoRow, NoExec, ExecStatuses
  <2> QED
    BY <1>2, <2>1, <2>2, <2>3 DEF Crash, TypeOK, NoProgress, request
<1> QED
  BY <1>1, <1>2

LEMMA NextTypeOK == IInv /\ [Next]_vars => TypeOK'
<1> SUFFICES ASSUME IInv, [Next]_vars PROVE TypeOK'
  OBVIOUS
<1>1. TypeOK
  BY DEF IInv
<1>2. CASE UNCHANGED vars
  BY <1>1, <1>2 DEF TypeOK, vars, request, saves, cancels, world
<1>3. ASSUME NEW j \in Jobs,
             Submission(j) \/ RunStep(j) \/ CancelJob(j) \/ CancelHydrated(j)
               \/ CancelStep(j)
      PROVE  TypeOK'
  BY <1>1, <1>3, SubmissionTypeOK, SaveTypeOK, LoopTypeOK, RunReturnsTypeOK,
     StageEndsTypeOK, HandlerTypeOK, FinaliseTypeOK, CancelTypeOK DEF RunStep
<1>4. CASE (\E e \in Evidence : EvidenceDesk(e)) \/ Crash
  BY <1>1, <1>4, WorldTypeOK
<1> QED
  BY <1>2, <1>3, <1>4 DEF Next

-----------------------------------------------------------------------------
(* The runner's invariant: what a step does to the job it is a step of. *)

\* The state of a job that JobInv speaks of, seen from one job.
Kept(j) == status'[j] = status[j] /\ mode'[j] = mode[j] /\ exec'[j] = exec[j]
           /\ pos'[j] = pos[j]

\* A step from one await to another that changes neither the job's status nor
\* its stages, and writes no other row than the one its save carries.
LEMMA AwaitStep ==
  ASSUME NEW j \in Jobs, JobInv(j), Kept(j),
         csnap'[j] = csnap[j], cpc'[j] = cpc[j],
         row'[j] \in {row[j], snap[j]},
         snap'[j] \in {snap[j], NoRow, Snapshot(j)},
         pc[j] \notin {"idle", "lost"},
         pc'[j] \notin {"idle", "lost"} \cup AtLoopHead,
         pc'[j] \in Untouched => pc[j] \in Untouched,
         pc'[j] \in InStage => pc[j] \in InStage
  PROVE  JobInv(j)'
<1>1. Plan(j)' = Plan(j) /\ Total(j)' = Total(j) /\ Cur(j)' = Cur(j)
  BY DEF Kept, Plan, Total, Cur
<1>2. "stageAudit" \in AtLoopHead
  BY DEF AtLoopHead
<1>3. LoopPosition(j)
  BY DEF JobInv
<1>4. LoopPosition(j)'
  BY <1>1, <1>2, <1>3 DEF LoopPosition, Kept
<1>5. status'[j] \in {"completed", "failed"} =>
        pc'[j] \notin Untouched \cup AtLoopHead \cup InStage
  BY DEF JobInv, Kept
<1>6. Snapshot(j)' = Snapshot(j)
  BY DEF Snapshot, Kept
<1>7. Earned(j, NoRow)
  BY DEF Earned, NoRow
<1>8. Earned(j, Snapshot(j))' /\ Earned(j, row[j])' /\ Earned(j, snap[j])'
      /\ Earned(j, csnap[j])'
  BY <1>1, <1>6, <1>7 DEF JobInv, Earned, AllStagesDone
<1> QED
  BY <1>4, <1>5, <1>8 DEF JobInv

\* The steps of that kind.
AwaitSteps(j) ==
  \/ OpenContext(j) \/ SaveQueued(j) \/ SubmitReturns(j) \/ StopCancelled(j)
  \/ StageWorks(j) \/ AllParsersFail(j) \/ AcquireRead(j) \/ AcquireShared(j)
  \/ AcquireWrite(j) \/ AcquireDone(j) \/ FailReturns(j) \/ CompleteReturns(j)
  \/ FinaliseRead(j) \/ FinaliseWrite(j) \/ FinaliseAudited(j) \/ RecordAnalysed(j)
  \/ SaveResult(j) \/ ResultSaved(j) \/ StoreFails(j)

\* Where those steps lead, job by job.
LEMMA AwaitStepsShape ==
  ASSUME TypeOK, NEW j \in Jobs, AwaitSteps(j)
  PROVE  /\ status' = status /\ mode' = mode /\ exec' = exec /\ pos' = pos
         /\ csnap' = csnap /\ cpc' = cpc
         /\ row' = row \/ row' = [row EXCEPT ![j] = snap[j]]
         /\ \E r \in {snap[j], NoRow, Snapshot(j)} : snap' = [snap EXCEPT ![j] = r]
         /\ pc[j] \notin {"idle", "lost"}
         /\ \E where \in PCs \ ({"idle", "lost"} \cup AtLoopHead) :
              /\ pc' = [pc EXCEPT ![j] = where]
              /\ where \in Untouched => pc[j] \in Untouched
              /\ where \in InStage => pc[j] \in InStage
<1> DEFINE Shape ==
         /\ status' = status /\ mode' = mode /\ exec' = exec /\ pos' = pos
         /\ csnap' = csnap /\ cpc' = cpc
         /\ row' = row \/ row' = [row EXCEPT ![j] = snap[j]]
         /\ \E r \in {snap[j], NoRow, Snapshot(j)} : snap' = [snap EXCEPT ![j] = r]
         Goes(from, where) ==
           /\ pc[j] \in from
           /\ pc' = [pc EXCEPT ![j] = where]
         Lead(where) ==
           /\ where \in PCs \ ({"idle", "lost"} \cup AtLoopHead)
           /\ pc[j] \notin {"idle", "lost"}
           /\ where \in Untouched => pc[j] \in Untouched
           /\ where \in InStage => pc[j] \in InStage
<1> SUFFICES Shape /\ \E where : pc' = [pc EXCEPT ![j] = where] /\ Lead(where)
  OBVIOUS
<1>0. snap = [snap EXCEPT ![j] = snap[j]]
  BY DEF TypeOK
<1> USE DEF PCs, BeforeRun, AfterRun, Ended, AtLoopHead, InStage, Untouched
<1>1. CASE OpenContext(j)
  <2>1. Goes({"submitAudit"}, "startedAudit") /\ Lead("startedAudit")
    BY <1>1 DEF OpenContext, Goto
  <2> QED
    BY <1>0, <1>1, <2>1 DEF OpenContext, request, saves, cancels
<1>2. ASSUME NEW from, NEW saving, SaveStarts(j, from, saving) PROVE Shape
  BY <1>2 DEF SaveStarts, request, cancels
<1>3. ASSUME NEW saving, NEW next, SaveEnds(j, saving, next) PROVE Shape
  BY <1>3 DEF SaveEnds, request, cancels
<1>4. CASE SaveQueued(j)
  <2>1. Goes({"startedAudit"}, "submitSave") /\ Lead("submitSave")
    BY <1>4 DEF SaveQueued, SaveStarts, Goto
  <2> QED
    BY <1>2, <1>4, <2>1 DEF SaveQueued
<1>5. CASE SubmitReturns(j)
  <2>1. Goes({"submitSave"}, "submitted") /\ Lead("submitted")
    BY <1>5 DEF SubmitReturns, SaveEnds, Goto
  <2> QED
    BY <1>3, <1>5, <2>1 DEF SubmitReturns
<1>6. CASE SaveResult(j)
  <2>1. Goes({"finishAudit"}, "saving") /\ Lead("saving")
    BY <1>6 DEF SaveResult, SaveStarts, Goto
  <2> QED
    BY <1>2, <1>6, <2>1 DEF SaveResult
<1>7. CASE ResultSaved(j)
  <2>1. Goes({"saving"}, "done") /\ Lead("done")
    BY <1>7 DEF ResultSaved, SaveEnds, Goto
  <2> QED
    BY <1>3, <1>7, <2>1 DEF ResultSaved
<1>8. ASSUME NEW from, NEW next, RunReturns(j, from, next)
      PROVE  Shape /\ Goes({from}, next)
  BY <1>0, <1>8 DEF RunReturns, Goto, request, saves, cancels
<1>9. CASE StopCancelled(j) \/ FailReturns(j) \/ CompleteReturns(j)
  <2>1. \E from \in AtLoopHead \cup {"failAudit", "completeAudit"},
           next \in {"finishAudit", "finalise"} : RunReturns(j, from, next)
    BY <1>9 DEF StopCancelled, FailReturns, CompleteReturns
  <2>2. PICK from \in AtLoopHead \cup {"failAudit", "completeAudit"},
             next \in {"finishAudit", "finalise"} : RunReturns(j, from, next)
    BY <2>1
  <2>3. Shape /\ Goes({from}, next)
    BY <1>8, <2>2
  <2>4. Lead(next)
    BY <2>2, <2>3
  <2> QED
    BY <2>3, <2>4
<1>10. CASE StageWorks(j) \/ AcquireShared(j) \/ AcquireDone(j)
  <2>1. Deliver(j) /\ pc[j] \in InStage
    BY <1>10 DEF StageWorks, AcquireShared, AcquireDone
  <2>2. Goes(InStage, "stageDone") /\ Lead("stageDone")
    BY <2>1 DEF Deliver, Goto
  <2> QED
    BY <1>0, <2>1, <2>2 DEF Deliver, request, saves, cancels
<1>11. CASE AllParsersFail(j)
  <2>1. Goes(InStage, "stageFailing") /\ Lead("stageFailing")
    BY <1>11 DEF AllParsersFail, Goto
  <2> QED
    BY <1>0, <1>11, <2>1 DEF AllParsersFail, request, saves, cancels
<1>12. ASSUME NEW from, NEW to, Move(j, from, to) PROVE Shape /\ Goes({from}, to)
  BY <1>0, <1>12 DEF Move, Goto, request, saves, cancels
<1>13. ASSUME NEW from, NEW s, NEW next, WriteEvidence(j, from, s, next)
       PROVE  Shape /\ Goes({from}, next)
  BY <1>0, <1>13 DEF WriteEvidence, Goto, request, saves, cancels
<1>14. CASE AcquireRead(j)
  <2>1. PICK to \in {"acqWrite", "acqRecheck"} : Move(j, "executing", to)
    BY <1>14 DEF AcquireRead
  <2>2. Shape /\ Goes({"executing"}, to)
    BY <1>12, <2>1
  <2>3. Lead(to)
    BY <2>1, <2>2
  <2> QED
    BY <2>2, <2>3
<1>15. CASE AcquireWrite(j) \/ FinaliseWrite(j)
  <2>1. \/ Shape /\ Goes({"acqWrite"}, "acqAudit")
        \/ Shape /\ Goes({"finaliseWrite"}, "finaliseAudit")
    BY <1>13, <1>15 DEF AcquireWrite, FinaliseWrite
  <2> QED
    BY <2>1
<1>16. CASE FinaliseRead(j) \/ FinaliseAudited(j)
  <2>1. PICK from \in {"finalise", "finaliseAudit"}, to \in {"finaliseWrite", "analysis"} :
          Move(j, from, to)
    BY <1>16 DEF FinaliseRead, FinaliseAudited
  <2>2. Shape /\ Goes({from}, to)
    BY <1>12, <2>1
  <2>3. Lead(to)
    BY <2>1, <2>2
  <2> QED
    BY <2>2, <2>3
<1>17. CASE RecordAnalysed(j)
  <2>1. Goes({"analysis"}, "finishAudit") /\ Lead("finishAudit")
    BY <1>17 DEF RecordAnalysed, Goto
  <2> QED
    BY <1>0, <1>17, <2>1 DEF RecordAnalysed, request, saves, cancels
<1>18. CASE StoreFails(j)
  <2>1. PICK p \in StorePoints :
          Move(j, p, IF p \in BeforeRun THEN "refused" ELSE "aborted")
    BY <1>18 DEF StoreFails
  <2>2. PICK to \in {"refused", "aborted"} :
          Move(j, p, to) /\ (to = "refused" => p \in {"submitAudit", "startedAudit"})
    BY <2>1 DEF StorePoints
  <2>3. Shape /\ Goes({p}, to)
    BY <1>12, <2>2
  <2>4. Lead(to)
    BY <2>2, <2>3 DEF StorePoints
  <2> QED
    BY <2>3, <2>4
<1> QED
  BY <1>1, <1>4, <1>5, <1>6, <1>7, <1>9, <1>10, <1>11, <1>14, <1>15, <1>16, <1>17, <1>18
     DEF AwaitSteps

LEMMA AwaitStepsInv ==
  ASSUME IInv, NEW j \in Jobs, AwaitSteps(j)
  PROVE  RunnerInv'
<1>1. TypeOK /\ \A k \in Jobs : JobInv(k)
  BY DEF IInv, RunnerInv
<1>2. ASSUME NEW k \in Jobs PROVE JobInv(k)'
  <2>1. CASE k = j
    <3>1. /\ Kept(j) /\ csnap'[j] = csnap[j] /\ cpc'[j] = cpc[j]
          /\ row'[j] \in {row[j], snap[j]}
          /\ snap'[j] \in {snap[j], NoRow, Snapshot(j)}
      BY <1>1, AwaitStepsShape DEF Kept, TypeOK
    <3>2. /\ pc[j] \notin {"idle", "lost"}
          /\ pc'[j] \notin {"idle", "lost"} \cup AtLoopHead
          /\ pc'[j] \in Untouched => pc[j] \in Untouched
          /\ pc'[j] \in InStage => pc[j] \in InStage
      BY <1>1, AwaitStepsShape DEF TypeOK
    <3> QED
      BY <1>1, <2>1, <3>1, <3>2, AwaitStep
  <2>2. CASE k # j
    <3>1. /\ status'[k] = status[k] /\ mode'[k] = mode[k] /\ exec'[k] = exec[k]
          /\ pos'[k] = pos[k] /\ csnap'[k] = csnap[k] /\ cpc'[k] = cpc[k]
      BY <1>1, AwaitStepsShape
    <3>2. row'[k] = row[k]
      BY <1>1, <2>2, AwaitStepsShape DEF TypeOK
    <3>3. snap'[k] = snap[k]
      <4>1. PICK r : snap' = [snap EXCEPT ![j] = r]
        BY <1>1, AwaitStepsShape
      <4> QED
        BY <1>1, <2>2, <4>1 DEF TypeOK
    <3>4. pc'[k] = pc[k]
      <4>1. PICK where : pc' = [pc EXCEPT ![j] = where]
        BY <1>1, AwaitStepsShape
      <4> QED
        BY <1>1, <2>2, <4>1 DEF TypeOK
    <3> QED
      BY <1>1, <3>1, <3>2, <3>3, <3>4, OthersKeep
  <2> QED
    BY <2>1, <2>2
<1> QED
  BY <1>2 DEF RunnerInv

\* A submission starts a job whose stages nobody has touched; RUNNING follows.
LEMMA SubmissionInv ==
  ASSUME IInv, TypeOK', NEW j \in Jobs, Submission(j) \/ StartJob(j)
  PROVE  JobInv(j)'
<1>1. TypeOK /\ JobInv(j)
  BY DEF IInv, RunnerInv
<1>2. CASE Submission(j)
  <2>1. /\ pc[j] = "idle" /\ pc'[j] = "submitAudit" /\ status'[j] = "queued"
        /\ mode'[j] \in Modes
        /\ exec'[j] = exec[j] /\ pos'[j] = pos[j] /\ snap'[j] = snap[j]
        /\ row'[j] = row[j] /\ csnap'[j] = csnap[j]
    BY <1>1, <1>2 DEF Submission, Submit, Goto, saves, cancels, TypeOK
  <2>2. /\ pos[j] = 0 /\ exec[j] = NoExec
        /\ row[j] = NoRow /\ snap[j] = NoRow /\ csnap[j] = NoRow
    BY <1>1, <2>1 DEF JobInv, LoopPosition, Untouched
  <2>3. Total(j)' \in Nat /\ \A i \in 1..Total(j)' : Plan(j)'[i] \in Stages
    BY <2>1, StageListFacts DEF Total, Plan
  <2>4. LoopPosition(j)'
    BY <2>1, <2>2, <2>3 DEF LoopPosition, NoExec, InStage
  <2> QED
    BY <2>1, <2>2, <2>4 DEF JobInv, Earned, Snapshot, NoRow
<1>3. CASE StartJob(j)
  <2>1. /\ pc[j] = "submitted" /\ pc'[j] = "startAudit" /\ status'[j] = "running"
        /\ mode'[j] = mode[j] /\ exec'[j] = exec[j] /\ pos'[j] = pos[j]
        /\ snap'[j] = snap[j] /\ row'[j] = row[j] /\ csnap'[j] = csnap[j]
    BY <1>1, <1>3 DEF StartJob, Goto, request, saves, cancels, TypeOK
  <2>2. Plan(j)' = Plan(j) /\ Total(j)' = Total(j)
    BY <2>1 DEF Plan, Total
  <2>3. LoopPosition(j)'
    BY <1>1, <2>1, <2>2 DEF LoopPosition, JobInv, Untouched, InStage
  <2> QED
    BY <1>1, <2>1, <2>2, <2>3 DEF JobInv, Earned, Snapshot, AllStagesDone
<1> QED
  BY <1>2, <1>3

\* Where the loop stands when it takes its next decision: everything before
\* the next stage is COMPLETED, everything from it on untouched.
LEMMA AtHead ==
  ASSUME IInv, NEW j \in Jobs, pc[j] \in AtLoopHead
  PROVE  /\ pos[j] <= Total(j)
         /\ \A i \in 1..Total(j) :
              /\ i <= pos[j] => exec[j][Plan(j)[i]] = "completed"
              /\ i > pos[j] => exec[j][Plan(j)[i]] = "none"
<1>1. TypeOK /\ JobInv(j)
  BY DEF IInv, RunnerInv
<1>2. LoopPosition(j)
  BY <1>1 DEF JobInv, AtLoopHead
<1>3. pos[j] > 0 => pc[j] = "stageAudit"
  BY <1>1, <1>2 DEF LoopPosition, AtLoopHead, Untouched, TypeOK
<1>4. pos[j] > 0 => exec[j][Plan(j)[pos[j]]] = "completed"
  BY <1>2, <1>3 DEF LoopPosition, Cur
<1>5. pos[j] \in Nat /\ Total(j) \in Nat
  BY <1>1, PlanFacts DEF TypeOK
<1> QED
  BY <1>2, <1>4, <1>5 DEF LoopPosition

\* The loop enters or refuses its next stage, or completes the job.
LEMMA LoopInv ==
  ASSUME IInv, NEW j \in Jobs, EnterStage(j) \/ RefuseStage(j) \/ CompleteJob(j)
  PROVE  JobInv(j)'
<1>1. TypeOK /\ JobInv(j)
  BY DEF IInv, RunnerInv
<1>2. pc[j] \in AtLoopHead
  BY DEF EnterStage, RefuseStage, CompleteJob, MoreStages
<1>3. /\ mode'[j] = mode[j] /\ snap'[j] = snap[j] /\ row'[j] = row[j]
      /\ csnap'[j] = csnap[j]
  BY DEF EnterStage, RefuseStage, CompleteJob, request, saves, cancels
<1>4. Plan(j)' = Plan(j) /\ Total(j)' = Total(j)
  BY <1>3 DEF Plan, Total
<1>5. pos[j] \in Nat /\ Total(j) \in Nat
  BY <1>1, PlanFacts DEF TypeOK
<1>6. Earned(j, row[j])' /\ Earned(j, snap[j])' /\ Earned(j, csnap[j])'
  BY <1>1, <1>3, <1>4 DEF JobInv, Earned, AllStagesDone
<1>7. ASSUME EnterStage(j) \/ RefuseStage(j)
      PROVE  JobInv(j)'
  <2>1. MoreStages(j)
    BY <1>7 DEF EnterStage, RefuseStage
  <2>2. \E e \in {"running", "failed"} : exec' = [exec EXCEPT ![j][Following(j)] = e]
    BY <1>7 DEF EnterStage, RefuseStage, Refusal
  <2>3. pos'[j] = pos[j] + 1
    BY <1>1, <1>7 DEF EnterStage, RefuseStage, TypeOK
  <2>4. \/ pc'[j] = "executing" /\ status'[j] = "running"
        \/ pc'[j] = "failAudit" /\ status'[j] = "failed"
    BY <1>1, <1>7 DEF EnterStage, RefuseStage, Refusal, Goto, TypeOK
  <2>5. \A i \in 1..Total(j) : i # pos[j] + 1 => exec'[j][Plan(j)[i]] = exec[j][Plan(j)[i]]
    <3>1. \A i \in 1..Total(j) : i # pos[j] + 1 => Plan(j)[i] # Following(j)
      BY <1>1, <2>1, FollowingIsStage, PlanFacts DEF Following
    <3>2. \A s \in Stages : s # Following(j) => exec'[j][s] = exec[j][s]
      BY <1>1, <2>2 DEF TypeOK
    <3> QED
      BY <1>1, <3>1, <3>2, PlanFacts
  <2>6. pos'[j] <= Total(j)
    BY <1>1, <1>5, <2>1, <2>3, FollowingIsStage
  <2>7. \A i \in 1..Total(j) : /\ i < pos'[j] => exec'[j][Plan(j)[i]] = "completed"
                               /\ i > pos'[j] => exec'[j][Plan(j)[i]] = "none"
    BY <1>2, <1>5, <2>3, <2>5, AtHead
  <2>8. LoopPosition(j)'
    BY <1>4, <1>5, <2>3, <2>4, <2>6, <2>7 DEF LoopPosition, Untouched, InStage
  <2>9. Earned(j, Snapshot(j))'
    BY <2>4 DEF Earned, Snapshot
  <2> QED
    BY <1>6, <2>4, <2>8, <2>9 DEF JobInv, Untouched, AtLoopHead, InStage
<1>8. CASE CompleteJob(j)
  <2>1. /\ pos'[j] = pos[j] /\ exec'[j] = exec[j] /\ pos[j] = Total(j)
        /\ pc'[j] = "completeAudit" /\ status'[j] = "completed"
    BY <1>1, <1>8 DEF CompleteJob, AllWorked, Goto, TypeOK
  <2>2. \A i \in 1..Total(j) : exec[j][Plan(j)[i]] = "completed"
    BY <1>2, <1>5, <2>1, AtHead
  <2>3. LoopPosition(j)'
    BY <1>4, <1>5, <2>1, <2>2 DEF LoopPosition, Untouched, InStage
  <2>4. Earned(j, Snapshot(j))'
    BY <1>4, <2>1, <2>2 DEF Earned, Snapshot, AllStagesDone
  <2> QED
    BY <1>6, <2>1, <2>3, <2>4 DEF JobInv, Untouched, AtLoopHead, InStage
<1> QED
  BY <1>7, <1>8

\* A handler's result touches the current stage only.
LEMMA StageEndsInv ==
  ASSUME IInv, NEW j \in Jobs, StageFails(j) \/ StageReturns(j)
  PROVE  JobInv(j)'
<1>1. TypeOK /\ JobInv(j)
  BY DEF IInv, RunnerInv
<1>2. pc[j] \in InStage
  BY DEF StageFails, StageReturns, InStage
<1>3. /\ mode'[j] = mode[j] /\ snap'[j] = snap[j] /\ row'[j] = row[j]
      /\ csnap'[j] = csnap[j] /\ pos'[j] = pos[j]
  BY DEF StageFails, FailStage, StageReturns, StageEnds, request, saves, cancels
<1>4. Plan(j)' = Plan(j) /\ Total(j)' = Total(j) /\ Cur(j)' = Cur(j)
  BY <1>3 DEF Plan, Total, Cur
<1>5. pos[j] \in 1..Total(j) /\ Total(j) \in Nat /\ Cur(j) \in Stages
  BY <1>1, <1>2, CurrentIsStage, PlanFacts
<1>6. Earned(j, row[j])' /\ Earned(j, snap[j])' /\ Earned(j, csnap[j])'
  BY <1>1, <1>3, <1>4 DEF JobInv, Earned, AllStagesDone
<1>7. PICK e \in {"failed", "completed"} : exec' = [exec EXCEPT ![j][Cur(j)] = e]
  BY DEF StageFails, FailStage, StageReturns, StageEnds
<1>8. /\ \/ pc'[j] = "failAudit" /\ status'[j] = "failed"
         \/ pc'[j] = "stageAudit" /\ status'[j] = "stage_complete"
      /\ pc'[j] = "stageAudit" => exec'[j][Cur(j)] = "completed"
  BY <1>1, <1>5 DEF StageFails, FailStage, StageReturns, StageEnds, Goto, TypeOK
<1>9. \A i \in 1..Total(j) : i # pos[j] => exec'[j][Plan(j)[i]] = exec[j][Plan(j)[i]]
  <2>1. \A i \in 1..Total(j) : i # pos[j] => Plan(j)[i] # Cur(j)
    BY <1>1, <1>5, PlanFacts DEF Cur
  <2> QED
    BY <1>1, <1>7, <2>1 DEF TypeOK
<1>10. LoopPosition(j)
  BY <1>1, <1>2 DEF JobInv, InStage
<1>11. LoopPosition(j)'
  BY <1>3, <1>4, <1>5, <1>8, <1>9, <1>10 DEF LoopPosition, Untouched, InStage
<1>12. Earned(j, Snapshot(j))'
  BY <1>8 DEF Earned, Snapshot
<1> QED
  BY <1>6, <1>8, <1>11, <1>12 DEF JobInv, Untouched, AtLoopHead, InStage

\* A cancel changes the status, or brings back a job of a dead process.
LEMMA CancelInv ==
  ASSUME IInv, NEW j \in Jobs, CancelJob(j) \/ CancelHydrated(j) \/ CancelStep(j)
  PROVE  JobInv(j)'
<1>1. TypeOK /\ JobInv(j)
  BY DEF IInv, RunnerInv
<1>2. /\ mode'[j] = mode[j] /\ pos'[j] = pos[j] /\ pc'[j] = pc[j] /\ snap'[j] = snap[j]
  BY DEF CancelJob, CancelHydrated, CancelStep, CancelAudited, CancelReturns, request, saves
<1>3. Plan(j)' = Plan(j) /\ Total(j)' = Total(j) /\ Cur(j)' = Cur(j)
  BY <1>2 DEF Plan, Total, Cur
<1>4. pc[j] = "idle" => row[j] = NoRow /\ cpc[j] = "idle" /\ status[j] = "none"
  BY <1>1 DEF JobInv, LoopPosition
<1>5. CASE CancelJob(j)
  <2>1. /\ exec'[j] = exec[j] /\ row'[j] = row[j] /\ csnap'[j] = csnap[j]
        /\ status'[j] = "cancelled" /\ status[j] \in CancelFrom
    BY <1>1, <1>5 DEF CancelJob, saves, TypeOK
  <2>2. pc[j] # "idle"
    BY <1>4, <2>1 DEF CancelFrom
  <2>3. pc[j] # "lost" => LoopPosition(j)'
    BY <1>1, <1>2, <1>3, <2>1, <2>2 DEF JobInv, LoopPosition
  <2> QED
    BY <1>1, <1>2, <1>3, <2>1, <2>3 DEF JobInv, Earned, Snapshot, AllStagesDone
<1>6. CASE CancelHydrated(j)
  <2>1. pc[j] = "lost"
    BY <1>1, <1>4, <1>6 DEF CancelHydrated, JobInv, LoopPosition
  <2>2. /\ exec'[j] = row[j].exec /\ row'[j] = row[j] /\ csnap'[j] = csnap[j]
        /\ status'[j] \in {"cancelled", row[j].status}
    BY <1>1, <1>6 DEF CancelHydrated, saves, TypeOK
  <2>3. Earned(j, Snapshot(j))'
    BY <1>1, <1>3, <2>2 DEF JobInv, Earned, Snapshot, AllStagesDone
  <2>4. pc'[j] \notin Untouched \cup AtLoopHead \cup InStage
    BY <1>2, <2>1 DEF Untouched, AtLoopHead, InStage
  <2> QED
    BY <1>1, <1>2, <1>3, <2>1, <2>2, <2>3, <2>4 DEF JobInv, Earned, AllStagesDone
<1>7. CASE CancelStep(j)
  <2>1. /\ status'[j] = status[j] /\ exec'[j] = exec[j]
        /\ row'[j] \in {row[j], csnap[j]}
        /\ csnap'[j] \in {csnap[j], NoRow, Snapshot(j)}
    BY <1>1, <1>7 DEF CancelStep, CancelAudited, CancelReturns, saves, TypeOK
  <2>2. pc[j] # "idle"
    BY <1>4, <1>7 DEF CancelStep, CancelAudited, CancelReturns
  <2>3. pc[j] # "lost" => LoopPosition(j)'
    BY <1>1, <1>2, <1>3, <2>1, <2>2 DEF JobInv, LoopPosition
  <2>4. Earned(j, NoRow)
    BY DEF Earned, NoRow
  <2>5. Earned(j, Snapshot(j))' /\ Earned(j, row[j])' /\ Earned(j, snap[j])'
        /\ Earned(j, csnap[j])'
    BY <1>1, <1>2, <1>3, <2>1, <2>4 DEF JobInv, Earned, Snapshot, AllStagesDone
  <2> QED
    BY <1>1, <1>2, <2>1, <2>3, <2>5 DEF JobInv
<1> QED
  BY <1>5, <1>6, <1>7

\* The steps of one job leave every other job alone.
LEMMA OneJobSteps ==
  ASSUME IInv, NEW j \in Jobs, NEW k \in Jobs, k # j,
         Submission(j) \/ StartJob(j) \/ EnterStage(j) \/ RefuseStage(j)
           \/ CompleteJob(j) \/ StageFails(j) \/ StageReturns(j)
           \/ CancelJob(j) \/ CancelHydrated(j) \/ CancelStep(j)
  PROVE  JobInv(k)'
<1> DEFINE Keeps == /\ status'[k] = status[k] /\ mode'[k] = mode[k] /\ exec'[k] = exec[k]
                    /\ pos'[k] = pos[k] /\ pc'[k] = pc[k] /\ snap'[k] = snap[k]
                    /\ row'[k] = row[k] /\ cpc'[k] = cpc[k] /\ csnap'[k] = csnap[k]
<1>1. TypeOK /\ JobInv(k)
  BY DEF IInv, RunnerInv
<1> USE <1>1 DEF TypeOK, Goto, request, saves, cancels
<1>2. CASE Submission(j) \/ StartJob(j)
  <2>1. Keeps
    BY <1>2 DEF Submission, Submit, StartJob
  <2> QED
    BY <2>1, OthersKeep
<1>3. CASE EnterStage(j)
  <2>1. Keeps
    BY <1>3 DEF EnterStage
  <2> QED
    BY <2>1, OthersKeep
<1>4. CASE RefuseStage(j) \/ CompleteJob(j)
  <2>1. Keeps
    BY <1>4 DEF RefuseStage, Refusal, CompleteJob
  <2> QED
    BY <2>1, OthersKeep
<1>5. CASE StageFails(j) \/ StageReturns(j)
  <2>1. Keeps
    BY <1>5 DEF StageFails, FailStage, StageReturns, StageEnds
  <2> QED
    BY <2>1, OthersKeep
<1>6. CASE CancelJob(j) \/ CancelHydrated(j)
  <2>1. Keeps
    BY <1>6 DEF CancelJob, CancelHydrated
  <2> QED
    BY <2>1, OthersKeep
<1>7. CASE CancelStep(j)
  <2>1. Keeps
    BY <1>7 DEF CancelStep, CancelAudited, CancelReturns
  <2> QED
    BY <2>1, OthersKeep
<1> QED
  BY <1>2, <1>3, <1>4, <1>5, <1>6, <1>7

\* A death of the process forgets the loop, never what the rows say.
LEMMA CrashInv ==
  ASSUME IInv, Crash
  PROVE  RunnerInv'
<1> SUFFICES ASSUME NEW j \in Jobs PROVE JobInv(j)'
  BY DEF RunnerInv
<1>1. TypeOK /\ JobInv(j)
  BY DEF IInv, RunnerInv
<1>2. /\ status'[j] = "none" /\ exec'[j] = NoExec /\ pos'[j] = 0 /\ snap'[j] = NoRow
      /\ csnap'[j] = NoRow /\ cpc'[j] = "idle" /\ row'[j] = row[j]
      /\ mode'[j] = mode[j]
      /\ pc'[j] = IF pc[j] = "idle" THEN "idle" ELSE "lost"
  BY DEF Crash, request
<1>3. /\ Plan(j)' = Plan(j) /\ Total(j)' = Total(j)
      /\ Total(j) \in Nat /\ \A i \in 1..Total(j) : Plan(j)[i] \in Stages
  BY <1>1, <1>2, PlanFacts DEF Plan, Total
<1>4. CASE pc[j] = "idle"
  <2>1. row[j] = NoRow
    BY <1>1, <1>4 DEF JobInv, LoopPosition
  <2>2. LoopPosition(j)'
    BY <1>2, <1>3, <1>4, <2>1 DEF LoopPosition, NoExec, InStage
  <2> QED
    BY <1>2, <2>1, <2>2 DEF JobInv, Earned, Snapshot, NoRow
<1>5. CASE pc[j] # "idle"
  <2>1. pc'[j] = "lost"
    BY <1>2, <1>5
  <2> QED
    BY <1>1, <1>2, <1>3, <2>1 DEF JobInv, Earned, Snapshot, NoRow, AllStagesDone
<1> QED
  BY <1>4, <1>5

\* The inductive step.
LEMMA NextIInv == IInv /\ [Next]_vars => IInv'
<1> SUFFICES ASSUME IInv, [Next]_vars PROVE IInv'
  OBVIOUS
<1>1. TypeOK' /\ \A k \in Jobs : JobInv(k)
  BY NextTypeOK DEF IInv, RunnerInv
<1>2. CASE UNCHANGED vars
  <2> SUFFICES ASSUME NEW k \in Jobs PROVE JobInv(k)'
    BY <1>1 DEF IInv, RunnerInv
  <2> QED
    BY <1>1, <1>2, OthersKeep DEF vars, request, saves, cancels
<1>3. ASSUME NEW e \in Evidence, EvidenceDesk(e) PROVE IInv'
  <2> SUFFICES ASSUME NEW k \in Jobs PROVE JobInv(k)'
    BY <1>1 DEF IInv, RunnerInv
  <2> QED
    BY <1>1, <1>3, OthersKeep DEF EvidenceDesk, request, saves, cancels
<1>4. CASE Crash
  BY <1>1, <1>4, CrashInv DEF IInv
<1>5. ASSUME NEW j \in Jobs, AwaitSteps(j) PROVE IInv'
  BY <1>1, <1>5, AwaitStepsInv DEF IInv
<1>6. ASSUME NEW j \in Jobs,
             Submission(j) \/ StartJob(j) \/ EnterStage(j) \/ RefuseStage(j)
               \/ CompleteJob(j) \/ StageFails(j) \/ StageReturns(j)
               \/ CancelJob(j) \/ CancelHydrated(j) \/ CancelStep(j)
      PROVE  IInv'
  <2>1. JobInv(j)'
    BY <1>1, <1>6, SubmissionInv, LoopInv, StageEndsInv, CancelInv
  <2>2. \A k \in Jobs : k # j => JobInv(k)'
    BY <1>6, OneJobSteps
  <2> QED
    BY <1>1, <2>1, <2>2 DEF IInv, RunnerInv
<1> QED
  BY <1>2, <1>3, <1>4, <1>5, <1>6 DEF Next, RunStep, AwaitSteps

-----------------------------------------------------------------------------
(* Results *)

\* IInv holds in every reachable state.
THEOREM Invariance == Spec => []IInv
  BY InitIInv, NextIInv, PTL DEF Spec

\* Type correctness: statuses, stage records, rows and pending rows always
\* hold values of their kind, for any number of jobs.
THEOREM TypeCorrect == Spec => []TypeOK
<1>1. IInv => TypeOK
  BY DEF IInv
<1> QED
  BY <1>1, Invariance, PTL

\* Where run_job stands, for any number of jobs and any plan of distinct
\* stages; also what keeps a row from saying COMPLETED too early.
THEOREM RunnerCorrect == Spec => []RunnerInv
<1>1. IInv => RunnerInv
  BY DEF IInv
<1> QED
  BY <1>1, Invariance, PTL

\* run_job is a strict pipeline under every interleaving of jobs, cancels,
\* failing writes and crashes: nothing behind it unfinished, nothing ahead of
\* it touched.
THEOREM OrderCorrect == Spec => []StagesInOrder
<1>1. IInv => StagesInOrder
  BY DEF IInv, RunnerInv, JobInv, LoopPosition, StagesInOrder
<1> QED
  BY <1>1, Invariance, PTL

\* No job is COMPLETED with an unfinished stage, neither in memory nor in its
\* row, whichever of the runner's and the cancel's saves is written last.
THEOREM CompletedEarned == Spec => []CompletedIsEarned
<1>1. IInv => CompletedIsEarned
  BY DEF IInv, RunnerInv, JobInv, Earned, Snapshot, CompletedIsEarned
<1> QED
  BY <1>1, Invariance, PTL

\* COMPLETED and FAILED are final: no cancel, late save or other job's step
\* changes them while the process lives.
THEOREM VerdictFinal == Spec => VerdictIsFinal
<1>1. ASSUME IInv, [Next]_vars, NEW k \in Jobs,
             status[k] \in {"completed", "failed"}, crashes' = crashes
      PROVE  status'[k] = status[k]
  <2>1. TypeOK /\ JobInv(k)
    BY <1>1 DEF IInv, RunnerInv
  <2>2. pc[k] \notin Untouched \cup AtLoopHead \cup InStage
    BY <1>1, <2>1 DEF JobInv
  <2>3. ASSUME NEW j \in Jobs, AwaitSteps(j) PROVE status' = status
    BY <2>1, <2>3, AwaitStepsShape
  <2>4. ASSUME NEW j \in Jobs,
               Submission(j) \/ StartJob(j) \/ EnterStage(j) \/ RefuseStage(j)
                 \/ CompleteJob(j) \/ StageFails(j) \/ StageReturns(j)
        PROVE  status'[k] = status[k]
    <3>1. pc[j] \in Untouched \cup AtLoopHead \cup InStage
      BY <2>4 DEF Submission, Submit, StartJob, EnterStage, RefuseStage, MoreStages,
         CompleteJob, StageFails, StageReturns, Untouched, InStage
    <3>2. k # j
      BY <2>2, <3>1
    <3>3. \E s : status' = [status EXCEPT ![j] = s]
      BY <2>4 DEF Submission, Submit, StartJob, EnterStage, RefuseStage, Refusal,
         CompleteJob, StageFails, FailStage, StageReturns, StageEnds
    <3> QED
      BY <2>1, <3>2, <3>3 DEF TypeOK
  <2>5. ASSUME NEW j \in Jobs, CancelJob(j) \/ CancelHydrated(j) \/ CancelStep(j)
        PROVE  status'[k] = status[k]
    <3>1. \/ status' = status
          \/ status[j] \in {"none", "queued", "running"}
               /\ \E s : status' = [status EXCEPT ![j] = s]
      BY <2>5 DEF CancelJob, CancelHydrated, CancelFrom, CancelStep, CancelAudited,
         CancelReturns
    <3> QED
      BY <1>1, <2>1, <3>1 DEF TypeOK
  <2>6. CASE UNCHANGED vars \/ \E e \in Evidence : EvidenceDesk(e)
    BY <2>6 DEF vars, EvidenceDesk
  <2>7. ~Crash
    BY <1>1, <2>1, BoundsAssumption DEF Crash, TypeOK
  <2> QED
    BY <1>1, <2>3, <2>4, <2>5, <2>6, <2>7 DEF Next, RunStep, AwaitSteps
<1>2. IInv /\ [Next]_vars =>
        [\A j \in Jobs : status[j] \in {"completed", "failed"} /\ crashes' = crashes
           => status'[j] = status[j]]_vars
  BY <1>1
<1> QED
  BY <1>2, Invariance, PTL DEF Spec, VerdictIsFinal

-----------------------------------------------------------------------------
(* What a client, the evidence desk and the custody ledger can see of a job  *)
(* agrees with where its coroutine is: stage records, progress, rows,        *)
(* custody records and evidence statuses, for every set of jobs and plans;   *)
(* and PipelineJobs implements the abstract job of JobOutcome. The step is   *)
(* proved per job: a step of one job leaves the records of others alone.     *)

\* Awaits after the verdict: of a completed job, of any job, and those where
\* an ANALYSED record may be there.
Completing == {"completeAudit", "finalise", "finaliseWrite", "finaliseAudit",
               "analysis"}
Finishing  == {"finishAudit", "saving", "done"}
Late       == Finishing \cup {"aborted"}
\* A handler reported its stage complete and the runner has not recorded it.
Ahead      == {"stageDone", "stageFailing"}

Settled(j) == status[j] \in Terminal /\ (status[j] = "cancelled" => exec[j] = NoExec)
StatusAt(j) ==
  /\ pc[j] = "stageAudit" => status[j] = "stage_complete"
  /\ pc[j] = "failAudit" => status[j] = "failed"
  /\ pc[j] \in Completing => status[j] = "completed"
  /\ pc[j] \in Finishing => Settled(j)
RunningAt(j) ==
  \A s \in Stages : exec[j][s] = "running" <=> (pc[j] \in InStage /\ s = Cur(j))
CountAt(j) ==
  /\ pc[j] \in InStage => Completed(j) + 1 = pos[j]
  /\ pc[j] = "stageAudit" => Completed(j) = pos[j]
  /\ pc[j] \in Ahead => progress[j].done = Completed(j) + 1
  /\ pc[j] \notin Ahead =>
       progress[j].done = Completed(j)
         \/ (status[j] = "failed" /\ progress[j].done = Completed(j) + 1)
AnalysedAt(j) ==
  /\ analysed[j] \in {0, 1}
  /\ analysed[j] = 1 /\ pc[j] # "lost" => pc[j] \in Late /\ status[j] = "completed"

Rec(j) ==
  /\ pc[j] # "lost" => StatusAt(j) /\ RunningAt(j) /\ CountAt(j)
  /\ AnalysedAt(j)
RecInv == IInv /\ \A j \in Jobs : Rec(j)

-----------------------------------------------------------------------------
(* Counting completed stages *)

DoneSet(j) == {s \in Stages : exec[j][s] = "completed"}

LEMMA StagesFinite == IsFiniteSet(Stages)
<1>1. IsFiniteSet({"acquisition"})
  BY FS_Singleton
<1>2. IsFiniteSet({"acquisition"} \cup {"parsing"})
  BY <1>1, FS_AddElement
<1>3. IsFiniteSet(({"acquisition"} \cup {"parsing"}) \cup {"ai_triage"})
  BY <1>2, FS_AddElement
<1>4. IsFiniteSet((({"acquisition"} \cup {"parsing"}) \cup {"ai_triage"}) \cup {"reporting"})
  BY <1>3, FS_AddElement
<1>5. IsFiniteSet(((({"acquisition"} \cup {"parsing"}) \cup {"ai_triage"}) \cup {"reporting"})
                  \cup {"evaluation"})
  BY <1>4, FS_AddElement
<1>6. Stages = (((({"acquisition"} \cup {"parsing"}) \cup {"ai_triage"}) \cup {"reporting"})
                \cup {"evaluation"})
  BY DEF Stages
<1> QED
  BY <1>5, <1>6

LEMMA CountIsNat ==
  ASSUME NEW j \in Jobs
  PROVE  IsFiniteSet(DoneSet(j)) /\ Completed(j) \in Nat /\ Completed(j) = Cardinality(DoneSet(j))
<1>1. IsFiniteSet(DoneSet(j))
  BY StagesFinite, FS_Subset DEF DoneSet
<1>2. Cardinality(DoneSet(j)) \in Nat
  BY <1>1, FS_CardinalityType
<1>3. Completed(j) = Cardinality(DoneSet(j))
  BY DEF Completed, DoneSet
<1> QED
  BY <1>1, <1>2, <1>3

LEMMA NothingDone ==
  ASSUME NEW j \in Jobs, exec[j] = NoExec
  PROVE  Completed(j) = 0
<1>1. DoneSet(j) = {}
  BY DEF DoneSet, NoExec
<1>2. Cardinality({}) = 0
  BY FS_EmptySet
<1> QED
  BY <1>1, <1>2, CountIsNat

\* The same with the count after a step.
LEMMA NothingDoneNext ==
  ASSUME NEW j \in Jobs, exec'[j] = NoExec
  PROVE  Completed(j)' = 0
<1>1. {s \in Stages : exec'[j][s] = "completed"} = {}
  BY DEF NoExec
<1>2. Cardinality({}) = 0
  BY FS_EmptySet
<1>3. Completed(j)' = Cardinality({s \in Stages : exec'[j][s] = "completed"})
  BY DEF Completed
<1> QED
  BY <1>1, <1>2, <1>3

LEMMA SameDone ==
  ASSUME NEW j \in Jobs,
         \A s \in Stages : exec'[j][s] = "completed" <=> exec[j][s] = "completed"
  PROVE  Completed(j)' = Completed(j)
<1>1. {s \in Stages : exec'[j][s] = "completed"} = {s \in Stages : exec[j][s] = "completed"}
  OBVIOUS
<1>2. Completed(j)' = Cardinality({s \in Stages : exec'[j][s] = "completed"})
  BY DEF Completed
<1> QED
  BY <1>1, <1>2 DEF Completed

LEMMA OneMoreDone ==
  ASSUME NEW j \in Jobs, NEW c \in Stages, exec[j][c] # "completed",
         exec'[j][c] = "completed",
         \A s \in Stages : s # c => exec'[j][s] = exec[j][s]
  PROVE  Completed(j)' = Completed(j) + 1
<1>1. {s \in Stages : exec'[j][s] = "completed"} = DoneSet(j) \cup {c}
  BY DEF DoneSet
<1>2. IsFiniteSet(DoneSet(j)) /\ c \notin DoneSet(j)
  BY CountIsNat DEF DoneSet
<1>3. Cardinality(DoneSet(j) \cup {c}) = Cardinality(DoneSet(j)) + 1
  BY <1>2, FS_AddElement
<1>4. Completed(j)' = Cardinality({s \in Stages : exec'[j][s] = "completed"})
  BY DEF Completed
<1> QED
  BY <1>1, <1>3, <1>4, CountIsNat

\* At the head of the loop the completed stages are those the loop has entered.
LEMMA HeadCount ==
  ASSUME RecInv, NEW j \in Jobs, pc[j] \in AtLoopHead
  PROVE  Completed(j) = pos[j] /\ status[j] # "failed" /\ progress[j].done = Completed(j)
<1>1. IInv /\ Rec(j) /\ JobInv(j)
  BY DEF RecInv, IInv, RunnerInv
<1>2. status[j] # "failed"
  BY <1>1 DEF JobInv
<1>3. progress[j].done = Completed(j)
  BY <1>1, <1>2 DEF Rec, CountAt, AtLoopHead, Ahead
<1>4. CASE pc[j] = "stageAudit"
  BY <1>1, <1>2, <1>3, <1>4 DEF Rec, CountAt
<1>5. CASE pc[j] = "startAudit"
  <2>1. pos[j] = 0 /\ exec[j] = NoExec
    BY <1>1, <1>5 DEF JobInv, LoopPosition, Untouched
  <2> QED
    BY <1>2, <1>3, <2>1, NothingDone
<1> QED
  BY <1>4, <1>5 DEF AtLoopHead

\* While a handler is executed its stage is not completed, so one more is due.
LEMMA StageCount ==
  ASSUME RecInv, NEW j \in Jobs, pc[j] \in InStage
  PROVE  /\ Completed(j) \in Nat /\ Total(j) \in Nat /\ Completed(j) < Total(j)
         /\ Cur(j) \in Stages /\ exec[j][Cur(j)] = "running"
         /\ status[j] \notin {"completed", "failed"}
         /\ progress[j].done = Completed(j) + (IF pc[j] \in Ahead THEN 1 ELSE 0)
<1>1. IInv /\ TypeOK /\ Rec(j) /\ JobInv(j)
  BY DEF RecInv, IInv, RunnerInv
<1>2. Cur(j) \in Stages /\ pos[j] \in 1..Total(j) /\ Total(j) \in Nat
  BY <1>1, CurrentIsStage, PlanFacts
<1>3. Completed(j) + 1 = pos[j] /\ Completed(j) \in Nat
  BY <1>1, CountIsNat DEF Rec, CountAt, InStage
<1>4. exec[j][Cur(j)] = "running"
  BY <1>1, <1>2 DEF Rec, RunningAt, InStage
<1>5. status[j] \notin {"completed", "failed"}
  BY <1>1 DEF JobInv
<1>6. progress[j].done = Completed(j) + (IF pc[j] \in Ahead THEN 1 ELSE 0)
  BY <1>1, <1>3, <1>5 DEF Rec, CountAt, InStage
<1> QED
  BY <1>2, <1>3, <1>4, <1>5, <1>6

-----------------------------------------------------------------------------
(* A step of one job and the records of another *)

SameJob(k) ==
  /\ status'[k] = status[k] /\ mode'[k] = mode[k] /\ target'[k] = target[k]
  /\ exec'[k] = exec[k] /\ pos'[k] = pos[k] /\ pc'[k] = pc[k]
  /\ snap'[k] = snap[k] /\ row'[k] = row[k] /\ cpc'[k] = cpc[k]
  /\ progress'[k] = progress[k] /\ analysed'[k] = analysed[k]

LEMMA SameCount ==
  ASSUME NEW k \in Jobs, exec'[k] = exec[k]
  PROVE  Completed(k)' = Completed(k)
BY SameDone

LEMMA SameRec ==
  ASSUME NEW k \in Jobs, Rec(k), SameJob(k)
  PROVE  Rec(k)'
<1>1. Completed(k)' = Completed(k)
  BY SameCount DEF SameJob
<1>2. Cur(k)' = Cur(k)
  BY DEF SameJob, Cur, Plan
<1> QED
  BY <1>1, <1>2 DEF SameJob, Rec, StatusAt, Settled, RunningAt, CountAt, AnalysedAt

LEMMA StepsOfOthers ==
  ASSUME TypeOK, NEW j \in Jobs, NEW k \in Jobs, k # j,
         Submission(j) \/ RunStep(j) \/ CancelJob(j) \/ CancelHydrated(j) \/ CancelStep(j)
  PROVE  SameJob(k)
<1> USE DEF SameJob, TypeOK, Goto, request, saves, cancels, world
<1>1. CASE Submission(j) \/ OpenContext(j) \/ StartJob(j)
  BY <1>1 DEF Submission, Submit, OpenContext, StartJob
<1>2. ASSUME NEW from, NEW saving, SaveStarts(j, from, saving) PROVE SameJob(k)
  BY <1>2 DEF SaveStarts
<1>3. ASSUME NEW saving, NEW next, SaveEnds(j, saving, next) PROVE SameJob(k)
  BY <1>3 DEF SaveEnds
<1>4. ASSUME NEW from, NEW next, RunReturns(j, from, next) PROVE SameJob(k)
  BY <1>4 DEF RunReturns
<1>5. ASSUME NEW from, NEW to, Move(j, from, to) PROVE SameJob(k)
  BY <1>5 DEF Move
<1>6. ASSUME NEW from, NEW s, NEW next, WriteEvidence(j, from, s, next) PROVE SameJob(k)
  BY <1>6 DEF WriteEvidence
<1>7. CASE EnterStage(j)
  BY <1>7 DEF EnterStage
<1>8. CASE RefuseStage(j) \/ CompleteJob(j)
  BY <1>8 DEF RefuseStage, Refusal, CompleteJob
<1>9. ASSUME NEW e, NEW s, NEW next, StageEnds(j, e, s, next) PROVE SameJob(k)
  BY <1>9 DEF StageEnds
<1>10. CASE StageFails(j) \/ StageReturns(j)
  BY <1>9, <1>10 DEF StageFails, FailStage, StageReturns
<1>11. ASSUME Deliver(j) PROVE SameJob(k)
  BY <1>11 DEF Deliver, ProgressComplete
<1>12. CASE AllParsersFail(j)
  BY <1>12 DEF AllParsersFail, ProgressComplete
<1>13. CASE RecordAnalysed(j)
  BY <1>13 DEF RecordAnalysed
<1>14. CASE CancelJob(j) \/ CancelHydrated(j)
  BY <1>14 DEF CancelJob, CancelHydrated
<1>15. CASE CancelAudited(j) \/ CancelReturns(j)
  BY <1>15 DEF CancelAudited, CancelReturns
<1>16. CASE SaveQueued(j) \/ SaveResult(j)
  BY <1>2, <1>16 DEF SaveQueued, SaveResult
<1>17. CASE SubmitReturns(j) \/ ResultSaved(j)
  BY <1>3, <1>17 DEF SubmitReturns, ResultSaved
<1>18. CASE StopCancelled(j) \/ FailReturns(j) \/ CompleteReturns(j)
  BY <1>4, <1>18 DEF StopCancelled, FailReturns, CompleteReturns
<1>19. CASE AcquireRead(j) \/ FinaliseRead(j) \/ FinaliseAudited(j) \/ StoreFails(j)
  BY <1>5, <1>19 DEF AcquireRead, FinaliseRead, FinaliseAudited, StoreFails
<1>20. CASE AcquireWrite(j) \/ FinaliseWrite(j)
  BY <1>6, <1>20 DEF AcquireWrite, FinaliseWrite
<1>21. CASE StageWorks(j) \/ AcquireShared(j) \/ AcquireDone(j)
  BY <1>11, <1>21 DEF StageWorks, AcquireShared, AcquireDone
<1> QED
  BY <1>1, <1>7, <1>8, <1>10, <1>12, <1>13, <1>14, <1>15, <1>16, <1>17, <1>18, <1>19,
     <1>20, <1>21 DEF RunStep, CancelStep

-----------------------------------------------------------------------------
(* A step of a job and its own records *)

\* A step to another await that leaves status, stages and progress alone.
LEMMA HopRec ==
  ASSUME NEW j \in Jobs, Rec(j), pc[j] # "lost",
         status'[j] = status[j], mode'[j] = mode[j], exec'[j] = exec[j],
         pos'[j] = pos[j], progress'[j] = progress[j],
         pc'[j] \notin {"stageAudit", "failAudit", "completeAudit"},
         pc'[j] \in InStage <=> pc[j] \in InStage,
         pc'[j] \in Ahead <=> pc[j] \in Ahead,
         pc'[j] \in Completing => pc[j] \in Completing,
         pc'[j] \in Finishing => Settled(j),
         AnalysedAt(j)'
  PROVE  Rec(j)'
<1>1. Completed(j)' = Completed(j)
  BY SameCount
<1>2. Cur(j)' = Cur(j)
  BY DEF Cur, Plan
<1>3. StatusAt(j)'
  BY DEF Rec, StatusAt, Settled
<1>4. RunningAt(j)'
  BY <1>2 DEF Rec, RunningAt
<1>5. CountAt(j)'
  BY <1>1 DEF Rec, CountAt
<1> QED
  BY <1>3, <1>4, <1>5 DEF Rec

\* The hops: one await to the next.
Hops(j) ==
  \/ SaveQueued(j) \/ SubmitReturns(j) \/ StopCancelled(j) \/ AcquireRead(j)
  \/ AcquireWrite(j) \/ FailReturns(j) \/ CompleteReturns(j) \/ FinaliseRead(j)
  \/ FinaliseWrite(j) \/ FinaliseAudited(j) \/ SaveResult(j) \/ ResultSaved(j)
  \/ StoreFails(j)

Leads(j, from, to) == pc[j] = from /\ pc' = [pc EXCEPT ![j] = to]

\* What a hop keeps, and from where it leads where.
LEMMA HopShape ==
  ASSUME TypeOK, NEW j \in Jobs, Hops(j)
  PROVE  /\ status' = status /\ mode' = mode /\ target' = target /\ exec' = exec
         /\ pos' = pos /\ progress' = progress /\ analysed' = analysed
         /\ \/ Leads(j, "startedAudit", "submitSave") \/ Leads(j, "submitSave", "submitted")
            \/ \E head \in AtLoopHead :
                 Leads(j, head, "finishAudit") /\ status[j] = "cancelled"
            \/ \E to \in {"acqWrite", "acqRecheck"} : Leads(j, "executing", to)
            \/ Leads(j, "acqWrite", "acqAudit") \/ Leads(j, "failAudit", "finishAudit")
            \/ Leads(j, "completeAudit", "finalise")
            \/ \E to \in {"finaliseWrite", "analysis"} : Leads(j, "finalise", to)
            \/ Leads(j, "finaliseWrite", "finaliseAudit")
            \/ Leads(j, "finaliseAudit", "analysis")
            \/ Leads(j, "finishAudit", "saving") \/ Leads(j, "saving", "done")
            \/ \E p \in StorePoints :
                 Leads(j, p, IF p \in BeforeRun THEN "refused" ELSE "aborted")
<1> DEFINE Keeps == /\ status' = status /\ mode' = mode /\ target' = target /\ exec' = exec
                    /\ pos' = pos /\ progress' = progress /\ analysed' = analysed
<1> USE DEF Leads, Goto, request, saves, cancels, world
<1>1. ASSUME NEW from, NEW saving, SaveStarts(j, from, saving)
      PROVE  Keeps /\ Leads(j, from, saving)
  BY <1>1 DEF SaveStarts
<1>2. ASSUME NEW saving, NEW next, SaveEnds(j, saving, next)
      PROVE  Keeps /\ Leads(j, saving, next)
  BY <1>2 DEF SaveEnds
<1>3. ASSUME NEW from, NEW next, RunReturns(j, from, next)
      PROVE  Keeps /\ Leads(j, from, next)
  BY <1>3 DEF RunReturns
<1>4. ASSUME NEW from, NEW to, Move(j, from, to)
      PROVE  Keeps /\ Leads(j, from, to)
  BY <1>4 DEF Move
<1>5. ASSUME NEW from, NEW s, NEW next, WriteEvidence(j, from, s, next)
      PROVE  Keeps /\ Leads(j, from, next)
  BY <1>5 DEF WriteEvidence
<1> HIDE DEF Leads
<1>6. CASE SaveQueued(j) \/ SaveResult(j)
  BY <1>1, <1>6 DEF SaveQueued, SaveResult
<1>7. CASE SubmitReturns(j) \/ ResultSaved(j)
  BY <1>2, <1>7 DEF SubmitReturns, ResultSaved
<1>8. CASE StopCancelled(j)
  <2>1. PICK head \in AtLoopHead : RunReturns(j, head, "finishAudit")
    BY <1>8 DEF StopCancelled
  <2>2. Keeps /\ Leads(j, head, "finishAudit") /\ status[j] = "cancelled"
    BY <1>3, <1>8, <2>1 DEF StopCancelled
  <2> QED
    BY <2>2
<1>9. CASE FailReturns(j) \/ CompleteReturns(j)
  BY <1>3, <1>9 DEF FailReturns, CompleteReturns
<1>10. CASE AcquireRead(j)
  <2>1. PICK to \in {"acqWrite", "acqRecheck"} : Move(j, "executing", to)
    BY <1>10 DEF AcquireRead
  <2>2. Keeps /\ Leads(j, "executing", to)
    BY <1>4, <2>1
  <2> QED
    BY <2>2
<1>11. CASE FinaliseRead(j)
  <2>1. PICK to \in {"finaliseWrite", "analysis"} : Move(j, "finalise", to)
    BY <1>11 DEF FinaliseRead
  <2>2. Keeps /\ Leads(j, "finalise", to)
    BY <1>4, <2>1
  <2> QED
    BY <2>2
<1>12. CASE FinaliseAudited(j)
  BY <1>4, <1>12 DEF FinaliseAudited
<1>13. CASE AcquireWrite(j) \/ FinaliseWrite(j)
  BY <1>5, <1>13 DEF AcquireWrite, FinaliseWrite
<1>14. CASE StoreFails(j)
  <2>1. PICK p \in StorePoints :
          Move(j, p, IF p \in BeforeRun THEN "refused" ELSE "aborted")
    BY <1>14 DEF StoreFails
  <2>2. Keeps /\ Leads(j, p, IF p \in BeforeRun THEN "refused" ELSE "aborted")
    BY <1>4, <2>1
  <2> QED
    BY <2>2
<1> QED
  BY <1>6, <1>7, <1>8, <1>9, <1>10, <1>11, <1>12, <1>13, <1>14 DEF Hops

\* A job that is found cancelled has not run any part of a stage.
LEMMA CancelledAtHead ==
  ASSUME RecInv, NEW j \in Jobs, pc[j] \in AtLoopHead, status[j] = "cancelled"
  PROVE  Settled(j)
<1>1. Rec(j) /\ JobInv(j)
  BY DEF RecInv, IInv, RunnerInv
<1>2. pc[j] = "startAudit"
  BY <1>1 DEF Rec, StatusAt, AtLoopHead
<1>3. exec[j] = NoExec
  BY <1>1, <1>2 DEF JobInv, LoopPosition, Untouched
<1> QED
  BY <1>3 DEF Settled, Terminal

LEMMA HopsRec ==
  ASSUME RecInv, NEW j \in Jobs, Hops(j)
  PROVE  Rec(j)'
<1>1. TypeOK /\ Rec(j)
  BY DEF RecInv, IInv
<1>2. /\ status' = status /\ mode' = mode /\ exec' = exec
      /\ pos' = pos /\ progress' = progress /\ analysed' = analysed
  BY <1>1, HopShape
<1>3. ASSUME NEW from, NEW to, Leads(j, from, to),
             from # "lost", to \notin {"stageAudit", "failAudit", "completeAudit"},
             to \in InStage <=> from \in InStage,
             to \in Ahead <=> from \in Ahead,
             to \in Completing => from \in Completing,
             to \in Finishing => Settled(j),
             from \in Late => to \in Late
      PROVE  Rec(j)'
  <2>1. pc[j] = from /\ pc'[j] = to
    BY <1>1, <1>3 DEF Leads, TypeOK
  <2>2. AnalysedAt(j)'
    BY <1>1, <1>2, <1>3, <2>1 DEF Rec, AnalysedAt
  <2> QED
    BY <1>1, <1>2, <1>3, <2>1, <2>2, HopRec
<1> USE DEF InStage, Ahead, Completing, Finishing, Late
<1>4. CASE Leads(j, "startedAudit", "submitSave") \/ Leads(j, "submitSave", "submitted")
  BY <1>3, <1>4
<1>5. ASSUME NEW head \in AtLoopHead, Leads(j, head, "finishAudit"), status[j] = "cancelled"
      PROVE  Rec(j)'
  <2>1. Settled(j)
    BY <1>5, CancelledAtHead DEF Leads
  <2> QED
    BY <1>3, <1>5, <2>1 DEF AtLoopHead
<1>6. CASE (\E to \in {"acqWrite", "acqRecheck"} : Leads(j, "executing", to))
             \/ Leads(j, "acqWrite", "acqAudit")
  BY <1>3, <1>6
<1>7. CASE Leads(j, "failAudit", "finishAudit")
  <2>1. Settled(j)
    BY <1>1, <1>7 DEF Leads, Rec, StatusAt, Settled, Terminal
  <2> QED
    BY <1>3, <1>7, <2>1
<1>8. CASE \/ Leads(j, "completeAudit", "finalise")
           \/ \E to \in {"finaliseWrite", "analysis"} : Leads(j, "finalise", to)
           \/ Leads(j, "finaliseWrite", "finaliseAudit")
           \/ Leads(j, "finaliseAudit", "analysis")
  BY <1>3, <1>8
<1>9. CASE Leads(j, "finishAudit", "saving") \/ Leads(j, "saving", "done")
  <2>1. Settled(j)
    BY <1>1, <1>9 DEF Leads, Rec, StatusAt
  <2> QED
    BY <1>3, <1>9, <2>1
<1>10. ASSUME NEW p \in StorePoints,
              Leads(j, p, IF p \in BeforeRun THEN "refused" ELSE "aborted")
       PROVE  Rec(j)'
  <2>1. p \notin {"lost", "saving", "done", "aborted"} \cup InStage
    BY DEF StorePoints
  <2>2. CASE p \in BeforeRun
    BY <1>3, <1>10, <2>1, <2>2 DEF BeforeRun
  <2>3. CASE p \notin BeforeRun
    BY <1>3, <1>10, <2>1, <2>3
  <2> QED
    BY <2>2, <2>3
<1> QED
  BY <1>1, <1>4, <1>5, <1>6, <1>7, <1>8, <1>9, <1>10, HopShape

\* Submission, the context and the start of the task: nothing is recorded yet.
LEMMA EarlyRec ==
  ASSUME RecInv, NEW j \in Jobs, Submission(j) \/ OpenContext(j) \/ StartJob(j)
  PROVE  Rec(j)'
<1>1. TypeOK /\ Rec(j) /\ JobInv(j)
  BY DEF RecInv, IInv, RunnerInv
<1> USE <1>1 DEF TypeOK
<1>2. /\ pc[j] \in {"idle", "submitAudit", "submitted"}
      /\ pc'[j] \in {"submitAudit", "startedAudit", "startAudit"}
      /\ status'[j] \in {status[j], "queued", "running"}
      /\ exec' = exec /\ analysed' = analysed
      /\ progress'[j].done \in {progress[j].done, 0}
  BY DEF Submission, Submit, OpenContext, StartJob, Goto, world
<1>3. exec[j] = NoExec /\ status[j] \notin {"completed", "failed"}
  BY <1>2 DEF JobInv, LoopPosition, Untouched
<1>4. Completed(j) = 0 /\ Completed(j)' = 0
  BY <1>2, <1>3, NothingDone, NothingDoneNext
<1>5. progress[j].done = 0
  BY <1>2, <1>3, <1>4 DEF Rec, CountAt, Ahead
<1>6. pc'[j] \notin InStage \cup Ahead \cup Completing \cup Finishing
                    \cup {"stageAudit", "failAudit"}
  BY <1>2 DEF InStage, Ahead, Completing, Finishing
<1>7. StatusAt(j)'
  BY <1>6 DEF StatusAt
<1>8. RunningAt(j)'
  BY <1>2, <1>3, <1>6 DEF RunningAt, NoExec
<1>9. CountAt(j)'
  BY <1>2, <1>4, <1>5, <1>6 DEF CountAt
<1>10. AnalysedAt(j)'
  BY <1>2 DEF Rec, AnalysedAt, Late, Finishing
<1> QED
  BY <1>7, <1>8, <1>9, <1>10 DEF Rec

\* The loop enters or refuses a stage, which nobody had touched, or ends.
LEMMA LoopRec ==
  ASSUME RecInv, NEW j \in Jobs, EnterStage(j) \/ RefuseStage(j) \/ CompleteJob(j)
  PROVE  Rec(j)'
<1>1. TypeOK /\ IInv /\ Rec(j) /\ JobInv(j)
  BY DEF RecInv, IInv, RunnerInv
<1>2. pc[j] \in AtLoopHead
  BY DEF EnterStage, RefuseStage, CompleteJob, MoreStages
<1>3. /\ Completed(j) = pos[j] /\ status[j] # "failed" /\ progress[j].done = Completed(j)
      /\ pos[j] \in Nat
  BY <1>1, <1>2, HeadCount DEF TypeOK
<1>4. AnalysedAt(j) /\ analysed[j] = 0
  BY <1>1, <1>2 DEF Rec, AnalysedAt, AtLoopHead, Late, Finishing
<1>5. analysed'[j] = analysed[j] /\ mode'[j] = mode[j]
  BY DEF EnterStage, RefuseStage, CompleteJob, world, request
<1>6. AnalysedAt(j)'
  BY <1>4, <1>5 DEF AnalysedAt
<1>7. \A s \in Stages : exec[j][s] # "running"
  BY <1>1, <1>2 DEF Rec, RunningAt, AtLoopHead, InStage
<1>8. ASSUME MoreStages(j) PROVE Following(j) \in Stages /\ exec[j][Following(j)] = "none"
  <2>1. Following(j) \in Stages /\ pos[j] + 1 \in 1..Total(j)
    BY <1>1, <1>8, FollowingIsStage
  <2> QED
    BY <1>1, <1>2, <1>3, <2>1, AtHead DEF Following
<1>9. CASE EnterStage(j)
  <2>1. /\ Following(j) \in Stages /\ exec[j][Following(j)] = "none"
        /\ exec'[j][Following(j)] = "running" /\ pos'[j] = pos[j] + 1
        /\ \A s \in Stages : s # Following(j) => exec'[j][s] = exec[j][s]
        /\ status'[j] = "running" /\ progress'[j].done = progress[j].done
        /\ pc'[j] = "executing"
    BY <1>1, <1>8, <1>9 DEF EnterStage, TypeOK, Goto
  <2>2. Completed(j)' = Completed(j)
    BY <2>1, SameDone
  <2>3. Cur(j)' = Following(j)
    BY <1>5, <2>1 DEF Cur, Following, Plan
  <2>4. RunningAt(j)'
    BY <1>7, <2>1, <2>3 DEF RunningAt, InStage
  <2>5. CountAt(j)'
    BY <1>3, <2>1, <2>2 DEF CountAt, InStage, Ahead
  <2>6. StatusAt(j)'
    BY <2>1 DEF StatusAt, Completing, Finishing
  <2> QED
    BY <1>6, <2>4, <2>5, <2>6 DEF Rec
<1>10. CASE RefuseStage(j)
  <2>1. /\ Following(j) \in Stages /\ exec[j][Following(j)] = "none"
        /\ exec'[j][Following(j)] = "failed"
        /\ \A s \in Stages : s # Following(j) => exec'[j][s] = exec[j][s]
        /\ status'[j] = "failed" /\ progress'[j] = progress[j] /\ pc'[j] = "failAudit"
    BY <1>1, <1>8, <1>10 DEF RefuseStage, Refusal, TypeOK, Goto
  <2>2. Completed(j)' = Completed(j)
    BY <2>1, SameDone
  <2>3. RunningAt(j)'
    BY <1>7, <2>1 DEF RunningAt, InStage
  <2>4. CountAt(j)'
    BY <1>3, <2>1, <2>2 DEF CountAt, InStage, Ahead
  <2>5. StatusAt(j)'
    BY <2>1 DEF StatusAt, Completing, Finishing
  <2> QED
    BY <1>6, <2>3, <2>4, <2>5 DEF Rec
<1>11. CASE CompleteJob(j)
  <2>1. /\ exec' = exec /\ status'[j] = "completed" /\ progress' = progress
        /\ pc'[j] = "completeAudit"
    BY <1>1, <1>11 DEF CompleteJob, TypeOK, Goto
  <2>2. Completed(j)' = Completed(j)
    BY <2>1, SameCount
  <2>3. RunningAt(j)'
    BY <1>7, <2>1 DEF RunningAt, InStage
  <2>4. CountAt(j)'
    BY <1>3, <2>1, <2>2 DEF CountAt, InStage, Ahead
  <2>5. StatusAt(j)'
    BY <2>1 DEF StatusAt, Completing, Finishing
  <2> QED
    BY <1>6, <2>3, <2>4, <2>5 DEF Rec
<1> QED
  BY <1>9, <1>10, <1>11

\* A handler reports its stage complete: progress is one ahead of the runner.
LEMMA ReportRec ==
  ASSUME RecInv, NEW j \in Jobs,
         StageWorks(j) \/ AllParsersFail(j) \/ AcquireShared(j) \/ AcquireDone(j)
  PROVE  Rec(j)'
<1>1. TypeOK /\ Rec(j)
  BY DEF RecInv, IInv
<1>2. /\ pc[j] \in InStage \ Ahead
      /\ status' = status /\ exec' = exec /\ mode' = mode /\ pos' = pos
      /\ analysed' = analysed /\ ProgressComplete(j)
      /\ \E to \in Ahead : Goto(j, to)
  BY DEF StageWorks, AllParsersFail, AcquireShared, AcquireDone, Deliver, request, world,
     InStage, Ahead
<1>3. pc'[j] \in Ahead /\ pc'[j] \in InStage
  BY <1>1, <1>2 DEF Goto, TypeOK, Ahead, InStage
<1>4. /\ Completed(j) \in Nat /\ Total(j) \in Nat /\ Completed(j) < Total(j)
      /\ progress[j].done = Completed(j)
  BY <1>2, StageCount
<1>5. progress'[j].done = Completed(j) + 1
  BY <1>1, <1>2, <1>4 DEF ProgressComplete, TypeOK
<1>6. Completed(j)' = Completed(j)
  BY <1>2, SameCount
<1>7. Cur(j)' = Cur(j)
  BY <1>2 DEF Cur, Plan
<1>8. CountAt(j)'
  BY <1>1, <1>2, <1>3, <1>5, <1>6 DEF Rec, CountAt, InStage, Ahead
<1>9. RunningAt(j)'
  BY <1>1, <1>2, <1>3, <1>7 DEF Rec, RunningAt, InStage
<1>10. StatusAt(j)'
  BY <1>3 DEF StatusAt, Ahead, Completing, Finishing
<1>11. AnalysedAt(j)'
  BY <1>1, <1>2 DEF Rec, AnalysedAt, InStage, Ahead, Late, Finishing
<1> QED
  BY <1>8, <1>9, <1>10, <1>11 DEF Rec

\* The runner records how the stage ended.
LEMMA EndRec ==
  ASSUME RecInv, NEW j \in Jobs, StageFails(j) \/ StageReturns(j)
  PROVE  Rec(j)'
<1>1. TypeOK /\ IInv /\ Rec(j) /\ pc[j] \in InStage
  BY DEF RecInv, IInv, StageFails, StageReturns, InStage
<1>2. /\ Completed(j) \in Nat /\ Cur(j) \in Stages /\ exec[j][Cur(j)] = "running"
      /\ progress[j].done = Completed(j) + (IF pc[j] \in Ahead THEN 1 ELSE 0)
  BY <1>1, StageCount
<1>3. Completed(j) + 1 = pos[j]
  BY <1>1 DEF Rec, CountAt, InStage
<1>4. analysed[j] = 0 /\ analysed' = analysed /\ progress' = progress
      /\ pos' = pos /\ mode' = mode
  BY <1>1 DEF Rec, AnalysedAt, InStage, Late, Finishing, StageFails, FailStage,
     StageReturns, StageEnds, world, request
<1>5. AnalysedAt(j)'
  BY <1>4 DEF AnalysedAt
<1>6. PICK e \in {"failed", "completed"} : exec' = [exec EXCEPT ![j][Cur(j)] = e]
  BY DEF StageFails, FailStage, StageReturns, StageEnds
<1>7. \A s \in Stages : s # Cur(j) => exec'[j][s] = exec[j][s] /\ exec[j][s] # "running"
  BY <1>1, <1>6 DEF TypeOK, Rec, RunningAt, InStage
<1>8. exec'[j][Cur(j)] # "running"
  BY <1>1, <1>2, <1>6 DEF TypeOK
<1>9. CASE StageFails(j)
  <2>1. exec'[j][Cur(j)] = "failed" /\ status'[j] = "failed" /\ pc'[j] = "failAudit"
    BY <1>1, <1>2, <1>9 DEF StageFails, FailStage, StageEnds, Goto, TypeOK
  <2>2. Completed(j)' = Completed(j)
    BY <1>2, <1>7, <2>1, SameDone
  <2>3. CountAt(j)'
    BY <1>2, <1>4, <2>1, <2>2 DEF CountAt, InStage, Ahead
  <2>4. RunningAt(j)'
    BY <1>7, <1>8, <2>1 DEF RunningAt, InStage
  <2>5. StatusAt(j)'
    BY <2>1 DEF StatusAt, Completing, Finishing
  <2> QED
    BY <1>5, <2>3, <2>4, <2>5 DEF Rec
<1>10. CASE StageReturns(j)
  <2>1. /\ exec'[j][Cur(j)] = "completed" /\ status'[j] = "stage_complete"
        /\ pc[j] = "stageDone" /\ pc'[j] = "stageAudit"
    BY <1>1, <1>2, <1>10 DEF StageReturns, StageEnds, Goto, TypeOK
  <2>2. Completed(j)' = Completed(j) + 1
    BY <1>2, <1>7, <2>1, OneMoreDone
  <2>3. CountAt(j)'
    BY <1>2, <1>3, <1>4, <2>1, <2>2 DEF CountAt, InStage, Ahead
  <2>4. RunningAt(j)'
    BY <1>7, <1>8, <2>1 DEF RunningAt, InStage
  <2>5. StatusAt(j)'
    BY <2>1 DEF StatusAt, Completing, Finishing
  <2> QED
    BY <1>5, <2>3, <2>4, <2>5 DEF Rec
<1> QED
  BY <1>9, <1>10

\* The ANALYSED record of a completed job, which has none yet.
LEMMA AnalysedRec ==
  ASSUME RecInv, NEW j \in Jobs, RecordAnalysed(j)
  PROVE  Rec(j)'
<1>1. TypeOK /\ Rec(j)
  BY DEF RecInv, IInv
<1>2. /\ status' = status /\ exec' = exec /\ mode' = mode /\ pos' = pos
      /\ progress' = progress /\ pc[j] = "analysis" /\ pc'[j] = "finishAudit"
      /\ analysed'[j] \in {analysed[j], analysed[j] + 1}
  BY <1>1 DEF RecordAnalysed, Goto, request, TypeOK
<1>3. analysed[j] = 0 /\ status[j] = "completed"
  BY <1>1, <1>2 DEF Rec, AnalysedAt, StatusAt, Completing, Late, Finishing
<1>4. AnalysedAt(j)'
  BY <1>2, <1>3 DEF AnalysedAt, Late, Finishing
<1>5. Settled(j)
  BY <1>3 DEF Settled, Terminal
<1> QED
  BY <1>1, <1>2, <1>4, <1>5, HopRec DEF InStage, Ahead, Completing, Finishing

\* A cancel changes the status of a job that has none of the later ones.
LEMMA CancelRec ==
  ASSUME RecInv, NEW j \in Jobs, CancelJob(j) \/ CancelHydrated(j) \/ CancelStep(j)
  PROVE  Rec(j)'
<1>1. TypeOK /\ Rec(j) /\ JobInv(j)
  BY DEF RecInv, IInv, RunnerInv
<1>2. /\ pc' = pc /\ mode' = mode /\ pos' = pos /\ progress' = progress
      /\ analysed' = analysed
  BY DEF CancelJob, CancelHydrated, CancelStep, CancelAudited, CancelReturns, request, world
<1>3. CASE pc[j] = "lost"
  BY <1>1, <1>2, <1>3 DEF Rec, AnalysedAt
<1>4. CASE pc[j] # "lost" /\ CancelJob(j)
  <2>1. exec' = exec /\ status[j] \in CancelFrom /\ status'[j] = "cancelled"
    BY <1>1, <1>4 DEF CancelJob, TypeOK
  <2>2. Completed(j)' = Completed(j) /\ Cur(j)' = Cur(j)
    BY <1>2, <2>1, SameCount DEF Cur, Plan
  <2>3. status[j] \in {"queued", "running"}
    BY <2>1 DEF CancelFrom
  <2>4. pc[j] \notin {"stageAudit", "failAudit"} \cup Completing \cup Finishing
    BY <1>1, <1>4, <2>3 DEF Rec, StatusAt, Settled, Terminal
  <2>5. StatusAt(j)'
    BY <1>2, <2>4 DEF StatusAt
  <2>6. RunningAt(j)' /\ CountAt(j)'
    BY <1>1, <1>2, <1>4, <2>1, <2>2, <2>3 DEF Rec, RunningAt, CountAt
  <2>7. AnalysedAt(j)'
    BY <1>1, <1>2, <1>4, <2>3 DEF Rec, AnalysedAt
  <2> QED
    BY <2>5, <2>6, <2>7 DEF Rec
<1>5. CASE pc[j] # "lost" /\ CancelHydrated(j)
  <2>1. status[j] = "none" /\ row[j] # NoRow
    BY <1>5 DEF CancelHydrated
  <2> QED
    BY <1>1, <1>5, <2>1 DEF JobInv, LoopPosition
<1>6. CASE CancelStep(j)
  <2>1. status' = status /\ exec' = exec
    BY <1>6 DEF CancelStep, CancelAudited, CancelReturns
  <2>2. Completed(j)' = Completed(j) /\ Cur(j)' = Cur(j)
    BY <1>2, <2>1, SameCount DEF Cur, Plan
  <2> QED
    BY <1>1, <1>2, <2>1, <2>2
    DEF Rec, StatusAt, Settled, RunningAt, CountAt, AnalysedAt
<1> QED
  BY <1>3, <1>4, <1>5, <1>6

\* A death of the process leaves nothing to agree with but the custody record.
LEMMA CrashRec ==
  ASSUME RecInv, Crash, NEW j \in Jobs
  PROVE  Rec(j)'
<1>1. TypeOK /\ Rec(j)
  BY DEF RecInv, IInv
<1>2. /\ exec'[j] = NoExec /\ progress'[j].done = 0 /\ analysed' = analysed
      /\ pc'[j] = IF pc[j] = "idle" THEN "idle" ELSE "lost"
  BY DEF Crash, NoProgress
<1>3. AnalysedAt(j)'
  BY <1>1, <1>2 DEF Rec, AnalysedAt, Late, Finishing
<1>4. CASE pc[j] = "idle"
  <2>1. pc'[j] = "idle" /\ Completed(j)' = 0
    BY <1>2, <1>4, NothingDoneNext
  <2>2. StatusAt(j)' /\ CountAt(j)' /\ RunningAt(j)'
    BY <1>2, <2>1 DEF StatusAt, CountAt, RunningAt, NoExec, InStage, Ahead, Completing,
       Finishing
  <2> QED
    BY <1>3, <2>2 DEF Rec
<1>5. CASE pc[j] # "idle"
  BY <1>2, <1>3, <1>5 DEF Rec
<1> QED
  BY <1>4, <1>5

LEMMA RecStep == RecInv /\ [Next]_vars => RecInv'
<1> SUFFICES ASSUME RecInv, [Next]_vars PROVE RecInv'
  OBVIOUS
<1>1. IInv /\ TypeOK /\ \A k \in Jobs : Rec(k)
  BY DEF RecInv, IInv
<1>2. IInv'
  BY <1>1, NextIInv
<1>3. CASE UNCHANGED vars \/ \E e \in Evidence : EvidenceDesk(e)
  <2> SUFFICES ASSUME NEW k \in Jobs PROVE Rec(k)'
    BY <1>2 DEF RecInv
  <2>1. SameJob(k)
    BY <1>3 DEF vars, EvidenceDesk, SameJob, request, saves, cancels, world
  <2> QED
    BY <1>1, <2>1, SameRec
<1>4. CASE Crash
  BY <1>2, <1>4, CrashRec DEF RecInv
<1>5. ASSUME NEW j \in Jobs,
             Submission(j) \/ RunStep(j) \/ CancelJob(j) \/ CancelHydrated(j)
               \/ CancelStep(j)
      PROVE  RecInv'
  <2>1. Rec(j)'
    BY <1>5, HopsRec, EarlyRec, LoopRec, ReportRec, EndRec, AnalysedRec, CancelRec
    DEF RunStep, Hops
  <2>2. \A k \in Jobs : k # j => Rec(k)'
    BY <1>1, <1>5, StepsOfOthers, SameRec
  <2> QED
    BY <1>2, <2>1, <2>2 DEF RecInv
<1> QED
  BY <1>3, <1>4, <1>5 DEF Next

LEMMA InitRec == Init => RecInv
<1> SUFFICES ASSUME Init PROVE RecInv
  OBVIOUS
<1>1. ASSUME NEW j \in Jobs PROVE Rec(j)
  <2>1. /\ exec[j] = NoExec /\ pc[j] = "idle" /\ analysed[j] = 0
        /\ progress[j].done = 0
    BY DEF Init, NoProgress
  <2>2. Completed(j) = 0
    BY <2>1, NothingDone
  <2> QED
    BY <2>1, <2>2 DEF Rec, StatusAt, CountAt, RunningAt, AnalysedAt, NoExec, InStage, Ahead,
       Completing, Finishing
<1> QED
  BY <1>1, InitIInv DEF RecInv

\* RecInv holds in every reachable state.
THEOREM RecordsHold == Spec => []RecInv
  BY InitRec, RecStep, PTL DEF Spec

\* A client that polls a job sees one running stage at most, the one whose
\* handler is executed, and a progress counter that is the number of completed
\* stages or one ahead of it (job_runner.py, progress_tracker.py).
THEOREM RecordsCorrect == Spec => []RecordsAgree
<1>1. RecInv => RecordsAgree
  <2> SUFFICES ASSUME RecInv, NEW j \in Jobs, pc[j] # "lost"
      PROVE  /\ \A s \in Stages : exec[j][s] = "running" <=> (pc[j] \in InStage /\ s = Cur(j))
             /\ progress[j].done - Completed(j) \in
                  IF pc[j] \in {"stageDone", "stageFailing"} THEN {1}
                  ELSE IF status[j] = "failed" THEN {0, 1} ELSE {0}
    BY DEF RecordsAgree, RunningIsCurrent, ProgressTracksStages
  <2>1. Rec(j) /\ Completed(j) \in Nat
    BY CountIsNat DEF RecInv
  <2>2. RunningAt(j) /\ CountAt(j)
    BY <2>1 DEF Rec
  <2>3. CASE pc[j] \in Ahead
    BY <2>1, <2>2, <2>3 DEF RunningAt, CountAt, Ahead
  <2>4. CASE pc[j] \notin Ahead
    BY <2>1, <2>2, <2>4 DEF RunningAt, CountAt, Ahead
  <2> QED
    BY <2>3, <2>4
<1> QED
  BY <1>1, RecordsHold, PTL

\* A job that ended CANCELLED has run no part of any stage.
THEOREM CancelledUntouched == Spec => []CancelledMeansUntouched
<1>1. RecInv => CancelledMeansUntouched
  BY DEF RecInv, Rec, StatusAt, Settled, Finishing, CancelledMeansUntouched
<1> QED
  BY <1>1, RecordsHold, PTL

-----------------------------------------------------------------------------
(* Evidence *)

\* A processed item has a job on it that completed.
LEMMA ProcessedStep == RecInv /\ ProcessedIsEarned /\ [Next]_vars => ProcessedIsEarned'
<1> SUFFICES ASSUME RecInv, ProcessedIsEarned, [Next]_vars,
                    NEW e \in Evidence, ev'[e] = "processed"
             PROVE  \E j \in Jobs : target'[j] = e /\ (status'[j] = "completed" \/ pc'[j] = "lost")
  BY DEF ProcessedIsEarned
<1>1. TypeOK /\ \A k \in Jobs : JobInv(k) /\ Rec(k)
  BY DEF RecInv, IInv, RunnerInv
<1>2. ASSUME ev[e] = "processed", ~Crash
      PROVE  \E j \in Jobs : target'[j] = e /\ (status'[j] = "completed" \/ pc'[j] = "lost")
  <2>1. PICK k \in Jobs : target[k] = e /\ (status[k] = "completed" \/ pc[k] = "lost")
    BY <1>2 DEF ProcessedIsEarned
  <2>2. pc[k] # "idle"
    BY <1>1, <2>1 DEF JobInv, LoopPosition
  <2>3. CASE UNCHANGED vars \/ \E x \in Evidence : EvidenceDesk(x)
    BY <2>1, <2>3 DEF vars, EvidenceDesk, request
  <2>4. ASSUME NEW j \in Jobs, j # k,
               Submission(j) \/ RunStep(j) \/ CancelJob(j) \/ CancelHydrated(j) \/ CancelStep(j)
        PROVE  target'[k] = e /\ (status'[k] = "completed" \/ pc'[k] = "lost")
    BY <1>1, <2>1, <2>4, StepsOfOthers DEF SameJob
  <2>5. ASSUME Submission(k) \/ RunStep(k) PROVE target'[k] = e /\ status'[k] = "completed"
    <3>1. status[k] = "completed" => pc[k] \notin Untouched \cup AtLoopHead \cup InStage
      BY <1>1 DEF JobInv
    <3>2. ~Submission(k)
      BY <2>2 DEF Submission, Submit
    <3>3. CASE Hops(k)
      <4>1. pc[k] # "lost" /\ target' = target /\ status' = status
        BY <1>1, <3>3, HopShape DEF Leads, AtLoopHead, StorePoints
      <4> QED
        BY <2>1, <4>1
    <3>4. CASE RecordAnalysed(k)
      BY <2>1, <3>4 DEF RecordAnalysed, request
    <3>5. ASSUME OpenContext(k) \/ StartJob(k) \/ EnterStage(k) \/ RefuseStage(k)
                   \/ CompleteJob(k) \/ StageFails(k) \/ StageReturns(k)
                   \/ StageWorks(k) \/ AllParsersFail(k) \/ AcquireShared(k) \/ AcquireDone(k)
          PROVE  FALSE
      <4>1. pc[k] \in Untouched \cup AtLoopHead \cup InStage
        BY <3>5 DEF OpenContext, StartJob, EnterStage, RefuseStage, MoreStages,
           CompleteJob, StageFails, StageReturns, StageWorks, AllParsersFail, AcquireShared,
           AcquireDone, Untouched, InStage
      <4>2. pc[k] # "lost"
        BY <4>1 DEF Untouched, AtLoopHead, InStage
      <4> QED
        BY <2>1, <3>1, <4>1, <4>2
    <3> QED
      BY <2>5, <3>2, <3>3, <3>4, <3>5 DEF RunStep, Hops
  <2>6. ASSUME CancelJob(k) \/ CancelHydrated(k) \/ CancelStep(k)
        PROVE  target'[k] = e /\ (status'[k] = "completed" \/ pc'[k] = "lost")
    <3>1. pc' = pc /\ target' = target
      BY <2>6 DEF CancelJob, CancelHydrated, CancelStep, CancelAudited, CancelReturns, request
    <3>2. status[k] = "completed" => status' = status
      BY <2>6 DEF CancelJob, CancelHydrated, CancelStep, CancelAudited, CancelReturns, CancelFrom
    <3> QED
      BY <2>1, <3>1, <3>2
  <2>7. ASSUME NEW j \in Jobs,
               Submission(j) \/ RunStep(j) \/ CancelJob(j) \/ CancelHydrated(j) \/ CancelStep(j)
        PROVE  target'[k] = e /\ (status'[k] = "completed" \/ pc'[k] = "lost")
    BY <2>4, <2>5, <2>6, <2>7
  <2> QED
    BY <1>2, <2>3, <2>7 DEF Next
<1>3. CASE Crash
  <2>1. ev' = ev /\ target' = target
    BY <1>3 DEF Crash, request
  <2>2. PICK k \in Jobs : target[k] = e /\ (status[k] = "completed" \/ pc[k] = "lost")
    BY <2>1 DEF ProcessedIsEarned
  <2>3. pc[k] # "idle"
    BY <1>1, <2>2 DEF JobInv, LoopPosition
  <2>4. pc'[k] = "lost"
    BY <1>3, <2>3 DEF Crash
  <2> QED
    BY <2>1, <2>2, <2>4
<1>4. CASE ev[e] # "processed" /\ ~Crash
  <2>1. PICK j \in Jobs : FinaliseWrite(j) /\ target[j] = e
    <3>1. ev' # ev
      BY <1>4
    <3>2. ~(UNCHANGED vars) /\ ~(\E x \in Evidence : EvidenceDesk(x))
      BY <1>1, <1>4 DEF vars, world, EvidenceDesk, TypeOK
    <3>3. PICK j \in Jobs :
            Submission(j) \/ RunStep(j) \/ CancelJob(j) \/ CancelHydrated(j) \/ CancelStep(j)
      BY <1>4, <3>2 DEF Next
    <3>4. AcquireWrite(j) \/ FinaliseWrite(j)
      BY <3>1, <3>3 DEF RunStep, CancelStep, Submission, Submit, OpenContext, SaveQueued,
         SubmitReturns, SaveStarts, SaveEnds, StartJob, StopCancelled, RunReturns, EnterStage,
         RefuseStage, CompleteJob, StageWorks, Deliver, AllParsersFail, AcquireRead, Move,
         AcquireShared, AcquireDone, StageFails, FailStage, StageEnds, StageReturns,
         FailReturns, CompleteReturns, FinaliseRead, FinaliseAudited, RecordAnalysed,
         SaveResult, ResultSaved, StoreFails, CancelJob, CancelHydrated, CancelAudited,
         CancelReturns, world
    <3>5. target[j] = e /\ ~AcquireWrite(j)
      BY <1>1, <1>4, <3>4 DEF AcquireWrite, FinaliseWrite, WriteEvidence, TypeOK
    <3> QED
      BY <3>4, <3>5
  <2>2. pc[j] = "finaliseWrite" /\ status' = status /\ target' = target
    BY <2>1 DEF FinaliseWrite, WriteEvidence, request
  <2>3. status[j] = "completed"
    BY <1>1, <2>2 DEF Rec, StatusAt, Completing
  <2> QED
    BY <2>1, <2>2, <2>3
<1> QED
  BY <1>2, <1>3, <1>4

\* An ANALYSED record names a job that completed, once; an item is PROCESSED
\* because a job on it completed, whatever jobs, the evidence desk and deaths
\* of the process interleave.
THEOREM EvidenceEarned == Spec => []EvidenceIsEarned
<1>1. Init => ProcessedIsEarned
  BY DEF Init, ProcessedIsEarned
<1>2. RecInv => AnalysedIsEarned
  BY DEF RecInv, Rec, AnalysedAt, AnalysedIsEarned
<1>3. AnalysedIsEarned /\ ProcessedIsEarned => EvidenceIsEarned
  BY DEF EvidenceIsEarned
<1> QED
  BY <1>1, <1>2, <1>3, ProcessedStep, RecordsHold, PTL DEF Spec

-----------------------------------------------------------------------------
(* Where the artefacts of a triage come from *)

\* A job of this process has parsed the evidence e.
Source(e) ==
  \E k \in Jobs : target[k] = e /\ pc[k] # "lost" /\ exec[k]["parsing"] = "completed"

\* Artefacts have a source, or their own parsing stage is about to be recorded;
\* a triage-only job gets none but cached ones, and runs nothing without them.
SourceAt(j) ==
  /\ "artefacts" \in out[j] => Source(target[j]) \/ (pc[j] = "stageDone" /\ Cur(j) = "parsing")
  /\ mode[j] = "triage-only" /\ out[j] # {} => Source(target[j])
  /\ mode[j] = "triage-only" /\ pc[j] \in InStage \cup {"stageAudit"} => out[j] # {}
  /\ pc[j] \in {"idle", "submitAudit"} => out[j] = {}
SourceInv == (\A e \in cache : Source(e)) /\ \A j \in Jobs : SourceAt(j)

StepOf(j) ==
  Submission(j) \/ RunStep(j) \/ CancelJob(j) \/ CancelHydrated(j) \/ CancelStep(j)

\* What a job has completed is not taken back while the process lives.
LEMMA ParsedStays ==
  ASSUME RecInv, NEW k \in Jobs, pc[k] # "lost", exec[k]["parsing"] = "completed", StepOf(k)
  PROVE  target'[k] = target[k] /\ pc'[k] # "lost" /\ exec'[k]["parsing"] = "completed"
<1>1. TypeOK /\ JobInv(k) /\ Rec(k) /\ LoopPosition(k)
  BY DEF RecInv, IInv, RunnerInv, JobInv
<1>2. "parsing" \in Stages
  BY DEF Stages
<1>3. exec[k] # NoExec /\ pc[k] # "idle" /\ status[k] # "none"
  BY <1>1, <1>2 DEF LoopPosition, NoExec, Untouched
<1>4. pc[k] \in InStage => Cur(k) # "parsing"
  BY <1>1, <1>2 DEF Rec, RunningAt
<1>5. MoreStages(k) => Following(k) # "parsing"
  <2> SUFFICES ASSUME MoreStages(k)
               PROVE  exec[k][Following(k)] = "none"
    OBVIOUS
  <2>1. pos[k] \in Nat /\ Total(k) \in Nat /\ pos[k] < Total(k)
    BY <1>1, PlanFacts DEF MoreStages, TypeOK
  <2> QED
    BY <1>1, <2>1 DEF LoopPosition, Following
<1>6. CASE Hops(k)
  <2>1. exec' = exec /\ target' = target /\ pc'[k] # "lost"
    BY <1>1, <1>6, HopShape DEF Leads, AtLoopHead, StorePoints, BeforeRun, TypeOK
  <2> QED
    BY <2>1
<1>7. ~Submission(k)
  BY <1>3 DEF Submission, Submit
<1>8. CASE OpenContext(k) \/ StartJob(k) \/ CompleteJob(k) \/ AllParsersFail(k) \/ RecordAnalysed(k)
  BY <1>1, <1>8 DEF OpenContext, StartJob, CompleteJob, AllParsersFail, RecordAnalysed, Goto,
     request, TypeOK
<1>9. CASE StageWorks(k) \/ AcquireShared(k) \/ AcquireDone(k)
  <2>1. Deliver(k)
    BY <1>9 DEF StageWorks, AcquireShared, AcquireDone
  <2> QED
    BY <1>1, <2>1 DEF Deliver, Goto, request, TypeOK
<1>10. CASE EnterStage(k) \/ RefuseStage(k)
  <2>1. MoreStages(k) /\ pc'[k] \in {"executing", "failAudit"} /\ target' = target
        /\ \E v : exec' = [exec EXCEPT ![k][Following(k)] = v]
    BY <1>1, <1>10 DEF EnterStage, RefuseStage, Refusal, Goto, request, TypeOK
  <2> QED
    BY <1>1, <1>2, <1>5, <2>1 DEF TypeOK
<1>11. CASE StageFails(k) \/ StageReturns(k)
  <2>1. pc[k] \in InStage /\ pc'[k] \in {"failAudit", "stageAudit"} /\ target' = target
        /\ \E v : exec' = [exec EXCEPT ![k][Cur(k)] = v]
    BY <1>1, <1>11 DEF StageFails, FailStage, StageReturns, StageEnds, Goto, request, TypeOK, InStage
  <2> QED
    BY <1>1, <1>2, <1>4, <2>1 DEF TypeOK
<1>12. CASE CancelJob(k) \/ CancelStep(k)
  BY <1>1, <1>12 DEF CancelJob, CancelStep, CancelAudited, CancelReturns, request
<1>13. ~CancelHydrated(k)
  BY <1>3 DEF CancelHydrated
<1> QED
  BY <1>6, <1>7, <1>8, <1>9, <1>10, <1>11, <1>12, <1>13 DEF StepOf, RunStep, Hops

\* So a source stays one.
LEMMA SourceStays ==
  ASSUME RecInv, NEW e, Source(e),
         UNCHANGED vars \/ (\E x \in Evidence : EvidenceDesk(x)) \/ (\E j \in Jobs : StepOf(j))
  PROVE  Source(e)'
<1>1. PICK k \in Jobs : target[k] = e /\ pc[k] # "lost" /\ exec[k]["parsing"] = "completed"
  BY DEF Source
<1>2. CASE UNCHANGED vars \/ \E x \in Evidence : EvidenceDesk(x)
  BY <1>1, <1>2 DEF vars, EvidenceDesk, request, Source
<1>3. ASSUME NEW j \in Jobs, StepOf(j)
      PROVE  Source(e)'
  <2>1. CASE j = k
    BY <1>1, <1>3, <2>1, ParsedStays DEF Source
  <2>2. CASE j # k
    <3>1. SameJob(k)
      BY <1>3, <2>2, StepsOfOthers DEF StepOf, RecInv, IInv
    <3> QED
      BY <1>1, <3>1 DEF SameJob, Source
  <2> QED
    BY <2>1, <2>2
<1> QED
  BY <1>2, <1>3

\* What a step does to what the stages left, and to the cache.
Filled(j) == out' = [out EXCEPT ![j] = @ \cup Yields[Cur(j)]] /\ cache' = cache
Cached(j) == out' = out /\ cache' = cache \cup {target[j]} /\ "artefacts" \in out[j]
             /\ pc[j] \in AtLoopHead \cup {"failAudit", "completeAudit"}

LEMMA OutShape ==
  ASSUME TypeOK, NEW j \in Jobs, StepOf(j)
  PROVE  \/ out' = out /\ cache' = cache
         \/ Cached(j)
         \/ OpenContext(j)
         \/ Filled(j) /\ pc[j] \in InStage /\ pc'[j] = "stageDone" /\ UNCHANGED <<request, pos>>
<1>1. ASSUME NEW from, NEW saving, SaveStarts(j, from, saving)
      PROVE  out' = out /\ cache' = cache
  BY <1>1 DEF SaveStarts
<1>2. ASSUME NEW saving, NEW next, SaveEnds(j, saving, next)
      PROVE  out' = out /\ cache' = cache
  BY <1>2 DEF SaveEnds
<1>3. ASSUME NEW from \in AtLoopHead \cup {"failAudit", "completeAudit"}, NEW next, RunReturns(j, from, next)
      PROVE  Cached(j) \/ (out' = out /\ cache' = cache)
  BY <1>3 DEF RunReturns, CacheKey, Cached
<1>4. ASSUME NEW from, NEW to, Move(j, from, to)
      PROVE  out' = out /\ cache' = cache
  BY <1>4 DEF Move
<1>5. ASSUME NEW from, NEW s, NEW next, WriteEvidence(j, from, s, next)
      PROVE  out' = out /\ cache' = cache
  BY <1>5 DEF WriteEvidence
<1>6. CASE SaveQueued(j) \/ SaveResult(j) \/ SubmitReturns(j) \/ ResultSaved(j)
  BY <1>1, <1>2, <1>6 DEF SaveQueued, SaveResult, SubmitReturns, ResultSaved
<1>7. CASE StopCancelled(j) \/ FailReturns(j) \/ CompleteReturns(j)
  BY <1>3, <1>7 DEF StopCancelled, FailReturns, CompleteReturns
<1>8. CASE AcquireRead(j) \/ FinaliseRead(j) \/ FinaliseAudited(j) \/ StoreFails(j)
  BY <1>4, <1>8 DEF AcquireRead, FinaliseRead, FinaliseAudited, StoreFails
<1>9. CASE AcquireWrite(j) \/ FinaliseWrite(j)
  BY <1>5, <1>9 DEF AcquireWrite, FinaliseWrite
<1>10. CASE StageWorks(j) \/ AcquireShared(j) \/ AcquireDone(j)
  <2>1. Deliver(j) /\ pc[j] \in InStage
    BY <1>10 DEF StageWorks, AcquireShared, AcquireDone, InStage
  <2> QED
    BY <2>1 DEF Deliver, Filled, Goto, TypeOK
<1>11. CASE Submission(j) \/ StartJob(j) \/ EnterStage(j) \/ RefuseStage(j) \/ CompleteJob(j)
              \/ AllParsersFail(j) \/ RecordAnalysed(j)
  BY <1>11 DEF Submission, Submit, StartJob, EnterStage, RefuseStage, CompleteJob, AllParsersFail,
     RecordAnalysed
<1>12. CASE StageFails(j) \/ StageReturns(j)
  BY <1>12 DEF StageFails, FailStage, StageReturns, StageEnds
<1>13. CASE CancelJob(j) \/ CancelHydrated(j) \/ CancelStep(j)
  BY <1>13 DEF CancelJob, CancelHydrated, CancelStep, CancelAudited, CancelReturns
<1> QED
  BY <1>6, <1>7, <1>8, <1>9, <1>10, <1>11, <1>12, <1>13 DEF StepOf, RunStep

\* Where a step leads: into a stage only by entering it.
LEMMA StageShape ==
  ASSUME TypeOK, NEW j \in Jobs, StepOf(j), ~Submission(j)
  PROVE  /\ request' = request
         /\ pc'[j] \in InStage \cup {"stageAudit"} => pc[j] \in InStage \cup {"stageAudit"} \/ EnterStage(j)
         /\ pc'[j] \notin {"idle", "submitAudit"} \/ pc'[j] = pc[j]
<1> DEFINE In == InStage \cup {"stageAudit"}
           Out == PCs \ (In \cup {"idle", "submitAudit"})
<1>1. pc \in [Jobs -> PCs]
  BY DEF TypeOK
<1>2. CASE Hops(j)
  <2>1. request' = request
    BY <1>2, HopShape DEF request
  <2>2. CASE Leads(j, "executing", "acqWrite") \/ Leads(j, "executing", "acqRecheck") \/ Leads(j, "acqWrite", "acqAudit")
    BY <1>1, <2>1, <2>2 DEF Leads, InStage
  <2>3. CASE pc' = [pc EXCEPT ![j] = pc'[j]] /\ pc'[j] \notin In \cup {"idle", "submitAudit"}
    BY <2>1, <2>3
  <2> QED
    BY <1>1, <1>2, <2>2, <2>3, HopShape DEF Leads, InStage, BeforeRun
<1>3. CASE OpenContext(j) \/ StartJob(j) \/ RecordAnalysed(j) \/ CompleteJob(j) \/ RefuseStage(j)
  BY <1>1, <1>3 DEF OpenContext, StartJob, CompleteJob, RecordAnalysed, RefuseStage, Refusal, Goto,
     InStage
<1>4. CASE EnterStage(j)
  BY <1>1, <1>4 DEF EnterStage, Goto
<1>5. CASE StageWorks(j) \/ AcquireShared(j) \/ AcquireDone(j) \/ AllParsersFail(j)
  BY <1>1, <1>5 DEF StageWorks, AcquireShared, AcquireDone, AllParsersFail, Deliver, Goto, InStage
<1>6. CASE StageFails(j) \/ StageReturns(j)
  BY <1>1, <1>6 DEF StageFails, FailStage, StageReturns, StageEnds, Goto, InStage
<1>7. CASE CancelJob(j) \/ CancelHydrated(j) \/ CancelStep(j)
  BY <1>7 DEF CancelJob, CancelHydrated, CancelStep, CancelAudited, CancelReturns
<1> QED
  BY <1>2, <1>3, <1>4, <1>5, <1>6, <1>7 DEF StepOf, RunStep, Hops

\* A handler that has delivered is recorded, if no write fails.
LEMMA DeliveredStep ==
  ASSUME TypeOK, ~StoreMayFail, NEW j \in Jobs, StepOf(j), pc[j] = "stageDone"
  PROVE  StageReturns(j) \/ (pc'[j] = "stageDone" /\ UNCHANGED <<request, pos>>)
<1>1. ~Submission(j) /\ ~Hops(j)
  BY HopShape DEF Submission, Submit, Leads, AtLoopHead, StorePoints
<1>2. CASE CancelJob(j) \/ CancelHydrated(j) \/ CancelStep(j)
  BY <1>2 DEF CancelJob, CancelHydrated, CancelStep, CancelAudited, CancelReturns
<1>3. /\ ~OpenContext(j) /\ ~StartJob(j) /\ ~RecordAnalysed(j) /\ ~CompleteJob(j) /\ ~RefuseStage(j)
      /\ ~EnterStage(j) /\ ~StageWorks(j) /\ ~AcquireShared(j) /\ ~AcquireDone(j)
      /\ ~AllParsersFail(j) /\ ~StageFails(j)
  BY DEF OpenContext, StartJob, CompleteJob, RecordAnalysed, RefuseStage, EnterStage, MoreStages,
     AtLoopHead, StageWorks, AcquireShared, AcquireDone, AllParsersFail, StageFails
<1> QED
  BY <1>1, <1>2, <1>3 DEF StepOf, RunStep, Hops

LEMMA SourceStep == ~StoreMayFail /\ RecInv /\ SourceInv /\ [Next]_vars => SourceInv'
<1> SUFFICES ASSUME ~StoreMayFail, RecInv, SourceInv, [Next]_vars
             PROVE  SourceInv'
  OBVIOUS
<1>1. TypeOK /\ \A k \in Jobs : JobInv(k) /\ Rec(k)
  BY DEF RecInv, IInv, RunnerInv
<1>2. CASE Crash
  <2>1. cache' = {} /\ \A k \in Jobs : out'[k] = {} /\ pc'[k] \in {"idle", "lost"}
    BY <1>2 DEF Crash
  <2> QED
    BY <2>1 DEF SourceInv, SourceAt, InStage
<1>3. CASE UNCHANGED vars \/ \E x \in Evidence : EvidenceDesk(x)
  <2>1. UNCHANGED <<mode, target, exec, pos, out, pc, cache>>
    BY <1>3 DEF vars, EvidenceDesk, request
  <2>2. \A e : Source(e) => Source(e)'
    BY <2>1 DEF Source
  <2>3. \A k \in Jobs : Cur(k)' = Cur(k)
    BY <2>1 DEF Cur, Plan
  <2> QED
    BY <2>1, <2>2, <2>3 DEF SourceInv, SourceAt
<1>4. ASSUME NEW j \in Jobs, StepOf(j)
      PROVE  SourceInv'
  <2>1. \A e \in Evidence : Source(e) => Source(e)'
    BY <1>4, SourceStays
  <2>2. target \in [Jobs -> Evidence] /\ cache \subseteq Evidence /\ out \in [Jobs -> SUBSET Outputs]
    BY <1>1 DEF TypeOK
  <2>3. \/ out' = out /\ cache' = cache
        \/ Cached(j)
        \/ OpenContext(j)
        \/ Filled(j) /\ pc[j] \in InStage /\ pc'[j] = "stageDone" /\ UNCHANGED <<request, pos>>
    BY <1>1, <1>4, OutShape
  <2>4. \A k \in Jobs : k # j => out'[k] = out[k]
    BY <2>2, <2>3 DEF Cached, Filled, OpenContext
  <2>5. ASSUME NEW k \in Jobs, k # j
        PROVE  SourceAt(k)'
    <3>1. SameJob(k) /\ out'[k] = out[k] /\ SourceAt(k)
      BY <1>1, <1>4, <2>4, <2>5, StepsOfOthers DEF StepOf, SourceInv
    <3>2. Cur(k)' = Cur(k) /\ (Source(target[k]) => Source(target[k])')
      BY <2>1, <2>2, <3>1 DEF SameJob, Cur, Plan, Source
    <3> QED
      BY <3>1, <3>2 DEF SourceAt, SameJob
  <2>6. SourceAt(j)
    BY DEF SourceInv
  <2>7. \A e \in cache' : Source(e)'
    <3>1. \A e \in cache : Source(e)'
      BY <2>1, <2>2 DEF SourceInv
    <3>2. CASE Cached(j)
      <4>1. Source(target[j])
        BY <2>6, <3>2 DEF Cached, SourceAt, AtLoopHead
      <4>2. \A e \in Evidence : e = target[j] => Source(e)'
        BY <2>1, <2>2, <4>1
      <4> QED
        BY <2>2, <3>1, <3>2, <4>2 DEF Cached
    <3>3. CASE cache' = cache
      BY <3>1, <3>3
    <3> QED
      BY <2>3, <3>2, <3>3 DEF OpenContext, Filled
  <2>8. SourceAt(j)'
    <3>1. CASE Submission(j)
      <4>1. out'[j] = {} /\ pc'[j] = "submitAudit"
        BY <1>1, <2>6, <3>1 DEF Submission, Submit, SourceAt, Goto, TypeOK
      <4> QED
        BY <4>1 DEF SourceAt, InStage
    <3>2. ASSUME ~Submission(j)
          PROVE  SourceAt(j)'
      <4>1. /\ mode' = mode /\ target' = target
            /\ pc'[j] \in InStage \cup {"stageAudit"} => pc[j] \in InStage \cup {"stageAudit"} \/ EnterStage(j)
            /\ pc'[j] \notin {"idle", "submitAudit"} \/ pc'[j] = pc[j]
        BY <1>1, <1>4, <3>2, StageShape DEF request
      <4>2. Source(target[j]) => Source(target[j])'
        BY <2>1, <2>2, <4>1 DEF Source
      <4>3. CASE OpenContext(j)
        <5>1. out'[j] = (IF CachedFor(j) THEN {"artefacts"} ELSE {}) /\ pc'[j] = "startedAudit"
          BY <1>1, <4>3 DEF OpenContext, Goto, TypeOK
        <5>2. out'[j] # {} => Source(target[j])
          BY <5>1 DEF CachedFor, SourceInv
        <5> QED
          BY <4>1, <4>2, <5>1, <5>2 DEF SourceAt, InStage
      <4>4. CASE Filled(j) /\ pc[j] \in InStage /\ pc'[j] = "stageDone" /\ UNCHANGED <<request, pos>>
        <5>1. out'[j] = out[j] \cup Yields[Cur(j)] /\ Cur(j)' = Cur(j)
          BY <2>2, <4>1, <4>4 DEF Filled, Cur, Plan
        <5>2. Cur(j) \in Stages
          BY <1>1, <4>4, CurrentIsStage DEF RecInv
        <5>3. "artefacts" \in Yields[Cur(j)] => Cur(j) = "parsing"
          BY <5>2 DEF Yields, Stages
        <5>4. mode[j] = "triage-only" => Source(target[j])
          BY <2>6, <4>4 DEF SourceAt
        <5>5. out'[j] # {} \/ mode[j] # "triage-only"
          BY <2>6, <4>4, <5>1 DEF SourceAt
        <5> QED
          BY <2>6, <4>1, <4>2, <4>4, <5>1, <5>3, <5>4, <5>5 DEF SourceAt
      <4>5. CASE out' = out
        <5>1. "artefacts" \in out[j] => Source(target[j])' \/ (pc'[j] = "stageDone" /\ Cur(j)' = "parsing")
          <6>1. CASE Source(target[j])
            BY <4>2, <6>1
          <6>2. CASE pc[j] = "stageDone" /\ Cur(j) = "parsing"
            <7>1. CASE StageReturns(j)
              <8>1. exec'[j]["parsing"] = "completed" /\ pc'[j] = "stageAudit"
                BY <1>1, <6>2, <7>1 DEF StageReturns, StageEnds, Goto, TypeOK, Stages
              <8>2. Source(target[j])'
                BY <4>1, <8>1 DEF Source
              <8> QED
                BY <8>2
            <7>2. CASE pc'[j] = "stageDone" /\ UNCHANGED <<request, pos>>
              BY <4>1, <6>2, <7>2 DEF Cur, Plan
            <7> QED
              BY <1>1, <1>4, <6>2, <7>1, <7>2, DeliveredStep
          <6> QED
            BY <2>6, <6>1, <6>2 DEF SourceAt
        <5>2. mode[j] = "triage-only" /\ pc'[j] \in InStage \cup {"stageAudit"} => out[j] # {}
          <6>1. CASE pc[j] \in InStage \cup {"stageAudit"}
            BY <2>6, <6>1 DEF SourceAt
          <6>2. CASE EnterStage(j) /\ pc[j] # "stageAudit" /\ mode[j] = "triage-only"
            <7>1. pc[j] = "startAudit" /\ pos[j] = 0
              BY <1>1, <6>2 DEF EnterStage, MoreStages, AtLoopHead, JobInv, LoopPosition, Untouched
            <7>2. mode[j] \in Modes
              BY <1>1 DEF TypeOK
            <7>3. Following(j) = "ai_triage"
              BY <6>2, <7>1, <7>2, TriageAssumption DEF Following, Plan
            <7> QED
              BY <6>2, <7>3 DEF EnterStage, Needs
          <6> QED
            BY <4>1, <6>1, <6>2
        <5> QED
          BY <2>6, <4>1, <4>2, <4>5, <5>1, <5>2 DEF SourceAt
      <4> QED
        BY <2>3, <4>3, <4>4, <4>5 DEF Cached
    <3> QED
      BY <3>1, <3>2
  <2> QED
    BY <2>5, <2>7, <2>8 DEF SourceInv
<1> QED
  BY <1>2, <1>3, <1>4 DEF Next, StepOf

\* When no audit or status write fails, the artefacts a triage-only job works on
\* were parsed from the same evidence by a job of this process, however jobs,
\* cancels, failing stages and deaths of the process interleave
\* (_cache_job_outputs, _build_context).
THEOREM TriageFromParsing == Spec => []TriageArtefactsHaveSource
<1>1. Init => SourceInv
  BY DEF Init, SourceInv, SourceAt, InStage
<1>2. SourceInv => TriageArtefactsHaveSource
  BY DEF SourceInv, SourceAt, Source, TriageArtefactsHaveSource
<1>3. CASE StoreMayFail
  <2>1. TriageArtefactsHaveSource
    BY <1>3 DEF TriageArtefactsHaveSource
  <2> QED
    BY <2>1, PTL
<1>4. CASE ~StoreMayFail
  <2>1. RecInv /\ SourceInv /\ [Next]_vars => SourceInv'
    BY <1>4, SourceStep
  <2> QED
    BY <1>1, <1>2, <2>1, RecordsHold, PTL DEF Spec
<1> QED
  BY <1>3, <1>4

-----------------------------------------------------------------------------
(* The row of a job nobody cancels *)

SavedAt(j) ==
  /\ cpc[j] = "idle"
  /\ pc[j] = "saving" => snap[j] = Snapshot(j)
  /\ ~SaveMayFail /\ pc[j] = "done" => row[j] = Snapshot(j)
SavedInv == \A j \in Jobs \ Cancellable : SavedAt(j)

LEMMA SavedStep == RecInv /\ SavedInv /\ [Next]_vars => SavedInv'
<1> SUFFICES ASSUME RecInv, SavedInv, [Next]_vars, NEW k \in Jobs \ Cancellable
             PROVE  SavedAt(k)'
  BY DEF SavedInv
<1>1. TypeOK /\ SavedAt(k)
  BY DEF RecInv, IInv, SavedInv
<1>2. ASSUME SameJob(k) PROVE SavedAt(k)'
  BY <1>1, <1>2 DEF SameJob, SavedAt, Snapshot
<1>3. CASE UNCHANGED vars \/ \E e \in Evidence : EvidenceDesk(e)
  <2>1. SameJob(k)
    BY <1>3 DEF vars, EvidenceDesk, SameJob, request, saves, cancels, world
  <2> QED
    BY <1>2, <2>1
<1>4. CASE Crash
  BY <1>4 DEF Crash, SavedAt
<1>5. ASSUME NEW j \in Jobs, j # k,
             Submission(j) \/ RunStep(j) \/ CancelJob(j) \/ CancelHydrated(j) \/ CancelStep(j)
      PROVE  SavedAt(k)'
  BY <1>1, <1>2, <1>5, StepsOfOthers
<1>6. ~CancelJob(k) /\ ~CancelHydrated(k) /\ ~CancelStep(k)
  BY <1>1 DEF CancelJob, CancelHydrated, CancelStep, CancelAudited, CancelReturns, SavedAt
<1>7. CASE Submission(k) \/ RunStep(k)
  <2>1. cpc' = cpc
    BY <1>7 DEF RunStep, Submission, Submit, OpenContext, SaveQueued, SubmitReturns, SaveStarts,
       SaveEnds, StartJob, StopCancelled, RunReturns, EnterStage, RefuseStage, CompleteJob,
       StageWorks, Deliver, AllParsersFail, AcquireRead, Move, AcquireShared, AcquireDone,
       AcquireWrite, FinaliseWrite, WriteEvidence, StageFails, FailStage, StageEnds,
       StageReturns, FailReturns, CompleteReturns, FinaliseRead, FinaliseAudited,
       RecordAnalysed, SaveResult, ResultSaved, StoreFails, cancels
  <2>2. CASE SaveResult(k)
    <3>1. pc'[k] = "saving" /\ snap'[k] = Snapshot(k) /\ status' = status /\ exec' = exec
      BY <1>1, <2>2 DEF SaveResult, SaveStarts, Goto, TypeOK
    <3> QED
      BY <1>1, <2>1, <3>1 DEF SavedAt, Snapshot
  <2>3. CASE ResultSaved(k)
    <3>1. /\ pc[k] = "saving" /\ pc'[k] = "done" /\ status' = status /\ exec' = exec
          /\ row'[k] = snap[k] \/ SaveMayFail
      BY <1>1, <2>3 DEF ResultSaved, SaveEnds, Goto, TypeOK
    <3> QED
      BY <1>1, <2>1, <3>1 DEF SavedAt, Snapshot
  <2>4. CASE ~SaveResult(k) /\ ~ResultSaved(k)
    <3>1. pc'[k] \notin {"saving", "done"}
      <4>1. CASE Hops(k)
        <5>1. ASSUME NEW from, NEW to, Leads(k, from, to), to \notin {"saving", "done"}
              PROVE  pc'[k] \notin {"saving", "done"}
          BY <1>1, <5>1 DEF Leads, TypeOK
        <5>2. ~Leads(k, "finishAudit", "saving") /\ ~Leads(k, "saving", "done")
          <6>1. CASE SaveQueued(k) \/ SubmitReturns(k)
            BY <6>1 DEF SaveQueued, SubmitReturns, SaveStarts, SaveEnds, Leads
          <6>2. CASE StopCancelled(k) \/ FailReturns(k) \/ CompleteReturns(k)
            BY <6>2 DEF StopCancelled, FailReturns, CompleteReturns, RunReturns, Leads, AtLoopHead
          <6>3. CASE AcquireWrite(k) \/ FinaliseWrite(k)
            BY <6>3 DEF AcquireWrite, FinaliseWrite, WriteEvidence, Leads
          <6>4. CASE AcquireRead(k) \/ FinaliseRead(k) \/ FinaliseAudited(k)
            BY <6>4 DEF AcquireRead, FinaliseRead, FinaliseAudited, Move, Leads
          <6>5. CASE StoreFails(k)
            <7>1. pc'[k] \in {"refused", "aborted"}
              BY <1>1, <6>5 DEF StoreFails, Move, Goto, TypeOK
            <7> QED
              BY <1>1, <7>1 DEF Leads, TypeOK
          <6> QED
            BY <2>4, <4>1, <6>1, <6>2, <6>3, <6>4, <6>5 DEF Hops
        <5> QED
          BY <1>1, <4>1, <5>1, <5>2, HopShape DEF StorePoints
      <4>2. CASE ~Hops(k)
        BY <1>1, <1>7, <4>2
        DEF RunStep, Hops, Submission, Submit, OpenContext, StartJob, EnterStage, RefuseStage,
            Refusal, CompleteJob, StageWorks, Deliver, AllParsersFail, AcquireShared,
            AcquireDone, StageFails, FailStage, StageEnds, StageReturns, RecordAnalysed, Goto,
            TypeOK
      <4> QED
        BY <4>1, <4>2
    <3> QED
      BY <1>1, <2>1, <3>1 DEF SavedAt
  <2> QED
    BY <2>2, <2>3, <2>4
<1> QED
  BY <1>3, <1>4, <1>5, <1>6, <1>7 DEF Next

\* When saves succeed, the row of a job that nobody may cancel and that ran to
\* its end is the job itself, with a terminal status.
THEOREM ResultRow == Spec => []ResultRowCurrent
<1>1. Init => SavedInv
  BY DEF Init, SavedInv, SavedAt
<1>2. RecInv /\ SavedInv => ResultRowCurrent
  <2> SUFFICES ASSUME RecInv, SavedInv, NEW j \in Jobs \ Cancellable, ~SaveMayFail,
                      pc[j] = "done"
               PROVE  row[j] = Snapshot(j) /\ row[j].status \in Terminal
    BY DEF ResultRowCurrent
  <2>1. SavedAt(j) /\ Rec(j)
    BY DEF SavedInv, RecInv
  <2>2. Settled(j)
    BY <2>1 DEF Rec, StatusAt, Finishing
  <2> QED
    BY <2>1, <2>2 DEF SavedAt, Settled, Snapshot
<1> QED
  BY <1>1, <1>2, SavedStep, RecordsHold, PTL DEF Spec

-----------------------------------------------------------------------------
(* The abstract job *)

OTotal(j) == IF pc[j] = "idle" THEN 0 ELSE Total(j)
ODone(j)  == IF pc[j] = "lost" THEN 0 ELSE Completed(j)

\* What JobOutcome sees of a job does not change.
SameView(k) ==
  OTotal(k)' = OTotal(k) /\ ODone(k)' = ODone(k) /\ Verdict(k)' = Verdict(k)

LEMMA SameJobSameView ==
  ASSUME NEW k \in Jobs, SameJob(k)
  PROVE  SameView(k)
<1>1. Completed(k)' = Completed(k)
  BY SameCount DEF SameJob
<1>2. Total(k)' = Total(k)
  BY DEF SameJob, Total, Plan
<1> QED
  BY <1>1, <1>2 DEF SameJob, SameView, OTotal, ODone, Verdict

\* A plan has at least one stage and no more than there are.
LEMMA PlanLength ==
  ASSUME NEW m \in Modes
  PROVE  Len(StagesOf[m]) \in 1..Cardinality(Stages)
<1> DEFINE n == Len(StagesOf[m])
           f == [i \in 1..n |-> StagesOf[m][i]]
<1>1. StagesOf[m] \in Seq(Stages) /\ StagesOf[m] # <<>> /\ n \in Nat
  BY StagesAssumption
<1>2. n > 0
  BY <1>1
<1>3. f \in Injection(1..n, Stages)
  BY <1>1, StageListFacts DEF Injection, IsInjective
<1>4. Cardinality(1..n) <= Cardinality(Stages)
  BY <1>3, StagesFinite, FS_Injection
<1>5. Cardinality(1..n) = n
  <2> HIDE DEF n
  <2>1. 1 \in Int /\ n \in Int /\ ~(1 > n) /\ n - 1 + 1 = n
    BY <1>1, <1>2
  <2>2. Cardinality(1..n) = IF 1 > n THEN 0 ELSE n - 1 + 1
    BY <2>1, FS_Interval
  <2> QED
    BY <2>1, <2>2
<1>6. Cardinality(Stages) \in Nat
  BY StagesFinite, FS_CardinalityType
<1> HIDE DEF n
<1>7. n \in 1..Cardinality(Stages)
  BY <1>1, <1>2, <1>4, <1>5, <1>6
<1> QED
  BY <1>7 DEF n

\* A change of one job's view is a step of the abstract job.
LEMMA ViewAccept ==
  ASSUME NEW j \in Jobs, NEW n \in 1..Cardinality(Stages),
         \A k \in Jobs : k # j => SameView(k),
         Verdict(j) = "none", Verdict(j)' = "pending", OTotal(j)' = n, ODone(j)' = ODone(j)
  PROVE  Outcome!Accept(j, n)
BY DEF Outcome!Accept, SameView, OTotal, ODone

LEMMA ViewAdvance ==
  ASSUME NEW j \in Jobs, \A k \in Jobs : k # j => SameView(k),
         Verdict(j) = "pending", Verdict(j)' = "pending", OTotal(j)' = OTotal(j),
         ODone(j) < OTotal(j), ODone(j)' = ODone(j) + 1
  PROVE  Outcome!Advance(j)
BY DEF Outcome!Advance, SameView, OTotal, ODone

LEMMA ViewDecide ==
  ASSUME NEW j \in Jobs, \A k \in Jobs : k # j => SameView(k),
         NEW v \in {"completed", "failed", "stopped", "abandoned"},
         Verdict(j) = "pending", Verdict(j)' = v,
         OTotal(j)' = OTotal(j), ODone(j)' = ODone(j),
         v = "completed" => ODone(j) = OTotal(j),
         v = "failed" => ODone(j) < OTotal(j),
         v = "stopped" => ODone(j) = 0
  PROVE  Outcome!Decide(j, v)
BY DEF Outcome!Decide, SameView, OTotal, ODone

LEMMA ViewStutter ==
  ASSUME \A k \in Jobs : SameView(k)
  PROVE  UNCHANGED Outcome!vars
BY DEF Outcome!vars, SameView, OTotal, ODone

\* The verdict before and after a step, by where the job is.
Apart == {"idle", "lost", "saving", "done", "refused", "aborted"}
Decided == {"completed", "failed"}

LEMMA VerdictNow ==
  ASSUME NEW j \in Jobs
  PROVE  /\ pc[j] = "idle" => Verdict(j) = "none"
         /\ pc[j] = "lost" => Verdict(j) = "lost"
         /\ pc[j] \notin Apart =>
              Verdict(j) = IF status[j] \in Decided THEN status[j] ELSE "pending"
         /\ pc[j] \in {"saving", "done"} =>
              Verdict(j) = IF status[j] \in Decided THEN status[j]
                           ELSE IF status[j] = "cancelled" THEN "stopped" ELSE "pending"
         /\ pc[j] \in {"refused", "aborted"} =>
              Verdict(j) = IF status[j] \in Decided THEN status[j] ELSE "abandoned"
BY DEF Verdict, Apart, Decided

LEMMA VerdictNext ==
  ASSUME NEW j \in Jobs
  PROVE  /\ pc'[j] = "idle" => Verdict(j)' = "none"
         /\ pc'[j] = "lost" => Verdict(j)' = "lost"
         /\ pc'[j] \notin Apart =>
              Verdict(j)' = IF status'[j] \in Decided THEN status'[j] ELSE "pending"
         /\ pc'[j] \in {"saving", "done"} =>
              Verdict(j)' = IF status'[j] \in Decided THEN status'[j]
                            ELSE IF status'[j] = "cancelled" THEN "stopped" ELSE "pending"
         /\ pc'[j] \in {"refused", "aborted"} =>
              Verdict(j)' = IF status'[j] \in Decided THEN status'[j] ELSE "abandoned"
BY DEF Verdict, Apart, Decided

\* The abstract job takes a step, or none.
Maps == Outcome!Next \/ UNCHANGED Outcome!vars

LEMMA NoView ==
  ASSUME NEW j \in Jobs, \A k \in Jobs : k # j => SameView(k), SameView(j)
  PROVE  Maps
BY ViewStutter DEF Maps

LEMMA DecideView ==
  ASSUME NEW j \in Jobs, \A k \in Jobs : k # j => SameView(k),
         NEW v \in {"completed", "failed", "stopped", "abandoned"},
         Verdict(j) = "pending", Verdict(j)' = v,
         OTotal(j)' = OTotal(j), ODone(j)' = ODone(j),
         v = "completed" => ODone(j) = OTotal(j),
         v = "failed" => ODone(j) < OTotal(j),
         v = "stopped" => ODone(j) = 0
  PROVE  Maps
<1>1. Outcome!Decide(j, v)
  BY ViewDecide
<1> QED
  BY <1>1 DEF Maps, Outcome!Next

\* Hops: a cancelled job stops when its result is about to be saved, a job
\* whose write raised is abandoned unless it has its verdict.
LEMMA HopsMap ==
  ASSUME RecInv, NEW j \in Jobs, Hops(j), \A k \in Jobs : k # j => SameView(k)
  PROVE  Maps
<1>1. TypeOK /\ Rec(j)
  BY DEF RecInv, IInv
<1>2. status' = status /\ mode' = mode /\ exec' = exec
  BY <1>1, HopShape
<1>3. Completed(j)' = Completed(j) /\ Total(j)' = Total(j)
  BY <1>2, SameCount DEF Total, Plan
<1>4. ASSUME NEW from, NEW to, Leads(j, from, to)
      PROVE  pc[j] = from /\ pc'[j] = to
  BY <1>1, <1>4 DEF Leads, TypeOK
<1>5. ASSUME pc[j] \notin {"idle", "lost"}, pc'[j] \notin {"idle", "lost"}
      PROVE  OTotal(j)' = OTotal(j) /\ ODone(j)' = ODone(j)
  BY <1>3, <1>5 DEF OTotal, ODone
<1>6. ASSUME pc[j] \notin Apart, pc'[j] \notin Apart PROVE Maps
  <2>1. Verdict(j)' = Verdict(j)
    BY <1>2, <1>6, VerdictNow, VerdictNext
  <2>2. pc[j] \notin {"idle", "lost"} /\ pc'[j] \notin {"idle", "lost"}
    BY <1>6 DEF Apart
  <2>3. SameView(j)
    BY <1>5, <2>1, <2>2 DEF SameView
  <2> QED
    BY <2>3, NoView
<1>7. CASE Leads(j, "finishAudit", "saving")
  <2>1. /\ pc[j] = "finishAudit" /\ pc'[j] = "saving" /\ Settled(j)
        /\ OTotal(j)' = OTotal(j) /\ ODone(j)' = ODone(j)
    BY <1>1, <1>4, <1>5, <1>7 DEF Rec, StatusAt, Finishing
  <2>2. CASE status[j] \in Decided
    <3>1. Verdict(j)' = Verdict(j)
      BY <1>2, <2>1, <2>2, VerdictNow, VerdictNext DEF Apart
    <3> QED
      BY <2>1, <3>1, NoView DEF SameView
  <2>3. CASE status[j] \notin Decided
    <3>1. status[j] = "cancelled" /\ exec[j] = NoExec
      BY <2>1, <2>3 DEF Settled, Terminal, Decided
    <3>2. Verdict(j) = "pending" /\ Verdict(j)' = "stopped"
      BY <1>2, <2>1, <3>1, VerdictNow, VerdictNext DEF Apart, Decided
    <3>3. ODone(j) = 0
      BY <2>1, <3>1, NothingDone DEF ODone
    <3> QED
      BY <2>1, <3>2, <3>3, DecideView
  <2> QED
    BY <2>2, <2>3
<1>8. CASE Leads(j, "saving", "done")
  <2>1. /\ pc[j] = "saving" /\ pc'[j] = "done"
        /\ OTotal(j)' = OTotal(j) /\ ODone(j)' = ODone(j)
    BY <1>4, <1>5, <1>8
  <2>2. Verdict(j)' = Verdict(j)
    BY <1>2, <2>1, VerdictNow, VerdictNext
  <2> QED
    BY <2>1, <2>2, NoView DEF SameView
<1>9. ASSUME NEW p \in StorePoints,
             Leads(j, p, IF p \in BeforeRun THEN "refused" ELSE "aborted")
      PROVE  Maps
  <2>1. /\ pc[j] \notin Apart /\ pc'[j] \in {"refused", "aborted"}
        /\ OTotal(j)' = OTotal(j) /\ ODone(j)' = ODone(j)
    BY <1>4, <1>5, <1>9 DEF StorePoints, Apart
  <2>2. CASE status[j] \in Decided
    <3>1. Verdict(j)' = Verdict(j)
      BY <1>2, <2>1, <2>2, VerdictNow, VerdictNext
    <3> QED
      BY <2>1, <3>1, NoView DEF SameView
  <2>3. CASE status[j] \notin Decided
    <3>1. Verdict(j) = "pending" /\ Verdict(j)' = "abandoned"
      BY <1>2, <2>1, <2>3, VerdictNow, VerdictNext
    <3> QED
      BY <2>1, <3>1, DecideView
  <2> QED
    BY <2>2, <2>3
<1> HIDE DEF Maps
<1>10. CASE \/ Leads(j, "startedAudit", "submitSave") \/ Leads(j, "submitSave", "submitted")
            \/ Leads(j, "acqWrite", "acqAudit") \/ Leads(j, "failAudit", "finishAudit")
            \/ Leads(j, "completeAudit", "finalise")
            \/ Leads(j, "finaliseWrite", "finaliseAudit")
            \/ Leads(j, "finaliseAudit", "analysis")
  <2>1. pc[j] \notin Apart /\ pc'[j] \notin Apart
    BY <1>4, <1>10 DEF Apart
  <2> QED
    BY <1>6, <2>1
<1>11. CASE \/ \E head \in AtLoopHead : Leads(j, head, "finishAudit")
            \/ \E to \in {"acqWrite", "acqRecheck"} : Leads(j, "executing", to)
            \/ \E to \in {"finaliseWrite", "analysis"} : Leads(j, "finalise", to)
  <2>1. pc[j] \notin Apart /\ pc'[j] \notin Apart
    BY <1>4, <1>11 DEF Apart, AtLoopHead
  <2> QED
    BY <1>6, <2>1
<1> QED
  BY <1>1, <1>7, <1>8, <1>9, <1>10, <1>11, HopShape

\* A submission is accepted; the context and the task's start show nothing.
LEMMA EarlyMap ==
  ASSUME RecInv, NEW j \in Jobs, Submission(j) \/ OpenContext(j) \/ StartJob(j),
         \A k \in Jobs : k # j => SameView(k)
  PROVE  Maps
<1>1. TypeOK /\ JobInv(j)
  BY DEF RecInv, IInv, RunnerInv
<1>2. CASE Submission(j)
  <2>1. PICK m \in Modes : /\ mode'[j] = m /\ pc[j] = "idle" /\ pc'[j] = "submitAudit"
                           /\ status'[j] = "queued" /\ exec' = exec
    BY <1>1, <1>2 DEF Submission, Submit, Goto, TypeOK
  <2>2. Verdict(j) = "none" /\ Verdict(j)' = "pending"
    BY <2>1, VerdictNow, VerdictNext DEF Apart, Decided
  <2>3. OTotal(j)' = Len(StagesOf[m]) /\ Len(StagesOf[m]) \in 1..Cardinality(Stages)
    BY <2>1, PlanLength DEF OTotal, Total, Plan
  <2>4. ODone(j)' = ODone(j)
    BY <2>1, SameCount DEF ODone
  <2>5. Outcome!Accept(j, Len(StagesOf[m]))
    BY <2>2, <2>3, <2>4, ViewAccept
  <2> QED
    BY <2>3, <2>5 DEF Maps, Outcome!Next
<1>3. CASE OpenContext(j) \/ StartJob(j)
  <2>1. /\ pc[j] \in {"submitAudit", "submitted"} /\ pc'[j] \in {"startedAudit", "startAudit"}
        /\ mode' = mode /\ exec' = exec /\ status'[j] \in {status[j], "running"}
    BY <1>1, <1>3 DEF OpenContext, StartJob, Goto, request, TypeOK
  <2>2. status[j] \notin Decided
    BY <1>1, <2>1 DEF JobInv, Untouched, Decided
  <2>3. Completed(j)' = Completed(j) /\ Total(j)' = Total(j)
    BY <2>1, SameCount DEF Total, Plan
  <2>4. pc[j] \notin Apart /\ pc'[j] \notin Apart /\ status'[j] \notin Decided
    BY <2>1, <2>2 DEF Apart, Decided
  <2>5. Verdict(j)' = Verdict(j)
    BY <2>2, <2>4, VerdictNow, VerdictNext
  <2>6. OTotal(j)' = OTotal(j) /\ ODone(j)' = ODone(j)
    BY <2>3, <2>4 DEF OTotal, ODone, Apart
  <2> QED
    BY <2>5, <2>6, NoView DEF SameView
<1> QED
  BY <1>2, <1>3

\* Entering a stage shows nothing; a refused stage fails the job before its
\* last stage; a job completes with all its stages worked off.
LEMMA LoopMap ==
  ASSUME RecInv, NEW j \in Jobs, EnterStage(j) \/ RefuseStage(j) \/ CompleteJob(j),
         \A k \in Jobs : k # j => SameView(k)
  PROVE  Maps
<1>1. TypeOK /\ IInv /\ JobInv(j) /\ pc[j] \in AtLoopHead
  BY DEF RecInv, IInv, RunnerInv, EnterStage, RefuseStage, CompleteJob, MoreStages
<1>2. status[j] \notin Decided /\ pc[j] \notin Apart
  BY <1>1 DEF JobInv, Decided, Apart, AtLoopHead
<1>3. /\ pc'[j] \in {"executing", "failAudit", "completeAudit"} /\ mode' = mode
      /\ pc'[j] \notin Apart
  BY <1>1 DEF EnterStage, RefuseStage, Refusal, CompleteJob, Goto, request, TypeOK, Apart
<1>4. Verdict(j) = "pending"
  BY <1>2, VerdictNow
<1>5. Total(j)' = Total(j) /\ Completed(j) = pos[j] /\ pos[j] \in Nat /\ Total(j) \in Nat
  BY <1>1, <1>3, HeadCount, PlanFacts DEF Total, Plan, TypeOK
<1>6. /\ OTotal(j)' = OTotal(j) /\ OTotal(j) = Total(j)
      /\ ODone(j) = Completed(j) /\ ODone(j)' = Completed(j)'
  BY <1>2, <1>3, <1>5 DEF OTotal, ODone, Apart
<1>7. ASSUME EnterStage(j) \/ RefuseStage(j) PROVE Completed(j)' = Completed(j) /\ pos[j] < Total(j)
  <2>1. MoreStages(j) /\ pos[j] < Total(j)
    BY <1>7 DEF EnterStage, RefuseStage, MoreStages
  <2>2. Following(j) \in Stages /\ pos[j] + 1 \in 1..Total(j)
    BY <1>1, <2>1, FollowingIsStage
  <2>3. exec[j][Following(j)] = "none"
    BY <1>1, <1>5, <2>2, AtHead DEF Following
  <2>4. \E e \in {"running", "failed"} : exec' = [exec EXCEPT ![j][Following(j)] = e]
    BY <1>7 DEF EnterStage, RefuseStage, Refusal
  <2>5. \A s \in Stages : exec'[j][s] = "completed" <=> exec[j][s] = "completed"
    BY <1>1, <2>2, <2>3, <2>4 DEF TypeOK
  <2> QED
    BY <2>1, <2>5, SameDone
<1>8. CASE EnterStage(j)
  <2>1. status'[j] = "running"
    BY <1>1, <1>8 DEF EnterStage, TypeOK
  <2>2. Verdict(j)' = "pending"
    BY <1>3, <2>1, VerdictNext DEF Decided
  <2> QED
    BY <1>4, <1>6, <1>7, <1>8, <2>2, NoView DEF SameView
<1>9. CASE RefuseStage(j)
  <2>1. status'[j] = "failed"
    BY <1>1, <1>9 DEF RefuseStage, Refusal, TypeOK
  <2>2. Verdict(j)' = "failed"
    BY <1>3, <2>1, VerdictNext DEF Decided
  <2>3. ODone(j) < OTotal(j) /\ ODone(j)' = ODone(j)
    BY <1>5, <1>6, <1>7, <1>9
  <2> QED
    BY <1>4, <1>6, <2>2, <2>3, DecideView
<1>10. CASE CompleteJob(j)
  <2>1. status'[j] = "completed" /\ exec' = exec /\ pos[j] = Total(j)
    BY <1>1, <1>10 DEF CompleteJob, AllWorked, TypeOK
  <2>2. Verdict(j)' = "completed"
    BY <1>3, <2>1, VerdictNext DEF Decided
  <2>3. ODone(j) = OTotal(j) /\ ODone(j)' = ODone(j)
    BY <1>5, <1>6, <2>1, SameCount
  <2> QED
    BY <1>4, <1>6, <2>2, <2>3, DecideView
<1> QED
  BY <1>8, <1>9, <1>10

\* A handler's own steps show nothing; a stage that succeeded is one more.
LEMMA StageMap ==
  ASSUME RecInv, NEW j \in Jobs,
         StageWorks(j) \/ AllParsersFail(j) \/ AcquireShared(j) \/ AcquireDone(j)
           \/ StageFails(j) \/ StageReturns(j),
         \A k \in Jobs : k # j => SameView(k)
  PROVE  Maps
<1>1. TypeOK /\ pc[j] \in InStage
  BY DEF RecInv, IInv, StageWorks, AllParsersFail, AcquireShared, AcquireDone, StageFails,
     StageReturns, InStage
<1>2. /\ Completed(j) \in Nat /\ Total(j) \in Nat /\ Completed(j) < Total(j)
      /\ Cur(j) \in Stages /\ exec[j][Cur(j)] = "running"
      /\ status[j] \notin Decided /\ pc[j] \notin Apart
  BY <1>1, StageCount DEF Decided, Apart, InStage
<1>3. /\ pc'[j] \in {"stageDone", "stageFailing", "failAudit", "stageAudit"} /\ mode' = mode
      /\ pc'[j] \notin Apart
  BY <1>1 DEF StageWorks, AllParsersFail, AcquireShared, AcquireDone, Deliver, StageFails,
     FailStage, StageReturns, StageEnds, Goto, request, TypeOK, Apart
<1>4. Verdict(j) = "pending" /\ Total(j)' = Total(j)
  BY <1>2, <1>3, VerdictNow DEF Total, Plan
<1>5. /\ OTotal(j)' = OTotal(j) /\ OTotal(j) = Total(j)
      /\ ODone(j) = Completed(j) /\ ODone(j)' = Completed(j)'
  BY <1>2, <1>3, <1>4 DEF OTotal, ODone, Apart
<1>6. CASE StageWorks(j) \/ AllParsersFail(j) \/ AcquireShared(j) \/ AcquireDone(j)
  <2>1. status' = status /\ exec' = exec
    BY <1>6 DEF StageWorks, AllParsersFail, AcquireShared, AcquireDone, Deliver
  <2>2. Verdict(j)' = "pending" /\ Completed(j)' = Completed(j)
    BY <1>2, <1>3, <2>1, VerdictNext, SameCount
  <2> QED
    BY <1>4, <1>5, <2>2, NoView DEF SameView
<1>7. CASE StageFails(j)
  <2>1. status'[j] = "failed" /\ exec' = [exec EXCEPT ![j][Cur(j)] = "failed"]
    BY <1>1, <1>7 DEF StageFails, FailStage, StageEnds, TypeOK
  <2>2. \A s \in Stages : exec'[j][s] = "completed" <=> exec[j][s] = "completed"
    BY <1>1, <1>2, <2>1 DEF TypeOK
  <2>3. Verdict(j)' = "failed" /\ Completed(j)' = Completed(j)
    BY <1>3, <2>1, <2>2, VerdictNext, SameDone DEF Decided
  <2> QED
    BY <1>2, <1>4, <1>5, <2>3, DecideView
<1>8. CASE StageReturns(j)
  <2>1. status'[j] = "stage_complete" /\ exec' = [exec EXCEPT ![j][Cur(j)] = "completed"]
    BY <1>1, <1>8 DEF StageReturns, StageEnds, TypeOK
  <2>2. /\ exec'[j][Cur(j)] = "completed"
        /\ \A s \in Stages : s # Cur(j) => exec'[j][s] = exec[j][s]
    BY <1>1, <1>2, <2>1 DEF TypeOK
  <2>3. Verdict(j)' = "pending" /\ Completed(j)' = Completed(j) + 1
    BY <1>2, <1>3, <2>1, <2>2, VerdictNext, OneMoreDone DEF Decided
  <2>4. Outcome!Advance(j)
    BY <1>2, <1>4, <1>5, <2>3, ViewAdvance
  <2> QED
    BY <2>4 DEF Maps, Outcome!Next
<1> QED
  BY <1>6, <1>7, <1>8

\* The custody record and cancels show nothing.
LEMMA QuietMap ==
  ASSUME RecInv, NEW j \in Jobs,
         RecordAnalysed(j) \/ CancelJob(j) \/ CancelHydrated(j) \/ CancelStep(j),
         \A k \in Jobs : k # j => SameView(k)
  PROVE  Maps
<1>1. TypeOK /\ Rec(j) /\ JobInv(j)
  BY DEF RecInv, IInv, RunnerInv
<1>2. mode' = mode /\ Total(j)' = Total(j)
  BY DEF RecordAnalysed, CancelJob, CancelHydrated, CancelStep, CancelAudited, CancelReturns,
     request, Total, Plan
<1>3. CASE RecordAnalysed(j)
  <2>1. /\ status' = status /\ exec' = exec /\ pc[j] = "analysis" /\ pc'[j] = "finishAudit"
        /\ pc[j] \notin Apart /\ pc'[j] \notin Apart
    BY <1>1, <1>3 DEF RecordAnalysed, Goto, TypeOK, Apart
  <2>2. Completed(j)' = Completed(j) /\ Verdict(j)' = Verdict(j)
    BY <2>1, SameCount, VerdictNow, VerdictNext
  <2> QED
    BY <1>2, <2>1, <2>2, NoView DEF SameView, OTotal, ODone
<1>4. CASE CancelHydrated(j)
  <2>1. pc[j] = "lost" /\ pc' = pc
    BY <1>1, <1>4 DEF CancelHydrated, JobInv, LoopPosition
  <2>2. Verdict(j) = "lost" /\ Verdict(j)' = "lost"
    BY <2>1, VerdictNow, VerdictNext
  <2> QED
    BY <1>2, <2>1, <2>2, NoView DEF SameView, OTotal, ODone
<1>5. CASE CancelStep(j)
  <2>1. status' = status /\ exec' = exec /\ pc' = pc
    BY <1>5 DEF CancelStep, CancelAudited, CancelReturns
  <2>2. Completed(j)' = Completed(j) /\ Verdict(j)' = Verdict(j)
    BY <2>1, SameCount DEF Verdict
  <2> QED
    BY <1>2, <2>1, <2>2, NoView DEF SameView, OTotal, ODone
<1>6. CASE CancelJob(j)
  <2>1. /\ exec' = exec /\ pc' = pc /\ status[j] \in {"queued", "running"}
        /\ status'[j] = "cancelled"
    BY <1>1, <1>6 DEF CancelJob, CancelFrom, TypeOK
  <2>2. pc[j] \notin {"idle", "saving", "done"}
    BY <1>1, <2>1 DEF Rec, StatusAt, Settled, Terminal, Finishing, JobInv, LoopPosition
  <2>3. pc[j] \notin Apart \/ pc[j] \in {"lost", "refused", "aborted"}
    BY <2>2 DEF Apart
  <2>4. Completed(j)' = Completed(j) /\ Verdict(j)' = Verdict(j)
    BY <2>1, <2>3, SameCount, VerdictNow, VerdictNext DEF Decided
  <2> QED
    BY <1>2, <2>1, <2>4, NoView DEF SameView, OTotal, ODone
<1> QED
  BY <1>3, <1>4, <1>5, <1>6

\* A death of the process loses every accepted job.
LEMMA CrashMap ==
  ASSUME RecInv, Crash
  PROVE  Maps
<1>1. ASSUME NEW j \in Jobs
      PROVE  /\ OTotal(j)' = OTotal(j) /\ ODone(j)' = 0
             /\ Verdict(j)' = IF Verdict(j) = "none" THEN "none" ELSE "lost"
  <2>1. /\ exec'[j] = NoExec /\ mode' = mode
        /\ pc'[j] = IF pc[j] = "idle" THEN "idle" ELSE "lost"
    BY DEF Crash, request
  <2>2. Total(j)' = Total(j) /\ Completed(j)' = 0
    BY <2>1, NothingDoneNext DEF Total, Plan
  <2>3. JobInv(j) /\ TypeOK
    BY DEF RecInv, IInv, RunnerInv
  <2>4. Verdict(j) = "none" <=> pc[j] = "idle"
    BY VerdictNow DEF Apart, Decided
  <2> QED
    BY <2>1, <2>2, <2>4, VerdictNext DEF OTotal, ODone
<1>2. Outcome!Lose
  BY <1>1 DEF Outcome!Lose, OTotal, ODone
<1> QED
  BY <1>2 DEF Maps, Outcome!Next

\* Every behaviour of the jobs is one of the abstract job: cancels, failed
\* writes, late saves and deaths of the process never produce a verdict or a
\* count that JobOutcome does not allow.
THEOREM OutcomeImplemented == Spec => ImplementsOutcome
<1>1. Init => Outcome!Init
  <2> SUFFICES ASSUME Init, NEW j \in Jobs
      PROVE  OTotal(j) = 0 /\ ODone(j) = 0 /\ Verdict(j) = "none"
    BY DEF Outcome!Init, OTotal, ODone
  <2>1. pc[j] = "idle" /\ exec[j] = NoExec
    BY DEF Init
  <2>2. Completed(j) = 0
    BY <2>1, NothingDone
  <2> QED
    BY <2>1, <2>2, VerdictNow DEF OTotal, ODone
<1>2. RecInv /\ [Next]_vars => [Outcome!Next]_(Outcome!vars)
  <2> SUFFICES ASSUME RecInv, [Next]_vars PROVE Maps
    BY DEF Maps
  <2>1. TypeOK
    BY DEF RecInv, IInv
  <2>2. CASE UNCHANGED vars \/ \E e \in Evidence : EvidenceDesk(e)
    <3>1. \A k \in Jobs : SameJob(k)
      BY <2>2 DEF vars, EvidenceDesk, SameJob, request, saves, cancels, world
    <3>2. \A k \in Jobs : SameView(k)
      BY <3>1, SameJobSameView
    <3> QED
      BY <3>2, ViewStutter DEF Maps
  <2>3. CASE Crash
    BY <2>3, CrashMap
  <2>4. ASSUME NEW j \in Jobs,
               Submission(j) \/ RunStep(j) \/ CancelJob(j) \/ CancelHydrated(j)
                 \/ CancelStep(j)
        PROVE  Maps
    <3>1. \A k \in Jobs : k # j => SameView(k)
      BY <2>1, <2>4, StepsOfOthers, SameJobSameView
    <3> QED
      BY <2>4, <3>1, HopsMap, EarlyMap, LoopMap, StageMap, QuietMap DEF RunStep, Hops
  <2> QED
    BY <2>2, <2>3, <2>4 DEF Next
<1> QED
  BY <1>1, <1>2, RecordsHold, PTL DEF Spec, ImplementsOutcome, Outcome!Spec
==============================================================================
