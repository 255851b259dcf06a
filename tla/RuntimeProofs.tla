----------------------------- MODULE RuntimeProofs -----------------------------
(***************************************************************************)
(* Proofs about Runtime for any tasks, restart requests, jobs and loops,   *)
(* in the second part about Startup, the boot before them, and then about  *)
(* what three of the tasks do: Learning, the hourly retrainer,             *)
(* ThreatIntel, the rules that a boot and the feeds load, and Health, the  *)
(* probes of the services and what a request for readiness is told.        *)
(*                                                                         *)
(* A task that no two restarts waited for has one live loop at most. While *)
(* the stop event is clear that is the one in the dictionary; after it a   *)
(* loop created too late never enters its body. So what the dictionary     *)
(* does not hold does not run, which is what stop_all relies on.           *)
(***************************************************************************)
EXTENDS Runtime, Sequences, FiniteSetTheorems, NaturalsInduction, WellFoundedInduction, TLAPS

Waits(r) == restart[r].pc = "waiting"
PastStop == {"stopping", "draining", "flushing", "flushed", "done", "raised"}

\* At most one loop, one waiting restart, and that waits for the loop; a loop
\* that runs, or still may, is the one in the dictionary.
TaskInv(n) ==
  /\ \A k, l \in Loops : Live(k) /\ Live(l) /\ loop[k].name = n /\ loop[l].name = n => k = l
  /\ \A q, r \in Restarts : Waits(q) /\ Waits(r) /\ TaskOf[q] = n /\ TaskOf[r] = n => q = r
  /\ \A r \in Restarts, l \in Loops :
       Waits(r) /\ TaskOf[r] = n /\ Live(l) /\ loop[l].name = n => l = restart[r].on
  /\ \A l \in Loops : Live(l) /\ loop[l].name = n /\ (Busy(l) \/ ~stopEvent) => l = tracked[n]
  /\ \A r \in Restarts : Waits(r) /\ TaskOf[r] = n /\ ~stopEvent => restart[r].on = tracked[n]

LoopInv ==
  /\ \A n \in Names : n \notin overlapped => TaskInv(n)
  /\ \A r \in Restarts : Waits(r) => restart[r].on \in Loops
  /\ ~stopEvent => \A n \in Names : tracked[n] # NoLoop
  /\ \A h \in Handlers : shut[h].pc \in PastStop => stopEvent
  /\ \A h \in Handlers, l \in Loops :
       shut[h].pc = "stopping" /\ Busy(l) /\ loop[l].name \notin overlapped => l \in shut[h].on
  /\ QuietAfterStopAll
  /\ StatusTruthful

\* Nobody submits a job once the lifespan's handler has begun, so none is active
\* when its wait for them ended early.
PoolInv ==
  /\ shut["lifespan"].pc \in {"flushing", "flushed"} /\ ~shut["lifespan"].expired => ActiveJobs = {}
  /\ DisposedUnderJob

IInv == Sensible /\ TypeOK /\ LoopInv /\ PoolInv

-----------------------------------------------------------------------------
(* Types                                                                   *)

LoopType == [name : Names, pc : LoopPCs, cancelled : BOOLEAN]
RestartType == [pc : RestartPCs, on : Loops \cup {NoLoop}]
ShutType == [pc : ShutPCs, on : SUBSET Loops, expired : BOOLEAN]

\* What happens to one loop, and to the rest of it.
LEMMA LoopShape ==
  ASSUME TypeOK, NEW l \in Loops, LoopStep(l)
  PROVE  \E p \in {"work", "sleep", "done"} :
           /\ loop' = [loop EXCEPT ![l].pc = p] /\ Live(l)
           /\ p = "done" \/ (~stopEvent /\ ~loop[l].cancelled)
           /\ \/ p = "done" /\ In(l, "new") /\ isRunning' = isRunning
              \/ p = "done" /\ isRunning' = [isRunning EXCEPT ![loop[l].name] = FALSE]
              \/ p = "work" /\ In(l, "new") /\ isRunning' = [isRunning EXCEPT ![loop[l].name] = TRUE]
              \/ p # "done" /\ Busy(l) /\ isRunning' = isRunning
           /\ UNCHANGED <<stopEvent, tracked, restart, shut, job, engine, overlapped>>
<1>1. CASE LoopNeverRuns(l)
  BY <1>1 DEF LoopStep, LoopNeverRuns, In, Live
<1>2. CASE LoopStarts(l)
  BY <1>2 DEF LoopStep, LoopStarts, In, Live, TypeOK
<1>3. CASE LoopSleeps(l)
  BY <1>3 DEF LoopStep, LoopSleeps, In, Live, Busy
<1>4. CASE LoopWakes(l)
  BY <1>4 DEF LoopStep, LoopWakes, In, Live, Busy
<1>5. CASE LoopEnds(l)
  BY <1>5 DEF LoopStep, LoopEnds, In, Live, Busy
<1> QED
  BY <1>1, <1>2, <1>3, <1>4, <1>5 DEF LoopStep

LEMMA LoopTypes ==
  ASSUME Sensible, TypeOK, NEW l \in Loops, LoopStep(l)
  PROVE  TypeOK'
<1>1. PICK p \in {"work", "sleep", "done"} :
        /\ loop' = [loop EXCEPT ![l].pc = p]
        /\ \/ isRunning' = isRunning
           \/ \E b \in BOOLEAN : isRunning' = [isRunning EXCEPT ![loop[l].name] = b]
        /\ UNCHANGED <<stopEvent, tracked, restart, shut, job, engine, overlapped>>
  BY LoopShape
<1>2. loop' \in [Loops -> [name : Names, pc : LoopPCs, cancelled : BOOLEAN]]
  BY <1>1 DEF TypeOK, LoopPCs
<1>3. isRunning' \in [Names -> BOOLEAN]
  BY <1>1 DEF TypeOK
<1> QED
  BY <1>1, <1>2, <1>3 DEF TypeOK

\* A cancelled loop is where it was.
LEMMA StopShape ==
  ASSUME TypeOK, NEW l \in Loops
  PROVE  Stop(l) \in LoopType /\ Stop(l).name = loop[l].name /\ Stop(l).pc = loop[l].pc
<1>1. loop[l] \in LoopType
  BY DEF TypeOK, LoopType
<1> QED
  BY <1>1 DEF Stop, LoopType

\* The loop a restart creates was none before.
LEMMA FreshIsFree ==
  ASSUME Free # {}
  PROVE  Fresh \in Loops /\ In(Fresh, "none")
  BY DEF Free, Fresh

LEMMA RestartTypes ==
  ASSUME Sensible, TypeOK, NEW r \in Restarts, RestartCall(r) \/ RestartCreate(r)
  PROVE  TypeOK'
<1>0. TaskOf[r] \in Names
  BY DEF Sensible
<1>1. CASE RestartCreate(r)
  <2>1. Fresh \in Loops
    BY <1>1, FreshIsFree DEF RestartCreate
  <2>2. PICK f \in Loops : f = Fresh
    BY <2>1
  <2>3. New(TaskOf[r]) \in LoopType
    BY <1>0 DEF New, LoopType, LoopPCs
  <2>4. /\ loop' = [loop EXCEPT ![f] = New(TaskOf[r])]
        /\ tracked' = [tracked EXCEPT ![TaskOf[r]] = f]
        /\ isRunning' = [isRunning EXCEPT ![TaskOf[r]] = FALSE]
        /\ restart' = [restart EXCEPT ![r].pc = "done"]
        /\ UNCHANGED <<stopEvent, shut, job, engine, overlapped>>
    BY <1>1, <2>2 DEF RestartCreate
  <2>5. loop' \in [Loops -> LoopType]
    BY <2>3, <2>4 DEF TypeOK, LoopType
  <2>6. restart' \in [Restarts -> RestartType]
    BY <2>4 DEF TypeOK, RestartType, RestartPCs
  <2> QED
    BY <2>4, <2>5, <2>6 DEF TypeOK, LoopType, RestartType
<1>2. CASE RestartCall(r)
  <2>1. \/ restart' = [restart EXCEPT ![r].pc = "refused"] /\ UNCHANGED <<loop, overlapped>>
        \/ /\ tracked[TaskOf[r]] \in Loops
           /\ restart' = [restart EXCEPT ![r] = [pc |-> "waiting", on |-> tracked[TaskOf[r]]]]
           /\ loop' = [loop EXCEPT ![tracked[TaskOf[r]]] = Stop(tracked[TaskOf[r]])]
           /\ overlapped' = overlapped \cup
               {TaskOf[q] : q \in {p \in Restarts : restart[p] = [pc |-> "waiting", on |-> tracked[TaskOf[r]]]}}
    BY <1>0, <1>2 DEF RestartCall, TypeOK
  <2>2. restart' \in [Restarts -> RestartType]
    <3>1. restart \in [Restarts -> RestartType] /\ restart[r] \in RestartType
      BY DEF TypeOK, RestartType
    <3>2. [restart[r] EXCEPT !.pc = "refused"] \in RestartType
      BY <3>1 DEF RestartType, RestartPCs
    <3>3. tracked[TaskOf[r]] \in Loops => [pc |-> "waiting", on |-> tracked[TaskOf[r]]] \in RestartType
      BY DEF RestartType, RestartPCs
    <3> QED
      BY <2>1, <3>1, <3>2, <3>3
  <2>3. loop' \in [Loops -> LoopType]
    <3>1. loop \in [Loops -> LoopType]
      BY DEF TypeOK, LoopType
    <3> QED
      BY <2>1, <3>1, StopShape
  <2>4. overlapped' \subseteq Names
    BY <2>1 DEF TypeOK, Sensible
  <2>5. UNCHANGED <<stopEvent, tracked, isRunning, shut, job, engine>>
    BY <1>2 DEF RestartCall
  <2> QED
    BY <2>2, <2>3, <2>4, <2>5 DEF TypeOK, LoopType, RestartType
<1> QED
  BY <1>1, <1>2

LEMMA ShutTypes ==
  ASSUME Sensible, TypeOK, NEW h \in Handlers, ShutdownCall(h) \/ ShutStep(h)
  PROVE  TypeOK'
<1> USE DEF TypeOK, ShutPCs, Goto, tasks
<1>1. CASE ShutdownCall(h)
  BY <1>1 DEF ShutdownCall
<1>2. CASE StopAll(h)
  <2>1. Tracked \subseteq Loops
    BY DEF Tracked
  <2>2. loop' \in [Loops -> LoopType]
    <3>1. loop \in [Loops -> LoopType] /\ \A l \in Loops : Stop(l) \in LoopType
      BY StopShape DEF LoopType
    <3> HIDE DEF TypeOK
    <3> QED
      BY <1>2, <3>1 DEF StopAll
  <2>3. shut' \in [Handlers -> ShutType]
    BY <1>2, <2>1 DEF StopAll, ShutType
  <2> QED
    BY <1>2, <2>2, <2>3 DEF StopAll, LoopType, ShutType
<1>3. CASE Stopped(h)
  BY <1>3 DEF Stopped, Cleared
<1>4. CASE Drained(h) \/ DrainExpires(h) \/ FlushAudit(h)
  <2>1. shut \in [Handlers -> ShutType] /\ shut[h] \in ShutType
    BY DEF ShutType
  <2>2. /\ \A p \in ShutPCs : [shut[h] EXCEPT !.pc = p] \in ShutType
        /\ [shut[h] EXCEPT !.pc = "flushing", !.expired = TRUE] \in ShutType
    BY <2>1 DEF ShutType
  <2>3. /\ \E e \in ShutType : shut' = [shut EXCEPT ![h] = e]
        /\ UNCHANGED <<stopEvent, tracked, loop, isRunning, restart, overlapped, job, engine>>
    <3>1. CASE Drained(h)
      BY <2>1, <2>2, <3>1 DEF Drained
    <3>2. CASE DrainExpires(h)
      BY <2>1, <2>2, <3>2 DEF DrainExpires
    <3>3. CASE FlushAudit(h)
      BY <2>1, <2>2, <3>3 DEF FlushAudit
    <3> QED
      BY <1>4, <3>1, <3>2, <3>3
  <2> QED
    BY <2>1, <2>3 DEF ShutType
<1>5. CASE Dispose(h)
  <2>1. engine' \in [by : SUBSET Handlers, under : SUBSET Jobs]
    BY <1>5 DEF Dispose, ActiveJobs
  <2> QED
    BY <1>5, <2>1 DEF Dispose
<1> QED
  BY <1>1, <1>2, <1>3, <1>4, <1>5 DEF ShutStep

LEMMA JobTypes ==
  ASSUME TypeOK, NEW j \in Jobs, JobSubmitted(j) \/ JobMoves(j)
  PROVE  TypeOK'
  BY DEF TypeOK, JobSubmitted, JobMoves, JobStatuses, tasks

-----------------------------------------------------------------------------
(* Steps of a loop                                                         *)

LEMMA LoopStepInv ==
  ASSUME Sensible, TypeOK, LoopInv, NEW l \in Loops, LoopStep(l)
  PROVE  LoopInv'
<1>1. PICK p \in {"work", "sleep", "done"} :
        /\ loop' = [loop EXCEPT ![l].pc = p] /\ Live(l)
        /\ p = "done" \/ (~stopEvent /\ ~loop[l].cancelled)
        /\ \/ p = "done" /\ In(l, "new") /\ isRunning' = isRunning
           \/ p = "done" /\ isRunning' = [isRunning EXCEPT ![loop[l].name] = FALSE]
           \/ p = "work" /\ In(l, "new") /\ isRunning' = [isRunning EXCEPT ![loop[l].name] = TRUE]
           \/ p # "done" /\ Busy(l) /\ isRunning' = isRunning
        /\ UNCHANGED <<stopEvent, tracked, restart, shut, job, engine, overlapped>>
  BY LoopShape
<1>2. /\ loop'[l].pc = p /\ loop'[l].name = loop[l].name
      /\ \A k \in Loops : k # l => loop'[k] = loop[k]
      /\ \A k \in Loops : loop'[k].name = loop[k].name /\ loop[k].name \in Names
  BY <1>1 DEF TypeOK
<1>3. \A k \in Loops : Live(k)' => Live(k)
  BY <1>1, <1>2 DEF Live
<1>4. \A k \in Loops : Busy(k)' => Busy(k) \/ (k = l /\ ~stopEvent)
  BY <1>1, <1>2 DEF Busy
<1>5. \A k \in Loops : Busy(k) => Live(k)
  BY DEF Busy, Live
<1>6. ASSUME NEW n \in Names, n \notin overlapped
      PROVE  TaskInv(n)'
  <2>1. TaskInv(n)
    BY <1>6 DEF LoopInv
  <2>2. \A j, k \in Loops : Live(j)' /\ Live(k)' /\ loop'[j].name = n /\ loop'[k].name = n => j = k
    BY <1>2, <1>3, <2>1 DEF TaskInv
  <2>3. \A k \in Loops : Live(k)' /\ loop'[k].name = n /\ (Busy(k)' \/ ~stopEvent) => k = tracked[n]
    BY <1>2, <1>3, <1>4, <2>1 DEF TaskInv
  <2>4. \A r \in Restarts : Waits(r)' <=> Waits(r)
    BY <1>1 DEF Waits
  <2> QED
    BY <1>1, <1>2, <1>3, <2>1, <2>2, <2>3, <2>4 DEF TaskInv
<1>7. \A h \in Handlers, k \in Loops :
        shut[h].pc = "stopping" /\ Busy(k)' /\ loop[k].name \notin overlapped => k \in shut[h].on
  <2>1. \A h \in Handlers : shut[h].pc = "stopping" => stopEvent
    BY DEF LoopInv, PastStop
  <2> QED
    BY <1>4, <2>1 DEF LoopInv
<1>8. QuietAfterStopAll'
  <2>1. \A h \in Handlers : shut[h].pc \in PastStop => stopEvent
    BY DEF LoopInv
  <2>2. \A h \in Handlers : shut[h].pc \in {"draining", "flushing", "flushed", "done", "raised"} =>
          \A k \in Loops : Busy(k)' => loop[k].name \in overlapped
    BY <1>4, <2>1 DEF LoopInv, QuietAfterStopAll, PastStop
  <2> QED
    BY <1>1, <1>2, <2>2 DEF QuietAfterStopAll
<1>9. RunningMeansLoop'
  <2>1. ASSUME NEW n \in Names, isRunning'[n]
        PROVE  \E k \in Loops : Busy(k)' /\ loop'[k].name = n
    <3>1. CASE isRunning' = isRunning
      <4>1. PICK k \in Loops : Busy(k) /\ loop[k].name = n
        BY <2>1, <3>1 DEF LoopInv, StatusTruthful, RunningMeansLoop
      <4>2. k # l \/ p # "done" \/ isRunning' = [isRunning EXCEPT ![loop[l].name] = FALSE]
        BY <1>1, <4>1 DEF Busy, In
      <4>3. ~(k = l /\ isRunning' = [isRunning EXCEPT ![loop[l].name] = FALSE])
        BY <2>1, <4>1 DEF TypeOK
      <4>4. Busy(k)'
        BY <1>2, <1>1, <4>1, <4>2, <4>3 DEF Busy
      <4> QED
        BY <1>2, <4>1, <4>4
    <3>2. CASE isRunning' = [isRunning EXCEPT ![loop[l].name] = FALSE]
      <4>1. n # loop[l].name /\ isRunning[n]
        BY <2>1, <3>2 DEF TypeOK
      <4>2. PICK k \in Loops : Busy(k) /\ loop[k].name = n
        BY <4>1 DEF LoopInv, StatusTruthful, RunningMeansLoop
      <4>3. k # l /\ Busy(k)'
        BY <1>2, <4>1, <4>2 DEF Busy
      <4> QED
        BY <1>2, <4>2, <4>3
    <3>3. CASE p = "work" /\ isRunning' = [isRunning EXCEPT ![loop[l].name] = TRUE]
      <4>1. CASE n = loop[l].name
        BY <1>2, <3>3, <4>1 DEF Busy
      <4>2. CASE n # loop[l].name
        <5>1. PICK k \in Loops : Busy(k) /\ loop[k].name = n
          BY <2>1, <3>3, <4>2 DEF LoopInv, StatusTruthful, RunningMeansLoop, TypeOK
        <5>2. k # l /\ Busy(k)'
          BY <1>2, <4>2, <5>1 DEF Busy
        <5> QED
          BY <1>2, <5>1, <5>2
      <4> QED
        BY <4>1, <4>2
    <3> QED
      BY <1>1, <3>1, <3>2, <3>3
  <2> QED
    BY <2>1 DEF RunningMeansLoop
<1>10. StoppedMeansNoLoop'
  <2>1. ASSUME NEW k \in Loops, Busy(k)', loop[k].name \notin overlapped
        PROVE  isRunning'[loop[k].name]
    <3>1. loop[k].name \in Names /\ TaskInv(loop[k].name) /\ Live(k)'
      BY <1>2, <2>1 DEF LoopInv, Busy, Live
    <3>2. Live(k)
      BY <1>3, <3>1
    <3>3. k # l => loop[k].name # loop[l].name
      BY <1>1, <1>2, <2>1, <3>1, <3>2 DEF TaskInv
    <3>4. CASE k = l
      <4>1. p # "done"
        BY <1>2, <2>1, <3>4 DEF Busy
      <4>2. Busy(l) => isRunning[loop[l].name]
        BY <2>1, <3>4 DEF LoopInv, StatusTruthful, StoppedMeansNoLoop
      <4> QED
        BY <1>1, <3>1, <3>4, <4>1, <4>2 DEF TypeOK
    <3>5. CASE k # l
      <4>1. Busy(k) /\ isRunning[loop[k].name]
        BY <1>4, <2>1, <3>5 DEF LoopInv, StatusTruthful, StoppedMeansNoLoop
      <4> QED
        BY <1>1, <1>2, <3>1, <3>3, <3>5, <4>1 DEF TypeOK
    <3> QED
      BY <3>4, <3>5
  <2> QED
    BY <1>1, <1>2, <2>1 DEF StoppedMeansNoLoop
<1> QED
  BY <1>1, <1>2, <1>6, <1>7, <1>8, <1>9, <1>10 DEF LoopInv, StatusTruthful, Waits

-----------------------------------------------------------------------------
(* Restarts                                                                *)

LEMMA RestartCallInv ==
  ASSUME Sensible, TypeOK, LoopInv, NEW r \in Restarts, RestartCall(r)
  PROVE  LoopInv'
<1>0. TaskOf[r] \in Names /\ UNCHANGED <<stopEvent, tracked, isRunning, shut>>
  BY DEF Sensible, RestartCall
<1>1. CASE restart' = [restart EXCEPT ![r].pc = "refused"] /\ UNCHANGED <<loop, overlapped>>
  <2>1. \A q \in Restarts : Waits(q)' => Waits(q) /\ restart'[q] = restart[q]
    BY <1>1 DEF TypeOK, Waits
  <2>2. \A k \in Loops : Live(k)' = Live(k) /\ Busy(k)' = Busy(k)
    BY <1>1 DEF Live, Busy
  <2>3. \A n \in Names : n \notin overlapped => TaskInv(n)'
    BY <1>0, <1>1, <2>1, <2>2 DEF LoopInv, TaskInv
  <2>4. QuietAfterStopAll' /\ StatusTruthful'
    BY <1>0, <1>1, <2>2 DEF LoopInv, QuietAfterStopAll, StatusTruthful, RunningMeansLoop,
       StoppedMeansNoLoop
  <2> QED
    BY <1>0, <1>1, <2>1, <2>2, <2>3, <2>4 DEF LoopInv
<1>2. CASE ~stopEvent /\ tracked[TaskOf[r]] # NoLoop /\ restart[r].pc = "idle"
           /\ restart' = [restart EXCEPT ![r] = [pc |-> "waiting", on |-> tracked[TaskOf[r]]]]
           /\ loop' = [loop EXCEPT ![tracked[TaskOf[r]]] = Stop(tracked[TaskOf[r]])]
           /\ overlapped' = overlapped \cup
                {TaskOf[q] : q \in {x \in Restarts : restart[x] = [pc |-> "waiting", on |-> tracked[TaskOf[r]]]}}
  <2>1. PICK f \in Loops : f = tracked[TaskOf[r]]
    BY <1>0, <1>2 DEF TypeOK
  <2>2. \A k \in Loops : loop'[k].pc = loop[k].pc /\ loop'[k].name = loop[k].name /\ loop[k].name \in Names
    BY <1>2, <2>1, StopShape DEF TypeOK
  <2>3. \A k \in Loops : Live(k)' = Live(k) /\ Busy(k)' = Busy(k)
    BY <2>2 DEF Live, Busy
  <2>4. /\ restart'[r] = [pc |-> "waiting", on |-> f]
        /\ \A q \in Restarts : q # r => restart'[q] = restart[q]
    BY <1>2, <2>1 DEF TypeOK
  <2>5. \A q \in Restarts : q # r => (Waits(q)' <=> Waits(q))
    BY <2>4 DEF Waits
  <2>6. \A q \in Restarts : restart[q] = [pc |-> "waiting", on |-> f] => TaskOf[q] \in overlapped'
    BY <1>2, <2>1
  <2>7. ASSUME NEW n \in Names, n \notin overlapped'
        PROVE  TaskInv(n)'
    <3>1. TaskInv(n) /\ n \notin overlapped
      BY <1>2, <2>7 DEF LoopInv
    <3>2. ASSUME TaskOf[r] = n, NEW q \in Restarts, q # r, TaskOf[q] = n, Waits(q)
          PROVE  FALSE
      <4>1. restart[q].on = f /\ restart[q].pc = "waiting"
        BY <1>2, <2>1, <3>1, <3>2 DEF TaskInv, Waits
      <4>2. restart[q] = [pc |-> "waiting", on |-> f]
        <5>1. restart[q] \in RestartType
          BY DEF TypeOK, RestartType
        <5> QED
          BY <4>1, <5>1 DEF RestartType
      <4> QED
        BY <2>6, <2>7, <3>2, <4>2
    <3>3. \A q, s \in Restarts : Waits(q)' /\ Waits(s)' /\ TaskOf[q] = n /\ TaskOf[s] = n => q = s
      BY <2>5, <3>1, <3>2 DEF TaskInv
    <3>4. \A q \in Restarts, k \in Loops :
            Waits(q)' /\ TaskOf[q] = n /\ Live(k) /\ loop[k].name = n => k = restart'[q].on
      BY <1>2, <2>1, <2>4, <2>5, <3>1 DEF TaskInv
    <3>5. \A q \in Restarts : Waits(q)' /\ TaskOf[q] = n => restart'[q].on = tracked[n]
      BY <1>2, <2>1, <2>4, <2>5, <3>1 DEF TaskInv
    <3> QED
      BY <1>0, <2>2, <2>3, <3>1, <3>3, <3>4, <3>5 DEF TaskInv
  <2>8. overlapped \subseteq overlapped'
    BY <1>2
  <2>9. QuietAfterStopAll'
    BY <1>0, <2>2, <2>3, <2>8 DEF LoopInv, QuietAfterStopAll
  <2>10. StatusTruthful'
    BY <1>0, <2>2, <2>3, <2>8 DEF LoopInv, StatusTruthful, RunningMeansLoop, StoppedMeansNoLoop
  <2>11. \A q \in Restarts : Waits(q)' => restart'[q].on \in Loops
    BY <2>1, <2>4, <2>5 DEF LoopInv
  <2>12. \A h \in Handlers, k \in Loops :
           shut[h].pc = "stopping" /\ Busy(k) /\ loop[k].name \notin overlapped' => k \in shut[h].on
    BY <2>8 DEF LoopInv
  <2> QED
    BY <1>0, <2>2, <2>3, <2>7, <2>9, <2>10, <2>11, <2>12 DEF LoopInv
<1> QED
  BY <1>1, <1>2 DEF RestartCall

LEMMA RestartCreateInv ==
  ASSUME Sensible, TypeOK, LoopInv, NEW r \in Restarts, RestartCreate(r)
  PROVE  LoopInv'
<1> DEFINE m == TaskOf[r]
<1>1. PICK f \in Loops : f = Fresh /\ loop[f].pc = "none"
  BY FreshIsFree DEF RestartCreate, In
<1>2. /\ loop' = [loop EXCEPT ![f] = New(m)] /\ tracked' = [tracked EXCEPT ![m] = f]
      /\ isRunning' = [isRunning EXCEPT ![m] = FALSE]
      /\ restart' = [restart EXCEPT ![r].pc = "done"]
      /\ UNCHANGED <<stopEvent, shut, overlapped>>
  BY <1>1 DEF RestartCreate
<1>3. m \in Names /\ Waits(r) /\ restart[r].on \in Loops /\ loop[restart[r].on].pc = "done"
  BY DEF Sensible, RestartCreate, MayCreate, Waits, In, LoopInv
<1>4. /\ loop'[f].pc = "new" /\ loop'[f].name = m
      /\ \A k \in Loops : k # f => loop'[k] = loop[k]
      /\ \A k \in Loops : loop[k].name \in Names
  BY <1>2 DEF TypeOK, New
<1>5. /\ Live(f)' /\ ~Busy(f)' /\ ~Live(f) /\ ~Busy(f)
      /\ \A k \in Loops : k # f => Live(k)' = Live(k) /\ Busy(k)' = Busy(k)
      /\ \A k \in Loops : Busy(k) => Live(k)
  BY <1>1, <1>4 DEF Live, Busy
<1>6. /\ tracked'[m] = f /\ \A n \in Names : n # m => tracked'[n] = tracked[n]
      /\ isRunning'[m] = FALSE /\ \A n \in Names : n # m => isRunning'[n] = isRunning[n]
  BY <1>2, <1>3 DEF TypeOK
<1>7. ~Waits(r)' /\ \A q \in Restarts : q # r => restart'[q] = restart[q] /\ (Waits(q)' <=> Waits(q))
  BY <1>2 DEF TypeOK, Waits
\* Of a task without overlap no loop is left when a restart creates the next.
<1>8. m \notin overlapped => \A k \in Loops : Live(k) => loop[k].name # m
  BY <1>3 DEF LoopInv, TaskInv, Live
<1> HIDE DEF m
<1>9. ASSUME NEW n \in Names, n \notin overlapped
      PROVE  TaskInv(n)'
  <2>1. TaskInv(n)
    BY <1>9 DEF LoopInv
  <2>2. CASE n = m
    <3>1. \A k \in Loops : Live(k)' /\ loop'[k].name = n => k = f
      BY <1>4, <1>5, <1>8, <1>9, <2>2
    <3>2. \A q \in Restarts : Waits(q)' => TaskOf[q] # n
      BY <1>3, <1>7, <2>1, <2>2 DEF TaskInv, m
    <3> QED
      BY <1>6, <2>2, <3>1, <3>2 DEF TaskInv
  <2>3. CASE n # m
    <3>1. \A k \in Loops : loop'[k].name = n =>
            k # f /\ loop'[k] = loop[k] /\ Live(k)' = Live(k) /\ Busy(k)' = Busy(k)
      BY <1>4, <1>5, <2>3
    <3>2. \A q \in Restarts : Waits(q)' /\ TaskOf[q] = n => Waits(q) /\ restart'[q] = restart[q]
      BY <1>7
    <3> QED
      BY <1>2, <1>6, <2>1, <2>3, <3>1, <3>2 DEF TaskInv
  <2> QED
    BY <2>2, <2>3
<1>10. ~stopEvent => \A n \in Names : tracked'[n] # NoLoop
  BY <1>6 DEF LoopInv, Sensible
<1>11. \A q \in Restarts : Waits(q)' => restart'[q].on \in Loops
  BY <1>7 DEF LoopInv
<1>12. \A h \in Handlers, k \in Loops :
         shut[h].pc = "stopping" /\ Busy(k)' /\ loop'[k].name \notin overlapped => k \in shut[h].on
  BY <1>4, <1>5 DEF LoopInv
<1>13. QuietAfterStopAll'
  BY <1>2, <1>4, <1>5 DEF LoopInv, QuietAfterStopAll
<1>14. RunningMeansLoop'
  <2>1. ASSUME NEW n \in Names, isRunning'[n]
        PROVE  \E k \in Loops : Busy(k)' /\ loop'[k].name = n
    <3>1. n # m /\ isRunning[n]
      BY <1>6, <2>1
    <3>2. PICK k \in Loops : Busy(k) /\ loop[k].name = n
      BY <3>1 DEF LoopInv, StatusTruthful, RunningMeansLoop
    <3> QED
      BY <1>4, <1>5, <3>2
  <2> QED
    BY <2>1 DEF RunningMeansLoop
<1>15. StoppedMeansNoLoop'
  <2>1. ASSUME NEW k \in Loops, Busy(k)', loop'[k].name \notin overlapped
        PROVE  isRunning'[loop'[k].name]
    <3>1. k # f /\ Busy(k) /\ Live(k) /\ loop'[k] = loop[k]
      BY <1>4, <1>5, <2>1
    <3>2. loop[k].name # m
      BY <1>8, <2>1, <3>1
    <3> QED
      BY <1>4, <1>6, <2>1, <3>1, <3>2 DEF LoopInv, StatusTruthful, StoppedMeansNoLoop
  <2> QED
    BY <1>2, <2>1 DEF StoppedMeansNoLoop
<1> QED
  BY <1>2, <1>9, <1>10, <1>11, <1>12, <1>13, <1>14, <1>15 DEF LoopInv, StatusTruthful

-----------------------------------------------------------------------------
(* Shutdown                                                                *)

\* A handler that goes on without touching the loops.
LEMMA HandlerInv ==
  ASSUME Sensible, TypeOK, LoopInv, NEW h \in Handlers, UNCHANGED tasks,
         shut'[h].pc \in PastStop => shut[h].pc \in PastStop /\ shut'[h].pc # "stopping",
         shut'[h].pc \in PastStop => shut[h].pc # "stopping",
         \A g \in Handlers : g # h => shut'[g] = shut[g]
  PROVE  LoopInv'
<1> USE DEF tasks
<1>1. \A k \in Loops : Live(k)' = Live(k) /\ Busy(k)' = Busy(k)
  BY DEF Live, Busy
<1>2. \A n \in Names : n \notin overlapped => TaskInv(n)'
  BY <1>1 DEF LoopInv, TaskInv, Waits
<1>3. \A g \in Handlers : shut'[g].pc \in PastStop => stopEvent
  BY DEF LoopInv
<1>4. QuietAfterStopAll'
  <2>1. ASSUME NEW g \in Handlers, shut'[g].pc \in PastStop, shut'[g].pc # "stopping"
        PROVE  \A k \in Loops : Busy(k) => loop[k].name \in overlapped
    <3>1. shut[g].pc \in PastStop /\ shut[g].pc # "stopping"
      BY <2>1
    <3> QED
      BY <3>1 DEF LoopInv, QuietAfterStopAll, PastStop
  <2> QED
    BY <1>1, <2>1 DEF QuietAfterStopAll, PastStop
<1>5. StatusTruthful'
  BY <1>1 DEF LoopInv, StatusTruthful, RunningMeansLoop, StoppedMeansNoLoop
<1>6. \A g \in Handlers, k \in Loops :
        shut'[g].pc = "stopping" /\ Busy(k) /\ loop[k].name \notin overlapped => k \in shut'[g].on
  BY DEF LoopInv, PastStop
<1> QED
  BY <1>1, <1>2, <1>3, <1>4, <1>5, <1>6 DEF LoopInv, Waits

\* stop_all: with a task registered it sets the event, and what it gathers are
\* all loops that run.
LEMMA StopAllInv ==
  ASSUME Sensible, TypeOK, LoopInv, NEW h \in Handlers, StopAll(h)
  PROVE  LoopInv'
<1>1. CASE Tracked = {}
  <2>1. \A n \in Names : tracked[n] = NoLoop
    BY <1>1 DEF Tracked
  <2>2. stopEvent
    BY <2>1 DEF LoopInv, Sensible
  <2>3. \A k \in Loops : Busy(k) => loop[k].name \in overlapped
    <3>1. \A k \in Loops : Busy(k) => Live(k) /\ loop[k].name \in Names
      BY DEF Busy, Live, TypeOK
    <3> QED
      BY <2>1, <3>1 DEF LoopInv, TaskInv, Sensible
  <2>4. /\ UNCHANGED <<stopEvent, loop, tracked, isRunning, restart, overlapped>>
        /\ shut'[h].pc = "draining" /\ \A g \in Handlers : g # h => shut'[g] = shut[g]
    BY <1>1 DEF StopAll, Goto, TypeOK
  <2>5. \A k \in Loops : Live(k)' = Live(k) /\ Busy(k)' = Busy(k)
    BY <2>4 DEF Live, Busy
  <2>6. \A n \in Names : n \notin overlapped => TaskInv(n)'
    BY <2>4, <2>5 DEF LoopInv, TaskInv, Waits
  <2>7. QuietAfterStopAll'
    BY <2>3, <2>4, <2>5 DEF QuietAfterStopAll
  <2>8. StatusTruthful'
    BY <2>4, <2>5 DEF LoopInv, StatusTruthful, RunningMeansLoop, StoppedMeansNoLoop
  <2>9. \A g \in Handlers, k \in Loops :
          shut'[g].pc = "stopping" /\ Busy(k) /\ loop[k].name \notin overlapped => k \in shut'[g].on
    BY <2>3
  <2> QED
    BY <2>2, <2>4, <2>5, <2>6, <2>7, <2>8, <2>9 DEF LoopInv, Waits
<1>2. CASE /\ stopEvent' = TRUE
           /\ shut' = [shut EXCEPT ![h].pc = "stopping", ![h].on = Tracked]
           /\ loop' = [l \in Loops |-> IF l \in Tracked THEN Stop(l) ELSE loop[l]]
  <2>1. UNCHANGED <<tracked, isRunning, restart, overlapped>>
    BY DEF StopAll
  <2>2. \A k \in Loops : loop'[k].pc = loop[k].pc /\ loop'[k].name = loop[k].name /\ loop[k].name \in Names
    BY <1>2, StopShape DEF TypeOK
  <2>3. \A k \in Loops : Live(k)' = Live(k) /\ Busy(k)' = Busy(k) /\ (Busy(k) => Live(k))
    BY <2>2 DEF Live, Busy
  <2>4. shut'[h].pc = "stopping" /\ shut'[h].on = Tracked /\ \A g \in Handlers : g # h => shut'[g] = shut[g]
    BY <1>2 DEF TypeOK
  <2>5. ASSUME NEW n \in Names, n \notin overlapped
        PROVE  TaskInv(n)'
    <3>1. TaskInv(n)
      BY <2>5 DEF LoopInv
    <3>2. \A k \in Loops : Live(k)' /\ loop'[k].name = n /\ (Busy(k)' \/ ~stopEvent') => k = tracked[n]
      BY <1>2, <2>2, <2>3, <3>1 DEF TaskInv
    <3> QED
      BY <1>2, <2>1, <2>2, <2>3, <3>1, <3>2 DEF TaskInv, Waits
  <2>6. \A k \in Loops : Busy(k) /\ loop[k].name \notin overlapped => k \in Tracked
    BY <2>2, <2>3 DEF LoopInv, TaskInv, Tracked, Sensible
  <2>7. \A g \in Handlers, k \in Loops :
          shut'[g].pc = "stopping" /\ Busy(k) /\ loop[k].name \notin overlapped => k \in shut'[g].on
    BY <2>4, <2>6 DEF LoopInv
  <2>8. QuietAfterStopAll'
    BY <2>1, <2>2, <2>3, <2>4 DEF LoopInv, QuietAfterStopAll
  <2>9. StatusTruthful'
    BY <2>1, <2>2, <2>3 DEF LoopInv, StatusTruthful, RunningMeansLoop, StoppedMeansNoLoop
  <2> QED
    BY <1>2, <2>1, <2>2, <2>3, <2>5, <2>7, <2>8, <2>9 DEF LoopInv, Waits
<1> QED
  BY <1>1, <1>2 DEF StopAll

\* The gathered loops have ended, so nothing runs that the statuses forget.
LEMMA StoppedInv ==
  ASSUME Sensible, TypeOK, LoopInv, NEW h \in Handlers, Stopped(h)
  PROVE  LoopInv'
<1>1. /\ UNCHANGED <<stopEvent, loop, restart, overlapped>>
      /\ isRunning' = [n \in Names |-> FALSE] /\ tracked' = [n \in Names |-> NoLoop]
      /\ shut'[h].pc = "draining" /\ \A g \in Handlers : g # h => shut'[g] = shut[g]
  BY DEF Stopped, Goto, TypeOK, Cleared
<1>2. stopEvent
  BY DEF Stopped, LoopInv, PastStop
<1>3. \A k \in Loops : Busy(k) => loop[k].name \in overlapped
  BY DEF Stopped, LoopInv, Busy, In
<1>4. \A k \in Loops : Live(k)' = Live(k) /\ Busy(k)' = Busy(k)
  BY <1>1 DEF Live, Busy
<1>5. \A n \in Names : n \notin overlapped => TaskInv(n)'
  BY <1>1, <1>2, <1>3, <1>4 DEF LoopInv, TaskInv, Waits
<1>6. QuietAfterStopAll'
  BY <1>1, <1>3, <1>4 DEF QuietAfterStopAll
<1>7. StatusTruthful'
  BY <1>1, <1>3, <1>4 DEF StatusTruthful, RunningMeansLoop, StoppedMeansNoLoop
<1> QED
  BY <1>1, <1>2, <1>3, <1>4, <1>5, <1>6, <1>7 DEF LoopInv, Waits

\* Where the other steps of a handler lead.
LEMMA ShutShape ==
  ASSUME TypeOK, NEW h \in Handlers,
         ShutdownCall(h) \/ Drained(h) \/ DrainExpires(h) \/ FlushAudit(h) \/ Dispose(h)
  PROVE  /\ UNCHANGED <<tasks, job>>
         /\ \A g \in Handlers : g # h => shut'[g] = shut[g]
         /\ \/ shut[h].pc = "idle" /\ shut'[h].pc = "announced"
            \/ /\ shut[h].pc = "draining" /\ shut'[h].pc = "flushing"
               /\ ActiveJobs = {} \/ shut'[h].expired
            \/ /\ shut[h].pc = "flushing" /\ shut'[h].pc \in {"flushed", "raised"}
               /\ shut'[h].expired = shut[h].expired
            \/ /\ shut[h].pc = "flushed" /\ shut'[h].pc = "done"
               /\ shut'[h].expired = shut[h].expired
         /\ shut[h].expired => shut'[h].expired
         /\ engine' = engine \/ Dispose(h)
<1> USE DEF Goto, TypeOK
<1>1. CASE ShutdownCall(h)
  BY <1>1 DEF ShutdownCall
<1>2. CASE Drained(h)
  BY <1>2 DEF Drained
<1>3. CASE DrainExpires(h)
  BY <1>3 DEF DrainExpires
<1>4. CASE FlushAudit(h)
  BY <1>4 DEF FlushAudit
<1>5. CASE Dispose(h)
  BY <1>5 DEF Dispose
<1> QED
  BY <1>1, <1>2, <1>3, <1>4, <1>5

LEMMA ShutInv ==
  ASSUME Sensible, TypeOK, LoopInv, NEW h \in Handlers, ShutdownCall(h) \/ ShutStep(h)
  PROVE  LoopInv'
<1>1. CASE StopAll(h)
  BY <1>1, StopAllInv
<1>2. CASE Stopped(h)
  BY <1>2, StoppedInv
<1>3. CASE ShutdownCall(h) \/ Drained(h) \/ DrainExpires(h) \/ FlushAudit(h) \/ Dispose(h)
  BY <1>3, ShutShape, HandlerInv DEF PastStop
<1> QED
  BY <1>1, <1>2, <1>3 DEF ShutStep

-----------------------------------------------------------------------------
(* Jobs and the pool                                                       *)

LEMMA JobsKeepLoops ==
  ASSUME TypeOK, LoopInv, UNCHANGED <<tasks, shut>>
  PROVE  LoopInv'
<1> USE DEF tasks
<1>1. \A k \in Loops : Live(k)' = Live(k) /\ Busy(k)' = Busy(k)
  BY DEF Live, Busy
<1>2. \A n \in Names : n \notin overlapped => TaskInv(n)'
  BY <1>1 DEF LoopInv, TaskInv, Waits
<1>3. QuietAfterStopAll' /\ StatusTruthful'
  BY <1>1 DEF LoopInv, QuietAfterStopAll, StatusTruthful, RunningMeansLoop, StoppedMeansNoLoop
<1> QED
  BY <1>1, <1>2, <1>3 DEF LoopInv, Waits

LEMMA PoolKept ==
  ASSUME TypeOK, PoolInv, UNCHANGED <<shut, engine>>, ActiveJobs = {} => ActiveJobs' = {}
                                                        \/ shut["lifespan"].pc = "idle"
  PROVE  PoolInv'
  BY DEF PoolInv, DisposedUnderJob

LEMMA JobPool ==
  ASSUME TypeOK, PoolInv, NEW j \in Jobs, JobSubmitted(j) \/ JobMoves(j)
  PROVE  PoolInv'
<1>1. CASE JobSubmitted(j)
  BY <1>1, PoolKept DEF JobSubmitted
<1>2. CASE JobMoves(j)
  <2>1. job[j] \in Active /\ \A i \in Jobs : i # j => job'[i] = job[i]
    BY <1>2 DEF JobMoves, Active, TypeOK
  <2>2. ActiveJobs # {}
    BY <2>1 DEF ActiveJobs
  <2> QED
    BY <1>2, <2>2, PoolKept DEF JobMoves
<1> QED
  BY <1>1, <1>2

LEMMA ShutPool ==
  ASSUME TypeOK, PoolInv, NEW h \in Handlers, ShutdownCall(h) \/ ShutStep(h)
  PROVE  PoolInv'
<1>0. "lifespan" \in Handlers /\ "signal" \in Handlers /\ \A g \in Handlers : g \in {"lifespan", "signal"}
  BY DEF Handlers
<1>1. CASE StopAll(h) \/ Stopped(h)
  <2>1. /\ \A g \in Handlers : g # h => shut'[g] = shut[g]
        /\ shut'[h].pc \in {"stopping", "draining"} /\ shut'[h].expired = shut[h].expired
        /\ job' = job /\ engine' = engine
    BY <1>1 DEF StopAll, Stopped, Goto, TypeOK
  <2>2. ActiveJobs' = ActiveJobs
    BY <2>1 DEF ActiveJobs
  <2>3. \A g \in Handlers : shut[g].expired => shut'[g].expired
    BY <2>1
  <2>4. engine.by \subseteq Handlers
    BY DEF TypeOK
  <2> QED
    BY <1>0, <2>1, <2>2, <2>3, <2>4 DEF PoolInv, DisposedUnderJob
<1>2. CASE ShutdownCall(h) \/ Drained(h) \/ DrainExpires(h) \/ FlushAudit(h) \/ Dispose(h)
  <2>1. /\ job' = job /\ \A g \in Handlers : g # h => shut'[g] = shut[g]
        /\ \/ shut[h].pc = "idle" /\ shut'[h].pc = "announced"
           \/ /\ shut[h].pc = "draining" /\ shut'[h].pc = "flushing"
              /\ ActiveJobs = {} \/ shut'[h].expired
           \/ /\ shut[h].pc = "flushing" /\ shut'[h].pc \in {"flushed", "raised"}
              /\ shut'[h].expired = shut[h].expired
           \/ /\ shut[h].pc = "flushed" /\ shut'[h].pc = "done"
              /\ shut'[h].expired = shut[h].expired
        /\ shut[h].expired => shut'[h].expired
        /\ engine' = engine \/ Dispose(h)
    BY <1>2, ShutShape
  <2>2. ActiveJobs' = ActiveJobs
    BY <2>1 DEF ActiveJobs
  <2>3. shut'["lifespan"].pc \in {"flushing", "flushed"} /\ ~shut'["lifespan"].expired => ActiveJobs = {}
    BY <1>0, <2>1 DEF PoolInv
  <2>4. \A g \in Handlers : shut[g].expired => shut'[g].expired
    BY <2>1
  <2>5. DisposedUnderJob'
    <3>1. CASE engine' = engine
      <4>1. engine.by \subseteq Handlers
        BY DEF TypeOK
      <4> QED
        BY <2>4, <3>1, <4>1 DEF PoolInv, DisposedUnderJob
    <3>2. CASE Dispose(h)
      <4>1. /\ engine'.by = engine.by \cup {h} /\ shut[h].pc = "flushed"
            /\ engine.by = {} => engine'.under = ActiveJobs
            /\ engine.by # {} => engine'.under = engine.under
        BY <3>2 DEF Dispose
      <4>2. CASE h = "signal"
        BY <4>1, <4>2 DEF DisposedUnderJob
      <4>3. CASE h = "lifespan" /\ engine.by = {}
        <5>1. engine'.under # {} => shut[h].expired
          BY <4>1, <4>3 DEF PoolInv
        <5> QED
          BY <2>4, <4>1, <5>1 DEF DisposedUnderJob
      <4>4. CASE engine.by # {}
        <5>1. engine.by \subseteq Handlers
          BY DEF TypeOK
        <5> QED
          BY <2>4, <4>1, <4>4, <5>1 DEF PoolInv, DisposedUnderJob
      <4> QED
        BY <1>0, <4>2, <4>3, <4>4
    <3> QED
      BY <2>1, <3>1, <3>2
  <2> QED
    BY <2>2, <2>3, <2>5 DEF PoolInv
<1> QED
  BY <1>1, <1>2 DEF ShutStep

-----------------------------------------------------------------------------
(* The theorems                                                            *)

LEMMA InitHolds ==
  ASSUME Sensible, Init
  PROVE  IInv
<1>1. PICK f \in FirstLoops : tracked = f
  <2>1. FirstLoops # {}
    BY DEF Sensible, FirstLoops
  <2> QED
    BY <2>1 DEF Init
<1>2. f \in [Names -> Loops] /\ \A m, n \in Names : m # n => f[m] # f[n]
  BY DEF FirstLoops
<1>3. PICK x \in Names : x = CHOOSE n \in Names : TRUE
  BY DEF Sensible
<1>4. ASSUME NEW l \in Loops
      PROVE  /\ loop[l] \in LoopType /\ ~Busy(l)
             /\ Live(l) => tracked[loop[l].name] = l
  <2>1. CASE \E n \in Names : tracked[n] = l
    <3>1. PICK y \in Names : y = (CHOOSE n \in Names : tracked[n] = l) /\ tracked[y] = l
      BY <2>1
    <3>2. loop[l] = New(y)
      BY <2>1, <3>1 DEF Init
    <3> QED
      BY <3>1, <3>2 DEF New, LoopType, LoopPCs, Busy
  <2>2. CASE ~\E n \in Names : tracked[n] = l
    <3>1. loop[l] = [New(x) EXCEPT !.pc = "none"]
      BY <1>3, <2>2 DEF Init
    <3> QED
      BY <3>1 DEF New, LoopType, LoopPCs, Busy, Live
  <2> QED
    BY <2>1, <2>2
<1>5. /\ ~stopEvent /\ isRunning = [n \in Names |-> FALSE] /\ overlapped = {}
      /\ restart = [r \in Restarts |-> [pc |-> "idle", on |-> NoLoop]]
      /\ shut = [h \in Handlers |-> [pc |-> "idle", on |-> {}, expired |-> FALSE]]
      /\ job = [j \in Jobs |-> "none"] /\ engine = [by |-> {}, under |-> {}]
      /\ loop = [l \in Loops |-> loop[l]] /\ stopEvent \in BOOLEAN
  BY DEF Init
<1>6. TypeOK
  <2>1. loop \in [Loops -> LoopType]
    BY <1>4, <1>5
  <2>2. tracked \in [Names -> Loops \cup {NoLoop}]
    BY <1>1, <1>2
  <2> QED
    BY <1>5, <2>1, <2>2 DEF TypeOK, LoopType, RestartPCs, ShutPCs, JobStatuses
<1>7. \A r \in Restarts : ~Waits(r)
  BY <1>5 DEF Waits
<1>8. \A h \in Handlers : shut[h].pc = "idle" /\ ~shut[h].expired
  BY <1>5
<1>9. \A n \in Names : TaskInv(n)
  <2>1. \A l \in Loops, n \in Names : Live(l) /\ loop[l].name = n => l = tracked[n]
    BY <1>4
  <2> QED
    BY <1>7, <2>1 DEF TaskInv
<1>10. \A n \in Names : tracked[n] # NoLoop
  BY <1>1, <1>2 DEF Sensible
<1>11. StatusTruthful /\ QuietAfterStopAll
  BY <1>4, <1>5, <1>8 DEF StatusTruthful, RunningMeansLoop, StoppedMeansNoLoop, QuietAfterStopAll
<1>12. LoopInv
  BY <1>4, <1>7, <1>8, <1>9, <1>10, <1>11 DEF LoopInv, PastStop
<1>13. PoolInv
  BY <1>5, <1>8 DEF PoolInv, DisposedUnderJob, Handlers
<1> QED
  BY <1>6, <1>12, <1>13 DEF IInv

LEMMA NextHolds == IInv /\ [Next]_vars => IInv'
<1> SUFFICES ASSUME IInv, [Next]_vars
             PROVE  IInv'
  OBVIOUS
<1>0. Sensible /\ TypeOK /\ LoopInv /\ PoolInv
  BY DEF IInv
<1>1. ASSUME NEW l \in Loops, LoopStep(l)
      PROVE  IInv'
  <2>1. UNCHANGED <<shut, engine, job>>
    BY <1>1 DEF LoopStep
  <2>2. PoolInv'
    BY <1>0, <2>1, PoolKept DEF ActiveJobs
  <2> QED
    BY <1>0, <1>1, <2>2, LoopTypes, LoopStepInv DEF IInv
<1>2. ASSUME NEW r \in Restarts, RestartCall(r) \/ RestartCreate(r)
      PROVE  IInv'
  <2>1. UNCHANGED <<shut, engine, job>>
    BY <1>2 DEF RestartCall, RestartCreate
  <2>2. PoolInv'
    BY <1>0, <2>1, PoolKept DEF ActiveJobs
  <2> QED
    BY <1>0, <1>2, <2>2, RestartTypes, RestartCallInv, RestartCreateInv DEF IInv
<1>3. ASSUME NEW h \in Handlers, ShutdownCall(h) \/ ShutStep(h)
      PROVE  IInv'
  BY <1>0, <1>3, ShutTypes, ShutInv, ShutPool DEF IInv
<1>4. ASSUME NEW j \in Jobs, JobSubmitted(j) \/ JobMoves(j)
      PROVE  IInv'
  <2>1. UNCHANGED <<tasks, shut>>
    BY <1>4 DEF JobSubmitted, JobMoves
  <2> QED
    BY <1>0, <1>4, <2>1, JobTypes, JobsKeepLoops, JobPool DEF IInv
<1>5. CASE UNCHANGED vars
  <2>1. TypeOK'
    BY <1>0, <1>5 DEF TypeOK, vars
  <2>2. UNCHANGED <<tasks, shut>> /\ UNCHANGED <<shut, engine>> /\ job' = job
    BY <1>5 DEF vars, tasks
  <2> QED
    BY <1>0, <2>1, <2>2, JobsKeepLoops, PoolKept DEF IInv, ActiveJobs
<1> QED
  BY <1>1, <1>2, <1>3, <1>4, <1>5 DEF Next

\* The invariant is inductive: every step of a loop, a restart, a handler or a job
\* keeps what it says of tasks, loops and the pool.
THEOREM Inductive == Sensible /\ Spec => []IInv
<1>1. Sensible /\ Init => IInv
  BY InitHolds
<1> QED
  BY <1>1, NextHolds, PTL DEF Spec

\* What GET /system/tasks shows is true of every task that no two restarts waited
\* for, whatever is restarted and shut down (BackgroundTaskManager).
THEOREM StatusTold == Sensible /\ Spec => [](TypeOK /\ StatusTruthful)
<1>1. IInv => TypeOK /\ StatusTruthful
  BY DEF IInv, LoopInv
<1> QED
  BY <1>1, Inductive, PTL

\* A task has two loops only after two restarts waited for the same one, and past
\* stop_all nothing runs but loops lost that way (restart_task, stop_all).
THEOREM LoopsHeld == Sensible /\ Spec => []LoopsAccounted
<1>1. IInv => TwiceNeedsOverlap
  <2> SUFFICES ASSUME IInv
               PROVE  TwiceNeedsOverlap
    OBVIOUS
  <2>1. \A l \in Loops : loop[l].name \in Names
    BY DEF IInv, TypeOK
  <2>2. ASSUME NEW k \in Loops, NEW l \in Loops, k # l, Live(k), Live(l), loop[k].name = loop[l].name,
               loop[k].name \notin overlapped
        PROVE  FALSE
    <3>1. TaskInv(loop[k].name)
      BY <2>1, <2>2 DEF IInv, LoopInv
    <3> QED
      BY <2>2, <3>1 DEF TaskInv
  <2> QED
    BY <2>2 DEF TwiceNeedsOverlap
<1>2. IInv => QuietAfterStopAll
  BY DEF IInv, LoopInv
<1>3. TwiceNeedsOverlap /\ QuietAfterStopAll => LoopsAccounted
  BY DEF LoopsAccounted
<1> QED
  BY <1>1, <1>2, <1>3, Inductive, PTL

\* The pool goes under a running job only when the wait for jobs expired or at the
\* signal's shutdown, which still accepts jobs (ShutdownHandler.shutdown).
THEOREM PoolOutlivesJobs == Sensible /\ Spec => []DisposedUnderJob
<1>1. IInv => DisposedUnderJob
  BY DEF IInv, PoolInv
<1> QED
  BY <1>1, Inductive, PTL

-----------------------------------------------------------------------------
(* The boot: any number of migrations and releases, any outside conditions,*)
(* any history of boots, crashes and scripts.                              *)
(*                                                                         *)
(* A database without a revision that no older release has built has       *)
(* either nothing or the whole schema of the release; one with a revision  *)
(* has all up to it. So a boot that ends its database phase has it all.    *)
CONSTANTS Heads, AddsColumns, FaultSets, MaxCrashes
VARIABLES create, production, release, db, torn, boot, old, ahead, crashes
B == INSTANCE Startup

Ph  == {B!Phases[i] : i \in 1..16}
Cap == B!Conditions \cup Ph \cup {"disk", "memory", "ml_models"}
BootPCs == {"down", "booting", "unavailable", "serving"}
BootType == [pc : BootPCs, at : 0..16, db : {"create", "migrate", "verify"}, faults : SUBSET B!Conditions,
             degraded : SUBSET Cap, failed : SUBSET Cap, able : SUBSET Cap]
DbType == [rev : Nat, has : SUBSET Heads, users : SUBSET B!Roles, admin : BOOLEAN, roles : BOOLEAN, model : BOOLEAN]

BootTypes ==
  /\ create \in BOOLEAN /\ production \in BOOLEAN /\ torn \in BOOLEAN /\ old \in BOOLEAN /\ ahead \in BOOLEAN
  /\ release \in Heads /\ crashes \in 0..MaxCrashes /\ db \in DbType /\ boot \in BootType
  /\ boot.pc \in {"booting", "unavailable"} => boot.at \in 1..16
  /\ boot.pc = "booting" /\ boot.at < 3 => boot.db = "create"

\* The schema, unless an older release built tables without a revision.
SchemaInv ==
  /\ db.rev <= release
  /\ ~old => /\ db.has \subseteq B!Known
             /\ db.rev = 0 => db.has = {} \/ db.has = B!Known
             /\ db.rev > 0 => 1..db.rev \subseteq db.has
             /\ db.rev > 0 /\ ~ahead => db.has = 1..db.rev

\* A boot that is past the i-th phase.
Past(i) == boot.pc = "serving" \/ (boot.pc = "booting" /\ boot.at > i)
Migrated == Past(3) \/ (boot.pc = "booting" /\ boot.at = 3 /\ boot.db = "verify")
\* A boot whose database phase got past connecting.
Connected == boot.pc = "booting" /\ boot.at = 3 /\ boot.db # "create" => ~B!Met("database down")

\* What the capability phases look for.
CapsOf ==
  [i \in {7, 8, 9, 10, 12, 13, 14, 15} |->
     CASE i = 7 -> {"dataset_discovery"} [] i = 8 -> {"vector_store", "embedding_engine", "knowledge_graph"}
       [] i = 9 -> {"ioc_database"} [] i = 10 -> {"yara_rules", "sigma_rules"} [] i = 12 -> {"llm_service"}
       [] i = 13 -> {"rag_pipeline"}
       [] i = 14 -> {"report_output", "report_schema", "narrative_template", "pdf_export"}
       [] i = 15 -> {"benchmark_datasets"}]

\* What a boot met is in its report as soon as it is past the phase that looks.
MetInv ==
  /\ Past(1) => boot.faults \cap B!Checked = {}
  /\ Past(2) => ~B!Met("unwritable tree")
  /\ Past(3) => ~B!Met("database down")
  /\ Past(4) => ~B!Met("jwt")
  /\ Past(5) => ~B!Met("audit path")
  /\ Past(6) => /\ B!Met("no parser") \/ B!Met("probe raises") => boot.degraded # {}
                /\ B!Met("no volatility") => {"memory", "forensic_parsers"} \cap boot.degraded # {}
  /\ Past(11) => IF B!HasModel THEN db.model ELSE "ml_models" \in boot.degraded
  /\ \A i \in DOMAIN CapsOf : Past(i) => boot.faults \cap CapsOf[i] \subseteq boot.degraded
DoneInv ==
  /\ boot.pc \in {"booting", "serving"} =>
       /\ \A i \in 1..16 : Past(i) => B!Phases[i] \in boot.able \cup boot.failed
       /\ \A p \in boot.able \cup boot.failed : \E i \in 1..16 : Past(i) /\ p = B!Phases[i]
       /\ boot.failed \cap B!Critical = {}

BootIInv ==
  /\ B!Sensible /\ BootTypes /\ SchemaInv
  /\ Migrated => db.rev = release
  /\ Connected /\ MetInv /\ DoneInv /\ B!SoundBootServes

-----------------------------------------------------------------------------
LEMMA PhasesAre ==
  /\ Len(B!Phases) = 16 /\ DOMAIN B!Phases = 1..16 /\ Ph \subseteq Cap
  /\ B!Phases[1] = "configuration" /\ B!Phases[2] = "directories" /\ B!Phases[3] = "database"
  /\ B!Phases[4] = "authentication" /\ B!Phases[5] = "audit_logging" /\ B!Phases[6] = "forensic_parsers"
  /\ B!Phases[7] = "dataset_discovery" /\ B!Phases[8] = "knowledge_base" /\ B!Phases[9] = "ioc_database"
  /\ B!Phases[10] = "threat_intelligence" /\ B!Phases[11] = "ml_models" /\ B!Phases[12] = "llm_service"
  /\ B!Phases[13] = "rag_pipeline" /\ B!Phases[14] = "reporting" /\ B!Phases[15] = "evaluation"
  /\ B!Phases[16] = "background_workers"
<1>1. Len(B!Phases) = 16 /\ DOMAIN B!Phases = 1..16
  BY DEF B!Phases
<1>2. Ph \subseteq Cap
  BY DEF Cap
<1> QED
  BY <1>1, <1>2 DEF B!Phases

\* A phase either ends the boot or adds to its report and goes on.
Ends(r) == boot'.pc = "unavailable" /\ boot'.at = boot.at /\ boot'.faults = boot.faults
GoesOn(p, r) ==
  /\ boot'.faults = boot.faults /\ boot'.db = boot.db
  /\ boot'.degraded = boot.degraded \cup B!Names(p, r)
  /\ boot'.failed = boot.failed \cup (IF r.status = "failed" THEN {p} ELSE {})
  /\ boot'.able = boot.able \cup (IF r.status = "failed" THEN {} ELSE {p})
  /\ IF boot.at < 16 THEN boot'.pc = "booting" /\ boot'.at = boot.at + 1
                     ELSE boot'.pc = "serving" /\ boot'.at = boot.at
Outcome == [status : {"completed", "failed", "degraded"}, caps : SUBSET Cap]

LEMMA RecordShape ==
  ASSUME BootTypes, NEW p \in Ph, NEW r \in Outcome, boot.pc = "booting", B!Record(p, r)
  PROVE  /\ boot' \in BootType /\ (boot'.pc = "booting" => boot'.at \in 1..16)
         /\ IF r.status = "failed" /\ p \in B!Critical
            THEN boot'.pc = "unavailable" /\ boot'.at = boot.at /\ boot'.faults = boot.faults
            ELSE GoesOn(p, r)
<1> DEFINE aborts == r.status = "failed" /\ p \in B!Critical
           d == boot.degraded \cup (IF aborts THEN {} ELSE B!Names(p, r))
           f == boot.failed \cup (IF r.status = "failed" THEN {p} ELSE {})
           a == boot.able \cup (IF r.status = "failed" THEN {} ELSE {p})
           q == IF aborts THEN "unavailable" ELSE IF boot.at < 16 THEN "booting" ELSE "serving"
           n == IF ~aborts /\ boot.at < 16 THEN boot.at + 1 ELSE boot.at
<1>1. boot \in BootType /\ boot.at \in 1..16 /\ p \in Cap
  BY PhasesAre DEF BootTypes
<1>2. boot' = [boot EXCEPT !.degraded = d, !.failed = f, !.able = a, !.pc = q, !.at = n]
  <2>1. Len(B!Phases) = 16
    BY PhasesAre
  <2> QED
    BY <2>1 DEF B!Record
<1>3. d \in SUBSET Cap /\ f \in SUBSET Cap /\ a \in SUBSET Cap
  <2>1. B!Names(p, r) \subseteq Cap
    BY <1>1 DEF B!Names, Outcome
  <2> QED
    BY <1>1, <2>1 DEF BootType
<1>4. q \in BootPCs /\ n \in 1..16
  BY <1>1 DEF BootPCs
<1> HIDE DEF d, f, a, q, n
<1>5. boot' \in BootType
  <2>1. n \in 0..16
    BY <1>4
  <2>2. [boot EXCEPT !.degraded = d, !.failed = f, !.able = a, !.pc = q, !.at = n] \in BootType
    BY <1>1, <1>3, <1>4, <2>1 DEF BootType
  <2> QED
    BY <1>2, <2>2
<1>6. DOMAIN boot = {"pc", "at", "db", "faults", "degraded", "failed", "able"}
  BY <1>1 DEF BootType
<1>7. /\ boot'.degraded = d /\ boot'.failed = f /\ boot'.able = a /\ boot'.pc = q /\ boot'.at = n
      /\ boot'.faults = boot.faults /\ boot'.db = boot.db
  BY <1>1, <1>2, <1>6 DEF BootType
<1> QED
  BY <1>4, <1>5, <1>7 DEF d, f, a, q, n, GoesOn

\* What the phases of a boot return.
LEMMA ResultIs ==
  /\ B!Result["configuration"] = B!Configuration /\ B!Result["directories"] = B!Directories
  /\ B!Result["audit_logging"] = B!AuditLogging /\ B!Result["forensic_parsers"] = B!ForensicParsers
  /\ B!Result["dataset_discovery"] = B!Lost(CapsOf[7]) /\ B!Result["knowledge_base"] = B!Lost(CapsOf[8])
  /\ B!Result["ioc_database"] = B!Lost(CapsOf[9]) /\ B!Result["threat_intelligence"] = B!Lost(CapsOf[10])
  /\ B!Result["ml_models"] = B!MlModels /\ B!Result["llm_service"] = B!Lost(CapsOf[12])
  /\ B!Result["rag_pipeline"] = B!Lost(CapsOf[13]) /\ B!Result["reporting"] = B!Lost(CapsOf[14])
  /\ B!Result["evaluation"] = B!Lost(CapsOf[15]) /\ B!Result["background_workers"] = B!BackgroundWorkers
<1>1. /\ CapsOf[7] = {"dataset_discovery"} /\ CapsOf[8] = {"vector_store", "embedding_engine", "knowledge_graph"}
      /\ CapsOf[9] = {"ioc_database"} /\ CapsOf[10] = {"yara_rules", "sigma_rules"} /\ CapsOf[12] = {"llm_service"}
      /\ CapsOf[13] = {"rag_pipeline"}
      /\ CapsOf[14] = {"report_output", "report_schema", "narrative_template", "pdf_export"}
      /\ CapsOf[15] = {"benchmark_datasets"}
  BY DEF CapsOf
<1> QED
  BY <1>1 DEF B!Result, B!DatasetDiscovery, B!KnowledgeBase, B!IocDatabase, B!ThreatIntelligence, B!LlmService,
              B!RagPipeline, B!Reporting, B!Evaluation

LEMMA LostIs ==
  ASSUME BootTypes, NEW i \in DOMAIN CapsOf
  PROVE  /\ B!Lost(CapsOf[i]) \in Outcome /\ B!Lost(CapsOf[i]).status # "failed"
         /\ \A p : boot.faults \cap CapsOf[i] \subseteq B!Names(p, B!Lost(CapsOf[i]))
<1>1. CapsOf[i] \subseteq Cap
  BY DEF CapsOf, Cap, B!Conditions, B!Services
<1>2. boot.faults \cap CapsOf[i] \in SUBSET Cap
  BY <1>1
<1> QED
  BY <1>2 DEF B!Lost, B!Degraded, Outcome, B!Names

LEMMA ResultTypes ==
  ASSUME BootTypes, NEW p \in Ph \ {"database", "authentication"}
  PROVE  /\ B!Result[p] \in Outcome
         /\ B!Result[p].status = "failed" /\ p \in B!Critical => p \in {"configuration", "directories", "audit_logging"}
<1>1. /\ B!Configuration \in Outcome /\ B!Directories \in Outcome /\ B!AuditLogging \in Outcome
      /\ B!BackgroundWorkers \in Outcome
  BY DEF B!Configuration, B!Directories, B!AuditLogging, B!BackgroundWorkers, B!FailedIf, B!Completed, B!Failed, Outcome
<1>2. B!ForensicParsers \in Outcome
  BY DEF B!ForensicParsers, B!Completed, B!Failed, Outcome, Cap
<1>3. B!MlModels \in Outcome
  BY DEF B!MlModels, B!Degraded, Outcome, Cap
<1>4. \A i \in DOMAIN CapsOf : B!Lost(CapsOf[i]) \in Outcome /\ B!Lost(CapsOf[i]).status # "failed"
  BY LostIs
<1>5. DOMAIN CapsOf = {7, 8, 9, 10, 12, 13, 14, 15}
  BY DEF CapsOf
<1>6. p \in {"configuration", "directories", "audit_logging", "forensic_parsers", "dataset_discovery",
             "knowledge_base", "ioc_database", "threat_intelligence", "ml_models", "llm_service", "rag_pipeline",
             "reporting", "evaluation", "background_workers"}
  BY PhasesAre DEF Ph
<1> QED
  BY <1>1, <1>2, <1>3, <1>4, <1>5, <1>6, ResultIs DEF B!Critical

-----------------------------------------------------------------------------
(* The phases and the report                                               *)

\* A boot that goes on is past one phase more.
LEMMA PastGrows ==
  ASSUME BootTypes, boot.pc = "booting", NEW p, NEW r, GoesOn(p, r)
  PROVE  \A i \in 1..16 : Past(i)' <=> Past(i) \/ i = boot.at
<1>1. boot.at \in 1..16
  BY DEF BootTypes
<1> QED
  BY <1>1 DEF GoesOn, Past

\* The report of a boot that goes on has what it had, and the phase.
LEMMA DoneStep ==
  ASSUME BootIInv, boot.pc = "booting", NEW r \in Outcome, GoesOn(B!Here, r), ~(r.status = "failed" /\ B!Here \in B!Critical)
  PROVE  DoneInv'
<1>1. BootTypes /\ DoneInv /\ boot.at \in 1..16
  BY DEF BootIInv, BootTypes
<1>2. \A i \in 1..16 : Past(i)' <=> Past(i) \/ i = boot.at
  BY <1>1, PastGrows
<1>3. boot'.able \cup boot'.failed = boot.able \cup boot.failed \cup {B!Here}
  BY DEF GoesOn
<1>4. boot'.failed \cap B!Critical = {}
  BY <1>1 DEF GoesOn, DoneInv
<1> QED
  BY <1>1, <1>2, <1>3, <1>4 DEF DoneInv, B!Here

\* What the phase at hand says of what it looked for.
Looked(r) ==
  /\ boot.at = 1 => boot.faults \cap B!Checked = {}
  /\ boot.at = 2 => ~B!Met("unwritable tree")
  /\ boot.at = 3 => ~B!Met("database down")
  /\ boot.at = 4 => ~B!Met("jwt")
  /\ boot.at = 5 => ~B!Met("audit path")
  /\ boot.at = 6 => /\ B!Met("no parser") \/ B!Met("probe raises") => B!Names(B!Here, r) # {}
                    /\ B!Met("no volatility") => {"memory", "forensic_parsers"} \cap B!Names(B!Here, r) # {}
  /\ boot.at = 11 => IF B!HasModel THEN db'.model ELSE "ml_models" \in B!Names(B!Here, r)
  /\ \A i \in DOMAIN CapsOf : boot.at = i => boot.faults \cap CapsOf[i] \subseteq B!Names(B!Here, r)

LEMMA PastCases ==
  ASSUME BootTypes, boot.pc = "booting", NEW p, NEW r, GoesOn(p, r)
  PROVE  /\ Past(1)' => Past(1) \/ boot.at = 1
         /\ Past(2)' => Past(2) \/ boot.at = 2
         /\ Past(3)' => Past(3) \/ boot.at = 3
         /\ Past(4)' => Past(4) \/ boot.at = 4
         /\ Past(5)' => Past(5) \/ boot.at = 5
         /\ Past(6)' => Past(6) \/ boot.at = 6
         /\ Past(11)' => Past(11) \/ boot.at = 11
         /\ \A i \in DOMAIN CapsOf : Past(i)' => Past(i) \/ boot.at = i
<1>1. \A i \in 1..16 : Past(i)' <=> Past(i) \/ i = boot.at
  BY PastGrows
<1>2. DOMAIN CapsOf = {7, 8, 9, 10, 12, 13, 14, 15}
  BY DEF CapsOf
<1>3. \A i \in DOMAIN CapsOf : i \in 1..16
  BY <1>2
<1>4. 1 \in 1..16 /\ 2 \in 1..16 /\ 3 \in 1..16 /\ 4 \in 1..16 /\ 5 \in 1..16 /\ 6 \in 1..16 /\ 11 \in 1..16
  OBVIOUS
<1>5. /\ Past(1)' => Past(1) \/ boot.at = 1
      /\ Past(2)' => Past(2) \/ boot.at = 2
      /\ Past(3)' => Past(3) \/ boot.at = 3
      /\ Past(4)' => Past(4) \/ boot.at = 4
      /\ Past(5)' => Past(5) \/ boot.at = 5
      /\ Past(6)' => Past(6) \/ boot.at = 6
      /\ Past(11)' => Past(11) \/ boot.at = 11
  BY <1>1, <1>4
<1>6. \A i \in DOMAIN CapsOf : Past(i)' => Past(i) \/ boot.at = i
  BY <1>1, <1>3
<1> QED
  BY <1>5, <1>6

\* And so does what is said of what it met, if it is true of this phase.
LEMMA MetStep ==
  ASSUME BootIInv, boot.pc = "booting", NEW r \in Outcome, GoesOn(B!Here, r), production' = production,
         boot.at # 11 => db'.model = db.model, Looked(r)
  PROVE  MetInv'
<1>1. BootTypes /\ MetInv
  BY DEF BootIInv
<1>2. /\ Past(1)' => Past(1) \/ boot.at = 1
      /\ Past(2)' => Past(2) \/ boot.at = 2
      /\ Past(3)' => Past(3) \/ boot.at = 3
      /\ Past(4)' => Past(4) \/ boot.at = 4
      /\ Past(5)' => Past(5) \/ boot.at = 5
      /\ Past(6)' => Past(6) \/ boot.at = 6
      /\ Past(11)' => Past(11) \/ boot.at = 11
      /\ \A i \in DOMAIN CapsOf : Past(i)' => Past(i) \/ boot.at = i
  BY <1>1, PastCases
<1>3. boot'.faults = boot.faults /\ boot'.degraded = boot.degraded \cup B!Names(B!Here, r) /\ B!Checked' = B!Checked
  BY DEF GoesOn, B!Checked
<1>4. \A c : B!Met(c)' <=> B!Met(c)
  BY <1>3 DEF B!Met
<1>5. Past(1)' => boot'.faults \cap B!Checked' = {}
  BY <1>1, <1>2, <1>3 DEF MetInv, Looked
<1>6. /\ Past(2)' => ~B!Met("unwritable tree")'
      /\ Past(3)' => ~B!Met("database down")'
      /\ Past(4)' => ~B!Met("jwt")'
      /\ Past(5)' => ~B!Met("audit path")'
  BY <1>1, <1>2, <1>3 DEF MetInv, Looked, B!Met
<1>7. Past(6)' => /\ B!Met("no parser")' \/ B!Met("probe raises")' => boot'.degraded # {}
                  /\ B!Met("no volatility")' => {"memory", "forensic_parsers"} \cap boot'.degraded # {}
  <2>1. Past(6) => /\ B!Met("no parser") \/ B!Met("probe raises") => boot.degraded # {}
                   /\ B!Met("no volatility") => {"memory", "forensic_parsers"} \cap boot.degraded # {}
    BY <1>1 DEF MetInv
  <2>2. boot.at = 6 => /\ B!Met("no parser") \/ B!Met("probe raises") => B!Names(B!Here, r) # {}
                       /\ B!Met("no volatility") => {"memory", "forensic_parsers"} \cap B!Names(B!Here, r) # {}
    BY DEF Looked
  <2>3. /\ B!Met("no parser")' <=> B!Met("no parser")
        /\ B!Met("probe raises")' <=> B!Met("probe raises")
        /\ B!Met("no volatility")' <=> B!Met("no volatility")
    BY <1>3 DEF B!Met
  <2> QED
    BY <1>2, <1>3, <2>1, <2>2, <2>3
<1>8. Past(11)' => IF B!HasModel' THEN db'.model ELSE "ml_models" \in boot'.degraded
  <2>1. CASE boot.at = 11
    <3>1. IF B!HasModel THEN db'.model ELSE "ml_models" \in B!Names(B!Here, r)
      BY <2>1 DEF Looked
    <3>2. B!HasModel' => B!HasModel \/ db'.model
      BY <1>3 DEF B!HasModel, B!Met
    <3>3. B!HasModel /\ ~B!HasModel' => ~db'.model
      BY <1>3 DEF B!HasModel, B!Met
    <3> QED
      BY <1>3, <3>1, <3>2, <3>3
  <2>2. CASE boot.at # 11
    <3>1. B!HasModel' <=> B!HasModel
      BY <1>3, <2>2 DEF B!HasModel, B!Met
    <3>2. Past(11) => IF B!HasModel THEN db.model ELSE "ml_models" \in boot.degraded
      BY <1>1 DEF MetInv
    <3> QED
      BY <1>2, <1>3, <2>2, <3>1, <3>2
  <2> QED
    BY <2>1, <2>2
<1>9. \A i \in DOMAIN CapsOf : Past(i)' => boot'.faults \cap CapsOf[i] \subseteq boot'.degraded
  <2> SUFFICES ASSUME NEW i \in DOMAIN CapsOf, Past(i)'
               PROVE  boot'.faults \cap CapsOf[i] \subseteq boot'.degraded
    OBVIOUS
  <2>1. Past(i) \/ boot.at = i
    BY <1>2
  <2>2. Past(i) => boot.faults \cap CapsOf[i] \subseteq boot.degraded
    BY <1>1 DEF MetInv
  <2>3. boot.at = i => boot.faults \cap CapsOf[i] \subseteq B!Names(B!Here, r)
    BY DEF Looked
  <2> QED
    BY <1>3, <2>1, <2>2, <2>3
<1> HIDE DEF Looked, Past
<1> QED
  BY <1>5, <1>6, <1>7, <1>8, <1>9 DEF MetInv, CapsOf

\* Nothing of the schema changes.
Still == db'.rev = db.rev /\ db'.has = db.has /\ UNCHANGED <<release, old, ahead>>
LEMMA StillStep ==
  ASSUME SchemaInv, Still
  PROVE  SchemaInv'
BY DEF SchemaInv, Still, B!Known

\* A phase that ends its boot leaves nothing to show but its reason.
LEMMA EndStep ==
  ASSUME BootIInv, BootTypes', SchemaInv', boot'.pc = "unavailable", B!SoundBootServes'
  PROVE  BootIInv'
<1>2. \A i : ~Past(i)'
  BY DEF Past
<1>3. ~Migrated'
  BY <1>2 DEF Migrated
<1>4. MetInv'
  BY <1>2 DEF MetInv
<1>5. DoneInv'
  BY DEF DoneInv
<1> QED
  BY <1>3, <1>4, <1>5 DEF BootIInv, Connected

-----------------------------------------------------------------------------
(* The plain phases                                                        *)
LEMMA PlainLooks ==
  ASSUME BootIInv, B!PlainPhase, ~(B!Result[B!Here].status = "failed" /\ B!Here \in B!Critical)
  PROVE  Looked(B!Result[B!Here])
<1>1. BootTypes /\ boot.at \in 1..16 /\ B!Here = B!Phases[boot.at]
  BY DEF BootIInv, BootTypes, B!PlainPhase, B!Here
<1>2. ASSUME boot.at = 1 PROVE boot.faults \cap B!Checked = {}
  BY <1>1, <1>2, PhasesAre, ResultIs DEF B!Configuration, B!FailedIf, B!Failed, B!Critical
<1>3. ASSUME boot.at = 2 PROVE ~B!Met("unwritable tree")
  <2>1. B!Here = "directories" /\ B!Result[B!Here] = B!Directories /\ B!Here \in B!Critical
    BY <1>1, <1>3, PhasesAre, ResultIs DEF B!Critical
  <2>2. B!Directories.status # "failed"
    BY <2>1
  <2> QED
    BY <2>2 DEF B!Directories, B!FailedIf, B!Failed
<1>4. boot.at # 3 /\ boot.at # 4
  BY <1>1, PhasesAre DEF B!PlainPhase
<1>5. ASSUME boot.at = 5 PROVE ~B!Met("audit path")
  <2>1. B!Here = "audit_logging" /\ B!Result[B!Here] = B!AuditLogging /\ B!Here \in B!Critical
    BY <1>1, <1>5, PhasesAre, ResultIs DEF B!Critical
  <2>2. B!AuditLogging.status # "failed"
    BY <2>1
  <2> QED
    BY <2>2 DEF B!AuditLogging, B!FailedIf, B!Failed
<1>6. ASSUME boot.at = 6
      PROVE  /\ B!Met("no parser") \/ B!Met("probe raises") => B!Names(B!Here, B!Result[B!Here]) # {}
             /\ B!Met("no volatility") => {"memory", "forensic_parsers"} \cap B!Names(B!Here, B!Result[B!Here]) # {}
  <2>1. B!Here = "forensic_parsers" /\ B!Result[B!Here] = B!ForensicParsers
    BY <1>1, <1>6, PhasesAre, ResultIs
  <2>2. B!Met("probe raises") \in BOOLEAN /\ B!Met("no parser") \in BOOLEAN /\ B!Met("no volatility") \in BOOLEAN
    BY DEF B!Met
  <2>3. CASE B!Met("probe raises")
    <3>1. B!ForensicParsers = B!Failed
      BY <2>3 DEF B!ForensicParsers
    <3>2. "forensic_parsers" \in B!Names(B!Here, B!Result[B!Here])
      BY <2>1, <3>1 DEF B!Failed, B!Names
    <3> QED
      BY <3>2
  <2>4. CASE ~B!Met("probe raises") /\ B!Met("no parser")
    <3>1. B!ForensicParsers = [status |-> "degraded", caps |-> {"disk", "memory"}]
      BY <2>4 DEF B!ForensicParsers
    <3>2. "forensic_parsers" \in B!Names(B!Here, B!Result[B!Here]) /\ "memory" \in B!Names(B!Here, B!Result[B!Here])
      BY <2>1, <3>1 DEF B!Names
    <3> QED
      BY <3>2
  <2>5. CASE ~B!Met("probe raises") /\ ~B!Met("no parser") /\ B!Met("no volatility")
    <3>1. B!ForensicParsers = [status |-> "completed", caps |-> {"memory"}]
      BY <2>5 DEF B!ForensicParsers
    <3>2. "memory" \in B!Names(B!Here, B!Result[B!Here])
      BY <2>1, <3>1 DEF B!Names
    <3> QED
      BY <2>5, <3>2
  <2> QED
    BY <2>2, <2>3, <2>4, <2>5
<1>7. ASSUME boot.at = 11 PROVE IF B!HasModel THEN db'.model ELSE "ml_models" \in B!Names(B!Here, B!Result[B!Here])
  <2>1. B!Here = "ml_models" /\ B!Result[B!Here] = B!MlModels
    BY <1>1, <1>7, PhasesAre, ResultIs
  <2>2. CASE B!HasModel
    <3>1. db' = [db EXCEPT !.model = @ \/ TRUE] /\ db \in DbType
      BY <1>1, <2>1, <2>2 DEF B!PlainPhase, BootTypes
    <3> QED
      BY <2>2, <3>1 DEF DbType
  <2>3. CASE ~B!HasModel
    BY <2>1, <2>3 DEF B!MlModels, B!Degraded, B!Names
  <2> QED
    BY <2>2, <2>3
<1>8. ASSUME NEW i \in DOMAIN CapsOf, boot.at = i PROVE boot.faults \cap CapsOf[i] \subseteq B!Names(B!Here, B!Result[B!Here])
  <2>1. i \in {7, 8, 9, 10, 12, 13, 14, 15}
    BY DEF CapsOf
  <2>2. B!Here = B!Phases[i]
    BY <1>1, <1>8
  <2>3. B!Result[B!Here] = B!Lost(CapsOf[i])
    BY <2>1, <2>2, PhasesAre, ResultIs
  <2> QED
    BY <1>1, <2>3, LostIs
<1> QED
  BY <1>2, <1>3, <1>4, <1>5, <1>6, <1>7, <1>8 DEF Looked

LEMMA PlainStep ==
  ASSUME BootIInv, B!PlainPhase
  PROVE  BootIInv'
<1> DEFINE r == B!Result[B!Here]
<1>1. BootTypes /\ SchemaInv /\ boot.at \in 1..16 /\ B!Here = B!Phases[boot.at] /\ boot.pc = "booting"
  BY DEF BootIInv, BootTypes, B!PlainPhase, B!Here
<1>2. B!Here \in Ph \ {"database", "authentication"} /\ boot.at \notin {3, 4}
  BY <1>1, PhasesAre DEF Ph, B!PlainPhase
<1>3. r \in Outcome /\ (r.status = "failed" /\ B!Here \in B!Critical => B!Here \in {"configuration", "directories", "audit_logging"})
  BY <1>1, <1>2, ResultTypes
<1>4. /\ boot' \in BootType /\ (boot'.pc = "booting" => boot'.at \in 1..16)
      /\ IF r.status = "failed" /\ B!Here \in B!Critical
         THEN boot'.pc = "unavailable" /\ boot'.at = boot.at /\ boot'.faults = boot.faults
         ELSE GoesOn(B!Here, r)
  <2>1. B!Record(B!Here, r) /\ B!Here \in Ph
    BY <1>2 DEF B!PlainPhase
  <2> QED
    BY <1>1, <1>3, <2>1, RecordShape
<1>5. /\ db' \in DbType /\ Still /\ db'.users = db.users /\ UNCHANGED <<torn, production, create, crashes>>
      /\ (boot.at # 11 => db'.model = db.model)
  <2>1. db' = [db EXCEPT !.model = @ \/ (B!Here = "ml_models" /\ B!HasModel)] /\ db \in DbType
    BY <1>1 DEF B!PlainPhase, BootTypes
  <2>2. (db.model \/ (B!Here = "ml_models" /\ B!HasModel)) \in BOOLEAN
    OBVIOUS
  <2>3. db' \in DbType
    BY <2>1, <2>2 DEF DbType
  <2>4. boot.at # 11 => B!Here # "ml_models"
    BY <1>1, PhasesAre
  <2>5. db'.rev = db.rev /\ db'.has = db.has /\ db'.users = db.users /\ (boot.at # 11 => db'.model = db.model)
    BY <2>1, <2>4 DEF DbType
  <2> QED
    BY <2>3, <2>5 DEF Still, B!PlainPhase, B!deployed
<1>6. BootTypes'
  <2>1. boot'.pc = "booting" /\ boot'.at < 3 => boot'.db = "create"
    BY <1>1, <1>4 DEF GoesOn, BootTypes
  <2>2. boot'.pc \in {"booting", "unavailable"} => boot'.at \in 1..16
    BY <1>1, <1>4 DEF GoesOn
  <2> QED
    BY <1>1, <1>4, <1>5, <2>1, <2>2 DEF BootTypes, Still
<1>7. SchemaInv'
  BY <1>1, <1>5, StillStep
<1>8. CASE r.status = "failed" /\ B!Here \in B!Critical
  <2>1. boot'.pc = "unavailable" /\ B!Here' = B!Here /\ boot'.faults = boot.faults
    BY <1>4, <1>8 DEF B!Here
  <2>2. boot.faults = {} => B!Here = "audit_logging" /\ torn
    <3>1. CASE B!Here = "configuration"
      BY <1>8, <3>1, ResultIs DEF B!Configuration, B!FailedIf, B!Completed
    <3>2. CASE B!Here = "directories"
      BY <1>8, <3>2, ResultIs DEF B!Directories, B!FailedIf, B!Completed, B!Met
    <3>3. CASE B!Here = "audit_logging"
      BY <1>8, <3>3, ResultIs DEF B!AuditLogging, B!FailedIf, B!Completed, B!Met
    <3> QED
      BY <1>3, <1>8, <3>1, <3>2, <3>3
  <2>3. B!SoundBootServes'
    BY <1>5, <2>1, <2>2 DEF B!SoundBootServes
  <2> QED
    BY <1>6, <1>7, <2>1, <2>3, EndStep
<1>9. CASE ~(r.status = "failed" /\ B!Here \in B!Critical)
  <2>1. GoesOn(B!Here, r)
    BY <1>4, <1>9
  <2>2. DoneInv'
    BY <1>1, <1>3, <1>9, <2>1, DoneStep
  <2>3. MetInv'
    <3>1. Looked(r)
      BY <1>9, PlainLooks
    <3> QED
      BY <1>1, <1>3, <1>5, <2>1, <3>1, MetStep
  <2>4. B!SoundBootServes'
    BY <1>1, <2>1 DEF GoesOn, B!SoundBootServes
  <2>5. Migrated' => db'.rev = release'
    <3>1. Migrated' => boot.at > 3
      BY <1>1, <1>2, <2>1 DEF GoesOn, Migrated, Past, BootTypes
    <3>2. Migrated' => Migrated
      BY <1>1, <3>1 DEF Migrated, Past
    <3> QED
      BY <1>5, <3>2 DEF BootIInv, Still
  <2>6. Connected'
    <3>1. boot'.at = 3 => boot.at = 2
      BY <1>1, <1>2, <2>1 DEF GoesOn
    <3>2. boot.at = 2 => boot.db = "create"
      BY <1>1 DEF BootTypes
    <3>3. boot'.db = boot.db
      BY <2>1 DEF GoesOn
    <3> QED
      BY <3>1, <3>2, <3>3 DEF Connected
  <2> QED
    BY <1>6, <1>7, <2>2, <2>3, <2>4, <2>5, <2>6 DEF BootIInv
<1> QED
  BY <1>8, <1>9

-----------------------------------------------------------------------------
(* The database and the authentication                                     *)

\* A boot that is not past a further phase keeps its report; db.model decides on
\* the rest.
SameBoot == /\ boot'.pc = boot.pc /\ boot'.at = boot.at /\ boot'.faults = boot.faults /\ boot'.degraded = boot.degraded
            /\ boot'.failed = boot.failed /\ boot'.able = boot.able
LEMMA SameReport ==
  ASSUME BootIInv, SameBoot, production' = production, db'.model = db.model
  PROVE  MetInv' /\ DoneInv' /\ \A i : Past(i)' <=> Past(i)
<1>1. \A i : Past(i)' <=> Past(i)
  BY DEF SameBoot, Past
<1>2. \A c : B!Met(c)' <=> B!Met(c)
  BY DEF SameBoot, B!Met
<1>3. boot'.faults = boot.faults /\ boot'.degraded = boot.degraded /\ B!Checked' = B!Checked /\ (B!HasModel' <=> B!HasModel)
  BY DEF SameBoot, B!Checked, B!HasModel, B!Met
<1>4. MetInv'
  <2>1. MetInv
    BY DEF BootIInv
  <2>2. (\A i \in DOMAIN CapsOf : Past(i) => boot.faults \cap CapsOf[i] \subseteq boot.degraded)'
    <3>1. \A i \in DOMAIN CapsOf : Past(i) => boot.faults \cap CapsOf[i] \subseteq boot.degraded
      BY <2>1 DEF MetInv
    <3>2. CapsOf' = CapsOf
      BY DEF CapsOf
    <3> QED
      BY <1>1, <1>3, <3>1, <3>2
  <2>3. /\ B!Met("unwritable tree")' <=> B!Met("unwritable tree")
        /\ B!Met("database down")' <=> B!Met("database down")
        /\ B!Met("jwt")' <=> B!Met("jwt") 
        /\ B!Met("audit path")' <=> B!Met("audit path")
        /\ B!Met("no parser")' <=> B!Met("no parser")
        /\ B!Met("probe raises")' <=> B!Met("probe raises")
        /\ B!Met("no volatility")' <=> B!Met("no volatility")
    BY <1>3 DEF B!Met
  <2>4. /\ Past(1)' <=> Past(1) 
        /\ Past(2)' <=> Past(2)
        /\ Past(3)' <=> Past(3) 
        /\ Past(4)' <=> Past(4)
        /\ Past(5)' <=> Past(5) 
        /\ Past(6)' <=> Past(6)
        /\ Past(11)' <=> Past(11)
    BY <1>1
  <2> QED
    BY <1>3, <2>1, <2>2, <2>3, <2>4 DEF MetInv
<1>5. DoneInv'
  <2>1. DoneInv
    BY DEF BootIInv
  <2> QED
    BY <1>1, <2>1 DEF DoneInv, SameBoot
<1> QED
  BY <1>1, <1>4, <1>5

\* What holds where the database phase fails without a fault.
LEMMA RefusedDatabase ==
  ASSUME BootIInv, boot.pc = "booting", B!Here = "database", boot.faults = {},
         \/ boot.db = "migrate" /\ ~B!Stamps /\ (B!Clashes \/ db.rev > release)
         \/ boot.db = "verify" /\ ~(B!Tables \subseteq db.has)
  PROVE  ahead \/ old
<1> SUFFICES ASSUME ~ahead, ~old PROVE FALSE
  OBVIOUS
<1>1. /\ BootTypes /\ SchemaInv /\ db.rev \in Nat /\ release \in Nat /\ release >= 1 /\ db.rev <= release
      /\ boot.at \in 1..16
  BY DEF BootIInv, BootTypes, SchemaInv, DbType, B!Sensible
<1>2. boot.at = 3
  BY <1>1, PhasesAre DEF B!Here
<1>3. CASE boot.db = "migrate" /\ ~B!Stamps /\ B!Clashes
  <2>1. PICK h \in B!Pending : h \in db.has
    BY <1>3 DEF B!Clashes
  <2>2. h \in Nat /\ h > db.rev
    BY <1>1, <2>1 DEF B!Pending
  <2>3. db.has = {} \/ db.has = 1..db.rev
    BY <1>1, <1>3 DEF SchemaInv, B!Stamps
  <2> QED
    BY <1>1, <2>1, <2>2, <2>3
<1>4. CASE boot.db = "verify" /\ ~(B!Tables \subseteq db.has)
  <2>1. db.rev = release
    BY <1>2, <1>4 DEF BootIInv, Migrated
  <2>2. 1..release \subseteq db.has
    BY <1>1, <2>1 DEF SchemaInv
  <2> QED
    BY <1>4, <2>2 DEF B!Tables, B!Known
<1> QED
  BY <1>1, <1>3, <1>4

LEMMA Numbers ==
  ASSUME B!Sensible, BootTypes
  PROVE  /\ release \in Nat /\ release >= 1 /\ db \in DbType /\ db.rev \in Nat /\ db.has \in SUBSET Heads
         /\ B!Known \subseteq Heads /\ B!Pending \subseteq Heads
<1>1. PICK h \in Nat : Heads = 1..h
  BY DEF B!Sensible
<1>2. release \in 1..h /\ db \in DbType
  BY <1>1 DEF BootTypes
<1>3. db.rev \in Nat /\ db.has \in SUBSET Heads
  BY <1>2 DEF DbType
<1> QED
  BY <1>1, <1>2, <1>3 DEF B!Known, B!Pending

LEMMA Intervals ==
  ASSUME NEW a \in Nat, NEW b \in Nat
  PROVE  /\ (a + 1)..b \subseteq 1..b /\ 1..b \subseteq (1..a) \cup ((a + 1)..b)
         /\ a <= b => 1..a \subseteq 1..b
OBVIOUS

LEMMA Three == 3 \in 1..16 /\ ~(3 < 3) /\ ~(3 > 3)
OBVIOUS

LEMMA DatabaseAt ==
  ASSUME BootIInv, boot.pc = "booting", B!Here = "database"
  PROVE  boot.at = 3 /\ B!Here \in Ph /\ B!Here \in B!Critical
<1>1. BootTypes /\ boot.at \in 1..16
  BY DEF BootIInv, BootTypes
<1>2. boot.at = 3
  BY <1>1, PhasesAre DEF B!Here
<1> QED
  BY <1>2, PhasesAre DEF B!Critical, Ph

\* The database phase fails.
LEMMA DatabaseFails ==
  ASSUME BootIInv, boot.pc = "booting", B!Here = "database", B!Record(B!Here, B!Failed), boot.faults = {} => ahead \/ old,
         UNCHANGED <<B!deployed, db, torn, old, ahead, crashes>>
  PROVE  BootIInv'
<1>1. BootTypes /\ SchemaInv /\ boot.at = 3 /\ B!Here \in Ph /\ B!Here \in B!Critical
  BY DatabaseAt DEF BootIInv
<1>2. B!Failed \in Outcome /\ B!Failed.status = "failed"
  BY DEF B!Failed, Outcome
<1>3. boot' \in BootType /\ boot'.pc = "unavailable" /\ boot'.at = boot.at /\ boot'.faults = boot.faults
  BY <1>1, <1>2, RecordShape
<1>4. BootTypes'
  BY <1>1, <1>3 DEF BootTypes, B!deployed
<1>5. SchemaInv'
  BY <1>1, StillStep DEF Still, B!deployed
<1>6. B!SoundBootServes'
  BY <1>3 DEF B!SoundBootServes, B!Here
<1> QED
  BY <1>3, <1>4, <1>5, <1>6, EndStep

\* The database phase goes from one step to the next.
LEMMA DatabaseGoesOn ==
  ASSUME BootIInv, boot.pc = "booting", B!Here = "database", NEW step \in {"migrate", "verify"},
         boot' = [boot EXCEPT !.db = step], UNCHANGED <<B!deployed, torn, old, crashes>>,
         ahead' \in BOOLEAN, db' \in DbType, db'.model = db.model, SchemaInv', step = "verify" => db'.rev = release,
         ~B!Met("database down")
  PROVE  BootIInv'
<1>1. BootTypes /\ boot.at = 3
  BY DatabaseAt DEF BootIInv
<1>2. boot' \in BootType /\ SameBoot /\ boot'.db = step
  <2>1. boot \in BootType
    BY <1>1 DEF BootTypes
  <2>2. [boot EXCEPT !.db = step] \in BootType
    BY <2>1 DEF BootType
  <2> QED
    BY <2>1, <2>2 DEF BootType, SameBoot
<1>3. BootTypes'
  <2>1. boot'.at \in 1..16 /\ ~(boot'.at < 3)
    <3>1. boot'.at = 3
      BY <1>1, <1>2 DEF SameBoot
    <3> QED
      BY <3>1, Three
  <2> QED
    BY <1>1, <1>2, <2>1 DEF BootTypes, B!deployed
<1>4. MetInv' /\ DoneInv'
  BY <1>2, SameReport DEF B!deployed
<1>5. Migrated' => db'.rev = release'
  <2>1. boot'.pc = "booting" /\ ~(boot'.at > 3) /\ release' = release
    <3>1. boot'.at = 3 /\ boot'.pc = "booting" /\ release' = release
      BY <1>1, <1>2 DEF SameBoot, B!deployed
    <3> QED
      BY <3>1, Three
  <2>2. Migrated' => boot'.db = "verify"
    BY <2>1 DEF Migrated, Past
  <2> QED
    BY <1>2, <2>1, <2>2
<1>6. B!SoundBootServes'
  BY <1>2 DEF B!SoundBootServes, SameBoot
<1>7. Connected'
  BY <1>2 DEF Connected, SameBoot, B!Met
<1> QED
  BY <1>3, <1>4, <1>5, <1>6, <1>7 DEF BootIInv

\* create_all under the revision of the database.
LEMMA BuiltSchema ==
  ASSUME BootIInv
  PROVE  /\ B!Built \subseteq Heads
         /\ ~old => /\ B!Built \subseteq B!Known
                    /\ db.rev = 0 => B!Built = B!Known
                    /\ db.rev > 0 => 1..db.rev \subseteq B!Built
<1>1. BootTypes /\ SchemaInv /\ db \in DbType /\ release \in Nat /\ release >= 1 /\ B!Known \subseteq Heads
  BY DEF BootIInv, BootTypes, B!Sensible, B!Known
<1>2. B!Built \subseteq Heads
  BY <1>1 DEF B!Built, B!Tables, DbType
<1>3. ASSUME ~old PROVE B!Built \subseteq B!Known
  BY <1>1, <1>3 DEF B!Built, B!Tables, SchemaInv
<1>4. ASSUME ~old, db.rev = 0 PROVE B!Built = B!Known
  <2>1. db.has = {} \/ db.has = B!Known
    BY <1>1, <1>4 DEF SchemaInv
  <2>2. CASE db.has = {}
    BY <1>1, <2>2 DEF B!Built, B!Tables
  <2>3. CASE db.has = B!Known
    BY <1>3, <1>4, <2>3 DEF B!Built
  <2> QED
    BY <2>1, <2>2, <2>3
<1>5. ASSUME ~old, db.rev > 0 PROVE 1..db.rev \subseteq B!Built
  BY <1>1, <1>5 DEF SchemaInv, B!Built
<1> QED
  BY <1>2, <1>3, <1>4, <1>5

LEMMA ConnectStep ==
  ASSUME BootIInv, B!ConnectAndCreate
  PROVE  BootIInv'
<1>1. BootTypes /\ SchemaInv /\ db \in DbType /\ boot.pc = "booting" /\ B!Here = "database"
  BY DEF BootIInv, BootTypes, B!ConnectAndCreate, B!In
<1>2. CASE B!Met("database down")
  <2>1. B!Record(B!Here, B!Failed) /\ UNCHANGED <<B!deployed, db, torn, old, ahead, crashes>>
    BY <1>2 DEF B!ConnectAndCreate
  <2>2. boot.faults # {}
    BY <1>2 DEF B!Met
  <2> QED
    BY <1>1, <2>1, <2>2, DatabaseFails
<1>3. CASE ~B!Met("database down")
  <2>1. /\ boot' = [boot EXCEPT !.db = "migrate"] /\ UNCHANGED <<B!deployed, torn, old, crashes>>
        /\ db' = IF create THEN [db EXCEPT !.has = B!Built] ELSE db
        /\ ahead' = (ahead \/ (create /\ db.rev > 0 /\ B!Built # db.has))
    BY <1>3 DEF B!ConnectAndCreate
  <2>2. /\ B!Built \subseteq Heads
        /\ ~old => /\ B!Built \subseteq B!Known
                   /\ db.rev = 0 => B!Built = B!Known
                   /\ db.rev > 0 => 1..db.rev \subseteq B!Built
    BY BuiltSchema
  <2>3. [db EXCEPT !.has = B!Built] \in DbType
    BY <1>1, <2>2 DEF DbType
  <2>4. /\ db' \in DbType /\ db'.rev = db.rev /\ db'.model = db.model /\ ahead' \in BOOLEAN
        /\ db'.has = IF create THEN B!Built ELSE db.has
    BY <1>1, <2>1, <2>3 DEF DbType
  <2>5. SchemaInv'
    <3>1. db'.rev <= release' /\ release' = release /\ old' = old /\ B!Known' = B!Known
      BY <1>1, <2>1, <2>4 DEF SchemaInv, B!Known, B!deployed
    <3>2. ~ahead' => ~ahead /\ (create /\ db.rev > 0 => B!Built = db.has)
      BY <2>1
    <3>3. CASE ~create
      BY <1>1, <2>4, <3>1, <3>2, <3>3 DEF SchemaInv
    <3>4. CASE create
      BY <1>1, <2>2, <2>4, <3>1, <3>2, <3>4 DEF SchemaInv
    <3> QED
      BY <3>3, <3>4
  <2> QED
    BY <1>1, <1>3, <2>1, <2>4, <2>5, DatabaseGoesOn
<1> QED
  BY <1>2, <1>3

LEMMA MigrateStep ==
  ASSUME BootIInv, B!Migrate
  PROVE  BootIInv'
<1>1. /\ BootTypes /\ SchemaInv /\ db \in DbType /\ boot.pc = "booting" /\ B!Here = "database" /\ boot.db = "migrate"
      /\ release \in Nat /\ release >= 1 /\ db.rev \in Nat /\ B!Known \subseteq Heads /\ B!Pending \subseteq Heads
      /\ ~B!Met("database down")
  <2>1. BootTypes /\ boot.pc = "booting" /\ B!Here = "database" /\ boot.db = "migrate"
    BY DEF BootIInv, B!Migrate, B!In
  <2>2. ~B!Met("database down")
    BY <2>1, DatabaseAt DEF BootIInv, Connected
  <2> QED
    BY <2>1, <2>2, Numbers DEF BootIInv
<1>2. CASE B!Stamps
  <2>1. /\ boot' = [boot EXCEPT !.db = "verify"] /\ UNCHANGED <<B!deployed, torn, old, ahead, crashes>>
        /\ db' = [db EXCEPT !.rev = release]
    BY <1>2 DEF B!Migrate
  <2>2. db' \in DbType /\ db'.rev = release /\ db'.has = db.has /\ db'.model = db.model
    BY <1>1, <2>1 DEF DbType
  <2>3. SchemaInv'
    <3>1. ~old => db.has = 1..release
      BY <1>1, <1>2 DEF SchemaInv, B!Stamps, B!Known
    <3>2. /\ old' = old /\ release' = release /\ B!Known' = 1..release /\ db'.rev # 0 /\ db'.rev <= release'
          /\ db'.has = db.has
      <4>1. old' = old /\ release' = release /\ db'.rev = release /\ db'.has = db.has
        BY <2>1, <2>2 DEF B!deployed
      <4>2. release \in Nat /\ release >= 1
        BY <1>1
      <4> QED
        BY <4>1, <4>2 DEF B!Known
    <3> QED
      BY <2>2, <3>1, <3>2 DEF SchemaInv
  <2>4. ahead' \in BOOLEAN
    BY <1>1, <2>1 DEF BootTypes
  <2> QED
    BY <1>1, <2>1, <2>2, <2>3, <2>4, DatabaseGoesOn
<1>3. CASE ~B!Stamps /\ (B!Clashes \/ db.rev > release)
  <2>1. B!Record(B!Here, B!Failed) /\ UNCHANGED <<B!deployed, db, torn, old, ahead, crashes>>
    BY <1>3 DEF B!Migrate
  <2> QED
    BY <1>1, <1>3, <2>1, DatabaseFails, RefusedDatabase
<1>4. CASE ~B!Stamps /\ ~B!Clashes /\ ~(db.rev > release)
  <2>1. /\ boot' = [boot EXCEPT !.db = "verify"] /\ UNCHANGED <<B!deployed, torn, old, ahead, crashes>>
        /\ db' = [db EXCEPT !.rev = release, !.has = @ \cup B!Pending, !.roles = @ \/ 1 \in B!Pending]
    BY <1>4 DEF B!Migrate
  <2>2. (db.roles \/ 1 \in B!Pending) \in BOOLEAN /\ db.has \cup B!Pending \in SUBSET Heads
    BY <1>1 DEF DbType
  <2>3. db' \in DbType /\ db'.rev = release /\ db'.has = db.has \cup B!Pending /\ db'.model = db.model
    BY <1>1, <2>1, <2>2 DEF DbType
  <2>4. SchemaInv'
    <3>1. B!Pending \subseteq B!Known /\ 1..release \subseteq (1..db.rev) \cup B!Pending
      BY <1>1, Intervals DEF B!Pending, B!Known
    <3>2. ASSUME ~old PROVE db.has \subseteq B!Known /\ 1..db.rev \subseteq db.has
      <4>1. db.has \subseteq B!Known /\ (db.rev > 0 => 1..db.rev \subseteq db.has)
        BY <1>1, <3>2 DEF SchemaInv
      <4>2. db.rev = 0 => 1..db.rev = {}
        OBVIOUS
      <4>3. db.rev = 0 \/ db.rev > 0
        <5>1. db.rev \in Nat
          BY <1>1
        <5> QED
          BY <5>1
      <4> QED
        BY <4>1, <4>2, <4>3
    <3>3. ~old => db'.has = 1..release
      BY <2>3, <3>1, <3>2 DEF B!Known
    <3>4. old' = old /\ release' = release /\ B!Known' = 1..release /\ db'.rev # 0 /\ db'.rev <= release'
      <4>1. old' = old /\ release' = release /\ db'.rev = release
        BY <2>1, <2>3 DEF B!deployed
      <4>2. release \in Nat /\ release >= 1
        BY <1>1
      <4> QED
        BY <4>1, <4>2 DEF B!Known
    <3> QED
      BY <2>3, <3>3, <3>4 DEF SchemaInv
  <2>5. ahead' \in BOOLEAN
    BY <1>1, <2>1 DEF BootTypes
  <2> QED
    BY <1>1, <2>1, <2>3, <2>4, <2>5, DatabaseGoesOn
<1> QED
  BY <1>2, <1>3, <1>4

\* A phase that completes or is no critical one, other than the plain ones.
MayPass ==
  /\ boot.at \in {3, 4} /\ B!Here \in Ph
  /\ boot.at = 3 => ~B!Met("database down") /\ boot.db = "verify"
  /\ boot.at = 4 => ~B!Met("jwt")
LEMMA PassedStep ==
  ASSUME BootIInv, boot.pc = "booting", MayPass, B!Record(B!Here, B!Completed),
         UNCHANGED <<B!deployed, torn, old, ahead, crashes>>, db' \in DbType,
         db'.rev = db.rev, db'.has = db.has, db'.model = db.model
  PROVE  BootIInv'
<1>1. BootTypes /\ SchemaInv /\ B!Here \in Ph
  BY DEF BootIInv, MayPass
<1>2. B!Completed \in Outcome /\ B!Completed.status # "failed"
  BY DEF B!Completed, Outcome
<1>3. boot' \in BootType /\ (boot'.pc = "booting" => boot'.at \in 1..16) /\ GoesOn(B!Here, B!Completed)
  BY <1>1, <1>2, RecordShape
<1>4. boot'.pc = "booting" /\ boot'.at > 3
  <2>1. boot.at = 3 \/ boot.at = 4
    BY DEF MayPass
  <2>2. CASE boot.at = 3
    BY <1>3, <2>2 DEF GoesOn
  <2>3. CASE boot.at = 4
    BY <1>3, <2>3 DEF GoesOn
  <2> QED
    BY <2>1, <2>2, <2>3
<1>5. BootTypes'
  <2>1. boot' \in BootType /\ boot'.at \in 1..16 /\ ~(boot'.at < 3)
    BY <1>3, <1>4
  <2> QED
    BY <1>1, <2>1 DEF BootTypes, B!deployed
<1>6. SchemaInv'
  BY <1>1, StillStep DEF Still, B!deployed
<1>7. Looked(B!Completed)
  <2>1. boot.at = 3 \/ boot.at = 4
    BY DEF MayPass
  <2>2. DOMAIN CapsOf = {7, 8, 9, 10, 12, 13, 14, 15}
    BY DEF CapsOf
  <2>3. \A i \in DOMAIN CapsOf : boot.at # i
    BY <2>1, <2>2
  <2>4. boot.at # 1 /\ boot.at # 2 /\ boot.at # 5 /\ boot.at # 6 /\ boot.at # 11
    BY <2>1
  <2> QED
    BY <2>3, <2>4 DEF Looked, MayPass
<1>8. MetInv' /\ DoneInv'
  <2>1. production' = production /\ (boot.at # 11 => db'.model = db.model)
    BY DEF B!deployed
  <2> QED
    BY <1>2, <1>3, <1>7, <2>1, MetStep, DoneStep
<1>9. Migrated' => db'.rev = release'
  <2>1. Migrated
    <3>1. boot.at = 3 \/ boot.at = 4
      BY DEF MayPass
    <3>2. CASE boot.at = 3
      BY <3>2 DEF Migrated, MayPass
    <3>3. CASE boot.at = 4
      BY <3>3 DEF Migrated, Past
    <3> QED
      BY <3>1, <3>2, <3>3
  <2> QED
    BY <2>1 DEF BootIInv, B!deployed
<1>10. B!SoundBootServes'
  BY <1>4 DEF B!SoundBootServes
<1>11. Connected'
  <2>1. boot'.at # 3
    BY <1>4
  <2> QED
    BY <2>1 DEF Connected
<1> QED
  BY <1>5, <1>6, <1>8, <1>9, <1>10, <1>11 DEF BootIInv

LEMMA VerifyStep ==
  ASSUME BootIInv, B!VerifyAndSeed
  PROVE  BootIInv'
<1>1. /\ BootTypes /\ boot.pc = "booting" /\ B!Here = "database" /\ boot.db = "verify" /\ db \in DbType
      /\ UNCHANGED <<B!deployed, torn, old, ahead, crashes>>
  BY DEF BootIInv, BootTypes, B!VerifyAndSeed, B!In
<1>2. boot.at = 3 /\ B!Here \in Ph
  BY <1>1, DatabaseAt
<1>3. CASE B!Tables \subseteq db.has
  <2>1. B!Record(B!Here, B!Completed) /\ db' = [db EXCEPT !.roles = TRUE]
    BY <1>3 DEF B!VerifyAndSeed
  <2>2. db' \in DbType /\ db'.rev = db.rev /\ db'.has = db.has /\ db'.model = db.model
    BY <1>1, <2>1 DEF DbType
  <2>3. MayPass
    <3>1. ~B!Met("database down")
      BY <1>1, <1>2 DEF BootIInv, Connected
    <3>2. boot.at # 4 /\ boot.at \in {3, 4}
      BY <1>2
    <3> QED
      BY <1>1, <1>2, <3>1, <3>2 DEF MayPass
  <2> QED
    BY <1>1, <2>1, <2>2, <2>3, PassedStep
<1>4. CASE ~(B!Tables \subseteq db.has)
  <2>1. B!Record(B!Here, B!Failed) /\ UNCHANGED db
    BY <1>4 DEF B!VerifyAndSeed
  <2> QED
    BY <1>1, <1>4, <2>1, DatabaseFails, RefusedDatabase
<1> QED
  BY <1>3, <1>4

LEMMA AuthenticationStep ==
  ASSUME BootIInv, B!Authentication
  PROVE  BootIInv'
<1>1. /\ BootTypes /\ boot.pc = "booting" /\ B!Here = "authentication" /\ db \in DbType /\ boot.at \in 1..16
      /\ UNCHANGED <<B!deployed, torn, old, ahead, crashes>>
  BY DEF BootIInv, BootTypes, B!Authentication
<1>2. boot.at = 4 /\ B!Here \in Ph /\ B!Here \in B!Critical
  <2>1. boot.at = 4
    BY <1>1, PhasesAre DEF B!Here
  <2> QED
    BY <1>1, <2>1, PhasesAre DEF Ph, B!Critical
<1>3. /\ db' \in DbType /\ db'.rev = db.rev /\ db'.has = db.has /\ db'.model = db.model
      /\ db'.users = IF B!Met("jwt") THEN db.users ELSE B!EnsuredUsers
  <2>1. B!EnsuredUsers \in SUBSET B!Roles
    BY <1>1 DEF B!EnsuredUsers, DbType, B!Roles
  <2>2. [db EXCEPT !.admin = TRUE, !.users = B!EnsuredUsers] \in DbType
    BY <1>1, <2>1 DEF DbType
  <2>3. db' = IF B!Met("jwt") THEN db ELSE [db EXCEPT !.admin = TRUE, !.users = B!EnsuredUsers]
    BY DEF B!Authentication
  <2> QED
    BY <1>1, <2>1, <2>2, <2>3 DEF DbType
<1>4. CASE ~B!Met("jwt") /\ B!EnsuredUsers = B!Roles
  <2>1. B!Record(B!Here, B!Completed)
    BY <1>4 DEF B!Authentication, B!FailedIf
  <2>2. MayPass
    BY <1>2, <1>4 DEF MayPass
  <2> QED
    BY <1>1, <1>3, <2>1, <2>2, PassedStep
<1>5. CASE B!Met("jwt") \/ B!EnsuredUsers # B!Roles
  <2>1. B!Record(B!Here, B!Failed)
    BY <1>5 DEF B!Authentication, B!FailedIf
  <2>2. B!Failed \in Outcome /\ B!Failed.status = "failed"
    BY DEF B!Failed, Outcome
  <2>3. boot' \in BootType /\ boot'.pc = "unavailable" /\ boot'.at = boot.at /\ boot'.faults = boot.faults
    BY <1>1, <1>2, <2>1, <2>2, RecordShape
  <2>4. BootTypes'
    BY <1>1, <1>3, <2>3 DEF BootTypes, B!deployed
  <2>5. SchemaInv'
    BY <1>1, <1>3, StillStep DEF Still, BootIInv, B!deployed
  <2>6. B!SoundBootServes'
    <3>1. boot.faults = {} => db'.users # B!Roles
      BY <1>3, <1>5 DEF B!Met
    <3> QED
      BY <1>1, <2>3, <3>1 DEF B!SoundBootServes, B!Here
  <2> QED
    BY <2>3, <2>4, <2>5, <2>6, EndStep
<1> QED
  BY <1>4, <1>5

-----------------------------------------------------------------------------
(* Around the boots                                                        *)

\* While no boot runs.
LEMMA DownStep ==
  ASSUME B!Sensible, BootTypes', SchemaInv', boot'.pc = "down" \/ (boot'.pc = "booting" /\ boot'.at = 1 /\ boot'.able = {}
           /\ boot'.failed = {} /\ boot'.db = "create")
  PROVE  BootIInv'
<1>1. \A i \in 1..16 : ~Past(i)'
  BY DEF Past
<1>2. ~Migrated'
  <2>1. (~Past(3)' /\ boot'.at # 3) \/ boot'.pc = "down"
    BY <1>1
  <2> QED
    BY <1>1, <2>1 DEF Migrated
<1>3. MetInv'
  <2>1. \A i \in DOMAIN CapsOf' : ~Past(i)'
    <3>1. DOMAIN CapsOf' = {7, 8, 9, 10, 12, 13, 14, 15}
      BY DEF CapsOf
    <3>2. \A i \in {7, 8, 9, 10, 12, 13, 14, 15} : i \in 1..16
      OBVIOUS
    <3> QED
      BY <1>1, <3>1, <3>2
  <2>2. ~Past(1)' /\ ~Past(2)' /\ ~Past(3)' /\ ~Past(4)' /\ ~Past(5)' /\ ~Past(6)' /\ ~Past(11)'
    BY <1>1
  <2> QED
    BY <2>1, <2>2 DEF MetInv
<1>4. DoneInv'
  BY <1>1 DEF DoneInv
<1>5. B!SoundBootServes' /\ Connected'
  BY DEF B!SoundBootServes, Connected
<1> QED
  BY <1>2, <1>3, <1>4, <1>5 DEF BootIInv

LEMMA DownIs == B!Down \in BootType /\ B!Down.pc = "down" /\ B!Down.db = "create"
BY DEF B!Down, BootType, BootPCs

LEMMA BeginStep ==
  ASSUME BootIInv, B!Begin
  PROVE  BootIInv'
<1>1. BootTypes /\ SchemaInv /\ UNCHANGED <<B!deployed, db, torn, old, ahead, crashes>>
  BY DEF BootIInv, B!Begin
<1>2. PICK f \in FaultSets : boot' = [B!Down EXCEPT !.pc = "booting", !.at = 1, !.faults = f]
  BY DEF B!Begin
<1>3. f \in SUBSET B!Conditions
  BY DEF BootIInv, B!Sensible
<1>4. /\ boot' \in BootType /\ boot'.pc = "booting" /\ boot'.at = 1 /\ boot'.able = {} /\ boot'.failed = {}
      /\ boot'.db = "create"
  <2>1. B!Down \in BootType /\ B!Down.db = "create" /\ B!Down.able = {} /\ B!Down.failed = {}
    BY DEF B!Down, BootType, BootPCs
  <2>2. 1 \in 0..16 /\ "booting" \in BootPCs
    BY DEF BootPCs
  <2>3. [B!Down EXCEPT !.pc = "booting", !.at = 1, !.faults = f] \in BootType
    BY <1>3, <2>1, <2>2 DEF BootType
  <2> QED
    BY <1>2, <2>1, <2>3 DEF BootType
<1>5. BootTypes' /\ SchemaInv'
  BY <1>1, <1>4, StillStep DEF BootTypes, B!deployed, Still
<1> QED
  BY <1>4, <1>5, DownStep DEF BootIInv

LEMMA StopStep ==
  ASSUME BootIInv, B!Exits \/ B!Dies
  PROVE  BootIInv'
<1>1. BootTypes /\ SchemaInv /\ boot' = B!Down /\ UNCHANGED <<B!deployed, db, old, ahead>>
  BY DEF BootIInv, B!Exits, B!Dies
<1>2. torn' \in BOOLEAN /\ crashes' \in 0..MaxCrashes
  <2>1. torn \in BOOLEAN /\ crashes \in 0..MaxCrashes /\ MaxCrashes \in Nat
    BY <1>1 DEF BootTypes, BootIInv, B!Sensible
  <2>2. CASE B!Exits
    BY <2>1, <2>2 DEF B!Exits
  <2>3. CASE B!Dies
    <3>1. torn' \in {torn, TRUE} /\ crashes < MaxCrashes /\ crashes' = crashes + 1
      BY <2>3 DEF B!Dies
    <3>2. crashes' \in 0..MaxCrashes
      BY <2>1, <3>1
    <3> QED
      BY <2>1, <3>1, <3>2
  <2> QED
    BY <2>2, <2>3
<1>3. BootTypes' /\ SchemaInv'
  BY <1>1, <1>2, DownIs, StillStep DEF BootTypes, B!deployed, Still
<1> QED
  BY <1>1, <1>3, DownIs, DownStep DEF BootIInv

LEMMA UsersStep ==
  ASSUME BootIInv, NEW r \in B!Roles, B!AddUser(r) \/ B!LastDeactivated(r)
  PROVE  BootIInv'
<1>1. BootTypes /\ SchemaInv /\ db \in DbType /\ UNCHANGED <<B!deployed, torn, boot, old, ahead, crashes>>
  BY DEF BootIInv, BootTypes, B!AddUser, B!LastDeactivated
<1>2. /\ db' \in DbType /\ db'.rev = db.rev /\ db'.has = db.has /\ db'.model = db.model
  <2>1. CASE B!AddUser(r)
    BY <1>1, <2>1 DEF B!AddUser, DbType
  <2>2. CASE B!LastDeactivated(r)
    BY <1>1, <2>2 DEF B!LastDeactivated, DbType
  <2> QED
    BY <2>1, <2>2
<1>3. BootTypes' /\ SchemaInv'
  BY <1>1, <1>2, StillStep DEF BootTypes, B!deployed, Still
<1>4. MetInv' /\ DoneInv' /\ (Migrated' <=> Migrated) /\ (Connected' <=> Connected)
  <2>1. SameBoot
    BY <1>1 DEF SameBoot
  <2>2. MetInv' /\ DoneInv' /\ \A i : Past(i)' <=> Past(i)
    BY <1>1, <1>2, <2>1, SameReport DEF B!deployed
  <2> QED
    BY <1>1, <2>2 DEF Migrated, Connected, B!Met
<1>5. B!SoundBootServes'
  BY <1>1 DEF B!SoundBootServes, B!AddUser, B!LastDeactivated
<1> QED
  BY <1>1, <1>2, <1>3, <1>4, <1>5 DEF BootIInv, B!deployed

LEMMA ScriptStep ==
  ASSUME BootIInv, B!SeedScript
  PROVE  BootIInv'
<1>1. BootTypes /\ SchemaInv /\ db \in DbType /\ UNCHANGED <<B!deployed, torn, boot, old, ahead, crashes>>
      /\ db' = [db EXCEPT !.has = B!Built] /\ boot.pc = "down" /\ db.rev = 0
  BY DEF BootIInv, BootTypes, B!SeedScript
<1>2. B!Built \subseteq Heads /\ (~old => B!Built = B!Known)
  BY <1>1, BuiltSchema
<1>3. db' \in DbType /\ db'.rev = 0 /\ db'.has = B!Built
  BY <1>1, <1>2 DEF DbType
<1>4. BootTypes'
  BY <1>1, <1>3 DEF BootTypes, B!deployed
<1>5. SchemaInv'
  <2>1. old' = old /\ release' = release /\ B!Known' = B!Known /\ ~(db'.rev > 0) /\ db'.rev <= release'
    BY <1>1, <1>3, Numbers DEF B!Known, B!deployed, BootIInv
  <2> QED
    BY <1>2, <1>3, <2>1 DEF SchemaInv
<1> QED
  BY <1>1, <1>4, <1>5, DownStep DEF BootIInv

LEMMA DeployStep ==
  ASSUME BootIInv, B!Deploy
  PROVE  BootIInv'
<1>1. /\ BootTypes /\ SchemaInv /\ db \in DbType /\ UNCHANGED <<create, production, db, torn, boot, ahead, crashes>>
      /\ boot.pc = "down" /\ release' = release + 1 /\ release' \in Heads
      /\ old' = (old \/ (db.rev = 0 /\ db.has # {}))
  BY DEF BootIInv, BootTypes, B!Deploy
<1>2. release \in Nat /\ db.rev \in Nat
  BY <1>1 DEF BootIInv, B!Sensible, BootTypes, DbType
<1>3. BootTypes'
  BY <1>1 DEF BootTypes
<1>4. SchemaInv'
  <2>1. B!Known \subseteq B!Known' 
    BY <1>1, <1>2 DEF B!Known
  <2>2. ~old' => ~old /\ (db.rev = 0 => db.has = {})
    BY <1>1
  <2> QED
    BY <1>1, <1>2, <2>1, <2>2 DEF SchemaInv
<1> QED
  BY <1>1, <1>3, <1>4, DownStep DEF BootIInv

LEMMA BootInit ==
  ASSUME B!Sensible, B!Init
  PROVE  BootIInv
<1>1. db \in DbType /\ db.rev = 0 /\ db.has = {}
  BY DEF B!Init, DbType
<1>2. BootTypes
  <2>1. boot \in BootType /\ boot.pc = "down"
    BY DownIs DEF B!Init
  <2>2. crashes \in 0..MaxCrashes
    BY DEF B!Init, B!Sensible
  <2> QED
    BY <1>1, <2>1, <2>2 DEF B!Init, BootTypes
<1>3. SchemaInv
  BY <1>1 DEF SchemaInv, B!Init, B!Sensible
<1>4. boot.pc = "down"
  BY DownIs DEF B!Init
<1> QED
  BY <1>2, <1>3, <1>4 DEF BootIInv, Migrated, Past, Connected, MetInv, DoneInv, B!SoundBootServes

LEMMA BootNext ==
  ASSUME BootIInv, [B!Next]_B!vars
  PROVE  BootIInv'
<1>1. CASE B!Next
  <2>1. CASE B!BootStep
    BY <2>1, PlainStep, ConnectStep, MigrateStep, VerifyStep, AuthenticationStep DEF B!BootStep
  <2>2. CASE ~B!BootStep
    BY <1>1, <2>2, BeginStep, StopStep, UsersStep, ScriptStep, DeployStep DEF B!Next
  <2> QED
    BY <2>1, <2>2
<1>2. CASE UNCHANGED B!vars
  <2>1. BootTypes /\ SchemaInv /\ UNCHANGED <<create, production, release, db, torn, boot, old, ahead, crashes>>
    BY <1>2 DEF B!vars, B!deployed, BootIInv
  <2>2. BootTypes' /\ SchemaInv'
    BY <2>1, StillStep DEF BootTypes, Still
  <2>3. MetInv' /\ DoneInv' /\ \A i : Past(i)' <=> Past(i)
    BY <2>1, SameReport DEF SameBoot
  <2>4. (Migrated' <=> Migrated) /\ (Connected' <=> Connected) /\ (B!SoundBootServes' <=> B!SoundBootServes)
    BY <2>1, <2>3 DEF Migrated, Connected, B!Met, B!SoundBootServes, B!Here
  <2> QED
    BY <2>1, <2>2, <2>3, <2>4 DEF BootIInv
<1> QED
  BY <1>1, <1>2

THEOREM BootInductive == B!Sensible /\ B!Spec => []BootIInv
<1>1. B!Sensible /\ B!Init => BootIInv
  BY BootInit
<1>2. BootIInv /\ [B!Next]_B!vars => BootIInv'
  BY BootNext
<1> QED
  BY <1>1, <1>2, PTL DEF B!Spec

-----------------------------------------------------------------------------
(* The theorems                                                            *)

\* The state of a boot and its database is well-typed whatever it meets
\* (BootSequencer, app.py).
THEOREM BootTyped == B!Sensible /\ B!Spec => []B!TypeOK
<1>1. BootIInv => B!TypeOK
  <2> SUFFICES ASSUME BootIInv PROVE B!TypeOK
    OBVIOUS
  <2>1. BootTypes /\ Len(B!Phases) = 16 /\ db \in DbType /\ boot \in BootType /\ db.rev <= release /\ release \in Nat
    BY PhasesAre, Numbers DEF BootIInv, BootTypes, SchemaInv
  <2>2. db.rev \in Heads \cup {0}
    <3>1. PICK h \in Nat : Heads = 1..h
      BY DEF BootIInv, B!Sensible
    <3>2. release \in 1..h /\ db.rev \in Nat
      BY <2>1, <3>1 DEF BootTypes, DbType
    <3> QED
      BY <2>1, <3>1, <3>2
  <2>3. boot.at \in 0..Len(B!Phases) /\ boot.pc \in BootPCs
    BY <2>1 DEF BootType
  <2>4. db.has \subseteq Heads /\ db.users \subseteq B!Roles /\ db.model \in BOOLEAN
    BY <2>1 DEF DbType
  <2> QED
    BY <2>1, <2>2, <2>3, <2>4 DEF B!TypeOK, BootTypes, BootPCs
<1> QED
  BY <1>1, BootInductive, PTL

\* The report of a boot that serves says what it met (BootSequencer.boot,
\* _collect_degraded).
THEOREM ReportTold == B!Sensible /\ B!Spec => []B!ReportTruthful
<1>1. BootIInv => B!ReportTruthful
  <2> SUFFICES ASSUME BootIInv, boot.pc = "serving" PROVE B!ReportTruthful
    BY DEF B!ReportTruthful
  <2>1. BootTypes /\ boot \in BootType /\ db \in DbType /\ boot.faults \subseteq B!Conditions
    BY DEF BootIInv, BootTypes, BootType
  <2>2. \A i : Past(i)
    BY DEF Past
  <2>3. /\ boot.faults \cap B!Checked = {} /\ ~B!Met("unwritable tree") /\ ~B!Met("database down") /\ ~B!Met("jwt")
        /\ ~B!Met("audit path")
        /\ B!Met("no parser") \/ B!Met("probe raises") => boot.degraded # {}
        /\ B!Met("no volatility") => {"memory", "forensic_parsers"} \cap boot.degraded # {}
        /\ IF B!HasModel THEN db.model ELSE "ml_models" \in boot.degraded
    BY <2>2 DEF BootIInv, MetInv
  <2>4. boot.faults \cap B!Services \subseteq boot.degraded
    <3>1. \A i \in DOMAIN CapsOf : boot.faults \cap CapsOf[i] \subseteq boot.degraded
      BY <2>2 DEF BootIInv, MetInv
    <3>2. \A c \in B!Services : \E i \in DOMAIN CapsOf : c \in CapsOf[i]
      <4>1. DOMAIN CapsOf = {7, 8, 9, 10, 12, 13, 14, 15}
        BY DEF CapsOf
      <4>2. /\ CapsOf[7] = {"dataset_discovery"}
            /\ CapsOf[8] = {"vector_store", "embedding_engine", "knowledge_graph"}
            /\ CapsOf[9] = {"ioc_database"} /\ CapsOf[10] = {"yara_rules", "sigma_rules"}
            /\ CapsOf[12] = {"llm_service"} /\ CapsOf[13] = {"rag_pipeline"}
            /\ CapsOf[14] = {"report_output", "report_schema", "narrative_template", "pdf_export"}
            /\ CapsOf[15] = {"benchmark_datasets"}
        BY DEF CapsOf
      <4> QED
        BY <4>1, <4>2 DEF B!Services
    <3> QED
      BY <3>1, <3>2
  <2>5. boot.faults \subseteq B!Services \cup B!ProductionChecked
          \cup {"no volatility", "no parser", "probe raises", "model registry", "training"}
    BY <2>1, <2>3 DEF B!Conditions, B!Checked, B!Met
  <2>6. boot.able \cup boot.failed = {B!Phases[i] : i \in DOMAIN B!Phases}
    <3>1. DoneInv /\ DOMAIN B!Phases = 1..16
      BY PhasesAre DEF BootIInv
    <3> QED
      BY <2>2, <3>1 DEF DoneInv
  <2>7. boot.failed \cap B!Critical = {}
    BY DEF BootIInv, DoneInv
  <2>8. ~db.model \/ B!Met("model registry") => "ml_models" \in boot.degraded
    BY <2>3 DEF B!HasModel, B!Met
  <2>9. B!Readiness = "ready" =>
          boot.faults \subseteq B!ProductionChecked \cup (IF db.model THEN {"training"} ELSE {})
    <3> SUFFICES ASSUME B!Readiness = "ready", NEW c \in boot.faults
                 PROVE  c \in B!ProductionChecked \cup (IF db.model THEN {"training"} ELSE {})
      OBVIOUS
    <3>1. boot.degraded = {}
      BY DEF B!Readiness
    <3>2. c \notin B!Services /\ c \notin {"no volatility", "no parser", "probe raises", "model registry"}
      BY <2>3, <2>4, <2>8, <3>1 DEF B!Met
    <3>3. c = "training" => db.model
      BY <2>8, <3>1
    <3> QED
      BY <2>5, <3>2, <3>3
  <2>10. boot.faults \subseteq boot.degraded \cup B!ProductionChecked
           \cup {"no volatility", "no parser", "probe raises", "model registry", "training"}
    BY <2>4, <2>5
  <2> QED
    BY <2>3, <2>6, <2>7, <2>8, <2>9, <2>10 DEF B!ReportTruthful
<1> QED
  BY <1>1, BootInductive, PTL

\* What a boot may be refused for, and what schema a system that serves has, over
\* any history of releases, crashes and scripts (DatabaseInitializer).
THEOREM BootsEndSo == B!Sensible /\ B!Spec => []B!BootOutcome
<1>1. BootIInv => B!BootOutcome
  <2> SUFFICES ASSUME BootIInv PROVE B!BootOutcome
    OBVIOUS
  <2>1. B!SoundBootServes
    BY DEF BootIInv
  <2>2. ASSUME boot.pc = "serving", ~old PROVE db.has = B!Known /\ db.rev = release
    <3>1. Migrated
      BY <2>2 DEF Migrated, Past
    <3>2. db.rev = release /\ SchemaInv /\ release \in Nat /\ release >= 1
      BY <3>1, Numbers DEF BootIInv
    <3>3. db.rev > 0
      BY <3>2
    <3>4. db.has \subseteq B!Known /\ 1..db.rev \subseteq db.has
      BY <2>2, <3>2, <3>3 DEF SchemaInv
    <3> QED
      BY <3>2, <3>4 DEF B!Known
  <2> QED
    BY <2>1, <2>2 DEF B!BootOutcome, B!ServesWithSchema
<1> QED
  BY <1>1, BootInductive, PTL

-----------------------------------------------------------------------------
(* The retrainer: any datasets and scores, any callers, any crashes.       *)
(*                                                                         *)
(* The directories are numbered without a gap, so the next number is free. *)
(* Each training has an experiment of its own that runs until its end, so  *)
(* there are as many completed ones as models. The retrainer alone         *)
(* compares with the last model of a rising catalogue.                     *)
CONSTANTS Hashes, F1, BaselineF1, Callers, Threshold, MaxVersions, MaxChanges
VARIABLES datasets, index, files, experiments, pc, run, changes
L == INSTANCE Learning

\* The instance has its own names for what FiniteSets defines.
LEMMA LearnSizes == \A S : (L!IsFiniteSet(S) <=> IsFiniteSet(S)) /\ L!Cardinality(S) = Cardinality(S)
BY DEF L!IsFiniteSet, IsFiniteSet, L!Cardinality, Cardinality

ModelType == [version : Nat \ {0}, score : Int, hashes : SUBSET Hashes, data : SUBSET Hashes]
PCs == {"never", "idle", "compare", "build", "train", "dump", "done"}
RunType == [hashes : SUBSET Hashes, latest : ModelType \cup {L!None}, data : SUBSET Hashes, version : Nat, experiment : Nat]

Called == {c \in L!AllCallers : pc[c] # "never"}
LearnTypes ==
  /\ datasets \in SUBSET Hashes /\ (index = L!Torn \/ index \in Seq(ModelType))
  /\ experiments \in Seq({"running", "completed"})
  /\ pc \in [L!AllCallers -> PCs] /\ run \in [L!AllCallers -> RunType]
  /\ changes \in 0..MaxChanges /\ Called \in Callers

\* The numbers of the directories have no gap; a number that was picked is at most
\* the next one, and what was written is there.
Top == Cardinality(DOMAIN files)
FilesInv ==
  /\ Top \in 1..MaxVersions /\ DOMAIN files = 1..Top
  /\ \A v \in 1..Top : files[v] \in ModelType
  /\ \A c \in L!AllCallers : pc[c] = "dump" => run[c].version \in 1..Top + 1 /\ run[c].version <= MaxVersions
  /\ \A c \in L!AllCallers : pc[c] = "done" => run[c].version \in 1..Top

\* Each training has an experiment of its own that runs.
Training(c) == pc[c] \in {"train", "dump", "done"}
ExperimentInv ==
  /\ \A c \in L!AllCallers : Training(c) =>
       run[c].experiment \in 1..Len(experiments) /\ experiments[run[c].experiment] = "running"
  /\ \A c, d \in L!AllCallers : Training(c) /\ Training(d) /\ run[c].experiment = run[d].experiment => c = d

Completed == {e \in DOMAIN experiments : experiments[e] = "completed"}
CountInv ==
  /\ Len(L!Models) <= Cardinality(Completed)
  /\ Len(experiments) > MaxVersions + 1 => Len(L!Models) <= 1 /\ \A c \in L!AllCallers : ~Training(c)
There == \A n \in DOMAIN L!Models : L!Models[n].version \in 1..Top

\* The retrainer alone: what it compares with is the last of a rising catalogue.
Rising ==
  /\ \A n, k \in DOMAIN L!Models : n < k => L!Models[n].version < L!Models[k].version /\ L!Models[n].score <= L!Models[k].score
  /\ \A n \in DOMAIN L!Models : files[L!Models[n].version] = L!Models[n]
SoleInv ==
  /\ Rising
  /\ pc["tick"] \in {"build", "train", "dump", "done"} => run["tick"].latest = L!Latest
  /\ pc["tick"] = "dump" => run["tick"].version = Top + 1
  /\ pc["tick"] = "done" =>
       /\ run["tick"].version = Top /\ files[Top] = L!Trained("tick")
       /\ \A n \in DOMAIN L!Models : L!Models[n].version < Top

LearnIInv ==
  /\ L!Sensible /\ LearnTypes /\ FilesInv /\ ExperimentInv /\ CountInv /\ There
  /\ Called = {"tick"} => SoleInv

-----------------------------------------------------------------------------
(* The catalogue                                                           *)

LEMMA ModelsAre ==
  ASSUME LearnTypes
  PROVE  /\ L!Models \in Seq(ModelType) /\ (index = L!Torn => L!Models = <<>>) /\ (index # L!Torn => L!Models = index)
         /\ Len(L!Models) \in Nat /\ DOMAIN L!Models = 1..Len(L!Models)
         /\ \A n \in DOMAIN L!Models : L!Models[n] \in ModelType
BY DEF LearnTypes, L!Models

LEMMA NoneIsNone == L!None \notin ModelType
<1>1. \A m \in ModelType : m.version # 0
  BY DEF ModelType
<1>2. L!None.version = 0
  BY DEF L!None
<1> QED
  BY <1>1, <1>2

\* A sequence is not torn when its members are models.
LEMMA NotTorn == ASSUME NEW s \in Seq(ModelType) PROVE s # L!Torn
<1>1. SUFFICES ASSUME s = L!Torn PROVE FALSE
  OBVIOUS
<1>2. Len(s) = 1 /\ s[1] = L!None
  BY <1>1 DEF L!Torn
<1>3. s[1] \in ModelType
  BY <1>2
<1> QED
  BY <1>2, <1>3, NoneIsNone

\* A set of numbers has a least one, and a bounded one a greatest.
LEMMA Least == ASSUME NEW S \in SUBSET Nat, S # {} PROVE \E t \in S : \A u \in S : t <= u
<1> DEFINE R == OpToRel(<, Nat)
<1>1. IsWellFoundedOn(R, Nat)
  BY NatLessThanWellFounded
<1>2. PICK t \in S : \A n \in S : ~(<<n, t>> \in R)
  <2> HIDE DEF R
  <2> QED
    BY <1>1, WFMin
<1>3. \A n \in S : ~(n < t)
  BY <1>2 DEF OpToRel
<1> QED
  BY <1>3
LEMMA Largest ==
  ASSUME NEW S \in SUBSET Nat, S # {}, NEW b \in Nat, \A u \in S : u <= b
  PROVE  \E t \in S : \A u \in S : u <= t
<1> DEFINE T == {b - u : u \in S}
<1>0. \A u \in S : b - u \in Nat
  <2> SUFFICES ASSUME NEW u \in S PROVE b - u \in Nat
    OBVIOUS
  <2>1. u \in Nat /\ u <= b
    OBVIOUS
  <2> QED
    BY <2>1
<1>1. T \in SUBSET Nat /\ T # {}
  BY <1>0
<1>2. PICK d \in T : \A e \in T : d <= e
  <2> HIDE DEF T
  <2> QED
    BY <1>1, Least
<1>3. PICK t \in S : d = b - t
  OBVIOUS
<1>4. \A u \in S : b - t <= b - u
  BY <1>2, <1>3
<1> QED
  BY <1>4

\* get_latest: the highest number, the first that has it.
LatestAt(n) ==
  \A k \in DOMAIN L!Models : L!Models[k].version < L!Models[n].version \/ (L!Models[k].version = L!Models[n].version /\ n <= k)
LEMMA LatestIs ==
  ASSUME LearnIInv
  PROVE  /\ L!Models = <<>> => L!Latest = L!None
         /\ L!Models # <<>> => \E n \in DOMAIN L!Models : LatestAt(n) /\ L!Latest = L!Models[n]
         /\ L!Latest \in ModelType \cup {L!None}
<1>1. LearnTypes /\ There /\ Top \in Nat
  BY DEF LearnIInv, FilesInv
<1>2. CASE L!Models = <<>>
  BY <1>2 DEF L!Latest
<1>3. CASE L!Models # <<>>
  <2>1. DOMAIN L!Models # {} /\ DOMAIN L!Models \subseteq Nat /\ \A n \in DOMAIN L!Models : L!Models[n].version \in 1..Top
    BY <1>1, <1>3, ModelsAre DEF There
  <2> DEFINE versions == {L!Models[n].version : n \in DOMAIN L!Models}
  <2>2. PICK t \in versions : \A u \in versions : u <= t
    <3>1. versions \in SUBSET Nat /\ versions # {} /\ \A u \in versions : u <= Top
      BY <1>1, <2>1
    <3> HIDE DEF versions
    <3> QED
      BY <1>1, <3>1, Largest
  <2> DEFINE places == {n \in DOMAIN L!Models : L!Models[n].version = t}
  <2>3. PICK n \in places : \A k \in places : n <= k
    <3>1. places \in SUBSET Nat /\ places # {}
      BY <2>1, <2>2
    <3> HIDE DEF places
    <3> QED
      BY <3>1, Least
  <2>4. LatestAt(n)
    <3> SUFFICES ASSUME NEW k \in DOMAIN L!Models
                 PROVE  L!Models[k].version < L!Models[n].version \/ (L!Models[k].version = L!Models[n].version /\ n <= k)
      BY DEF LatestAt
    <3>1. L!Models[k].version <= t /\ L!Models[n].version = t /\ L!Models[k].version \in Nat /\ t \in Nat
      BY <1>1, <2>1, <2>2, <2>3
    <3>2. CASE L!Models[k].version = t
      BY <2>3, <3>1, <3>2
    <3>3. CASE L!Models[k].version # t
      BY <3>1, <3>3
    <3> QED
      BY <3>2, <3>3
  <2>5. \E m \in DOMAIN L!Models : LatestAt(m) /\ L!Latest = L!Models[m]
    BY <1>3, <2>3, <2>4 DEF L!Latest, LatestAt
  <2> QED
    BY <1>1, <1>3, <2>5, ModelsAre
<1> QED
  BY <1>2, <1>3

\* Of a rising catalogue the latest is the last.
LEMMA LatestIsLast ==
  ASSUME LearnIInv, Rising, L!Models # <<>>
  PROVE  L!Latest = L!Models[Len(L!Models)]
<1>1. LearnTypes
  BY DEF LearnIInv
<1>2. PICK n \in DOMAIN L!Models : LatestAt(n) /\ L!Latest = L!Models[n]
  BY LatestIs
<1>3. Len(L!Models) \in DOMAIN L!Models /\ n \in 1..Len(L!Models) /\ Len(L!Models) \in Nat
  BY <1>1, ModelsAre
<1>4. L!Models[n].version \in Nat /\ L!Models[Len(L!Models)].version \in Nat
  BY <1>1, <1>3, ModelsAre DEF ModelType
<1>5. n < Len(L!Models) => L!Models[n].version < L!Models[Len(L!Models)].version
  BY <1>3 DEF Rising
<1>6. n = Len(L!Models)
  BY <1>2, <1>3, <1>4, <1>5 DEF LatestAt
<1> QED
  BY <1>2, <1>6

-----------------------------------------------------------------------------
(* One call moves                                                          *)

Moves(c, p, q) ==
  /\ p \in PCs \ {"never"} /\ q \in RunType /\ pc[c] # "never"
  /\ pc' = [pc EXCEPT ![c] = p] /\ run' = [run EXCEPT ![c] = q]
LEMMA MovesIs ==
  ASSUME LearnTypes, NEW c \in L!AllCallers, NEW p, NEW q, Moves(c, p, q)
  PROVE  /\ pc' \in [L!AllCallers -> PCs] /\ run' \in [L!AllCallers -> RunType] /\ Called' = Called /\ c \in Called
         /\ pc'[c] = p /\ run'[c] = q /\ \A d \in L!AllCallers : d # c => pc'[d] = pc[d] /\ run'[d] = run[d]
<1>1. /\ pc' \in [L!AllCallers -> PCs] /\ run' \in [L!AllCallers -> RunType]
      /\ pc'[c] = p /\ run'[c] = q /\ \A d \in L!AllCallers : d # c => pc'[d] = pc[d] /\ run'[d] = run[d]
  BY DEF LearnTypes, Moves
<1>2. Called' = Called /\ c \in Called
  BY <1>1 DEF Called, Moves
<1> QED
  BY <1>1, <1>2

\* What depends on the models and their files, while those stay.
LEMMA StoreStays ==
  ASSUME LearnIInv, NEW c \in L!AllCallers, NEW p, NEW q, Moves(c, p, q), index' = index, files' = files, p # "done",
         p = "dump" => q.version = Top + 1 /\ q.version <= MaxVersions,
         Called = {"tick"} /\ p \in {"build", "train", "dump"} => q.latest = L!Latest
  PROVE  FilesInv' /\ There' /\ (Called = {"tick"} => SoleInv') /\ L!Models' = L!Models
<1>1. LearnTypes /\ FilesInv /\ There
  BY DEF LearnIInv
<1>2. L!Models' = L!Models /\ Top' = Top /\ L!Latest' = L!Latest
  BY DEF L!Models, Top, L!Latest, L!Torn
<1>3. /\ pc'[c] = p /\ run'[c] = q /\ c \in Called
      /\ \A d \in L!AllCallers : d # c => pc'[d] = pc[d] /\ run'[d] = run[d]
  BY <1>1, MovesIs
<1>4. There'
  BY <1>1, <1>2 DEF There
<1>5. FilesInv'
  <2>1. Top \in Nat /\ Top + 1 \in 1..Top + 1
    BY <1>1 DEF FilesInv
  <2> QED
    BY <1>1, <1>2, <1>3, <2>1 DEF FilesInv
<1>6. ASSUME Called = {"tick"} PROVE SoleInv'
  <2>1. c = "tick" /\ SoleInv
    BY <1>3, <1>6 DEF LearnIInv
  <2>2. Rising'
    BY <1>2, <2>1 DEF SoleInv, Rising
  <2>3. pc'["tick"] = p /\ run'["tick"] = q
    BY <1>3, <2>1
  <2> QED
    BY <1>2, <1>6, <2>1, <2>2, <2>3 DEF SoleInv
<1> QED
  BY <1>2, <1>4, <1>5, <1>6

\* A step that trains no more than before.
LEMMA QuietStep ==
  ASSUME LearnIInv, NEW c \in L!AllCallers, NEW p, NEW q, Moves(c, p, q), index' = index, files' = files, p # "done",
         p = "dump" => q.version = Top + 1 /\ q.version <= MaxVersions,
         Called = {"tick"} /\ p \in {"build", "train", "dump"} => q.latest = L!Latest,
         experiments' = experiments, datasets' = datasets, changes' = changes,
         p \in {"train", "dump"} => Training(c) /\ q.experiment = run[c].experiment
  PROVE  LearnIInv'
<1>1. L!Sensible /\ LearnTypes /\ ExperimentInv /\ CountInv
  BY DEF LearnIInv
<1>2. /\ pc' \in [L!AllCallers -> PCs] /\ run' \in [L!AllCallers -> RunType] /\ Called' = Called
      /\ pc'[c] = p /\ run'[c] = q /\ \A d \in L!AllCallers : d # c => pc'[d] = pc[d] /\ run'[d] = run[d]
  BY <1>1, MovesIs
<1>3. FilesInv' /\ There' /\ (Called = {"tick"} => SoleInv') /\ L!Models' = L!Models
  BY StoreStays
<1>4. LearnTypes'
  BY <1>1, <1>2 DEF LearnTypes, L!Torn
<1>5. \A d \in L!AllCallers : Training(d)' => Training(d) /\ run'[d].experiment = run[d].experiment
  BY <1>2 DEF Training
<1>6. ExperimentInv'
  BY <1>1, <1>5 DEF ExperimentInv
<1>7. CountInv'
  BY <1>1, <1>3, <1>5 DEF CountInv, Completed
<1> QED
  BY <1>1, <1>2, <1>3, <1>4, <1>6, <1>7 DEF LearnIInv, L!Sensible

LEMMA Runs == L!Sensible /\ LearnTypes => L!NoRun \in RunType /\ \A c \in L!AllCallers : run[c] \in RunType
BY DEF LearnTypes, L!NoRun, RunType

LEMMA QuietSteps ==
  ASSUME LearnIInv, NEW c \in L!AllCallers,
         \/ L!ListDatasets(c) \/ L!RequestTraining(c) \/ L!Unchanged(c) \/ L!Drift(c) \/ L!NoSamples(c)
         \/ L!TrainingFails(c) \/ L!PickVersion(c)
  PROVE  LearnIInv'
<1>1. L!Sensible /\ LearnTypes /\ run[c] \in RunType /\ L!NoRun \in RunType /\ pc[c] \in PCs
  BY Runs DEF LearnIInv, LearnTypes
<1>2. CASE L!ListDatasets(c)
  <2>1. [run[c] EXCEPT !.hashes = datasets] \in RunType
    BY <1>1 DEF RunType, LearnTypes
  <2>2. Moves(c, "compare", [run[c] EXCEPT !.hashes = datasets])
    BY <1>1, <1>2, <2>1 DEF L!ListDatasets, L!Goto, Moves, PCs, LearnTypes
  <2> QED
    BY <1>2, <2>2, QuietStep DEF L!ListDatasets
<1>3. CASE L!RequestTraining(c)
  <2>1. Moves(c, "build", run[c])
    BY <1>1, <1>3 DEF L!RequestTraining, L!Goto, Moves, PCs, LearnTypes
  <2>2. Called # {"tick"}
    BY <1>1, <1>3, <2>1, MovesIs DEF L!RequestTraining
  <2> QED
    BY <1>3, <2>1, <2>2, QuietStep DEF L!RequestTraining
<1>4. CASE L!Unchanged(c) \/ L!NoSamples(c) \/ L!TrainingFails(c)
  <2>1. Moves(c, "idle", L!NoRun)
    BY <1>1, <1>4 DEF L!Unchanged, L!NoSamples, L!TrainingFails, L!Leave, Moves, PCs, LearnTypes
  <2> QED
    BY <1>4, <2>1, QuietStep DEF L!Unchanged, L!NoSamples, L!TrainingFails
<1>5. CASE L!Drift(c)
  <2> DEFINE q == [run[c] EXCEPT !.latest = L!Latest]
  <2>1. q \in RunType /\ q.latest = L!Latest
    BY <1>1, LatestIs DEF RunType
  <2>2. Moves(c, "build", q)
    BY <1>1, <1>5, <2>1 DEF L!Drift, L!Goto, Moves, PCs, LearnTypes
  <2> HIDE DEF q
  <2> QED
    BY <1>5, <2>1, <2>2, QuietStep DEF L!Drift
<1>6. CASE L!PickVersion(c)
  <2> DEFINE q == [run[c] EXCEPT !.version = L!NextVersion]
  <2>1. L!NextVersion = Top + 1 /\ L!NextVersion \in Nat /\ L!NextVersion <= MaxVersions
    BY <1>6, LearnSizes DEF L!NextVersion, Top, LearnIInv, FilesInv, L!PickVersion
  <2>2. q \in RunType /\ q.version = Top + 1 /\ q.version <= MaxVersions /\ q.experiment = run[c].experiment
        /\ q.latest = run[c].latest
    BY <1>1, <2>1 DEF RunType
  <2>3. Moves(c, "dump", q) /\ pc[c] = "train"
    BY <1>1, <1>6, <2>2 DEF L!PickVersion, L!Goto, Moves, PCs, LearnTypes
  <2>4. Called = {"tick"} => q.latest = L!Latest
    BY <1>1, <2>2, <2>3, MovesIs DEF LearnIInv, SoleInv
  <2> QED
    BY <1>6, <2>2, <2>3, <2>4, QuietStep DEF L!PickVersion, Training
<1> QED
  BY <1>2, <1>3, <1>4, <1>5, <1>6

LEMMA CompletedOf ==
  ASSUME NEW es \in Seq({"running", "completed"})
  PROVE  LET done == {e \in DOMAIN es : es[e] = "completed"} IN
         IsFiniteSet(done) /\ Cardinality(done) \in Nat /\ Cardinality(done) <= Len(es)
<1> DEFINE done == {e \in DOMAIN es : es[e] = "completed"}
<1>1. done \subseteq 1..Len(es) /\ Len(es) \in Nat
  OBVIOUS
<1>2. IsFiniteSet(1..Len(es)) /\ Cardinality(1..Len(es)) = Len(es)
  BY <1>1, FS_Interval
<1> HIDE DEF done
<1>3. IsFiniteSet(done) /\ Cardinality(done) \in Nat /\ Cardinality(done) <= Len(es)
  BY <1>1, <1>2, FS_Subset, FS_CardinalityType
<1> QED
  BY <1>3 DEF done
LEMMA CompletedIs ==
  ASSUME LearnTypes
  PROVE  IsFiniteSet(Completed) /\ Cardinality(Completed) \in Nat /\ Cardinality(Completed) <= Len(experiments)
BY CompletedOf DEF LearnTypes, Completed

\* A training starts, with an experiment of its own.
LEMMA StartStep == ASSUME LearnIInv, NEW c \in L!AllCallers, L!StartTraining(c) PROVE LearnIInv'
<1>1. L!Sensible /\ LearnTypes /\ ExperimentInv /\ CountInv /\ run[c] \in RunType /\ pc[c] = "build"
  BY Runs DEF LearnIInv, L!StartTraining, L!Goto
<1> DEFINE n == Len(experiments) + 1
           q == [run[c] EXCEPT !.data = datasets, !.experiment = n]
<1>2. /\ n \in Nat \ {0} /\ n <= MaxVersions + 1 /\ experiments' = Append(experiments, "running")
      /\ experiments' \in Seq({"running", "completed"}) /\ Len(experiments') = n /\ experiments'[n] = "running"
      /\ \A e \in 1..Len(experiments) : e \in 1..n /\ e # n /\ experiments'[e] = experiments[e]
  BY <1>1 DEF L!StartTraining, LearnTypes, L!Sensible
<1>3. q \in RunType /\ q.latest = run[c].latest /\ q.experiment = n
  BY <1>1, <1>2 DEF RunType, LearnTypes
<1>4. Moves(c, "train", q) /\ datasets' = datasets /\ changes' = changes /\ index' = index /\ files' = files
  BY <1>1, <1>3 DEF L!StartTraining, L!Goto, Moves, PCs, LearnTypes
<1>5. /\ pc' \in [L!AllCallers -> PCs] /\ run' \in [L!AllCallers -> RunType] /\ Called' = Called /\ c \in Called
      /\ pc'[c] = "train" /\ run'[c] = q /\ \A d \in L!AllCallers : d # c => pc'[d] = pc[d] /\ run'[d] = run[d]
  BY <1>1, <1>4, MovesIs
<1> HIDE DEF q, n
<1>6. Called = {"tick"} => q.latest = L!Latest
  BY <1>1, <1>3, <1>5 DEF LearnIInv, SoleInv
<1>7. FilesInv' /\ There' /\ (Called = {"tick"} => SoleInv') /\ L!Models' = L!Models
  BY <1>4, <1>6, StoreStays
<1>8. LearnTypes'
  BY <1>1, <1>2, <1>4, <1>5 DEF LearnTypes, L!Torn
<1>9. ExperimentInv'
  BY <1>1, <1>2, <1>3, <1>5 DEF ExperimentInv, Training
<1>10. Completed' = Completed
  <2>1. DOMAIN experiments = 1..Len(experiments) /\ DOMAIN experiments' = 1..Len(experiments')
    BY <1>1, <1>2 DEF LearnTypes
  <2>2. \A e \in 1..n : e = n \/ e \in 1..Len(experiments)
    BY <1>1 DEF n, LearnTypes
  <2> QED
    BY <1>2, <2>1, <2>2 DEF Completed
<1>11. CountInv'
  <2>1. ~(Len(experiments') > MaxVersions + 1)
    BY <1>1, <1>2 DEF L!Sensible
  <2> QED
    BY <1>1, <1>7, <1>10, <2>1 DEF CountInv
<1> QED
  BY <1>1, <1>5, <1>7, <1>8, <1>9, <1>11 DEF LearnIInv, L!Sensible

\* A file that is written is new or replaces one.
LEMMA WithFileIs ==
  ASSUME LearnIInv, NEW v \in 1..Top + 1, v <= MaxVersions, NEW m \in ModelType, files' = L!WithFile(v, m)
  PROVE  /\ Top \in Nat /\ Top' = (IF v = Top + 1 THEN Top + 1 ELSE Top) /\ Top' \in 1..MaxVersions /\ DOMAIN files' = 1..Top'
         /\ (\A u \in 1..Top' : files'[u] \in ModelType) /\ files'[v] = m /\ v \in 1..Top'
         /\ \A u \in 1..Top : u # v => files'[u] = files[u]
<1>1. FilesInv /\ Top \in Nat /\ MaxVersions \in Nat
  BY DEF LearnIInv, FilesInv, L!Sensible
<1> DEFINE t == IF v = Top + 1 THEN Top + 1 ELSE Top
<1>2. t \in Nat /\ t \in 1..MaxVersions /\ 1..Top \cup {v} = 1..t
  BY <1>1 DEF FilesInv
<1>3. DOMAIN files' = 1..t /\ files'[v] = m /\ \A u \in 1..t : u # v => u \in 1..Top /\ files'[u] = files[u]
  BY <1>1, <1>2 DEF L!WithFile, FilesInv
<1>4. Cardinality(1..t) = t
  <2> HIDE DEF t
  <2> QED
    BY <1>2, FS_Interval
<1>5. Top' = t
  BY <1>3, <1>4 DEF Top
<1>6. \A u \in 1..Top : u # v => files'[u] = files[u]
  BY <1>1 DEF L!WithFile, FilesInv
<1> QED
  BY <1>1, <1>2, <1>3, <1>5, <1>6 DEF FilesInv

LEMMA TrainedIs ==
  ASSUME LearnIInv, NEW c \in L!AllCallers, run[c].version \in Nat \ {0}
  PROVE  L!Trained(c) \in ModelType /\ L!Trained(c).version = run[c].version
<1>1. run[c] \in RunType /\ F1 \in [SUBSET Hashes -> Int]
  BY Runs DEF LearnIInv, L!Sensible
<1>2. F1[run[c].data] \in Int
  BY <1>1 DEF RunType
<1> QED
  BY <1>1, <1>2 DEF L!Trained, ModelType, RunType

LEMMA DumpStep == ASSUME LearnIInv, NEW c \in L!AllCallers, L!Dump(c) PROVE LearnIInv'
<1>1. L!Sensible /\ LearnTypes /\ FilesInv /\ ExperimentInv /\ CountInv /\ There /\ run[c] \in RunType /\ pc[c] = "dump"
  BY Runs DEF LearnIInv, L!Dump, L!Goto
<1> DEFINE v == run[c].version
<1>2. v \in 1..Top + 1 /\ v <= MaxVersions /\ v \in Nat \ {0}
  BY <1>1 DEF FilesInv
<1>3. L!Trained(c) \in ModelType /\ L!Trained(c).version = v
  BY <1>2, TrainedIs
<1>4. /\ Top \in Nat /\ Top' = (IF v = Top + 1 THEN Top + 1 ELSE Top) /\ Top' \in 1..MaxVersions /\ DOMAIN files' = 1..Top'
      /\ (\A u \in 1..Top' : files'[u] \in ModelType) /\ files'[v] = L!Trained(c) /\ v \in 1..Top'
      /\ \A u \in 1..Top : u # v => files'[u] = files[u]
  BY <1>2, <1>3, WithFileIs DEF L!Dump
<1>5. Moves(c, "done", run[c]) /\ datasets' = datasets /\ changes' = changes /\ index' = index /\ experiments' = experiments
  BY <1>1 DEF L!Dump, L!Goto, Moves, PCs, LearnTypes
<1>6. /\ pc' \in [L!AllCallers -> PCs] /\ run' = run /\ Called' = Called /\ c \in Called
      /\ pc'[c] = "done" /\ \A d \in L!AllCallers : d # c => pc'[d] = pc[d]
  BY <1>1, <1>5, MovesIs DEF L!Dump
<1>7. L!Models' = L!Models /\ L!Latest' = L!Latest
  BY <1>5 DEF L!Models, L!Latest, L!Torn
<1>8. LearnTypes'
  BY <1>1, <1>5, <1>6 DEF LearnTypes, L!Torn
<1>9. \A u \in 1..Top : u \in 1..Top'
  BY <1>4
<1>10. FilesInv'
  <2>1. \A u \in 1..Top + 1 : u \in 1..Top' + 1
    BY <1>4
  <2> QED
    BY <1>1, <1>4, <1>6, <1>9, <2>1 DEF FilesInv
<1>11. There'
  BY <1>1, <1>7, <1>9 DEF There
<1>12. \A d \in L!AllCallers : Training(d)' => Training(d)
  BY <1>1, <1>6 DEF Training
<1>13. ExperimentInv'
  BY <1>1, <1>5, <1>6, <1>12 DEF ExperimentInv
<1>14. CountInv'
  BY <1>1, <1>5, <1>7, <1>12 DEF CountInv, Completed
<1>15. ASSUME Called = {"tick"} PROVE SoleInv'
  <2>1. c = "tick" /\ SoleInv /\ v = Top + 1
    BY <1>1, <1>6, <1>15 DEF LearnIInv, SoleInv
  <2>2. \A n \in DOMAIN L!Models : L!Models[n].version \in 1..Top /\ L!Models[n].version # v /\ L!Models[n].version < v
    BY <1>1, <1>4, <2>1 DEF There
  <2>3. Rising'
    BY <1>4, <1>7, <2>1, <2>2 DEF SoleInv, Rising
  <2>4. Top' = v /\ L!Trained(c)' = L!Trained(c)
    BY <1>4, <1>6, <2>1 DEF L!Trained
  <2> QED
    BY <1>1, <1>4, <1>6, <1>7, <2>1, <2>2, <2>3, <2>4 DEF SoleInv
<1> QED
  BY <1>1, <1>6, <1>8, <1>10, <1>11, <1>13, <1>14, <1>15 DEF LearnIInv, L!Sensible

-----------------------------------------------------------------------------
(* The end of a training                                                   *)

\* The experiment of a training that ends is counted.
LEMMA CompletesIs ==
  ASSUME LearnIInv, NEW c \in L!AllCallers, pc[c] = "done",
         experiments' = [experiments EXCEPT ![run[c].experiment] = "completed"]
  PROVE  /\ experiments' \in Seq({"running", "completed"}) /\ Len(experiments') = Len(experiments)
         /\ Cardinality(Completed') = Cardinality(Completed) + 1
         /\ \A e \in 1..Len(experiments) : e # run[c].experiment => experiments'[e] = experiments[e]
<1> DEFINE x == run[c].experiment
<1>1. LearnTypes /\ x \in 1..Len(experiments) /\ experiments[x] = "running" /\ DOMAIN experiments = 1..Len(experiments)
  BY DEF LearnIInv, LearnTypes, ExperimentInv, Training
<1>2. /\ experiments' \in Seq({"running", "completed"}) /\ Len(experiments') = Len(experiments)
      /\ DOMAIN experiments' = 1..Len(experiments) /\ experiments'[x] = "completed"
      /\ \A e \in 1..Len(experiments) : e # x => experiments'[e] = experiments[e]
  BY <1>1 DEF LearnTypes
<1>3. Completed' = Completed \cup {x} /\ x \notin Completed
  BY <1>1, <1>2 DEF Completed
<1>4. Cardinality(Completed') = Cardinality(Completed) + 1
  BY <1>1, <1>3, CompletedIs, FS_AddElement
<1> QED
  BY <1>2, <1>4

\* Either way the caller is idle again, and the others train on.
LEMMA EndIs ==
  ASSUME LearnIInv, NEW c \in L!AllCallers, pc[c] = "done", L!Leave(c), UNCHANGED <<datasets, files>>,
         changes' \in 0..MaxChanges, index' = L!Torn \/ index' \in Seq(ModelType),
         experiments' = [experiments EXCEPT ![run[c].experiment] = "completed"]
  PROVE  LearnTypes' /\ FilesInv' /\ ExperimentInv' /\ Called' = Called /\ c \in Called /\ pc'[c] = "idle" /\ Top' = Top
<1>1. L!Sensible /\ LearnTypes /\ FilesInv /\ ExperimentInv /\ L!NoRun \in RunType
  BY Runs DEF LearnIInv
<1>2. Moves(c, "idle", L!NoRun)
  BY <1>1 DEF L!Leave, Moves, PCs, LearnTypes
<1>3. /\ pc' \in [L!AllCallers -> PCs] /\ run' \in [L!AllCallers -> RunType] /\ Called' = Called /\ c \in Called
      /\ pc'[c] = "idle" /\ \A d \in L!AllCallers : d # c => pc'[d] = pc[d] /\ run'[d] = run[d]
  BY <1>1, <1>2, MovesIs
<1>4. LearnTypes'
  BY <1>1, <1>3, CompletesIs DEF LearnTypes, L!Torn
<1>5. Top' = Top
  BY DEF Top
<1>6. FilesInv'
  BY <1>1, <1>3, <1>5 DEF FilesInv
<1>7. \A d \in L!AllCallers : Training(d)' => Training(d) /\ d # c /\ run'[d] = run[d]
  BY <1>3 DEF Training
<1>8. Training(c)
  BY DEF Training
<1>9. ExperimentInv'
  <2>1. \A d \in L!AllCallers : Training(d)' =>
          run'[d].experiment \in 1..Len(experiments) /\ run'[d].experiment # run[c].experiment
    BY <1>1, <1>7, <1>8 DEF ExperimentInv
  <2> QED
    BY <1>1, <1>7, <2>1, CompletesIs DEF ExperimentInv
<1> QED
  BY <1>3, <1>4, <1>5, <1>6, <1>9

LEMMA FinishStep == ASSUME LearnIInv, NEW c \in L!AllCallers, L!Finish(c) PROVE LearnIInv'
<1>1. L!Sensible /\ LearnTypes /\ FilesInv /\ CountInv /\ There /\ run[c] \in RunType /\ pc[c] = "done"
  BY Runs DEF LearnIInv, L!Finish
<1> DEFINE v == run[c].version
           new == Append(L!Models, L!Trained(c))
           improved == L!Improved(run[c].latest, L!Trained(c))
<1>2. v \in 1..Top /\ v \in Nat \ {0} /\ Top \in Nat
  BY <1>1 DEF FilesInv
<1>3. L!Trained(c) \in ModelType /\ L!Trained(c).version = v
  BY <1>2, TrainedIs
<1>4. L!Models \in Seq(ModelType) /\ Len(L!Models) \in Nat /\ DOMAIN L!Models = 1..Len(L!Models)
  BY <1>1, ModelsAre
<1>5. /\ new \in Seq(ModelType) /\ new # L!Torn /\ Len(new) = Len(L!Models) + 1
      /\ DOMAIN new = 1..Len(L!Models) + 1 /\ new[Len(L!Models) + 1] = L!Trained(c)
      /\ \A n \in 1..Len(L!Models) : new[n] = L!Models[n]
  BY <1>3, <1>4, NotTorn
<1> HIDE DEF new
<1>6. /\ improved => index' = new /\ L!Models' = new
      /\ ~improved => index' = index /\ L!Models' = L!Models
  BY <1>5 DEF L!Finish, new, L!Models, L!Torn
<1>7. index' = L!Torn \/ index' \in Seq(ModelType)
  BY <1>1, <1>5, <1>6 DEF LearnTypes
<1>8. experiments' = [experiments EXCEPT ![run[c].experiment] = "completed"] /\ changes' \in 0..MaxChanges
  BY <1>1 DEF L!Finish, LearnTypes
<1>9. LearnTypes' /\ FilesInv' /\ ExperimentInv' /\ Called' = Called /\ c \in Called /\ pc'[c] = "idle" /\ Top' = Top
  BY <1>1, <1>7, <1>8, EndIs DEF L!Finish
<1>10. There'
  BY <1>1, <1>2, <1>3, <1>4, <1>5, <1>6, <1>9 DEF There
<1>11. CountInv'
  <2>1. Len(L!Models') <= Len(L!Models) + 1
    BY <1>4, <1>5, <1>6
  <2>2. Cardinality(Completed') = Cardinality(Completed) + 1 /\ Cardinality(Completed) \in Nat
    BY <1>1, <1>8, CompletesIs, CompletedIs
  <2>3. Len(L!Models') <= Cardinality(Completed')
    <3>1. Len(L!Models) <= Cardinality(Completed) /\ Len(L!Models') \in Nat
      BY <1>1, <1>4, <1>5, <1>6 DEF CountInv
    <3> QED
      BY <1>4, <2>1, <2>2, <3>1
  <2>4. ~(Len(experiments) > MaxVersions + 1) /\ Len(experiments') = Len(experiments)
    BY <1>1, <1>8, CompletesIs DEF CountInv, Training
  <2> QED
    BY <2>3, <2>4 DEF CountInv
<1>12. ASSUME Called = {"tick"} PROVE SoleInv'
  <2>1. c = "tick" /\ SoleInv
    BY <1>9, <1>12 DEF LearnIInv
  <2>2. /\ Rising /\ run[c].latest = L!Latest /\ v = Top /\ files[Top] = L!Trained(c)
        /\ \A n \in DOMAIN L!Models : L!Models[n].version < Top
    BY <1>1, <2>1 DEF SoleInv
  <2>3. files' = files
    BY DEF L!Finish
  <2>4. Rising'
    <3>1. CASE ~improved
      BY <1>6, <2>2, <2>3, <3>1 DEF Rising
    <3>2. CASE improved
      <4>1. \A n \in DOMAIN L!Models : L!Models[n].score <= L!Trained(c).score
        <5>1. CASE L!Models = <<>>
          BY <5>1
        <5>2. CASE L!Models # <<>>
          <6>1. L!Latest = L!Models[Len(L!Models)] /\ Len(L!Models) \in DOMAIN L!Models
            BY <1>4, <2>2, <5>2, LatestIsLast
          <6>2. L!Latest # L!None
            BY <1>1, <6>1, ModelsAre, NoneIsNone
          <6>3. L!Trained(c).score >= L!Models[Len(L!Models)].score
            BY <2>2, <3>2, <6>1, <6>2 DEF L!Improved
          <6>4. \A n \in DOMAIN L!Models : n = Len(L!Models) \/ n < Len(L!Models)
            BY <1>4
          <6>5. \A n \in DOMAIN L!Models : L!Models[n].score \in Int
            BY <1>1, ModelsAre DEF ModelType
          <6>6. L!Trained(c).score \in Int
            BY <1>3 DEF ModelType
          <6>7. \A n \in DOMAIN L!Models : n < Len(L!Models) => L!Models[n].score <= L!Models[Len(L!Models)].score
            BY <2>2, <6>1 DEF Rising
          <6> QED
            BY <6>1, <6>3, <6>4, <6>5, <6>6, <6>7
        <5> QED
          BY <5>1, <5>2
      <4>2. \A n \in DOMAIN L!Models : L!Models[n].version < L!Trained(c).version
        BY <1>3, <2>2
      <4>3. \A n, k \in DOMAIN new : n < k => new[n].version < new[k].version /\ new[n].score <= new[k].score
        <5> SUFFICES ASSUME NEW n \in DOMAIN new, NEW k \in DOMAIN new, n < k
                     PROVE  new[n].version < new[k].version /\ new[n].score <= new[k].score
          OBVIOUS
        <5>1. n \in 1..Len(L!Models) /\ new[n] = L!Models[n] /\ n \in DOMAIN L!Models
          BY <1>4, <1>5
        <5>2. CASE k = Len(L!Models) + 1
          BY <1>5, <4>1, <4>2, <5>1, <5>2
        <5>3. CASE k # Len(L!Models) + 1
          <6>1. k \in DOMAIN L!Models /\ new[k] = L!Models[k]
            BY <1>4, <1>5, <5>3
          <6> QED
            BY <2>2, <5>1, <6>1 DEF Rising
        <5> QED
          BY <5>2, <5>3
      <4>4. \A n \in DOMAIN new : files[new[n].version] = new[n]
        <5> SUFFICES ASSUME NEW n \in DOMAIN new PROVE files[new[n].version] = new[n]
          OBVIOUS
        <5>1. CASE n = Len(L!Models) + 1
          BY <1>3, <1>5, <2>2, <5>1
        <5>2. CASE n # Len(L!Models) + 1
          <6>1. n \in DOMAIN L!Models /\ new[n] = L!Models[n]
            BY <1>4, <1>5, <5>2
          <6> QED
            BY <2>2, <6>1 DEF Rising
        <5> QED
          BY <5>1, <5>2
      <4> QED
        BY <1>6, <2>3, <3>2, <4>3, <4>4 DEF Rising
    <3> QED
      BY <3>1, <3>2
  <2> QED
    BY <1>9, <2>1, <2>4 DEF SoleInv
<1> QED
  BY <1>1, <1>9, <1>10, <1>11, <1>12 DEF LearnIInv, L!Sensible

LEMMA RegisterFailsStep == ASSUME LearnIInv, NEW c \in L!AllCallers, L!RegisterFails(c) PROVE LearnIInv'
<1>1. L!Sensible /\ LearnTypes /\ CountInv /\ pc[c] = "done"
  BY DEF LearnIInv, L!RegisterFails
<1>2. changes' \in 0..MaxChanges
  BY <1>1 DEF L!RegisterFails, LearnTypes, L!Sensible
<1>3. /\ index' = L!Torn /\ experiments' = [experiments EXCEPT ![run[c].experiment] = "completed"]
      /\ L!Leave(c) /\ UNCHANGED <<datasets, files>>
  BY DEF L!RegisterFails
<1>4. LearnTypes' /\ FilesInv' /\ ExperimentInv' /\ Called' = Called /\ c \in Called /\ pc'[c] = "idle" /\ Top' = Top
  BY <1>1, <1>2, <1>3, EndIs
<1>5. L!Models' = <<>> /\ DOMAIN L!Models' = {} /\ Len(L!Models') = 0
  BY <1>3 DEF L!Models, L!Torn
<1>6. There'
  BY <1>5 DEF There
<1>7. CountInv'
  <2>1. Cardinality(Completed') \in Nat
    <3>1. Cardinality(Completed) \in Nat
      BY <1>1, CompletedIs
    <3>2. Cardinality(Completed') = Cardinality(Completed) + 1
      BY <1>1, <1>3, CompletesIs
    <3> QED
      BY <3>1, <3>2
  <2>2. ~(Len(experiments) > MaxVersions + 1) /\ Len(experiments') = Len(experiments)
    BY <1>1, <1>3, CompletesIs DEF CountInv, Training
  <2> QED
    BY <1>5, <2>1, <2>2 DEF CountInv
<1>8. Rising'
  BY <1>5 DEF Rising
<1>9. Called = {"tick"} => SoleInv'
  BY <1>4, <1>8 DEF SoleInv
<1> QED
  BY <1>1, <1>4, <1>6, <1>7, <1>9 DEF LearnIInv, L!Sensible

LEMMA OthersStay ==
  ASSUME LearnIInv, UNCHANGED <<index, files, experiments, pc, run>>, datasets' \in SUBSET Hashes, changes' \in 0..MaxChanges
  PROVE  LearnIInv'
<1>1. L!Models' = L!Models /\ Top' = Top /\ L!Latest' = L!Latest /\ Called' = Called
  BY DEF L!Models, L!Torn, Top, L!Latest, Called
<1>2. L!Sensible /\ LearnTypes /\ FilesInv /\ ExperimentInv /\ CountInv /\ There /\ (Called = {"tick"} => SoleInv)
  BY DEF LearnIInv
<1>3. LearnTypes'
  BY <1>1, <1>2 DEF LearnTypes, L!Torn
<1>4. FilesInv' /\ There'
  BY <1>1, <1>2 DEF FilesInv, There
<1>5. ExperimentInv' /\ CountInv'
  BY <1>1, <1>2 DEF ExperimentInv, Training, CountInv, Completed
<1>6. SoleInv => SoleInv'
  BY <1>1 DEF SoleInv, Rising, L!Trained
<1> QED
  BY <1>1, <1>2, <1>3, <1>4, <1>5, <1>6 DEF LearnIInv, L!Sensible

LEMMA ChangeStep == ASSUME LearnIInv, L!ChangeDatasets PROVE LearnIInv'
<1>1. datasets' \in SUBSET Hashes /\ changes' \in 0..MaxChanges
  BY DEF L!ChangeDatasets, LearnIInv, LearnTypes, L!Sensible
<1> QED
  BY <1>1, OthersStay DEF L!ChangeDatasets

LEMMA BaselineIs == ASSUME L!Sensible, NEW v \in Nat \ {0} PROVE L!Baseline(v) \in ModelType /\ L!Baseline(v).version = v
BY DEF L!Sensible, L!Baseline, ModelType

LEMMA RestartStep == ASSUME LearnIInv, L!Restart PROVE LearnIInv'
<1>1. L!Sensible /\ LearnTypes /\ FilesInv /\ CountInv /\ There /\ L!NoRun \in RunType /\ (Called = {"tick"} => SoleInv)
  BY Runs DEF LearnIInv
<1>2. changes' \in 0..MaxChanges /\ datasets' = datasets
  BY <1>1 DEF L!Restart, LearnTypes, L!Sensible
<1>3. /\ pc' \in [L!AllCallers -> PCs] /\ run' \in [L!AllCallers -> RunType]
      /\ \A c \in L!AllCallers : pc'[c] \in {"never", "idle"} /\ (pc'[c] = "never" <=> pc[c] = "never")
  BY <1>1 DEF L!Restart, LearnTypes, PCs
<1>4. Called' = Called
  BY <1>3 DEF Called
<1>5. ExperimentInv' /\ \A c \in L!AllCallers : ~Training(c)'
  BY <1>3 DEF ExperimentInv, Training
<1>6. CASE UNCHANGED <<index, files, experiments>>
  <2>1. L!Models' = L!Models /\ Top' = Top
    BY <1>6 DEF L!Models, L!Torn, Top
  <2>2. LearnTypes'
    BY <1>1, <1>2, <1>3, <1>4, <1>6 DEF LearnTypes, L!Torn
  <2>3. FilesInv'
    BY <1>1, <1>3, <1>6, <2>1 DEF FilesInv
  <2>4. There' /\ CountInv'
    BY <1>1, <1>5, <1>6, <2>1 DEF There, CountInv, Completed
  <2>5. ASSUME Called = {"tick"} PROVE SoleInv'
    <3>1. Rising' /\ "tick" \in L!AllCallers
      BY <1>1, <1>6, <2>1, <2>5 DEF SoleInv, Rising, Called
    <3> QED
      BY <1>3, <3>1 DEF SoleInv
  <2> QED
    BY <1>1, <1>4, <1>5, <2>2, <2>3, <2>4, <2>5 DEF LearnIInv, L!Sensible
<1>7. CASE /\ L!Models = <<>> /\ L!NextVersion <= MaxVersions
           /\ files' = L!WithFile(L!NextVersion, L!Baseline(L!NextVersion)) /\ index' = <<L!Baseline(L!NextVersion)>>
           /\ experiments' = Append(experiments, "completed")
  <2> DEFINE v == L!NextVersion
             m == L!Baseline(L!NextVersion)
  <2>1. v = Top + 1 /\ Top \in Nat /\ v \in 1..Top + 1 /\ v <= MaxVersions /\ v \in Nat \ {0}
    BY <1>1, <1>7, LearnSizes DEF L!NextVersion, Top, FilesInv
  <2>2. m \in ModelType /\ m.version = v
    BY <1>1, <2>1, BaselineIs
  <2>3. /\ Top' = v /\ Top' \in 1..MaxVersions /\ DOMAIN files' = 1..Top'
        /\ (\A u \in 1..Top' : files'[u] \in ModelType) /\ files'[v] = m /\ v \in 1..Top'
    BY <1>7, <2>1, <2>2, WithFileIs
  <2>4. index' \in Seq(ModelType) /\ Len(index') = 1 /\ index'[1] = m /\ DOMAIN index' = 1..1
    BY <1>7, <2>2
  <2>5. L!Models' = index'
    BY <2>4, NotTorn DEF L!Models, L!Torn
  <2>6. /\ experiments' \in Seq({"running", "completed"}) /\ Len(experiments') = Len(experiments) + 1
        /\ experiments'[Len(experiments) + 1] = "completed" /\ Len(experiments) \in Nat
    BY <1>1, <1>7 DEF LearnTypes
  <2>7. LearnTypes'
    BY <1>1, <1>2, <1>3, <1>4, <2>4, <2>6 DEF LearnTypes, L!Torn
  <2>8. FilesInv'
    BY <1>3, <2>3 DEF FilesInv
  <2>9. There'
    BY <2>2, <2>3, <2>4, <2>5 DEF There
  <2>10. CountInv'
    <3>1. Len(experiments) + 1 \in Completed' /\ IsFiniteSet(Completed') /\ Cardinality(Completed') \in Nat
      <4>1. IsFiniteSet(Completed') /\ Cardinality(Completed') \in Nat
        BY <2>6, CompletedOf DEF Completed
      <4> QED
        BY <2>6, <4>1 DEF Completed
    <3>2. Cardinality(Completed') # 0
      BY <3>1, FS_EmptySet
    <3>3. Len(L!Models') = 1
      BY <2>4, <2>5
    <3>4. Len(L!Models') <= Cardinality(Completed')
      BY <3>1, <3>2, <3>3
    <3> QED
      BY <1>5, <3>3, <3>4 DEF CountInv
  <2>11. Rising'
    <3>1. \A n \in DOMAIN L!Models' : n = 1
      BY <2>4, <2>5
    <3> QED
      BY <2>2, <2>3, <2>4, <2>5, <3>1 DEF Rising
  <2>12. ASSUME Called = {"tick"} PROVE SoleInv'
    <3>1. "tick" \in L!AllCallers
      BY <2>12 DEF Called
    <3> QED
      BY <1>3, <2>11, <3>1 DEF SoleInv
  <2> QED
    BY <1>1, <1>4, <1>5, <2>7, <2>8, <2>9, <2>10, <2>12 DEF LearnIInv, L!Sensible
<1> QED
  BY <1>6, <1>7 DEF L!Restart

LEMMA LearnInitHolds == ASSUME L!Sensible, L!Init PROVE LearnIInv
<1>1. PICK called \in Callers : pc = [c \in L!AllCallers |-> IF c \in called THEN "idle" ELSE "never"]
  BY DEF L!Init
<1>2. Called = called /\ (\A c \in L!AllCallers : pc[c] \in {"idle", "never"}) /\ pc \in [L!AllCallers -> PCs]
  BY <1>1 DEF Called, L!AllCallers, PCs
<1>3. L!Baseline(1) \in ModelType /\ L!Baseline(1).version = 1
  BY BaselineIs
<1>4. index = <<L!Baseline(1)>> /\ index \in Seq(ModelType) /\ Len(index) = 1 /\ index[1] = L!Baseline(1) /\ DOMAIN index = 1..1
  BY <1>3 DEF L!Init
<1>5. L!Models = index
  BY <1>4, NotTorn DEF L!Models, L!Torn
<1>6. L!NoRun \in RunType
  BY DEF L!NoRun, RunType
<1>7. experiments \in Seq({"running", "completed"}) /\ Len(experiments) = 1 /\ experiments[1] = "completed"
  BY DEF L!Init
<1>8. LearnTypes
  BY <1>2, <1>4, <1>6, <1>7 DEF L!Init, LearnTypes, L!Sensible
<1>9. DOMAIN files = {1} /\ files[1] = L!Baseline(1) /\ Top = 1
  <2>1. DOMAIN files = {1} /\ files[1] = L!Baseline(1)
    BY DEF L!Init
  <2> QED
    BY <2>1, FS_Singleton DEF Top
<1>10. FilesInv
  <2>1. 1..Top = {1}
    BY <1>9
  <2> QED
    BY <1>2, <1>3, <1>9, <2>1 DEF FilesInv, L!Sensible
<1>11. ExperimentInv
  BY <1>2 DEF ExperimentInv, Training
<1>12. There
  BY <1>3, <1>4, <1>5, <1>9 DEF There
<1>13. CountInv
  <2>1. 1 \in Completed /\ IsFiniteSet(Completed) /\ Cardinality(Completed) \in Nat
    BY <1>7, <1>8, CompletedIs DEF Completed
  <2>2. Cardinality(Completed) # 0
    BY <2>1, FS_EmptySet
  <2>3. ~(Len(experiments) > MaxVersions + 1)
    BY <1>7 DEF L!Sensible
  <2> QED
    BY <1>4, <1>5, <2>1, <2>2, <2>3 DEF CountInv
<1>14. SoleInv \/ Called # {"tick"}
  <2>1. \A n \in DOMAIN L!Models : n = 1
    BY <1>4, <1>5
  <2>2. Rising
    BY <1>3, <1>4, <1>5, <1>9, <2>1 DEF Rising
  <2>3. Called = {"tick"} => "tick" \in L!AllCallers
    BY DEF Called
  <2> QED
    BY <1>2, <2>2, <2>3 DEF SoleInv
<1> QED
  BY <1>8, <1>10, <1>11, <1>12, <1>13, <1>14 DEF LearnIInv

LEMMA LearnNextHolds == ASSUME LearnIInv, [L!Next]_L!vars PROVE LearnIInv'
<1>1. CASE L!Next
  BY <1>1, QuietSteps, StartStep, DumpStep, FinishStep, RegisterFailsStep, ChangeStep, RestartStep DEF L!Next, L!Retrain
<1>2. CASE UNCHANGED L!vars
  <2>1. datasets' \in SUBSET Hashes /\ changes' \in 0..MaxChanges
    BY <1>2 DEF L!vars, LearnIInv, LearnTypes
  <2> QED
    BY <1>2, <2>1, OthersStay DEF L!vars
<1> QED
  BY <1>1, <1>2

LEMMA LearnInductive == L!Sensible /\ L!Spec => []LearnIInv
<1>1. L!Sensible /\ L!Init => LearnIInv
  BY LearnInitHolds
<1>2. LearnIInv /\ [L!Next]_L!vars => LearnIInv'
  BY LearnNextHolds
<1> QED
  BY <1>1, <1>2, PTL DEF L!Spec

-----------------------------------------------------------------------------
(* The theorems                                                            *)

LEMMA RegisteredHere == ASSUME LearnIInv PROVE L!TypeOK /\ L!RegisteredIsThere
<1>1. LearnTypes /\ FilesInv /\ CountInv /\ There /\ L!Sensible
  BY DEF LearnIInv
<1>2. Len(L!Models) \in Nat
  BY <1>1, ModelsAre
<1>3. Cardinality(Completed) \in Nat /\ Cardinality(Completed) <= Len(experiments) /\ Len(experiments) \in Nat
  BY <1>1, CompletedIs DEF LearnTypes
<1>4. Len(L!Models) <= MaxVersions + 1
  BY <1>1, <1>2, <1>3 DEF CountInv, L!Sensible
<1>5. L!TypeOK
  BY <1>1, <1>4 DEF LearnTypes, L!TypeOK
<1>6. L!RegisteredIsThere
  BY <1>1, LearnSizes DEF L!RegisteredIsThere, There, FilesInv, CountInv, Completed
<1> QED
  BY <1>5, <1>6

LEMMA AloneInOrder == ASSUME LearnIInv PROVE L!OneAtATime
<1>1. SUFFICES ASSUME Cardinality(Called) = 1 PROVE Rising
  BY LearnSizes DEF L!OneAtATime, Rising, Called
<1>2. IsFiniteSet(Called) /\ "tick" \in Called
  BY LearnSizes DEF LearnIInv, LearnTypes, L!Sensible
<1>3. Called = {"tick"}
  BY <1>1, <1>2, FS_Singleton
<1> QED
  BY <1>3 DEF LearnIInv, SoleInv

\* The split of any number of samples, by any percentages.
LEMMA RoundedIs == ASSUME NEW count \in Nat, NEW percent \in Nat PROVE L!Rounded(count, percent) \in Int
BY DEF L!Rounded
LEMMA SplitIs ==
  ASSUME NEW count \in Nat, NEW test \in Nat, NEW validation \in Nat
  PROVE  LET s == L!SplitSizes(count, test, validation) IN
         /\ s.test >= 0 /\ s.validation >= 0 /\ (count > 0 => s.train > 0)
         /\ count >= 3 => s.test > 0 /\ s.validation > 0
<1> DEFINE r == L!Rounded(count, test)
           w == L!Rounded(count, validation)
           t == IF count >= 3 THEN L!AtMost(L!AtLeastOne(r), count - 2) ELSE 0
           v == IF count >= 3 THEN L!AtMost(L!AtLeastOne(w), count - t - 1) ELSE 0
<1>1. r \in Int /\ w \in Int
  BY RoundedIs
<1>2. L!SplitSizes(count, test, validation) = [test |-> t, validation |-> v, train |-> count - t - v]
  BY DEF L!SplitSizes
<1> HIDE DEF r, w
<1>3. t \in Int /\ t >= 0 /\ (count >= 3 => t > 0 /\ t <= count - 2) /\ (count < 3 => t = 0)
  BY <1>1 DEF L!AtMost, L!AtLeastOne
<1> HIDE DEF t
<1>4. v \in Int /\ v >= 0 /\ (count >= 3 => v > 0 /\ v <= count - t - 1) /\ (count < 3 => v = 0)
  BY <1>1, <1>3 DEF L!AtMost, L!AtLeastOne
<1> HIDE DEF v
<1> QED
  BY <1>2, <1>3, <1>4
LEMMA BalancedIs ==
  ASSUME NEW a \in Nat, NEW b \in Nat
  PROVE  LET c == L!Balanced(a, b) IN
         /\ a <= b => c[1] >= a
         /\ a + b >= 4 /\ a > 0 /\ 2 * b > 3 * a => c[1] = c[2]
BY DEF L!Balanced
LEMMA SplitsWhole == L!SplitIsWhole
<1>1. \A count \in 0..30, test \in {20, 90}, validation \in {0, 10, 90} :
        count \in Nat /\ test \in Nat /\ validation \in Nat
  OBVIOUS
<1>2. \A count \in 0..30, test \in {20, 90}, validation \in {0, 10, 90} :
       LET s == L!SplitSizes(count, test, validation) IN
         /\ s.test >= 0 /\ s.validation >= 0 /\ (count > 0 => s.train > 0)
         /\ count >= 3 => s.test > 0 /\ s.validation > 0
  BY <1>1, SplitIs
<1>3. \A a, b \in {0, 1, 2, 3, 5, 199, 200, 300} : LET c == L!Balanced(a, b) IN
       /\ a <= b => c[1] >= a
       /\ a + b >= 4 /\ a > 0 /\ 2 * b > 3 * a => c[1] = c[2]
  <2>1. \A a, b \in {0, 1, 2, 3, 5, 199, 200, 300} : a \in Nat /\ b \in Nat
    OBVIOUS
  <2> QED
    BY <2>1, BalancedIs
<1>4. \A p \in 0..10 : L!ClassifierScore(p) = p
  BY DEF L!ClassifierScore
<1> QED
  BY <1>2, <1>3, <1>4 DEF L!SplitIsWhole

\* What is registered has its file and a completed experiment, for any number of
\* callers that train at once, crashes and datasets; what the retrainer alone registers
\* never gets worse; the samples are split as they should be (ml/retrainer.py,
\* ml/trainer.py, ml/model_registry.py).
THEOREM RegistrySafe == L!Sensible /\ L!Spec => []L!LearningSafe
<1>1. LearnIInv => L!LearningSafe
  BY RegisteredHere, AloneInOrder, SplitsWhole DEF L!LearningSafe
<1> QED
  BY <1>1, LearnInductive, PTL

\* No model leaves an index that can be read (ModelRegistry.register).
THEOREM CatalogueKept == L!Sensible /\ L!Spec => [][L!CatalogueGrows]_L!vars
<1>1. LearnIInv /\ [L!Next]_L!vars => [L!CatalogueGrows]_L!vars
  <2> SUFFICES ASSUME LearnIInv, L!Next, index # L!Torn PROVE index' = L!Torn \/ L!IsPrefix(index, index')
    BY DEF L!CatalogueGrows
  <2>1. LearnTypes /\ L!Models = index /\ index \in Seq(ModelType) /\ Len(index) \in Nat
    BY ModelsAre DEF LearnIInv, LearnTypes
  <2>2. index' = index \/ index' = L!Torn \/ index = <<>> \/ \E m \in ModelType : index' = Append(index, m)
    <3>1. ASSUME NEW c \in L!AllCallers, L!Finish(c) PROVE index' = index \/ \E m \in ModelType : index' = Append(index, m)
      <4>1. run[c].version \in Nat \ {0}
        BY <3>1 DEF LearnIInv, FilesInv, L!Finish
      <4>2. L!Trained(c) \in ModelType
        BY <4>1, TrainedIs
      <4> QED
        BY <2>1, <3>1, <4>2 DEF L!Finish
    <3>2. ASSUME NEW c \in L!AllCallers, L!Retrain(c), ~L!Finish(c), ~L!RegisterFails(c) PROVE index' = index
      BY <3>2 DEF L!Retrain, L!ListDatasets, L!RequestTraining, L!Unchanged, L!Drift, L!NoSamples, L!StartTraining, L!TrainingFails,
                  L!PickVersion, L!Dump
    <3>3. ASSUME L!Restart PROVE index' = index \/ index = <<>>
      BY <2>1, <3>3 DEF L!Restart
    <3>4. L!ChangeDatasets => index' = index
      BY DEF L!ChangeDatasets
    <3>5. ASSUME NEW c \in L!AllCallers, L!RegisterFails(c) PROVE index' = L!Torn
      BY <3>5 DEF L!RegisterFails
    <3> QED
      BY <3>1, <3>2, <3>3, <3>4, <3>5 DEF L!Next
  <2>3. CASE index' = index
    BY <2>1, <2>3 DEF L!IsPrefix
  <2>4. CASE index = <<>>
    BY <2>4 DEF L!IsPrefix
  <2>5. ASSUME NEW m \in ModelType, index' = Append(index, m) PROVE L!IsPrefix(index, index')
    <3>1. Len(index') = Len(index) + 1 /\ \A n \in 1..Len(index) : index'[n] = index[n]
      BY <2>1, <2>5
    <3> QED
      BY <2>1, <3>1 DEF L!IsPrefix
  <2> QED
    BY <2>2, <2>3, <2>4, <2>5
<1> QED
  BY <1>1, LearnInductive, PTL DEF L!Spec

-----------------------------------------------------------------------------
(* The rule files: any feeds of either engine, any restarts. While a feed  *)
(* of an engine is under way its directory may be ahead of what is loaded. *)
CONSTANTS Files, Feeds, Artefacts, MaxFeeds, MaxBoots
VARIABLES dir, loaded, feed, fed, scan, boots
I == INSTANCE ThreatIntel

\* Directories name rule files and whether each can be parsed.
Shelved ==
  /\ DOMAIN dir = I!Engines /\ DOMAIN loaded = I!Engines
  /\ \A e \in I!Engines : DOMAIN dir[e] \subseteq Files /\ loaded[e] \subseteq DOMAIN dir[e]
  /\ fed \in 0..MaxFeeds /\ DOMAIN feed \subseteq Feeds
RulesInv == I!Sensible /\ Shelved /\ I!LoadsAreWhole

\* Where a feed of another engine is under way nothing of this engine changes.
Fits(e) == IF I!Whole(e) THEN loaded[e] = DOMAIN dir[e] ELSE e = "yara" => loaded[e] = {}
LEMMA LoadsAre == I!LoadsAreWhole <=> \A e \in I!Engines : (\A d \in DOMAIN feed : d.engine # e) => Fits(e)
BY DEF I!LoadsAreWhole, Fits

LEMMA StageStep == ASSUME RulesInv, NEW d \in Feeds, I!Stage(d) PROVE RulesInv'
<1>1. I!Sensible /\ Shelved /\ d.engine \in I!Engines /\ d.file \in Files
  BY DEF RulesInv, I!Sensible
<1>2. DOMAIN feed' = DOMAIN feed \cup {d} /\ loaded' = loaded /\ fed' = fed + 1 /\ fed < MaxFeeds
  BY DEF I!Stage
<1>3. /\ DOMAIN dir' = I!Engines /\ \A e \in I!Engines : e # d.engine => dir'[e] = dir[e]
      /\ DOMAIN dir'[d.engine] = DOMAIN dir[d.engine] \cup {d.file}
  BY <1>1 DEF I!Stage, Shelved
<1>4. Shelved'
  <2>1. \A e \in I!Engines : DOMAIN dir'[e] \subseteq Files /\ loaded'[e] \subseteq DOMAIN dir'[e]
    BY <1>1, <1>2, <1>3 DEF Shelved
  <2>2. fed' \in 0..MaxFeeds
    BY <1>1, <1>2 DEF Shelved, I!Sensible
  <2> QED
    BY <1>1, <1>2, <1>3, <2>1, <2>2 DEF Shelved
<1>5. ASSUME NEW e \in I!Engines, \A x \in DOMAIN feed' : x.engine # e PROVE Fits(e)'
  <2>1. e # d.engine /\ \A x \in DOMAIN feed : x.engine # e
    BY <1>2, <1>5
  <2>2. Fits(e)
    BY <2>1, LoadsAre DEF RulesInv
  <2> QED
    BY <1>2, <1>3, <2>1, <2>2 DEF Fits, I!Whole
<1>6. I!LoadsAreWhole'
  BY <1>5 DEF I!LoadsAreWhole, Fits
<1> QED
  BY <1>1, <1>4, <1>6 DEF RulesInv, I!Sensible

LEMMA LoadStep == ASSUME RulesInv, NEW d \in Feeds, I!LoadRules(d) PROVE RulesInv'
<1>1. I!Sensible /\ Shelved /\ d.engine \in I!Engines
  BY DEF RulesInv, I!Sensible
<1>2. DOMAIN feed' = DOMAIN feed \ {d} /\ dir' = dir /\ fed' = fed
  BY DEF I!LoadRules
<1>3. /\ DOMAIN loaded' = I!Engines /\ loaded'[d.engine] = I!Loaded(d.engine)
      /\ \A e \in I!Engines : e # d.engine => loaded'[e] = loaded[e]
  BY <1>1 DEF I!LoadRules, Shelved
<1>4. Shelved'
  BY <1>1, <1>2, <1>3 DEF Shelved, I!Loaded
<1>5. ASSUME NEW e \in I!Engines, \A x \in DOMAIN feed' : x.engine # e PROVE Fits(e)'
  <2>1. CASE e = d.engine
    BY <1>2, <1>3, <2>1 DEF Fits, I!Loaded, I!Whole
  <2>2. CASE e # d.engine
    <3>1. \A x \in DOMAIN feed : x.engine # e
      BY <1>2, <1>5, <2>2
    <3>2. Fits(e)
      BY <3>1, LoadsAre DEF RulesInv
    <3> QED
      BY <1>2, <1>3, <2>2, <3>2 DEF Fits, I!Whole
  <2> QED
    BY <2>1, <2>2
<1>6. I!LoadsAreWhole'
  BY <1>5 DEF I!LoadsAreWhole, Fits
<1> QED
  BY <1>1, <1>4, <1>6 DEF RulesInv, I!Sensible

LEMMA RulesRestartStep == ASSUME RulesInv, I!Restart PROVE RulesInv'
<1>1. I!Sensible /\ Shelved
  BY DEF RulesInv
<1>2. DOMAIN feed' = {} /\ dir' = dir /\ fed' = fed
  BY DEF I!Restart
<1>3. DOMAIN loaded' = I!Engines /\ \A e \in I!Engines : loaded'[e] = IF I!Whole(e) THEN DOMAIN dir[e] ELSE {}
  BY DEF I!Restart
<1>4. Shelved'
  BY <1>1, <1>2, <1>3 DEF Shelved
<1>5. I!LoadsAreWhole'
  BY <1>2, <1>3 DEF I!LoadsAreWhole, I!Whole
<1> QED
  BY <1>1, <1>4, <1>5 DEF RulesInv, I!Sensible

LEMMA ScanSteps == ASSUME RulesInv, UNCHANGED <<dir, loaded, feed, fed>> PROVE RulesInv'
BY DEF RulesInv, I!Sensible, Shelved, I!LoadsAreWhole, I!Whole

LEMMA RulesInit == ASSUME I!Sensible, I!Init PROVE RulesInv
<1>1. \A e \in I!Engines : dir[e] = <<>> /\ loaded[e] = {} /\ DOMAIN dir[e] = {}
  BY DEF I!Init
<1>2. DOMAIN feed = {} /\ DOMAIN dir = I!Engines /\ DOMAIN loaded = I!Engines /\ fed \in 0..MaxFeeds
  BY DEF I!Init, I!Sensible
<1> QED
  BY <1>1, <1>2 DEF RulesInv, Shelved, I!LoadsAreWhole, I!Whole
LEMMA RulesNext == ASSUME RulesInv, [I!Next]_I!vars PROVE RulesInv'
<1>1. CASE I!Restart
  BY <1>1, RulesRestartStep
<1>2. CASE \E d \in Feeds : I!Stage(d) \/ I!LoadRules(d)
  BY <1>2, StageStep, LoadStep
<1>3. CASE I!StartScan \/ I!ScanNext \/ I!Report \/ UNCHANGED I!vars
  <2>1. UNCHANGED <<dir, loaded, feed, fed>>
    BY <1>3 DEF I!StartScan, I!ScanNext, I!Report, I!vars
  <2> QED
    BY <2>1, ScanSteps
<1> QED
  BY <1>1, <1>2, <1>3 DEF I!Next

LEMMA RulesInductive == I!Sensible /\ I!Spec => []RulesInv
<1>1. I!Sensible /\ I!Init => RulesInv
  BY RulesInit
<1>2. RulesInv /\ [I!Next]_I!vars => RulesInv'
  BY RulesNext
<1> QED
  BY <1>1, <1>2, PTL DEF I!Spec

\* Sigma rules in memory go only when the process restarts.
THEOREM SigmaKept == I!Sensible /\ I!Spec => [][I!SigmaStep]_I!vars
<1>1. RulesInv /\ [I!Next]_I!vars => [I!SigmaStep]_I!vars
  <2> SUFFICES ASSUME RulesInv, I!Next, boots' = boots PROVE loaded["sigma"] \subseteq loaded'["sigma"]
    BY DEF I!SigmaStep
  <2>1. Shelved /\ I!Sensible /\ "sigma" \in I!Engines /\ loaded["sigma"] \subseteq DOMAIN dir["sigma"]
    BY DEF RulesInv, Shelved, I!Engines
  <2>2. ~I!Restart
    <3>1. ASSUME I!Restart PROVE FALSE
      <4>1. boots' = boots + 1 /\ boots < MaxBoots
        BY <3>1 DEF I!Restart
      <4> QED
        BY <4>1
    <3> QED
      BY <3>1
  <2>3. ASSUME NEW d \in Feeds, I!LoadRules(d) PROVE loaded["sigma"] \subseteq loaded'["sigma"]
    BY <2>1, <2>3 DEF I!LoadRules, I!Loaded, Shelved
  <2>4. ASSUME NEW d \in Feeds, I!Stage(d) PROVE loaded' = loaded
    BY <2>4 DEF I!Stage
  <2>5. I!StartScan \/ I!ScanNext \/ I!Report => loaded' = loaded
    BY DEF I!StartScan, I!ScanNext, I!Report
  <2> QED
    BY <2>2, <2>3, <2>4, <2>5 DEF I!Next
<1> QED
  BY <1>1, RulesInductive, PTL DEF I!Spec

-----------------------------------------------------------------------------
(* Counting                                                                *)

\* What holds of 0 and passes from each number to the next holds up to a bound.
LEMMA StepByStep ==
  ASSUME NEW max \in Nat, NEW S, 0 \in S, \A n \in 0..(max - 1) : n \in S => n + 1 \in S
  PROVE  0..max \subseteq S
<1> DEFINE R == OpToRel(<, Nat)
           Beyond == (0..max) \ S
<1>1. SUFFICES ASSUME Beyond # {} PROVE FALSE
  OBVIOUS
<1>2. IsWellFoundedOn(R, Nat)
  BY NatLessThanWellFounded
<1>3. PICK t \in Beyond : \A n \in Beyond : ~ (<<n, t>> \in R)
  <2>1. Beyond \subseteq Nat
    OBVIOUS
  <2> HIDE DEF R, Beyond
  <2> QED
    BY <1>1, <1>2, <2>1, WFMin
<1>4. \A n \in Beyond : ~ (n < t)
  <2>1. t \in Nat /\ \A n \in Beyond : n \in Nat
    OBVIOUS
  <2>2. \A n \in Nat : n < t => <<n, t>> \in R
    BY <2>1 DEF OpToRel
  <2> HIDE DEF R, Beyond
  <2> QED
    BY <1>3, <2>1, <2>2
<1>5. t \in 1..max /\ t \notin S
  <2>1. t \in 0..max /\ t \notin S /\ t # 0
    OBVIOUS
  <2> QED
    BY <2>1
<1>6. t - 1 \in 0..(max - 1) /\ t - 1 \notin Beyond
  BY <1>4, <1>5
<1> QED
  BY <1>5, <1>6

\* Anything may be done as often as one likes, h saying what is done the n-th time.
Repeats(g, v, h, max) == g[0] = v /\ \A n \in 1..max : g[n] = h[<<n, g[n - 1]>>]
LEMMA Repeated ==
  ASSUME NEW V, NEW v \in V, NEW max \in Nat, NEW h \in [(1..max) \X V -> V]
  PROVE  \E g \in [0..max -> V] : Repeats(g, v, h, max)
<1> DEFINE Run(g, n) == g \in [0..n -> V] /\ g[0] = v /\ \A i \in 1..n : g[i] = h[<<i, g[i - 1]>>]
           S == {n \in 0..max : \E g : Run(g, n)}
<1>1. 0 \in S
  <2> DEFINE g == [i \in 0..0 |-> v]
  <2>1. g \in [0..0 -> V] /\ g[0] = v /\ 0 \in 0..max
    OBVIOUS
  <2>2. \A i \in 1..0 : FALSE
    OBVIOUS
  <2> HIDE DEF g
  <2>3. Run(g, 0)
    BY <2>1, <2>2
  <2> QED
    BY <2>1, <2>3
<1>2. ASSUME NEW n \in 0..(max - 1), n \in S PROVE n + 1 \in S
  <2>1. PICK g : Run(g, n)
    BY <1>2
  <2> DEFINE e == [i \in 0..(n + 1) |-> IF i = n + 1 THEN h[<<n + 1, g[n]>>] ELSE g[i]]
  <2>2. \A i \in 0..n : i \in 0..(n + 1) /\ i # n + 1 /\ g[i] \in V
    BY <2>1
  <2>3. n \in 0..n /\ n + 1 \in 0..(n + 1) /\ n + 1 \in 0..max /\ n + 1 \in 1..max /\ 0 \in 0..n
    OBVIOUS
  <2>4. \A i \in 0..(n + 1) : i = n + 1 \/ i \in 0..n
    OBVIOUS
  <2>5. e \in [0..(n + 1) -> V]
    <3>1. h[<<n + 1, g[n]>>] \in V
      BY <2>2, <2>3
    <3> QED
      BY <2>2, <2>4, <3>1
  <2>6. (\A i \in 0..n : e[i] = g[i]) /\ e[n + 1] = h[<<n + 1, g[n]>>]
    BY <2>2, <2>3
  <2>7. \A i \in 1..(n + 1) : i - 1 \in 0..n /\ (i = n + 1 \/ i \in 1..n) /\ (i \in 1..n => i \in 0..n)
    OBVIOUS
  <2> HIDE DEF e
  <2>8. \A i \in 1..(n + 1) : e[i] = h[<<i, e[i - 1]>>]
    <3> SUFFICES ASSUME NEW i \in 1..(n + 1) PROVE e[i] = h[<<i, e[i - 1]>>]
      OBVIOUS
    <3>1. CASE i = n + 1
      <4>1. i - 1 = n
        BY <3>1
      <4> QED
        BY <2>3, <2>6, <3>1, <4>1
    <3>2. CASE i \in 1..n
      BY <2>1, <2>6, <2>7, <3>2
    <3> QED
      BY <2>7, <3>1, <3>2
  <2>9. Run(e, n + 1)
    BY <2>1, <2>3, <2>5, <2>6, <2>8
  <2> QED
    BY <2>3, <2>9
<1>3. 0..max \subseteq S
  <2> HIDE DEF S
  <2> QED
    BY <1>1, <1>2, StepByStep
<1>4. max \in S
  BY <1>3
<1> QED
  BY <1>4 DEF Repeats


-----------------------------------------------------------------------------
(* Mappings                                                                *)

\* What passes from each prefix of a sequence to the next.
Mapped(Tech) == [technique : Tech, confidence : {"high", "medium", "low"}]
Told(out, ms, n) ==
  /\ \A i, k \in DOMAIN out : out[i].technique = out[k].technique => i = k
  /\ \A k \in 1..n : \E i \in DOMAIN out : out[i].technique = ms[k].technique
LEMMA OneTold ==
  ASSUME NEW Tech, NEW ms \in Seq(Mapped(Tech)), NEW n \in Nat, n + 1 \in 1..Len(ms),
         NEW out \in Seq(Mapped(Tech)), Told(out, ms, n)
  PROVE  I!Keep(out, ms[n + 1]) \in Seq(Mapped(Tech)) /\ Told(I!Keep(out, ms[n + 1]), ms, n + 1)
<1> DEFINE m == ms[n + 1]
           new == Append(out, m)
<1>1. m \in Mapped(Tech)
  OBVIOUS
<1>2. \A k \in 1..(n + 1) : k = n + 1 \/ k \in 1..n
  OBVIOUS
<1>3. CASE \E k \in DOMAIN out : out[k].technique = m.technique
  <2>1. I!Keep(out, m) = out
    BY <1>3 DEF I!Keep
  <2> QED
    BY <1>2, <1>3, <2>1 DEF Told
<1>4. CASE ~\E k \in DOMAIN out : out[k].technique = m.technique
  <2>1. I!Keep(out, m) = new
    BY <1>4 DEF I!Keep
  <2>2. /\ new \in Seq(Mapped(Tech)) /\ DOMAIN new = 1..(Len(out) + 1) /\ new[Len(out) + 1] = m
        /\ \A k \in DOMAIN out : k \in DOMAIN new /\ new[k] = out[k]
    BY <1>1
  <2>3. Len(out) \in Nat /\ DOMAIN out = 1..Len(out)
    OBVIOUS
  <2>4. \A k \in DOMAIN new : k = Len(out) + 1 \/ k \in DOMAIN out
    BY <2>2, <2>3
  <2>5. Len(out) + 1 \in DOMAIN new
    BY <2>2, <2>3
  <2> HIDE DEF new, m
  <2>6. \A i, k \in DOMAIN new : new[i].technique = new[k].technique => i = k
    BY <1>4, <2>2, <2>4 DEF Told
  <2>7. ASSUME NEW k \in 1..(n + 1) PROVE \E i \in DOMAIN new : new[i].technique = ms[k].technique
    <3>1. CASE k = n + 1
      <4>1. new[Len(out) + 1].technique = ms[k].technique
        BY <2>2, <3>1 DEF m
      <4> QED
        BY <2>5, <4>1
    <3>2. CASE k \in 1..n
      <4>1. PICK i \in DOMAIN out : out[i].technique = ms[k].technique
        BY <3>2 DEF Told
      <4> QED
        BY <2>2, <4>1
    <3> QED
      BY <1>2, <3>1, <3>2
  <2> QED
    BY <2>1, <2>2, <2>6, <2>7 DEF Told, m
<1> QED
  BY <1>3, <1>4

\* Of each technique the first mapping is kept, and no other.
LEMMA FirstsAre ==
  ASSUME NEW Tech, NEW ms \in Seq(Mapped(Tech))
  PROVE  I!Firsts(ms) \in Seq(Mapped(Tech)) /\ Told(I!Firsts(ms), ms, Len(ms))
<1> DEFINE N == Len(ms)
           X == Seq(Mapped(Tech))
           Filled(p) == [n \in 0..N |-> IF n = 0 THEN <<>> ELSE I!Keep(p[n - 1], ms[n])]
           kept == CHOOSE p : p = Filled(p)
           h == [u \in (1..N) \X X |-> I!Keep(u[2], ms[u[1]])]
<1>1. I!Firsts(ms) = kept[N]
  BY DEF I!Firsts
<1>2. N \in Nat /\ \A n \in 1..N : ms[n] \in Mapped(Tech)
  OBVIOUS
<1>3. \A n \in 1..N : \A s \in X : I!Keep(s, ms[n]) \in X
  BY <1>2 DEF I!Keep
<1>4. <<>> \in X
  OBVIOUS
<1> HIDE DEF X, N
<1>5. h \in [(1..N) \X X -> X] /\ \A n \in 1..N : \A s \in X : h[<<n, s>>] = I!Keep(s, ms[n])
  <2>1. \A u \in (1..N) \X X : I!Keep(u[2], ms[u[1]]) \in X
    BY <1>3
  <2> QED
    BY <2>1
<1> HIDE DEF h
<1>6. PICK g \in [0..N -> X] : Repeats(g, <<>>, h, N)
  BY <1>2, <1>4, <1>5, Repeated
<1>7. \A n \in 0..N : n = 0 \/ (n \in 1..N /\ n - 1 \in 0..N)
  BY <1>2
<1>8. \A n \in 0..N : g[n] = IF n = 0 THEN <<>> ELSE I!Keep(g[n - 1], ms[n])
  BY <1>5, <1>6, <1>7 DEF Repeats
<1>9. g = Filled(g)
  <2>1. g = [n \in 0..N |-> g[n]]
    OBVIOUS
  <2>2. Filled(g) = [n \in 0..N |-> g[n]]
    BY <1>8
  <2> HIDE DEF Filled
  <2> QED
    BY <2>1, <2>2
<1>10. kept = Filled(kept)
  <2> HIDE DEF Filled
  <2> QED
    BY <1>9
<1> HIDE DEF kept
<1>11. \A n \in 0..N : kept[n] = IF n = 0 THEN <<>> ELSE I!Keep(kept[n - 1], ms[n])
  BY <1>10
<1> HIDE DEF Filled
<1> DEFINE S == {n \in 0..N : kept[n] \in X /\ Told(kept[n], ms, n)}
<1>12. 0 \in S
  <2>1. 0 \in 0..N
    BY <1>2
  <2>2. kept[0] = <<>>
    BY <1>11, <2>1
  <2>3. Told(<<>>, ms, 0)
    BY DEF Told
  <2> QED
    BY <1>4, <2>1, <2>2, <2>3
<1>13. ASSUME NEW n \in 0..(N - 1), n \in S PROVE n + 1 \in S
  <2>1. n + 1 \in 0..N /\ n + 1 \in 1..N /\ n + 1 # 0 /\ (n + 1) - 1 = n /\ n \in Nat
    BY <1>2
  <2>2. kept[n + 1] = I!Keep(kept[n], ms[n + 1])
    BY <1>11, <2>1
  <2>3. kept[n + 1] \in X /\ Told(kept[n + 1], ms, n + 1)
    BY <1>13, <2>1, <2>2, OneTold DEF X, N
  <2> QED
    BY <2>1, <2>3
<1>14. 0..N \subseteq S
  <2> HIDE DEF S
  <2> QED
    BY <1>2, <1>12, <1>13, StepByStep
<1>15. N \in S
  BY <1>2, <1>14
<1> QED
  BY <1>1, <1>15 DEF X, N

\* The techniques of an artefact: those of the mappers, and those it brings.
Mappers == {"T1547.001", "T1055", "T1071", "T1543.003", "T1059.001", "T1003", "T1027"}
Brought(a) == {a.techniques[k] : k \in DOMAIN a.techniques}
TechOf(a) == Mappers \cup Brought(a)
FullTech(a) == TechOf(a) \cup {"T1078"}
Level == {"high", "medium", "low"}

LEMMA WhenMaps ==
  ASSUME NEW Tech, NEW condition, NEW technique \in Tech, NEW confidence \in Level
  PROVE  I!When(condition, technique, confidence) \in Seq(Mapped(Tech))
<1>1. I!Mapping(technique, confidence) \in Mapped(Tech)
  BY DEF I!Mapping, Mapped, Level
<1>2. CASE condition
  <2>1. I!When(condition, technique, confidence) = <<I!Mapping(technique, confidence)>>
    BY <1>2 DEF I!When
  <2> QED
    BY <1>1, <2>1
<1>3. CASE ~condition
  <2>1. I!When(condition, technique, confidence) = <<>>
    BY <1>3 DEF I!When
  <2> QED
    BY <2>1
<1> QED
  BY <1>2, <1>3

LEMMA Joined == ASSUME NEW M, NEW s \in Seq(M), NEW t \in Seq(M) PROVE s \o t \in Seq(M)
OBVIOUS

\* What the mappers see of an artefact is of their techniques or of its own.
LEMMA DetectedMaps ==
  ASSUME NEW a, a.techniques \in Seq(STRING)
  PROVE  I!Detected(a) \in Seq(Mapped(TechOf(a)))
<1> DEFINE Is(category) == a.category = category
           Has(fact) == fact \in a.facts
           M == Mapped(TechOf(a))
           s1 == I!When(Is("registry_key") /\ Has("autorun"), "T1547.001", "high")
           s2 == s1 \o I!When(Is("injected_code"), "T1055", "high")
           s3 == s2 \o I!When(Is("running_process") /\ Has("rwx"), "T1055", "medium")
           s4 == s3 \o I!When(Is("network_connection") /\ Has("odd_port"), "T1071", "medium")
           s5 == s4 \o I!When(Is("network_connection") /\ ~Has("odd_port") /\ Has("external"), "T1071", "low")
           s6 == s5 \o I!When(Is("event_log") /\ Has("service_installed"), "T1543.003", "high")
           s7 == s6 \o I!When(Has("powershell"), "T1059.001", "medium")
           s8 == s7 \o I!When(Has("credentials"), "T1003", "high")
           s9 == s8 \o I!When(Is("filesystem_metadata") /\ Has("hidden_script"), "T1027", "medium")
           own == [k \in DOMAIN a.techniques |-> I!Mapping(a.techniques[k], "medium")]
<1>1. I!Detected(a) = s9 \o own
  BY DEF I!Detected
<1>2. own \in Seq(M)
  <2>1. Len(a.techniques) \in Nat /\ DOMAIN a.techniques = 1..Len(a.techniques)
    OBVIOUS
  <2>2. \A k \in DOMAIN a.techniques : I!Mapping(a.techniques[k], "medium") \in M
    BY DEF I!Mapping, Mapped, TechOf, Brought
  <2> QED
    BY <2>1, <2>2
<1>3. Mappers \subseteq TechOf(a)
  BY DEF TechOf
<1>4. \A condition, technique, confidence :
        technique \in Mappers /\ confidence \in Level => I!When(condition, technique, confidence) \in Seq(M)
  BY <1>3, WhenMaps
<1> HIDE DEF M, own, Is, Has
<1>5. s1 \in Seq(M)
  BY <1>4 DEF Mappers, Level
<1> HIDE DEF s1
<1>6. s2 \in Seq(M)
  BY <1>4, <1>5, Joined DEF Mappers, Level
<1> HIDE DEF s2
<1>7. s3 \in Seq(M)
  BY <1>4, <1>6, Joined DEF Mappers, Level
<1> HIDE DEF s3
<1>8. s4 \in Seq(M)
  BY <1>4, <1>7, Joined DEF Mappers, Level
<1> HIDE DEF s4
<1>9. s5 \in Seq(M)
  BY <1>4, <1>8, Joined DEF Mappers, Level
<1> HIDE DEF s5
<1>10. s6 \in Seq(M)
  BY <1>4, <1>9, Joined DEF Mappers, Level
<1> HIDE DEF s6
<1>11. s7 \in Seq(M)
  BY <1>4, <1>10, Joined DEF Mappers, Level
<1> HIDE DEF s7
<1>12. s8 \in Seq(M)
  BY <1>4, <1>11, Joined DEF Mappers, Level
<1> HIDE DEF s8
<1>13. s9 \in Seq(M)
  BY <1>4, <1>12, Joined DEF Mappers, Level
<1> HIDE DEF s9
<1>14. s9 \o own \in Seq(M)
  BY <1>2, <1>13, Joined
<1> QED
  BY <1>1, <1>14 DEF M

\* What is mapped is what was seen, once per technique, and the fallback only when
\* nothing was.
LEMMA MappedIs ==
  ASSUME NEW a, a.techniques \in Seq(STRING)
  PROVE  LET ms == I!MapArtefact(a)  all == I!Detected(a) \o I!Fallback(a) IN
         /\ ms \in Seq(Mapped(FullTech(a))) /\ Told(ms, all, Len(all))
         /\ all \in Seq(Mapped(FullTech(a)))
         /\ I!Fallback(a) = <<>> => ms \in Seq(Mapped(TechOf(a)))
<1> DEFINE all == I!Detected(a) \o I!Fallback(a)
<1>1. I!Detected(a) \in Seq(Mapped(TechOf(a)))
  BY DetectedMaps
<1>2. Mapped(TechOf(a)) \subseteq Mapped(FullTech(a))
  BY DEF Mapped, FullTech
<1>3. I!Detected(a) \in Seq(Mapped(FullTech(a)))
  BY <1>1, <1>2
<1>4. I!Fallback(a) \in Seq(Mapped(FullTech(a)))
  BY WhenMaps DEF I!Fallback, FullTech, Level
<1>5. all \in Seq(Mapped(FullTech(a)))
  BY <1>3, <1>4, Joined
<1>6. I!Fallback(a) = <<>> => all \in Seq(Mapped(TechOf(a)))
  BY <1>1
<1>7. I!MapArtefact(a) = I!Firsts(all)
  BY DEF I!MapArtefact
<1> HIDE DEF all
<1>8. I!Firsts(all) \in Seq(Mapped(FullTech(a))) /\ Told(I!Firsts(all), all, Len(all))
  BY <1>5, FirstsAre
<1>9. I!Fallback(a) = <<>> => I!Firsts(all) \in Seq(Mapped(TechOf(a)))
  BY <1>6, FirstsAre
<1> QED
  BY <1>5, <1>7, <1>8, <1>9 DEF all

LEMMA MapsAreWhole == I!Sensible => I!MapsWhole
<1> SUFFICES ASSUME I!Sensible, NEW a \in Artefacts
             PROVE  LET ms == I!MapArtefact(a) IN
                    /\ \A i, k \in DOMAIN ms : ms[i].technique = ms[k].technique => i = k
                    /\ \A k \in DOMAIN I!Detected(a) : \E i \in DOMAIN ms : ms[i].technique = I!Detected(a)[k].technique
                    /\ ms = <<>> => a.suspicion \notin {"high", "critical"}
  BY DEF I!MapsWhole
<1> DEFINE ms == I!MapArtefact(a)
           all == I!Detected(a) \o I!Fallback(a)
<1>1. a.techniques \in Seq(STRING)
  BY DEF I!Sensible
<1>2. /\ ms \in Seq(Mapped(FullTech(a))) /\ Told(ms, all, Len(all)) /\ all \in Seq(Mapped(FullTech(a)))
  BY <1>1, MappedIs
<1>3. I!Detected(a) \in Seq(Mapped(TechOf(a)))
  BY <1>1, DetectedMaps
<1>4. I!Fallback(a) \in Seq(Mapped(FullTech(a)))
  BY WhenMaps DEF I!Fallback, FullTech, Level
<1>5. /\ Len(I!Detected(a)) \in Nat /\ DOMAIN I!Detected(a) = 1..Len(I!Detected(a))
      /\ Len(all) = Len(I!Detected(a)) + Len(I!Fallback(a)) /\ Len(I!Fallback(a)) \in Nat
      /\ \A k \in DOMAIN I!Detected(a) : k \in 1..Len(all) /\ all[k] = I!Detected(a)[k]
  BY <1>3, <1>4
<1> HIDE DEF ms, all
<1>6. \A k \in DOMAIN I!Detected(a) : \E i \in DOMAIN ms : ms[i].technique = I!Detected(a)[k].technique
  BY <1>2, <1>5 DEF Told
<1>7. ASSUME ms = <<>>, a.suspicion \in {"high", "critical"} PROVE FALSE
  <2>1. DOMAIN ms = {}
    BY <1>7
  <2>2. I!Detected(a) = <<>>
    BY <1>3, <1>5, <1>6, <2>1
  <2>3. I!Fallback(a) = <<I!Mapping("T1078", "low")>>
    BY <1>7, <2>2 DEF I!Fallback, I!When
  <2>4. Len(I!Fallback(a)) = 1 /\ 1 \in 1..Len(all)
    BY <1>5, <2>3
  <2> QED
    BY <1>2, <2>1, <2>4 DEF Told
<1> QED
  BY <1>2, <1>6, <1>7 DEF Told, ms
-----------------------------------------------------------------------------
(* Scans                                                                   *)

\* A scan has artefacts of the case before it, and behind it what it met, as ranked.
AsRanked(a) == [a EXCEPT !.suspicion = "informational"]
SeenOf(a) ==
  [artefact : {a}, yara : SUBSET Files, sigma : SUBSET Files, mappings : {I!MapArtefact(AsRanked(a))}]
SeenType == UNION {SeenOf(a) : a \in Artefacts}
ScanInv ==
  /\ scan.todo \in Seq(Artefacts) /\ scan.seen \in Seq(SeenType)
IntelInv == RulesInv /\ ScanInv

\* The instance has its own names for what FiniteSets defines.
LEMMA IntelSizes == \A S : (I!IsFiniteSet(S) <=> IsFiniteSet(S)) /\ I!Cardinality(S) = Cardinality(S)
BY DEF I!IsFiniteSet, IsFiniteSet, I!Cardinality, Cardinality

\* Whatever is loaded, what an artefact met is of the rules there are.
LEMMA MetIs == ASSUME RulesInv, NEW a \in Artefacts PROVE I!Met(a) \in SeenType
<1>1. loaded["yara"] \subseteq Files /\ loaded["sigma"] \subseteq Files
  <2>1. "yara" \in I!Engines /\ "sigma" \in I!Engines
    BY DEF I!Engines
  <2>2. \A e \in I!Engines : loaded[e] \subseteq Files
    BY DEF RulesInv, Shelved
  <2> QED
    BY <2>1, <2>2
<1> DEFINE y == IF a.category \in {"filesystem_metadata", "running_process", "injected_code"} THEN loaded["yara"] ELSE {}
           g == IF I!SigmaInput(a.category) = {} THEN {} ELSE loaded["sigma"]
           m == I!MapArtefact(AsRanked(a))
<1>2. I!Met(a) = [artefact |-> a, yara |-> y, sigma |-> g, mappings |-> m]
  BY DEF I!Met, AsRanked
<1>3. y \in SUBSET Files /\ g \in SUBSET Files
  BY <1>1
<1> HIDE DEF y, g
<1>4. I!Met(a) \in SeenOf(a)
  BY <1>2, <1>3 DEF SeenOf
<1> QED
  BY <1>4 DEF SeenType

LEMMA ScansInit == ASSUME I!Sensible, I!Init PROVE IntelInv
<1>1. scan.todo = <<>> /\ scan.seen = <<>>
  BY DEF I!Init, I!NoScan
<1> QED
  BY <1>1, RulesInit DEF IntelInv, ScanInv

LEMMA ScansNext == ASSUME IntelInv, [I!Next]_I!vars PROVE IntelInv'
<1>1. RulesInv' /\ RulesInv /\ I!Sensible
  BY RulesNext DEF IntelInv, RulesInv
<1>2. ASSUME scan' = scan PROVE ScanInv'
  BY <1>2 DEF IntelInv, ScanInv, SeenType, SeenOf, AsRanked
<1>3. ASSUME scan' = I!NoScan PROVE ScanInv'
  BY <1>3 DEF ScanInv, I!NoScan
<1>4. ASSUME I!StartScan PROVE ScanInv'
  <2>1. PICK s \in I!SetToSeqs(Artefacts) : scan' = [todo |-> s, seen |-> <<>>]
    BY <1>4 DEF I!StartScan
  <2>2. Cardinality(Artefacts) \in Nat /\ s \in [1..Cardinality(Artefacts) -> Artefacts]
    <3>1. IsFiniteSet(Artefacts)
      BY <1>1, IntelSizes DEF I!Sensible
    <3>2. s \in [1..I!Cardinality(Artefacts) -> Artefacts]
      BY <2>1 DEF I!SetToSeqs
    <3> QED
      BY <3>1, <3>2, FS_CardinalityType, IntelSizes
  <2>3. s \in Seq(Artefacts)
    BY <2>2
  <2> QED
    BY <2>1, <2>3 DEF ScanInv
<1>5. ASSUME I!ScanNext PROVE ScanInv'
  <2>1. scan.todo \in Seq(Artefacts) /\ scan.seen \in Seq(SeenType) /\ scan.todo # <<>>
    BY <1>5 DEF I!ScanNext, IntelInv, ScanInv
  <2>2. scan'.todo = Tail(scan.todo) /\ scan'.seen = Append(scan.seen, I!Met(Head(scan.todo)))
    BY <1>5 DEF I!ScanNext
  <2>3. Head(scan.todo) \in Artefacts /\ Tail(scan.todo) \in Seq(Artefacts)
    BY <2>1
  <2>4. I!Met(Head(scan.todo)) \in SeenType
    BY <1>1, <2>3, MetIs
  <2>5. scan'.seen \in Seq(SeenType)
    BY <2>1, <2>2, <2>4
  <2> QED
    BY <2>2, <2>3, <2>5 DEF ScanInv
<1>6. I!Restart \/ I!Report => scan' = I!NoScan
  BY DEF I!Restart, I!Report
<1>7. (\E d \in Feeds : I!Stage(d) \/ I!LoadRules(d)) \/ UNCHANGED I!vars => scan' = scan
  BY DEF I!Stage, I!LoadRules, I!vars
<1> QED
  BY <1>1, <1>2, <1>3, <1>4, <1>5, <1>6, <1>7 DEF I!Next, IntelInv

\* A scan ranks all as informational, so what it names was seen or brought.
LEMMA NoFallbackUsed == IntelInv => I!NoFallback
<1> SUFFICES ASSUME IntelInv, NEW k \in DOMAIN scan.seen, NEW i \in DOMAIN scan.seen[k].mappings,
                    scan.seen[k].mappings[i].technique = "T1078"
             PROVE  \E j \in DOMAIN scan.seen[k].artefact.techniques : scan.seen[k].artefact.techniques[j] = "T1078"
  BY DEF I!NoFallback
<1>1. scan.seen[k] \in SeenType
  BY DEF IntelInv, ScanInv
<1>2. PICK a \in Artefacts : scan.seen[k] \in SeenOf(a)
  BY <1>1 DEF SeenType
<1>3. scan.seen[k].artefact = a /\ scan.seen[k].mappings = I!MapArtefact(AsRanked(a))
  BY <1>2 DEF SeenOf
<1>4. AsRanked(a).suspicion = "informational" /\ AsRanked(a).techniques = a.techniques /\ a.techniques \in Seq(STRING)
  BY DEF AsRanked, IntelInv, RulesInv, I!Sensible
<1>5. I!Fallback(AsRanked(a)) = <<>>
  BY <1>4 DEF I!Fallback, I!When
<1>6. I!MapArtefact(AsRanked(a)) \in Seq(Mapped(TechOf(AsRanked(a))))
  BY <1>4, <1>5, MappedIs
<1> DEFINE ms == I!MapArtefact(AsRanked(a))
<1>7. ms[i] \in Mapped(TechOf(AsRanked(a)))
  <2>1. i \in DOMAIN ms
    BY <1>3
  <2> HIDE DEF ms
  <2> QED
    BY <1>6, <2>1 DEF ms
<1>8. "T1078" \in TechOf(AsRanked(a))
  BY <1>3, <1>7 DEF Mapped
<1>9. "T1078" \in Brought(AsRanked(a))
  BY <1>8 DEF TechOf, Mappers
<1> QED
  BY <1>3, <1>4, <1>9 DEF Brought

-----------------------------------------------------------------------------
(* Conditions of Sigma rules                                               *)

\* A name is found in itself.
LEMMA OwnPrefix == \A n \in I!Names : I!IsPrefix(n, n)
<1>1. ASSUME NEW n \in I!Names PROVE Len(n) <= Len(n)
  <2>1. n \in {<<"s">>, <<"s", "2">>, <<"t">>}
    BY DEF I!Names
  <2>2. Len(n) \in {1, 2}
    BY <2>1
  <2> QED
    BY <2>2
<1> QED
  BY <1>1 DEF I!IsPrefix

\* Both say yes or no.
LEMMA AreTruths ==
  ASSUME NEW condition \in I!Conditions, NEW detection, NEW fields
  PROVE  I!Detects(condition, detection, fields) \in BOOLEAN /\ I!Meant(condition, detection, fields) \in BOOLEAN
<1>1. condition.form \in {"one", "or", "and", "and not"}
  BY DEF I!Conditions
<1>2. CASE condition.form = "and not"
  BY <1>2 DEF I!Detects, I!Meant
<1>3. CASE condition.form = "one"
  BY <1>3 DEF I!Detects, I!Meant, I!AnySelected
<1>4. CASE condition.form = "or"
  BY <1>4 DEF I!Detects, I!Meant
<1>5. CASE condition.form = "and"
  BY <1>5 DEF I!Detects, I!Meant, I!AnySelected
<1> QED
  BY <1>1, <1>2, <1>3, <1>4, <1>5

\* The supported conditions mean what Sigma means, and of the others no event is missed.
LEMMA MeantIsDetected == I!DetectsWhatIsMeant
<1> SUFFICES ASSUME NEW condition \in I!Conditions, NEW used \in {I!Names} \cup {{n} : n \in I!Names},
                    NEW detection \in [used -> I!Selections], NEW fields \in SUBSET {"x", "y"}
             PROVE  LET found == I!Detects(condition, detection, fields)  meant == I!Meant(condition, detection, fields) IN
                    /\ condition.form = "and not" => found = meant
                    /\ condition.form = "one" /\ used = {condition.names[1]} => found = meant
                    /\ meant => found
  BY DEF I!DetectsWhatIsMeant
<1> DEFINE Holds(n) == n \in DOMAIN detection /\ I!Selected(detection[n], fields)
           first == condition.names[1]
           second == condition.names[2]
<1>1. condition.form \in {"one", "or", "and", "and not"} /\ DOMAIN detection = used
  BY DEF I!Conditions
<1>2. Len(condition.names) = 2 /\ first \in I!Names /\ second \in I!Names /\ DOMAIN condition.names = {1, 2}
  <2>1. condition.names \in I!Names \X I!Names
    BY DEF I!Conditions
  <2>2. PICK n \in I!Names, k \in I!Names : condition.names = <<n, k>>
    BY <2>1
  <2> QED
    BY <2>2
<1>3. CASE condition.form = "and not"
  <2>1. I!Detects(condition, detection, fields) <=> Holds(first) /\ ~Holds(second)
    BY <1>3 DEF I!Detects
  <2>2. I!Meant(condition, detection, fields) <=> Holds(first) /\ ~(Len(condition.names) > 1 /\ Holds(second))
    BY <1>3 DEF I!Meant
  <2> QED
    <3>1. I!Detects(condition, detection, fields) = I!Meant(condition, detection, fields)
      BY <1>2, <2>1, <2>2, AreTruths
    <3> QED
      BY <1>3, <3>1
<1>4. CASE condition.form = "one"
  <2>1. I!Detects(condition, detection, fields) <=> \E n \in DOMAIN detection : I!Selected(detection[n], fields)
    BY <1>4 DEF I!Detects, I!AnySelected
  <2>2. I!Meant(condition, detection, fields) <=> Holds(first)
    BY <1>4 DEF I!Meant
  <2> QED
    BY <1>1, <1>4, <2>1, <2>2, AreTruths
<1>5. CASE condition.form = "or"
  <2>1. I!Detects(condition, detection, fields) <=>
          \E n \in DOMAIN detection : I!Mentioned(n, condition) /\ I!Selected(detection[n], fields)
    BY <1>5 DEF I!Detects
  <2>2. I!Meant(condition, detection, fields) => Holds(first) \/ Holds(second)
    BY <1>5 DEF I!Meant
  <2>3. I!Mentioned(first, condition) /\ I!Mentioned(second, condition)
    BY <1>2, OwnPrefix DEF I!Mentioned
  <2> QED
    BY <1>5, <2>1, <2>2, <2>3
<1>6. CASE condition.form = "and"
  <2>1. I!Detects(condition, detection, fields) <=> \E n \in DOMAIN detection : I!Selected(detection[n], fields)
    BY <1>6 DEF I!Detects, I!AnySelected
  <2>2. I!Meant(condition, detection, fields) => Holds(first)
    BY <1>6 DEF I!Meant
  <2> QED
    BY <1>6, <2>1, <2>2
<1> QED
  BY <1>1, <1>3, <1>4, <1>5, <1>6

\* Feeds overlap and the process restarts while scans go on: between feeds the rules in memory
\* are those of a directory of whole files; a scan names a technique once, loses none that a
\* mapper saw and uses no fallback; and conditions detect what they mean (threat_intel/).
THEOREM IntelIsSafe == I!Sensible /\ I!Spec => []I!ThreatIntelSafe
<1>1. I!Sensible /\ I!Init => IntelInv
  BY ScansInit
<1>2. IntelInv /\ [I!Next]_I!vars => IntelInv'
  BY ScansNext
<1>3. IntelInv => I!ThreatIntelSafe
  <2> SUFFICES ASSUME IntelInv PROVE I!ThreatIntelSafe
    OBVIOUS
  <2>1. I!TypeOK /\ I!LoadsAreWhole /\ I!Sensible
    BY DEF IntelInv, RulesInv, Shelved, I!TypeOK
  <2> QED
    BY <2>1, NoFallbackUsed, MapsAreWhole, MeantIsDetected DEF I!ThreatIntelSafe
<1> QED
  BY <1>1, <1>2, <1>3, PTL DEF I!Spec

-----------------------------------------------------------------------------
(* Health: any services, requests that probe them and requests for         *)
(* readiness, any failures and returns between their steps.                *)
(*                                                                         *)
(* What a request has probed so far is known from after its beginning. A   *)
(* request for readiness has seen every state a check was in since it      *)
(* began, and the aggregator answers from one of them each.                *)
CONSTANTS Services, Critical, Required, Optional, Checkers, Readers, HistoryMax, MaxFlips
VARIABLES up, flips, latest, results, serial, checker, reader
H == INSTANCE Health WITH history <- results

Probed == H!ToSet(Services)
HealthTypes ==
  /\ up \in [Probed \cup H!Checked -> BOOLEAN] /\ flips \in Nat /\ serial \in Nat
  /\ DOMAIN latest \subseteq Probed
  /\ \A s \in DOMAIN latest : latest[s] \in [healthy : BOOLEAN, failures : Nat, no : Nat] /\ latest[s].no <= serial
  /\ checker \in [Checkers -> [at : 0..Len(Services), seen : BOOLEAN, since : Nat,
                               answer : {"none", "initializing", "unavailable", "degraded", "ready"}]]
  /\ reader \in [Readers -> [at : {"idle", "database", "pipeline", "done"}, database : BOOLEAN, wasUp : SUBSET H!Checked,
                             wasDown : SUBSET H!Checked, answer : {"none", "unavailable", "degraded", "ready"}]]

-----------------------------------------------------------------------------
(* The history of a service                                                *)

\* The history ends with n failures, and with no more.
HealthEnds(h, n) ==
  n \in 0..Len(h) /\ (\A k \in Len(h) - n + 1..Len(h) : ~h[k]) /\ (n = Len(h) \/ h[Len(h) - n])
HistoryOf(s, h, known, record) ==
  /\ h \in Seq(BOOLEAN) /\ Len(h) <= HistoryMax /\ (known <=> h # <<>>)
  /\ \E n \in 0..Len(h) :
       /\ HealthEnds(h, n)
       /\ known => record.healthy = h[Len(h)] /\ record.failures >= n /\ (n < HistoryMax => record.failures = n)
HistoryInv == DOMAIN results = Probed /\ \A s \in Probed : HistoryOf(s, results[s], s \in DOMAIN latest, latest[s])

LEMMA EndsOnce == ASSUME NEW h \in Seq(BOOLEAN), NEW m, NEW n, HealthEnds(h, m), HealthEnds(h, n) PROVE m = n
<1>1. /\ Len(h) \in Nat /\ m \in 0..Len(h) /\ n \in 0..Len(h)
      /\ \A k \in Len(h) - m + 1..Len(h) : ~h[k]
      /\ \A k \in Len(h) - n + 1..Len(h) : ~h[k]
  BY DEF HealthEnds
<1>2. ASSUME m < n PROVE FALSE
  <2>1. h[Len(h) - m] /\ Len(h) - m \in Len(h) - n + 1..Len(h)
    BY <1>1, <1>2 DEF HealthEnds
  <2> QED
    BY <1>1, <2>1
<1>3. ASSUME n < m PROVE FALSE
  <2>1. h[Len(h) - n] /\ Len(h) - n \in Len(h) - m + 1..Len(h)
    BY <1>1, <1>3 DEF HealthEnds
  <2> QED
    BY <1>1, <2>1
<1> QED
  BY <1>1, <1>2, <1>3

LEMMA RunIs == ASSUME NEW h \in Seq(BOOLEAN), NEW n, HealthEnds(h, n) PROVE H!Run(h) = n
<1>1. n \in 0..Len(h) /\ (\A k \in Len(h) - n + 1..Len(h) : ~h[k]) /\ (n = Len(h) \/ h[Len(h) - n])
  BY DEF HealthEnds
<1>2. PICK m \in 0..Len(h) : m = H!Run(h) /\ (\A k \in Len(h) - m + 1..Len(h) : ~h[k]) /\ (m = Len(h) \/ h[Len(h) - m])
  BY <1>1 DEF H!Run
<1>3. HealthEnds(h, m)
  BY <1>2 DEF HealthEnds
<1> QED
  BY <1>2, <1>3, EndsOnce

\* What one more result makes of it.
LEMMA OneMore ==
  ASSUME NEW h \in Seq(BOOLEAN), NEW healthy \in BOOLEAN, NEW n, HealthEnds(h, n)
  PROVE  /\ Append(h, healthy) \in Seq(BOOLEAN) /\ Len(Append(h, healthy)) = Len(h) + 1 /\ Append(h, healthy)[Len(h) + 1] = healthy
         /\ HealthEnds(Append(h, healthy), IF healthy THEN 0 ELSE n + 1)
<1> DEFINE g == Append(h, healthy)
<1>1. /\ g \in Seq(BOOLEAN) /\ Len(h) \in Nat /\ Len(g) = Len(h) + 1 /\ g[Len(h) + 1] = healthy
      /\ (\A k \in 1..Len(h) : g[k] = h[k]) /\ n \in 0..Len(h)
  BY DEF HealthEnds
<1> HIDE DEF g
<1>2. ASSUME healthy PROVE HealthEnds(g, 0)
  <2>1. Len(g) - 0 = Len(h) + 1 /\ 0 \in 0..Len(g) /\ Len(g) - 0 + 1..Len(g) = {}
    BY <1>1
  <2>2. g[Len(g) - 0] = healthy
    BY <1>1, <2>1
  <2>3. g[Len(g) - 0]
    BY <1>2, <2>2, Zenon
  <2> QED
    BY <2>1, <2>3 DEF HealthEnds
<1>3. ASSUME ~healthy PROVE HealthEnds(g, n + 1)
  <2>1. ASSUME NEW k \in Len(g) - (n + 1) + 1..Len(g) PROVE ~g[k]
    <3>1. CASE k = Len(h) + 1
      BY <1>1, <1>3, <3>1
    <3>2. CASE k # Len(h) + 1
      <4>1. k \in Len(h) - n + 1..Len(h) /\ k \in 1..Len(h)
        BY <1>1, <2>1, <3>2
      <4> QED
        BY <1>1, <4>1 DEF HealthEnds
    <3> QED
      BY <3>1, <3>2
  <2>2. n + 1 = Len(g) \/ g[Len(g) - (n + 1)]
    <3>1. CASE n = Len(h)
      BY <1>1, <3>1
    <3>2. CASE n # Len(h)
      <4>1. h[Len(h) - n] /\ Len(g) - (n + 1) = Len(h) - n /\ Len(h) - n \in 1..Len(h)
        BY <1>1, <3>2 DEF HealthEnds
      <4> QED
        BY <1>1, <4>1
    <3> QED
      BY <3>1, <3>2
  <2> QED
    BY <1>1, <1>3, <2>1, <2>2 DEF HealthEnds
<1> QED
  BY <1>1, <1>2, <1>3 DEF g

\* What is left when the oldest of more than one result goes.
LEMMA OneLess ==
  ASSUME NEW g \in Seq(BOOLEAN), Len(g) > 1, NEW n, HealthEnds(g, n)
  PROVE  /\ Tail(g) \in Seq(BOOLEAN) /\ Len(Tail(g)) = Len(g) - 1 /\ Tail(g)[Len(g) - 1] = g[Len(g)]
         /\ HealthEnds(Tail(g), IF n = Len(g) THEN n - 1 ELSE n)
<1> DEFINE t == Tail(g)
<1>1. /\ t \in Seq(BOOLEAN) /\ Len(g) \in Nat /\ Len(t) = Len(g) - 1 /\ (\A k \in 1..Len(t) : t[k] = g[k + 1]) /\ n \in 0..Len(g)
  BY DEF HealthEnds
<1> HIDE DEF t
<1>2. t[Len(g) - 1] = g[Len(g)]
  <2>1. Len(g) - 1 \in 1..Len(t) /\ Len(g) - 1 + 1 = Len(g)
    BY <1>1
  <2> QED
    BY <1>1, <2>1
<1> DEFINE m == IF n = Len(g) THEN n - 1 ELSE n
<1>3. m \in 0..Len(t)
  BY <1>1
<1>4. ASSUME NEW k \in Len(t) - m + 1..Len(t) PROVE ~t[k]
  <2>1. k \in 1..Len(t) /\ k + 1 \in Len(g) - n + 1..Len(g)
    BY <1>1, <1>3, <1>4
  <2> QED
    BY <1>1, <2>1 DEF HealthEnds
<1>5. m = Len(t) \/ t[Len(t) - m]
  <2>1. CASE n = Len(g) \/ n = Len(g) - 1
    BY <1>1, <2>1
  <2>2. CASE n # Len(g) /\ n # Len(g) - 1
    <3>1. g[Len(g) - n] /\ m = n /\ Len(t) - m \in 1..Len(t) /\ Len(t) - m + 1 = Len(g) - n
      BY <1>1, <2>2 DEF HealthEnds
    <3> QED
      BY <1>1, <3>1
  <2> QED
    BY <2>1, <2>2
<1> QED
  BY <1>1, <1>2, <1>3, <1>4, <1>5 DEF HealthEnds, t

LEMMA RecordKeepsHistory ==
  ASSUME H!Sensible, HealthTypes, HistoryInv, NEW s \in Probed, NEW healthy \in BOOLEAN, H!Record(s, healthy)
  PROVE  HistoryInv'
<1> DEFINE h == results[s]
           new == H!Kept(Append(h, healthy))
           entry == [healthy |-> healthy, failures |-> H!FailuresAfter(s, healthy), no |-> serial']
<1>1. /\ DOMAIN results' = Probed /\ results'[s] = new /\ (\A q \in Probed \ {s} : results'[q] = results[q])
      /\ DOMAIN latest' = DOMAIN latest \cup {s} /\ latest'[s] = entry /\ (\A q \in DOMAIN latest \ {s} : latest'[q] = latest[q])
  BY DEF H!Record, HistoryInv
<1>2. h \in Seq(BOOLEAN) /\ Len(h) \in Nat /\ Len(h) <= HistoryMax /\ (s \in DOMAIN latest <=> h # <<>>) /\ HistoryMax \in Nat \ {0}
  BY DEF HistoryInv, HistoryOf, H!Sensible
<1>3. PICK n \in 0..Len(h) : /\ HealthEnds(h, n)
                             /\ s \in DOMAIN latest => latest[s].failures >= n /\ (n < HistoryMax => latest[s].failures = n)
  BY DEF HistoryInv, HistoryOf
<1> DEFINE was == IF s \in DOMAIN latest THEN latest[s].failures ELSE 0
           m == IF healthy THEN 0 ELSE n + 1
           f == H!FailuresAfter(s, healthy)
<1>4. was \in Nat /\ was >= n /\ (n < HistoryMax => was = n) /\ f = (IF healthy THEN 0 ELSE was + 1)
  <2>1. s \in DOMAIN latest => latest[s].failures \in Nat
    BY DEF HealthTypes
  <2>2. s \notin DOMAIN latest => n = 0
    <3>1. s \notin DOMAIN latest => Len(h) = 0
      BY <1>2
    <3> QED
      BY <1>3, <3>1
  <2>3. f = (IF healthy THEN 0 ELSE was + 1)
    BY DEF H!FailuresAfter
  <2>4. n \in Nat
    BY <1>2, <1>3
  <2> HIDE DEF f, h
  <2> QED
    BY <1>3, <2>1, <2>2, <2>3, <2>4
<1> HIDE DEF h, f, was
<1> DEFINE g == Append(h, healthy)
<1>5. g \in Seq(BOOLEAN) /\ Len(g) = Len(h) + 1 /\ g[Len(h) + 1] = healthy /\ HealthEnds(g, m)
  BY <1>2, <1>3, OneMore
<1> HIDE DEF g
\* How many failures the new history ends with.
<1>6. \E k \in 0..Len(new) : /\ HealthEnds(new, k) /\ f >= k /\ (k < HistoryMax => f = k)
                             /\ new \in Seq(BOOLEAN) /\ Len(new) \in Nat \ {0} /\ Len(new) <= HistoryMax /\ new[Len(new)] = healthy
  <2>1. m \in Nat /\ f \in Nat /\ f >= m /\ (n < HistoryMax => f = m) /\ n \in Nat /\ n <= Len(h)
    BY <1>2, <1>3, <1>4
  <2>2. CASE Len(g) <= HistoryMax
    <3>1. new = g /\ n < HistoryMax
      BY <1>2, <1>3, <1>5, <2>2 DEF H!Kept, g
    <3>2. m \in 0..Len(new) /\ f >= m /\ (m < HistoryMax => f = m)
      BY <2>1, <3>1, <1>5 DEF HealthEnds
    <3>3. Len(new) \in Nat \ {0} /\ Len(new) <= HistoryMax /\ new[Len(new)] = healthy
      BY <1>2, <1>5, <2>2, <3>1
    <3>4. new \in Seq(BOOLEAN) /\ HealthEnds(new, m)
      BY <1>5, <3>1
    <3> HIDE DEF new, m
    <3> QED
      BY <3>2, <3>3, <3>4
  <2>3. CASE Len(g) > HistoryMax
    <3> DEFINE k == IF m = Len(g) THEN m - 1 ELSE m
    <3>1. new = Tail(g) /\ Len(g) = HistoryMax + 1 /\ Len(h) = HistoryMax /\ Len(g) > 1
      BY <1>2, <1>5, <2>3 DEF H!Kept, g
    <3>2. new \in Seq(BOOLEAN) /\ Len(new) = Len(g) - 1 /\ new[Len(g) - 1] = g[Len(g)] /\ HealthEnds(new, k)
      BY <1>5, <3>1, OneLess
    <3>3. f >= k /\ (k < HistoryMax => f = k)
      <4>1. CASE m = Len(g)
        BY <1>2, <2>1, <3>1, <4>1
      <4>2. CASE m # Len(g)
        <5>1. k = m /\ m <= HistoryMax
          BY <1>5, <2>1, <3>1, <4>2 DEF HealthEnds
        <5>2. k < HistoryMax => f = k
          <6>1. CASE healthy
            <7>1. f = 0 /\ m = 0
              BY <1>4, <6>1, Zenon
            <7> QED
              BY <5>1, <7>1
          <6>2. CASE ~healthy
            <7>1. m = n + 1
              BY <6>2, Zenon
            <7> QED
              BY <1>2, <2>1, <5>1, <7>1
          <6> QED
            BY <6>1, <6>2
        <5> QED
          BY <2>1, <5>1, <5>2
      <4> QED
        BY <4>1, <4>2
    <3>4. new[Len(new)] = healthy /\ Len(new) \in Nat \ {0} /\ Len(new) <= HistoryMax
      BY <1>2, <1>5, <3>1, <3>2
    <3> QED
      BY <3>2, <3>3, <3>4 DEF HealthEnds
  <2> QED
    BY <1>2, <1>5, <2>2, <2>3
<1> HIDE DEF new
<1>7. HistoryOf(s, results'[s], s \in DOMAIN latest', latest'[s])
  <2>1. PICK k \in 0..Len(new) : /\ HealthEnds(new, k) /\ f >= k /\ (k < HistoryMax => f = k)
                             /\ new \in Seq(BOOLEAN) /\ Len(new) \in Nat \ {0} /\ Len(new) <= HistoryMax /\ new[Len(new)] = healthy
    BY <1>6
  <2>2. new # <<>> /\ s \in DOMAIN latest'
    BY <1>1, <2>1
  <2>3. latest'[s].healthy = healthy /\ latest'[s].failures = f
    BY <1>1 DEF f
  <2> QED
    BY <1>1, <2>1, <2>2, <2>3 DEF HistoryOf
<1>8. ASSUME NEW q \in Probed \ {s} PROVE HistoryOf(q, results'[q], q \in DOMAIN latest', latest'[q])
  <2>1. HistoryOf(q, results[q], q \in DOMAIN latest, latest[q]) /\ results'[q] = results[q]
    BY <1>1 DEF HistoryInv
  <2>2. q \in DOMAIN latest' <=> q \in DOMAIN latest
    BY <1>1
  <2>3. q \in DOMAIN latest => latest'[q] = latest[q]
    BY <1>1
  <2> QED
    BY <2>1, <2>2, <2>3 DEF HistoryOf
<1> QED
  BY <1>1, <1>7, <1>8 DEF HistoryInv

-----------------------------------------------------------------------------
(* Probes of requests that overlap                                         *)

\* What a request has probed so far is known from after its beginning.
ProbedBy(c) == IF checker[c].answer # "none" THEN Len(Services) ELSE checker[c].at - 1
ProbeInv ==
  \A c \in Checkers :
    /\ checker[c].since <= serial
    /\ \A k \in 1..ProbedBy(c) : Services[k] \in DOMAIN latest /\ latest[Services[k]].no > checker[c].since

\* While nothing fails or comes back, all that was seen holds.
Seen(r) == reader[r].at \in {"pipeline", "done"}
StillInv ==
  flips = 0 =>
    /\ \A s \in DOMAIN latest : latest[s].healthy = up[s]
    /\ \A c \in Checkers : checker[c].at > 0 => checker[c].seen = up[Services[checker[c].at]]
    /\ \A c \in Checkers : checker[c].answer = "unavailable" => \E s \in Critical : s \in Probed /\ ~up[s]
    /\ \A r \in Readers : Seen(r) => reader[r].database = up["database"]
    /\ \A r \in Readers : reader[r].answer # "none" /\ (\E s \in Required : ~up[s]) => reader[r].answer = "unavailable"

\* Readers know every state of a check since they began.
ReaderInv ==
  \A r \in Readers :
    /\ reader[r].at # "done" => reader[r].answer = "none"
    /\ reader[r].at # "idle" => \A s \in H!Checked : IF up[s] THEN s \in reader[r].wasUp ELSE s \in reader[r].wasDown
    /\ Seen(r) => IF reader[r].database THEN "database" \in reader[r].wasUp ELSE "database" \in reader[r].wasDown
    /\ reader[r].answer = "unavailable" => reader[r].wasDown \cap Required # {}
    /\ reader[r].answer = "ready" => H!Checked \subseteq reader[r].wasUp
    /\ reader[r].answer = "degraded" => reader[r].wasDown # {} /\ Required \subseteq reader[r].wasUp

HealthIInv == H!Sensible /\ HealthTypes /\ HistoryInv /\ ProbeInv /\ StillInv /\ ReaderInv
-----------------------------------------------------------------------------
\* A probe that ends.
LEMMA RecordKeepsTypes ==
  ASSUME HealthTypes, NEW s \in Probed, NEW healthy \in BOOLEAN, H!Record(s, healthy)
  PROVE  /\ serial' = serial + 1 /\ serial' \in Nat /\ DOMAIN latest' = DOMAIN latest \cup {s} /\ DOMAIN latest' \subseteq Probed
         /\ latest'[s].healthy = healthy /\ latest'[s].no = serial'
         /\ \A q \in DOMAIN latest : q # s => latest'[q] = latest[q]
         /\ \A q \in DOMAIN latest' : latest'[q] \in [healthy : BOOLEAN, failures : Nat, no : Nat] /\ latest'[q].no <= serial'
<1> DEFINE f == H!FailuresAfter(s, healthy)
<1>1. serial' = serial + 1 /\ serial \in Nat /\ serial' \in Nat
  BY DEF H!Record, HealthTypes
<1>2. f \in Nat
  BY DEF H!FailuresAfter, HealthTypes
<1>3. /\ DOMAIN latest' = DOMAIN latest \cup {s} /\ latest'[s] = [healthy |-> healthy, failures |-> f, no |-> serial']
      /\ \A q \in DOMAIN latest : q # s => latest'[q] = latest[q]
  BY DEF H!Record
<1> HIDE DEF f
<1>4. latest'[s] \in [healthy : BOOLEAN, failures : Nat, no : Nat] /\ latest'[s].no = serial' /\ latest'[s].healthy = healthy
  BY <1>1, <1>2, <1>3
<1>5. ASSUME NEW q \in DOMAIN latest', q # s
      PROVE  latest'[q] \in [healthy : BOOLEAN, failures : Nat, no : Nat] /\ latest'[q].no <= serial'
  <2>1. q \in DOMAIN latest /\ latest'[q] = latest[q]
    BY <1>3, <1>5
  <2>2. latest[q] \in [healthy : BOOLEAN, failures : Nat, no : Nat] /\ latest[q].no <= serial
    BY <2>1 DEF HealthTypes
  <2> QED
    BY <1>1, <2>1, <2>2
<1>6. DOMAIN latest' \subseteq Probed
  BY <1>3 DEF HealthTypes
<1> QED
  BY <1>1, <1>3, <1>4, <1>5, <1>6

\* What a request is told of the monitor.
LEMMA OverallIs ==
  /\ H!Overall \in {"initializing", "unavailable", "degraded", "ready"}
  /\ H!Overall = "unavailable" => \E s \in Critical \cap DOMAIN latest : ~latest[s].healthy
BY DEF H!Overall

LEMMA EndProbeKeeps ==
  ASSUME HealthIInv, NEW c \in Checkers, H!EndProbe(c)
  PROVE  HealthIInv'
<1> DEFINE n == checker[c].at
           s == Services[n]
           Count == Len(Services)
           next == IF n < Count THEN n + 1 ELSE 0
           look == IF n < Count THEN up[Services[n + 1]] ELSE TRUE
           told == IF n < Count THEN "none" ELSE H!Overall'
<1>1. /\ Count \in Nat \ {0} /\ n \in 1..Count /\ s \in Probed /\ up[s] \in BOOLEAN /\ checker[c].seen \in BOOLEAN
      /\ \A k \in 1..Count : Services[k] \in Probed /\ up[Services[k]] \in BOOLEAN
  <2>1. Count \in Nat \ {0} /\ DOMAIN Services = 1..Count
    BY DEF HealthIInv, H!Sensible
  <2>2. \A k \in 1..Count : Services[k] \in Probed /\ up[Services[k]] \in BOOLEAN
    BY <2>1 DEF Probed, H!ToSet, HealthIInv, HealthTypes
  <2>3. n \in 1..Count /\ checker[c].seen \in BOOLEAN
    <3>1. checker[c] \in [at : 0..Count, seen : BOOLEAN, since : Nat,
                          answer : {"none", "initializing", "unavailable", "degraded", "ready"}]
      BY DEF HealthIInv, HealthTypes
    <3>2. n > 0
      BY DEF H!EndProbe
    <3> QED
      BY <2>1, <3>1, <3>2
  <2> QED
    BY <2>1, <2>2, <2>3
<1>2. PICK healthy \in {checker[c].seen, up[s]} : H!Record(s, healthy)
  BY DEF H!EndProbe
<1>3. healthy \in BOOLEAN
  BY <1>1, <1>2
<1>4. HistoryInv'
  BY <1>1, <1>2, <1>3, RecordKeepsHistory DEF HealthIInv
<1>5. /\ serial' = serial + 1 /\ serial' \in Nat /\ DOMAIN latest' = DOMAIN latest \cup {s} /\ DOMAIN latest' \subseteq Probed
      /\ latest'[s].healthy = healthy /\ latest'[s].no = serial'
      /\ \A q \in DOMAIN latest : q # s => latest'[q] = latest[q]
      /\ \A q \in DOMAIN latest' : latest'[q] \in [healthy : BOOLEAN, failures : Nat, no : Nat] /\ latest'[q].no <= serial'
  BY <1>1, <1>2, <1>3, RecordKeepsTypes DEF HealthIInv
<1>6. next \in 0..Count /\ look \in BOOLEAN
  <2>1. CASE n < Count
    BY <1>1, <2>1
  <2>2. CASE ~(n < Count)
    BY <1>1, <2>2
  <2> QED
    BY <2>1, <2>2
<1>7. /\ H!Overall' \in {"initializing", "unavailable", "degraded", "ready"}
      /\ H!Overall' = "unavailable" => \E q \in Critical \cap DOMAIN latest' : ~latest'[q].healthy
  BY DEF H!Overall
<1>8. told \in {"none", "initializing", "unavailable", "degraded", "ready"} /\ (told = "unavailable" => H!Overall' = "unavailable")
  BY <1>7
<1>9. checker' = [checker EXCEPT ![c].at = next, ![c].seen = look, ![c].answer = told] /\ UNCHANGED <<up, flips, reader>>
  BY DEF H!EndProbe
<1> HIDE DEF next, look, told
<1>10. /\ checker' \in [Checkers -> [at : 0..Count, seen : BOOLEAN, since : Nat,
                               answer : {"none", "initializing", "unavailable", "degraded", "ready"}]]
       /\ checker'[c].at = next /\ checker'[c].seen = look /\ checker'[c].since = checker[c].since /\ checker'[c].answer = told
       /\ \A x \in Checkers : x # c => checker'[x] = checker[x]
  <2>1. checker \in [Checkers -> [at : 0..Count, seen : BOOLEAN, since : Nat,
                               answer : {"none", "initializing", "unavailable", "degraded", "ready"}]]
    BY DEF HealthIInv, HealthTypes
  <2> QED
    BY <1>6, <1>8, <1>9, <2>1
<1>11. HealthTypes'
  BY <1>5, <1>9, <1>10 DEF HealthIInv, HealthTypes
<1>12. ProbeInv'
  <2>1. ASSUME NEW x \in Checkers
        PROVE  /\ checker'[x].since <= serial'
               /\ \A k \in 1..ProbedBy(x)' : Services[k] \in DOMAIN latest' /\ latest'[Services[k]].no > checker'[x].since
    <3>1. checker[x].since \in Nat /\ checker[x].since <= serial /\ serial \in Nat /\ checker'[x].since = checker[x].since /\ checker[x].at \in 0..Count
      BY <1>10 DEF HealthIInv, HealthTypes, ProbeInv
    <3>2. ASSUME NEW k \in 1..Count, k \in 1..ProbedBy(x) \/ Services[k] = s
          PROVE  Services[k] \in DOMAIN latest' /\ latest'[Services[k]].no > checker[x].since
      <4>1. CASE Services[k] = s
        BY <1>5, <3>1, <4>1
      <4>2. CASE Services[k] # s
        <5>1. Services[k] \in DOMAIN latest /\ latest[Services[k]].no > checker[x].since
          BY <3>2, <4>2 DEF HealthIInv, ProbeInv
        <5> QED
          BY <1>5, <4>2, <5>1
      <4> QED
        BY <4>1, <4>2
    <3>3. ASSUME NEW k \in 1..ProbedBy(x)' PROVE k \in 1..Count /\ (k \in 1..ProbedBy(x) \/ Services[k] = s)
      <4>1. CASE x = c
        <5>1. next \in 0..Count /\ checker'[x].at = next /\ checker'[x].answer = told /\ (n < Count => next = n + 1 /\ told = "none")
          BY <1>6, <1>10, <4>1 DEF next, told
        <5>2. k \in Int /\ k >= 1 /\ k <= n
          <6>1. CASE n < Count
            BY <3>3, <5>1, <6>1, <1>1 DEF ProbedBy
          <6>2. CASE ~(n < Count)
            BY <3>3, <5>1, <6>2, <1>1, <1>7 DEF ProbedBy, told, next
          <6> QED
            BY <6>1, <6>2
        <5>3. ProbedBy(x) >= n - 1 /\ ProbedBy(x) \in Int
          BY <1>1, <4>1 DEF ProbedBy
        <5> QED
          BY <1>1, <4>1, <5>2, <5>3
      <4>2. CASE x # c
        <5>1. ProbedBy(x)' = ProbedBy(x) /\ ProbedBy(x) \in Int /\ ProbedBy(x) <= Count
          BY <1>1, <1>10, <3>1, <4>2 DEF ProbedBy
        <5> QED
          BY <1>1, <3>3, <5>1
      <4> QED
        BY <4>1, <4>2
    <3> QED
      BY <1>5, <3>1, <3>2, <3>3
  <2> QED
    BY <2>1 DEF ProbeInv
<1>13. StillInv'
  <2> SUFFICES ASSUME flips = 0 PROVE StillInv'
    BY <1>9 DEF StillInv
  <2>1. healthy = up[s]
    BY <1>1, <1>2 DEF HealthIInv, StillInv
  <2>2. \A q \in DOMAIN latest' : latest'[q].healthy = up[q]
    BY <1>5, <2>1 DEF HealthIInv, StillInv
  <2>3. ASSUME NEW x \in Checkers PROVE checker'[x].at > 0 => checker'[x].seen = up[Services[checker'[x].at]]
    <3>1. CASE x = c
      <4>1. next > 0 => n < Count /\ next = n + 1
        BY <1>1 DEF next
      <4>2. n < Count => look = up[Services[n + 1]]
        BY DEF look
      <4> QED
        BY <1>10, <3>1, <4>1, <4>2
    <3>2. CASE x # c
      BY <1>10, <3>2 DEF HealthIInv, StillInv
    <3> QED
      BY <3>1, <3>2
  <2>4. ASSUME NEW x \in Checkers, checker'[x].answer = "unavailable" PROVE \E q \in Critical : q \in Probed /\ ~up[q]
    <3>1. CASE x = c
      <4>1. PICK q \in Critical \cap DOMAIN latest' : ~latest'[q].healthy
        BY <1>7, <1>8, <1>10, <2>4, <3>1
      <4>2. latest'[q].healthy = up[q] /\ q \in Probed
        BY <1>5, <2>2
      <4> QED
        BY <4>1, <4>2, Zenon
    <3>2. CASE x # c
      BY <1>10, <2>4, <3>2 DEF HealthIInv, StillInv
    <3> QED
      BY <3>1, <3>2
  <2> QED
    BY <1>9, <2>2, <2>3, <2>4 DEF HealthIInv, StillInv, Seen
<1>14. ReaderInv'
  BY <1>9 DEF HealthIInv, ReaderInv, Seen
<1> QED
  BY <1>4, <1>11, <1>12, <1>13, <1>14 DEF HealthIInv

LEMMA BeginProbeKeeps ==
  ASSUME HealthIInv, NEW c \in Checkers, H!BeginProbe(c)
  PROVE  HealthIInv'
<1> DEFINE Count == Len(Services)
<1>1. Count \in Nat \ {0} /\ Services[1] \in Probed /\ up[Services[1]] \in BOOLEAN /\ serial \in Nat
  BY DEF HealthIInv, H!Sensible, HealthTypes, Probed, H!ToSet
<1>2. checker' = [checker EXCEPT ![c].at = 1, ![c].seen = up[Services[1]], ![c].since = serial]
      /\ UNCHANGED <<up, flips, latest, results, serial, reader>>
  BY DEF H!BeginProbe
<1>3. /\ checker' \in [Checkers -> [at : 0..Count, seen : BOOLEAN, since : Nat,
                               answer : {"none", "initializing", "unavailable", "degraded", "ready"}]]
      /\ checker'[c].at = 1 /\ checker'[c].seen = up[Services[1]] /\ checker'[c].since = serial /\ checker'[c].answer = checker[c].answer
      /\ \A x \in Checkers : x # c => checker'[x] = checker[x]
  <2> DEFINE look == up[Services[1]]
  <2>2. look \in BOOLEAN /\ 1 \in 0..Count
    BY <1>1
  <2>3. checker' = [checker EXCEPT ![c].at = 1, ![c].seen = look, ![c].since = serial]
    BY <1>2
  <2> HIDE DEF look
  <2>1. checker \in [Checkers -> [at : 0..Count, seen : BOOLEAN, since : Nat,
                               answer : {"none", "initializing", "unavailable", "degraded", "ready"}]]
    BY DEF HealthIInv, HealthTypes
  <2>4. /\ checker' \in [Checkers -> [at : 0..Count, seen : BOOLEAN, since : Nat,
                               answer : {"none", "initializing", "unavailable", "degraded", "ready"}]]
        /\ checker'[c].at = 1 /\ checker'[c].seen = look /\ checker'[c].since = serial /\ checker'[c].answer = checker[c].answer
        /\ \A x \in Checkers : x # c => checker'[x] = checker[x]
    BY <1>1, <2>1, <2>2, <2>3
  <2> QED
    BY <2>4 DEF look
<1>4. HealthTypes'
  BY <1>2, <1>3 DEF HealthIInv, HealthTypes
<1>5. HistoryInv'
  BY <1>2 DEF HealthIInv, HistoryInv
<1>6. ProbeInv'
  <2>1. checker[c].answer = "none"
    BY DEF H!BeginProbe
  <2>2. ProbedBy(c)' = 0 /\ \A x \in Checkers : x # c => ProbedBy(x)' = ProbedBy(x)
    BY <1>1, <1>3, <2>1 DEF ProbedBy
  <2> QED
    BY <1>1, <1>2, <1>3, <2>2 DEF HealthIInv, ProbeInv
<1>7. StillInv'
  BY <1>1, <1>2, <1>3 DEF HealthIInv, StillInv, Seen
<1>8. ReaderInv'
  BY <1>2 DEF HealthIInv, ReaderInv, Seen
<1> QED
  BY <1>4, <1>5, <1>6, <1>7, <1>8 DEF HealthIInv

\* A probe that ends for a request that has its answer then.
LEMMA EndProbeIsFresh ==
  ASSUME HealthIInv, HealthIInv', NEW c \in Checkers, [H!Next]_H!vars, checker[c].answer = "none", checker'[c].answer # "none"
  PROVE  \A s \in Probed : s \in DOMAIN latest' /\ latest'[s].no > checker[c].since
<1>1. checker'[c].since = checker[c].since
  <2>1. checker # checker' /\ checker \in [Checkers -> [at : 0..Len(Services), seen : BOOLEAN, since : Nat,
                               answer : {"none", "initializing", "unavailable", "degraded", "ready"}]]
    BY DEF HealthIInv, HealthTypes
  <2>2. PICK x \in Checkers : H!BeginProbe(x) \/ H!EndProbe(x)
    BY <2>1 DEF H!Next, H!vars, H!monitor, H!Flip, H!AskDatabase, H!DatabaseAnswers, H!Collect
  <2>3. CASE H!BeginProbe(x)
    BY <2>1, <2>3 DEF H!BeginProbe
  <2>4. CASE H!EndProbe(x)
    BY <2>1, <2>4 DEF H!EndProbe
  <2> QED
    BY <2>2, <2>3, <2>4
<1>2. ASSUME NEW k \in 1..Len(Services) PROVE Services[k] \in DOMAIN latest' /\ latest'[Services[k]].no > checker'[c].since
  <2>1. ProbedBy(c)' = Len(Services)
    BY DEF ProbedBy
  <2> QED
    BY <2>1 DEF HealthIInv, ProbeInv
<1> QED
  BY <1>1, <1>2 DEF Probed, H!ToSet, HealthIInv, H!Sensible

-----------------------------------------------------------------------------
(* Failures and returns, and the requests for readiness                    *)

LEMMA FlipKeeps ==
  ASSUME HealthIInv, NEW s \in Probed \cup H!Checked, H!Flip(s)
  PROVE  HealthIInv'
<1>1. /\ flips' = flips + 1 /\ flips \in Nat /\ up' = [up EXCEPT ![s] = ~up[s]] /\ UNCHANGED H!monitor
      /\ up \in [Probed \cup H!Checked -> BOOLEAN]
  BY DEF H!Flip, HealthIInv, HealthTypes
<1>2. up' \in [Probed \cup H!Checked -> BOOLEAN] /\ (up'[s] <=> ~up[s]) /\ \A x \in Probed \cup H!Checked : x # s => up'[x] = up[x]
  BY <1>1
<1>3. reader \in [Readers -> [at : {"idle", "database", "pipeline", "done"}, database : BOOLEAN, wasUp : SUBSET H!Checked,
                             wasDown : SUBSET H!Checked, answer : {"none", "unavailable", "degraded", "ready"}]]
  BY DEF HealthIInv, HealthTypes
<1>4. ASSUME NEW r \in Readers
      PROVE  /\ reader'[r] \in [at : {"idle", "database", "pipeline", "done"}, database : BOOLEAN, wasUp : SUBSET H!Checked,
                             wasDown : SUBSET H!Checked, answer : {"none", "unavailable", "degraded", "ready"}]
             /\ reader'[r].at = reader[r].at /\ reader'[r].database = reader[r].database /\ reader'[r].answer = reader[r].answer
             /\ reader[r].wasUp \subseteq reader'[r].wasUp /\ reader[r].wasDown \subseteq reader'[r].wasDown
             /\ reader[r].at # "idle" /\ s \in H!Checked => IF up[s] THEN s \in reader'[r].wasDown ELSE s \in reader'[r].wasUp
  <2> DEFINE rec == reader[r]
  <2>1. rec \in [at : {"idle", "database", "pipeline", "done"}, database : BOOLEAN, wasUp : SUBSET H!Checked,
                             wasDown : SUBSET H!Checked, answer : {"none", "unavailable", "degraded", "ready"}]
    BY <1>3
  <2>2. reader'[r] = IF rec.at = "idle" \/ s \notin H!Checked THEN rec
                     ELSE IF up[s] THEN [rec EXCEPT !.wasDown = rec.wasDown \cup {s}] ELSE [rec EXCEPT !.wasUp = rec.wasUp \cup {s}]
    BY DEF H!Flip
  <2> HIDE DEF rec
  <2>3. /\ reader'[r] \in [at : {"idle", "database", "pipeline", "done"}, database : BOOLEAN, wasUp : SUBSET H!Checked,
                             wasDown : SUBSET H!Checked, answer : {"none", "unavailable", "degraded", "ready"}]
        /\ reader'[r].at = rec.at /\ reader'[r].database = rec.database /\ reader'[r].answer = rec.answer
        /\ rec.wasUp \subseteq reader'[r].wasUp /\ rec.wasDown \subseteq reader'[r].wasDown
        /\ rec.at # "idle" /\ s \in H!Checked => IF up[s] THEN s \in reader'[r].wasDown ELSE s \in reader'[r].wasUp
    <3>1. CASE rec.at = "idle" \/ s \notin H!Checked
      BY <2>1, <2>2, <3>1
    <3>2. CASE ~(rec.at = "idle" \/ s \notin H!Checked) /\ up[s]
      <4>1. reader'[r] = [rec EXCEPT !.wasDown = rec.wasDown \cup {s}]
        BY <2>2, <3>2, Zenon
      <4> QED
        BY <2>1, <3>2, <4>1
    <3>3. CASE ~(rec.at = "idle" \/ s \notin H!Checked) /\ ~up[s]
      <4>1. reader'[r] = [rec EXCEPT !.wasUp = rec.wasUp \cup {s}]
        BY <2>2, <3>3, Zenon
      <4> QED
        BY <2>1, <3>3, <4>1
    <3> QED
      BY <3>1, <3>2, <3>3
  <2> QED
    BY <2>3 DEF rec
<1>5. HealthTypes'
  <2>1. reader' = [r \in Readers |-> reader'[r]]
    BY DEF H!Flip
  <2>2. reader' \in [Readers -> [at : {"idle", "database", "pipeline", "done"}, database : BOOLEAN, wasUp : SUBSET H!Checked,
                             wasDown : SUBSET H!Checked, answer : {"none", "unavailable", "degraded", "ready"}]]
    BY <1>4, <2>1
  <2> QED
    BY <1>1, <1>2, <2>2 DEF HealthIInv, HealthTypes, H!monitor
<1>6. HistoryInv'
  BY <1>1 DEF HealthIInv, HistoryInv, H!monitor
<1>7. ProbeInv'
  BY <1>1 DEF HealthIInv, ProbeInv, ProbedBy, H!monitor
<1>8. StillInv'
  BY <1>1 DEF StillInv
<1>9. ReaderInv'
  <2> SUFFICES ASSUME NEW r \in Readers
      PROVE  /\ reader'[r].at # "done" => reader'[r].answer = "none"
             /\ reader'[r].at # "idle" => \A x \in H!Checked : IF up'[x] THEN x \in reader'[r].wasUp ELSE x \in reader'[r].wasDown
             /\ Seen(r)' => IF reader'[r].database THEN "database" \in reader'[r].wasUp ELSE "database" \in reader'[r].wasDown
             /\ reader'[r].answer = "unavailable" => reader'[r].wasDown \cap Required # {}
             /\ reader'[r].answer = "ready" => H!Checked \subseteq reader'[r].wasUp
             /\ reader'[r].answer = "degraded" => reader'[r].wasDown # {} /\ Required \subseteq reader'[r].wasUp
    BY DEF ReaderInv
  <2>1. /\ reader[r].at # "done" => reader[r].answer = "none"
        /\ reader[r].at # "idle" => \A x \in H!Checked : IF up[x] THEN x \in reader[r].wasUp ELSE x \in reader[r].wasDown
        /\ Seen(r) => IF reader[r].database THEN "database" \in reader[r].wasUp ELSE "database" \in reader[r].wasDown
        /\ reader[r].answer = "unavailable" => reader[r].wasDown \cap Required # {}
        /\ reader[r].answer = "ready" => H!Checked \subseteq reader[r].wasUp
        /\ reader[r].answer = "degraded" => reader[r].wasDown # {} /\ Required \subseteq reader[r].wasUp
    BY DEF HealthIInv, ReaderInv
  <2>2. ASSUME reader[r].at # "idle", NEW x \in H!Checked
        PROVE  IF up'[x] THEN x \in reader'[r].wasUp ELSE x \in reader'[r].wasDown
    <3>1. CASE x = s
      BY <1>2, <1>4, <2>2, <3>1
    <3>2. CASE x # s
      BY <1>2, <1>4, <2>1, <2>2, <3>2
    <3> QED
      BY <3>1, <3>2
  <2>3. Seen(r)' <=> Seen(r)
    BY <1>4 DEF Seen
  <2> QED
    BY <1>4, <2>1, <2>2, <2>3
<1> QED
  BY <1>5, <1>6, <1>7, <1>8, <1>9 DEF HealthIInv

\* What a request for readiness needs of its own record, and the others keep theirs.
ReaderType == [at : {"idle", "database", "pipeline", "done"}, database : BOOLEAN, wasUp : SUBSET H!Checked,
               wasDown : SUBSET H!Checked, answer : {"none", "unavailable", "degraded", "ready"}]
ReaderOK(rec) ==
  /\ rec.at # "done" => rec.answer = "none"
  /\ rec.at # "idle" => \A s \in H!Checked : IF up[s] THEN s \in rec.wasUp ELSE s \in rec.wasDown
  /\ rec.at \in {"pipeline", "done"} => IF rec.database THEN "database" \in rec.wasUp ELSE "database" \in rec.wasDown
  /\ rec.answer = "unavailable" => rec.wasDown \cap Required # {}
  /\ rec.answer = "ready" => H!Checked \subseteq rec.wasUp
  /\ rec.answer = "degraded" => rec.wasDown # {} /\ Required \subseteq rec.wasUp
ReaderStill(rec) ==
  flips = 0 =>
    /\ rec.at \in {"pipeline", "done"} => rec.database = up["database"]
    /\ rec.answer # "none" /\ (\E s \in Required : ~up[s]) => rec.answer = "unavailable"

LEMMA ReaderMoves ==
  ASSUME HealthIInv, NEW r \in Readers, NEW rec \in ReaderType, ReaderOK(rec), ReaderStill(rec),
         reader' = [reader EXCEPT ![r] = rec], UNCHANGED <<up, flips, H!monitor>>
  PROVE  HealthIInv'
<1>1. reader \in [Readers -> ReaderType]
  BY DEF HealthIInv, HealthTypes, ReaderType
<1>2. reader'[r] = rec /\ (\A x \in Readers : x # r => reader'[x] = reader[x]) /\ reader' \in [Readers -> ReaderType]
  BY <1>1
<1>3. HealthTypes'
  BY <1>2 DEF HealthIInv, HealthTypes, ReaderType, H!monitor
<1>4. HistoryInv' /\ ProbeInv'
  BY DEF HealthIInv, HistoryInv, ProbeInv, ProbedBy, H!monitor
<1>5. StillInv'
  BY <1>2 DEF HealthIInv, StillInv, Seen, ReaderStill, H!monitor
<1>6. ReaderInv'
  BY <1>2 DEF HealthIInv, ReaderInv, Seen, ReaderOK
<1> QED
  BY <1>3, <1>4, <1>5, <1>6 DEF HealthIInv

LEMMA ReaderIs ==
  ASSUME HealthIInv, NEW r \in Readers
  PROVE  reader[r] \in ReaderType /\ ReaderOK(reader[r]) /\ ReaderStill(reader[r])
BY DEF HealthIInv, HealthTypes, ReaderInv, StillInv, Seen, ReaderType, ReaderOK, ReaderStill

LEMMA AskDatabaseKeeps ==
  ASSUME HealthIInv, NEW r \in Readers, H!AskDatabase(r)
  PROVE  HealthIInv'
<1> DEFINE was == reader[r]
           rec == [was EXCEPT !.at = "database", !.wasUp = H!UpNow, !.wasDown = H!Checked \ H!UpNow]
<1>1. was \in ReaderType /\ ReaderOK(was) /\ was.at = "idle"
  BY ReaderIs DEF H!AskDatabase
<1>2. H!UpNow \in SUBSET H!Checked /\ \A s \in H!Checked : s \in H!UpNow <=> up[s]
  BY DEF H!UpNow
<1>3. reader' = [reader EXCEPT ![r] = rec] /\ UNCHANGED <<up, flips, H!monitor>>
  BY DEF H!AskDatabase
<1> HIDE DEF was
<1>4. /\ rec \in ReaderType /\ rec.at = "database" /\ rec.answer = was.answer /\ rec.wasUp = H!UpNow /\ rec.wasDown = H!Checked \ H!UpNow
  BY <1>1, <1>2 DEF ReaderType
<1> HIDE DEF rec
<1>5. rec.answer = "none"
  BY <1>1, <1>4 DEF ReaderOK
<1>6. ReaderOK(rec) /\ ReaderStill(rec)
  BY <1>2, <1>4, <1>5 DEF ReaderOK, ReaderStill
<1> QED
  BY <1>3, <1>4, <1>6, ReaderMoves

LEMMA DatabaseAnswersKeeps ==
  ASSUME HealthIInv, NEW r \in Readers, H!DatabaseAnswers(r)
  PROVE  HealthIInv'
<1> DEFINE was == reader[r]
           rec == [was EXCEPT !.at = "pipeline", !.database = up["database"]]
<1>1. was \in ReaderType /\ ReaderOK(was) /\ was.at = "database"
  BY ReaderIs DEF H!DatabaseAnswers
<1>2. "database" \in H!Checked /\ up["database"] \in BOOLEAN
  BY DEF HealthIInv, H!Sensible, H!Checked, HealthTypes
<1>3. reader' = [reader EXCEPT ![r] = rec] /\ UNCHANGED <<up, flips, H!monitor>>
  BY DEF H!DatabaseAnswers
<1> HIDE DEF was
<1>4. /\ rec \in ReaderType /\ rec.at = "pipeline" /\ rec.answer = was.answer /\ rec.wasUp = was.wasUp /\ rec.wasDown = was.wasDown
      /\ rec.database = up["database"]
  <2> DEFINE found == up["database"]
  <2>1. found \in BOOLEAN
    BY <1>2
  <2> HIDE DEF found
  <2>2. [was EXCEPT !.at = "pipeline", !.database = found] \in ReaderType
    BY <1>1, <2>1 DEF ReaderType
  <2>3. /\ [was EXCEPT !.at = "pipeline", !.database = found].at = "pipeline"
        /\ [was EXCEPT !.at = "pipeline", !.database = found].answer = was.answer
        /\ [was EXCEPT !.at = "pipeline", !.database = found].wasUp = was.wasUp
        /\ [was EXCEPT !.at = "pipeline", !.database = found].wasDown = was.wasDown
        /\ [was EXCEPT !.at = "pipeline", !.database = found].database = found
    BY <1>1, <2>1 DEF ReaderType
  <2> QED
    BY <2>2, <2>3 DEF found
<1> HIDE DEF rec
<1>5. rec.answer = "none" /\ \A s \in H!Checked : IF up[s] THEN s \in rec.wasUp ELSE s \in rec.wasDown
  BY <1>1, <1>4 DEF ReaderOK
<1>6. IF rec.database THEN "database" \in rec.wasUp ELSE "database" \in rec.wasDown
  BY <1>2, <1>4, <1>5
<1>7. ReaderOK(rec) /\ ReaderStill(rec)
  BY <1>4, <1>5, <1>6 DEF ReaderOK, ReaderStill
<1> QED
  BY <1>3, <1>4, <1>7, ReaderMoves

LEMMA CollectKeeps ==
  ASSUME HealthIInv, NEW r \in Readers, H!Collect(r)
  PROVE  HealthIInv'
<1> DEFINE was == reader[r]
           checks == [s \in H!Checked |->
             CASE s = "database" -> was.database
               [] s = "pipeline" -> up["database"] /\ up["pipeline"]
               [] OTHER -> up[s]]
           answer == H!Aggregated(checks)
           rec == [was EXCEPT !.at = "done", !.answer = answer]
<1>1. was \in ReaderType /\ ReaderOK(was) /\ ReaderStill(was) /\ was.at = "pipeline"
  BY ReaderIs DEF H!Collect
<1>2. "database" \in Required /\ "database" \in H!Checked /\ "pipeline" \notin Required /\ Required \subseteq H!Checked /\ Optional \subseteq H!Checked
  BY DEF HealthIInv, H!Sensible, H!Checked
<1>3. reader' = [reader EXCEPT ![r] = rec] /\ UNCHANGED <<up, flips, H!monitor>>
  BY DEF H!Collect
<1>4. ASSUME NEW s \in H!Checked
      PROVE  /\ s = "database" => checks[s] = was.database
             /\ s = "pipeline" => checks[s] = (up["database"] /\ up["pipeline"])
             /\ s # "database" /\ s # "pipeline" => checks[s] = up[s]
  OBVIOUS
<1> HIDE DEF was, checks
\* A check that failed was down, one that passed was up.
<1>5. ASSUME NEW s \in H!Checked PROVE IF checks[s] THEN s \in was.wasUp ELSE s \in was.wasDown \/ "database" \in was.wasDown
  <2>1. \A x \in H!Checked : IF up[x] THEN x \in was.wasUp ELSE x \in was.wasDown
    BY <1>1 DEF ReaderOK
  <2>2. CASE s = "database"
    BY <1>1, <1>4, <2>2 DEF ReaderOK
  <2>3. CASE s = "pipeline"
    <3>1. checks[s] => up[s]
      BY <1>4, <2>3, Zenon
    <3>2. ~checks[s] => ~up["database"] \/ ~up[s]
      BY <1>4, <2>3, Zenon
    <3> QED
      BY <1>2, <2>1, <3>1, <3>2
  <2>4. CASE s # "database" /\ s # "pipeline"
    BY <1>4, <2>1, <2>4
  <2> QED
    BY <2>2, <2>3, <2>4
<1>6. /\ answer \in {"none", "unavailable", "degraded", "ready"} /\ answer # "none"
      /\ answer = "unavailable" <=> \E s \in Required : ~checks[s]
      /\ answer = "degraded" => \E s \in Optional : ~checks[s]
      /\ answer = "ready" => \A s \in Required \cup Optional : checks[s]
  BY DEF H!Aggregated
<1> HIDE DEF answer
<1>7. /\ rec \in ReaderType /\ rec.at = "done" /\ rec.answer = answer /\ rec.wasUp = was.wasUp /\ rec.wasDown = was.wasDown
      /\ rec.database = was.database
  BY <1>1, <1>6 DEF ReaderType
<1> HIDE DEF rec
<1>8. rec.answer = "unavailable" => rec.wasDown \cap Required # {}
  <2> SUFFICES ASSUME answer = "unavailable" PROVE was.wasDown \cap Required # {}
    BY <1>7
  <2>1. PICK s \in Required : ~checks[s]
    BY <1>6
  <2> QED
    BY <1>2, <1>5, <2>1
<1>9. rec.answer = "ready" => H!Checked \subseteq rec.wasUp
  BY <1>5, <1>6, <1>7 DEF H!Checked
<1>10. rec.answer = "degraded" => rec.wasDown # {} /\ Required \subseteq rec.wasUp
  <2> SUFFICES ASSUME answer = "degraded" PROVE was.wasDown # {} /\ Required \subseteq was.wasUp
    BY <1>7
  <2>1. PICK s \in Optional : ~checks[s]
    BY <1>6
  <2>2. \A x \in Required : checks[x]
    BY <1>6
  <2> QED
    BY <1>2, <1>5, <2>1, <2>2
<1>11. ReaderOK(rec)
  BY <1>1, <1>7, <1>8, <1>9, <1>10 DEF ReaderOK
<1>12. ReaderStill(rec)
  <2>1. ASSUME flips = 0, NEW s \in Required, ~up[s] PROVE answer = "unavailable"
    <3>1. CASE s = "database"
      <4>1. checks[s] = up[s]
        BY <1>1, <1>2, <1>4, <2>1, <3>1 DEF ReaderStill
      <4> QED
        BY <1>6, <2>1, <4>1
    <3>2. CASE s # "database"
      BY <1>2, <1>4, <1>6, <2>1, <3>2
    <3> QED
      BY <3>1, <3>2
  <2> QED
    BY <1>1, <1>7, <2>1 DEF ReaderStill
<1> QED
  BY <1>3, <1>7, <1>11, <1>12, ReaderMoves

-----------------------------------------------------------------------------
LEMMA HealthInitHolds == H!Sensible /\ H!Init => HealthIInv
<1> SUFFICES ASSUME H!Sensible, H!Init PROVE HealthIInv
  OBVIOUS
<1>1. Len(Services) \in Nat \ {0} /\ HistoryMax \in Nat \ {0}
  BY DEF H!Sensible
<1>2. HealthTypes
  BY <1>1 DEF H!Init, HealthTypes, Probed, H!Idle, H!Unasked
<1>3. HistoryInv
  <2>1. <<>> \in Seq(BOOLEAN) /\ Len(<<>>) = 0 /\ HealthEnds(<<>>, 0)
    BY DEF HealthEnds
  <2>2. DOMAIN latest = {} /\ results = [s \in Probed |-> <<>>]
    BY DEF H!Init, Probed
  <2> QED
    BY <1>1, <2>1, <2>2 DEF HistoryInv, HistoryOf
<1>4. ProbeInv
  BY <1>1 DEF H!Init, ProbeInv, ProbedBy, H!Idle
<1>5. StillInv
  BY DEF H!Init, StillInv, Seen, H!Idle, H!Unasked
<1>6. ReaderInv
  BY DEF H!Init, ReaderInv, Seen, H!Unasked
<1> QED
  BY <1>2, <1>3, <1>4, <1>5, <1>6 DEF HealthIInv

LEMMA HealthNextHolds == HealthIInv /\ [H!Next]_H!vars => HealthIInv'
<1> SUFFICES ASSUME HealthIInv, [H!Next]_H!vars PROVE HealthIInv'
  OBVIOUS
<1>1. ASSUME NEW s \in H!ToSet(Services) \cup H!Checked, H!Flip(s) PROVE HealthIInv'
  BY <1>1, FlipKeeps DEF Probed
<1>2. ASSUME NEW c \in Checkers, H!BeginProbe(c) PROVE HealthIInv'
  BY <1>2, BeginProbeKeeps
<1>3. ASSUME NEW c \in Checkers, H!EndProbe(c) PROVE HealthIInv'
  BY <1>3, EndProbeKeeps
<1>4. ASSUME NEW r \in Readers, H!AskDatabase(r) PROVE HealthIInv'
  BY <1>4, AskDatabaseKeeps
<1>5. ASSUME NEW r \in Readers, H!DatabaseAnswers(r) PROVE HealthIInv'
  BY <1>5, DatabaseAnswersKeeps
<1>6. ASSUME NEW r \in Readers, H!Collect(r) PROVE HealthIInv'
  BY <1>6, CollectKeeps
<1>7. CASE UNCHANGED H!vars
  BY <1>7 DEF HealthIInv, HealthTypes, HistoryInv, ProbeInv, ProbedBy, StillInv, ReaderInv, Seen, H!vars, H!monitor
<1> QED
  BY <1>1, <1>2, <1>3, <1>4, <1>5, <1>6, <1>7 DEF H!Next

LEMMA SafeFollows == HealthIInv => H!HealthSafe
<1> SUFFICES ASSUME HealthIInv PROVE H!HealthSafe
  OBVIOUS
<1>1. H!HistoryAgrees
  <2> SUFFICES ASSUME NEW s \in H!ToSet(Services)
      PROVE  /\ s \in DOMAIN latest <=> results[s] # <<>>
             /\ s \in DOMAIN latest =>
                  /\ latest[s].healthy = results[s][Len(results[s])]
                  /\ latest[s].failures >= H!Run(results[s])
                  /\ H!Run(results[s]) < HistoryMax => latest[s].failures = H!Run(results[s])
    BY DEF H!HistoryAgrees
  <2>1. HistoryOf(s, results[s], s \in DOMAIN latest, latest[s])
    BY DEF HealthIInv, HistoryInv, Probed
  <2>2. PICK n \in 0..Len(results[s]) :
          /\ HealthEnds(results[s], n)
          /\ s \in DOMAIN latest => /\ latest[s].healthy = results[s][Len(results[s])]
                                    /\ latest[s].failures >= n /\ (n < HistoryMax => latest[s].failures = n)
    BY <2>1 DEF HistoryOf
  <2>3. H!Run(results[s]) = n
    BY <2>1, <2>2, RunIs DEF HistoryOf
  <2> QED
    BY <2>1, <2>2, <2>3 DEF HistoryOf
<1>2. H!ReadinessHolds
  <2>1. ASSUME flips = 0, NEW r \in Readers, NEW c \in Checkers, checker[c].answer = "unavailable"
        PROVE  reader[r].answer \in {"none", "unavailable"}
    <3>1. \E s \in Required : ~up[s]
      BY <2>1 DEF HealthIInv, StillInv, H!Sensible
    <3> QED
      BY <2>1, <3>1 DEF HealthIInv, StillInv
  <2> QED
    BY <2>1 DEF H!ReadinessHolds, HealthIInv, ReaderInv
<1> QED
  BY <1>1, <1>2 DEF H!HealthSafe

\* However requests and probes overlap, the failures counted of a service are those its
\* history ends with and its latest result the last of them, and a readiness that is given
\* rests on a state that each check was in while it was asked.
THEOREM HealthIsSafe == H!Sensible /\ H!Spec => []H!HealthSafe
<1>1. H!Sensible /\ H!Spec => []HealthIInv
  BY HealthInitHolds, HealthNextHolds, PTL DEF H!Spec
<1> QED
  BY <1>1, SafeFollows, PTL

\* A request is told of the system only when each service has been probed since it began,
\* by itself or by another request.
THEOREM AnswersAreFresh == H!Sensible /\ H!Spec => [][H!FreshStep]_H!vars
<1>1. H!Sensible /\ H!Spec => []HealthIInv
  BY HealthInitHolds, HealthNextHolds, PTL DEF H!Spec
<1>2. HealthIInv /\ HealthIInv' /\ [H!Next]_H!vars => [H!FreshStep]_H!vars
  BY EndProbeIsFresh DEF H!FreshStep, Probed
<1> QED
  BY <1>1, <1>2, PTL DEF H!Spec
================================================================================
