------------------------------- MODULE Runtime --------------------------------
(***************************************************************************)
(* The background tasks and their shutdown: BackgroundTaskManager,         *)
(* ShutdownHandler (src/src/dfat/runtime/), the lifespan of app.py and the *)
(* restart request of api/routes/system.py.                                *)
(*                                                                         *)
(* One asyncio loop runs everything; an action is what happens between two *)
(* awaits. A loop is one asyncio.Task of _run_loop. Task.cancel() only     *)
(* asks: the loop ends at its next step, after its coroutine has cleaned   *)
(* up. wait_for(gather(...)) cancels a second time when it expires and     *)
(* still returns only when every loop it gathers has ended, so its timeout *)
(* changes no state. The container makes a ShutdownHandler per request     *)
(* (providers.Factory), so the one of the signals and the one at the end   *)
(* of the lifespan have a _shutting_down flag each.                        *)
(***************************************************************************)
EXTENDS Naturals, FiniteSets

CONSTANTS
  Names,     \* the registered tasks
  Restarts,  \* the restart requests, and the task each names
  TaskOf,
  Jobs,      \* pipeline jobs that may be submitted
  Loops,     \* bound: how many asyncio tasks are ever created
  NoLoop

Handlers == {"signal", "lifespan"}

\* Every restart names a task, and there are loops for a first one of each.
Sensible ==
  /\ TaskOf \in [Restarts -> Names] /\ NoLoop \notin Loops /\ Names # {}
  /\ \E f \in [Names -> Loops] : \A m, n \in Names : m # n => f[m] # f[n]

VARIABLES
  stopEvent,  \* _stop_event
  tracked,    \* _async_tasks: name -> loop, or NoLoop
  loop,       \* every loop created: its task, where it is, cancelled or not
  isRunning,  \* TaskStatus.is_running, one per task
  restart,    \* per request: where it is and the loop it awaits
  shut,       \* per ShutdownHandler: where it is, the loops stop_all gathers,
              \* and whether its wait for jobs expired
  job,        \* JobStatus of every pipeline job ("none": not submitted)
  engine,     \* history: handlers that disposed of the pool, and under which jobs
  overlapped  \* history: tasks for which two restarts waited for one loop

vars == <<stopEvent, tracked, loop, isRunning, restart, shut, job, engine, overlapped>>
tasks == <<stopEvent, tracked, loop, isRunning, restart, overlapped>>

LoopPCs    == {"none", "new", "work", "sleep", "done"}
RestartPCs == {"idle", "waiting", "done", "refused"}
ShutPCs    == {"idle", "announced", "stopping", "draining", "flushing", "flushed", "done", "raised"}
JobStatuses == {"none", "QUEUED", "INITIALISING", "RUNNING", "STAGE_COMPLETE", "ended"}

\* _ACTIVE_JOB_STATUSES.
Active == {"QUEUED", "INITIALISING", "RUNNING", "STAGE_COMPLETE"}
ActiveJobs == {j \in Jobs : job[j] \in Active}

In(l, where) == loop[l].pc = where
Live(l)      == loop[l].pc \in {"new", "work", "sleep"}
Busy(l)      == loop[l].pc \in {"work", "sleep"}
Stop(l)      == [loop[l] EXCEPT !.cancelled = TRUE]
Free         == {l \in Loops : In(l, "none")}
Fresh        == CHOOSE l \in Loops : In(l, "none")
New(n)       == [name |-> n, pc |-> "new", cancelled |-> FALSE]

Tracked == {tracked[n] : n \in Names} \ {NoLoop}

\* start_all, called once by the lifespan before anything else can run.
FirstLoops == {f \in [Names -> Loops] : \A m, n \in Names : m # n => f[m] # f[n]}
Init ==
  /\ stopEvent = FALSE
  /\ tracked \in {CHOOSE f \in FirstLoops : TRUE}
  /\ loop = [l \in Loops |-> IF \E n \in Names : tracked[n] = l
                             THEN New(CHOOSE n \in Names : tracked[n] = l)
                             ELSE [New(CHOOSE n \in Names : TRUE) EXCEPT !.pc = "none"]]
  /\ isRunning = [n \in Names |-> FALSE]
  /\ restart = [r \in Restarts |-> [pc |-> "idle", on |-> NoLoop]]
  /\ shut = [h \in Handlers |-> [pc |-> "idle", on |-> {}, expired |-> FALSE]]
  /\ job = [j \in Jobs |-> "none"]
  /\ engine = [by |-> {}, under |-> {}]
  /\ overlapped = {}

-----------------------------------------------------------------------------
(* _run_loop                                                               *)

\* A loop that is cancelled before its first step never enters the body.
LoopNeverRuns(l) ==
  /\ In(l, "new") /\ loop[l].cancelled
  /\ loop' = [loop EXCEPT ![l].pc = "done"]
  /\ UNCHANGED isRunning

\* is_running is set, and cleared by "finally" at once if the event is set.
LoopStarts(l) ==
  /\ In(l, "new") /\ ~loop[l].cancelled
  /\ loop' = [loop EXCEPT ![l].pc = IF stopEvent THEN "done" ELSE "work"]
  /\ isRunning' = [isRunning EXCEPT ![loop[l].name] = ~stopEvent]

\* The coroutine returned or raised: errors are counted, the loop goes on.
LoopSleeps(l) ==
  /\ In(l, "work") /\ ~loop[l].cancelled /\ ~stopEvent
  /\ loop' = [loop EXCEPT ![l].pc = "sleep"]
  /\ UNCHANGED isRunning

\* The interval is over.
LoopWakes(l) ==
  /\ In(l, "sleep") /\ ~loop[l].cancelled /\ ~stopEvent
  /\ loop' = [loop EXCEPT ![l].pc = "work"]
  /\ UNCHANGED isRunning

\* The loop sees the event or the cancellation; "finally" clears the status.
LoopEnds(l) ==
  /\ Busy(l) /\ (loop[l].cancelled \/ stopEvent)
  /\ loop' = [loop EXCEPT ![l].pc = "done"]
  /\ isRunning' = [isRunning EXCEPT ![loop[l].name] = FALSE]

LoopStep(l) ==
  /\ LoopNeverRuns(l) \/ LoopStarts(l) \/ LoopSleeps(l) \/ LoopWakes(l) \/ LoopEnds(l)
  /\ UNCHANGED <<stopEvent, tracked, restart, shut, job, engine, overlapped>>

-----------------------------------------------------------------------------
(* restart_task                                                            *)

\* The request is refused during shutdown; else the loop it found is cancelled.
RestartCall(r) ==
  LET found == tracked[TaskOf[r]] IN
  /\ restart[r].pc = "idle"
  /\ \/ stopEvent
        /\ restart' = [restart EXCEPT ![r].pc = "refused"]
        /\ UNCHANGED <<loop, overlapped>>
     \/ ~stopEvent /\ found # NoLoop
        /\ restart' = [restart EXCEPT ![r] = [pc |-> "waiting", on |-> found]]
        /\ loop' = [loop EXCEPT ![found] = Stop(found)]
        /\ overlapped' = overlapped \cup
             {TaskOf[q] : q \in {p \in Restarts : restart[p] = [pc |-> "waiting", on |-> found]}}
  /\ UNCHANGED <<stopEvent, tracked, isRunning, shut, job, engine>>

\* After the await the dictionary entry is replaced, whatever it is by now, and
\* the stop event is not looked at again.
BadMayCreate(r) == restart[r].pc = "waiting"
MayCreate(r) == restart[r].pc = "waiting" /\ In(restart[r].on, "done")
RestartCreate(r) ==
  /\ MayCreate(r)
  /\ Free # {}
  /\ loop' = [loop EXCEPT ![Fresh] = New(TaskOf[r])]
  /\ tracked' = [tracked EXCEPT ![TaskOf[r]] = Fresh]
  /\ isRunning' = [isRunning EXCEPT ![TaskOf[r]] = FALSE]
  /\ restart' = [restart EXCEPT ![r].pc = "done"]
  /\ UNCHANGED <<stopEvent, shut, job, engine, overlapped>>

-----------------------------------------------------------------------------
(* ShutdownHandler.shutdown                                                *)

Goto(h, where) == shut' = [shut EXCEPT ![h].pc = where]

\* A second signal, or a handler that has begun, returns at once. The audit
\* entry is written, or its failure logged.
ShutdownCall(h) ==
  /\ shut[h].pc = "idle"
  /\ Goto(h, "announced")
  /\ UNCHANGED <<tasks, job, engine>>

\* stop_all: nothing to do without loops; else cancel those in the dictionary.
StopAll(h) ==
  /\ shut[h].pc = "announced"
  /\ \/ /\ Tracked = {}
        /\ Goto(h, "draining")
        /\ UNCHANGED <<stopEvent, loop>>
     \/ /\ Tracked # {}
        /\ stopEvent' = TRUE
        /\ shut' = [shut EXCEPT ![h].pc = "stopping", ![h].on = Tracked]
        /\ loop' = [l \in Loops |-> IF l \in Tracked THEN Stop(l) ELSE loop[l]]
  /\ UNCHANGED <<tracked, isRunning, restart, overlapped, job, engine>>

\* The gathered loops have ended: statuses are reset, the dictionary cleared.
Cleared == [n \in Names |-> NoLoop]
Stopped(h) ==
  /\ shut[h].pc = "stopping" /\ \A l \in shut[h].on : In(l, "done")
  /\ isRunning' = [n \in Names |-> FALSE]
  /\ tracked' = Cleared
  /\ Goto(h, "draining")
  /\ UNCHANGED <<stopEvent, loop, restart, overlapped, job, engine>>

\* _wait_for_active_pipeline_jobs: a poll that finds no active job, or the
\* last one before the deadline.
Drained(h) ==
  /\ shut[h].pc = "draining" /\ ActiveJobs = {}
  /\ Goto(h, "flushing")
  /\ UNCHANGED <<tasks, job, engine>>

DrainExpires(h) ==
  /\ shut[h].pc = "draining" /\ ActiveJobs # {}
  /\ shut' = [shut EXCEPT ![h].pc = "flushing", ![h].expired = TRUE]
  /\ UNCHANGED <<tasks, job, engine>>

\* AuditService.flush; an OSError leaves shutdown() before the dispose.
FlushAudit(h) ==
  /\ shut[h].pc = "flushing"
  /\ Goto(h, "flushed") \/ Goto(h, "raised")
  /\ UNCHANGED <<tasks, job, engine>>

\* dispose() of the pool and the last audit entry; failures are logged.
Dispose(h) ==
  /\ shut[h].pc = "flushed"
  /\ engine' = [by |-> engine.by \cup {h},
                under |-> IF engine.by = {} THEN ActiveJobs ELSE engine.under]
  /\ Goto(h, "done")
  /\ UNCHANGED <<tasks, job>>

-----------------------------------------------------------------------------
(* Pipeline jobs, as far as the shutdown sees them                         *)

\* Jobs are submitted while requests are served: until the lifespan ends, and
\* so also after a signal.
JobSubmitted(j) ==
  /\ job[j] = "none" /\ shut["lifespan"].pc = "idle"
  /\ job' = [job EXCEPT ![j] = "QUEUED"]
  /\ UNCHANGED <<tasks, shut, engine>>

JobMoves(j) ==
  /\ \/ job[j] = "QUEUED"         /\ job' = [job EXCEPT ![j] = "INITIALISING"]
     \/ job[j] = "INITIALISING"   /\ job' = [job EXCEPT ![j] = "RUNNING"]
     \/ job[j] = "RUNNING"        /\ job' = [job EXCEPT ![j] = "STAGE_COMPLETE"]
     \/ job[j] = "STAGE_COMPLETE" /\ job' = [job EXCEPT ![j] = "RUNNING"]
     \/ job[j] \in Active         /\ job' = [job EXCEPT ![j] = "ended"]
  /\ UNCHANGED <<tasks, shut, engine>>

ShutStep(h) ==
  StopAll(h) \/ Stopped(h) \/ Drained(h) \/ DrainExpires(h) \/ FlushAudit(h) \/ Dispose(h)

Next ==
  \/ \E l \in Loops : LoopStep(l)
  \/ \E r \in Restarts : RestartCall(r) \/ RestartCreate(r)
  \/ \E h \in Handlers : ShutdownCall(h) \/ ShutStep(h)
  \/ \E j \in Jobs : JobSubmitted(j) \/ JobMoves(j)

\* The event loop runs what is ready: loops and handlers go on. Nothing obliges
\* a request, a signal or a job.
Fairness ==
  /\ \A l \in Loops : WF_vars(LoopStep(l))
  /\ \A r \in Restarts : WF_vars(RestartCreate(r))
  /\ \A h \in Handlers : WF_vars(ShutStep(h))

Spec == Init /\ [][Next]_vars
FairSpec == Spec /\ Fairness

-----------------------------------------------------------------------------
\* Every variable has its type.
TypeOK ==
  /\ stopEvent \in BOOLEAN
  /\ tracked \in [Names -> Loops \cup {NoLoop}]
  /\ loop \in [Loops -> [name : Names, pc : LoopPCs, cancelled : BOOLEAN]]
  /\ isRunning \in [Names -> BOOLEAN]
  /\ restart \in [Restarts -> [pc : RestartPCs, on : Loops \cup {NoLoop}]]
  /\ shut \in [Handlers -> [pc : ShutPCs, on : SUBSET Loops, expired : BOOLEAN]]
  /\ job \in [Jobs -> JobStatuses]
  /\ engine \in [by : SUBSET Handlers, under : SUBSET Jobs]
  /\ overlapped \subseteq Names

RunningMeansLoop ==
  \A n \in Names : isRunning[n] => \E l \in Loops : Busy(l) /\ loop[l].name = n

StoppedMeansNoLoop ==
  \A l \in Loops : Busy(l) => isRunning[loop[l].name] \/ loop[l].name \in overlapped

\* What GET /system/tasks shows: a task that is shown as running has a loop that
\* runs, and one shown as stopped has none, unless restarts overlapped (the loop
\* that ends then clears the status of the one that goes on).
StatusTruthful == RunningMeansLoop /\ StoppedMeansNoLoop

TwiceNeedsOverlap ==
  \A k, l \in Loops :
    k # l /\ Live(k) /\ Live(l) /\ loop[k].name = loop[l].name
      => loop[k].name \in overlapped

QuietAfterStopAll ==
  \A h \in Handlers :
    shut[h].pc \in {"draining", "flushing", "flushed", "done", "raised"} =>
      \A l \in Loops : Busy(l) => loop[l].name \in overlapped

\* A task has two loops only after two restarts waited for the same one
\* (restart_task replaces whatever the dictionary holds after its await), and
\* past stop_all no loop runs except one that was lost that way.
LoopsAccounted == TwiceNeedsOverlap /\ QuietAfterStopAll

\* The pool is disposed of under a running job only when the wait for jobs
\* expired, or by the signal's shutdown, during which jobs are still accepted.
DisposedUnderJob ==
  engine.under # {} => "signal" \in engine.by \/ \E h \in engine.by : shut[h].expired

\* No handler is on its way, and after the stop event no loop.
AtRest ==
  /\ \A h \in Handlers : shut[h].pc \in {"idle", "done", "raised"}
  /\ stopEvent => \A l \in Loops : ~Live(l)

\* A shutdown that has begun ends, and after the stop event so does every loop,
\* those nobody tracks included: handlers wait only for loops that were asked to
\* stop and for jobs until the deadline.
ShutdownEnds == <>[]AtRest
===============================================================================
