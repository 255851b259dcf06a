----------------------------- MODULE JobOutcome ------------------------------
(***************************************************************************)
(* What a pipeline job promises to the outside: an accepted job works off  *)
(* its stages one after the other and gets one verdict, which never        *)
(* changes while the process lives. How cancels, audit writes and table    *)
(* writes interleave is PipelineJobs' business.                            *)
(***************************************************************************)
EXTENDS Naturals

CONSTANTS Jobs, MaxStages

VARIABLES
  total,   \* stages the accepted job has to work off
  done,    \* stages worked off
  verdict  \* "none" before the job is accepted, "pending" while it is open

vars == <<total, done, verdict>>

Init ==
  /\ total = [j \in Jobs |-> 0]
  /\ done = [j \in Jobs |-> 0]
  /\ verdict = [j \in Jobs |-> "none"]

Accept(j, n) ==
  /\ verdict[j] = "none"
  /\ verdict' = [verdict EXCEPT ![j] = "pending"]
  /\ total' = [total EXCEPT ![j] = n]
  /\ UNCHANGED done

Advance(j) ==
  /\ verdict[j] = "pending"
  /\ done[j] < total[j]
  /\ done' = [done EXCEPT ![j] = @ + 1]
  /\ UNCHANGED <<total, verdict>>

\* completed: nothing left to do; failed: at one of the stages; stopped: by a
\* cancel, before any stage; abandoned: at any time, by an internal error.
Decide(j, v) ==
  /\ verdict[j] = "pending"
  /\ CASE v = "completed" -> done[j] = total[j]
       [] v = "failed"    -> done[j] < total[j]
       [] v = "stopped"   -> done[j] = 0
       [] v = "abandoned" -> TRUE
  /\ verdict' = [verdict EXCEPT ![j] = v]
  /\ UNCHANGED <<total, done>>

\* The process dies: every accepted job is gone.
Lose ==
  /\ verdict' = [j \in Jobs |-> IF verdict[j] = "none" THEN "none" ELSE "lost"]
  /\ done' = [j \in Jobs |-> 0]
  /\ UNCHANGED total

Next ==
  \/ \E j \in Jobs : \/ \E n \in 1..MaxStages : Accept(j, n)
                     \/ Advance(j)
                     \/ \E v \in {"completed", "failed", "stopped", "abandoned"} :
                          Decide(j, v)
  \/ Lose

Spec == Init /\ [][Next]_vars
==============================================================================
