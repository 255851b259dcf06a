---------------------------- MODULE ParsingOutcome ----------------------------
(***************************************************************************)
(* What the parsing stage promises of a job: the parsers of its plan are   *)
(* decided one after the other and each once, what the client is shown     *)
(* counts the decisions as they fall, and the stage hands on what those    *)
(* that answered had found when they were decided. Threads that are given  *)
(* up and return late are Parsing's business.                              *)
(***************************************************************************)
EXTENDS Naturals, Sequences

CONSTANTS Jobs, MaxParsers, MaxArtefacts

VARIABLES
  planned, \* parsers of the job
  decided, \* per parser decided, in order, whether it answered and how much it found
  verdict, \* "running" until all are decided
  handed,  \* what the stage hands on: [parser, number]
  shown    \* what the client sees: parsers done and artefacts found

vars == <<planned, decided, verdict, handed, shown>>

Answers == [ok : {TRUE}, found : 0..MaxArtefacts] \cup {[ok |-> FALSE, found |-> 0]}
FoundBy(n, answer) == {[parser |-> n, number |-> k] : k \in 1..answer.found}

Init ==
  /\ planned \in [Jobs -> 0..MaxParsers]
  /\ decided = [j \in Jobs |-> <<>>] /\ verdict = [j \in Jobs |-> "running"]
  /\ handed = [j \in Jobs |-> {}] /\ shown = [j \in Jobs |-> [done |-> 0, found |-> 0]]

\* The next parser answers, or fails, or is out of time: once and for all.
Decide(j) ==
  /\ verdict[j] = "running" /\ Len(decided[j]) < planned[j]
  /\ \E answer \in Answers :
       /\ decided' = [decided EXCEPT ![j] = Append(@, answer)]
       /\ shown' = [shown EXCEPT ![j] = [done |-> @.done + 1, found |-> @.found + answer.found]]
  /\ UNCHANGED <<planned, verdict, handed>>

\* The stage fails only when no parser answered.
Conclude(j) ==
  /\ verdict[j] = "running" /\ Len(decided[j]) = planned[j]
  /\ verdict' = [verdict EXCEPT ![j] = IF \E n \in DOMAIN decided[j] : decided[j][n].ok THEN "completed" ELSE "failed"]
  /\ handed' = [handed EXCEPT ![j] = UNION {FoundBy(n, decided[j][n]) : n \in DOMAIN decided[j]}]
  /\ UNCHANGED <<planned, decided, shown>>

Next == \E j \in Jobs : Decide(j) \/ Conclude(j)
Spec == Init /\ [][Next]_vars
===============================================================================
