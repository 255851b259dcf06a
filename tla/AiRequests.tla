------------------------------ MODULE AiRequests ------------------------------
(***************************************************************************)
(* The requests of /ai (api/routes/ai.py) as LocalLLMClient serves them:   *)
(* the health answer it keeps, the caches of explanations and answers, the *)
(* counters of AIMonitor, the telemetry row of each request, and the       *)
(* artefact set that a classification reads, and writes back much later,   *)
(* while AnalysisService may store another parse of the same evidence.     *)
(*                                                                         *)
(* What the model makes of the artefacts is module AiAnalysis; here it     *)
(* gives a level, and says something only while the server is up. A set is *)
(* known by its parse and the level its artefacts carry. The monitor's     *)
(* audit port does nothing (container.py:864), so its calls cannot fail.   *)
(***************************************************************************)
EXTENDS Integers, FiniteSets

CONSTANTS
  Evidence,
  Calls,      \* requests
  Work,       \* call |-> [kind, evidence]
  Levels,     \* levels the model may give; Unranked is among them
  Unranked,   \* the level a parse leaves: informational
  FreshFor,   \* _HEALTH_CACHE_SECONDS, in ticks
  MaxFlips, MaxParses, MaxFaults   \* bounds

VARIABLES
  up,       \* whether the model server answers
  sinceDown, \* history: ticks since it last did not, at most FreshFor
  flips, faults,
  health,   \* [known, ok, age]: the health answer kept
  stored,   \* evidence |-> [parse, level, by]; by is history: the classification that saved it
  parses,   \* evidence |-> number of parses stored so far
  answers,  \* the two in-memory caches: those who asked, with what they were told
  usage,    \* AIMonitor: [requests, open, flagged, scored]
  rows,     \* ai_analysis_records: [call, kind, sure]
  call      \* call |-> [pc, read, level, said, told, since]; told and since are
            \* history: what the answer was made from, sinceDown when it was refused

env == <<up, sinceDown, flips>>
vars == <<up, sinceDown, flips, faults, health, stored, parses, answers, usage, rows, call>>

AskKinds == {"classify", "summarize", "explain", "ask"}
Sensible ==
  /\ IsFiniteSet(Calls) /\ Work \in [Calls -> [kind : AskKinds, evidence : Evidence]]
  /\ Unranked \in Levels /\ FreshFor \in Nat \ {0}

Kind(c) == Work[c].kind
Item(c) == Work[c].evidence
Waiting == [pc |-> "idle", read |-> [parse |-> 0, level |-> Unranked], level |-> Unranked,
            said |-> FALSE, told |-> [parse |-> 0, level |-> Unranked], since |-> 0]
Init ==
  /\ up \in BOOLEAN /\ sinceDown = (IF up THEN FreshFor ELSE 0) /\ flips = 0 /\ faults = 0
  /\ health = [known |-> FALSE, ok |-> FALSE, age |-> 0]
  /\ stored = [e \in Evidence |-> [parse |-> 0, level |-> Unranked, by |-> {}]]
  /\ parses = [e \in Evidence |-> 0] /\ answers = {} /\ rows = {}
  /\ usage = [requests |-> {}, open |-> {}, flagged |-> 0, scored |-> 0]
  /\ call = [c \in Calls |-> Waiting]

Older(n) == IF n < FreshFor THEN n + 1 ELSE n
Tick ==
  /\ sinceDown' = (IF up THEN Older(sinceDown) ELSE 0) /\ health' = [health EXCEPT !.age = IF health.known THEN Older(@) ELSE @]
  /\ UNCHANGED <<up, flips, faults, stored, parses, answers, usage, rows, call>>
Flip ==
  /\ flips < MaxFlips /\ flips' = flips + 1 /\ up' = ~up /\ sinceDown' = 0
  /\ UNCHANGED <<faults, health, stored, parses, answers, usage, rows, call>>

\* AnalysisService stores what a job of the pipeline parsed: the rows of the evidence are
\* deleted and the new ones inserted in one transaction.
Parse(e) ==
  /\ parses[e] < MaxParses /\ parses' = [parses EXCEPT ![e] = @ + 1]
  /\ stored' = [stored EXCEPT ![e] = [parse |-> parses'[e], level |-> Unranked, by |-> {}]]
  /\ UNCHANGED <<env, faults, health, answers, usage, rows, call>>
-----------------------------------------------------------------------------
(* LocalLLMClient.is_available: no other coroutine runs while it asks      *)

Fresh == health.known /\ health.age < FreshFor
Available == IF Fresh THEN health.ok ELSE up
Probed == IF Fresh THEN health ELSE [known |-> TRUE, ok |-> up, age |-> 0]

-----------------------------------------------------------------------------
(* A request                                                               *)

To(c, pc) == [call EXCEPT ![c].pc = pc]

\* _require_artefact_set, get_by_artefact_id
Load(c) ==
  /\ call[c].pc = "idle"
  /\ LET s == stored[Item(c)] IN
       call' = IF s.parse = 0 THEN To(c, "unknown")
               ELSE [To(c, "loaded") EXCEPT ![c].read = [parse |-> s.parse, level |-> s.level]]
  /\ UNCHANGED <<env, faults, health, stored, parses, answers, usage, rows>>

\* The key of a cached answer: the artefact with its level, or the question on a context.
KeyOf(c) == [kind |-> Kind(c), evidence |-> Item(c), read |-> call[c].read]
Cached(c) ==
  {a \in answers : [kind |-> a.kind, evidence |-> a.evidence, read |-> a.read] = KeyOf(c)}

\* A request with use_fallback: the rules answer, at once.
ByRules(c) ==
  /\ call[c].pc = "loaded" /\ Kind(c) \in {"classify", "summarize"}
  /\ \E l \in Levels : call' = [To(c, "answered") EXCEPT ![c].level = l, ![c].said = TRUE, ![c].told = call[c].read]
  /\ UNCHANGED <<env, faults, health, stored, parses, answers, usage, rows>>

\* AIMonitor: log_llm_request; what it is told when the answer is there.
Opened(c) == [usage EXCEPT !.requests = @ \cup {c}, !.open = @ \cup {c}]
Closed(c, flagged) == [usage EXCEPT !.open = @ \ {c}, !.flagged = @ + flagged, !.scored = @ + 1]

\* Whether the text is the model's, or the one that says the model is unavailable.
Said == up
\* Either is kept, for as long as the process lives.
Remembered(c) ==
  {a \in answers : a \notin Cached(c)} \cup
    {[kind |-> Kind(c), evidence |-> Item(c), read |-> call[c].read, said |-> Said]}

\* classify and summarize open a request with the monitor, explain only asks whether the
\* server is there, ask does not even do that.
Ask(c) ==
  /\ call[c].pc = "loaded"
  /\ IF Kind(c) = "ask" THEN UNCHANGED health ELSE health' = Probed
  /\ IF Kind(c) # "ask" /\ ~Available
     THEN call' = [To(c, "refused") EXCEPT ![c].since = sinceDown] /\ UNCHANGED usage
     ELSE IF Kind(c) \in {"explain", "ask"} /\ Cached(c) # {}
     THEN /\ \E a \in Cached(c) : call' = [To(c, "answered") EXCEPT ![c].said = a.said, ![c].told = a.read]
          /\ UNCHANGED usage
     ELSE /\ call' = To(c, "asked")
          /\ usage' = IF Kind(c) \in {"explain", "ask"} THEN usage ELSE Opened(c)
  /\ UNCHANGED <<env, faults, stored, parses, answers, rows>>

\* The model answers, or every failure of the server is turned into a text that says so
\* (explainer, assistant, summarizer) or a lowest level (classifier): no error leaves here.
\* The monitor counts the request as a success either way.
Answer(c) ==
  /\ call[c].pc = "asked"
  /\ \E l \in IF up /\ Kind(c) = "classify" THEN Levels ELSE {Unranked} :
       call' = [To(c, "answered") EXCEPT ![c].level = l, ![c].said = Said, ![c].told = call[c].read]
  /\ IF Kind(c) \in {"explain", "ask"}
     THEN answers' = Remembered(c) /\ UNCHANGED usage
     ELSE UNCHANGED answers /\ \E flagged \in {0, 1} : (flagged = 1 => up) /\ usage' = Closed(c, flagged)
  /\ UNCHANGED <<env, faults, health, stored, parses, rows>>

\* A write of the database commits or raises.
Commits == faults' = faults
Raises(c) == faults < MaxFaults /\ faults' = faults + 1 /\ call' = To(c, "failed")

\* explanation.confidence; the other rows carry a score of their own.
Sure(c) == Kind(c) = "explain" /\ call[c].said
Persist(c) ==
  /\ call[c].pc = "answered"
  /\ \/ /\ Commits /\ rows' = rows \cup {[call |-> c, kind |-> Kind(c), sure |-> Sure(c)]}
        /\ call' = To(c, IF Kind(c) = "classify" THEN "recorded" ELSE "done")
     \/ Raises(c) /\ UNCHANGED rows
  /\ UNCHANGED <<env, health, stored, parses, answers, usage>>

\* classify writes back the set it read, ranked, over whatever is stored by now.
SaveRanked(c) ==
  /\ call[c].pc = "recorded"
  /\ \/ /\ Commits /\ call' = To(c, "done")
        /\ stored' = [stored EXCEPT ![Item(c)] = [parse |-> call[c].read.parse, level |-> call[c].level, by |-> {c}]]
     \/ Raises(c) /\ UNCHANGED stored
  /\ UNCHANGED <<env, health, parses, answers, usage, rows>>

Next ==
  \/ Tick \/ Flip
  \/ \E e \in Evidence : Parse(e)
  \/ \E c \in Calls : Load(c) \/ ByRules(c) \/ Ask(c) \/ Answer(c) \/ Persist(c) \/ SaveRanked(c)
Spec == Init /\ [][Next]_vars
-----------------------------------------------------------------------------
Settled(c) == call[c].pc \in {"done", "failed", "refused", "unknown"}

\* A request is turned away only if the server was down a moment ago: an outage is not held
\* against it for longer than a health answer is kept.
RefusalsAreRecent == \A c \in Calls : call[c].pc = "refused" => call[c].since < FreshFor

\* What a caller is told was made from the artefacts it read, at the level they had then,
\* whoever asked first and whatever was stored in between.
ToldOfTheSame ==
  \A c \in Calls : call[c].pc \in {"answered", "recorded", "done"} => call[c].told = call[c].read

\* Every ranking that is stored has its telemetry row, and every request answered to its
\* caller has exactly one; a request without an answer has none, but for a classification
\* whose ranking could not be saved.
RowsMatchAnswers ==
  /\ \A e \in Evidence : \A c \in stored[e].by : \E r \in rows : r.call = c
  /\ \A c \in Calls :
       LET mine == {r \in rows : r.call = c} IN
       /\ call[c].pc = "done" => Cardinality(mine) = 1
       /\ call[c].pc \in {"idle", "loaded", "asked", "answered", "refused", "unknown"} => mine = {}
       /\ call[c].pc = "failed" /\ mine # {} => Kind(c) = "classify"

\* The monitor's open requests are those under way, so nothing that ended, well or badly,
\* is counted as open for ever; the counts agree.
UsageAgrees ==
  /\ usage.open = {c \in usage.requests : call[c].pc = "asked"}
  /\ usage.scored = Cardinality(usage.requests \ usage.open)
  /\ usage.flagged <= usage.scored

\* A newer parse gives way only to a classification that had read an older one.
OnlyLateRankingsReplace ==
  \A e \in Evidence : stored[e].parse < parses[e] =>
    \E c \in stored[e].by : call[c].read.parse = stored[e].parse

AiRequestsSafe == RefusalsAreRecent /\ ToldOfTheSame /\ RowsMatchAnswers /\ UsageAgrees /\ OnlyLateRankingsReplace
=============================================================================
