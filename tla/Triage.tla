-------------------------------- MODULE Triage --------------------------------
(***************************************************************************)
(* The triage stage (pipeline/stages/triage_stage.py) and what it calls:   *)
(* the processing of artefacts (forensic_engine/processing), scores and    *)
(* rules (forensic_engine/triage), the choice between the model and the    *)
(* fallback, and the summary. Scores are in hundredths, times in units of  *)
(* the window. What the raw data of an artefact says is a set of flags;    *)
(* "slash" is what separates its path, since the rules look for it.        *)
(***************************************************************************)
EXTENDS Integers, Sequences, FiniteSets, SequencesExt

CONSTANTS
  Inputs,        \* sequences of artefacts [id, cat, flags, slash, pid, path, times]
  Settings,      \* records of the switches: correlation, timeline, iocs, fallback
  Window,        \* width of a window of the timeline
  Proximity,     \* _TEMPORAL_WINDOW
  TopLimit,      \* critical artefacts in a summary
  FindingsLimit  \* findings in a summary

VARIABLES
  pc, settings,
  input,    \* the artefacts of the parsing stage
  current,  \* the artefacts as processed
  links,    \* edges of the relationship map
  iocs,     \* per id, the confidences of its matches, as a sequence
  ranked,   \* of the rules: sequence of [id, level, score]
  final,    \* what the stage hands on
  source    \* triage_source

vars == <<pc, settings, input, current, links, iocs, ranked, final, source>>

Init ==
  /\ pc = "ready" /\ input \in Inputs /\ settings \in Settings
  /\ current = <<>> /\ links = {} /\ iocs = <<>> /\ ranked = <<>> /\ final = <<>> /\ source = "none"

Least(a, b) == IF a < b THEN a ELSE b
Apart(m, n) == IF m > n THEN m - n ELSE n - m
\* S in a row, each at the place that has those before it in front.
InLine(S, before) ==
  [n \in 1..Cardinality(S) |-> CHOOSE x \in S : Cardinality({y \in S : <<y, x>> \in before}) = n - 1]

-----------------------------------------------------------------------------
(* Processing                                                              *)

\* categorise only adds metadata, which nothing here reads: the category of an
\* artefact stays what its parser said.
Categorise(artefacts) == artefacts

\* Paths and keys get forward slashes; a command line only when it begins like a
\* path ("quoted" ones do not).
Standardise(artefacts) ==
  [n \in DOMAIN artefacts |->
     IF artefacts[n].cat = "process" /\ "quoted" \in artefacts[n].flags
     THEN artefacts[n] ELSE [artefacts[n] EXCEPT !.slash = "/"]]

\* The hash takes the category and the raw data, not the id.
Content(a) == [a EXCEPT !.id = 0]
Keep(kept, a) ==
  IF \E n \in DOMAIN kept : Content(kept[n]) = Content(a) THEN kept ELSE Append(kept, a)
Deduplicate(artefacts) ==
  LET kept[n \in 0..Len(artefacts)] == IF n = 0 THEN <<>> ELSE Keep(kept[n - 1], artefacts[n])
  IN kept[Len(artefacts)]

\* The pairs of categories that are compared, and by what.
LinkedBy(a, b) ==
  \/ a.cat = "process" /\ b.cat \in {"network", "injected"} /\ a.pid = b.pid /\ a.pid # 0
  \/ a.cat = "event" /\ b.cat = "process" /\ ((a.pid = b.pid /\ a.pid # 0) \/ (a.path = b.path /\ a.path # ""))
  \/ a.cat = "registry" /\ b.cat = "file" /\ a.path = b.path /\ a.path # ""
Correlate(artefacts) ==
  {{p[1].id, p[2].id} : p \in {q \in ToSet(artefacts) \X ToSet(artefacts) : LinkedBy(q[1], q[2])}}

Ids(seq) == {seq[n].id : n \in DOMAIN seq}
Degree(id) == Cardinality({e \in links : id \in e})

\* Clusters: breadth first from the smallest id not yet seen.
Reached(seen, edges) == seen \cup UNION {e \in edges : e \cap seen # {}}
Clusters(edges) ==
  LET spread[seen \in SUBSET UNION edges] ==
        IF Reached(seen, edges) = seen THEN seen ELSE spread[Reached(seen, edges)]
  IN {spread[{id}] : id \in UNION edges}

\* Entries in the order of time; when one is past the end of its window, the
\* window moves on by its width until it is not.
EntrySet(artefacts) == UNION {{[at |-> t, id |-> a.id] : t \in a.times} : a \in ToSet(artefacts)}
Earlier(x, y) == x.at < y.at \/ (x.at = y.at /\ x.id < y.id)
Entries(artefacts) ==
  LET all == EntrySet(artefacts)
  IN InLine(all, {p \in all \X all : Earlier(p[1], p[2])})
MovedOn(start, at) == start + ((at - start) \div Window) * Window
Windows(artefacts) ==
  LET es == Entries(artefacts)
      start[n \in DOMAIN es] == IF n = 1 THEN es[1].at ELSE MovedOn(start[n - 1], es[n].at)
  IN {[start |-> start[n], entries |-> {es[m] : m \in {k \in DOMAIN es : start[k] = start[n]}}] : n \in DOMAIN es}

\* Matches of one artefact, by what its scanner looks at.
Matched(a, flag, confidence) == IF flag \in a.flags THEN <<confidence>> ELSE <<>>
Scan(a) ==
  CASE a.cat = "process"  -> Matched(a, "tool", "high")
    [] a.cat = "registry" -> Matched(a, "persistence", "medium") \o Matched(a, "executable", "medium")
    [] a.cat = "file"     -> Matched(a, "executable", IF "deleted" \in a.flags THEN "high" ELSE "low")
    [] a.cat = "network"  -> Matched(a, "bad_remote_port", "high") \o Matched(a, "bad_local_port", "high")
                               \o Matched(a, "external", "medium")
    [] a.cat = "injected" -> <<IF "mz" \in a.flags THEN "high" ELSE "medium">>
    [] OTHER              -> <<>>
Detect(artefacts) == [id \in {a.id : a \in ToSet(artefacts)} |->
                        Scan(CHOOSE a \in ToSet(artefacts) : a.id = id)]

-----------------------------------------------------------------------------
(* Scores and rules                                                        *)

Weight(confidence) == CASE confidence = "high" -> 30 [] confidence = "medium" -> 15 [] OTHER -> 5
Base(cat) == CASE cat = "injected" -> 50 [] cat = "network" -> 20 [] cat = "registry" -> 15
               [] cat \in {"event", "process"} -> 10 [] OTHER -> 5

\* Another artefact that has a match lies close in time.
Near(a, artefacts, matches) ==
  \E b \in ToSet(artefacts) :
    /\ b.id # a.id /\ matches[b.id] # <<>>
    /\ \E s \in a.times, t \in b.times : Apart(s, t) <= Proximity

BadBonus(degree) == degree * 10
Bonus(degree) == Least(30, degree * 10)
Score(a, artefacts, matches, degree) ==
  Least(100, SumFunction([n \in DOMAIN matches[a.id] |-> Weight(matches[a.id][n])])
             + Bonus(degree) + Base(a.cat) + (IF Near(a, artefacts, matches) THEN 10 ELSE 0))

Levels == <<"informational", "low", "medium", "high", "critical">>
Level(score) == Levels[1 + Least(4, score \div 20)]

\* DEFAULT_TRIAGE_RULES: the flag a condition looks for; "\\" where the condition
\* is written with backslashes.
Rule(cat, flag, slash, boost) == [cat |-> cat, flag |-> flag, slash |-> slash, boost |-> boost]
DiskRules ==
  <<Rule("file", "executable", "any", 35), Rule("file", "deleted", "any", 20), Rule("file", "hidden", "any", 15),
   Rule("file", "temp", "any", 20), Rule("file", "system", "any", 15),
   Rule("registry", "run", "\\", 35), Rule("registry", "run_once", "\\", 35), Rule("registry", "service", "\\", 30),
   Rule("registry", "winlogon_shell", "\\", 35), Rule("registry", "shell_hook", "any", 35),
   Rule("registry", "debugger", "\\", 45), Rule("registry", "security_off", "any", 40)>>
HistoryRules ==
  <<Rule("browser", "phishing", "any", 40), Rule("browser", "proxy", "any", 30), Rule("browser", "download", "any", 25),
   Rule("event", "failed_logon", "any", 35), Rule("event", "privileges", "any", 40),
   Rule("event", "service", "any", 35), Rule("event", "cleared", "any", 50)>>
MemoryRules ==
  <<Rule("process", "tool", "any", 45), Rule("process", "temp", "\\", 35),
   Rule("process", "odd_parent", "any", 30), Rule("process", "script_host", "any", 20),
   Rule("network", "external", "any", 25), Rule("network", "bad_remote_port", "any", 40),
   Rule("network", "bad_local_port", "any", 35), Rule("network", "many", "any", 20),
   Rule("injected", "pid", "any", 60), Rule("injected", "mz", "any", 25), Rule("injected", "rwx", "any", 20)>>
Rules == DiskRules \o HistoryRules \o MemoryRules

RuleMatches(rule, a) ==
  rule.cat = a.cat /\ rule.flag \in a.flags /\ rule.slash \in {"any", a.slash}

Evaluated(a, artefacts, matches, degree) ==
  LET score == Least(100, Score(a, artefacts, matches, degree)
                          + SumFunction([n \in {k \in DOMAIN Rules : RuleMatches(Rules[k], a)} |-> Rules[n].boost]))
  IN [id |-> a.id, level |-> Level(score), score |-> score]

\* The places of items by score, and as they came; a level follows its score.
ByScore(items) ==
  LET places == DOMAIN items
      better(m, n) == items[m].score > items[n].score \/ (items[m].score = items[n].score /\ m < n)
  IN InLine(places, {p \in places \X places : better(p[1], p[2])})
Evaluate(artefacts, matches, degrees) ==
  LET items == [n \in DOMAIN artefacts |->
                  Evaluated(artefacts[n], artefacts, matches, degrees[artefacts[n].id])]
      order == ByScore(items)
  IN [n \in DOMAIN order |-> items[order[n]]]

\* RuleBasedFallback.analyze: no matches and no relationships.
FallbackRanking ==
  Evaluate(current, [id \in Ids(current) |-> <<>>], [id \in Ids(current) |-> 0])

-----------------------------------------------------------------------------
(* The steps of execute; each runs in a thread and may raise               *)

Fails ==
  /\ pc \in {"ready", "processed", "evaluated"} /\ pc' = "failed"
  /\ UNCHANGED <<settings, input, current, links, iocs, ranked, final, source>>

Process ==
  LET artefacts == Deduplicate(Standardise(Categorise(input))) IN
  /\ pc = "ready" /\ pc' = "processed"
  /\ current' = artefacts
  /\ links' = IF settings.correlation THEN Correlate(artefacts) ELSE {}
  /\ iocs' = IF settings.iocs THEN Detect(artefacts)
             ELSE [id \in {a.id : a \in ToSet(artefacts)} |-> <<>>]
  /\ UNCHANGED <<settings, input, ranked, final, source>>

EvaluateRules ==
  /\ pc = "processed" /\ pc' = "evaluated"
  /\ ranked' = Evaluate(current, iocs, [id \in Ids(current) |-> Degree(id)])
  /\ UNCHANGED <<settings, input, current, links, iocs, final, source>>

\* The model ranks the artefacts in an order and with levels of its own.
OfModel == [n \in DOMAIN current |-> [id |-> current[n].id, level |-> "medium", score |-> 50]]

HandOn(ranking, from) ==
  /\ pc' = "done" /\ final' = ranking /\ source' = from
  /\ UNCHANGED <<settings, input, current, links, iocs, ranked>>

\* _run_ai_triage. A model that answers nothing leaves the ranking of the rules.
AskModel ==
  /\ pc = "evaluated" /\ ~settings.fallback
  /\ \/ HandOn(OfModel, "llm")
     \/ HandOn(ranked, "llm")

\* The model is not there, raised, or was not asked for.
UseRules ==
  /\ pc = "evaluated"
  /\ \/ ~settings.fallback /\ ranked # <<>> /\ HandOn(ranked, "rule_engine+fallback_summary")
     \/ /\ settings.fallback \/ ranked = <<>>
        /\ \/ HandOn(ranked, "rule_engine")
           \/ IF FallbackRanking # <<>> THEN HandOn(FallbackRanking, "fallback_analyzer")
              ELSE HandOn(ranked, "rule_engine+fallback_summary")

Next == Fails \/ Process \/ EvaluateRules \/ AskModel \/ UseRules

Spec == Init /\ [][Next]_vars

-----------------------------------------------------------------------------
(* aggregate                                                               *)

Count(level) == Cardinality({n \in DOMAIN final : final[n].level = level})
Grade(x) == CASE x.level = "critical" -> 0 [] x.level = "high" -> 1 [] OTHER -> 2
Urgent(x, y) == Grade(x) < Grade(y) \/ (Grade(x) = Grade(y) /\ x.score > y.score)
Listed(m, n) == Urgent(final[m], final[n]) \/ (~Urgent(final[n], final[m]) /\ m < n)
TopCritical ==
  LET bad == {n \in DOMAIN final : Grade(final[n]) < 2}
      all == InLine(bad, {p \in bad \X bad : Listed(p[1], p[2])})
  IN SubSeq(all, 1, Least(TopLimit, Len(all)))
KeyFindings == SubSeq(ByScore(final), 1, Least(FindingsLimit, Len(final)))

-----------------------------------------------------------------------------

TypeOK ==
  /\ \A e \in links : Cardinality(e) = 2
  /\ \A n \in DOMAIN ranked : ranked[n].score \in 0..100 /\ ranked[n].level \in ToSet(Levels)

\* Whatever the switches, the model and the fallback do, the ranking handed on has
\* every artefact of the input once, up to equal content, and no other.
NothingLost ==
  pc = "done" =>
    /\ Cardinality(Ids(final)) = Len(final)
    /\ Ids(final) \subseteq Ids(input)
    /\ {Content(a) : a \in ToSet(Standardise(input))} = {Content(a) : a \in {b \in ToSet(current) : b.id \in Ids(final)}}
    /\ Cardinality({Content(a) : a \in ToSet(Standardise(input))}) = Len(final)

\* Clusters cut no edge and share no artefact; windows hold every entry once, none
\* outside its window.
Partitions ==
  pc = "processed" =>
    LET clusters == Clusters(links)  windows == Windows(current) IN
    /\ \A c, d \in clusters : c # d => c \cap d = {}
    /\ \A c \in clusters : \A e \in links : e \subseteq c \/ e \cap c = {}
    /\ settings.timeline =>
         /\ UNION {w.entries : w \in windows} = EntrySet(current)
         /\ \A v, w \in windows : v # w => v.entries \cap w.entries = {}
         /\ \A w \in windows : \A x \in w.entries : w.start <= x.at /\ x.at < w.start + Window

\* More evidence never lowers an artefact: without its matches and its links no
\* score is higher, and links alone add 30 at most. So the fallback's ranking,
\* which has neither, is never above that of the rules.
MoreIsMore ==
  pc = "evaluated" =>
    LET alone == FallbackRanking IN
    \A n \in DOMAIN ranked, m \in DOMAIN alone : ranked[n].id = alone[m].id => ranked[n].score >= alone[m].score
LinksCountLittle ==
  pc = "evaluated" /\ ~settings.iocs =>
    LET alone == FallbackRanking IN
    \A n \in DOMAIN ranked, m \in DOMAIN alone : ranked[n].id = alone[m].id => ranked[n].score <= alone[m].score + 30

\* The summary counts every artefact once, lists no high artefact before a critical
\* one, and its first finding has the best score.
SummaryFaithful ==
  pc = "done" =>
    LET top == TopCritical  findings == KeyFindings IN
    /\ SumFunction([n \in DOMAIN Levels |-> Count(Levels[n])]) = Len(final)
    /\ Len(top) = Least(TopLimit, Count("critical") + Count("high"))
    /\ \A m, n \in DOMAIN top : m < n => Grade(final[top[m]]) <= Grade(final[top[n]])
    /\ final # <<>> => \A n \in DOMAIN final : final[findings[1]].score >= final[n].score

\* An artefact has an id of its own; a window, the summary and its findings have room.
Artefact == [id : Nat, cat : STRING, flags : SUBSET STRING, slash : {"/", "\\"}, pid : Nat, path : STRING, times : SUBSET Nat]
Sensible ==
  /\ Window \in Nat \ {0} /\ TopLimit \in Nat /\ FindingsLimit \in Nat \ {0}
  /\ \A s \in Inputs : /\ s \in Seq(Artefact) /\ \A n \in DOMAIN s : IsFiniteSet(s[n].times)
                       /\ \A m, n \in DOMAIN s : m # n => s[m].id # s[n].id
  /\ Settings \subseteq [correlation : BOOLEAN, timeline : BOOLEAN, iocs : BOOLEAN, fallback : BOOLEAN]

TriageSafe == TypeOK /\ NothingLost /\ Partitions /\ MoreIsMore /\ LinksCountLittle /\ SummaryFaithful

\* "Registry persistence via CurrentVersion\Run" (rules.py:116): a key under Run
\* gets the boost of that rule on top of what its category is worth.
RunKeysRaised ==
  pc = "evaluated" =>
    \A a \in ToSet(input), n \in DOMAIN ranked :
      a.cat = "registry" /\ "run" \in a.flags /\ ranked[n].id = a.id =>
        ranked[n].score >= Base("registry") + 35
=============================================================================
