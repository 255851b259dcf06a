---------------------------- MODULE ThreatIntel ----------------------------
(***************************************************************************)
(* threat_intel/: rule files are staged into the directories of the YARA   *)
(* and the Sigma engine and loaded there, scans walk over artefacts with   *)
(* whatever rules are loaded then, and the MITRE mapper names techniques.  *)
(***************************************************************************)
EXTENDS Integers, Sequences, FiniteSets, SequencesExt

CONSTANTS
  Files,      \* names of rule files
  Feeds,      \* datasets: [engine, file, good]
  Artefacts,  \* [category, facts, suspicion, techniques]
  MaxFeeds,   \* bound on ingested feeds
  MaxBoots    \* bound on restarts

VARIABLES
  dir,     \* engine |-> the files in its directory, file |-> whether it can be parsed
  loaded,  \* engine |-> the files whose rules are in memory
  feed,    \* the feeds under way: dataset |-> "staged" | "loaded"
  fed,     \* number of feeds staged
  scan,    \* [todo, seen]: artefacts left, and per artefact done the rules it met
  boots

vars == <<dir, loaded, feed, fed, scan, boots>>

Engines == {"yara", "sigma"}
\* A feed is one rule file of one engine; a case has finitely many artefacts.
Sensible ==
  /\ Feeds \subseteq [engine : Engines, file : Files, good : BOOLEAN] /\ MaxFeeds \in Nat
  /\ IsFiniteSet(Artefacts)
  /\ Artefacts \subseteq [category : STRING, facts : SUBSET STRING, suspicion : STRING, techniques : Seq(STRING)]
NoScan == [todo |-> <<>>, seen |-> <<>>]
-----------------------------------------------------------------------------
(* Sigma detections. A selection is a set of alternatives, each a set of   *)
(* fields that must all have their value; a condition names selections.    *)

Selected(selection, fields) == \E item \in selection : item \subseteq fields
AnySelected(detection, fields) == \E n \in DOMAIN detection : Selected(detection[n], fields)

\* Names are looked for as text: "sel" is found in "sel2 or other", too.
Mentioned(n, condition) == \E k \in DOMAIN condition.names : IsPrefix(n, condition.names[k])

\* A name is a sequence of letters; "and not" wants exactly one name on either side.
Detects(condition, detection, fields) ==
  CASE condition.form = "and not" ->
         LET include == condition.names[1]
             exclude == condition.names[2]
         IN /\ include \in DOMAIN detection /\ Selected(detection[include], fields)
            /\ exclude \in DOMAIN detection => ~Selected(detection[exclude], fields)
    [] condition.form = "or" -> \E n \in DOMAIN detection : Mentioned(n, condition) /\ Selected(detection[n], fields)
    [] OTHER -> AnySelected(detection, fields)

\* What Sigma means by these conditions.
Meant(condition, detection, fields) ==
  LET Holds(n) == n \in DOMAIN detection /\ Selected(detection[n], fields)
      first == Holds(condition.names[1])
      second == Len(condition.names) > 1 /\ Holds(condition.names[2])
  IN CASE condition.form = "one" -> first
       [] condition.form = "or" -> first \/ second
       [] condition.form = "and" -> first /\ second
       [] condition.form = "and not" -> first /\ ~second

SigmaInput(category) ==
  IF category = "event_log" THEN {"windows"}
  ELSE IF category \in {"running_process", "injected_code"} THEN {"process_creation"} ELSE {}

-----------------------------------------------------------------------------
(* MITRE mappings of an artefact, in the order of the mappers              *)

Mapping(technique, confidence) == [technique |-> technique, confidence |-> confidence]
When(condition, technique, confidence) == IF condition THEN <<Mapping(technique, confidence)>> ELSE <<>>
Detected(a) ==
  LET Is(category) == a.category = category
      Has(fact) == fact \in a.facts
  IN When(Is("registry_key") /\ Has("autorun"), "T1547.001", "high")
     \o When(Is("injected_code"), "T1055", "high")
     \o When(Is("running_process") /\ Has("rwx"), "T1055", "medium")
     \o When(Is("network_connection") /\ Has("odd_port"), "T1071", "medium")
     \o When(Is("network_connection") /\ ~Has("odd_port") /\ Has("external"), "T1071", "low")
     \o When(Is("event_log") /\ Has("service_installed"), "T1543.003", "high")
     \o When(Has("powershell"), "T1059.001", "medium")
     \o When(Has("credentials"), "T1003", "high")
     \o When(Is("filesystem_metadata") /\ Has("hidden_script"), "T1027", "medium")
     \o [k \in DOMAIN a.techniques |-> Mapping(a.techniques[k], "medium")]
Fallback(a) == When(Detected(a) = <<>> /\ a.suspicion \in {"high", "critical"}, "T1078", "low")

\* The first mapping to a technique is kept.
Keep(kept, m) == IF \E k \in DOMAIN kept : kept[k].technique = m.technique THEN kept ELSE Append(kept, m)
Firsts(ms) ==
  LET kept[n \in 0..Len(ms)] == IF n = 0 THEN <<>> ELSE Keep(kept[n - 1], ms[n])
  IN kept[Len(ms)]
MapArtefact(a) == Firsts(Detected(a) \o Fallback(a))

-----------------------------------------------------------------------------
(* Loading rules                                                           *)

Whole(engine) == \A f \in DOMAIN dir[engine] : dir[engine][f]
\* One broken file: yara.compile fails and no rule is left; the YAML error leaves
\* the Sigma engine's load, and what it had stays.
BadLoaded(engine) == {f \in DOMAIN dir[engine] : dir[engine][f]}
Loaded(engine) ==
  IF Whole(engine) THEN DOMAIN dir[engine]
  ELSE IF engine = "yara" THEN {} ELSE loaded[engine]

Init ==
  /\ dir = [e \in Engines |-> <<>>] /\ loaded = [e \in Engines |-> {}]
  /\ feed = <<>> /\ fed = 0 /\ scan = NoScan /\ boots = 0

\* A boot starts with empty engines; of two loads neither stops the other.
Restart ==
  /\ boots < MaxBoots /\ boots' = boots + 1
  /\ loaded' = [e \in Engines |-> IF Whole(e) THEN DOMAIN dir[e] ELSE {}]
  /\ feed' = <<>> /\ scan' = NoScan /\ UNCHANGED <<dir, fed>>

Stage(d) ==
  /\ d \notin DOMAIN feed /\ fed < MaxFeeds /\ fed' = fed + 1
  /\ feed' = [x \in DOMAIN feed \cup {d} |-> "staged"]
  /\ dir' = [dir EXCEPT ![d.engine] = [f \in DOMAIN @ \cup {d.file} |-> IF f = d.file THEN d.good ELSE @[f]]]
  /\ UNCHANGED <<loaded, scan, boots>>

LoadRules(d) ==
  /\ d \in DOMAIN feed /\ loaded' = [loaded EXCEPT ![d.engine] = Loaded(d.engine)]
  /\ feed' = [x \in DOMAIN feed \ {d} |-> feed[x]]
  /\ UNCHANGED <<dir, fed, scan, boots>>

-----------------------------------------------------------------------------
(* A scan: for each artefact in turn YARA, Sigma by category and the mapper *)

StartScan ==
  /\ scan = NoScan /\ \E s \in SetToSeqs(Artefacts) : scan' = [todo |-> s, seen |-> <<>>]
  /\ UNCHANGED <<dir, loaded, feed, fed, boots>>

Met(a) ==
  [artefact |-> a,
   yara |-> IF a.category \in {"filesystem_metadata", "running_process", "injected_code"} THEN loaded["yara"] ELSE {},
   sigma |-> IF SigmaInput(a.category) = {} THEN {} ELSE loaded["sigma"],
   mappings |-> MapArtefact([a EXCEPT !.suspicion = "informational"])]
ScanNext ==
  /\ scan.todo # <<>>
  /\ scan' = [todo |-> Tail(scan.todo), seen |-> Append(scan.seen, Met(Head(scan.todo)))]
  /\ UNCHANGED <<dir, loaded, feed, fed, boots>>
Report ==
  /\ scan # NoScan /\ scan.todo = <<>> /\ scan' = NoScan
  /\ UNCHANGED <<dir, loaded, feed, fed, boots>>

Next == Restart \/ (\E d \in Feeds : Stage(d) \/ LoadRules(d)) \/ StartScan \/ ScanNext \/ Report
Spec == Init /\ [][Next]_vars

-----------------------------------------------------------------------------
TypeOK ==
  /\ \A e \in Engines : loaded[e] \subseteq DOMAIN dir[e] /\ DOMAIN dir[e] \subseteq Files
  /\ fed \in 0..MaxFeeds /\ DOMAIN feed \subseteq Feeds

\* Between feeds the rules in memory are those of a directory of whole files, however
\* feeds of both engines overlap and the process restarts; a broken file leaves no YARA
\* rule at all. (Sigma keeps what it had until the restart, which then loads none.)
LoadsAreWhole ==
  \A e \in Engines : (\A d \in DOMAIN feed : d.engine # e) =>
    IF Whole(e) THEN loaded[e] = DOMAIN dir[e] ELSE e = "yara" => loaded[e] = {}

\* A scan names a technique at most once per artefact, loses none that a mapper saw,
\* and never uses the fallback for suspicious artefacts: it ranks all as informational.
MapsWhole ==
  \A a \in Artefacts : LET ms == MapArtefact(a) IN
       /\ \A i, k \in DOMAIN ms : ms[i].technique = ms[k].technique => i = k
       /\ \A k \in DOMAIN Detected(a) : \E i \in DOMAIN ms : ms[i].technique = Detected(a)[k].technique
       /\ ms = <<>> => a.suspicion \notin {"high", "critical"}
NoFallback ==
  \A k \in DOMAIN scan.seen : \A i \in DOMAIN scan.seen[k].mappings :
       scan.seen[k].mappings[i].technique = "T1078" => \E j \in DOMAIN scan.seen[k].artefact.techniques : scan.seen[k].artefact.techniques[j] = "T1078"

\* The supported conditions ("selection", "a and not b") mean what Sigma means, and of
\* "a or b" and "a and b" no event is missed, whatever the selections are called.
Names == {<<"s">>, <<"s", "2">>, <<"t">>}
Selections == {{{"x"}}, {{"x", "y"}}, {{"x"}, {"y"}}}
Conditions == [form : {"one", "or", "and", "and not"}, names : Names \X Names]
DetectsWhatIsMeant ==
  \A condition \in Conditions, used \in {Names} \cup {{n} : n \in Names} : \A detection \in [used -> Selections], fields \in SUBSET {"x", "y"} :
    /\ condition.form = "and not" => Detects(condition, detection, fields) = Meant(condition, detection, fields)
    /\ condition.form = "one" /\ used = {condition.names[1]} => Detects(condition, detection, fields) = Meant(condition, detection, fields)
    /\ Meant(condition, detection, fields) => Detects(condition, detection, fields)

\* What depends on no variable is looked at in the first state.
First == fed = 0 /\ boots = 0 /\ scan = NoScan
ThreatIntelSafe == TypeOK /\ LoadsAreWhole /\ NoFallback /\ (First => MapsWhole /\ DetectsWhatIsMeant)

\* Sigma rules in memory go only when the process restarts.
SigmaStep == boots' = boots => loaded["sigma"] \subseteq loaded'["sigma"]
=============================================================================
