-------------------------------- MODULE Health --------------------------------
(***************************************************************************)
(* How the system sees itself: ServiceMonitor probes services for requests *)
(* that run together, HealthAggregator answers readiness from live checks  *)
(* and the job table. A job in flight for too long counts as a failure there,  *)
(* and stays one after a crash, since nobody ends its row.                 *)
(***************************************************************************)
EXTENDS Integers, Sequences, FiniteSets

CONSTANTS
  Services,    \* MONITORED_SERVICES, in their order
  Critical,    \* those without which the system is unavailable
  Required,    \* those the aggregator requires
  Optional,    \* and those it does not: the language model and "pipeline", the job table
  Checkers,    \* requests that probe every service
  Readers,     \* requests for readiness
  HistoryMax,  \* results kept of a service
  MaxFlips     \* bound on services that fail or come back

VARIABLES
  up,        \* service, or "pipeline" |-> whether a check finds it, and no job overdue
  flips,
  latest,    \* service |-> [healthy, failures, no], for those probed
  history,   \* service |-> its last results
  serial,    \* history: number of probes that ended
  checker,   \* request |-> [at, seen, since, answer]: the probe under way and when it began
  reader     \* request |-> [at, database, wasUp, wasDown, answer]; history: what it met in either state

monitor == <<latest, history, serial, checker>>
vars == <<up, flips, latest, history, serial, checker, reader>>

\* Without a critical service nobody is ready; the job table is no required one.
Sensible ==
  /\ Len(Services) \in Nat \ {0} /\ DOMAIN Services = 1..Len(Services) /\ HistoryMax \in Nat \ {0}
  /\ Critical \subseteq Required /\ "database" \in Required /\ "pipeline" \notin Required

ToSet(s) == {s[n] : n \in DOMAIN s}
Checked == Required \cup Optional
-----------------------------------------------------------------------------
(* ServiceMonitor                                                          *)

Overall ==
  IF DOMAIN latest = {} THEN "initializing"
  ELSE IF \E s \in Critical \cap DOMAIN latest : ~latest[s].healthy THEN "unavailable"
  ELSE IF \E s \in DOMAIN latest : ~latest[s].healthy THEN "degraded"
  ELSE "ready"

(* HealthAggregator.overall_status *)
Aggregated(checks) ==
  IF \E s \in Required : ~checks[s] THEN "unavailable"
  ELSE IF \E s \in Optional : ~checks[s] THEN "degraded" ELSE "ready"

-----------------------------------------------------------------------------
Idle == [at |-> 0, seen |-> TRUE, since |-> 0, answer |-> "none"]
Unasked == [at |-> "idle", database |-> FALSE, wasUp |-> {}, wasDown |-> {}, answer |-> "none"]
Init ==
  /\ up \in [ToSet(Services) \cup Checked -> BOOLEAN] /\ flips = 0 /\ latest = <<>> /\ history = [s \in ToSet(Services) |-> <<>>]
  /\ serial = 0 /\ checker = [c \in Checkers |-> Idle] /\ reader = [r \in Readers |-> Unasked]

UpNow == {s \in Checked : up[s]}
\* Something fails or comes back; a job becomes overdue or ends.
Flip(s) ==
  /\ flips < MaxFlips /\ flips' = flips + 1 /\ up' = [up EXCEPT ![s] = ~up[s]]
  /\ reader' = [r \in Readers |-> IF reader[r].at = "idle" \/ s \notin Checked THEN reader[r]
                                 ELSE IF up[s] THEN [reader[r] EXCEPT !.wasDown = @ \cup {s}] ELSE [reader[r] EXCEPT !.wasUp = @ \cup {s}]]
  /\ UNCHANGED monitor

\* check_all: one probe after the other, each awaited.
BeginProbe(c) ==
  /\ checker[c].answer = "none" /\ checker[c].at = 0
  /\ checker' = [checker EXCEPT ![c].at = 1, ![c].seen = up[Services[1]], ![c].since = serial]
  /\ UNCHANGED <<up, flips, latest, history, serial, reader>>

FailuresAfter(s, healthy) == IF healthy THEN 0 ELSE (IF s \in DOMAIN latest THEN latest[s].failures ELSE 0) + 1
Kept(h) == IF Len(h) > HistoryMax THEN Tail(h) ELSE h
BadRecord(s, healthy) ==
  /\ serial' = serial + 1 /\ history' = [history EXCEPT ![s] = Kept(Append(@, healthy))]
  /\ latest' = IF ~healthy /\ s \in DOMAIN latest THEN [latest EXCEPT ![s].failures = @ + 1]
               ELSE [x \in DOMAIN latest \cup {s} |->
                  IF x = s THEN [healthy |-> healthy, failures |-> FailuresAfter(s, healthy), no |-> serial'] ELSE latest[x]]
\* The probe answers what it found when it began or what holds when it ends.
Record(s, healthy) ==
  /\ serial' = serial + 1 /\ history' = [history EXCEPT ![s] = Kept(Append(@, healthy))]
  /\ latest' = [x \in DOMAIN latest \cup {s} |->
                  IF x = s THEN [healthy |-> healthy, failures |-> FailuresAfter(s, healthy), no |-> serial'] ELSE latest[x]]
EndProbe(c) ==
  LET n == checker[c].at
      s == Services[n]
  IN /\ n > 0 /\ \E healthy \in {checker[c].seen, up[s]} : Record(s, healthy)
     /\ checker' = [checker EXCEPT ![c].at = IF n < Len(Services) THEN n + 1 ELSE 0,
                                   ![c].seen = IF n < Len(Services) THEN up[Services[n + 1]] ELSE TRUE,
                                   ![c].answer = IF n < Len(Services) THEN "none" ELSE Overall']
     /\ UNCHANGED <<up, flips, reader>>

\* HealthAggregator.collect: the database is asked first, then what needs no await, then
\* the job table (through the database), then the audit file.
AskDatabase(r) ==
  /\ reader[r].at = "idle" /\ reader' = [reader EXCEPT ![r].at = "database", ![r].wasUp = UpNow, ![r].wasDown = Checked \ UpNow]
  /\ UNCHANGED <<up, flips, monitor>>
DatabaseAnswers(r) ==
  /\ reader[r].at = "database" /\ reader' = [reader EXCEPT ![r].at = "pipeline", ![r].database = up["database"]]
  /\ UNCHANGED <<up, flips, monitor>>
Collect(r) ==
  /\ reader[r].at = "pipeline"
  /\ reader' = [reader EXCEPT ![r].at = "done",
       ![r].answer = Aggregated([s \in Checked |->
         CASE s = "database" -> reader[r].database
           [] s = "pipeline" -> up["database"] /\ up["pipeline"]
           [] OTHER -> up[s]])]
  /\ UNCHANGED <<up, flips, monitor>>

Next ==
  \/ \E s \in ToSet(Services) \cup Checked : Flip(s)
  \/ \E c \in Checkers : BeginProbe(c) \/ EndProbe(c)
  \/ \E r \in Readers : AskDatabase(r) \/ DatabaseAnswers(r) \/ Collect(r)
Spec == Init /\ [][Next]_vars

-----------------------------------------------------------------------------
\* The failures counted of a service are those its history ends with, and its latest result
\* is the last of its history, however the requests that probe it overlap.
Run(h) == CHOOSE n \in 0..Len(h) :
  (\A k \in Len(h) - n + 1..Len(h) : ~h[k]) /\ (n = Len(h) \/ h[Len(h) - n])
HistoryAgrees ==
  \A s \in ToSet(Services) :
    /\ s \in DOMAIN latest <=> history[s] # <<>>
    /\ s \in DOMAIN latest =>
         /\ latest[s].healthy = history[s][Len(history[s])]
         /\ latest[s].failures >= Run(history[s])
         /\ Run(history[s]) < HistoryMax => latest[s].failures = Run(history[s])

\* A request that is told "ready" rests on probes of every service that ended after it
\* began, its own or those of another request.
FreshStep ==
  \A c \in Checkers : checker[c].answer = "none" /\ checker'[c].answer # "none" =>
    \A s \in ToSet(Services) : s \in DOMAIN latest' /\ latest'[s].no > checker[c].since

\* "unavailable" names a required check that failed while it was asked, "ready" has none
\* that was down all along, and what the monitor calls unavailable is not ready here.
ReadinessHolds ==
  /\ \A r \in Readers :
       /\ reader[r].answer = "unavailable" => reader[r].wasDown \cap Required # {}
       /\ reader[r].answer = "ready" => Checked \subseteq reader[r].wasUp
       /\ reader[r].answer = "degraded" => reader[r].wasDown # {} /\ Required \subseteq reader[r].wasUp
  /\ flips = 0 => \A r \in Readers : \A c \in Checkers :
       checker[c].answer = "unavailable" => reader[r].answer \in {"none", "unavailable"}

HealthSafe == HistoryAgrees /\ ReadinessHolds
=============================================================================
