------------------------------ MODULE Evaluation ------------------------------
(***************************************************************************)
(* evaluation/: recovered artefacts are compared with ground truth by      *)
(* normalised identifiers and the counts stored as benchmark rows; ratings *)
(* of participants are collected, analysed and destroyed. The pipeline's   *)
(* stage and the requests of the API share the comparator.                 *)
(***************************************************************************)
EXTENDS Integers, Sequences, FiniteSets, SequencesExt, FiniteSetsExt

CONSTANTS
  Callers,   \* callers that compare, each once
  Staged,    \* those of them that are the evaluation stage of a job
  Truths,    \* dataset |-> [format, named, entries: sequence of [category, known, parts, id]]
  Recovered, \* artefacts of the evidence: [category, path, parts]
  Answers,   \* what participants send: question |-> rating
  MaxSent,   \* bound on questionnaires sent and on destructions
  MaxFaults  \* bound on failing writes

VARIABLES
  bench,    \* caller |-> [pc, dataset]
  rows,     \* benchmark rows: <<caller, counts>>
  ratings,  \* stored responses: number |-> [usefulness, q1, q4]
  pending,  \* questionnaire calls whose audit entry is still to be written: [kind, amount]
  audit,    \* entries written: <<action, caller or amount>>
  sent,     \* responses stored so far
  wiped,    \* destructions so far
  faults

vars == <<bench, rows, ratings, pending, audit, sent, wiped, faults>>

-----------------------------------------------------------------------------
(* Identifiers. A raw value is [token, spelling]; case, blanks and slashes *)
(* are spelling. The token "" is a value that is missing.                  *)

NormaliseToken(v) == v.token
Join(category, tokens) ==
  <<category>> \o FlattenSeq([n \in DOMAIN tokens |-> IF tokens[n] # "" THEN <<tokens[n]>> ELSE <<>>])
\* A file without a name takes it from its path.
NormaliseIdentifier(category, parts) ==
  LET tokens == [n \in DOMAIN parts |-> NormaliseToken(parts[n])]
  IN Join(category, IF category = "file" /\ tokens[2] = "" THEN <<tokens[1], tokens[1]>> ELSE tokens)

\* The source path stands in for a path the parser did not give.
ArtefactKey(a) ==
  NormaliseIdentifier(a.category, IF a.category = "file" /\ a.parts[1].token = "" THEN [a.parts EXCEPT ![1] = a.path] ELSE a.parts)
\* An entry without a part is its category twice: its own identifier is never asked.
TruthKey(e) == LET key == NormaliseIdentifier(e.category, e.parts) IN IF Len(key) = 1 THEN key \o key ELSE key

\* A DFRWS file needs a name, CFReDS falls back on the file's; both know the categories.
Loads(t) == (t.format = "cfreds" \/ t.named) /\ \A n \in DOMAIN t.entries : t.entries[n].known
Expected(t) == {TruthKey(t.entries[n]) : n \in DOMAIN t.entries}
Found == {ArtefactKey(a) : a \in Recovered}

\* Counts of a comparison, from which the metrics follow.
Counts(found, expected) ==
  [tp |-> Cardinality(found \cap expected), fp |-> Cardinality(found \ expected), fn |-> Cardinality(expected \ found),
   recovered |-> Cardinality(found), expected |-> Cardinality(expected)]
\* A fraction as <<numerator, denominator>>; without a denominator it is 0.
Ratio(n, d) == IF d = 0 THEN <<0, 1>> ELSE <<n, d>>
Precision(c) == Ratio(c.tp, c.tp + c.fp)
Recall(c) == Ratio(c.tp, c.tp + c.fn)
F1(c) == LET p == Precision(c)
             r == Recall(c)
         IN Ratio(2 * p[1] * r[1], p[1] * r[2] + r[1] * p[2])

\* compare_per_category: every side filtered by category first.
CategoryCounts(t, category) ==
  Counts({ArtefactKey(a) : a \in {b \in Recovered : b.category = category}},
         {TruthKey(t.entries[n]) : n \in {k \in DOMAIN t.entries : t.entries[k].category = category}})

-----------------------------------------------------------------------------
(* Statistics over stored values, a hundred times as large                 *)

\* sorted() keeps every value, however many are equal.
Ascending(value, places) ==
  CHOOSE s \in [places -> DOMAIN value] : \A m, n \in places : m < n => s[m] # s[n] /\ value[s[m]] <= value[s[n]]
InOrder(value) ==
  LET places == 1..Cardinality(DOMAIN value)
  IN [n \in places |-> value[Ascending(value, places)[n]]]
Percentile(ordered, p) ==
  LET rank == p * (Len(ordered) - 1)
      at == rank \div 100 + 1
      weight == rank % 100
  IN IF weight = 0 THEN 100 * ordered[at] ELSE ordered[at] * (100 - weight) + ordered[at + 1] * weight
Median(ordered) ==
  LET half == (Len(ordered) + 1) \div 2
  IN IF Len(ordered) % 2 = 1 THEN 100 * ordered[half] ELSE 50 * (ordered[half] + ordered[half + 1])

\* round() takes the even one of two integers equally near.
RoundHalf(twice) == IF twice % 2 = 0 THEN twice \div 2 ELSE LET low == twice \div 2 IN IF low % 2 = 0 THEN low ELSE low + 1

\* Ratings by question need all five of them; ratings by dimension stand for themselves.
Accepted(a) ==
  /\ \A q \in DOMAIN a : a[q] \in 1..5
  /\ IF {"Q1", "Q2", "Q3", "Q4", "Q5"} \cap DOMAIN a # {} THEN {"Q1", "Q2", "Q3", "Q4", "Q5"} \subseteq DOMAIN a
     ELSE {"usefulness", "accuracy", "clarity"} \subseteq DOMAIN a
CreateResponse(a) ==
  IF "Q1" \in DOMAIN a THEN [usefulness |-> RoundHalf(a["Q1"] + a["Q4"]), q1 |-> a["Q1"], q4 |-> a["Q4"]]
  ELSE [usefulness |-> a["usefulness"], q1 |-> 0, q4 |-> 0]
\* Twice the mean of Q1 and Q4, or of the rating when they were not asked.
UsefulnessAverage(r) == IF r.q1 # 0 /\ r.q4 # 0 THEN r.q1 + r.q4 ELSE 2 * r.usefulness
Useful == {k \in DOMAIN ratings : UsefulnessAverage(ratings[k]) >= 8}

-----------------------------------------------------------------------------
Init ==
  /\ \E of \in [Callers -> DOMAIN Truths] : bench = [c \in Callers |-> [pc |-> "idle", dataset |-> of[c]]]
  /\ rows = {} /\ ratings = <<>> /\ pending = {} /\ audit = {}
  /\ sent = 0 /\ wiped = 0 /\ faults = 0

Fault == faults < MaxFaults /\ faults' = faults + 1
Enter(c, from, to) == bench[c].pc = from /\ bench' = [bench EXCEPT ![c].pc = to]
Truth(c) == Truths[bench[c].dataset]
Log(entry) == audit' = audit \cup {entry}

-----------------------------------------------------------------------------
(* EvaluationStage.execute and EvaluationService.run_benchmark_for_dataset *)

Start(c) ==
  /\ Enter(c, "idle", "started")
  /\ IF c \in Staged THEN Log(<<"EVALUATION_STAGE_STARTED", c>>) ELSE UNCHANGED audit
  /\ UNCHANGED <<rows, ratings, pending, sent, wiped, faults>>
\* The entry that says so is written outside the stage's try.
StartFails(c) ==
  /\ c \in Staged /\ Enter(c, "idle", "escaped") /\ Fault
  /\ UNCHANGED <<rows, ratings, pending, audit, sent, wiped>>

\* Without an await: load and compare. (The identifiers it keeps are read by reports that
\* nothing outside the tests makes.)
Compare(c) ==
  /\ Loads(Truth(c)) /\ Enter(c, "started", "compared")
  /\ UNCHANGED <<rows, ratings, pending, audit, sent, wiped, faults>>
Fails(c) == IF c \in Staged THEN "failing" ELSE "failed"
LoadFails(c) ==
  /\ ~Loads(Truth(c)) /\ Enter(c, "started", Fails(c))
  /\ UNCHANGED <<rows, ratings, pending, audit, sent, wiped, faults>>
Save(c) ==
  /\ Enter(c, "compared", "saved") /\ rows' = rows \cup {<<c, Counts(Found, Expected(Truth(c)))>>}
  /\ UNCHANGED <<ratings, pending, audit, sent, wiped, faults>>
Audited(c) ==
  /\ Enter(c, "saved", IF c \in Staged THEN "audited" ELSE "done") /\ Log(<<"BENCHMARK_EVALUATION_COMPLETED", c>>)
  /\ UNCHANGED <<rows, ratings, pending, sent, wiped, faults>>
BadComplete(c) ==
  /\ bench[c].pc \in {"saved", "audited"} /\ bench' = [bench EXCEPT ![c].pc = "done"] /\ c \in Staged
  /\ Log(<<"EVALUATION_STAGE_COMPLETED", c>>)
  /\ UNCHANGED <<rows, ratings, pending, sent, wiped, faults>>
Complete(c) ==
  /\ c \in Staged /\ Enter(c, "audited", "done") /\ Log(<<"EVALUATION_STAGE_COMPLETED", c>>)
  /\ UNCHANGED <<rows, ratings, pending, sent, wiped, faults>>
StepFails(c) ==
  /\ bench[c].pc \in {"compared", "saved", "audited"} /\ Enter(c, bench[c].pc, Fails(c)) /\ Fault
  /\ UNCHANGED <<rows, ratings, pending, audit, sent, wiped>>
StageFailed(c) ==
  /\ Enter(c, "failing", "failed") /\ Log(<<"EVALUATION_STAGE_FAILED", c>>)
  /\ UNCHANGED <<rows, ratings, pending, sent, wiped, faults>>

-----------------------------------------------------------------------------
(* ResponseCollector                                                       *)

Collect(a) ==
  /\ Accepted(a) /\ sent < MaxSent /\ sent' = sent + 1
  /\ ratings' = [k \in DOMAIN ratings \cup {sent'} |-> IF k = sent' THEN CreateResponse(a) ELSE ratings[k]]
  /\ pending' = pending \cup {[kind |-> "COLLECTED", of |-> sent', amount |-> 1]}
  /\ UNCHANGED <<bench, rows, audit, wiped, faults>>
DeleteAll ==
  /\ wiped < MaxSent /\ wiped' = wiped + 1 /\ ratings' = <<>>
  /\ pending' = pending \cup {[kind |-> "DESTROYED", of |-> wiped', amount |-> Cardinality(DOMAIN ratings)]}
  /\ UNCHANGED <<bench, rows, audit, sent, faults>>
LogPending(p) ==
  /\ p \in pending /\ pending' = pending \ {p} /\ Log(<<p.kind, p.of, p.amount>>)
  /\ UNCHANGED <<bench, rows, ratings, sent, wiped, faults>>
\* The rows are written or gone, and no entry says so.
LogFails(p) ==
  /\ p \in pending /\ pending' = pending \ {p} /\ Fault
  /\ UNCHANGED <<bench, rows, ratings, audit, sent, wiped>>

Next ==
  \/ \E c \in Callers :
       \/ Start(c) \/ StartFails(c) \/ Compare(c) \/ LoadFails(c) \/ Save(c)
       \/ Audited(c) \/ Complete(c) \/ StepFails(c) \/ StageFailed(c)
  \/ \E a \in Answers : Collect(a)
  \/ DeleteAll
  \/ \E p \in [kind : {"COLLECTED", "DESTROYED"}, of : 1..MaxSent, amount : 0..MaxSent] : LogPending(p) \/ LogFails(p)
Spec == Init /\ [][Next]_vars

-----------------------------------------------------------------------------
Logged(kind) == SumFunction([e \in {e \in audit : e[1] = kind} |-> e[3]])
Waiting(kind) == SumFunction([p \in {p \in pending : p.kind = kind} |-> p.amount])

\* The trail accounts for the responses: those it saw come less those it saw go are those
\* stored, unless a write of the trail failed.
TrailAccounts ==
  faults = 0 =>
    Logged("COLLECTED") + Waiting("COLLECTED") - Logged("DESTROYED") - Waiting("DESTROYED")
      = Cardinality(DOMAIN ratings)

\* A completed stage has its row and its benchmark entry, a row is never one of a file
\* that does not load, and a trail that says "completed" never says "failed".
RowsAreEarned ==
  \A c \in Callers :
    /\ <<"EVALUATION_STAGE_COMPLETED", c>> \in audit =>
         /\ <<"BENCHMARK_EVALUATION_COMPLETED", c>> \in audit /\ \E r \in rows : r[1] = c
         /\ <<"EVALUATION_STAGE_FAILED", c>> \notin audit
    /\ \A r \in rows : r[1] = c => Loads(Truth(c))
    /\ bench[c].pc = "done" => \E r \in rows : r[1] = c

\* A row is perfect exactly when nothing is missing and nothing is too much, F1 lies
\* between precision and recall, and the categories add up to the whole.
Leq(a, b) == a[1] * b[2] <= b[1] * a[2]
MetricsAgree ==
  \A r \in rows :
    LET c == r[2]
        t == Truth(r[1])
        cats == {a.category : a \in Recovered} \cup {t.entries[n].category : n \in DOMAIN t.entries}
        Total(f) == SumFunction([k \in cats |-> CategoryCounts(t, k)[f]])
    IN /\ (F1(c)[1] = F1(c)[2] /\ c.tp > 0) <=> (Found = Expected(t) /\ Found # {})
       /\ Leq(Precision(c), F1(c)) \/ Leq(Recall(c), F1(c))
       /\ Leq(F1(c), Precision(c)) \/ Leq(F1(c), Recall(c))
       /\ \A f \in DOMAIN c : Total(f) = c[f]

\* What is stored of a participant lies half a point from the mean of the answers, and a
\* rating of 3 or less is nobody's that counts as useful.
RatingsAgree ==
  \A k \in DOMAIN ratings :
    LET r == ratings[k]
    IN /\ r.usefulness \in 1..5 /\ 2 * r.usefulness - UsefulnessAverage(r) \in -1..1
       /\ k \in Useful => r.usefulness >= 4

\* The statistics of the expected counts of the rows are in order.
StatsInOrder ==
  LET ordered == InOrder([r \in rows |-> r[2].expected])
  IN rows # {} =>
       /\ 100 * ordered[1] <= Median(ordered) /\ Median(ordered) <= Percentile(ordered, 95)
       /\ Percentile(ordered, 95) <= Percentile(ordered, 99) /\ Percentile(ordered, 99) <= 100 * ordered[Len(ordered)]

\* Datasets list their entries, and whatever has an identifier lists its parts.
Listed(s) == Len(s) \in Nat /\ DOMAIN s = 1..Len(s)
Sensible ==
  /\ IsFiniteSet(Recovered) /\ \A a \in Recovered : Listed(a.parts)
  /\ \A d \in DOMAIN Truths : Listed(Truths[d].entries) /\ \A n \in DOMAIN Truths[d].entries : Listed(Truths[d].entries[n].parts)

EvaluationSafe == TrailAccounts /\ RowsAreEarned /\ MetricsAgree /\ RatingsAgree /\ StatsInOrder
=============================================================================
