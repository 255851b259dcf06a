---------------------------- MODULE EvidenceGraph ----------------------------
(***************************************************************************)
(* The knowledge graph: completed jobs add their artefacts, the things the *)
(* artefacts are about and their indicators, on the event loop and so one  *)
(* job at a time; the retriever walks the graph from an artefact on a      *)
(* thread, between any two of those changes.                               *)
(***************************************************************************)
EXTENDS Integers, Sequences, FiniteSets, SequencesExt

CONSTANTS
  Jobs, Readers,
  Found,   \* Found[j]: a job's artefacts in order, [id, category, about, user, near]
  Listed,  \* Listed[j]: the values of its indicators, one after another
  Asks,    \* Asks[r]: the artefact a reader starts from
  Depth    \* max_depth

VARIABLES
  pc, todo, \* per job: "done" of its run and the edges it still has to add
  types,    \* the graph: edge (a set of two nodes) -> its edge_type
  added,    \* what the hooks reported as graph_edges_added, summed up
  query     \* per reader

vars == <<pc, todo, types, added, query>>

Nobody == <<"none", "none">>
None == "none"
-----------------------------------------------------------------------------
(* What a job adds                                                         *)

Node(kind, name) == <<kind, name>>
EntityOf ==
  [process |-> "PROCESS", file |-> "FILE", registry |-> "REGISTRY_KEY", network |-> "NETWORK_ENDPOINT"]

\* _CATEGORY_EDGE_MAP: it has no order, so both ends of a correlation agree.
EdgeType(left, right) ==
  LET pair == {left.category, right.category} IN
  IF pair = {"process", "network"} THEN "COMMUNICATES_WITH"
  ELSE IF pair = {"registry", "file"} THEN "MODIFIES"
  ELSE IF pair = {"process", "code"} THEN "CREATES"
  ELSE IF pair = {"log", "process"} THEN "DETECTED_BY"
  ELSE "RELATED_TO"

Call(a, b, type) == [left |-> a, right |-> b, type |-> type]
Self(a) == Node("ARTEFACT", a.id)
\* _link_artefact_entities: a category without an entity links nothing.
EntityCalls(a) ==
  (IF a.category \in DOMAIN EntityOf
   THEN <<Call(Self(a), Node(EntityOf[a.category], a.about), "FOUND_IN")>> ELSE <<>>)
  \o (IF a.user # None THEN <<Call(Self(a), Node("USER_ACCOUNT", a.user), "FOUND_IN")>> ELSE <<>>)
\* Correlations count only inside the set, and never with the artefact itself.
RelatedCalls(j, a) ==
  LET Related(b) == b.id \in a.near /\ b.id # a.id IN
  FlattenSeq([n \in DOMAIN Found[j] |-> LET b == Found[j][n] IN
                IF Related(b) THEN <<Call(Self(a), Self(b), EdgeType(a, b))>> ELSE <<>>])
ArtefactCalls(j) ==
  FlattenSeq([n \in DOMAIN Found[j] |-> EntityCalls(Found[j][n]) \o RelatedCalls(j, Found[j][n])])
\* An entry's id is new for every job, whatever its value; its tags name no actor.
IocCalls(j) ==
  [n \in DOMAIN Listed[j] |->
     Call(Node("IOC", j \o Listed[j][n]), Node("DATASET", j), "FOUND_IN")]
CallsOf(j) == ArtefactCalls(j) \o IocCalls(j)
-----------------------------------------------------------------------------
Idle == [at |-> "idle", depth |-> 0, frontier |-> {}, next |-> {}, seen |-> {}, current |-> Nobody, near |-> {},
         before |-> {}, jobs |-> {}]

Init ==
  /\ pc = [j \in Jobs |-> "running"] /\ todo = [j \in Jobs |-> <<>>]
  /\ types = <<>> /\ added = 0
  /\ query = [r \in Readers |-> Idle]

Edges == DOMAIN types
Nodes == UNION Edges
Near(edges, n) == {m \in UNION edges : m # n /\ {n, m} \in edges}

\* on_pipeline_complete holds the event loop from the first edge to the saved file.
BeginGrowth(j) ==
  /\ pc[j] = "running" /\ \A k \in Jobs : pc[k] # "growing"
  /\ pc' = [pc EXCEPT ![j] = "growing"]
  /\ todo' = [todo EXCEPT ![j] = CallsOf(j)]
  /\ UNCHANGED <<types, added, query>>

\* An edge of the same type is left alone; one of another type is overwritten.
Counts(c) == {c.left, c.right} \in Edges => types[{c.left, c.right}] # c.type
AddEdge(j) ==
  /\ pc[j] = "growing" /\ todo[j] # <<>>
  /\ LET c == Head(todo[j]) edge == {c.left, c.right} IN
       /\ types' = IF Counts(c) THEN [e \in Edges \cup {edge} |-> IF e = edge THEN c.type ELSE types[e]] ELSE types
       /\ added' = IF Counts(c) THEN added + 1 ELSE added
  /\ todo' = [todo EXCEPT ![j] = Tail(@)]
  /\ UNCHANGED <<pc, query>>

EndGrowth(j) ==
  /\ pc[j] = "growing" /\ todo[j] = <<>>
  /\ pc' = [pc EXCEPT ![j] = "over"]
  /\ UNCHANGED <<todo, types, added, query>>
-----------------------------------------------------------------------------
(* query_related, on a thread: one neighbourhood after another             *)

Grown == {j \in Jobs : pc[j] = "over"}
\* "before" and "jobs" are what the graph and its jobs were at the start.
Ask(r) ==
  LET start == Node("ARTEFACT", Asks[r]) IN
  /\ query[r].at = "idle"
  /\ query' = [query EXCEPT ![r] =
       [@ EXCEPT !.at = IF start \in Nodes THEN "walking" ELSE "empty", !.before = Edges, !.jobs = Grown,
                 !.frontier = {start}, !.seen = {start}]]
  /\ UNCHANGED <<pc, todo, types, added>>

\* The iterator over the neighbours of one node of the frontier.
Visit(r) ==
  /\ query[r].at = "walking" /\ query[r].current = Nobody /\ query[r].depth < Depth
  /\ \E n \in query[r].frontier :
       query' = [query EXCEPT ![r].current = n, ![r].near = Near(Edges, n)]
  /\ UNCHANGED <<pc, todo, types, added>>

\* A neighbour added under the iterator raises RuntimeError, which the caller takes
\* for having no context.
Walk(r) ==
  LET q == query[r] new == q.near \ q.seen IN
  /\ q.at = "walking" /\ q.current # Nobody
  /\ query' = [query EXCEPT ![r] =
       IF Near(Edges, q.current) # q.near THEN [q EXCEPT !.at = "raised"]
       ELSE [q EXCEPT !.seen = @ \cup new, !.next = @ \cup new, !.frontier = @ \ {q.current}, !.current = Nobody]]
  /\ UNCHANGED <<pc, todo, types, added>>

Descend(r) ==
  LET q == query[r] last == q.depth + 1 = Depth \/ q.next = {} IN
  /\ q.at = "walking" /\ q.current = Nobody /\ q.frontier = {}
  /\ query' = [query EXCEPT ![r].depth = @ + 1, ![r].frontier = q.next, ![r].next = {},
                            ![r].at = IF last THEN "found" ELSE @]
  /\ UNCHANGED <<pc, todo, types, added>>

Next ==
  \/ \E j \in Jobs : BeginGrowth(j) \/ AddEdge(j) \/ EndGrowth(j)
  \/ \E r \in Readers : Ask(r) \/ Visit(r) \/ Walk(r) \/ Descend(r)

Spec == Init /\ [][Next]_vars
-----------------------------------------------------------------------------
(* Properties                                                              *)

TypeOK ==
  /\ pc \in [Jobs -> {"running", "growing", "over"}] /\ added \in Nat
  /\ \A e \in Edges : Cardinality(e) = 2
  /\ \A r \in Readers : query[r].at \in {"idle", "walking", "empty", "found", "raised"} /\ query[r].depth \in 0..Depth

\* The nodes at most n edges away from one, for each n up to the depth.
Ball(edges, from) ==
  LET ball[n \in 0..Depth] ==
        IF n = 0 THEN {from} ELSE ball[n - 1] \cup UNION {Near(edges, m) : m \in ball[n - 1]}
  IN ball
Within(edges, from) == Ball(edges, from)[Depth]

\* A walk that ends has found all that was near when it began, and nothing that is
\* not near by now, however the graph grew under it.
WalksAreCurrent ==
  \A r \in Readers : query[r].at = "found" =>
    LET start == Node("ARTEFACT", Asks[r]) IN
    Within(query[r].before, start) \subseteq query[r].seen /\ query[r].seen \subseteq Within(Edges, start)

\* Artefacts of jobs that were over when a walk began and are about the same thing
\* find each other; indicators, which hang on their job alone, find no artefact.
ArtefactsOf(jobs) == UNION {{Found[j][n] : n \in DOMAIN Found[j]} : j \in jobs}
SameThing(a, b) ==
  \/ a.category = b.category /\ a.category \in DOMAIN EntityOf /\ a.about = b.about
  \/ a.user = b.user /\ a.user # None
SharedIsFound ==
  \A r \in Readers : query[r].at = "found" =>
    /\ \A a, b \in ArtefactsOf(query[r].jobs) : a.id = Asks[r] /\ SameThing(a, b) => Self(b) \in query[r].seen
    /\ \A n \in query[r].seen : n[1] \notin {"IOC", "DATASET"}

\* What the hooks reported is what the graph gained: an edge that two artefacts, or
\* two jobs, name is counted once, and no edge changed its type on the way.
Wanted(j) == Range(CallsOf(j))
CountsAgree ==
  /\ added = Cardinality(Edges)
  /\ \A j \in Grown : \A c \in Wanted(j) : {c.left, c.right} \in Edges /\ types[{c.left, c.right}] = c.type

\* A walk goes from one artefact over what it is about to another; artefacts and
\* indicators come in lists, and an id stands for artefacts of one category.
Ordered(list) == Len(list) \in Nat /\ DOMAIN list = 1..Len(list)
Sensible ==
  /\ Depth \in Nat /\ Depth >= 2
  /\ \A j \in Jobs : Ordered(Found[j]) /\ Ordered(Listed[j])
  /\ \A a, b \in ArtefactsOf(Jobs) : a.id = b.id => a.category = b.category

\* The graph of several jobs, each walk of it and the numbers its hooks reported.
GraphSafe == TypeOK /\ WalksAreCurrent /\ SharedIsFound /\ CountsAgree
=============================================================================
