------------------------------ MODULE Knowledge ------------------------------
(***************************************************************************)
(* The knowledge base (knowledge/) and its use by the triage of jobs that  *)
(* run in threads of their own: RAGEnhancedAnalyzer swaps the templates of *)
(* the one LLM client for the time of a call, the hooks of a completed job *)
(* write vectors, the graph and indicators, a reindex writes a dataset.    *)
(* A context is the set of its sources; 0 stands for the templates         *)
(* the client was built with.                                              *)
(***************************************************************************)
EXTENDS Naturals, Sequences, FiniteSets, SequencesExt

CONSTANTS
  Jobs,       \* pipeline jobs, numbered
  Earlier,    \* those of them an earlier process completed
  FindingsOf, \* per job, its artefacts: sets of [field, value]
  Lines,      \* per version of the dataset's file, its lines
  Lengths,    \* lengths of paragraphs
  Size,       \* chunk_size
  Overlap     \* overlap

VARIABLES
  pc, call,   \* per job: its place; "analyze", then "summarize"
  lock, templates, orig, \* of _bind_rag_prompts; orig is what a job puts back
  sources,    \* per job, what its context was built from
  vectors,    \* "artefacts": [job, field, value]
  iocs,       \* rows [type, value, source]
  graph, file, \* edges in memory and in knowledge_graph.pkl ("torn" when cut off)
  version, row, docs, indexing \* the dataset's file, its row, its documents, what a reindex holds

analysis == <<pc, call, lock, templates, orig, sources>>
stores == <<vectors, iocs, graph, file>>
dataset == <<version, row, docs, indexing>>
vars == <<analysis, stores, dataset>>

\* Jobs have numbers of their own beside 0, artefacts the fields that are stored.
Fields == {"address", "domain", "hostname", "url", "hash", "name", "key", "listed"}
Sensible ==
  /\ Jobs \subseteq Nat \ {0} /\ Earlier \subseteq Jobs
  /\ \A j \in Jobs : \A a \in FindingsOf[j] : a.field \in Fields
  /\ Len(Lines) \in Nat \ {0} /\ DOMAIN Lines = 1..Len(Lines)
  /\ Lengths \subseteq Nat /\ Size \in Nat \ {0} /\ Overlap \in Nat

Plain == {0}
Torn == {<<"torn">>}
-----------------------------------------------------------------------------
(* What is stored of an artefact and what is looked up for one             *)

\* _IOC_FIELDS; lists of indicators are stored under a type no lookup asks for.
StoredType(field) ==
  CASE field \in {"address"} -> "ip" [] field \in {"domain", "hostname", "url"} -> "domain"
    [] field = "hash" -> "hash" [] field = "name" -> "process" [] field = "key" -> "registry"
    [] OTHER -> "indicator"
\* _extract_artefact_indicators, which has no url, and the types each lookup accepts.
Asked(artefacts) == {a \in artefacts : a.field \notin {"url", "listed"}}
Accepted(type) ==
  CASE type = "hash" -> {"hash", "file_hash", "sha256", "sha1", "md5"} [] type = "ip" -> {"ip", "ip_address", "ipv4", "ipv6"}
    [] type = "domain" -> {"domain", "hostname", "fqdn", "url"}
    [] type = "process" -> {"process", "process_name", "binary", "filename"}
    [] OTHER -> {"registry", "registry_key", "key_path"}
Vectors(j) == {[job |-> j, field |-> a.field, value |-> a.value] : a \in FindingsOf[j]}
Entries(j) == {[type |-> StoredType(a.field), value |-> a.value, source |-> j] : a \in FindingsOf[j]}
Edges(j) == {<<a.value, j>> : a \in FindingsOf[j]}

Lookup(artefacts) ==
  {r \in iocs : \E a \in Asked(artefacts) : r.value = a.value /\ r.type \in Accepted(StoredType(a.field))}

\* The nearest neighbours in "artefacts" are there as soon as anything is.
Known(j) == {v.job : v \in vectors} \cup {r.source : r \in Lookup(FindingsOf[j])}

Init ==
  /\ pc = [j \in Jobs |-> IF j \in Earlier THEN "over" ELSE "idle"] /\ call = [j \in Jobs |-> "analyze"]
  /\ lock = 0 /\ templates = Plain /\ orig = [j \in Jobs |-> Plain]
  /\ sources = [j \in Jobs |-> {}]
  /\ vectors = UNION {Vectors(j) : j \in Earlier} /\ iocs = UNION {Entries(j) : j \in Earlier}
  /\ graph = UNION {Edges(j) : j \in Earlier} /\ file = graph
  /\ version = 1 /\ row = "pending" /\ docs = {} /\ indexing = {}

-----------------------------------------------------------------------------
(* analyze and summarize                                                   *)

Goto(j, from, to) == pc[j] = from /\ pc' = [pc EXCEPT ![j] = to]

\* The model is not there: the rules answer, no prompt is rendered.
NoModel(j) ==
  /\ Goto(j, "idle", "next")
  /\ UNCHANGED <<call, lock, templates, orig, sources, stores, dataset>>

\* The context; a failing search counts as an empty knowledge base.
BuildContext(j) ==
  /\ pc[j] = "idle"
  /\ \E found \in {Known(j), {}} :
       /\ sources' = [sources EXCEPT ![j] = found]
       /\ pc' = [pc EXCEPT ![j] = IF found = {} THEN "bare" ELSE "found"]
  /\ UNCHANGED <<call, lock, templates, orig, stores, dataset>>

\* Without a context the client is called as it is.
AskBare(j) ==
  /\ Goto(j, "bare", "next")
  /\ UNCHANGED <<call, lock, templates, orig, sources, stores, dataset>>

\* The templates to put back are read before the lock is taken.
ReadTemplates(j) ==
  /\ Goto(j, "found", "waiting") /\ orig' = [orig EXCEPT ![j] = templates]
  /\ UNCHANGED <<call, lock, templates, sources, stores, dataset>>

BadBind(j) ==
  /\ Goto(j, "waiting", "bound") /\ lock' = j /\ templates' = sources[j]
  /\ UNCHANGED <<call, orig, sources, stores, dataset>>
Bind(j) ==
  /\ Goto(j, "waiting", "bound") /\ lock = 0 /\ lock' = j /\ templates' = sources[j]
  /\ UNCHANGED <<call, orig, sources, stores, dataset>>

\* Prompts are rendered while bound; then the call returns or raises.
Release(j) ==
  /\ Goto(j, "bound", "next") \/ Goto(j, "bound", "raised")
  /\ lock' = 0 /\ templates' = orig[j] /\ orig' = [orig EXCEPT ![j] = Plain]
  /\ UNCHANGED <<call, sources, stores, dataset>>

\* The stage summarises next; after a failure it takes the rules instead.
Continue(j) ==
  /\ \/ pc[j] = "next" /\ call[j] = "analyze" /\ call' = [call EXCEPT ![j] = "summarize"] /\ pc' = [pc EXCEPT ![j] = "idle"]
     \/ (pc[j] = "raised" \/ (pc[j] = "next" /\ call[j] = "summarize")) /\ pc' = [pc EXCEPT ![j] = "completed"] /\ UNCHANGED call
  /\ sources' = [sources EXCEPT ![j] = {}]
  /\ UNCHANGED <<lock, templates, orig, stores, dataset>>

-----------------------------------------------------------------------------
(* on_pipeline_complete: each store may fail, the next is written all the same *)

IndexArtefacts(j) ==
  /\ Goto(j, "completed", "indexed")
  /\ vectors' \in {vectors, vectors \cup Vectors(j)}
  /\ UNCHANGED <<call, lock, templates, orig, sources, iocs, graph, file, dataset>>

\* Graph and file change in one step of the event loop; writing the file may fail.
GrowGraph(j) ==
  /\ Goto(j, "indexed", "grown")
  /\ graph' = graph \cup Edges(j) /\ file' \in {graph \cup Edges(j), Torn}
  /\ UNCHANGED <<call, lock, templates, orig, sources, vectors, iocs, dataset>>

StoreIocs(j) ==
  /\ Goto(j, "grown", "over") /\ iocs' \in {iocs, iocs \cup Entries(j)}
  /\ UNCHANGED <<call, lock, templates, orig, sources, vectors, graph, file, dataset>>

\* The process dies; the next one loads the file and builds the client anew. A file
\* that cannot be read stops it.
Restart ==
  /\ file # Torn /\ \E j \in Jobs : pc[j] \notin {"idle", "over"}
  /\ graph' = file /\ lock' = 0 /\ templates' = Plain /\ indexing' = {}
  /\ pc' = [j \in Jobs |-> IF pc[j] = "idle" /\ call[j] = "analyze" THEN "idle" ELSE "over"]
  /\ orig' = [j \in Jobs |-> Plain] /\ sources' = [j \in Jobs |-> {}]
  /\ UNCHANGED <<call, vectors, iocs, file, version, row, docs>>

-----------------------------------------------------------------------------
(* The dataset                                                             *)

EditFile ==
  /\ version < Len(Lines) /\ version' = version + 1
  /\ UNCHANGED <<analysis, stores, row, docs, indexing>>

\* Documents are numbered; adding under a number that is there changes nothing.
ReadLines == [n \in DOMAIN Lines[version] |-> [id |-> n, text |-> Lines[version][n]]]
Ids(ds) == {d.id : d \in ds}

ReadDataset ==
  /\ indexing = {} /\ indexing' = ToSet(ReadLines)
  /\ UNCHANGED <<analysis, stores, version, row, docs>>
\* A failure marks only the object of this call, never the row.
IndexingFails ==
  /\ indexing # {} /\ indexing' = {}
  /\ UNCHANGED <<analysis, stores, version, row, docs>>
AddDocuments ==
  /\ indexing # {} /\ docs' = docs \cup {d \in indexing : d.id \notin Ids(docs)}
  /\ indexing' = {} /\ row' \in {row, "complete"}
  /\ UNCHANGED <<analysis, stores, version>>

Analyse(j) == NoModel(j) \/ BuildContext(j) \/ AskBare(j) \/ ReadTemplates(j) \/ Bind(j) \/ Release(j) \/ Continue(j)
Hook(j) == IndexArtefacts(j) \/ GrowGraph(j) \/ StoreIocs(j)
Next == (\E j \in Jobs : Analyse(j) \/ Hook(j)) \/ Restart \/ EditFile \/ ReadDataset \/ IndexingFails \/ AddDocuments
Spec == Init /\ [][Next]_vars

-----------------------------------------------------------------------------
\* _chunk_text of one long paragraph: the next chunk starts Overlap before the end
\* of the last one, and always later than it.
From(s, length) == [first |-> s, last |-> IF s + Size < length THEN s + Size ELSE length]
After(c) == IF c.last - Overlap > c.first + 1 THEN c.last - Overlap ELSE c.first + 1
Chunks(length) ==
  LET next[n \in 1..(length + 1)] ==
        IF n = 1 THEN From(0, length) ELSE From(After(next[n - 1]), length)
      count == CHOOSE n \in 1..(length + 1) : next[n].last >= length /\ \A m \in 1..(n - 1) : next[m].last < length
  IN [n \in 1..count |-> next[n]]

TypeOK ==
  /\ lock \in Jobs \cup {0} /\ row \in {"pending", "complete"} /\ version \in DOMAIN Lines
  /\ \A v \in vectors : v.job \in Jobs

\* The sources a ranking names are those in the prompts it was asked with: while a job
\* holds the lock its own context is bound, whatever other threads put back.
BoundIsOwn == \A j \in Jobs : pc[j] = "bound" => templates = sources[j]

\* A job is never shown its own findings, nor those of a job that is not completed.
NoEcho ==
  \A j \in Jobs : j \notin sources[j] /\ \A k \in sources[j] : pc[k] \notin {"bare", "found", "waiting", "bound"}

\* What one job stored is found for another with the same value in any field the
\* lookup knows.
FoundAgain ==
  \A j, k \in Jobs : iocs \cap Entries(j) # {} =>
    \A a \in Asked(FindingsOf[j]) \cap FindingsOf[k] : \E r \in Lookup(FindingsOf[k]) : r.value = a.value /\ r.source = j

\* A file that can be read holds all of the graph, and a row that says complete has a
\* document for every line some version of its file had.
FileIsGraph == file # Torn => file = graph
CompleteIsThere ==
  row = "complete" => \E v \in 1..version : DOMAIN Lines[v] \subseteq Ids(docs)

\* Chunks of a paragraph cover it without a hole and none is longer than Size.
ChunksCover ==
  \A length \in Lengths : LET cs == Chunks(length) IN
    /\ cs[1].first = 0 /\ cs[Len(cs)].last = length
    /\ \A n \in DOMAIN cs : cs[n].last - cs[n].first <= Size
    /\ \A n \in 2..Len(cs) : cs[n - 1].first < cs[n].first /\ cs[n].first <= cs[n - 1].last

KnowledgeSafe == TypeOK /\ BoundIsOwn /\ NoEcho /\ FoundAgain /\ FileIsGraph /\ CompleteIsThere /\ ChunksCover
=============================================================================
