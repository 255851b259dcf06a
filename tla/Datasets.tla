------------------------------ MODULE Datasets ------------------------------
(***************************************************************************)
(* The dataset registry (dataset_intelligence/): the tick of the watcher   *)
(* and an administrator's scan both walk the directory, look each content  *)
(* up by its hash and save what is new, while datasets are refreshed,      *)
(* reindexed and removed and files change.  A content is a number; its     *)
(* hash is that number.                                                    *)
(***************************************************************************)
EXTENDS Naturals, Sequences, FiniteSets, SequencesExt

CONSTANTS
  Order,    \* the paths, in the order of a walk
  Contents, \* per content, [format, words, body]
  Watcher,  \* calls register_all at every tick
  Scanner,  \* an administrator who does so
  Admin,    \* the caller of refresh, reindex and delete
  Budget,   \* changes of files and administrator's calls in one behaviour
  Ids       \* dataset ids; one that is used nowhere may be used again

VARIABLES
  disk, \* per path, its content, 0 when there is none
  rows, \* per path, its row (file_path is unique), or NoRow
  pc, at, found, \* per caller: its place, its position, what its scan found
  held, exists, \* the record it will save; whether _load_existing found a row
  calls \* what is left of Budget

vars == <<disk, rows, pc, at, found, held, exists, calls>>

Paths == ToSet(Order)
Scanners == {Watcher, Scanner}
Callers == Scanners \cup {Admin}
NoRow == [id |-> 0]
Nothing == [path |-> Order[1], row |-> NoRow]

\* Three callers, and an id for each path and each record that is being saved.
Sensible ==
  /\ Watcher # Scanner /\ Admin \notin Scanners /\ Budget \in Nat
  /\ Len(Order) \in Nat \ {0} /\ DOMAIN Order = 1..Len(Order) /\ Len(Contents) \in Nat
  /\ IsFiniteSet(Ids) /\ 0 \notin Ids /\ Cardinality(Ids) >= Cardinality(Paths) + Cardinality(Callers)
-----------------------------------------------------------------------------
(* What becomes of one file                                                *)

Rule(words, formats, category) == [words |-> words, formats |-> formats, category |-> category, named |-> FALSE]
Operational == {"disk_image", "memory_dump", "pcap", "evtx", "registry_hive"}
ClassificationRules == <<
  Rule({"dfrws"}, {}, "benchmark"), Rule({"cfreds", "nist"}, {}, "benchmark"), Rule({"digital-corpora"}, {}, "benchmark"),
  Rule({"malware", "samples"}, {}, "machine_learning"),
  Rule({"yara"}, {"yara_rules"}, "threat_intelligence"), Rule({"sigma"}, {"sigma_rules"}, "threat_intelligence"),
  Rule({"stix", "taxii"}, {}, "threat_intelligence"), Rule({"mitre"}, {}, "threat_intelligence"),
  Rule({"ioc", "indicators"}, {}, "threat_intelligence"), Rule({"phishing", "ransomware"}, {}, "machine_learning"),
  Rule({}, Operational, "forensic_operational"),
  [Rule({}, {"csv", "json"}, "machine_learning") EXCEPT !.named = TRUE] >>
LearningWords == {"train", "test", "labels", "features", "model", "dataset", "corpus", "benign", "malicious"}

\* Words are looked for in the whole path.
Applies(rule, f) ==
  /\ rule.words = {} \/ rule.words \cap f.words # {}
  /\ rule.formats = {} \/ f.format \in rule.formats
  /\ rule.named => LearningWords \cap f.words # {}

\* The first rule that applies.
Classify(f) ==
  LET hits == {n \in DOMAIN ClassificationRules : Applies(ClassificationRules[n], f)}
  IN IF hits = {} THEN "user_uploaded" ELSE ClassificationRules[Min(hits)].category

\* _validate_by_format: what a body must be; the others are only opened.
Validates(f) ==
  CASE f.format \in {"disk_image", "memory_dump", "csv", "yara_rules"} -> f.body \notin {"empty", "garbage"}
    [] f.format \in {"json", "sigma_rules"} -> f.body \in {"list", "object", "bundle", "odd"}
    [] f.format = "stix_bundle" -> f.body = "bundle"
    [] f.format = "archive" -> f.body = "archive"
    [] OTHER -> TRUE
\* A JSON object whose "objects" have no length stops the summary.
Preprocesses(f) ==
  ~(f.body = "odd" /\ f.format = "json" /\ Classify(f) \in {"benchmark", "threat_intelligence", "machine_learning"})
Outcome(content) ==
  IF content # 0 /\ Validates(Contents[content]) /\ Preprocesses(Contents[content]) THEN "ready" ELSE "failed"
-----------------------------------------------------------------------------
Active(p) == rows[p] # NoRow /\ ~rows[p].deleted
ByHash(hash) == {p \in Paths : Active(p) /\ rows[p].hash = hash}
FreshId == CHOOSE i \in Ids : \A p \in Paths : rows[p].id # i /\ \A c \in Callers : held[c].row.id # i
Row(id, content) ==
  [id |-> id, hash |-> content, category |-> Classify(Contents[content]), status |-> "discovered",
   indexing |-> "pending", deleted |-> FALSE]

Init ==
  /\ disk = [p \in Paths |-> 1] /\ rows = [p \in Paths |-> NoRow]
  /\ pc = [c \in Callers |-> "idle"] /\ at = [c \in Callers |-> 1] /\ found = [c \in Callers |-> <<>>]
  /\ held = [c \in Callers |-> Nothing] /\ exists = [c \in Callers |-> FALSE]
  /\ calls = Budget

Goto(c, from, to) == pc[c] = from /\ pc' = [pc EXCEPT ![c] = to]

StartScan(c) ==
  /\ (c = Watcher \/ calls > 0) /\ Goto(c, "idle", "scan")
  /\ calls' = IF c = Watcher THEN calls ELSE calls - 1
  /\ UNCHANGED <<disk, rows, at, found, held, exists>>

\* scan: one file after the other is hashed; one that is gone is counted and left out.
ScanFile(c) ==
  /\ Goto(c, "scan", IF at[c] < Len(Order) THEN "scan" ELSE "check")
  /\ LET p == Order[at[c]] IN
       found' = IF disk[p] = 0 THEN found ELSE [found EXCEPT ![c] = Append(@, [path |-> p, hash |-> disk[p]])]
  /\ at' = [at EXCEPT ![c] = IF @ < Len(Order) THEN @ + 1 ELSE 1]
  /\ UNCHANGED <<disk, rows, held, exists, calls>>

\* register_all: a content some active row has is only noted as seen.
Touch(c) ==
  /\ pc[c] = "check" /\ at[c] <= Len(found[c]) /\ ByHash(found[c][at[c]].hash) # {}
  /\ at' = [at EXCEPT ![c] = @ + 1]
  /\ UNCHANGED <<disk, rows, pc, found, held, exists, calls>>
BadNewContent(c) ==
  /\ at[c] <= Len(found[c]) /\ Goto(c, "check", "process")
  /\ LET f == found[c][at[c]] IN
       /\ ByHash(f.hash) = {} /\ ~Active(f.path)
       /\ held' = [held EXCEPT ![c] = [path |-> f.path, row |-> Row(FreshId, f.hash)]]
  /\ UNCHANGED <<disk, rows, at, found, exists, calls>>
NewContent(c) ==
  /\ at[c] <= Len(found[c]) /\ Goto(c, "check", "process")
  /\ LET f == found[c][at[c]] IN
       /\ ByHash(f.hash) = {}
       /\ held' = [held EXCEPT ![c] = [path |-> f.path, row |-> Row(FreshId, f.hash)]]
  /\ UNCHANGED <<disk, rows, at, found, exists, calls>>
ScanOver(c) ==
  /\ at[c] > Len(found[c]) /\ Goto(c, "check", "idle")
  /\ at' = [at EXCEPT ![c] = 1] /\ found' = [found EXCEPT ![c] = <<>>]
  /\ UNCHANGED <<disk, rows, held, exists, calls>>

\* _process_dataset: the file is read again, as it is now.
Process(c) ==
  /\ Goto(c, "process", "load") /\ held' = [held EXCEPT ![c].row.status = Outcome(disk[held[c].path])]
  /\ UNCHANGED <<disk, rows, at, found, exists, calls>>

\* save: a row of the same id or path, deleted or not.
LoadExisting(c) ==
  /\ Goto(c, "load", "commit") /\ exists' = [exists EXCEPT ![c] = rows[held[c].path] # NoRow]
  /\ UNCHANGED <<disk, rows, at, found, held, calls>>

Leave(c) ==
  /\ held' = [held EXCEPT ![c] = Nothing] /\ exists' = [exists EXCEPT ![c] = FALSE]
  /\ UNCHANGED <<disk, calls>>
Commit(c) ==
  /\ exists[c] \/ rows[held[c].path] = NoRow
  /\ rows' = [rows EXCEPT ![held[c].path] = held[c].row]
  /\ Goto(c, "commit", IF c = Admin THEN "idle" ELSE "check")
  /\ at' = [at EXCEPT ![c] = IF c = Admin THEN 1 ELSE @ + 1] /\ UNCHANGED found /\ Leave(c)
\* The row was inserted in between: file_path is unique, and the error ends the whole scan.
CommitFails(c) ==
  /\ ~exists[c] /\ rows[held[c].path] # NoRow
  /\ Goto(c, "commit", "idle") /\ at' = [at EXCEPT ![c] = 1] /\ found' = [found EXCEPT ![c] = <<>>]
  /\ UNCHANGED rows /\ Leave(c)

-----------------------------------------------------------------------------
\* refresh_dataset, also of a removed one; a file that is gone fails the call.
Refresh(p) ==
  /\ calls > 0 /\ calls' = calls - 1 /\ rows[p] # NoRow /\ disk[p] # 0 /\ Goto(Admin, "idle", "process")
  /\ held' = [held EXCEPT ![Admin] = [path |-> p, row |-> Row(rows[p].id, disk[p])]]
  /\ UNCHANGED <<disk, rows, at, found, exists>>

\* reindex_dataset saves the whole record it read; is_deleted is not part of it.
Reindex(p) ==
  /\ calls > 0 /\ calls' = calls - 1 /\ rows[p] # NoRow /\ Goto(Admin, "idle", "load")
  /\ held' = [held EXCEPT ![Admin] =
       [path |-> p, row |-> [rows[p] EXCEPT !.indexing = "complete", !.deleted = FALSE]]]
  /\ UNCHANGED <<disk, rows, at, found, exists>>

RemoveDataset(p) ==
  /\ calls > 0 /\ calls' = calls - 1 /\ rows[p] # NoRow
  /\ rows' = [rows EXCEPT ![p].deleted = TRUE, ![p].status = "archived"]
  /\ UNCHANGED <<disk, pc, at, found, held, exists>>

\* A file is written, changed to a later content, or deleted.
ChangeFile(p) ==
  /\ calls > 0 /\ calls' = calls - 1
  /\ \E content \in 0..Len(Contents) : (content = 0 \/ content > disk[p]) /\ content # disk[p] /\ disk' = [disk EXCEPT ![p] = content]
  /\ UNCHANGED <<rows, pc, at, found, held, exists>>

Save(c) == Process(c) \/ LoadExisting(c) \/ Commit(c) \/ CommitFails(c)
Scan(c) == StartScan(c) \/ ScanFile(c) \/ Touch(c) \/ NewContent(c) \/ ScanOver(c)
Next ==
  \/ \E c \in Scanners : Scan(c)
  \/ \E c \in Callers : Save(c)
  \/ \E p \in Paths : Refresh(p) \/ Reindex(p) \/ RemoveDataset(p) \/ ChangeFile(p)
\* The worker ticks for as long as the process runs, and calls that began go on.
Fairness == \A c \in Callers : WF_vars(Save(c)) /\ (c \in Scanners => WF_vars(Scan(c)))
Spec == Init /\ [][Next]_vars /\ Fairness

-----------------------------------------------------------------------------
TypeOK == calls \in 0..Budget /\ \A p \in Paths : rows[p] # NoRow => rows[p].id \in Ids

\* Two paths never share an id, whatever copies are saved over what came between; and
\* an active row has the category its content gives it.
RowsApart ==
  /\ \A p, q \in Paths : p # q /\ rows[p] # NoRow => rows[p].id # rows[q].id
  /\ \A p \in Paths : rows[p] # NoRow => rows[p].category = Classify(Contents[rows[p].hash])

\* Training data is never taken for a benchmark or for intelligence unless its path says so.
NamedByPath ==
  \A n \in DOMAIN Contents : LET f == Contents[n] IN
    f.words \subseteq LearningWords => Classify(f) \in {"machine_learning", "forensic_operational", "user_uploaded"}

DatasetsSafe == TypeOK /\ RowsApart /\ NamedByPath

\* Once files and administrator rest, every content on the disk has an active row,
\* although ticks, scans and stale copies overwrote each other. (Its status may be that
\* of another content the file had while it was processed.)
AllRegistered == \A p \in Paths : disk[p] # 0 => ByHash(disk[p]) # {}
Registered == <>[]AllRegistered
=============================================================================
