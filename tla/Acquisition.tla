----------------------------- MODULE Acquisition -----------------------------
(***************************************************************************)
(* The acquisition stage of pipeline jobs over one evidence item: it reads *)
(* the file again and again (verify_evidence, the custody record, the      *)
(* loader, the image handler), while others may edit it, opens a handle on *)
(* a disk image and moves the evidence to PROCESSING while others move it  *)
(* too. A hash is the content it was computed from.                        *)
(***************************************************************************)
EXTENDS Naturals, Sequences, FiniteSets, EvidenceTransitions

CONSTANTS
  Jobs, Contents, Original, Gone,
  MaxEdits, MaxMoves   \* bounds on what others do to the file and the status

VARIABLES
  kind, soft, stored,  \* "disk" or "memory"; DFAT_E2E_SOFT_ACQUIRE; is there a hash set
  file, edits,
  status, moves,
  records,             \* ACCESSED records [job, hash]
  job                  \* per job: place, last content read, the hash it holds, its handle

vars == <<kind, soft, stored, file, edits, status, moves, records, job>>
setting == <<kind, soft, stored>>
others == <<setting, file, edits, status, moves>>

Init ==
  /\ kind \in {"disk", "memory"} /\ soft \in BOOLEAN /\ stored \in BOOLEAN
  /\ file \in Contents /\ edits = 0 /\ status \in {"validated", "quarantined"} /\ moves = 0
  /\ records = <<>>
  /\ job = [j \in Jobs |-> [pc |-> "idle", read |-> Gone, hash |-> Gone, handle |-> "none"]]

At(j, where) == job[j].pc = where
Goto(j, where) == job' = [job EXCEPT ![j].pc = where]
\* A job reads the file: it fails when there is none, or when it was to be a content
\* and is another.
Reads(j, accept, next) ==
  job' = [job EXCEPT ![j].pc = IF file # Gone /\ file \in accept THEN next ELSE "failed", ![j].read = file]
-----------------------------------------------------------------------------
(* verify_evidence                                                         *)

Compute(j) ==
  /\ At(j, "idle")
  /\ job' = [job EXCEPT ![j].pc = IF file = Gone THEN "failed" ELSE "computed", ![j].read = file, ![j].hash = file]
  /\ UNCHANGED <<others, records>>

\* With a stored hash set the file is read once more; without one the hash just
\* computed is compared, and returned as the hash set.
Compare(j) ==
  /\ At(j, "computed")
  /\ IF stored
     THEN job' = [job EXCEPT ![j].pc = IF file = Original THEN "verified" ELSE "failed", ![j].read = file, ![j].hash = Original]
     ELSE Goto(j, IF job[j].hash = Original THEN "verified" ELSE "failed")
  /\ UNCHANGED <<others, records>>

\* record_access: the check against the baseline, then the hash of the record.
CheckBaseline(j) ==
  /\ At(j, "verified") /\ Reads(j, {Original}, "access")
  /\ UNCHANGED <<others, records>>
RecordAccess(j) ==
  /\ At(j, "access") /\ Reads(j, Contents, "recording")
  /\ UNCHANGED <<others, records>>
KeepRecord(j) ==
  /\ At(j, "recording")
  /\ \/ Goto(j, "recorded") /\ records' = Append(records, [job |-> j, hash |-> job[j].read])
     \/ Goto(j, "failed") /\ UNCHANGED records
  /\ UNCHANGED others
-----------------------------------------------------------------------------
(* load_evidence                                                           *)

\* verify_hash_set against what verify_evidence returned, then the handler: in the
\* soft mode of the end-to-end tests nothing is opened.
BadVerify(j) ==
  /\ At(j, "recorded") /\ Reads(j, Contents, IF soft THEN "loaded" ELSE "open")
  /\ UNCHANGED <<others, records>>
Verify(j) ==
  /\ At(j, "recorded") /\ Reads(j, {job[j].hash}, IF soft THEN "loaded" ELSE "open")
  /\ UNCHANGED <<others, records>>

\* open_image compares the file with the record once more; the library may be
\* missing or refuse the image.
OpenImage(j) ==
  /\ At(j, "open") /\ kind = "disk"
  /\ \/ Goto(j, "failed")
     \/ file = Original /\ job' = [job EXCEPT ![j].pc = "mount", ![j].read = file, ![j].handle = "open"]
  /\ UNCHANGED <<others, records>>

\* get_filesystem; when it fails the image is closed.
Mount(j) ==
  /\ At(j, "mount")
  /\ \/ Goto(j, "loaded")
     \/ job' = [job EXCEPT ![j].pc = "failed", ![j].handle = "closed"]
  /\ UNCHANGED <<others, records>>

\* A memory dump is only looked for: the context holds its path.
ValidateDump(j) ==
  /\ At(j, "open") /\ kind = "memory"
  /\ Goto(j, IF file = Gone THEN "failed" ELSE "loaded")
  /\ UNCHANGED <<others, records>>

\* EVIDENCE_LOADED_FOR_PIPELINE; if the entry fails, nobody closes the handle.
Loaded(j) ==
  /\ At(j, "loaded") /\ (Goto(j, "move") \/ Goto(j, "failed"))
  /\ UNCHANGED <<others, records>>
-----------------------------------------------------------------------------
(* _transition_to_processing                                               *)

\* The status is read; another job may have moved it, which is fine.
Decide(j) ==
  /\ At(j, "move")
  /\ Goto(j, IF EvidenceMayMove(status, "processing") THEN "writing"
             ELSE IF status = "processing" THEN "done" ELSE "refused")
  /\ UNCHANGED <<others, records>>
Write(j) ==
  /\ At(j, "writing")
  /\ \/ Goto(j, "done") /\ status' = "processing"
     \/ Goto(j, "failed") /\ UNCHANGED status
  /\ UNCHANGED <<setting, file, edits, moves, records>>
\* Refused, it looks at the status a second time.
LookAgain(j) ==
  /\ At(j, "refused") /\ Goto(j, IF status = "processing" THEN "done" ELSE "failed")
  /\ UNCHANGED <<others, records>>
-----------------------------------------------------------------------------
Edit ==
  /\ edits < MaxEdits /\ edits' = edits + 1 /\ file' \in (Contents \cup {Gone}) \ {file}
  /\ UNCHANGED <<setting, status, moves, records, job>>
MovedElsewhere ==
  /\ moves < MaxMoves /\ moves' = moves + 1 /\ status' \in EvidenceNext[status]
  /\ UNCHANGED <<setting, file, edits, records, job>>

Stage(j) ==
  \/ Compute(j) \/ Compare(j) \/ CheckBaseline(j) \/ RecordAccess(j) \/ KeepRecord(j)
  \/ Verify(j) \/ OpenImage(j) \/ Mount(j) \/ ValidateDump(j) \/ Loaded(j)
  \/ Decide(j) \/ Write(j) \/ LookAgain(j)
Next == (\E j \in Jobs : Stage(j)) \/ Edit \/ MovedElsewhere

Spec == Init /\ [][Next]_vars
-----------------------------------------------------------------------------
(* Properties                                                              *)

HandedOver == {"loaded", "move", "writing", "refused", "done"}
TypeOK ==
  /\ file \in Contents \cup {Gone} /\ status \in EvidenceStatuses
  /\ \A j \in Jobs : job[j].pc \in HandedOver \cup {"idle", "computed", "verified", "access", "recording",
                                                     "recorded", "open", "mount", "failed"}

\* However the file is edited between its readings, what a stage hands over was the
\* acquired content when it was read last, and so was all a handle was opened on.
HandsOverOriginal ==
  \A j \in Jobs : At(j, "done") \/ At(j, "loaded") \/ job[j].handle = "open" => job[j].read = Original

\* A stage that hands something over has its one ACCESSED record; a record that
\* holds another hash than the acquired one is that of a file put back in between.
AccessOnRecord ==
  \A j \in Jobs : LET mine == {n \in DOMAIN records : records[n].job = j} IN
    /\ Cardinality(mine) <= 1
    /\ At(j, "done") => mine # {} /\ (edits < 2 => \A n \in mine : records[n].hash = Original)

\* Only a stage that had the evidence loaded ends with an open handle.
NoHandleForNothing ==
  \A j \in Jobs : At(j, "failed") /\ job[j].handle = "open" =>
    kind = "disk" /\ ~soft /\ \E n \in DOMAIN records : records[n].job = j

\* What the stage read, recorded and opened, whatever others do at the same time.
AcquisitionSafe == TypeOK /\ HandsOverOriginal /\ AccessOnRecord /\ NoHandleForNothing
=============================================================================
