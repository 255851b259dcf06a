----------------------------- MODULE EvidenceDesk -----------------------------
(***************************************************************************)
(* What is done to one evidence item outside the pipeline, and the         *)
(* pipeline's own status changes: EvidenceManagementService                *)
(* (src/src/dfat/services/evidence_management_service.py),                 *)
(* EvidenceValidationService and MultiHashService (evidence_management/),  *)
(* over the repositories of evidence_status_repo.py.                       *)
(*                                                                         *)
(* Calls overlap at every await. A status change is built, with its time,  *)
(* before the await that commits it; it inserts a history row and sets the *)
(* status of the record in one transaction. The current status is that of  *)
(* the history row with the latest time. The file may be edited or removed *)
(* by others at any moment; a hash is the content it was computed from.    *)
(***************************************************************************)
EXTENDS Naturals, Sequences, FiniteSets, EvidenceTransitions

CONSTANTS
  Calls,     \* the calls that are made
  Kinds,     \* what they may be: functions from Calls to "register", "validate",
             \* "processing" or "processed" (the pipeline's status changes),
             \* "quarantine" or "verify"
  Contents,  \* what the file may hold
  Valid,     \* contents of an acceptable size and type
  None,
  MaxEdits   \* bound on changes of the file

\* An item is registered once: every registration makes a new one.
ASSUME DeskAssumption ==
  /\ Kinds \subseteq [Calls -> {"register", "validate", "processing", "processed", "quarantine", "verify"}]
  /\ \A f \in Kinds : \A k, l \in Calls : f[k] = "register" /\ f[l] = "register" => k = l
  /\ Valid \subseteq Contents /\ None \notin Contents /\ MaxEdits \in Nat

VARIABLES
  kind,      \* what each call is
  file,      \* its content, or None: it is not there
  edits,
  record,    \* evidence_records: known, status, original_hash
  meta,      \* evidence_metadata: the content hashed, or None
  acquired,  \* hash of the ACQUIRED custody record, or None
  history,   \* evidence_status_history, in the order of the commits
  call       \* per call: where it is, its change and what it has seen

vars == <<kind, file, edits, record, meta, acquired, history, call>>
stored == <<kind, record, meta, acquired, history>>

Final == {"done", "refused", "failed", "rejected", "verified"}
Steps == {"idle", "loaded", "saved", "acquire", "enter", "check", "hashed", "kept",
          "audit", "again", "failing", "access", "writing"} \cup Final
NoChange == [prev |-> None, new |-> None, at |-> 0]
Idle == [pc |-> "idle", change |-> NoChange, next |-> "done", hash |-> None, began |-> 0]

At(k, where) == call[k].pc = where
Starts(k, what) == At(k, "idle") /\ kind[k] = what /\ record.known
Goto(k, where) ==
  call' = [call EXCEPT ![k] = IF where \in Final THEN [Idle EXCEPT !.pc = where]
                              ELSE [@ EXCEPT !.pc = where, !.change = NoChange]]

\* get_current_status: the latest history row, else the record's own status.
Current ==
  IF history = <<>> THEN record.status
  ELSE LET i == CHOOSE i \in DOMAIN history :
                  \A j \in DOMAIN history : history[j].at <= history[i].at
       IN history[i].new

\* The clock: later than every change built so far that is still to be seen.
Times == {history[i].at : i \in DOMAIN history} \cup {call[k].change.at : k \in Calls}
Now == 1 + CHOOSE t \in Times : \A u \in Times : u <= t

\* EvidenceStatusChange is built, its commit is to come.
Change(k, prev, new, next, began) ==
  call' = [call EXCEPT ![k].pc = "writing", ![k].next = next, ![k].began = began,
                       ![k].change = [prev |-> prev, new |-> new, at |-> Now]]
Propose(k, prev, new, next) == Change(k, prev, new, next, call[k].began)
Decide(k, prev, new, next)  == Change(k, prev, new, next, Len(history))

\* The item is unknown, or was registered and validated in peace before.
Row(prev, new, at) == [prev |-> prev, new |-> new, at |-> at, began |-> 0]
Peaceful == <<Row(None, "registered", 1), Row("registered", "validating", 2),
              Row("validating", "validated", 3)>>
Init ==
  /\ kind \in Kinds /\ file \in Valid /\ edits = 0
  /\ call = [k \in Calls |-> Idle]
  /\ IF \E k \in Calls : kind[k] = "register"
     THEN /\ record = [known |-> FALSE, status |-> "registered", original |-> None]
          /\ meta = None /\ acquired = None /\ history = <<>>
     ELSE /\ record = [known |-> TRUE, status |-> "validated", original |-> file]
          /\ meta = file /\ acquired = file /\ history = Peaceful

\* add_status_change: history row and record in one commit, or a DatabaseError.
\* The validation turns an error of VALIDATED into a quarantine.
Commit(k) ==
  /\ At(k, "writing")
  /\ history' = Append(history, [prev |-> call[k].change.prev, new |-> call[k].change.new,
                                 at |-> call[k].change.at, began |-> call[k].began])
  /\ record' = [record EXCEPT !.status = call[k].change.new]
  /\ Goto(k, call[k].next)
  /\ UNCHANGED <<kind, file, edits, meta, acquired>>

CommitFails(k) ==
  /\ At(k, "writing")
  /\ Goto(k, IF call[k].next = "audit" THEN "failing" ELSE "failed")
  /\ UNCHANGED <<file, edits, stored>>

-----------------------------------------------------------------------------
(* register_and_validate                                                   *)

\* register_evidence: the handler hashes the file in a worker thread.
Load(k) ==
  /\ At(k, "idle") /\ kind[k] = "register" /\ ~record.known
  /\ call' = [call EXCEPT ![k].pc = IF file = None THEN "failed" ELSE "loaded",
                          ![k].hash = file]
  /\ UNCHANGED <<file, edits, stored>>

SaveRecord(k) ==
  /\ At(k, "loaded")
  /\ record' = [record EXCEPT !.known = TRUE, !.original = call[k].hash]
  /\ Goto(k, "saved")
  /\ UNCHANGED <<kind, file, edits, meta, acquired, history>>

Registered(k) ==
  /\ At(k, "saved")
  /\ Propose(k, None, "registered", "acquire")
  /\ UNCHANGED <<file, edits, stored>>

\* record_acquisition hashes the file again: the baseline of the custody chain.
Acquire(k) ==
  /\ At(k, "acquire")
  /\ IF file = None
     THEN Goto(k, "failed") /\ UNCHANGED acquired
     ELSE acquired' = file /\ Goto(k, "enter")
  /\ UNCHANGED <<kind, file, edits, record, meta, history>>

-----------------------------------------------------------------------------
(* validate_evidence, revalidate_evidence                                  *)

\* Only a quarantined item is first set back to REGISTERED; any other status is
\* overwritten without being looked at.
BadReleases == FALSE
Releases == Current = "quarantined"
Revalidate(k) ==
  /\ Starts(k, "validate")
  /\ IF Releases THEN Decide(k, "quarantined", "registered", "enter")
                 ELSE Decide(k, "registered", "validating", "check")
  /\ UNCHANGED <<file, edits, stored>>

Enter(k) ==
  /\ At(k, "enter")
  /\ Propose(k, "registered", "validating", "check")
  /\ UNCHANGED <<file, edits, stored>>

\* Existence, size, type and, when they pass, the hashes: no await in between.
Check(k) ==
  /\ At(k, "check")
  /\ call' = [call EXCEPT ![k].pc = IF file \in Valid THEN "hashed" ELSE "failing",
                          ![k].hash = file]
  /\ UNCHANGED <<file, edits, stored>>

\* save_metadata, or an error that quarantines.
KeepMetadata(k) ==
  /\ At(k, "hashed")
  /\ \/ meta' = call[k].hash /\ Goto(k, "kept")
     \/ meta' = meta /\ Goto(k, "failing")
  /\ UNCHANGED <<kind, file, edits, record, acquired, history>>

Validated(k) ==
  /\ At(k, "kept")
  /\ Propose(k, "validating", "validated", "audit")
  /\ UNCHANGED <<file, edits, stored>>

\* The file audit trail is inside the try: its error quarantines a validated item.
Audit(k) ==
  /\ At(k, "audit")
  /\ Goto(k, "again") \/ Goto(k, "failing")
  /\ UNCHANGED <<file, edits, stored>>

\* The management service saves the same metadata a second time.
KeepAgain(k) ==
  /\ At(k, "again")
  /\ \/ meta' = call[k].hash /\ Goto(k, "done")
     \/ meta' = meta /\ Goto(k, "failed")
  /\ UNCHANGED <<kind, file, edits, record, acquired, history>>

\* _quarantine: nothing when the item is quarantined already.
Reject(k) ==
  /\ At(k, "failing")
  /\ IF Current = "quarantined"
     THEN Goto(k, "rejected")
     ELSE Propose(k, Current, "quarantined", "rejected")
  /\ UNCHANGED <<file, edits, stored>>

-----------------------------------------------------------------------------
(* transition_evidence_status, quarantine_evidence, verify_evidence        *)

\* The status is read, the change committed after another await.
Move(k) ==
  /\ Starts(k, "processing") \/ Starts(k, "processed")
  /\ IF EvidenceMayMove(Current, kind[k])
     THEN Decide(k, Current, kind[k], "done")
     ELSE Goto(k, "refused")
  /\ UNCHANGED <<file, edits, stored>>

Quarantine(k) ==
  /\ Starts(k, "quarantine")
  /\ IF Current = "quarantined"
     THEN Goto(k, "done")
     ELSE Decide(k, Current, "quarantined", "done")
  /\ UNCHANGED <<file, edits, stored>>

\* Against the stored hashes, or the original one without metadata.
Expected == IF meta = None THEN record.original ELSE meta
Compare(k) ==
  /\ Starts(k, "verify")
  /\ Goto(k, IF file = None THEN "failed" ELSE IF file = Expected THEN "access" ELSE "rejected")
  /\ UNCHANGED <<file, edits, stored>>

\* record_access compares again, with the custody chain's first hash.
Baseline == IF acquired = None THEN record.original ELSE acquired
BadAccepts == file # None
Accepts == file # None /\ file = Baseline
Access(k) ==
  /\ At(k, "access")
  /\ call' = [call EXCEPT ![k] = IF Accepts THEN [Idle EXCEPT !.pc = "verified", !.hash = file]
                                 ELSE [Idle EXCEPT !.pc = "failed"]]
  /\ UNCHANGED <<file, edits, stored>>

\* Anybody with access to the disk.
Edit ==
  /\ edits < MaxEdits /\ edits' = edits + 1
  /\ file' \in (Contents \cup {None}) \ {file}
  /\ UNCHANGED <<stored, call>>

Next ==
  \/ \E k \in Calls :
       \/ Commit(k) \/ CommitFails(k)
       \/ Load(k) \/ SaveRecord(k) \/ Registered(k) \/ Acquire(k)
       \/ Revalidate(k) \/ Enter(k) \/ Check(k) \/ KeepMetadata(k) \/ Validated(k)
       \/ Audit(k) \/ KeepAgain(k) \/ Reject(k)
       \/ Move(k) \/ Quarantine(k) \/ Compare(k) \/ Access(k)
  \/ Edit

Spec == Init /\ [][Next]_vars

-----------------------------------------------------------------------------
\* Every variable has its type.
TypeOK ==
  /\ file \in Contents \cup {None} /\ edits \in 0..MaxEdits
  /\ {meta, acquired, record.original} \subseteq Contents \cup {None}
  /\ record.status \in EvidenceStatuses /\ record.known \in BOOLEAN
  /\ \A i \in DOMAIN history :
       history[i].new \in EvidenceStatuses /\ history[i].prev \in EvidenceStatuses \cup {None}
  /\ \A k \in Calls : call[k].pc \in Steps /\ call[k].hash \in Contents \cup {None}

Overlapped(i, j) == history[j].began < i
Overtaken(j) == \E i \in 1..(j - 1) : history[i].at > history[j].at

\* A quarantine is left only by a change that says so, or by a call that had read
\* the status, or begun to validate or to register, before a quarantine was
\* committed; or the quarantine was committed after a change with a later time
\* and was never the current status.
QuarantineHolds ==
  \A j \in DOMAIN history :
    j > 1 /\ history[j - 1].new = "quarantined" /\ history[j].new # "quarantined"
    => \/ history[j].prev = "quarantined" /\ history[j].new = "registered"
       \/ \E i \in 1..(j - 1) : history[i].new = "quarantined" /\ Overlapped(i, j)
       \/ Overtaken(j - 1)

\* The status of the record and the one the history says differ only after two
\* changes were committed in the order opposite to their times.
StatusAgrees ==
  record.status # Current => \E j \in DOMAIN history : Overtaken(j)

\* The item leaves the desk as VALIDATED only with metadata, which was hashed
\* from an acceptable file.
ValidatedIsKept ==
  (\E i \in DOMAIN history : history[i].new = "validated") => meta \in Valid

\* A verification that succeeds saw what was acquired: revalidating an edited
\* file replaces the stored hashes, but the custody chain keeps its baseline.
VerifiedIsAcquired ==
  \A k \in Calls : At(k, "verified") => call[k].hash = acquired \/ call[k].hash = record.original

\* The two together, with the types: what the status of an item can be trusted
\* for under overlapping calls.
StatusInv == TypeOK /\ QuarantineHolds /\ StatusAgrees

\* What a validated item and a successful verification vouch for.
EvidenceVouched == ValidatedIsKept /\ VerifiedIsAcquired
===============================================================================
