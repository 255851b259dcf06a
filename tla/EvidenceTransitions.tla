------------------------- MODULE EvidenceTransitions -------------------------
(***************************************************************************)
(* The evidence statuses and the table of permitted status changes         *)
(* (case_management/enums.py), shared by every module that reads or writes *)
(* an evidence status.                                                     *)
(***************************************************************************)

EvidenceStatuses ==
  {"registered", "validating", "validated", "processing", "processed",
   "archived", "quarantined"}

\* EVIDENCE_STATUS_TRANSITIONS: status -> the statuses that may follow it.
EvidenceNext ==
  [registered  |-> {"validating"},
   validating  |-> {"validated", "quarantined"},
   validated   |-> {"processing"},
   processing  |-> {"processed", "quarantined"},
   processed   |-> {"archived"},
   quarantined |-> {"registered"},
   archived    |-> {}]

\* The membership test of transition_evidence_status.
EvidenceMayMove(from, to) == to \in EvidenceNext[from]
==============================================================================
