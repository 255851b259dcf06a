\* Three overlapping requests for two items; it stops when all have been made.
CONSTANTS
  k1 = k1
  k2 = k2
  k3 = k3
  k4 = k4
  k5 = k5
  Cases = {"c1"}
  Evidence = {"e1", "e2"}
  Leads = {"u1"}
  Calls = {k1, k2, k3}
  Ops <- RecordOps
  FirstStatus = "active"
  Overlap = TRUE
  MayFail = TRUE
SPECIFICATION Spec
CHECK_DEADLOCK FALSE
SYMMETRY CallSymmetry
INVARIANTS
  TypeOK
  NoGaps
  SealRestsOnAcquisition
  SealsWhatItRead
