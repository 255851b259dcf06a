\* Five requests one after the other; it stops when all have been made.
CONSTANTS
  k1 = k1
  k2 = k2
  k3 = k3
  k4 = k4
  k5 = k5
  Cases = {"c1"}
  Evidence = {"e1"}
  Leads = {"u1"}
  Calls = {k1, k2, k3, k4, k5}
  Ops <- AllOps
  FirstStatus = "created"
  Overlap = FALSE
  MayFail = TRUE
SPECIFICATION Spec
CHECK_DEADLOCK FALSE
SYMMETRY CallSymmetry
INVARIANTS
  ChainWellFormed
  CaseTruthful
PROPERTY TransitionsEnforced
