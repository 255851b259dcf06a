\* Three overlapping requests, none of which fails.
CONSTANTS
  k1 = k1
  k2 = k2
  k3 = k3
  k4 = k4
  k5 = k5
  Cases = {"c1"}
  Evidence = {"e1"}
  Leads = {"u1"}
  Calls = {k1, k2, k3}
  Ops <- AllOps
  FirstStatus = "active"
  Overlap = TRUE
  MayFail = FALSE
SPECIFICATION Spec
CHECK_DEADLOCK FALSE
INVARIANT NumbersSequential
