\* Parts, and the three calls on one evidence item.
CONSTANTS
  Parts = {"sessions", "desk", "gateway", "analysis", "requests", "startup", "container"}
  Calls = {"c1", "c2", "c3"}
  Kinds <- DeskKinds
  Contents = {"good", "other"}
  Valid = {"good", "other"}
  None = "none"
  MaxEdits = 1
SPECIFICATION PartsSpec
CHECK_DEADLOCK FALSE
INVARIANTS StatusInv EvidenceVouched 
  
