\* Parts, and the two jobs that acquire one file.
CONSTANTS
  Parts = {"acquisition", "triage", "knowledge", "graph", "learning", "threat", "reporting", "evaluation", "edge", "health"}
  Jobs = {"j1", "j2"}
  Contents = {"acquired", "altered"}
  Original = "acquired"
  Gone = "gone"
  MaxEdits = 2
  MaxMoves = 1
SPECIFICATION PartsSpec
CHECK_DEADLOCK FALSE
INVARIANTS AcquisitionSafe TriageInv KnowledgeInv ReportingInv
PROPERTIES LearningInv 
