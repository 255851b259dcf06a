\* Triage of a key under Run.
CONSTANTS
  Parts = {"triage"}
  Jobs = {"j1", "j2"}
  Contents = {"acquired", "altered"}
  Original = "acquired"
  Gone = "gone"
  MaxEdits = 2
  MaxMoves = 1
SPECIFICATION PartsSpec
CHECK_DEADLOCK FALSE
INVARIANT RunKeysRaised
