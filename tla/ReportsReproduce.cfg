\* Reports of two jobs on the same artefacts.
CONSTANTS
  Parts = {"reporting"}
  Jobs = {"j1", "j2"}
  Contents = {"acquired", "altered"}
  Original = "acquired"
  Gone = "gone"
  MaxEdits = 2
  MaxMoves = 1
SPECIFICATION PartsSpec
CHECK_DEADLOCK FALSE
INVARIANT RunsReproduce
