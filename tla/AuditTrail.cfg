\* Four overlapping calls, every failure and two crashes; it stops when all calls are over.
CONSTANTS
  both1 = both1
  both2 = both2
  table1 = table1
  file1 = file1
  Calls = {both1, both2, table1, file1}
  Writes <- MCWrites
  Genesis <- MCGenesis
  Digest <- MCDigest
  MaxCrashes = 2
SPECIFICATION Spec
CHECK_DEADLOCK FALSE
INVARIANTS
  TypeOK
  FileChained
  NoGaps
  RepeatsOverlap
  LinesHaveRows
PROPERTY FlushedStays
