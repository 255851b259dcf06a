\* One job in every mode, with cancels, failing writes and a crash, under fair scheduling.
CONSTANTS
  j1 = j1
  j2 = j2
  e1 = e1
  e2 = e2
  Jobs = {j1}
  Evidence = {e1}
  Modes <- AllModes
  StagesOf <- MCStagesOf
  Cancellable = {j1}
  StoreMayFail = TRUE
  SaveMayFail = TRUE
  MaxCrashes = 1
SPECIFICATION FairSpec
INVARIANTS
  TypeOK
  StagesInOrder
  CompletedIsEarned
  CancelledMeansUntouched
  RecordsAgree
  EvidenceIsEarned
PROPERTIES
  VerdictReached
  ImplementsOutcome
