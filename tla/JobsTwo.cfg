\* Two jobs over two evidence items, parse-only and triage-only; one of them may be cancelled.
CONSTANTS
  j1 = j1
  j2 = j2
  e1 = e1
  e2 = e2
  Jobs = {j1, j2}
  Evidence = {e1, e2}
  Modes <- TwoModes
  StagesOf <- StagesTwo
  Cancellable = {j2}
  StoreMayFail = FALSE
  SaveMayFail = FALSE
  MaxCrashes = 0
SPECIFICATION Spec
INVARIANTS
  ResultRowCurrent
  TriageArtefactsHaveSource
