\* A cancel during a stage, no failure of any kind.
CONSTANTS
  j1 = j1
  j2 = j2
  e1 = e1
  e2 = e2
  Jobs = {j1}
  Evidence = {e1}
  Modes <- ParseOnly
  StagesOf <- StagesParse
  Cancellable = {j1}
  StoreMayFail = FALSE
  SaveMayFail = FALSE
  MaxCrashes = 0
SPECIFICATION Spec
PROPERTY CancelSticks
