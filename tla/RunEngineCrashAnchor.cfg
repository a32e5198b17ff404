SPECIFICATION Spec
CONSTANTS
  Runs = {r1}
  TwoStage = {}
  Cancellable = {}
  Resumers = {}
  MaxConcurrent = 1
  RecoveryCap = 1
  MaxCrashes = 1
  MaxFaults = 0
  None = None
INVARIANT FinishedHasAnchor
CHECK_DEADLOCK FALSE
