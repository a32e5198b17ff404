SPECIFICATION Spec
CONSTANTS
  Runs = {r1}
  TwoStage = {}
  Cancellable = {r1}
  Resumers = {}
  MaxConcurrent = 1
  RecoveryCap = 1
  MaxCrashes = 0
  MaxFaults = 0
  None = None
PROPERTY CancelledIsFinal
CHECK_DEADLOCK FALSE
