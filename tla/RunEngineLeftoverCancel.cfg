SPECIFICATION Spec
CONSTANTS
  Runs = {r1}
  TwoStage = {}
  Cancellable = {r1}
  Resumers = {}
  MaxConcurrent = 1
  RecoveryCap = 1
  MaxCrashes = 1
  MaxFaults = 0
  None = None
PROPERTY LeftoverCancelHonoured
CHECK_DEADLOCK FALSE
