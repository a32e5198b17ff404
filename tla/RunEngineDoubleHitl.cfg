SPECIFICATION Spec
CONSTANTS
  Runs = {r1}
  TwoStage = {r1}
  Cancellable = {}
  Resumers = {h1, h2}
  MaxConcurrent = 1
  RecoveryCap = 1
  MaxCrashes = 0
  MaxFaults = 0
  None = None
PROPERTY HitlOnlyWhilePaused
CHECK_DEADLOCK FALSE
