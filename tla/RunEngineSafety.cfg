SPECIFICATION Spec
CONSTANTS
  Runs = {r1, r2}
  TwoStage = {r2}
  Cancellable = {r1}
  Resumers = {h1}
  MaxConcurrent = 1
  RecoveryCap = 1
  MaxCrashes = 2
  MaxFaults = 1
  None = None
INVARIANTS
  RecoveryBounded
  OneWorkingExecution
  RunningHasOwner
  AnchorMeansFinished
  SlotAccounting
  ClaimedWithinCap
PROPERTIES
  CancelUndoneOnlyByHolder
  ClaimOrder
CHECK_DEADLOCK FALSE
