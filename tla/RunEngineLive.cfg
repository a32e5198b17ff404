SPECIFICATION FairSpec
CONSTANTS
  Runs = {r1, r2}
  TwoStage = {r2}
  Cancellable = {r1}
  Resumers = {h1}
  MaxConcurrent = 1
  RecoveryCap = 1
  MaxCrashes = 1
  MaxFaults = 0
  None = None
PROPERTIES
  FollowsGraph
  QueuedIsTaken
  RunSettles
  SlotsReturned
CHECK_DEADLOCK FALSE
