SPECIFICATION FairSpec
CONSTANTS
  j1 = j1
  j2 = j2
  s1 = s1
  s2 = s2
  x = x
  Requests <- MCRequests
  Streams <- MCStreams
  Tooling <- MCTooling
  Queried <- MCQueried
  Keys <- MCKeys
  KeyOf <- MCKeyOf
  MaxStreams = 1
  MaxAttempts = 2
  OpenAfter = 1
  MaxFaults <- MCFaults
  None = None
INVARIANTS
  CacheHoldsPrimaryReplies
  NoEternalVector
  SingleFlight
  TrialHasOwner
  StreamSlots
PROPERTIES
  FirstWriterWins
  AnswerAfterStore
  RequestsEnd
CHECK_DEADLOCK FALSE
