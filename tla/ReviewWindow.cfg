SPECIFICATION FairSpec
CONSTANTS
  Runs = {r1}
  Requests = {q1, q2}
  Sweeps = {s1, s2}
  Ttl = 2
  MaxStars = 1
  Null = Null
  MaxTime = 3
  MaxCrashes = 1
  MaxFaults = 1
INVARIANT LockInWindow
PROPERTIES
  LateChangeWasInTime
  FollowsReview
  ExpiredIsLocked
CHECK_DEADLOCK FALSE
