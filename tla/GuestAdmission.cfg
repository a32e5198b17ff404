SPECIFICATION Spec
CONSTANTS
  Guests = {g1, g2}
  Types = {t1}
  Requests = {q1, q2, q3}
  Cap = 1
  Null = Null
  MaxDay = 1
  MaxCrashes = 1
  MaxFaults = 2
SYMMETRY Symmetry
INVARIANTS
  DailyCap
  NoSlotLost
  DeletedOwnsNothing
CHECK_DEADLOCK FALSE
