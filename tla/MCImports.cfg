SPECIFICATION MCSpec
CONSTANTS
  q1 = q1
  q2 = q2
  Rows = 3
  Requests = {q1, q2}
  RowLocal = FALSE
  MaxFails = 2
  MaxFaults = 2
  MaxCrashes = 1
  Calls = {c1, c2, c3}
  NoToken = NoToken
  Ttl = 2
  KeyResultIds = {1, 2, 3, 4}
  Percents = {100}
  Positions = {3}
  Overrides = {40}
  LinkedTasks = {"t1"}
  Writers = {"w1"}
  MaxPosition = 3
INVARIANTS
    MCTypeOK
    SkippedSucceeded
    SucceededComplete
    RowsCounted
    GoalsSound
PROPERTIES
    ImplementsLease
    LockReaped
    RunSettles
CHECK_DEADLOCK FALSE
