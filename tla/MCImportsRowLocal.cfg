SPECIFICATION MCSpec
CONSTANTS
  q1 = q1
  Rows = 3
  Requests = {q1}
  RowLocal = TRUE
  MaxFails = 2
  MaxFaults = 0
  MaxCrashes = 0
  Calls = {}
  NoToken = NoToken
  Ttl = 1
  KeyResultIds = {}
  Percents = {}
  Positions = {}
  Overrides = {}
  LinkedTasks = {}
  Writers = {}
  MaxPosition = 0
INVARIANT SkippedSucceeded
CHECK_DEADLOCK FALSE
