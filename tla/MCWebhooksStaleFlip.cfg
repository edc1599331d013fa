CONSTANTS
  Deliveries = {d1, d2, d3}
  Concurrency = 2
  RetryAttempts = 2
  Threshold = 2
  Edits = {}
  CanRemove = FALSE
  MaxFaults = 0
  MaxCrashes = 0
SPECIFICATION Spec
CHECK_DEADLOCK FALSE
PROPERTY AutoDisableJustified
