CONSTANTS
  Deliveries = {d1, d2}
  Concurrency = 2
  RetryAttempts = 2
  Threshold = 1
  Edits = {"on", "off", "absent"}
  CanRemove = TRUE
  MaxFaults = 1
  MaxCrashes = 1
SPECIFICATION Spec
INVARIANTS
    NoticePerDisable
    PostsBounded
PROPERTIES
    DeliverySettles
CHECK_DEADLOCK FALSE
