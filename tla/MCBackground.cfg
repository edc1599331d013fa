SPECIFICATION MCSpec
CONSTANTS
    ann = ann
    bob = bob
    Users = {ann, bob}
    MaxEvents = 4
    Workloads <- MCWorkloads
    MaxBuckets = 4
    Dispatchers = {"d1", "d2"}
    Flushers = {"f1"}
    FlushAt = 2
    Cap = 2
    Attempts = 2
    Stalls = 1
    MaxFaults = 1
    Rules = {"r1", "r2"}
    InitialRules = {"r1"}
    Ticks = {"t1", "t2"}
    Admins = {"a1"}
    Period = 2
    Provisional = 1
    Grace = 1
    MaxDay = 3
    MaxUpsets = 2
    Files = {"f1", "f2"}
    ScanAttempts = 2
    MaxMishaps = 1
INVARIANTS
    MCTypeOK
    NotesOnce
    FilesSound
PROPERTIES
    RecurrenceSound
    NoteSettles
    FilesSettle
CHECK_DEADLOCK FALSE
