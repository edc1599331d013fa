SPECIFICATION MCSpec
CONSTANTS
    r1 = r1
    r2 = r2
    Runs = {r1, r2}
    Attempts = 2
    Concurrency = 1
    MaxFaults = 1
    MaxCrashes = 1
    ImportIds = {"i1", "i2"}
    Mixes <- MCMixes
    MaxProjects = 2
    MaxIssues = 2
    ErrorCap = 1
    Receivers = {"x", "y"}
    MaxRepeats = 1
    MaxUnnamed = 1
    TriageJobs = {"j1", "j2"}
    Standups = {"s1", "s2"}
    MaxStandups = 4
    Budget = 3
    Cost = 2
    MaxEdits = 2
    MaxFields = 3
    Names = {"A", "B", "C"}
    FirstName <- MCFirstName
    MaxRefs = 1
    Editors = {"x", "y"}
    MaxSaves = 2
    Logs = {"l1", "l2"}
    Timed = {"t1", "t2"}
    Tabs = {"x", "y"}
    MaxClock = 2
    MaxInterval = 2
    MaxLate = 1
    Horizon = 430
    LeapYears = {1}
    Work = 3
    ShortBreak = 1
    LongBreak = 2
    CyclesBeforeLongBreak = 4
    MaxNow = 12
    RuleIds = {"q1"}
    DaysPerWeek = 3
    HoursPerDay = 3
    Autos = {"a1", "a2", "a3"}
    Config <- MCConfig
    Statuses = {"todo", "done"}
    Closed = {"done"}
    Handlers = {"h1", "h2"}
    MaxMoves = 2
INVARIANTS
    NextRunFitsRule
    MCTypeOK
    ImportsSound
    CodeEventsSound
    TriageSound
    FormulasSound
    RefusedOnlyWhenOverlapped
    PomodoroSound
    SnoozeSound
    AutomationsSound
PROPERTIES
    ExportsEndOnce
CHECK_DEADLOCK FALSE
