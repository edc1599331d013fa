SPECIFICATION MCSpec
CONSTANTS
    a = a
    b = b
    m1 = m1
    NoTick = NoTick
    Replicas = {a, b}
    LastMinute = 1
    Due = {0, 1}
    Manual = {m1}
    MaxEdits = 1
    MaxFaults = 1
    MaxCrashes = 1
    r1 = r1
    r2 = r2
    Requests = {r1, r2}
    Emails = {"client", "staff"}
    Company = {"staff"}
    MaxToken = 3
    MaxLink = 2
    MaxTime = 3
    MaxCalls = 4
    AccessTTL = 2
    RefreshTTL = 2
    LinkTTL = 1
    InviteTTL = 2
    KeySlack = 1
    Members = {"ann", "bob"}
    Groups = {"t"}
    Callers = {"c1", "c2"}
    GrantRoles = {"Client", "Contributor"}
    MaxAccessCalls = 3
SYMMETRY MCSymmetry
INVARIANTS
    MCTypeOK
    ScheduleHonoured
    AccountsSound
    AccessSound
CHECK_DEADLOCK FALSE
