SPECIFICATION Spec
SYMMETRY Symmetry
CONSTANTS
    Sessions = {s1}
    Handlers = {h1, h2}
    Principals = {p1, p2}
    MaxSessions = 1
    MaxPerPrincipal = 1
    ReaperTick = 2
    Ttl = 4
    Retention = 1
    TicketTtl = 2
    CloseMax = 1
    MaxTime = 8
    MaxGen = 3
INVARIANTS
    QuotaHeld
    DrainLeavesNothing
    AttachCountExact
    ReapedInTime
    LapseIsShort
    NoStrayCredential
    OneWinnerPerToken
CHECK_DEADLOCK FALSE
