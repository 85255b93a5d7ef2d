SPECIFICATION SpecCalm
CONSTANTS
    s1 = s1
    s2 = s2
    e1 = e1
    Senders = {s1, s2}
    Endpoints = {e1}
    MaxFailures = 2
    MaxUnconfirmed = 3
    Grace = 3
    Faults = {"db", "crash", "lost", "offline", "removed"}
    NoRow = NoRow
INVARIANTS
    TypeOK
    SilenceClock
PROPERTIES
    CalmReachableKept
    CondemnedOnlyUnheard
    CalmFailuresInARow
    DeadEndpointForgotten
