SPECIFICATION HandlersFairSpec
CONSTANTS
    c1 = c1
    c2 = c2
    c3 = c3
    Callers = {c1, c2, c3}
    Interval = 3
    Patience = 2
    MaxLate = 1
    None = None
    Bases = {1, 2}
    t1 = t1
    t2 = t2
    Tabs = {t1, t2}
    Endpoints = {1, 2}
    Faults = {"request", "late", "silent", "browser"}
    k1 = k1
    k2 = k2
    Keys = {k1, k2}
    Rate = 2
    Burst = 6
    Cost = 3
    SweepEvery = 3
    SweepAge = 3
    MaxWindow = 3
    NoBucket = NoBucket
INVARIANTS
    SweepInvisible
    WindowBound
    VerdictFounded
    OneLoad
    UnregisteredExplained
PROPERTIES
    ProbesSpaced
    VerdictCatchesUp
    BaseSurvives
    EveryCallerAnswered
    SwitchRepairs
