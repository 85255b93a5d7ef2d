SPECIFICATION Spec
CONSTANTS
    i1 = i1
    q1 = q1
    q2 = q2
    Ids = {i1}
    Requests = {q1, q2}
    TTL = 5
    TouchEvery = 1
    Patience = 1
    MaxNow = 9
    Faults = {"db"}
    None = None
CHECK_DEADLOCK FALSE
PROPERTIES EndedStaysEnded KeptAlmostTTL
