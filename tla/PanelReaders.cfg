SPECIFICATION ReadersSpec
CONSTANTS
    r1 = r1
    r2 = r2
    w1 = w1
    w2 = w2
    Readers = {r1, r2}
    Writers = {w1, w2}
    TTL <- Lifetimes
    Patience = 1
    None = None
    d1 = d1
    d2 = d2
    o1 = o1
    Devices = {d1, d2}
    Others = {o1}
    ListTTL = 2
    PageTime = 2
    s1 = s1
    m1 = m1
    e1 = e1
    e2 = e2
    SubIDs = {s1}
    Emails = {m1}
    Endpoints = {e1, e2}
    SendConcurrency = 1
    Faults = {"db", "giveup"}
    Empty = Empty
    Absent = Absent
INVARIANTS
    BoundedStaleness
    StaleOnlyByOverlap
    RemovedSeesNothing
    ExactlyTheAsked
PROPERTY EstablishedKept
SYMMETRY Symmetry
