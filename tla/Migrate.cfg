SPECIFICATION FairSpec
CONSTANTS
    p1 = p1
    p2 = p2
    Processes = {p1, p2}
    Last = 3
    Nobody = Nobody
PROPERTIES
    VersionSpec
    EventuallyServing
