SPECIFICATION Spec
CONSTANTS
    a = a
    Admin = Admin
    Subs = {a}
    Requests = {1}
    NotifyDays = {1}
    TrafficPct = 90
    Quota = 10
    UsedLevels = {10}
    InitExpiry <- Never
    Plans = {2}
    ListAge = 1
    Month = 2
    MaxNow = 5
    MaxExpiry = 8
    Day = 2
    Faults = {"db", "push", "answer", "silent", "crash"}
INVARIANTS
    RepeatsExplained
