SPECIFICATION FairSpec
CONSTANTS
    a = a
    Admin = Admin
    Subs = {a}
    Requests = {}
    NotifyDays = {1, 3}
    TrafficPct = 90
    Quota = 0
    UsedLevels = {}
    InitExpiry <- OneSoon
    Plans = {2}
    ListAge = 1
    Month = 30
    MaxNow = 5
    MaxExpiry = 8
    Day = 2
    Faults = {"db", "push","crash"}
PROPERTIES
    UrgencyGrows
    ExpiredClientTold
