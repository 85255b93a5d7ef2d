SPECIFICATION FairHistory
CONSTANTS
  None = None
  s1 = s1
  s2 = s2
  a1 = a1
  a2 = a2
  c1 = c1
  c2 = c2
  Day = 1
  Subs = {s1, s2}
  Clients = {c1}
  Admins = {a1, a2}
  Plans = {1}
  InitExpiry <- TwoMixed
  InitNow = 104
  MaxNow = 105
  Faults = {"refused", "lost", "interrupt", "crash", "db", "read"}
  MaxRows = 1
  MaxRejects = 1
INVARIANTS TypeOK GrantedOnce ToldTheOutcome BooksBalance
PROPERTY NobodyLockedOut
