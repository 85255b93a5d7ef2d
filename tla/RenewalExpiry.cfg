SPECIFICATION SpecExp
CONSTANTS
  None = None
  s1 = s1
  s2 = s2
  a1 = a1
  a2 = a2
  c1 = c1
  c2 = c2
  Day = 1
  Subs = {s1}
  Clients = {c1, c2}
  Admins = {a1}
  Plans = {1}
  InitExpiry <- OneOverdue
  InitNow = 104
  MaxNow = 104
  Faults = {"refused", "read"}
  MaxRows = 2
  MaxRejects = 1
INVARIANTS OnePending RecordedExpiry PaidUnlessRolledBack
PROPERTY BookSpec
SYMMETRY ClientSymmetry
