SPECIFICATION Spec
CONSTANTS
  None = None
  s1 = s1
  s2 = s2
  a1 = a1
  a2 = a2
  c1 = c1
  c2 = c2
  Day = 1
  Subs = {s1}
  Clients = {c1}
  Admins = {a1}
  Plans = {2}
  InitExpiry <- OneOverdue
  InitNow = 104
  MaxNow = 104
  Faults = {}
  MaxRows = 1
  MaxRejects = 2
PROPERTY ResolvedOnce
