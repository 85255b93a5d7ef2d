SPECIFICATION Spec
CONSTANTS
  Day = 2
  m1 = m1
  m2 = m2
  Emails = {m1, m2}
  InitExpiries <- SomeExpiries
  Enables = {TRUE, FALSE}
  Quotas = {0, 1}
  UseStep = 1
  Plans = {1, 3}
  SoonDays = 2
  MaxNow = 9
  MaxExpiry = 12
  MaxUsed = 1
SYMMETRY Records
INVARIANTS
  PaidForAndNoDayMore
  CountdownAgrees
 
