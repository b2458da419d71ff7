SPECIFICATION FairSpec
CONSTANTS
  c1 = c1
  c2 = c2
  u1 = u1
  Crons = {c1, c2}
  Users = {u1}
  MaxPlan = 1
  Period = 1
  Left = 1
  Grace = 1
  MaxRetries = 3
  MaxDay = 1
  MaxRequests = 2
  MaxFaults = 2
  Faults = {"crash", "db", "net"}
INVARIANTS ChargedOnce 
PROPERTIES CancelHolds Dunning
CHECK_DEADLOCK FALSE
