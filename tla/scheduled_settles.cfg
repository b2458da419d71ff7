SPECIFICATION FairSpec
CONSTANTS
  NoMsg = NoMsg
  m1 = m1
  m2 = m2
  c1 = c1
  c2 = c2
  u1 = u1
  u2 = u2
  Messages = {m1}
  Crons = {c1, c2}
  Users = {u1}
  MaxTime = 2
  MaxJobs = 4
  MaxRequests = 2
  MaxRetries = 1
  RetryLimit = 1
  MaxFaults = 2
  Faults = {"crash", "db"}
INVARIANTS SentOnce NotEarly VerdictSound
PROPERTIES CancelHolds Settles
CHECK_DEADLOCK FALSE
