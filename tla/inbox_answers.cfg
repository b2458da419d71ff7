SPECIFICATION FairSpec
CONSTANTS
  m1 = m1
  m2 = m2
  r1 = r1
  w1 = w1
  w2 = w2
  u1 = u1
  h1 = h1
  NoMsg = NoMsg
  Messages = {m1, m2}
  Replies = {r1}
  Evaluators = {w1, w2}
  Users = {u1}
  Handlers = {h1}
  Threshold = 1
  MaxTime = 1
  RetryLimit = 1
  MaxDeliveries = 2
  MaxFaults = 1
  Faults = {"crash", "db"}
INVARIANTS StoredOnce Accounted
PROPERTIES AnsweredHolds AcknowledgedHolds BreachReported NeverLost
CHECK_DEADLOCK FALSE
