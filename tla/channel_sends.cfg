SPECIFICATION FairSpec
CONSTANTS
  m1 = m1
  w1 = w1
  w2 = w2
  c1 = c1
  c2 = c2
  h1 = h1
  NoMsg = NoMsg
  Messages = {m1}
  Workers = {w1, w2}
  Crons = {c1, c2}
  Hooks = {h1}
  MaxRetries = 1
  RetryLimit = 1
  MaxFaults = 2
  Faults = {"crash", "db", "ack", "slow"}
INVARIANTS SentOnce BuriedUnsent
PROPERTIES SentStays Settles
CHECK_DEADLOCK FALSE
