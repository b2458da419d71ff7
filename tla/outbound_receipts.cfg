SPECIFICATION Spec
SYMMETRY WorkerSymmetry
CONSTANTS
  NoMsg = NoMsg
  m1 = m1
  w1 = w1
  w2 = w2
  c1 = c1
  c2 = c2
  r1 = r1
  r2 = r2
  o1 = o1
  o2 = o2
  Messages = {m1}
  Workers = {w1,w2}
  Crons = {c1}
  Receivers = {r1,r2}
  Operators = {}
  MaxRetries = 1
  MaxRows = 2
  RetryCap = 3
  MaxFaults = 1
  Faults = {"crash", "ack", "receipt"}
INVARIANTS AtMostOnce ExclusiveClaim ClaimSound
PROPERTIES DeliveredStays LedgerSpec
CHECK_DEADLOCK FALSE
