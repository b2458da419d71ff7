SPECIFICATION Spec
CONSTANTS
  NoMsg = NoMsg
  m1 = m1
  w1 = w1
  w2 = w2
  c1 = c1
  c2 = c2
  r1 = r1
  r2 = r2
  o1 = o1
  o2 = o2
  Messages = {m1}
  Workers = {w1}
  Crons = {c1}
  Receivers = {}
  Operators = {o1}
  MaxRetries = 1
  MaxRows = 2
  RetryCap = 4
  MaxFaults = 2
  Faults = {"slow", "db"}
INVARIANTS OneDeadLetter
CHECK_DEADLOCK FALSE
