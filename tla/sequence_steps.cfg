SPECIFICATION Spec
SYMMETRY RunSymmetry
CONSTANTS
  None = None
  s1 = s1
  s2 = s2
  r1 = r1
  r2 = r2
  w1 = w1
  w2 = w2
  u1 = u1
  SequenceIds = {s1}
  Recipients = {r1, r2}
  SequenceOf <- MCSequenceOf
  Workers = {w1, w2}
  Users = {u1}
  Steps = 2
  CheckLimit = 100
  MaxRequests = 4
  MaxFaults = 1
  Faults = {"crash", "db"}
INVARIANTS StepsAccounted StuckByFault
PROPERTIES StopHolds
CHECK_DEADLOCK FALSE
