SPECIFICATION Spec
SYMMETRY Symmetry
CONSTANTS
  a1 = a1
  a2 = a2
  k1 = k1
  k2 = k2
  NoSocket = NoSocket
  Clients = {a1, a2}
  Kinds = {"initiate", "refresh", "reconnect", "disconnect"}
  MaxSessions = 1
  Sockets = {k1, k2}
  MaxAttempts = 1
  MaxRequests = 2
  MaxFaults = 2
  Faults = {"crash", "db", "net", "phone"}
INVARIANTS NoGhost OneMaker AttemptsBounded
PROPERTIES KeepsCreds
CHECK_DEADLOCK FALSE
