SPECIFICATION FairSpec
CONSTANTS
  a1 = a1
  a2 = a2
  k1 = k1
  k2 = k2
  NoSocket = NoSocket
  Clients = {a1}
  Kinds = {"initiate"}
  MaxSessions = 1
  Sockets = {k1}
  MaxAttempts = 2
  MaxRequests = 1
  MaxFaults = 3
  Faults = {"crash", "db", "net"}
PROPERTIES Recovers
CHECK_DEADLOCK FALSE
