SPECIFICATION FairSpec
CONSTANTS
  c1 = c1
  c2 = c2
  r1 = r1
  r2 = r2
  u1 = u1
  u2 = u2
  NoContact = NoContact
  Contacts = {c1, c2}
  Batches = {1, 2}
  BatchOf <- MCBatchOf
  Runners = {r1}
  Users = {u1}
  Requests = {"execute"}
  OptOuts = {}
  MaxReceipts = 1
  MaxRequests = 1
  MaxFaults = 0
  Faults = {}
  Fates = {"read", "failed", "sent"}
INVARIANTS CompletedMeansDone
PROPERTIES Finishes
CHECK_DEADLOCK FALSE
