SPECIFICATION Spec
SYMMETRY Symmetry
CONSTANTS
  c1 = c1
  c2 = c2
  r1 = r1
  r2 = r2
  u1 = u1
  u2 = u2
  NoContact = NoContact
  Contacts = {c1}
  Batches = {1}
  BatchOf <- OneBatchOf
  Runners = {r1}
  Users = {u1, u2}
  Requests = {"schedule", "execute", "pause", "resume", "cancel"}
  OptOuts = {c1}
  MaxReceipts = 1
  MaxRequests = 2
  MaxFaults = 1
  Faults = {"crash", "db"}
  Fates = {"sent", "delivered", "read"}
INVARIANTS RecipientsHonest CountersHonest
CONSTRAINT OneRace
PROPERTIES StatusMoves InvalidStays
CHECK_DEADLOCK FALSE
