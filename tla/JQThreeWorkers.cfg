SPECIFICATION FairSpecUpdates
CHECK_DEADLOCK FALSE
CONSTANTS
  w1 = w1  w2 = w2  w3 = w3  q1 = q1  q2 = q2  q3 = q3  o1 = o1
  None = None
  Deleted = Deleted
  Workers <- ThreeWorkers
  Queues <- ThreeQueues
  Orgs = {}
  Memberships = {}
  GuestTiers <- NoGuests
INVARIANTS
  AtMostOneDefault
  IInv
PROPERTY DefaultsSettle
