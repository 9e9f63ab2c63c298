SPECIFICATION Spec

CONSTANTS
  w1 = w1  w2 = w2  t1 = t1
  None = None
  Workers <- TwoWorkers
  Tickets <- OneTicket
  MaxTime = 3
  SessionAge = 2
  Lifetime = 2
  Buffer = 1
PROPERTY
  RefreshesInTime
