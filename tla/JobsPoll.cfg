SPECIFICATION Spec
CHECK_DEADLOCK FALSE
CONSTANTS
  w1 = w1  w2 = w2  m1 = m1  m2 = m2  j1 = j1  j2 = j2  j3 = j3
  None = None
  Workers <- OneWorker
  Members <- OneMember
  JobIds <- TwoJobs
PROPERTIES
  WaitsForTheEnd
