SPECIFICATION HistorySpec
CHECK_DEADLOCK FALSE
CONSTANTS
  w1 = w1  w2 = w2  alice = alice  app = app  app2 = app2
  b1 = b1  j1 = j1  j2 = j2
  None = None
  Workers <- TwoWorkers
  Users <- OneUser
  Names <- TwoNames
  NameOf <- SameName
  Builds <- OneBuild
  Jobs <- TwoJobs
  Retryable = TRUE
  MayPoll = TRUE
  MayCrash = FALSE
  MayRaise = FALSE
INVARIANT SuccessIsDeployed
