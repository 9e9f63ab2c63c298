SPECIFICATION HistorySpec
CONSTANTS
  w1 = w1  w2 = w2  alice = alice  bob = bob  app = app  app2 = app2
  p1 = p1  p2 = p2  r1 = r1  r2 = r2  r3 = r3  r4 = r4
  None = None
  Workers <- TwoWorkers
  Users <- TwoUsers
  Names <- OneName
  Pipelines <- TwoPipelines
  Rows <- FourRows
  Retryable = FALSE
  MayCrash = FALSE
INVARIANT AnswersOwnJob
