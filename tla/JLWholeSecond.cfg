SPECIFICATION ListingSpec
SYMMETRY Symmetry
CONSTRAINT Unanswered
CONSTANTS
  j1 = j1  j2 = j2
  Nil = Nil
  MemberJobs <- TwoJobs
  Times <- ThreeTimes
  Filters <- SomeFilters
  PageSize = 2
INVARIANT ListsAllThatMatch
