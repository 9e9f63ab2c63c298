SPECIFICATION Spec
CONSTANTS
  w1 = w1  w2 = w2  o1 = o1  o2 = o2  o3 = o3  m1 = m1
  None = None
  Deleted = Deleted
  Same = Same
  Workers <- TwoWorkers
  Orgs <- ThreeOrgs
  Root = o1
  Granted <- OneGranted
  Misplaced <- OneMisplaced
  Members <- OneMember
  Payloads <- NoneOrTwice
  Repeats = 2
SYMMETRY Swap
CONSTRAINT OneHasMembers
INVARIANTS
  HierarchyIsListed
  MembershipsBounded
  OnlyChildrenKeep
  IInv
CHECK_DEADLOCK FALSE
