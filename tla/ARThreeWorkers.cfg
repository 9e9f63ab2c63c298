SPECIFICATION SpecUndisturbed
CHECK_DEADLOCK FALSE
CONSTANTS
  w1 = w1  w2 = w2  w3 = w3  r1 = r1  r2 = r2  r3 = r3  c0 = c0  c1 = c1  a = a  b = b
  None = None
  Workers <- ThreeWorkers
  Requests <- ThreeRequests
  Others <- OneOther
  First = c0
  Algorithms <- OneAlgorithm
  AlgorithmOf <- OneName
SYMMETRY Alike
INVARIANTS
  IInv
  OnlyTheWaitStops
