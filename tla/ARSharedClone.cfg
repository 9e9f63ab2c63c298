SPECIFICATION Spec
CHECK_DEADLOCK FALSE
CONSTANTS
  w1 = w1  w2 = w2  w3 = w3  r1 = r1  r2 = r2  r3 = r3  c0 = c0  c1 = c1  a = a  b = b
  None = None
  Workers <- TwoWorkers
  Requests <- TwoRequests
  Others <- TwoOthers
  First = c0
  Algorithms <- TwoAlgorithms
  AlgorithmOf <- Names
INVARIANT PushedIsWholeAlways
