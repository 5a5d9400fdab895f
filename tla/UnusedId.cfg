SPECIFICATION Spec
CONSTANTS
  w1 = w1
  w2 = w2
  d1 = d1
  d2 = d2
  Workers = {w1, w2}
  NumSubmissions = 3
  Devices = {d1, d2}
  RateLimit = 1
  MaxFaults = 1
SYMMETRY Interchangeable
INVARIANT GenuinePasses
CHECK_DEADLOCK FALSE
