SPECIFICATION Spec
CONSTANTS
  r1 = r1
  r2 = r2
  r3 = r3
  w1 = w1
  w2 = w2
  NoReport = NoReport
  Reports = {r1, r2, r3}
  Workers = {w1, w2}
  Cases <- MCCases
  Likeness <- MCLikeness
INVARIANT LifeSafetyFloored
CHECK_DEADLOCK FALSE
