SPECIFICATION Spec
CONSTANTS
  c1 = c1
  c2 = c2
  Consumers = {c1, c2}
  Deployments <- MCDeployments
  N = 3
  Count = 2
  Limits = {1, 3}
  Ranks <- MCRanks
  MaxNacks = 3
  MaxLost = 1
INVARIANTS
  TypeOK
  SameAnswers
  CountsHonest
PROPERTY KeepsContract
CHECK_DEADLOCK FALSE
