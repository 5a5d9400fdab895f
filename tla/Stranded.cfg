SPECIFICATION FairSpec
CONSTANTS
  c1 = c1
  c2 = c2
  k1 = k1
  Consumers = {c1, c2}
  NoConsumer = NoConsumer
  N = 1
  Keys = {k1}
  KeyOf <- MCKeyOf
  MalformedSets = {{}}
  MaxDeliveries = 3
  MaxAttempts = 3
  BatchSize = 10
  GateModes = {"off"}
  MaxFaults = 1
PROPERTY StalledAreReclaimed
CHECK_DEADLOCK FALSE
