SPECIFICATION FairSpec
CONSTANTS
  c1 = c1
  c2 = c2
  k1 = k1
  Consumers = {c1, c2}
  NoConsumer = NoConsumer
  N = 2
  Keys = {k1}
  KeyOf <- MCKeyOf
  MalformedSets = {{}, {2}}
  MaxDeliveries = 2
  MaxAttempts = 2
  BatchSize = 2
  GateModes = {"off", "strict", "permissive", "shadow"}
  MaxFaults = 1
INVARIANTS
  TypeOK
  NothingLost
  RememberedHasResult
  ArchivedFirst
  AttemptsBounded
  StrictWaitsForVerdict
  OpenRunsExplained
  ResultsPerKey
PROPERTIES
  ImplementsContract
  EverySettled
CHECK_DEADLOCK FALSE
