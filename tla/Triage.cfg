SPECIFICATION SysSpec
CONSTANTS
  r1 = r1
  r2 = r2
  bad = bad
  fickle = fickle
  NoMessage = NoMessage
  Messages = {bad, fickle}
  NumTopics = 2
  TopicOf <- MCTopicOf
  IdOf <- MCIdOf
  L1Of <- MCL1Of
  L2Of <- MCL2Of
  CauseOf <- MCCauseOf
  Archived = {}
  BatchSize = 2
  MaxFaults = 1
  Requests = {r1, r2}
  InputTopic = 2
INVARIANTS
  SysTypeOK
  ReleasesBounded
  ReleasedGoesOut
PROPERTIES
  HeldStaysOut
CHECK_DEADLOCK FALSE
