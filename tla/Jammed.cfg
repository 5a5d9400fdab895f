SPECIFICATION FairSpec
CONSTANTS
  bad = bad
  cause = cause
  soft = soft
  anon = anon
  garbled = garbled
  NoMessage = NoMessage
  Messages = {bad, cause, soft}
  NumTopics = 3
  TopicOf <- MCTopicOf
  IdOf <- MCIdOf
  L1Of <- MCL1Of
  L2Of <- GenuineL2Of
  CauseOf <- MCCauseOf
  Archived = {cause}
  BatchSize = 2
  MaxFaults = 0
PROPERTY VerifiesEveryMessage
CHECK_DEADLOCK FALSE
