SPECIFICATION FairSpec
CONSTANTS
  bad = bad
  cause = cause
  soft = soft
  anon = anon
  garbled = garbled
  NoMessage = NoMessage
  Messages = {bad, cause, soft, anon, garbled}
  NumTopics = 3
  TopicOf <- MCTopicOf
  IdOf <- MCIdOf
  L1Of <- MCL1Of
  L2Of <- MCL2Of
  CauseOf <- MCCauseOf
  Archived = {cause}
  BatchSize = 2
  MaxFaults = 2
INVARIANTS
  TypeOK
  AckedIsJudged
  FailedIsHeld
  HeldOnce
  HeldIsFailing
  OneReplay
PROPERTY EverySwept
CHECK_DEADLOCK FALSE
