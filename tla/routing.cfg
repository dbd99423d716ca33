SPECIFICATION Spec
CONSTANTS
  Deployments <- SmallDeployments
  Requests <- SmallRequests
  Answers <- SmallAnswers
  Health <- Ping
  Hex <- SmallHex
  DefaultRequest = 3
  DefaultResponse = 4
  MaxInt = 7
  None = None
INVARIANTS
  TypeOK
  RightBackend
  PathKept
  LongestPrefix
  BodiesWhole
  LimitHolds
CHECK_DEADLOCK FALSE
