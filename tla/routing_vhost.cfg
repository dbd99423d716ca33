SPECIFICATION Spec
CONSTANTS
  Deployments <- VirtualHosts
  Requests <- GuideRequests
  Answers <- SmallAnswers
  Health <- Ping
  Hex <- SmallHex
  DefaultRequest = 3
  DefaultResponse = 4
  MaxInt = 7
  None = None
INVARIANT
  RefusedOnly
CHECK_DEADLOCK FALSE
