SPECIFICATION FairSpec
CONSTANTS
  FeedQueueSize = 2
  MaxChunk = 3
  Traffics <- SmallTraffics
  Streams = {0, 1, 3}
  Methods = {"/pkg.Svc/Get"}
  Atoi <- SmallAtoi
  None = None
INVARIANTS
  TypeOK
  InStep
  Genuine
  CountedOnce
  Drained
PROPERTY
  Released
CHECK_DEADLOCK FALSE
