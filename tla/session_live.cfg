SPECIFICATION FairSpec
CONSTANTS
  SendWindow = 4
  RecvSlack = 2
  Chunks <- Chunks71
  Faults = {}
INVARIANTS
  TypeOK
  NoOverrun
  GracefulComplete
PROPERTY
  Delivered
