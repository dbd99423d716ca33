SPECIFICATION FairSpec
CONSTANTS
  SendWindow = 2
  RecvSlack = 2
  Chunks <- Chunks10
  Faults = {"link", "ctx", "idle", "read", "write", "dial"}
PROPERTIES
  ImplementsStream
  Teardown
