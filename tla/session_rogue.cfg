SPECIFICATION RogueSpec
CONSTANTS
  SendWindow = 2
  RecvSlack = 2
  Chunks <- Chunks60
  Faults = {}
INVARIANT
  InOrder
PROPERTY
  Teardown
