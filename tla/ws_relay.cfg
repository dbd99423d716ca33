SPECIFICATION FairSpec
CONSTANTS
  SendWindow = 2
  Messages <- Messages30
  Codes = {1000, 4001}
  Faults = {"link", "cut", "drop", "read", "write", "dial", "open"}
INVARIANTS
  TypeOK
  MessagesKept
  StatusAfterMessages
  StatusCarried
PROPERTY
  Teardown
