SPECIFICATION Spec
CONSTANTS
  SendWindow = 2
  Messages <- Messages11
  Codes = {1000, 4001}
  Faults = {}
INVARIANT
  CloseRelayed
