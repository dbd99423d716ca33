SPECIFICATION FairSpec
CONSTANTS
  r1 = r1
  r2 = r2
  Requests <- OneRequest
  Streamed <- OneRequest
  SendWindow = 2
  Body = 3
  Faults = {"client"}
PROPERTIES
  DisconnectStopsBackend
