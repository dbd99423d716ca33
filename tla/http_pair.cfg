SPECIFICATION FairSpec
CONSTANTS
  r1 = r1
  r2 = r2
  Requests <- TwoRequests
  Streamed <- OneRequest
  SendWindow = 2
  Body = 0
  Faults = {}
PROPERTIES
  QueueDrains
