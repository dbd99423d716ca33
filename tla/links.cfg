SPECIFICATION FairSpec
CONSTANTS
  c1 = c1
  l1 = l1
  l2 = l2
  l3 = l3
  s1 = s1
  Connectors = {c1}
  Links <- Links3
  Sessions = {s1}
  BackoffMin = 2
  BackoffMax = 3
  MaxBreaks = 1
  Faults = {"dial", "nats", "shutdown"}
  None = None
INVARIANTS
  TypeOK
  RegistryLive
  NoOrphan
PROPERTIES
  Converges
  OpenSettles
