SPECIFICATION Spec
CONSTANTS
  Requests = {r1}
  NoJob = NoJob
  Size = 1
  QueueDepth = 1
  MaxConversions = 0
SYMMETRY Symmetric
INVARIANTS
  NoBrowserOutlivesClose
