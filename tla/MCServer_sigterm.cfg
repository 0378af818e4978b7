SPECIFICATION ServerSpec
CONSTANTS
  Requests = {r1}
  NoJob = NoJob
  Size = 1
  QueueDepth = 1
  MaxConversions = 1
INVARIANT FinishBeforeKill
