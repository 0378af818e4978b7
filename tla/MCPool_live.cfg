SPECIFICATION FairSpec
CONSTANTS
  Requests = {r1, r2}
  NoJob = NoJob
  Size = 1
  QueueDepth = 0
  MaxConversions = 1
PROPERTIES
  QueueMoves
  CallersReturn
  CloseReaps
CONSTRAINT NoDrain
