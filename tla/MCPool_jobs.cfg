SPECIFICATION Spec
CONSTANTS
  Requests = {r1, r2}
  NoJob = NoJob
  Size = 2
  QueueDepth = 1
  MaxConversions = 1
SYMMETRY Symmetric
INVARIANTS
  TypeOK
  EachJobInOnePlace
  WaitGroupExact
  FreeGaugeNeverOverstates
  FailedBootLeavesNoBrowser
  DrainLosesNothing
PROPERTIES
  ServiceSpec
CONSTRAINT FewFaults
