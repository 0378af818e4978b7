SPECIFICATION Spec
CONSTANTS
  Requests = {r1, r2, r3, r4}
  NoJob = NoJob
  Size = 1
  QueueDepth = 1
  MaxConversions = 1
SYMMETRY Symmetric
INVARIANTS
  QueueGaugeExact
  OneBrowserPerPort
  QuotaRespected
  KilledForAReason
  SickForAReason
CONSTRAINT TwoAtOnce
