SPECIFICATION ApiSpec
CONSTANTS
  Requests = {r1, r2, r3}
  Capacity = 1
  Servers = 1
  Messages <- SomeMessages
  ChromePdfs <- SomePdfs
  APIKey = TRUE
  RatePeriod = 2
  RateBurst = 0
  MaxTime = 3
  XmpSize = 600
  IccSize = 3250
  TailSize = 2048
SYMMETRY Symmetric
INVARIANTS
  ApiTypeOK
  RateBound
  StatusTellsOutcome
  MetricsMatchAnswers
  StampedFileReads
