SPECIFICATION FairServerSpec
CONSTANTS
  Requests = {r1, r2}
  NoJob = NoJob
  Size = 1
  QueueDepth = 1
  MaxConversions = 0
INVARIANTS
  ServerTypeOK
  OrderlyClose
PROPERTIES
  AddNeverRacesWait
  SignalEndsProcess
CONSTRAINT FewFaults
