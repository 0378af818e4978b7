SPECIFICATION FairSpec
CONSTANTS
  NoCall = NoCall
  Calls = {c1, c2}
  Listeners = {l1}
  EventCap = 1
  MaxEvents = 2
INVARIANTS
  TypeOK
  RightReply
  PendingExact
  FramesCrossFirst
PROPERTIES
  SendReturnsOrClosed
  EventReachesListener
