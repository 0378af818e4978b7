SPECIFICATION FairSpec
CONSTANTS
  Jobs = {j1, j2}
  WithAssets = {j2}
INVARIANTS
  TypeOK
  PrintsOwnDocument
  LoadNotMissed
  TabsAreClosed
PROPERTIES
  ContextReturns
