SPECIFICATION FairProcessSpec
CONSTANTS
  limite = 3
  intervalo = 2
  Lag = 1
  Horizon = 9
  MaxLaunches = 3
INVARIANTS
  ProcessTypeOK
  NeverHasty
  Vigilant
  OneAtATime
PROPERTIES
  CallsReturn
