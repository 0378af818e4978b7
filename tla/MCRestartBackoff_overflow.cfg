SPECIFICATION Spec
CONSTANTS
  MaxFails = 40
  MaxClock = 32
PROPERTIES
  RestartsSpaced
