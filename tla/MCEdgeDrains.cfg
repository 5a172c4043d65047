CONSTANTS
  Keys = {k1, k2}
  MaxWrites = 3
  BatchSize = 1
  MaxPowerCuts = 1
SPECIFICATION Spec
PROPERTY Drains
CHECK_DEADLOCK FALSE
