CONSTANTS
  Keys = {k1, k2}
  MaxWrites = 3
  BatchSize = 2
  MaxPowerCuts = 1
SPECIFICATION Spec
INVARIANT AcknowledgedIsCurrent
CHECK_DEADLOCK FALSE
