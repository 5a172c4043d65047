CONSTANTS
  Keys = {k1, k2, k3}
  MaxWrites = 3
  BatchSize = 2
  MaxPowerCuts = 1
SPECIFICATION Spec
INVARIANTS
  TypeOK
  AcknowledgedArrived
  SequenceAhead
PROPERTIES
  NothingVanishes
  FifoPromise
CHECK_DEADLOCK FALSE
