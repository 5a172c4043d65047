CONSTANTS
  EwmaWarmUp = 2
  MinDeltas = 2
  RollingWindow = 3
  Background <- MCBackground
  Readings <- MCReadings
  MaxPackets <- MCMaxPackets
SPECIFICATION Spec
INVARIANTS ShortfallAlerted LossBooked
PROPERTIES WorseNeverLooksBetter
CHECK_DEADLOCK FALSE
