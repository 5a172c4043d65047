CONSTANTS
  Assets = {a1, a2}
  Sensors = {s1, s2}
  Values = {0, 1, 2}
  NaN = NaN
  Configs <- MCConfigs
  NoConfig = NoConfig
  FlatlineCount = 2
  Window = 1
  Cooldown = 1
  MaxReadings = 3
  MaxTime = 2
SPECIFICATION Spec
SYMMETRY MCSymmetry
INVARIANTS
  TypeOK
  BurstCoversCooldown
  ValidKept
  AveragedOnce
  RollupRate
  FlatlineExact
CHECK_DEADLOCK FALSE
