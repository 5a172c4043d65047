CONSTANTS
  inv = inv
  al1 = al1
  al2 = al2
  wo1 = wo1
  wo2 = wo2
  dec1 = dec1
  dec2 = dec2
  ad1 = ad1
  ad2 = ad2
  rul = rul
  setting = setting
  NoAsset = NoAsset
  NoOne = NoOne
  NoPacket = 0
  Assets = {inv}
  Resources <- MCResources
  AlertIds = {al1, al2}
  OrderIds = {wo1, wo2}
  DecisionIds = {dec1, dec2}
  ActionIds = {ad1, ad2}
  Models = {rul}
  RulModel = rul
  Digests = {"sha"}
  Settings = {setting}
  Shifts <- MCShifts
  Derates = {96}
  Ambients = {2000, 3900}
  BaseThreshold = 8500
  Scores = {60, 90}
  FindingSets <- MCFindings
  MaxPackets = 3
  MaxHistory = 2
  MaxCalls = 5
SPECIFICATION Spec
SYMMETRY MCSymmetry
INVARIANTS
  TypeOK
  ViewsFollowArrival
  EscalatedOnce
  TrailTellsStatus
  InForceAuthorised
PROPERTIES
  FindingsAlerted
  GuardrailHolds
CHECK_DEADLOCK FALSE
