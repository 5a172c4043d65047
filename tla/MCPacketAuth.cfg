CONSTANTS
  Nonces = {n1, n2}
  Clients = {c1}
  MaxClockSkew = 1
  BurstCapacity = 5
  Rate = 1
  Cost = 2
  MaxDrift = 2
  MaxTime = 5
  MaxGrants = 4
SPECIFICATION Spec
INVARIANTS
  AcceptedOnce
  OnlyAcceptedRemembered
  RateBounded
CHECK_DEADLOCK FALSE
