CONSTANTS
  w1 = w1
  w2 = w2
  h = h
  a = a
  Workers = {w1, w2}
  Words <- MCWords
  Tenants <- MCTenants
  CodeOf <- MCCodeOf
  Emails = {"marcus", "freja"}
  SeedTenants <- MCSeedTenants
  SeedUsers <- MCSeedUsers
  SeedSites <- MCSeedSites
  SeedAssets <- MCSeedAssets
  DefaultTenant <- Helios
  NoTenant = NoTenant
  Namings <- MCNamings
  Objects <- MCObjects
  TypedFacilities <- MCTypedFacilities
  TypedDevices <- MCTypedDevices
  NewRoles = {"CHIEF_ENGINEER"}
  NewStatuses = {"ACTIVE", "SUSPENDED"}
  Portfolio <- MCPortfolio
  SeedPortfolio <- MCSeedPortfolio
  MaxRequests = 3
  MaxFaults = 1
SPECIFICATION Spec
SYMMETRY MCSymmetry
VIEW MCView
INVARIANTS
  LoginIsHonoured
  NamesStable
  MirrorSound
PROPERTIES
  PartitionsIsolated
  ActsWithinAuthority
CHECK_DEADLOCK FALSE
