CONSTANTS
  fan = fan
  fuse = fuse
  inverter = inverter
  specialist = specialist
  NoIncident = NoIncident
  NoTech = NoTech
  Skus = {fan, fuse}
  MaxStock = 2
  MaxReceived = 2
  Requests <- MCRequests
  Openings <- MCOpenings
  WOs = {w1, w2}
  Incidents = {i1}
  Techs = {t1}
  Assets = {inverter}
  Skills = {specialist}
  Profiles <- MCProfiles
  Recommendations <- MCRecommendations
  Schedules <- MCSchedules
SPECIFICATION Spec
SYMMETRY MCSymmetry
INVARIANTS
  TypeOK
  HITLGate
  NoOvercommit
  AssignmentConsistent
  TraceComplete
  LedgerSound
  IncidentsTrackOrders
  HistoryAgrees
  ExactlyOnce
PROPERTY GatePromise
CHECK_DEADLOCK FALSE
