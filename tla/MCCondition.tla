---------------------------- MODULE MCCondition -----------------------------
EXTENDS Condition

(* A sunny hour on target: 600 W/m2 and 45 degrees in the cells.            *)
Sunny == [poa |-> 600, module |-> Absent, wind |-> Absent, setpoint |-> Absent, soc |-> 50,
          ambient |-> 26, cell |-> Absent, heatsink |-> 60, volts |-> 480, current |-> 800,
          apparent |-> 1450, power |-> 1445, expected |-> 0, state |-> "RUNNING", limit |-> Absent,
          silent |-> FALSE, ml |-> 30, cohort |-> <<>>, quality |-> "VALID", confidence |-> 95]
Windy == [Sunny EXCEPT !.poa = Absent, !.wind = 9, !.apparent = 800, !.power = 800]
Stored == [Sunny EXCEPT !.poa = Absent, !.setpoint = 800, !.cell = 30, !.apparent = 800,
                        !.power = 800]

Powers(r, set)  == {[r EXCEPT !.power = p] : p \in set}
Heated(r, set)  == {[r EXCEPT !.heatsink = c] : c \in set}

(* What the charts see: on target, short, far short, above, a current step, *)
(* silence, a trip, a sensor gone wild.                                     *)
Drifting ==
  Powers(Sunny, {1370, 1410, 1445, 1485}) \cup
  {[Sunny EXCEPT !.power = 1370, !.current = 700], [Sunny EXCEPT !.silent = TRUE],
   [Sunny EXCEPT !.power = 0], [Sunny EXCEPT !.poa = 1700], [Sunny EXCEPT !.current = Absent]}

SolarReadings ==
  Powers(Sunny, {0, 300, 1000, 1369, 1371, 1445}) \cup
  UNION {Heated(Sunny, {40, 65, 72, 80, 81, 86, 95}), Heated([Sunny EXCEPT !.power = 1000], {72, 81, 95})} \cup
  {[Sunny EXCEPT !.poa = 10, !.power = 0], [Sunny EXCEPT !.poa = 10, !.power = -90],
   [Sunny EXCEPT !.poa = 1200, !.ambient = -5, !.power = -40], [Sunny EXCEPT !.poa = 300, !.power = 690],
   [Sunny EXCEPT !.poa = 1200, !.ambient = -5, !.power = 2500],
   [Sunny EXCEPT !.poa = 1000, !.module = 60, !.power = 1500],
   [Sunny EXCEPT !.poa = Absent], [Sunny EXCEPT !.power = Absent],
   [Sunny EXCEPT !.quality = "INVALID"], [Sunny EXCEPT !.confidence = 55],
   [Sunny EXCEPT !.state = "OFFLINE", !.power = 0], [Sunny EXCEPT !.state = "CURTAILED", !.power = 900],
   [Sunny EXCEPT !.state = "CURTAILED", !.limit = 1000, !.power = 900],
   [Sunny EXCEPT !.poa = 800, !.ambient = -10, !.power = 1500],
   [Sunny EXCEPT !.volts = 530], [Sunny EXCEPT !.volts = 400], [Sunny EXCEPT !.current = 1300],
   [Sunny EXCEPT !.ml = 85], [Sunny EXCEPT !.ml = 60], [Sunny EXCEPT !.apparent = 1300],
   [Sunny EXCEPT !.cohort = <<1450, 1440, 1460>>, !.power = 1000]}

WindReadings ==
  Powers(Windy, {-30, 0, 500, 650, 800}) \cup Heated(Windy, {75, 83, 85, 90}) \cup
  {[Windy EXCEPT !.wind = 2, !.power = 0], [Windy EXCEPT !.wind = 14, !.power = 2000],
   [Windy EXCEPT !.wind = 14, !.power = 1500], [Windy EXCEPT !.wind = 27, !.power = 0],
   [Windy EXCEPT !.wind = Absent], [Windy EXCEPT !.state = "CURTAILED", !.power = 400],
   [Windy EXCEPT !.state = "MAINTENANCE", !.power = 0]}

BessReadings ==
  Powers(Stored, {0, 600, 760, 800}) \cup
  Powers([Stored EXCEPT !.setpoint = -1000], {-1000, -600, -300, 0}) \cup
  {[Stored EXCEPT !.cell = c] : c \in {Absent, 0, 40, 46, 55, 62}} \cup
  {[Stored EXCEPT !.cell = Absent, !.ambient = 45, !.power = 600]} \cup
  {[Stored EXCEPT !.soc = 4, !.power = 0], [Stored EXCEPT !.soc = 1, !.power = 700],
   [Stored EXCEPT !.setpoint = -500, !.soc = 97, !.power = 0],
   [Stored EXCEPT !.setpoint = Absent], [Stored EXCEPT !.state = "FAULT_TRIPPED", !.power = 0],
   [Stored EXCEPT !.cell = 62, !.power = 100], [Stored EXCEPT !.setpoint = -1000, !.cell = 62, !.power = -120]}

-----------------------------------------------------------------------------
Dimensions == {"performance", "thermal", "availability", "communication", "fault_history",
               "degradation", "sensor_quality"}

(* The orchestrator's constants.                                            *)
Evidence ==
  [availability   |-> [uptime |-> 720, total |-> 720],
   communication  |-> [online |-> TRUE, drop |-> 0, latency |-> 12, confidence |-> 100],
   fault_history  |-> [alarms |-> <<>>, confidence |-> 100],
   degradation    |-> [years |-> 1, cycles |-> 0, confidence |-> 100],
   sensor_quality |-> [valid |-> 100, total |-> 100, confidence |-> 100]]
Request ==
  [history |-> <<>>, confidence |-> 100, failure |-> 2, criticality |-> 85, dailyLoss |-> 50,
   safety |-> 0, avoidance |-> 95, spares |-> 90, operating |-> "RUNNING_DEGRADED"]
Event ==
  [probability |-> 5, lostKwh |-> 0, criticality |-> 100, safety |-> 0, leadDays |-> 2,
   tooling |-> FALSE, labourHours |-> 2, spareParts |-> 450, capital |-> 45000]
Orchestrated(tech) ==
  [tech |-> tech, profile |-> tech, dimensions |-> Dimensions, evidence |-> Evidence,
   request |-> Request, event |-> Event, informed |-> FALSE]

Falling == [i \in 1..5 |-> [day |-> i, health |-> <<90, 82, 75, 64, 58>>[i]]]
Noisy   == [i \in 1..5 |-> [day |-> i, health |-> <<90, 60, 85, 55, 70>>[i]]]

(* Callers with a history, with spares and without, and with alarms.  The   *)
(* worn asset can reach the end of its life.                                *)
Poorly == [Evidence EXCEPT !.fault_history.alarms = <<[severity |-> "EMERGENCY", age |-> 0],
                                                      [severity |-> "CRITICAL", age |-> 1]>>,
                           !.degradation.years = 20, !.availability.uptime = 360]

MCBackground ==
  [charts   |-> Orchestrated("SOLAR"),
   solar    |-> Orchestrated("SOLAR"),
   wind     |-> Orchestrated("WIND"),
   bess     |-> Orchestrated("BESS"),
   trending |-> [Orchestrated("SOLAR") EXCEPT
                   !.evidence = Poorly, !.informed = TRUE, !.request.history = Falling,
                   !.request.criticality = 90, !.request.failure = 60],
   noisy    |-> [Orchestrated("SOLAR") EXCEPT
                   !.evidence = Poorly, !.request.history = Noisy, !.request.spares = 40,
                   !.request.safety = 85, !.event.safety = 100, !.event.tooling = TRUE],
   worn     |-> [Orchestrated("SOLAR") EXCEPT
                   !.evidence = [Poorly EXCEPT !.degradation.years = 30, !.availability.uptime = 0,
                                               !.communication.online = FALSE],
                   !.request.history = Falling, !.request.spares = 40, !.request.failure = 60,
                   !.request.criticality = 100, !.request.avoidance = 100],
   grid     |-> [Orchestrated("SOLAR") EXCEPT
                   !.profile = "TRANSFORMER", !.dimensions = {"thermal", "performance", "communication"},
                   !.evidence.communication.drop = 30, !.request.dailyLoss = 1500,
                   !.event.capital = 2000000]]

MCReadings ==
  [charts |-> Drifting, solar |-> SolarReadings, wind |-> WindReadings, bess |-> BessReadings,
   trending |-> SolarReadings, noisy |-> SolarReadings, worn |-> SolarReadings,
   grid |-> SolarReadings]

MCMaxPackets == [c \in DOMAIN MCBackground |-> IF c = "charts" THEN 5 ELSE 2]
=============================================================================
