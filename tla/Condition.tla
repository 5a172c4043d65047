----------------------------- MODULE Condition ------------------------------
(***************************************************************************)
(* The condition of one asset, packet after packet: the orchestrator's     *)
(* stages 5 to 10 (reamp/mvp/orchestrator.py) with the engines they call   *)
(* put back together.  Detection keeps its memory from packet to packet;   *)
(* health, loss account, recommendation and risk are computed afresh from  *)
(* the latest packet.                                                      *)
(*                                                                         *)
(* A case says what the asset is and what is known of it besides its       *)
(* telemetry; the orchestrator's own constants are one case, other callers *)
(* of the engines are others.                                              *)
(***************************************************************************)
EXTENDS Detection, Health, Performance, Maintenance, Risk

CONSTANTS
  Background,     (* what is known, of each case                            *)
  Readings,       (* the packets the asset of a case may send               *)
  MaxPackets      (* bound: packets of a case                               *)

(* Powers are whole kW, and so on; a quality or an operating state that is  *)
(* not among those the engines look for is some other.                      *)
Packets ==
  [poa : Int, module : Int, wind : Int, setpoint : Int, soc : Int, ambient : Int, cell : Int,
   heatsink : Int, volts : Int, current : Int, apparent : Int, power : Int, expected : Int,
   state : {"RUNNING", "CURTAILED", "FAULT_TRIPPED", "MAINTENANCE", "OFFLINE"},
   limit : Int, silent : BOOLEAN, ml : Int, cohort : Seq(Int),
   quality : {"VALID", "INVALID", "MISSING"}, confidence : Int]

ASSUME ConditionAssumption ==
  /\ DOMAIN Readings = DOMAIN Background
  /\ \A c \in DOMAIN Background : /\ Background[c].tech \in DOMAIN Rating
                                /\ Readings[c] \subseteq Packets

VARIABLES
  case,           (* a name in the domain of the three functions above      *)
  recent,         (* the last three packets, as judged                      *)
  observed        (* how many there have been                               *)

vars == <<memory, case, recent, observed>>

Known == Background[case]

-----------------------------------------------------------------------------
(* Stage 5: the defaults of what a packet leaves out, and the expected      *)
(* power, which never sees a module temperature.  Level 4 looks for the     *)
(* ambient temperature under a name that is not set, and takes 25 degrees.  *)

Default(value, default) == IF value = Absent THEN default ELSE value

Completed(r) ==
  LET filled == [r EXCEPT !.poa      = Default(r.poa, 800),
                          !.wind     = Default(r.wind, 10),
                          !.power    = Default(r.power, 0),
                          !.setpoint = Default(r.setpoint, Default(r.power, 0)),
                          !.heatsink = Default(r.heatsink, 45),
                          !.module   = NoReading]
      celled == [filled EXCEPT !.cell = Default(r.cell, IF Known.tech = "BESS" THEN 25
                                                        ELSE r.ambient + 15)]
  IN  [filled EXCEPT !.cell     = Default(r.cell, r.ambient + 15),
                     !.ambient  = 25,
                     !.expected = ExpectedOf(Known.tech, celled).expected]

(* In thousandths; a battery is compared by size.                           *)
PerformanceRatio(t) ==
  IF Known.tech = "BESS"
  THEN IF t.expected = 0 THEN 1000 ELSE Rounded(1000 * Size(t.power), Size(t.expected))
  ELSE IF t.expected > 0 THEN Rounded(1000 * t.power, t.expected) ELSE 1000

(* Stage 6, of a packet as it came and as it was completed: a battery that  *)
(* reports no cell temperature counts as 25 degrees warm here, too.         *)
HealthEvidence(j) ==
  [d \in Known.dimensions |->
     CASE d = "performance" -> [ratio |-> PerformanceRatio(j.telemetry)]
       [] d = "thermal"     -> [celsius |-> IF Known.tech = "BESS" THEN Default(j.packet.cell, 25)
                                            ELSE j.telemetry.heatsink]
       [] OTHER             -> Known.evidence[d]]

HealthOf(j) == EvaluateHealth(Profile[Known.profile], HealthEvidence(j))

(* Stage 9.  The orchestrator does not pass the findings on.                *)
MaintenanceOf(j) == EvaluateMaintenance(Known.request, HealthOf(j).score,
                                        IF Known.informed THEN j.findings ELSE None)

(* Stage 10: a quarter of an hour of the shortfall.                         *)
RiskOf(j) ==
  CalculateEventRisk(
    [Known.event EXCEPT
       !.probability = IF HealthOf(j).score < 6500 THEN 35 ELSE 5,
       !.lostKwh     = Positive(j.telemetry.expected - j.telemetry.power) \div 4,
       !.safety      = Max({@, IF j.telemetry.heatsink > 80 THEN 30 ELSE 0})])

-----------------------------------------------------------------------------
Init ==
  /\ DetectionInit
  /\ case \in DOMAIN Background
  /\ recent = <<>>
  /\ observed = 0

Observe(r) ==
  LET t == Completed(r) IN
  /\ observed < MaxPackets[case]
  /\ Learn(t)
  /\ recent' = Append(IF Len(recent) < 3 THEN recent ELSE Tail(recent),
                      [packet |-> r, telemetry |-> t, findings |-> Findings(t)])
  /\ observed' = observed + 1
  /\ UNCHANGED case

Next == \E r \in Readings[case] : Observe(r)

Spec == Init /\ [][Next]_vars

-----------------------------------------------------------------------------
(* A deviation that persists is alerted: of two packets in a row that are   *)
(* 60 kW or more on one side of the expected power, or three in a row that  *)
(* are 33 kW or more, at least one raised a finding of the severity that    *)
(* becomes an alert, whatever the charts had accumulated before, and        *)
(* whether or not a trip, a silence or an impossible value kept the         *)
(* statistics from judging some of them.  (Level2StatisticalDetector and    *)
(* the subsumption of AnomalyDetectionEngine.evaluate.)  The sums it takes, *)
(* 76.5 kW at least, are above both the code's threshold of 4 sigma, 60 kW, *)
(* and the 5 sigma, 75 kW, of Level2StatisticalConfig and of                *)
(* docs/analytics/anomaly_methods.md:79, which the code does not use.       *)
Alerts(j) == \E i \in DOMAIN j.findings : j.findings[i].severity \in {"HIGH", "CRITICAL"}

Deviates(n, kw) ==
  LET last == {recent[i] : i \in (Len(recent) - n + 1)..Len(recent)} IN
  \/ \A j \in last : Residual(j.telemetry) <= -kw
  \/ \A j \in last : Residual(j.telemetry) >= kw

ShortfallAlerted ==
  \A w \in {<<2, 60>>, <<3, 33>>} :
    Len(recent) >= w[1] /\ Deviates(w[1], w[2])
      => \E i \in (Len(recent) - w[1] + 1)..Len(recent) : Alerts(recent[i])

(* Every interval's deficit is booked once and at its price: at most one    *)
(* loss is charged; it is the whole expected energy in an outage and the    *)
(* distance from the expected to the actual power otherwise, curtailment    *)
(* included, and is left out only within the tolerance; money is that       *)
(* energy at the tariff, never more than the asset can produce and what it  *)
(* draws; a record without data charges nothing and is uncertain.  When a   *)
(* solar plant underperforms and its cells are at 25 degrees or more, the   *)
(* natural losses, the charged one and the output add up to the DC          *)
(* potential or the rating; colder cells gain what no loss accounts for.    *)
(* (PerformanceIntelligenceEngine.  docs/analytics/loss_attribution.md      *)
(* charges a curtailment its limit, line 123, and calls the waterfall       *)
(* exhaustive, line 7; the code does neither.)                              *)
Tolerance == [SOLAR |-> 75, WIND |-> 100, BESS |-> 50]

SumKwh(losses) == SumFunction([i \in DOMAIN losses |-> losses[i].kwh])

(* A battery's charging counts by its size, a plant's own consumption       *)
(* against it.                                                              *)
Delivered(tech, r) == IF tech = "BESS" THEN Size(r.power) ELSE r.power

Exhaustive(r, e) ==
  SumKwh(e.losses) + r.power
    = Max({Rating.SOLAR.kw, (((Rating.SOLAR.dc * r.poa) \div 1000) * 946) \div 1000})

BookedSoundly(tech, r, e) ==
  LET expected == Size(ExpectedOf(tech, r).expected)
      deficit  == IF Outage(r) THEN expected ELSE Positive(expected - Delivered(tech, r))
      charged  == {i \in DOMAIN e.losses : e.losses[i].category \in Charged}
  IN  IF Missing(tech, r)
      THEN e.kwh = 0 /\ e.cents = 0 /\ e.uncertain /\ e.confidence <= 30
      ELSE /\ IF charged = {}
              THEN e.kwh = 0 /\ deficit <= Tolerance[tech]
              ELSE e.kwh = deficit /\ \E i \in charged : charged = {i} /\ e.losses[i].kwh = deficit
           /\ e.cents = e.kwh * Rating[tech].tariff
           /\ e.kwh <= Rating[tech].kw + Positive(-Delivered(tech, r))
           /\ tech = "SOLAR" /\ e.class = "UNDERPERFORMING" /\ Derating(r) <= 1000
                => Exhaustive(r, e)

LossBooked ==
  recent # <<>> =>
    LET r == Last(recent).packet
    IN  BookedSoundly(Known.tech, r, EvaluatePerformance(Known.tech, r))

(* A worse packet never looks better: when a packet that differs from the   *)
(* one before it only by producing less of the same expected power, or by   *)
(* being hotter, follows it, then its health is not higher in score or      *)
(* state, its repair not of a lower priority, its event not at a lower risk *)
(* or cost, and the fleet ranking never puts the better of the two first.   *)
(* The urgency does not drop either, except at the end of life without      *)
(* spares, which is planned and not urgent.  (AssetHealthEngine,            *)
(* PredictiveMaintenanceEngine, RiskAndFinancialEngine.)                    *)
Position(x, order) == CHOOSE i \in DOMAIN order : order[i] = x

Hotter(j, k) ==
  /\ k.telemetry.heatsink >= j.telemetry.heatsink
  /\ k.telemetry.cell >= j.telemetry.cell
  /\ k.packet.cell # j.packet.cell => Absent \notin {j.packet.cell, k.packet.cell}

Worse(j, k) ==
  LET t == j.telemetry
      u == k.telemetry
  IN
  /\ Hotter(j, k)
  /\ t.expected = u.expected /\ Size(u.power) <= Size(t.power)
  /\ (t.power >= 0) = (u.power >= 0)
  /\ t.power < Min({0, t.expected}) => u.power = t.power
  /\ [t EXCEPT !.power = u.power, !.heatsink = u.heatsink, !.cell = u.cell] = u

Urgencies == <<"IMMEDIATE_HOURS", "URGENT_DAYS", "PLANNED_WEEKS", "ROUTINE_MONTHS">>

EndOfLifeUnprepared(j) ==
  Known.request.spares < 80 /\ EstimateRul(Known.request, HealthOf(j).score).hours = 0

LooksNoBetter(j, k) ==
  LET m == MaintenanceOf(j)
      n == MaintenanceOf(k)
  IN  /\ HealthOf(k).score <= HealthOf(j).score
      /\ Position(HealthOf(k).state, HealthStates) >= Position(HealthOf(j).state, HealthStates)
      /\ Position(n.priority, Priorities) <= Position(m.priority, Priorities)
      /\ ~EndOfLifeUnprepared(k)
           => Position(n.urgency, Urgencies) <= Position(m.urgency, Urgencies)
      /\ Position(RiskOf(k).tier, RiskTiers) <= Position(RiskOf(j).tier, RiskTiers)
      /\ RiskOf(k).impact >= RiskOf(j).impact
      /\ RankFleetAssets(<<RiskOf(k), RiskOf(j)>>) = <<1, 2>>

WorseNeverLooksBetter ==
  [][recent # <<>> /\ Worse(Last(recent), Last(recent'))
       => LooksNoBetter(Last(recent), Last(recent'))]_vars
=============================================================================
