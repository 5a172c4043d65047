------------------------------- MODULE Health -------------------------------
(***************************************************************************)
(* AssetHealthEngine (reamp/health): the composite health of an asset over *)
(* seven dimensions, those without evidence left out.                      *)
(*                                                                         *)
(* Scores are in hundredths of a point, weights and confidences in         *)
(* percent.  Evidence is a function on the dimensions that are known.      *)
(***************************************************************************)
EXTENDS Integers, FiniteSetsExt, SequencesExt

(* The four profiles.  "curve" is the thermal score at each quarter of the  *)
(* way from the nominal to the critical temperature, 1 - x^gamma.           *)
Profile == [
  SOLAR |-> [weight |-> [performance |-> 25, thermal |-> 25, availability |-> 15,
                         fault_history |-> 15, degradation |-> 10,
                         communication |-> 5, sensor_quality |-> 5],
             nominalPerf |-> 82, nominal |-> 65, critical |-> 95,
             curve |-> <<10000, 8750, 6464, 3505, 0>>, life |-> 25, cycles |-> 10000],
  WIND  |-> [weight |-> [performance |-> 25, thermal |-> 15, availability |-> 15,
                         fault_history |-> 20, degradation |-> 15,
                         communication |-> 5, sensor_quality |-> 5],
             nominalPerf |-> 45, nominal |-> 70, critical |-> 85,
             curve |-> <<10000, 9175, 7128, 4042, 0>>, life |-> 20, cycles |-> 100000],
  BESS  |-> [weight |-> [performance |-> 20, thermal |-> 30, availability |-> 10,
                         fault_history |-> 15, degradation |-> 15,
                         communication |-> 5, sensor_quality |-> 5],
             nominalPerf |-> 88, nominal |-> 35, critical |-> 60,
             curve |-> <<10000, 9375, 7500, 4375, 0>>, life |-> 15, cycles |-> 5000],
  TRANSFORMER |->
            [weight |-> [performance |-> 5, thermal |-> 35, availability |-> 15,
                         fault_history |-> 20, degradation |-> 15,
                         communication |-> 5, sensor_quality |-> 5],
             nominalPerf |-> 98, nominal |-> 75, critical |-> 110,
             curve |-> <<10000, 8750, 6464, 3505, 0>>, life |-> 35, cycles |-> 20000]]

Clamp(n, low, high) == Max({low, Min({n, high})})
Rounded(n, d) == (2 * n + d) \div (2 * d)

(* The part of "whole", clamped to it, in hundredths of a point.            *)
Share(part, whole) == Rounded(10000 * Clamp(part, 0, whole), whole)

(* The ratio is in thousandths, the nominal ratio in percent.               *)
PerformanceScore(p, e) == Clamp(Rounded(1000 * e.ratio, p.nominalPerf), 0, 10000)

(* Mutant of ThermalScore: the distance to the critical temperature is      *)
(* measured from the wrong end.                                             *)
ThermalScoreReversed(p, e) ==
  IF e.celsius <= p.nominal THEN 10000
  ELSE IF e.celsius >= p.critical THEN 0
  ELSE p.curve[1 + (4 * (p.critical - e.celsius)) \div (p.critical - p.nominal)]

ThermalScore(p, e) ==
  IF e.celsius <= p.nominal THEN 10000
  ELSE IF e.celsius >= p.critical THEN 0
  ELSE p.curve[1 + (4 * (e.celsius - p.nominal)) \div (p.critical - p.nominal)]

CommunicationScore(p, e) ==
  IF e.online THEN (Max({0, 100 - e.drop}) * Max({0, 2000 - e.latency})) \div 20 ELSE 0

(* An alarm loses half its weight every half-life; "age" counts those.      *)
AlarmPenalty(a) ==
  ([LOW |-> 200, MEDIUM |-> 800, HIGH |-> 2500, CRITICAL |-> 5000, EMERGENCY |-> 6000])[a.severity]
    \div 2^a.age

FaultHistoryScore(p, e) ==
  Max({0, 10000 - FoldLeft(LAMBDA n, a : n + AlarmPenalty(a), 0, e.alarms)})

(* Calendar age or cycling wear, whichever is worse.                        *)
DegradationScore(p, e) == 10000 - Max({Share(e.years, p.life), Share(e.cycles, p.cycles)})

SensorQualityScore(p, e) == (Share(e.valid, e.total) * e.confidence) \div 100

(* The score of each known dimension, and how far it is trusted.            *)
SubIndex(p, d, e) ==
  CASE d = "performance"    -> [score |-> PerformanceScore(p, e), confidence |-> 100]
    [] d = "thermal"        -> [score |-> ThermalScore(p, e), confidence |-> 100]
    [] d = "availability"   -> [score |-> Share(e.uptime, e.total), confidence |-> 100]
    [] d = "communication"  -> [score |-> CommunicationScore(p, e),
                                confidence |-> IF e.online THEN e.confidence ELSE 0]
    [] d = "fault_history"  -> [score |-> FaultHistoryScore(p, e), confidence |-> e.confidence]
    [] d = "degradation"    -> [score |-> DegradationScore(p, e), confidence |-> e.confidence]
    [] d = "sensor_quality" -> [score |-> SensorQualityScore(p, e), confidence |-> e.confidence]

AvailableWeight(p, evidence) == MapThenSumSet(LAMBDA d : p.weight[d], DOMAIN evidence)

(* The weights of the unknown dimensions are shared out over the others.    *)
Composite(p, evidence, index) ==
  Clamp(Rounded(MapThenSumSet(LAMBDA d : Rounded(100 * index[d].score * p.weight[d],
                                                 AvailableWeight(p, evidence)),
                              DOMAIN evidence),
                100),
        0, 10000)

Confidence(p, evidence, index) ==
  IF DOMAIN evidence = {} THEN 0
  ELSE Rounded(AvailableWeight(p, evidence)
                 * MapThenSumSet(LAMBDA d : index[d].confidence, DOMAIN evidence),
               100 * Cardinality(DOMAIN evidence))

HealthStates == <<"EXCELLENT", "GOOD", "FAIR", "POOR", "CRITICAL">>

BaseState(score) ==
  IF score >= 8500 THEN "EXCELLENT" ELSE IF score >= 7000 THEN "GOOD"
  ELSE IF score >= 5000 THEN "FAIR" ELSE IF score >= 3000 THEN "POOR" ELSE "CRITICAL"

(* A critical dimension at 50 or below keeps the asset from being           *)
(* EXCELLENT.                                                               *)
GatedState(score, index) ==
  IF /\ BaseState(score) = "EXCELLENT"
     /\ \E d \in DOMAIN index \cap {"performance", "thermal", "fault_history"} :
          index[d].score <= 5000
  THEN "GOOD" ELSE BaseState(score)

EvaluateHealth(p, evidence) ==
  LET index == [d \in DOMAIN evidence |-> SubIndex(p, d, evidence[d])]
      score == Composite(p, evidence, index)
  IN  [score      |-> score,
       state      |-> GatedState(score, index),
       confidence |-> Confidence(p, evidence, index),
       uncertain  |-> Confidence(p, evidence, index) <= 60]
=============================================================================
