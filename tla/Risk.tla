-------------------------------- MODULE Risk --------------------------------
(***************************************************************************)
(* RiskAndFinancialEngine (reamp/risk/engine.py): the risk an event        *)
(* carries, what it costs, and the order in which a fleet's events are     *)
(* taken up.                                                               *)
(*                                                                         *)
(* Consequences are in hundredths of a point, probabilities in percent,    *)
(* money in dollars; an event x is what a caller passes to                 *)
(* calculate_event_risk, with the default assumptions.                     *)
(***************************************************************************)
EXTENDS Integers, FiniteSetsExt, SequencesExt

Tariff10   == 1    (* energy tariff, tenths of a dollar per kWh             *)
HourlyRate == 85   (* technician                                            *)

Bounded(n) == Max({0, Min({10000, n})})

Vector(x) ==
  [PRODUCTION_LOSS       |-> Bounded(5 * x.lostKwh),
   ASSET_CRITICALITY     |-> 100 * x.criticality,
   SAFETY_CONSEQUENCE    |-> 100 * x.safety,
   MAINTENANCE_LOGISTICS |-> Bounded(Min({5000, (5000 * x.leadDays) \div 14})
                                     + (IF x.tooling THEN 4000 ELSE 1000))]

Weight == [PRODUCTION_LOSS |-> 35, ASSET_CRITICALITY |-> 25,
           SAFETY_CONSEQUENCE |-> 25, MAINTENANCE_LOGISTICS |-> 15]

(* The composite consequence, in hundredths of a hundredth.                 *)
Consequence(x) == MapThenSumSet(LAMBDA d : Weight[d] * Vector(x)[d], DOMAIN Weight)

Override(x) == x.safety >= 85

Likelihood(x) == Max({0, Min({100, x.probability})})

RiskTiers == <<"EXTREME", "HIGH", "MEDIUM", "LOW">>

Tier(points) ==
  IF points >= 75 THEN "EXTREME" ELSE IF points >= 50 THEN "HIGH"
  ELSE IF points >= 25 THEN "MEDIUM" ELSE "LOW"

Impact(x) ==
  Max({0, (x.lostKwh * Tariff10) \div 10})
    + x.labourHours * HourlyRate + x.spareParts
    + (x.probability * x.capital) \div 100

(* Probability times consequence is in millionths of a point; the score     *)
(* reported and ranked is rounded to a tenth of a point.                    *)
CalculateEventRisk(x) ==
  LET raw    == Likelihood(x) * Consequence(x)
      tenths == (raw + 50000) \div 100000
  IN  [score    |-> IF Override(x) THEN Max({tenths, 850}) ELSE tenths,
       tier     |-> IF Override(x) THEN "EXTREME" ELSE Tier(raw \div 1000000),
       override |-> Override(x),
       vector   |-> Vector(x),
       impact   |-> Impact(x)]

(* The key of the ranking: safety, then risk, then money.                   *)
Outranks(a, b) ==
  IF a.override # b.override THEN a.override
  ELSE IF a.score # b.score THEN a.score > b.score
  ELSE a.impact > b.impact

(* rank_fleet_assets: as indices of the events, ties in their given order.  *)
RankFleetAssets(events) ==
  SetToSortSeq(DOMAIN events,
               LAMBDA i, j : \/ Outranks(events[i], events[j])
                             \/ ~Outranks(events[j], events[i]) /\ i < j)
=============================================================================
