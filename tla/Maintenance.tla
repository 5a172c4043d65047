---------------------------- MODULE Maintenance -----------------------------
(***************************************************************************)
(* PredictiveMaintenanceEngine (reamp/maintenance): the remaining life a   *)
(* health history supports, the priority of a repair and the paradigm the  *)
(* recommendation follows.                                                 *)
(*                                                                         *)
(* A request q is what a caller passes to evaluate_maintenance; scores and *)
(* probabilities are in percent, "health" is in hundredths of a point.     *)
(* "failure" is the 30-day Weibull failure probability at the operating    *)
(* hours; a history is sampled in whole days.                              *)
(***************************************************************************)
EXTENDS Integers, FiniteSetsExt, SequencesExt

UnknownRul == -1

(* Covariances over a history of [day, health], times its length squared.   *)
Spread(history, F(_), G(_)) ==
  LET sum(H(_)) == FoldLeft(LAMBDA n, x : n + H(x), 0, history)
  IN  Len(history) * sum(LAMBDA x : F(x) * G(x)) - sum(F) * sum(G)

Day(x)    == x.day
Points(x) == x.health

(* estimate_rul.  The slope of the regression is tilt / width; falling less *)
(* than 1 point in 100 000 h counts as stable.  At or below 30 points the   *)
(* asset is at the end of its life, however well the line fits.             *)
EstimateRul(q, health) ==
  LET width  == Spread(q.history, Day, Day)
      tilt   == Spread(q.history, Day, Points)
      height == Spread(q.history, Points, Points)
      Rul(sufficiency, hours, failure) ==
        [sufficiency |-> sufficiency, hours |-> hours, failure |-> failure]
  IN  IF Len(q.history) < 5 \/ q.confidence < 60 \/ width <= 0
      THEN Rul("INSUFFICIENT", UnknownRul, q.failure)
      ELSE IF tilt >= 0 \/ -100000 * tilt <= 24 * width
      THEN Rul("SUFFICIENT", UnknownRul, q.failure)
      ELSE IF health <= 3000 THEN Rul("SUFFICIENT", 0, 100)
      ELSE Rul(IF 10 * tilt * tilt >= 7 * width * height THEN "SUFFICIENT" ELSE "PARTIAL",
               (24 * (health - 3000) * width) \div (-100 * tilt), q.failure)

Percent(n) == Max({0, Min({100, n})})

(* The composite score in hundredths: failure, criticality, production,     *)
(* safety, avoided cost, logistics.                                         *)
PriorityScore(q, failure) ==
  25 * Percent(failure) + 20 * Percent(q.criticality) + 20 * Percent(q.dailyLoss \div 10)
    + 15 * Percent(q.safety) + 10 * Percent(q.avoidance) + 10 * Percent(q.spares)

SafetyOverride(q) == q.safety >= 85

EvaluatePriority(q, failure) ==
  IF SafetyOverride(q) \/ PriorityScore(q, failure) >= 8000 THEN "P1"
  ELSE IF PriorityScore(q, failure) >= 6000 THEN "P2"
  ELSE IF PriorityScore(q, failure) >= 4000 THEN "P3" ELSE "P4"

Priorities == <<"P1", "P2", "P3", "P4">>

HasTrip(q, findings) ==
  \/ q.operating \in {"FAULT_TRIPPED", "OFFLINE"}
  \/ \E i \in DOMAIN findings :
       /\ findings[i].type \in {"UNEXPECTED_SHUTDOWN", "THRESHOLD_VIOLATION"}
       /\ findings[i].severity = "CRITICAL"

Recommendation(paradigm, urgency, priority) ==
  [paradigm |-> paradigm, urgency |-> urgency, priority |-> priority]

Horizon(hours) == IF hours <= 720 THEN "PLANNED_WEEKS" ELSE "ROUTINE_MONTHS"

(* evaluate_maintenance: a trip, else a life that is known, else a poor     *)
(* health; the rest is routine, whatever priority had been computed.        *)
EvaluateMaintenance(q, health, findings) ==
  LET rul      == EstimateRul(q, health)
      priority == EvaluatePriority(q, rul.failure)
  IN  IF HasTrip(q, findings) THEN Recommendation("REACTIVE", "IMMEDIATE_HOURS", "P1")
      ELSE IF rul.sufficiency = "SUFFICIENT" /\ rul.hours # UnknownRul
      THEN IF q.spares >= 80
           THEN Recommendation("PRESCRIPTIVE",
                               IF rul.hours <= 120 THEN "URGENT_DAYS" ELSE Horizon(rul.hours),
                               priority)
           ELSE Recommendation("PREDICTIVE", Horizon(rul.hours), priority)
      ELSE IF health < 6000
      THEN Recommendation("CONDITION_BASED",
                          IF health < 4500 THEN "URGENT_DAYS" ELSE "PLANNED_WEEKS", priority)
      ELSE Recommendation("CONDITION_BASED", "ROUTINE_MONTHS", "P4")
=============================================================================
