----------------------------- MODULE Detection ------------------------------
(***************************************************************************)
(* AnomalyDetectionEngine (reamp/anomaly): the four levels of detectors    *)
(* that judge one telemetry record of an asset, and the memory the         *)
(* statistical level keeps of the records it has judged.                   *)
(*                                                                         *)
(* A record t has powers in kW, temperatures in degrees, currents in A.    *)
(* Its field "expected" is the power the caller expects (the orchestrator  *)
(* always passes one), "apparent" the kW that volts, amperes and power     *)
(* factor give, "ml" the score of the isolation forest in percent (a       *)
(* trained model, any score), "cohort" the powers of the asset's peers.    *)
(* What a finding carries besides its type and severity is left out.       *)
(***************************************************************************)
EXTENDS Integers, SequencesExt

CONSTANTS
  EwmaWarmUp,     (* records before the EWMA chart speaks: 15               *)
  MinDeltas,      (* current steps before the z-score speaks: 10            *)
  RollingWindow   (* current steps remembered: 30                           *)

ASSUME DetectionAssumption ==
  EwmaWarmUp \in Nat /\ MinDeltas \in Nat \ {0} /\ RollingWindow \in Nat \ {0}

VARIABLES
  lastCurrent,    (* last_values of current_ac_a                            *)
  deltas,         (* delta_history of current_ac_a                          *)
  ewma,           (* ewma_state: t and 5^t times s_prev (alpha is 1/5)      *)
  cusum           (* cusum_state: s_high and s_low, doubled (k is 7.5 kW)   *)

memory == <<lastCurrent, deltas, ewma, cusum>>

Absent == -9999   (* stands for a key the record does not carry             *)

Finding(type, severity) == <<[type |-> type, severity |-> severity]>>
None == <<>>

DetectionInit ==
  /\ lastCurrent = Absent
  /\ deltas = <<>>
  /\ ewma = [t |-> 0, s |-> 0]
  /\ cusum = [high |-> 0, low |-> 0]

-----------------------------------------------------------------------------
(* Level 1: hard limits.                                                    *)

Magnitude(n) == IF n < 0 THEN -n ELSE n

Impossible(t) ==
  (IF t.poa # Absent /\ (t.poa < -5 \/ t.poa > 1600)
   THEN Finding("IMPOSSIBLE_VALUE", "HIGH") ELSE None) \o
  (IF t.cell # Absent /\ (t.cell < -50 \/ t.cell > 130)
   THEN Finding("IMPOSSIBLE_VALUE", "HIGH") ELSE None)

(* 10 % around 480 V, critical beyond 15 %.                                 *)
VoltageViolation(t) ==
  IF t.volts > 0 /\ (t.volts > 528 \/ t.volts < 432)
  THEN Finding("THRESHOLD_VIOLATION",
               IF Magnitude(t.volts - 480) > 72 THEN "CRITICAL" ELSE "HIGH")
  ELSE None

ThresholdViolations(t) ==
  VoltageViolation(t) \o
  (IF t.heatsink > 85 THEN Finding("THRESHOLD_VIOLATION", "CRITICAL") ELSE None) \o
  (IF t.current > 1200 THEN Finding("THRESHOLD_VIOLATION", "CRITICAL") ELSE None)

UnexpectedShutdown(t) ==
  IF t.state = "RUNNING" /\ t.poa >= 250 /\ t.power <= 1
  THEN Finding("UNEXPECTED_SHUTDOWN", "CRITICAL") ELSE None

CommunicationTimeout(t) ==
  IF t.silent THEN Finding("COMMUNICATION_TIMEOUT", "HIGH") ELSE None

Level1(t) ==
  Impossible(t) \o ThresholdViolations(t) \o UnexpectedShutdown(t) \o CommunicationTimeout(t)

Types(findings) == {findings[i].type : i \in DOMAIN findings}

-----------------------------------------------------------------------------
(* Level 2, the rolling z-score of the steps of the current.                *)

HasStep(t) == t.current # Absent /\ lastCurrent # Absent
Step(t)    == t.current - lastCurrent

SumOf(s)     == FoldLeft(LAMBDA a, x : a + x, 0, s)
SquaresOf(s) == FoldLeft(LAMBDA a, x : a + x * x, 0, s)

(* |step - mean| >= k * std, both sides multiplied by the number of steps   *)
(* and squared; std is at least 1 A.                                        *)
OutOfLine(x, s, k) ==
  LET n == Len(s) IN
  (n * x - SumOf(s)) * (n * x - SumOf(s))
     >= k * k * Max({n * SquaresOf(s) - SumOf(s) * SumOf(s), n * n})

ZScore(t) ==
  IF /\ HasStep(t)
     /\ Len(deltas) >= MinDeltas
     /\ OutOfLine(Step(t), deltas, 3)
     /\ Magnitude(Step(t)) >= 50
  THEN Finding("STATISTICAL_ZSCORE", IF OutOfLine(Step(t), deltas, 5) THEN "HIGH" ELSE "MEDIUM")
  ELSE None

RememberCurrent(t) ==
  /\ lastCurrent' = IF t.current # Absent THEN t.current ELSE lastCurrent
  /\ deltas' = IF ~HasStep(t) THEN deltas
               ELSE IF Len(deltas) < RollingWindow THEN Append(deltas, Step(t))
               ELSE Append(Tail(deltas), Step(t))

-----------------------------------------------------------------------------
(* Level 2, the charts of the power residual.                               *)

Residual(t)        == t.power - t.expected
ActiveDeviation(t) == Magnitude(Residual(t)) >= 30

(* s = residual/5 + 4/5 s_prev, where the first s_prev is the residual.     *)
Smoothed(t) ==
  [t |-> ewma.t + 1,
   s |-> 5^ewma.t * Residual(t) + 4 * (IF ewma.t = 0 THEN Residual(t) ELSE ewma.s)]

(* Past the warm-up the limit is 3 sigma sqrt(alpha / (2 - alpha)) = 15 kW  *)
(* within a thousandth.                                                     *)
EwmaDrift(t) ==
  IF /\ Smoothed(t).t > EwmaWarmUp
     /\ Magnitude(Smoothed(t).s) > 15 * 5^(Smoothed(t).t)
     /\ ActiveDeviation(t)
  THEN Finding("STATISTICAL_EWMA", "MEDIUM") ELSE None

(* Mutant of Accumulated: the sums are not kept from going below zero.      *)
AccumulatedUnclamped(t) ==
  [high |-> cusum.high + 2 * Residual(t) - 15, low |-> cusum.low - 2 * Residual(t) - 15]

Accumulated(t) ==
  [high |-> Max({0, cusum.high + 2 * Residual(t) - 15}),
   low  |-> Max({0, cusum.low - 2 * Residual(t) - 15})]

(* 4 sigma = 60 kW.                                                         *)
Shifted(t) ==
  (Accumulated(t).high > 120 \/ Accumulated(t).low > 120) /\ ActiveDeviation(t)

ChangePoint(t) == IF Shifted(t) THEN Finding("CHANGE_POINT_CUSUM", "HIGH") ELSE None

RememberResidual(t) ==
  /\ ewma'  = Smoothed(t)
  /\ cusum' = IF Shifted(t) THEN [high |-> 0, low |-> 0] ELSE Accumulated(t)

Level2(t) == ZScore(t) \o EwmaDrift(t) \o ChangePoint(t)

-----------------------------------------------------------------------------
(* Level 3: the isolation forest judges complete records in daylight.       *)

Level3(t) ==
  IF t.poa < 150 \/ t.ml < 58 \/ Absent \in {t.volts, t.current, t.cell, t.heatsink}
  THEN None
  ELSE Finding("ML_ISOLATION_FOREST",
               IF t.ml >= 80 THEN "CRITICAL" ELSE IF t.ml >= 70 THEN "HIGH" ELSE "MEDIUM")

-----------------------------------------------------------------------------
(* Level 4: conservation laws of the record (800 kW is the rated power the  *)
(* detector assumes) and the peers of its cohort.                           *)

PowerLawResidual(t) ==
  IF /\ Absent \notin {t.volts, t.current}
     /\ t.power > 10
     /\ Magnitude(t.power - t.apparent) * 100 > 12 * 800
  THEN Finding("PHYSICAL_RESIDUAL", "HIGH") ELSE None

ThermalResidual(t) ==
  IF t.power > 50 /\ t.heatsink - t.ambient - 20 > (35 * t.power * t.power) \div (800 * 800)
  THEN Finding("PHYSICAL_RESIDUAL", "HIGH") ELSE None

(* Twice the median.                                                        *)
Median2(s) ==
  LET sorted == SortSeq(s, LAMBDA a, b : a < b)
  IN  sorted[(Len(s) + 1) \div 2] + sorted[Len(s) \div 2 + 1]

(* The modified z-score on the median absolute deviation, which counts as   *)
(* at least 2 % of the median.  Medians are doubled, deviations quadrupled. *)
PeerOutlier(t) ==
  LET powers    == Append(t.cohort, t.power)
      median2   == Median2(powers)
      mad4      == Median2([i \in DOMAIN powers |-> Magnitude(2 * powers[i] - median2)])
      deficit4  == 2 * median2 - 4 * t.power
  IN  IF /\ Len(t.cohort) >= 2
         /\ median2 >= 100
         /\ 6745 * deficit4 > 35000 * Max({mad4, median2 \div 25})
      THEN Finding("PEER_OUTLIER", IF 10 * deficit4 > 8 * median2 THEN "CRITICAL" ELSE "HIGH")
      ELSE None

Level4(t) == PowerLawResidual(t) \o ThermalResidual(t) \o PeerOutlier(t)

-----------------------------------------------------------------------------
(* evaluate: a finding of level 1 that explains the record silences the     *)
(* levels it would upset, and level 2 does not learn from that record.      *)

Untrusted(t) == Types(Level1(t)) \cap {"IMPOSSIBLE_VALUE", "COMMUNICATION_TIMEOUT"} # {}
Tripped(t)   == "UNEXPECTED_SHUTDOWN" \in Types(Level1(t))

Judged(t) == ~(Untrusted(t) \/ Tripped(t))

(* Sorted by severity; among equals the order does not matter to a caller.  *)
OfSeverity(findings, severity) ==
  FoldLeft(LAMBDA kept, f : IF f.severity = severity THEN Append(kept, f) ELSE kept,
           None, findings)

MostSevereFirst(findings) ==
  OfSeverity(findings, "CRITICAL") \o OfSeverity(findings, "HIGH") \o OfSeverity(findings, "MEDIUM")

Findings(t) ==
  MostSevereFirst(Level1(t)
                  \o (IF Judged(t) THEN Level2(t) \o Level3(t) ELSE None)
                  \o (IF ~Untrusted(t) THEN Level4(t) ELSE None))

Learn(t) ==
  IF Judged(t) THEN RememberCurrent(t) /\ RememberResidual(t) ELSE UNCHANGED memory
=============================================================================
