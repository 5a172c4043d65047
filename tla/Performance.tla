---------------------------- MODULE Performance -----------------------------
(***************************************************************************)
(* PerformanceIntelligenceEngine (reamp/performance): what an asset should *)
(* have produced, and what a shortfall is charged to.                      *)
(*                                                                         *)
(* Powers are whole kW, an evaluation covers one hour, money is in cents.  *)
(* A record t says what the resource offers: "poa" (sun), "wind" (m/s at   *)
(* the reference air density) or "setpoint", "soc" and "cell" (battery).   *)
(***************************************************************************)
EXTENDS Integers, FiniteSetsExt, SequencesExt

NoReading == -9999   (* stands for a key the record does not carry          *)

Rating == [SOLAR |-> [dc |-> 2750, kw |-> 2500, tariff |-> 8],
           WIND  |-> [cutIn |-> 3, rated |-> 12, cutOut |-> 25, kw |-> 2000, tariff |-> 7],
           BESS  |-> [kw |-> 1000, minSoc |-> 5, maxSoc |-> 95, tariff |-> 12]]

Positive(n) == Max({0, n})
Within(n, low, high) == Max({low, Min({n, high})})
Size(n) == IF n < 0 THEN -n ELSE n
Cubed(v) == v * v * v

-----------------------------------------------------------------------------
(* The physical models.                                                     *)

CellTemperature(t) ==
  IF t.module # NoReading THEN t.module + (3 * t.poa) \div 1000
                          ELSE t.ambient + (25 * t.poa) \div 800

(* Derating per mille, -0.38 % per degree from 25.                          *)
Derating(t) == Within(1000 - (38 * (CellTemperature(t) - 25)) \div 10, 100, 1300)

(* Optics, wiring and inverter leave 94.6 % of the DC potential.            *)
SolarExpected(p, t) ==
  LET potential == (((p.dc * t.poa) \div 1000) * 946) \div 1000
      uncapped  == (potential * Derating(t)) \div 1000
  IN  IF t.poa < 20
      THEN [expected |-> 0, resource |-> p.kw, thermal |-> 0, clipping |-> 0]
      ELSE [expected |-> Min({p.kw, uncapped}), resource |-> Positive(p.kw - potential),
            thermal |-> Positive(potential - uncapped), clipping |-> Positive(uncapped - p.kw)]

(* Calm, cubic, rated, storm.                                               *)
WindExpected(p, t) ==
  LET v == Positive(t.wind)
      kw == IF v < p.cutIn \/ v > p.cutOut THEN 0
            ELSE IF v < p.rated
            THEN (p.kw * (Cubed(v) - Cubed(p.cutIn))) \div (Cubed(p.rated) - Cubed(p.cutIn))
            ELSE p.kw
  IN  [expected |-> kw, resource |-> p.kw - kw]

(* A state of charge of at most 1 is read as a fraction, not a percentage.  *)
StateOfCharge(soc) == IF soc > 1 THEN soc ELSE 100 * soc

ThermalLimit(p, cell) ==
  (p.kw * (IF cell < 5 THEN Max({20, 100 - 5 * (5 - cell)})
           ELSE IF cell > 40 THEN Max({30, 100 - 4 * (cell - 40)}) ELSE 100)) \div 100

BessExpected(p, t) ==
  [expected |->
     IF \/ t.setpoint > 0 /\ StateOfCharge(t.soc) <= p.minSoc
        \/ t.setpoint < 0 /\ StateOfCharge(t.soc) >= p.maxSoc
     THEN 0
     ELSE Within(t.setpoint, -ThermalLimit(p, t.cell), ThermalLimit(p, t.cell))]

ExpectedOf(tech, t) ==
  CASE tech = "SOLAR" -> SolarExpected(Rating.SOLAR, t)
    [] tech = "WIND"  -> WindExpected(Rating.WIND, t)
    [] tech = "BESS"  -> BessExpected(Rating.BESS, t)

-----------------------------------------------------------------------------
(* Attribution.                                                             *)

Outage(t)  == t.state \in {"FAULT_TRIPPED", "MAINTENANCE", "OFFLINE"}

Missing(tech, t) ==
  \/ t.quality \in {"INVALID", "MISSING"}
  \/ NoReading \in {t.power, [SOLAR |-> t.poa, WIND |-> t.wind, BESS |-> t.setpoint][tech]}

Loss(category, kwh, cents) == <<[category |-> category, kwh |-> kwh, cents |-> cents]>>
Priced(tech, category, kwh) == Loss(category, kwh, kwh * Rating[tech].tariff)
Natural(category, kwh) == IF kwh > 0 THEN Loss(category, kwh, 0) ELSE <<>>

Charged == {"CONTROLLABLE_UNDERPERFORMANCE", "ASSET_OUTAGE", "CURTAILMENT"}

Result(t, class, gap, losses) ==
  [class      |-> class,
   gap        |-> gap,
   losses     |-> losses,
   confidence |-> IF class = "MISSING_DATA" THEN Min({30, t.confidence}) ELSE t.confidence,
   uncertain  |-> class = "MISSING_DATA" \/ t.confidence <= 60,
   kwh        |-> SumFunction([i \in DOMAIN losses |->
                                 IF losses[i].category \in Charged THEN losses[i].kwh ELSE 0]),
   cents      |-> SumFunction([i \in DOMAIN losses |-> losses[i].cents])]

MissingData(t) == Result(t, "MISSING_DATA", 0, Loss("MISSING_DATA", 0, 0))

(* The limit of a curtailment is named in the explanation and charged       *)
(* nothing: the loss is the distance to the actual power.                   *)
EvaluateSolar(t) ==
  LET m   == SolarExpected(Rating.SOLAR, t)
      gap == Positive(m.expected - t.power)
      waterfall == Natural("RESOURCE_VARIATION", m.resource)
                   \o Natural("THERMAL_DERATE", m.thermal)
                   \o Natural("INVERTER_CLIPPING", m.clipping)
  IN  IF Missing("SOLAR", t) THEN MissingData(t)
      ELSE IF Outage(t)
      THEN Result(t, "OUTAGE", m.expected, Priced("SOLAR", "ASSET_OUTAGE", m.expected))
      ELSE IF t.state = "CURTAILED"
      THEN Result(t, "CURTAILED", gap, Priced("SOLAR", "CURTAILMENT", gap))
      ELSE IF 100 * gap > 3 * Rating.SOLAR.kw
      THEN Result(t, "UNDERPERFORMING", gap,
                  waterfall \o Priced("SOLAR", "CONTROLLABLE_UNDERPERFORMANCE", gap))
      ELSE Result(t, IF t.poa < 400 THEN "ENVIRONMENTAL_VARIATION" ELSE "NOMINAL", 0, waterfall)

(* A curtailed turbine is judged like a running one.                        *)
EvaluateWind(t) ==
  LET m   == WindExpected(Rating.WIND, t)
      gap == Positive(m.expected - t.power)
      waterfall == Natural("RESOURCE_VARIATION", m.resource)
  IN  IF Missing("WIND", t) THEN MissingData(t)
      ELSE IF Outage(t)
      THEN Result(t, "OUTAGE", m.expected, Priced("WIND", "ASSET_OUTAGE", m.expected))
      ELSE IF 100 * gap > 5 * Rating.WIND.kw
      THEN Result(t, "UNDERPERFORMING", gap,
                  waterfall \o Priced("WIND", "CONTROLLABLE_UNDERPERFORMANCE", gap))
      ELSE Result(t, IF t.wind < Rating.WIND.cutIn THEN "ENVIRONMENTAL_VARIATION" ELSE "NOMINAL",
                  0, waterfall)

(* Mutant of EvaluateBess: charging is not taken by its size.               *)
EvaluateBessSigned(t) ==
  LET m   == BessExpected(Rating.BESS, t)
      gap == Positive(m.expected - t.power)
  IN  IF Missing("BESS", t) THEN MissingData(t)
      ELSE IF Outage(t)
      THEN Result(t, "OUTAGE", gap, Priced("BESS", "ASSET_OUTAGE", Size(m.expected)))
      ELSE IF 100 * gap > 5 * Rating.BESS.kw
      THEN Result(t, "UNDERPERFORMING", gap, Priced("BESS", "CONTROLLABLE_UNDERPERFORMANCE", gap))
      ELSE Result(t, "NOMINAL", 0, <<>>)

(* Charging and discharging alike: sizes are compared.  In an outage the    *)
(* gap reported is the tracking error, the loss the whole set point.        *)
EvaluateBess(t) ==
  LET m   == BessExpected(Rating.BESS, t)
      gap == Positive(Size(m.expected) - Size(t.power))
  IN  IF Missing("BESS", t) THEN MissingData(t)
      ELSE IF Outage(t)
      THEN Result(t, "OUTAGE", gap, Priced("BESS", "ASSET_OUTAGE", Size(m.expected)))
      ELSE IF 100 * gap > 5 * Rating.BESS.kw
      THEN Result(t, "UNDERPERFORMING", gap, Priced("BESS", "CONTROLLABLE_UNDERPERFORMANCE", gap))
      ELSE Result(t, "NOMINAL", 0, <<>>)

EvaluatePerformance(tech, t) ==
  CASE tech = "SOLAR" -> EvaluateSolar(t)
    [] tech = "WIND"  -> EvaluateWind(t)
    [] tech = "BESS"  -> EvaluateBess(t)
=============================================================================
