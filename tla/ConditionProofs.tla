-------------------------- MODULE ConditionProofs ---------------------------
(***************************************************************************)
(* What the engines say of one asset, for any packets and any number of    *)
(* them, any background, warm-up and window: a deviation that persists is  *)
(* alerted, and every deficit is booked once and at its price.             *)
(*                                                                         *)
(* The first needs the memory of the charts (ConditionInv): only an alert  *)
(* resets or bypasses the sums, so after quiet packets they hold what      *)
(* those deviated.  The second is about the evaluation of any packet: what *)
(* the physical models say is possible, the tolerance of each technology,  *)
(* and sums over accounts of any length.                                   *)
(***************************************************************************)
EXTENDS Condition, FoldLemmas

(* Numbers.                                                                 *)

(* The greater and the smaller of two.                                      *)
LEMMA OfTwo ==
  ASSUME NEW a \in Int, NEW b \in Int
  PROVE  /\ Max({a, b}) = IF a >= b THEN a ELSE b
         /\ Min({a, b}) = IF a <= b THEN a ELSE b
<1>1. /\ Max({a, b}) \in {a, b} /\ \A y \in {a, b} : Max({a, b}) >= y
      /\ Min({a, b}) \in {a, b} /\ \A y \in {a, b} : Min({a, b}) <= y
  <2>1. \E x \in {a, b} : \A y \in {a, b} : x >= y
    OBVIOUS
  <2>2. \E x \in {a, b} : \A y \in {a, b} : x <= y
    OBVIOUS
  <2> QED BY <2>1, <2>2 DEF Max, Min
<1> QED BY <1>1

(* Arithmetic of the engines.                                               *)
LEMMA NumbersIs ==
  ASSUME NEW n \in Int
  PROVE  /\ Positive(n) = IF n > 0 THEN n ELSE 0
         /\ Size(n) = IF n < 0 THEN -n ELSE n
         /\ Magnitude(n) = Size(n)
         /\ \A low, high \in Int : low <= high => Within(n, low, high) \in low..high
<1>1. Positive(n) = IF n > 0 THEN n ELSE 0
  BY OfTwo DEF Positive
<1>2. Size(n) = IF n < 0 THEN -n ELSE n
  BY DEF Size
<1>3. ASSUME NEW low \in Int, NEW high \in Int, low <= high
      PROVE  Within(n, low, high) \in low..high
  <2>0. Min({n, high}) = IF n <= high THEN n ELSE high
    BY OfTwo
  <2>1. Min({n, high}) \in Int /\ Min({n, high}) <= high
    BY <2>0
  <2>2. Max({low, Min({n, high})}) = IF low >= Min({n, high}) THEN low ELSE Min({n, high})
    BY <2>1, OfTwo
  <2> QED BY <1>3, <2>1, <2>2 DEF Within
<1> QED BY <1>1, <1>2, <1>3 DEF Magnitude

-----------------------------------------------------------------------------
(* Findings.                                                                *)

Severities == {"CRITICAL", "HIGH", "MEDIUM"}

Found(q, severity) == \E i \in DOMAIN q : q[i].severity = severity

Alarming(q) == Found(q, "CRITICAL") \/ Found(q, "HIGH")

(* Of sequences in a row, either may hold a finding.                        *)
LEMMA FoundIn ==
  ASSUME NEW F, NEW p \in Seq(F), NEW q \in Seq(F), NEW severity
  PROVE  Found(p \o q, severity) <=> Found(p, severity) \/ Found(q, severity)
<1>1. /\ DOMAIN (p \o q) = 1..(Len(p) + Len(q)) /\ DOMAIN p = 1..Len(p) /\ DOMAIN q = 1..Len(q)
      /\ Len(p) \in Nat /\ Len(q) \in Nat
      /\ \A i \in 1..(Len(p) + Len(q)) : (p \o q)[i] = IF i <= Len(p) THEN p[i] ELSE q[i - Len(p)]
  BY ConcatProperties
<1>2. ASSUME NEW i \in DOMAIN p PROVE i \in DOMAIN (p \o q) /\ (p \o q)[i] = p[i]
  BY <1>1
<1>3. ASSUME NEW i \in DOMAIN q
      PROVE  i + Len(p) \in DOMAIN (p \o q) /\ (p \o q)[i + Len(p)] = q[i]
  <2>1. i + Len(p) \in 1..(Len(p) + Len(q)) /\ ~ (i + Len(p) <= Len(p)) /\ (i + Len(p)) - Len(p) = i
    BY <1>1
  <2> QED BY <1>1, <2>1
<1>4. ASSUME NEW i \in DOMAIN (p \o q)
      PROVE  (i \in DOMAIN p /\ (p \o q)[i] = p[i])
             \/ (i - Len(p) \in DOMAIN q /\ (p \o q)[i] = q[i - Len(p)])
  BY <1>1
<1> QED BY <1>2, <1>3, <1>4 DEF Found

(* Selecting keeps what is selected.                                        *)
LEMMA OfSeverityIs ==
  ASSUME NEW F, NEW q \in Seq(F), NEW severity
  PROVE  /\ OfSeverity(q, severity) \in Seq(F)
         /\ Found(q, severity) => Found(OfSeverity(q, severity), severity)
<1> DEFINE D == DOMAIN q
           V == Seq(F)
           Added(kept, f) == IF f.severity = severity THEN Append(kept, f) ELSE kept
           Keeps(g) == g = [s \in SUBSET D |-> IF s = {} THEN None
                                               ELSE Added(g[s \ {Max(s)}], q[Max(s)])]
           all == CHOOSE g : Keeps(g)
<1>1. OfSeverity(q, severity) = all[D]
  BY DEF OfSeverity, FoldLeft, MapThenFoldSet
<1>2. D = 1..Len(q) /\ Len(q) \in Nat /\ IsFiniteSet(D) /\ \A i \in D : q[i] \in F
  BY FS_Interval
<1>3. \A s \in SUBSET D : s # {} => Max(s) \in s
  <2> SUFFICES ASSUME NEW s \in SUBSET D, s # {} PROVE Max(s) \in s
    OBVIOUS
  <2>1. s \subseteq 0..Len(q)
    BY <1>2
  <2> QED BY <1>2, <2>1, MaxIn
<1>4. None \in V /\ \A v \in V, f \in F : Added(v, f) \in V
  BY EmptySeq, AppendProperties DEF None
<1> HIDE DEF D, V, Added
<1>5. \E g \in [SUBSET D -> V] : Keeps(g)
  <2> DEFINE pick == [s \in SUBSET D |-> Max(s)]
             step == [p \in D \X V |-> Added(p[2], q[p[1]])]
  <2>1. Picks(pick, D)
    BY <1>3 DEF Picks
  <2>2. \A x \in D, v \in V : step[<<x, v>>] = Added(v, q[x]) /\ step[<<x, v>>] \in V
    BY <1>2, <1>4
  <2> HIDE DEF step, pick
  <2>3. PICK g \in [SUBSET D -> V] : FoldsUp(g, D, None, pick, step)
    <3>1. Steps(step, D, V)
      BY <2>2 DEF Steps
    <3> QED BY <1>2, <1>4, <2>1, <3>1, FoldExists
  <2>4. \A s \in SUBSET D : s # {} =>
          step[<<pick[s], g[s \ {pick[s]}]>>] = Added(g[s \ {Max(s)}], q[Max(s)])
    <3> SUFFICES ASSUME NEW s \in SUBSET D, s # {}
                 PROVE  step[<<pick[s], g[s \ {pick[s]}]>>] = Added(g[s \ {Max(s)}], q[Max(s)])
      OBVIOUS
    <3>1. pick[s] = Max(s) /\ Max(s) \in D /\ s \ {Max(s)} \in SUBSET D
      BY <1>3 DEF pick
    <3>2. g[s \ {Max(s)}] \in V
      BY <3>1
    <3> QED BY <2>2, <3>1, <3>2
  <2>5. Keeps(g)
    BY <2>3, <2>4 DEF FoldsUp
  <2> QED BY <2>5
<1>6. Keeps(all)
  <2> HIDE DEF Keeps
  <2> QED BY <1>5
<1> HIDE DEF all
<1>7. /\ DOMAIN all = SUBSET D /\ all[{}] = None
      /\ \A s \in SUBSET D : s # {} => all[s] = Added(all[s \ {Max(s)}], q[Max(s)])
  BY <1>6
<1> DEFINE Kept(s) == \A i \in s : q[i].severity = severity => Found(all[s], severity)
           P == {s \in SUBSET D : all[s] \in V /\ Kept(s)}
<1>8. ASSUME NEW v \in V, NEW f \in F
      PROVE  /\ f.severity = severity => Found(Added(v, f), severity)
             /\ Found(v, severity) => Found(Added(v, f), severity)
  <2>1. CASE f.severity = severity
    <3>1. /\ DOMAIN Append(v, f) = 1..(Len(v) + 1) /\ DOMAIN v = 1..Len(v) /\ Len(v) \in Nat
          /\ Append(v, f)[Len(v) + 1] = f /\ \A i \in 1..Len(v) : Append(v, f)[i] = v[i]
      BY AppendProperties DEF V
    <3>2. Len(v) + 1 \in DOMAIN Append(v, f) /\ \A i \in 1..Len(v) : i \in DOMAIN Append(v, f)
      BY <3>1
    <3> QED BY <2>1, <3>1, <3>2 DEF Found, Added
  <2>2. CASE f.severity # severity
    BY <2>2 DEF Added
  <2> QED BY <2>1, <2>2
<1>9. ASSUME NEW s \in SUBSET D, \A r \in SUBSET s : r # s => r \in P
      PROVE  s \in P
  <2>1. CASE s = {}
    BY <1>4, <1>7, <2>1
  <2>2. CASE s # {}
    <3> DEFINE m == Max(s)
               r == s \ {m}
    <3>1. m \in s /\ r \in SUBSET s /\ r # s
      BY <1>3, <2>2
    <3>2. all[r] \in V /\ Kept(r) /\ q[m] \in F
      BY <1>2, <1>9, <3>1
    <3>3. all[s] = Added(all[r], q[m])
      BY <1>7, <2>2
    <3> HIDE DEF m
    <3>4. all[s] \in V
      BY <1>4, <3>2, <3>3
    <3>5. ASSUME NEW i \in s, q[i].severity = severity PROVE Found(all[s], severity)
      <4>1. CASE i = m
        BY <1>8, <3>2, <3>3, <3>5, <4>1
      <4>2. CASE i # m
        <5>1. Found(all[r], severity)
          BY <3>2, <3>5, <4>2
        <5> QED BY <1>8, <3>2, <3>3, <5>1
      <4> QED BY <4>1, <4>2
    <3> QED BY <3>4, <3>5
  <2> QED BY <2>1, <2>2
<1>10. SUBSET D \subseteq P
  <2>1. IsFiniteSet(D)
    BY <1>2
  <2> HIDE DEF P
  <2> QED BY <1>9, <2>1, SubsetsIn
<1>11. all[D] \in V /\ Kept(D)
  BY <1>10
<1> QED BY <1>1, <1>11 DEF Found, V, D

(* Sorting by severity loses no finding that becomes an alert.              *)
LEMMA SortedIs ==
  ASSUME NEW F, NEW q \in Seq(F)
  PROVE  MostSevereFirst(q) \in Seq(F) /\ (Alarming(q) => Alarming(MostSevereFirst(q)))
<1> DEFINE c == OfSeverity(q, "CRITICAL")
           h == OfSeverity(q, "HIGH")
           m == OfSeverity(q, "MEDIUM")
<1>1. c \in Seq(F) /\ h \in Seq(F) /\ m \in Seq(F)
  BY OfSeverityIs
<1>2. (Found(q, "CRITICAL") => Found(c, "CRITICAL")) /\ (Found(q, "HIGH") => Found(h, "HIGH"))
  BY OfSeverityIs
<1>3. MostSevereFirst(q) = (c \o h) \o m
  BY DEF MostSevereFirst
<1> HIDE DEF c, h, m
<1>4. c \o h \in Seq(F) /\ (c \o h) \o m \in Seq(F)
  BY <1>1, ConcatProperties
<1>5. /\ Found(c, "CRITICAL") => Found((c \o h) \o m, "CRITICAL")
      /\ Found(h, "HIGH") => Found((c \o h) \o m, "HIGH")
  BY <1>1, <1>4, FoundIn
<1> QED BY <1>2, <1>3, <1>4, <1>5 DEF Alarming

-----------------------------------------------------------------------------
(* What one record says.                                                    *)

Kinds == {"IMPOSSIBLE_VALUE", "THRESHOLD_VIOLATION", "UNEXPECTED_SHUTDOWN",
          "COMMUNICATION_TIMEOUT", "STATISTICAL_ZSCORE", "STATISTICAL_EWMA",
          "CHANGE_POINT_CUSUM", "ML_ISOLATION_FOREST", "PHYSICAL_RESIDUAL", "PEER_OUTLIER"}

FindingsType == [type : Kinds, severity : Severities]

(* One finding, or none.                                                    *)
LEMMA FindingIs ==
  ASSUME NEW kind \in Kinds, NEW severity \in Severities
  PROVE  /\ Finding(kind, severity) \in Seq(FindingsType)
         /\ Found(Finding(kind, severity), severity)
         /\ Len(Finding(kind, severity)) = 1 /\ DOMAIN Finding(kind, severity) = 1..1
         /\ Finding(kind, severity)[1].type = kind /\ Finding(kind, severity)[1].severity = severity
<1> DEFINE f == [type |-> kind, severity |-> severity]
<1>1. f \in FindingsType /\ f.type = kind /\ f.severity = severity
  BY DEF FindingsType
<1> HIDE DEF f
<1>2. /\ <<f>> \in Seq(FindingsType) /\ Len(<<f>>) = 1 /\ DOMAIN <<f>> = 1..1
      /\ <<f>>[1] = f
  BY <1>1
<1>3. Finding(kind, severity) = <<f>>
  BY DEF Finding, f
<1> QED BY <1>1, <1>2, <1>3 DEF Found

(* No finding is a sequence of findings.                                    *)
LEMMA NoneIs == None \in Seq(FindingsType)
BY EmptySeq DEF None

(* Every finding of level 1 is an alert.                                    *)
Alerted(q) == q \in Seq(FindingsType) /\ (q # <<>> => Alarming(q))

(* So are several in a row.                                                 *)
LEMMA AlertedRow ==
  ASSUME NEW p, Alerted(p), NEW q, Alerted(q)
  PROVE  Alerted(p \o q)
<1>1. p \o q \in Seq(FindingsType)
  BY ConcatProperties DEF Alerted
<1>2. CASE p = <<>> /\ q = <<>>
  <2>1. p \o q = <<>>
    BY <1>2, ConcatEmptySeq, EmptySeq
  <2> QED BY <1>1, <2>1 DEF Alerted
<1>3. CASE p # <<>> \/ q # <<>>
  BY <1>1, <1>3, FoundIn DEF Alerted, Alarming
<1> QED BY <1>2, <1>3

(* A finding that may be made, or none.                                     *)
LEMMA MaybeAlerted ==
  ASSUME NEW kind \in Kinds, NEW severity \in {"CRITICAL", "HIGH"}
  PROVE  Alerted(Finding(kind, severity)) /\ Alerted(None)
<1>1. severity \in Severities
  BY DEF Severities
<1> QED BY <1>1, FindingIs, NoneIs DEF Alerted, Alarming, None

(* The findings of level 1 are alerts, and those that keep the statistics   *)
(* from judging a record are among them.                                    *)
LEMMA Level1Is ==
  ASSUME NEW t
  PROVE  Alerted(Level1(t)) /\ (~ Judged(t) => Level1(t) # <<>>)
<1>1. Alerted(Impossible(t))
  <2> DEFINE sun == IF t.poa # Absent /\ (t.poa < -5 \/ t.poa > 1600)
                    THEN Finding("IMPOSSIBLE_VALUE", "HIGH") ELSE None
             cell == IF t.cell # Absent /\ (t.cell < -50 \/ t.cell > 130)
                     THEN Finding("IMPOSSIBLE_VALUE", "HIGH") ELSE None
  <2>1. Alerted(sun) /\ Alerted(cell)
    BY MaybeAlerted DEF Kinds
  <2>2. Impossible(t) = sun \o cell
    BY DEF Impossible
  <2> HIDE DEF sun, cell
  <2> QED BY <2>1, <2>2, AlertedRow
<1>2. Alerted(ThresholdViolations(t))
  <2>1. \A s \in {"CRITICAL", "HIGH"} : Alerted(Finding("THRESHOLD_VIOLATION", s)) /\ Alerted(None)
    BY MaybeAlerted DEF Kinds
  <2>2. Alerted(VoltageViolation(t))
    BY <2>1 DEF VoltageViolation
  <2> DEFINE hot == IF t.heatsink > 85 THEN Finding("THRESHOLD_VIOLATION", "CRITICAL") ELSE None
             over == IF t.current > 1200 THEN Finding("THRESHOLD_VIOLATION", "CRITICAL") ELSE None
  <2>3. Alerted(hot) /\ Alerted(over)
    BY <2>1
  <2>4. ThresholdViolations(t) = (VoltageViolation(t) \o hot) \o over
    BY DEF ThresholdViolations
  <2> HIDE DEF hot, over
  <2>5. Alerted(VoltageViolation(t) \o hot)
    BY <2>2, <2>3, AlertedRow
  <2> QED BY <2>3, <2>4, <2>5, AlertedRow
<1>3. Alerted(UnexpectedShutdown(t))
  BY MaybeAlerted DEF Kinds, UnexpectedShutdown
<1>4. Alerted(CommunicationTimeout(t))
  BY MaybeAlerted DEF Kinds, CommunicationTimeout
<1>5. Alerted(Level1(t))
  BY <1>1, <1>2, <1>3, <1>4, AlertedRow DEF Level1
<1>6. ASSUME ~ Judged(t) PROVE Level1(t) # <<>>
  <2>1. Types(Level1(t)) # {}
    BY <1>6 DEF Judged, Untrusted, Tripped
  <2>2. DOMAIN Level1(t) # {}
    BY <2>1 DEF Types
  <2> QED BY <2>2
<1> QED BY <1>5, <1>6

(* The findings of a record: one that is not judged raises an alert, and so *)
(* does one that shifts the chart.                                          *)
LEMMA FindingsAre ==
  ASSUME NEW t
  PROVE  /\ Findings(t) \in Seq(FindingsType)
         /\ ~ Judged(t) \/ Shifted(t) => Alarming(Findings(t))
<1> DEFINE S == Seq(FindingsType)
           statistics == IF Judged(t) THEN Level2(t) \o Level3(t) ELSE None
           context == IF ~Untrusted(t) THEN Level4(t) ELSE None
           all == (Level1(t) \o statistics) \o context
<1>0. \A p, q \in S : p \o q \in S
  BY ConcatProperties
<1>1. Level1(t) \in S /\ (~ Judged(t) => Alarming(Level1(t)))
  BY Level1Is DEF Alerted
<1>2. ChangePoint(t) \in S /\ (Shifted(t) => Found(ChangePoint(t), "HIGH"))
  BY FindingIs, NoneIs DEF Kinds, Severities, ChangePoint
<1>3. ZScore(t) \in S /\ EwmaDrift(t) \in S /\ Level3(t) \in S
  BY FindingIs, NoneIs DEF Kinds, Severities, ZScore, EwmaDrift, Level3
<1>4. PowerLawResidual(t) \in S /\ ThermalResidual(t) \in S /\ PeerOutlier(t) \in S
  BY FindingIs, NoneIs DEF Kinds, Severities, PowerLawResidual, ThermalResidual, PeerOutlier
<1>5. Level4(t) \in S
  BY <1>0, <1>4 DEF Level4
<1>6. Level2(t) \in S /\ (Shifted(t) => Found(Level2(t), "HIGH"))
  <2>1. ZScore(t) \o EwmaDrift(t) \in S
    BY <1>0, <1>3
  <2> QED BY <1>0, <1>2, <2>1, FoundIn DEF Level2
<1>7. statistics \in S /\ (Judged(t) /\ Shifted(t) => Found(statistics, "HIGH"))
  <2>1. Level2(t) \o Level3(t) \in S
    BY <1>0, <1>3, <1>6
  <2>2. Found(Level2(t), "HIGH") => Found(Level2(t) \o Level3(t), "HIGH")
    BY <1>3, <1>6, FoundIn
  <2> QED BY <1>6, <2>1, <2>2, NoneIs
<1>8. context \in S
  BY <1>5, NoneIs
<1> HIDE DEF statistics, context
<1>9. Level1(t) \o statistics \in S /\ all \in S
  BY <1>0, <1>1, <1>7, <1>8
<1>10. /\ Alarming(Level1(t)) => Alarming(all)
       /\ Found(statistics, "HIGH") => Alarming(all)
  BY <1>1, <1>7, <1>8, <1>9, FoundIn DEF Alarming
<1>11. Findings(t) = MostSevereFirst(all)
  BY DEF Findings, statistics, context
<1> HIDE DEF all
<1> QED BY <1>1, <1>7, <1>9, <1>10, <1>11, SortedIs

-----------------------------------------------------------------------------
(* The physical models.                                                     *)

(* What the models read of a record.                                        *)
Readable(t) ==
  /\ t.poa \in Int /\ t.module \in Int /\ t.wind \in Int /\ t.setpoint \in Int
  /\ t.soc \in Int /\ t.ambient \in Int /\ t.cell \in Int

(* Division is between what it is and what it could be at most.             *)
LEMMA Quotient ==
  ASSUME NEW n \in Int, NEW d \in Nat \ {0}
  PROVE  /\ n \div d \in Int
         /\ n >= 0 => n \div d \in Nat
         /\ \A m \in Int : n <= m * d => n \div d <= m
<1>1. n \div d \in Int /\ d * (n \div d) <= n /\ n < d * (n \div d) + d
  BY SMT
<1> DEFINE x == n \div d
<1> HIDE DEF x
<1>2. x \in Int /\ d * x <= n /\ n < d * x + d
  BY <1>1 DEF x
<1>3. ASSUME n >= 0 PROVE x \in Nat
  <2>1. ASSUME x <= -1 PROVE FALSE
    <3>1. (-1 - x) \in Nat /\ d * (-1 - x) >= 0
      BY <1>2, <2>1
    <3>2. d * (-1 - x) = -(d * x + d)
      BY <1>2
    <3> QED BY <1>2, <1>3, <3>1, <3>2
  <2> QED BY <1>2, <2>1
<1>4. ASSUME NEW m \in Int, n <= m * d PROVE x <= m
  <2>1. ASSUME x >= m + 1 PROVE FALSE
    <3>1. x - m - 1 \in Nat /\ d * ((x - m) - 1) >= 0
      BY <1>2, <2>1
    <3>2. d * ((x - m) - 1) = d * x - (m * d + d)
      BY <1>2
    <3>3. m * d \in Int /\ d * x \in Int
      BY <1>2
    <3> QED BY <1>2, <1>4, <3>1, <3>2, <3>3
  <2> QED BY <1>2, <2>1
<1> QED BY <1>2, <1>3, <1>4 DEF x

(* The ratings and tariffs, technology by technology.                       *)
LEMMA RatingIs ==
  /\ Rating.SOLAR = [dc |-> 2750, kw |-> 2500, tariff |-> 8]
  /\ Rating.WIND = [cutIn |-> 3, rated |-> 12, cutOut |-> 25, kw |-> 2000, tariff |-> 7]
  /\ Rating.BESS = [kw |-> 1000, minSoc |-> 5, maxSoc |-> 95, tariff |-> 12]
  /\ DOMAIN Rating = {"SOLAR", "WIND", "BESS"}
BY DEF Rating

(* The DC potential of a plant after optics, wiring and inverter.           *)
Potential(t) == (((Rating.SOLAR.dc * t.poa) \div 1000) * 946) \div 1000

(* The potential is a number.                                               *)
LEMMA PotentialIs ==
  ASSUME NEW t, Readable(t)
  PROVE  Potential(t) \in Int
<1> DEFINE a == (2750 * t.poa) \div 1000
<1>1. a \in Int
  <2> DEFINE n == 2750 * t.poa
             k == 1000
  <2>1. n \in Int /\ k \in Nat \ {0}
    BY DEF Readable
  <2> HIDE DEF n, k
  <2>2. n \div k \in Int
    BY <2>1, Quotient
  <2> QED BY <2>2 DEF n, k
<1>2. Potential(t) = (a * 946) \div 1000
  BY RatingIs DEF Potential
<1> HIDE DEF a
<1> DEFINE n == a * 946
           k == 1000
<1>3. n \in Int /\ k \in Nat \ {0}
  BY <1>1
<1> HIDE DEF n, k
<1>4. n \div k \in Int
  BY <1>3, Quotient
<1> QED BY <1>2, <1>4 DEF n, k

(* The derating is between a tenth and thirteen tenths.                     *)
LEMMA DeratingIs ==
  ASSUME NEW t, Readable(t)
  PROVE  Derating(t) \in 100..1300
<1>1. CellTemperature(t) \in Int
  BY Quotient DEF CellTemperature, Readable
<1> DEFINE n == 1000 - ((38 * (CellTemperature(t) - 25)) \div 10)
<1>2. n \in Int
  BY <1>1, Quotient
<1>3. Derating(t) = Within(n, 100, 1300)
  BY DEF Derating
<1> HIDE DEF n
<1> DEFINE low == 100
           high == 1300
<1>4. low \in Int /\ high \in Int /\ low <= high
  OBVIOUS
<1>5. \A a, b \in Int : a <= b => Within(n, a, b) \in a..b
  BY <1>2, NumbersIs
<1>6. Within(n, low, high) \in low..high
  <2> HIDE DEF low, high
  <2> QED BY <1>4, <1>5
<1> QED BY <1>3, <1>6

(* A solar plant: between nothing and its rating, and what it cannot        *)
(* produce accounted for down from the potential.                           *)
LEMMA SolarIs ==
  ASSUME NEW t, Readable(t)
  PROVE  LET m == SolarExpected(Rating.SOLAR, t) IN
         /\ m.expected \in 0..2500
         /\ m.resource \in Nat /\ m.thermal \in Nat /\ m.clipping \in Nat
         /\ Derating(t) <= 1000 =>
              m.resource + m.thermal + m.clipping + m.expected
                = IF Potential(t) > 2500 THEN Potential(t) ELSE 2500
<1> DEFINE d == Derating(t)
           a == (2750 * t.poa) \div 1000
           pot == Potential(t)
           unc == (pot * d) \div 1000
           m == SolarExpected(Rating.SOLAR, t)
<1>1. t.poa \in Int /\ d \in 100..1300
  BY DeratingIs DEF Readable
<1>2. a \in Int /\ (t.poa >= 0 => a >= 0) /\ (t.poa < 20 => a <= 55)
  <2>1. 2750 * t.poa \in Int
    BY <1>1
  <2>2. t.poa < 20 => 2750 * t.poa <= 55 * 1000
    BY <1>1
  <2>3. t.poa >= 0 => 2750 * t.poa >= 0
    BY <1>1
  <2> DEFINE n == 2750 * t.poa
  <2> HIDE DEF n
  <2>4. n \div 1000 \in Int /\ (n >= 0 => n \div 1000 \in Nat) /\ (n <= 55 * 1000 => n \div 1000 <= 55)
    BY <2>1, Quotient DEF n
  <2> QED BY <2>2, <2>3, <2>4 DEF n
<1>3. pot = (a * 946) \div 1000
  BY RatingIs DEF Potential
<1> HIDE DEF a, pot, d
<1>4. pot \in Int /\ (t.poa >= 0 => pot >= 0) /\ (t.poa < 20 => pot <= 2500)
  <2> DEFINE n == a * 946
  <2>1. n \in Int /\ (a >= 0 => n >= 0) /\ (a <= 55 => n <= 2500 * 1000)
    BY <1>2
  <2> HIDE DEF n
  <2>2. n \div 1000 \in Int /\ (n >= 0 => n \div 1000 \in Nat)
        /\ (n <= 2500 * 1000 => n \div 1000 <= 2500)
    BY <2>1, Quotient
  <2> QED BY <1>1, <1>2, <1>3, <2>1, <2>2 DEF n
<1>5. unc \in Int /\ (pot >= 0 => unc >= 0) /\ (pot >= 0 /\ d <= 1000 => unc <= pot)
  <2> DEFINE n == pot * d
  <2>1. n \in Int
    BY <1>1, <1>4
  <2>2. pot >= 0 => n >= 0
    BY <1>1, <1>4
  <2>3. ASSUME pot >= 0, d <= 1000 PROVE n <= pot * 1000
    <3>1. pot * (1000 - d) >= 0
      BY <1>1, <1>4, <2>3
    <3>2. pot * (1000 - d) = pot * 1000 - pot * d
      BY <1>1, <1>4
    <3>3. pot * d \in Int /\ pot * 1000 \in Int
      BY <1>1, <1>4
    <3> QED BY <3>1, <3>2, <3>3
  <2> HIDE DEF n
  <2>4. n \div 1000 \in Int /\ (n >= 0 => n \div 1000 \in Nat)
        /\ (n <= pot * 1000 => n \div 1000 <= pot)
    BY <1>4, <2>1, Quotient
  <2> QED BY <1>4, <2>2, <2>3, <2>4 DEF n
<1> HIDE DEF unc
<1>6. CASE t.poa < 20
  <2>1. m = [expected |-> 0, resource |-> 2500, thermal |-> 0, clipping |-> 0]
    BY <1>6, RatingIs DEF SolarExpected
  <2> QED BY <1>4, <1>6, <2>1 DEF pot
<1>7. CASE ~ (t.poa < 20)
  <2>1. m = [expected |-> Min({2500, unc}), resource |-> Positive(2500 - pot),
             thermal |-> Positive(pot - unc), clipping |-> Positive(unc - 2500)]
    BY <1>7, RatingIs DEF SolarExpected, unc, pot, d, Potential
  <2>2. Min({2500, unc}) = IF 2500 <= unc THEN 2500 ELSE unc
    BY <1>5, OfTwo
  <2>3. /\ Positive(2500 - pot) = IF 2500 - pot > 0 THEN 2500 - pot ELSE 0
        /\ Positive(pot - unc) = IF pot - unc > 0 THEN pot - unc ELSE 0
        /\ Positive(unc - 2500) = IF unc - 2500 > 0 THEN unc - 2500 ELSE 0
    BY <1>4, <1>5, NumbersIs
  <2>4. pot >= 0 /\ unc >= 0 /\ (d <= 1000 => unc <= pot)
    BY <1>1, <1>4, <1>5, <1>7
  <2> HIDE DEF m
  <2>5. /\ m.expected = (IF 2500 <= unc THEN 2500 ELSE unc)
        /\ m.resource = (IF 2500 - pot > 0 THEN 2500 - pot ELSE 0)
        /\ m.thermal = (IF pot - unc > 0 THEN pot - unc ELSE 0)
        /\ m.clipping = (IF unc - 2500 > 0 THEN unc - 2500 ELSE 0)
    BY <2>1, <2>2, <2>3
  <2>6. /\ m.expected \in 0..2500 /\ m.resource \in Nat /\ m.thermal \in Nat /\ m.clipping \in Nat
        /\ d <= 1000 => m.resource + m.thermal + m.clipping + m.expected
                          = IF pot > 2500 THEN pot ELSE 2500
    BY <1>4, <1>5, <2>4, <2>5
  <2> QED BY <2>6 DEF pot, d, m
<1> QED BY <1>6, <1>7

(* A turbine: between nothing and its rating.                               *)
LEMMA WindIs ==
  ASSUME NEW t, Readable(t)
  PROVE  LET m == WindExpected(Rating.WIND, t) IN
         m.expected \in 0..2000 /\ m.resource = 2000 - m.expected
<1> DEFINE v == Positive(t.wind)
           m == WindExpected(Rating.WIND, t)
<1>1. v \in Nat
  BY NumbersIs DEF Readable
<1>2. Cubed(3) = 27 /\ Cubed(12) = 1728
  BY DEF Cubed
<1>3. \A k \in 3..11 : (2000 * (Cubed(k) - 27)) \div 1701 \in 0..2000
  <2> SUFFICES ASSUME NEW k \in 3..11 PROVE (2000 * (Cubed(k) - 27)) \div 1701 \in 0..2000
    OBVIOUS
  <2> DEFINE n == 2000 * (Cubed(k) - 27)
  <2>1. Cubed(k) \in {27, 64, 125, 216, 343, 512, 729, 1000, 1331}
    <3>1. k \in {3, 4, 5, 6, 7, 8, 9, 10, 11}
      OBVIOUS
    <3> QED BY <3>1 DEF Cubed
  <2>2. n \in Int /\ n >= 0 /\ n <= 2000 * 1701
    BY <2>1
  <2> HIDE DEF n
  <2>3. n \div 1701 \in Nat /\ n \div 1701 <= 2000
    BY <2>2, Quotient
  <2> QED BY <2>3 DEF n
<1>4. m.expected = IF v < 3 \/ v > 25 THEN 0
                   ELSE IF v < 12 THEN (2000 * (Cubed(v) - 27)) \div 1701 ELSE 2000
  BY <1>2, RatingIs DEF WindExpected
<1>5. m.resource = 2000 - m.expected
  BY RatingIs DEF WindExpected
<1> HIDE DEF v, m
<1>6. m.expected \in 0..2000
  <2>1. CASE v < 3 \/ v > 25
    BY <1>4, <2>1
  <2>2. CASE ~ (v < 3 \/ v > 25) /\ v < 12
    <3>1. v \in 3..11
      BY <1>1, <2>2
    <3> QED BY <1>3, <1>4, <2>2, <3>1
  <2>3. CASE ~ (v < 3 \/ v > 25) /\ ~ (v < 12)
    BY <1>4, <2>3
  <2> QED BY <2>1, <2>2, <2>3
<1> QED BY <1>5, <1>6 DEF m

(* A battery: up to its rating, either way.                                 *)
LEMMA BessIs ==
  ASSUME NEW t, Readable(t)
  PROVE  BessExpected(Rating.BESS, t).expected \in -1000..1000
<1> DEFINE pct == IF t.cell < 5 THEN Max({20, 100 - 5 * (5 - t.cell)})
                  ELSE IF t.cell > 40 THEN Max({30, 100 - 4 * (t.cell - 40)}) ELSE 100
           limit == ThermalLimit(Rating.BESS, t.cell)
<1>1. t.cell \in Int /\ t.setpoint \in Int
  BY DEF Readable
<1>2. pct \in 20..100
  <2>1. Max({20, 100 - 5 * (5 - t.cell)})
          = IF 20 >= 100 - 5 * (5 - t.cell) THEN 20 ELSE 100 - 5 * (5 - t.cell)
    BY <1>1, OfTwo
  <2>2. Max({30, 100 - 4 * (t.cell - 40)})
          = IF 30 >= 100 - 4 * (t.cell - 40) THEN 30 ELSE 100 - 4 * (t.cell - 40)
    BY <1>1, OfTwo
  <2> QED BY <1>1, <2>1, <2>2
<1>3. limit = (1000 * pct) \div 100
  BY RatingIs DEF ThermalLimit
<1> HIDE DEF pct, limit
<1>4. limit \in 0..1000
  <2> DEFINE n == 1000 * pct
  <2>1. n \in Int /\ n >= 0 /\ n <= 1000 * 100
    BY <1>2
  <2> HIDE DEF n
  <2>2. n \div 100 \in Nat /\ n \div 100 <= 1000
    BY <2>1, Quotient
  <2> QED BY <1>3, <2>2 DEF n
<1>5. Within(t.setpoint, -limit, limit) \in -limit..limit
  <2>1. -limit \in Int /\ limit \in Int /\ -limit <= limit
    BY <1>4
  <2> QED BY <1>1, <2>1, NumbersIs
<1> DEFINE kept == Within(t.setpoint, -limit, limit)
<1>6. BessExpected(Rating.BESS, t).expected \in {0, kept}
  BY DEF BessExpected, limit
<1>7. kept \in -1000..1000
  <2> HIDE DEF kept
  <2>1. kept \in -limit..limit
    BY <1>5 DEF kept
  <2> QED BY <1>4, <2>1
<1> HIDE DEF kept
<1> QED BY <1>6, <1>7

(* Whatever the technology, the expected power is a number.                 *)
LEMMA ExpectedIs ==
  ASSUME NEW t, Readable(t), NEW tech \in DOMAIN Rating
  PROVE  ExpectedOf(tech, t).expected \in Int
<1>1. SolarExpected(Rating.SOLAR, t).expected \in Int
  <2> DEFINE y == SolarExpected(Rating.SOLAR, t).expected
  <2>1. y \in 0..2500
    BY SolarIs
  <2> HIDE DEF y
  <2>2. y \in Int
    BY <2>1
  <2> QED BY <2>2 DEF y
<1>2. WindExpected(Rating.WIND, t).expected \in Int
  <2> DEFINE y == WindExpected(Rating.WIND, t).expected
  <2>1. y \in 0..2000
    BY WindIs
  <2> HIDE DEF y
  <2>2. y \in Int
    BY <2>1
  <2> QED BY <2>2 DEF y
<1>3. BessExpected(Rating.BESS, t).expected \in Int
  <2> DEFINE y == BessExpected(Rating.BESS, t).expected
  <2>1. y \in -1000..1000
    BY BessIs
  <2> HIDE DEF y
  <2>2. y \in Int
    BY <2>1
  <2> QED BY <2>2 DEF y
<1>4. /\ tech = "SOLAR" => ExpectedOf(tech, t) = SolarExpected(Rating.SOLAR, t)
      /\ tech = "WIND" => ExpectedOf(tech, t) = WindExpected(Rating.WIND, t)
      /\ tech = "BESS" => ExpectedOf(tech, t) = BessExpected(Rating.BESS, t)
  BY DEF ExpectedOf
<1>5. tech \in {"SOLAR", "WIND", "BESS"}
  BY RatingIs
<1> QED BY <1>1, <1>2, <1>3, <1>4, <1>5

-----------------------------------------------------------------------------
(* What a packet becomes.                                                   *)

(* A packet with another number in it is a packet.                          *)
LEMMA Replaced ==
  ASSUME NEW r \in Packets, NEW n \in Int
  PROVE  /\ [r EXCEPT !.poa = n] \in Packets
         /\ [r EXCEPT !.wind = n] \in Packets
         /\ [r EXCEPT !.power = n] \in Packets
         /\ [r EXCEPT !.setpoint = n] \in Packets
         /\ [r EXCEPT !.heatsink = n] \in Packets
         /\ [r EXCEPT !.module = n] \in Packets
         /\ [r EXCEPT !.cell = n] \in Packets
         /\ [r EXCEPT !.ambient = n] \in Packets
         /\ [r EXCEPT !.expected = n] \in Packets
BY DEF Packets

(* A number in place of a missing one is a number.                          *)
LEMMA DefaultIs ==
  ASSUME NEW v \in Int, NEW w \in Int
  PROVE  Default(v, w) \in Int
BY DEF Default

(* The defaults of stage 5.                                                 *)
LEMMA DefaultsAre ==
  ASSUME NEW v \in Int
  PROVE  /\ Default(v, 0) \in Int /\ Default(v, 10) \in Int
         /\ Default(v, 45) \in Int /\ Default(v, 800) \in Int
BY DEF Default

(* Completing a packet leaves it a packet.                                  *)
LEMMA CompletedIs ==
  ASSUME NEW r \in Packets, Known.tech \in DOMAIN Rating
  PROVE  Completed(r) \in Packets
<1> DEFINE sun    == Default(r.poa, 800)
           wind   == Default(r.wind, 10)
           power  == Default(r.power, 0)
           point  == Default(r.setpoint, Default(r.power, 0))
           sink   == Default(r.heatsink, 45)
           module == NoReading
           core   == Default(r.cell, IF Known.tech = "BESS" THEN 25 ELSE r.ambient + 15)
           cell   == Default(r.cell, r.ambient + 15)
           filled == [r EXCEPT !.poa = sun, !.wind = wind, !.power = power,
                               !.setpoint = point, !.heatsink = sink, !.module = module]
           celled == [filled EXCEPT !.cell = core]
           kw     == ExpectedOf(Known.tech, celled).expected
<1>1. /\ r.poa \in Int /\ r.wind \in Int /\ r.power \in Int /\ r.setpoint \in Int
      /\ r.heatsink \in Int /\ r.cell \in Int /\ r.ambient \in Int
  BY DEF Packets
<1>2. power \in Int
  BY <1>1, DefaultsAre
<1>3. sun \in Int /\ wind \in Int /\ sink \in Int
  BY <1>1, DefaultsAre
<1>4. point \in Int
  <2> HIDE DEF power
  <2>1. Default(r.setpoint, power) \in Int
    BY <1>1, <1>2, DefaultIs
  <2> QED BY <2>1 DEF power
<1>5. core \in Int /\ cell \in Int
  <2> DEFINE ambient == IF Known.tech = "BESS" THEN 25 ELSE r.ambient + 15
  <2>1. ambient \in Int /\ r.ambient + 15 \in Int
    BY <1>1
  <2> HIDE DEF ambient
  <2>2. Default(r.cell, ambient) \in Int /\ Default(r.cell, r.ambient + 15) \in Int
    BY <1>1, <2>1, DefaultIs
  <2> QED BY <2>2 DEF ambient
<1>6. module \in Int
  BY DEF NoReading
<1>7. Completed(r) = [filled EXCEPT !.cell = cell, !.ambient = 25, !.expected = kw]
  BY DEF Completed
<1> HIDE DEF sun, wind, power, point, sink, module, core, cell
<1>8. filled \in Packets
  <2> DEFINE a == [r EXCEPT !.poa = sun]
             b == [a EXCEPT !.wind = wind]
             c == [b EXCEPT !.power = power]
             d == [c EXCEPT !.setpoint = point]
             e == [d EXCEPT !.heatsink = sink]
             f == [e EXCEPT !.module = module]
  <2>1. f = filled
    OBVIOUS
  <2> HIDE DEF f, filled
  <2>2. a \in Packets
    BY <1>3, Replaced
  <2> HIDE DEF a
  <2>3. b \in Packets
    BY <1>3, <2>2, Replaced
  <2> HIDE DEF b
  <2>4. c \in Packets
    BY <1>2, <2>3, Replaced
  <2> HIDE DEF c
  <2>5. d \in Packets
    BY <1>4, <2>4, Replaced
  <2> HIDE DEF d
  <2>6. e \in Packets
    BY <1>3, <2>5, Replaced
  <2> HIDE DEF e
  <2>7. f \in Packets
    BY <1>6, <2>6, Replaced DEF f
  <2> QED BY <2>1, <2>7
<1> HIDE DEF filled
<1>9. celled \in Packets
  BY <1>5, <1>8, Replaced
<1> HIDE DEF celled
<1>10. Readable(celled)
  BY <1>9 DEF Packets, Readable
<1>11. kw \in Int
  BY <1>10, ExpectedIs
<1> HIDE DEF kw
<1>12. [filled EXCEPT !.cell = cell, !.ambient = 25, !.expected = kw] \in Packets
  <2> DEFINE mild == 25
             a == [filled EXCEPT !.cell = cell]
             b == [a EXCEPT !.ambient = mild]
             c == [b EXCEPT !.expected = kw]
  <2>1. c = [filled EXCEPT !.cell = cell, !.ambient = 25, !.expected = kw] /\ mild \in Int
    OBVIOUS
  <2> HIDE DEF c, mild
  <2>2. a \in Packets
    BY <1>5, <1>8, Replaced
  <2> HIDE DEF a
  <2>3. b \in Packets
    BY <2>1, <2>2, Replaced
  <2> HIDE DEF b
  <2>4. c \in Packets
    BY <1>11, <2>3, Replaced DEF c
  <2> QED BY <2>1, <2>4
<1> QED BY <1>7, <1>12
-----------------------------------------------------------------------------
(* A deviation that persists.                                               *)

Entries == [packet : Packets, telemetry : Packets, findings : Seq(FindingsType)]

Deviation(s, k) == Residual(s[Len(s) - k].telemetry)
Quiet(s, k) == ~ Alarming(s[Len(s) - k].findings)

(* After a quiet packet the sums hold at least its deviation, after two     *)
(* quiet packets that of both: only an alert resets them.                   *)
Remembered(s, sums) ==
  /\ Len(s) >= 1 /\ Quiet(s, 0) =>
       /\ sums.high >= 2 * Deviation(s, 0) - 15
       /\ sums.low >= -2 * Deviation(s, 0) - 15
  /\ Len(s) >= 2 /\ Quiet(s, 0) /\ Quiet(s, 1) =>
       /\ sums.high >= 2 * (Deviation(s, 0) + Deviation(s, 1)) - 30
       /\ sums.low >= -2 * (Deviation(s, 0) + Deviation(s, 1)) - 30

Far(s, k, kw) == Deviation(s, k) <= -kw
Above(s, k, kw) == Deviation(s, k) >= kw

Persisted(s) ==
  /\ Len(s) >= 2 /\ (\/ Far(s, 0, 60) /\ Far(s, 1, 60)
                     \/ Above(s, 0, 60) /\ Above(s, 1, 60))
       => ~ Quiet(s, 0) \/ ~ Quiet(s, 1)
  /\ Len(s) >= 3 /\ (\/ Far(s, 0, 33) /\ Far(s, 1, 33) /\ Far(s, 2, 33)
                     \/ Above(s, 0, 33) /\ Above(s, 1, 33) /\ Above(s, 2, 33))
       => ~ Quiet(s, 0) \/ ~ Quiet(s, 1) \/ ~ Quiet(s, 2)

ConditionInv ==
  /\ case \in DOMAIN Background
  /\ recent \in Seq(Entries) /\ Len(recent) \in 0..3
  /\ cusum \in [high : Nat, low : Nat]
  /\ Remembered(recent, cusum)
  /\ Persisted(recent)

(* The deviation of a packet is a number.                                   *)
LEMMA DeviationIs ==
  ASSUME NEW s \in Seq(Entries), NEW k \in Nat, k < Len(s)
  PROVE  Deviation(s, k) \in Int
<1>1. Len(s) - k \in 1..Len(s)
  OBVIOUS
<1>2. s[Len(s) - k] \in Entries
  BY <1>1
<1>3. s[Len(s) - k].telemetry \in Packets
  BY <1>2 DEF Entries
<1> DEFINE t == s[Len(s) - k].telemetry
<1>4. t \in Packets
  BY <1>3
<1> HIDE DEF t
<1>5. t.power \in Int /\ t.expected \in Int
  BY <1>4 DEF Packets
<1>6. Deviation(s, k) = t.power - t.expected
  BY DEF Deviation, Residual, t
<1> QED BY <1>5, <1>6

(* The window of the last three packets slides by one.                      *)
LEMMA WindowSlides ==
  ASSUME NEW s \in Seq(Entries), Len(s) \in 0..3, NEW e \in Entries
  PROVE  LET u == Append(IF Len(s) < 3 THEN s ELSE Tail(s), e) IN
         /\ u \in Seq(Entries) /\ Len(u) \in 1..3
         /\ u[Len(u) - 0] = e
         /\ Len(u) >= 2 => Len(s) >= 1 /\ u[Len(u) - 1] = s[Len(s) - 0]
         /\ Len(u) >= 3 => Len(s) >= 2 /\ u[Len(u) - 2] = s[Len(s) - 1]
<1> DEFINE b == IF Len(s) < 3 THEN s ELSE Tail(s)
           u == Append(b, e)
<1>1. Len(s) \in 0..3
  OBVIOUS
<1>2. /\ b \in Seq(Entries) /\ Len(b) \in 0..2
      /\ Len(b) >= 1 => Len(s) >= 1 /\ b[Len(b)] = s[Len(s)]
      /\ Len(b) >= 2 => Len(s) >= 2 /\ b[Len(b) - 1] = s[Len(s) - 1]
  <2>1. CASE Len(s) < 3
    <3>1. b = s
      BY <2>1
    <3>2. Len(s) \in 0..2
      <4> DEFINE n == Len(s)
      <4>1. n \in Int /\ n \in 0..3 /\ n < 3
        BY <1>1, <2>1
      <4> HIDE DEF n
      <4>2. n \in 0..2
        BY <4>1
      <4> QED BY <4>2 DEF n
    <3> HIDE DEF b
    <3> QED BY <3>1, <3>2
  <2>2. CASE Len(s) >= 3
    <3>0. Len(s) = 3
      BY <1>1, <2>2
    <3>1. Len(s) = 3 /\ s # <<>>
      <4>1. Len(<<>>) = 0
        BY EmptySeq
      <4> QED BY <3>0, <4>1
    <3>2. /\ Tail(s) \in Seq(Entries) /\ Len(Tail(s)) = Len(s) - 1
          /\ \A i \in 1..Len(Tail(s)) : Tail(s)[i] = s[i + 1]
      BY <3>1, HeadTailProperties
    <3>3. b = Tail(s)
      BY <3>1
    <3> HIDE DEF b
    <3>4. Len(b) = 2 /\ b[2] = s[3] /\ b[1] = s[2]
      <4>1. Len(Tail(s)) = 2 /\ 1 \in 1..2 /\ 2 \in 1..2
        BY <3>1, <3>2
      <4>2. Tail(s)[1] = s[1 + 1] /\ Tail(s)[2] = s[2 + 1]
        BY <3>2, <4>1
      <4> QED BY <3>3, <4>1, <4>2
    <3> QED BY <3>1, <3>2, <3>3, <3>4
  <2> QED BY <1>1, <2>1, <2>2
<1> HIDE DEF b
<1>3. /\ u \in Seq(Entries) /\ Len(u) = Len(b) + 1 /\ u[Len(b) + 1] = e
      /\ \A i \in 1..Len(b) : u[i] = b[i]
  BY <1>2, AppendProperties
<1> HIDE DEF u
<1>4. /\ Len(u) - 0 = Len(b) + 1 /\ Len(u) - 1 = Len(b) /\ Len(u) - 2 = Len(b) - 1
      /\ Len(s) - 0 = Len(s)
  BY <1>1, <1>2, <1>3
<1>5. Len(b) >= 1 => u[Len(b)] = b[Len(b)]
  BY <1>2, <1>3
<1>6. Len(b) >= 2 => u[Len(b) - 1] = b[Len(b) - 1]
  BY <1>2, <1>3
<1>7. Len(u) \in 1..3 /\ u[Len(u) - 0] = e
  BY <1>2, <1>3, <1>4
<1>8. Len(u) >= 2 => Len(s) >= 1 /\ u[Len(u) - 1] = s[Len(s) - 0]
  BY <1>2, <1>3, <1>4, <1>5
<1>9. Len(u) >= 3 => Len(s) >= 2 /\ u[Len(u) - 2] = s[Len(s) - 1]
  BY <1>2, <1>3, <1>4, <1>6
<1> QED BY <1>3, <1>7, <1>8, <1>9 DEF u, b

(* A record that raises no alert adds its deviation to the sums, and does   *)
(* not bring them beyond the limit.                                         *)
LEMMA QuietAdds ==
  ASSUME NEW t \in Packets, cusum \in [high : Nat, low : Nat], Learn(t)
  PROVE  /\ cusum' \in [high : Nat, low : Nat]
         /\ ~ Alarming(Findings(t)) =>
              /\ cusum'.high >= cusum.high + 2 * Residual(t) - 15
              /\ cusum'.low >= cusum.low - 2 * Residual(t) - 15
              /\ Residual(t) <= -30 \/ Residual(t) >= 30 =>
                   cusum'.high <= 120 /\ cusum'.low <= 120
<1> DEFINE R == Residual(t)
           up == cusum.high + 2 * Residual(t) - 15
           down == cusum.low - 2 * Residual(t) - 15
<1>1. R \in Int
  BY DEF Residual, Packets
<1>2. cusum.high \in Nat /\ cusum.low \in Nat
  OBVIOUS
<1>3. up \in Int /\ down \in Int
  BY <1>1, <1>2
<1>4. Accumulated(t) = [high |-> Max({0, up}), low |-> Max({0, down})]
  BY DEF Accumulated
<1> HIDE DEF up, down
<1>5. /\ Max({0, up}) = IF 0 >= up THEN 0 ELSE up
      /\ Max({0, down}) = IF 0 >= down THEN 0 ELSE down
  BY <1>3, OfTwo
<1>6. /\ Accumulated(t) \in [high : Nat, low : Nat]
      /\ Accumulated(t).high >= up /\ Accumulated(t).low >= down
  <2> DEFINE h == Max({0, up})
             l == Max({0, down})
  <2>1. h \in Nat /\ l \in Nat /\ h >= up /\ l >= down
    BY <1>3, <1>5
  <2> HIDE DEF h, l
  <2>2. Accumulated(t) = [high |-> h, low |-> l]
    BY <1>4 DEF h, l
  <2> QED BY <2>1, <2>2
<1>7. CASE ~ Judged(t)
  <2>1. cusum' = cusum
    BY <1>7 DEF Learn, memory
  <2>2. Alarming(Findings(t))
    BY <1>7, FindingsAre
  <2> QED BY <2>1, <2>2
<1>8. CASE Judged(t)
  <2>1. cusum' = IF Shifted(t) THEN [high |-> 0, low |-> 0] ELSE Accumulated(t)
    BY <1>8 DEF Learn, RememberResidual
  <2>2. cusum' \in [high : Nat, low : Nat]
    BY <1>6, <2>1
  <2>3. ASSUME ~ Alarming(Findings(t))
        PROVE  /\ cusum'.high >= up
               /\ cusum'.low >= down
               /\ R <= -30 \/ R >= 30 => cusum'.high <= 120 /\ cusum'.low <= 120
    <3>1. ~ Shifted(t)
      BY <2>3, FindingsAre
    <3>2. cusum' = Accumulated(t)
      BY <2>1, <3>1
    <3>3. ASSUME R <= -30 \/ R >= 30 PROVE Accumulated(t).high <= 120 /\ Accumulated(t).low <= 120
      <4> HIDE DEF R
      <4>1. Magnitude(R) >= 30
        BY <1>1, <3>3 DEF Magnitude
      <4>2. ActiveDeviation(t)
        BY <4>1 DEF ActiveDeviation, R
      <4>3. ~ (Accumulated(t).high > 120 \/ Accumulated(t).low > 120)
        BY <3>1, <4>2 DEF Shifted
      <4> QED BY <1>6, <4>3
    <3> QED BY <1>6, <3>2, <3>3
  <2> QED BY <2>2, <2>3 DEF up, down
<1> QED BY <1>7, <1>8

(* Nothing is remembered at first.                                          *)
LEMMA ConditionInit == Init => ConditionInv
<1> SUFFICES ASSUME Init PROVE ConditionInv
  OBVIOUS
<1>1. recent \in Seq(Entries) /\ Len(recent) = 0
  BY EmptySeq DEF Init
<1>2. case \in DOMAIN Background /\ cusum \in [high : Nat, low : Nat]
  BY DEF Init, DetectionInit
<1> QED BY <1>1, <1>2 DEF ConditionInv, Remembered, Persisted

(* A packet is judged: if it raises no alert, the sums have grown by its    *)
(* deviation and are below the limit, which two packets of 60 kW or three   *)
(* of 33 kW in a row would have exceeded.                                   *)
LEMMA ConditionStep == ConditionInv /\ [Next]_vars => ConditionInv'
<1> SUFFICES ASSUME ConditionInv, [Next]_vars PROVE ConditionInv'
  OBVIOUS
<1>1. CASE UNCHANGED vars
  BY <1>1 DEF vars, memory, ConditionInv
<1>2. CASE Next
  <2>1. PICK r \in Readings[case] : Observe(r)
    BY <1>2 DEF Next
  <2> DEFINE t == Completed(r)
             e == [packet |-> r, telemetry |-> t, findings |-> Findings(t)]
             s == recent
             u == Append(IF Len(recent) < 3 THEN recent ELSE Tail(recent), e)
             R == Residual(t)
  <2>2. r \in Packets /\ Known.tech \in DOMAIN Rating
    BY ConditionAssumption DEF ConditionInv, Known
  <2>3. t \in Packets
    BY <2>2, CompletedIs
  <2>4. e \in Entries
    BY <2>2, <2>3, FindingsAre DEF Entries
  <2>5. recent' = u /\ case' = case /\ Learn(t)
    BY <2>1 DEF Observe
  <2>6. s \in Seq(Entries) /\ Len(s) \in 0..3
    BY DEF ConditionInv
  <2>7. e.telemetry = t /\ e.findings = Findings(t)
    OBVIOUS
  <2> HIDE DEF t, e
  <2>8. /\ u \in Seq(Entries) /\ Len(u) \in 1..3
        /\ u[Len(u) - 0] = e
        /\ Len(u) >= 2 => Len(s) >= 1 /\ u[Len(u) - 1] = s[Len(s) - 0]
        /\ Len(u) >= 3 => Len(s) >= 2 /\ u[Len(u) - 2] = s[Len(s) - 1]
    BY <2>4, <2>6, WindowSlides
  <2> HIDE DEF s, u
  <2>9. cusum \in [high : Nat, low : Nat] /\ Remembered(s, cusum) /\ Persisted(s)
    BY DEF ConditionInv, s
  <2>10. R \in Int
    BY <2>3 DEF Residual, Packets
  <2>11. Deviation(u, 0) = R /\ (Quiet(u, 0) <=> ~ Alarming(Findings(t)))
    BY <2>7, <2>8 DEF Deviation, Quiet
  <2>12. Len(u) >= 2 =>
           /\ Len(s) >= 1 /\ Deviation(u, 1) = Deviation(s, 0) /\ Deviation(s, 0) \in Int
           /\ Quiet(u, 1) <=> Quiet(s, 0)
    <3> SUFFICES ASSUME Len(u) >= 2
                 PROVE  /\ Len(s) >= 1 /\ Deviation(u, 1) = Deviation(s, 0) /\ Deviation(s, 0) \in Int
                        /\ Quiet(u, 1) <=> Quiet(s, 0)
      OBVIOUS
    <3>1. Len(s) >= 1 /\ u[Len(u) - 1] = s[Len(s) - 0]
      BY <2>8
    <3>2. Deviation(u, 1) \in Int
      BY <2>8, DeviationIs
    <3> QED BY <3>1, <3>2 DEF Deviation, Quiet
  <2>13. Len(u) >= 3 =>
           /\ Len(s) >= 2 /\ Deviation(u, 2) = Deviation(s, 1) /\ Deviation(s, 1) \in Int
           /\ Quiet(u, 2) <=> Quiet(s, 1)
    <3> SUFFICES ASSUME Len(u) >= 3
                 PROVE  /\ Len(s) >= 2 /\ Deviation(u, 2) = Deviation(s, 1) /\ Deviation(s, 1) \in Int
                        /\ Quiet(u, 2) <=> Quiet(s, 1)
      OBVIOUS
    <3>1. Len(s) >= 2 /\ u[Len(u) - 2] = s[Len(s) - 1]
      BY <2>8
    <3>2. Deviation(u, 2) \in Int
      BY <2>8, DeviationIs
    <3> QED BY <3>1, <3>2 DEF Deviation, Quiet
  <2> DEFINE d1 == Deviation(s, 0)
             d2 == Deviation(s, 1)
             high == cusum'.high
             low == cusum'.low
             high0 == cusum.high
             low0 == cusum.low
  <2>14. cusum' \in [high : Nat, low : Nat]
    BY <2>3, <2>5, <2>9, QuietAdds
  <2>15. /\ high \in Nat /\ low \in Nat /\ high0 \in Nat /\ low0 \in Nat
         /\ Quiet(u, 0) =>
              /\ high >= high0 + 2 * R - 15
              /\ low >= low0 - 2 * R - 15
              /\ R <= -30 \/ R >= 30 => high <= 120 /\ low <= 120
    <3>1. high \in Nat /\ low \in Nat /\ high0 \in Nat /\ low0 \in Nat
      BY <2>9, <2>14
    <3> HIDE DEF R, high, low, high0, low0
    <3> QED BY <2>3, <2>5, <2>9, <2>11, <3>1, QuietAdds DEF R, high, low, high0, low0
  <2> HIDE DEF R, d1, d2, high, low, high0, low0
  <2>16. /\ Len(u) >= 2 /\ Quiet(u, 1) => d1 \in Int /\ high0 >= 2 * d1 - 15 /\ low0 >= -2 * d1 - 15
         /\ Len(u) >= 3 /\ Quiet(u, 1) /\ Quiet(u, 2) =>
              /\ d1 \in Int /\ d2 \in Int
              /\ high0 >= 2 * (d1 + d2) - 30 /\ low0 >= -2 * (d1 + d2) - 30
    BY <2>8, <2>9, <2>12, <2>13 DEF Remembered, d1, d2, high0, low0
  <2>17. Remembered(u, cusum')
    <3>1. ASSUME Quiet(u, 0)
          PROVE  high >= 2 * Deviation(u, 0) - 15 /\ low >= -2 * Deviation(u, 0) - 15
      <4>1. Quiet(u, 0)
        BY <3>1
      <4>2. high >= high0 + 2 * R - 15 /\ low >= low0 - 2 * R - 15
        BY <2>15, <4>1
      <4>3. high \in Nat /\ low \in Nat /\ high0 \in Nat /\ low0 \in Nat
        BY <2>15
      <4>4. high >= 2 * R - 15 /\ low >= -2 * R - 15
        BY <2>10, <4>2, <4>3
      <4> QED BY <2>11, <4>4 DEF R
    <3>2. ASSUME Len(u) >= 2, Quiet(u, 0), Quiet(u, 1)
          PROVE  /\ high >= 2 * (Deviation(u, 0) + Deviation(u, 1)) - 30
                 /\ low >= -2 * (Deviation(u, 0) + Deviation(u, 1)) - 30
      <4>1. Quiet(u, 0)
        BY <3>2
      <4>2. high >= high0 + 2 * R - 15 /\ low >= low0 - 2 * R - 15
        BY <2>15, <4>1
      <4>3. high \in Nat /\ low \in Nat /\ high0 \in Nat /\ low0 \in Nat
        BY <2>15
      <4>4. d1 \in Int /\ high0 >= 2 * d1 - 15 /\ low0 >= -2 * d1 - 15
        BY <2>16, <3>2
      <4>5. high >= 2 * (R + d1) - 30 /\ low >= -2 * (R + d1) - 30
        BY <2>10, <4>2, <4>3, <4>4
      <4>6. Deviation(u, 0) = R /\ Deviation(u, 1) = d1
        BY <2>11, <2>12, <3>2 DEF R, d1
      <4> QED BY <4>5, <4>6
    <3> QED BY <3>1, <3>2 DEF Remembered, high, low
  <2>18. Persisted(u)
    <3>1. ASSUME Len(u) >= 2,
                 \/ Far(u, 0, 60) /\ Far(u, 1, 60)
                 \/ Above(u, 0, 60) /\ Above(u, 1, 60),
                 Quiet(u, 0), Quiet(u, 1)
          PROVE  FALSE
      <4>1. Quiet(u, 0)
        BY <3>1
      <4>2. Deviation(u, 0) = R /\ Deviation(u, 1) = d1
        BY <2>11, <2>12, <3>1 DEF R, d1
      <4>3. (R <= -60 /\ d1 <= -60) \/ (R >= 60 /\ d1 >= 60)
        BY <3>1, <4>2 DEF Far, Above
      <4>4. high >= high0 + 2 * R - 15 /\ low >= low0 - 2 * R - 15
        BY <2>15, <4>1
      <4>5. high \in Nat /\ low \in Nat /\ high0 \in Nat /\ low0 \in Nat
        BY <2>15
      <4>6. R <= -30 \/ R >= 30 => high <= 120 /\ low <= 120
        BY <2>15, <4>1
      <4>7. d1 \in Int /\ high0 >= 2 * d1 - 15 /\ low0 >= -2 * d1 - 15
        BY <2>16, <3>1
      <4> QED BY <2>10, <4>3, <4>4, <4>5, <4>6, <4>7
    <3>2. ASSUME Len(u) >= 3,
                 \/ Far(u, 0, 33) /\ Far(u, 1, 33) /\ Far(u, 2, 33)
                 \/ Above(u, 0, 33) /\ Above(u, 1, 33) /\ Above(u, 2, 33),
                 Quiet(u, 0), Quiet(u, 1), Quiet(u, 2)
          PROVE  FALSE
      <4>1. Quiet(u, 0)
        BY <3>2
      <4>2. Len(u) >= 2
        BY <2>8, <3>2
      <4>3. Deviation(u, 0) = R /\ Deviation(u, 1) = d1 /\ Deviation(u, 2) = d2
        BY <2>11, <2>12, <2>13, <3>2, <4>2 DEF R, d1, d2
      <4>5. high >= high0 + 2 * R - 15 /\ low >= low0 - 2 * R - 15
        BY <2>15, <4>1
      <4>6. high \in Nat /\ low \in Nat /\ high0 \in Nat /\ low0 \in Nat
        BY <2>15
      <4>7. R <= -30 \/ R >= 30 => high <= 120 /\ low <= 120
        BY <2>15, <4>1
      <4>8. d1 \in Int /\ d2 \in Int /\ high0 >= 2 * (d1 + d2) - 30 /\ low0 >= -2 * (d1 + d2) - 30
        BY <2>16, <3>2
      <4>4. (R <= -33 /\ d1 <= -33 /\ d2 <= -33) \/ (R >= 33 /\ d1 >= 33 /\ d2 >= 33)
        BY <3>2, <4>3 DEF Far, Above
      <4> QED BY <2>10, <4>4, <4>5, <4>6, <4>7, <4>8
    <3> QED BY <3>1, <3>2 DEF Persisted
  <2> QED BY <2>5, <2>8, <2>14, <2>17, <2>18 DEF ConditionInv
<1> QED BY <1>1, <1>2

(* What persists is alerted.                                                *)
LEMMA PersistedAlerts == ConditionInv => ShortfallAlerted
<1> SUFFICES ASSUME ConditionInv, NEW w \in {<<2, 60>>, <<3, 33>>},
                    Len(recent) >= w[1], Deviates(w[1], w[2])
             PROVE  \E i \in (Len(recent) - w[1] + 1)..Len(recent) : Alerts(recent[i])
  BY DEF ShortfallAlerted
<1> DEFINE n == Len(recent)
<1>1. n \in 0..3 /\ recent \in Seq(Entries) /\ Persisted(recent)
  BY DEF ConditionInv
<1>2. ASSUME NEW k \in 0..2, k < n, ~ Quiet(recent, k)
      PROVE  Alerts(recent[n - k])
  BY <1>2 DEF Quiet, Alarming, Found, Alerts
<1>3. CASE w = <<2, 60>>
  <2>1. w[1] = 2 /\ w[2] = 60 /\ n - 2 + 1 = n - 1 /\ n >= 2
    BY <1>1, <1>3
  <2>2. n - 1 \in n - 1..n /\ n - 0 \in n - 1..n
    BY <1>1
  <2>3. \/ Far(recent, 0, 60) /\ Far(recent, 1, 60)
        \/ Above(recent, 0, 60) /\ Above(recent, 1, 60)
    BY <2>1, <2>2 DEF Deviates, Far, Above, Deviation
  <2>4. ~ Quiet(recent, 0) \/ ~ Quiet(recent, 1)
    BY <1>1, <2>1, <2>3 DEF Persisted
  <2>5. Alerts(recent[n - 0]) \/ Alerts(recent[n - 1])
    BY <1>1, <1>2, <2>1, <2>4
  <2> QED BY <2>1, <2>2, <2>5
<1>4. CASE w = <<3, 33>>
  <2>1. w[1] = 3 /\ w[2] = 33 /\ n - 3 + 1 = n - 2 /\ n >= 3
    BY <1>1, <1>4
  <2>2. n - 2 \in n - 2..n /\ n - 1 \in n - 2..n /\ n - 0 \in n - 2..n
    BY <1>1
  <2>3. \/ Far(recent, 0, 33) /\ Far(recent, 1, 33) /\ Far(recent, 2, 33)
        \/ Above(recent, 0, 33) /\ Above(recent, 1, 33) /\ Above(recent, 2, 33)
    BY <2>1, <2>2 DEF Deviates, Far, Above, Deviation
  <2>4. ~ Quiet(recent, 0) \/ ~ Quiet(recent, 1) \/ ~ Quiet(recent, 2)
    BY <1>1, <2>1, <2>3 DEF Persisted
  <2>5. Alerts(recent[n - 0]) \/ Alerts(recent[n - 1]) \/ Alerts(recent[n - 2])
    BY <1>1, <1>2, <2>1, <2>4
  <2> QED BY <2>1, <2>2, <2>5
<1> QED BY <1>3, <1>4

(* Of two packets in a row 60 kW or more off the expected power on the same *)
(* side, or three that are 33 kW off, one raised an alert: whatever the     *)
(* detector judged before, and whatever kept it from judging some of them   *)
(* (Level2StatisticalDetector and AnomalyDetectionEngine.evaluate).         *)
THEOREM ShortfallHolds == Spec => []ShortfallAlerted
<1>1. Spec => []ConditionInv
  BY ConditionInit, ConditionStep, PTL DEF Spec
<1> QED BY <1>1, PersistedAlerts, PTL
-----------------------------------------------------------------------------
(* What a deficit is booked as.                                             *)

Uncharged == {"RESOURCE_VARIATION", "THERMAL_DERATE", "INVERTER_CLIPPING", "MISSING_DATA"}

LossRecord == [category : Uncharged \cup Charged, kwh : Nat, cents : Nat]
Losses == Seq(LossRecord)

Energies(q) == [i \in DOMAIN q |-> q[i].kwh]
Charges(q)  == [i \in DOMAIN q |-> IF q[i].category \in Charged THEN q[i].kwh ELSE 0]
Prices(q)   == [i \in DOMAIN q |-> q[i].cents]

(* Losses that are nobody's fault, of so many kWh together.                 *)
NobodysFault(q, kwh) ==
  /\ q \in Losses
  /\ \A i \in DOMAIN q : q[i].category \notin Charged /\ q[i].cents = 0
  /\ SumFunction(Energies(q)) = kwh

(* The columns of an account are numbers.                                   *)
LEMMA ColumnsAre ==
  ASSUME NEW q \in Losses
  PROVE  /\ Len(q) \in Nat /\ DOMAIN q = 1..Len(q)
         /\ Energies(q) \in [1..Len(q) -> Nat]
         /\ Charges(q) \in [1..Len(q) -> Nat]
         /\ Prices(q) \in [1..Len(q) -> Nat]
<1>1. Len(q) \in Nat /\ DOMAIN q = 1..Len(q)
  BY DEF Losses
<1>2. \A i \in 1..Len(q) : q[i].kwh \in Nat /\ q[i].cents \in Nat
  <2> SUFFICES ASSUME NEW i \in 1..Len(q) PROVE q[i].kwh \in Nat /\ q[i].cents \in Nat
    OBVIOUS
  <2>1. q[i] \in LossRecord
    BY <1>1 DEF Losses
  <2> QED BY <2>1 DEF LossRecord
<1>3. Energies(q) \in [1..Len(q) -> Nat] /\ Prices(q) \in [1..Len(q) -> Nat]
  BY <1>1, <1>2 DEF Energies, Prices
<1>4. Charges(q) \in [1..Len(q) -> Nat]
  BY <1>1, <1>2 DEF Charges
<1> QED BY <1>1, <1>3, <1>4

(* Accounts in a row.                                                       *)
LEMMA ColumnsAdd ==
  ASSUME NEW p \in Losses, NEW q \in Losses
  PROVE  /\ p \o q \in Losses
         /\ SumFunction(Energies(p \o q)) = SumFunction(Energies(p)) + SumFunction(Energies(q))
         /\ SumFunction(Charges(p \o q)) = SumFunction(Charges(p)) + SumFunction(Charges(q))
         /\ SumFunction(Prices(p \o q)) = SumFunction(Prices(p)) + SumFunction(Prices(q))
<1> DEFINE n == Len(p)
           m == Len(q)
           r == p \o q
<1>1. /\ n \in Nat /\ DOMAIN p = 1..n /\ m \in Nat /\ DOMAIN q = 1..m
      /\ Energies(p) \in [1..n -> Nat] /\ Energies(q) \in [1..m -> Nat]
      /\ Charges(p) \in [1..n -> Nat] /\ Charges(q) \in [1..m -> Nat]
      /\ Prices(p) \in [1..n -> Nat] /\ Prices(q) \in [1..m -> Nat]
  BY ColumnsAre
<1>2. /\ r \in Losses /\ Len(r) = n + m
      /\ \A i \in 1..(n + m) : r[i] = IF i <= n THEN p[i] ELSE q[i - n]
  BY ConcatProperties DEF Losses
<1> HIDE DEF n, m, r
<1>3. /\ DOMAIN r = 1..(n + m) /\ Energies(r) \in [1..(n + m) -> Nat]
      /\ Charges(r) \in [1..(n + m) -> Nat] /\ Prices(r) \in [1..(n + m) -> Nat]
  BY <1>2, ColumnsAre
<1>4. ASSUME NEW i \in 1..n PROVE i \in 1..(n + m) /\ r[i] = p[i]
  BY <1>1, <1>2
<1>5. ASSUME NEW i \in 1..m PROVE i + n \in 1..(n + m) /\ r[i + n] = q[i]
  <2>1. i + n \in 1..(n + m) /\ ~ (i + n <= n) /\ (i + n) - n = i
    BY <1>1
  <2> QED BY <1>2, <2>1
<1>6. SumFunction(Energies(r)) = SumFunction(Energies(p)) + SumFunction(Energies(q))
  <2>1. \A i \in 1..n : Energies(r)[i] = Energies(p)[i]
    BY <1>1, <1>3, <1>4 DEF Energies
  <2>2. \A i \in 1..m : Energies(r)[i + n] = Energies(q)[i]
    BY <1>1, <1>3, <1>5 DEF Energies
  <2> QED BY <1>1, <1>3, <2>1, <2>2, SumParts
<1>7. SumFunction(Charges(r)) = SumFunction(Charges(p)) + SumFunction(Charges(q))
  <2>1. \A i \in 1..n : Charges(r)[i] = Charges(p)[i]
    BY <1>1, <1>3, <1>4 DEF Charges
  <2>2. \A i \in 1..m : Charges(r)[i + n] = Charges(q)[i]
    BY <1>1, <1>3, <1>5 DEF Charges
  <2> QED BY <1>1, <1>3, <2>1, <2>2, SumParts
<1>8. SumFunction(Prices(r)) = SumFunction(Prices(p)) + SumFunction(Prices(q))
  <2>1. \A i \in 1..n : Prices(r)[i] = Prices(p)[i]
    BY <1>1, <1>3, <1>4 DEF Prices
  <2>2. \A i \in 1..m : Prices(r)[i + n] = Prices(q)[i]
    BY <1>1, <1>3, <1>5 DEF Prices
  <2> QED BY <1>1, <1>3, <2>1, <2>2, SumParts
<1> QED BY <1>2, <1>6, <1>7, <1>8 DEF r

(* An account of one loss.                                                  *)
LEMMA LossIs ==
  ASSUME NEW category \in Uncharged \cup Charged, NEW kwh \in Nat, NEW cents \in Nat
  PROVE  LET q == Loss(category, kwh, cents) IN
         /\ q \in Losses /\ Len(q) = 1 /\ DOMAIN q = 1..1
         /\ q[1].category = category /\ q[1].kwh = kwh /\ q[1].cents = cents
         /\ SumFunction(Energies(q)) = kwh
         /\ SumFunction(Charges(q)) = IF category \in Charged THEN kwh ELSE 0
         /\ SumFunction(Prices(q)) = cents
<1> DEFINE l == [category |-> category, kwh |-> kwh, cents |-> cents]
           q == Loss(category, kwh, cents)
<1>1. /\ l \in LossRecord
      /\ l.category = category /\ l.kwh = kwh /\ l.cents = cents
  BY DEF LossRecord
<1>2. q = <<l>>
  BY DEF Loss
<1> HIDE DEF l, q
<1>3. q \in Losses /\ Len(q) = 1 /\ DOMAIN q = 1..1 /\ q[1] = l
  BY <1>1, <1>2 DEF Losses
<1>4. 1..1 = {1}
  OBVIOUS
<1>5. /\ Energies(q) \in [{1} -> Nat] /\ Charges(q) \in [{1} -> Nat] /\ Prices(q) \in [{1} -> Nat]
  BY <1>3, <1>4, ColumnsAre
<1>6. /\ Energies(q)[1] = kwh /\ Prices(q)[1] = cents
      /\ Charges(q)[1] = IF category \in Charged THEN kwh ELSE 0
  <2>1. 1 \in DOMAIN q /\ q[1].category = category /\ q[1].kwh = kwh /\ q[1].cents = cents
    BY <1>1, <1>3
  <2> QED BY <2>1 DEF Energies, Prices, Charges
<1>7. /\ SumFunction(Energies(q)) = Energies(q)[1]
      /\ SumFunction(Charges(q)) = Charges(q)[1]
      /\ SumFunction(Prices(q)) = Prices(q)[1]
  BY <1>5, SumOne
<1> QED BY <1>1, <1>3, <1>6, <1>7 DEF q

(* An account of nothing.                                                   *)
LEMMA NoLoss == NobodysFault(<<>>, 0)
<1> DEFINE none == <<>>
<1>1. none \in Losses /\ Len(none) = 0 /\ DOMAIN none = {}
  BY EmptySeq DEF Losses
<1> HIDE DEF none
<1>2. Energies(none) \in [{} -> Nat] /\ IsFiniteSet({})
  BY <1>1, FS_EmptySet DEF Energies
<1>3. SumFunction(Energies(none)) = 0
  BY <1>2, SumZero
<1>4. NobodysFault(none, 0)
  BY <1>1, <1>3 DEF NobodysFault
<1> QED BY <1>4 DEF none

(* What nature took, if anything.                                           *)
LEMMA NaturalIs ==
  ASSUME NEW category \in Uncharged, NEW kwh \in Nat
  PROVE  NobodysFault(Natural(category, kwh), kwh)
<1>0. category \notin Charged
  BY DEF Charged, Uncharged
<1>1. CASE kwh > 0
  <2> DEFINE zero == 0
             q == Loss(category, kwh, zero)
  <2>1. Natural(category, kwh) = q /\ zero \in Nat
    BY <1>1 DEF Natural
  <2> HIDE DEF zero
  <2>2. /\ q \in Losses /\ DOMAIN q = 1..1
        /\ q[1].category = category /\ q[1].cents = zero
        /\ SumFunction(Energies(q)) = kwh
    BY <2>1, LossIs
  <2> HIDE DEF q
  <2>3. \A i \in DOMAIN q : q[i].category \notin Charged /\ q[i].cents = 0
    BY <1>0, <2>2 DEF zero
  <2> QED BY <2>1, <2>2, <2>3 DEF NobodysFault
<1>2. CASE kwh = 0
  <2>1. Natural(category, kwh) = <<>>
    BY <1>2 DEF Natural
  <2> QED BY <1>2, <2>1, NoLoss
<1> QED BY <1>1, <1>2

(* Of what is nobody's fault, nothing is charged and nothing paid.          *)
LEMMA FaultlessIs ==
  ASSUME NEW q, NEW kwh, NobodysFault(q, kwh)
  PROVE  SumFunction(Charges(q)) = 0 /\ SumFunction(Prices(q)) = 0
<1>1. q \in Losses /\ \A i \in DOMAIN q : q[i].category \notin Charged /\ q[i].cents = 0
  BY DEF NobodysFault
<1>2. /\ Len(q) \in Nat /\ DOMAIN q = 1..Len(q) /\ IsFiniteSet(1..Len(q))
      /\ Charges(q) \in [1..Len(q) -> Nat] /\ Prices(q) \in [1..Len(q) -> Nat]
  BY <1>1, ColumnsAre, FS_Interval
<1>3. \A i \in 1..Len(q) : Charges(q)[i] = 0 /\ Prices(q)[i] = 0
  BY <1>1, <1>2 DEF Charges, Prices
<1> QED BY <1>2, <1>3, SumZero

(* What is nobody's fault, in a row, is nobody's fault.                     *)
LEMMA FaultlessRow ==
  ASSUME NEW p, NEW m \in Nat, NobodysFault(p, m), NEW q, NEW n \in Nat, NobodysFault(q, n)
  PROVE  NobodysFault(p \o q, m + n)
<1>1. p \in Losses /\ q \in Losses
  BY DEF NobodysFault
<1>2. p \o q \in Losses /\ SumFunction(Energies(p \o q)) = m + n
  BY <1>1, ColumnsAdd DEF NobodysFault
<1>3. /\ DOMAIN (p \o q) = 1..(Len(p) + Len(q)) /\ DOMAIN p = 1..Len(p) /\ DOMAIN q = 1..Len(q)
      /\ Len(p) \in Nat /\ Len(q) \in Nat
      /\ \A i \in 1..(Len(p) + Len(q)) : (p \o q)[i] = IF i <= Len(p) THEN p[i] ELSE q[i - Len(p)]
  BY <1>1, ConcatProperties DEF Losses
<1>4. ASSUME NEW i \in DOMAIN (p \o q)
      PROVE  (p \o q)[i].category \notin Charged /\ (p \o q)[i].cents = 0
  <2>1. CASE i <= Len(p)
    <3>1. i \in DOMAIN p /\ (p \o q)[i] = p[i]
      BY <1>3, <2>1
    <3> QED BY <3>1 DEF NobodysFault
  <2>2. CASE ~ (i <= Len(p))
    <3>1. i - Len(p) \in DOMAIN q /\ (p \o q)[i] = q[i - Len(p)]
      BY <1>3, <2>2
    <3> QED BY <3>1 DEF NobodysFault
  <2> QED BY <2>1, <2>2
<1> QED BY <1>2, <1>4 DEF NobodysFault

(* A price is whole cents.                                                  *)
LEMMA PriceIs ==
  ASSUME NEW tech \in DOMAIN Rating, NEW kwh \in Nat
  PROVE  kwh * Rating[tech].tariff \in Nat
<1>1. Rating[tech].tariff \in Nat
  BY RatingIs
<1> QED BY <1>1

(* The result of an evaluation that charges nothing, and of one that        *)
(* charges once.                                                            *)
ChargedIn(e) == {i \in DOMAIN e.losses : e.losses[i].category \in Charged}

NothingCharged(e) == e.kwh = 0 /\ e.cents = 0 /\ ChargedIn(e) = {}

ChargedOnce(tech, e, kwh) ==
  /\ e.kwh = kwh /\ e.cents = kwh * Rating[tech].tariff
  /\ \E i \in ChargedIn(e) : ChargedIn(e) = {i} /\ e.losses[i].kwh = kwh

(* What a result adds up.                                                   *)
LEMMA ResultIs ==
  ASSUME NEW t, NEW class, NEW gap, NEW q
  PROVE  LET e == Result(t, class, gap, q) IN
         /\ e.losses = q /\ e.class = class
         /\ e.kwh = SumFunction(Charges(q)) /\ e.cents = SumFunction(Prices(q))
BY DEF Result, Charges, Prices

(* Where all is nobody's fault, nothing is charged.                         *)
LEMMA NothingIs ==
  ASSUME NEW t, NEW class, NEW gap, NEW q, NEW kwh, NobodysFault(q, kwh)
  PROVE  NothingCharged(Result(t, class, gap, q)) /\ Result(t, class, gap, q).class = class
<1> DEFINE e == Result(t, class, gap, q)
<1>1. /\ e.losses = q /\ e.class = class
      /\ e.kwh = SumFunction(Charges(q)) /\ e.cents = SumFunction(Prices(q))
  BY ResultIs
<1> HIDE DEF e
<1>2. e.kwh = 0 /\ e.cents = 0
  BY <1>1, FaultlessIs
<1>3. ChargedIn(e) = {}
  BY <1>1 DEF ChargedIn, NobodysFault
<1> QED BY <1>1, <1>2, <1>3 DEF NothingCharged, e

(* A charge after what is nobody's fault is the only one.                   *)
LEMMA OnceIs ==
  ASSUME NEW t, NEW class, NEW gap, NEW w, NEW n \in Nat, NobodysFault(w, n),
         NEW tech \in DOMAIN Rating, NEW category \in Charged, NEW kwh \in Nat
  PROVE  LET e == Result(t, class, gap, w \o Priced(tech, category, kwh)) IN
         /\ ChargedOnce(tech, e, kwh) /\ e.class = class
         /\ SumKwh(e.losses) = n + kwh
<1> DEFINE cents == kwh * Rating[tech].tariff
           p == Priced(tech, category, kwh)
           q == w \o p
           e == Result(t, class, gap, q)
<1>0. category \in Uncharged \cup Charged /\ cents \in Nat
  BY PriceIs
<1>1. p = Loss(category, kwh, cents)
  BY DEF Priced
<1> HIDE DEF cents
<1>2. /\ p \in Losses /\ Len(p) = 1 /\ DOMAIN p = 1..1
      /\ p[1].category = category /\ p[1].kwh = kwh /\ p[1].cents = cents
      /\ SumFunction(Energies(p)) = kwh /\ SumFunction(Charges(p)) = kwh
      /\ SumFunction(Prices(p)) = cents
  BY <1>0, <1>1, LossIs
<1>3. /\ e.losses = q /\ e.class = class
      /\ e.kwh = SumFunction(Charges(q)) /\ e.cents = SumFunction(Prices(q))
  <2> HIDE DEF q
  <2> QED BY ResultIs
<1> HIDE DEF p
<1>4. w \in Losses /\ SumFunction(Energies(w)) = n
      /\ SumFunction(Charges(w)) = 0 /\ SumFunction(Prices(w)) = 0
  BY FaultlessIs DEF NobodysFault
<1>5. /\ q \in Losses /\ SumFunction(Energies(q)) = n + kwh
      /\ SumFunction(Charges(q)) = kwh /\ SumFunction(Prices(q)) = cents
  BY <1>0, <1>2, <1>4, ColumnsAdd
<1>6. /\ DOMAIN q = 1..(Len(w) + 1) /\ DOMAIN w = 1..Len(w) /\ Len(w) \in Nat
      /\ \A i \in 1..Len(w) : q[i] = w[i]
      /\ q[Len(w) + 1] = p[1]
  <2>1. /\ Len(w) \in Nat /\ Len(q) = Len(w) + 1 /\ DOMAIN w = 1..Len(w) /\ DOMAIN q = 1..Len(q)
        /\ \A i \in 1..(Len(w) + 1) : q[i] = IF i <= Len(w) THEN w[i] ELSE p[i - Len(w)]
    <3>1. /\ Len(w) \in Nat /\ DOMAIN w = 1..Len(w)
          /\ Len(w \o p) = Len(w) + Len(p) /\ DOMAIN (w \o p) = 1..(Len(w) + Len(p))
          /\ \A i \in 1..(Len(w) + Len(p)) :
               (w \o p)[i] = IF i <= Len(w) THEN w[i] ELSE p[i - Len(w)]
      BY <1>2, <1>4, ConcatProperties DEF Losses
    <3>2. Len(w) + Len(p) = Len(w) + 1
      BY <1>2
    <3> QED BY <3>1, <3>2
  <2>2. Len(w) + 1 \in 1..(Len(w) + 1) /\ ~ (Len(w) + 1 <= Len(w)) /\ (Len(w) + 1) - Len(w) = 1
    BY <2>1
  <2>3. \A i \in 1..Len(w) : i \in 1..(Len(w) + 1) /\ i <= Len(w)
    BY <2>1
  <2> HIDE DEF q
  <2> QED BY <2>1, <2>2, <2>3
<1> HIDE DEF q, e
<1> DEFINE m == Len(w) + 1
<1>7. ChargedIn(e) = {m}
  <2>1. m \in DOMAIN q /\ q[m].category \in Charged
    BY <1>2, <1>6
  <2>2. \A i \in DOMAIN q : i # m => i \in DOMAIN w
    BY <1>6
  <2>3. \A i \in DOMAIN w : q[i].category \notin Charged
    BY <1>6 DEF NobodysFault
  <2> HIDE DEF m
  <2> QED BY <1>3, <2>1, <2>2, <2>3 DEF ChargedIn
<1>8. e.losses[m].kwh = kwh
  BY <1>2, <1>3, <1>6
<1> HIDE DEF m
<1>9. ChargedOnce(tech, e, kwh)
  BY <1>3, <1>5, <1>7, <1>8 DEF ChargedOnce, cents
<1>10. SumKwh(e.losses) = n + kwh
  BY <1>3, <1>5 DEF SumKwh, Energies
<1> QED BY <1>3, <1>9, <1>10 DEF e, q, p

(* A record without data charges nothing and is uncertain.                  *)
LEMMA MissingIs ==
  ASSUME NEW t, t.confidence \in Int
  PROVE  /\ NothingCharged(MissingData(t))
         /\ MissingData(t).uncertain /\ MissingData(t).confidence <= 30
<1> DEFINE zero == 0
           q == Loss("MISSING_DATA", 0, 0)
<1>1. NobodysFault(q, 0)
  <2>0. "MISSING_DATA" \in Uncharged /\ "MISSING_DATA" \notin Charged /\ zero \in Nat
    BY DEF Uncharged, Charged
  <2> DEFINE l == Loss("MISSING_DATA", zero, zero)
  <2> HIDE DEF zero
  <2>1. /\ l \in Losses /\ DOMAIN l = 1..1
        /\ l[1].category = "MISSING_DATA" /\ l[1].cents = zero
        /\ SumFunction(Energies(l)) = zero
    BY <2>0, LossIs
  <2> HIDE DEF l
  <2>2. \A i \in DOMAIN l : l[i].category \notin Charged /\ l[i].cents = 0
    BY <2>0, <2>1 DEF zero
  <2>3. NobodysFault(l, zero)
    BY <2>1, <2>2 DEF NobodysFault, zero
  <2> QED BY <2>3 DEF l, zero
<1> HIDE DEF q
<1>2. NothingCharged(Result(t, "MISSING_DATA", 0, q))
  BY <1>1, NothingIs
<1>3. MissingData(t) = Result(t, "MISSING_DATA", 0, q)
  BY DEF MissingData, q
<1>4. /\ Result(t, "MISSING_DATA", 0, q).uncertain
      /\ Result(t, "MISSING_DATA", 0, q).confidence = Min({30, t.confidence})
  BY DEF Result
<1>5. Min({30, t.confidence}) <= 30
  <2> DEFINE most == 30
             c == t.confidence
  <2>1. most \in Int /\ c \in Int
    OBVIOUS
  <2> HIDE DEF most, c
  <2>2. Min({most, c}) = IF most <= c THEN most ELSE c
    BY <2>1, OfTwo
  <2>3. Min({most, c}) <= most
    BY <2>1, <2>2
  <2> QED BY <2>3 DEF most, c
<1> QED BY <1>2, <1>3, <1>4, <1>5

(* One charge alone.                                                        *)
LEMMA OnlyIs ==
  ASSUME NEW t, NEW class, NEW gap,
         NEW tech \in DOMAIN Rating, NEW category \in Charged, NEW kwh \in Nat
  PROVE  LET e == Result(t, class, gap, Priced(tech, category, kwh)) IN
         ChargedOnce(tech, e, kwh) /\ e.class = class
<1> DEFINE p == Priced(tech, category, kwh)
           none == <<>>
           zero == 0
<1>1. none \o p = p
  <2>1. p \in Losses
    <3>1. category \in Uncharged \cup Charged /\ kwh * Rating[tech].tariff \in Nat
      BY PriceIs
    <3> QED BY <3>1, LossIs DEF Priced
  <2> HIDE DEF p
  <2> QED BY <2>1, ConcatEmptySeq DEF Losses
<1>2. NobodysFault(none, zero) /\ zero \in Nat
  BY NoLoss
<1> HIDE DEF none, zero
<1> DEFINE e == Result(t, class, gap, none \o Priced(tech, category, kwh))
<1>3. ChargedOnce(tech, e, kwh) /\ e.class = class
  BY <1>2, OnceIs
<1> QED BY <1>1, <1>3

(* What the size of the expected power, x, and the power delivered, d, let  *)
(* a sound evaluation charge.                                               *)
Books(tech, r, e, x, d) ==
  \/ Outage(r) /\ ChargedOnce(tech, e, x)
  \/ ~ Outage(r) /\ ChargedOnce(tech, e, Positive(x - d))
  \/ ~ Outage(r) /\ NothingCharged(e) /\ Positive(x - d) <= Tolerance[tech]

AddsToPotential(tech, r, e) ==
  tech = "SOLAR" /\ e.class = "UNDERPERFORMING" /\ Derating(r) <= 1000
    => Exhaustive(r, e)

(* One of these ways is sound: the charge is what the asset could produce   *)
(* and what it drew at most.                                                *)
LEMMA BooksAre ==
  ASSUME NEW tech \in DOMAIN Rating, NEW r, NEW e, ~ Missing(tech, r),
         NEW x \in Nat, x = Size(ExpectedOf(tech, r).expected), x <= Rating[tech].kw,
         NEW d \in Int, d = Delivered(tech, r),
         Books(tech, r, e, x, d), AddsToPotential(tech, r, e)
  PROVE  BookedSoundly(tech, r, e)
<1> DEFINE kw == Rating[tech].kw
           price == Rating[tech].tariff
           below == Positive(x - d)
           drawn == Positive(-d)
           deficit == IF Outage(r) THEN x ELSE below
           charged == {i \in DOMAIN e.losses : e.losses[i].category \in Charged}
<1>1. kw \in Nat /\ price \in Nat /\ x <= kw
  BY RatingIs
<1>2. x - d \in Int /\ -d \in Int
  OBVIOUS
<1>3. below = (IF x - d > 0 THEN x - d ELSE 0) /\ drawn = (IF -d > 0 THEN -d ELSE 0)
  BY <1>2, NumbersIs
<1>4. below \in Nat /\ drawn \in Nat /\ below <= kw + drawn /\ x <= kw + drawn
  <2> HIDE DEF kw, below, drawn
  <2> QED BY <1>1, <1>3
<1>5. charged = ChargedIn(e)
  BY DEF ChargedIn
<1> HIDE DEF charged, below, drawn, kw, price
<1>6. /\ IF charged = {}
          THEN e.kwh = 0 /\ deficit <= Tolerance[tech]
          ELSE e.kwh = deficit /\ \E i \in charged : charged = {i} /\ e.losses[i].kwh = deficit
      /\ e.cents = e.kwh * price
      /\ e.kwh <= kw + drawn
  <2>1. ASSUME ChargedOnce(tech, e, deficit), deficit <= kw + drawn
        PROVE  /\ charged # {}
               /\ e.kwh = deficit /\ \E i \in charged : charged = {i} /\ e.losses[i].kwh = deficit
               /\ e.cents = e.kwh * price /\ e.kwh <= kw + drawn
    <3> HIDE DEF deficit
    <3> QED BY <1>5, <2>1 DEF ChargedOnce, price
  <2>2. CASE Outage(r) /\ ChargedOnce(tech, e, x)
    <3>1. deficit = x
      BY <2>2
    <3> HIDE DEF deficit
    <3>2. ChargedOnce(tech, e, deficit) /\ deficit <= kw + drawn
      BY <1>4, <2>2, <3>1
    <3> QED BY <2>1, <3>2
  <2>3. CASE ~ Outage(r) /\ ChargedOnce(tech, e, below)
    <3>1. deficit = below
      BY <2>3
    <3> HIDE DEF deficit
    <3>2. ChargedOnce(tech, e, deficit) /\ deficit <= kw + drawn
      BY <1>4, <2>3, <3>1
    <3> QED BY <2>1, <3>2
  <2>4. CASE ~ Outage(r) /\ NothingCharged(e) /\ below <= Tolerance[tech]
    <3>1. deficit = below
      BY <2>4
    <3>2. e.kwh = 0 /\ e.cents = 0 /\ charged = {}
      BY <1>5, <2>4 DEF NothingCharged
    <3>3. deficit <= Tolerance[tech]
      BY <2>4, <3>1
    <3>4. e.cents = e.kwh * price /\ e.kwh <= kw + drawn
      BY <1>1, <1>4, <3>2
    <3> HIDE DEF deficit
    <3> QED BY <3>2, <3>3, <3>4
  <2> QED BY <2>2, <2>3, <2>4 DEF Books, below
<1>7. tech = "SOLAR" /\ e.class = "UNDERPERFORMING" /\ Derating(r) <= 1000 => Exhaustive(r, e)
  BY DEF AddsToPotential
<1> QED BY <1>6, <1>7 DEF BookedSoundly, charged, kw, price, drawn, below

(* A packet can be read, and what it delivers is a number.                  *)
LEMMA PacketIs ==
  ASSUME NEW r \in Packets
  PROVE  /\ Readable(r) /\ r.power \in Int /\ r.confidence \in Int
         /\ Size(r.power) \in Nat
<1>1. Readable(r)
  BY DEF Packets, Readable
<1>2. r.power \in Int /\ r.confidence \in Int
  BY DEF Packets
<1>3. Size(r.power) \in Nat
  BY <1>2 DEF Size
<1> QED BY <1>1, <1>2, <1>3

(* A packet without data is booked soundly.                                 *)
LEMMA MissingBooked ==
  ASSUME NEW tech, NEW r \in Packets, Missing(tech, r), NEW e, e = MissingData(r)
  PROVE  BookedSoundly(tech, r, e)
<1>1. NothingCharged(e) /\ e.uncertain /\ e.confidence <= 30
  BY PacketIs, MissingIs
<1> QED BY <1>1 DEF BookedSoundly, NothingCharged

(* A solar plant's deficit is booked soundly.                               *)
LEMMA SolarBooked ==
  ASSUME NEW r \in Packets
  PROVE  BookedSoundly("SOLAR", r, EvaluateSolar(r))
<1> DEFINE tech == "SOLAR"
           m == SolarExpected(Rating.SOLAR, r)
           x == m.expected
           d == r.power
           gap == Positive(x - d)
           sun == Natural("RESOURCE_VARIATION", m.resource)
           heat == Natural("THERMAL_DERATE", m.thermal)
           clip == Natural("INVERTER_CLIPPING", m.clipping)
           w == sun \o heat \o clip
           n == m.resource + m.thermal + m.clipping
           e == EvaluateSolar(r)
           calm == IF r.poa < 400 THEN "ENVIRONMENTAL_VARIATION" ELSE "NOMINAL"
<1>1. tech \in DOMAIN Rating /\ Rating.SOLAR.kw = 2500 /\ Rating[tech].kw = 2500
      /\ Tolerance[tech] = 75
  BY RatingIs DEF Tolerance
<1>2. Readable(r) /\ d \in Int
  BY PacketIs
<1>3. /\ x \in 0..2500 /\ m.resource \in Nat /\ m.thermal \in Nat /\ m.clipping \in Nat
      /\ Derating(r) <= 1000 => n + x = IF Potential(r) > 2500 THEN Potential(r) ELSE 2500
  BY <1>2, SolarIs
<1>4. x = Size(ExpectedOf(tech, r).expected)
  <2>1. ExpectedOf(tech, r) = m
    BY DEF ExpectedOf
  <2> HIDE DEF m
  <2>2. Size(x) = x
    BY <1>3 DEF Size
  <2> QED BY <2>1, <2>2
<1>5. d = Delivered(tech, r)
  BY DEF Delivered
<1>6. e = IF Missing(tech, r) THEN MissingData(r)
          ELSE IF Outage(r)
          THEN Result(r, "OUTAGE", x, Priced(tech, "ASSET_OUTAGE", x))
          ELSE IF r.state = "CURTAILED"
          THEN Result(r, "CURTAILED", gap, Priced(tech, "CURTAILMENT", gap))
          ELSE IF 100 * gap > 3 * Rating.SOLAR.kw
          THEN Result(r, "UNDERPERFORMING", gap,
                      w \o Priced(tech, "CONTROLLABLE_UNDERPERFORMANCE", gap))
          ELSE Result(r, calm, 0, w)
  BY DEF EvaluateSolar
<1> HIDE DEF e, m
<1>7. NobodysFault(w, n)
  <2>1. /\ "RESOURCE_VARIATION" \in Uncharged /\ "THERMAL_DERATE" \in Uncharged
        /\ "INVERTER_CLIPPING" \in Uncharged
    BY DEF Uncharged
  <2>2. /\ NobodysFault(sun, m.resource) /\ NobodysFault(heat, m.thermal)
        /\ NobodysFault(clip, m.clipping)
    BY <1>3, <2>1, NaturalIs
  <2> DEFINE a == m.resource
             b == m.thermal
             c == m.clipping
  <2>3. /\ a \in Nat /\ b \in Nat /\ c \in Nat
        /\ NobodysFault(sun, a) /\ NobodysFault(heat, b) /\ NobodysFault(clip, c)
    BY <1>3, <2>2
  <2> HIDE DEF sun, heat, clip, a, b, c
  <2>4. a + b \in Nat /\ NobodysFault(sun \o heat, a + b)
    BY <2>3, FaultlessRow
  <2>5. NobodysFault((sun \o heat) \o clip, (a + b) + c)
    BY <2>3, <2>4, FaultlessRow
  <2> QED BY <2>5 DEF a, b, c
<1>8. gap \in Nat /\ gap = (IF x - d > 0 THEN x - d ELSE 0)
  <2>1. x - d \in Int
    <3>1. x \in 0..2500
      BY <1>3
    <3> HIDE DEF x, d
    <3> QED BY <1>2, <3>1
  <2>2. gap = IF x - d > 0 THEN x - d ELSE 0
    BY <2>1, NumbersIs
  <2> HIDE DEF gap
  <2> QED BY <2>1, <2>2
<1>9. n \in Nat /\ x \in Nat /\ x <= Rating[tech].kw
  <2>1. x \in 0..2500 /\ m.resource \in Nat /\ m.thermal \in Nat /\ m.clipping \in Nat
    BY <1>3
  <2>2. n \in Nat
    BY <2>1
  <2> HIDE DEF x
  <2> QED BY <1>1, <2>1, <2>2
<1> HIDE DEF w, n, calm
<1>10. "ASSET_OUTAGE" \in Charged /\ "CURTAILMENT" \in Charged
       /\ "CONTROLLABLE_UNDERPERFORMANCE" \in Charged
  BY DEF Charged
<1>11. CASE Missing(tech, r)
  <2>1. e = MissingData(r)
    BY <1>6, <1>11
  <2> QED BY <1>11, <2>1, MissingBooked DEF e
<1>12. CASE ~ Missing(tech, r)
  <2>1. Books(tech, r, e, x, d) /\ AddsToPotential(tech, r, e)
    <3>1. CASE Outage(r)
      <4>1. e = Result(r, "OUTAGE", x, Priced(tech, "ASSET_OUTAGE", x))
        BY <1>6, <1>12, <3>1
      <4>2. ChargedOnce(tech, e, x) /\ e.class = "OUTAGE"
        BY <1>1, <1>9, <1>10, <4>1, OnlyIs
      <4> QED BY <3>1, <4>2 DEF Books, AddsToPotential
    <3>2. CASE ~ Outage(r) /\ r.state = "CURTAILED"
      <4>1. e = Result(r, "CURTAILED", gap, Priced(tech, "CURTAILMENT", gap))
        BY <1>6, <1>12, <3>2
      <4>2. ChargedOnce(tech, e, gap) /\ e.class = "CURTAILED"
        <5> HIDE DEF gap
        <5> QED BY <1>1, <1>8, <1>10, <4>1, OnlyIs
      <4> QED BY <3>2, <4>2 DEF Books, AddsToPotential
    <3>3. CASE ~ Outage(r) /\ ~ (r.state = "CURTAILED") /\ 100 * gap > 3 * Rating.SOLAR.kw
      <4>1. e = Result(r, "UNDERPERFORMING", gap,
                       w \o Priced(tech, "CONTROLLABLE_UNDERPERFORMANCE", gap))
        BY <1>6, <1>12, <3>3
      <4>2. ChargedOnce(tech, e, gap) /\ SumKwh(e.losses) = n + gap
        <5> HIDE DEF gap
        <5> QED BY <1>1, <1>7, <1>8, <1>9, <1>10, <4>1, OnceIs
      <4>3. gap = x - d
        <5> HIDE DEF gap
        <5> QED BY <1>1, <1>8, <3>3
      <4>4. AddsToPotential(tech, r, e)
        <5> SUFFICES ASSUME Derating(r) <= 1000
                     PROVE  SumKwh(e.losses) + r.power
                              = Max({Rating.SOLAR.kw, (((Rating.SOLAR.dc * r.poa) \div 1000) * 946) \div 1000})
          BY DEF AddsToPotential, Exhaustive
        <5>1. (((Rating.SOLAR.dc * r.poa) \div 1000) * 946) \div 1000 = Potential(r) /\ Rating.SOLAR.kw = 2500
          BY <1>1 DEF Potential
        <5>2. Potential(r) \in Int
          BY <1>2, PotentialIs
        <5> DEFINE top == 2500
                   pot == Potential(r)
        <5> HIDE DEF top, pot
        <5>3. Max({top, pot}) = IF top >= pot THEN top ELSE pot
          <6>1. top \in Int /\ pot \in Int
            BY <5>2 DEF top, pot
          <6> QED BY <6>1, OfTwo
        <5>4. n + x = IF pot > 2500 THEN pot ELSE 2500
          BY <1>3 DEF n, pot
        <5>5. SumKwh(e.losses) + d = n + x
          <6> HIDE DEF gap, x, d
          <6> QED BY <1>2, <1>8, <1>9, <4>2, <4>3
        <5>6. n + x = Max({top, pot})
          BY <5>2, <5>3, <5>4 DEF top, pot
        <5> DEFINE raw == (((Rating.SOLAR.dc * r.poa) \div 1000) * 946) \div 1000
        <5>7. Rating.SOLAR.kw = top /\ raw = pot
          BY <5>1 DEF top, pot
        <5>8. SumKwh(e.losses) + r.power = Max({top, pot})
          BY <5>5, <5>6
        <5> HIDE DEF raw
        <5>9. SumKwh(e.losses) + r.power = Max({Rating.SOLAR.kw, raw})
          BY <5>7, <5>8
        <5> QED BY <5>9 DEF raw
      <4> QED BY <3>3, <4>2, <4>4 DEF Books
    <3>4. CASE ~ Outage(r) /\ ~ (r.state = "CURTAILED") /\ ~ (100 * gap > 3 * Rating.SOLAR.kw)
      <4>1. e = Result(r, calm, 0, w)
        BY <1>6, <1>12, <3>4
      <4>2. NothingCharged(e) /\ e.class = calm
        BY <1>7, <4>1, NothingIs
      <4>3. gap <= 75
        <5> HIDE DEF gap
        <5> QED BY <1>1, <1>8, <3>4
      <4>4. calm # "UNDERPERFORMING"
        BY DEF calm
      <4>5. AddsToPotential(tech, r, e)
        BY <4>2, <4>4 DEF AddsToPotential
      <4>6. gap <= Tolerance[tech]
        BY <1>1, <4>3
      <4> HIDE DEF e
      <4> QED BY <3>4, <4>2, <4>5, <4>6 DEF Books
    <3> QED BY <3>1, <3>2, <3>3, <3>4
  <2> HIDE DEF tech, x, d
  <2>2. BookedSoundly(tech, r, e)
    BY <1>1, <1>2, <1>4, <1>5, <1>9, <1>12, <2>1, BooksAre
  <2> QED BY <2>2 DEF tech, e
<1> QED BY <1>11, <1>12

(* A turbine's deficit is booked soundly.                                   *)
LEMMA WindBooked ==
  ASSUME NEW r \in Packets
  PROVE  BookedSoundly("WIND", r, EvaluateWind(r))
<1> DEFINE tech == "WIND"
           m == WindExpected(Rating.WIND, r)
           x == m.expected
           d == r.power
           gap == Positive(x - d)
           w == Natural("RESOURCE_VARIATION", m.resource)
           n == m.resource
           e == EvaluateWind(r)
           calm == IF r.wind < Rating.WIND.cutIn THEN "ENVIRONMENTAL_VARIATION" ELSE "NOMINAL"
<1>1. tech \in DOMAIN Rating /\ Rating.WIND.kw = 2000 /\ Rating[tech].kw = 2000
      /\ Tolerance[tech] = 100
  BY RatingIs DEF Tolerance
<1>2. Readable(r) /\ d \in Int
  BY PacketIs
<1>3. x \in 0..2000 /\ n \in Nat
  <2>1. x \in 0..2000 /\ n = 2000 - x
    BY <1>2, WindIs
  <2> HIDE DEF x, n
  <2> QED BY <2>1
<1>4. x = Size(ExpectedOf(tech, r).expected)
  <2>1. ExpectedOf(tech, r) = m
    BY DEF ExpectedOf
  <2> HIDE DEF m
  <2>2. Size(x) = x
    BY <1>3 DEF Size
  <2> QED BY <2>1, <2>2
<1>5. d = Delivered(tech, r)
  BY DEF Delivered
<1>6. e = IF Missing(tech, r) THEN MissingData(r)
          ELSE IF Outage(r)
          THEN Result(r, "OUTAGE", x, Priced(tech, "ASSET_OUTAGE", x))
          ELSE IF 100 * gap > 5 * Rating.WIND.kw
          THEN Result(r, "UNDERPERFORMING", gap,
                      w \o Priced(tech, "CONTROLLABLE_UNDERPERFORMANCE", gap))
          ELSE Result(r, calm, 0, w)
  BY DEF EvaluateWind
<1> HIDE DEF e, m
<1>7. NobodysFault(w, n)
  <2>1. "RESOURCE_VARIATION" \in Uncharged
    BY DEF Uncharged
  <2> QED BY <1>3, <2>1, NaturalIs
<1>8. gap \in Nat /\ gap = (IF x - d > 0 THEN x - d ELSE 0)
  <2>1. x - d \in Int
    <3> HIDE DEF x, d
    <3> QED BY <1>2, <1>3
  <2>2. gap = IF x - d > 0 THEN x - d ELSE 0
    BY <2>1, NumbersIs
  <2> HIDE DEF gap
  <2> QED BY <2>1, <2>2
<1>9. n \in Nat /\ x \in Nat /\ x <= Rating[tech].kw
  <2> HIDE DEF x, n
  <2> QED BY <1>1, <1>3
<1> HIDE DEF w, n, calm
<1>10. "ASSET_OUTAGE" \in Charged /\ "CONTROLLABLE_UNDERPERFORMANCE" \in Charged
  BY DEF Charged
<1>11. CASE Missing(tech, r)
  <2>1. e = MissingData(r)
    BY <1>6, <1>11
  <2> QED BY <1>11, <2>1, MissingBooked DEF e
<1>12. CASE ~ Missing(tech, r)
  <2>1. AddsToPotential(tech, r, e)
    BY DEF AddsToPotential
  <2>2. Books(tech, r, e, x, d)
    <3>1. CASE Outage(r)
      <4>1. e = Result(r, "OUTAGE", x, Priced(tech, "ASSET_OUTAGE", x))
        BY <1>6, <1>12, <3>1
      <4>2. ChargedOnce(tech, e, x)
        BY <1>1, <1>9, <1>10, <4>1, OnlyIs
      <4> QED BY <3>1, <4>2 DEF Books
    <3>2. CASE ~ Outage(r) /\ 100 * gap > 5 * Rating.WIND.kw
      <4>1. e = Result(r, "UNDERPERFORMING", gap,
                       w \o Priced(tech, "CONTROLLABLE_UNDERPERFORMANCE", gap))
        BY <1>6, <1>12, <3>2
      <4>2. ChargedOnce(tech, e, gap)
        <5> HIDE DEF gap
        <5> QED BY <1>1, <1>7, <1>8, <1>9, <1>10, <4>1, OnceIs
      <4> QED BY <3>2, <4>2 DEF Books
    <3>3. CASE ~ Outage(r) /\ ~ (100 * gap > 5 * Rating.WIND.kw)
      <4>1. e = Result(r, calm, 0, w)
        BY <1>6, <1>12, <3>3
      <4>2. NothingCharged(e)
        BY <1>7, <4>1, NothingIs
      <4>3. gap <= 100
        <5> HIDE DEF gap
        <5> QED BY <1>1, <1>8, <3>3
      <4>4. gap <= Tolerance[tech]
        BY <1>1, <4>3
      <4> HIDE DEF e
      <4> QED BY <3>3, <4>2, <4>4 DEF Books
    <3> QED BY <3>1, <3>2, <3>3
  <2> HIDE DEF tech, x, d
  <2>3. BookedSoundly(tech, r, e)
    BY <1>1, <1>2, <1>4, <1>5, <1>9, <1>12, <2>1, <2>2, BooksAre
  <2> QED BY <2>3 DEF tech, e
<1> QED BY <1>11, <1>12

(* A battery's deficit is booked soundly.                                   *)
LEMMA BessBooked ==
  ASSUME NEW r \in Packets
  PROVE  BookedSoundly("BESS", r, EvaluateBess(r))
<1> DEFINE tech == "BESS"
           m == BessExpected(Rating.BESS, r)
           x == Size(m.expected)
           d == Size(r.power)
           gap == Positive(x - d)
           e == EvaluateBess(r)
<1>1. tech \in DOMAIN Rating /\ Rating.BESS.kw = 1000 /\ Rating[tech].kw = 1000
      /\ Tolerance[tech] = 50
  BY RatingIs DEF Tolerance
<1>2. Readable(r) /\ d \in Int
  BY PacketIs
<1>3. x \in 0..1000
  <2>1. m.expected \in -1000..1000
    BY <1>2, BessIs
  <2> DEFINE y == m.expected
  <2>2. y \in -1000..1000
    BY <2>1
  <2> HIDE DEF y
  <2>3. Size(y) \in 0..1000
    <3>1. y \in Int /\ y >= -1000 /\ y <= 1000
      BY <2>2
    <3>2. CASE y < 0
      BY <3>1, <3>2 DEF Size
    <3>3. CASE ~ (y < 0)
      BY <3>1, <3>3 DEF Size
    <3> QED BY <3>2, <3>3
  <2> QED BY <2>3 DEF y
<1>4. x = Size(ExpectedOf(tech, r).expected)
  BY DEF ExpectedOf
<1>5. d = Delivered(tech, r)
  BY DEF Delivered
<1>6. e = IF Missing(tech, r) THEN MissingData(r)
          ELSE IF Outage(r)
          THEN Result(r, "OUTAGE", gap, Priced(tech, "ASSET_OUTAGE", x))
          ELSE IF 100 * gap > 5 * Rating.BESS.kw
          THEN Result(r, "UNDERPERFORMING", gap,
                      Priced(tech, "CONTROLLABLE_UNDERPERFORMANCE", gap))
          ELSE Result(r, "NOMINAL", 0, <<>>)
  BY DEF EvaluateBess
<1> HIDE DEF e, m
<1>8. gap \in Nat /\ gap = (IF x - d > 0 THEN x - d ELSE 0)
  <2>1. x - d \in Int
    <3> HIDE DEF x, d
    <3> QED BY <1>2, <1>3
  <2>2. gap = IF x - d > 0 THEN x - d ELSE 0
    BY <2>1, NumbersIs
  <2> HIDE DEF gap
  <2> QED BY <2>1, <2>2
<1>9. x \in Nat /\ x <= Rating[tech].kw
  <2> HIDE DEF x
  <2> QED BY <1>1, <1>3
<1>10. "ASSET_OUTAGE" \in Charged /\ "CONTROLLABLE_UNDERPERFORMANCE" \in Charged
  BY DEF Charged
<1>11. CASE Missing(tech, r)
  <2>1. e = MissingData(r)
    BY <1>6, <1>11
  <2> QED BY <1>11, <2>1, MissingBooked DEF e
<1>12. CASE ~ Missing(tech, r)
  <2>1. AddsToPotential(tech, r, e)
    BY DEF AddsToPotential
  <2>2. Books(tech, r, e, x, d)
    <3>1. CASE Outage(r)
      <4>1. e = Result(r, "OUTAGE", gap, Priced(tech, "ASSET_OUTAGE", x))
        BY <1>6, <1>12, <3>1
      <4>2. ChargedOnce(tech, e, x)
        <5> HIDE DEF x, gap
        <5> QED BY <1>1, <1>9, <1>10, <4>1, OnlyIs
      <4> QED BY <3>1, <4>2 DEF Books
    <3>2. CASE ~ Outage(r) /\ 100 * gap > 5 * Rating.BESS.kw
      <4>1. e = Result(r, "UNDERPERFORMING", gap,
                       Priced(tech, "CONTROLLABLE_UNDERPERFORMANCE", gap))
        BY <1>6, <1>12, <3>2
      <4>2. ChargedOnce(tech, e, gap)
        <5> HIDE DEF gap
        <5> QED BY <1>1, <1>8, <1>10, <4>1, OnlyIs
      <4> QED BY <3>2, <4>2 DEF Books
    <3>3. CASE ~ Outage(r) /\ ~ (100 * gap > 5 * Rating.BESS.kw)
      <4>1. e = Result(r, "NOMINAL", 0, <<>>)
        BY <1>6, <1>12, <3>3
      <4>2. NothingCharged(e)
        BY <4>1, NoLoss, NothingIs
      <4>3. gap <= 50
        <5> HIDE DEF gap
        <5> QED BY <1>1, <1>8, <3>3
      <4>4. gap <= Tolerance[tech]
        BY <1>1, <4>3
      <4> HIDE DEF e
      <4> QED BY <3>3, <4>2, <4>4 DEF Books
    <3> QED BY <3>1, <3>2, <3>3
  <2> HIDE DEF tech, x, d
  <2>3. BookedSoundly(tech, r, e)
    BY <1>1, <1>2, <1>4, <1>5, <1>9, <1>12, <2>1, <2>2, BooksAre
  <2> QED BY <2>3 DEF tech, e
<1> QED BY <1>11, <1>12

(* Whatever the packets, the deficit of the last one is charged once, for   *)
(* what it is and at the tariff, or is within the tolerance; and the losses *)
(* of an underperforming plant add up (PerformanceIntelligenceEngine).      *)
THEOREM LossHolds == Spec => []LossBooked
<1>1. Spec => []ConditionInv
  BY ConditionInit, ConditionStep, PTL DEF Spec
<1>2. ConditionInv => LossBooked
  <2> SUFFICES ASSUME ConditionInv, recent # <<>>
               PROVE  LET r == Last(recent).packet
                      IN  BookedSoundly(Known.tech, r, EvaluatePerformance(Known.tech, r))
    BY DEF LossBooked
  <2> DEFINE r == Last(recent).packet
  <2>1. r \in Packets
    <3>1. recent \in Seq(Entries) /\ Len(recent) \in Nat /\ Len(recent) # 0
      BY EmptySeq DEF ConditionInv
    <3>2. Last(recent) = recent[Len(recent)] /\ recent[Len(recent)] \in Entries
      BY <3>1 DEF Last
    <3> QED BY <3>2 DEF Entries
  <2>2. Known.tech \in {"SOLAR", "WIND", "BESS"}
    BY ConditionAssumption, RatingIs DEF ConditionInv, Known
  <2> DEFINE tech == Known.tech
  <2> HIDE DEF r, tech
  <2>3. /\ tech = "SOLAR" => EvaluatePerformance(tech, r) = EvaluateSolar(r)
        /\ tech = "WIND" => EvaluatePerformance(tech, r) = EvaluateWind(r)
        /\ tech = "BESS" => EvaluatePerformance(tech, r) = EvaluateBess(r)
    BY DEF EvaluatePerformance
  <2>4. BookedSoundly(tech, r, EvaluatePerformance(tech, r))
    <3>1. CASE tech = "SOLAR"
      BY <2>1, <2>3, <3>1, SolarBooked
    <3>2. CASE tech = "WIND"
      BY <2>1, <2>3, <3>2, WindBooked
    <3>3. CASE tech = "BESS"
      BY <2>1, <2>3, <3>3, BessBooked
    <3> QED BY <2>2, <3>1, <3>2, <3>3 DEF tech
  <2> QED BY <2>4 DEF r, tech
<1> QED BY <1>1, <1>2, PTL
=============================================================================
