-------------------------- MODULE OrchestratorProofs --------------------------
(***************************************************************************)
(* What the views, the alerts, the orders and the audit trail of the       *)
(* application say of the packets that arrived, for any assets, scores,    *)
(* findings and lengths of history, wherever packets stop and however      *)
(* people's calls fall between them; and, before that, that the adaptive   *)
(* engine stays within its guardrail among all other calls.                *)
(*                                                                         *)
(* None of it is one handler's doing: process_telemetry_packet writes five *)
(* stores in a row and may stop after each, and every other call changes   *)
(* one of them alone.  OInv says of each store which packets it speaks of. *)
(***************************************************************************)
EXTENDS Orchestrator, FiniteSetTheorems, TLAPS

-----------------------------------------------------------------------------
(* The guardrail of the adaptive engine, whatever packets, alerts, orders   *)
(* and decisions come in between.                                           *)

(* The trail has an entry for every resource.                               *)
TrailTypeOK == trail = [r \in Resources |-> trail[r]]

AInv == AdaptiveTypeOK /\ TrailTypeOK /\ InForceAuthorised

(* A call of another engine: it may add to the trail, never about an        *)
(* adaptation.                                                              *)
Elsewhere ==
  /\ UNCHANGED adapt
  /\ TrailTypeOK'
  /\ \A i \in ActionIds : trail'[i] = trail[i]

-----------------------------------------------------------------------------
(* Rounding.                                                                *)

(* Nearest stays within half a unit of the quotient.                        *)
LEMMA NearestBounds ==
  ASSUME NEW x \in Int, NEW d \in Int, d > 0
  PROVE  /\ Nearest(x, d) \in Int
         /\ 2 * d * Nearest(x, d) <= 2 * x + d
         /\ 2 * x + d < 2 * d * Nearest(x, d) + 2 * d
<1> DEFINE n == 2 * x + d
           e == 2 * d
<1>1. n \in Int /\ e \in Int /\ e > 0
  OBVIOUS
<1>2. n \div e \in Int /\ e * (n \div e) <= n /\ n < e * (n \div e) + e
  <2> HIDE DEF n, e
  <2> QED BY <1>1
<1> QED BY <1>2 DEF Nearest

(* The shift is divided by a positive magnitude.                            *)
LEMMA BaseType == ASSUME NEW c \in Int PROVE Base(c) \in Int /\ Base(c) > 0
BY DEF Base, Magnitude

(* What RequiresHitl lets pass is within a tenth and half the last digit of *)
(* the rounded percentage.                                                  *)
LEMMA WithinGuardrail ==
  ASSUME NEW c \in Int, NEW v \in Int, ~ RequiresHitl(c, v)
  PROVE  Magnitude(v - c) * 100000 <= Base(c) * 10005
<1> DEFINE x == (v - c) * 10000
           d == Base(c)
           q == Nearest(x, d)
<1>1. x \in Int /\ d \in Int /\ d > 0
  BY BaseType
<1>2. q \in Int /\ 2 * d * q <= 2 * x + d /\ 2 * x + d < 2 * d * q + 2 * d
  <2> HIDE DEF d, x
  <2> QED BY <1>1, NearestBounds
<1>3. q <= 1000 /\ q >= -1000
  BY <1>2 DEF RequiresHitl, PercentShift, Magnitude
<1>4. d * q <= d * 1000 /\ d * q >= -(d * 1000)
  <2> HIDE DEF d, q, x
  <2> QED BY <1>1, <1>2, <1>3
<1>5. 2 * x <= 2001 * d /\ 2 * x >= -(2001 * d)
  <2> HIDE DEF d, q, x
  <2>1. 2 * d * q = 2 * (d * q)
    BY <1>1, <1>2
  <2> QED BY <1>1, <1>2, <1>4, <2>1
<1> QED BY <1>1, <1>5 DEF Magnitude

-----------------------------------------------------------------------------
(* Proposals.                                                               *)

(* Every proposal keeps the invariant, whatever it is measured from.        *)
LEMMA ProposalKeeps ==
  ASSUME AInv, AdaptiveAssumption, NEW i \in ActionIds, NEW a \in Assets, NEW kind \in Kinds,
         NEW c \in Int, NEW v \in Int, ProposeAdaptation(i, a, kind, c, v)
  PROVE  AInv'
<1> DEFINE hitl == RequiresHitl(c, v)
           p    == [asset |-> a, kind |-> kind, previous |-> c, adapted |-> v,
                    hitl |-> hitl, by |-> NoOne,
                    status |-> IF hitl THEN "PENDING_HITL_APPROVAL" ELSE "ACTIVE"]
<1>1. /\ adaptation[i].status = "NONE"
      /\ adaptation' = [adaptation EXCEPT ![i] = p]
      /\ IF hitl THEN UNCHANGED <<multiplier, threshold>> ELSE Apply(p)
      /\ trail' = [trail EXCEPT ![i] = IF hitl THEN "ADAPTATION_PROPOSED_PENDING_HITL_APPROVAL"
                                               ELSE "ADAPTATION_PROPOSED_ACTIVE"]
  BY DEF ProposeAdaptation, Record
<1>2. hitl \in BOOLEAN
  BY DEF RequiresHitl
<1> HIDE DEF hitl
<1>3. p \in Adaptation
  BY <1>2 DEF Adaptation
<1>4. AdaptiveTypeOK'
  BY <1>1, <1>3 DEF AInv, AdaptiveTypeOK, Apply
<1>5. TrailTypeOK'
  BY <1>1 DEF AInv, TrailTypeOK
<1>6. \A b \in Assets, k \in Kinds : Active(b, k) \subseteq Active(b, k)'
  BY <1>1 DEF AInv, AdaptiveTypeOK, Active
<1>7. ~ hitl => v \in Active(a, kind)'
  BY <1>1 DEF AInv, AdaptiveTypeOK, Active
<1>8. \A b \in Assets :
        /\ multiplier'[b] \in Active(b, "BASELINE_DRIFT")' \cup {10000}
        /\ threshold'[b] \in Active(b, "DYNAMIC_THRESHOLD")' \cup {BaseThreshold}
  BY <1>1, <1>6, <1>7 DEF AInv, AdaptiveTypeOK, InForceAuthorised, Apply, Kinds
<1>9. ActionIds \subseteq Resources /\ NoOne \notin Authorised
  BY DEF AdaptiveAssumption, Roles, Authorised
<1>10. \A j \in ActionIds :
         /\ adaptation'[j].hitl /\ adaptation'[j].status = "ACTIVE"
              => adaptation'[j].by \in Authorised
         /\ adaptation'[j].by \in Authorised <=> trail'[j] = "ADAPTATION_APPROVED_HITL"
         /\ adaptation'[j].by # NoOne => adaptation'[j].by \in Authorised
  <2> TAKE j \in ActionIds
  <2>1. CASE j # i
    BY <2>1, <1>1, <1>9 DEF AInv, AdaptiveTypeOK, TrailTypeOK, InForceAuthorised
  <2>2. CASE j = i
    <3>1. adaptation'[i] = p
      BY <1>1 DEF AInv, AdaptiveTypeOK
    <3>2. trail'[i] # "ADAPTATION_APPROVED_HITL"
      BY <1>1, <1>9 DEF AInv, TrailTypeOK
    <3> QED BY <2>2, <3>1, <3>2, <1>9
  <2> QED BY <2>1, <2>2
<1> QED BY <1>4, <1>5, <1>8, <1>10 DEF AInv, InForceAuthorised

(* A step within the guardrail at every asset.                              *)
Within == \A b \in Assets : Magnitude(multiplier'[b] - multiplier[b]) * 100000
                              <= Base(multiplier[b]) * 10005

(* A step within the guardrail needs no approval.                           *)
LEMMA WithinSuffices == ASSUME AInv, AInv', Within PROVE Guardrail
<1> SUFFICES ASSUME NEW b \in Assets
             PROVE  ~ (Magnitude(multiplier'[b] - multiplier[b]) * 100000
                         > Base(multiplier[b]) * 10005)
  BY DEF Guardrail
<1>1. multiplier[b] \in Int /\ multiplier'[b] \in Int
  BY DEF AInv, AdaptiveTypeOK
<1>2. Magnitude(multiplier'[b] - multiplier[b]) \in Int /\ Base(multiplier[b]) \in Int
  BY <1>1, BaseType DEF Magnitude
<1> QED BY <1>2 DEF Within

(* A step that leaves the multipliers alone is within it.                   *)
LEMMA StillWithin == ASSUME AInv, multiplier' = multiplier PROVE Within
<1> SUFFICES ASSUME NEW b \in Assets
             PROVE  Magnitude(multiplier'[b] - multiplier[b]) * 100000
                      <= Base(multiplier[b]) * 10005
  BY DEF Within
<1>1. multiplier[b] \in Int /\ Base(multiplier[b]) \in Int /\ Base(multiplier[b]) > 0
  BY BaseType DEF AInv, AdaptiveTypeOK
<1>2. Magnitude(multiplier'[b] - multiplier[b]) = 0
  BY <1>1 DEF Magnitude
<1> QED BY <1>1, <1>2

(* A proposal that takes effect is within the guardrail of the value it was *)
(* measured from; the multiplier's is measured from the one in force.       *)
LEMMA ProposalWithin ==
  ASSUME AInv, AdaptiveAssumption, NEW i \in ActionIds, NEW a \in Assets, NEW kind \in Kinds,
         NEW c \in Int, NEW v \in Int, ProposeAdaptation(i, a, kind, c, v),
         kind = "BASELINE_DRIFT" => c = multiplier[a]
  PROVE  Within
<1>1. CASE multiplier' = multiplier
  BY <1>1, StillWithin
<1>2. CASE multiplier' # multiplier
  <2>1. /\ ~ RequiresHitl(c, v)
        /\ c = multiplier[a]
        /\ multiplier' = [multiplier EXCEPT ![a] = v]
    BY <1>2 DEF ProposeAdaptation, Apply
  <2>2. Magnitude(v - c) * 100000 <= Base(c) * 10005
    BY <2>1, WithinGuardrail
  <2> SUFFICES ASSUME NEW b \in Assets
               PROVE  Magnitude(multiplier'[b] - multiplier[b]) * 100000
                        <= Base(multiplier[b]) * 10005
    BY DEF Within
  <2>3. CASE b = a
    BY <2>1, <2>2, <2>3 DEF AInv, AdaptiveTypeOK
  <2>4. CASE b # a
    <3>1. multiplier[b] \in Int /\ multiplier'[b] = multiplier[b]
      BY <2>1, <2>4 DEF AInv, AdaptiveTypeOK
    <3>2. Base(multiplier[b]) \in Int /\ Base(multiplier[b]) > 0
      BY <3>1, BaseType
    <3>3. Magnitude(multiplier'[b] - multiplier[b]) = 0
      BY <3>1 DEF Magnitude
    <3> QED BY <3>2, <3>3
  <2> QED BY <2>3, <2>4
<1> QED BY <1>1, <1>2

(* What the callers pass to propose_adaptation are numbers.                 *)
LEMMA NearestType ==
  ASSUME NEW x \in Int, NEW d \in Int, d > 0 PROVE Nearest(x, d) \in Int
BY NearestBounds

(* ProposeDrift and the two helpers.                                        *)
LEMMA ProposalsSound ==
  ASSUME AInv, AdaptiveAssumption, NEW i \in ActionIds, NEW a \in Assets,
         \/ \E s \in Shifts : ProposeDrift(i, a, s)
         \/ \E r \in Derates : AdaptBaselineForSoiling(i, a, r)
         \/ \E t \in Ambients : AdaptThresholdForClimate(i, a, t)
  PROVE  AInv' /\ Within
<1>1. multiplier[a] \in Int /\ "BASELINE_DRIFT" \in Kinds /\ "DYNAMIC_THRESHOLD" \in Kinds
  BY DEF AInv, AdaptiveTypeOK, Kinds
<1>2. ASSUME NEW s \in Shifts, ProposeDrift(i, a, s) PROVE AInv' /\ Within
  <2>1. Nearest(multiplier[a] * (100 + s), 100) \in Int
    <3>1. s \in Int
      BY DEF AdaptiveAssumption
    <3>2. multiplier[a] * (100 + s) \in Int
      BY <1>1, <3>1
    <3> QED BY <3>2, NearestType
  <2> QED BY <1>1, <1>2, <2>1, ProposalKeeps, ProposalWithin DEF ProposeDrift
<1>3. ASSUME NEW r \in Derates, AdaptBaselineForSoiling(i, a, r) PROVE AInv' /\ Within
  <2>1. Clamp(Nearest(multiplier[a] * r, 100), 7000, 10000) \in Int
    <3>1. r \in Int
      BY DEF AdaptiveAssumption
    <3>2. multiplier[a] * r \in Int
      BY <1>1, <3>1
    <3>3. Nearest(multiplier[a] * r, 100) \in Int
      BY <3>2, NearestType
    <3> QED BY <3>3 DEF Clamp
  <2> QED BY <1>1, <1>3, <2>1, ProposalKeeps, ProposalWithin DEF AdaptBaselineForSoiling
<1>4. ASSUME NEW t \in Ambients, AdaptThresholdForClimate(i, a, t) PROVE AInv' /\ Within
  <2> DEFINE delta == IF t > 2500 THEN t - 2500 ELSE 0
  <2>1. BaseThreshold \in Int /\ delta \in Int
    BY DEF AdaptiveAssumption
  <2>2. BaseThreshold + Clamp(Nearest(delta, 4), 0, 500) \in Int
    <3> HIDE DEF delta
    <3>1. Nearest(delta, 4) \in Int
      BY <2>1, NearestType
    <3> QED BY <2>1, <3>1 DEF Clamp
  <2>3. ProposeAdaptation(i, a, "DYNAMIC_THRESHOLD", BaseThreshold,
                          BaseThreshold + Clamp(Nearest(delta, 4), 0, 500))
    BY <1>4 DEF AdaptThresholdForClimate
  <2> HIDE DEF delta
  <2> QED BY <1>1, <2>1, <2>2, <2>3, ProposalKeeps, ProposalWithin
<1> QED BY <1>2, <1>3, <1>4

-----------------------------------------------------------------------------
(* Approvals, of whatever action at whatever time.                          *)

(* An assignment to one entry of a dictionary, whatever its key.            *)
LEMMA PutOne ==
  ASSUME NEW f \in [Assets -> Int], NEW x, NEW v, NEW b \in Assets
  PROVE  \/ [f EXCEPT ![x] = v][b] = f[b]
         \/ x = b /\ [f EXCEPT ![x] = v][b] = v
OBVIOUS

(* An approval keeps the invariant.                                         *)
LEMMA ApprovalKeeps ==
  ASSUME AInv, AdaptiveAssumption, NEW i \in ActionIds, NEW role \in Roles,
         ApproveAdaptation(i, role)
  PROVE  AInv'
<1> DEFINE p == [adaptation[i] EXCEPT !.status = "ACTIVE", !.by = role]
<1>1. /\ role \in Authorised
      /\ adaptation' = [adaptation EXCEPT ![i] = p]
      /\ Apply(adaptation[i])
      /\ trail' = [trail EXCEPT ![i] = "ADAPTATION_APPROVED_HITL"]
  BY DEF ApproveAdaptation, Record
<1>2. /\ adaptation[i] \in Adaptation /\ p \in Adaptation
      /\ p.asset = adaptation[i].asset /\ p.kind = adaptation[i].kind
      /\ p.adapted = adaptation[i].adapted /\ p.status = "ACTIVE" /\ p.by = role
  BY DEF AInv, AdaptiveTypeOK, Adaptation
<1> HIDE DEF p
<1>3. AdaptiveTypeOK'
  BY <1>1, <1>2 DEF AInv, AdaptiveTypeOK, Apply, Adaptation
<1>4. TrailTypeOK'
  BY <1>1 DEF AInv, TrailTypeOK
<1>5. \A j \in ActionIds :
        /\ adaptation'[j].asset = adaptation[j].asset
        /\ adaptation'[j].kind = adaptation[j].kind
        /\ adaptation'[j].adapted = adaptation[j].adapted
        /\ adaptation[j].status = "ACTIVE" => adaptation'[j].status = "ACTIVE"
  BY <1>1, <1>2 DEF AInv, AdaptiveTypeOK
<1>6. \A b \in Assets, k \in Kinds : Active(b, k) \subseteq Active(b, k)'
  BY <1>5 DEF Active
<1>7. \A b \in Assets :
        /\ multiplier'[b] \in Active(b, "BASELINE_DRIFT")' \cup {10000}
        /\ threshold'[b] \in Active(b, "DYNAMIC_THRESHOLD")' \cup {BaseThreshold}
  <2> TAKE b \in Assets
  <2>1. /\ multiplier[b] \in Active(b, "BASELINE_DRIFT")' \cup {10000}
        /\ threshold[b] \in Active(b, "DYNAMIC_THRESHOLD")' \cup {BaseThreshold}
    BY <1>6 DEF AInv, InForceAuthorised, Kinds
  <2>2. adaptation'[i].status = "ACTIVE"
    BY <1>1, <1>2 DEF AInv, AdaptiveTypeOK
  <2>3. \A k \in Kinds : adaptation[i].asset = b /\ adaptation[i].kind = k
                          => adaptation[i].adapted \in Active(b, k)'
    BY <1>5, <2>2 DEF Active
  <2>4. CASE adaptation[i].kind = "BASELINE_DRIFT"
    <3>1. /\ multiplier' = [multiplier EXCEPT ![adaptation[i].asset] = adaptation[i].adapted]
          /\ threshold' = threshold
      BY <1>1, <2>4 DEF Apply
    <3>2. \/ multiplier'[b] = multiplier[b]
          \/ adaptation[i].asset = b /\ multiplier'[b] = adaptation[i].adapted
      BY <3>1, PutOne DEF AInv, AdaptiveTypeOK
    <3> QED BY <2>1, <2>3, <2>4, <3>1, <3>2 DEF Kinds
  <2>5. CASE adaptation[i].kind = "DYNAMIC_THRESHOLD"
    <3>1. /\ threshold' = [threshold EXCEPT ![adaptation[i].asset] = adaptation[i].adapted]
          /\ multiplier' = multiplier
      BY <1>1, <2>5 DEF Apply
    <3>2. \/ threshold'[b] = threshold[b]
          \/ adaptation[i].asset = b /\ threshold'[b] = adaptation[i].adapted
      BY <3>1, PutOne DEF AInv, AdaptiveTypeOK
    <3> QED BY <2>1, <2>3, <2>5, <3>1, <3>2 DEF Kinds
  <2> QED BY <1>2, <2>4, <2>5 DEF Adaptation, Kinds
<1>8. ActionIds \subseteq Resources
  BY DEF AdaptiveAssumption
<1>9. \A j \in ActionIds :
         /\ adaptation'[j].hitl /\ adaptation'[j].status = "ACTIVE"
              => adaptation'[j].by \in Authorised
         /\ adaptation'[j].by \in Authorised <=> trail'[j] = "ADAPTATION_APPROVED_HITL"
         /\ adaptation'[j].by # NoOne => adaptation'[j].by \in Authorised
  <2> TAKE j \in ActionIds
  <2>1. CASE j # i
    BY <2>1, <1>1, <1>8 DEF AInv, AdaptiveTypeOK, TrailTypeOK, InForceAuthorised
  <2>2. CASE j = i
    <3>1. adaptation'[i].by \in Authorised
      BY <1>1, <1>2 DEF AInv, AdaptiveTypeOK
    <3>2. trail'[i] = "ADAPTATION_APPROVED_HITL"
      BY <1>1, <1>8 DEF AInv, TrailTypeOK
    <3> QED BY <2>2, <3>1, <3>2
  <2> QED BY <2>1, <2>2
<1> QED BY <1>3, <1>4, <1>7, <1>9 DEF AInv, InForceAuthorised

(* The multiplier an approval puts in force is that of an action it signs.  *)
LEMMA ApprovalGuarded ==
  ASSUME AInv, AInv', NEW i \in ActionIds, NEW role \in Roles, ApproveAdaptation(i, role)
  PROVE  Guardrail
<1>1. CASE multiplier' = multiplier
  BY <1>1, StillWithin, WithinSuffices
<1>2. CASE multiplier' # multiplier
  <2>1. multiplier' = [multiplier EXCEPT ![adaptation[i].asset] = adaptation[i].adapted]
    BY <1>2 DEF ApproveAdaptation, Apply
  <2>2. /\ adaptation'[i].by \in Authorised
        /\ adaptation'[i].adapted = adaptation[i].adapted
    BY DEF ApproveAdaptation, AInv, AdaptiveTypeOK, Adaptation
  <2> SUFFICES ASSUME NEW b \in Assets,
                      Magnitude(multiplier'[b] - multiplier[b]) * 100000
                        > Base(multiplier[b]) * 10005
               PROVE  \E j \in ActionIds : /\ adaptation'[j].by \in Authorised
                                           /\ adaptation'[j].adapted = multiplier'[b]
    BY DEF Guardrail
  <2>3. CASE b = adaptation[i].asset
    BY <2>1, <2>2, <2>3 DEF AInv, AdaptiveTypeOK
  <2>4. CASE b # adaptation[i].asset
    <3>1. multiplier[b] \in Int /\ multiplier'[b] = multiplier[b]
      BY <2>1, <2>4 DEF AInv, AdaptiveTypeOK
    <3>2. Base(multiplier[b]) \in Int /\ Base(multiplier[b]) > 0
      BY <3>1, BaseType
    <3>3. Magnitude(multiplier'[b] - multiplier[b]) = 0
      BY <3>1 DEF Magnitude
    <3> QED BY <3>2, <3>3
  <2> QED BY <2>3, <2>4
<1> QED BY <1>1, <1>2

-----------------------------------------------------------------------------
(* Everything else leaves adaptations alone.                                *)

(* A call of another engine keeps the invariant and the guardrail.          *)
LEMMA ElsewhereKeeps ==
  ASSUME AInv, AdaptiveAssumption, Elsewhere
  PROVE  AInv' /\ Guardrail
<1>1. /\ adaptation' = adaptation /\ multiplier' = multiplier /\ threshold' = threshold
      /\ TrailTypeOK' /\ \A i \in ActionIds : trail'[i] = trail[i]
  BY DEF Elsewhere, adapt
<1>2. AdaptiveTypeOK'
  BY <1>1 DEF AInv, AdaptiveTypeOK
<1>3. \A b \in Assets, k \in Kinds : Active(b, k)' = Active(b, k)
  BY <1>1 DEF Active
<1>4. InForceAuthorised'
  BY <1>1, <1>3 DEF AInv, InForceAuthorised, Kinds
<1>5. AInv'
  BY <1>1, <1>2, <1>4 DEF AInv
<1> QED BY <1>1, <1>5, StillWithin, WithinSuffices

(* An audit entry about another resource is such a call.                    *)
LEMMA RecordElsewhere ==
  ASSUME AInv, NEW r \in Resources \ ActionIds, NEW e, Record(r, e), UNCHANGED adapt
  PROVE  Elsewhere
<1>1. TrailTypeOK' /\ \A i \in ActionIds : trail'[i] = trail[i]
  BY DEF AInv, TrailTypeOK, Record, AdaptiveTypeOK
<1> QED BY <1>1 DEF Elsewhere

(* The resources of the other engines are no adaptations.                   *)
LEMMA OtherResources ==
  ASSUME OrchestratorAssumption, GovernanceAssumption
  PROVE  /\ AlertIds \cup OrderIds \cup DecisionIds \cup Models \cup Settings \cup Assets
              \subseteq Resources \ ActionIds
BY DEF OrchestratorAssumption, GovernanceAssumption

(* So is a packet: it audits the alerts it raises and the decision it takes.*)
LEMMA PacketElsewhere ==
  ASSUME AInv, OrchestratorAssumption, AdaptiveAssumption, PacketNext
  PROVE  Elsewhere
<1>1. PICK a \in Assets, score \in Scores, fs \in FindingSets, stop \in 1..Len(Stops) + 1 :
        \E id \in [SeriousKinds([asset |-> a, score |-> score, findings |-> fs, stop |-> stop])
                      -> AlertIds], o \in OrderIds, d \in DecisionIds :
          ProcessTelemetryPacket([asset |-> a, score |-> score, findings |-> fs, stop |-> stop],
                                 id, o, d)
  BY DEF PacketNext
<1> DEFINE p == [asset |-> a, score |-> score, findings |-> fs, stop |-> stop]
<1>6. PICK id \in [SeriousKinds(p) -> AlertIds], o \in OrderIds, d \in DecisionIds :
         ProcessTelemetryPacket(p, id, o, d)
  BY <1>1
<1> HIDE DEF p
<1>2. UNCHANGED adapt
  BY <1>6 DEF ProcessTelemetryPacket
<1>3. AuditPacket(p, id, d) \/ UNCHANGED trail
  BY <1>6 DEF ProcessTelemetryPacket
<1>4. CASE UNCHANGED trail
  BY <1>2, <1>4 DEF Elsewhere, AInv, TrailTypeOK
<1>5. CASE AuditPacket(p, id, d)
  <2>1. TrailTypeOK'
    BY <1>5 DEF AuditPacket, TrailTypeOK
  <2>2. ASSUME NEW i \in ActionIds PROVE trail'[i] = trail[i]
    <3>1. i \in Resources /\ i \notin AlertIds /\ i # d
      BY DEF OrchestratorAssumption, AdaptiveAssumption
    <3>2. \A k \in NewKinds(p) : id[k] # i
      BY <1>6, <3>1 DEF NewKinds
    <3> QED BY <1>5, <3>1, <3>2 DEF AuditPacket
  <2> QED BY <1>2, <2>1, <2>2 DEF Elsewhere
<1> QED BY <1>3, <1>4, <1>5

(* So are the calls about alerts, orders and reports,                       *)
LEMMA PeopleElsewhere ==
  ASSUME AInv, OrchestratorAssumption, GovernanceAssumption, PeopleNext
  PROVE  Elsewhere
<1>1. ASSUME NEW i \in AlertIds, AcknowledgeAlert(i) \/ ResolveAlert(i) PROVE Elsewhere
  BY <1>1, RecordElsewhere, OtherResources DEF AcknowledgeAlert, ResolveAlert, engines
<1>2. ASSUME NEW o \in OrderIds,
             \/ ApproveOrder(o) \/ DispatchOrder(o) \/ CompleteOrder(o)
             \/ CloseOrder(o) \/ ReserveParts(o)
      PROVE  Elsewhere
  BY <1>2, RecordElsewhere, OtherResources
     DEF ApproveOrder, DispatchOrder, CompleteOrder, CloseOrder, ReserveParts, Handle, engines
<1>3. ASSUME NEW a \in Assets, GenerateExecutiveReport(a) PROVE Elsewhere
  BY <1>3, RecordElsewhere, OtherResources DEF GenerateExecutiveReport, engines
<1> QED BY <1>1, <1>2, <1>3 DEF PeopleNext

(* those of governance,                                                     *)
LEMMA GovernanceElsewhere ==
  ASSUME AInv, OrchestratorAssumption, GovernanceAssumption, GovernanceNext, UNCHANGED adapt
  PROVE  Elsewhere
BY RecordElsewhere, OtherResources
   DEF GovernanceNext, RegisterModelVersion, RecordHumanDecision, RecordConfigChange

(* and the registration of assets and twins.                                *)
LEMMA RegistrationsElsewhere ==
  ASSUME AInv, Registrations PROVE Elsewhere
BY DEF Registrations, RegisterAsset, RegisterTwin, engines, Elsewhere, AInv, TrailTypeOK

-----------------------------------------------------------------------------

(* The invariant holds at start.                                            *)
LEMMA AInvInit == ASSUME AdaptiveAssumption, Init PROVE AInv
<1>1. NoOne \notin Authorised
  BY DEF AdaptiveAssumption, Roles, Authorised
<1>2. NoAdaptation \in Adaptation
  BY DEF NoAdaptation, Adaptation, Kinds
<1>3. AdaptiveTypeOK
  BY <1>2 DEF Init, AdaptiveInit, AdaptiveTypeOK, AdaptiveAssumption
<1>4. TrailTypeOK
  BY DEF Init, TrailInit, TrailTypeOK
<1>5. InForceAuthorised
  <2>1. \A i \in ActionIds : adaptation[i] = NoAdaptation /\ trail[i] = "NONE"
    BY DEF Init, AdaptiveInit, TrailInit, AdaptiveAssumption
  <2> QED BY <1>1, <2>1 DEF InForceAuthorised, Init, AdaptiveInit, NoAdaptation
<1> QED BY <1>3, <1>4, <1>5 DEF AInv

(* Every step of the application keeps the invariant and the guardrail.     *)
LEMMA EveryStep ==
  ASSUME AInv, AdaptiveAssumption, GovernanceAssumption, OrchestratorAssumption, [Next]_vars
  PROVE  AInv' /\ [Guardrail]_<<adapt, trail>>
<1>1. CASE AdaptiveNext
  <2>1. ASSUME NEW i \in ActionIds, NEW a \in Assets,
               \/ \E s \in Shifts : ProposeDrift(i, a, s)
               \/ \E r \in Derates : AdaptBaselineForSoiling(i, a, r)
               \/ \E t \in Ambients : AdaptThresholdForClimate(i, a, t)
        PROVE  AInv' /\ Guardrail
    BY <2>1, ProposalsSound, WithinSuffices
  <2>2. ASSUME NEW i \in ActionIds, NEW r \in Roles, ApproveAdaptation(i, r)
        PROVE  AInv' /\ Guardrail
    BY <2>2, ApprovalKeeps, ApprovalGuarded
  <2> QED BY <1>1, <2>1, <2>2 DEF AdaptiveNext
<1>2. CASE PacketNext
  BY <1>2, PacketElsewhere, ElsewhereKeeps
<1>3. CASE PeopleNext
  BY <1>3, PeopleElsewhere, ElsewhereKeeps
<1>4. CASE Registrations
  BY <1>4, RegistrationsElsewhere, ElsewhereKeeps
<1>5. CASE GovernanceNext /\ UNCHANGED adapt
  BY <1>5, GovernanceElsewhere, ElsewhereKeeps
<1>6. CASE UNCHANGED vars
  <2>1. UNCHANGED <<adapt, trail>>
    BY <1>6 DEF vars, engines
  <2>2. Elsewhere
    BY <2>1 DEF Elsewhere, AInv, TrailTypeOK
  <2> QED BY <2>2, ElsewhereKeeps
<1> QED BY <1>1, <1>2, <1>3, <1>4, <1>5, <1>6 DEF Next

(* What is in force in the adaptive engine was put there by an action that  *)
(* is ACTIVE, and none beyond the guardrail is ACTIVE unapproved, for every *)
(* order of proposals and approvals among the other calls of the            *)
(* application (AdaptiveIntelligenceEngine).                                *)
THEOREM AdaptationsAuthorised == Spec => []InForceAuthorised
<1>1. Init => AInv
  BY AInvInit, AdaptiveAssumption
<1>2. AInv /\ [Next]_vars => AInv'
  BY EveryStep, AdaptiveAssumption, GovernanceAssumption, OrchestratorAssumption
<1>3. AInv => InForceAuthorised
  BY DEF AInv
<1> QED BY <1>1, <1>2, <1>3, PTL DEF Spec

(* No step of the application moves a multiplier by more than a tenth       *)
(* unless it is an approval (propose_adaptation, approve_adaptation).       *)
THEOREM GuardrailKept == Spec => GuardrailHolds
<1>1. Init => AInv
  BY AInvInit, AdaptiveAssumption
<1>2. AInv /\ [Next]_vars => AInv' /\ [Guardrail]_<<adapt, trail>>
  BY EveryStep, AdaptiveAssumption, GovernanceAssumption, OrchestratorAssumption
<1> QED BY <1>1, <1>2, PTL DEF Spec, GuardrailHolds

-----------------------------------------------------------------------------
(* The stores of the application.                                           *)

PacketSet == [asset : Assets, score : Scores, findings : FindingSets, stop : 1..Len(Stops) + 1]
KindSet   == {""} \cup {f[1] : f \in UNION FindingSets}
Row       == [at : Nat, health : Int]

StoreTypes ==
  /\ packets \in Seq(PacketSet)
  /\ assets \in [Assets -> Int]
  /\ latest \in [Assets -> Nat]
  /\ health \in [Assets -> [at : Nat, score : Int]]
  /\ twin \in [Assets -> [present : BOOLEAN, at : Nat, health : Int, history : Seq(Row)]]
  /\ alerts \in [AlertIds -> [packet : Nat, kind : KindSet, severity : Severities,
                              status : {"NONE", "ACTIVE", "ACKNOWLEDGED", "RESOLVED"}]]
  /\ order \in [OrderIds -> [packet : Nat,
                             status : {"NONE", "PENDING_HITL_APPROVAL", "APPROVED", "DISPATCHED",
                                       "COMPLETED", "CLOSED"}]]
  /\ decision \in [DecisionIds -> [packet : Nat \cup {NoPacket}, digest : Digests \cup {Fallback},
                                   outcome : Outcomes \cup {"NONE", "PENDING_REVIEW"}]]
  /\ model \in [Models -> Digests \cup {Fallback}]
  /\ changed \subseteq Settings

-----------------------------------------------------------------------------
(* A packet.                                                                *)

(* Where a packet stopped, as a number, decides which stages it passed.     *)
LEMMA PassesMeans ==
  ASSUME NEW p \in PacketSet
  PROVE  /\ Passes(p, "twin") <=> p.stop > 2
         /\ Passes(p, "technology") <=> p.stop > 3
         /\ Passes(p, "detection") <=> p.stop > 4
         /\ p.stop \in Int
<1>1. /\ Len(Stops) = 4 /\ Stops[1] = "numbers" /\ Stops[2] = "twin"
      /\ Stops[3] = "technology" /\ Stops[4] = "detection"
  BY DEF Stops
<1>2. p.stop \in Int
  BY <1>1 DEF PacketSet
<1>3. \A k \in 1..Len(Stops) : k = 1 \/ k = 2 \/ k = 3 \/ k = 4
  BY <1>1
<1>4. {1, 2, 3, 4} \subseteq 1..Len(Stops)
  BY <1>1
<1> QED BY <1>1, <1>2, <1>3, <1>4 DEF Passes

(* The packet's step, with its choices named and typed.                     *)
LEMMA PacketIs ==
  ASSUME PacketNext
  PROVE  \E p \in PacketSet :
           \E id \in [SeriousKinds(p) -> AlertIds], o \in OrderIds, d \in DecisionIds :
             /\ \A j, k \in SeriousKinds(p) : id[j] = id[k] => j = k
             /\ ProcessTelemetryPacket(p, id, o, d)
<1>1. PICK a \in Assets, score \in Scores, fs \in FindingSets, stop \in 1..Len(Stops) + 1 :
        \E id \in [SeriousKinds([asset |-> a, score |-> score, findings |-> fs, stop |-> stop])
                      -> AlertIds], o \in OrderIds, d \in DecisionIds :
          /\ \A j, k \in SeriousKinds([asset |-> a, score |-> score, findings |-> fs,
                                       stop |-> stop]) : id[j] = id[k] => j = k
          /\ ProcessTelemetryPacket([asset |-> a, score |-> score, findings |-> fs, stop |-> stop],
                                    id, o, d)
  BY DEF PacketNext
<1> DEFINE p == [asset |-> a, score |-> score, findings |-> fs, stop |-> stop]
<1>2. p \in PacketSet
  BY DEF PacketSet
<1>3. \E id \in [SeriousKinds(p) -> AlertIds], o \in OrderIds, d \in DecisionIds :
        /\ \A j, k \in SeriousKinds(p) : id[j] = id[k] => j = k
        /\ ProcessTelemetryPacket(p, id, o, d)
  BY <1>1
<1> HIDE DEF p
<1> QED BY <1>2, <1>3

(* What a packet carries.                                                   *)
LEMMA PacketFields ==
  ASSUME OrchestratorAssumption, NEW p \in PacketSet
  PROVE  /\ p.asset \in Assets /\ p.score \in Scores /\ p.score \in Int
         /\ p.findings \in FindingSets
<1>1. p.asset \in Assets /\ p.score \in Scores /\ p.findings \in FindingSets
  BY DEF PacketSet
<1>2. \A x \in Scores : x \in Int
  BY DEF OrchestratorAssumption
<1> QED BY <1>1, <1>2, Zenon

(* The packets are one longer; those before keep their numbers.             *)
LEMMA PacketsGrow ==
  ASSUME packets \in Seq(PacketSet), NEW p \in PacketSet, packets' = Append(packets, p)
  PROVE  /\ Len(packets) \in Nat /\ packets' \in Seq(PacketSet) /\ Len(packets') = Len(packets) + 1
         /\ DOMAIN packets = 1..Len(packets) /\ DOMAIN packets' = 1..Len(packets) + 1
         /\ packets'[Len(packets) + 1] = p
         /\ \A k \in DOMAIN packets : packets'[k] = packets[k] /\ packets[k] \in PacketSet
OBVIOUS

-----------------------------------------------------------------------------
(* The views.                                                               *)

(* The last of a set of numbers.                                            *)
LastIn(ns) == IF ns = {} THEN 0 ELSE CHOOSE n \in ns : \A k \in ns : k <= n

(* A largest number of a set is what LastIn returns.                        *)
LEMMA LastInIs ==
  ASSUME NEW ns, ns \subseteq Nat, NEW n \in ns, \A k \in ns : k <= n
  PROVE  LastIn(ns) = n
<1>1. ASSUME NEW m \in ns, \A k \in ns : k <= m PROVE m = n
  <2>1. m <= n /\ n <= m /\ m \in Nat /\ n \in Nat
    BY <1>1
  <2> QED BY <2>1
<1>2. (CHOOSE m \in ns : \A k \in ns : k <= m) = n
  BY <1>1
<1> QED BY <1>2 DEF LastIn

Arrived(a)  == {n \in DOMAIN packets : n > 0 /\ packets[n].asset = a}
Scorings(a) == {n \in DOMAIN packets : n > assets[a] /\ packets[n].asset = a /\ Scored(packets[n])}

(* The models' LastOf counts what Arrived and Scorings collect.             *)
LEMMA LastOfIs ==
  \A a \in Assets : /\ LastOf(a, 0, LAMBDA p : TRUE) = LastIn(Arrived(a))
                    /\ LastOf(a, assets[a], Scored) = LastIn(Scorings(a))
BY DEF LastOf, LastIn, Arrived, Scorings

(* LastIn reads the state through its argument only.                        *)
LEMMA LastInPrime ==
  ASSUME NEW a
  PROVE  /\ LastIn(Arrived(a))' = LastIn(Arrived(a)')
         /\ LastIn(Scorings(a))' = LastIn(Scorings(a)')
BY DEF LastIn

ViewsInv ==
  \A a \in Assets :
    /\ assets[a] \in -1..Len(packets)
    /\ latest[a] <= Len(packets)
    /\ health[a].at <= Len(packets) /\ health[a].score \in Scores \cup {100}
    /\ latest[a] = LastIn(Arrived(a))
    /\ health[a].at = LastIn(Scorings(a))
    /\ health[a].at = 0 => health[a].score = 100
    /\ health[a].at # 0 => /\ health[a].at \in DOMAIN packets
                           /\ health[a].score = packets[health[a].at].score
    /\ twin[a].at <= Len(packets)
    /\ twin[a].present /\ twin[a].at # 0 => twin[a].at >= health[a].at /\ twin[a].at <= latest[a]

(* The health a row will be followed by, seen from the packets "ps".        *)
Follows(ps, row) == IF Scored(ps[row.at]) THEN ps[row.at].score ELSE row.health

(* A history of which every row led to the next, and the last to health x.  *)
HistoryOK(ps, h, x) ==
  /\ Len(h) <= MaxHistory
  /\ \A k \in DOMAIN h : h[k].at \in DOMAIN ps
  /\ \A k \in 2..Len(h) : h[k].health = Follows(ps, h[k - 1])
  /\ h # <<>> => x = Follows(ps, h[Len(h)])

HistoryInv == \A a \in Assets : HistoryOK(packets, twin[a].history, twin[a].health)

(* A packet moves telemetry, twin and health of its asset on, each as far   *)
(* as it got, and those of no other asset.                                  *)
LEMMA PacketViews ==
  ASSUME OrchestratorAssumption, StoreTypes, ViewsInv, NEW p \in PacketSet,
         packets' = Append(packets, p), ShowTelemetry(p, Len(packets) + 1),
         UpdateTwin(p, Len(packets) + 1), ScoreAsset(p, Len(packets) + 1), assets' = assets
  PROVE  ViewsInv'
<1> DEFINE n == Len(packets) + 1
<1>1. /\ n \in Nat /\ n > 0 /\ Len(packets') = n
      /\ DOMAIN packets = 1..n - 1 /\ DOMAIN packets' = 1..n /\ packets'[n] = p
      /\ \A k \in DOMAIN packets : packets'[k] = packets[k] /\ packets[k] \in PacketSet
  BY PacketsGrow DEF StoreTypes
<1>2. /\ p.asset \in Assets /\ p.score \in Scores /\ Scores \subseteq Int
      /\ Passes(p, "technology") => Passes(p, "twin")
  BY PassesMeans DEF PacketSet, OrchestratorAssumption
<1>3. /\ latest' = [latest EXCEPT ![p.asset] = n]
      /\ health' = IF Scored(p) THEN [health EXCEPT ![p.asset] = [at |-> n, score |-> p.score]]
                                ELSE health
  BY DEF ShowTelemetry, ScoreAsset, Scored
<1>4. /\ \A a \in Assets : twin'[a].present = twin[a].present
      /\ \A a \in Assets : a # p.asset => twin'[a].at = twin[a].at
      /\ TwinReached(p) => twin'[p.asset].at = n
      /\ ~ TwinReached(p) => twin' = twin
  BY <1>2 DEF UpdateTwin, StoreTypes
<1>5. StoreTypes /\ ViewsInv
  OBVIOUS
<1> HIDE DEF n
<1> SUFFICES ASSUME NEW a \in Assets
             PROVE  /\ assets'[a] \in -1..n
                    /\ latest'[a] <= n
                    /\ health'[a].at <= n /\ health'[a].score \in Scores \cup {100}
                    /\ latest'[a] = LastIn(Arrived(a)')
                    /\ health'[a].at = LastIn(Scorings(a)')
                    /\ health'[a].at = 0 => health'[a].score = 100
                    /\ health'[a].at # 0 => /\ health'[a].at \in DOMAIN packets'
                                            /\ health'[a].score = packets'[health'[a].at].score
                    /\ twin'[a].at <= n
                    /\ twin'[a].present /\ twin'[a].at # 0
                         => twin'[a].at >= health'[a].at /\ twin'[a].at <= latest'[a]
  BY <1>1 DEF ViewsInv, LastIn
<1>6. /\ assets[a] \in -1..n - 1 /\ latest[a] \in Nat /\ latest[a] <= n - 1
      /\ health[a].at \in Nat /\ health[a].at <= n - 1 /\ health[a].score \in Scores \cup {100}
      /\ latest[a] = LastIn(Arrived(a)) /\ health[a].at = LastIn(Scorings(a))
      /\ health[a].at = 0 => health[a].score = 100
      /\ health[a].at # 0 => /\ health[a].at \in DOMAIN packets
                             /\ health[a].score = packets[health[a].at].score
      /\ twin[a].at \in Nat /\ twin[a].at <= n - 1
      /\ twin[a].present /\ twin[a].at # 0 => twin[a].at >= health[a].at /\ twin[a].at <= latest[a]
  <2>1. Len(packets) = n - 1
    BY <1>1 DEF n
  <2> QED BY <2>1, <1>5 DEF StoreTypes, ViewsInv
<1>7. Arrived(a)' = IF a = p.asset THEN Arrived(a) \cup {n} ELSE Arrived(a)
  BY <1>1 DEF Arrived
<1>8. Scorings(a)' = IF a = p.asset /\ Scored(p) THEN Scorings(a) \cup {n} ELSE Scorings(a)
  BY <1>1, <1>6 DEF Scorings, Scored, Passes
<1>9. \A k \in Arrived(a) \cup Scorings(a) : k \in Nat /\ k <= n
  BY <1>1 DEF Arrived, Scorings
<1>10. /\ LastIn(Arrived(a) \cup {n}) = n
       /\ LastIn(Scorings(a) \cup {n}) = n
  BY <1>1, <1>9, LastInIs
<1>11. CASE a # p.asset
  <2>1. latest'[a] = latest[a] /\ health'[a] = health[a] /\ twin'[a].at = twin[a].at
        /\ twin'[a].present = twin[a].present
    BY <1>3, <1>4, <1>5, <1>11 DEF StoreTypes
  <2> QED BY <1>1, <1>6, <1>7, <1>8, <1>11, <2>1
<1>12. CASE a = p.asset
  <2>1. latest'[a] = n /\ latest'[a] = LastIn(Arrived(a)')
    BY <1>3, <1>5, <1>7, <1>10, <1>12 DEF StoreTypes
  <2>2. CASE Scored(p)
    <3>1. /\ health'[a].at = n /\ health'[a].score = p.score
          /\ health'[a].at = LastIn(Scorings(a)')
      BY <1>3, <1>5, <1>8, <1>10, <1>12, <2>2 DEF StoreTypes
    <3>2. twin'[a].present => twin'[a].at = n
      BY <1>2, <1>4, <1>12, <2>2 DEF Scored, TwinReached
    <3>3. twin'[a].at = n \/ twin'[a].at = twin[a].at
      BY <1>4, <1>12
    <3>4. packets'[n] = p /\ n \in DOMAIN packets' /\ n # 0
      BY <1>1
    <3>5. p.score \in Scores \cup {100}
      BY <1>2
    <3> QED BY <1>1, <1>6, <1>12, <2>1, <3>1, <3>2, <3>3, <3>4, <3>5
  <2>3. CASE ~ Scored(p)
    <3>1. health'[a] = health[a]
      BY <1>3, <2>3
    <3>2. twin'[a].at = n \/ twin'[a].at = twin[a].at
      BY <1>4, <1>12
    <3>3. twin'[a].present = twin[a].present
      BY <1>4
    <3> QED BY <1>1, <1>6, <1>8, <1>12, <2>1, <2>3, <3>1, <3>2, <3>3
  <2> QED BY <2>2, <2>3
<1> QED BY <1>11, <1>12

(* A history that is cut at its length keeps its newest rows in order.      *)
LEMMA TrimIs ==
  ASSUME NEW h \in Seq(Row), NEW r \in Row, Len(h) <= MaxHistory, MaxHistory \in Nat \ {0}
  PROVE  LET t == Trim(Append(h, r)) IN
         /\ t \in Seq(Row) /\ t # <<>> /\ Len(t) <= MaxHistory /\ t[Len(t)] = r
         /\ \/ t = Append(h, r)
            \/ /\ h # <<>> /\ Len(t) = Len(h)
               /\ \A k \in 1..Len(h) - 1 : t[k] = h[k + 1]
<1> DEFINE u == Append(h, r)
<1>1. /\ u \in Seq(Row) /\ Len(u) = Len(h) + 1 /\ Len(h) \in Nat /\ u[Len(h) + 1] = r
      /\ \A k \in 1..Len(h) : u[k] = h[k]
  OBVIOUS
<1> HIDE DEF u
<1>2. CASE Len(u) > MaxHistory
  <2>1. Trim(u) = Tail(u)
    BY <1>2 DEF Trim
  <2>2. Len(h) > 0 /\ u # <<>>
    BY <1>1, <1>2
  <2>3. /\ Tail(u) \in Seq(Row) /\ Len(Tail(u)) = Len(h)
        /\ \A k \in 1..Len(h) : Tail(u)[k] = u[k + 1]
    BY <1>1, <2>2
  <2>4. \A k \in 1..Len(h) - 1 : k + 1 \in 1..Len(h)
    BY <1>1
  <2> QED BY <1>1, <2>1, <2>2, <2>3, <2>4 DEF u
<1>3. CASE ~ (Len(u) > MaxHistory)
  BY <1>1, <1>3 DEF Trim, u
<1> QED BY <1>2, <1>3

(* The row a packet adds to a twin's history carries the health that the    *)
(* row before it led to.                                                    *)
LEMMA PacketHistory ==
  ASSUME OrchestratorAssumption, StoreTypes, HistoryInv, NEW p \in PacketSet,
         packets' = Append(packets, p), UpdateTwin(p, Len(packets) + 1)
  PROVE  HistoryInv'
<1> DEFINE n == Len(packets) + 1
           r == HistoryRow(p, n)
           b == p.asset
<1>1. /\ n \in Nat /\ DOMAIN packets = 1..n - 1 /\ DOMAIN packets' = 1..n /\ packets'[n] = p
      /\ \A k \in DOMAIN packets : packets'[k] = packets[k]
  BY PacketsGrow DEF StoreTypes
<1>2. b \in Assets /\ MaxHistory \in Nat \ {0}
  BY DEF PacketSet, OrchestratorAssumption
<1>3. /\ r \in Row /\ r.at = n /\ r.health = twin[b].health
      /\ \A a \in Assets : twin[a].history \in Seq(Row)
  BY <1>1, <1>2 DEF HistoryRow, Row, StoreTypes
<1>4. \A a \in Assets : HistoryOK(packets, twin[a].history, twin[a].health)
  BY DEF HistoryInv
<1>5. ASSUME NEW h \in Seq(Row), NEW x, HistoryOK(packets, h, x)
      PROVE  HistoryOK(packets', h, x)
  <2>1. \A k \in DOMAIN h : h[k].at \in DOMAIN packets
    BY <1>5 DEF HistoryOK
  <2>2. \A k \in DOMAIN h : Follows(packets', h[k]) = Follows(packets, h[k])
    BY <1>1, <2>1 DEF Follows
  <2>3. /\ \A k \in 2..Len(h) : k - 1 \in DOMAIN h
        /\ h # <<>> => Len(h) \in DOMAIN h
    OBVIOUS
  <2>4. \A k \in DOMAIN h : h[k].at \in DOMAIN packets'
    BY <1>1, <2>1
  <2> QED BY <1>5, <2>2, <2>3, <2>4 DEF HistoryOK
<1>6. CASE TwinReached(p)
  <2> DEFINE h == twin[b].history
             t == Trim(Append(h, r))
             x == IF Scored(p) THEN p.score ELSE twin[b].health
  <2>1. /\ twin'[b].history = t /\ twin'[b].health = x
        /\ \A a \in Assets : a # b => twin'[a] = twin[a]
    <3> DEFINE w == [twin[b] EXCEPT !.at = n, !.history = t, !.health = x]
    <3>1. twin' = [twin EXCEPT ![b] = w]
      BY <1>6, Zenon DEF UpdateTwin, Scored
    <3>2. w.history = t /\ w.health = x
      <4> HIDE DEF t, x, n, b
      <4> QED BY <1>2 DEF StoreTypes
    <3> HIDE DEF w, t, x, n, b
    <3> QED BY <1>2, <3>1, <3>2 DEF StoreTypes
  <2>2. /\ t \in Seq(Row) /\ t # <<>> /\ Len(t) <= MaxHistory /\ t[Len(t)] = r
        /\ \/ t = Append(h, r)
           \/ /\ h # <<>> /\ Len(t) = Len(h)
              /\ \A k \in 1..Len(h) - 1 : t[k] = h[k + 1]
    <3>1. h \in Seq(Row) /\ Len(h) <= MaxHistory
      BY <1>2, <1>3, <1>4 DEF HistoryOK
    <3> HIDE DEF r, h
    <3> QED BY <1>2, <1>3, <3>1, TrimIs
  <2>3. HistoryOK(packets', h, twin[b].health) /\ h \in Seq(Row) /\ Len(h) \in Nat
    BY <1>2, <1>3, <1>4, <1>5
  <2>4. /\ h # <<>> => r.health = Follows(packets', h[Len(h)])
        /\ \A k \in 1..Len(h) : h[k].at \in DOMAIN packets'
        /\ \A k \in 2..Len(h) : h[k].health = Follows(packets', h[k - 1])
    BY <1>3, <2>3 DEF HistoryOK
  <2>5. x = Follows(packets', r)
    BY <1>1, <1>3 DEF Follows
  <2> HIDE DEF r, h, t, b, x, n
  <2>6. \A k \in DOMAIN t : t[k].at \in DOMAIN packets'
    <3>1. r.at \in DOMAIN packets'
      BY <1>1, <1>3 DEF n
    <3>2. DOMAIN t = 1..Len(t) /\ Len(t) \in Nat
      BY <2>2
    <3>3. CASE t = Append(h, r)
      BY <2>3, <2>4, <3>1, <3>2, <3>3
    <3>4. CASE /\ h # <<>> /\ Len(t) = Len(h)
               /\ \A j \in 1..Len(h) - 1 : t[j] = h[j + 1]
      <4>1. Len(t) = Len(h) /\ Len(h) \in Nat
        BY <2>3, <3>4
      <4>2. \A k \in 1..Len(h) : k = Len(h) \/ (k \in 1..Len(h) - 1 /\ k + 1 \in 1..Len(h))
        <5>1. \A m \in Nat : \A k \in 1..m : k = m \/ (k \in 1..m - 1 /\ k + 1 \in 1..m)
          OBVIOUS
        <5> QED BY <4>1, <5>1, Zenon
      <4> QED BY <2>2, <2>4, <3>1, <3>2, <3>4, <4>1, <4>2
    <3> QED BY <2>2, <3>3, <3>4
  <2>7. ASSUME NEW k \in 2..Len(t) PROVE t[k].health = Follows(packets', t[k - 1])
    <3>1. CASE t = Append(h, r)
      <4>1. Len(t) = Len(h) + 1 /\ t[Len(h) + 1] = r /\ \A j \in 1..Len(h) : t[j] = h[j]
        BY <2>3, <3>1
      <4>2. k - 1 \in 1..Len(h) /\ t[k - 1] = h[k - 1]
        BY <2>3, <4>1
      <4>3. CASE k = Len(h) + 1
        <5>1. h # <<>> /\ k - 1 = Len(h)
          BY <2>3, <4>3
        <5> QED BY <2>4, <4>1, <4>2, <4>3, <5>1
      <4>4. CASE k # Len(h) + 1
        <5>1. k \in 2..Len(h) /\ k \in 1..Len(h)
          BY <2>3, <4>1, <4>4
        <5> QED BY <2>4, <4>1, <4>2, <5>1
      <4> QED BY <4>3, <4>4
    <3>2. CASE /\ h # <<>> /\ Len(t) = Len(h)
               /\ \A j \in 1..Len(h) - 1 : t[j] = h[j + 1]
      <4>1. k - 1 \in 1..Len(h) - 1 /\ t[k - 1] = h[k]
        <5>1. k - 1 \in 1..Len(h) - 1 /\ (k - 1) + 1 = k
          BY <2>3, <3>2
        <5> QED BY <3>2, <5>1
      <4>2. CASE k = Len(t)
        BY <2>2, <2>4, <3>2, <4>1, <4>2
      <4>3. CASE k # Len(t)
        <5>1. k \in 1..Len(h) - 1 /\ k + 1 \in 2..Len(h) /\ (k + 1) - 1 = k
          BY <2>3, <3>2, <4>3
        <5>2. t[k] = h[k + 1] /\ h[k + 1].health = Follows(packets', h[(k + 1) - 1])
          BY <2>4, <3>2, <5>1
        <5> QED BY <4>1, <5>1, <5>2
      <4> QED BY <4>2, <4>3
    <3> QED BY <2>2, <3>1, <3>2
  <2>8. HistoryOK(packets', t, x)
    BY <2>2, <2>5, <2>6, <2>7 DEF HistoryOK
  <2>9. \A a \in Assets : HistoryOK(packets', twin'[a].history, twin'[a].health)
    BY <1>3, <1>4, <1>5, <2>1, <2>8
  <2> QED BY <2>9 DEF HistoryInv
<1>7. CASE ~ TwinReached(p)
  <2>1. twin' = twin
    BY <1>7 DEF UpdateTwin
  <2> QED BY <1>3, <1>4, <1>5, <2>1 DEF HistoryInv
<1> QED BY <1>6, <1>7

-----------------------------------------------------------------------------
(* The types.                                                               *)

(* The kinds of a packet's findings are kinds of findings there are.        *)
LEMMA KindsTyped ==
  ASSUME NEW p \in PacketSet
  PROVE  /\ NewKinds(p) \subseteq SeriousKinds(p) /\ SeriousKinds(p) \subseteq KindSet
         /\ \A k : AlertSeverity(p, k) \in Severities
<1>1. p.findings \in FindingSets
  BY DEF PacketSet
<1>2. \A f \in p.findings : f \in UNION FindingSets
  BY <1>1
<1> QED BY <1>2 DEF NewKinds, SeriousKinds, KindSet, AlertSeverity, Severities

(* What stage 8 makes of an alert.                                          *)
LEMMA AlertsAfter ==
  ASSUME NEW p, NEW n, NEW id, DispatchAlerts(p, n, id), NEW i \in AlertIds
  PROVE  \/ \E k \in NewKinds(p) :
              /\ id[k] = i /\ alerts[i].status = "NONE"
              /\ alerts'[i] = [packet |-> n, kind |-> k, severity |-> AlertSeverity(p, k),
                               status |-> "ACTIVE"]
         \/ /\ \A k \in NewKinds(p) : id[k] # i
            /\ alerts'[i] = alerts[i]
<1> DEFINE new == \E k \in NewKinds(p) : id[k] = i
           c   == CHOOSE k \in NewKinds(p) : id[k] = i
<1>1. alerts'[i] = IF new THEN [packet |-> n, kind |-> c, severity |-> AlertSeverity(p, c),
                                status |-> "ACTIVE"] ELSE alerts[i]
  BY DEF DispatchAlerts
<1>2. \A k \in NewKinds(p) : alerts[id[k]].status = "NONE"
  BY DEF DispatchAlerts, Open
<1>3. CASE new
  <2>1. c \in NewKinds(p) /\ id[c] = i
    BY <1>3
  <2> HIDE DEF c
  <2> QED BY <1>1, <1>2, <1>3, <2>1
<1>4. CASE ~ new
  BY <1>1, <1>4
<1> QED BY <1>3, <1>4

(* Dispatching alerts writes well-formed alerts.                            *)
LEMMA AlertsTyped ==
  ASSUME StoreTypes, NEW p \in PacketSet, NEW n \in Nat, NEW id, DispatchAlerts(p, n, id)
  PROVE  alerts' \in [AlertIds -> [packet : Nat, kind : KindSet, severity : Severities,
                                   status : {"NONE", "ACTIVE", "ACKNOWLEDGED", "RESOLVED"}]]
<1>1. alerts' = [i \in AlertIds |-> alerts'[i]]
  BY DEF DispatchAlerts
<1>2. ASSUME NEW i \in AlertIds
      PROVE  alerts'[i] \in [packet : Nat, kind : KindSet, severity : Severities,
                             status : {"NONE", "ACTIVE", "ACKNOWLEDGED", "RESOLVED"}]
  <2>1. CASE \E k \in NewKinds(p) :
               alerts'[i] = [packet |-> n, kind |-> k, severity |-> AlertSeverity(p, k),
                             status |-> "ACTIVE"]
    BY <2>1, KindsTyped
  <2>2. CASE alerts'[i] = alerts[i]
    BY <2>2 DEF StoreTypes
  <2> QED BY <2>1, <2>2, AlertsAfter
<1> QED BY <1>1, <1>2

(* Updating a twin writes a well-formed twin.                               *)
LEMMA TwinTyped ==
  ASSUME OrchestratorAssumption, StoreTypes, NEW p \in PacketSet, NEW n \in Nat, UpdateTwin(p, n)
  PROVE  twin' \in [Assets -> [present : BOOLEAN, at : Nat, health : Int, history : Seq(Row)]]
<1> DEFINE b == p.asset
           r == HistoryRow(p, n)
           t == Trim(Append(twin[b].history, r))
           x == IF Passes(p, "technology") THEN p.score ELSE twin[b].health
           w == [twin[b] EXCEPT !.at = n, !.history = t, !.health = x]
<1>1. b \in Assets /\ p.score \in Int /\ MaxHistory \in Nat \ {0}
  BY PacketFields DEF OrchestratorAssumption
<1>2. twin[b] \in [present : BOOLEAN, at : Nat, health : Int, history : Seq(Row)]
  BY <1>1 DEF StoreTypes
<1>3. r \in Row
  BY <1>2 DEF HistoryRow, Row
<1>4. t \in Seq(Row)
  <2> DEFINE u == Append(twin[b].history, r)
  <2>1. u \in Seq(Row) /\ u # <<>>
    BY <1>2, <1>3
  <2>2. Trim(u) \in Seq(Row)
    <3> HIDE DEF u
    <3> QED BY <2>1 DEF Trim
  <2> QED BY <2>2
<1>5. x \in Int
  BY <1>1, <1>2
<1>6. twin' = [twin EXCEPT ![b] = w] \/ twin' = twin
  BY DEF UpdateTwin
<1>7. w \in [present : BOOLEAN, at : Nat, health : Int, history : Seq(Row)]
  <2> HIDE DEF t, x
  <2> QED BY <1>2, <1>4, <1>5
<1> HIDE DEF w, b
<1> QED BY <1>1, <1>6, <1>7 DEF StoreTypes

(* A packet leaves every store well formed.                                 *)
LEMMA PacketTypes ==
  ASSUME OrchestratorAssumption, GovernanceAssumption, StoreTypes, NEW p \in PacketSet,
         NEW id, NEW o \in OrderIds, NEW d \in DecisionIds, ProcessTelemetryPacket(p, id, o, d)
  PROVE  StoreTypes'
<1> DEFINE n == Len(packets) + 1
<1>1. packets' \in Seq(PacketSet) /\ n \in Nat
  BY PacketsGrow DEF ProcessTelemetryPacket, StoreTypes
<1>2. /\ packets' = Append(packets, p) /\ ShowTelemetry(p, n) /\ UpdateTwin(p, n)
      /\ ScoreAsset(p, n) /\ assets' = assets /\ model' = model /\ changed' = changed
      /\ \/ DispatchAlerts(p, n, id) /\ Escalate(p, n, o, d) /\ AuditPacket(p, id, d)
         \/ UNCHANGED <<alerts, order, decision, trail>>
  BY DEF ProcessTelemetryPacket
<1> HIDE DEF n
<1>3. p.asset \in Assets /\ p.score \in Int
  BY PacketFields
<1>4. latest' \in [Assets -> Nat] /\ health' \in [Assets -> [at : Nat, score : Int]]
  BY <1>1, <1>2, <1>3 DEF StoreTypes, ShowTelemetry, ScoreAsset
<1>5. twin' \in [Assets -> [present : BOOLEAN, at : Nat, health : Int, history : Seq(Row)]]
  BY <1>1, <1>2, TwinTyped
<1>6. alerts' \in [AlertIds -> [packet : Nat, kind : KindSet, severity : Severities,
                                status : {"NONE", "ACTIVE", "ACKNOWLEDGED", "RESOLVED"}]]
  BY <1>1, <1>2, AlertsTyped DEF StoreTypes
<1>7. /\ order' \in [OrderIds -> [packet : Nat,
                             status : {"NONE", "PENDING_HITL_APPROVAL", "APPROVED", "DISPATCHED",
                                       "COMPLETED", "CLOSED"}]]
      /\ decision' \in [DecisionIds -> [packet : Nat \cup {NoPacket},
                                        digest : Digests \cup {Fallback},
                                        outcome : Outcomes \cup {"NONE", "PENDING_REVIEW"}]]
  <2>1. RulModel \in Models
    BY DEF OrchestratorAssumption
  <2>2. DecisionRecord(RulModel, n) \in [packet : Nat \cup {NoPacket},
                                         digest : Digests \cup {Fallback},
                                         outcome : Outcomes \cup {"NONE", "PENDING_REVIEW"}]
    BY <1>1, <2>1 DEF DecisionRecord, StoreTypes
  <2>3. Escalate(p, n, o, d) \/ UNCHANGED <<order, decision>>
    BY <1>2
  <2> DEFINE c == DecisionRecord(RulModel, n)
  <2> HIDE DEF c
  <2>4. \/ UNCHANGED <<order, decision>>
        \/ /\ order' = [order EXCEPT ![o] = [packet |-> n, status |-> "PENDING_HITL_APPROVAL"]]
           /\ decision' = [decision EXCEPT ![d] = c]
    BY <2>3 DEF Escalate, c
  <2>5. [packet |-> n, status |-> "PENDING_HITL_APPROVAL"]
          \in [packet : Nat, status : {"NONE", "PENDING_HITL_APPROVAL", "APPROVED", "DISPATCHED",
                                       "COMPLETED", "CLOSED"}]
    BY <1>1
  <2>6. c \in [packet : Nat \cup {NoPacket}, digest : Digests \cup {Fallback},
               outcome : Outcomes \cup {"NONE", "PENDING_REVIEW"}]
    BY <2>2 DEF c
  <2>7. CASE UNCHANGED <<order, decision>>
    BY <2>7 DEF StoreTypes
  <2>8. CASE /\ order' = [order EXCEPT ![o] = [packet |-> n, status |-> "PENDING_HITL_APPROVAL"]]
             /\ decision' = [decision EXCEPT ![d] = c]
    BY <2>5, <2>6, <2>8 DEF StoreTypes
  <2> QED BY <2>4, <2>7, <2>8
<1> QED BY <1>1, <1>2, <1>4, <1>5, <1>6, <1>7 DEF StoreTypes

-----------------------------------------------------------------------------
(* The views, when people call.                                             *)

(* The views keep speaking of the same packets while no store of theirs     *)
(* changes.                                                                 *)
LEMMA ViewsFrame ==
  ASSUME ViewsInv, HistoryInv, UNCHANGED <<assets, packets, latest, health, twin>>
  PROVE  ViewsInv' /\ HistoryInv'
<1>1. \A a \in Assets : Arrived(a)' = Arrived(a) /\ Scorings(a)' = Scorings(a)
  BY DEF Arrived, Scorings
<1>2. \A a \in Assets : /\ LastIn(Arrived(a))' = LastIn(Arrived(a))
                        /\ LastIn(Scorings(a))' = LastIn(Scorings(a))
  BY <1>1, LastInPrime
<1>3. ViewsInv'
  BY <1>2 DEF ViewsInv
<1>4. HistoryInv'
  BY DEF HistoryInv
<1> QED BY <1>3, <1>4

(* A new registration leaves nothing of what the old one was scored by.     *)
LEMMA RegisterAssetViews ==
  ASSUME StoreTypes, ViewsInv, HistoryInv, NEW b \in Assets, RegisterAsset(b)
  PROVE  ViewsInv' /\ HistoryInv'
<1>1. /\ assets' = [assets EXCEPT ![b] = Len(packets)]
      /\ health' = [health EXCEPT ![b] = [at |-> 0, score |-> 100]]
      /\ packets' = packets /\ latest' = latest /\ twin' = twin
  BY DEF RegisterAsset
<1>2. HistoryInv'
  BY <1>1 DEF HistoryInv
<1>3. Len(packets) \in Nat /\ DOMAIN packets = 1..Len(packets)
  BY DEF StoreTypes
<1>4. ASSUME NEW a \in Assets
      PROVE  /\ assets'[a] \in -1..Len(packets')
             /\ latest'[a] <= Len(packets')
             /\ health'[a].at <= Len(packets') /\ health'[a].score \in Scores \cup {100}
             /\ latest'[a] = LastIn(Arrived(a)')
             /\ health'[a].at = LastIn(Scorings(a)')
             /\ health'[a].at = 0 => health'[a].score = 100
             /\ health'[a].at # 0 => /\ health'[a].at \in DOMAIN packets'
                                     /\ health'[a].score = packets'[health'[a].at].score
             /\ twin'[a].at <= Len(packets')
             /\ twin'[a].present /\ twin'[a].at # 0
                  => twin'[a].at >= health'[a].at /\ twin'[a].at <= latest'[a]
  <2>1. Arrived(a)' = Arrived(a)
    BY <1>1 DEF Arrived
  <2>2. CASE a # b
    <3>1. assets'[a] = assets[a] /\ health'[a] = health[a]
      BY <1>1, <2>2 DEF StoreTypes
    <3>2. Scorings(a)' = Scorings(a)
      BY <1>1, <3>1 DEF Scorings
    <3> QED BY <1>1, <2>1, <3>1, <3>2 DEF ViewsInv
  <2>3. CASE a = b
    <3>1. assets'[a] = Len(packets) /\ health'[a].at = 0 /\ health'[a].score = 100
      BY <1>1, <2>3 DEF StoreTypes
    <3>2. Scorings(a)' = {}
      BY <1>1, <1>3, <3>1 DEF Scorings
    <3>3. health'[a].at = LastIn(Scorings(a)')
      BY <3>1, <3>2 DEF LastIn
    <3>4. twin[a].at \in Nat
      BY DEF StoreTypes
    <3> QED BY <1>1, <1>3, <2>1, <3>1, <3>3, <3>4 DEF ViewsInv
  <2> QED BY <2>2, <2>3
<1>5. ViewsInv'
  BY <1>4 DEF ViewsInv, LastIn
<1> QED BY <1>2, <1>5

(* A twin registered anew starts with no packet and no history.             *)
LEMMA RegisterTwinViews ==
  ASSUME OrchestratorAssumption, StoreTypes, ViewsInv, HistoryInv, NEW b \in Assets,
         RegisterTwin(b)
  PROVE  ViewsInv' /\ HistoryInv'
<1>1. /\ twin' = [twin EXCEPT ![b] = FreshTwin]
      /\ UNCHANGED <<assets, packets, latest, health>>
  BY DEF RegisterTwin
<1>2. FreshTwin.at = 0 /\ FreshTwin.history = <<>>
  BY DEF FreshTwin, NoTwin
<1>3. \A a \in Assets : twin'[a] = twin[a] \/ (twin'[a].at = 0 /\ twin'[a].history = <<>>)
  <2>1. \A a \in Assets : twin'[a] = IF a = b THEN FreshTwin ELSE twin[a]
    BY <1>1 DEF StoreTypes
  <2> QED BY <1>2, <2>1
<1>4. \A a \in Assets : /\ LastIn(Arrived(a))' = LastIn(Arrived(a))
                        /\ LastIn(Scorings(a))' = LastIn(Scorings(a))
  <2>1. \A a \in Assets : Arrived(a)' = Arrived(a) /\ Scorings(a)' = Scorings(a)
    BY <1>1 DEF Arrived, Scorings
  <2> QED BY <2>1, LastInPrime
<1>5. ViewsInv'
  <2>1. Len(packets) \in Nat
    BY DEF StoreTypes
  <2> QED BY <1>1, <1>3, <1>4, <2>1 DEF ViewsInv
<1>6. HistoryInv'
  <2>1. \A x : HistoryOK(packets, <<>>, x)
    BY DEF HistoryOK, OrchestratorAssumption
  <2> QED BY <1>1, <1>3, <2>1 DEF HistoryInv
<1> QED BY <1>5, <1>6

-----------------------------------------------------------------------------
(* The alerts.                                                              *)

(* No two ACTIVE alerts tell the same of the same asset.                    *)
AlertsInv ==
  /\ \A i \in AlertIds : Open(i) => alerts[i].packet \in DOMAIN packets
  /\ \A i, j \in AlertIds :
       /\ alerts[i].status = "ACTIVE" /\ alerts[j].status = "ACTIVE"
       /\ alerts[i].kind = alerts[j].kind /\ Of(i) = Of(j)
       => i = j

(* No alert changes and no packet arrives.                                  *)
LEMMA AlertsFrame ==
  ASSUME AlertsInv, UNCHANGED <<packets, alerts>>
  PROVE  AlertsInv'
BY DEF AlertsInv, Open, Of

(* A person's call changes the status of one alert, and leaves no open one  *)
(* beside another of its kind.                                              *)
LEMMA AlertStatusKeeps ==
  ASSUME StoreTypes, AlertsInv, NEW b \in AlertIds, AcknowledgeAlert(b) \/ ResolveAlert(b)
  PROVE  AlertsInv'
<1>1. PICK status \in {"ACKNOWLEDGED", "RESOLVED"} : SetAlertStatus(b, status)
  BY DEF AcknowledgeAlert, ResolveAlert
<1>2. packets' = packets /\ alerts[b].status # "NONE"
  BY DEF AcknowledgeAlert, ResolveAlert, Open
<1>3. \A i \in AlertIds :
        /\ alerts'[i].packet = alerts[i].packet /\ alerts'[i].kind = alerts[i].kind
        /\ alerts'[i].status # "NONE" => alerts[i].status # "NONE"
        /\ alerts'[i].status = "ACTIVE" => alerts[i].status = "ACTIVE"
  BY <1>1, <1>2 DEF SetAlertStatus, StoreTypes
<1> QED BY <1>2, <1>3 DEF AlertsInv, Open, Of

(* Stage 8 adds none of which there is one.                                 *)
LEMMA DispatchKeeps ==
  ASSUME StoreTypes, AlertsInv, NEW p \in PacketSet, packets' = Append(packets, p),
         NEW id \in [SeriousKinds(p) -> AlertIds], DispatchAlerts(p, Len(packets) + 1, id)
  PROVE  AlertsInv'
<1> DEFINE n == Len(packets) + 1
<1>1. /\ n \in DOMAIN packets' /\ packets'[n] = p
      /\ \A k \in DOMAIN packets : k \in DOMAIN packets' /\ packets'[k] = packets[k]
  BY PacketsGrow DEF StoreTypes
<1> DEFINE Raised(i) == \E k \in NewKinds(p) :
                          /\ id[k] = i /\ alerts'[i].packet = n
                          /\ alerts'[i].kind = k /\ alerts'[i].status = "ACTIVE"
<1>2. ASSUME NEW i \in AlertIds PROVE Raised(i) \/ alerts'[i] = alerts[i]
  <2>1. CASE \E k \in NewKinds(p) :
               /\ id[k] = i
               /\ alerts'[i] = [packet |-> n, kind |-> k, severity |-> AlertSeverity(p, k),
                                status |-> "ACTIVE"]
    BY <2>1
  <2> HIDE DEF Raised
  <2> QED BY <2>1, AlertsAfter
<1> HIDE DEF n
<1>3. \A i \in AlertIds : alerts'[i].status # "NONE" => alerts'[i].packet \in DOMAIN packets'
  BY <1>1, <1>2 DEF AlertsInv, Open
<1>4. ASSUME NEW i \in AlertIds, NEW j \in AlertIds,
             alerts'[i].status = "ACTIVE", alerts'[j].status = "ACTIVE",
             alerts'[i].kind = alerts'[j].kind,
             packets'[alerts'[i].packet].asset = packets'[alerts'[j].packet].asset
      PROVE  i = j
  <2>1. ASSUME NEW x \in AlertIds, NEW y \in AlertIds, Raised(x), alerts'[y] = alerts[y],
               alerts'[y].status = "ACTIVE", alerts'[x].kind = alerts'[y].kind,
               packets'[alerts'[x].packet].asset = packets'[alerts'[y].packet].asset
        PROVE  FALSE
    <3>1. alerts'[x].kind \in NewKinds(p) /\ packets'[alerts'[x].packet].asset = p.asset
      BY <1>1, <2>1
    <3>2. packets'[alerts'[y].packet].asset = Of(y)
      BY <1>1, <2>1 DEF AlertsInv, Open, Of
    <3>3. Ongoing(p.asset, alerts'[x].kind)
      BY <2>1, <3>1, <3>2 DEF Ongoing
    <3> QED BY <3>1, <3>3 DEF NewKinds
  <2>2. CASE Raised(i) /\ Raised(j)
    BY <1>4, <2>2
  <2>3. CASE alerts'[i] = alerts[i] /\ alerts'[j] = alerts[j]
    BY <1>1, <1>4, <2>3 DEF AlertsInv, Open, Of
  <2> HIDE DEF Raised
  <2> QED BY <1>2, <1>4, <2>1, <2>2, <2>3
<1> QED BY <1>3, <1>4 DEF AlertsInv, Open, Of

(* A packet that stops before the alerts raises none.                       *)
LEMMA StopKeepsAlerts ==
  ASSUME StoreTypes, AlertsInv, NEW p \in PacketSet, packets' = Append(packets, p),
         UNCHANGED alerts
  PROVE  AlertsInv'
<1>1. \A k \in DOMAIN packets : k \in DOMAIN packets' /\ packets'[k] = packets[k]
  BY PacketsGrow DEF StoreTypes
<1> QED BY <1>1 DEF AlertsInv, Open, Of

(* After it there is one of every kind of serious finding.                  *)
LEMMA DispatchAlertsAll ==
  ASSUME StoreTypes, AlertsInv, AlertsInv', NEW p \in PacketSet, packets' = Append(packets, p),
         NEW id \in [SeriousKinds(p) -> AlertIds], DispatchAlerts(p, Len(packets) + 1, id),
         \A j, l \in SeriousKinds(p) : id[j] = id[l] => j = l,
         NEW k \in SeriousKinds(p)
  PROVE  Cardinality({i \in AlertIds :
           /\ alerts'[i].status = "ACTIVE" /\ alerts'[i].kind = k
           /\ packets'[alerts'[i].packet].asset = p.asset}) = 1
<1> DEFINE n == Len(packets) + 1
           S == {i \in AlertIds :
                   /\ alerts'[i].status = "ACTIVE" /\ alerts'[i].kind = k
                   /\ packets'[alerts'[i].packet].asset = p.asset}
<1>1. /\ packets'[n] = p
      /\ \A m \in DOMAIN packets : packets'[m] = packets[m]
  BY PacketsGrow DEF StoreTypes
<1>2. \E i \in AlertIds : i \in S
  <2>1. CASE k \in NewKinds(p)
    <3>1. id[k] \in AlertIds
      OBVIOUS
    <3>2. PICK l \in NewKinds(p) :
            /\ id[l] = id[k]
            /\ alerts'[id[k]] = [packet |-> n, kind |-> l, severity |-> AlertSeverity(p, l),
                                 status |-> "ACTIVE"]
      BY <2>1, <3>1, AlertsAfter
    <3>3. l = k
      BY <2>1, <3>2 DEF NewKinds
    <3> QED BY <1>1, <3>1, <3>2, <3>3
  <2>2. CASE k \notin NewKinds(p)
    <3>1. PICK i \in AlertIds : /\ alerts[i].status = "ACTIVE" /\ alerts[i].kind = k
                                /\ Of(i) = p.asset
      BY <2>2 DEF NewKinds, Ongoing
    <3>2. alerts'[i] = alerts[i]
      BY <3>1, AlertsAfter
    <3>3. packets'[alerts[i].packet].asset = p.asset
      BY <1>1, <3>1 DEF AlertsInv, Open, Of
    <3> QED BY <3>1, <3>2, <3>3
  <2> QED BY <2>1, <2>2
<1>3. \A i, j \in S : i = j
  BY DEF AlertsInv, Of
<1>4. PICK i \in AlertIds : S = {i}
  BY <1>2, <1>3
<1> QED BY <1>4, FS_Singleton

-----------------------------------------------------------------------------
(* The escalation.                                                          *)

OrdersOf(n)    == {o \in OrderIds : order[o].packet = n}
DecisionsOf(n) == {d \in DecisionIds : decision[d].packet = n}

(* The packets that must have been escalated.                               *)
Due(n) ==
  /\ Escalates(packets[n]) /\ Passes(packets[n], "detection")
  /\ SeriousKinds(packets[n]) = {} \/ assets[packets[n].asset] \in 0..n - 1

Escalated(n) ==
  /\ \E o \in OrderIds : OrdersOf(n) = {o}
  /\ \E d \in DecisionIds : DecisionsOf(n) = {d}
  /\ Escalates(packets[n]) /\ Passes(packets[n], "detection")

NotEscalated(n) == OrdersOf(n) = {} /\ DecisionsOf(n) = {} /\ ~ Due(n)

(* An order and a decision cite a packet together, unused ids cite none.    *)
EscalationInv ==
  /\ \A o \in OrderIds : IF order[o].status = "NONE" THEN order[o].packet = 0
                                                     ELSE order[o].packet \in DOMAIN packets
  /\ \A d \in DecisionIds :
       IF decision[d].outcome = "NONE" THEN decision[d].packet = NoPacket
                                       ELSE decision[d].packet \in DOMAIN packets
  /\ \A n \in DOMAIN packets : Escalated(n) \/ NotEscalated(n)

(* Calls that leave what is cited alone, and register assets at most anew.  *)
LEMMA EscalationFrame ==
  ASSUME OrchestratorAssumption, StoreTypes, StoreTypes', EscalationInv, packets' = packets,
         \A a \in Assets : assets'[a] = assets[a] \/ assets'[a] = Len(packets),
         \A o \in OrderIds : /\ order'[o].packet = order[o].packet
                             /\ order'[o].status = "NONE" <=> order[o].status = "NONE",
         \A d \in DecisionIds :
           /\ decision'[d].packet = decision[d].packet
           /\ decision'[d].outcome = "NONE" <=> decision[d].outcome = "NONE"
  PROVE  EscalationInv'
<1>1. ASSUME NEW n \in DOMAIN packets
      PROVE  Escalated(n)' \/ NotEscalated(n)'
  <2>1. OrdersOf(n)' = OrdersOf(n) /\ DecisionsOf(n)' = DecisionsOf(n)
    BY DEF OrdersOf, DecisionsOf
  <2>2. Due(n)' => Due(n)
    <3>1. n \in 1..Len(packets) /\ Len(packets) \in Nat /\ packets[n].asset \in Assets
      <4>1. packets[n] \in PacketSet /\ n \in 1..Len(packets) /\ Len(packets) \in Nat
        BY DEF StoreTypes
      <4> QED BY <4>1, PacketFields
    <3>2. assets'[packets[n].asset] \in 0..n - 1 => assets[packets[n].asset] \in 0..n - 1
      BY <3>1
    <3> QED BY <3>2 DEF Due
  <2>3. Escalated(n) \/ NotEscalated(n)
    BY DEF EscalationInv
  <2>4. Escalated(n) => Escalated(n)'
    BY <2>1 DEF Escalated
  <2>5. NotEscalated(n) => NotEscalated(n)'
    BY <2>1, <2>2 DEF NotEscalated
  <2> QED BY <2>3, <2>4, <2>5
<1> QED BY <1>1 DEF EscalationInv

(* What a packet's arrival leaves of the escalation of those before.        *)
LEMMA EarlierPackets ==
  ASSUME NEW p, NEW n \in DOMAIN packets, packets'[n] = packets[n], assets' = assets,
         OrdersOf(n)' = OrdersOf(n), DecisionsOf(n)' = DecisionsOf(n),
         Escalated(n) \/ NotEscalated(n)
  PROVE  Escalated(n)' \/ NotEscalated(n)'
<1>1. Due(n)' <=> Due(n)
  BY DEF Due
<1>2. Escalated(n) => Escalated(n)'
  BY DEF Escalated
<1>3. NotEscalated(n) => NotEscalated(n)'
  BY <1>1 DEF NotEscalated
<1> QED BY <1>2, <1>3

(* A critical packet is given an order and a decision no packet had.        *)
LEMMA EscalateKeeps ==
  ASSUME OrchestratorAssumption, StoreTypes, ViewsInv, EscalationInv,
         NEW p \in PacketSet, packets' = Append(packets, p), assets' = assets,
         NEW o \in OrderIds, NEW d \in DecisionIds,
         Escalate(p, Len(packets) + 1, o, d), Escalates(p), Passes(p, "detection")
  PROVE  EscalationInv'
<1>0. PICK n \in Nat : n = Len(packets) + 1
  BY DEF StoreTypes
<1>1. /\ n \in Nat /\ n > 0 /\ DOMAIN packets = 1..n - 1 /\ DOMAIN packets' = 1..n
      /\ packets'[n] = p /\ \A k \in DOMAIN packets : packets'[k] = packets[k]
  BY <1>0, PacketsGrow DEF StoreTypes
<1>2. /\ order[o].status = "NONE" /\ decision[d].outcome = "NONE"
      /\ order' = [order EXCEPT ![o] = [packet |-> n, status |-> "PENDING_HITL_APPROVAL"]]
      /\ decision' = [decision EXCEPT ![d] = DecisionRecord(RulModel, n)]
  BY <1>0 DEF Escalate
<1>3. /\ order'[o].packet = n /\ order'[o].status = "PENDING_HITL_APPROVAL"
      /\ \A x \in OrderIds : x # o => order'[x] = order[x]
  BY <1>2 DEF StoreTypes
<1>4. /\ decision'[d].packet = n /\ decision'[d].outcome = "PENDING_REVIEW"
      /\ \A x \in DecisionIds : x # d => decision'[x] = decision[x]
  <2>1. /\ DecisionRecord(RulModel, n).packet = n
        /\ DecisionRecord(RulModel, n).outcome = "PENDING_REVIEW"
    BY DEF DecisionRecord
  <2> QED BY <1>2, <2>1 DEF StoreTypes
<1>5. /\ \A x \in OrderIds : order[x].packet = 0 \/ order[x].packet \in DOMAIN packets
      /\ \A x \in DecisionIds : decision[x].packet = NoPacket
                               \/ decision[x].packet \in DOMAIN packets
      /\ order[o].packet = 0 /\ decision[d].packet = NoPacket
      /\ \A k \in DOMAIN packets' : k # 0 /\ k # NoPacket
  BY <1>1, <1>2 DEF EscalationInv, OrchestratorAssumption
<1>6. /\ \A x \in OrderIds : IF order'[x].status = "NONE" THEN order'[x].packet = 0
                              ELSE order'[x].packet \in DOMAIN packets'
      /\ \A x \in DecisionIds :
           IF decision'[x].outcome = "NONE" THEN decision'[x].packet = NoPacket
           ELSE decision'[x].packet \in DOMAIN packets'
  BY <1>1, <1>3, <1>4 DEF EscalationInv
<1>7. ASSUME NEW k \in DOMAIN packets PROVE Escalated(k)' \/ NotEscalated(k)'
  <2>1. k # n /\ k # 0 /\ k # NoPacket
    BY <1>1, <1>5
  <2>2. OrdersOf(k)' = OrdersOf(k) /\ DecisionsOf(k)' = DecisionsOf(k)
    BY <1>3, <1>4, <1>5, <2>1 DEF OrdersOf, DecisionsOf
  <2> QED BY <1>1, <2>2, EarlierPackets DEF EscalationInv
<1>8. Escalated(n)'
  <2>1. n \notin DOMAIN packets /\ n # 0 /\ n # NoPacket
    BY <1>1, <1>5
  <2>2. OrdersOf(n)' = {o} /\ DecisionsOf(n)' = {d}
    BY <1>3, <1>4, <1>5, <2>1 DEF OrdersOf, DecisionsOf
  <2> QED BY <1>1, <2>2 DEF Escalated
<1>9. \A k \in DOMAIN packets' : k \in DOMAIN packets \/ k = n
  BY <1>1
<1> QED BY <1>6, <1>7, <1>8, <1>9 DEF EscalationInv

(* Neither an order nor a decision: the packet asked for none or stopped.   *)
LEMMA NoEscalationKeeps ==
  ASSUME OrchestratorAssumption, StoreTypes, ViewsInv, EscalationInv,
         NEW p \in PacketSet, packets' = Append(packets, p), assets' = assets,
         UNCHANGED <<order, decision>>,
         Completes(p) => ~ Escalates(p)
  PROVE  EscalationInv'
<1>0. PICK n \in Nat : n = Len(packets) + 1
  BY DEF StoreTypes
<1>1. /\ n \in Nat /\ n > 0 /\ DOMAIN packets = 1..n - 1 /\ DOMAIN packets' = 1..n
      /\ packets'[n] = p /\ \A k \in DOMAIN packets : packets'[k] = packets[k]
  BY <1>0, PacketsGrow DEF StoreTypes
<1>2. p.asset \in Assets
  BY PacketFields
<1>3. \A k : OrdersOf(k)' = OrdersOf(k) /\ DecisionsOf(k)' = DecisionsOf(k)
  BY DEF OrdersOf, DecisionsOf
<1>4. \A k \in DOMAIN packets : Escalated(k)' \/ NotEscalated(k)'
  BY <1>1, <1>3, EarlierPackets DEF EscalationInv
<1>5. NotEscalated(n)'
  <2>1. n \notin DOMAIN packets /\ n # 0 /\ n # NoPacket
    BY <1>1 DEF OrchestratorAssumption
  <2>2. OrdersOf(n) = {} /\ DecisionsOf(n) = {}
    BY <2>1 DEF OrdersOf, DecisionsOf, EscalationInv
  <2>3. ~ Due(n)'
    <3>1. SUFFICES ASSUME Escalates(p), Passes(p, "detection"),
                          SeriousKinds(p) = {} \/ assets[p.asset] \in 0..n - 1
                   PROVE  FALSE
      BY <1>1 DEF Due
    <3>2. NewKinds(p) = {} \/ assets[p.asset] # Unregistered
      BY <3>1 DEF NewKinds, Unregistered
    <3> QED BY <3>1, <3>2 DEF Completes, Alertable
  <2> QED BY <1>3, <2>2, <2>3 DEF NotEscalated
<1>6. \A k \in DOMAIN packets' : k \in DOMAIN packets \/ k = n
  BY <1>1
<1>7. \A k \in DOMAIN packets : k \in DOMAIN packets'
  BY <1>1
<1> QED BY <1>4, <1>5, <1>6, <1>7 DEF EscalationInv

(* The records of the escalation say how many orders and decisions a packet *)
(* has.                                                                     *)
LEMMA EscalationMeans ==
  ASSUME StoreTypes, EscalationInv
  PROVE  EscalatedOnce
<1> SUFFICES ASSUME NEW n \in DOMAIN packets
             PROVE  LET p == packets[n] IN
                    /\ Cited(order, n) = Cited(decision, n)
                    /\ Cited(order, n) <= 1
                    /\ Cited(order, n) = 1 => Escalates(p) /\ Passes(p, "detection")
                    /\ /\ p.score < 75 \/ Critical(p)
                       /\ Passes(p, "detection")
                       /\ SeriousKinds(p) = {} \/ assets[p.asset] \in 0..(n - 1)
                       => Cited(order, n) = 1
  BY DEF EscalatedOnce, StoreTypes
<1>1. /\ Cited(order, n) = Cardinality(OrdersOf(n))
      /\ Cited(decision, n) = Cardinality(DecisionsOf(n))
  BY DEF Cited, OrdersOf, DecisionsOf, StoreTypes
<1>2. CASE Escalated(n)
  <2>1. Cited(order, n) = 1 /\ Cited(decision, n) = 1
    BY <1>1, <1>2, FS_Singleton DEF Escalated
  <2> QED BY <1>2, <2>1 DEF Escalated
<1>3. CASE NotEscalated(n)
  <2>1. Cited(order, n) = 0 /\ Cited(decision, n) = 0
    BY <1>1, <1>3, FS_EmptySet DEF NotEscalated
  <2> QED BY <1>3, <2>1 DEF NotEscalated, Due, Escalates
<1> QED BY <1>2, <1>3 DEF EscalationInv

-----------------------------------------------------------------------------
(* The audit trail.                                                         *)

AlertTold(i) == trail[i] = AlertEntry[alerts[i].status]

OrderTold(o) == \/ trail[o] = OrderEntry[order[o].status]
                \/ trail[o] = "RESERVE_PARTS" /\ order[o].status # "NONE"

DecisionTold(d) ==
  \/ trail[d] = decision[d].outcome
  \/ trail[d] = "CREATE_AI_DECISION_RECORD" /\ decision[d].outcome = "PENDING_REVIEW"

TrailInv ==
  /\ \A i \in AlertIds : AlertTold(i)
  /\ \A o \in OrderIds : OrderTold(o)
  /\ \A d \in DecisionIds : DecisionTold(d)

(* The two tables of audit entries, case by case.                           *)
LEMMA EntriesAre ==
  /\ AlertEntry["NONE"] = "NONE" /\ AlertEntry["ACTIVE"] = "DISPATCH_ALERT"
  /\ AlertEntry["ACKNOWLEDGED"] = "ACKNOWLEDGE_ALERT" /\ AlertEntry["RESOLVED"] = "RESOLVE_ALERT"
  /\ OrderEntry["NONE"] = "NONE" /\ OrderEntry["PENDING_HITL_APPROVAL"] = "NONE"
  /\ OrderEntry["APPROVED"] = "APPROVE_WORK_ORDER" /\ OrderEntry["DISPATCHED"] = "DISPATCH_WORK_ORDER"
  /\ OrderEntry["COMPLETED"] = "COMPLETE_WORK_ORDER" /\ OrderEntry["CLOSED"] = "CLOSE_WORK_ORDER"
BY DEF AlertEntry, OrderEntry

(* Alerts, orders and decisions are resources of their own.                 *)
LEMMA OwnResources ==
  ASSUME OrchestratorAssumption, GovernanceAssumption, AdaptiveAssumption
  PROVE  /\ AlertIds \subseteq Resources /\ OrderIds \subseteq Resources
         /\ DecisionIds \subseteq Resources
         /\ \A r \in AlertIds : /\ r \notin OrderIds /\ r \notin DecisionIds /\ r \notin ActionIds
                               /\ r \notin Models \cup Settings \cup Assets
         /\ \A r \in OrderIds : /\ r \notin DecisionIds /\ r \notin ActionIds
                               /\ r \notin Models \cup Settings \cup Assets
         /\ \A r \in DecisionIds : /\ r \notin ActionIds
                                  /\ r \notin Models \cup Settings \cup Assets
BY DEF OrchestratorAssumption, GovernanceAssumption

(* What an entry changes of the trail.                                      *)
LEMMA RecordIs ==
  ASSUME TrailTypeOK, NEW r, NEW e, Record(r, e)
  PROVE  \A x \in Resources : trail'[x] = IF x = r THEN e ELSE trail[x]
BY DEF TrailTypeOK, Record

(* An entry about another resource.                                         *)
LEMMA OtherEntry ==
  ASSUME OrchestratorAssumption, GovernanceAssumption, AdaptiveAssumption, TrailTypeOK, TrailInv,
         UNCHANGED <<alerts, order, decision>>,
         NEW r \in ActionIds \cup Models \cup Settings \cup Assets, NEW e, Record(r, e)
  PROVE  TrailInv'
<1>1. \A x \in AlertIds \cup OrderIds \cup DecisionIds : trail'[x] = trail[x]
  BY OwnResources, RecordIs
<1> QED BY <1>1 DEF TrailInv, AlertTold, OrderTold, DecisionTold

(* Acknowledging or resolving is the last the trail says of an alert.       *)
LEMMA AlertEntryTold ==
  ASSUME OrchestratorAssumption, GovernanceAssumption, AdaptiveAssumption, TrailTypeOK, StoreTypes,
         TrailInv, NEW i \in AlertIds, AcknowledgeAlert(i) \/ ResolveAlert(i)
  PROVE  TrailInv'
<1>1. /\ order' = order /\ decision' = decision
      /\ \/ SetAlertStatus(i, "ACKNOWLEDGED") /\ Record(i, "ACKNOWLEDGE_ALERT")
         \/ SetAlertStatus(i, "RESOLVED") /\ Record(i, "RESOLVE_ALERT")
  BY DEF AcknowledgeAlert, ResolveAlert, engines, govern
<1>2. \A x \in AlertIds \cup OrderIds \cup DecisionIds : x # i => trail'[x] = trail[x]
  BY <1>1, OwnResources, RecordIs
<1>3. \A x \in AlertIds : x # i => alerts'[x] = alerts[x]
  BY <1>1 DEF SetAlertStatus, StoreTypes
<1>4. AlertTold(i)'
  <2>1. i \in Resources
    BY OwnResources
  <2>2. \/ alerts'[i].status = "ACKNOWLEDGED" /\ trail'[i] = "ACKNOWLEDGE_ALERT"
        \/ alerts'[i].status = "RESOLVED" /\ trail'[i] = "RESOLVE_ALERT"
    BY <1>1, <2>1, RecordIs DEF SetAlertStatus, StoreTypes
  <2> QED BY <2>2, EntriesAre DEF AlertTold
<1>5. \A x \in AlertIds : x # i => AlertTold(x)'
  BY <1>2, <1>3 DEF TrailInv, AlertTold
<1>6. /\ \A x \in OrderIds : OrderTold(x)'
      /\ \A x \in DecisionIds : DecisionTold(x)'
  <2>1. \A x \in OrderIds \cup DecisionIds : x # i
    BY OwnResources
  <2> QED BY <1>1, <1>2, <2>1 DEF TrailInv, OrderTold, DecisionTold
<1> QED BY <1>4, <1>5, <1>6 DEF TrailInv

(* An entry about an order that tells the status it has by then.            *)
LEMMA OrderEntryTold ==
  ASSUME OrchestratorAssumption, GovernanceAssumption, AdaptiveAssumption, TrailTypeOK, TrailInv,
         UNCHANGED <<alerts, decision>>, NEW o \in OrderIds, NEW e, Record(o, e),
         \A x \in OrderIds : x # o => order'[x] = order[x],
         \/ e = OrderEntry[order'[o].status]
         \/ e = "RESERVE_PARTS" /\ order'[o].status # "NONE"
  PROVE  TrailInv'
<1>1. \A x \in AlertIds \cup OrderIds \cup DecisionIds : x # o => trail'[x] = trail[x]
  BY OwnResources, RecordIs
<1>2. trail'[o] = e
  BY OwnResources, RecordIs
<1>3. OrderTold(o)'
  BY <1>2 DEF OrderTold
<1>4. \A x \in OrderIds : x # o => OrderTold(x)'
  BY <1>1 DEF TrailInv, OrderTold
<1>5. /\ \A x \in AlertIds : AlertTold(x)'
      /\ \A x \in DecisionIds : DecisionTold(x)'
  <2>1. \A x \in AlertIds \cup DecisionIds : x # o
    BY OwnResources
  <2> QED BY <1>1, <2>1 DEF TrailInv, AlertTold, DecisionTold
<1> QED BY <1>3, <1>4, <1>5 DEF TrailInv

(* A person's verdict on a recommendation is the last the trail says of it. *)
LEMMA HumanDecisionTold ==
  ASSUME OrchestratorAssumption, GovernanceAssumption, AdaptiveAssumption, TrailTypeOK, StoreTypes,
         TrailInv, UNCHANGED <<alerts, order>>, NEW d \in DecisionIds, NEW e \in Outcomes,
         RecordHumanDecision(d, e)
  PROVE  TrailInv'
<1>1. decision' = [decision EXCEPT ![d].outcome = e] /\ Record(d, e)
  BY DEF RecordHumanDecision
<1>2. \A x \in AlertIds \cup OrderIds \cup DecisionIds : x # d => trail'[x] = trail[x]
  BY <1>1, OwnResources, RecordIs
<1>3. trail'[d] = e
  BY <1>1, OwnResources, RecordIs
<1>4. DecisionTold(d)'
  <2>1. decision'[d].outcome = e
    BY <1>1 DEF StoreTypes
  <2> QED BY <1>3, <2>1 DEF DecisionTold
<1>5. \A x \in DecisionIds : x # d => DecisionTold(x)'
  <2>1. \A x \in DecisionIds : x # d => decision'[x] = decision[x]
    BY <1>1 DEF StoreTypes
  <2> QED BY <1>2, <2>1 DEF TrailInv, DecisionTold
<1>6. /\ \A x \in AlertIds : AlertTold(x)'
      /\ \A x \in OrderIds : OrderTold(x)'
  <2>1. \A x \in AlertIds \cup OrderIds : x # d
    BY OwnResources
  <2> QED BY <1>2, <2>1 DEF TrailInv, AlertTold, OrderTold
<1> QED BY <1>4, <1>5, <1>6 DEF TrailInv

(* A packet tells of the alerts it raised and of its decision.              *)
LEMMA PacketTold ==
  ASSUME OrchestratorAssumption, GovernanceAssumption, AdaptiveAssumption, StoreTypes, TrailInv,
         NEW p \in PacketSet, NEW n, NEW id \in [SeriousKinds(p) -> AlertIds],
         NEW o \in OrderIds, NEW d \in DecisionIds,
         DispatchAlerts(p, n, id), Escalate(p, n, o, d), AuditPacket(p, id, d)
  PROVE  TrailInv'
<1>1. \A k \in NewKinds(p) : id[k] \in AlertIds
  BY DEF NewKinds
<1>2. \A x \in Resources :
        trail'[x] = CASE \E k \in NewKinds(p) : id[k] = x -> "DISPATCH_ALERT"
                      [] Escalates(p) /\ x = d -> "CREATE_AI_DECISION_RECORD"
                      [] OTHER -> trail[x]
  BY DEF AuditPacket
<1>3. ASSUME NEW i \in AlertIds PROVE AlertTold(i)'
  <2>1. i \in Resources /\ i # d
    BY OwnResources
  <2>2. CASE \E k \in NewKinds(p) : id[k] = i
    <3>1. trail'[i] = "DISPATCH_ALERT"
      BY <1>2, <2>1, <2>2
    <3>2. \E k \in NewKinds(p) :
            alerts'[i] = [packet |-> n, kind |-> k, severity |-> AlertSeverity(p, k),
                          status |-> "ACTIVE"]
      BY <2>2, AlertsAfter
    <3>3. alerts'[i].status = "ACTIVE"
      BY <3>2
    <3> QED BY <3>1, <3>3, EntriesAre DEF AlertTold
  <2>3. CASE ~ \E k \in NewKinds(p) : id[k] = i
    <3>1. trail'[i] = trail[i]
      BY <1>2, <2>1, <2>3
    <3>2. alerts'[i] = alerts[i]
      BY <2>3 DEF DispatchAlerts
    <3> QED BY <3>1, <3>2 DEF TrailInv, AlertTold
  <2> QED BY <2>2, <2>3
<1>4. ASSUME NEW x \in OrderIds PROVE OrderTold(x)'
  <2>1. x \in Resources /\ x # d /\ ~ \E k \in NewKinds(p) : id[k] = x
    BY <1>1, OwnResources
  <2>2. trail'[x] = trail[x]
    BY <1>2, <2>1
  <2>3. \/ order'[x] = order[x]
        \/ order[x].status = "NONE" /\ order'[x].status = "PENDING_HITL_APPROVAL"
    BY DEF Escalate, StoreTypes
  <2>4. OrderTold(x)
    BY DEF TrailInv
  <2> QED BY <2>2, <2>3, <2>4, EntriesAre DEF OrderTold
<1>5. ASSUME NEW x \in DecisionIds PROVE DecisionTold(x)'
  <2>1. x \in Resources /\ ~ \E k \in NewKinds(p) : id[k] = x
    BY <1>1, OwnResources
  <2>2. CASE Escalates(p) /\ x = d
    <3>1. trail'[x] = "CREATE_AI_DECISION_RECORD"
      BY <1>2, <2>1, <2>2
    <3>2. decision' = [decision EXCEPT ![d] = DecisionRecord(RulModel, n)]
      BY <2>2 DEF Escalate
    <3>3. DecisionRecord(RulModel, n).outcome = "PENDING_REVIEW"
      BY DEF DecisionRecord
    <3>4. decision'[x].outcome = "PENDING_REVIEW"
      BY <2>2, <3>2, <3>3 DEF StoreTypes
    <3> QED BY <3>1, <3>4 DEF DecisionTold
  <2>3. CASE ~ (Escalates(p) /\ x = d)
    <3>1. trail'[x] = trail[x]
      BY <1>2, <2>1, <2>3
    <3>2. decision'[x] = decision[x]
      BY <2>3 DEF Escalate, StoreTypes
    <3> QED BY <3>1, <3>2 DEF TrailInv, DecisionTold
  <2> QED BY <2>2, <2>3
<1> QED BY <1>3, <1>4, <1>5 DEF TrailInv

(* The trail's invariant covers every alert, order and decision.            *)
LEMMA TrailMeans ==
  ASSUME OrchestratorAssumption, StoreTypes, AlertsInv, TrailInv
  PROVE  TrailTellsStatus
<1>1. ASSUME NEW i \in AlertIds
      PROVE  /\ trail[i] = AlertEntry[alerts[i].status]
             /\ trail[i] \in {"DISPATCH_ALERT", "ACKNOWLEDGE_ALERT"}
                  <=> alerts[i].status \in {"ACTIVE", "ACKNOWLEDGED"}
  <2>1. trail[i] = AlertEntry[alerts[i].status]
    BY DEF TrailInv, AlertTold
  <2>2. alerts[i].status \in {"NONE", "ACTIVE", "ACKNOWLEDGED", "RESOLVED"}
    BY DEF StoreTypes
  <2> QED BY <2>1, <2>2, EntriesAre
<1>2. ActiveAlerts(Assets) = {i \in AlertIds : trail[i] \in {"DISPATCH_ALERT", "ACKNOWLEDGE_ALERT"}}
  <2>1. ASSUME NEW i \in AlertIds
        PROVE  Open(i) /\ alerts[i].status # "RESOLVED" /\ Of(i) \in Assets
                 <=> alerts[i].status \in {"ACTIVE", "ACKNOWLEDGED"}
    <3>1. alerts[i].status \in {"NONE", "ACTIVE", "ACKNOWLEDGED", "RESOLVED"}
      BY DEF StoreTypes
    <3>2. Open(i) => packets[alerts[i].packet] \in PacketSet
      BY DEF AlertsInv, StoreTypes
    <3>3. Open(i) => Of(i) \in Assets
      BY <3>2, PacketFields DEF Of
    <3> QED BY <3>1, <3>3 DEF Open
  <2> QED BY <1>1, <2>1 DEF ActiveAlerts
<1> QED BY <1>1, <1>2 DEF TrailTellsStatus, TrailInv, OrderTold, DecisionTold

-----------------------------------------------------------------------------
(* Every call keeps all of it.                                              *)

OInv == /\ AInv /\ StoreTypes /\ ViewsInv /\ HistoryInv
        /\ AlertsInv /\ EscalationInv /\ TrailInv

Stores == /\ StoreTypes /\ ViewsInv /\ HistoryInv
          /\ AlertsInv /\ EscalationInv /\ TrailInv

(* The stores are empty when the application starts.                        *)
LEMMA StoresInit ==
  ASSUME OrchestratorAssumption, GovernanceAssumption, AdaptiveAssumption, Init
  PROVE  Stores
<1>1. /\ packets = <<>> /\ assets = [a \in Assets |-> Unregistered]
      /\ latest = [a \in Assets |-> 0]
      /\ health = [a \in Assets |-> [at |-> 0, score |-> 100]]
      /\ twin = [a \in Assets |-> NoTwin]
      /\ alerts = [i \in AlertIds |-> NoAlert] /\ order = [o \in OrderIds |-> NoOrder]
      /\ model = [m \in Models |-> Fallback] /\ decision = [d \in DecisionIds |-> NoDecision]
      /\ changed = {} /\ trail = [r \in Resources |-> "NONE"]
  BY DEF Init, GovernanceInit, TrailInit
<1>2. /\ packets \in Seq(PacketSet) /\ Len(packets) = 0 /\ DOMAIN packets = {}
  BY <1>1
<1>3. StoreTypes
  <2>1. NoTwin \in [present : BOOLEAN, at : Nat, health : Int, history : Seq(Row)]
    BY DEF NoTwin
  <2>2. NoAlert \in [packet : Nat, kind : KindSet, severity : Severities,
                     status : {"NONE", "ACTIVE", "ACKNOWLEDGED", "RESOLVED"}]
    BY DEF NoAlert, KindSet, Severities
  <2>3. NoOrder \in [packet : Nat, status : {"NONE", "PENDING_HITL_APPROVAL", "APPROVED",
                                             "DISPATCHED", "COMPLETED", "CLOSED"}]
    BY DEF NoOrder
  <2>4. NoDecision \in [packet : Nat \cup {NoPacket}, digest : Digests \cup {Fallback},
                        outcome : Outcomes \cup {"NONE", "PENDING_REVIEW"}]
    BY DEF NoDecision
  <2>5. assets \in [Assets -> Int] /\ latest \in [Assets -> Nat]
        /\ health \in [Assets -> [at : Nat, score : Int]]
    BY <1>1 DEF Unregistered
  <2> QED BY <1>1, <1>2, <2>1, <2>2, <2>3, <2>4, <2>5 DEF StoreTypes
<1>4. ViewsInv
  <2>1. \A a \in Assets : Arrived(a) = {} /\ Scorings(a) = {}
    BY <1>2 DEF Arrived, Scorings
  <2>2. \A a \in Assets : /\ assets[a] = -1 /\ latest[a] = 0 /\ health[a].at = 0
                          /\ health[a].score = 100 /\ twin[a].at = 0
    BY <1>1 DEF Unregistered, NoTwin
  <2> QED BY <1>2, <2>1, <2>2 DEF ViewsInv, LastIn
<1>5. HistoryInv
  <2>1. \A a \in Assets : twin[a].history = <<>>
    BY <1>1 DEF NoTwin
  <2>2. \A x : HistoryOK(packets, <<>>, x)
    BY DEF HistoryOK, OrchestratorAssumption
  <2> QED BY <2>1, <2>2 DEF HistoryInv
<1>6. AlertsInv
  <2>1. \A i \in AlertIds : alerts[i].status = "NONE"
    BY <1>1 DEF NoAlert
  <2> QED BY <2>1 DEF AlertsInv, Open
<1>7. EscalationInv
  <2>1. /\ \A o \in OrderIds : order[o].status = "NONE" /\ order[o].packet = 0
        /\ \A d \in DecisionIds : decision[d].outcome = "NONE" /\ decision[d].packet = NoPacket
    BY <1>1 DEF NoOrder, NoDecision
  <2> QED BY <1>2, <2>1 DEF EscalationInv
<1>8. TrailInv
  <2>1. /\ \A i \in AlertIds : alerts[i].status = "NONE" /\ trail[i] = "NONE"
        /\ \A o \in OrderIds : order[o].status = "NONE" /\ trail[o] = "NONE"
        /\ \A d \in DecisionIds : decision[d].outcome = "NONE" /\ trail[d] = "NONE"
    BY <1>1, OwnResources DEF NoAlert, NoOrder, NoDecision
  <2> QED BY <2>1, EntriesAre DEF TrailInv, AlertTold, OrderTold, DecisionTold
<1> QED BY <1>3, <1>4, <1>5, <1>6, <1>7, <1>8 DEF Stores

(* Every store, after process_telemetry_packet.                             *)
LEMMA PacketStep ==
  ASSUME OrchestratorAssumption, GovernanceAssumption, AdaptiveAssumption, OInv, PacketNext
  PROVE  Stores'
<1>1. PICK p \in PacketSet :
        \E id \in [SeriousKinds(p) -> AlertIds], o \in OrderIds, d \in DecisionIds :
          /\ \A j, k \in SeriousKinds(p) : id[j] = id[k] => j = k
          /\ ProcessTelemetryPacket(p, id, o, d)
  BY PacketIs
<1>2. PICK id \in [SeriousKinds(p) -> AlertIds], o \in OrderIds, d \in DecisionIds :
        ProcessTelemetryPacket(p, id, o, d)
  BY <1>1
<1>3. /\ packets' = Append(packets, p) /\ ShowTelemetry(p, Len(packets) + 1)
      /\ UpdateTwin(p, Len(packets) + 1) /\ ScoreAsset(p, Len(packets) + 1)
      /\ assets' = assets
      /\ IF Completes(p)
         THEN /\ DispatchAlerts(p, Len(packets) + 1, id) /\ Escalate(p, Len(packets) + 1, o, d)
              /\ AuditPacket(p, id, d)
         ELSE UNCHANGED <<alerts, order, decision, trail>>
  BY <1>2 DEF ProcessTelemetryPacket
<1>4. StoreTypes /\ ViewsInv /\ HistoryInv /\ AlertsInv /\ EscalationInv /\ TrailInv
  BY DEF OInv
<1>5. StoreTypes'
  BY <1>2, <1>4, PacketTypes
<1>6. ViewsInv'
  BY <1>3, <1>4, PacketViews
<1>7. HistoryInv'
  BY <1>3, <1>4, PacketHistory
<1>8. AlertsInv'
  BY <1>3, <1>4, DispatchKeeps, StopKeepsAlerts
<1>9. EscalationInv'
  <2>1. CASE Completes(p) /\ Escalates(p)
    BY <1>3, <1>4, <2>1, EscalateKeeps DEF Completes
  <2>2. CASE ~ (Completes(p) /\ Escalates(p))
    <3>1. UNCHANGED <<order, decision>>
      BY <1>3, <2>2 DEF Escalate
    <3> QED BY <1>3, <1>4, <2>2, <3>1, NoEscalationKeeps
  <2> QED BY <2>1, <2>2
<1>10. TrailInv'
  <2>1. CASE Completes(p)
    BY <1>3, <1>4, <2>1, PacketTold
  <2>2. CASE ~ Completes(p)
    BY <1>3, <1>4, <2>2 DEF TrailInv, AlertTold, OrderTold, DecisionTold
  <2> QED BY <2>1, <2>2
<1> QED BY <1>5, <1>6, <1>7, <1>8, <1>9, <1>10 DEF Stores

(* Every store, after a call about an alert.                                *)
LEMMA AlertStep ==
  ASSUME OrchestratorAssumption, GovernanceAssumption, AdaptiveAssumption, OInv,
         NEW i \in AlertIds, AcknowledgeAlert(i) \/ ResolveAlert(i)
  PROVE  Stores'
<1>1. /\ UNCHANGED <<assets, packets, latest, health, twin, order, model, decision, changed>>
      /\ SetAlertStatus(i, "ACKNOWLEDGED") \/ SetAlertStatus(i, "RESOLVED")
  BY DEF AcknowledgeAlert, ResolveAlert, views, engines, govern
<1>2. StoreTypes /\ ViewsInv /\ HistoryInv /\ AlertsInv /\ EscalationInv /\ TrailInv /\ TrailTypeOK
  BY DEF OInv, AInv
<1>3. StoreTypes'
  <2> DEFINE T == [packet : Nat, kind : KindSet, severity : Severities,
                   status : {"NONE", "ACTIVE", "ACKNOWLEDGED", "RESOLVED"}]
  <2>1. alerts \in [AlertIds -> T]
    BY <1>2 DEF StoreTypes
  <2>2. alerts' \in [AlertIds -> T]
    BY <1>1, <2>1 DEF SetAlertStatus
  <2> QED BY <1>1, <1>2, <2>2 DEF StoreTypes
<1>4. EscalationInv'
  BY <1>1, <1>2, <1>3, EscalationFrame
<1> QED BY <1>1, <1>2, <1>3, <1>4, ViewsFrame, AlertStatusKeeps, AlertEntryTold DEF Stores

(* Every store, after a call about a work order.                            *)
LEMMA OrderStep ==
  ASSUME OrchestratorAssumption, GovernanceAssumption, AdaptiveAssumption, OInv, NEW o \in OrderIds,
         \/ ApproveOrder(o) \/ DispatchOrder(o) \/ CompleteOrder(o)
         \/ CloseOrder(o) \/ ReserveParts(o)
  PROVE  Stores'
<1>1. UNCHANGED <<assets, packets, latest, health, twin, alerts, model, decision, changed>>
  BY DEF ApproveOrder, DispatchOrder, CompleteOrder, CloseOrder, Handle, ReserveParts, views,
         engines, govern
<1>2. StoreTypes /\ ViewsInv /\ HistoryInv /\ AlertsInv /\ EscalationInv /\ TrailInv /\ TrailTypeOK
  BY DEF OInv, AInv
<1>3. /\ order[o].status # "NONE"
      /\ \/ order' = order /\ Record(o, "RESERVE_PARTS")
         \/ /\ order' = [order EXCEPT ![o].status = "APPROVED"]
            /\ Record(o, "APPROVE_WORK_ORDER")
         \/ /\ order' = [order EXCEPT ![o].status = "DISPATCHED"]
            /\ Record(o, "DISPATCH_WORK_ORDER")
         \/ /\ order' = [order EXCEPT ![o].status = "COMPLETED"]
            /\ Record(o, "COMPLETE_WORK_ORDER")
         \/ /\ order' = [order EXCEPT ![o].status = "CLOSED"]
            /\ Record(o, "CLOSE_WORK_ORDER")
  BY DEF ApproveOrder, DispatchOrder, CompleteOrder, CloseOrder, Handle, ReserveParts
<1>4. StoreTypes'
  <2> DEFINE T == [packet : Nat, status : {"NONE", "PENDING_HITL_APPROVAL", "APPROVED",
                                           "DISPATCHED", "COMPLETED", "CLOSED"}]
  <2>1. order \in [OrderIds -> T]
    BY <1>2 DEF StoreTypes
  <2>2. order' \in [OrderIds -> T]
    BY <1>3, <2>1
  <2> QED BY <1>1, <1>2, <2>2 DEF StoreTypes
<1>5. /\ \A x \in OrderIds : x # o => order'[x] = order[x]
      /\ order'[o].packet = order[o].packet /\ order'[o].status # "NONE"
  BY <1>2, <1>3 DEF StoreTypes
<1>6. EscalationInv'
  <2>1. \A x \in OrderIds : /\ order'[x].packet = order[x].packet
                            /\ order'[x].status = "NONE" <=> order[x].status = "NONE"
    BY <1>3, <1>5
  <2> QED BY <1>1, <1>2, <1>4, <2>1, EscalationFrame
<1>7. TrailInv'
  <2>1. PICK e \in {"RESERVE_PARTS", "APPROVE_WORK_ORDER", "DISPATCH_WORK_ORDER",
                    "COMPLETE_WORK_ORDER", "CLOSE_WORK_ORDER"} :
          /\ Record(o, e)
          /\ \/ e = OrderEntry[order'[o].status]
             \/ e = "RESERVE_PARTS" /\ order'[o].status # "NONE"
    BY <1>2, <1>3, <1>5, EntriesAre DEF StoreTypes
  <2> QED BY <1>1, <1>2, <1>5, <2>1, OrderEntryTold
<1> QED BY <1>1, <1>2, <1>4, <1>6, <1>7, ViewsFrame, AlertsFrame DEF Stores

(* A call that only leaves an entry about something else, or none.          *)
LEMMA ElsewhereStep ==
  ASSUME OrchestratorAssumption, GovernanceAssumption, AdaptiveAssumption, OInv, StoreTypes',
         UNCHANGED <<assets, packets, latest, health, twin, alerts, order, decision>>,
         \/ \E r \in ActionIds \cup Models \cup Settings \cup Assets : \E e : Record(r, e)
         \/ UNCHANGED trail
  PROVE  Stores'
<1>1. StoreTypes /\ ViewsInv /\ HistoryInv /\ AlertsInv /\ EscalationInv /\ TrailInv /\ TrailTypeOK
  BY DEF OInv, AInv
<1>2. EscalationInv'
  BY <1>1, EscalationFrame
<1>3. TrailInv'
  <2>1. CASE UNCHANGED trail
    BY <1>1, <2>1 DEF TrailInv, AlertTold, OrderTold, DecisionTold
  <2>2. CASE \E r \in ActionIds \cup Models \cup Settings \cup Assets : \E e : Record(r, e)
    BY <1>1, <2>2, OtherEntry
  <2> QED BY <2>1, <2>2
<1> QED BY <1>1, <1>2, <1>3, ViewsFrame, AlertsFrame DEF Stores

(* A call of the adaptive engine adds to the trail about an adaptation      *)
(* only.                                                                    *)
LEMMA AdaptiveRecords ==
  ASSUME AdaptiveNext PROVE \E i \in ActionIds : \E e : Record(i, e)
<1>1. ASSUME NEW i, NEW a, NEW kind, NEW current, NEW adapted,
             ProposeAdaptation(i, a, kind, current, adapted)
      PROVE  \E e : Record(i, e)
  BY <1>1 DEF ProposeAdaptation
<1>2. ASSUME NEW i, NEW role, ApproveAdaptation(i, role)
      PROVE  \E e : Record(i, e)
  BY <1>2 DEF ApproveAdaptation
<1> QED BY <1>1, <1>2 DEF AdaptiveNext, ProposeDrift, AdaptBaselineForSoiling,
                          AdaptThresholdForClimate

(* Every store, after a call of the governance engine.                      *)
LEMMA GovernanceStep ==
  ASSUME OrchestratorAssumption, GovernanceAssumption, AdaptiveAssumption, OInv,
         UNCHANGED <<assets, packets, latest, health, twin, alerts, order>>, GovernanceNext
  PROVE  Stores'
<1>1. StoreTypes /\ ViewsInv /\ HistoryInv /\ AlertsInv /\ EscalationInv /\ TrailInv /\ TrailTypeOK
  BY DEF OInv, AInv
<1>2. ASSUME NEW m \in Models, NEW digest \in Digests, RegisterModelVersion(m, digest)
      PROVE  Stores'
  <2>1. StoreTypes'
    BY <1>1, <1>2 DEF StoreTypes, RegisterModelVersion
  <2> QED BY <1>2, <2>1, ElsewhereStep DEF RegisterModelVersion
<1>3. ASSUME NEW s \in Settings, RecordConfigChange(s)
      PROVE  Stores'
  <2>1. StoreTypes'
    BY <1>1, <1>3 DEF StoreTypes, RecordConfigChange
  <2> QED BY <1>3, <2>1, ElsewhereStep DEF RecordConfigChange
<1>4. ASSUME NEW d \in DecisionIds, NEW e \in Outcomes, RecordHumanDecision(d, e)
      PROVE  Stores'
  <2>1. /\ decision[d].outcome # "NONE" /\ decision' = [decision EXCEPT ![d].outcome = e]
        /\ model' = model /\ changed' = changed
    BY <1>4 DEF RecordHumanDecision
  <2>2. StoreTypes'
    <3> DEFINE T == [packet : Nat \cup {NoPacket}, digest : Digests \cup {Fallback},
                     outcome : Outcomes \cup {"NONE", "PENDING_REVIEW"}]
    <3>1. decision \in [DecisionIds -> T]
      BY <1>1 DEF StoreTypes
    <3>2. decision' \in [DecisionIds -> T]
      BY <2>1, <3>1
    <3> QED BY <1>1, <2>1, <3>2 DEF StoreTypes
  <2>3. \A x \in DecisionIds :
          /\ decision'[x].packet = decision[x].packet
          /\ decision'[x].outcome = "NONE" <=> decision[x].outcome = "NONE"
    BY <1>1, <2>1 DEF StoreTypes, Outcomes
  <2>4. EscalationInv'
    BY <1>1, <2>2, <2>3, EscalationFrame
  <2>5. TrailInv'
    BY <1>1, <1>4, HumanDecisionTold
  <2> QED BY <1>1, <2>2, <2>4, <2>5, ViewsFrame, AlertsFrame DEF Stores
<1> QED BY <1>2, <1>3, <1>4 DEF GovernanceNext

(* Every store, after an asset or a twin is registered.                     *)
LEMMA RegistrationStep ==
  ASSUME OrchestratorAssumption, GovernanceAssumption, AdaptiveAssumption, OInv,
         NEW a \in Assets, RegisterAsset(a) \/ RegisterTwin(a)
  PROVE  Stores'
<1>1. StoreTypes /\ ViewsInv /\ HistoryInv /\ AlertsInv /\ EscalationInv /\ TrailInv /\ TrailTypeOK
  BY DEF OInv, AInv
<1>2. UNCHANGED <<packets, latest, alerts, order, model, decision, changed, trail>>
  BY DEF RegisterAsset, RegisterTwin, engines, govern
<1>3. /\ assets' = assets \/ assets' = [assets EXCEPT ![a] = Len(packets)]
      /\ health' = health \/ health' = [health EXCEPT ![a] = [at |-> 0, score |-> 100]]
      /\ twin' = twin \/ twin' = [twin EXCEPT ![a] = FreshTwin]
  BY DEF RegisterAsset, RegisterTwin
<1>4. FreshTwin \in [present : BOOLEAN, at : Nat, health : Int, history : Seq(Row)]
  <2>1. NoTwin \in [present : BOOLEAN, at : Nat, health : Int, history : Seq(Row)]
    BY DEF NoTwin
  <2> QED BY <2>1 DEF FreshTwin
<1>5. StoreTypes'
  <2> DEFINE T == [present : BOOLEAN, at : Nat, health : Int, history : Seq(Row)]
  <2>1. /\ Len(packets) \in Nat /\ assets \in [Assets -> Int]
        /\ health \in [Assets -> [at : Nat, score : Int]] /\ twin \in [Assets -> T]
    BY <1>1 DEF StoreTypes
  <2>2. twin' \in [Assets -> T]
    <3> HIDE DEF T
    <3> QED BY <1>3, <1>4, <2>1 DEF T
  <2>3. assets' \in [Assets -> Int]
    BY <1>3, <2>1
  <2> DEFINE H    == [at : Nat, score : Int]
             none == [at |-> 0, score |-> 100]
  <2>4. none \in H
    OBVIOUS
  <2>5. health' \in [Assets -> H]
    <3>1. health' = health \/ health' = [health EXCEPT ![a] = none]
      BY <1>3
    <3>2. health \in [Assets -> H]
      BY <2>1
    <3> HIDE DEF H, none
    <3> QED BY <2>4, <3>1, <3>2
  <2> QED BY <1>1, <1>2, <2>2, <2>3, <2>5 DEF StoreTypes
<1>6. ViewsInv' /\ HistoryInv'
  BY <1>1, RegisterAssetViews, RegisterTwinViews
<1>7. EscalationInv'
  <2>1. \A x \in Assets : assets'[x] = assets[x] \/ assets'[x] = Len(packets)
    BY <1>1, <1>3 DEF StoreTypes
  <2> QED BY <1>1, <1>2, <1>5, <2>1, EscalationFrame
<1>8. TrailInv'
  BY <1>1, <1>2 DEF TrailInv, AlertTold, OrderTold, DecisionTold
<1> QED BY <1>1, <1>2, <1>5, <1>6, <1>7, <1>8, AlertsFrame DEF Stores

(* Every store, after any step of the application.                          *)
LEMMA StoresStep ==
  ASSUME OrchestratorAssumption, GovernanceAssumption, AdaptiveAssumption, OInv, [Next]_vars
  PROVE  Stores'
<1>1. StoreTypes
  BY DEF OInv
<1>2. CASE PacketNext
  BY <1>2, PacketStep
<1>3. CASE PeopleNext
  <2>1. ASSUME NEW a \in Assets, GenerateExecutiveReport(a) PROVE Stores'
    <3>1. /\ UNCHANGED <<assets, packets, latest, health, twin, alerts, order, model, decision,
                         changed>>
          /\ Record(a, "GENERATE_EXECUTIVE_REPORT")
      BY <2>1 DEF GenerateExecutiveReport, views, engines, govern
    <3>2. StoreTypes'
      BY <1>1, <3>1 DEF StoreTypes
    <3> QED BY <3>1, <3>2, ElsewhereStep
  <2> QED BY <1>3, <2>1, AlertStep, OrderStep DEF PeopleNext
<1>4. CASE Registrations
  BY <1>4, RegistrationStep DEF Registrations
<1>5. CASE AdaptiveNext /\ UNCHANGED <<assets, packets, views, alerts, order, govern>>
  <2>1. UNCHANGED <<assets, packets, latest, health, twin, alerts, order, model, decision, changed>>
    BY <1>5 DEF views, govern
  <2>2. StoreTypes'
    BY <1>1, <2>1 DEF StoreTypes
  <2>3. \E r \in ActionIds : \E e : Record(r, e)
    BY <1>5, AdaptiveRecords
  <2> QED BY <2>1, <2>2, <2>3, ElsewhereStep
<1>6. CASE GovernanceNext /\ UNCHANGED <<assets, packets, views, alerts, order, adapt>>
  BY <1>6, GovernanceStep DEF views
<1>7. CASE UNCHANGED vars
  <2>1. UNCHANGED <<assets, packets, latest, health, twin, alerts, order, model, decision, changed,
                    trail>>
    BY <1>7 DEF vars, views, engines, govern
  <2>2. StoreTypes'
    BY <1>1, <2>1 DEF StoreTypes
  <2> QED BY <2>1, <2>2, ElsewhereStep
<1> QED BY <1>2, <1>3, <1>4, <1>5, <1>6, <1>7 DEF Next

(* A packet whose evaluation completes has its serious findings alerted.    *)
LEMMA AlertedStep ==
  ASSUME OrchestratorAssumption, GovernanceAssumption, AdaptiveAssumption, OInv, Stores', [Next]_vars
  PROVE  \A n \in DOMAIN packets' \ DOMAIN packets :
           Completes(packets'[n]) =>
             \A k \in SeriousKinds(packets'[n]) :
               Cardinality({i \in AlertIds :
                 /\ alerts'[i].status = "ACTIVE" /\ alerts'[i].kind = k
                 /\ packets'[alerts'[i].packet].asset = packets'[n].asset}) = 1
<1>1. CASE packets' = packets
  BY <1>1
<1>2. CASE PacketNext
  <2>1. PICK p \in PacketSet :
          \E id \in [SeriousKinds(p) -> AlertIds], o \in OrderIds, d \in DecisionIds :
            /\ \A j, k \in SeriousKinds(p) : id[j] = id[k] => j = k
            /\ ProcessTelemetryPacket(p, id, o, d)
    BY <1>2, PacketIs
  <2>2. PICK id \in [SeriousKinds(p) -> AlertIds], o \in OrderIds, d \in DecisionIds :
          /\ \A j, k \in SeriousKinds(p) : id[j] = id[k] => j = k
          /\ ProcessTelemetryPacket(p, id, o, d)
    BY <2>1
  <2>3. /\ packets' = Append(packets, p)
        /\ Completes(p) => DispatchAlerts(p, Len(packets) + 1, id)
    BY <2>2 DEF ProcessTelemetryPacket
  <2>4. StoreTypes /\ AlertsInv /\ AlertsInv'
    BY DEF OInv, Stores
  <2>5. \A n \in DOMAIN packets' \ DOMAIN packets : packets'[n] = p
    BY <2>3, <2>4, PacketsGrow DEF StoreTypes
  <2>6. Completes(p) =>
          \A k \in SeriousKinds(p) :
            Cardinality({i \in AlertIds :
              /\ alerts'[i].status = "ACTIVE" /\ alerts'[i].kind = k
              /\ packets'[alerts'[i].packet].asset = p.asset}) = 1
    BY <2>2, <2>3, <2>4, DispatchAlertsAll
  <2> QED BY <2>5, <2>6
<1>3. PacketNext \/ packets' = packets
  BY DEF Next, PeopleNext, AcknowledgeAlert, ResolveAlert, ApproveOrder, DispatchOrder,
         CompleteOrder, CloseOrder, Handle, ReserveParts, GenerateExecutiveReport,
         Registrations, RegisterAsset, RegisterTwin, vars
<1> QED BY <1>1, <1>2, <1>3

(* The inductive invariant of the application holds in every behaviour: of  *)
(* each store it says which packets it speaks of.                           *)
THEOREM ApplicationInvariant == Spec => []OInv
<1>1. Init => OInv
  BY AInvInit, StoresInit, AdaptiveAssumption, GovernanceAssumption, OrchestratorAssumption
     DEF OInv, Stores
<1>2. OInv /\ [Next]_vars => OInv'
  BY EveryStep, StoresStep, AdaptiveAssumption, GovernanceAssumption, OrchestratorAssumption
     DEF OInv, Stores
<1> QED BY <1>1, <1>2, PTL DEF Spec

(* The views of an asset follow the order in which packets arrived,         *)
(* wherever each of them stopped in process_telemetry_packet and whenever   *)
(* assets and twins are registered anew; a row of a twin's history carries  *)
(* the health the row before led to.                                        *)
THEOREM ViewsHold == Spec => []ViewsFollowArrival
<1>1. OInv => ViewsFollowArrival
  <2> SUFFICES ASSUME OInv, NEW a \in Assets
               PROVE  /\ latest[a] = LastOf(a, 0, LAMBDA p : TRUE)
                      /\ health[a].at = LastOf(a, assets[a], Scored)
                      /\ health[a].score = IF health[a].at = 0 THEN 100
                                           ELSE packets[health[a].at].score
                      /\ twin[a].present /\ twin[a].at # 0
                           => twin[a].at >= health[a].at /\ twin[a].at <= latest[a]
                      /\ \A k \in 2..Len(twin[a].history) :
                           LET before == twin[a].history[k - 1]
                               row    == twin[a].history[k] IN
                           row.health = IF Scored(packets[before.at]) THEN packets[before.at].score
                                                                      ELSE before.health
    BY DEF ViewsFollowArrival
  <2>1. /\ latest[a] = LastIn(Arrived(a)) /\ health[a].at = LastIn(Scorings(a))
        /\ health[a].at = 0 => health[a].score = 100
        /\ health[a].at # 0 => health[a].score = packets[health[a].at].score
        /\ twin[a].present /\ twin[a].at # 0
             => twin[a].at >= health[a].at /\ twin[a].at <= latest[a]
    BY DEF OInv, ViewsInv
  <2>2. \A k \in 2..Len(twin[a].history) :
          twin[a].history[k].health = Follows(packets, twin[a].history[k - 1])
    BY DEF OInv, HistoryInv, HistoryOK
  <2>3. \A row : Follows(packets, row) = IF Scored(packets[row.at]) THEN packets[row.at].score
                                                                    ELSE row.health
    BY DEF Follows
  <2>4. /\ latest[a] = LastOf(a, 0, LAMBDA p : TRUE)
        /\ health[a].at = LastOf(a, assets[a], Scored)
    BY <2>1, LastOfIs
  <2> QED BY <2>1, <2>2, <2>3, <2>4
<1> QED BY <1>1, ApplicationInvariant, PTL

(* A packet is escalated with one work order and one record of the decision *)
(* or with neither; if it is critical and was evaluated to the end (stage 9 *)
(* of process_telemetry_packet), it or an earlier one of its asset has both.*)
THEOREM EscalationHolds == Spec => []EscalatedOnce
<1>1. OInv => EscalatedOnce
  BY EscalationMeans DEF OInv
<1> QED BY <1>1, ApplicationInvariant, PTL

(* The last audit entry about an alert, a work order or a decision names    *)
(* the step that gave it its status (process_telemetry_packet and the calls *)
(* of people), whatever ids are in use.                                     *)
THEOREM TrailHolds == Spec => []TrailTellsStatus
<1>1. OInv => TrailTellsStatus
  BY TrailMeans, OrchestratorAssumption DEF OInv
<1> QED BY <1>1, ApplicationInvariant, PTL

(* A packet whose evaluation completes leaves exactly one ACTIVE alert of   *)
(* every kind of serious finding (stage 8), for any findings and history.   *)
THEOREM AlertsHold == Spec => FindingsAlerted
<1> DEFINE Alerted == \A n \in DOMAIN packets' \ DOMAIN packets :
             Completes(packets'[n]) =>
               \A k \in SeriousKinds(packets'[n]) :
                 Cardinality({i \in AlertIds :
                   /\ alerts'[i].status = "ACTIVE" /\ alerts'[i].kind = k
                   /\ packets'[alerts'[i].packet].asset = packets'[n].asset}) = 1
<1>1. OInv /\ [Next]_vars => [Alerted]_vars
  BY AlertedStep, StoresStep, AdaptiveAssumption, GovernanceAssumption, OrchestratorAssumption
<1> HIDE DEF Alerted
<1>2. Spec => [][Alerted]_vars
  BY <1>1, ApplicationInvariant, PTL DEF Spec
<1> QED BY <1>2, PTL DEF FindingsAlerted, Alerted

(* Every number a store keeps is that of a packet there is.                 *)
THEOREM ApplicationTyped == Spec => []TypeOK
<1>1. OInv => TypeOK
  <2> SUFFICES ASSUME OInv PROVE TypeOK
    OBVIOUS
  <2>1. AdaptiveTypeOK /\ StoreTypes /\ ViewsInv /\ HistoryInv /\ AlertsInv /\ EscalationInv
    BY DEF OInv, AInv
  <2>2. GovernanceTypeOK
    BY <2>1 DEF GovernanceTypeOK, StoreTypes, Outcomes
  <2>3. Len(packets) \in Nat
    BY <2>1 DEF StoreTypes
  <2>4. \A a \in Assets : /\ assets[a] \in -1..Len(packets) /\ latest[a] \in 0..Len(packets)
                          /\ health[a].at \in 0..Len(packets)
                          /\ health[a].score \in Scores \cup {100}
                          /\ twin[a].at \in 0..Len(packets)
    BY <2>1, <2>3 DEF StoreTypes, ViewsInv
  <2>5. \A a \in Assets : Len(twin[a].history) <= MaxHistory
    BY <2>1 DEF HistoryInv, HistoryOK
  <2> QED BY <2>1, <2>2, <2>4, <2>5 DEF TypeOK, AlertsInv, EscalationInv
<1> QED BY <1>1, ApplicationInvariant, PTL
=============================================================================
