------------------------------ MODULE Adaptive ------------------------------
(***************************************************************************)
(* AdaptiveIntelligenceEngine (reamp/adaptive/engine.py) as the web        *)
(* endpoints (web_server.py, propose_adaptation, approve_adaptation) and   *)
(* the climate and soiling helpers drive it: baselines and thresholds that *)
(* move by themselves up to 10 %, and by a human's approval beyond.        *)
(*                                                                         *)
(* Multipliers are in units of 1/10000, the fourth decimal the code rounds *)
(* to; thresholds and temperatures are in 1/100; shifts are in percent.    *)
(* An audit entry names the asset as its resource and the action in its    *)
(* details; the trail here goes by the action.                             *)
(***************************************************************************)
EXTENDS AuditTrail, Integers, FiniteSets

CONSTANTS
  Assets,
  ActionIds,     (* action_id values a fresh uuid may take                  *)
  Shifts,        (* shift_pct values the web endpoint is given, in percent  *)
  Derates,       (* soiling_derate_factor values, in percent                *)
  Ambients,      (* mean ambient temperatures, 1/100 degree                 *)
  BaseThreshold, (* the metric's configured threshold, 1/100 degree         *)
  NoAsset, NoOne

Roles      == {"VIEWER", "OPERATOR", "CHIEF_ENGINEER", "SECURITY_ADMIN", "SYSTEM_SERVICE"}
Authorised == {"CHIEF_ENGINEER", "SECURITY_ADMIN"}
Kinds      == {"BASELINE_DRIFT", "DYNAMIC_THRESHOLD"}

ASSUME AdaptiveAssumption ==
  /\ ActionIds \subseteq Resources
  /\ NoAsset \notin Assets
  /\ NoOne \notin Roles
  /\ Shifts \subseteq Int
  /\ Derates \subseteq Nat
  /\ Ambients \subseteq Int
  /\ BaseThreshold \in Nat \ {0}

VARIABLES
  multiplier,  (* baseline_multipliers, 10000 where none is set             *)
  threshold,   (* active_thresholds of one metric, its base where none is   *)
  adaptation   (* adaptation_history by action_id                           *)

adapt == <<multiplier, threshold, adaptation>>

Adaptation == [asset : Assets \cup {NoAsset}, kind : Kinds, previous : Int, adapted : Int,
               hitl : BOOLEAN, status : {"NONE", "PENDING_HITL_APPROVAL", "ACTIVE"},
               by : Roles \cup {NoOne}]

NoAdaptation == [asset |-> NoAsset, kind |-> "BASELINE_DRIFT", previous |-> 0, adapted |-> 0,
                 hitl |-> FALSE, status |-> "NONE", by |-> NoOne]

AdaptiveInit ==
  /\ multiplier = [a \in Assets |-> 10000]
  /\ threshold  = [a \in Assets |-> BaseThreshold]
  /\ adaptation = [i \in ActionIds |-> NoAdaptation]

Magnitude(x) == IF x < 0 THEN -x ELSE x

(* The quotient rounded to the nearest integer, as round(., n) does.        *)
Nearest(x, d) == (2 * x + d) \div (2 * d)

Clamp(x, low, high) == IF x < low THEN low ELSE IF x > high THEN high ELSE x

Base(current) == IF current = 0 THEN 10000 ELSE Magnitude(current)

(* percentage_shift, in 1/100 percent of the value shifted from.            *)
PercentShift(current, adapted) == Nearest((adapted - current) * 10000, Base(current))

(* Mutant of RequiresHitl: only an increase is looked at.                   *)
RequiresHitlUpwards(current, adapted) == PercentShift(current, adapted) > 1000

(* GUARDRAIL_MAX_AUTONOMOUS_SHIFT_PCT = 10.0.                               *)
RequiresHitl(current, adapted) == Magnitude(PercentShift(current, adapted)) > 1000

(* _apply_adaptation: the value of the action replaces the one in force,    *)
(* whatever it was derived from.                                            *)
Apply(p) ==
  IF p.kind = "BASELINE_DRIFT"
  THEN multiplier' = [multiplier EXCEPT ![p.asset] = p.adapted] /\ UNCHANGED threshold
  ELSE threshold' = [threshold EXCEPT ![p.asset] = p.adapted] /\ UNCHANGED multiplier

(* Mutant of ProposeAdaptation: an action that waits is in force already.   *)
ProposeInForce(i, a, kind, current, adapted) ==
  LET hitl == RequiresHitl(current, adapted)
      p    == [asset |-> a, kind |-> kind, previous |-> current, adapted |-> adapted,
               hitl |-> hitl, by |-> NoOne,
               status |-> IF hitl THEN "PENDING_HITL_APPROVAL" ELSE "ACTIVE"] IN
  /\ adaptation[i].status = "NONE"
  /\ adaptation' = [adaptation EXCEPT ![i] = p]
  /\ Apply(p)
  /\ Record(i, "ADAPTATION_PROPOSED_ACTIVE")

ProposeAdaptation(i, a, kind, current, adapted) ==
  LET hitl == RequiresHitl(current, adapted)
      p    == [asset |-> a, kind |-> kind, previous |-> current, adapted |-> adapted,
               hitl |-> hitl, by |-> NoOne,
               status |-> IF hitl THEN "PENDING_HITL_APPROVAL" ELSE "ACTIVE"] IN
  /\ adaptation[i].status = "NONE"
  /\ adaptation' = [adaptation EXCEPT ![i] = p]
  /\ IF hitl THEN UNCHANGED <<multiplier, threshold>> ELSE Apply(p)
  /\ Record(i, IF hitl THEN "ADAPTATION_PROPOSED_PENDING_HITL_APPROVAL"
                       ELSE "ADAPTATION_PROPOSED_ACTIVE")

(* The web endpoint: a shift of the multiplier in force at that moment.     *)
ProposeDrift(i, a, shift) ==
  ProposeAdaptation(i, a, "BASELINE_DRIFT", multiplier[a],
                    Nearest(multiplier[a] * (100 + shift), 100))

(* adapt_baseline_for_soiling, called with the multiplier in force.         *)
AdaptBaselineForSoiling(i, a, derate) ==
  ProposeAdaptation(i, a, "BASELINE_DRIFT", multiplier[a],
                    Clamp(Nearest(multiplier[a] * derate, 100), 7000, 10000))

(* adapt_threshold_for_climate: from the configured threshold, never from   *)
(* the adapted one, by a quarter of the excess over 25 degrees, at most 5.  *)
AdaptThresholdForClimate(i, a, ambient) ==
  LET delta == IF ambient > 2500 THEN ambient - 2500 ELSE 0 IN
  ProposeAdaptation(i, a, "DYNAMIC_THRESHOLD", BaseThreshold,
                    BaseThreshold + Clamp(Nearest(delta, 4), 0, 500))

(* No look at the status or at what is in force by now: an action is        *)
(* approved at any time, again, and after newer ones.                       *)
ApproveAdaptation(i, role) ==
  /\ adaptation[i].status # "NONE"
  /\ role \in Authorised
  /\ adaptation' = [adaptation EXCEPT ![i] = [@ EXCEPT !.status = "ACTIVE", !.by = role]]
  /\ Apply(adaptation[i])
  /\ Record(i, "ADAPTATION_APPROVED_HITL")

AdaptiveNext ==
  \E i \in ActionIds :
    \/ \E a \in Assets, s \in Shifts : ProposeDrift(i, a, s)
    \/ \E a \in Assets, d \in Derates : AdaptBaselineForSoiling(i, a, d)
    \/ \E a \in Assets, t \in Ambients : AdaptThresholdForClimate(i, a, t)
    \/ \E r \in Roles : ApproveAdaptation(i, r)

-----------------------------------------------------------------------------

AdaptiveTypeOK ==
  /\ multiplier \in [Assets -> Int]
  /\ threshold \in [Assets -> Int]
  /\ adaptation \in [ActionIds -> Adaptation]

Active(a, kind) ==
  {adaptation[i].adapted : i \in {j \in ActionIds : /\ adaptation[j].asset = a
                                                    /\ adaptation[j].kind = kind
                                                    /\ adaptation[j].status = "ACTIVE"}}

(* HITL gating of adaptations for every order of proposals and approvals:   *)
(* what is in force was put there by an action that is ACTIVE, and no       *)
(* action beyond the guardrail is ACTIVE without an approver whose role may *)
(* approve it, an approver the audit trail names too.                       *)
InForceAuthorised ==
  /\ \A a \in Assets :
       /\ multiplier[a] \in Active(a, "BASELINE_DRIFT") \cup {10000}
       /\ threshold[a] \in Active(a, "DYNAMIC_THRESHOLD") \cup {BaseThreshold}
  /\ \A i \in ActionIds :
       /\ adaptation[i].hitl /\ adaptation[i].status = "ACTIVE"
            => adaptation[i].by \in Authorised
       /\ adaptation[i].by \in Authorised <=> trail[i] = "ADAPTATION_APPROVED_HITL"
       /\ adaptation[i].by # NoOne => adaptation[i].by \in Authorised

(* "Any shift > 10% strictly requires HITL approval": a step that moves the *)
(* multiplier in force by more than a tenth of it (and half of the last     *)
(* digit of the rounded percentage) is an approval, although what the step  *)
(* approves was measured against an older value.                            *)
Guardrail ==
  \A a \in Assets :
    Magnitude(multiplier'[a] - multiplier[a]) * 100000 > Base(multiplier[a]) * 10005
      => \E i \in ActionIds :
           /\ adaptation'[i].by \in Authorised
           /\ adaptation'[i].adapted = multiplier'[a]

GuardrailHolds == [][Guardrail]_<<adapt, trail>>
=============================================================================
