----------------------------- MODULE Governance -----------------------------
(***************************************************************************)
(* GovernanceEngine (reamp/governance/engine.py): the registry of models,  *)
(* the records of AI decisions and of what a human decided on them, and    *)
(* the audited changes of configuration.  Data lineage is left out.        *)
(***************************************************************************)
EXTENDS AuditTrail

CONSTANTS
  DecisionIds,  (* decision_id values a fresh uuid may take                 *)
  Models,       (* "name:version" keys                                      *)
  Digests,      (* sha256_digest values a registration may carry            *)
  Settings,     (* target_setting values of configuration changes           *)
  NoPacket

Outcomes == {"PENDING_REVIEW", "APPROVED", "REJECTED", "MODIFIED"}

ASSUME GovernanceAssumption ==
  /\ DecisionIds \cup Models \cup Settings \subseteq Resources

VARIABLES
  model,     (* digest registered under each key, the fallback before       *)
  decision,  (* decision_records, [packet, model, digest, outcome]          *)
  changed    (* settings with a ConfigChangeRecord                          *)

govern == <<model, decision, changed>>

(* sha256 of the key: the digest of a decision whose model nobody registered *)
Fallback == "SHA-OF-KEY"

NoDecision == [packet |-> NoPacket, digest |-> Fallback, outcome |-> "NONE"]

GovernanceInit ==
  /\ model    = [m \in Models |-> Fallback]
  /\ decision = [d \in DecisionIds |-> NoDecision]
  /\ changed  = {}

(* Overwrites: decisions made before keep the digest they were made with.   *)
RegisterModelVersion(m, digest) ==
  /\ model' = [model EXCEPT ![m] = digest]
  /\ Record(m, "REGISTER_MODEL_VERSION")
  /\ UNCHANGED <<decision, changed>>

(* The record create_ai_decision_record makes for the packet it cites.      *)
DecisionRecord(m, packet) ==
  [packet |-> packet, digest |-> model[m], outcome |-> "PENDING_REVIEW"]

(* No guard on the outcome: a decision that was taken is taken again.       *)
RecordHumanDecision(d, outcome) ==
  /\ decision[d].outcome # "NONE"
  /\ decision' = [decision EXCEPT ![d].outcome = outcome]
  /\ Record(d, outcome)
  /\ UNCHANGED <<model, changed>>

(* Changes nothing but the record: the setting itself lives elsewhere.      *)
RecordConfigChange(s) ==
  /\ changed' = changed \cup {s}
  /\ Record(s, "CONFIG_CHANGE")
  /\ UNCHANGED <<model, decision>>

GovernanceNext ==
  \/ \E m \in Models, digest \in Digests : RegisterModelVersion(m, digest)
  \/ \E d \in DecisionIds, o \in Outcomes : RecordHumanDecision(d, o)
  \/ \E s \in Settings : RecordConfigChange(s)

-----------------------------------------------------------------------------

GovernanceTypeOK ==
  /\ model \in [Models -> Digests \cup {Fallback}]
  /\ \A d \in DecisionIds :
       /\ decision[d].digest \in Digests \cup {Fallback}
       /\ decision[d].outcome \in Outcomes \cup {"NONE"}
  /\ changed \subseteq Settings
=============================================================================
