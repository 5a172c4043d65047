--------------------------- MODULE MaintenanceGate ---------------------------
(***************************************************************************)
(* What the maintenance workflow promises of every work order, without its *)
(* warehouse, technicians and incidents: docs/maintenance/                 *)
(* maintenance_workflow.md, stages 7 to 12.  A proposal of the analytics   *)
(* is worked on only after an approval; work is logged once, archived once *)
(* and only after it was logged and accepted, and recovered from the       *)
(* warranty at most once; a rejected order never comes back.               *)
(***************************************************************************)
EXTENDS Integers

CONSTANT Orders

VARIABLES
  phase,     (* where each order stands                                     *)
  performed, (* number of execution logs of each order                      *)
  archived,  (* number of traceability records of each order                *)
  recovered  (* number of warranty claims of each order                     *)

gate == <<phase, performed, archived, recovered>>

Phases == {"absent", "proposed", "authorised", "underway", "done", "accepted",
           "archived", "rejected"}

GateInit ==
  /\ phase     = [o \in Orders |-> "absent"]
  /\ performed = [o \in Orders |-> 0]
  /\ archived  = [o \in Orders |-> 0]
  /\ recovered = [o \in Orders |-> 0]

Move(o, from, to) ==
  /\ phase[o] = from
  /\ phase' = [phase EXCEPT ![o] = to]

Advance(o) ==
  /\ \/ Move(o, "absent", "proposed")
     \/ Move(o, "proposed", "authorised")
     \/ Move(o, "authorised", "underway")
     \/ Move(o, "done", "accepted")
  /\ UNCHANGED <<performed, archived, recovered>>

Perform(o) ==
  /\ Move(o, "underway", "done")
  /\ performed' = [performed EXCEPT ![o] = @ + 1]
  /\ UNCHANGED <<archived, recovered>>

Archive(o) ==
  /\ Move(o, "accepted", "archived")
  /\ archived' = [archived EXCEPT ![o] = @ + 1]
  /\ \E n \in {0, 1} : recovered' = [recovered EXCEPT ![o] = @ + n]
  /\ UNCHANGED performed

Reject(o) ==
  /\ phase[o] # "absent"
  /\ phase' = [phase EXCEPT ![o] = "rejected"]
  /\ UNCHANGED <<performed, archived, recovered>>

GateNext == \E o \in Orders : Advance(o) \/ Perform(o) \/ Archive(o) \/ Reject(o)

GateSpec == GateInit /\ [][GateNext]_gate

-----------------------------------------------------------------------------

GateTypeOK ==
  /\ phase \in [Orders -> Phases]
  /\ performed \in [Orders -> Nat]
  /\ archived \in [Orders -> Nat]
  /\ recovered \in [Orders -> Nat]

(* Work is performed, archived and recovered at most once, in that order,   *)
(* and not before the order was authorised.                                 *)
OnceInOrder ==
  \A o \in Orders :
    /\ performed[o] <= 1
    /\ archived[o] <= performed[o]
    /\ recovered[o] <= archived[o]
    /\ phase[o] \in {"absent", "proposed", "authorised", "underway"} => performed[o] = 0
    /\ phase[o] \in {"done", "accepted", "archived"} => performed[o] = 1
    /\ phase[o] \in {"done", "accepted"} => archived[o] = 0
=============================================================================
