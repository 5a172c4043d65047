----------------------------- MODULE WorkOrders -----------------------------
(***************************************************************************)
(* The maintenance workflow engine: reamp/cmms/workflow.py,                *)
(* CMMSWorkflowEngine, with the one handler of reamp/mvp/orchestrator.py   *)
(* that reaches the warehouse behind the engine's back                     *)
(* (reserve_parts_for_work_order).  It runs on top of Inventory.           *)
(*                                                                         *)
(* Every request handler is one action: the program is single threaded, so *)
(* what interleaves is the order of the calls of operators, technicians    *)
(* and the pipeline.  A call that raises before it changes anything is a   *)
(* disabled action; one that raises half way is an action of its own.      *)
(* Timestamps, notes, prices and the audit entry the orchestrator appends  *)
(* after each call are left out: no guard here reads them.                 *)
(***************************************************************************)
EXTENDS Inventory, Sequences, FiniteSetsExt

CONSTANTS
  WOs,              (* work_order_id values a fresh uuid may take           *)
  Incidents,        (* incident_id values                                   *)
  Techs,            (* technician_id values                                 *)
  Assets,
  Skills,           (* skill names other than GENERAL_MAINTENANCE           *)
  Profiles,         (* [skills, available]: what registrations carry        *)
  Recommendations,  (* [asset, paradigm, skill, parts] proposed by analytics*)
  Schedules,        (* [asset, mtype, skill, parts] of planned maintenance  *)
  MaxReceived,      (* bound: units of a SKU ever delivered                 *)
  NoIncident, NoTech

GENERAL == "GENERAL_MAINTENANCE"

MaintenanceTypes == {"CORRECTIVE", "PREVENTIVE", "CONDITION_BASED", "PREDICTIVE", "INSPECTION"}

Paradigms == {"REACTIVE", "CONDITION_BASED", "PREDICTIVE", "PRESCRIPTIVE"}

ASSUME WorkOrdersAssumption ==
  /\ NoIncident \notin Incidents
  /\ NoTech \notin Techs
  /\ Assets # {}
  /\ MaxReceived \in Nat
  /\ Profiles \subseteq [skills : SUBSET (Skills \cup {GENERAL}), available : BOOLEAN]
  /\ Recommendations \subseteq [asset : Assets, paradigm : Paradigms,
                                skill : Skills \cup {GENERAL}, parts : SUBSET Skus]
  /\ Schedules \subseteq [asset : Assets, mtype : MaintenanceTypes,
                          skill : Skills \cup {GENERAL}, parts : SUBSET Skus]

VARIABLES
  wo,          (* work_orders; status "NONE" for an id not handed out yet   *)
  incident,    (* incidents, [asset, status]                                *)
  tech,        (* technicians, [known, skills, available]                   *)
  assigned,    (* Technician.assigned_work_orders as a bag: [t][w] is the   *)
               (* number of occurrences, since nothing reads the order      *)
  logs,        (* maintenance_logs by work order, in order of creation      *)
  traces,      (* traceability_records by work order                        *)
  claims,      (* number of warranty_claims by work order                   *)
  warranties,  (* assets with a registered WarrantyRecord                   *)
  history,     (* asset_history: work orders closed on an asset             *)
  received     (* history variable: units ever put on the shelf             *)

desk    == <<logs, traces, claims, history>>
vars    == <<stock, wo, incident, tech, assigned, desk, warranties, received>>

Statuses == {"NONE", "DRAFT", "PENDING_HITL_APPROVAL", "APPROVED", "DISPATCHED",
             "IN_PROGRESS", "COMPLETED", "VERIFIED", "CLOSED", "REJECTED"}
IncidentStatuses  == {"NONE", "OPEN", "WORK_ORDER_CREATED", "CLOSED"}
Decisions         == {"NONE", "APPROVED", "REJECTED"}

WorkOrder == [status : Statuses, asset : Assets, incident : Incidents \cup {NoIncident},
              mtype : MaintenanceTypes, skill : Skills \cup {GENERAL},
              parts : SUBSET Skus,           (* required_parts              *)
              tech : Techs \cup {NoTech},    (* assigned_technician_id      *)
              hitl : Decisions,              (* hitl_approval.decision      *)
              held : [Skus -> Nat]]          (* metadata["reserved_parts"]  *)

Log   == [tech : Techs \cup {NoTech}, used : [Skus -> Nat]]
Trace == [decision : Decisions, log : BOOLEAN]
Visit == [wo : WOs, claimed : BOOLEAN]

Blank == [status |-> "NONE", asset |-> CHOOSE a \in Assets : TRUE, incident |-> NoIncident,
          mtype |-> "CORRECTIVE", skill |-> GENERAL, parts |-> {}, tech |-> NoTech,
          hitl |-> "NONE", held |-> OneOfEach({})]

Exists(w) == wo[w].status # "NONE"

-----------------------------------------------------------------------------

Init ==
  /\ InventoryInit
  /\ wo         = [w \in WOs |-> Blank]
  /\ incident   = [i \in Incidents |-> [asset |-> Blank.asset, status |-> "NONE"]]
  /\ tech       = [t \in Techs |-> [known |-> FALSE, skills |-> {}, available |-> FALSE]]
  /\ assigned   = [t \in Techs |-> [w \in WOs |-> 0]]
  /\ logs       = [w \in WOs |-> <<>>]
  /\ traces     = [w \in WOs |-> <<>>]
  /\ claims     = [w \in WOs |-> 0]
  /\ history    = [a \in Assets |-> <<>>]
  /\ warranties = {}
  /\ received   = onHand

(* register_technician stores a copy of the caller's record, whose list of  *)
(* assignments is empty: registering again drops the open ones.             *)
RegisterTechnician(t, p) ==
  /\ tech'     = [tech EXCEPT ![t] = [known |-> TRUE, skills |-> p.skills,
                                      available |-> p.available]]
  /\ assigned' = [assigned EXCEPT ![t] = [w \in WOs |-> 0]]
  /\ UNCHANGED <<stock, wo, incident, desk, warranties, received>>

RegisterWarranty(a) ==
  /\ warranties' = warranties \cup {a}
  /\ UNCHANGED <<stock, wo, incident, tech, assigned, desk, received>>

CreateIncident(i, a) ==
  /\ incident[i].status = "NONE"
  /\ incident' = [incident EXCEPT ![i] = [asset |-> a, status |-> "OPEN"]]
  /\ UNCHANGED <<stock, wo, tech, assigned, desk, warranties, received>>

MaintenanceTypeOf(p) ==
  CASE p = "REACTIVE"        -> "CORRECTIVE"
    [] p = "CONDITION_BASED" -> "CONDITION_BASED"
    [] OTHER                 -> "PREDICTIVE"

Draft(r, i, m) ==
  [Blank EXCEPT !.status = "PENDING_HITL_APPROVAL", !.asset = r.asset, !.incident = i,
                !.mtype = m, !.skill = r.skill, !.parts = r.parts]

(* Mutant of CreateWorkOrderFromRecommendation: the incident's status is    *)
(* not moved on.                                                            *)
CreateWorkOrderSilently(w, i, r) ==
  /\ ~ Exists(w)
  /\ incident[i].status # "NONE"
  /\ wo' = [wo EXCEPT ![w] = Draft(r, i, MaintenanceTypeOf(r.paradigm))]
  /\ UNCHANGED <<stock, incident, tech, assigned, desk, warranties, received>>

(* The incident is not looked at again: a closed one is reopened, and       *)
(* several orders may be drafted for the same incident.                     *)
CreateWorkOrderFromRecommendation(w, i, r) ==
  /\ ~ Exists(w)
  /\ incident[i].status # "NONE"
  /\ wo'       = [wo EXCEPT ![w] = Draft(r, i, MaintenanceTypeOf(r.paradigm))]
  /\ incident' = [incident EXCEPT ![i].status = "WORK_ORDER_CREATED"]
  /\ UNCHANGED <<stock, tech, assigned, desk, warranties, received>>

(* Planned work of whatever type the caller names: PREVENTIVE when it names *)
(* none, INSPECTION, or one of the types of unplanned work.                 *)
CreatePreventiveWorkOrder(w, r) ==
  /\ ~ Exists(w)
  /\ wo' = [wo EXCEPT ![w] = Draft(r, NoIncident, r.mtype)]
  /\ UNCHANGED <<stock, incident, tech, assigned, desk, warranties, received>>

(* Mutant of ApproveWorkOrder: no guard, like RejectWorkOrder.              *)
ApproveAnyStatus(w) ==
  /\ Exists(w)
  /\ wo' = [wo EXCEPT ![w] = [@ EXCEPT !.hitl = "APPROVED", !.status = "APPROVED"]]
  /\ UNCHANGED <<stock, incident, tech, assigned, desk, warranties, received>>

ApproveWorkOrder(w) ==
  /\ wo[w].status \in {"PENDING_HITL_APPROVAL", "DRAFT"}
  /\ wo' = [wo EXCEPT ![w] = [@ EXCEPT !.hitl = "APPROVED", !.status = "APPROVED"]]
  /\ UNCHANGED <<stock, incident, tech, assigned, desk, warranties, received>>

(* No guard on the status.  Reservations, and the technician's list, stay   *)
(* as they are.                                                             *)
RejectWorkOrder(w) ==
  /\ Exists(w)
  /\ wo' = [wo EXCEPT ![w] = [@ EXCEPT !.hitl = "REJECTED", !.status = "REJECTED"]]
  /\ incident' = [i \in Incidents |->
                    IF i = wo[w].incident THEN [incident[i] EXCEPT !.status = "CLOSED"]
                                          ELSE incident[i]]
  /\ UNCHANGED <<stock, tech, assigned, desk, warranties, received>>

(* The orchestrator's reserve_parts_for_work_order: any status, any number  *)
(* of times; the note of what was reserved is overwritten, not added to.    *)
ReservePartsForWorkOrder(w) ==
  /\ Exists(w)
  /\ wo[w].parts # {}
  /\ ReserveParts(OneOfEach(wo[w].parts))
  /\ wo' = [wo EXCEPT ![w] = [@ EXCEPT !.held = OneOfEach(wo[w].parts)]]
  /\ UNCHANGED <<incident, tech, assigned, desk, warranties, received>>

Qualified(t, w) ==
  /\ tech[t].known
  /\ tech[t].available
  /\ IF wo[w].skill = GENERAL THEN tech[t].skills # {} ELSE wo[w].skill \in tech[t].skills

(* Mutants of Dispatchable: the gate forgets the approval; it asks for any  *)
(* decision of a human.                                                     *)
DispatchableUnapproved(w) == wo[w].status \in {"PENDING_HITL_APPROVAL", "APPROVED"}
DispatchableDecided(w)    == wo[w].hitl # "NONE"

(* The safety gate of assign_and_dispatch.                                  *)
Dispatchable(w) == wo[w].status = "APPROVED"

Dispatch(w, t, held) ==
  /\ wo' = [wo EXCEPT ![w] = [@ EXCEPT !.tech = t, !.status = "DISPATCHED", !.held = held]]
  /\ assigned' = [assigned EXCEPT ![t][w] = @ + 1]
  /\ UNCHANGED <<incident, tech, desk, warranties, received>>

(* assign_and_dispatch with an explicit parts_allocation: all or nothing.   *)
DispatchWithAllocation(w, t, req) ==
  /\ Dispatchable(w)
  /\ Qualified(t, w)
  /\ ReserveParts(req)
  /\ Dispatch(w, t, req)

(* assign_and_dispatch without one, as the orchestrator calls it: one unit  *)
(* of each required part that happens to be available, silently without the *)
(* others.                                                                  *)
DispatchDefault(w, t) ==
  LET allocable == CheckAvailability(wo[w].parts) IN
  /\ Dispatchable(w)
  /\ Qualified(t, w)
  /\ IF allocable # {} THEN ReserveParts(OneOfEach(allocable)) ELSE UNCHANGED stock
  /\ Dispatch(w, t, IF allocable # {} THEN OneOfEach(allocable) ELSE wo[w].held)

StartWork(w) ==
  /\ wo[w].status = "DISPATCHED"
  /\ wo' = [wo EXCEPT ![w] = [@ EXCEPT !.status = "IN_PROGRESS"]]
  /\ UNCHANGED <<stock, incident, tech, assigned, desk, warranties, received>>

Underway(w) == wo[w].status \in {"DISPATCHED", "IN_PROGRESS"}

CompleteWork(w, used) ==
  /\ Underway(w)
  /\ ConsumeParts(used)
  /\ logs' = [logs EXCEPT ![w] = Append(@, [tech |-> wo[w].tech, used |-> used])]
  /\ wo'   = [wo EXCEPT ![w] = [@ EXCEPT !.status = "COMPLETED"]]
  /\ assigned' = [t \in Techs |->
                    IF t = wo[w].tech /\ tech[t].known /\ assigned[t][w] > 0
                    THEN [assigned[t] EXCEPT ![w] = @ - 1] ELSE assigned[t]]
  /\ UNCHANGED <<incident, tech, traces, claims, history, warranties, received>>

(* consume_parts raises: the order stays where it was, the parts that were  *)
(* deducted before the one at fault are gone and no log names them.         *)
CompleteWorkRaises(w, used) ==
  /\ Underway(w)
  /\ ConsumePartsRaises(used)
  /\ UNCHANGED <<wo, incident, tech, assigned, desk, warranties, received>>

(* An unhealthy verification leaves a note and raises: no change here.      *)
VerifyWorkOrder(w) ==
  /\ wo[w].status = "COMPLETED"
  /\ wo' = [wo EXCEPT ![w] = [@ EXCEPT !.status = "VERIFIED"]]
  /\ UNCHANGED <<stock, incident, tech, assigned, desk, warranties, received>>

(* Mutants of Closable: an order is closed in the field, unverified; one    *)
(* that is closed already is closed again.                                  *)
ClosableEarly(w) == wo[w].status \in {"DISPATCHED", "VERIFIED"}
ClosableAgain(w) == wo[w].status \in {"VERIFIED", "CLOSED"}

Closable(w) == wo[w].status = "VERIFIED"

Covered(w, active) ==
  wo[w].mtype = "CORRECTIVE" /\ wo[w].asset \in warranties /\ active

(* Mutant of HistoryEntry: every corrective order is entered as a claim.    *)
HistoryEntryByType(w, covered) == [wo |-> w, claimed |-> wo[w].mtype = "CORRECTIVE"]

HistoryEntry(w, covered) == [wo |-> w, claimed |-> covered]

(* "active": is_covered(now) of the asset's warranty at the closing time.   *)
CloseWorkOrder(w, active) ==
  /\ Closable(w)
  /\ claims'   = [claims EXCEPT ![w] = IF Covered(w, active) THEN @ + 1 ELSE @]
  /\ incident' = [i \in Incidents |->
                    IF i = wo[w].incident THEN [incident[i] EXCEPT !.status = "CLOSED"]
                                          ELSE incident[i]]
  /\ history'  = [history EXCEPT ![wo[w].asset] =
                    Append(@, HistoryEntry(w, Covered(w, active)))]
  /\ traces'   = [traces EXCEPT ![w] = Append(@, [decision |-> wo[w].hitl,
                                                  log |-> logs[w] # <<>>])]
  /\ wo'       = [wo EXCEPT ![w] = [@ EXCEPT !.status = "CLOSED"]]
  /\ UNCHANGED <<stock, tech, assigned, logs, warranties, received>>

(* A delivery: InventoryManager.restock.                                    *)
Delivery(s, n) ==
  /\ received[s] + n <= MaxReceived
  /\ Restock(s, n)
  /\ received' = [received EXCEPT ![s] = @ + n]
  /\ UNCHANGED <<wo, incident, tech, assigned, desk, warranties>>

-----------------------------------------------------------------------------

(* parts_consumed: what a technician reports to the engine, or the unit of  *)
(* each required part the orchestrator's complete_work_order assumes.       *)
Consumptions(w) == Requests \cup {OneOfEach(wo[w].parts)}

OrderNext(w) ==
  \/ \E i \in Incidents, r \in Recommendations : CreateWorkOrderFromRecommendation(w, i, r)
  \/ \E r \in Schedules : CreatePreventiveWorkOrder(w, r)
  \/ ApproveWorkOrder(w)
  \/ RejectWorkOrder(w)
  \/ ReservePartsForWorkOrder(w)
  \/ \E t \in Techs, req \in Requests : DispatchWithAllocation(w, t, req)
  \/ \E t \in Techs : DispatchDefault(w, t)
  \/ StartWork(w)
  \/ \E used \in Consumptions(w) : CompleteWork(w, used)
  \/ \E used \in Consumptions(w) : CompleteWorkRaises(w, used)
  \/ VerifyWorkOrder(w)
  \/ \E active \in BOOLEAN : CloseWorkOrder(w, active)

Next ==
  \/ \E w \in WOs : OrderNext(w)
  \/ \E t \in Techs, p \in Profiles : RegisterTechnician(t, p)
  \/ \E a \in Assets : RegisterWarranty(a)
  \/ \E i \in Incidents, a \in Assets : CreateIncident(i, a)
  \/ \E s \in Skus, n \in 1..MaxStock : Delivery(s, n)

Spec == Init /\ [][Next]_vars

-----------------------------------------------------------------------------

TypeOK ==
  /\ StockTypeOK
  /\ wo \in [WOs -> WorkOrder]
  /\ incident \in [Incidents -> [asset : Assets, status : IncidentStatuses]]
  /\ tech \in [Techs -> [known : BOOLEAN, skills : SUBSET (Skills \cup {GENERAL}),
                        available : BOOLEAN]]
  /\ assigned \in [Techs -> [WOs -> Nat]]
  /\ logs \in [WOs -> Seq(Log)]
  /\ traces \in [WOs -> Seq(Trace)]
  /\ claims \in [WOs -> Nat]
  /\ history \in [Assets -> Seq(Visit)]
  /\ warranties \subseteq Assets
  /\ received \in [Skus -> Nat]

Authorised == {"APPROVED", "DISPATCHED", "IN_PROGRESS", "COMPLETED", "VERIFIED", "CLOSED"}
Fielded    == Authorised \ {"APPROVED"}

(* The safety gate of assign_and_dispatch ("Prohibit dispatch without       *)
(* explicit human authorization"), for every order of calls: an order that  *)
(* got past approval carries an approval, nobody was sent out and nothing   *)
(* was logged for one that did not.                                         *)
HITLGate ==
  \A w \in WOs :
    /\ wo[w].status \in Authorised => wo[w].hitl = "APPROVED"
    /\ wo[w].status \in Fielded => wo[w].tech # NoTech
    /\ wo[w].hitl = "NONE" => wo[w].tech = NoTech /\ logs[w] = <<>> /\ traces[w] = <<>>

(* A technician's list names an order at most once, names only orders that  *)
(* were given to that technician, and none whose work is finished: the list *)
(* and the order are changed by different handlers and a registration may   *)
(* replace the list in between.                                             *)
AssignmentConsistent ==
  \A t \in Techs, w \in WOs :
    assigned[t][w] > 0 =>
      /\ assigned[t][w] = 1
      /\ wo[w].tech = t
      /\ wo[w].status \in {"DISPATCHED", "IN_PROGRESS", "REJECTED"}

(* Every TraceabilityRecord closes the chain decision -> action -> result:  *)
(* it cites an approval and a log, never "AUTO-SYSTEM" or "NO-ACTION-LOG",  *)
(* there is one for every closed order and none for an order still open.    *)
TraceComplete ==
  \A w \in WOs :
    /\ \A k \in DOMAIN traces[w] : traces[w][k] = [decision |-> "APPROVED", log |-> TRUE]
    /\ wo[w].status = "CLOSED" => Len(traces[w]) = 1
    /\ traces[w] # <<>> => wo[w].status \in {"CLOSED", "REJECTED"}

(* What the handlers rely on and no single one checks: an order whose work  *)
(* is finished has its one log, and one still before it has none; a list of *)
(* assignments belongs to a technician who is registered.                   *)
Bookkeeping ==
  /\ \A w \in WOs :
       /\ wo[w].status \in {"COMPLETED", "VERIFIED", "CLOSED"} => Len(logs[w]) = 1
       /\ wo[w].status \notin {"COMPLETED", "VERIFIED", "CLOSED", "REJECTED"} => logs[w] = <<>>
  /\ \A t \in Techs, w \in WOs : assigned[t][w] > 0 => tech[t].known

UsedBy(w, s) == SumFunction([k \in DOMAIN logs[w] |-> logs[w][k].used[s]])
Logged(s)    == SumFunction([w \in WOs |-> UsedBy(w, s)])

(* The logs never account for units the warehouse did not give out: what is *)
(* logged as consumed and what is still on the shelf were all received.     *)
LedgerSound == \A s \in Skus : onHand[s] + Logged(s) <= received[s]

OrdersOf(i) == {w \in WOs : wo[w].incident = i}

(* The status of an incident follows its orders although three handlers     *)
(* write it without looking: open means no order yet, and it is closed only *)
(* after one of its orders was closed or rejected.                          *)
IncidentsTrackOrders ==
  \A i \in Incidents :
    /\ incident[i].status \in {"NONE", "OPEN"} <=> OrdersOf(i) = {}
    /\ incident[i].status = "CLOSED" =>
         \E w \in OrdersOf(i) : wo[w].status \in {"CLOSED", "REJECTED"}

Visits(a, w, claimed) == {k \in DOMAIN history[a] : history[a][k] = [wo |-> w, claimed |-> claimed]}

(* The asset history, the traceability records and the warranty claims are  *)
(* three separate stores; they tell the same story of every order.          *)
HistoryAgrees ==
  \A w \in WOs :
    /\ Cardinality(Visits(wo[w].asset, w, TRUE)) = claims[w]
    /\ Cardinality(Visits(wo[w].asset, w, FALSE)) + claims[w] = Len(traces[w])

PhaseOf(status) ==
  CASE status = "NONE"        -> "absent"
    [] status = "DRAFT"       -> "proposed"
    [] status = "PENDING_HITL_APPROVAL" -> "proposed"
    [] status = "APPROVED"    -> "authorised"
    [] status = "DISPATCHED"  -> "underway"
    [] status = "IN_PROGRESS" -> "underway"
    [] status = "COMPLETED"   -> "done"
    [] status = "VERIFIED"    -> "accepted"
    [] status = "CLOSED"      -> "archived"
    [] status = "REJECTED"    -> "rejected"

Gate == INSTANCE MaintenanceGate WITH
  Orders    <- WOs,
  phase     <- [w \in WOs |-> PhaseOf(wo[w].status)],
  performed <- [w \in WOs |-> Len(logs[w])],
  archived  <- [w \in WOs |-> Len(traces[w])],
  recovered <- claims

(* The engine implements the gate: every handler is one step of it or none. *)
GatePromise == Gate!GateSpec

(* Of an order that was reopened by a second approval, completed again or   *)
(* closed again nothing may be logged, archived or claimed twice.           *)
ExactlyOnce == Gate!OnceInOrder

-----------------------------------------------------------------------------
(* What the documentation says and the code does not do.                    *)

(* docs/maintenance/maintenance_workflow.md:70, "Work order moves to        *)
(* `REJECTED`, parts reservations are released".                            *)
RejectReleases ==
  [][\A w \in WOs :
       /\ wo[w].status # "REJECTED" /\ wo'[w].status = "REJECTED"
       => \A s \in Skus : reserved'[s] = ClampedDiff(reserved[s], wo[w].held[s])]_vars

(* consume_parts, "Permanently consumes parts from warehouse stock upon     *)
(* maintenance completion": stock leaves only with an order's completion.   *)
ConsumedOnCompletion ==
  [][(\E s \in Skus : onHand'[s] < onHand[s])
       => \E w \in WOs : wo[w].status # "COMPLETED" /\ wo'[w].status = "COMPLETED"]_vars
=============================================================================
