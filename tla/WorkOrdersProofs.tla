-------------------------- MODULE WorkOrdersProofs --------------------------
(***************************************************************************)
(* The maintenance workflow and the warehouse it draws on are safe for     *)
(* every number of orders, technicians and parts and every order of calls, *)
(* and the engine implements MaintenanceGate.                              *)
(*                                                                         *)
(* The inductive invariant is Inv: each property of the workflow that is   *)
(* proved needs the others (an assignment is unique because only an        *)
(* approved order is dispatched; a trace cites a log because a verified    *)
(* order has one), so they are carried through a step together.            *)
(***************************************************************************)
EXTENDS WorkOrders, FoldLemmas, FiniteSetTheorems, TLAPS

(***************************************************************************)
(* The warehouse keeps its promises under every operation, for every set   *)
(* of SKUs and every request: lemmas on the operations, which the proofs   *)
(* about the workflow cite, and the theorem on the manager alone.          *)
(***************************************************************************)

StockInv == StockTypeOK /\ NoOvercommit /\ OnlyCatalogued

(* A clamped difference is a natural number that never exceeds the minuend. *)
LEMMA ClampedDiffNat ==
  ASSUME NEW a \in Nat, NEW b \in Nat
  PROVE  /\ ClampedDiff(a, b) \in Nat
         /\ ClampedDiff(a, b) <= a
         /\ a >= b => ClampedDiff(a, b) = a - b
         /\ a < b => ClampedDiff(a, b) = 0
BY DEF ClampedDiff

(* A dict with one unit of each of some SKUs is a legal request.            *)
LEMMA OneOfEachType ==
  ASSUME NEW S
  PROVE  OneOfEach(S) \in [Skus -> Nat]
BY DEF OneOfEach

(* reserve_parts only promises units that are on hand and unpromised.       *)
LEMMA ReservePartsPreserves ==
  ASSUME StockInv, NEW req \in [Skus -> Nat], ReserveParts(req)
  PROVE  StockInv'
<1>1. StockTypeOK'
  BY DEF StockInv, StockTypeOK, ReserveParts
<1>2. ASSUME NEW s \in Skus
      PROVE  reserved'[s] <= onHand'[s] /\ (s \notin catalog' => onHand'[s] = 0 /\ reserved'[s] = 0)
  <2>1. onHand[s] \in Nat /\ reserved[s] \in Nat /\ req[s] \in Nat /\ reserved[s] <= onHand[s]
    BY DEF StockInv, StockTypeOK, NoOvercommit
  <2>2. reserved'[s] = reserved[s] + req[s] /\ onHand' = onHand /\ catalog' = catalog
    BY DEF ReserveParts
  <2>3. req[s] > 0 => s \in catalog /\ AvailableQuantity(s) >= req[s]
    BY DEF ReserveParts
  <2>4. AvailableQuantity(s) = onHand[s] - reserved[s]
    BY <2>1 DEF AvailableQuantity, ClampedDiff
  <2>5. s \notin catalog => onHand[s] = 0 /\ reserved[s] = 0
    BY DEF StockInv, OnlyCatalogued
  <2> QED
    BY <2>1, <2>2, <2>3, <2>4, <2>5
<1> QED
  BY <1>1, <1>2 DEF StockInv, NoOvercommit, OnlyCatalogued

(* Releasing can only shrink a reservation.                                 *)
LEMMA ReleasePreserves ==
  ASSUME StockInv, NEW req \in [Skus -> Nat], ReleaseReservation(req)
  PROVE  StockInv'
<1>1. ASSUME NEW s \in Skus
      PROVE  /\ reserved'[s] \in Nat
             /\ reserved'[s] <= onHand'[s]
             /\ s \notin catalog' => onHand'[s] = 0 /\ reserved'[s] = 0
  <2>1. onHand[s] \in Nat /\ reserved[s] \in Nat /\ req[s] \in Nat /\ reserved[s] <= onHand[s]
    BY DEF StockInv, StockTypeOK, NoOvercommit
  <2>2. reserved'[s] = ClampedDiff(reserved[s], req[s]) /\ onHand' = onHand /\ catalog' = catalog
    BY DEF ReleaseReservation
  <2>3. s \notin catalog => onHand[s] = 0 /\ reserved[s] = 0
    BY DEF StockInv, OnlyCatalogued
  <2> QED
    BY <2>1, <2>2, <2>3 DEF ClampedDiff
<1>2. reserved' \in [Skus -> Nat]
  BY <1>1 DEF ReleaseReservation
<1> QED
  BY <1>1, <1>2 DEF StockInv, StockTypeOK, NoOvercommit, OnlyCatalogued, ReleaseReservation

(* The loop of consume_parts, stopped after any set of consumable SKUs,     *)
(* moves both counters of a SKU so that the reservation stays covered.      *)
LEMMA DeductPreserves ==
  ASSUME StockInv, NEW req \in [Skus -> Nat],
         NEW S \in SUBSET Consumable(req), Deduct(S, req)
  PROVE  StockInv'
<1>1. ASSUME NEW s \in Skus
      PROVE  /\ onHand'[s] \in Nat /\ reserved'[s] \in Nat
             /\ reserved'[s] <= onHand'[s]
             /\ s \notin catalog' => onHand'[s] = 0 /\ reserved'[s] = 0
  <2>1. onHand[s] \in Nat /\ reserved[s] \in Nat /\ req[s] \in Nat /\ reserved[s] <= onHand[s]
    BY DEF StockInv, StockTypeOK, NoOvercommit
  <2>2. s \notin catalog => onHand[s] = 0 /\ reserved[s] = 0
    BY DEF StockInv, OnlyCatalogued
  <2>3. catalog' = catalog
    BY DEF Deduct
  <2>4. CASE s \in S
    <3>1. onHand'[s] = onHand[s] - req[s] /\ reserved'[s] = ClampedDiff(reserved[s], req[s])
      BY <2>4 DEF Deduct
    <3>2. s \in catalog /\ onHand[s] >= req[s]
      BY <2>4 DEF Consumable
    <3> QED
      BY <2>1, <2>3, <3>1, <3>2 DEF ClampedDiff
  <2>5. CASE s \notin S
    <3>1. onHand'[s] = onHand[s] /\ reserved'[s] = reserved[s]
      BY <2>5 DEF Deduct
    <3> QED
      BY <2>1, <2>2, <2>3, <3>1
  <2> QED
    BY <2>4, <2>5
<1>2. onHand' \in [Skus -> Nat] /\ reserved' \in [Skus -> Nat]
  BY <1>1 DEF Deduct
<1> QED
  BY <1>1, <1>2 DEF StockInv, StockTypeOK, NoOvercommit, OnlyCatalogued, Deduct

(* consume_parts keeps the promises whether it completes or raises.         *)
LEMMA ConsumePreserves ==
  ASSUME StockInv, NEW req \in [Skus -> Nat], ConsumeParts(req) \/ ConsumePartsRaises(req)
  PROVE  StockInv'
<1>1. PICK S \in SUBSET Consumable(req) : Deduct(S, req)
  BY DEF ConsumeParts, ConsumePartsRaises
<1> QED
  BY <1>1, DeductPreserves

(* A delivery adds to the shelf and to nothing else.                        *)
LEMMA RestockPreserves ==
  ASSUME StockInv, NEW s \in Skus, NEW n \in Nat, Restock(s, n)
  PROVE  StockInv'
BY DEF StockInv, StockTypeOK, NoOvercommit, OnlyCatalogued, Restock

(* register_part puts a SKU and its opening stock into the catalogue.       *)
LEMMA RegisterPreserves ==
  ASSUME StockInv, NEW s \in Skus, NEW n \in Nat, RegisterPart(s, n)
  PROVE  StockInv'
BY DEF StockInv, StockTypeOK, NoOvercommit, OnlyCatalogued, RegisterPart

(* The shelves of a freshly started warehouse keep its promises.            *)
LEMMA InventoryInitInv ==
  ASSUME InventoryInit
  PROVE  StockInv
<1>1. PICK o \in Openings : catalog = o.catalog /\ onHand = o.onHand
  BY DEF InventoryInit
<1>2. o.catalog \subseteq Skus /\ o.onHand \in [Skus -> 0..MaxStock]
  BY InventoryAssumption DEF InventoryAssumption
<1>3. \A s \in Skus \ catalog : onHand[s] = 0
  BY <1>1, InventoryAssumption DEF InventoryAssumption
<1>4. onHand \in [Skus -> Nat] /\ reserved = [s \in Skus |-> 0]
  BY <1>1, <1>2, InventoryAssumption DEF InventoryInit, InventoryAssumption
<1> QED
  BY <1>1, <1>2, <1>3, <1>4 DEF StockInv, StockTypeOK, NoOvercommit, OnlyCatalogued

(* No sequence of calls to the InventoryManager promises a unit that is not *)
(* on hand, nor stock of a SKU that is not in the catalogue.                *)
THEOREM InventoryCorrect == InventorySpec => [](StockTypeOK /\ NoOvercommit /\ OnlyCatalogued)
<1>1. InventoryInit => StockInv
  BY InventoryInitInv
<1>2. StockInv /\ [InventoryNext]_stock => StockInv'
  <2> SUFFICES ASSUME StockInv, [InventoryNext]_stock
               PROVE  StockInv'
    OBVIOUS
  <2>1. ASSUME NEW s \in Skus, NEW n \in 0..MaxStock, RegisterPart(s, n)
        PROVE  StockInv'
    BY <2>1, RegisterPreserves, InventoryAssumption DEF InventoryAssumption
  <2>2. ASSUME NEW s \in Skus, NEW n \in 1..MaxStock, Restock(s, n)
        PROVE  StockInv'
    BY <2>2, RestockPreserves, InventoryAssumption DEF InventoryAssumption
  <2>3. ASSUME NEW req \in Requests, ReserveParts(req)
        PROVE  StockInv'
    BY <2>3, ReservePartsPreserves, InventoryAssumption DEF InventoryAssumption
  <2>4. ASSUME NEW req \in Requests, ReleaseReservation(req)
        PROVE  StockInv'
    BY <2>4, ReleasePreserves, InventoryAssumption DEF InventoryAssumption
  <2>5. ASSUME NEW req \in Requests, ConsumeParts(req) \/ ConsumePartsRaises(req)
        PROVE  StockInv'
    BY <2>5, ConsumePreserves, InventoryAssumption DEF InventoryAssumption
  <2>6. CASE UNCHANGED stock
    BY <2>6 DEF stock, StockInv, StockTypeOK, NoOvercommit, OnlyCatalogued
  <2> QED
    BY <2>1, <2>2, <2>3, <2>4, <2>5, <2>6 DEF InventoryNext
<1>3. StockInv => StockTypeOK /\ NoOvercommit /\ OnlyCatalogued
  BY DEF StockInv
<1> QED
  BY <1>1, <1>2, <1>3, PTL DEF InventorySpec

-----------------------------------------------------------------------------
(***************************************************************************)
(* The workflow: one invariant, carried through every step of an order.    *)
(***************************************************************************)

Inv == /\ TypeOK
       /\ StockInv
       /\ HITLGate
       /\ AssignmentConsistent
       /\ TraceComplete
       /\ Bookkeeping

(* No handler takes stock out of its promises.                              *)
LEMMA StockStep ==
  ASSUME TypeOK, StockInv, [Next]_vars
  PROVE  StockInv'
<1> USE DEF stock
<1>1. ASSUME UNCHANGED stock PROVE StockInv'
  BY <1>1 DEF StockInv, StockTypeOK, NoOvercommit, OnlyCatalogued
<1>2. ASSUME NEW req \in [Skus -> Nat], ReserveParts(req) PROVE StockInv'
  BY <1>2, ReservePartsPreserves
<1>3. ASSUME NEW w \in WOs, OrderNext(w) PROVE StockInv'
  <2>1. ASSUME NEW i \in Incidents, NEW r \in Recommendations,
               CreateWorkOrderFromRecommendation(w, i, r)
        PROVE  StockInv'
    BY <2>1, <1>1 DEF CreateWorkOrderFromRecommendation
  <2>2. ASSUME NEW r \in Schedules, CreatePreventiveWorkOrder(w, r) PROVE StockInv'
    BY <2>2, <1>1 DEF CreatePreventiveWorkOrder
  <2>3. CASE ApproveWorkOrder(w) \/ RejectWorkOrder(w) \/ StartWork(w) \/ VerifyWorkOrder(w)
    BY <2>3, <1>1 DEF ApproveWorkOrder, RejectWorkOrder, StartWork, VerifyWorkOrder
  <2>4. CASE ReservePartsForWorkOrder(w)
    BY <2>4, <1>2, OneOfEachType DEF ReservePartsForWorkOrder
  <2>5. ASSUME NEW t \in Techs, NEW req \in Requests, DispatchWithAllocation(w, t, req)
        PROVE  StockInv'
    BY <2>5, <1>2, InventoryAssumption DEF DispatchWithAllocation, InventoryAssumption
  <2>6. ASSUME NEW t \in Techs, DispatchDefault(w, t) PROVE StockInv'
    BY <2>6, <1>1, <1>2, OneOfEachType DEF DispatchDefault, Dispatchable
  <2>7. ASSUME NEW used \in Consumptions(w), CompleteWork(w, used) \/ CompleteWorkRaises(w, used)
        PROVE  StockInv'
    <3>1. used \in [Skus -> Nat]
      BY InventoryAssumption, OneOfEachType DEF InventoryAssumption, Consumptions
    <3> QED
      BY <2>7, <3>1, ConsumePreserves DEF CompleteWork, CompleteWorkRaises
  <2>8. ASSUME NEW active \in BOOLEAN, CloseWorkOrder(w, active) PROVE StockInv'
    BY <2>8, <1>1 DEF CloseWorkOrder
  <2> QED
    BY <1>3, <2>1, <2>2, <2>3, <2>4, <2>5, <2>6, <2>7, <2>8 DEF OrderNext
<1>4. ASSUME NEW t \in Techs, NEW p \in Profiles, RegisterTechnician(t, p) PROVE StockInv'
  BY <1>4, <1>1 DEF RegisterTechnician
<1>5. ASSUME NEW a \in Assets, RegisterWarranty(a) PROVE StockInv'
  BY <1>5, <1>1 DEF RegisterWarranty
<1>6. ASSUME NEW i \in Incidents, NEW a \in Assets, CreateIncident(i, a) PROVE StockInv'
  BY <1>6, <1>1 DEF CreateIncident
<1>7. ASSUME NEW s \in Skus, NEW n \in 1..MaxStock, Delivery(s, n) PROVE StockInv'
  BY <1>7, RestockPreserves, InventoryAssumption DEF Delivery, InventoryAssumption
<1>8. CASE UNCHANGED vars
  BY <1>8, <1>1 DEF vars
<1> QED
  BY <1>3, <1>4, <1>5, <1>6, <1>7, <1>8 DEF Next

(* The record of a new order is well formed.                                *)
LEMMA DraftType ==
  ASSUME NEW r, r.asset \in Assets, r.skill \in Skills \cup {GENERAL}, r.parts \subseteq Skus,
         NEW i \in Incidents \cup {NoIncident}, NEW m \in MaintenanceTypes
  PROVE  /\ Draft(r, i, m) \in WorkOrder
         /\ Draft(r, i, m).status = "PENDING_HITL_APPROVAL"
         /\ Draft(r, i, m).hitl = "NONE"
         /\ Draft(r, i, m).tech = NoTech
<1>1. Blank \in WorkOrder
  BY OneOfEachType, WorkOrdersAssumption
  DEF Blank, WorkOrder, Statuses, MaintenanceTypes, Decisions, WorkOrdersAssumption
<1> QED
  BY <1>1 DEF Draft, Blank, WorkOrder, Statuses

(* The parts of the invariant that are not about the stock.                 *)
Desk == HITLGate /\ AssignmentConsistent /\ TraceComplete /\ Bookkeeping

(* A draft under a fresh id is known to no list, log or trace.              *)
LEMMA CreateStep ==
  ASSUME Inv, NEW w \in WOs, ~ Exists(w),
         NEW d \in WorkOrder, d.status = "PENDING_HITL_APPROVAL", d.hitl = "NONE", d.tech = NoTech,
         wo' = [wo EXCEPT ![w] = d],
         UNCHANGED <<tech, assigned, desk>>
  PROVE  Desk' /\ wo' \in [WOs -> WorkOrder]
<1> USE DEF Inv, TypeOK, Exists, desk
<1>0. wo' \in [WOs -> WorkOrder]
  OBVIOUS
<1>1. HITLGate'
  BY DEF HITLGate, Authorised, Fielded, WorkOrder, Bookkeeping, TraceComplete
<1>2. AssignmentConsistent'
  BY DEF AssignmentConsistent
<1>3. TraceComplete'
  BY DEF TraceComplete
<1>4. Bookkeeping'
  BY DEF Bookkeeping
<1> QED
  BY <1>0, <1>1, <1>2, <1>3, <1>4 DEF Desk

(* A handler that changes nothing of the orders, lists, logs and traces.    *)
LEMMA DeskUnchanged ==
  ASSUME Inv, UNCHANGED <<wo, assigned, logs, traces>>, tech' = tech
  PROVE  Desk'
BY DEF Inv, Desk, HITLGate, AssignmentConsistent, TraceComplete, Bookkeeping

(* A registration may empty a list of assignments and never fills one.      *)
LEMMA RegisterTechnicianStep ==
  ASSUME Inv, NEW t \in Techs, NEW p \in Profiles, RegisterTechnician(t, p)
  PROVE  Desk' /\ TypeOK'
<1> USE DEF Inv, TypeOK, RegisterTechnician, desk, stock
<1>1. p.skills \in SUBSET (Skills \cup {GENERAL}) /\ p.available \in BOOLEAN
  BY WorkOrdersAssumption DEF WorkOrdersAssumption
<1>2. TypeOK'
  BY <1>1 DEF StockTypeOK
<1>3. HITLGate' /\ TraceComplete'
  BY DEF HITLGate, TraceComplete
<1>4. AssignmentConsistent' /\ Bookkeeping'
  BY DEF AssignmentConsistent, Bookkeeping
<1> QED
  BY <1>2, <1>3, <1>4 DEF Desk

(* What an order is to the desk is its status, its decision and its         *)
(* technician; an action that replaces one record leaves the others alone.  *)
LEMMA Replaced ==
  ASSUME TypeOK, NEW w \in WOs, NEW q \in WorkOrder, wo' = [wo EXCEPT ![w] = q]
  PROVE  /\ wo' \in [WOs -> WorkOrder]
         /\ wo'[w] = q
         /\ \A v \in WOs \ {w} : wo'[v] = wo[v]
BY DEF TypeOK

(* Closing the incident of an order, if it has one, leaves the incidents    *)
(* well formed.                                                             *)
LEMMA IncidentsType ==
  ASSUME TypeOK, NEW i,
         incident' = [j \in Incidents |-> IF j = i THEN [incident[j] EXCEPT !.status = "CLOSED"]
                                                   ELSE incident[j]]
  PROVE  incident' \in [Incidents -> [asset : Assets, status : IncidentStatuses]]
BY DEF TypeOK, IncidentStatuses

(* Approval and rejection: a decision and a status, and nothing the         *)
(* technicians, the logs or the traces depend on.                           *)
LEMMA DecideStep ==
  ASSUME Inv, NEW w \in WOs, ApproveWorkOrder(w) \/ RejectWorkOrder(w)
  PROVE  Desk' /\ TypeOK'
<1>1. PICK h \in {"APPROVED", "REJECTED"} :
        /\ wo' = [wo EXCEPT ![w] = [wo[w] EXCEPT !.hitl = h, !.status = h]]
        /\ h = "APPROVED" => wo[w].status \in {"PENDING_HITL_APPROVAL", "DRAFT"}
        /\ wo[w].status # "NONE"
  BY DEF ApproveWorkOrder, RejectWorkOrder, Exists
<1>2. UNCHANGED <<stock, tech, assigned, logs, traces, claims, history, warranties, received>>
  BY DEF ApproveWorkOrder, RejectWorkOrder, desk
<1>3. wo[w] \in WorkOrder
  BY DEF Inv, TypeOK
<1> DEFINE q == [wo[w] EXCEPT !.hitl = h, !.status = h]
<1>4. q \in WorkOrder /\ q.status = h /\ q.hitl = h /\ q.tech = wo[w].tech
  BY <1>3 DEF WorkOrder, Statuses, Decisions
<1> HIDE DEF q
<1>5. wo' \in [WOs -> WorkOrder] /\ wo'[w] = q /\ \A v \in WOs \ {w} : wo'[v] = wo[v]
  BY <1>1, <1>4, Replaced DEF Inv, q
<1>6. incident' \in [Incidents -> [asset : Assets, status : IncidentStatuses]]
  <2>1. CASE ApproveWorkOrder(w)
    BY <2>1 DEF Inv, TypeOK, ApproveWorkOrder
  <2>2. CASE RejectWorkOrder(w)
    BY <2>2, IncidentsType DEF Inv, RejectWorkOrder
  <2> QED
    BY <2>1, <2>2
<1>7. TypeOK'
  BY <1>2, <1>5, <1>6 DEF Inv, TypeOK, StockTypeOK, stock
<1>8. HITLGate'
  BY <1>1, <1>2, <1>4, <1>5 DEF Inv, HITLGate, Authorised, Fielded
<1>9. AssignmentConsistent'
  BY <1>1, <1>2, <1>4, <1>5 DEF Inv, AssignmentConsistent
<1>10. TraceComplete'
  BY <1>1, <1>2, <1>4, <1>5 DEF Inv, TraceComplete
<1>11. Bookkeeping'
  BY <1>1, <1>2, <1>4, <1>5 DEF Inv, Bookkeeping
<1> QED
  BY <1>7, <1>8, <1>9, <1>10, <1>11 DEF Desk

(* Starting and verifying: one step of the status.                          *)
LEMMA AdvanceStep ==
  ASSUME Inv, NEW w \in WOs, StartWork(w) \/ VerifyWorkOrder(w)
  PROVE  Desk' /\ TypeOK'
<1>1. PICK st \in {"IN_PROGRESS", "VERIFIED"} :
        /\ wo' = [wo EXCEPT ![w] = [wo[w] EXCEPT !.status = st]]
        /\ st = "IN_PROGRESS" => wo[w].status = "DISPATCHED"
        /\ st = "VERIFIED" => wo[w].status = "COMPLETED"
  BY DEF StartWork, VerifyWorkOrder
<1>2. UNCHANGED <<stock, incident, tech, assigned, logs, traces, claims, history, warranties,
                  received>>
  BY DEF StartWork, VerifyWorkOrder, desk
<1>3. wo[w] \in WorkOrder
  BY DEF Inv, TypeOK
<1> DEFINE q == [wo[w] EXCEPT !.status = st]
<1>4. q \in WorkOrder /\ q.status = st /\ q.hitl = wo[w].hitl /\ q.tech = wo[w].tech
  BY <1>3 DEF WorkOrder, Statuses
<1> HIDE DEF q
<1>5. wo' \in [WOs -> WorkOrder] /\ wo'[w] = q /\ \A v \in WOs \ {w} : wo'[v] = wo[v]
  BY <1>1, <1>4, Replaced DEF Inv, q
<1>6. TypeOK'
  BY <1>2, <1>5 DEF Inv, TypeOK, StockTypeOK, stock
<1>7. HITLGate'
  BY <1>1, <1>2, <1>4, <1>5 DEF Inv, HITLGate, Authorised, Fielded
<1>8. AssignmentConsistent'
  BY <1>1, <1>2, <1>4, <1>5 DEF Inv, AssignmentConsistent
<1>9. TraceComplete'
  BY <1>1, <1>2, <1>4, <1>5 DEF Inv, TraceComplete
<1>10. Bookkeeping'
  BY <1>1, <1>2, <1>4, <1>5 DEF Inv, Bookkeeping
<1> QED
  BY <1>6, <1>7, <1>8, <1>9, <1>10 DEF Desk

(* A note of what was reserved touches no order's standing.                 *)
LEMMA ReserveStep ==
  ASSUME Inv, NEW w \in WOs, ReservePartsForWorkOrder(w), StockInv'
  PROVE  Desk' /\ TypeOK'
<1> DEFINE hd == OneOfEach(wo[w].parts)
           q  == [wo[w] EXCEPT !.held = hd]
<1>1. hd \in [Skus -> Nat] /\ wo[w] \in WorkOrder
  BY OneOfEachType DEF Inv, TypeOK
<1>2. UNCHANGED <<incident, tech, assigned, logs, traces, claims, history, warranties, received>>
  BY DEF ReservePartsForWorkOrder, desk
<1>3. wo' = [wo EXCEPT ![w] = q]
  BY DEF ReservePartsForWorkOrder
<1>4. q \in WorkOrder /\ q.status = wo[w].status /\ q.hitl = wo[w].hitl /\ q.tech = wo[w].tech
  BY <1>1 DEF WorkOrder
<1> HIDE DEF q
<1>5. wo' \in [WOs -> WorkOrder] /\ wo'[w] = q /\ \A v \in WOs \ {w} : wo'[v] = wo[v]
  BY <1>3, <1>4, Replaced DEF Inv
<1>6. TypeOK'
  BY <1>2, <1>5 DEF Inv, TypeOK, StockInv
<1>7. HITLGate' /\ AssignmentConsistent'
  BY <1>2, <1>4, <1>5 DEF Inv, HITLGate, AssignmentConsistent
<1>8. TraceComplete' /\ Bookkeeping'
  BY <1>2, <1>4, <1>5 DEF Inv, TraceComplete, Bookkeeping
<1> QED
  BY <1>6, <1>7, <1>8 DEF Desk

(* Dispatch: an approved order is on no list yet.                           *)
LEMMA DispatchStep ==
  ASSUME Inv, NEW w \in WOs, NEW t \in Techs, NEW held \in [Skus -> Nat],
         wo[w].status = "APPROVED", Qualified(t, w), Dispatch(w, t, held), StockInv'
  PROVE  Desk' /\ TypeOK'
<1> DEFINE q == [wo[w] EXCEPT !.tech = t, !.status = "DISPATCHED", !.held = held]
<1>1. wo[w] \in WorkOrder /\ tech[t].known /\ t # NoTech
  BY WorkOrdersAssumption DEF Inv, TypeOK, Qualified, WorkOrdersAssumption
<1>2. UNCHANGED <<incident, tech, logs, traces, claims, history, warranties, received>>
  BY DEF Dispatch, desk
<1>3. wo' = [wo EXCEPT ![w] = q]
  BY DEF Dispatch
<1>4. q \in WorkOrder /\ q.status = "DISPATCHED" /\ q.hitl = wo[w].hitl /\ q.tech = t
  BY <1>1 DEF WorkOrder, Statuses
<1> HIDE DEF q
<1>5. wo' \in [WOs -> WorkOrder] /\ wo'[w] = q /\ \A v \in WOs \ {w} : wo'[v] = wo[v]
  BY <1>3, <1>4, Replaced DEF Inv
<1>6. \A u \in Techs : assigned[u][w] = 0
  <2>1. assigned \in [Techs -> [WOs -> Nat]]
    BY DEF Inv, TypeOK
  <2>2. \A u \in Techs : ~ (assigned[u][w] > 0)
    BY DEF Inv, AssignmentConsistent
  <2>3. \A u \in Techs : assigned[u][w] \in Nat
    BY <2>1
  <2> QED
    BY <2>2, <2>3
<1>7. /\ assigned' \in [Techs -> [WOs -> Nat]]
      /\ assigned'[t][w] = 1
      /\ \A u \in Techs, v \in WOs : <<u, v>> # <<t, w>> => assigned'[u][v] = assigned[u][v]
  BY <1>6 DEF Inv, TypeOK, Dispatch
<1>8. TypeOK'
  BY <1>2, <1>5, <1>7 DEF Inv, TypeOK, StockInv
<1>9. HITLGate'
  BY <1>1, <1>2, <1>4, <1>5 DEF Inv, HITLGate, Authorised, Fielded
<1>10. AssignmentConsistent'
  BY <1>2, <1>4, <1>5, <1>6, <1>7 DEF Inv, AssignmentConsistent
<1>11. TraceComplete'
  BY <1>2, <1>4, <1>5 DEF Inv, TraceComplete
<1>12. Bookkeeping'
  BY <1>1, <1>2, <1>4, <1>5, <1>7 DEF Inv, Bookkeeping
<1> QED
  BY <1>8, <1>9, <1>10, <1>11, <1>12 DEF Desk

(* Completion writes the order's only log and takes it off the list.        *)
LEMMA CompleteStep ==
  ASSUME Inv, NEW w \in WOs, NEW used \in [Skus -> Nat], CompleteWork(w, used), StockInv'
  PROVE  Desk' /\ TypeOK'
<1> DEFINE q == [wo[w] EXCEPT !.status = "COMPLETED"]
           l == [tech |-> wo[w].tech, used |-> used]
<1>1. wo[w] \in WorkOrder /\ wo[w].status \in {"DISPATCHED", "IN_PROGRESS"} /\ l \in Log
  BY DEF Inv, TypeOK, CompleteWork, Underway, WorkOrder, Log
<1>2. UNCHANGED <<incident, tech, traces, claims, history, warranties, received>>
  BY DEF CompleteWork
<1>3. wo' = [wo EXCEPT ![w] = q] /\ logs' = [logs EXCEPT ![w] = Append(@, l)]
  BY DEF CompleteWork
<1>4. q \in WorkOrder /\ q.status = "COMPLETED" /\ q.hitl = wo[w].hitl /\ q.tech = wo[w].tech
  BY <1>1 DEF WorkOrder, Statuses
<1> HIDE DEF q, l
<1>5. wo' \in [WOs -> WorkOrder] /\ wo'[w] = q /\ \A v \in WOs \ {w} : wo'[v] = wo[v]
  BY <1>3, <1>4, Replaced DEF Inv
<1>6. logs \in [WOs -> Seq(Log)] /\ logs[w] = <<>>
  BY <1>1 DEF Inv, TypeOK, Bookkeeping
<1>7. /\ logs' \in [WOs -> Seq(Log)]
      /\ Len(logs'[w]) = 1
      /\ \A v \in WOs \ {w} : logs'[v] = logs[v]
  BY <1>1, <1>3, <1>6
<1>8. \A u \in Techs :
        assigned'[u] = IF u = wo[w].tech /\ tech[u].known /\ assigned[u][w] > 0
                       THEN [assigned[u] EXCEPT ![w] = @ - 1] ELSE assigned[u]
  BY DEF CompleteWork
<1>9. /\ assigned \in [Techs -> [WOs -> Nat]]
      /\ \A u \in Techs : assigned[u][w] > 0 =>
           assigned[u][w] = 1 /\ u = wo[w].tech /\ tech[u].known
  BY DEF Inv, TypeOK, AssignmentConsistent, Bookkeeping
<1>10. \A u \in Techs : /\ assigned'[u] \in [WOs -> Nat]
                         /\ assigned'[u][w] = 0
                         /\ \A v \in WOs \ {w} : assigned'[u][v] = assigned[u][v]
  <2> SUFFICES ASSUME NEW u \in Techs
               PROVE  /\ assigned'[u] \in [WOs -> Nat]
                      /\ assigned'[u][w] = 0
                      /\ \A v \in WOs \ {w} : assigned'[u][v] = assigned[u][v]
    OBVIOUS
  <2>1. CASE assigned[u][w] > 0
    <3>1. assigned'[u] = [assigned[u] EXCEPT ![w] = @ - 1]
      BY <2>1, <1>8, <1>9
    <3>2. assigned[u] \in [WOs -> Nat] /\ assigned[u][w] = 1
      BY <2>1, <1>9
    <3> QED
      BY <3>1, <3>2
  <2>2. CASE ~ (assigned[u][w] > 0)
    <3>1. assigned'[u] = assigned[u]
      BY <2>2, <1>8
    <3>2. assigned[u] \in [WOs -> Nat] /\ assigned[u][w] \in Nat
      BY <1>9
    <3> QED
      BY <2>2, <3>1, <3>2
  <2> QED
    BY <2>1, <2>2
<1>11. assigned' \in [Techs -> [WOs -> Nat]]
  <2>1. assigned' = [u \in Techs |-> assigned'[u]]
    BY DEF CompleteWork
  <2> QED
    BY <1>10, <2>1
<1>12. TypeOK'
  BY <1>2, <1>5, <1>7, <1>11 DEF Inv, TypeOK, StockInv
<1>13. HITLGate'
  BY <1>1, <1>2, <1>4, <1>5, <1>7 DEF Inv, HITLGate, Authorised, Fielded
<1>14. AssignmentConsistent'
  BY <1>2, <1>4, <1>5, <1>10 DEF Inv, AssignmentConsistent
<1>15. TraceComplete'
  BY <1>1, <1>2, <1>4, <1>5 DEF Inv, TraceComplete
<1>16. Bookkeeping'
  <2>1. ASSUME NEW v \in WOs
        PROVE  /\ wo'[v].status \in {"COMPLETED", "VERIFIED", "CLOSED"} => Len(logs'[v]) = 1
               /\ wo'[v].status \notin {"COMPLETED", "VERIFIED", "CLOSED", "REJECTED"}
                    => logs'[v] = <<>>
    BY <1>4, <1>5, <1>7 DEF Inv, Bookkeeping
  <2>2. ASSUME NEW u \in Techs, NEW v \in WOs, assigned'[u][v] > 0
        PROVE  tech'[u].known
    BY <1>2, <1>10, <2>2 DEF Inv, Bookkeeping
  <2> QED
    BY <2>1, <2>2 DEF Bookkeeping
<1> QED
  BY <1>12, <1>13, <1>14, <1>15, <1>16 DEF Desk

(* Closing writes the order's only trace, from its approval and its log.    *)
LEMMA CloseStep ==
  ASSUME Inv, NEW w \in WOs, NEW active \in BOOLEAN, CloseWorkOrder(w, active)
  PROVE  /\ Desk' /\ TypeOK'
         /\ \A v \in WOs \ {w} : Len(traces'[v]) = Len(traces[v])
         /\ Len(traces'[w]) = Len(traces[w]) + 1
<1> DEFINE q  == [wo[w] EXCEPT !.status = "CLOSED"]
           tr == [decision |-> wo[w].hitl, log |-> logs[w] # <<>>]
           a  == wo[w].asset
           vs == HistoryEntry(w, Covered(w, active))
<1>1. wo[w] \in WorkOrder /\ wo[w].status = "VERIFIED" /\ a \in Assets /\ vs \in Visit
  BY DEF Inv, TypeOK, CloseWorkOrder, Closable, Covered, HistoryEntry, WorkOrder, Visit
<1>2. UNCHANGED <<stock, tech, assigned, logs, warranties, received>>
  BY DEF CloseWorkOrder
<1>3. /\ wo' = [wo EXCEPT ![w] = q]
      /\ traces' = [traces EXCEPT ![w] = Append(@, tr)]
      /\ history' = [history EXCEPT ![a] = Append(@, vs)]
  BY DEF CloseWorkOrder
<1>4. q \in WorkOrder /\ q.status = "CLOSED" /\ q.hitl = wo[w].hitl /\ q.tech = wo[w].tech
  BY <1>1 DEF WorkOrder, Statuses
<1>5. wo[w].hitl = "APPROVED" /\ Len(logs[w]) = 1 /\ traces[w] = <<>>
  BY <1>1 DEF Inv, HITLGate, Authorised, Bookkeeping, TraceComplete
<1>6. tr = [decision |-> "APPROVED", log |-> TRUE] /\ tr \in Trace
  <2>1. logs[w] \in Seq(Log)
    BY DEF Inv, TypeOK
  <2>2. ASSUME logs[w] = <<>> PROVE FALSE
    <3>1. Len(logs[w]) = 0
      BY <2>2
    <3> QED
      BY <1>5, <3>1
  <2>3. logs[w] # <<>>
    BY <2>2
  <2> QED
    BY <1>5, <2>3 DEF Trace, Decisions
<1> HIDE DEF q, tr, vs, a
<1>7. wo' \in [WOs -> WorkOrder] /\ wo'[w] = q /\ \A v \in WOs \ {w} : wo'[v] = wo[v]
  BY <1>3, <1>4, Replaced DEF Inv
<1>8. /\ traces' \in [WOs -> Seq(Trace)]
      /\ traces'[w] = <<tr>>
      /\ \A v \in WOs \ {w} : traces'[v] = traces[v]
  <2>1. traces \in [WOs -> Seq(Trace)]
    BY DEF Inv, TypeOK
  <2>2. Append(traces[w], tr) \in Seq(Trace) /\ Append(traces[w], tr) = <<tr>>
    BY <1>5, <1>6, <2>1
  <2> QED
    BY <1>3, <2>1, <2>2
<1>9. history' \in [Assets -> Seq(Visit)]
  <2>1. history \in [Assets -> Seq(Visit)]
    BY DEF Inv, TypeOK
  <2>2. Append(history[a], vs) \in Seq(Visit)
    BY <1>1, <2>1
  <2> QED
    BY <1>1, <1>3, <2>1, <2>2
<1>10. incident' \in [Incidents -> [asset : Assets, status : IncidentStatuses]]
  BY IncidentsType DEF Inv, CloseWorkOrder
<1>11. claims' \in [WOs -> Nat]
  BY DEF Inv, TypeOK, CloseWorkOrder
<1>12. TypeOK'
  BY <1>2, <1>7, <1>8, <1>9, <1>10, <1>11 DEF Inv, TypeOK, StockTypeOK, stock
<1>13. HITLGate'
  <2>1. wo[w].tech # NoTech
    BY <1>1 DEF Inv, HITLGate, Fielded, Authorised
  <2>2. ASSUME NEW v \in WOs
        PROVE  /\ wo'[v].status \in Authorised => wo'[v].hitl = "APPROVED"
               /\ wo'[v].status \in Fielded => wo'[v].tech # NoTech
               /\ wo'[v].hitl = "NONE" =>
                    wo'[v].tech = NoTech /\ logs'[v] = <<>> /\ traces'[v] = <<>>
    <3>1. CASE v = w
      BY <3>1, <2>1, <1>4, <1>5, <1>7
    <3>2. CASE v # w
      BY <3>2, <1>2, <1>7, <1>8 DEF Inv, HITLGate
    <3> QED
      BY <3>1, <3>2
  <2> QED
    BY <2>2 DEF HITLGate
<1>14. AssignmentConsistent'
  BY <1>1, <1>2, <1>4, <1>7 DEF Inv, AssignmentConsistent
<1>15. TraceComplete'
  <2>1. DOMAIN traces'[w] = {1} /\ traces'[w][1] = tr /\ Len(traces'[w]) = 1
    BY <1>8
  <2>2. ASSUME NEW v \in WOs
        PROVE  /\ \A k \in DOMAIN traces'[v] :
                    traces'[v][k] = [decision |-> "APPROVED", log |-> TRUE]
               /\ wo'[v].status = "CLOSED" => Len(traces'[v]) = 1
               /\ traces'[v] # <<>> => wo'[v].status \in {"CLOSED", "REJECTED"}
    <3>1. CASE v = w
      BY <2>1, <3>1, <1>4, <1>6, <1>7
    <3>2. CASE v # w
      BY <3>2, <1>7, <1>8 DEF Inv, TraceComplete
    <3> QED
      BY <3>1, <3>2
  <2> QED
    BY <2>2 DEF TraceComplete
<1>16. Bookkeeping'
  BY <1>2, <1>4, <1>5, <1>7 DEF Inv, Bookkeeping
<1>17. /\ \A v \in WOs \ {w} : Len(traces'[v]) = Len(traces[v])
       /\ Len(traces'[w]) = Len(traces[w]) + 1
  BY <1>5, <1>8
<1> QED
  BY <1>12, <1>13, <1>14, <1>15, <1>16, <1>17 DEF Desk

(* Nothing is ordered yet.                                                  *)
LEMMA InitInv ==
  ASSUME Init
  PROVE  Inv
<1>1. StockInv
  BY InventoryInitInv DEF Init
<1>2. Blank \in WorkOrder /\ Blank.status = "NONE" /\ Blank.tech = NoTech /\ Blank.hitl = "NONE"
  BY OneOfEachType, WorkOrdersAssumption
  DEF Blank, WorkOrder, Statuses, MaintenanceTypes, Decisions, WorkOrdersAssumption
<1> HIDE DEF Blank
<1>3. Blank.asset \in Assets
  BY <1>2 DEF WorkOrder
<1>4. TypeOK
  BY <1>1, <1>2, <1>3 DEF Init, TypeOK, StockInv, StockTypeOK, IncidentStatuses
<1>5. HITLGate /\ AssignmentConsistent /\ TraceComplete /\ Bookkeeping
  BY <1>2 DEF Init, HITLGate, AssignmentConsistent, TraceComplete, Bookkeeping, Authorised, Fielded
<1> QED
  BY <1>1, <1>4, <1>5 DEF Inv

(* The orders, after any handler that is given an order.                    *)
LEMMA OrderStep ==
  ASSUME Inv, NEW w \in WOs, OrderNext(w), StockInv'
  PROVE  Desk' /\ TypeOK'
<1>1. ASSUME NEW i \in Incidents, NEW r \in Recommendations,
             CreateWorkOrderFromRecommendation(w, i, r)
      PROVE  Desk' /\ TypeOK'
  <2> DEFINE d == Draft(r, i, MaintenanceTypeOf(r.paradigm))
  <2>1. MaintenanceTypeOf(r.paradigm) \in MaintenanceTypes
    BY DEF MaintenanceTypeOf, MaintenanceTypes
  <2>2. r.asset \in Assets /\ r.skill \in Skills \cup {GENERAL} /\ r.parts \subseteq Skus
    BY WorkOrdersAssumption DEF WorkOrdersAssumption
  <2>3. d \in WorkOrder /\ d.status = "PENDING_HITL_APPROVAL" /\ d.hitl = "NONE" /\ d.tech = NoTech
    BY <2>1, <2>2, DraftType
  <2>4. ~ Exists(w) /\ wo' = [wo EXCEPT ![w] = d] /\ UNCHANGED <<tech, assigned, desk>>
    BY <1>1 DEF CreateWorkOrderFromRecommendation
  <2> HIDE DEF d
  <2>5. Desk' /\ wo' \in [WOs -> WorkOrder]
    BY <2>3, <2>4, CreateStep
  <2>6. incident' \in [Incidents -> [asset : Assets, status : IncidentStatuses]]
    BY <1>1 DEF Inv, TypeOK, CreateWorkOrderFromRecommendation, IncidentStatuses
  <2>7. TypeOK'
    BY <1>1, <2>5, <2>6
    DEF Inv, TypeOK, StockTypeOK, CreateWorkOrderFromRecommendation, desk, stock
  <2> QED
    BY <2>5, <2>7
<1>2. ASSUME NEW r \in Schedules, CreatePreventiveWorkOrder(w, r)
      PROVE  Desk' /\ TypeOK'
  <2> DEFINE d == Draft(r, NoIncident, r.mtype)
  <2>1. r \in [asset : Assets, mtype : MaintenanceTypes,
               skill : Skills \cup {GENERAL}, parts : SUBSET Skus]
    BY WorkOrdersAssumption DEF WorkOrdersAssumption
  <2>2. d \in WorkOrder /\ d.status = "PENDING_HITL_APPROVAL" /\ d.hitl = "NONE" /\ d.tech = NoTech
    BY <2>1, DraftType
  <2>3. ~ Exists(w) /\ wo' = [wo EXCEPT ![w] = d] /\ UNCHANGED <<tech, assigned, desk>>
    BY <1>2 DEF CreatePreventiveWorkOrder
  <2> HIDE DEF d
  <2>4. Desk' /\ wo' \in [WOs -> WorkOrder]
    BY <2>2, <2>3, CreateStep
  <2>5. TypeOK'
    BY <1>2, <2>4 DEF Inv, TypeOK, StockTypeOK, CreatePreventiveWorkOrder, desk, stock
  <2> QED
    BY <2>4, <2>5
<1>3. CASE ApproveWorkOrder(w) \/ RejectWorkOrder(w)
  BY <1>3, DecideStep
<1>4. CASE StartWork(w) \/ VerifyWorkOrder(w)
  BY <1>4, AdvanceStep
<1>5. CASE ReservePartsForWorkOrder(w)
  BY <1>5, ReserveStep
<1>6. ASSUME NEW t \in Techs, NEW req \in Requests, DispatchWithAllocation(w, t, req)
      PROVE  Desk' /\ TypeOK'
  <2>1. req \in [Skus -> Nat]
    BY InventoryAssumption DEF InventoryAssumption
  <2> QED
    BY <1>6, <2>1, DispatchStep DEF DispatchWithAllocation, Dispatchable
<1>7. ASSUME NEW t \in Techs, DispatchDefault(w, t)
      PROVE  Desk' /\ TypeOK'
  <2> DEFINE allocable == CheckAvailability(wo[w].parts)
             held == IF allocable # {} THEN OneOfEach(allocable) ELSE wo[w].held
  <2>1. wo[w].held \in [Skus -> Nat]
    BY DEF Inv, TypeOK, WorkOrder
  <2>2. held \in [Skus -> Nat]
    BY <2>1, OneOfEachType
  <2>3. wo[w].status = "APPROVED" /\ Qualified(t, w) /\ Dispatch(w, t, held)
    BY <1>7 DEF DispatchDefault, Dispatchable
  <2> HIDE DEF held
  <2> QED
    BY <2>2, <2>3, DispatchStep
<1>8. ASSUME NEW used \in Consumptions(w), CompleteWork(w, used)
      PROVE  Desk' /\ TypeOK'
  <2>1. used \in [Skus -> Nat]
    BY InventoryAssumption, OneOfEachType DEF InventoryAssumption, Consumptions
  <2> QED
    BY <1>8, <2>1, CompleteStep
<1>9. ASSUME NEW used \in Consumptions(w), CompleteWorkRaises(w, used)
      PROVE  Desk' /\ TypeOK'
  <2>1. Desk'
    BY <1>9, DeskUnchanged DEF CompleteWorkRaises, desk
  <2>2. TypeOK'
    BY <1>9 DEF Inv, TypeOK, StockInv, CompleteWorkRaises, desk
  <2> QED
    BY <2>1, <2>2
<1>10. ASSUME NEW active \in BOOLEAN, CloseWorkOrder(w, active)
       PROVE  Desk' /\ TypeOK'
  BY <1>10, CloseStep
<1> QED
  BY <1>1, <1>2, <1>3, <1>4, <1>5, <1>6, <1>7, <1>8, <1>9, <1>10 DEF OrderNext

(* The workflow, after any call.                                            *)
LEMMA NextInv ==
  ASSUME Inv, [Next]_vars
  PROVE  Inv'
<1>1. StockInv'
  BY StockStep DEF Inv
<1>2. ASSUME NEW w \in WOs, OrderNext(w)
      PROVE  Desk' /\ TypeOK'
  BY <1>1, <1>2, OrderStep
<1>3. ASSUME NEW t \in Techs, NEW p \in Profiles, RegisterTechnician(t, p)
      PROVE  Desk' /\ TypeOK'
  BY <1>3, RegisterTechnicianStep
<1>4. ASSUME NEW a \in Assets, RegisterWarranty(a)
      PROVE  Desk' /\ TypeOK'
  <2>1. Desk'
    BY <1>4, DeskUnchanged DEF RegisterWarranty, desk
  <2>2. TypeOK'
    BY <1>4 DEF Inv, TypeOK, StockTypeOK, RegisterWarranty, desk, stock
  <2> QED
    BY <2>1, <2>2
<1>5. ASSUME NEW i \in Incidents, NEW a \in Assets, CreateIncident(i, a)
      PROVE  Desk' /\ TypeOK'
  <2>1. Desk'
    BY <1>5, DeskUnchanged DEF CreateIncident, desk
  <2>2. TypeOK'
    BY <1>5 DEF Inv, TypeOK, StockTypeOK, CreateIncident, desk, stock, IncidentStatuses
  <2> QED
    BY <2>1, <2>2
<1>6. ASSUME NEW s \in Skus, NEW n \in 1..MaxStock, Delivery(s, n)
      PROVE  Desk' /\ TypeOK'
  <2>1. Desk'
    BY <1>6, DeskUnchanged DEF Delivery, desk
  <2>2. TypeOK'
    BY <1>1, <1>6, InventoryAssumption
    DEF Inv, TypeOK, StockInv, Delivery, desk, InventoryAssumption
  <2> QED
    BY <2>1, <2>2
<1>7. ASSUME UNCHANGED vars
      PROVE  Desk' /\ TypeOK'
  <2>1. Desk'
    BY <1>7, DeskUnchanged DEF vars, desk
  <2>2. TypeOK'
    BY <1>7 DEF Inv, TypeOK, StockTypeOK, vars, desk, stock
  <2> QED
    BY <2>1, <2>2
<1>8. Desk' /\ TypeOK'
  BY <1>2, <1>3, <1>4, <1>5, <1>6, <1>7 DEF Next
<1> QED
  BY <1>1, <1>8 DEF Inv, Desk

(* The inductive invariant holds of every behaviour of the workflow.        *)
THEOREM WorkflowInvariant == Spec => []Inv
<1>1. Init => Inv
  BY InitInv
<1>2. Inv /\ [Next]_vars => Inv'
  BY NextInv
<1> QED
  BY <1>1, <1>2, PTL DEF Spec

(* Nobody is sent out, and nothing is logged or traced, for an order no     *)
(* human approved: assign_and_dispatch's gate holds for every call order.   *)
THEOREM GateHolds == Spec => []HITLGate
<1>1. Inv => HITLGate
  BY DEF Inv
<1> QED
  BY <1>1, WorkflowInvariant, PTL

(* Handlers that reserve, dispatch and complete in any interleaving never   *)
(* promise a unit that is not on the shelf.                                 *)
THEOREM StockHolds == Spec => []NoOvercommit
<1>1. Inv => NoOvercommit
  BY DEF Inv, StockInv
<1> QED
  BY <1>1, WorkflowInvariant, PTL

(* Lists of assignments and orders, written by different handlers, agree.   *)
THEOREM AssignmentsHold == Spec => []AssignmentConsistent
<1>1. Inv => AssignmentConsistent
  BY DEF Inv
<1> QED
  BY <1>1, WorkflowInvariant, PTL

(* Every traceability record closes its chain, once.                        *)
THEOREM TracesHold == Spec => []TraceComplete
<1>1. Inv => TraceComplete
  BY DEF Inv
<1> QED
  BY <1>1, WorkflowInvariant, PTL

(* The whole state of the engine stays well formed.                         *)
THEOREM WorkflowTyped == Spec => []TypeOK
<1>1. Inv => TypeOK
  BY DEF Inv
<1> QED
  BY <1>1, WorkflowInvariant, PTL

-----------------------------------------------------------------------------
(* The stores beside the orders: incidents, and the three records of a      *)
(* closed order.  The two properties are not inductive as they stand.       *)

(* An id that is not handed out is no order of any incident.                *)
IncidentsInv ==
  /\ \A w \in WOs : ~ Exists(w) => wo[w].incident = NoIncident
  /\ IncidentsTrackOrders

(* An order without a trace is nowhere in the histories and has no claim;   *)
(* one with a trace has one, and one entry in its own asset's history that  *)
(* says whether there is a claim.                                           *)
NotTold(w) ==
  /\ claims[w] = 0
  /\ \A a \in Assets : \A k \in DOMAIN history[a] : history[a][k].wo # w

ToldOnce(w) ==
  /\ Len(traces[w]) = 1
  /\ \E k \in DOMAIN history[wo[w].asset] :
       /\ \A j \in DOMAIN history[wo[w].asset] : history[wo[w].asset][j].wo = w <=> j = k
       /\ claims[w] = IF history[wo[w].asset][k].claimed THEN 1 ELSE 0

VisitsInv ==
  \A w \in WOs : IF traces[w] = <<>> THEN NotTold(w) ELSE ToldOnce(w)

Finished == {"CLOSED", "REJECTED"}

(* A handler moves an order on without making it another one: the asset and *)
(* the incident stay, nothing appears, disappears or leaves a final status. *)
SameOrders ==
  \A v \in WOs :
    /\ wo'[v].asset = wo[v].asset
    /\ wo'[v].incident = wo[v].incident
    /\ wo'[v].status = "NONE" <=> wo[v].status = "NONE"
    /\ wo[v].status \in Finished => wo'[v].status \in Finished

(* Replacing an order by one of the same asset and incident keeps them.     *)
LEMMA ReplacedSame ==
  ASSUME TypeOK, NEW w \in WOs, NEW q \in WorkOrder, wo' = [wo EXCEPT ![w] = q],
         q.asset = wo[w].asset, q.incident = wo[w].incident,
         q.status # "NONE", wo[w].status # "NONE",
         wo[w].status \in Finished => q.status \in Finished
  PROVE  SameOrders
<1>1. wo'[w] = q /\ \A v \in WOs \ {w} : wo'[v] = wo[v]
  BY Replaced
<1> QED
  BY <1>1 DEF SameOrders

(* Every handler that is given an existing order only moves it on.          *)
LEMMA HandlersKeepOrders ==
  ASSUME Inv, NEW w \in WOs,
         \/ ApproveWorkOrder(w)
         \/ RejectWorkOrder(w)
         \/ ReservePartsForWorkOrder(w)
         \/ \E t \in Techs, req \in Requests : DispatchWithAllocation(w, t, req)
         \/ \E t \in Techs : DispatchDefault(w, t)
         \/ StartWork(w)
         \/ \E used \in Consumptions(w) : CompleteWork(w, used)
         \/ VerifyWorkOrder(w)
         \/ \E active \in BOOLEAN : CloseWorkOrder(w, active)
  PROVE  SameOrders
<1> USE DEF Finished
<1>1. wo[w] \in WorkOrder /\ TypeOK
  BY DEF Inv, TypeOK
<1>2. ASSUME NEW st \in {"IN_PROGRESS", "COMPLETED", "VERIFIED", "CLOSED"},
             wo' = [wo EXCEPT ![w] = [wo[w] EXCEPT !.status = st]],
             wo[w].status \in {"DISPATCHED", "IN_PROGRESS", "COMPLETED", "VERIFIED"}
      PROVE  SameOrders
  <2> DEFINE q == [wo[w] EXCEPT !.status = st]
  <2>1. q \in WorkOrder /\ q.asset = wo[w].asset /\ q.incident = wo[w].incident /\ q.status = st
    BY <1>1 DEF WorkOrder, Statuses
  <2> HIDE DEF q
  <2>2. wo' = [wo EXCEPT ![w] = q]
    BY <1>2 DEF q
  <2> QED
    BY <1>1, <1>2, <2>1, <2>2, ReplacedSame
<1>3. ASSUME NEW h \in {"APPROVED", "REJECTED"}, wo[w].status # "NONE",
             h = "APPROVED" => wo[w].status \in {"PENDING_HITL_APPROVAL", "DRAFT"},
             wo' = [wo EXCEPT ![w] = [wo[w] EXCEPT !.hitl = h, !.status = h]]
      PROVE  SameOrders
  <2> DEFINE q == [wo[w] EXCEPT !.hitl = h, !.status = h]
  <2>1. q \in WorkOrder /\ q.asset = wo[w].asset /\ q.incident = wo[w].incident /\ q.status = h
    BY <1>1 DEF WorkOrder, Statuses, Decisions
  <2> HIDE DEF q
  <2>2. wo' = [wo EXCEPT ![w] = q]
    BY <1>3 DEF q
  <2> QED
    BY <1>1, <1>3, <2>1, <2>2, ReplacedSame
<1>4. ASSUME ReservePartsForWorkOrder(w) PROVE SameOrders
  <2> DEFINE q == [wo[w] EXCEPT !.held = OneOfEach(wo[w].parts)]
  <2>1. q \in WorkOrder /\ q.asset = wo[w].asset /\ q.incident = wo[w].incident
        /\ q.status = wo[w].status
    BY <1>1, OneOfEachType DEF WorkOrder
  <2> HIDE DEF q
  <2>2. wo' = [wo EXCEPT ![w] = q] /\ wo[w].status # "NONE"
    BY <1>4 DEF q, ReservePartsForWorkOrder, Exists
  <2> QED
    BY <1>1, <2>1, <2>2, ReplacedSame
<1>5. ASSUME NEW t \in Techs, NEW held \in [Skus -> Nat], Dispatch(w, t, held),
             wo[w].status = "APPROVED"
      PROVE  SameOrders
  <2> DEFINE q == [wo[w] EXCEPT !.tech = t, !.status = "DISPATCHED", !.held = held]
  <2>1. q \in WorkOrder /\ q.asset = wo[w].asset /\ q.incident = wo[w].incident
        /\ q.status = "DISPATCHED"
    BY <1>1 DEF WorkOrder, Statuses
  <2> HIDE DEF q
  <2>2. wo' = [wo EXCEPT ![w] = q]
    BY <1>5 DEF q, Dispatch
  <2> QED
    BY <1>1, <1>5, <2>1, <2>2, ReplacedSame
<1>6. CASE ApproveWorkOrder(w)
  BY <1>3, <1>6 DEF ApproveWorkOrder
<1>7. CASE RejectWorkOrder(w)
  BY <1>3, <1>7 DEF RejectWorkOrder, Exists
<1>8. CASE StartWork(w)
  BY <1>2, <1>8 DEF StartWork
<1>9. CASE VerifyWorkOrder(w)
  BY <1>2, <1>9 DEF VerifyWorkOrder
<1>10. ASSUME NEW t \in Techs, NEW req \in Requests, DispatchWithAllocation(w, t, req)
       PROVE  SameOrders
  BY <1>5, <1>10, InventoryAssumption
  DEF DispatchWithAllocation, Dispatchable, InventoryAssumption
<1>11. ASSUME NEW t \in Techs, DispatchDefault(w, t) PROVE SameOrders
  <2> DEFINE allocable == CheckAvailability(wo[w].parts)
             held == IF allocable # {} THEN OneOfEach(allocable) ELSE wo[w].held
  <2>1. held \in [Skus -> Nat]
    BY <1>1, OneOfEachType DEF WorkOrder
  <2>2. wo[w].status = "APPROVED" /\ Dispatch(w, t, held)
    BY <1>11 DEF DispatchDefault, Dispatchable
  <2> HIDE DEF held
  <2> QED
    BY <1>5, <2>1, <2>2
<1>12. ASSUME NEW used \in Consumptions(w), CompleteWork(w, used) PROVE SameOrders
  BY <1>2, <1>12 DEF CompleteWork, Underway
<1>13. ASSUME NEW active \in BOOLEAN, CloseWorkOrder(w, active) PROVE SameOrders
  BY <1>2, <1>13 DEF CloseWorkOrder, Closable
<1> QED
  BY <1>4, <1>6, <1>7, <1>8, <1>9, <1>10, <1>11, <1>12, <1>13

(* Incidents that are left alone still follow orders that only moved on.    *)
LEMMA IncidentsFrame ==
  ASSUME IncidentsInv, SameOrders, incident' = incident
  PROVE  IncidentsInv'
<1>1. \A i \in Incidents : OrdersOf(i)' = OrdersOf(i)
  BY DEF OrdersOf, SameOrders
<1>2. \A w \in WOs : ~ Exists(w)' => wo'[w].incident = NoIncident
  BY DEF SameOrders, IncidentsInv, Exists
<1>3. IncidentsTrackOrders'
  <2> SUFFICES ASSUME NEW i \in Incidents
               PROVE  /\ incident'[i].status \in {"NONE", "OPEN"} <=> OrdersOf(i)' = {}
                      /\ incident'[i].status = "CLOSED" =>
                           \E w \in OrdersOf(i)' : wo'[w].status \in {"CLOSED", "REJECTED"}
    BY DEF IncidentsTrackOrders
  <2>1. incident'[i].status = "CLOSED" =>
          \E w \in OrdersOf(i) : wo[w].status \in {"CLOSED", "REJECTED"}
    BY DEF IncidentsInv, IncidentsTrackOrders
  <2>2. \A w \in OrdersOf(i) : wo[w].status \in Finished => wo'[w].status \in Finished
    BY DEF OrdersOf, SameOrders
  <2> QED
    BY <1>1, <2>1, <2>2 DEF IncidentsInv, IncidentsTrackOrders, Finished
<1> QED
  BY <1>2, <1>3 DEF IncidentsInv

(* An order that is closed or rejected closes its incident, if it has one.  *)
LEMMA IncidentsFinish ==
  ASSUME Inv, IncidentsInv, SameOrders, NEW w \in WOs, wo[w].status # "NONE",
         wo'[w].status \in Finished,
         incident' = [i \in Incidents |->
                        IF i = wo[w].incident THEN [incident[i] EXCEPT !.status = "CLOSED"]
                                              ELSE incident[i]]
  PROVE  IncidentsInv'
<1>1. \A i \in Incidents : OrdersOf(i)' = OrdersOf(i)
  BY DEF OrdersOf, SameOrders
<1>2. \A v \in WOs : ~ Exists(v)' => wo'[v].incident = NoIncident
  BY DEF SameOrders, IncidentsInv, Exists
<1>3. ASSUME NEW i \in Incidents
      PROVE  /\ incident'[i].status \in {"NONE", "OPEN"} <=> OrdersOf(i)' = {}
             /\ incident'[i].status = "CLOSED" =>
                  \E v \in OrdersOf(i)' : wo'[v].status \in {"CLOSED", "REJECTED"}
  <2>1. CASE i = wo[w].incident
    <3>1. incident'[i].status = "CLOSED"
      BY <2>1 DEF Inv, TypeOK
    <3>2. w \in OrdersOf(i)
      BY <2>1 DEF OrdersOf
    <3> QED
      BY <1>1, <3>1, <3>2 DEF Finished
  <2>2. CASE i # wo[w].incident
    <3>1. incident'[i] = incident[i]
      BY <2>2
    <3>2. incident[i].status = "CLOSED" =>
            \E v \in OrdersOf(i) : wo[v].status \in {"CLOSED", "REJECTED"}
      BY DEF IncidentsInv, IncidentsTrackOrders
    <3>3. \A v \in OrdersOf(i) : wo[v].status \in Finished => wo'[v].status \in Finished
      BY DEF OrdersOf, SameOrders
    <3> QED
      BY <1>1, <3>1, <3>2, <3>3 DEF IncidentsInv, IncidentsTrackOrders, Finished
  <2> QED
    BY <2>1, <2>2
<1> QED
  BY <1>2, <1>3 DEF IncidentsInv, IncidentsTrackOrders

(* A new order is the first or another one of its incident, or of none.     *)
LEMMA IncidentsDraft ==
  ASSUME Inv, IncidentsInv, NEW w \in WOs, ~ Exists(w), NEW d \in WorkOrder,
         d.status = "PENDING_HITL_APPROVAL", wo' = [wo EXCEPT ![w] = d],
         \A i \in Incidents :
           incident'[i].status = IF i = d.incident THEN "WORK_ORDER_CREATED"
                                                   ELSE incident[i].status
  PROVE  IncidentsInv'
<1>1. wo'[w] = d /\ \A v \in WOs \ {w} : wo'[v] = wo[v]
  BY Replaced DEF Inv
<1>2. \A v \in WOs : ~ Exists(v)' => wo'[v].incident = NoIncident
  BY <1>1 DEF IncidentsInv, Exists
<1>3. wo[w].incident = NoIncident /\ NoIncident \notin Incidents
  BY WorkOrdersAssumption DEF IncidentsInv, WorkOrdersAssumption
<1>4. ASSUME NEW i \in Incidents
      PROVE  /\ incident'[i].status \in {"NONE", "OPEN"} <=> OrdersOf(i)' = {}
             /\ incident'[i].status = "CLOSED" =>
                  \E v \in OrdersOf(i)' : wo'[v].status \in {"CLOSED", "REJECTED"}
  <2>1. CASE i = d.incident
    <3>1. w \in OrdersOf(i)'
      BY <1>1, <2>1 DEF OrdersOf
    <3> QED
      BY <2>1, <3>1
  <2>2. CASE i # d.incident
    <3>1. OrdersOf(i)' = OrdersOf(i) /\ w \notin OrdersOf(i)
      BY <1>1, <1>3, <2>2 DEF OrdersOf
    <3>2. \A v \in OrdersOf(i) : wo'[v] = wo[v]
      BY <1>1, <3>1 DEF OrdersOf
    <3>3. incident'[i].status = incident[i].status
      BY <2>2
    <3> QED
      BY <3>1, <3>2, <3>3 DEF IncidentsInv, IncidentsTrackOrders
  <2> QED
    BY <2>1, <2>2
<1> QED
  BY <1>2, <1>4 DEF IncidentsInv, IncidentsTrackOrders

(* The histories, traces and claims stay the same story when none of them   *)
(* and no asset of a traced order changes.                                  *)
LEMMA VisitsFrame ==
  ASSUME VisitsInv, UNCHANGED <<traces, claims, history>>,
         \A v \in WOs : traces[v] # <<>> => wo'[v].asset = wo[v].asset
  PROVE  VisitsInv'
<1> SUFFICES ASSUME NEW v \in WOs
             PROVE  IF traces'[v] = <<>> THEN NotTold(v)' ELSE ToldOnce(v)'
  BY DEF VisitsInv
<1>1. CASE traces[v] = <<>>
  BY <1>1 DEF VisitsInv, NotTold
<1>2. CASE traces[v] # <<>>
  BY <1>2 DEF VisitsInv, ToldOnce
<1> QED
  BY <1>1, <1>2

(* Closing tells the story of an order that was not told yet, and of no     *)
(* other.                                                                   *)
LEMMA VisitsClose ==
  ASSUME Inv, VisitsInv, NEW w \in WOs, NEW active \in BOOLEAN, CloseWorkOrder(w, active),
         SameOrders
  PROVE  VisitsInv'
<1> DEFINE a == wo[w].asset
           c == Covered(w, active)
           h == Append(history[a], [wo |-> w, claimed |-> c])
           n == Len(history[a]) + 1
<1>1. wo[w] \in WorkOrder /\ wo[w].status = "VERIFIED" /\ a \in Assets /\ c \in BOOLEAN
  BY DEF Inv, TypeOK, CloseWorkOrder, Closable, Covered, WorkOrder
<1>2. traces[w] = <<>> /\ NotTold(w)
  BY <1>1 DEF Inv, TraceComplete, VisitsInv
<1>3. /\ Len(traces'[w]) = 1
      /\ \A v \in WOs \ {w} : traces'[v] = traces[v] /\ claims'[v] = claims[v]
  BY <1>2 DEF CloseWorkOrder, Inv, TypeOK
<1>4. claims'[w] = IF c THEN 1 ELSE 0
  BY <1>2 DEF CloseWorkOrder, Inv, TypeOK, NotTold
<1>5. /\ history'[a] = h
      /\ \A b \in Assets \ {a} : history'[b] = history[b]
  BY <1>1 DEF CloseWorkOrder, HistoryEntry, Inv, TypeOK
<1>6. history[a] \in Seq(Visit)
  BY <1>1 DEF Inv, TypeOK
<1> HIDE DEF c
<1>7. /\ n \in Nat \ {0} /\ DOMAIN h = 1..n /\ DOMAIN history[a] = 1..(n - 1)
      /\ \A j \in 1..(n - 1) : h[j] = history[a][j]
      /\ h[n] = [wo |-> w, claimed |-> c]
  BY <1>1, <1>6
<1> HIDE DEF h, n, a
<1>8. a = wo[w].asset /\ wo'[w].asset = a
  BY DEF a, SameOrders
<1>9. ToldOnce(w)'
  <2>1. \A j \in DOMAIN h : h[j].wo = w <=> j = n
    BY <1>1, <1>2, <1>7 DEF NotTold
  <2>2. n \in DOMAIN h /\ h[n].claimed = c
    BY <1>7
  <2>3. /\ \A j \in DOMAIN history'[wo'[w].asset] : history'[wo'[w].asset][j].wo = w <=> j = n
        /\ n \in DOMAIN history'[wo'[w].asset]
        /\ claims'[w] = IF history'[wo'[w].asset][n].claimed THEN 1 ELSE 0
    BY <1>4, <1>5, <1>8, <2>1, <2>2
  <2> QED
    BY <1>3, <2>3 DEF ToldOnce
<1>10. traces'[w] # <<>>
  BY <1>3
<1>11. ASSUME NEW v \in WOs, v # w, traces[v] = <<>>
       PROVE  NotTold(v)'
  <2>1. claims'[v] = 0 /\ \A b \in Assets : \A k \in DOMAIN history[b] : history[b][k].wo # v
    BY <1>3, <1>11 DEF VisitsInv, NotTold
  <2>2. ASSUME NEW b \in Assets, NEW k \in DOMAIN history'[b]
        PROVE  history'[b][k].wo # v
    <3>1. CASE b # a
      BY <3>1, <1>5, <2>1, <2>2
    <3>2. CASE b = a /\ k = n
      BY <3>2, <1>5, <1>7, <1>11
    <3>3. CASE b = a /\ k # n
      <4>1. k \in 1..(n - 1)
        BY <3>3, <1>5, <1>7
      <4> QED
        BY <3>3, <4>1, <1>1, <1>5, <1>7, <2>1
    <3> QED
      BY <3>1, <3>2, <3>3
  <2> QED
    BY <2>1, <2>2 DEF NotTold
<1>12. ASSUME NEW v \in WOs, v # w, traces[v] # <<>>
       PROVE  ToldOnce(v)'
  <2> DEFINE b == wo[v].asset
  <2>1. PICK k \in DOMAIN history[b] :
          /\ \A j \in DOMAIN history[b] : history[b][j].wo = v <=> j = k
          /\ claims[v] = IF history[b][k].claimed THEN 1 ELSE 0
    BY <1>12 DEF VisitsInv, ToldOnce
  <2>2. Len(traces[v]) = 1 /\ b \in Assets /\ wo'[v].asset = b
    BY <1>12 DEF VisitsInv, ToldOnce, Inv, TypeOK, WorkOrder, SameOrders
  <2> HIDE DEF b
  <2>3. /\ k \in DOMAIN history'[b] /\ history'[b][k] = history[b][k]
        /\ \A j \in DOMAIN history'[b] : history'[b][j].wo = v <=> j = k
    <3>1. CASE b # a
      BY <3>1, <1>5, <2>1, <2>2
    <3>2. CASE b = a
      <4>1. k \in 1..(n - 1) /\ history'[b] = h
        BY <3>2, <1>5, <1>7, <2>1
      <4>2. ASSUME NEW j \in 1..n PROVE h[j].wo = v <=> j = k
        <5>1. CASE j = n
          BY <5>1, <1>7, <1>12, <4>1
        <5>2. CASE j # n
          <6>1. j \in DOMAIN history[b]
            BY <3>2, <5>2, <1>7
          <6> QED
            BY <3>2, <6>1, <1>7, <2>1
        <5> QED
          BY <5>1, <5>2
      <4> QED
        BY <3>2, <4>1, <4>2, <1>7
    <3> QED
      BY <3>1, <3>2
  <2> QED
    BY <1>3, <1>12, <2>1, <2>2, <2>3 DEF ToldOnce
<1> QED
  BY <1>3, <1>9, <1>10, <1>11, <1>12 DEF VisitsInv

StoryInv == IncidentsInv /\ VisitsInv

(* There is no story to tell at the start.                                  *)
LEMMA StoryInit ==
  ASSUME Init
  PROVE  StoryInv
<1>1. Blank.status = "NONE" /\ Blank.incident = NoIncident /\ NoIncident \notin Incidents
  BY WorkOrdersAssumption DEF Blank, WorkOrdersAssumption
<1> HIDE DEF Blank
<1>2. IncidentsInv
  BY <1>1 DEF Init, IncidentsInv, IncidentsTrackOrders, OrdersOf, Exists
<1>3. VisitsInv
  BY DEF Init, VisitsInv, NotTold
<1> QED
  BY <1>2, <1>3 DEF StoryInv

(* No call makes the stores disagree.                                       *)
LEMMA StoryStep ==
  ASSUME Inv, StoryInv, [Next]_vars
  PROVE  StoryInv'
<1> USE DEF StoryInv
<1>1. ASSUME SameOrders, UNCHANGED <<incident, traces, claims, history>>
      PROVE  StoryInv'
  BY <1>1, IncidentsFrame, VisitsFrame DEF SameOrders
<1>2. ASSUME wo' = wo, UNCHANGED <<incident, traces, claims, history>>
      PROVE  StoryInv'
  <2>1. SameOrders
    BY <1>2 DEF SameOrders
  <2> QED
    BY <1>1, <1>2, <2>1
<1>3. ASSUME NEW w \in WOs, NEW d \in WorkOrder, ~ Exists(w),
             d.status = "PENDING_HITL_APPROVAL", wo' = [wo EXCEPT ![w] = d],
             UNCHANGED <<traces, claims, history>>,
             \A i \in Incidents :
               incident'[i].status = IF i = d.incident THEN "WORK_ORDER_CREATED"
                                                       ELSE incident[i].status
      PROVE  StoryInv'
  <2>1. \A v \in WOs : traces[v] # <<>> => wo'[v].asset = wo[v].asset
    <3>1. traces[w] = <<>>
      BY <1>3 DEF Inv, TraceComplete, Exists
    <3>2. \A v \in WOs \ {w} : wo'[v] = wo[v]
      BY <1>3, Replaced DEF Inv
    <3> QED
      BY <3>1, <3>2
  <2> QED
    BY <1>3, <2>1, IncidentsDraft, VisitsFrame
<1>4. ASSUME NEW w \in WOs, OrderNext(w) PROVE StoryInv'
  <2>1. ASSUME NEW i \in Incidents, NEW r \in Recommendations,
               CreateWorkOrderFromRecommendation(w, i, r)
        PROVE  StoryInv'
    <3> DEFINE d == Draft(r, i, MaintenanceTypeOf(r.paradigm))
    <3>1. r.asset \in Assets /\ r.skill \in Skills \cup {GENERAL} /\ r.parts \subseteq Skus
          /\ MaintenanceTypeOf(r.paradigm) \in MaintenanceTypes
      BY WorkOrdersAssumption DEF WorkOrdersAssumption, MaintenanceTypeOf, MaintenanceTypes
    <3>2. d \in WorkOrder /\ d.status = "PENDING_HITL_APPROVAL"
      BY <3>1, DraftType
    <3>3. d.incident = i
      BY DEF Draft, Blank
    <3> HIDE DEF d
    <3>4. ~ Exists(w) /\ wo' = [wo EXCEPT ![w] = d] /\ UNCHANGED <<traces, claims, history>>
      BY <2>1 DEF CreateWorkOrderFromRecommendation, desk, d
    <3>5. \A j \in Incidents :
            incident'[j].status = IF j = i THEN "WORK_ORDER_CREATED" ELSE incident[j].status
      BY <2>1 DEF CreateWorkOrderFromRecommendation, Inv, TypeOK
    <3> QED
      BY <1>3, <3>2, <3>3, <3>4, <3>5
  <2>2. ASSUME NEW r \in Schedules, CreatePreventiveWorkOrder(w, r) PROVE StoryInv'
    <3> DEFINE d == Draft(r, NoIncident, r.mtype)
    <3>1. r \in [asset : Assets, mtype : MaintenanceTypes,
                 skill : Skills \cup {GENERAL}, parts : SUBSET Skus]
      BY WorkOrdersAssumption DEF WorkOrdersAssumption
    <3>2. d \in WorkOrder /\ d.status = "PENDING_HITL_APPROVAL"
      BY <3>1, DraftType
    <3>3. d.incident = NoIncident /\ NoIncident \notin Incidents
      BY WorkOrdersAssumption DEF Draft, Blank, WorkOrdersAssumption
    <3> HIDE DEF d
    <3>4. ~ Exists(w) /\ wo' = [wo EXCEPT ![w] = d] /\ UNCHANGED <<traces, claims, history>>
      BY <2>2 DEF CreatePreventiveWorkOrder, desk, d
    <3>5. incident' = incident
      BY <2>2 DEF CreatePreventiveWorkOrder
    <3> QED
      BY <1>3, <3>2, <3>3, <3>4, <3>5
  <2>3. CASE \/ ApproveWorkOrder(w)
             \/ ReservePartsForWorkOrder(w)
             \/ \E t \in Techs, req \in Requests : DispatchWithAllocation(w, t, req)
             \/ \E t \in Techs : DispatchDefault(w, t)
             \/ StartWork(w)
             \/ \E used \in Consumptions(w) : CompleteWork(w, used)
             \/ VerifyWorkOrder(w)
    <3>1. SameOrders
      BY <2>3, HandlersKeepOrders
    <3>2. UNCHANGED <<incident, traces, claims, history>>
      BY <2>3 DEF ApproveWorkOrder, ReservePartsForWorkOrder, DispatchWithAllocation,
                  DispatchDefault, Dispatch, StartWork, CompleteWork, VerifyWorkOrder, desk
    <3> QED
      BY <1>1, <3>1, <3>2
  <2>4. ASSUME RejectWorkOrder(w) PROVE StoryInv'
    <3>1. SameOrders
      BY <2>4, HandlersKeepOrders
    <3>2. wo[w].status # "NONE" /\ wo'[w].status = "REJECTED"
      BY <2>4 DEF RejectWorkOrder, Exists, Inv, TypeOK, WorkOrder
    <3>3. IncidentsInv'
      BY <2>4, <3>1, <3>2, IncidentsFinish DEF RejectWorkOrder, Finished
    <3>4. VisitsInv'
      BY <2>4, <3>1, VisitsFrame DEF RejectWorkOrder, SameOrders, desk
    <3> QED
      BY <3>3, <3>4
  <2>5. ASSUME NEW used \in Consumptions(w), CompleteWorkRaises(w, used) PROVE StoryInv'
    BY <1>2, <2>5 DEF CompleteWorkRaises, desk
  <2>6. ASSUME NEW active \in BOOLEAN, CloseWorkOrder(w, active) PROVE StoryInv'
    <3>1. SameOrders
      BY <2>6, HandlersKeepOrders
    <3>2. wo[w].status # "NONE" /\ wo'[w].status = "CLOSED"
      BY <2>6 DEF CloseWorkOrder, Closable, Inv, TypeOK, WorkOrder
    <3>3. IncidentsInv'
      BY <2>6, <3>1, <3>2, IncidentsFinish DEF CloseWorkOrder, Finished
    <3>4. VisitsInv'
      BY <2>6, <3>1, VisitsClose
    <3> QED
      BY <3>3, <3>4
  <2> QED
    BY <1>4, <2>1, <2>2, <2>3, <2>4, <2>5, <2>6 DEF OrderNext
<1>5. ASSUME NEW i \in Incidents, NEW a \in Assets, CreateIncident(i, a) PROVE StoryInv'
  <2>1. wo' = wo /\ UNCHANGED <<traces, claims, history>> /\ incident[i].status = "NONE"
    BY <1>5 DEF CreateIncident, desk
  <2>2. VisitsInv'
    BY <2>1, VisitsFrame
  <2>3. \A j \in Incidents : OrdersOf(j)' = OrdersOf(j)
    BY <2>1 DEF OrdersOf
  <2>4. /\ incident'[i].status = "OPEN"
        /\ \A j \in Incidents \ {i} : incident'[j] = incident[j]
    BY <1>5 DEF CreateIncident, Inv, TypeOK
  <2>5. IncidentsTrackOrders'
    BY <2>1, <2>3, <2>4 DEF IncidentsInv, IncidentsTrackOrders
  <2>6. IncidentsInv'
    BY <2>1, <2>5 DEF IncidentsInv, Exists
  <2> QED
    BY <2>2, <2>6
<1>6. ASSUME NEW t \in Techs, NEW p \in Profiles, RegisterTechnician(t, p) PROVE StoryInv'
  BY <1>2, <1>6 DEF RegisterTechnician, desk
<1>7. ASSUME NEW a \in Assets, RegisterWarranty(a) PROVE StoryInv'
  BY <1>2, <1>7 DEF RegisterWarranty, desk
<1>8. ASSUME NEW s \in Skus, NEW n \in 1..MaxStock, Delivery(s, n) PROVE StoryInv'
  BY <1>2, <1>8 DEF Delivery, desk
<1>9. CASE UNCHANGED vars
  BY <1>2, <1>9 DEF vars, desk
<1> QED
  BY <1>4, <1>5, <1>6, <1>7, <1>8, <1>9 DEF Next

(* Orders, incidents and the three records of a closed order tell one story *)
(* in every behaviour of the workflow.                                      *)
THEOREM StoryInvariant == Spec => [](Inv /\ StoryInv)
<1>1. Init => Inv /\ StoryInv
  BY InitInv, StoryInit
<1>2. (Inv /\ StoryInv) /\ [Next]_vars => (Inv /\ StoryInv)'
  BY NextInv, StoryStep
<1> QED
  BY <1>1, <1>2, PTL DEF Spec

(* An incident is open exactly while no order was drafted for it, and is    *)
(* closed only after one of its orders was closed or rejected, although     *)
(* three handlers write its status without looking.                         *)
THEOREM IncidentsHold == Spec => []IncidentsTrackOrders
<1>1. Inv /\ StoryInv => IncidentsTrackOrders
  BY DEF StoryInv, IncidentsInv
<1> QED
  BY <1>1, StoryInvariant, PTL

(* The entries of the history, the traces and the claims count the same.    *)
LEMMA StoryCounts ==
  ASSUME Inv, StoryInv
  PROVE  HistoryAgrees
<1> SUFFICES ASSUME NEW w \in WOs
             PROVE  /\ Cardinality(Visits(wo[w].asset, w, TRUE)) = claims[w]
                    /\ Cardinality(Visits(wo[w].asset, w, FALSE)) + claims[w] = Len(traces[w])
  BY DEF HistoryAgrees
<1> DEFINE a  == wo[w].asset
           ct == Cardinality(Visits(a, w, TRUE))
           cf == Cardinality(Visits(a, w, FALSE))
<1>0. SUFFICES ct = claims[w] /\ cf + claims[w] = Len(traces[w])
  OBVIOUS
<1>1. a \in Assets /\ history[a] \in Seq(Visit)
  BY DEF Inv, TypeOK, WorkOrder
<1>2. CASE traces[w] = <<>>
  <2>1. claims[w] = 0 /\ \A k \in DOMAIN history[a] : history[a][k].wo # w
    BY <1>1, <1>2 DEF StoryInv, VisitsInv, NotTold
  <2>2. Visits(a, w, TRUE) = {} /\ Visits(a, w, FALSE) = {}
    BY <2>1 DEF Visits
  <2>3. ct = 0 /\ cf = 0
    BY <2>2, FS_EmptySet
  <2>4. Len(traces[w]) = 0
    BY <1>2
  <2> HIDE DEF ct, cf
  <2> QED
    BY <2>1, <2>3, <2>4
<1>3. CASE traces[w] # <<>>
  <2>1. PICK k \in DOMAIN history[a] :
          /\ \A j \in DOMAIN history[a] : history[a][j].wo = w <=> j = k
          /\ claims[w] = IF history[a][k].claimed THEN 1 ELSE 0
    BY <1>3 DEF StoryInv, VisitsInv, ToldOnce
  <2>2. \A j \in DOMAIN history[a] : history[a][j] \in [wo : WOs, claimed : BOOLEAN]
    <3>1. \A j \in DOMAIN history[a] : history[a][j] \in Visit
      BY <1>1
    <3> QED
      BY <3>1 DEF Visit
  <2> HIDE DEF a
  <2>3. \A b \in BOOLEAN :
          Visits(a, w, b) = IF history[a][k].claimed = b THEN {k} ELSE {}
    BY <2>1, <2>2 DEF Visits
  <2>4. Len(traces[w]) = 1
    BY <1>3 DEF StoryInv, VisitsInv, ToldOnce
  <2>5. Cardinality({k}) = 1 /\ Cardinality({}) = 0
    BY FS_Singleton, FS_EmptySet
  <2>6. CASE history[a][k].claimed
    <3>1. Visits(a, w, TRUE) = {k} /\ Visits(a, w, FALSE) = {} /\ claims[w] = 1
      BY <2>1, <2>2, <2>3, <2>6
    <3>2. ct = 1 /\ cf = 0
      BY <2>5, <3>1
    <3> HIDE DEF ct, cf
    <3> QED
      BY <2>4, <3>1, <3>2
  <2>7. CASE ~ history[a][k].claimed
    <3>1. Visits(a, w, TRUE) = {} /\ Visits(a, w, FALSE) = {k} /\ claims[w] = 0
      BY <2>1, <2>2, <2>3, <2>7
    <3>2. ct = 0 /\ cf = 1
      BY <2>5, <3>1
    <3> HIDE DEF ct, cf
    <3> QED
      BY <2>4, <3>1, <3>2
  <2> QED
    BY <2>6, <2>7
<1> QED
  BY <1>2, <1>3

(* Asset history, traceability records and warranty claims are three stores *)
(* that tell the same story of every order.                                 *)
THEOREM HistoriesHold == Spec => []HistoryAgrees
<1>1. Inv /\ StoryInv => HistoryAgrees
  BY StoryCounts
<1> QED
  BY <1>1, StoryInvariant, PTL

-----------------------------------------------------------------------------
(***************************************************************************)
(* The ledger of the parts: what is on hand and what was logged as used    *)
(* came in.  The sums it is stated with are what FoldLemmas is for.        *)
(***************************************************************************)

(* The sums behind the ledger are natural numbers, 0 without logs.          *)
LEMMA LedgerTypes ==
  ASSUME TypeOK, NEW s \in Skus
  PROVE  /\ \A w \in WOs : UsedBy(w, s) \in Nat /\ (logs[w] = <<>> => UsedBy(w, s) = 0)
         /\ [w \in WOs |-> UsedBy(w, s)] \in [WOs -> Nat]
<1>1. ASSUME NEW w \in WOs
      PROVE  UsedBy(w, s) \in Nat /\ (logs[w] = <<>> => UsedBy(w, s) = 0)
  <2> DEFINE f == [k \in DOMAIN logs[w] |-> logs[w][k].used[s]]
  <2>1. logs[w] \in Seq(Log)
    BY DEF TypeOK
  <2>2. DOMAIN logs[w] = 1..Len(logs[w]) /\ Len(logs[w]) \in Nat
    BY <2>1
  <2>3. IsFiniteSet(DOMAIN logs[w])
    BY <2>2, FS_Interval
  <2>4. f \in [DOMAIN logs[w] -> Nat]
    <3>1. \A k \in DOMAIN logs[w] : logs[w][k] \in Log
      BY <2>1
    <3> QED BY <3>1 DEF Log
  <2>5. UsedBy(w, s) = SumFunction(f)
    BY DEF UsedBy
  <2> HIDE DEF f
  <2>6. UsedBy(w, s) \in Nat
    BY <2>3, <2>4, <2>5, SumNat
  <2>7. ASSUME logs[w] = <<>> PROVE UsedBy(w, s) = 0
    <3>1. DOMAIN logs[w] = {}
      BY <2>7
    <3> QED BY <2>3, <2>4, <2>5, <3>1, SumZero
  <2> QED BY <2>6, <2>7
<1> QED BY <1>1

(* Completing an order adds what it used to what is logged.                 *)
LEMMA CompletionLogged ==
  ASSUME IsFiniteSet(WOs), Inv, Inv', NEW w \in WOs, NEW used \in [Skus -> Nat],
         CompleteWork(w, used), NEW s \in Skus
  PROVE  Logged(s) \in Nat /\ Logged(s)' = Logged(s) + used[s]
<1> DEFINE e == [tech |-> wo[w].tech, used |-> used]
           f == [v \in WOs |-> UsedBy(v, s)]
           g == [v \in WOs |-> UsedBy(v, s)']
<1>1. logs[w] = <<>> /\ logs' = [logs EXCEPT ![w] = Append(logs[w], e)]
  BY DEF CompleteWork, Underway, Inv, Bookkeeping
<1>2. logs'[w] = Append(<<>>, e) /\ \A v \in WOs : v # w => logs'[v] = logs[v]
  BY <1>1 DEF Inv, TypeOK
<1>3. DOMAIN logs'[w] = {1} /\ logs'[w][1] = e
  BY <1>2
<1>4. UsedBy(w, s)' = used[s]
  <2> DEFINE h == [k \in DOMAIN logs'[w] |-> logs'[w][k].used[s]]
  <2>1. h \in [{1} -> Nat] /\ h[1] = used[s]
    BY <1>3
  <2>2. UsedBy(w, s)' = SumFunction(h)
    BY DEF UsedBy
  <2> HIDE DEF h
  <2> QED BY <2>1, <2>2, SumOne
<1>5. \A v \in WOs : v # w => UsedBy(v, s)' = UsedBy(v, s)
  BY <1>2 DEF UsedBy
<1>6. f \in [WOs -> Nat] /\ f[w] = 0
  BY <1>1, LedgerTypes DEF Inv
<1>7. g = [f EXCEPT ![w] = @ + used[s]]
  <2>1. ASSUME NEW v \in WOs PROVE g[v] = [f EXCEPT ![w] = @ + used[s]][v]
    <3>1. CASE v = w
      <4>1. g[v] = used[s] /\ [f EXCEPT ![w] = @ + used[s]][v] = f[w] + used[s]
        BY <1>4, <1>6, <3>1
      <4>2. used[s] \in Nat
        OBVIOUS
      <4> QED BY <1>6, <4>1, <4>2
    <3>2. CASE v # w
      BY <1>5, <1>6, <3>2
    <3> QED BY <3>1, <3>2
  <2> QED BY <2>1
<1>8. Logged(s) = SumFunction(f) /\ Logged(s)' = SumFunction(g)
  BY DEF Logged
<1> HIDE DEF f, g
<1>9. SumFunction([f EXCEPT ![w] = @ + used[s]]) = SumFunction(f) + used[s]
  BY <1>6, SumGrows
<1> QED BY <1>6, <1>7, <1>8, <1>9, SumNat

(* A step that logs nothing, and puts no more on the shelf than it counts   *)
(* as received.                                                             *)
LEMMA LedgerFrame ==
  ASSUME IsFiniteSet(WOs), Inv, Inv', LedgerSound, logs' = logs,
         \A s \in Skus : onHand'[s] + received[s] <= onHand[s] + received'[s]
  PROVE  LedgerSound'
<1> SUFFICES ASSUME NEW s \in Skus PROVE onHand'[s] + Logged(s)' <= received'[s]
  BY DEF LedgerSound
<1>1. Logged(s)' = Logged(s)
  BY DEF Logged, UsedBy
<1>2. Logged(s) \in Nat
  BY LedgerTypes, SumNat DEF Inv, Logged
<1>3. /\ onHand[s] \in Nat /\ onHand'[s] \in Nat /\ received[s] \in Nat /\ received'[s] \in Nat
  BY DEF Inv, TypeOK, StockTypeOK
<1>4. onHand[s] + Logged(s) <= received[s]
  BY DEF LedgerSound
<1> QED BY <1>1, <1>2, <1>3, <1>4

(* An order's call either completes it or is a step of LedgerFrame.         *)
LEMMA OrdersLedger ==
  ASSUME Inv, NEW w \in WOs, OrderNext(w)
  PROVE  \/ \E used \in [Skus -> Nat] : CompleteWork(w, used)
         \/ /\ logs' = logs
            /\ \A s \in Skus : onHand'[s] + received[s] <= onHand[s] + received'[s]
<1> DEFINE Quiet == logs' = logs /\ onHand' = onHand /\ received' = received
<1>1. \A s \in Skus : onHand[s] \in Nat /\ received[s] \in Nat
  BY DEF Inv, TypeOK, StockTypeOK
<1>2. Consumptions(w) \subseteq [Skus -> Nat]
  BY InventoryAssumption, OneOfEachType DEF Consumptions, InventoryAssumption
<1>3. CASE \E used \in Consumptions(w) : CompleteWork(w, used)
  BY <1>2, <1>3
<1>4. CASE \E used \in Consumptions(w) : CompleteWorkRaises(w, used)
  <2>1. PICK used \in Consumptions(w) : CompleteWorkRaises(w, used)
    BY <1>4
  <2>2. PICK S \in SUBSET Consumable(used) : Deduct(S, used)
    BY <2>1 DEF CompleteWorkRaises, ConsumePartsRaises
  <2>3. logs' = logs /\ received' = received
    BY <2>1 DEF CompleteWorkRaises, desk
  <2>4. \A s \in Skus : used[s] \in Nat /\ onHand'[s] = IF s \in S THEN onHand[s] - used[s] ELSE onHand[s]
    BY <1>2, <2>2 DEF Deduct
  <2> QED BY <1>1, <2>3, <2>4
<1>5. CASE Quiet
  BY <1>1, <1>5
<1>6. ASSUME ~ \E used \in Consumptions(w) : CompleteWork(w, used) \/ CompleteWorkRaises(w, used)
      PROVE  Quiet
  <2> USE DEF stock, desk
  <2>1. ASSUME NEW i \in Incidents, NEW r \in Recommendations,
               CreateWorkOrderFromRecommendation(w, i, r)
        PROVE  Quiet
    BY <2>1 DEF CreateWorkOrderFromRecommendation
  <2>2. ASSUME NEW r \in Schedules, CreatePreventiveWorkOrder(w, r) PROVE Quiet
    BY <2>2 DEF CreatePreventiveWorkOrder
  <2>3. CASE ApproveWorkOrder(w)
    BY <2>3 DEF ApproveWorkOrder
  <2>4. CASE RejectWorkOrder(w)
    BY <2>4 DEF RejectWorkOrder
  <2>5. CASE ReservePartsForWorkOrder(w)
    BY <2>5 DEF ReservePartsForWorkOrder, ReserveParts
  <2>6. ASSUME NEW t \in Techs, NEW req \in Requests, DispatchWithAllocation(w, t, req)
        PROVE  Quiet
    BY <2>6 DEF DispatchWithAllocation, ReserveParts, Dispatch
  <2>7. ASSUME NEW t \in Techs, DispatchDefault(w, t) PROVE Quiet
    BY <2>7 DEF DispatchDefault, ReserveParts, Dispatch
  <2>8. CASE StartWork(w)
    BY <2>8 DEF StartWork
  <2>9. CASE VerifyWorkOrder(w)
    BY <2>9 DEF VerifyWorkOrder
  <2>10. ASSUME NEW active \in BOOLEAN, CloseWorkOrder(w, active) PROVE Quiet
    BY <2>10 DEF CloseWorkOrder
  <2> QED BY <1>6, <2>1, <2>2, <2>3, <2>4, <2>5, <2>6, <2>7, <2>8, <2>9, <2>10 DEF OrderNext
<1> QED BY <1>3, <1>4, <1>5, <1>6

(* No step unbalances the ledger.                                          *)
LEMMA LedgerStep ==
  ASSUME IsFiniteSet(WOs), Inv, Inv', LedgerSound, [Next]_vars
  PROVE  LedgerSound'
<1>1. \A s \in Skus : onHand[s] \in Nat /\ received[s] \in Nat
  BY DEF Inv, TypeOK, StockTypeOK
<1>2. ASSUME logs' = logs, onHand' = onHand, received' = received
      PROVE  LedgerSound'
  BY <1>1, <1>2, LedgerFrame
<1>3. ASSUME NEW w \in WOs, NEW used \in [Skus -> Nat], CompleteWork(w, used)
      PROVE  LedgerSound'
  <2> SUFFICES ASSUME NEW s \in Skus PROVE onHand'[s] + Logged(s)' <= received'[s]
    BY DEF LedgerSound
  <2>1. Logged(s) \in Nat /\ Logged(s)' = Logged(s) + used[s]
    BY <1>3, CompletionLogged
  <2>2. received' = received /\ Deduct(Wanted(used), used)
    BY <1>3 DEF CompleteWork, ConsumeParts
  <2>3. used[s] \in Nat /\ onHand'[s] = IF s \in Wanted(used) THEN onHand[s] - used[s] ELSE onHand[s]
    BY <2>2 DEF Deduct
  <2>4. s \notin Wanted(used) => used[s] = 0
    BY <2>3 DEF Wanted
  <2>5. onHand[s] + Logged(s) <= received[s]
    BY DEF LedgerSound
  <2> QED BY <1>1, <2>1, <2>2, <2>3, <2>4, <2>5
<1>4. ASSUME NEW w \in WOs, OrderNext(w) PROVE LedgerSound'
  BY <1>3, <1>4, OrdersLedger, LedgerFrame
<1>5. ASSUME NEW t \in Techs, NEW p \in Profiles, RegisterTechnician(t, p) PROVE LedgerSound'
  BY <1>2, <1>5 DEF RegisterTechnician, stock, desk
<1>6. ASSUME NEW a \in Assets, RegisterWarranty(a) PROVE LedgerSound'
  BY <1>2, <1>6 DEF RegisterWarranty, stock, desk
<1>7. ASSUME NEW i \in Incidents, NEW a \in Assets, CreateIncident(i, a) PROVE LedgerSound'
  BY <1>2, <1>7 DEF CreateIncident, stock, desk
<1>8. ASSUME NEW s \in Skus, NEW n \in 1..MaxStock, Delivery(s, n) PROVE LedgerSound'
  <2>1. logs' = logs /\ n \in Nat
    BY <1>8, InventoryAssumption DEF Delivery, desk, InventoryAssumption
  <2>2. \A q \in Skus : /\ onHand'[q] = IF q = s THEN onHand[q] + n ELSE onHand[q]
                        /\ received'[q] = IF q = s THEN received[q] + n ELSE received[q]
    BY <1>8 DEF Delivery, Restock, Inv, TypeOK, StockTypeOK
  <2>3. \A q \in Skus : onHand'[q] + received[q] <= onHand[q] + received'[q]
    BY <1>1, <2>1, <2>2
  <2> QED BY <2>1, <2>3, LedgerFrame
<1>9. CASE UNCHANGED vars
  BY <1>2, <1>9 DEF vars, stock, desk
<1> QED BY <1>4, <1>5, <1>6, <1>7, <1>8, <1>9 DEF Next

(* At the start what is on hand is all that came in.                        *)
LEMMA LedgerInit ==
  ASSUME IsFiniteSet(WOs), Init, Inv
  PROVE  LedgerSound
<1> SUFFICES ASSUME NEW s \in Skus PROVE onHand[s] + Logged(s) <= received[s]
  BY DEF LedgerSound
<1>1. \A w \in WOs : UsedBy(w, s) = 0
  BY LedgerTypes DEF Init, Inv
<1>2. Logged(s) = 0
  <2> DEFINE f == [w \in WOs |-> UsedBy(w, s)]
  <2>1. f \in [WOs -> Nat] /\ \A w \in WOs : f[w] = 0
    BY <1>1
  <2>2. Logged(s) = SumFunction(f)
    BY DEF Logged
  <2> HIDE DEF f
  <2> QED BY <2>1, <2>2, SumZero
<1>3. received[s] = onHand[s] /\ onHand[s] \in Nat
  BY DEF Init, Inv, TypeOK, StockTypeOK
<1> QED BY <1>2, <1>3

(* LedgerSound in every behaviour.                                          *)
THEOREM LedgerHolds ==
  ASSUME IsFiniteSet(WOs)
  PROVE  Spec => []LedgerSound
<1>1. Init /\ Inv => LedgerSound
  BY LedgerInit
<1>2. Inv /\ Inv' /\ LedgerSound /\ [Next]_vars => LedgerSound'
  BY LedgerStep
<1> QED BY <1>1, <1>2, WorkflowInvariant, PTL DEF Spec

-----------------------------------------------------------------------------
(***************************************************************************)
(* The engine implements MaintenanceGate: each handler is one step of the  *)
(* gate or leaves it alone.  The phases an order moves between are read off*)
(* its status alone; that work is performed and archived exactly once is   *)
(* the part that needs the inductive invariant.                            *)
(***************************************************************************)

(* A handler that changes the status of one order moves its phase only.     *)
LEMMA GateMove ==
  ASSUME NEW w \in WOs, NEW from, NEW to,
         PhaseOf(wo[w].status) = from, PhaseOf(wo'[w].status) = to,
         \A v \in WOs \ {w} : wo'[v] = wo[v]
  PROVE  Gate!Move(w, from, to)
BY DEF Gate!Move

(* A handler that moves one status on, and no log, trace or claim, is an    *)
(* Advance of the gate.                                                     *)
LEMMA GateAdvance ==
  ASSUME NEW w \in WOs, NEW q, TypeOK, wo' = [wo EXCEPT ![w] = q],
         UNCHANGED <<logs, traces, claims>>,
         \/ PhaseOf(wo[w].status) = "absent" /\ PhaseOf(q.status) = "proposed"
         \/ PhaseOf(wo[w].status) = "proposed" /\ PhaseOf(q.status) = "authorised"
         \/ PhaseOf(wo[w].status) = "authorised" /\ PhaseOf(q.status) = "underway"
         \/ PhaseOf(wo[w].status) = "done" /\ PhaseOf(q.status) = "accepted"
  PROVE  Gate!GateNext
<1>1. wo'[w] = q /\ \A v \in WOs \ {w} : wo'[v] = wo[v]
  BY DEF TypeOK
<1>2. \/ Gate!Move(w, "absent", "proposed")
      \/ Gate!Move(w, "proposed", "authorised")
      \/ Gate!Move(w, "authorised", "underway")
      \/ Gate!Move(w, "done", "accepted")
  BY <1>1, GateMove
<1>3. Gate!Advance(w)
  BY <1>2 DEF Gate!Advance
<1> QED
  BY <1>3 DEF Gate!GateNext

(* A handler that keeps every order in its phase is none of the gate's      *)
(* steps.                                                                   *)
LEMMA GateStutter ==
  ASSUME \A v \in WOs : PhaseOf(wo'[v].status) = PhaseOf(wo[v].status),
         UNCHANGED <<logs, traces, claims>>
  PROVE  UNCHANGED Gate!gate
BY DEF Gate!gate

(* Every step of the workflow is a step of the gate or none.                *)
LEMMA GateStep ==
  ASSUME Inv, [Next]_vars
  PROVE  [Gate!GateNext]_(Gate!gate)
<1>1. wo \in [WOs -> WorkOrder] /\ TypeOK
  BY DEF Inv, TypeOK
<1>2. ASSUME UNCHANGED <<wo, desk>> PROVE UNCHANGED Gate!gate
  BY <1>2, GateStutter DEF desk
<1>3. ASSUME NEW w \in WOs, OrderNext(w) PROVE [Gate!GateNext]_(Gate!gate)
  <2>1. ASSUME NEW i \in Incidents, NEW r \in Recommendations,
               CreateWorkOrderFromRecommendation(w, i, r)
        PROVE  Gate!GateNext
    <3> DEFINE q == Draft(r, i, MaintenanceTypeOf(r.paradigm))
    <3>1. wo[w].status = "NONE" /\ wo' = [wo EXCEPT ![w] = q] /\ UNCHANGED desk
      BY <2>1 DEF CreateWorkOrderFromRecommendation, Exists
    <3>2. q.status = "PENDING_HITL_APPROVAL"
      BY DEF Draft, Blank
    <3> HIDE DEF q
    <3> QED
      BY <1>1, <3>1, <3>2, GateAdvance DEF PhaseOf, desk
  <2>2. ASSUME NEW r \in Schedules, CreatePreventiveWorkOrder(w, r)
        PROVE  Gate!GateNext
    <3> DEFINE q == Draft(r, NoIncident, r.mtype)
    <3>1. wo[w].status = "NONE" /\ wo' = [wo EXCEPT ![w] = q] /\ UNCHANGED desk
      BY <2>2 DEF CreatePreventiveWorkOrder, Exists
    <3>2. q.status = "PENDING_HITL_APPROVAL"
      BY DEF Draft, Blank
    <3> HIDE DEF q
    <3> QED
      BY <1>1, <3>1, <3>2, GateAdvance DEF PhaseOf, desk
  <2>3. ASSUME ApproveWorkOrder(w) PROVE Gate!GateNext
    <3> DEFINE q == [wo[w] EXCEPT !.hitl = "APPROVED", !.status = "APPROVED"]
    <3>1. /\ wo[w].status \in {"PENDING_HITL_APPROVAL", "DRAFT"}
          /\ wo' = [wo EXCEPT ![w] = q] /\ UNCHANGED desk
      BY <2>3 DEF ApproveWorkOrder
    <3>2. q.status = "APPROVED"
      BY <1>1 DEF WorkOrder
    <3> HIDE DEF q
    <3> QED
      BY <1>1, <3>1, <3>2, GateAdvance DEF PhaseOf, desk
  <2>4. ASSUME RejectWorkOrder(w) PROVE Gate!GateNext
    <3> DEFINE q == [wo[w] EXCEPT !.hitl = "REJECTED", !.status = "REJECTED"]
    <3>1. wo[w].status # "NONE" /\ wo' = [wo EXCEPT ![w] = q] /\ UNCHANGED desk
      BY <2>4 DEF RejectWorkOrder, Exists
    <3>2. q.status = "REJECTED" /\ wo[w].status \in Statuses
      BY <1>1 DEF WorkOrder
    <3> HIDE DEF q
    <3>3. wo'[w] = q /\ \A v \in WOs \ {w} : wo'[v] = wo[v]
      BY <1>1, <3>1
    <3>4. PhaseOf(wo[w].status) # "absent" /\ PhaseOf(q.status) = "rejected"
      BY <3>1, <3>2 DEF PhaseOf, Statuses
    <3>5. Gate!Move(w, PhaseOf(wo[w].status), "rejected")
      BY <3>3, <3>4, GateMove
    <3>6. Gate!Reject(w)
      BY <3>1, <3>4, <3>5 DEF Gate!Reject, Gate!Move, desk
    <3> QED
      BY <3>6 DEF Gate!GateNext
  <2>5. ASSUME ReservePartsForWorkOrder(w) PROVE UNCHANGED Gate!gate
    <3> DEFINE q == [wo[w] EXCEPT !.held = OneOfEach(wo[w].parts)]
    <3>1. wo' = [wo EXCEPT ![w] = q] /\ UNCHANGED desk
      BY <2>5 DEF ReservePartsForWorkOrder
    <3>2. q.status = wo[w].status
      BY <1>1 DEF WorkOrder
    <3> HIDE DEF q
    <3>3. \A v \in WOs : wo'[v].status = wo[v].status
      BY <1>1, <3>1, <3>2
    <3> QED
      BY <3>1, <3>3, GateStutter DEF desk
  <2>6. ASSUME NEW t \in Techs, NEW held \in [Skus -> Nat], wo[w].status = "APPROVED",
               Dispatch(w, t, held)
        PROVE  Gate!GateNext
    <3> DEFINE q == [wo[w] EXCEPT !.tech = t, !.status = "DISPATCHED", !.held = held]
    <3>1. wo' = [wo EXCEPT ![w] = q] /\ UNCHANGED desk
      BY <2>6 DEF Dispatch
    <3>2. q.status = "DISPATCHED"
      BY <1>1 DEF WorkOrder
    <3> HIDE DEF q
    <3> QED
      BY <1>1, <2>6, <3>1, <3>2, GateAdvance DEF PhaseOf, desk
  <2>7. ASSUME NEW t \in Techs, NEW req \in Requests, DispatchWithAllocation(w, t, req)
        PROVE  Gate!GateNext
    <3>1. req \in [Skus -> Nat]
      BY InventoryAssumption DEF InventoryAssumption
    <3> QED
      BY <2>6, <2>7, <3>1 DEF DispatchWithAllocation, Dispatchable
  <2>8. ASSUME NEW t \in Techs, DispatchDefault(w, t) PROVE Gate!GateNext
    <3> DEFINE allocable == CheckAvailability(wo[w].parts)
               held == IF allocable # {} THEN OneOfEach(allocable) ELSE wo[w].held
    <3>1. held \in [Skus -> Nat]
      BY <1>1, OneOfEachType DEF WorkOrder
    <3>2. wo[w].status = "APPROVED" /\ Dispatch(w, t, held)
      BY <2>8 DEF DispatchDefault, Dispatchable
    <3> HIDE DEF held
    <3> QED
      BY <2>6, <3>1, <3>2
  <2>9. ASSUME StartWork(w) PROVE UNCHANGED Gate!gate
    <3> DEFINE q == [wo[w] EXCEPT !.status = "IN_PROGRESS"]
    <3>1. wo[w].status = "DISPATCHED" /\ wo' = [wo EXCEPT ![w] = q] /\ UNCHANGED desk
      BY <2>9 DEF StartWork
    <3>2. q.status = "IN_PROGRESS"
      BY <1>1 DEF WorkOrder
    <3> HIDE DEF q
    <3>3. wo'[w] = q /\ \A v \in WOs \ {w} : wo'[v] = wo[v]
      BY <1>1, <3>1
    <3>4. \A v \in WOs : PhaseOf(wo'[v].status) = PhaseOf(wo[v].status)
      BY <3>1, <3>2, <3>3 DEF PhaseOf
    <3> QED
      BY <3>1, <3>4, GateStutter DEF desk
  <2>10. ASSUME NEW used \in Consumptions(w), CompleteWork(w, used) PROVE Gate!GateNext
    <3> DEFINE q == [wo[w] EXCEPT !.status = "COMPLETED"]
               l == [tech |-> wo[w].tech, used |-> used]
    <3>1. /\ wo[w].status \in {"DISPATCHED", "IN_PROGRESS"}
          /\ wo' = [wo EXCEPT ![w] = q] /\ UNCHANGED <<traces, claims>>
          /\ logs' = [logs EXCEPT ![w] = Append(@, l)]
      BY <2>10 DEF CompleteWork, Underway
    <3>2. q.status = "COMPLETED"
      BY <1>1 DEF WorkOrder
    <3> HIDE DEF q, l
    <3>3. wo'[w] = q /\ \A v \in WOs \ {w} : wo'[v] = wo[v]
      BY <1>1, <3>1
    <3>4. Gate!Move(w, "underway", "done")
      BY <3>1, <3>2, <3>3, GateMove DEF PhaseOf
    <3>5. logs \in [WOs -> Seq(Log)] /\ logs[w] = <<>>
      BY <3>1 DEF Inv, TypeOK, Bookkeeping
    <3>6. /\ \A v \in WOs \ {w} : Len(logs'[v]) = Len(logs[v])
          /\ Len(logs'[w]) = Len(logs[w]) + 1
      BY <3>1, <3>5
    <3>7. [v \in WOs |-> Len(logs'[v])] = [[v \in WOs |-> Len(logs[v])] EXCEPT ![w] = @ + 1]
      BY <3>6
    <3>8. Gate!Perform(w)
      BY <3>1, <3>4, <3>7 DEF Gate!Perform
    <3> QED
      BY <3>8 DEF Gate!GateNext
  <2>11. ASSUME NEW used \in Consumptions(w), CompleteWorkRaises(w, used)
         PROVE  UNCHANGED Gate!gate
    BY <1>2, <2>11 DEF CompleteWorkRaises
  <2>12. ASSUME VerifyWorkOrder(w) PROVE Gate!GateNext
    <3> DEFINE q == [wo[w] EXCEPT !.status = "VERIFIED"]
    <3>1. wo[w].status = "COMPLETED" /\ wo' = [wo EXCEPT ![w] = q] /\ UNCHANGED desk
      BY <2>12 DEF VerifyWorkOrder
    <3>2. q.status = "VERIFIED"
      BY <1>1 DEF WorkOrder
    <3> HIDE DEF q
    <3> QED
      BY <1>1, <3>1, <3>2, GateAdvance DEF PhaseOf, desk
  <2>13. ASSUME NEW active \in BOOLEAN, CloseWorkOrder(w, active) PROVE Gate!GateNext
    <3> DEFINE q == [wo[w] EXCEPT !.status = "CLOSED"]
    <3>1. wo[w].status = "VERIFIED" /\ wo' = [wo EXCEPT ![w] = q] /\ UNCHANGED logs
      BY <2>13 DEF CloseWorkOrder, Closable
    <3>2. q.status = "CLOSED"
      BY <1>1 DEF WorkOrder
    <3> HIDE DEF q
    <3>3. wo'[w] = q /\ \A v \in WOs \ {w} : wo'[v] = wo[v]
      BY <1>1, <3>1
    <3>4. Gate!Move(w, "accepted", "archived")
      BY <3>1, <3>2, <3>3, GateMove DEF PhaseOf
    <3>5. /\ \A v \in WOs \ {w} : Len(traces'[v]) = Len(traces[v])
          /\ Len(traces'[w]) = Len(traces[w]) + 1
      BY <2>13, CloseStep
    <3>6. claims \in [WOs -> Nat]
      BY DEF Inv, TypeOK
    <3>7. \E n \in {0, 1} : claims' = [claims EXCEPT ![w] = @ + n]
      <4> DEFINE covered == Covered(w, active)
      <4>1. claims' = [claims EXCEPT ![w] = IF covered THEN @ + 1 ELSE @]
        BY <2>13 DEF CloseWorkOrder
      <4>2. CASE covered
        BY <4>1, <4>2
      <4>3. CASE ~ covered
        <5> HIDE DEF covered
        <5>1. claims[w] + 0 = claims[w]
          BY <3>6
        <5>2. claims' = [claims EXCEPT ![w] = @ + 0]
          BY <4>1, <4>3, <5>1
        <5> QED
          BY <5>2
      <4> QED
        BY <4>2, <4>3
    <3>8. [v \in WOs |-> Len(traces'[v])] = [[v \in WOs |-> Len(traces[v])] EXCEPT ![w] = @ + 1]
      BY <3>5
    <3>9. Gate!Archive(w)
      BY <3>1, <3>4, <3>7, <3>8 DEF Gate!Archive
    <3> QED
      BY <3>9 DEF Gate!GateNext
  <2> QED
    BY <1>3, <2>1, <2>2, <2>3, <2>4, <2>5, <2>7, <2>8, <2>9, <2>10, <2>11, <2>12, <2>13
    DEF OrderNext
<1>4. ASSUME NEW t \in Techs, NEW p \in Profiles, RegisterTechnician(t, p)
      PROVE  UNCHANGED Gate!gate
  BY <1>2, <1>4 DEF RegisterTechnician
<1>5. ASSUME NEW a \in Assets, RegisterWarranty(a) PROVE UNCHANGED Gate!gate
  BY <1>2, <1>5 DEF RegisterWarranty
<1>6. ASSUME NEW i \in Incidents, NEW a \in Assets, CreateIncident(i, a)
      PROVE  UNCHANGED Gate!gate
  BY <1>2, <1>6 DEF CreateIncident
<1>7. ASSUME NEW s \in Skus, NEW n \in 1..MaxStock, Delivery(s, n)
      PROVE  UNCHANGED Gate!gate
  BY <1>2, <1>7 DEF Delivery
<1>8. ASSUME UNCHANGED vars PROVE UNCHANGED Gate!gate
  BY <1>2, <1>8 DEF vars
<1> QED
  BY <1>3, <1>4, <1>5, <1>6, <1>7, <1>8 DEF Next

(* The engine of workflow.py implements the maintenance gate: whatever the  *)
(* order of calls, an order is worked on only after an approval and its     *)
(* work is logged, archived and recovered at most once.                     *)
THEOREM EngineImplementsGate == Spec => GatePromise
<1>1. Init => Gate!GateInit
  <2> SUFFICES ASSUME Init PROVE Gate!GateInit
    OBVIOUS
  <2>1. \A w \in WOs : wo[w].status = "NONE" /\ logs[w] = <<>> /\ traces[w] = <<>>
    BY DEF Init, Blank
  <2>2. claims = [w \in WOs |-> 0]
    BY DEF Init
  <2> QED
    BY <2>1, <2>2 DEF Gate!GateInit, PhaseOf
<1>2. Inv /\ [Next]_vars => [Gate!GateNext]_(Gate!gate)
  BY GateStep
<1> QED
  BY <1>1, <1>2, WorkflowInvariant, PTL DEF Spec, GatePromise, Gate!GateSpec

(* A step of the gate, on its own, neither repeats nor reorders the work.   *)
LEMMA GateStepKeepsOrder ==
  ASSUME Gate!GateTypeOK, Gate!OnceInOrder, [Gate!GateNext]_(Gate!gate)
  PROVE  Gate!GateTypeOK' /\ Gate!OnceInOrder'
<1> USE DEF Gate!GateTypeOK, Gate!OnceInOrder, Gate!Phases
<1>1. ASSUME NEW o \in WOs, Gate!Advance(o) PROVE Gate!GateTypeOK' /\ Gate!OnceInOrder'
  BY <1>1 DEF Gate!Advance, Gate!Move
<1>2. ASSUME NEW o \in WOs, Gate!Perform(o) PROVE Gate!GateTypeOK' /\ Gate!OnceInOrder'
  <2>1. /\ PhaseOf(wo[o].status) = "underway" /\ PhaseOf(wo'[o].status) = "done"
        /\ Len(logs'[o]) = Len(logs[o]) + 1
    BY <1>2 DEF Gate!Perform, Gate!Move
  <2>2. \A v \in WOs \ {o} : /\ PhaseOf(wo'[v].status) = PhaseOf(wo[v].status)
                            /\ Len(logs'[v]) = Len(logs[v])
    BY <1>2 DEF Gate!Perform, Gate!Move
  <2>3. \A v \in WOs : Len(traces'[v]) = Len(traces[v]) /\ claims'[v] = claims[v]
    BY <1>2 DEF Gate!Perform
  <2>4. claims' \in [WOs -> Nat]
    BY <1>2 DEF Gate!Perform
  <2>5. \A v \in WOs : /\ PhaseOf(wo'[v].status) \in Gate!Phases /\ PhaseOf(wo[v].status) \in Gate!Phases
                      /\ Len(logs'[v]) \in Nat /\ Len(traces'[v]) \in Nat
                      /\ Len(logs[v]) \in Nat /\ Len(traces[v]) \in Nat
    BY <2>1, <2>2, <2>3
  <2>6. Gate!GateTypeOK'
    BY <2>4, <2>5
  <2>7. Gate!OnceInOrder'
    <3> SUFFICES ASSUME NEW v \in WOs
                 PROVE  /\ Len(logs'[v]) <= 1
                        /\ Len(traces'[v]) <= Len(logs'[v])
                        /\ claims'[v] <= Len(traces'[v])
                        /\ PhaseOf(wo'[v].status) \in {"absent", "proposed", "authorised", "underway"}
                             => Len(logs'[v]) = 0
                        /\ PhaseOf(wo'[v].status) \in {"done", "accepted", "archived"}
                             => Len(logs'[v]) = 1
                        /\ PhaseOf(wo'[v].status) \in {"done", "accepted"}
                             => Len(traces'[v]) = 0
      OBVIOUS
    <3>1. CASE v = o
      BY <3>1, <2>1, <2>3, <2>5
    <3>2. CASE v # o
      BY <3>2, <2>2, <2>3, <2>5
    <3> QED
      BY <3>1, <3>2
  <2> QED
    BY <2>6, <2>7
<1>3. ASSUME NEW o \in WOs, Gate!Archive(o) PROVE Gate!GateTypeOK' /\ Gate!OnceInOrder'
  <2>1. PICK n \in {0, 1} : claims' = [claims EXCEPT ![o] = @ + n]
    BY <1>3 DEF Gate!Archive
  <2>2. /\ PhaseOf(wo[o].status) = "accepted" /\ PhaseOf(wo'[o].status) = "archived"
        /\ Len(traces'[o]) = Len(traces[o]) + 1
    BY <1>3 DEF Gate!Archive, Gate!Move
  <2>3. \A v \in WOs \ {o} : /\ PhaseOf(wo'[v].status) = PhaseOf(wo[v].status)
                            /\ Len(traces'[v]) = Len(traces[v])
    BY <1>3 DEF Gate!Archive, Gate!Move
  <2>4. \A v \in WOs : Len(logs'[v]) = Len(logs[v])
    BY <1>3 DEF Gate!Archive
  <2>5. /\ claims' \in [WOs -> Nat] /\ claims'[o] <= claims[o] + 1
        /\ \A v \in WOs \ {o} : claims'[v] = claims[v]
    BY <2>1
  <2>6. \A v \in WOs : /\ PhaseOf(wo'[v].status) \in Gate!Phases /\ PhaseOf(wo[v].status) \in Gate!Phases
                      /\ Len(logs'[v]) \in Nat /\ Len(traces'[v]) \in Nat
                      /\ Len(logs[v]) \in Nat /\ Len(traces[v]) \in Nat
    BY <2>2, <2>3, <2>4
  <2>7. Gate!GateTypeOK'
    BY <2>5, <2>6
  <2>8. Gate!OnceInOrder'
    <3> SUFFICES ASSUME NEW v \in WOs
                 PROVE  /\ Len(logs'[v]) <= 1
                        /\ Len(traces'[v]) <= Len(logs'[v])
                        /\ claims'[v] <= Len(traces'[v])
                        /\ PhaseOf(wo'[v].status) \in {"absent", "proposed", "authorised", "underway"}
                             => Len(logs'[v]) = 0
                        /\ PhaseOf(wo'[v].status) \in {"done", "accepted", "archived"}
                             => Len(logs'[v]) = 1
                        /\ PhaseOf(wo'[v].status) \in {"done", "accepted"}
                             => Len(traces'[v]) = 0
      OBVIOUS
    <3>1. CASE v = o
      <4>1. Len(logs[o]) = 1 /\ Len(traces[o]) = 0 /\ claims[o] <= Len(traces[o])
        BY <2>2
      <4>2. Len(logs'[o]) = 1 /\ Len(traces'[o]) = 1 /\ claims'[o] <= 1
        BY <4>1, <2>2, <2>4, <2>5
      <4> QED
        BY <4>2, <3>1, <2>2
    <3>2. CASE v # o
      BY <3>2, <2>3, <2>4, <2>5, <2>6
    <3> QED
      BY <3>1, <3>2
  <2> QED
    BY <2>7, <2>8
<1>4. ASSUME NEW o \in WOs, Gate!Reject(o) PROVE Gate!GateTypeOK' /\ Gate!OnceInOrder'
  BY <1>4 DEF Gate!Reject
<1>5. CASE UNCHANGED Gate!gate
  BY <1>5 DEF Gate!gate
<1> QED
  BY <1>1, <1>2, <1>3, <1>4, <1>5 DEF Gate!GateNext

(* The gate keeps its promise: an order is proposed, authorised, worked on, *)
(* accepted and archived in this order and once.                            *)
THEOREM GateKeepsOrder == Gate!GateSpec => []Gate!OnceInOrder
<1>1. Gate!GateInit => Gate!GateTypeOK /\ Gate!OnceInOrder
  BY DEF Gate!GateInit, Gate!GateTypeOK, Gate!OnceInOrder, Gate!Phases
<1>2. Gate!GateTypeOK /\ Gate!OnceInOrder /\ [Gate!GateNext]_(Gate!gate)
        => Gate!GateTypeOK' /\ Gate!OnceInOrder'
  BY GateStepKeepsOrder
<1> QED
  BY <1>1, <1>2, PTL DEF Gate!GateSpec

(* Work is logged, archived and recovered from the warranty at most once    *)
(* and in this order, whatever calls approve, complete or close it again.   *)
THEOREM OnceHolds == Spec => []ExactlyOnce
<1> QED
  BY EngineImplementsGate, GateKeepsOrder, PTL DEF GatePromise, ExactlyOnce
=============================================================================
