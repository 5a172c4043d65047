------------------------------ MODULE Inventory ------------------------------
(***************************************************************************)
(* The spare parts warehouse: reamp/cmms/inventory.py, InventoryManager,   *)
(* over the SparePart records of reamp/cmms/models.py.                     *)
(*                                                                         *)
(* A request is the dict sku -> quantity a caller passes.  It is a         *)
(* function on Skus in which 0 stands for an absent key as well as for the *)
(* quantities the code skips ("if qty <= 0: continue").  An operation that *)
(* raises before it changes anything is a disabled action.                 *)
(***************************************************************************)
EXTENDS Integers

CONSTANTS
  Skus,        (* part_sku values callers use, registered or not            *)
  MaxStock,    (* bound: largest quantity_on_hand reached by deliveries     *)
  Requests,    (* the requirement / consumption dicts callers pass          *)
  Openings     (* [catalog, onHand]: the initial catalogues                 *)

ASSUME InventoryAssumption ==
  /\ MaxStock \in Nat
  /\ Requests \subseteq [Skus -> Nat]
  /\ Openings \subseteq [catalog : SUBSET Skus, onHand : [Skus -> 0..MaxStock]]
  /\ \A o \in Openings : \A s \in Skus \ o.catalog : o.onHand[s] = 0

VARIABLES
  catalog,     (* keys of _catalog                                          *)
  onHand,      (* SparePart.quantity_on_hand, 0 for an unregistered SKU     *)
  reserved     (* SparePart.quantity_reserved, 0 for an unregistered SKU    *)

stock == <<catalog, onHand, reserved>>

(* Mutant of ClampedDiff: max(0, ...) is forgotten.                         *)
UnclampedDiff(a, b) == a - b

(* SparePart.available_quantity: what is neither consumed nor reserved.     *)
ClampedDiff(a, b) == IF a >= b THEN a - b ELSE 0
AvailableQuantity(s) == ClampedDiff(onHand[s], reserved[s])

(* check_availability, as the set of the SKUs it maps to True.              *)
CheckAvailability(skus) == {s \in skus \cap catalog : AvailableQuantity(s) > 0}

OneOfEach(skus) == [s \in Skus |-> IF s \in skus THEN 1 ELSE 0]

-----------------------------------------------------------------------------

InventoryInit ==
  /\ \E o \in Openings : catalog = o.catalog /\ onHand = o.onHand
  /\ reserved = [s \in Skus |-> 0]

(* register_part stores a copy of the caller's record.  Every caller builds *)
(* a record with no reservation, so an update forgets those already made.   *)
RegisterPart(s, n) ==
  /\ catalog'  = catalog \cup {s}
  /\ onHand'   = [onHand EXCEPT ![s] = n]
  /\ reserved' = [reserved EXCEPT ![s] = 0]

(* Mutant of ReserveParts: the validation compares with quantity_on_hand.   *)
ReserveFromShelf(req) ==
  /\ \A s \in Skus : req[s] > 0 => s \in catalog /\ onHand[s] >= req[s]
  /\ reserved' = [s \in Skus |-> reserved[s] + req[s]]
  /\ UNCHANGED <<catalog, onHand>>

(* reserve_parts: the validation pass is the guard, so that a request with  *)
(* one SKU short reserves nothing.                                          *)
ReserveParts(req) ==
  /\ \A s \in Skus : req[s] > 0 => s \in catalog /\ AvailableQuantity(s) >= req[s]
  /\ reserved' = [s \in Skus |-> reserved[s] + req[s]]
  /\ UNCHANGED <<catalog, onHand>>

ReleaseReservation(req) ==
  /\ reserved' = [s \in Skus |-> ClampedDiff(reserved[s], req[s])]
  /\ UNCHANGED <<catalog, onHand>>

(* Mutant of Deduct: a reserved unit is taken to have left the shelf when   *)
(* it was reserved.                                                         *)
DeductReservationOnly(S, req) ==
  /\ reserved' = [s \in Skus |-> IF s \in S THEN ClampedDiff(reserved[s], req[s])
                                            ELSE reserved[s]]
  /\ UNCHANGED <<catalog, onHand>>

(* One turn of consume_parts' loop for every SKU of S.  The reservation is  *)
(* reduced whoever made it, and clamped at 0 when there was none.           *)
Deduct(S, req) ==
  /\ onHand'   = [s \in Skus |-> IF s \in S THEN onHand[s] - req[s] ELSE onHand[s]]
  /\ reserved' = [s \in Skus |-> IF s \in S THEN ClampedDiff(reserved[s], req[s])
                                            ELSE reserved[s]]
  /\ UNCHANGED catalog

Consumable(req) == {s \in Skus : req[s] > 0 /\ s \in catalog /\ onHand[s] >= req[s]}
Wanted(req)     == {s \in Skus : req[s] > 0}

ConsumeParts(req) ==
  /\ Wanted(req) = Consumable(req)
  /\ Deduct(Wanted(req), req)

(* consume_parts raises at the first SKU it cannot consume: the SKUs that   *)
(* come before it in the dict, in whatever order the caller built it, stay  *)
(* deducted.                                                                *)
ConsumePartsRaises(req) ==
  /\ Wanted(req) # Consumable(req)
  /\ \E S \in SUBSET Consumable(req) : Deduct(S, req)

Restock(s, n) ==
  /\ s \in catalog
  /\ n > 0
  /\ onHand[s] + n <= MaxStock
  /\ onHand' = [onHand EXCEPT ![s] = @ + n]
  /\ UNCHANGED <<catalog, reserved>>

-----------------------------------------------------------------------------
(* The manager on its own: any caller, any sequence of legal calls.         *)

InventoryNext ==
  \/ \E s \in Skus, n \in 0..MaxStock : RegisterPart(s, n)
  \/ \E s \in Skus, n \in 1..MaxStock : Restock(s, n)
  \/ \E req \in Requests : ReserveParts(req)
  \/ \E req \in Requests : ReleaseReservation(req)
  \/ \E req \in Requests : ConsumeParts(req)
  \/ \E req \in Requests : ConsumePartsRaises(req)

InventorySpec == InventoryInit /\ [][InventoryNext]_stock

StockTypeOK ==
  /\ catalog \subseteq Skus
  /\ onHand \in [Skus -> Nat]
  /\ reserved \in [Skus -> Nat]

(* No unit is promised twice: what is reserved is physically there.  It     *)
(* depends on reserve_parts comparing with the available, not the on-hand   *)
(* quantity, and on consume_parts and restock moving both counters so that  *)
(* no order of calls leaves a reservation without a unit behind it.         *)
NoOvercommit == \A s \in Skus : reserved[s] <= onHand[s]

(* Only the catalogue holds stock: a SKU that was never registered is       *)
(* neither on hand nor reserved, so a request for it can only be refused.   *)
OnlyCatalogued == \A s \in Skus \ catalog : onHand[s] = 0 /\ reserved[s] = 0
=============================================================================
