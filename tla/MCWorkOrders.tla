---------------------------- MODULE MCWorkOrders ----------------------------
(***************************************************************************)
(* Instance values for the model checking of WorkOrders.                   *)
(***************************************************************************)
EXTENDS WorkOrders, TLC

CONSTANTS fan, fuse, inverter, specialist

MCRequests ==
  {OneOfEach({}), OneOfEach({fan}), OneOfEach({fan, fuse})}

(* The fuse is in the catalogue but out of stock.                            *)
MCOpenings ==
  {[catalog |-> {fan, fuse}, onHand |-> OneOfEach({fan})]}

(* What a technician may be registered with: first or again, also while     *)
(* away, with the skill the recommendation asks for or without it.          *)
MCProfiles ==
  {[skills |-> {specialist}, available |-> TRUE],
   [skills |-> {}, available |-> TRUE]}

MCRecommendations ==
  {[asset |-> inverter, paradigm |-> "REACTIVE", skill |-> specialist, parts |-> {fan}]}

MCSchedules ==
  {[asset |-> inverter, mtype |-> "INSPECTION", skill |-> GENERAL, parts |-> {fan, fuse}]}

MCSymmetry == Permutations(WOs)
=============================================================================
