---------------------------- MODULE MCEdgePipeline ----------------------------
(***************************************************************************)
(* Instance values for the model checking of EdgePipeline.  0 never makes  *)
(* a flatline; to a registered sensor 1 is critical and 2 out of range.   *)
(***************************************************************************)
EXTENDS EdgePipeline, TLC

MCConfigs == {[min |-> 0, max |-> 1, critical |-> 1]}

MCSymmetry == {p @@ q : p \in Permutations(Sensors), q \in Permutations(Assets)}
===============================================================================
