----------------------------- MODULE MCEdgeBuffer -----------------------------
(***************************************************************************)
(* Instance of EdgeBuffer for model checking: the constants are ordinary   *)
(* values and are given in the configuration.                              *)
(***************************************************************************)
EXTENDS EdgeBuffer
=============================================================================
