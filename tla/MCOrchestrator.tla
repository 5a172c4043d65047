--------------------------- MODULE MCOrchestrator ---------------------------
(***************************************************************************)
(* Instance values for the model checking of Orchestrator.                 *)
(***************************************************************************)
EXTENDS Orchestrator, TLC

CONSTANTS inv, al1, al2, wo1, wo2, dec1, dec2, ad1, ad2, rul, setting

MCResources == {inv, al1, al2, wo1, wo2, dec1, dec2, ad1, ad2, rul, setting}

(* Both sides of the guardrail, upwards and downwards.                     *)
MCShifts == {-15, -10, 25}

(* Nothing, a HIGH and a CRITICAL finding of one kind, which share an alert. *)
MCFindings ==
  {{}, {<<"THRESHOLD_VIOLATION", "HIGH">>}, {<<"THRESHOLD_VIOLATION", "CRITICAL">>}}

MCSymmetry == Permutations({al1, al2}) \cup Permutations({wo1, wo2})
              \cup Permutations({dec1, dec2}) \cup Permutations({ad1, ad2})
=============================================================================
