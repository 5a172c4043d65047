------------------------------- MODULE Sorting -------------------------------
(***************************************************************************)
(* ORDER BY: the numbers of a finite set in ascending order.  The sorting  *)
(* of the community modules ends in an operator of TLC without a           *)
(* definition to reason from.                                              *)
(***************************************************************************)
EXTENDS Integers, FiniteSets

InOrder(S) ==
  CHOOSE s \in [1..Cardinality(S) -> S] : \A i, j \in DOMAIN s : i < j => s[i] < s[j]
=============================================================================
