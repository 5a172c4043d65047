----------------------------- MODULE AuditTrail -----------------------------
(***************************************************************************)
(* What the engines of one application write to its shared                 *)
(* TamperEvidentAuditLogger (reamp/security/audit.py), seen through        *)
(* get_entries_for_resource: for each resource the last entry written      *)
(* about it.  The hashes that chain the entries together are left out.     *)
(***************************************************************************)
CONSTANT Resources

VARIABLE trail  (* the last entry about each resource, "NONE" before one    *)

TrailInit == trail = [r \in Resources |-> "NONE"]

Record(r, entry) == trail' = [trail EXCEPT ![r] = entry]
=============================================================================
