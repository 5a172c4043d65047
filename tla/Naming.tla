------------------------------- MODULE Naming -------------------------------
(***************************************************************************)
(* The names of facilities and devices in OnboardingManager                *)
(* (reamp/onboarding/manager.py): the prefix a tenant's sites and a site's *)
(* devices carry, and how what a user typed is brought into that form.     *)
(*                                                                         *)
(* A name is the sequence of its parts between dashes, upper case and      *)
(* without blanks: "A--B" has an empty part, the empty string is the name  *)
(* of one empty part.  No word but SITE itself ends in SITE, so that the   *)
(* code's replace("SITE-", "") takes out whole parts.                      *)
(***************************************************************************)
EXTENDS Integers, FiniteSetsExt, SequencesExt

CONSTANT Words  (* what may stand between two dashes                        *)

ASSUME NamingAssumption == {"SITE", "ORG", "ASSET", ""} \subseteq Words

Names == Seq(Words)

(* The ValueError of a refusal: no name, which has at least one part.       *)
Refused == <<>>

(* Without the dashes in front, or at the end: all-dashes become "".        *)
LStrip(name) ==
  LET kept == {i \in DOMAIN name : name[i] # ""} IN
  IF kept = {} THEN <<"">> ELSE SubSeq(name, Min(kept), Len(name))

RStrip(name) ==
  LET kept == {i \in DOMAIN name : name[i] # ""} IN
  IF kept = {} THEN <<"">> ELSE SubSeq(name, 1, Max(kept))

Blank(name) == \A i \in DOMAIN name : name[i] = ""

(* replace("SITE-", ""): a SITE at the very end has no dash behind it.      *)
WithoutSite(name) ==
  LET kept[i \in 0..Len(name)] ==
        IF i = 0                                  THEN <<>>
        ELSE IF name[i] = "SITE" /\ i < Len(name) THEN kept[i - 1]
        ELSE Append(kept[i - 1], name[i])
  IN  kept[Len(name)]

Under(name, prefix) == IsPrefix(prefix, name) /\ Len(name) > Len(prefix)

Without(prefix, name) == SubSeq(name, Len(prefix) + 1, Len(name))

Times(prefix, k) == [i \in 1..k * Len(prefix) |-> prefix[((i - 1) % Len(prefix)) + 1]]

(* Mutant of Deduplicate: a prefix typed three times stays there twice.     *)
DeduplicateOnce(name, prefix) ==
  IF Under(name, prefix \o prefix) THEN Without(prefix, name) ELSE name

(* A prefix that was typed or pasted several times is kept once.            *)
Deduplicate(name, prefix) ==
  LET repeats == {k \in 2..Len(name) : Under(name, Times(prefix, k))} IN
  IF repeats = {} THEN name ELSE Without(Times(prefix, Max(repeats) - 1), name)

(* derive_facility_prefix: from the tenant's code, or else from the second  *)
(* part of its id.  <<>> stands for no code.                                *)
DeriveFacilityPrefix(tenant, code) ==
  <<"SITE">> \o CASE code # <<>>                            -> LStrip(RStrip(WithoutSite(code)))
                  [] code = <<>> /\ Under(tenant, <<"ORG">>) -> <<tenant[2]>>
                  [] OTHER                                  -> tenant

(* A prefix and what follows it, which the code strips and may not be       *)
(* empty.                                                                   *)
Suffixed(prefix, suffix) ==
  IF LStrip(suffix) = <<"">> THEN Refused ELSE prefix \o LStrip(suffix)

(* validate_or_apply_facility_prefix: the checks in their order.            *)
ValidateOrApplyFacilityPrefix(typed, tenant, code, enforce) ==
  LET prefix == DeriveFacilityPrefix(tenant, code)
      name   == Deduplicate(typed, prefix)
      short  == RStrip(WithoutSite(prefix \o <<"">>))
      full   == <<"SITE">> \o tenant
  IN  IF Blank(typed)                THEN Refused
      ELSE IF Under(name, prefix)    THEN Suffixed(prefix, Without(prefix, name))
      ELSE IF Under(name, short)     THEN Suffixed(prefix, Without(short, name))
      ELSE IF Under(name, full)      THEN full \o LStrip(Without(full, name))
      ELSE IF Under(name, tenant)    THEN full \o LStrip(Without(tenant, name))
      ELSE IF ~ Under(name, <<"SITE">>) THEN prefix \o LStrip(name)
      ELSE IF enforce                THEN Refused ELSE name

(* validate_or_apply_device_prefix, with derive_device_prefix.              *)
ValidateOrApplyDevicePrefix(typed, facility, enforce) ==
  LET prefix == RStrip(facility)
      name   == Deduplicate(typed, prefix)
      short  == RStrip(Tail(facility))
      named  == Under(name, <<"SITE">>) \/ Under(name, <<"ASSET">>)
  IN  IF Blank(typed)             THEN Refused
      ELSE IF Under(name, prefix) THEN Suffixed(prefix, Without(prefix, name))
      ELSE IF Under(facility, <<"SITE">>) /\ Under(name, short)
           THEN prefix \o LStrip(Without(short, name))
      ELSE IF ~ named             THEN prefix \o LStrip(name)
      ELSE IF enforce             THEN Refused ELSE name
====
