---------------------------- MODULE MCWebServer -----------------------------
(***************************************************************************)
(* Instance values for the model checking of WebServer: two seeded tenants *)
(* and one whose id begins like another's and whose code is not in its id. *)
(***************************************************************************)
EXTENDS WebServer, TLC

CONSTANTS w1, w2, h, a

Helios == <<"ORG", "HELIOS", "GLOBAL">>
Aurora == <<"ORG", "AURORA", "NORDIC">>
Union == <<"ORG", "HELIOS", "EU">>

(* The words of the ids above and of what is typed below.                   *)
MCWords == {"", "SITE", "ORG", "ASSET", "HELIOS", "GLOBAL", "AURORA", "NORDIC", "EU",
            "WIND", "WTG", "INV", "X", "PORT", "SW", "EMEA"}

MCTenants     == {Helios, Aurora, Union}
MCSeedTenants == {Helios, Aurora}
MCNamings     ==
  {<<NoTenant, NoTenant>>, <<NoTenant, Union>>, <<Helios, Union>>}
MCCodeOf      == [t \in MCTenants |-> IF t = Union THEN <<"EU">> ELSE <<t[2]>>]

MCSeedUsers == <<User("marcus", Helios, "OPERATOR"), User("freja", Aurora, "VIEWER")>>

MCSeedSites  == [t \in MCTenants |-> IF t = Helios THEN {<<"SITE", "WIND">>} ELSE {}]
MCSeedAssets == [t \in MCTenants |->
  IF t = Helios THEN {[id |-> <<"WTG">>, site |-> <<"SITE", "WIND">>]} ELSE {}]

MCPortfolio     == <<"PORT", "SW">>
MCSeedPortfolio == [t \in MCTenants |-> [s \in MCSeedSites[t] |-> <<"PORT", "EMEA">>]]

MCObjects == [t \in MCTenants |-> IF t = Helios THEN {h} ELSE IF t = Aurora THEN {a} ELSE {}]

(* The prefix again and again, with doubled dashes too, and a full id.      *)
MCTypedFacilities ==
  {Times(<<"SITE", "HELIOS">>, 4) \o <<"X">>,
   <<"SITE", "HELIOS", "", "SITE", "HELIOS", "", "SITE", "HELIOS", "X">>,
   <<"SITE", "ORG", "HELIOS", "EU", "X">>}

(* The short form of the seeded site with the prefix again, a suffix to the *)
(* others.                                                                  *)
MCTypedDevices == {<<"WIND", "SITE", "WIND", "INV">>}

MCSymmetry == Permutations(Workers)
(* The two history variables are read primed only: states that differ in    *)
(* nothing else have the same steps, and the properties see each of them.   *)
MCView == <<memory, rows, pending, requests, faults>>
=============================================================================
