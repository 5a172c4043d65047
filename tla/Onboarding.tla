----------------------------- MODULE Onboarding -----------------------------
(***************************************************************************)
(* What one web worker holds in memory: the OnboardingManager              *)
(* (reamp/onboarding/manager.py) with its tenants and users, and of every  *)
(* tenant's application the sites, the assets and the audit trail.  Every  *)
(* worker process has its own; operations take the worker they run in.     *)
(***************************************************************************)
EXTENDS Naming

CONSTANTS
  Workers,
  Tenants,      (* tenant ids, as names                                     *)
  CodeOf,       (* the code a tenant is enrolled with                       *)
  Emails,
  SeedTenants,  (* what REAMPWebServerState.__init__ provisions:            *)
  SeedUsers,    (*   users, in order                                        *)
  SeedSites,    (*   sites of each tenant                                   *)
  SeedAssets    (*   assets of each tenant, with their sites                *)

Roles    == {"VIEWER", "OPERATOR", "CHIEF_ENGINEER", "SECURITY_ADMIN", "SYSTEM_SERVICE"}
Statuses == {"ACTIVE", "SUSPENDED", "REVOKED"}

(* "token" counts the tokens issued to a user: only the last is stored.     *)
User(email, tenant, role) ==
  [email |-> email, tenant |-> tenant, role |-> role, status |-> "ACTIVE", token |-> 1]

(* Whom the code names in a trail besides users.                            *)
CodeActors ==
  {"none", "admin", "system", "SECURITY_ADMIN", "ADAPTIVE_INTELLIGENCE_ENGINE"}

UserRecords ==
  [email : Emails, tenant : Tenants, role : Roles, status : Statuses, token : Nat \ {0}]

(* Tenants and seeds are named freely: two tenants may have the same word   *)
(* after ORG-, and two may have been seeded with the same site.  Users are  *)
(* not named like the code's own actors.                                    *)
ASSUME OnboardingAssumption ==
  /\ SeedTenants \subseteq Tenants
  /\ Tenants \subseteq Names \ {Refused}
  /\ CodeOf \in [Tenants -> Names]
  /\ SeedUsers \in Seq(UserRecords)
  /\ \A i \in DOMAIN SeedUsers : SeedUsers[i].tenant \in SeedTenants
  /\ SeedSites \in [Tenants -> SUBSET (Names \ {Refused})]
  /\ SeedAssets \in [Tenants -> SUBSET [id : Names, site : Names]]
  /\ \A t \in Tenants : \A a \in SeedAssets[t] : a.site \in SeedSites[t]
  /\ IsFiniteSet(SeedTenants)
  /\ \A t \in Tenants : IsFiniteSet(SeedSites[t]) /\ IsFiniteSet(SeedAssets[t])
  /\ "none" \notin Workers /\ Emails \cap CodeActors = {}

VARIABLES
  registry,  (* tenants enrolled, by worker                                 *)
  users,     (* users in order of insertion, by worker                      *)
  sites,     (* app.sites, by worker and tenant                             *)
  assets,    (* app.assets, [id, site], by worker and tenant                *)
  logged     (* the entry the last step appended to an audit trail          *)

memory == <<registry, users, sites, assets>>

(* A process that starts has its seeds and nothing else.                    *)
Fresh ==
  [registry |-> SeedTenants, users |-> SeedUsers, sites |-> SeedSites,
   assets |-> SeedAssets]

NoEntry == [worker |-> "none", tenant |-> <<>>, by |-> "none", role |-> "VIEWER", action |-> "NONE"]

OnboardingInit ==
  /\ registry = [w \in Workers |-> Fresh.registry]
  /\ users    = [w \in Workers |-> Fresh.users]
  /\ sites    = [w \in Workers |-> Fresh.sites]
  /\ assets   = [w \in Workers |-> Fresh.assets]
  /\ logged   = NoEntry

(* An audit entry: in which trail, who, with which role at that moment      *)
(* (history: only the entries of refusals carry it), and what.              *)
Log(w, t, by, role, action) ==
  logged' = [worker |-> w, tenant |-> t, by |-> by, role |-> role, action |-> action]

NothingLogged == logged' = NoEntry

(* The API passes fixed actors: "admin-web", "TENANT_PROVISIONER".          *)
LogSystem(w, t, action) == Log(w, t, "system", "SYSTEM_SERVICE", action)

(* No look at the users there are: an email is onboarded again.             *)
OnboardUser(w, email, t, role) ==
  /\ users' = [users EXCEPT ![w] = Append(@, User(email, t, role))]
  /\ LogSystem(w, t, "USER_ONBOARDED")

(* onboard_tenant, which the API calls without an audit logger.             *)
OnboardTenant(w, t) ==
  /\ t \notin registry[w]
  /\ registry' = [registry EXCEPT ![w] = @ \cup {t}]

SiteIds(w, t)  == sites[w][t]
AssetIds(w, t) == {a.id : a \in assets[w][t]}

OnboardFacility(w, t, id) ==
  /\ id # Refused /\ id \notin SiteIds(w, t)
  /\ sites' = [sites EXCEPT ![w][t] = @ \cup {id}]
  /\ LogSystem(w, t, "FACILITY_ONBOARDED")

OnboardDevice(w, t, id, facility) ==
  /\ id # Refused /\ id \notin AssetIds(w, t)
  /\ assets' = [assets EXCEPT ![w][t] = @ \cup {[id |-> id, site |-> facility]}]
  /\ LogSystem(w, t, "DEVICE_ONBOARDED")

(* Operations on the j-th user, logged where that user belongs, under the   *)
(* name the request gives as actor_id.                                      *)
LogClaimed(w, t, by, action) == Log(w, t, by, "SYSTEM_SERVICE", action)

UpdateUserRole(w, j, role, by) ==
  /\ users' = [users EXCEPT ![w][j].role = role]
  /\ LogClaimed(w, users[w][j].tenant, by, "USER_ROLE_UPDATED")

UpdateUserStatus(w, j, status, by) ==
  /\ users' = [users EXCEPT ![w][j].status = status]
  /\ LogClaimed(w, users[w][j].tenant, by, "USER_STATUS_UPDATED")

(* Whatever the status of the user.                                         *)
RegenerateUserToken(w, j, by) ==
  /\ users' = [users EXCEPT ![w][j].token = @ + 1]
  /\ LogClaimed(w, users[w][j].tenant, by, "USER_TOKEN_REGENERATED")
=============================================================================
