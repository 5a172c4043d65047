----------------------------- MODULE WebServer ------------------------------
(***************************************************************************)
(* REAMPWebServerState and dispatch_api_request (web_server.py) in the     *)
(* worker processes gunicorn starts: who a request is served for, which    *)
(* tenant's partition it may touch, what it changes in the memory of its   *)
(* worker and what it sends to the one database all workers share.         *)
(*                                                                         *)
(* A worker serves one request at a time: its memory changes in one step,  *)
(* then the transactions of the request follow one by one, between those   *)
(* of the other workers; any of them may fail and the worker may be        *)
(* restarted before the last.  A request may name a tenant in a header or  *)
(* the query, and another in its body.                                     *)
(***************************************************************************)
EXTENDS Onboarding, Mirror

CONSTANTS
  DefaultTenant, NoTenant,
  Namings,         (* what requests name: <<in a header or query, in a body>> *)
  Objects,         (* alerts, work orders, adaptations: those of each tenant *)
  TypedFacilities, (* what is typed as the name of a facility               *)
  TypedDevices,    (*   and of a device                                     *)
  NewRoles,        (* roles users are given                                 *)
  NewStatuses,     (*   and statuses                                        *)
  Portfolio,       (* the portfolio_id requests leave at its default        *)
  SeedPortfolio,   (*   and those of the seeded sites                       *)
  MaxRequests,     (* bound: requests and restarts                          *)
  MaxFaults        (* bound: transactions that fail                         *)

ASSUME WebServerAssumption ==
  /\ DefaultTenant \in Tenants
  /\ NoTenant \notin Tenants
  /\ Namings \subseteq (Tenants \cup {NoTenant}) \X (Tenants \cup {NoTenant})
  /\ TypedFacilities \subseteq Names /\ TypedDevices \subseteq Names \ {<<>>}
  /\ NewRoles \subseteq Roles /\ NewStatuses \subseteq Statuses
  /\ Portfolio \in Names
  /\ \A t \in Tenants : \A s \in SeedSites[t] : SeedPortfolio[t][s] \in Names
  /\ MaxRequests \in Nat /\ MaxFaults \in Nat

VARIABLES
  pending,   (* transactions a worker has still to try                      *)
  served,    (* the last step was for this user of this worker (history)    *)
  requests,  (* requests and restarts so far                                *)
  faults     (* transactions that failed so far                             *)

vars == <<memory, logged, rows, pending, served, requests, faults>>

Nobody == [worker |-> "none", tenant |-> NoTenant, email |-> "none", body |-> NoTenant]

Flat(seqs) == FoldSeq(LAMBDA s, all : s \o all, <<>>, seqs)

(* _sync_to_database of a fresh worker.                                     *)
StartupSync ==
  Flat(SetToSeq({
    SyncOrganisation(t, Registered)
      \o Flat(SetToSeq({SyncSite(s, t, SeedPortfolio[t][s]) : s \in SeedSites[t]}))
      \o Flat(SetToSeq({SyncAsset(a.id, t, a.site) : a \in SeedAssets[t]})) : t \in SeedTenants}))
  \o Flat([i \in DOMAIN SeedUsers |-> SyncUser(SeedUsers[i].tenant)])

(* The workers have started, with the database or without it; starting      *)
(* between the requests of others is a Restart.                             *)
Init ==
  /\ OnboardingInit
  /\ rows     \in {Empty, FoldLeft(Written, Empty, StartupSync)}
  /\ pending  = [w \in Workers |-> <<>>]
  /\ served   = Nobody
  /\ requests = 0
  /\ faults   = 0

-----------------------------------------------------------------------------
(* Identities.  A credential is a session token, which is the hash of an    *)
(* email and a tenant, or the token stored with a user; 0 is no operator.   *)

FirstOf(S) == IF S = {} THEN 0 ELSE Min(S)

Session(email, tenant) == <<email, tenant>>
Stored(i) == <<i>>

Credentials == {<<>>} \cup (Emails \X Tenants)
               \cup {Stored(i) : i \in 1..(Len(SeedUsers) + MaxRequests)}

(* get_operator_from_token, operator_verify_api.                            *)
GetOperatorFromToken(w, credential) ==
  FirstOf({i \in DOMAIN users[w] :
             /\ users[w][i].status = "ACTIVE"
             /\ credential \in {Session(users[w][i].email, users[w][i].tenant), Stored(i)}})

(* Mutant of OperatorLogin: the last user with that email is logged in.     *)
OperatorLoginLast(w, email, named) ==
  LET i == CHOOSE i \in {0} \cup {k \in DOMAIN users[w] : users[w][k].email = email} :
             \A j \in DOMAIN users[w] : users[w][j].email = email => j <= i IN
  IF i # 0 /\ users[w][i].status = "ACTIVE" /\ named \in {NoTenant, users[w][i].tenant}
  THEN i ELSE 0

(* operator_login_api with a password that is accepted: the first user of   *)
(* that email, of whatever tenant, and no other.                            *)
OperatorLogin(w, email, named) ==
  LET i == FirstOf({i \in DOMAIN users[w] : users[w][i].email = email}) IN
  IF i # 0 /\ users[w][i].status = "ACTIVE" /\ named \in {NoTenant, users[w][i].tenant}
  THEN i ELSE 0

(* dispatch_api_request: the body's tenant counts when neither header nor   *)
(* query names one.                                                         *)
Requested(named, body) == IF named # NoTenant THEN named ELSE body

(* For operator i or, with 0, for anybody else.                             *)
Admitted(w, i, requested) == i # 0 => requested \in {NoTenant, users[w][i].tenant}

Partition(w, i, requested) ==
  IF i # 0 THEN users[w][i].tenant
  ELSE IF requested # NoTenant THEN requested ELSE DefaultTenant

(* payload.get("tenant_id") or tenant_id: what some handlers act on.        *)
Target(t, body) == IF body # NoTenant THEN body ELSE t

LogCaller(w, i, t, action) ==
  IF i = 0 THEN Log(w, t, "admin", "CHIEF_ENGINEER", action)
           ELSE Log(w, t, users[w][i].email, users[w][i].role, action)

(* A refusal is logged in the operator's own partition.                     *)
Refuse(w, i, why) ==
  /\ LogCaller(w, i, users[w][i].tenant, why)
  /\ UNCHANGED <<memory, pending>>

(* After the answer is known: nothing to do, or the transactions, if the    *)
(* database answered to test_connection.                                    *)
Synchronise(w, txs) == pending' \in {pending, [pending EXCEPT ![w] = txs]}

-----------------------------------------------------------------------------
(* Handlers: worker w, operator i, partition t, the tenant of the body.     *)

(* Mutant of Act: only viewers are refused.                                 *)
ActUnlessViewer(w, i, t, action, refused, object) ==
  IF i # 0 /\ users[w][i].role \in refused \cap {"VIEWER"}
  THEN Refuse(w, i, "UNAUTHORIZED_ACTION_ATTEMPT")
  ELSE /\ object \in Objects[t]
       /\ LogCaller(w, i, t, action)
       /\ UNCHANGED <<memory, pending>>

(* Alerts, orders and adaptations: refused by role, 404 outside the         *)
(* partition, or else Orchestrator's and Adaptive's action.                 *)
Act(w, i, t, action, refused, object) ==
  IF i # 0 /\ users[w][i].role \in refused
  THEN Refuse(w, i, "UNAUTHORIZED_ACTION_ATTEMPT")
  ELSE /\ object \in Objects[t]
       /\ LogCaller(w, i, t, action)
       /\ UNCHANGED <<memory, pending>>

AcknowledgeAlert(w, i, t, o) == Act(w, i, t, "ACKNOWLEDGE_ALERT", {"VIEWER"}, o)
ResolveAlert(w, i, t, o)     == Act(w, i, t, "RESOLVE_ALERT", {"VIEWER", "OPERATOR"}, o)
ApproveWorkOrder(w, i, t, o) == Act(w, i, t, "APPROVE_WORK_ORDER", {"VIEWER", "OPERATOR"}, o)
ApproveAdaptation(w, i, t, o) ==
  Act(w, i, t, "ADAPTATION_APPROVED_HITL", {"VIEWER", "OPERATOR"}, o)

(* The one refusal that leaves no entry; the engine logs itself as actor.   *)
ProposeAdaptation(w, i, t) ==
  /\ ~ (i # 0 /\ users[w][i].role = "VIEWER")
  /\ Log(w, t, "ADAPTIVE_INTELLIGENCE_ENGINE", "SYSTEM_SERVICE", "ADAPTATION_PROPOSED")
  /\ UNCHANGED <<memory, pending>>

(* Into the application, Orchestrator's ProcessTelemetryPacket, and of the  *)
(* telemetry two metrics into the database.                                 *)
InjectTelemetry(w, t, asset) ==
  /\ asset \in AssetIds(w, t)
  /\ Synchronise(w, RecordTelemetryObservation(t, asset))
  /\ NothingLogged
  /\ UNCHANGED memory

(* The one handler for which an operator's tenant overwrites the body's.    *)
UserTenant(i, t, body) == IF i # 0 THEN t ELSE Target(t, body)

OnboardUserApi(w, t, email, role) ==
  /\ OnboardUser(w, email, t, role)
  /\ Synchronise(w, SyncUser(t))
  /\ UNCHANGED <<registry, sites, assets>>

(* The API applies the prefix of the code, onboard_facility then that of    *)
(* the tenant's id: a tenant whose code is another word than its id's can   *)
(* only give a facility its full id.                                        *)
FacilityId(t, code, typed) ==
  LET id == ValidateOrApplyFacilityPrefix(typed, t, code, TRUE) IN
  IF id = Refused THEN Refused ELSE ValidateOrApplyFacilityPrefix(id, t, <<>>, TRUE)

(* A tenant that is not enrolled in this worker has no code there.          *)
CodeIn(w, t) == IF t \in registry[w] THEN CodeOf[t] ELSE <<>>

OnboardFacilityApi(w, t, typed) ==
  LET id == FacilityId(t, CodeIn(w, t), typed) IN
  /\ OnboardFacility(w, t, id)
  /\ Synchronise(w, SyncSite(id, t, Portfolio))
  /\ UNCHANGED <<registry, users, assets>>

DeviceId(facility, typed) ==
  LET id == ValidateOrApplyDevicePrefix(typed, facility, TRUE) IN
  IF id = Refused THEN Refused ELSE ValidateOrApplyDevicePrefix(id, facility, TRUE)

OnboardDeviceApi(w, t, facility, typed) ==
  LET id == DeviceId(facility, typed) IN
  /\ facility \in SiteIds(w, t)
  /\ OnboardDevice(w, t, id, facility)
  /\ Synchronise(w, SyncAsset(id, t, facility))
  /\ UNCHANGED <<registry, users, sites>>

(* For a platform administrator only; an operator is refused whatever       *)
(* tenant the request names.  "ORG-" is put before an id without it.        *)
OnboardTenantApi(w, i, t, email) ==
  IF i # 0 THEN Refuse(w, i, "PRIVILEGE_ESCALATION_ATTEMPT")
  ELSE /\ Under(t, <<"ORG">>)
       /\ OnboardTenant(w, t)
       /\ OnboardUser(w, email, t, "CHIEF_ENGINEER")
       /\ Synchronise(w, SyncOrganisation(t, Registered) \o SyncUser(t))
       /\ UNCHANGED <<sites, assets>>

(* Mutant of OnUser: an operator changes users of any tenant.               *)
OnUserAnywhere(w, i, j, Change) == Change

(* users/update-role, users/toggle-status, users/regenerate-token.          *)
OnUser(w, i, j, Change) ==
  IF i # 0 /\ users[w][j].tenant # users[w][i].tenant
  THEN Refuse(w, i, "SECURITY_BOUNDARY_VIOLATION")
  ELSE Change

(* The row of a user is never there to be updated.                          *)
UpdateUserRoleApi(w, i, j, role, by) ==
  OnUser(w, i, j, UpdateUserRole(w, j, role, by) /\ UNCHANGED <<registry, sites, assets, pending>>)

ToggleUserStatusApi(w, i, j, status, by) ==
  OnUser(w, i, j, UpdateUserStatus(w, j, status, by) /\ UNCHANGED <<registry, sites, assets, pending>>)

RegenerateUserTokenApi(w, i, j, by) ==
  OnUser(w, i, j, /\ RegenerateUserToken(w, j, by)
                  /\ Synchronise(w, SyncUser(users[w][j].tenant))
                  /\ UNCHANGED <<registry, sites, assets>>)

-----------------------------------------------------------------------------

(* The actor_id of a request, or the default.                               *)
Claimable == Emails \cup {"SECURITY_ADMIN"}

Handle(w, i, t, body) ==
  \/ \E o \in UNION {Objects[s] : s \in Tenants} :
       \/ AcknowledgeAlert(w, i, t, o) \/ ResolveAlert(w, i, t, o)
       \/ ApproveWorkOrder(w, i, t, o) \/ ApproveAdaptation(w, i, t, o)
  \/ ProposeAdaptation(w, i, t)
  \/ \E a \in AssetIds(w, Target(t, body)) : InjectTelemetry(w, Target(t, body), a)
  \/ \E e \in Emails, r \in NewRoles : OnboardUserApi(w, UserTenant(i, t, body), e, r)
  \/ \E f \in TypedFacilities : OnboardFacilityApi(w, Target(t, body), f)
  \/ \E f \in SiteIds(w, Target(t, body)), d \in TypedDevices :
       OnboardDeviceApi(w, Target(t, body), f, d)
  \/ \E j \in DOMAIN users[w], by \in Claimable :
       \/ \E r \in NewRoles : UpdateUserRoleApi(w, i, j, r, by)
       \/ \E s \in NewStatuses : ToggleUserStatusApi(w, i, j, s, by)
       \/ RegenerateUserTokenApi(w, i, j, by)

(* Operator i, or 0, as the credential of the request turns out to be.      *)
Dispatch(w, i, named, body) ==
  /\ pending[w] = <<>>
  /\ served' = IF i = 0 THEN Nobody
               ELSE [worker |-> w, tenant |-> users[w][i].tenant,
                     email |-> users[w][i].email, body |-> body]
  /\ LET requested == Requested(named, body) IN
     \/ \E t \in Tenants, e \in Emails : OnboardTenantApi(w, i, t, e)
     \/ ~ Admitted(w, i, requested) /\ Refuse(w, i, "SECURITY_BOUNDARY_VIOLATION")
     \/ Admitted(w, i, requested) /\ Handle(w, i, Partition(w, i, requested), body)
  /\ UNCHANGED rows

(* The next transaction of a worker commits, or fails, the server gone.     *)
Transact(w) ==
  /\ pending[w] # <<>>
  /\ \/ Commit(Head(pending[w])) /\ UNCHANGED faults
     \/ faults < MaxFaults /\ faults' = faults + 1 /\ UNCHANGED rows
  /\ pending' = [pending EXCEPT ![w] = Tail(@)]
  /\ served' = Nobody
  /\ NothingLogged
  /\ UNCHANGED <<memory, requests>>

(* A worker process dies and gunicorn starts another.                       *)
Restart(w) ==
  /\ registry' = [registry EXCEPT ![w] = Fresh.registry]
  /\ users'    = [users EXCEPT ![w] = Fresh.users]
  /\ sites'    = [sites EXCEPT ![w] = Fresh.sites]
  /\ assets'   = [assets EXCEPT ![w] = Fresh.assets]
  /\ NothingLogged
  /\ pending'  \in {[pending EXCEPT ![w] = <<>>], [pending EXCEPT ![w] = StartupSync]}
  /\ served'   = Nobody
  /\ UNCHANGED rows

Next ==
  \/ \E w \in Workers : Transact(w)
  \/ /\ requests < MaxRequests
     /\ requests' = requests + 1
     /\ UNCHANGED faults
     /\ \E w \in Workers :
          \/ Restart(w)
          \/ \E i \in {GetOperatorFromToken(w, c) : c \in Credentials},
                n \in Namings : Dispatch(w, i, n[1], n[2])

Spec == Init /\ [][Next]_vars

-----------------------------------------------------------------------------

(* The users of a tenant, each with the place it has among all users.       *)
UsersOf(w, t) ==
  {<<j, users[w][j]>> : j \in {k \in DOMAIN users[w] : users[w][k].tenant = t}}

(* Tenant isolation, over whatever handler a request of an operator ends    *)
(* in: the enrolled tenants, other workers' memory and other tenants' users *)
(* stay as they were, whatever the request names.  Other tenants' sites,    *)
(* assets and trails do unless its body names another tenant: the boundary  *)
(* check reads header, query or body, these handlers read the body first.   *)
PartitionsIsolated ==
  [][\A w \in Workers : served'.email # "none" /\ w = served'.worker =>
       /\ registry' = registry /\ logged'.worker \in {w, "none"}
       /\ \A v \in Workers \ {w} :
            users'[v] = users[v] /\ sites'[v] = sites[v] /\ assets'[v] = assets[v]
       /\ \A t \in Tenants \ {served'.tenant} :
            /\ UsersOf(w, t)' = UsersOf(w, t)
            /\ served'.body \in {NoTenant, served'.tenant} =>
                 sites'[w][t] = sites[w][t] /\ assets'[w][t] = assets[w][t] /\ logged'.tenant # t]_vars

Privileged == {"RESOLVE_ALERT", "APPROVE_WORK_ORDER", "ADAPTATION_APPROVED_HITL"}

(* The entries whose actor is the caller's, not the request's or the code's *)
ByCaller == Privileged \cup {"ACKNOWLEDGE_ALERT", "UNAUTHORIZED_ACTION_ATTEMPT",
                             "SECURITY_BOUNDARY_VIOLATION", "PRIVILEGE_ESCALATION_ATTEMPT"}

(* A decision in the trail is the decision of the user who was served: he   *)
(* is named, in his own tenant's trail, is ACTIVE in this worker and in a   *)
(* role that may, however roles and statuses went to and fro and however    *)
(* many users share the email.  Proposals name the engine, but a VIEWER     *)
(* makes none.                                                              *)
ActsWithinAuthority ==
  [][served'.email # "none" /\ logged'.action \in ByCaller \cup {"ADAPTATION_PROPOSED"} =>
       \E u \in Range(users[logged'.worker]) :
         /\ u.email = served'.email /\ u.tenant = served'.tenant /\ u.status = "ACTIVE"
         /\ logged'.worker = served'.worker /\ logged'.tenant = u.tenant
         /\ logged'.action \in ByCaller => logged'.by = u.email /\ logged'.role = u.role
         /\ logged'.action \in Privileged => u.role \notin {"VIEWER", "OPERATOR"}
         /\ logged'.action \in {"ACKNOWLEDGE_ALERT", "ADAPTATION_PROPOSED"}
              => u.role # "VIEWER"]_vars

(* Whoever logs in is who the session acts as, in that worker, although     *)
(* login looks a user up by email alone and a session by email and tenant   *)
(* among the ACTIVE: with users that share an email in one tenant or two,   *)
(* suspended and reactivated.                                               *)
LoginIsHonoured ==
  \A w \in Workers, e \in Emails, n \in Tenants \cup {NoTenant} :
    LET i == OperatorLogin(w, e, n) IN
    i # 0 => GetOperatorFromToken(w, Session(e, users[w][i].tenant)) = i

(* A facility's name carries the word or the whole id of its tenant.        *)
OwnPrefix(t)       == DeriveFacilityPrefix(t, <<>>)
FacilityName(s, t) == Under(s, OwnPrefix(t)) \/ Under(s, <<"SITE">> \o t)

Plain(name) == "" \notin Range(name)

FacilitiesSettle ==
  \A t \in Tenants, f \in TypedFacilities : \A code \in {<<>>, CodeOf[t]} :
    Under(t, <<"ORG">>) /\ Plain(t) /\ Plain(code) /\ Plain(f) =>
      LET id == FacilityId(t, code, f) IN
      id # Refused => ValidateOrApplyFacilityPrefix(id, t, <<>>, TRUE) = id

(* In every worker a facility is named after its tenant and a device after  *)
(* a facility of the same tenant.  And one facility has one name: what was  *)
(* typed without doubled dashes and is accepted gets a name that, typed     *)
(* again, finds the facility and does not make another, be it the prefix    *)
(* several times over; the same goes for devices.                           *)
NamesStable ==
  \A w \in Workers, t \in Tenants :
    /\ \A s \in sites[w][t] \ SeedSites[t] : FacilityName(s, t)
    /\ \A a \in assets[w][t] \ SeedAssets[t] :
         a.site \in sites[w][t] /\ Under(a.id, RStrip(a.site))
    /\ FacilitiesSettle
    /\ \A s \in sites[w][t], d \in TypedDevices :
         LET id == DeviceId(s, d) IN
         Plain(s) /\ Plain(d) /\ id # Refused => ValidateOrApplyDevicePrefix(id, s, TRUE) = id

(* A tenant that may give a site its name.                                  *)
MayName(s, t) == s \in SeedSites[t] \/ FacilityName(s, t)

(* However the transactions of the workers interleave, fail or are cut off  *)
(* by a restart: a site is in the database with its energy system and under *)
(* a tenant that may name it, an asset hangs under a site that is there and *)
(* that the asset's tenant may name, and is named after it.                 *)
MirrorSound ==
  /\ DOMAIN rows.site = DOMAIN rows.system
  /\ \A s \in DOMAIN rows.site :
       rows.system[s].tenant = rows.site[s].tenant /\ MayName(s, rows.site[s].tenant)
  /\ \A a \in DOMAIN rows.asset :
       LET link == rows.asset[a] IN
       /\ link.parent \in DOMAIN rows.site /\ MayName(link.parent, link.tenant)
       /\ \/ [id |-> a, site |-> link.parent] \in SeedAssets[link.tenant]
          \/ Under(a, RStrip(link.parent))
====
