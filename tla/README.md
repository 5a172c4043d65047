# REAMP: models, checks and proofs

REAMP is a monitoring and maintenance platform for solar, wind and battery
plants. An edge gateway screens, buffers and forwards telemetry; a central
pipeline turns it into health scores, anomalies and maintenance
recommendations; a CMMS turns those into work orders that a human must approve
before anybody is sent out. This directory holds TLA+ models of the parts of it
whose correctness is a matter of order, failure and interleaving, the TLC runs
that check them on small instances, and proofs that hold for every value of the
constants.

Run everything from this directory: `tlc -config MCWorkOrders.cfg MCWorkOrders.tla`
checks a model, `tlapm WorkOrdersProofs.tla` checks a module of proofs.
`PROJECT.json` lists the runs, the theorems, the source lines each definition
stands for, a mutant for every property, and the hazards the properties are for.

## 1. Inventory of the system

The program is Python. Handlers are ordinary methods that run to their end and
take no locks; almost all state is in the memory of one process. What interleaves is
the order in which operators, technicians, devices and the pipeline call, plus
the few places where a method calls out in the middle (the gateway's transmit
callback) or raises half way (parts consumption, the insertion of a row).
The production image starts two worker processes (`docker/web/Dockerfile:28`),
each with a state of its own.

| Component | State | Operations | Hard part | What makes it correct |
|---|---|---|---|---|
| Warehouse, `reamp/cmms/inventory.py` | catalogue, on hand, reserved | register, reserve, release, consume, restock | consumption raises half way; consumption without reservation; nobody calls release | no unit is promised twice |
| Workflow engine, `reamp/cmms/workflow.py` | work orders, incidents, technicians, logs, traces, claims, history | create, approve, reject, dispatch, start, complete, verify, close | two orders share parts, technician and incident; rejection at any time; retries | no work without approval; once logged, archived and claimed; the archives agree |
| Edge buffer, `reamp/edge/buffer.py` | a SQLite table with AUTOINCREMENT ids | upsert, batch, FIFO read, acknowledge, purge | writes during a transmission; crash; power cut under WAL | nothing acknowledged that was not sent, nothing lost, FIFO, drains |
| Edge gateway, `reamp/edge/gateway.py` | link state, callback | ingest, synchronise | the callback may fail after the cloud has the batch | as above |
| Edge pipeline, `reamp/edge/pipeline.py` | last values, windows, burst mode | validate, aggregate | one burst mode over many windows; cooldown; NaN | incidents are kept raw; each reading averaged once; none lost unseen |
| Edge adapters, `reamp/edge/adapters` | a connected flag | poll, decode | none | decoding |
| Orchestrator, `reamp/mvp/orchestrator.py` | alerts, latest values, registries | packet pipeline, alert lifecycle, work-order calls, reports | a field that does not convert stops a packet after earlier stages took effect; alert deduplication; several views of one asset | the views go back to packets; a serious finding has its alert; a critical packet its order; the trail agrees |
| Digital twin, `reamp/digital_twin` | current state, bounded history | update, synchronise, simulate | late packets; replacement | the twin is between what was scored and what was shown |
| Anomaly engine, `reamp/anomaly` | current steps, EWMA, CUSUM per asset | four levels of detectors | memory from packet to packet; subsumption | a deviation that persists is alerted |
| Performance engine, `reamp/performance` | none | expected power, loss attribution | signs, states, missing data | a deficit is booked once, at its price |
| Health engine, `reamp/health` | none | seven dimensions, composite, state | renormalisation, gates, bands | monotone in what got worse |
| Maintenance recommender, risk engine | none | remaining life, priority, recommendation, risk, ranking | overrides, boundaries | monotone, with health |
| Adaptive thresholds, `reamp/adaptive/engine.py` | multipliers, thresholds, actions | propose, approve, apply | approval of a stale action; repetition | beyond the guardrail nothing is in force unapproved |
| Governance, `reamp/governance/engine.py` | models, decisions, changes | register, record, decide | deciding twice | the record and the trail tell the same |
| Tokens, nonces, rate limits, `reamp/security/auth.py` | nonce table, buckets | verify, prune, admit | repeated, damaged, delayed packets; clocks that differ; boundaries | no packet accepted twice, no client granted too much |
| Audit chain, `reamp/security/audit.py` | entries | append, verify | one chain per tenant and process | the last entry of a resource tells its status |
| Onboarding, `reamp/onboarding/manager.py` | tenants, users, and of each tenant sites and devices | onboard, role, status, tokens | names typed with and without prefix; one email twice | names stable; a session is who logged in |
| PostgreSQL mirror, `reamp/storage/postgres.py` | tables with foreign keys | upserts, one transaction each, failures swallowed | partial failure, two writers | no row without its parent, no row of another tenant's |
| Web server, `web_server.py` | per worker: tenants' applications, users | dispatch of requests by operator and tenant | two workers, restarts, tenant boundary | what a request touches is the operator's or what its body names; decisions are the caller's own and within the role |
| Mail, adapters, compliance reviews, front end | none or I/O | | | |

Interactions: the orchestrator owns one instance of every engine and calls them
in turn; it appends an audit entry after most operations. The workflow engine
calls the warehouse at dispatch and completion; the orchestrator also calls the
warehouse directly to reserve parts, and that is where the two views of a
reservation drift apart. The web server owns one orchestrator per tenant and one
onboarding manager, and after each onboarding call mirrors the result to
PostgreSQL, which nothing reads back. The gateway calls the pipeline and then the buffer for
each reading, and the buffer and a callback when it synchronises.

## 2. Plan

In this order, most important first:

1. `Inventory`, `WorkOrders` with the abstract `MaintenanceGate` - done, checked, proved
   (the warehouse under any caller, `InventoryNext`, is proved only).
2. `EdgeBuffer` with the abstract `StoreForward` - done, checked, proved but for
   `Drains`.
3. `EdgePipeline` - done, checked, proved.
4. `PacketAuth` - done, checked, proved.
5. `Orchestrator` over `Adaptive`, `Governance` and `AuditTrail` - done, checked,
   proved.
6. `WebServer` over `Onboarding`, `Naming` and `Mirror` - done, checked, proved.
7. `Condition` over `Detection`, `Health`, `Performance`, `Maintenance` and
   `Risk` - done, checked, proved but for `WorseNeverLooksBetter`.

## 3. The modules

### Inventory, WorkOrders, MaintenanceGate

`Inventory` has one action per method of `InventoryManager`. A dict of
quantities is a function on `Skus` with 0 for an absent key, since the code skips
quantities that are not positive. `ReserveParts` is all or nothing because the
code checks every SKU first; `ConsumeParts` checks and deducts SKU by SKU, so
its failure is an action of its own, `ConsumePartsRaises`, that leaves any
subset of the consumable SKUs deducted: the dict may come in any order.

`WorkOrders` extends it with the state of `CMMSWorkflowEngine` and one action per
handler. `assign_and_dispatch` is two actions (`DispatchWithAllocation`,
`DispatchDefault`) because it does two different things to the warehouse.
`ReservePartsForWorkOrder` is the orchestrator's; it may be called in any status and
again and again. The orchestrator's `close_work_order` verifies and then closes: a
sequence of two actions here, so that its behaviours are among those of the model, with
others in between. A technician's list of assignments is a bag, as the code only
appends, tests and removes. Left out: dates, costs, checklists, notes, and the audit
entries, which no guard reads. The types of maintenance are all there, and a preventive
order is created with any of them, as its parameter allows. A warranty is whether the
asset has one, and whether it is active at closing time is chosen freely.

`MaintenanceGate` is what the engine promises: proposed, authorised, performed,
accepted, archived, recovered, each at most once and in that order, or rejected.
`GatePromise` maps the engine's status and the lengths of its archives to it.

### StoreForward, EdgeBuffer

`StoreForward` is a FIFO queue that hands over each reading once, in order.
`Sorting` is the `ORDER BY` of a batch, as a choice among sequences and not by the
community modules' sort, which ends in an operator without a definition to prove from.
`EdgeBuffer` is the SQLite table and the steps of `synchronize_with_cloud`:
`SyncRead`, then `Transmit`, `TransmitFails` or `MockTransmit`, then
`Acknowledge`, with everything else the process may do in between - the
connection is opened with `check_same_thread=False`, and the callback runs
arbitrary code. `disk` is what a power cut leaves: in WAL mode with
`synchronous=NORMAL` commits since the last checkpoint may go, in order.
`Restart` keeps what was committed, and both it and a power cut forget the callback,
which `EdgeGateway.__init__` sets to none and the start-up code sets again
(`SetCallback`); in between the mock sender acknowledges. A row's key is the unique index of the
table; its content is the number of the write that made it.
The gateway's in-memory database of the tests has no restart; the default is a
file. The cloud, the operating system and SQLite itself are external: they are
modelled by what the code relies on.

### EdgePipeline

`EdgeGateway.ingest` in its three outcomes: in burst mode the reading itself is emitted,
otherwise it waits in its sensor's window and is stored "as insurance", or it closes the
window and the average is emitted in its place. The history of the last ten values is
kept as what is asked of it, the last value and how often it came in a row;
`FlatlineExact` compares that with the code's rule on the list. The list's key is
tenant, sensor and metric: two assets that use one sensor id share it, while the
windows, whose key names the asset too, stay apart. A *feed* is an asset and a sensor,
as in the code's two keys. Means are represented by the set of readings they are taken
over. NaN is a value of its own: no range check catches it, and the table refuses the
row.

### PacketAuth

The two stateful parts of `AuthenticationManager`. A packet is its nonce and
the time its gateway stamped it with, up to `MaxDrift` from the server's; it may be
delivered any number of times at any later moment, intact or damaged.
`verify_telemetry_packet` has one action for each way it ends, in the order of
its checks: stale (before the cache is touched), known, damaged (the cache is
pruned, the nonce not recorded), accepted. A signature is whether the copy is
intact. `check_rate_limit` is `Allow` and `Deny`; tokens are counted in parts of a
request (`Cost` of them) so that a unit of time may earn a fraction of one. The
code has a `max(0, ...)` for a clock that steps back; the model's clock does not
(`process_telemetry_packet` passes its own `now` unless its caller supplies a
timestamp, and the callers that sign do not). No caller in the repository but
the tests uses `check_rate_limit`.

### AuditTrail, Adaptive, Governance, Orchestrator

`Orchestrator` is `REAMPApplicationMVP`: `ProcessTelemetryPacket` is stages 4 to
10 of one packet, in one step because a worker is single threaded and no stage
waits. What the engines say of a packet, its score and findings, is an input.
A packet has a `stop`: the first field that does not convert or that an engine
refuses. Python raises there, and every stage before it has had its effect; the
constants `Stops` name the four places where stages differ. Stage 8
(`DispatchAlerts`) looks at ACTIVE alerts of the same kind and asset, of whatever
severity; stage 9 (`Escalate`) drafts a new order for every packet with a
score under 75 or a critical finding. An incident that is being worked on is not
looked for, although `docs/08_Anomaly_Detection_Framework.md:84-86` groups
consecutive detections of one anomaly into one ongoing incident:
`OneIncidentPerAnomaly` states that and fails, and `EscalatedOnce` asks for neither -
a critical packet has an order of its own or an earlier packet of its asset has one.

The work-order calls are `WorkOrders`' handlers seen from outside: the status they leave
and the audit entry that follows. There is no wrapper for rejecting or starting an
order. `Adaptive` has the proposals of the web endpoint and of the two helpers, in
ten-thousandths of a multiplier and hundredths of a degree as the code rounds; the
helpers start from the value the caller passes, and both callers pass the one in force,
or the configured one. `Governance` has the registry, the decisions and the
configuration changes. `AuditTrail` keeps the last entry about each resource, and
`PENDING_REVIEW` is an outcome a human may record, as `DecisionStatus` has it: it sets a
decision back to undecided; the id of an adaptation stands in for the asset its entries
name, and a site for the fresh id of a report.

### Naming, Onboarding, Mirror, WebServer

A name is the sequence of its parts between dashes, empty parts included: `A--B` has
one, the empty string is one. `Naming` translates the two validators branch by branch:
the loop that removes a repeated prefix, the one `lstrip` of the dashes behind a
prefix, the refusal of a prefix with nothing behind it, and the `replace` of `SITE-`
in a tenant's code. Left out are letter case, blanks, and words that end in `SITE`
without being it, which the `replace` would cut into. `Onboarding` is what
one worker keeps: tenants, users in order of insertion, and of each tenant the
sites, the assets and the entry just logged. `Mirror` is the tables with the
foreign keys of the migration; an upsert keeps tenant and parent of a row that is
there. A call of the manager is a sequence of transactions that each commit or
fail alone.

`WebServer` is `dispatch_api_request`: the credential of a request yields an
operator or none (`GetOperatorFromToken`), and the handler changes the memory of its
worker in one step; the
transactions it issued follow one by one (`Transact`), between those of the other
worker, and a `Restart` gives a worker its seeds back and may cut its
transactions off. A request may name a tenant in a header or the query and another in
its body. The check of the boundary looks at the first of them (`Requested`,
`Admitted`), which also decides the partition of decisions on alerts, orders and
adaptations; telemetry, facilities and devices go where the body says, if it says so
(`Target`), and users to the operator's tenant (`UserTenant`). The trail entry of a
change of users carries the `actor_id` of the request (`LogClaimed`), that of a
proposal the engine's name, every other one of these the caller's.

What is assumed of the data (`NamingAssumption`, `OnboardingAssumption`,
`WebServerAssumption`) is shape: the words the code looks for are words, the seeds,
literals of the code, are finite and belong together, and no user's email is one of
the actors (`CodeActors`) the code itself puts in a trail. Tenants are named freely: two
may share the word behind `ORG-`, which `onboard_tenant_api` does not prevent, and the
instance has two that do.

What the model shows besides its properties, as a reader of the code should know:
a user's synchronisation fails against the repository's schema, so that only the
organisation it touches is written; synchronising a site or a user overwrites
the registered name of the organisation with a placeholder; the default portfolio
stays with the tenant that first needed it; what is onboarded while the database
is down is not mirrored later; a tenant whose code differs from the second part
of its id can onboard facilities only under the full id; a name with doubled dashes
may change when it is typed again - `SITE-HELIOS--SITE-HELIOS--SITE-HELIOS-X` loses a
prefix each time; two tenants with one second word may both give a site the same name,
and in the database, where ids are hashes of names, the second finds the first's row
and its assets hang there; no role is asked for a change of users, so that any ACTIVE
user, a VIEWER too, may change his own role (`web_server.py:1663-1682`); a viewer's refused
proposal leaves no audit entry; a suspension is known to the worker that served
it and to no other.

### Detection, Health, Performance, Maintenance, Risk, Condition

Five engines as operators, with integers in the unit the code rounds to (whole
kW, hundredths of a point, cents) where it rounds and with both sides of an
inequality multiplied out where it divides. Only `Detection` has a memory: the
last current, the steps of the current, the EWMA (`5^t` times its value, alpha
being one fifth) and the two CUSUM sums. The statistical level learns only from
records no hard rule explained away. `Profile` gives the thermal curve at each
quarter between nominal and critical temperature, where the code has a power.
The isolation forest's score and the Weibull probability are inputs. Findings are
sorted severity by severity; among equals, which the code sorts by score, the order
is theirs of arrival.

`Condition` puts them together as stages 5 to 10 do: what a packet leaves out is
completed with the orchestrator's defaults, then judged, then rated. A *case*
fixes what is known besides the telemetry - the orchestrator's own constants, or
what another caller of the engines may pass. The adaptive multiplier on the
expected power is left at one. `Packets` is what a packet may be: any integers where
the code converts to a number, and `ConditionAssumption` asks no more of the readings of
a case than to be such. A power may be negative, an inverter that draws at night:
the deficit of that hour then exceeds the rating by what was drawn, which
`LossBooked` allows for.

Seen on the way: a safety score of 85 or more is overridden to P1 by
`priority.py:55` and put back to P4 by the routine branch
(`maintenance/engine.py:147-151`), although `docs/09_Predictive_Maintenance.md:110-111`
gives safety the last word; a curtailed turbine or battery is judged like a
running one, `docs/07_Performance_Intelligence.md:108` has a class for it; the
orchestrator takes 800 W/m2 for a missing irradiance, so a calm turbine or a
charging battery is an unexpected shutdown; a state of charge of at most 1 % is read
as a fraction; at the end of life without spares the urgency falls to planned;
losing a bad health dimension raises the score; a battery that charges less than
its set point loses nothing in stage 10; a battery's missing cell temperature counts as
25 degrees for its health and as 15 above ambient for detection.

### Where documents and code part

Four disagreements have a run that shows them (section 4). The models follow the code
in the others too, and the properties in their reach say no more than the code does:

| The documents | The code | In the models |
|---|---|---|
| `docs/data/data_quality_model.md:117`: INVALID readings are dropped from all analytical feature sets | `edge/pipeline.py:156`: a window with no valid reading takes its latest one, whatever its quality, and calls it VALID | `Averaged`; `ValidKept` speaks of valid readings |
| `docs/08_Anomaly_Detection_Framework.md:95`: HIGH and CRITICAL anomalies draft work orders | `orchestrator.py:612`: CRITICAL ones, or a health below 75 | `Escalates`; `EscalatedOnce` speaks of the code's condition |
| `docs/analytics/anomaly_methods.md:79` and `anomaly/models.py:88`: the CUSUM limit is 5 sigma, 75 kW | `level2_statistical.py:188`: a literal 4 sigma, 60 kW (the `README.md` of the repository says 4 in line 26); the setting is read nowhere | `Detection` has 4; `ShortfallAlerted` asks for an alert only past both |
| `docs/analytics/loss_attribution.md:78,123`: a curtailment costs P_exp - P_limit | `performance/engine.py:137`: expected less actual; the limit is only printed | `limit` is a field of a packet that nothing reads; `LossBooked` charges the whole distance |
| `docs/analytics/loss_attribution.md:7`: an exhaustive waterfall | `performance/engine.py:153`: cells below 25 degrees gain power that no loss offsets | `LossBooked` asks for the sum at 25 degrees or more |
| `web_server.py:1485`: strict isolation of tenants | lines 725, 912 and 977 prefer the tenant of the body to the one that was checked (1509-1513, 1536) | `Target`; `PartitionsIsolated` excepts requests whose body names another tenant |
| `docs/governance/audit_model.md:39`: the actor is who initiates the change | lines 1125, 1155 and 1185 take `actor_id` from the request | `LogClaimed`; `ActsWithinAuthority` speaks of decisions, refusals and proposals |
| `docs/13_Cybersecurity_Framework.md:72`: every transaction keeps tenants apart | `postgres.py:212`: the upsert of a site keeps the tenant of the row that is there | `Upsert`; `MirrorSound` asks that the tenant may give the site its name |
| `onboarding/manager.py:119`: a bare suffix gets its prefix | line 243 applies the id's word after the API applied the code's | `FacilityId`; `NamesStable` speaks of names that are accepted |

## 4. The runs

| Run | What it shows |
|---|---|
| `workorders` (`MCWorkOrders.cfg`, 838 thousand states) | two orders racing through every handler: the stock, the gate, assignments, incident, traces, ledger, history; the engine implements `MaintenanceGate` |
| `edge` (`MCEdgeBuffer.cfg`, 1.2 million states) | three rows, corrections, purges, restarts and a power cut around a synchronisation in flight; the table implements `StoreForward` |
| `edge_drains` (`MCEdgeDrains.cfg`, 399 thousand states) | two rows, batches of one: the backlog drains |
| `pipeline` (`MCEdgePipeline.cfg`, 2.9 million states) | bursts, windows, flatlines, NaN, restarts over two assets with two sensor ids in common |
| `packets` (`MCPacketAuth.cfg`, 242 thousand states) | two packets repeated, damaged, delayed around the pruning boundary; one bucket under every rhythm of requests |
| `orchestrator` (`MCOrchestrator.cfg`, 439 thousand states) | three packets of one asset that may stop anywhere, between every call of people: views, alerts, escalation, trail, guardrail |
| `web` (`MCWebServer.cfg`, 794 thousand states) | two workers, three tenants, two with the same second word, requests that name two tenants, a database that fails: isolation, roles, sessions, names, foreign keys |
| `condition` (`MCCondition.cfg`, 43 thousand states) | eight cases of one asset, packet after packet: persistent deviations are alerted, losses booked, nothing that got worse looks better |
| `reject_releases` (violation) | rejecting an order does not release its parts, `docs/maintenance/maintenance_workflow.md:70` says it does |
| `consumed_on_completion` (violation) | a failed completion takes parts off the shelf |
| `acknowledged_is_current` (violation) | a correction made after the row was read for sending is never sent |
| `one_incident` (violation) | an anomaly that goes on opens an incident and an order for every critical packet, `docs/08_Anomaly_Detection_Framework.md:84-86` groups them |

Bounds, and why they are enough. Two work orders are the least that can compete for a
part, a technician and an incident; one technician with two records that may be
registered in turn covers re-registration; two SKUs, of which one is out of stock, make
consumption fail after it began; one unit on the shelf and one delivery make stock
scarce and let it recover. Three writes over three keys with batches of two give a
backlog larger than a batch, corrections of a row in each state, and a row that arrives
during a transmission; one power cut can fall anywhere, with any older image of the
table. The callback may be set, lost at a restart and set again anywhere between. In
`edge_drains` a batch of one keeps the backlog larger than a batch with two rows and
three writes; liveness multiplies the states, so that the larger instance is kept for
safety. In `pipeline` two assets with two sensor ids, four feeds, share one burst and,
in pairs, the list of the last values; three readings are a window with one waiting, one
in a burst between, and one that closes it, or two consecutive windows; the window and
the cooldown are one tick of two, flatlines are two equal readings so that they happen
within the three. Symmetry is used over interchangeable orders, assets and sensors where
no liveness is checked. In `packets` a skew of 1 and a drift of 2 give stamps on, inside
and outside the window on both sides, and five units of time reach past the second
window, where a nonce is pruned; a capacity of 5 for requests of 2, refilled by 1,
leaves fractions of a request at every boundary. In `orchestrator` two ids of each kind
and one asset let an alert, an order, a decision and an action coexist with another; the
two shortest ways to a duplicate alert (a finding again after an acknowledgement, and a
second severity of one kind) take three packets or two and a call; `MaxHistory` of 2
makes the third packet push one out; five calls in all reach an approval after two
proposals and a decision taken twice after a packet. The ids of a kind are
interchangeable. In `web` three requests suffice for an email onboarded twice and
suspended, or for a tenant, a facility and a device of it; one failing transaction can
fall anywhere among those of two workers. Requests name no tenant, the third one in
their body, or the first in the header and the third in the body, which are the three
ways check and use can differ; a name is typed with its prefix four times, with doubled
dashes, and with the tenant's id. The two workers are interchangeable, and the history
variables `served` and `logged`, which properties read primed, are not part of the view.
In `condition` the charts start after 2 packets instead of 15 and 10 and remember 3
steps instead of 30, so that five packets pass the warm-up, fill the window and leave
two to judge; the engines that remember nothing need the two packets that are compared.
Deadlock is checked nowhere: bounded models stop when their bound is reached, and no
real operation blocks.

Fairness is stated in `EdgeBuffer` only, for `Drains`. `EdgeConfig` has a
`flush_interval_sec`, for an agent that synchronises at that interval; the loop itself
is not in the repository, and that it calls `synchronize_with_cloud` again and again
while the link is up is an assumption; the link comes back in the end; a batch is not
refused for ever; and the process is not killed every time between success and commit.
Strong fairness is needed because restarts and link flaps disable each step again and
again. Nothing forces the cloud, the purge, the operator or the code that sets the
callback to act. Writes are finite: that a backlog drains while readings never cease is
not claimed.

## 5. What is proved

The proofs hold for any finite or infinite sets of orders, technicians, SKUs,
keys, and for any bounds, from the named assumptions on the constants
(`InventoryAssumption`, `WorkOrdersAssumption`, `EdgeAssumption`,
`PipelineAssumption`, `AuthAssumption`, `AdaptiveAssumption`,
`GovernanceAssumption`, `OrchestratorAssumption`, `NamingAssumption`,
`OnboardingAssumption`, `WebServerAssumption`) alone, but for `LedgerHolds`, which
also needs the work orders to be finitely many, as its sum has no meaning otherwise.
The last three are explained with `WebServer` above. Two others say more than that a
bound is a number. `PipelineAssumption` asks for a flatline count of at
least two (the code's is four): one reading is no streak, and with a count of
one a NaN, which equals nothing, would be a streak of its own.
`OrchestratorAssumption` keeps the ids of alerts, orders, decisions, adaptations
and the names of models, settings and assets apart, as the prefixes of the code
do: the trail finds an entry by its resource.

- `WorkOrdersProofs!InventoryCorrect`: `[](StockTypeOK /\ NoOvercommit /\ OnlyCatalogued)`.
  The conjunction is inductive as it stands.
- `WorkOrdersProofs`: `Inv` is the conjunction of the type invariant, the stock
  invariants, the gate, `Bookkeeping`, `AssignmentConsistent` and
  `TraceComplete`. None of the last three is inductive alone: that a trace
  cites a log needs that a verified order has one; that no list names a finished
  order needs that the completing technician is the one whose list holds it,
  and is still registered. `WorkflowInvariant` proves `Spec => []Inv`; `GateHolds`,
  `StockHolds`, `AssignmentsHold` and `TracesHold` are its consequences, each
  named for the property it carries.
  `StoryInvariant` adds the stores beside the orders. `IncidentsInv` says besides
  `IncidentsTrackOrders` that an id not handed out is no order of an incident, without
  which creating an order could bring a second one along. `VisitsInv` says of an
  order without a trace that no history and no claim names it, and of one with a
  trace that exactly one entry of its own asset's history does and says whether
  there is a claim; `HistoryAgrees`, which compares a count with them, follows.
  `IncidentsHold` and `HistoriesHold` carry the two properties.
- `WorkOrdersProofs!EngineImplementsGate`: `Spec => GatePromise`. The initial
  state maps to the gate's; each handler is matched with one step of the gate
  or with none, under `Inv`. `GateKeepsOrder` is about the gate
  alone, that it keeps its order, and `OnceHolds` carries it over to the engine.
- `WorkOrdersProofs!LedgerHolds`: `LedgerSound` compares the shelf with a sum over all
  logs of all orders. Completing an order adds a log to an order that has none
  (`Bookkeeping`), so that the sum grows by what was used (`CompletionLogged`); a
  completion that raises half way takes parts and logs nothing, the reason
  for an inequality; every other handler leaves logs and shelf alone.
- `FoldLemmas`: what such sums are, as the library states nothing about its folds:
  that one exists over every finite set whatever order it is taken in (`FoldExists`),
  that it is what `SumFunction` computes (`SumIs`), is a natural number, and grows by what
  one value grows (`SumGrows`). Inductions are over sets, of numbers or of subsets
  (`NumbersIn`, `SubsetsIn`), in place of the library's over an operator. For
  sequences: the sum of one that is appended to or put together (`SumLast`,
  `SumConcat`, `SumParts`).
- `EdgeBufferProofs`: `EdgeInv` states of the table and of the image on disk
  together that acknowledged rows form a prefix, that they arrived, and that ids
  follow births; and of the batch in flight that it is a prefix of what was
  unacknowledged when it was read, with ids at most the counter. The image on
  disk is in the invariant because a power cut makes it the table.
  `EdgeInvariant`, and from it `AcknowledgementsHold`, `SequenceHolds`, and
  the action property `NothingLost`.
  `BufferImplementsQueue`: `Spec => FifoPromise`. The mapping sorts what the table holds
  and was not handed over, so a step is one of the queue when the readings
  it adds, hands over or loses lie above or below all others: `InOrderSplit` says that
  the sorted list then splits. Why they do is `FifoInv`: an acknowledged row was handed
  over; the rows of a batch stay unacknowledged in the table until it is; and what
  the table has beyond the image on disk is younger, so that a power cut takes the end
  of the queue. `QueueInTurn` proves of the queue alone that its line is in the
  order of acceptance, and `HandedInOrder` carries that over: no transmission of a
  reading succeeds for the first time after one of a younger reading did. `handed` records
  first successes; that a batch may be sent again after a failure or a restart is in
  `cloud`.
- `EdgePipelineProofs`: the handlers keep two counters in place of what they
  stand for, the time of the last alarm and the length of a streak, and the
  properties speak of the readings. `BurstArmed` says that a recent alarm has left
  burst mode on, counted from it or later; `WindowOwn` and `WindowFollows` that a window
  holds readings of its sensor without alarm, none older than the one that
  closed the window before; `RunKnown` that a streak of k is the same as k last
  readings of equal value among those that came to the check. With the types,
  `Numbered` and `Dated` they are inductive (`PipelineInvariant`), and
  `IncidentsStored`, `ValidReadingsKept`, `AveragesDisjoint`, `RollupsSpaced` and
  `FlatlinesExact` carry the run's five invariants, for any flatline count,
  window and cooldown.
- `PacketAuthProofs`: what protects an accepted packet (`Guarded`) is its nonce,
  remembered no earlier than one skew before its stamp, or else the stamp's age; when
  pruning takes the nonce, two skews later, the stamp is stale. `Covered`
  says of every granted request that all granted since, and the tokens left, were in
  the bucket then or were earned since. `AuthInvariant`, and from it
  `PacketsOnce`, `RefusedForgotten` and `RatesHold`, for any skew, rate, capacity and cost.
- `OrchestratorProofs`, the guardrail: for the whole of `Orchestrator`, `AInv` is the
  types of the adaptive engine and of the trail with `InForceAuthorised`, which is
  inductive with them. The calls of every other engine are `Elsewhere`: they leave
  `adapt` and the trail's entries of adaptations alone, for which the ids of adaptations
  must differ from those of other audited resources (`OrchestratorAssumption`; in the
  code each id carries the prefix of its kind). `WithinGuardrail` bounds what the
  rounded percentage lets pass: a tenth and half of the last digit.
  `AdaptationsAuthorised` and the action property `GuardrailKept` follow, for any
  assets, integer shifts, derates and temperatures.
- `OrchestratorProofs`, the stores: `OInv` extends `AInv` by the types of the stores
  and, for each store, by which packets it speaks of. `ViewsInv` equates the latest
  values and the last score with the last packet that arrived and the last that passed
  the scoring since registration, and puts the twin between them; `HistoryInv` says that
  each row of a twin's history led to the next, and is needed because the oldest row
  goes when the history is full. `AlertsInv` is that open alerts cite packets and that
  no two ACTIVE ones tell the same of one asset, which the duplicate search relies on;
  `EscalationInv` that drafts and decisions cite packets in pairs, one pair or none for
  each, and that an unused id cites none, so that what is drafted next cannot be taken
  for an earlier packet's; `TrailInv` that the last entry about each alert, order and
  decision tells its status. `ApplicationInvariant` proves it inductive under all calls
  and every place a packet may stop; `ViewsHold`, `EscalationHolds`, `TrailHolds` and
  the action property of `AlertsHold` follow.

- `WebServerProofs`: names are sequences of words of any length, empty words included.
  After `Deduplicate` a prefix is not repeated (`DeduplicateIs`). Whatever is typed, what
  a facility gets begins with its tenant's prefix or with `SITE-` and the tenant's id
  (`FacilityForm`), and what a device gets with the name of its facility without
  the dashes at its end (`DeviceForm`); that needs nothing of the name, the code
  or the id. A *plain* name, one without empty parts, is found again: it is kept, its
  prefix once, or refused (`FacilityRead`, `DeviceRead`), so that what is accepted is
  settled (`FacilitySettled`, `DevicesAre`). `MemoryInv`
  is the shape of users, sites and assets with `Named`: a registered site is seeded or
  has a name its tenant may give (`MayName`), and every asset has its site there and
  is seeded or named after it. `HandleStep` goes through the handlers once, for a partition
  and a body that may name different tenants, for three facts: they keep
  `MemoryInv`; for an operator they stay within his tenant and the one the body names
  (`Within`); and a decision or refusal is entered in the operator's own name and
  only as the role allows (`Authorised`). `MemoryHolds`, `NamesHold` and the action
  properties of `IsolationHolds` and `AuthorityHolds` follow. `LoginHolds` rests on both lookups
  taking the first that fits: the first user of an email, being ACTIVE, is also the
  first ACTIVE one of that email and tenant.
  For the database, `MirrorInv` is that its tables are in `SoundTables` and that every
  transaction a worker still has to try is in `Txs`, the ones well-formed requests
  lead to: an asset's names a site that the asset's tenant may name, and is named after
  it. `WrittenSound` shows that such a transaction keeps any
  sound database sound, although an insertion that finds a row leaves the row it
  finds: that row was named as its own tenant may, which two tenants with the same
  second word both may; so the site an asset hangs under has a name its tenant may give,
  and may belong to another. `HandleSends` and `StartupIn` show from `MemoryInv` that
  requests and starts send only those, and `WrittenAll` that a start's transactions, folded over an empty
  database, end in a sound one. `MirrorHolds` follows: order, failures and restarts do
  not come into it, which is what makes it true of every interleaving.
- `ConditionProofs`: `ShortfallAlerted` speaks of the last packets and of what was found
  in them, and holds because of what the CUSUM sums remember. A packet that raises no
  alert was judged (`Level1Is`: what keeps the statistics from judging is an alert) and
  did not shift the chart, so that it added its deviation to the sums and left them
  below the limit (`QuietAdds`). `ConditionInv` says so of the window: after one quiet
  packet the sums hold at least its deviation, after two that of both, and a second of
  60 kW or a third of 33 kW would be beyond the limit, the coded one of 60 kW and the
  documented one of 75 kW. That findings survive the sorting is `SortedIs`, over
  sequences of any length. The numbers of the charts matter, not those of the other
  detectors; warm-up, window and readings are arbitrary. `LossHolds` is about the
  evaluation of one packet, any of `Packets`. `SolarIs`, `WindIs` and `BessIs` bound the
  physical models - a plant's resource, thermal and clipping losses add up from the
  rating or the potential, whatever division rounds off, with cells at 25 degrees or
  more - and `OnceIs` and `NothingIs` add up the columns of an account: a loss charged
  behind natural ones is the only one, its energy and money those of the account. Each
  technology's branches then fall under one of the three ways of `Books`, which
  `BooksAre` shows to be sound.

Only model-checked: `Drains`, as liveness under fairness and ENABLED are beyond the
prover, and `WorseNeverLooksBetter`. The latter compares the tables of curves, weights
and bands of five engines at two packets, and the fleet's ranking is a sort by an
operator (`SetToSortSeq`) that no prover here can take apart; the run goes
through the pairs of readings on both sides of every boundary.

## 6. Not modelled

Left out of a modelled part: the hash chain of the audit log; data lineage and the
compliance catalogue of governance; the closed-loop record of the adaptive engine; the
twin's what-if simulation, and of `digital_twin/synchronisation.py` the reconciliation
and drift report that no server calls; its skew check and status run with each packet
(`twin.py:188-195`), against the packet's own time as the clock, and the status is only
displayed; the training of the isolation forest; the fleet's performance-ratio
statistics; the explanations of a priority; GET routes, the administrator's console
login, passwords and mails of the web server; API tokens and the permission tables of
`reamp/security/auth.py`. Each is either arithmetic on its arguments or a record that no
other part reads.

Left out for good: mail, the front end, the protocol adapters, the demonstration
servers, the static compliance reviews and the offline experiments (I/O,
presentation, or no state).
