---------------------------- MODULE Orchestrator ----------------------------
(***************************************************************************)
(* REAMPApplicationMVP (reamp/mvp/orchestrator.py): the ten stages a       *)
(* telemetry packet runs through, the views of an asset they refresh one   *)
(* after the other, the alerts and work orders they raise and the calls of *)
(* people on those, on top of the adaptive and the governance engine.      *)
(*                                                                         *)
(* One call is one action (a worker process is single threaded).  The      *)
(* rating of a packet by the health and the anomaly engines is an input:   *)
(* any score and findings.  A packet may stop at the first field that does *)
(* not convert to a number or that an engine refuses; the stages before it *)
(* have had their effect.                                                  *)
(***************************************************************************)
EXTENDS Adaptive, Governance, Sequences

CONSTANTS
  AlertIds, OrderIds,  (* ids a fresh uuid may take                         *)
  Scores,              (* composite health scores, 0 to 100                 *)
  FindingSets,         (* what the anomaly engine may return, see Finding   *)
  RulModel,            (* the model stage 9 cites                           *)
  MaxPackets,          (* bound: packets accepted                           *)
  MaxHistory,          (* max_history_len of a twin                         *)
  MaxCalls             (* bound: calls made                                 *)

Severities == {"MEDIUM", "HIGH", "CRITICAL"}
Serious    == {"HIGH", "CRITICAL"}

(* Where a packet may stop: the numbers every technology needs, the fields  *)
(* the twin reads, those of the asset's technology, the detectors.          *)
Stops == <<"numbers", "twin", "technology", "detection">>

ASSUME OrchestratorAssumption ==
  /\ AlertIds \cup OrderIds \cup Assets \subseteq Resources
  /\ AlertIds \cap OrderIds = {}
  /\ DecisionIds \cap (AlertIds \cup OrderIds) = {}
  /\ ActionIds \cap (AlertIds \cup OrderIds \cup DecisionIds) = {}
  /\ (ActionIds \cup AlertIds \cup OrderIds \cup DecisionIds) \cap (Models \cup Settings \cup Assets) = {}
  /\ NoPacket \notin Nat \ {0}
  /\ Scores \subseteq 0..100
  /\ RulModel \in Models
  /\ MaxPackets \in Nat
  /\ MaxHistory \in Nat \ {0}
  /\ MaxCalls \in Nat

VARIABLES
  assets,   (* registered assets: the number of packets seen before         *)
  packets,  (* every packet accepted, in order of arrival (history)         *)
  latest,   (* latest_telemetry: the number of the packet shown, or 0       *)
  health,   (* latest_health, with the packet it was computed from          *)
  twin,     (* the registered twins                                         *)
  alerts,   (* alerts by alert_id                                           *)
  order,    (* the work orders stage 9 drafted, by work_order_id            *)
  calls     (* calls made so far                                            *)

views   == <<latest, health, twin>>
engines == <<adapt, govern>>
vars    == <<assets, packets, views, alerts, order, calls, engines, trail>>

Unregistered == -1

Packet == [asset : Assets, score : Scores, findings : SUBSET (STRING \X Severities),
           stop : 1..Len(Stops) + 1]

NoTwin    == [present |-> FALSE, at |-> 0, health |-> 100, history |-> <<>>]
FreshTwin == [NoTwin EXCEPT !.present = TRUE]
NoAlert   == [packet |-> 0, kind |-> "", severity |-> "MEDIUM", status |-> "NONE"]
NoOrder   == [packet |-> 0, status |-> "NONE"]

Init ==
  /\ AdaptiveInit
  /\ GovernanceInit
  /\ TrailInit
  /\ assets  = [a \in Assets |-> Unregistered]
  /\ packets = <<>>
  /\ latest  = [a \in Assets |-> 0]
  /\ health  = [a \in Assets |-> [at |-> 0, score |-> 100]]
  /\ twin    = [a \in Assets |-> NoTwin]
  /\ alerts  = [i \in AlertIds |-> NoAlert]
  /\ order   = [o \in OrderIds |-> NoOrder]
  /\ calls   = 0

(* register_asset, first or again: scores start over, telemetry stays.      *)
RegisterAsset(a) ==
  /\ assets' = [assets EXCEPT ![a] = Len(packets)]
  /\ health' = [health EXCEPT ![a] = [at |-> 0, score |-> 100]]
  /\ UNCHANGED <<packets, latest, twin, alerts, order, engines, trail>>

(* register_twin replaces the twin, and its history with it.                *)
RegisterTwin(a) ==
  /\ twin' = [twin EXCEPT ![a] = FreshTwin]
  /\ UNCHANGED <<assets, packets, latest, health, alerts, order, engines, trail>>

-----------------------------------------------------------------------------
(* The stages of process_telemetry_packet.  "p" is the packet, "n" its      *)
(* number.                                                                  *)

Passes(p, stage) == \A k \in 1..Len(Stops) : Stops[k] = stage => p.stop > k

(* Mutant of ShowTelemetry: shown only once it has been scored.             *)
ShowScored(p, n) ==
  latest' = IF Passes(p, "technology") THEN [latest EXCEPT ![p.asset] = n] ELSE latest

(* Stage 4: buffered and shown before anything is converted.                *)
ShowTelemetry(p, n) == latest' = [latest EXCEPT ![p.asset] = n]

TwinReached(p) == twin[p.asset].present /\ Passes(p, "twin")

(* update_telemetry runs before the packet is scored: the row it appends    *)
(* carries the health the twin had before.                                  *)
HistoryRow(p, n) == [at |-> n, health |-> twin[p.asset].health]

(* Mutant of Trim: one row too many is kept.                                *)
TrimLate(history) == IF Len(history) > MaxHistory + 1 THEN Tail(history) ELSE history

Trim(history) == IF Len(history) > MaxHistory THEN Tail(history) ELSE history

(* Stage 5 and the last lines of stage 6.                                   *)
UpdateTwin(p, n) ==
  LET t == twin[p.asset] IN
  twin' =
    IF TwinReached(p)
    THEN [twin EXCEPT ![p.asset] =
            [t EXCEPT !.at = n,
                      !.history = Trim(Append(t.history, HistoryRow(p, n))),
                      !.health = IF Passes(p, "technology") THEN p.score ELSE t.health]]
    ELSE twin

(* Stage 6: performance ratio and health of the same packet.                *)
ScoreAsset(p, n) ==
  health' = IF Passes(p, "technology")
            THEN [health EXCEPT ![p.asset] = [at |-> n, score |-> p.score]] ELSE health

SeriousKinds(p) == {f[1] : f \in {g \in p.findings : g[2] \in Serious}}

Of(i)   == packets[alerts[i].packet].asset
Open(i) == alerts[i].status # "NONE"

(* Mutant of Ongoing: an alert counts whatever became of it.                *)
OngoingEver(a, kind)  == \E i \in AlertIds : Open(i) /\ Of(i) = a /\ alerts[i].kind = kind

(* The deduplication of stage 8: an ACTIVE alert of the same kind on the    *)
(* same asset, of whatever severity.                                        *)
Ongoing(a, kind) ==
  \E i \in AlertIds : alerts[i].status = "ACTIVE" /\ Of(i) = a /\ alerts[i].kind = kind

NewKinds(p) == {k \in SeriousKinds(p) : ~ Ongoing(p.asset, k)}

(* The first finding of a kind decides the severity of its alert; findings  *)
(* come sorted by severity.                                                 *)
AlertSeverity(p, kind) ==
  IF <<kind, "CRITICAL">> \in p.findings THEN "CRITICAL" ELSE "HIGH"

(* Reading the site of an unregistered asset raises at the first new alert. *)
Alertable(p) == NewKinds(p) = {} \/ assets[p.asset] # Unregistered

(* Stage 8, with the ids the new alerts get.                                *)
DispatchAlerts(p, n, id) ==
  /\ \A k \in NewKinds(p) : ~ Open(id[k])
  /\ alerts' = [i \in AlertIds |->
                  IF \E k \in NewKinds(p) : id[k] = i
                  THEN LET k == CHOOSE k \in NewKinds(p) : id[k] = i IN
                       [packet |-> n, kind |-> k, severity |-> AlertSeverity(p, k),
                        status |-> "ACTIVE"]
                  ELSE alerts[i]]

Critical(p) == \E f \in p.findings : f[2] = "CRITICAL"

(* Mutant of Escalates: only the score is looked at.                        *)
EscalatesByScore(p) == p.score < 75

Escalates(p) == p.score < 75 \/ Critical(p)

(* Stage 9: an incident, its work order and the record of the AI decision,  *)
(* for every packet anew.                                                   *)
Escalate(p, n, o, d) ==
  IF Escalates(p)
  THEN /\ order[o].status = "NONE" /\ decision[d].outcome = "NONE"
       /\ order'    = [order EXCEPT ![o] = [packet |-> n, status |-> "PENDING_HITL_APPROVAL"]]
       /\ decision' = [decision EXCEPT ![d] = DecisionRecord(RulModel, n)]
  ELSE UNCHANGED <<order, decision>>

AuditPacket(p, id, d) ==
  trail' = [r \in Resources |->
              CASE \E k \in NewKinds(p) : id[k] = r -> "DISPATCH_ALERT"
                [] Escalates(p) /\ r = d            -> "CREATE_AI_DECISION_RECORD"
                [] OTHER                            -> trail[r]]

Completes(p) == Passes(p, "detection") /\ Alertable(p)

(* Stages 4 to 10, after the signature (if any) was verified.  Stage 10     *)
(* computes the risk figures it returns and changes nothing.                *)
ProcessTelemetryPacket(p, id, o, d) ==
  LET n == Len(packets) + 1 IN
  /\ n <= MaxPackets
  /\ p.stop # 2 \/ twin[p.asset].present  (* only a twin stops at "twin"       *)
  /\ packets' = Append(packets, p)
  /\ ShowTelemetry(p, n)
  /\ UpdateTwin(p, n)
  /\ ScoreAsset(p, n)
  /\ IF Completes(p)
     THEN DispatchAlerts(p, n, id) /\ Escalate(p, n, o, d) /\ AuditPacket(p, id, d)
     ELSE UNCHANGED <<alerts, order, decision, trail>>
  /\ UNCHANGED <<assets, adapt, model, changed>>

-----------------------------------------------------------------------------
(* The calls of people.                                                     *)

(* Mutant of SetAlertStatus: a resolved alert is raised again.              *)
SetAlertStatusBack(i, status) ==
  alerts' = [alerts EXCEPT ![i].status =
               IF @ = "RESOLVED" THEN "ACTIVE" ELSE status]

SetAlertStatus(i, status) == alerts' = [alerts EXCEPT ![i].status = status]

(* Whatever its status: an alert that was resolved is acknowledged again.   *)
AcknowledgeAlert(i) ==
  /\ Open(i)
  /\ SetAlertStatus(i, "ACKNOWLEDGED")
  /\ Record(i, "ACKNOWLEDGE_ALERT")
  /\ UNCHANGED <<assets, packets, views, order, engines>>

ResolveAlert(i) ==
  /\ Open(i)
  /\ SetAlertStatus(i, "RESOLVED")
  /\ Record(i, "RESOLVE_ALERT")
  /\ UNCHANGED <<assets, packets, views, order, engines>>

(* A call of the maintenance engine, WorkOrders, and then the audit entry:  *)
(* an engine that refuses raises, and nothing is logged.                    *)
Handle(o, from, to, entry) ==
  /\ order[o].status \in from
  /\ order' = [order EXCEPT ![o].status = to]
  /\ Record(o, entry)
  /\ UNCHANGED <<assets, packets, views, alerts, engines>>

ApproveOrder(o) ==
  Handle(o, {"PENDING_HITL_APPROVAL"}, "APPROVED", "APPROVE_WORK_ORDER")
DispatchOrder(o) == Handle(o, {"APPROVED"}, "DISPATCHED", "DISPATCH_WORK_ORDER")
CompleteOrder(o) == Handle(o, {"DISPATCHED"}, "COMPLETED", "COMPLETE_WORK_ORDER")
CloseOrder(o)    == Handle(o, {"COMPLETED"}, "CLOSED", "CLOSE_WORK_ORDER")

(* reserve_parts_for_work_order: in any status.                             *)
ReserveParts(o) ==
  /\ order[o].status # "NONE"
  /\ Record(o, "RESERVE_PARTS")
  /\ UNCHANGED <<assets, packets, views, alerts, order, engines>>

(* get_unified_dashboard: the active_alerts it lists for a site's assets.   *)
ActiveAlerts(as) ==
  {i \in AlertIds : Open(i) /\ alerts[i].status # "RESOLVED" /\ Of(i) \in as}

(* generate_executive_report leaves an audit entry, here of the one site.   *)
GenerateExecutiveReport(site) ==
  /\ Record(site, "GENERATE_EXECUTIVE_REPORT")
  /\ UNCHANGED <<assets, packets, views, alerts, order, engines>>

-----------------------------------------------------------------------------

(* A score and findings are there only if the packet got that far.          *)
PacketNext ==
  \E a \in Assets, score \in Scores, fs \in FindingSets, stop \in 1..Len(Stops) + 1 :
    LET p == [asset |-> a, score |-> score, findings |-> fs, stop |-> stop] IN
    /\ ~ Passes(p, "technology") => score = CHOOSE x \in Scores : TRUE
    /\ ~ Passes(p, "detection") => fs = {}
    /\ \E id \in [SeriousKinds(p) -> AlertIds], o \in OrderIds, d \in DecisionIds :
         /\ \A j, k \in SeriousKinds(p) : id[j] = id[k] => j = k
         /\ ProcessTelemetryPacket(p, id, o, d)

PeopleNext ==
  \/ \E i \in AlertIds : AcknowledgeAlert(i) \/ ResolveAlert(i)
  \/ \E o \in OrderIds : \/ ApproveOrder(o) \/ DispatchOrder(o) \/ CompleteOrder(o)
                         \/ CloseOrder(o) \/ ReserveParts(o)
  \/ \E a \in Assets : GenerateExecutiveReport(a)

Registrations == \E a \in Assets : RegisterAsset(a) \/ RegisterTwin(a)

Next ==
  /\ calls < MaxCalls
  /\ calls' = calls + 1
  /\ \/ PacketNext
     \/ PeopleNext
     \/ Registrations
     \/ AdaptiveNext /\ UNCHANGED <<assets, packets, views, alerts, order, govern>>
     \/ GovernanceNext /\ UNCHANGED <<assets, packets, views, alerts, order, adapt>>

Spec == Init /\ [][Next]_vars

-----------------------------------------------------------------------------

TypeOK ==
  /\ AdaptiveTypeOK
  /\ GovernanceTypeOK
  /\ \A a \in Assets : assets[a] \in -1..Len(packets) /\ latest[a] \in 0..Len(packets)
  /\ \A a \in Assets : health[a].at \in 0..Len(packets) /\ health[a].score \in Scores \cup {100}
  /\ \A a \in Assets : Len(twin[a].history) <= MaxHistory /\ twin[a].at \in 0..Len(packets)
  /\ \A i \in AlertIds : Open(i) => alerts[i].packet \in DOMAIN packets
  /\ \A o \in OrderIds : order[o].status # "NONE" => order[o].packet \in DOMAIN packets

(* The packets of an asset after the m-th that satisfy a condition.         *)
LastOf(a, m, ok(_)) ==
  LET ns == {n \in DOMAIN packets : n > m /\ packets[n].asset = a /\ ok(packets[n])} IN
  IF ns = {} THEN 0 ELSE CHOOSE n \in ns : \A k \in ns : k <= n

Scored(p) == Passes(p, "technology")

(* What the dashboard puts side by side may come from different packets:    *)
(* the telemetry shown is that of the last packet that arrived, the health  *)
(* and the performance ratio those of the last that got as far as being     *)
(* scored since the asset was registered, and no stage is shown without     *)
(* those before it, wherever packets stopped and however late they were.    *)
(* A row of a twin's history carries the health that was known when its     *)
(* packet came: the score of the row before, unless that packet stopped.    *)
ViewsFollowArrival ==
  \A a \in Assets :
    /\ latest[a] = LastOf(a, 0, LAMBDA p : TRUE)
    /\ health[a].at = LastOf(a, assets[a], Scored)
    /\ health[a].score = IF health[a].at = 0 THEN 100 ELSE packets[health[a].at].score
    /\ twin[a].present /\ twin[a].at # 0 => twin[a].at >= health[a].at /\ twin[a].at <= latest[a]
    /\ \A k \in 2..Len(twin[a].history) :
         LET before == twin[a].history[k - 1]
             row    == twin[a].history[k] IN
         row.health = IF Scored(packets[before.at]) THEN packets[before.at].score
                                                    ELSE before.health

(* A packet whose evaluation completes leaves exactly one ACTIVE alert for  *)
(* every kind of serious finding: one that people acknowledged or resolved  *)
(* before does not silence it, one that is ACTIVE is not raised twice.      *)
FindingsAlerted ==
  [][\A n \in DOMAIN packets' \ DOMAIN packets :
       Completes(packets'[n]) =>
         \A k \in SeriousKinds(packets'[n]) :
           Cardinality({i \in AlertIds :
             /\ alerts'[i].status = "ACTIVE" /\ alerts'[i].kind = k
             /\ packets'[alerts'[i].packet].asset = packets'[n].asset}) = 1]_vars

Cited(record, n) == Cardinality({x \in DOMAIN record : record[x].packet = n})

(* Escalation is all or nothing: a packet has one work order and one record *)
(* of the AI decision behind it, or neither, and none for a packet whose    *)
(* evaluation broke off.  A critical packet whose evaluation went through,  *)
(* which only a missing registration (of an asset to be alerted) prevents,  *)
(* is not forgotten: it or an earlier packet of its asset has them.  (Stage *)
(* 9; whether it should have its own or join the earlier one's is the       *)
(* question of OneIncidentPerAnomaly.)                                      *)
EscalatedOnce ==
  \A n \in DOMAIN packets :
    LET p == packets[n] IN
    /\ Cited(order, n) = Cited(decision, n)
    /\ Cited(order, n) <= 1
    /\ Cited(order, n) = 1 => Escalates(p) /\ Passes(p, "detection")
    /\ /\ p.score < 75 \/ Critical(p)
       /\ Passes(p, "detection")
       /\ SeriousKinds(p) = {} \/ assets[p.asset] \in 0..(n - 1)
       => \E m \in 1..n : packets[m].asset = p.asset /\ Cited(order, m) = 1

AlertEntry ==
  [NONE |-> "NONE", ACTIVE |-> "DISPATCH_ALERT", ACKNOWLEDGED |-> "ACKNOWLEDGE_ALERT",
   RESOLVED |-> "RESOLVE_ALERT"]

OrderEntry ==
  [NONE |-> "NONE", PENDING_HITL_APPROVAL |-> "NONE", APPROVED |-> "APPROVE_WORK_ORDER",
   DISPATCHED |-> "DISPATCH_WORK_ORDER", COMPLETED |-> "COMPLETE_WORK_ORDER",
   CLOSED |-> "CLOSE_WORK_ORDER"]

(* The audit trail and the records tell the same: the last entry about an   *)
(* alert, a work order or an AI decision is the step that gave it the       *)
(* status it has, however often people decided again and whatever an engine *)
(* refused; the dashboard lists the alerts the trail calls not resolved.    *)
TrailTellsStatus ==
  /\ \A i \in AlertIds : trail[i] = AlertEntry[alerts[i].status]
  /\ ActiveAlerts(Assets)
       = {i \in AlertIds : trail[i] \in {"DISPATCH_ALERT", "ACKNOWLEDGE_ALERT"}}
  /\ \A o \in OrderIds :
       \/ trail[o] = OrderEntry[order[o].status]
       \/ trail[o] = "RESERVE_PARTS" /\ order[o].status # "NONE"
  /\ \A d \in DecisionIds :
       \/ trail[d] = decision[d].outcome
       \/ trail[d] = "CREATE_AI_DECISION_RECORD" /\ decision[d].outcome = "PENDING_REVIEW"

-----------------------------------------------------------------------------
(* What the documentation says and the code does not do.                    *)

(* docs/08_Anomaly_Detection_Framework.md:84-86, "Consecutive detections of *)
(* the same anomaly type on the same asset within a configurable cooling    *)
(* window are grouped into a single ongoing incident": a packet with the    *)
(* critical finding its predecessor had, whose incident is being worked on, *)
(* opens no other.  Packets may follow one another at any distance here,    *)
(* the shortest included; the code looks at no time and no earlier packet.  *)
OneIncidentPerAnomaly ==
  \A o \in OrderIds :
    LET n == order[o].packet IN
    /\ order[o].status \in {"PENDING_HITL_APPROVAL", "APPROVED", "DISPATCHED"}
    /\ n + 1 \in DOMAIN packets
    /\ packets[n + 1].asset = packets[n].asset
    /\ \E f \in packets[n].findings \cap packets[n + 1].findings : f[2] = "CRITICAL"
    => Cited(order, n + 1) = 0
=============================================================================
