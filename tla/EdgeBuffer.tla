----------------------------- MODULE EdgeBuffer -----------------------------
(***************************************************************************)
(* Store and forward at the edge: the SQLite table of reamp/edge/buffer.py *)
(* (SQLiteEdgeBuffer), the synchronisation of reamp/edge/gateway.py        *)
(* (EdgeGateway.synchronize_with_cloud) and what surrounds them: the link, *)
(* the cloud, restarts of the process and power cuts.                      *)
(*                                                                         *)
(* Every method that touches the table commits before it returns, so each  *)
(* is one action.  synchronize_with_cloud is not: between its read of a    *)
(* batch, the transmission and the acknowledgement lies the callback,      *)
(* during which the connection, opened with check_same_thread=False, goes  *)
(* on serving ingestion, and during which the process may die.             *)
(*                                                                         *)
(* A row's key stands for (tenant_id, asset_id, metric, timestamp), the    *)
(* UNIQUE index; its content for the value, quality and confidence that an *)
(* upsert replaces, numbered by the insertion that wrote it.               *)
(***************************************************************************)
EXTENDS Integers, Sequences, SequencesExt, FiniteSets, Sorting

CONSTANTS
  Keys,
  MaxWrites,     (* bound: insertions, and so sequence ids and contents     *)
  BatchSize,     (* LIMIT of get_unacknowledged_batch                       *)
  MaxPowerCuts   (* bound: power cuts                                       *)

ASSUME EdgeAssumption ==
  /\ MaxWrites \in Nat
  /\ BatchSize \in Nat \ {0}
  /\ MaxPowerCuts \in Nat

Writes == 1..MaxWrites

(* born: the insertion that created the row; content: the last one that     *)
(* wrote it; acked: is_acknowledged.                                        *)
Row == [seq : Writes, key : Keys, born : Writes, content : Writes, acked : BOOLEAN]

VARIABLES
  rows,        (* edge_telemetry_buffer as the process sees it              *)
  lastSeq,     (* sqlite_sequence of the AUTOINCREMENT key                  *)
  disk,        (* [rows, lastSeq] the storage would come back with after a  *)
               (* power cut: synchronous=NORMAL does not flush the WAL at   *)
               (* each commit                                               *)
  online,      (* is_wan_online                                             *)
  callback,    (* cloud_transmit_callback is set                            *)
  batch,       (* unacked: what the synchronisation in progress read        *)
  success,     (* the transmission of the batch succeeded                   *)
  cloud,       (* [born, content] that arrived at the cloud                 *)
  writes,      (* history variable: insertions so far                       *)
  handed,      (* history variable: rows transmitted with success, by their *)
               (* birth, in order of the first success                      *)
  mocked,      (* history variable: births acknowledged with no callback    *)
  cut,         (* history variable: births a power cut took away            *)
  powerCuts    (* number of power cuts so far                               *)

table   == <<rows, lastSeq>>
sync    == <<batch, success>>
history == <<cloud, handed, mocked, cut>>
vars    == <<table, disk, online, callback, sync, history, writes, powerCuts>>

Births(R) == {r.born : r \in R}

Unacknowledged == {r \in rows : ~ r.acked}

-----------------------------------------------------------------------------

Init ==
  /\ rows = {} /\ lastSeq = 0
  /\ disk = [rows |-> {}, lastSeq |-> 0]
  /\ online = TRUE
  /\ callback = FALSE
  /\ batch = {} /\ success = FALSE
  /\ cloud = {}
  /\ writes = 0
  /\ handed = <<>>
  /\ mocked = {} /\ cut = {}
  /\ powerCuts = 0

(* Mutants of Upserted: ids are counted from 0; INSERT OR REPLACE instead   *)
(* of the upsert, which deletes the row and queues a new one.               *)
UpsertedFromZero(R, k, n, w) ==
  IF \E r \in R : r.key = k
  THEN {IF r.key = k THEN [r EXCEPT !.content = w] ELSE r : r \in R}
  ELSE R \cup {[seq |-> n - 1, key |-> k, born |-> w, content |-> w, acked |-> FALSE]}

Replaced(R, k, n, w) ==
  {r \in R : r.key # k}
    \cup {[seq |-> n, key |-> k, born |-> w, content |-> w, acked |-> FALSE]}

(* INSERT ... ON CONFLICT DO UPDATE: a row with the same key gets the new   *)
(* content and keeps its sequence id and its is_acknowledged.  A sequence   *)
(* id is drawn in both cases.                                               *)
Upserted(R, k, n, w) ==
  IF \E r \in R : r.key = k
  THEN {IF r.key = k THEN [r EXCEPT !.content = w] ELSE r : r \in R}
  ELSE R \cup {[seq |-> n, key |-> k, born |-> w, content |-> w, acked |-> FALSE]}

Insert(k) ==
  /\ writes < MaxWrites
  /\ rows'    = Upserted(rows, k, lastSeq + 1, writes + 1)
  /\ lastSeq' = lastSeq + 1
  /\ writes'  = writes + 1
  /\ UNCHANGED <<disk, online, callback, sync, history, powerCuts>>

(* insert_batch: one transaction, here of two observations.                 *)
InsertBatch(k1, k2) ==
  /\ writes + 1 < MaxWrites
  /\ rows'    = Upserted(Upserted(rows, k1, lastSeq + 1, writes + 1),
                         k2, lastSeq + 2, writes + 2)
  /\ lastSeq' = lastSeq + 2
  /\ writes'  = writes + 2
  /\ UNCHANGED <<disk, online, callback, sync, history, powerCuts>>

(* Mutant of PurgeAcknowledged: the AUTOINCREMENT counter is reset as well. *)
PurgeResettingIds ==
  /\ rows' = Unacknowledged
  /\ lastSeq' = 0
  /\ UNCHANGED <<disk, online, callback, sync, history, writes, powerCuts>>

PurgeAcknowledged ==
  /\ rows' = Unacknowledged
  /\ UNCHANGED <<lastSeq, disk, online, callback, sync, history, writes, powerCuts>>

-----------------------------------------------------------------------------
(* synchronize_with_cloud                                                   *)

PendingIds == {r.seq : r \in Unacknowledged}

(* Mutant of GetUnacknowledgedBatch: ORDER BY sequence_id DESC.             *)
NewestFirst ==
  {r \in Unacknowledged : Cardinality({n \in PendingIds : n > r.seq}) < BatchSize}

(* ORDER BY sequence_id ASC LIMIT BatchSize, sequence_id being the primary  *)
(* key.                                                                     *)
GetUnacknowledgedBatch ==
  {r \in Unacknowledged : Cardinality({n \in PendingIds : n < r.seq}) < BatchSize}

SyncRead ==
  /\ online
  /\ batch = {}
  /\ Unacknowledged # {}
  /\ batch' = GetUnacknowledgedBatch
  /\ UNCHANGED <<table, disk, online, callback, success, history, writes, powerCuts>>

Arrive(R) == cloud' = cloud \cup {[born |-> r.born, content |-> r.content] : r \in R}

HandOver ==
  handed' = handed \o InOrder({b \in Births(batch) : ~ Contains(handed, b)})

Transmit ==
  /\ callback /\ batch # {} /\ ~ success
  /\ Arrive(batch)
  /\ HandOver
  /\ success' = TRUE
  /\ UNCHANGED <<table, disk, online, callback, batch, mocked, cut, writes, powerCuts>>

(* The callback returns False or raises.  Whatever part of the batch had    *)
(* arrived by then stays arrived: a lost answer is the case where all of it *)
(* did.                                                                     *)
TransmitFails ==
  /\ callback /\ batch # {} /\ ~ success
  /\ \E R \in SUBSET batch : Arrive(R)
  /\ batch' = {}
  /\ UNCHANGED <<table, disk, online, callback, success, handed, mocked, cut, writes, powerCuts>>

(* No callback is set: "mock sender", success = True and nothing is sent.   *)
MockTransmit ==
  /\ ~ callback /\ batch # {} /\ ~ success
  /\ HandOver
  /\ mocked'  = mocked \cup Births(batch)
  /\ success' = TRUE
  /\ UNCHANGED <<table, disk, online, callback, batch, cloud, cut, writes, powerCuts>>

Highest == CHOOSE n \in {r.seq : r \in batch} : \A r \in batch : r.seq <= n

(* acknowledge_batch: by sequence number, not by the rows that were sent.   *)
Acknowledge ==
  /\ success
  /\ rows'    = {IF r.seq <= Highest THEN [r EXCEPT !.acked = TRUE] ELSE r : r \in rows}
  /\ batch'   = {}
  /\ success' = FALSE
  /\ UNCHANGED <<lastSeq, disk, online, callback, history, writes, powerCuts>>

-----------------------------------------------------------------------------
(* The surroundings.                                                        *)

WanFlips ==
  /\ online' = ~ online
  /\ UNCHANGED <<table, disk, callback, sync, history, writes, powerCuts>>

SetCallback ==
  /\ ~ callback /\ batch = {}
  /\ callback' = TRUE
  /\ UNCHANGED <<table, disk, online, sync, history, writes, powerCuts>>

(* The WAL reaches the storage, at a time of the operating system's choice. *)
Checkpoint ==
  /\ disk' = [rows |-> rows, lastSeq |-> lastSeq]
  /\ UNCHANGED <<table, online, callback, sync, history, writes, powerCuts>>

(* EdgeGateway.__init__: until the start-up code sets the callback again,   *)
(* a synchronisation falls to the mock sender.                              *)
Reboot ==
  /\ batch' = {} /\ success' = FALSE
  /\ online' = TRUE
  /\ callback' = FALSE

(* The process dies and starts again: what was committed is there.          *)
Restart ==
  /\ Reboot
  /\ UNCHANGED <<table, disk, history, writes, powerCuts>>

PowerCut ==
  /\ powerCuts < MaxPowerCuts
  /\ Reboot
  /\ rows'    = disk.rows
  /\ lastSeq' = disk.lastSeq
  /\ cut'     = cut \cup (Births(rows) \ Births(disk.rows))
  /\ powerCuts' = powerCuts + 1
  /\ UNCHANGED <<disk, cloud, handed, mocked, writes>>

-----------------------------------------------------------------------------

Next ==
  \/ \E k \in Keys : Insert(k)
  \/ \E k1, k2 \in Keys : InsertBatch(k1, k2)
  \/ PurgeAcknowledged
  \/ SyncRead \/ Transmit \/ TransmitFails \/ MockTransmit \/ Acknowledge
  \/ WanFlips \/ SetCallback \/ Checkpoint \/ Restart \/ PowerCut

(* The gateway's loop keeps synchronising whenever the link is up, which it *)
(* is again and again; the callback is not refused for ever; and the        *)
(* process is not killed for ever between a success and its commit.         *)
Fairness ==
  /\ SF_vars(SyncRead)
  /\ SF_vars(Transmit \/ MockTransmit)
  /\ SF_vars(Acknowledge)
  /\ WF_vars(WanFlips /\ ~ online)

Spec == Init /\ [][Next]_vars /\ Fairness

-----------------------------------------------------------------------------

TypeOK ==
  /\ rows \subseteq Row /\ lastSeq \in 0..MaxWrites
  /\ disk \in [rows : SUBSET Row, lastSeq : 0..MaxWrites]
  /\ online \in BOOLEAN /\ callback \in BOOLEAN /\ success \in BOOLEAN
  /\ batch \subseteq Row
  /\ cloud \subseteq [born : Writes, content : Writes]
  /\ writes \in 0..MaxWrites
  /\ handed \in Seq(Writes)
  /\ mocked \subseteq Writes /\ cut \subseteq Writes
  /\ powerCuts \in 0..MaxPowerCuts

(* acknowledge_batch marks every row up to the highest sequence id sent,    *)
(* also rows that were not in the batch.  It is safe because no             *)
(* unacknowledged row ever lies below an acknowledged one, not even after   *)
(* a batch was interrupted, rows were purged or a power cut undid both.     *)
AcknowledgedPrefix == \A r, q \in rows : r.seq <= q.seq /\ q.acked => r.acked

(* A row is acknowledged, and may then be purged, only after a version of   *)
(* it arrived at the cloud; the mock sender is the one exception.           *)
AcknowledgedArrived ==
  \A r \in rows : r.acked => r.born \in Births(cloud) \cup mocked

(* The AUTOINCREMENT counter stays ahead of every row, on disk too, so that *)
(* a purge or a power cut never makes a new row jump the queue.             *)
SequenceAhead ==
  /\ \A r \in rows : r.seq <= lastSeq
  /\ \A r \in disk.rows : r.seq <= disk.lastSeq
  /\ \A r, q \in rows : r.seq < q.seq <=> r.born < q.born

(* A row that was ever accepted is still in the table, has arrived, was     *)
(* swallowed by the mock sender or by a power cut: nothing else loses one.  *)
Held == Births(rows) \cup Births(cloud) \cup mocked \cup cut
NothingVanishes == [][Held \subseteq Held']_vars

(* The backlog drains: every row is eventually transmitted, or a power cut  *)
(* took it, in spite of link flaps, refused batches and restarts.           *)
Drains ==
  \A n \in Writes :
    (n \in Births(Unacknowledged)) ~> (n \in Births(cloud) \cup mocked \cup cut)

Waiting == {b \in Births(rows) : ~ Contains(handed, b)}

Queue == INSTANCE StoreForward WITH
  Readings  <- Writes,
  queue     <- InOrder(Waiting),
  forwarded <- handed

(* The table, its batches and retransmissions implement a FIFO queue from   *)
(* which readings are handed over once each.                                *)
FifoPromise == Queue!QueueSpec

-----------------------------------------------------------------------------
(* What the documentation says and the code does not do.                    *)

(* acknowledge_batch, "Mark all buffered records up to highest_sequence_id  *)
(* as successfully delivered", README.md, "guaranteeing zero data loss      *)
(* during WAN link drops": a record marked delivered holds what was         *)
(* delivered.  An upsert of a row already sent changes it afterwards, and   *)
(* nothing sends it again.                                                  *)
AcknowledgedIsCurrent ==
  \A r \in rows : r.acked /\ mocked = {} => [born |-> r.born, content |-> r.content] \in cloud
=============================================================================
