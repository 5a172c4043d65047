-------------------------- MODULE EdgeBufferProofs --------------------------
(***************************************************************************)
(* No reading is lost at the edge, and none is transmitted before an older *)
(* one, for every number of keys, every batch size and every number of     *)
(* restarts and power cuts.                                                *)
(*                                                                         *)
(* acknowledge_batch marks by sequence number rows it never saw.  That     *)
(* these rows were all in the batch follows from facts no method states:   *)
(* the batch is the oldest part of the backlog, ids never run backwards,   *)
(* and what the storage would come back with after a power cut has the     *)
(* same shape as the table.  EdgeInv carries them through every step.      *)
(*                                                                         *)
(* That the buffer is a queue to its user (StoreForward) needs besides how *)
(* table, image on disk and hand-over relate: FifoInv.  The order by which *)
(* a batch is handed over is InOrder's, about which the sorting lemmas say *)
(* that it splits where one set lies below another.                        *)
(***************************************************************************)
EXTENDS EdgeBuffer, FoldLemmas, SequenceTheorems, FiniteSetTheorems,
        WellFoundedInduction, TLAPS

(* A table R whose last id is n, after w insertions, of which the births in *)
(* D are known to be delivered.                                             *)
Sound(R, n, w, D) ==
  /\ R \subseteq Row
  /\ \A r \in R : r.seq <= n /\ r.born <= w
  /\ \A r, q \in R : r.seq < q.seq <=> r.born < q.born
  /\ \A r, q \in R : r.seq <= q.seq /\ q.acked => r.acked
  /\ \A r \in R : r.acked => r.born \in D

Delivered == Births(cloud) \cup mocked

Counters ==
  /\ writes \in 0..MaxWrites
  /\ lastSeq \in Nat /\ disk.lastSeq \in Nat
  /\ disk.lastSeq <= lastSeq /\ lastSeq <= writes

(* The batch in flight is the oldest part of the backlog.                   *)
InFlight ==
  /\ batch \subseteq Row
  /\ \A b \in batch : b.seq <= lastSeq
  /\ \A r \in rows, b \in batch : ~ r.acked /\ r.seq <= b.seq => r.born \in Births(batch)
  /\ success \in BOOLEAN
  /\ success => batch # {} /\ Births(batch) \subseteq Delivered

EdgeInv ==
  /\ Counters
  /\ Sound(rows, lastSeq, writes, Delivered)
  /\ Sound(disk.rows, disk.lastSeq, writes, Delivered)
  /\ InFlight

(* What a row holds.                                                        *)
LEMMA RowFields ==
  ASSUME NEW r \in Row
  PROVE  r.seq \in Nat /\ r.born \in Nat /\ r.acked \in BOOLEAN /\ r.seq \in Writes
BY EdgeAssumption DEF Row, Writes, EdgeAssumption

(* A table stays sound when time goes on and more is delivered.             *)
LEMMA SoundMonotone ==
  ASSUME NEW R, NEW n, NEW w \in Nat, NEW v \in Nat, w <= v, NEW D, NEW E, D \subseteq E,
         Sound(R, n, w, D)
  PROVE  Sound(R, n, v, E)
<1>1. \A r \in R : r.born \in Nat
  BY RowFields DEF Sound
<1> QED
  BY <1>1 DEF Sound

(* The row an insertion writes is a row.                                    *)
LEMMA RewrittenRow ==
  ASSUME NEW r \in Row, NEW w \in Writes
  PROVE  /\ [r EXCEPT !.content = w] \in Row
         /\ [r EXCEPT !.content = w].seq = r.seq
         /\ [r EXCEPT !.content = w].born = r.born
         /\ [r EXCEPT !.content = w].acked <=> r.acked
BY DEF Row

(* r is q, but for its content.                                             *)
Version(r, q) == r.seq = q.seq /\ r.born = q.born /\ (r.acked <=> q.acked)

(* What an upsert leaves: rows that were there, with their id, their birth  *)
(* and their mark, and at most one new row behind all of them.              *)
LEMMA UpsertedRows ==
  ASSUME NEW R, NEW k \in Keys, NEW n \in Writes, NEW w \in Writes, R \subseteq Row
  PROVE  /\ Upserted(R, k, n, w) \subseteq Row
         /\ \A r \in Upserted(R, k, n, w) :
              (\E q \in R : Version(r, q)) \/ (r.seq = n /\ r.born = w /\ ~ r.acked)
         /\ \A q \in R : \E r \in Upserted(R, k, n, w) : Version(r, q)
<1> DEFINE U   == Upserted(R, k, n, w)
           e(r) == [r EXCEPT !.content = w]
           new == [seq |-> n, key |-> k, born |-> w, content |-> w, acked |-> FALSE]
<1>1. \A r \in R : e(r) \in Row /\ Version(e(r), r) /\ Version(r, r)
  BY RewrittenRow DEF Version
<1>2. new \in Row /\ new.seq = n /\ new.born = w /\ ~ new.acked
  BY DEF Row
<1>3. CASE \E r \in R : r.key = k
  <2>1. U = {IF r.key = k THEN e(r) ELSE r : r \in R}
    BY <1>3 DEF Upserted
  <2> HIDE DEF U, e, new
  <2>2. \A u \in U : \E r \in R : u = e(r) \/ u = r
    BY <2>1
  <2>3. \A r \in R : e(r) \in U \/ r \in U
    BY <2>1
  <2>4. U \subseteq Row /\ \A u \in U : \E q \in R : Version(u, q)
    BY <1>1, <2>2
  <2>5. \A q \in R : \E r \in U : Version(r, q)
    BY <1>1, <2>3
  <2> QED
    BY <2>4, <2>5 DEF U
<1>4. CASE ~ \E r \in R : r.key = k
  <2>1. U = R \cup {new}
    BY <1>4 DEF Upserted
  <2> HIDE DEF U, e, new
  <2> QED
    BY <1>1, <1>2, <2>1 DEF U
<1> QED
  BY <1>3, <1>4

(* An upsert under a fresh id keeps a table sound.                          *)
LEMMA UpsertSound ==
  ASSUME NEW R, NEW k \in Keys, NEW n \in Nat, NEW w \in Nat, NEW D,
         n <= w, w < MaxWrites, Sound(R, n, w, D)
  PROVE  /\ Sound(Upserted(R, k, n + 1, w + 1), n + 1, w + 1, D)
         /\ Births(R) \subseteq Births(Upserted(R, k, n + 1, w + 1))
<1> DEFINE U == Upserted(R, k, n + 1, w + 1)
<1>1. R \subseteq Row /\ \A r \in R : r.seq \in Nat /\ r.born \in Nat
  BY RowFields DEF Sound
<1>2. n + 1 \in Writes /\ w + 1 \in Writes
  BY EdgeAssumption DEF EdgeAssumption, Writes
<1>3. U \subseteq Row /\ \A q \in R : \E r \in U : Version(r, q)
  BY <1>1, <1>2, UpsertedRows
<1>4. \A r \in U : \/ \E q \in R : Version(r, q)
                   \/ r.seq = n + 1 /\ r.born = w + 1 /\ ~ r.acked
  BY <1>1, <1>2, UpsertedRows
<1> HIDE DEF U
<1>5. Births(R) \subseteq Births(U)
  BY <1>3 DEF Births, Version
<1>6. /\ \A r \in R : r.seq < n + 1 /\ r.born < w + 1
      /\ \A r \in U : r.seq <= n + 1 /\ r.born <= w + 1
  BY <1>1, <1>4 DEF Sound, Version
<1>7. \A r, q \in U : r.seq < q.seq <=> r.born < q.born
  BY <1>1, <1>4, <1>6 DEF Sound, Version
<1>8. \A r, q \in U : r.seq <= q.seq /\ q.acked => r.acked
  <2> SUFFICES ASSUME NEW r \in U, NEW q \in U, r.seq <= q.seq, q.acked PROVE r.acked
    OBVIOUS
  <2>1. PICK p \in R : Version(q, p)
    BY <1>4
  <2>2. p.seq < n + 1 /\ r.seq <= p.seq /\ p.acked
    BY <1>6, <2>1 DEF Version
  <2>3. r.seq # n + 1
    BY <1>1, <2>2
  <2>4. PICK s \in R : Version(r, s)
    BY <1>4, <2>3
  <2>5. s.acked
    BY <2>2, <2>4 DEF Sound, Version
  <2> QED
    BY <2>4, <2>5 DEF Version
<1>9. \A r \in U : r.acked => r.born \in D
  BY <1>4 DEF Sound, Version
<1> QED
  BY <1>3, <1>5, <1>6, <1>7, <1>8, <1>9 DEF Sound, U

(* An upsert while a batch is in flight leaves the batch the oldest part.   *)
LEMMA UpsertInFlight ==
  ASSUME NEW R, NEW k \in Keys, NEW n \in Nat, NEW w \in Writes, NEW B,
         R \subseteq Row, B \subseteq Row, n + 1 \in Writes,
         \A b \in B : b.seq <= n,
         \A r \in R, b \in B : ~ r.acked /\ r.seq <= b.seq => r.born \in Births(B)
  PROVE  \A r \in Upserted(R, k, n + 1, w), b \in B :
            ~ r.acked /\ r.seq <= b.seq => r.born \in Births(B)
<1> SUFFICES ASSUME NEW r \in Upserted(R, k, n + 1, w), NEW b \in B,
                    ~ r.acked, r.seq <= b.seq
             PROVE  r.born \in Births(B)
  OBVIOUS
<1>1. b.seq \in Nat /\ r.seq # n + 1
  BY RowFields
<1>2. PICK q \in R : Version(r, q)
  BY <1>1, UpsertedRows
<1> QED
  BY <1>2 DEF Version

(* The highest id of a batch is one of its ids.                             *)
LEMMA HighestIsMax ==
  ASSUME batch \subseteq Row, batch # {}
  PROVE  /\ \E b \in batch : Highest = b.seq
         /\ \A b \in batch : b.seq <= Highest
<1> DEFINE S == {r.seq : r \in batch}
           T == {MaxWrites - n : n \in S}
<1>1. S \subseteq 1..MaxWrites /\ S # {} /\ MaxWrites \in Nat
  BY EdgeAssumption, RowFields DEF EdgeAssumption, Writes
<1>2. T \subseteq Nat /\ T # {}
  BY <1>1
<1>3. PICK m \in T : \A t \in T : ~ (<<t, m>> \in OpToRel(<, Nat))
  BY <1>2, NatLessThanWellFounded, WFMin
<1>4. PICK x \in S : m = MaxWrites - x
  OBVIOUS
<1>5. \A n \in S : n <= x
  <2> SUFFICES ASSUME NEW n \in S PROVE n <= x
    OBVIOUS
  <2>1. MaxWrites - n \in T /\ MaxWrites - n \in Nat /\ m \in Nat
    BY <1>2
  <2>2. ~ (MaxWrites - n < m)
    BY <1>3, <2>1 DEF OpToRel
  <2> QED
    BY <1>1, <1>4, <2>2
<1>6. x \in S /\ \A r \in batch : r.seq <= x
  BY <1>5
<1>7. Highest \in S /\ \A r \in batch : r.seq <= Highest
  BY <1>6 DEF Highest
<1> QED
  BY <1>7

(* The empty buffer.                                                        *)
LEMMA EdgeInit ==
  ASSUME Init
  PROVE  EdgeInv
<1>1. Counters /\ InFlight
  <2>1. MaxWrites \in Nat /\ lastSeq = 0 /\ disk.lastSeq = 0 /\ writes = 0
    BY EdgeAssumption DEF Init, EdgeAssumption
  <2>2. batch = {} /\ success \in BOOLEAN /\ ~ success
    BY DEF Init
  <2> QED
    BY <2>1, <2>2 DEF Counters, InFlight
<1>2. rows = {} /\ disk.rows = {}
  BY DEF Init
<1>3. \A n, w, D : Sound({}, n, w, D)
  BY DEF Sound
<1> QED
  BY <1>1, <1>2, <1>3 DEF EdgeInv

(* Ingestion: one upsert, or two in one transaction.                        *)
LEMMA InsertStep ==
  ASSUME EdgeInv, NEW k \in Keys, Insert(k)
  PROVE  EdgeInv' /\ Births(rows) \subseteq Births(rows')
<1>1. /\ lastSeq \in Nat /\ writes \in Nat /\ lastSeq <= writes /\ writes < MaxWrites
      /\ lastSeq' = lastSeq + 1 /\ writes' = writes + 1 /\ MaxWrites \in Nat
      /\ rows' = Upserted(rows, k, lastSeq + 1, writes + 1)
      /\ UNCHANGED <<disk, batch, success, cloud, mocked>>
  BY EdgeAssumption DEF EdgeInv, Counters, Insert, sync, history, EdgeAssumption
<1>2. Counters'
  BY <1>1 DEF EdgeInv, Counters
<1>3. Delivered' = Delivered
  BY <1>1 DEF Delivered
<1>4. Sound(rows', lastSeq', writes', Delivered') /\ Births(rows) \subseteq Births(rows')
  BY <1>1, <1>3, UpsertSound DEF EdgeInv
<1>5. Sound(disk.rows, disk.lastSeq, writes', Delivered')
  BY <1>1, <1>3, SoundMonotone DEF EdgeInv
<1>6. InFlight'
  <2>1. rows \subseteq Row /\ batch \subseteq Row
    BY DEF EdgeInv, Sound, InFlight
  <2>4. lastSeq + 1 \in Writes /\ writes + 1 \in Writes
    BY <1>1 DEF Writes
  <2>2. \A r \in rows', b \in batch : ~ r.acked /\ r.seq <= b.seq => r.born \in Births(batch)
    BY <1>1, <2>4, <2>1, UpsertInFlight DEF EdgeInv, InFlight
  <2>3. \A b \in batch : b.seq <= lastSeq'
    BY <1>1, <2>1, RowFields DEF EdgeInv, InFlight
  <2> QED
    BY <1>1, <1>3, <2>1, <2>2, <2>3 DEF EdgeInv, InFlight
<1> QED
  BY <1>1, <1>2, <1>4, <1>5, <1>6 DEF EdgeInv

(* insert_batch keeps the invariant: two upserts.                           *)
LEMMA InsertBatchStep ==
  ASSUME EdgeInv, NEW k1 \in Keys, NEW k2 \in Keys, InsertBatch(k1, k2)
  PROVE  EdgeInv' /\ Births(rows) \subseteq Births(rows')
<1> DEFINE once == Upserted(rows, k1, lastSeq + 1, writes + 1)
<1>1. /\ lastSeq \in Nat /\ writes \in Nat /\ lastSeq <= writes /\ writes + 1 < MaxWrites
      /\ lastSeq' = lastSeq + 2 /\ writes' = writes + 2 /\ MaxWrites \in Nat
      /\ rows' = Upserted(once, k2, lastSeq + 2, writes + 2)
      /\ UNCHANGED <<disk, batch, success, cloud, mocked>>
  BY EdgeAssumption DEF EdgeInv, Counters, InsertBatch, sync, history, EdgeAssumption
<1>2. Counters'
  BY <1>1 DEF EdgeInv, Counters
<1>3. Delivered' = Delivered
  BY <1>1 DEF Delivered
<1>4. /\ Sound(once, lastSeq + 1, writes + 1, Delivered)
      /\ Births(rows) \subseteq Births(once)
  <2>1. writes < MaxWrites
    BY <1>1
  <2>2. Sound(rows, lastSeq, writes, Delivered)
    BY DEF EdgeInv
  <2> QED
    BY <1>1, <2>1, <2>2, UpsertSound
<1> HIDE DEF once
<1>5. /\ lastSeq + 1 \in Nat /\ writes + 1 \in Nat
      /\ lastSeq + 2 = (lastSeq + 1) + 1 /\ writes + 2 = (writes + 1) + 1
      /\ lastSeq + 1 <= writes + 1
      /\ lastSeq + 1 \in Writes /\ writes + 1 \in Writes
      /\ lastSeq + 2 \in Writes /\ writes + 2 \in Writes
  BY <1>1 DEF Writes
<1>6. /\ Sound(rows', lastSeq + 2, writes + 2, Delivered)
      /\ Births(once) \subseteq Births(rows')
  BY <1>1, <1>4, <1>5, UpsertSound
<1>7. Sound(disk.rows, disk.lastSeq, writes', Delivered')
  BY <1>1, <1>3, SoundMonotone DEF EdgeInv
<1>8. InFlight'
  <2>1. rows \subseteq Row /\ batch \subseteq Row /\ once \subseteq Row
    BY <1>4 DEF EdgeInv, Sound, InFlight
  <2>2. \A b \in batch : b.seq <= lastSeq /\ b.seq <= lastSeq + 1 /\ b.seq <= lastSeq'
    BY <1>1, <2>1, RowFields DEF EdgeInv, InFlight
  <2>3. \A r \in once, b \in batch : ~ r.acked /\ r.seq <= b.seq => r.born \in Births(batch)
    BY <1>1, <1>5, <2>1, <2>2, UpsertInFlight DEF EdgeInv, InFlight, once
  <2>4. \A r \in rows', b \in batch : ~ r.acked /\ r.seq <= b.seq => r.born \in Births(batch)
    BY <1>1, <1>5, <2>1, <2>2, <2>3, UpsertInFlight
  <2> QED
    BY <1>1, <1>3, <2>1, <2>2, <2>4 DEF EdgeInv, InFlight
<1> QED
  BY <1>1, <1>2, <1>3, <1>4, <1>6, <1>7, <1>8 DEF EdgeInv

(* A purge takes rows that were delivered, and no other.                    *)
LEMMA PurgeStep ==
  ASSUME EdgeInv, PurgeAcknowledged
  PROVE  EdgeInv' /\ Births(rows) \subseteq Births(rows') \cup Delivered
<1>1. /\ rows' = Unacknowledged
      /\ UNCHANGED <<lastSeq, writes, disk, batch, success, cloud, mocked>>
  BY DEF PurgeAcknowledged, sync, history
<1>2. rows' \subseteq rows /\ Delivered' = Delivered
  BY <1>1 DEF Unacknowledged, Delivered
<1>3. Sound(rows', lastSeq, writes, Delivered)
  BY <1>2 DEF EdgeInv, Sound
<1>4. InFlight' /\ Counters'
  BY <1>1, <1>2 DEF EdgeInv, InFlight, Counters
<1>5. Births(rows) \subseteq Births(rows') \cup Delivered
  BY <1>1 DEF EdgeInv, Sound, Births, Unacknowledged
<1> QED
  BY <1>1, <1>2, <1>3, <1>4, <1>5 DEF EdgeInv

(* The batch read is the oldest part of the backlog: ORDER BY and LIMIT.    *)
LEMMA SyncReadStep ==
  ASSUME EdgeInv, SyncRead
  PROVE  EdgeInv' /\ UNCHANGED rows
<1>1. /\ batch' = GetUnacknowledgedBatch /\ batch = {}
      /\ UNCHANGED <<rows, lastSeq, writes, disk, success, cloud, mocked>>
  BY DEF SyncRead, table, history
<1>2. rows \subseteq Row
  BY DEF EdgeInv, Sound
<1>3. batch' \subseteq Unacknowledged /\ batch' \subseteq rows
  BY <1>1 DEF GetUnacknowledgedBatch, Unacknowledged
<1>4. ASSUME NEW r \in rows, NEW b \in batch', ~ r.acked, r.seq <= b.seq
      PROVE  r.born \in Births(batch')
  <2> DEFINE Below(m) == {n \in PendingIds : n < m}
  <2>1. PendingIds \subseteq 1..MaxWrites
    BY <1>2, RowFields DEF PendingIds, Unacknowledged, Writes
  <2>2. IsFiniteSet(1..MaxWrites)
    BY FS_Interval, EdgeAssumption DEF EdgeAssumption
  <2>3. IsFiniteSet(Below(b.seq))
    BY <2>1, <2>2, FS_Subset
  <2>4. Below(r.seq) \subseteq Below(b.seq)
    <3>1. r.seq \in Nat /\ b.seq \in Nat /\ \A n \in PendingIds : n \in Nat
      BY <1>2, <1>3, <2>1, RowFields
    <3> QED
      BY <1>4, <3>1
  <2>5. /\ Cardinality(Below(r.seq)) <= Cardinality(Below(b.seq))
        /\ IsFiniteSet(Below(r.seq))
    BY <2>3, <2>4, FS_Subset
  <2>6. Cardinality(Below(r.seq)) \in Nat /\ Cardinality(Below(b.seq)) \in Nat
    BY <2>3, <2>5, FS_CardinalityType
  <2>7. Cardinality(Below(b.seq)) < BatchSize
    BY <1>1 DEF GetUnacknowledgedBatch
  <2>8. Cardinality(Below(r.seq)) < BatchSize
    BY <2>5, <2>6, <2>7, EdgeAssumption DEF EdgeAssumption
  <2>9. r \in batch'
    BY <1>1, <1>4, <2>8 DEF GetUnacknowledgedBatch, Unacknowledged
  <2> QED
    BY <2>9 DEF Births
<1>5. Delivered' = Delivered /\ ~ success
  BY <1>1 DEF Delivered, EdgeInv, InFlight
<1>6. InFlight'
  BY <1>1, <1>2, <1>3, <1>4, <1>5 DEF EdgeInv, InFlight, Sound
<1> QED
  BY <1>1, <1>5, <1>6 DEF EdgeInv, Counters

(* More may have been delivered; the table and its batch stay, or the batch *)
(* is dropped.                                                              *)
LEMMA DeliveredMore ==
  ASSUME EdgeInv, UNCHANGED <<rows, lastSeq, writes, disk>>, Delivered \subseteq Delivered',
         \/ batch' = {} /\ success' \in BOOLEAN /\ ~ success'
         \/ /\ batch' = batch /\ success' \in BOOLEAN
            /\ success' => batch # {} /\ Births(batch) \subseteq Delivered'
  PROVE  EdgeInv'
<1>1. writes \in Nat
  BY EdgeAssumption DEF EdgeInv, Counters, EdgeAssumption
<1>2. Sound(rows, lastSeq, writes, Delivered') /\ Sound(disk.rows, disk.lastSeq, writes, Delivered')
  BY <1>1, SoundMonotone DEF EdgeInv
<1>3. Counters'
  BY DEF EdgeInv, Counters
<1>4. InFlight'
  BY DEF EdgeInv, InFlight
<1> QED
  BY <1>2, <1>3, <1>4 DEF EdgeInv

(* What the cloud has after a transmission.                                 *)
LEMMA ArriveBirths ==
  ASSUME NEW R, R \subseteq Row, Arrive(R)
  PROVE  Births(cloud') = Births(cloud) \cup Births(R)
<1> DEFINE sent(r) == [born |-> r.born, content |-> r.content]
<1>1. cloud' = cloud \cup {sent(r) : r \in R} /\ \A r \in R : sent(r).born = r.born
  BY DEF Arrive
<1> HIDE DEF sent
<1> QED
  BY <1>1 DEF Births

(* The callback and the mock sender.                                        *)
LEMMA TransmitStep ==
  ASSUME EdgeInv, Transmit \/ TransmitFails \/ MockTransmit
  PROVE  EdgeInv' /\ Delivered \subseteq Delivered' /\ UNCHANGED <<rows, cut>>
<1>1. UNCHANGED <<rows, lastSeq, writes, disk, cut>>
  BY DEF Transmit, TransmitFails, MockTransmit, table
<1>2. batch \subseteq Row
  BY DEF EdgeInv, InFlight
<1>3. CASE Transmit
  <2>1. batch # {} /\ batch' = batch /\ success' = TRUE /\ Arrive(batch) /\ mocked' = mocked
    BY <1>3 DEF Transmit
  <2>2. Delivered' = Delivered \cup Births(batch)
    BY <1>2, <2>1, ArriveBirths DEF Delivered
  <2>3. success' \in BOOLEAN
    BY <2>1
  <2> QED
    BY <1>1, <2>1, <2>2, <2>3, DeliveredMore
<1>4. CASE TransmitFails
  <2>1. PICK R \in SUBSET batch : Arrive(R)
    BY <1>4 DEF TransmitFails
  <2>2. batch' = {} /\ success' = success /\ ~ success /\ mocked' = mocked
    BY <1>4 DEF TransmitFails
  <2>3. Delivered \subseteq Delivered'
    BY <1>2, <2>1, <2>2, ArriveBirths DEF Delivered
  <2>4. success' \in BOOLEAN /\ ~ success'
    BY <2>2 DEF EdgeInv, InFlight
  <2> QED
    BY <1>1, <2>2, <2>3, <2>4, DeliveredMore
<1>5. CASE MockTransmit
  <2>1. /\ batch # {} /\ batch' = batch /\ success' = TRUE /\ cloud' = cloud
        /\ mocked' = mocked \cup Births(batch)
    BY <1>5 DEF MockTransmit
  <2>2. Delivered' = Delivered \cup Births(batch)
    BY <2>1 DEF Delivered
  <2>3. success' \in BOOLEAN
    BY <2>1
  <2> QED
    BY <1>1, <2>1, <2>2, <2>3, DeliveredMore
<1> QED
  BY <1>3, <1>4, <1>5

(* Marking a row changes its flag only.                                     *)
LEMMA MarkedRow ==
  ASSUME NEW r \in Row
  PROVE  /\ [r EXCEPT !.acked = TRUE] \in Row
         /\ [r EXCEPT !.acked = TRUE].seq = r.seq
         /\ [r EXCEPT !.acked = TRUE].born = r.born
         /\ [r EXCEPT !.acked = TRUE].acked
BY DEF Row

(* acknowledge_batch: the rows it marks beyond those it has sent are none,  *)
(* for the batch in flight is the oldest part of the backlog.               *)
LEMMA AcknowledgeStep ==
  ASSUME EdgeInv, Acknowledge
  PROVE  EdgeInv' /\ Births(rows) \subseteq Births(rows')
<1> DEFINE m(r) == [r EXCEPT !.acked = TRUE]
<1>1. /\ success
      /\ rows' = {IF r.seq <= Highest THEN m(r) ELSE r : r \in rows}
      /\ batch' = {} /\ success' = FALSE
      /\ UNCHANGED <<lastSeq, writes, disk, cloud, mocked>>
  BY DEF Acknowledge, history
<1>2. rows \subseteq Row /\ batch \subseteq Row /\ batch # {} /\ Births(batch) \subseteq Delivered
  BY <1>1 DEF EdgeInv, InFlight, Sound
<1>3. (\E b \in batch : Highest = b.seq) /\ Highest \in Nat
  BY <1>2, HighestIsMax, RowFields
<1>4. \A r \in rows : /\ r.seq \in Nat /\ r.born \in Nat
                      /\ m(r) \in Row /\ m(r).seq = r.seq /\ m(r).born = r.born /\ m(r).acked
  BY <1>2, RowFields, MarkedRow
<1> HIDE DEF m
<1>5. \A u \in rows' : \E r \in rows :
        /\ u \in Row /\ u.seq = r.seq /\ u.born = r.born
        /\ u.acked <=> r.acked \/ r.seq <= Highest
  BY <1>1, <1>2, <1>4
<1>6. \A r \in rows : \E u \in rows' : u.born = r.born
  BY <1>1, <1>4
<1>7. \A r \in rows : r.seq <= Highest => r.born \in Delivered
  <2> SUFFICES ASSUME NEW r \in rows, r.seq <= Highest PROVE r.born \in Delivered
    OBVIOUS
  <2>1. CASE r.acked
    BY <2>1 DEF EdgeInv, Sound
  <2>2. CASE ~ r.acked
    BY <1>2, <1>3, <2>2 DEF EdgeInv, InFlight
  <2> QED
    BY <2>1, <2>2
<1>8. Sound(rows', lastSeq, writes, Delivered)
  <2>1. rows' \subseteq Row /\ \A r \in rows' : r.seq <= lastSeq /\ r.born <= writes
    BY <1>5 DEF EdgeInv, Sound
  <2>2. \A r, q \in rows' : r.seq < q.seq <=> r.born < q.born
    BY <1>5 DEF EdgeInv, Sound
  <2>3. \A r, q \in rows' : r.seq <= q.seq /\ q.acked => r.acked
    <3> SUFFICES ASSUME NEW r \in rows', NEW q \in rows', r.seq <= q.seq, q.acked
                 PROVE  r.acked
      OBVIOUS
    <3>1. PICK s \in rows : s.seq = r.seq /\ (r.acked <=> s.acked \/ s.seq <= Highest)
      BY <1>5
    <3>2. PICK p \in rows : p.seq = q.seq /\ (p.acked \/ p.seq <= Highest)
      BY <1>5
    <3>3. p.acked => s.acked
      BY <3>1, <3>2 DEF EdgeInv, Sound
    <3>4. p.seq <= Highest => s.seq <= Highest
      BY <1>3, <1>4, <3>1, <3>2
    <3> QED
      BY <3>1, <3>2, <3>3, <3>4
  <2>4. \A r \in rows' : r.acked => r.born \in Delivered
    BY <1>5, <1>7 DEF EdgeInv, Sound
  <2> QED
    BY <2>1, <2>2, <2>3, <2>4 DEF Sound
<1>9. Delivered' = Delivered
  BY <1>1 DEF Delivered
<1>10. InFlight' /\ Counters'
  <2>1. success' \in BOOLEAN /\ ~ success'
    BY <1>1
  <2> QED
    BY <1>1, <2>1 DEF EdgeInv, InFlight, Counters
<1>11. Births(rows) \subseteq Births(rows')
  BY <1>6 DEF Births
<1> QED
  BY <1>1, <1>8, <1>9, <1>10, <1>11 DEF EdgeInv

(* The link, the callback, the storage, restarts and power cuts.            *)
LEMMA SurroundingsStep ==
  ASSUME EdgeInv, WanFlips \/ SetCallback \/ Checkpoint \/ Restart \/ PowerCut \/ UNCHANGED vars
  PROVE  EdgeInv' /\ Births(rows) \subseteq Births(rows') \cup cut'
<1>1. UNCHANGED <<writes, cloud, mocked>> /\ Delivered' = Delivered
  BY DEF WanFlips, SetCallback, Checkpoint, Restart, PowerCut, vars, history, Delivered
<1>2. CASE WanFlips \/ SetCallback \/ UNCHANGED vars
  <2>1. UNCHANGED <<rows, lastSeq, disk, batch, success>>
    BY <1>2 DEF WanFlips, SetCallback, vars, table, sync
  <2> QED
    BY <1>1, <2>1 DEF EdgeInv, Counters, InFlight
<1>3. CASE Checkpoint
  <2>1. /\ UNCHANGED <<rows, lastSeq, batch, success>>
        /\ disk'.rows = rows /\ disk'.lastSeq = lastSeq
    BY <1>3 DEF Checkpoint, table, sync
  <2>2. Counters' /\ InFlight'
    BY <1>1, <2>1, EdgeAssumption DEF EdgeInv, Counters, InFlight, EdgeAssumption
  <2> QED
    BY <1>1, <2>1, <2>2 DEF EdgeInv
<1>4. CASE Restart \/ PowerCut
  <2>1. batch' = {} /\ success' = FALSE /\ disk' = disk
    BY <1>4 DEF Restart, PowerCut, Reboot
  <2>2. success' \in BOOLEAN /\ ~ success'
    BY <2>1
  <2>3. InFlight'
    BY <2>1, <2>2 DEF InFlight
  <2>4. CASE Restart
    <3>1. UNCHANGED <<rows, lastSeq>>
      BY <2>4 DEF Restart, table
    <3> QED
      BY <1>1, <2>1, <2>3, <3>1 DEF EdgeInv, Counters
  <2>5. CASE PowerCut
    <3>1. rows' = disk.rows /\ lastSeq' = disk.lastSeq
      BY <2>5 DEF PowerCut
    <3>2. cut' = cut \cup (Births(rows) \ Births(disk.rows))
      BY <2>5 DEF PowerCut
    <3>3. Counters'
      BY <1>1, <2>1, <3>1, EdgeAssumption DEF EdgeInv, Counters, EdgeAssumption
    <3> QED
      BY <1>1, <2>1, <2>3, <3>1, <3>2, <3>3 DEF EdgeInv
  <2> QED
    BY <1>4, <2>4, <2>5
<1> QED
  BY <1>2, <1>3, <1>4

(* Every step keeps the invariant and whatever was ever accepted.           *)
LEMMA EdgeStep ==
  ASSUME EdgeInv, [Next]_vars
  PROVE  EdgeInv' /\ Held \subseteq Held'
<1> USE DEF Held, Delivered
<1>1. ASSUME NEW k \in Keys, Insert(k) PROVE EdgeInv' /\ Held \subseteq Held'
  BY <1>1, InsertStep DEF Insert, history
<1>2. ASSUME NEW k1 \in Keys, NEW k2 \in Keys, InsertBatch(k1, k2)
      PROVE  EdgeInv' /\ Held \subseteq Held'
  BY <1>2, InsertBatchStep DEF InsertBatch, history
<1>3. ASSUME PurgeAcknowledged PROVE EdgeInv' /\ Held \subseteq Held'
  BY <1>3, PurgeStep DEF PurgeAcknowledged, history
<1>4. ASSUME SyncRead PROVE EdgeInv' /\ Held \subseteq Held'
  BY <1>4, SyncReadStep DEF SyncRead, history
<1>5. ASSUME Transmit \/ TransmitFails \/ MockTransmit PROVE EdgeInv' /\ Held \subseteq Held'
  BY <1>5, TransmitStep
<1>6. ASSUME Acknowledge PROVE EdgeInv' /\ Held \subseteq Held'
  BY <1>6, AcknowledgeStep DEF Acknowledge, history
<1>7. ASSUME WanFlips \/ SetCallback \/ Checkpoint \/ Restart \/ PowerCut \/ UNCHANGED vars
      PROVE  EdgeInv' /\ Held \subseteq Held'
  <2>1. cloud' = cloud /\ mocked' = mocked /\ cut \subseteq cut'
    BY <1>7 DEF WanFlips, SetCallback, Checkpoint, Restart, PowerCut, vars, history
  <2> QED
    BY <1>7, <2>1, SurroundingsStep
<1> QED
  BY <1>1, <1>2, <1>3, <1>4, <1>5, <1>6, <1>7 DEF Next

(* EdgeInv, the inductive invariant of the buffer, holds in every state of  *)
(* the gateway, whatever is inserted, synchronised, purged, restarted or    *)
(* cut off.                                                                 *)
THEOREM EdgeInvariant == Spec => []EdgeInv
<1>1. Init => EdgeInv
  BY EdgeInit
<1>2. EdgeInv /\ [Next]_vars => EdgeInv'
  BY EdgeStep
<1> QED
  BY <1>1, <1>2, PTL DEF Spec

(* acknowledge_batch's "WHERE sequence_id <= ?" marks delivered rows only:  *)
(* no unacknowledged row lies below an acknowledged one, and every          *)
(* acknowledged row reached the cloud or the mock sender.                   *)
THEOREM AcknowledgementsHold == Spec => [](AcknowledgedPrefix /\ AcknowledgedArrived)
<1>1. EdgeInv => AcknowledgedPrefix /\ AcknowledgedArrived
  BY DEF EdgeInv, Sound, AcknowledgedPrefix, AcknowledgedArrived, Delivered
<1> QED
  BY <1>1, EdgeInvariant, PTL

(* The order of ids is the order of acceptance, through purges, restarts    *)
(* and power cuts, in the table and in what the storage would come back     *)
(* with.                                                                    *)
THEOREM SequenceHolds == Spec => []SequenceAhead
<1>1. EdgeInv => SequenceAhead
  BY DEF EdgeInv, Sound, SequenceAhead
<1> QED
  BY <1>1, EdgeInvariant, PTL

(* Zero data loss: an accepted reading is in the table, was delivered, or   *)
(* was taken by a power cut before the storage had it.                      *)
THEOREM NothingLost == Spec => NothingVanishes
<1>1. EdgeInv /\ [Next]_vars => [Held \subseteq Held']_vars
  BY EdgeStep
<1> QED
  BY <1>1, EdgeInvariant, PTL DEF Spec, NothingVanishes

-----------------------------------------------------------------------------
(* Sorting.                                                                 *)

(* s lists the numbers of S in ascending order.                             *)
Lists(s, S) ==
  /\ s \in Seq(S)
  /\ \A x \in S : \E i \in DOMAIN s : s[i] = x
  /\ \A i, j \in DOMAIN s : i < j => s[i] < s[j]

(* A finite set of numbers has a list.                                      *)
LEMMA ListExists ==
  ASSUME NEW n \in Nat, NEW S \in SUBSET (1..n)
  PROVE  \E s : Lists(s, S)
<1> DEFINE P == {k \in Nat : \A T \in SUBSET (1..k) : \E s : Lists(s, T)}
<1>1. 0 \in P
  <2> SUFFICES ASSUME NEW T \in SUBSET (1..0) PROVE \E s : Lists(s, T)
    OBVIOUS
  <2>1. T = {}
    OBVIOUS
  <2>2. Lists(<<>>, {})
    BY DEF Lists
  <2> QED BY <2>1, <2>2
<1>2. ASSUME NEW k \in Nat, k \in P PROVE k + 1 \in P
  <2> SUFFICES ASSUME NEW T \in SUBSET (1..k + 1) PROVE \E s : Lists(s, T)
    OBVIOUS
  <2>1. CASE T \subseteq 1..k
    BY <1>2, <2>1
  <2>2. CASE ~ (T \subseteq 1..k)
    <3>1. k + 1 \in T /\ T \ {k + 1} \in SUBSET (1..k)
      BY <2>2
    <3>2. PICK s : Lists(s, T \ {k + 1})
      BY <1>2, <3>1
    <3> DEFINE t == Append(s, k + 1)
    <3>3. /\ s \in Seq(T) /\ t \in Seq(T) /\ Len(t) = Len(s) + 1 /\ Len(s) \in Nat
          /\ t[Len(s) + 1] = k + 1 /\ \A i \in 1..Len(s) : t[i] = s[i]
      BY <3>1, <3>2 DEF Lists
    <3>4. DOMAIN s = 1..Len(s) /\ DOMAIN t = 1..Len(s) + 1
      BY <3>3
    <3>5. \A i \in 1..Len(s) : s[i] \in 1..k
      <4>1. s \in Seq(T \ {k + 1})
        BY <3>2 DEF Lists
      <4>2. \A i \in 1..Len(s) : s[i] \in T \ {k + 1}
        BY <4>1
      <4> QED BY <3>1, <4>2
    <3>6. \A i, j \in DOMAIN s : i < j => s[i] < s[j]
      BY <3>2 DEF Lists
    <3>7. \A x \in T : x = k + 1 \/ \E i \in 1..Len(s) : s[i] = x
      BY <3>2, <3>4 DEF Lists
    <3> HIDE DEF t
    <3>8. \A x \in T : \E i \in DOMAIN t : t[i] = x
      BY <3>3, <3>4, <3>7
    <3>9. ASSUME NEW i \in DOMAIN t, NEW j \in DOMAIN t, i < j PROVE t[i] < t[j]
      <4>1. i \in 1..Len(s) /\ t[i] = s[i] /\ s[i] \in 1..k
        BY <3>3, <3>4, <3>5, <3>9
      <4>2. CASE j = Len(s) + 1
        BY <3>3, <4>1, <4>2
      <4>3. CASE j # Len(s) + 1
        BY <3>3, <3>4, <3>6, <3>9, <4>1, <4>3
      <4> QED BY <4>2, <4>3
    <3>10. Lists(t, T)
      BY <3>3, <3>8, <3>9 DEF Lists
    <3> QED BY <3>10
  <2> QED BY <2>1, <2>2
<1>3. Nat \subseteq P
  <2> HIDE DEF P
  <2> QED BY <1>1, <1>2, NumbersIn
<1> QED BY <1>3

(* A list is as long as its set is large.                                   *)
LEMMA ListSize ==
  ASSUME NEW S \in SUBSET Nat, NEW s, Lists(s, S)
  PROVE  /\ IsFiniteSet(S) /\ Cardinality(S) = Len(s) /\ Len(s) \in Nat
         /\ s \in [1..Cardinality(S) -> S]
<1>1. Len(s) \in Nat /\ DOMAIN s = 1..Len(s) /\ s \in [1..Len(s) -> S]
  BY DEF Lists
<1>2. \A i, j \in 1..Len(s) : s[i] = s[j] => i = j
  <2> SUFFICES ASSUME NEW i \in 1..Len(s), NEW j \in 1..Len(s), i < j PROVE s[i] # s[j]
    OBVIOUS
  <2>1. s[i] < s[j] /\ s[i] \in Nat /\ s[j] \in Nat
    BY <1>1 DEF Lists
  <2> QED BY <2>1
<1>3. s \in Bijection(1..Len(s), S)
  <2>1. \A x \in S : \E i \in 1..Len(s) : s[i] = x
    BY <1>1 DEF Lists
  <2> QED BY <1>1, <1>2, <2>1 DEF Bijection, Injection, Surjection, IsInjective
<1>4. IsFiniteSet(1..Len(s)) /\ Cardinality(1..Len(s)) = Len(s)
  BY <1>1, FS_Interval
<1>5. IsFiniteSet(S) /\ Cardinality(S) = Len(s)
  BY <1>3, <1>4, FS_Bijection DEF ExistsBijection
<1> QED BY <1>1, <1>5

(* A set has one list.                                                      *)
LEMMA ListUnique ==
  ASSUME NEW S \in SUBSET Nat, NEW s, NEW t, Lists(s, S), Lists(t, S)
  PROVE  s = t
<1>1. /\ Len(s) = Len(t) /\ Len(s) \in Nat /\ DOMAIN s = 1..Len(s) /\ DOMAIN t = 1..Len(s)
      /\ s \in [1..Len(s) -> S] /\ t \in [1..Len(s) -> S]
  BY ListSize DEF Lists
<1>2. /\ \A x \in S : \E i \in 1..Len(s) : s[i] = x
      /\ \A x \in S : \E i \in 1..Len(s) : t[i] = x
      /\ \A i, j \in 1..Len(s) : i < j => s[i] < s[j]
      /\ \A i, j \in 1..Len(s) : i < j => t[i] < t[j]
  BY <1>1 DEF Lists
<1> DEFINE Bad == {i \in 1..Len(s) : s[i] # t[i]}
<1> SUFFICES ASSUME Bad # {} PROVE FALSE
  BY <1>1
<1>3. PICK m \in Bad : \A k \in Bad : ~ (<<k, m>> \in OpToRel(<, Nat))
  <2>1. Bad \subseteq Nat
    BY <1>1
  <2> HIDE DEF Bad
  <2> QED BY <2>1, NatLessThanWellFounded, WFMin
<1>4. \A k \in 1..Len(s) : k < m => s[k] = t[k]
  <2> SUFFICES ASSUME NEW k \in 1..Len(s), k < m, s[k] # t[k] PROVE FALSE
    OBVIOUS
  <2>1. k \in Bad /\ k \in Nat /\ m \in Nat
    BY <1>1
  <2>2. <<k, m>> \in OpToRel(<, Nat)
    BY <2>1 DEF OpToRel
  <2> QED BY <1>3, <2>1, <2>2
<1>5. m \in 1..Len(s) /\ s[m] # t[m] /\ s[m] \in Nat /\ t[m] \in Nat
  BY <1>1
<1>6. PICK a \in 1..Len(s) : t[a] = s[m]
  BY <1>1, <1>2
<1>7. PICK b \in 1..Len(s) : s[b] = t[m]
  BY <1>1, <1>2
<1>8. ~ (a < m)
  BY <1>2, <1>4, <1>5, <1>6
<1>9. ~ (b < m)
  BY <1>2, <1>4, <1>5, <1>7
<1>10. t[m] < s[m]
  BY <1>1, <1>2, <1>5, <1>6, <1>8
<1>11. s[m] < t[m]
  BY <1>1, <1>2, <1>5, <1>7, <1>9
<1> QED BY <1>5, <1>10, <1>11

(* InOrder lists the set.                                                   *)
LEMMA InOrderLists ==
  ASSUME NEW n \in Nat, NEW S \in SUBSET (1..n)
  PROVE  Lists(InOrder(S), S)
<1> DEFINE Sorts(s) == \A i, j \in DOMAIN s : i < j => s[i] < s[j]
<1>1. PICK s : Lists(s, S)
  BY ListExists
<1>2. S \in SUBSET Nat
  OBVIOUS
<1>3. s \in [1..Cardinality(S) -> S] /\ Sorts(s)
  BY <1>1, <1>2, ListSize DEF Lists
<1>4. InOrder(S) \in [1..Cardinality(S) -> S] /\ Sorts(InOrder(S))
  <2>1. InOrder(S) = CHOOSE q \in [1..Cardinality(S) -> S] : Sorts(q)
    BY DEF InOrder
  <2> HIDE DEF Sorts
  <2> QED BY <1>3, <2>1
<1> DEFINE f == InOrder(S)
           c == Cardinality(S)
<1>5. IsFiniteSet(S) /\ c \in Nat
  BY <1>2, <1>1, ListSize
<1> HIDE DEF f, c
<1>6. f \in [1..c -> S] /\ DOMAIN f = 1..c /\ \A i, j \in 1..c : i < j => f[i] < f[j]
  BY <1>4 DEF f, c
<1>7. \A i, j \in 1..c : f[i] = f[j] => i = j
  <2> SUFFICES ASSUME NEW i \in 1..c, NEW j \in 1..c, i < j PROVE f[i] # f[j]
    BY <1>5
  <2>1. f[i] < f[j] /\ f[i] \in Nat /\ f[j] \in Nat
    BY <1>2, <1>6
  <2> QED BY <2>1
<1>8. f \in Injection(1..c, S)
  BY <1>6, <1>7 DEF Injection, IsInjective
<1>9. Cardinality(1..c) = c
  BY <1>5, FS_Interval
<1>10. f \in Surjection(1..c, S)
  BY <1>5, <1>8, <1>9, FS_Injection DEF c
<1>11. \A x \in S : \E i \in DOMAIN f : f[i] = x
  BY <1>6, <1>10 DEF Surjection
<1>12. f \in Seq(S)
  BY <1>5, <1>6
<1> QED BY <1>6, <1>11, <1>12 DEF Lists, f

(* The list of two sets, one behind the other.                              *)
LEMMA ListsJoined ==
  ASSUME NEW A \in SUBSET Nat, NEW B \in SUBSET Nat, \A a \in A, b \in B : a < b,
         NEW s, NEW t, Lists(s, A), Lists(t, B)
  PROVE  Lists(s \o t, A \cup B)
<1> DEFINE S == A \cup B
           u == s \o t
<1>1. /\ s \in Seq(A) /\ t \in Seq(B) /\ s \in Seq(S) /\ t \in Seq(S)
      /\ Len(s) \in Nat /\ Len(t) \in Nat /\ DOMAIN s = 1..Len(s) /\ DOMAIN t = 1..Len(t)
  BY DEF Lists
<1>2. /\ u \in Seq(S) /\ Len(u) = Len(s) + Len(t) /\ DOMAIN u = 1..Len(s) + Len(t)
      /\ \A i \in 1..Len(s) + Len(t) : u[i] = IF i <= Len(s) THEN s[i] ELSE t[i - Len(s)]
  BY <1>1, ConcatProperties
<1> HIDE DEF u
<1>3. \A i \in 1..Len(s) : i \in DOMAIN u /\ u[i] = s[i] /\ s[i] \in A
  BY <1>1, <1>2
<1>4. \A i \in 1..Len(t) : Len(s) + i \in DOMAIN u /\ u[Len(s) + i] = t[i] /\ t[i] \in B
  <2> SUFFICES ASSUME NEW i \in 1..Len(t)
               PROVE  Len(s) + i \in DOMAIN u /\ u[Len(s) + i] = t[i] /\ t[i] \in B
    OBVIOUS
  <2>1. Len(s) + i \in 1..Len(s) + Len(t) /\ ~ (Len(s) + i <= Len(s)) /\ (Len(s) + i) - Len(s) = i
    BY <1>1
  <2> QED BY <1>1, <1>2, <2>1
<1>5. \A x \in S : \E i \in DOMAIN u : u[i] = x
  <2>1. ASSUME NEW x \in A PROVE \E i \in DOMAIN u : u[i] = x
    BY <1>1, <1>3 DEF Lists
  <2>2. ASSUME NEW x \in B PROVE \E i \in DOMAIN u : u[i] = x
    <3>1. PICK i \in 1..Len(t) : t[i] = x
      BY <1>1 DEF Lists
    <3> QED BY <1>4, <3>1
  <2> QED BY <2>1, <2>2
<1>6. ASSUME NEW i \in DOMAIN u, NEW j \in DOMAIN u, i < j PROVE u[i] < u[j]
  <2>1. CASE j <= Len(s)
    <3>1. i \in 1..Len(s) /\ j \in 1..Len(s)
      BY <1>1, <1>2, <1>6, <2>1
    <3> QED BY <1>1, <1>3, <1>6, <3>1 DEF Lists
  <2>2. CASE i <= Len(s) /\ ~ (j <= Len(s))
    <3>1. i \in 1..Len(s) /\ j - Len(s) \in 1..Len(t) /\ Len(s) + (j - Len(s)) = j
      BY <1>1, <1>2, <2>2
    <3> QED BY <1>3, <1>4, <3>1
  <2>3. CASE ~ (i <= Len(s))
    <3>1. /\ i - Len(s) \in 1..Len(t) /\ Len(s) + (i - Len(s)) = i
          /\ j - Len(s) \in 1..Len(t) /\ Len(s) + (j - Len(s)) = j
          /\ i - Len(s) < j - Len(s)
      <4> DEFINE a == Len(s)
                 b == Len(t)
      <4>1. /\ a \in Nat /\ b \in Nat /\ i \in 1..a + b /\ j \in 1..a + b
            /\ i < j /\ ~ (i <= a)
        BY <1>1, <1>2, <1>6, <2>3
      <4> HIDE DEF a, b
      <4>2. /\ i - a \in 1..b /\ a + (i - a) = i
            /\ j - a \in 1..b /\ a + (j - a) = j
            /\ i - a < j - a
        BY <4>1
      <4> QED BY <4>2 DEF a, b
    <3>2. u[i] = t[i - Len(s)] /\ u[j] = t[j - Len(s)]
      BY <1>4, <3>1
    <3> QED BY <1>1, <3>1, <3>2 DEF Lists
  <2> QED BY <2>1, <2>2, <2>3
<1> QED BY <1>2, <1>5, <1>6 DEF Lists, u

(* What comes behind in order is sorted behind.                             *)
LEMMA InOrderSplit ==
  ASSUME NEW n \in Nat, NEW A \in SUBSET (1..n), NEW B \in SUBSET (1..n),
         \A a \in A, b \in B : a < b
  PROVE  InOrder(A \cup B) = InOrder(A) \o InOrder(B)
<1>1. Lists(InOrder(A), A) /\ Lists(InOrder(B), B)
  BY InOrderLists
<1>2. A \cup B \in SUBSET (1..n)
  OBVIOUS
<1>3. Lists(InOrder(A \cup B), A \cup B)
  BY <1>2, InOrderLists
<1>4. A \in SUBSET Nat /\ B \in SUBSET Nat /\ A \cup B \in SUBSET Nat
  OBVIOUS
<1>5. Lists(InOrder(A) \o InOrder(B), A \cup B)
  BY <1>1, <1>4, ListsJoined
<1> QED BY <1>3, <1>4, <1>5, ListUnique

(* The list of a set is over the set, and empty if and only if the set is.  *)
LEMMA InOrderEmpty ==
  ASSUME NEW n \in Nat, NEW S \in SUBSET (1..n)
  PROVE  /\ InOrder(S) \in Seq(S)
         /\ S = {} => InOrder(S) = <<>>
         /\ S # {} => Len(InOrder(S)) > 0
<1>1. Lists(InOrder(S), S)
  BY InOrderLists
<1>2. InOrder(S) \in Seq(S) /\ Len(InOrder(S)) \in Nat /\ DOMAIN InOrder(S) = 1..Len(InOrder(S))
  BY <1>1 DEF Lists
<1>3. ASSUME S = {} PROVE InOrder(S) = <<>>
  BY <1>2, <1>3, EmptySeq
<1>4. ASSUME S # {} PROVE Len(InOrder(S)) > 0
  <2>1. PICK x \in S : TRUE
    BY <1>4
  <2>2. \E i \in DOMAIN InOrder(S) : InOrder(S)[i] = x
    BY <1>1 DEF Lists
  <2> QED BY <1>2, <2>2
<1> QED BY <1>2, <1>3, <1>4

-----------------------------------------------------------------------------
(* What is handed over.                                                     *)

(* What was handed over.                                                    *)
Gone == {b \in Writes : Contains(handed, b)}

(* What relates the table, its image on disk and the readings handed over:  *)
(* nothing is handed over that was not inserted; an acknowledged row, of    *)
(* the table or of the image, was handed over, and so was the batch once    *)
(* the transmission reported success; the rows of the batch are still in    *)
(* the table and still unacknowledged; what the image holds the table holds *)
(* or was handed over; and what the table has beyond the image is younger.  *)
FifoInv ==
  /\ \A b \in Gone : b <= writes
  /\ \A r \in rows : r.acked => r.born \in Gone
  /\ \A r \in disk.rows : r.acked => r.born \in Gone
  /\ success => Births(batch) \subseteq Gone
  /\ \A b \in batch : \E r \in rows : r.seq = b.seq /\ r.born = b.born /\ ~ r.acked
  /\ Births(disk.rows) \subseteq Births(rows) \cup Gone
  /\ \A b \in Births(rows) \ Births(disk.rows), d \in Births(disk.rows) : d < b

(* The readings of a table are numbered by their insertions.                *)
LEMMA BirthsType ==
  ASSUME NEW R \in SUBSET Row
  PROVE  Births(R) \subseteq Writes /\ Writes = 1..MaxWrites /\ MaxWrites \in Nat
BY EdgeAssumption DEF Births, Row, Writes, EdgeAssumption

(* HandOver hands over what of the batch was not, in order.                 *)
LEMMA HandOverIs ==
  ASSUME handed \in Seq(Writes), batch \subseteq Row, HandOver
  PROVE  /\ handed' = handed \o InOrder(Births(batch) \ Gone)
         /\ handed' \in Seq(Writes)
         /\ Gone' = Gone \cup Births(batch)
<1> DEFINE A == Births(batch) \ Gone
           s == InOrder(A)
<1>1. Births(batch) \subseteq Writes /\ A \in SUBSET (1..MaxWrites) /\ MaxWrites \in Nat
  BY BirthsType
<1>2. A = {b \in Births(batch) : ~ Contains(handed, b)}
  BY <1>1 DEF Gone
<1>3. handed' = handed \o s
  BY <1>2 DEF HandOver
<1>4. Lists(s, A)
  BY <1>1, InOrderLists
<1> HIDE DEF s
<1> HIDE DEF A
<1>5. s \in Seq(A) /\ s \in Seq(Writes) /\ Len(s) \in Nat /\ DOMAIN s = 1..Len(s)
  <2>1. s \in Seq(A)
    BY <1>4 DEF Lists
  <2>2. A \subseteq Writes
    BY <1>1 DEF A
  <2> QED BY <2>1, <2>2
<1>6. /\ handed' \in Seq(Writes) /\ Len(handed') = Len(handed) + Len(s) /\ Len(handed) \in Nat
      /\ \A i \in 1..Len(handed) + Len(s) :
           handed'[i] = IF i <= Len(handed) THEN handed[i] ELSE s[i - Len(handed)]
  BY <1>3, <1>5, ConcatProperties
<1>7. \A i \in 1..Len(s) : s[i] \in A
  BY <1>5
<1>8. \A a \in A : \E i \in 1..Len(s) : s[i] = a
  BY <1>4, <1>5 DEF Lists
<1>9. ASSUME NEW b \in Writes PROVE Contains(handed', b) <=> Contains(handed, b) \/ b \in A
  <2>1. ASSUME NEW i \in 1..Len(handed), handed[i] = b PROVE Contains(handed', b)
    <3>1. i \in 1..Len(handed') /\ handed'[i] = b
      BY <1>5, <1>6, <2>1
    <3> QED BY <3>1 DEF Contains
  <2>2. ASSUME NEW i \in 1..Len(s), s[i] = b PROVE Contains(handed', b)
    <3>1. /\ Len(handed) + i \in 1..Len(handed) + Len(s) /\ ~ (Len(handed) + i <= Len(handed))
          /\ (Len(handed) + i) - Len(handed) = i
      BY <1>5, <1>6
    <3>2. handed'[Len(handed) + i] = b
      BY <1>6, <2>2, <3>1
    <3> QED BY <1>6, <3>1, <3>2 DEF Contains
  <2>3. ASSUME NEW i \in 1..Len(handed'), handed'[i] = b PROVE Contains(handed, b) \/ b \in A
    <3>1. CASE i <= Len(handed)
      BY <1>6, <2>3, <3>1 DEF Contains
    <3>2. CASE ~ (i <= Len(handed))
      <4>1. i - Len(handed) \in 1..Len(s) /\ handed'[i] = s[i - Len(handed)]
        BY <1>5, <1>6, <2>3, <3>2
      <4> QED BY <1>7, <2>3, <4>1
    <3> QED BY <3>1, <3>2
  <2> QED BY <1>8, <2>1, <2>2, <2>3 DEF Contains
<1>10. Gone' = Gone \cup A
  BY <1>1, <1>9 DEF Gone, A
<1> QED BY <1>3, <1>6, <1>10 DEF A, s

-----------------------------------------------------------------------------

(* What an insertion leaves: the rows that were there and new ones that are *)
(* younger than all.                                                        *)
Grown ==
  /\ writes' \in Writes /\ writes < writes' 
  /\ \A r \in rows' : (\E q \in rows : Version(r, q)) \/ (r.born > writes /\ r.born <= writes' /\ ~ r.acked)
  /\ \A q \in rows : \E r \in rows' : Version(r, q)
  /\ UNCHANGED <<disk, batch, success, handed>>

(* insert and insert_batch let the table grow.                              *)
LEMMA InsertGrows ==
  ASSUME EdgeInv, NEW k1 \in Keys, NEW k2 \in Keys, Insert(k1) \/ InsertBatch(k1, k2)
  PROVE  Grown
<1>1. /\ rows \subseteq Row /\ lastSeq \in Nat /\ writes \in Nat /\ lastSeq <= writes
      /\ MaxWrites \in Nat
  BY EdgeAssumption DEF EdgeInv, Counters, Sound, EdgeAssumption
<1>2. CASE Insert(k1)
  <2>1. /\ writes < MaxWrites /\ writes' = writes + 1
        /\ rows' = Upserted(rows, k1, lastSeq + 1, writes + 1)
        /\ UNCHANGED <<disk, batch, success, handed>>
    BY <1>2 DEF Insert, sync, history
  <2>2. lastSeq + 1 \in Writes /\ writes + 1 \in Writes
    BY <1>1, <2>1 DEF Writes
  <2>3. /\ \A r \in rows' : (\E q \in rows : Version(r, q)) \/ (r.seq = lastSeq + 1 /\ r.born = writes + 1 /\ ~ r.acked)
        /\ \A q \in rows : \E r \in rows' : Version(r, q)
    BY <1>1, <2>1, <2>2, UpsertedRows
  <2> QED BY <1>1, <2>1, <2>2, <2>3 DEF Grown
<1>3. CASE InsertBatch(k1, k2)
  <2> DEFINE once == Upserted(rows, k1, lastSeq + 1, writes + 1)
  <2>1. /\ writes + 1 < MaxWrites /\ writes' = writes + 2
        /\ rows' = Upserted(once, k2, lastSeq + 2, writes + 2)
        /\ UNCHANGED <<disk, batch, success, handed>>
    BY <1>3 DEF InsertBatch, sync, history
  <2>2. /\ lastSeq + 1 \in Writes /\ writes + 1 \in Writes
        /\ lastSeq + 2 \in Writes /\ writes + 2 \in Writes
    BY <1>1, <2>1 DEF Writes
  <2>3. /\ once \subseteq Row
        /\ \A r \in once : (\E q \in rows : Version(r, q)) \/ (r.seq = lastSeq + 1 /\ r.born = writes + 1 /\ ~ r.acked)
        /\ \A q \in rows : \E r \in once : Version(r, q)
    BY <1>1, <2>2, UpsertedRows
  <2> HIDE DEF once
  <2>4. /\ \A r \in rows' : (\E q \in once : Version(r, q)) \/ (r.seq = lastSeq + 2 /\ r.born = writes + 2 /\ ~ r.acked)
        /\ \A q \in once : \E r \in rows' : Version(r, q)
    BY <2>1, <2>2, <2>3, UpsertedRows
  <2>5. ASSUME NEW r \in rows'
        PROVE (\E q \in rows : Version(r, q)) \/ (r.born > writes /\ r.born <= writes' /\ ~ r.acked)
    <3>1. CASE r.born = writes + 2 /\ ~ r.acked
      BY <1>1, <2>1, <3>1
    <3>2. CASE \E q \in once : Version(r, q)
      <4>1. PICK q \in once : Version(r, q)
        BY <3>2
      <4>2. CASE q.born = writes + 1 /\ ~ q.acked
        <5>1. r.born = writes + 1 /\ ~ r.acked
          BY <4>1, <4>2 DEF Version
        <5> QED BY <1>1, <2>1, <5>1
      <4>3. CASE \E p \in rows : Version(q, p)
        BY <4>1, <4>3 DEF Version
      <4> QED BY <2>3, <4>2, <4>3
    <3> QED BY <2>4, <3>1, <3>2
  <2>6. \A q \in rows : \E r \in rows' : Version(r, q)
    <3> SUFFICES ASSUME NEW q \in rows PROVE \E r \in rows' : Version(r, q)
      OBVIOUS
    <3>1. PICK p \in once : Version(p, q)
      BY <2>3
    <3>2. PICK r \in rows' : Version(r, p)
      BY <2>4
    <3> QED BY <3>1, <3>2 DEF Version
  <2> QED BY <1>1, <2>1, <2>2, <2>5, <2>6 DEF Grown
<1> QED BY <1>2, <1>3

(* The empty buffer.                                                        *)
LEMMA FifoInit ==
  ASSUME Init
  PROVE  FifoInv
<1>1. rows = {} /\ disk.rows = {} /\ batch = {} /\ handed = <<>> /\ ~ success
  BY DEF Init
<1>2. Gone = {}
  BY <1>1 DEF Gone, Contains
<1> QED BY <1>1, <1>2 DEF FifoInv, Births

(* Ingestion hands nothing over and puts the newest last.                   *)
LEMMA GrownFifo ==
  ASSUME EdgeInv, EdgeInv', FifoInv, Grown
  PROVE  FifoInv' /\ Births(rows) \subseteq Births(rows')
         /\ \A b \in Births(rows') \ Births(rows) : b > writes /\ b <= writes'
<1>1. Gone' = Gone
  BY DEF Grown, Gone
<1>2. writes \in Nat /\ writes' \in Nat /\ writes < writes'
  BY EdgeAssumption DEF EdgeInv, Counters, Grown, EdgeAssumption, Writes
<1>3. Births(rows) \subseteq Births(rows')
  BY DEF Grown, Births, Version
<1>4. \A b \in Births(rows') \ Births(rows) : b > writes /\ b <= writes'
  BY DEF Grown, Births, Version
<1>5. /\ \A d \in Births(disk.rows) : d \in Nat /\ d <= writes
      /\ \A d \in Gone : d \in Nat
  BY RowFields, EdgeAssumption DEF EdgeInv, Sound, Births, Gone, Writes, EdgeAssumption
<1>6. \A b \in Gone : b <= writes'
  BY <1>2, <1>5 DEF FifoInv
<1>7. \A r \in rows' : r.acked => r.born \in Gone
  BY DEF Grown, Version, FifoInv
<1>8. \A b \in batch : \E r \in rows' : r.seq = b.seq /\ r.born = b.born /\ ~ r.acked
  <2> SUFFICES ASSUME NEW b \in batch
               PROVE \E r \in rows' : r.seq = b.seq /\ r.born = b.born /\ ~ r.acked
    OBVIOUS
  <2>1. PICK q \in rows : q.seq = b.seq /\ q.born = b.born /\ ~ q.acked
    BY DEF FifoInv
  <2>2. PICK r \in rows' : Version(r, q)
    BY DEF Grown
  <2> QED BY <2>1, <2>2 DEF Version
<1>9. \A b \in Births(rows') \ Births(disk.rows), d \in Births(disk.rows) : d < b
  <2> SUFFICES ASSUME NEW b \in Births(rows') \ Births(disk.rows), NEW d \in Births(disk.rows)
               PROVE  d < b
    OBVIOUS
  <2>1. CASE b \in Births(rows)
    BY <2>1 DEF FifoInv
  <2>2. CASE b \notin Births(rows)
    <3>1. PICK r \in rows' : r.born = b
      BY DEF Births
    <3>2. r.born > writes /\ r.born \in Nat
      <4>1. b > writes
        BY <1>4, <2>2
      <4>2. r \in Row
        BY DEF EdgeInv, Sound
      <4> QED BY <3>1, <4>1, <4>2, RowFields
    <3> QED BY <1>2, <1>5, <3>1, <3>2
  <2> QED BY <2>1, <2>2
<1>10. UNCHANGED <<disk, batch, success>>
  BY DEF Grown
<1> QED BY <1>1, <1>3, <1>4, <1>6, <1>7, <1>8, <1>9, <1>10 DEF FifoInv

(* An acknowledgement hands nothing over and drops no reading.              *)
LEMMA AcknowledgeFifo ==
  ASSUME EdgeInv, FifoInv, Acknowledge
  PROVE  FifoInv' /\ Births(rows') = Births(rows) /\ handed' = handed
<1> DEFINE m(r) == [r EXCEPT !.acked = TRUE]
<1>1. /\ success
      /\ rows' = {IF r.seq <= Highest THEN m(r) ELSE r : r \in rows}
      /\ batch' = {} /\ success' = FALSE
      /\ UNCHANGED <<lastSeq, writes, disk, cloud, mocked, handed>>
  BY DEF Acknowledge, history
<1>2. rows \subseteq Row /\ batch \subseteq Row /\ batch # {} /\ Births(batch) \subseteq Gone
  BY <1>1 DEF EdgeInv, InFlight, Sound, FifoInv
<1>3. (\E b \in batch : Highest = b.seq) /\ Highest \in Nat
  BY <1>2, HighestIsMax, RowFields
<1>4. \A r \in rows : m(r).born = r.born /\ m(r).acked
  BY <1>2, MarkedRow
<1> HIDE DEF m
<1>5. \A u \in rows' : \E r \in rows : u.born = r.born /\ (u.acked => r.acked \/ r.seq <= Highest)
  BY <1>1, <1>4
<1>6. \A r \in rows : \E u \in rows' : u.born = r.born
  BY <1>1, <1>4
<1>7. \A r \in rows : r.seq <= Highest => r.born \in Gone
  <2> SUFFICES ASSUME NEW r \in rows, r.seq <= Highest PROVE r.born \in Gone
    OBVIOUS
  <2>1. CASE r.acked
    BY <2>1 DEF FifoInv
  <2>2. CASE ~ r.acked
    BY <1>2, <1>3, <2>2 DEF EdgeInv, InFlight
  <2> QED BY <2>1, <2>2
<1>8. Gone' = Gone /\ Births(rows') = Births(rows)
  BY <1>1, <1>5, <1>6 DEF Gone, Births
<1>9. \A u \in rows' : u.acked => u.born \in Gone
  BY <1>5, <1>7 DEF FifoInv
<1>10. ~ success'
  BY <1>1
<1> QED BY <1>1, <1>8, <1>9, <1>10 DEF FifoInv

(* A step that hands nothing over, and leaves the batch alone or drops it.  *)
LEMMA QuietFifo ==
  ASSUME FifoInv, UNCHANGED <<rows, handed, writes>>,
         disk' = disk \/ (disk'.rows = rows),
         \/ UNCHANGED <<batch, success>>
         \/ batch' = {} /\ ~ success'
  PROVE  FifoInv'
<1>1. Gone' = Gone
  BY DEF Gone
<1>2. /\ \A r \in disk'.rows : r.acked => r.born \in Gone
      /\ Births(disk'.rows) \subseteq Births(rows) \cup Gone
      /\ \A b \in Births(rows) \ Births(disk'.rows), d \in Births(disk'.rows) : d < b
  BY DEF FifoInv
<1> QED BY <1>1, <1>2 DEF FifoInv

(* purge_acknowledged removes only what was handed over.                    *)
LEMMA PurgeFifo ==
  ASSUME FifoInv, PurgeAcknowledged
  PROVE  FifoInv' /\ rows' \subseteq rows /\ handed' = handed
         /\ Births(rows) \subseteq Births(rows') \cup Gone
<1>1. /\ rows' = Unacknowledged
      /\ UNCHANGED <<writes, disk, batch, success, handed>>
  BY DEF PurgeAcknowledged, sync, history
<1>2. rows' \subseteq rows /\ Gone' = Gone
  BY <1>1 DEF Unacknowledged, Gone
<1>3. Births(rows) \subseteq Births(rows') \cup Gone
  BY <1>1 DEF FifoInv, Births, Unacknowledged
<1>4. \A b \in batch : \E r \in rows' : r.seq = b.seq /\ r.born = b.born /\ ~ r.acked
  BY <1>1 DEF FifoInv, Unacknowledged
<1>5. Births(rows') \subseteq Births(rows)
  BY <1>2 DEF Births
<1> QED BY <1>1, <1>2, <1>3, <1>4, <1>5 DEF FifoInv

(* A batch is read from rows of the table that are unacknowledged.          *)
LEMMA SyncReadFifo ==
  ASSUME EdgeInv, FifoInv, SyncRead
  PROVE  FifoInv'
<1>1. /\ batch' = GetUnacknowledgedBatch /\ batch = {}
      /\ UNCHANGED <<rows, writes, disk, success, handed>>
  BY DEF SyncRead, table, history
<1>2. ~ success /\ Gone' = Gone
  BY <1>1 DEF EdgeInv, InFlight, Gone
<1>3. \A b \in batch' : b \in rows /\ ~ b.acked
  BY <1>1 DEF GetUnacknowledgedBatch, Unacknowledged
<1> QED BY <1>1, <1>2, <1>3 DEF FifoInv

(* A hand-over only adds to what was handed over.                           *)
LEMMA HandOverFifo ==
  ASSUME EdgeInv, FifoInv, handed \in Seq(Writes), batch \subseteq Row, HandOver,
         UNCHANGED <<rows, disk, writes, batch>>
  PROVE  FifoInv'
<1>1. Gone' = Gone \cup Births(batch)
  BY HandOverIs
<1>2. \A b \in Births(batch) : b <= writes
  BY DEF FifoInv, Births, EdgeInv, Sound
<1> QED BY <1>1, <1>2 DEF FifoInv

(* After a power cut the table is the image.                                *)
LEMMA PowerCutFifo ==
  ASSUME EdgeInv, FifoInv, PowerCut
  PROVE  FifoInv'
<1>1. /\ rows' = disk.rows /\ batch' = {} /\ success' = FALSE
      /\ UNCHANGED <<disk, handed, writes>>
  BY DEF PowerCut, Reboot
<1>2. ~ success' /\ Gone' = Gone
  BY <1>1 DEF Gone
<1> QED BY <1>1, <1>2 DEF FifoInv

-----------------------------------------------------------------------------
(* The queue.                                                               *)

(* What waits is what the table holds and was not handed over.              *)
LEMMA WaitingIs ==
  ASSUME EdgeInv
  PROVE  Waiting = Births(rows) \ Gone /\ Waiting \in SUBSET (1..MaxWrites) /\ MaxWrites \in Nat
<1>1. rows \subseteq Row
  BY DEF EdgeInv, Sound
<1> QED BY <1>1, BirthsType DEF Waiting, Gone

(* New readings queue up behind all others.                                 *)
LEMMA QueueAccepts ==
  ASSUME EdgeInv, handed \in Seq(Writes), handed' = handed,
         NEW N \in SUBSET Writes, Waiting' = Waiting \cup N,
         \A n \in N : \A b \in Waiting \cup Gone : b < n
  PROVE  [Queue!QueueNext]_<<InOrder(Waiting), handed>>
<1>1. Waiting \in SUBSET (1..MaxWrites) /\ N \in SUBSET (1..MaxWrites) /\ MaxWrites \in Nat
  BY WaitingIs DEF Writes
<1>2. InOrder(Waiting)' = InOrder(Waiting) \o InOrder(N)
  <2>1. InOrder(Waiting \cup N) = InOrder(Waiting) \o InOrder(N)
    BY <1>1, InOrderSplit
  <2> QED BY <2>1
<1>3. CASE N = {}
  BY <1>3
<1>4. CASE N # {}
  <2>1. Lists(InOrder(Waiting), Waiting)
    BY <1>1, InOrderLists
  <2> DEFINE q == InOrder(Waiting)
  <2>2. q \in Seq(Writes) /\ \A k \in 1..Len(q) : q[k] \in Waiting
    <3>1. q \in Seq(Waiting) /\ Waiting \subseteq Writes
      BY <1>1, <2>1 DEF Lists, Writes
    <3> HIDE DEF q
    <3> QED BY <3>1
  <2>3. \A k \in 1..Len(handed) : handed[k] \in Gone
    BY DEF Gone, Contains
  <2> DEFINE l == handed \o q
  <2>4. \A k \in DOMAIN l : l[k] \in Waiting \cup Gone
    <3> HIDE DEF q
    <3>1. /\ l \in Seq(Writes) /\ Len(l) = Len(handed) + Len(q) /\ Len(handed) \in Nat /\ Len(q) \in Nat
          /\ \A i \in 1..Len(handed) + Len(q) : l[i] = IF i <= Len(handed) THEN handed[i] ELSE q[i - Len(handed)]
      BY <2>2, ConcatProperties
    <3> HIDE DEF l
    <3>2. DOMAIN l = 1..Len(handed) + Len(q)
      BY <3>1
    <3> SUFFICES ASSUME NEW k \in 1..Len(handed) + Len(q) PROVE l[k] \in Waiting \cup Gone
      BY <3>2
    <3>3. CASE k <= Len(handed)
      BY <2>3, <3>1, <3>3
    <3>4. CASE ~ (k <= Len(handed))
      <4>1. k - Len(handed) \in 1..Len(q)
        BY <3>1, <3>4
      <4> QED BY <2>2, <3>1, <3>4, <4>1
    <3> QED BY <3>3, <3>4
  <2>5. Queue!Line = l
    BY DEF Queue!Line
  <2>6. N \in SUBSET {n \in Writes : \A k \in DOMAIN Queue!Line : Queue!Line[k] < n}
    BY <2>4, <2>5
  <2>7. Queue!InOrder(N) = InOrder(N)
    BY DEF Queue!InOrder, InOrder, Queue!Cardinality, Cardinality, Queue!IsFiniteSet, IsFiniteSet
  <2>8. Queue!Accept
    BY <1>2, <1>4, <2>6, <2>7 DEF Queue!Accept
  <2> QED BY <2>8 DEF Queue!QueueNext
<1> QED BY <1>3, <1>4

(* The front of the queue is handed over.                                   *)
LEMMA QueueForwards ==
  ASSUME EdgeInv, NEW A \in SUBSET Waiting, Waiting' = Waiting \ A,
         \A a \in A, b \in Waiting \ A : a < b,
         handed' = handed \o InOrder(A)
  PROVE  handed \in Seq(Writes) => [Queue!QueueNext]_<<InOrder(Waiting), handed>>
<1> SUFFICES ASSUME handed \in Seq(Writes)
             PROVE  [Queue!QueueNext]_<<InOrder(Waiting), handed>>
  OBVIOUS
<1> DEFINE B == Waiting \ A
           s == InOrder(A)
           t == InOrder(B)
           q == InOrder(Waiting)
<1>1. A \in SUBSET (1..MaxWrites) /\ B \in SUBSET (1..MaxWrites) /\ MaxWrites \in Nat
      /\ A \cup B = Waiting
  BY WaitingIs
<1>2. q = s \o t
  BY <1>1, InOrderSplit
<1>3. InOrder(Waiting)' = t
  OBVIOUS
<1>4. s \in Seq(A) /\ t \in Seq(B) /\ (A = {} => s = <<>>) /\ (A # {} => Len(s) > 0)
  BY <1>1, InOrderEmpty
<1> HIDE DEF s, t, q
<1>5. s \in Seq(Writes) /\ t \in Seq(Writes) /\ Len(s) \in Nat /\ Len(t) \in Nat
  <2>1. A \subseteq Writes /\ B \subseteq Writes
    BY <1>1 DEF Writes
  <2> HIDE DEF B
  <2> QED BY <1>4, <2>1
<1>6. CASE A = {}
  <2>1. B = Waiting
    BY <1>6
  <2>2. s = <<>> /\ handed' = handed
    BY <1>4, <1>5, <1>6, ConcatEmptySeq DEF s
  <2> QED BY <1>3, <2>1, <2>2 DEF t
<1>7. CASE A # {}
  <2>1. Len(q) = Len(s) + Len(t) /\ q \in Seq(Writes)
    BY <1>2, <1>5, ConcatProperties
  <2>2. SubSeq(q, 1, Len(s)) = s
    <3>1. 1 \in 1..Len(s) /\ Len(s) \in 1..Len(s)
      BY <1>4, <1>5, <1>7
    <3>2. SubSeq(s \o t, 1, Len(s)) = SubSeq(s, 1, Len(s))
      BY <1>5, <3>1, SubSeqOfConcat1
    <3> QED BY <1>2, <1>5, <3>2, SubSeqFull
  <2>3. SubSeq(q, Len(s) + 1, Len(q)) = t
    <3>1. CASE t = <<>>
      <4>1. Len(q) < Len(s) + 1
        BY <1>5, <2>1, <3>1
      <4> QED BY <1>5, <2>1, <3>1, <4>1, SubSeqEmpty
    <3>2. CASE t # <<>>
      <4>1. Len(t) > 0
        BY <1>5, <3>2, EmptySeq
      <4>2. Len(s) + 1 \in Len(s)+1 .. Len(s)+Len(t) /\ Len(q) \in Len(s)+1 .. Len(s)+Len(t)
            /\ (Len(s) + 1) - Len(s) = 1 /\ Len(q) - Len(s) = Len(t)
        BY <1>5, <2>1, <4>1
      <4>3. SubSeq(s \o t, Len(s) + 1, Len(q)) = SubSeq(t, (Len(s) + 1) - Len(s), Len(q) - Len(s))
        BY <1>5, <4>2, SubSeqOfConcat2
      <4>4. SubSeq(t, 1, Len(t)) = t
        BY <1>5, SubSeqFull
      <4> QED BY <1>2, <4>2, <4>3, <4>4
    <3> QED BY <3>1, <3>2
  <2>4. Len(s) \in 1..Len(q)
    BY <1>4, <1>5, <1>7, <2>1
  <2>5. handed' = handed \o SubSeq(q, 1, Len(s)) /\ InOrder(Waiting)' = SubSeq(q, Len(s) + 1, Len(q))
    BY <1>3, <2>2, <2>3 DEF s
  <2>6. Queue!Forward
    BY <2>4, <2>5 DEF Queue!Forward, q
  <2> QED BY <2>6 DEF Queue!QueueNext
<1> QED BY <1>6, <1>7

(* A power cut takes the end of the queue, or nothing.                      *)
LEMMA QueueCut ==
  ASSUME EdgeInv, NEW A \in SUBSET Waiting, Waiting' = A,
         \A a \in A, b \in Waiting \ A : a < b, handed' = handed
  PROVE  [Queue!QueueNext]_<<InOrder(Waiting), handed>>
<1> DEFINE B == Waiting \ A
           s == InOrder(A)
           t == InOrder(B)
           q == InOrder(Waiting)
<1>1. A \in SUBSET (1..MaxWrites) /\ B \in SUBSET (1..MaxWrites) /\ MaxWrites \in Nat
      /\ A \cup B = Waiting
  BY WaitingIs
<1>2. q = s \o t
  BY <1>1, InOrderSplit
<1>3. InOrder(Waiting)' = s
  OBVIOUS
<1>4. s \in Seq(A) /\ t \in Seq(B) /\ (B # {} => Len(t) > 0)
  BY <1>1, InOrderEmpty
<1>5. CASE B = {}
  <2>1. A = Waiting
    BY <1>5
  <2> QED BY <1>3, <2>1
<1>6. CASE B # {}
  <2> HIDE DEF s, t, q
  <2>1. s \in Seq(Writes) /\ t \in Seq(Writes) /\ Len(s) \in Nat /\ Len(t) \in Nat
    <3>1. A \subseteq Writes /\ B \subseteq Writes
      BY <1>1 DEF Writes
    <3> HIDE DEF B
    <3> QED BY <1>4, <3>1
  <2>2. Len(q) = Len(s) + Len(t)
    BY <1>2, <2>1, ConcatProperties
  <2>3. SubSeq(q, 1, Len(s)) = s
    <3>1. CASE s = <<>>
      BY <3>1, SubSeqEmpty
    <3>2. CASE s # <<>>
      <4>1. 1 \in 1..Len(s) /\ Len(s) \in 1..Len(s)
        BY <2>1, <3>2, EmptySeq
      <4>2. SubSeq(s \o t, 1, Len(s)) = SubSeq(s, 1, Len(s))
        BY <2>1, <4>1, SubSeqOfConcat1
      <4> QED BY <1>2, <2>1, <4>2, SubSeqFull
    <3> QED BY <3>1, <3>2
  <2>4. Len(s) \in 0..(Len(q) - 1)
    BY <1>4, <1>6, <2>1, <2>2
  <2>5. InOrder(Waiting)' = SubSeq(q, 1, Len(s))
    BY <1>3, <2>3
  <2>6. Queue!PowerCut
    BY <2>4, <2>5 DEF Queue!PowerCut, q
  <2> QED BY <2>6 DEF Queue!QueueNext
<1> QED BY <1>5, <1>6

(* Each step keeps FifoInv, and is a step of the queue or none.             *)
LEMMA FifoStep ==
  ASSUME EdgeInv, EdgeInv', FifoInv, handed \in Seq(Writes), [Next]_vars
  PROVE  FifoInv' /\ [Queue!QueueNext]_<<InOrder(Waiting), handed>>
<1> DEFINE Kept == FifoInv' /\ [Queue!QueueNext]_<<InOrder(Waiting), handed>>
<1>1. Waiting = Births(rows) \ Gone /\ Waiting' = Births(rows') \ Gone'
  <2>1. Waiting' = Births(rows)' \ Gone'
    <3>1. rows' \subseteq Row
      BY DEF EdgeInv, Sound
    <3>2. Births(rows') \subseteq Writes
      BY <3>1, BirthsType
    <3> QED BY <3>2 DEF Waiting, Gone, Births
  <2> QED BY <2>1, WaitingIs DEF Births
<1>2. ASSUME Waiting' = Waiting, handed' = handed
      PROVE  [Queue!QueueNext]_<<InOrder(Waiting), handed>>
  BY <1>2
<1>3. handed' = handed => Gone' = Gone
  BY DEF Gone
<1>4. ASSUME NEW k1 \in Keys, NEW k2 \in Keys, Insert(k1) \/ InsertBatch(k1, k2) PROVE Kept
  <2>1. Grown
    BY <1>4, InsertGrows
  <2>2. /\ FifoInv' /\ Births(rows) \subseteq Births(rows')
        /\ \A b \in Births(rows') \ Births(rows) : b > writes /\ b <= writes'
    BY <2>1, GrownFifo
  <2>3. handed' = handed /\ Gone' = Gone
    BY <1>3, <2>1 DEF Grown
  <2> DEFINE N == Births(rows') \ Births(rows)
  <2>4. Births(rows) \subseteq Writes /\ Births(rows') \subseteq Writes /\ Gone \subseteq Writes
    BY BirthsType DEF EdgeInv, Sound, Gone
  <2>5. \A b \in Births(rows) \cup Gone : b <= writes
    BY DEF EdgeInv, Sound, Births, FifoInv
  <2>6. writes \in Nat /\ Writes \subseteq Nat
    BY EdgeAssumption DEF EdgeInv, Counters, EdgeAssumption, Writes
  <2>7. \A n \in N : n \in Writes /\ n \notin Gone /\ \A b \in Waiting \cup Gone : b < n
    <3>1. \A n \in N : n \in Nat /\ n > writes /\ n \in Writes
      BY <2>2, <2>4, <2>6
    <3>2. \A b \in Waiting \cup Gone : b \in Nat /\ b <= writes
      BY <1>1, <2>4, <2>5, <2>6
    <3>3. \A n \in N : \A b \in Waiting \cup Gone : b < n
      BY <2>6, <3>1, <3>2
    <3> QED BY <2>5, <2>6, <3>1, <3>3
  <2>8. Waiting' = Waiting \cup N
    BY <1>1, <2>2, <2>3, <2>7
  <2> HIDE DEF N
  <2>9. N \in SUBSET Writes
    BY <2>7
  <2>10. [Queue!QueueNext]_<<InOrder(Waiting), handed>>
    BY <2>3, <2>7, <2>8, <2>9, QueueAccepts
  <2> QED BY <2>2, <2>10
<1>5. CASE PurgeAcknowledged
  <2>1. /\ FifoInv' /\ rows' \subseteq rows /\ handed' = handed
        /\ Births(rows) \subseteq Births(rows') \cup Gone
    BY <1>5, PurgeFifo
  <2>2. Waiting' = Waiting
    BY <1>1, <1>3, <2>1 DEF Births
  <2> QED BY <1>2, <2>1, <2>2
<1>6. CASE SyncRead
  <2>1. FifoInv' /\ rows' = rows /\ handed' = handed
    BY <1>6, SyncReadFifo DEF SyncRead, table, history
  <2> QED BY <1>1, <1>2, <1>3, <2>1
<1>7. CASE Transmit \/ MockTransmit
  <2>1. HandOver /\ UNCHANGED <<rows, disk, writes, batch>> /\ batch \subseteq Row
    BY <1>7 DEF Transmit, MockTransmit, table, EdgeInv, InFlight
  <2>2. FifoInv'
    BY <2>1, HandOverFifo
  <2> DEFINE A == Births(batch) \ Gone
  <2>3. handed' = handed \o InOrder(A) /\ Gone' = Gone \cup Births(batch)
    BY <2>1, HandOverIs
  <2>4. A \subseteq Waiting
    BY <1>1 DEF FifoInv, Births
  <2>5. Waiting' = Waiting \ A
    BY <1>1, <2>1, <2>3
  <2>6. ASSUME NEW a \in A, NEW b \in Waiting \ A PROVE a < b
    <3>1. PICK c \in batch : c.born = a
      BY DEF Births
    <3>2. PICK q \in rows : q.seq = c.seq /\ q.born = a
      BY <3>1 DEF FifoInv
    <3>3. PICK r \in rows : r.born = b
      BY <1>1 DEF Births
    <3>4. ~ r.acked
      BY <1>1, <3>3 DEF FifoInv
    <3>5. b \notin Births(batch)
      BY <1>1
    <3>6. q \in Row /\ r \in Row /\ c \in Row
      BY <2>1 DEF EdgeInv, Sound
    <3>7. ~ (r.seq <= q.seq)
      BY <3>2, <3>3, <3>4, <3>5 DEF EdgeInv, InFlight
    <3>8. q.seq < r.seq
      BY <3>6, <3>7, RowFields
    <3> QED BY <3>2, <3>3, <3>8 DEF EdgeInv, Sound
  <2> HIDE DEF A
  <2>7. [Queue!QueueNext]_<<InOrder(Waiting), handed>>
    BY <2>3, <2>4, <2>5, <2>6, QueueForwards
  <2> QED BY <2>2, <2>7
<1>8. CASE TransmitFails
  <2>1. UNCHANGED <<rows, handed, writes, disk, success>> /\ batch' = {} /\ ~ success
    BY <1>8 DEF TransmitFails, table
  <2>2. FifoInv'
    BY <2>1, QuietFifo
  <2> QED BY <1>1, <1>2, <1>3, <2>1, <2>2
<1>9. CASE Acknowledge
  <2>1. FifoInv' /\ Births(rows') = Births(rows) /\ handed' = handed
    BY <1>9, AcknowledgeFifo
  <2> QED BY <1>1, <1>2, <1>3, <2>1
<1>10. CASE WanFlips \/ SetCallback \/ Checkpoint \/ Restart \/ UNCHANGED vars
  <2>1. UNCHANGED <<rows, handed, writes>>
    BY <1>10 DEF WanFlips, SetCallback, Checkpoint, Restart, vars, table, history
  <2>2. disk' = disk \/ disk'.rows = rows
    BY <1>10 DEF WanFlips, SetCallback, Checkpoint, Restart, vars
  <2>3. UNCHANGED <<batch, success>> \/ (batch' = {} /\ ~ success')
    BY <1>10 DEF WanFlips, SetCallback, Checkpoint, Restart, Reboot, vars, sync
  <2>4. FifoInv'
    BY <2>1, <2>2, <2>3, QuietFifo
  <2> QED BY <1>1, <1>2, <1>3, <2>1, <2>4
<1>11. CASE PowerCut
  <2>1. FifoInv' /\ rows' = disk.rows /\ handed' = handed
    BY <1>11, PowerCutFifo DEF PowerCut
  <2> DEFINE A == Births(disk.rows) \ Gone
  <2>2. Waiting' = A
    BY <1>1, <1>3, <2>1
  <2>3. A \subseteq Waiting
    BY <1>1 DEF FifoInv
  <2>4. \A a \in A, b \in Waiting \ A : a < b
    BY <1>1 DEF FifoInv
  <2> HIDE DEF A
  <2>5. [Queue!QueueNext]_<<InOrder(Waiting), handed>>
    BY <2>1, <2>2, <2>3, <2>4, QueueCut
  <2> QED BY <2>1, <2>5
<1> QED
  BY <1>4, <1>5, <1>6, <1>7, <1>8, <1>9, <1>10, <1>11 DEF Next

(* Each step keeps the types.                                               *)
LEMMA TypedStep ==
  ASSUME TypeOK, EdgeInv, EdgeInv', [Next]_vars
  PROVE  TypeOK'
<1>1. /\ rows \subseteq Row /\ rows' \subseteq Row /\ disk'.rows \subseteq Row
      /\ batch \subseteq Row /\ batch' \subseteq Row /\ success' \in BOOLEAN
      /\ writes' \in 0..MaxWrites
  BY DEF EdgeInv, Counters, Sound, InFlight
<1>2. lastSeq' \in 0..MaxWrites /\ lastSeq \in 0..MaxWrites
  BY EdgeAssumption DEF EdgeInv, Counters, EdgeAssumption
<1>3. disk' \in [rows : SUBSET Row, lastSeq : 0..MaxWrites]
  <2>1. CASE disk' = disk
    BY <2>1 DEF TypeOK
  <2>2. CASE disk' = [rows |-> rows, lastSeq |-> lastSeq]
    BY <1>1, <1>2, <2>2
  <2>3. disk' = disk \/ disk' = [rows |-> rows, lastSeq |-> lastSeq]
    BY DEF Next, Insert, InsertBatch, PurgeAcknowledged, SyncRead, Transmit, TransmitFails,
           MockTransmit, Acknowledge, WanFlips, SetCallback, Checkpoint, Restart, PowerCut, vars
  <2> QED BY <2>1, <2>2, <2>3
<1>4. Births(batch) \subseteq Writes /\ Births(rows) \subseteq Writes
  BY <1>1, BirthsType
<1>5. ASSUME NEW R \in SUBSET batch, Arrive(R) PROVE cloud' \subseteq [born : Writes, content : Writes]
  <2>1. \A r \in R : r.born \in Writes /\ r.content \in Writes
    BY <1>1 DEF Row
  <2> QED BY <1>5, <2>1 DEF Arrive, TypeOK
<1>6. HandOver => handed' \in Seq(Writes)
  BY <1>1, HandOverIs DEF TypeOK
<1>7. /\ cloud' \subseteq [born : Writes, content : Writes]
      /\ handed' \in Seq(Writes)
      /\ mocked' \subseteq Writes /\ cut' \subseteq Writes
  <2>1. CASE Transmit
    BY <1>5, <1>6, <2>1 DEF Transmit, TypeOK
  <2>2. CASE TransmitFails
    BY <1>5, <2>2 DEF TransmitFails, TypeOK
  <2>3. CASE MockTransmit
    BY <1>4, <1>6, <2>3 DEF MockTransmit, TypeOK
  <2>4. CASE PowerCut
    BY <1>4, <2>4 DEF PowerCut, TypeOK
  <2>5. CASE UNCHANGED history
    BY <2>5 DEF history, TypeOK
  <2>6. Transmit \/ TransmitFails \/ MockTransmit \/ PowerCut \/ UNCHANGED history
    BY DEF Next, Insert, InsertBatch, PurgeAcknowledged, SyncRead,
           Acknowledge, WanFlips, SetCallback, Checkpoint, Restart, vars
  <2> QED BY <2>1, <2>2, <2>3, <2>4, <2>5, <2>6
<1>8. online' \in BOOLEAN /\ callback' \in BOOLEAN
  <2>1. online' \in {online, ~ online, TRUE} /\ callback' \in {callback, TRUE, FALSE}
    BY DEF Next, Insert, InsertBatch, PurgeAcknowledged, SyncRead, Transmit, TransmitFails,
           MockTransmit, Acknowledge, WanFlips, SetCallback, Checkpoint, Restart, PowerCut, Reboot, vars
  <2> QED BY <2>1 DEF TypeOK
<1>9. powerCuts' \in 0..MaxPowerCuts
  <2>1. powerCuts' = powerCuts \/ (powerCuts < MaxPowerCuts /\ powerCuts' = powerCuts + 1)
    BY DEF Next, Insert, InsertBatch, PurgeAcknowledged, SyncRead, Transmit, TransmitFails,
           MockTransmit, Acknowledge, WanFlips, SetCallback, Checkpoint, Restart, PowerCut, vars
  <2> QED BY <2>1, EdgeAssumption DEF TypeOK, EdgeAssumption
<1> QED BY <1>1, <1>2, <1>3, <1>7, <1>8, <1>9 DEF TypeOK

(* The first state has its types.                                           *)
LEMMA TypedInit ==
  ASSUME Init
  PROVE  TypeOK
<1>1. MaxWrites \in Nat /\ MaxPowerCuts \in Nat
  BY EdgeAssumption DEF EdgeAssumption
<1>2. 0 \in 0..MaxWrites /\ 0 \in 0..MaxPowerCuts
  BY <1>1
<1>3. lastSeq = 0 /\ writes = 0 /\ powerCuts = 0 /\ disk = [rows |-> {}, lastSeq |-> 0]
  BY DEF Init
<1>4. rows = {} /\ batch = {} /\ cloud = {} /\ mocked = {} /\ cut = {} /\ handed = <<>>
  BY DEF Init
<1>5. handed \in Seq(Writes)
  BY <1>4
<1>6. online \in BOOLEAN /\ callback \in BOOLEAN /\ success \in BOOLEAN
  <2>1. online = TRUE /\ callback = FALSE /\ success = FALSE
    BY DEF Init
  <2> QED BY <2>1
<1>7. disk \in [rows : SUBSET Row, lastSeq : 0..MaxWrites]
  BY <1>2, <1>3
<1> QED BY <1>2, <1>3, <1>4, <1>5, <1>6, <1>7 DEF TypeOK

(* Every variable of the gateway keeps its type (TypeOK), whatever is       *)
(* inserted, acknowledged, purged or cut off.                               *)
THEOREM EdgeTyped == Spec => []TypeOK
BY EdgeInvariant, TypedInit, TypedStep, PTL DEF Spec

(* The relation of table, image and hand-over holds in every state.         *)
THEOREM FifoInvariant == Spec => []FifoInv
<1>1. TypeOK /\ EdgeInv /\ EdgeInv' /\ FifoInv /\ [Next]_vars => FifoInv'
  BY FifoStep DEF TypeOK
<1> QED BY <1>1, FifoInit, EdgeInvariant, EdgeTyped, PTL DEF Spec

(* The table and the synchronisation of EdgeGateway and SQLiteEdgeBuffer    *)
(* are a first-in-first-out queue to their user: each step accepts readings *)
(* at the end, hands over the front, drops the newest in a power cut, or    *)
(* changes nothing (FifoPromise).                                           *)
THEOREM BufferImplementsQueue == Spec => FifoPromise
<1>1. Init => Queue!QueueInit
  <2> SUFFICES ASSUME Init PROVE Queue!QueueInit
    OBVIOUS
  <2>1. EdgeInv /\ handed = <<>> /\ rows = {}
    BY EdgeInit DEF Init
  <2>2. Waiting = {} /\ Waiting \in SUBSET (1..MaxWrites) /\ MaxWrites \in Nat
    BY <2>1, WaitingIs DEF Births
  <2>3. InOrder(Waiting) = <<>>
    BY <2>2, InOrderEmpty
  <2> QED BY <2>1, <2>3 DEF Queue!QueueInit
<1>2. TypeOK /\ EdgeInv /\ EdgeInv' /\ FifoInv /\ [Next]_vars
        => [Queue!QueueNext]_<<InOrder(Waiting), handed>>
  BY FifoStep DEF TypeOK
<1> QED
  BY <1>1, <1>2, EdgeInvariant, EdgeTyped, FifoInvariant, PTL DEF Spec, FifoPromise, Queue!QueueSpec

-----------------------------------------------------------------------------
(* What the queue is worth.                                                 *)

(* A sequence that ascends, and so has nothing twice.                       *)
Ascends(s) == \A i, j \in DOMAIN s : i < j => s[i] < s[j]

(* What was handed over and, behind it, what waits, in order of insertion.  *)
InTurn ==
  /\ handed \in Seq(Writes) /\ InOrder(Waiting) \in Seq(Writes)
  /\ Ascends(Queue!Line)

(* Two ascending sequences, the second above the first.                     *)
LEMMA AscendsJoined ==
  ASSUME NEW s \in Seq(Writes), NEW t \in Seq(Writes), Ascends(s), Ascends(t),
         \A i \in DOMAIN s, j \in DOMAIN t : s[i] < t[j]
  PROVE  Ascends(s \o t)
<1> DEFINE A == {s[i] : i \in DOMAIN s}
           B == {t[j] : j \in DOMAIN t}
<1>1. Writes \subseteq Nat
  BY DEF Writes
<1>2. s \in Seq(A) /\ t \in Seq(B)
  OBVIOUS
<1>3. Lists(s, A) /\ Lists(t, B)
  BY <1>2 DEF Lists, Ascends
<1>4. A \in SUBSET Nat /\ B \in SUBSET Nat
  <2>1. DOMAIN s = 1..Len(s) /\ \A i \in 1..Len(s) : s[i] \in Writes
    OBVIOUS
  <2>2. DOMAIN t = 1..Len(t) /\ \A j \in 1..Len(t) : t[j] \in Writes
    OBVIOUS
  <2> QED BY <1>1, <2>1, <2>2
<1>5. \A a \in A, b \in B : a < b
  OBVIOUS
<1> HIDE DEF A, B
<1>6. Lists(s \o t, A \cup B)
  BY <1>3, <1>4, <1>5, ListsJoined
<1> QED BY <1>6 DEF Lists, Ascends

(* Each step of the queue keeps its line in order.                          *)
LEMMA QueueStepInTurn ==
  ASSUME InTurn, [Queue!QueueNext]_<<InOrder(Waiting), handed>>
  PROVE  InTurn'
<1> DEFINE q == InOrder(Waiting)
           l == handed \o q
<1>1. Queue!Line = l /\ Queue!Line' = handed' \o q'
  BY DEF Queue!Line
<1>2. handed \in Seq(Writes) /\ q \in Seq(Writes) /\ l \in Seq(Writes) /\ Ascends(l)
      /\ Len(q) \in Nat /\ Len(handed) \in Nat
  BY <1>1 DEF InTurn
<1>3. ASSUME NEW r, r = q', handed' \in Seq(Writes), r \in Seq(Writes), Ascends(handed' \o r)
      PROVE  InTurn'
  BY <1>1, <1>3 DEF InTurn
<1>4. CASE Queue!Accept
  <2>1. PICK S \in SUBSET {n \in Writes : \A k \in DOMAIN Queue!Line : Queue!Line[k] < n} :
          q' = q \o Queue!InOrder(S) /\ handed' = handed
    BY <1>4 DEF Queue!Accept
  <2> DEFINE s == InOrder(S)
  <2>2. Queue!InOrder(S) = s
    BY DEF Queue!InOrder, InOrder, Queue!Cardinality, Cardinality, Queue!IsFiniteSet, IsFiniteSet
  <2>3. S \in SUBSET (1..MaxWrites) /\ MaxWrites \in Nat
    BY EdgeAssumption DEF EdgeAssumption, Writes
  <2>4. Lists(s, S)
    BY <2>3, InOrderLists
  <2> HIDE DEF s, l, q
  <2>5. s \in Seq(S) /\ s \in Seq(Writes) /\ Ascends(s) /\ \A j \in DOMAIN s : s[j] \in S
    <3>1. S \subseteq Writes /\ s \in Seq(S)
      BY <2>4 DEF Lists
    <3> QED BY <2>4, <3>1 DEF Lists, Ascends
  <2>6. \A i \in DOMAIN l, j \in DOMAIN s : l[i] < s[j]
    BY <1>1, <2>5
  <2>7. Ascends(l \o s)
    BY <1>2, <2>5, <2>6, AscendsJoined
  <2>8. q' = q \o s /\ q \o s \in Seq(Writes) /\ handed \o (q \o s) = l \o s
    BY <1>2, <2>1, <2>2, <2>5, ConcatAssociative, ConcatProperties DEF l
  <2> QED BY <1>2, <1>3, <2>1, <2>7, <2>8
<1>5. CASE Queue!Forward
  <2>1. PICK k \in 1..Len(q) : /\ handed' = handed \o SubSeq(q, 1, k)
                              /\ q' = SubSeq(q, k + 1, Len(q))
    BY <1>5 DEF Queue!Forward
  <2> HIDE DEF l, q
  <2> DEFINE a == SubSeq(q, 1, k)
             b == SubSeq(q, k + 1, Len(q))
  <2>2. a \in Seq(Writes) /\ b \in Seq(Writes)
    BY <1>2
  <2>3. a \o b = q
    <3>1. 1 \in 1..Len(q) + 1 /\ k \in (1 - 1)..Len(q) /\ Len(q) \in k..Len(q)
      BY <1>2
    <3>2. a \o b = SubSeq(q, 1, Len(q))
      BY <1>2, <3>1, ConcatAdjacentSubSeq
    <3> QED BY <1>2, <3>2, SubSeqFull
  <2> HIDE DEF a, b
  <2>4. (handed \o a) \o b = l
    <3>1. \A x, y, z \in Seq(Writes) : (x \o y) \o z = x \o (y \o z)
      BY ConcatAssociative
    <3>2. handed \in Seq(Writes)
      BY <1>2
    <3>3. (handed \o a) \o b = handed \o (a \o b)
      BY <2>2, <3>1, <3>2, Zenon
    <3> QED BY <2>3, <3>3 DEF l
  <2>5. handed \o a \in Seq(Writes)
    BY <1>2, <2>2, ConcatProperties
  <2> QED BY <1>2, <1>3, <2>1, <2>2, <2>4, <2>5 DEF a, b
<1>6. CASE Queue!PowerCut
  <2>1. PICK k \in 0..(Len(q) - 1) : q' = SubSeq(q, 1, k) /\ handed' = handed
    BY <1>6 DEF Queue!PowerCut
  <2> HIDE DEF l, q
  <2> DEFINE a == SubSeq(q, 1, k)
             m == handed \o a
  <2>2. a \in Seq(Writes) /\ Len(a) = k /\ \A i \in 1..k : a[i] = q[i]
    BY <1>2
  <2> HIDE DEF a
  <2>3. Len(m) = Len(handed) + k /\ m \in Seq(Writes)
        /\ \A i \in 1..Len(handed) + k : m[i] = IF i <= Len(handed) THEN handed[i] ELSE a[i - Len(handed)]
    BY <1>2, <2>2, ConcatProperties
  <2>4. Len(l) = Len(handed) + Len(q)
        /\ \A i \in 1..Len(handed) + Len(q) : l[i] = IF i <= Len(handed) THEN handed[i] ELSE q[i - Len(handed)]
    BY <1>2, ConcatProperties DEF l
  <2> HIDE DEF m
  <2>5. ASSUME NEW i \in 1..Len(m) PROVE i \in 1..Len(l) /\ m[i] = l[i]
    <3>1. i \in 1..Len(handed) + k /\ i \in 1..Len(handed) + Len(q)
      BY <1>2, <2>3
    <3>2. CASE i <= Len(handed)
      BY <2>3, <2>4, <3>1, <3>2
    <3>3. CASE ~ (i <= Len(handed))
      <4>1. i - Len(handed) \in 1..k
        BY <1>2, <3>1, <3>3
      <4> QED BY <2>2, <2>3, <2>4, <3>1, <3>3, <4>1
    <3> QED BY <2>4, <3>1, <3>2, <3>3
  <2>6. Ascends(m)
    <3>1. DOMAIN m = 1..Len(m) /\ DOMAIN l = 1..Len(l)
      BY <1>2, <2>3
    <3> QED BY <1>2, <2>5, <3>1 DEF Ascends
  <2> QED BY <1>2, <1>3, <2>1, <2>2, <2>6 DEF m, a
<1>7. CASE UNCHANGED <<q, handed>>
  BY <1>2, <1>3, <1>7
<1> QED BY <1>4, <1>5, <1>6, <1>7 DEF Queue!QueueNext

(* The abstract queue keeps its line in the order of acceptance, each       *)
(* reading once.                                                            *)
THEOREM QueueInTurn == Queue!QueueSpec => []InTurn
<1>1. Queue!QueueInit => InTurn
  <2> SUFFICES ASSUME Queue!QueueInit PROVE InTurn
    OBVIOUS
  <2>1. InOrder(Waiting) = <<>> /\ handed = <<>>
    BY DEF Queue!QueueInit
  <2>2. Queue!Line = <<>>
    BY <2>1 DEF Queue!Line
  <2> QED BY <2>1, <2>2 DEF InTurn, Ascends
<1> QED BY <1>1, QueueStepInTurn, PTL DEF Queue!QueueSpec

(* Readings are transmitted in the order of insertion: none succeeds for    *)
(* the first time after a younger one did, across retries, batches          *)
(* acknowledged late, restarts and power cuts. What the abstract queue has, *)
(* the buffer that implements it has.                                       *)
THEOREM HandedInOrder == Spec => []Ascends(handed)
<1>1. InTurn => Ascends(handed)
  <2> SUFFICES ASSUME InTurn PROVE Ascends(handed)
    OBVIOUS
  <2> DEFINE l == handed \o InOrder(Waiting)
  <2>1. handed \in Seq(Writes) /\ InOrder(Waiting) \in Seq(Writes) /\ Ascends(l)
    BY DEF InTurn, Queue!Line
  <2>2. \A i \in DOMAIN handed : i \in DOMAIN l /\ l[i] = handed[i]
    BY <2>1, ConcatProperties
  <2> HIDE DEF l
  <2> QED BY <2>1, <2>2 DEF Ascends
<1> QED BY <1>1, BufferImplementsQueue, QueueInTurn, PTL DEF FifoPromise
=============================================================================
