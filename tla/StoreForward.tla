---------------------------- MODULE StoreForward ----------------------------
(***************************************************************************)
(* What the edge gateway promises of its backlog, without SQLite, batches, *)
(* acknowledgements or retransmissions ("atomic FIFO queueing and backfill *)
(* extraction", docs/05_Edge_and_Integration.md): readings are accepted at *)
(* the end of a queue and handed over from its front, each exactly once.   *)
(* A power cut, and nothing else, may take readings away, and only the     *)
(* newest ones.                                                            *)
(***************************************************************************)
EXTENDS Integers, Sequences, Sorting

CONSTANT Readings      \* numbers that order the readings by acceptance

VARIABLES
  queue,       (* accepted, not yet handed over                             *)
  forwarded    (* handed over, in order                                     *)

Line == forwarded \o queue

QueueInit == queue = <<>> /\ forwarded = <<>>

Accept ==
  /\ \E S \in SUBSET {n \in Readings : \A k \in DOMAIN Line : Line[k] < n} :
        /\ S # {}
        /\ queue' = queue \o InOrder(S)
  /\ UNCHANGED forwarded

Forward ==
  \E k \in 1..Len(queue) :
    /\ forwarded' = forwarded \o SubSeq(queue, 1, k)
    /\ queue'     = SubSeq(queue, k + 1, Len(queue))

PowerCut ==
  /\ \E k \in 0..(Len(queue) - 1) : queue' = SubSeq(queue, 1, k)
  /\ UNCHANGED forwarded

QueueNext == Accept \/ Forward \/ PowerCut

QueueSpec == QueueInit /\ [][QueueNext]_<<queue, forwarded>>
=============================================================================
