----------------------------- MODULE PacketAuth -----------------------------
(***************************************************************************)
(* The two stateful parts of AuthenticationManager                         *)
(* (reamp/security/auth.py): the cache of nonces behind                    *)
(* verify_telemetry_packet, and the token buckets behind check_rate_limit. *)
(*                                                                         *)
(* A gateway signs a packet once, stamping it by its own clock, and the    *)
(* network delivers it any number of times, at any later moment, intact or *)
(* damaged.  The server reads its clock when it verifies, as               *)
(* process_telemetry_packet does for every caller that signs; this clock   *)
(* is taken not to step backwards.  Time is in whole units, and so are     *)
(* tokens: one request costs Cost of them, so that a unit of time may earn *)
(* a fraction of a request.                                                *)
(***************************************************************************)
EXTENDS Integers, Sequences

CONSTANTS
  Nonces,           \* one for each packet a gateway signs
  Clients,          \* client_id of the rate limiter
  MaxClockSkew,     \* self.max_clock_skew
  BurstCapacity,    \* self.burst_capacity, in tokens
  Rate,             \* self.rate_limit_rate, in tokens per unit of time
  Cost,             \* tokens a request takes (1.0 in the code)
  MaxDrift,         \* bound: how far a gateway's clock is from the server's
  MaxTime,          \* bound: the run ends at this time
  MaxGrants         \* bound: requests granted to one client

ASSUME AuthAssumption ==
  /\ {MaxClockSkew, BurstCapacity, Rate, MaxDrift, MaxTime, MaxGrants} \subseteq Nat
  /\ Cost \in Nat \ {0}

VARIABLES
  now,          \* the server's clock
  sent,         \* nonces of the packets signed so far
  stamp,        \* packet_sig.timestamp, for each of them
  remembered,   \* _seen_nonces
  accepted,     \* history: how often each packet passed verification
  tokens,       \* _token_buckets[c][0]
  refilled,     \* _token_buckets[c][1]
  grants        \* history: the times at which check_rate_limit said yes

packets == <<sent, stamp, remembered, accepted>>
buckets == <<tokens, refilled, grants>>
vars == <<now, packets, buckets>>

TypeOK ==
  /\ now \in Nat
  /\ sent \subseteq Nonces
  /\ stamp \in [Nonces -> Int]
  /\ remembered \subseteq [nonce : Nonces, at : Nat]
  /\ accepted \in [Nonces -> Nat]
  /\ tokens \in [Clients -> 0..BurstCapacity]
  /\ refilled \in [Clients -> Nat]
  /\ grants \in [Clients -> Seq(Nat)]

(* A client not yet in the dictionary has a full bucket; one that is full   *)
(* and was filled at time 0 behaves the same, as refilling cannot exceed    *)
(* the capacity.                                                            *)
Init ==
  /\ now = 0
  /\ sent = {}
  /\ stamp = [n \in Nonces |-> 0]
  /\ remembered = {}
  /\ accepted = [n \in Nonces |-> 0]
  /\ tokens = [c \in Clients |-> BurstCapacity]
  /\ refilled = [c \in Clients |-> 0]
  /\ grants = [c \in Clients |-> <<>>]

(***************************************************************************)
(* Time and the gateways.                                                  *)
(***************************************************************************)
Tick ==
  /\ now < MaxTime
  /\ now' = now + 1
  /\ UNCHANGED <<packets, buckets>>

(* sign_telemetry_packet: a fresh nonce (a uuid), the gateway's own time.    *)
Sign(n, s) ==
  /\ n \notin sent
  /\ sent' = sent \cup {n}
  /\ stamp' = [stamp EXCEPT ![n] = s]
  /\ UNCHANGED <<now, remembered, accepted, buckets>>

(***************************************************************************)
(* verify_telemetry_packet, one action for each way it ends.               *)
(***************************************************************************)
Fresh(n) == (now - stamp[n]) \in -MaxClockSkew .. MaxClockSkew

(* The cache as _prune_old_nonces leaves it.  The mutants prune at the       *)
(* boundary, and after one window instead of two.                           *)
PrunedAtBoundary == {r \in remembered : r.at > now - 2 * MaxClockSkew}
Unexpired == {r \in remembered : r.at >= now - 2 * MaxClockSkew}

Known(n) == \E r \in Unexpired : r.nonce = n

(* Too old or too far ahead: refused before the cache is touched.            *)
RefuseStale(n) ==
  /\ n \in sent
  /\ ~Fresh(n)
  /\ UNCHANGED vars

RefuseKnown(n) ==
  /\ n \in sent
  /\ Fresh(n)
  /\ Known(n)
  /\ remembered' = Unexpired
  /\ UNCHANGED <<now, sent, stamp, accepted, buckets>>

(* The copy was damaged: hash or HMAC differ, and the nonce is not recorded. *)
RefuseDamagedRecording(n) ==
  /\ n \in sent
  /\ Fresh(n)
  /\ ~Known(n)
  /\ remembered' = Unexpired \cup {[nonce |-> n, at |-> now]}
  /\ UNCHANGED <<now, sent, stamp, accepted, buckets>>

RefuseDamaged(n) ==
  /\ n \in sent
  /\ Fresh(n)
  /\ ~Known(n)
  /\ remembered' = Unexpired
  /\ UNCHANGED <<now, sent, stamp, accepted, buckets>>

Accept(n) ==
  /\ n \in sent
  /\ Fresh(n)
  /\ ~Known(n)
  /\ remembered' = Unexpired \cup {[nonce |-> n, at |-> now]}
  /\ accepted' = [accepted EXCEPT ![n] = @ + 1]
  /\ UNCHANGED <<now, sent, stamp, buckets>>

(***************************************************************************)
(* check_rate_limit.                                                       *)
(***************************************************************************)
Elapsed(c) == IF now > refilled[c] THEN now - refilled[c] ELSE 0

Refilled(c) ==
  LET earned == tokens[c] + Elapsed(c) * Rate
  IN  IF earned < BurstCapacity THEN earned ELSE BurstCapacity

Allow(c) ==
  /\ Refilled(c) >= Cost
  /\ Len(grants[c]) < MaxGrants
  /\ tokens' = [tokens EXCEPT ![c] = Refilled(c) - Cost]
  /\ refilled' = [refilled EXCEPT ![c] = now]
  /\ grants' = [grants EXCEPT ![c] = Append(@, now)]
  /\ UNCHANGED <<now, packets>>

(* Mutant: a refusal keeps the tokens it counted but not the time.           *)
DenyKeepingTime(c) ==
  /\ Refilled(c) < Cost
  /\ tokens' = [tokens EXCEPT ![c] = Refilled(c)]
  /\ UNCHANGED <<now, packets, refilled, grants>>

Deny(c) ==
  /\ Refilled(c) < Cost
  /\ tokens' = [tokens EXCEPT ![c] = Refilled(c)]
  /\ refilled' = [refilled EXCEPT ![c] = now]
  /\ UNCHANGED <<now, packets, grants>>

Next ==
  \/ Tick
  \/ \E n \in Nonces :
       \/ \E s \in now - MaxDrift .. now + MaxDrift : Sign(n, s)
       \/ RefuseStale(n)
       \/ RefuseKnown(n)
       \/ RefuseDamaged(n)
       \/ Accept(n)
  \/ \E c \in Clients : Allow(c) \/ Deny(c)

Spec == Init /\ [][Next]_vars

(***************************************************************************)
(* Properties.                                                             *)
(***************************************************************************)

(* A packet the gateway sends again, or the network delivers twice, is       *)
(* taken once: whenever its nonce has been pruned, its stamp has gone stale. *)
(* The nonce is remembered from the moment of arrival and the stamp may be   *)
(* a whole skew ahead of it, hence the two windows of _prune_old_nonces.     *)
AcceptedOnce == \A n \in Nonces : accepted[n] <= 1

(* Only a packet that was taken is remembered: a damaged copy does not make  *)
(* the server refuse the intact one that follows it.                        *)
OnlyAcceptedRemembered == \A r \in remembered : accepted[r.nonce] > 0

(* However the calls fall, from any granted request to any later one a       *)
(* client is granted no more than the capacity and what the time between     *)
(* them earned.                                                             *)
RateBounded ==
  \A c \in Clients : \A i, j \in DOMAIN grants[c] :
    i <= j => (j - i + 1) * Cost <= BurstCapacity + Rate * (grants[c][j] - grants[c][i])
=============================================================================
