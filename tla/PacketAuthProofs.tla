-------------------------- MODULE PacketAuthProofs --------------------------
(***************************************************************************)
(* For any skew, rate, capacity and number of packets and clients: a       *)
(* packet is accepted once, and no client is granted more than its bucket  *)
(* allows over any stretch of time.                                        *)
(***************************************************************************)
EXTENDS PacketAuth, TLAPS

(* What protects an accepted packet from being accepted again: its nonce,    *)
(* remembered no earlier than a skew before its stamp, or its age.           *)
Guarded(n) ==
  \/ accepted[n] = 0
  \/ /\ accepted[n] = 1
     /\ n \in sent
     /\ \/ \E r \in remembered : r.nonce = n /\ r.at + MaxClockSkew >= stamp[n]
        \/ now > stamp[n] + MaxClockSkew

NonceInv ==
  /\ \A n \in Nonces : Guarded(n)
  /\ OnlyAcceptedRemembered

(* What the grants since the i-th cost, together with the tokens left, was   *)
(* in the bucket at the i-th or has been earned since.                       *)
Covered(c, i) ==
  /\ grants[c][i] <= refilled[c]
  /\ (Len(grants[c]) - i + 1) * Cost + tokens[c]
       <= BurstCapacity + Rate * (refilled[c] - grants[c][i])

BucketInv ==
  \A c \in Clients :
    /\ refilled[c] <= now
    /\ \A i \in DOMAIN grants[c] : Covered(c, i)

Inv == TypeOK /\ NonceInv /\ BucketInv /\ RateBounded

-----------------------------------------------------------------------------
(* Arithmetic the prover is not asked to find inside the steps.              *)
LEMMA Product ==
  ASSUME NEW a \in Nat, NEW b \in Nat
  PROVE  a * b \in Nat
OBVIOUS

(* A product of integers.                                                   *)
LEMMA ProductInt ==
  ASSUME NEW a \in Int, NEW b \in Int
  PROVE  a * b \in Int
OBVIOUS

LEMMA Once ==
  ASSUME NEW k \in Int
  PROVE  1 * k = k /\ k * 0 = 0
OBVIOUS

LEMMA Spread ==
  ASSUME NEW k \in Int, NEW a \in Int, NEW b \in Int, NEW c \in Int
  PROVE  k * (c - a) = k * (b - a) + (c - b) * k
OBVIOUS

LEMMA OneMore ==
  ASSUME NEW k \in Int, NEW m \in Int
  PROVE  (m + 1) * k = m * k + k
OBVIOUS

(* Refilling stays within the capacity and adds at most what was earned.     *)
LEMMA RefilledBounds ==
  ASSUME TypeOK, BucketInv, NEW c \in Clients
  PROVE  /\ Refilled(c) \in 0 .. BurstCapacity
         /\ (now - refilled[c]) * Rate \in Nat
         /\ Refilled(c) <= tokens[c] + (now - refilled[c]) * Rate
<1> USE AuthAssumption DEF AuthAssumption, TypeOK, BucketInv
<1>1. now - refilled[c] \in Nat /\ Elapsed(c) = now - refilled[c]
  BY DEF Elapsed
<1>2. (now - refilled[c]) * Rate \in Nat
  BY <1>1, Product
<1>3. tokens[c] \in 0 .. BurstCapacity
  OBVIOUS
<1> QED BY <1>1, <1>2, <1>3 DEF Refilled

-----------------------------------------------------------------------------
(* A server that has seen no packet.                                        *)
LEMMA InitInv == Init => Inv
BY AuthAssumption DEF AuthAssumption, Init, Inv, TypeOK, NonceInv, Guarded,
  OnlyAcceptedRemembered, BucketInv, RateBounded

(* Each step keeps the types.                                               *)
LEMMA TypeStep == Inv /\ [Next]_vars => TypeOK'
<1> SUFFICES ASSUME Inv, [Next]_vars PROVE TypeOK'
  OBVIOUS
<1> USE AuthAssumption DEF AuthAssumption, Inv, TypeOK, packets, buckets
<1>1. CASE Tick
  BY <1>1 DEF Tick
<1>2. ASSUME NEW n \in Nonces, NEW s \in now - MaxDrift .. now + MaxDrift, Sign(n, s)
      PROVE  TypeOK'
  BY <1>2 DEF Sign
<1>3. ASSUME NEW n \in Nonces, RefuseStale(n) PROVE TypeOK'
  BY <1>3 DEF RefuseStale, vars
<1>4. ASSUME NEW n \in Nonces, RefuseKnown(n) PROVE TypeOK'
  BY <1>4 DEF RefuseKnown, Unexpired
<1>5. ASSUME NEW n \in Nonces, RefuseDamaged(n) PROVE TypeOK'
  BY <1>5 DEF RefuseDamaged, Unexpired
<1>6. ASSUME NEW n \in Nonces, Accept(n) PROVE TypeOK'
  BY <1>6 DEF Accept, Unexpired
<1>7. ASSUME NEW c \in Clients, Allow(c) PROVE TypeOK'
  <2>1. Refilled(c) - Cost \in 0 .. BurstCapacity
    <3>1. Refilled(c) \in 0 .. BurstCapacity
      BY RefilledBounds
    <3>2. Refilled(c) >= Cost
      BY <1>7 DEF Allow
    <3> QED BY <3>1, <3>2
  <2>2. grants' \in [Clients -> Seq(Nat)]
    BY <1>7 DEF Allow
  <2> QED BY <1>7, <2>1, <2>2 DEF Allow
<1>8. ASSUME NEW c \in Clients, Deny(c) PROVE TypeOK'
  BY <1>8, RefilledBounds DEF Deny
<1>9. CASE UNCHANGED vars
  BY <1>9 DEF vars
<1> QED BY <1>1, <1>2, <1>3, <1>4, <1>5, <1>6, <1>7, <1>8, <1>9 DEF Next

(* Pruning takes a nonce away only when its packet has gone stale.           *)
LEMMA PruneGuarded ==
  ASSUME TypeOK, NEW n \in Nonces, Guarded(n),
         Unexpired \subseteq remembered',
         UNCHANGED <<now, sent, stamp>>, accepted'[n] = accepted[n]
  PROVE  Guarded(n)'
<1> USE AuthAssumption DEF AuthAssumption, TypeOK, Guarded
<1>1. ASSUME NEW r \in remembered, r.at + MaxClockSkew >= stamp[n], r \notin Unexpired
      PROVE  now > stamp[n] + MaxClockSkew
  <2>1. r.at \in Nat /\ now \in Nat /\ stamp[n] \in Int
    OBVIOUS
  <2> QED BY <1>1, <2>1 DEF Unexpired
<1> QED BY <1>1

(* Each step keeps what the nonces remember.                                *)
LEMMA NonceStep == Inv /\ [Next]_vars => NonceInv'
<1> SUFFICES ASSUME Inv, [Next]_vars PROVE NonceInv'
  OBVIOUS
<1> USE AuthAssumption DEF AuthAssumption, Inv, NonceInv, TypeOK, packets, buckets
<1>1. CASE Tick
  <2>1. ASSUME NEW n \in Nonces PROVE Guarded(n)'
    BY <1>1 DEF Tick, Guarded
  <2> QED BY <1>1, <2>1 DEF Tick, OnlyAcceptedRemembered
<1>2. ASSUME NEW n \in Nonces, NEW s \in now - MaxDrift .. now + MaxDrift, Sign(n, s)
      PROVE  NonceInv'
  <2>1. ASSUME NEW m \in Nonces PROVE Guarded(m)'
    <3>1. CASE m = n
      BY <1>2, <3>1 DEF Sign, Guarded
    <3>2. CASE m # n
      BY <1>2, <3>2 DEF Sign, Guarded
    <3> QED BY <3>1, <3>2
  <2> QED BY <1>2, <2>1 DEF Sign, OnlyAcceptedRemembered
<1>3. ASSUME NEW n \in Nonces, RefuseKnown(n) \/ RefuseDamaged(n) PROVE NonceInv'
  <2>1. remembered' = Unexpired /\ UNCHANGED <<now, sent, stamp, accepted>>
    BY <1>3 DEF RefuseKnown, RefuseDamaged
  <2>2. ASSUME NEW m \in Nonces PROVE Guarded(m)'
    BY <2>1, PruneGuarded
  <2>3. OnlyAcceptedRemembered'
    BY <2>1 DEF OnlyAcceptedRemembered, Unexpired
  <2> QED BY <2>2, <2>3
<1>4. ASSUME NEW n \in Nonces, Accept(n) PROVE NonceInv'
  <2> DEFINE new == [nonce |-> n, at |-> now]
  <2>1. /\ remembered' = Unexpired \cup {new}
        /\ UNCHANGED <<now, sent, stamp>>
        /\ accepted' = [accepted EXCEPT ![n] = @ + 1]
        /\ n \in sent /\ ~Known(n)
    BY <1>4 DEF Accept
  <2>2. now - stamp[n] <= MaxClockSkew /\ stamp[n] - now <= MaxClockSkew
    <3>1. now \in Nat /\ stamp[n] \in Int
      OBVIOUS
    <3> QED BY <1>4, <3>1 DEF Accept, Fresh
  <2>3. accepted[n] = 0
    <3>1. ASSUME NEW r \in remembered, r.nonce = n, r.at + MaxClockSkew >= stamp[n]
          PROVE  FALSE
      <4>1. r \notin Unexpired
        BY <2>1, <3>1 DEF Known
      <4>2. r.at \in Nat /\ now \in Nat /\ stamp[n] \in Int
        OBVIOUS
      <4>3. r.at < now - 2 * MaxClockSkew
        BY <4>1, <4>2 DEF Unexpired
      <4> QED BY <2>2, <3>1, <4>2, <4>3
    <3>2. ~(now > stamp[n] + MaxClockSkew)
      BY <2>2
    <3> QED BY <3>1, <3>2 DEF Guarded
  <2>4. ASSUME NEW m \in Nonces PROVE Guarded(m)'
    <3>1. CASE m = n
      <4>1. accepted'[n] = 1
        BY <2>1, <2>3
      <4>2. new \in remembered' /\ new.nonce = n /\ new.at = now
        BY <2>1
      <4>3. new.at + MaxClockSkew >= stamp'[n]
        BY <2>1, <2>2, <4>2
      <4> QED BY <2>1, <3>1, <4>1, <4>2, <4>3 DEF Guarded
    <3>2. CASE m # n
      <4>1. accepted'[m] = accepted[m]
        BY <2>1, <3>2
      <4> QED BY <2>1, <4>1, PruneGuarded
    <3> QED BY <3>1, <3>2
  <2>5. OnlyAcceptedRemembered'
    <3>1. accepted'[n] > 0
      BY <2>1, <2>3
    <3>2. ASSUME NEW r \in Unexpired PROVE accepted'[r.nonce] > 0
      BY <2>1, <3>1 DEF OnlyAcceptedRemembered, Unexpired
    <3> QED BY <2>1, <3>1, <3>2 DEF OnlyAcceptedRemembered
  <2> QED BY <2>4, <2>5
<1>5. ASSUME UNCHANGED <<now, packets>> PROVE NonceInv'
  BY <1>5 DEF Guarded, OnlyAcceptedRemembered
<1>6. ASSUME NEW n \in Nonces, RefuseStale(n) PROVE NonceInv'
  BY <1>5, <1>6 DEF RefuseStale, vars
<1>7. ASSUME NEW c \in Clients, Allow(c) \/ Deny(c) PROVE NonceInv'
  BY <1>5, <1>7 DEF Allow, Deny
<1>8. CASE UNCHANGED vars
  BY <1>5, <1>8 DEF vars
<1> QED BY <1>1, <1>2, <1>3, <1>4, <1>6, <1>7, <1>8 DEF Next

(* A refill moves what was earned since the last one into the bucket.        *)
LEMMA RefillCovers ==
  ASSUME TypeOK, BucketInv, NEW c \in Clients, NEW i \in DOMAIN grants[c]
  PROVE  /\ grants[c][i] <= now
         /\ (Len(grants[c]) - i + 1) * Cost + Refilled(c)
              <= BurstCapacity + Rate * (now - grants[c][i])
<1> USE AuthAssumption DEF AuthAssumption
<1>1. /\ now \in Nat /\ refilled[c] \in Nat /\ grants[c][i] \in Nat
      /\ tokens[c] \in Nat /\ i \in Nat /\ Len(grants[c]) \in Nat
  BY DEF TypeOK
<1>2. Covered(c, i) /\ refilled[c] <= now
  BY DEF BucketInv
<1>3. Rate * (now - grants[c][i])
        = Rate * (refilled[c] - grants[c][i]) + (now - refilled[c]) * Rate
  BY <1>1, Spread
<1>4. /\ Refilled(c) \in Nat
      /\ (now - refilled[c]) * Rate \in Nat
      /\ Refilled(c) <= tokens[c] + (now - refilled[c]) * Rate
  BY RefilledBounds
<1> DEFINE spent == (Len(grants[c]) - i + 1) * Cost
           before == Rate * (refilled[c] - grants[c][i])
           earned == (now - refilled[c]) * Rate
           total == Rate * (now - grants[c][i])
<1>5. spent \in Int /\ before \in Int /\ earned \in Int /\ total \in Int
  <2>1. /\ Len(grants[c]) - i + 1 \in Int /\ refilled[c] - grants[c][i] \in Int
        /\ now - refilled[c] \in Int /\ now - grants[c][i] \in Int
        /\ Rate \in Int /\ Cost \in Int
    BY <1>1
  <2> QED BY <2>1, ProductInt
<1>6. spent + tokens[c] <= BurstCapacity + before
  BY <1>2 DEF Covered
<1>7. total = before + earned /\ Refilled(c) <= tokens[c] + earned
  BY <1>3, <1>4
<1>8. grants[c][i] <= now
  BY <1>1, <1>2 DEF Covered
<1> HIDE DEF spent, before, earned, total
<1>9. spent + Refilled(c) <= BurstCapacity + total
  BY <1>1, <1>4, <1>5, <1>6, <1>7
<1> QED BY <1>8, <1>9 DEF spent, total

(* Each step keeps the account of the buckets.                              *)
LEMMA BucketStep == Inv /\ [Next]_vars => BucketInv' /\ RateBounded'
<1> SUFFICES ASSUME Inv, [Next]_vars PROVE BucketInv' /\ RateBounded'
  OBVIOUS
<1> USE AuthAssumption DEF AuthAssumption, Inv
<1>1. ASSUME UNCHANGED buckets, now' \in Nat, now' >= now PROVE BucketInv' /\ RateBounded'
  BY <1>1 DEF buckets, TypeOK, BucketInv, Covered, RateBounded
<1>2. CASE Tick
  BY <1>1, <1>2 DEF Tick, TypeOK
<1>3. ASSUME UNCHANGED <<now, buckets>> PROVE BucketInv' /\ RateBounded'
  BY <1>1, <1>3 DEF TypeOK
<1>4. ASSUME NEW c \in Clients, Deny(c) PROVE BucketInv' /\ RateBounded'
  <2>1. /\ UNCHANGED <<now, grants>>
        /\ tokens' = [tokens EXCEPT ![c] = Refilled(c)]
        /\ refilled' = [refilled EXCEPT ![c] = now]
    BY <1>4 DEF Deny
  <2>2. ASSUME NEW d \in Clients
        PROVE  refilled'[d] <= now' /\ \A i \in DOMAIN grants'[d] : Covered(d, i)'
    <3>1. CASE d # c
      BY <2>1, <3>1 DEF TypeOK, BucketInv, Covered
    <3>2. CASE d = c
      <4>1. refilled'[c] = now /\ tokens'[c] = Refilled(c)
        BY <2>1 DEF TypeOK
      <4>2. ASSUME NEW i \in DOMAIN grants[c] PROVE Covered(c, i)'
        BY <2>1, <4>1, RefillCovers DEF Covered
      <4>3. refilled'[c] <= now'
        BY <2>1, <4>1 DEF TypeOK
      <4> QED BY <2>1, <3>2, <4>2, <4>3
    <3> QED BY <3>1, <3>2
  <2> QED BY <2>1, <2>2 DEF BucketInv, RateBounded
<1>5. ASSUME NEW c \in Clients, Allow(c) PROVE BucketInv' /\ RateBounded'
  <2> DEFINE g == grants[c]
             n == Len(grants[c])
  <2>1. /\ UNCHANGED now
        /\ tokens' = [tokens EXCEPT ![c] = Refilled(c) - Cost]
        /\ refilled' = [refilled EXCEPT ![c] = now]
        /\ grants' = [grants EXCEPT ![c] = Append(@, now)]
        /\ Refilled(c) >= Cost
    BY <1>5 DEF Allow
  <2>2. /\ g \in Seq(Nat) /\ n \in Nat /\ now \in Nat
        /\ Refilled(c) \in 0 .. BurstCapacity
    BY RefilledBounds DEF TypeOK
  <2>3. /\ refilled'[c] = now /\ tokens'[c] = Refilled(c) - Cost
        /\ grants'[c] = Append(g, now) /\ Len(grants'[c]) = n + 1
        /\ DOMAIN grants'[c] = 1 .. n + 1
        /\ grants'[c][n + 1] = now
        /\ \A i \in 1 .. n : grants'[c][i] = g[i]
    BY <2>1, <2>2 DEF TypeOK
  <2> DEFINE spent(i) == (n - i + 1) * Cost
             earned(i) == Rate * (now - g[i])
  <2>4. ASSUME NEW i \in 1 .. n
        PROVE  /\ g[i] \in Nat /\ g[i] <= now
               /\ spent(i) \in Int /\ earned(i) \in Int
               /\ spent(i) + Refilled(c) <= BurstCapacity + earned(i)
               /\ (n + 1 - i + 1) * Cost = spent(i) + Cost
    <3>1. i \in DOMAIN grants[c] /\ g[i] \in Nat /\ n - i + 1 \in Int /\ now - g[i] \in Int
      BY <2>2
    <3>2. (n + 1 - i + 1) * Cost = spent(i) + Cost
      <4>1. n + 1 - i + 1 = (n - i + 1) + 1
        BY <2>2
      <4> QED BY <3>1, <4>1, OneMore
    <3>3. g[i] <= now /\ spent(i) + Refilled(c) <= BurstCapacity + earned(i)
      BY <3>1, RefillCovers
    <3>4. spent(i) \in Int /\ earned(i) \in Int
      BY <3>1
    <3> HIDE DEF spent, earned
    <3> QED BY <3>1, <3>2, <3>3, <3>4
  <2>5. ASSUME NEW i \in 1 .. n + 1 PROVE Covered(c, i)'
    <3>1. CASE i \in 1 .. n
      <4>1. grants'[c][i] <= refilled'[c]
        BY <2>3, <2>4, <3>1
      <4>2. spent(i) + Cost + (Refilled(c) - Cost) <= BurstCapacity + earned(i)
        <5>1. /\ spent(i) \in Int /\ earned(i) \in Int
              /\ spent(i) + Refilled(c) <= BurstCapacity + earned(i)
          BY <2>4, <3>1
        <5> HIDE DEF spent, earned
        <5> QED BY <2>2, <5>1
      <4>3. (Len(grants'[c]) - i + 1) * Cost + tokens'[c]
               = spent(i) + Cost + (Refilled(c) - Cost)
        <5>1. (n + 1 - i + 1) * Cost = spent(i) + Cost
          BY <2>4, <3>1
        <5> QED BY <2>3, <5>1
      <4>4. Rate * (refilled'[c] - grants'[c][i]) = earned(i)
        BY <2>3, <3>1
      <4> QED BY <4>1, <4>2, <4>3, <4>4 DEF Covered
    <3>2. CASE i = n + 1
      <4>1. grants'[c][i] = now /\ refilled'[c] = now /\ Len(grants'[c]) - i + 1 = 1
        BY <2>2, <2>3, <3>2
      <4>2. (Len(grants'[c]) - i + 1) * Cost = Cost
        BY <4>1
      <4>3. Rate * (refilled'[c] - grants'[c][i]) = 0
        BY <2>2, <4>1
      <4> QED BY <2>2, <2>3, <4>1, <4>2, <4>3 DEF Covered
    <3> QED BY <2>2, <3>1, <3>2
  <2>6. BucketInv'
    <3>1. ASSUME NEW d \in Clients, d # c
          PROVE  refilled'[d] <= now' /\ \A i \in DOMAIN grants'[d] : Covered(d, i)'
      BY <2>1, <3>1 DEF TypeOK, BucketInv, Covered
    <3> QED BY <2>1, <2>2, <2>3, <2>5, <3>1 DEF BucketInv
  <2>7. ASSUME NEW i \in 1 .. n + 1, NEW j \in 1 .. n + 1, i <= j
        PROVE  (j - i + 1) * Cost <= BurstCapacity + Rate * (grants'[c][j] - grants'[c][i])
    <3>1. CASE j \in 1 .. n
      <4>1. i \in 1 .. n /\ i \in DOMAIN grants[c] /\ j \in DOMAIN grants[c]
        BY <2>2, <2>7, <3>1
      <4>2. (j - i + 1) * Cost <= BurstCapacity + Rate * (g[j] - g[i])
        BY <2>7, <4>1 DEF RateBounded
      <4> QED BY <2>3, <3>1, <4>1, <4>2
    <3>2. CASE j = n + 1 /\ i \in 1 .. n
      <4>1. (j - i + 1) * Cost = spent(i) + Cost
        BY <2>4, <3>2
      <4>2. spent(i) + Cost <= BurstCapacity + earned(i)
        <5>1. /\ spent(i) \in Int /\ earned(i) \in Int
              /\ spent(i) + Refilled(c) <= BurstCapacity + earned(i)
          BY <2>4, <3>2
        <5> HIDE DEF spent, earned
        <5> QED BY <2>1, <2>2, <5>1
      <4>3. Rate * (grants'[c][j] - grants'[c][i]) = earned(i)
        BY <2>3, <3>2
      <4> QED BY <4>1, <4>2, <4>3
    <3>3. CASE j = n + 1 /\ i = n + 1
      <4>1. j - i + 1 = 1 /\ grants'[c][j] - grants'[c][i] = 0
        BY <2>2, <2>3, <3>3
      <4>2. (j - i + 1) * Cost = Cost /\ Rate * (grants'[c][j] - grants'[c][i]) = 0
        BY <4>1, Once
      <4>3. Cost <= BurstCapacity + 0
        BY <2>1, <2>2
      <4> QED BY <4>2, <4>3
    <3> QED BY <2>2, <2>7, <3>1, <3>2, <3>3
  <2>8. RateBounded'
    <3>1. ASSUME NEW d \in Clients, d # c PROVE grants'[d] = grants[d]
      BY <2>1, <3>1 DEF TypeOK
    <3> QED BY <2>3, <2>7, <3>1 DEF RateBounded
  <2> QED BY <2>6, <2>8
<1>6. ASSUME NEW n \in Nonces, NEW s \in now - MaxDrift .. now + MaxDrift, Sign(n, s)
      PROVE  BucketInv' /\ RateBounded'
  BY <1>3, <1>6 DEF Sign
<1>7. ASSUME NEW n \in Nonces,
             RefuseStale(n) \/ RefuseKnown(n) \/ RefuseDamaged(n) \/ Accept(n)
      PROVE  BucketInv' /\ RateBounded'
  BY <1>3, <1>7 DEF RefuseStale, RefuseKnown, RefuseDamaged, Accept, vars
<1>8. CASE UNCHANGED vars
  BY <1>3, <1>8 DEF vars
<1> QED BY <1>2, <1>4, <1>5, <1>6, <1>7, <1>8 DEF Next

-----------------------------------------------------------------------------
(* The inductive invariant of the authentication manager.                    *)
THEOREM AuthInvariant == Spec => []Inv
<1>1. Inv /\ [Next]_vars => Inv'
  BY TypeStep, NonceStep, BucketStep DEF Inv
<1> QED BY <1>1, InitInv, PTL DEF Spec

(* verify_telemetry_packet accepts no packet twice, whatever the skew and    *)
(* however packets are repeated, damaged or delayed.                         *)
THEOREM PacketsOnce == Spec => []AcceptedOnce
<1>1. Inv => AcceptedOnce
  <2> SUFFICES ASSUME Inv, NEW n \in Nonces PROVE accepted[n] <= 1
    BY DEF AcceptedOnce
  <2>1. accepted[n] = 0 \/ accepted[n] = 1
    BY DEF Inv, NonceInv, Guarded
  <2> QED BY <2>1
<1> QED BY <1>1, AuthInvariant, PTL

(* A damaged or refused packet leaves nothing in the cache of nonces that    *)
(* would turn the intact one away.                                           *)
THEOREM RefusedForgotten == Spec => []OnlyAcceptedRemembered
<1>1. Inv => OnlyAcceptedRemembered
  BY DEF Inv, NonceInv
<1> QED BY <1>1, AuthInvariant, PTL

(* check_rate_limit never grants a client more, over any stretch of its      *)
(* requests, than the capacity and what that time earned.                    *)
THEOREM RatesHold == Spec => []RateBounded
<1>1. Inv => RateBounded
  BY DEF Inv
<1> QED BY <1>1, AuthInvariant, PTL
=============================================================================
