-------------------------- MODULE WebServerProofs ---------------------------
(***************************************************************************)
(* Tenant isolation, authority, logins and names in the workers of the web *)
(* server, and the database they share, for any tenants, users, workers    *)
(* and anything that is typed.                                             *)
(*                                                                         *)
(* The names come first: what typing does to a name is a computation on    *)
(* its parts.  Whatever was typed ends under a prefix of the tenant or is  *)
(* refused; of a name without empty parts the second pass of the API finds *)
(* the prefix in place and leaves it, which it does not of doubled dashes. *)
(* MemoryInv says of every worker's memory that it is well formed and that *)
(* every name in it is one its tenant may give; a request keeps it.        *)
(* MirrorInv rests on it: what a request sends is named so, whatever the   *)
(* database finds already there, in whichever tenant's name.               *)
(***************************************************************************)
EXTENDS WebServer, FoldLemmas, SequenceTheorems, NaturalsInduction, WellFoundedInduction, TLAPS

(* Numbers and names.                                                       *)

(* What div and mod are.                                                    *)
LEMMA DivMod ==
  ASSUME NEW a \in Nat, NEW b \in Nat \ {0}
  PROVE  /\ a \div b \in Nat /\ a % b \in 0..b - 1
         /\ a = b * (a \div b) + (a % b)
OBVIOUS

(* A multiple of b between -b and b is 0.                                   *)
LEMMA SmallMultiple ==
  ASSUME NEW b \in Nat \ {0}, NEW d \in Int, -b < b * d, b * d < b
  PROVE  d = 0
OBVIOUS

(* Multiples of b do not change a remainder by b.                           *)
LEMMA ModShift ==
  ASSUME NEW a \in Nat, NEW b \in Nat \ {0}, NEW m \in Nat
  PROVE  (a + b * m) % b = a % b
<1> DEFINE c == a + b * m
           q == a \div b
           r == a % b
           u == c \div b
           v == c % b
<1>1. c \in Nat
  OBVIOUS
<1>2. q \in Nat /\ r \in 0..b - 1 /\ a = b * q + r
  BY DivMod
<1>3. u \in Nat /\ v \in 0..b - 1 /\ c = b * u + v
  BY <1>1, DivMod
<1>4. c = a + b * m
  OBVIOUS
<1> HIDE DEF c, q, r, u, v
<1>5. b * q + r + b * m = b * u + v
  BY <1>2, <1>3, <1>4
<1>6. b * (q + m - u) = b * q + b * m - b * u
  BY <1>2, <1>3
<1>7. b * q \in Int /\ b * m \in Int /\ b * u \in Int
  BY <1>2, <1>3
<1>8. b * (q + m - u) = v - r
  BY <1>2, <1>3, <1>5, <1>6, <1>7
<1>9. q + m - u = 0
  BY <1>2, <1>3, <1>8, SmallMultiple
<1>10. v = r
  BY <1>2, <1>3, <1>8, <1>9
<1> QED BY <1>10 DEF v, r, c

(* A number below b is its own remainder.                                   *)
LEMMA ModSmall ==
  ASSUME NEW a \in Nat, NEW b \in Nat \ {0}, a < b
  PROVE  a % b = a
OBVIOUS

(* A name under a prefix is longer, and the same part by part as far as the *)
(* prefix goes.                                                             *)
LEMMA UnderIs ==
  ASSUME NEW x \in Names, NEW p \in Names
  PROVE  Under(x, p) <=> Len(x) > Len(p) /\ \A i \in 1..Len(p) : x[i] = p[i]
<1>1. Len(x) \in Nat /\ Len(p) \in Nat
  BY DEF Names
<1>2. ASSUME Len(x) > Len(p)
      PROVE  SubSeq(p, 1, Len(p)) = SubSeq(x, 1, Len(p)) <=> \A i \in 1..Len(p) : x[i] = p[i]
  <2>1. SubSeq(p, 1, Len(p)) = [i \in 1..Len(p) |-> p[i]]
    BY DEF Names
  <2>2. SubSeq(x, 1, Len(p)) = [i \in 1..Len(p) |-> x[i]]
    BY <1>1, <1>2 DEF Names
  <2> QED BY <2>1, <2>2
<1> QED
  BY <1>1, <1>2 DEF Under, IsPrefix

(* What remains of a name without its first parts.                          *)
LEMMA WithoutIs ==
  ASSUME NEW x \in Names, NEW p \in Names, Len(p) <= Len(x)
  PROVE  /\ Without(p, x) \in Names /\ Len(Without(p, x)) = Len(x) - Len(p)
         /\ \A i \in 1..Len(x) - Len(p) : Without(p, x)[i] = x[Len(p) + i]
<1>1. Len(x) \in Nat /\ Len(p) \in Nat
  BY DEF Names
<1>2. \A i \in 1..Len(x) : x[i] \in Words
  BY DEF Names
<1> QED
  BY <1>1, <1>2 DEF Names, Without

(* A prefix k times over repeats its parts.                                 *)
LEMMA TimesIs ==
  ASSUME NEW p \in Names, p # <<>>, NEW k \in Nat
  PROVE  /\ Len(p) \in Nat \ {0} /\ k * Len(p) \in Nat
         /\ Times(p, k) \in Names /\ Len(Times(p, k)) = k * Len(p)
         /\ \A i \in 1..k * Len(p) : Times(p, k)[i] = p[((i - 1) % Len(p)) + 1]
<1>1. Len(p) \in Nat \ {0}
  BY DEF Names
<1> DEFINE n == k * Len(p)
<1>2. n \in Nat
  BY <1>1
<1>3. n = k * Len(p)
  OBVIOUS
<1> HIDE DEF n
<1>4. ASSUME NEW i \in 1..n PROVE p[((i - 1) % Len(p)) + 1] \in Words
  <2>1. (i - 1) % Len(p) \in 0..Len(p) - 1
    BY <1>1, <1>2, DivMod
  <2>2. ((i - 1) % Len(p)) + 1 \in 1..Len(p)
    BY <1>1, <2>1
  <2> QED BY <2>2 DEF Names
<1>5. Times(p, k) = [i \in 1..n |-> p[((i - 1) % Len(p)) + 1]]
  BY <1>3 DEF Times
<1>6. Times(p, k) \in [1..n -> Words]
  BY <1>4, <1>5
<1>7. Times(p, k) \in Names /\ Len(Times(p, k)) = n
  BY <1>2, <1>6 DEF Names
<1> QED
  BY <1>1, <1>2, <1>3, <1>5, <1>7

(* A name begins with a prefix k times over.                                *)
LEMMA RepeatsIs ==
  ASSUME NEW x \in Names, NEW p \in Names, p # <<>>, NEW k \in Nat
  PROVE  Under(x, Times(p, k)) <=>
           Len(x) > k * Len(p) /\ \A i \in 1..k * Len(p) : x[i] = p[((i - 1) % Len(p)) + 1]
<1>1. Times(p, k) \in Names /\ Len(Times(p, k)) = k * Len(p)
      /\ \A i \in 1..k * Len(p) : Times(p, k)[i] = p[((i - 1) % Len(p)) + 1]
  BY TimesIs
<1>2. Under(x, Times(p, k)) <=>
        Len(x) > Len(Times(p, k)) /\ \A i \in 1..Len(Times(p, k)) : x[i] = Times(p, k)[i]
  BY <1>1, UnderIs
<1> HIDE DEF Under, Times
<1> QED BY <1>1, <1>2, Zenon

(* How often a name may begin with a prefix, beyond once.                   *)
RepeatsOf(x, p) == {k \in 2..Len(x) : Under(x, Times(p, k))}

(* Deduplicate leaves a name alone or takes off all repetitions of the      *)
(* prefix but one.                                                          *)
LEMMA DeduplicateCases ==
  ASSUME NEW x \in Names, NEW p \in Names, p # <<>>
  PROVE  \/ RepeatsOf(x, p) = {} /\ Deduplicate(x, p) = x
         \/ \E j \in Nat \ {0} :
              /\ Under(x, Times(p, j + 1))
              /\ \A k \in RepeatsOf(x, p) : k <= j + 1
              /\ Deduplicate(x, p) = Without(Times(p, j), x)
<1> DEFINE R == RepeatsOf(x, p)
<1>1. Deduplicate(x, p) = IF R = {} THEN x ELSE Without(Times(p, Max(R) - 1), x)
  BY DEF Deduplicate, RepeatsOf
<1>2. R \subseteq 0..Len(x) /\ Len(x) \in Nat /\ R \subseteq 2..Len(x)
  BY DEF RepeatsOf, Names
<1>3. \A k \in R : Under(x, Times(p, k))
  BY DEF RepeatsOf
<1> HIDE DEF R
<1>4. ASSUME R # {}
      PROVE  \E j \in Nat \ {0} :
              /\ Under(x, Times(p, j + 1))
              /\ \A k \in R : k <= j + 1
              /\ Deduplicate(x, p) = Without(Times(p, j), x)
  <2>1. Max(R) \in R /\ \A k \in R : k <= Max(R)
    BY <1>2, <1>4, MaxIn
  <2>2. PICK m \in 2..Len(x) : m = Max(R)
    BY <1>2, <2>1
  <2>3. m - 1 \in Nat \ {0} /\ m = (m - 1) + 1
    BY <1>2, <2>2
  <2>4. Under(x, Times(p, m)) /\ \A k \in R : k <= m
    BY <1>3, <2>1, <2>2, Zenon
  <2>5. Deduplicate(x, p) = Without(Times(p, m - 1), x)
    BY <1>1, <1>4, <2>2, Zenon
  <2>6. Under(x, Times(p, (m - 1) + 1)) /\ \A k \in R : k <= (m - 1) + 1
    BY <2>3, <2>4, Zenon
  <2> QED BY <2>3, <2>5, <2>6, Zenon
<1> QED
  BY <1>1, <1>4, Zenon DEF R

(* After Deduplicate the prefix is not repeated any more.                   *)
LEMMA DeduplicateIs ==
  ASSUME NEW x \in Names, NEW p \in Names, p # <<>>
  PROVE  /\ Deduplicate(x, p) \in Names
         /\ Deduplicate(x, p) = x \/ Under(Deduplicate(x, p), p)
         /\ RepeatsOf(Deduplicate(x, p), p) = {}
<1>1. CASE RepeatsOf(x, p) = {} /\ Deduplicate(x, p) = x
  BY <1>1, Zenon
<1>2. ASSUME NEW j \in Nat \ {0}, Under(x, Times(p, j + 1)),
             \A k \in RepeatsOf(x, p) : k <= j + 1,
             Deduplicate(x, p) = Without(Times(p, j), x)
      PROVE  /\ Deduplicate(x, p) \in Names
             /\ Under(Deduplicate(x, p), p)
             /\ RepeatsOf(Deduplicate(x, p), p) = {}
  <2> DEFINE L == Len(p)
             c == j * L
             y == Without(Times(p, j), x)
  <2>1. L \in Nat \ {0} /\ c \in Nat /\ Len(x) \in Nat
    <3>1. Len(x) \in Nat
      BY DEF Names
    <3> QED BY <3>1, TimesIs
  <2>2. (j + 1) * L = c + L /\ c = L * j
    BY <2>1
  <2>3. Times(p, j) \in Names /\ Len(Times(p, j)) = c
    BY TimesIs
  <2>4. Len(x) > (j + 1) * L /\ \A i \in 1..(j + 1) * L : x[i] = p[((i - 1) % L) + 1]
    <3>1. j + 1 \in Nat
      OBVIOUS
    <3> QED BY <1>2, <3>1, RepeatsIs
  <2>5. Len(x) > c + L /\ \A i \in 1..c + L : x[i] = p[((i - 1) % L) + 1]
    BY <2>2, <2>4
  <2>6. /\ y \in Names /\ Len(y) = Len(x) - c
        /\ \A i \in 1..Len(x) - c : y[i] = x[c + i]
    <3> HIDE DEF c, L
    <3>1. Len(Times(p, j)) <= Len(x)
      BY <2>1, <2>3, <2>5
    <3>2. /\ Without(Times(p, j), x) \in Names
          /\ Len(Without(Times(p, j), x)) = Len(x) - Len(Times(p, j))
          /\ \A i \in 1..Len(x) - Len(Times(p, j)) :
               Without(Times(p, j), x)[i] = x[Len(Times(p, j)) + i]
      BY <2>3, <3>1, WithoutIs, Zenon
    <3> QED BY <2>3, <3>2, Zenon
  <2> HIDE DEF L, y, c
  <2>7. \A a \in Nat : (a + c) % L = a % L
    BY <2>1, <2>2, ModShift
  <2>8. Under(y, p)
    <3>1. ASSUME NEW i \in 1..L PROVE y[i] = p[i]
      <4>1. i \in 1..Len(x) - c /\ c + i \in 1..c + L /\ i - 1 \in Nat /\ i - 1 < L
        BY <2>1, <2>5
      <4>2. y[i] = x[c + i] /\ x[c + i] = p[(((c + i) - 1) % L) + 1]
        <5>1. y[i] = x[c + i]
          BY <2>6, <4>1, Zenon
        <5>2. x[c + i] = p[(((c + i) - 1) % L) + 1]
          BY <2>5, <4>1, Zenon
        <5> QED BY <5>1, <5>2
      <4>3. (c + i) - 1 = (i - 1) + c
        BY <2>1, <4>1
      <4>4. ((i - 1) + c) % L = i - 1
        BY <2>1, <2>7, <4>1, ModSmall
      <4>5. (i - 1) + 1 = i
        BY <4>1
      <4> QED BY <4>2, <4>3, <4>4, <4>5
    <3>2. Len(y) > L
      BY <2>1, <2>5, <2>6
    <3> QED BY <2>6, <3>1, <3>2, UnderIs DEF L
  <2>9. ASSUME NEW k \in RepeatsOf(y, p) PROVE FALSE
    <3> DEFINE d == k * L
    <3>1. k \in 2..Len(y) /\ Under(y, Times(p, k)) /\ k \in Nat /\ Len(y) \in Nat
      BY <2>6, <2>9 DEF RepeatsOf, Names
    <3>2. d \in Nat /\ d = k * L
      BY <2>1, <3>1
    <3>3. Len(y) > d /\ \A i \in 1..d : y[i] = p[((i - 1) % L) + 1]
      BY <2>6, <3>1, RepeatsIs DEF L
    <3>4. (k + j) * L = d + c
      BY <2>1, <3>1 DEF c
    <3> HIDE DEF d
    <3>5. Len(x) > d + c
      BY <2>1, <2>6, <3>2, <3>3
    <3>6. ASSUME NEW i \in 1..d + c PROVE x[i] = p[((i - 1) % L) + 1]
      <4>1. CASE i <= c
        BY <2>1, <2>5, <3>2, <4>1
      <4>2. CASE i > c
        <5> DEFINE n == i - c
        <5>1. n \in 1..d /\ i = c + n /\ n \in 1..Len(x) - c /\ n - 1 \in Nat
              /\ i - 1 = (n - 1) + c
          BY <2>1, <3>2, <3>5, <4>2
        <5> HIDE DEF n
        <5>2. x[i] = y[n] /\ y[n] = p[((n - 1) % L) + 1]
          BY <2>6, <3>3, <5>1
        <5>3. ((n - 1) + c) % L = (n - 1) % L
          BY <2>7, <5>1
        <5> QED BY <5>1, <5>2, <5>3
      <4> QED BY <2>1, <3>2, <4>1, <4>2
    <3>7. Under(x, Times(p, k + j))
      <4>1. k + j \in Nat
        BY <3>1
      <4>2. /\ Len(x) > (k + j) * Len(p)
            /\ \A i \in 1..(k + j) * Len(p) : x[i] = p[((i - 1) % Len(p)) + 1]
        BY <3>4, <3>5, <3>6 DEF L
      <4> QED BY <4>1, <4>2, RepeatsIs
    <3>8. k + j \in 2..Len(x)
      <4>1. k <= d
        BY <2>1, <3>1, <3>2
      <4>2. j <= c
        BY <2>1 DEF c
      <4> QED BY <2>1, <3>1, <3>2, <3>5, <4>1, <4>2
    <3>9. k + j <= j + 1
      BY <1>2, <3>7, <3>8 DEF RepeatsOf
    <3> QED BY <3>1, <3>9
  <2> QED BY <1>2, <2>6, <2>8, <2>9 DEF y
<1> QED BY <1>1, <1>2, DeduplicateCases, Zenon

(* A name in which the prefix is not repeated stays as it is.               *)
LEMMA DeduplicateFixed ==
  ASSUME NEW x \in Names, NEW p \in Names, p # <<>>, RepeatsOf(x, p) = {}
  PROVE  Deduplicate(x, p) = x
BY DEF Deduplicate, RepeatsOf

(* A word is a name of one part.                                            *)
LEMMA OnePart ==
  ASSUME NEW a \in Words
  PROVE  <<a>> \in Names /\ Len(<<a>>) = 1 /\ <<a>>[1] = a /\ <<a>> # <<>>
<1>1. <<a>> \in Seq(Words) /\ Len(<<a>>) = 1 /\ <<a>>[1] = a
  OBVIOUS
<1> QED BY <1>1, EmptySeq DEF Names

(* A name and its parts.                                                    *)
LEMMA NameIs ==
  ASSUME NEW x \in Names
  PROVE  /\ Len(x) \in Nat /\ (x = <<>> <=> Len(x) = 0)
         /\ DOMAIN x = 1..Len(x)
         /\ \A i \in 1..Len(x) : x[i] \in Words
BY DEF Names

(* A name without its first part.                                           *)
LEMMA TailIs ==
  ASSUME NEW x \in Names, x # <<>>
  PROVE  /\ Tail(x) \in Names /\ Len(Tail(x)) = Len(x) - 1
         /\ \A i \in 1..Len(x) - 1 : Tail(x)[i] = x[i + 1]
BY HeadTailProperties DEF Names

(* Two names in a row are a name.                                           *)
LEMMA Joined ==
  ASSUME NEW p \in Names, NEW x \in Names
  PROVE  /\ p \o x \in Names /\ Len(p \o x) = Len(p) + Len(x)
         /\ \A i \in 1..Len(p) : (p \o x)[i] = p[i]
         /\ \A i \in 1..Len(x) : (p \o x)[Len(p) + i] = x[i]
<1>1. Len(p) \in Nat /\ Len(x) \in Nat
  BY NameIs
<1> QED BY <1>1, ConcatProperties DEF Names

(* Something after a prefix is under the prefix.                            *)
LEMMA JoinedUnder ==
  ASSUME NEW p \in Names, NEW x \in Names \ {<<>>}
  PROVE  p \o x \in Names \ {<<>>} /\ Under(p \o x, p)
<1>1. Len(p) \in Nat /\ Len(x) \in Nat \ {0}
  BY NameIs
<1> DEFINE y == p \o x
<1>2. y \in Names /\ Len(y) = Len(p) + Len(x) /\ \A i \in 1..Len(p) : y[i] = p[i]
  BY Joined
<1> HIDE DEF y
<1>3. Under(y, p) /\ y # <<>>
  BY <1>1, <1>2, UnderIs, NameIs
<1> QED BY <1>2, <1>3 DEF y

(* What is under a prefix is the prefix and what remains.                   *)
LEMMA UnderJoined ==
  ASSUME NEW p \in Names, NEW x \in Names, Under(x, p)
  PROVE  Without(p, x) \in Names \ {<<>>} /\ p \o Without(p, x) = x
<1>1. Len(p) \in Nat /\ Len(x) \in Nat /\ Len(x) > Len(p) /\ \A i \in 1..Len(p) : x[i] = p[i]
  BY UnderIs, NameIs
<1> DEFINE m == Without(p, x)
           y == p \o m
<1>2. m \in Names /\ Len(m) = Len(x) - Len(p)
      /\ \A i \in 1..Len(x) - Len(p) : m[i] = x[Len(p) + i]
  BY <1>1, WithoutIs
<1> HIDE DEF m
<1>3. /\ y \in Names /\ Len(y) = Len(p) + Len(m)
      /\ \A i \in 1..Len(p) : y[i] = p[i]
      /\ \A i \in 1..Len(m) : y[Len(p) + i] = m[i]
  BY <1>2, Joined
<1> HIDE DEF y
<1>4. m # <<>> /\ Len(y) = Len(x)
  BY <1>1, <1>2, <1>3, NameIs
<1>5. ASSUME NEW i \in 1..Len(x) PROVE y[i] = x[i]
  <2>1. CASE i <= Len(p)
    BY <1>1, <1>3, <2>1
  <2>2. CASE i > Len(p)
    <3> DEFINE k == i - Len(p)
    <3>1. k \in 1..Len(m) /\ i = Len(p) + k
      BY <1>1, <1>2, <2>2
    <3> HIDE DEF k
    <3> QED BY <1>2, <1>3, <3>1
  <2> QED BY <1>1, <2>1, <2>2
<1>6. y = x
  BY <1>3, <1>4, <1>5, SeqEqual DEF Names
<1> QED BY <1>2, <1>4, <1>6 DEF y, m

(* SITE is a name.                                                          *)
LEMMA SiteIs == <<"SITE">> \in Names /\ Len(<<"SITE">>) = 1 /\ <<"SITE">>[1] = "SITE"
BY OnePart, NamingAssumption, Zenon DEF NamingAssumption

(* SITE- before a name.                                                     *)
LEMMA SiteThen ==
  ASSUME NEW x \in Names
  PROVE  /\ <<"SITE">> \o x \in Names /\ Len(<<"SITE">> \o x) = Len(x) + 1
         /\ (<<"SITE">> \o x)[1] = "SITE"
         /\ \A i \in 1..Len(x) : (<<"SITE">> \o x)[i + 1] = x[i]
         /\ <<"SITE">> \o x # <<>>
<1>1. <<"SITE">> \in Names /\ Len(<<"SITE">>) = 1 /\ <<"SITE">>[1] = "SITE" /\ Len(x) \in Nat
  BY SiteIs, NameIs, Zenon
<1> DEFINE y == <<"SITE">> \o x
<1>2. /\ y \in Names /\ Len(y) = 1 + Len(x)
      /\ \A i \in 1..1 : y[i] = <<"SITE">>[i]
      /\ \A i \in 1..Len(x) : y[1 + i] = x[i]
  BY <1>1, Joined
<1> HIDE DEF y
<1>3. \A i \in 1..Len(x) : i + 1 = 1 + i
  BY <1>1
<1>4. y # <<>>
  BY <1>1, <1>2, NameIs
<1> QED BY <1>1, <1>2, <1>3, <1>4 DEF y

(* A name under SITE- begins with it and goes on.                           *)
LEMMA UnderSite ==
  ASSUME NEW x \in Names
  PROVE  Under(x, <<"SITE">>) <=> Len(x) > 1 /\ x[1] = "SITE"
<1> DEFINE q == <<"SITE">>
<1>1. q \in Names /\ Len(q) = 1 /\ q[1] = "SITE"
  BY SiteIs
<1> HIDE DEF q
<1>2. Under(x, q) <=> Len(x) > Len(q) /\ \A i \in 1..Len(q) : x[i] = q[i]
  BY <1>1, UnderIs, Zenon
<1>3. (\A i \in 1..1 : x[i] = q[i]) <=> x[1] = q[1]
  OBVIOUS
<1> QED BY <1>1, <1>2, <1>3 DEF q

-----------------------------------------------------------------------------
(* Stripped names, and names without empty parts.                           *)

(* A nonempty set of numbers has its minimum.                               *)
LEMMA MinIn ==
  ASSUME NEW S, S \subseteq Nat, S # {}
  PROVE  Min(S) \in S /\ \A k \in S : Min(S) <= k
<1>1. PICK m \in S : \A k \in S : ~ (<<k, m>> \in OpToRel(<, Nat))
  BY NatLessThanWellFounded, WFMin
<1>2. ASSUME NEW k \in S PROVE m <= k
  <2>1. m \in Nat /\ k \in Nat
    OBVIOUS
  <2>2. ~ (k < m)
    BY <1>1, <2>1 DEF OpToRel
  <2> QED BY <2>1, <2>2
<1>3. Min(S) \in S /\ \A y \in S : Min(S) <= y
  BY <1>2 DEF Min
<1> QED BY <1>3

(* A name has no empty part.                                                *)
LEMMA PlainIs ==
  ASSUME NEW x \in Names
  PROVE  Plain(x) <=> \A i \in 1..Len(x) : x[i] # ""
BY NameIs DEF Plain, Range

(* Of plain names the plain ones are made.                                  *)
LEMMA PlainJoined ==
  ASSUME NEW p \in Names, NEW x \in Names, Plain(p), Plain(x)
  PROVE  Plain(p \o x)
<1> DEFINE y == p \o x
           e == ""
<1>1. Len(p) \in Nat /\ Len(x) \in Nat /\ (\A i \in 1..Len(p) : p[i] # e)
      /\ \A i \in 1..Len(x) : x[i] # e
  BY PlainIs, NameIs
<1>2. /\ y \in Names /\ Len(y) = Len(p) + Len(x)
      /\ \A i \in 1..Len(p) : y[i] = p[i]
      /\ \A i \in 1..Len(x) : y[Len(p) + i] = x[i]
  BY Joined
<1> HIDE DEF y, e
<1>3. ASSUME NEW i \in 1..Len(y) PROVE y[i] # e
  <2>1. CASE i <= Len(p)
    BY <1>1, <1>2, <2>1
  <2>2. CASE i > Len(p)
    <3> DEFINE k == i - Len(p)
    <3>1. k \in 1..Len(x) /\ i = Len(p) + k
      BY <1>1, <1>2, <2>2
    <3> HIDE DEF k
    <3> QED BY <1>1, <1>2, <3>1
  <2> QED BY <1>1, <1>2, <2>1, <2>2
<1> QED BY <1>2, <1>3, PlainIs DEF y, e

(* What follows a prefix of a plain name is plain.                          *)
LEMMA PlainWithout ==
  ASSUME NEW p \in Names, NEW x \in Names, Len(p) <= Len(x), Plain(x)
  PROVE  Plain(Without(p, x))
<1>1. /\ Without(p, x) \in Names /\ Len(Without(p, x)) = Len(x) - Len(p)
      /\ \A i \in 1..Len(x) - Len(p) : Without(p, x)[i] = x[Len(p) + i]
  BY WithoutIs
<1>2. Len(p) \in Nat /\ Len(x) \in Nat
  BY NameIs
<1>4. \A i \in 1..Len(x) : x[i] # ""
  BY PlainIs
<1>3. \A i \in 1..Len(x) - Len(p) : Len(p) + i \in 1..Len(x)
  BY <1>2
<1> QED BY <1>1, <1>3, <1>4, PlainIs

(* A plain name stays so when its prefix is kept once.                      *)
LEMMA PlainDeduplicate ==
  ASSUME NEW x \in Names, NEW p \in Names, p # <<>>, Plain(x)
  PROVE  Plain(Deduplicate(x, p))
<1>1. ASSUME NEW j \in Nat \ {0}, Under(x, Times(p, j + 1)),
             Deduplicate(x, p) = Without(Times(p, j), x)
      PROVE  Plain(Deduplicate(x, p))
  <2>1. /\ Times(p, j) \in Names /\ Len(Times(p, j)) = j * Len(p) /\ Len(p) \in Nat
        /\ j * Len(p) \in Nat /\ Len(x) \in Nat
    BY TimesIs, NameIs
  <2>2. Len(x) > (j + 1) * Len(p)
    <3>1. j + 1 \in Nat
      OBVIOUS
    <3> QED BY <1>1, <3>1, RepeatsIs
  <2>3. (j + 1) * Len(p) = j * Len(p) + Len(p)
    BY <2>1
  <2>4. Len(Times(p, j)) <= Len(x)
    BY <2>1, <2>2, <2>3
  <2>5. Plain(Without(Times(p, j), x))
    BY <2>1, <2>4, PlainWithout, Zenon
  <2> QED BY <1>1, <2>5, Zenon
<1> QED BY <1>1, DeduplicateCases, Zenon

(* Stripping leaves at least one part, and a plain name as it is.           *)
LEMMA LStripIs ==
  ASSUME NEW x \in Names
  PROVE  LStrip(x) \in Names \ {<<>>} /\ (Plain(x) /\ x # <<>> => LStrip(x) = x)
<1> DEFINE K == {i \in DOMAIN x : x[i] # ""}
<1>1. Len(x) \in Nat /\ DOMAIN x = 1..Len(x) /\ \A i \in 1..Len(x) : x[i] \in Words
  BY NameIs
<1>2. LStrip(x) = IF K = {} THEN <<"">> ELSE SubSeq(x, Min(K), Len(x))
  BY DEF LStrip
<1>3. <<"">> \in Names \ {<<>>}
  BY OnePart, NamingAssumption, Zenon DEF NamingAssumption
<1>4. K \subseteq 1..Len(x) /\ (Plain(x) => K = 1..Len(x))
  BY <1>1, PlainIs
<1> HIDE DEF K
<1>5. ASSUME K # {} PROVE SubSeq(x, Min(K), Len(x)) \in Names \ {<<>>}
  <2>1. K \subseteq Nat
    BY <1>4
  <2>2. PICK m \in 1..Len(x) : m = Min(K)
    BY <1>4, <1>5, <2>1, MinIn
  <2>3. SubSeq(x, m, Len(x)) \in Seq(Words) /\ Len(SubSeq(x, m, Len(x))) = Len(x) - m + 1
    BY <1>1, <2>2 DEF Names
  <2>4. Len(x) - m + 1 # 0
    BY <1>1, <2>2
  <2> QED BY <2>2, <2>3, <2>4, EmptySeq DEF Names
<1>6. ASSUME Plain(x), x # <<>> PROVE K # {} /\ SubSeq(x, Min(K), Len(x)) = x
  <2>1. K = 1..Len(x) /\ Len(x) > 0 /\ K # {} /\ K \subseteq Nat
    BY <1>1, <1>4, <1>6, NameIs
  <2>2. Min(K) \in K /\ \A k \in K : Min(K) <= k
    BY <2>1, MinIn
  <2>3. Min(K) = 1
    BY <1>1, <2>1, <2>2
  <2>4. SubSeq(x, 1, Len(x)) = x
    BY <1>1 DEF Names
  <2> QED BY <2>1, <2>3, <2>4
<1> QED BY <1>2, <1>3, <1>5, <1>6

(* At the other end likewise, and the first part stays, or nothing does.    *)
LEMMA RStripIs ==
  ASSUME NEW x \in Names
  PROVE  /\ RStrip(x) \in Names \ {<<>>} /\ (Plain(x) /\ x # <<>> => RStrip(x) = x)
         /\ RStrip(x)[1] \in {"", x[1]}
<1> DEFINE K == {i \in DOMAIN x : x[i] # ""}
<1>1. Len(x) \in Nat /\ DOMAIN x = 1..Len(x) /\ \A i \in 1..Len(x) : x[i] \in Words
  BY NameIs
<1>2. RStrip(x) = IF K = {} THEN <<"">> ELSE SubSeq(x, 1, Max(K))
  BY DEF RStrip
<1>3. <<"">> \in Names \ {<<>>} /\ <<"">>[1] = ""
  BY OnePart, NamingAssumption, Zenon DEF NamingAssumption
<1>4. K \subseteq 1..Len(x) /\ (Plain(x) => K = 1..Len(x))
  BY <1>1, PlainIs
<1> HIDE DEF K
<1>5. ASSUME K # {}
      PROVE  SubSeq(x, 1, Max(K)) \in Names \ {<<>>} /\ SubSeq(x, 1, Max(K))[1] = x[1]
  <2>1. K \subseteq 0..Len(x)
    BY <1>1, <1>4
  <2>2. PICK m \in 1..Len(x) : m = Max(K)
    BY <1>1, <1>4, <1>5, <2>1, MaxIn
  <2>3. SubSeq(x, 1, m) \in Seq(Words) /\ Len(SubSeq(x, 1, m)) = m /\ SubSeq(x, 1, m)[1] = x[1]
    BY <1>1, <2>2 DEF Names
  <2> QED BY <2>2, <2>3, EmptySeq DEF Names
<1>6. ASSUME Plain(x), x # <<>> PROVE K # {} /\ SubSeq(x, 1, Max(K)) = x
  <2>1. K = 1..Len(x) /\ Len(x) > 0 /\ K # {} /\ K \subseteq 0..Len(x)
    BY <1>1, <1>4, <1>6, NameIs
  <2>2. Max(K) \in K /\ \A k \in K : k <= Max(K)
    BY <1>1, <2>1, MaxIn
  <2>3. Max(K) = Len(x)
    <3>1. Len(x) \in K
      BY <1>1, <2>1
    <3>2. Max(K) \in 1..Len(x) /\ Len(x) <= Max(K)
      BY <2>1, <2>2, <3>1
    <3> QED BY <1>1, <3>2
  <2>4. SubSeq(x, 1, Len(x)) = x
    BY <1>1 DEF Names
  <2> QED BY <2>1, <2>3, <2>4
<1> QED BY <1>2, <1>3, <1>5, <1>6

(* A name in which SITE- is left out is made of the parts that stay.        *)
LEMMA WithoutSiteIs ==
  ASSUME NEW x \in Names, x # <<>>, NEW V,
         \A i \in 1..Len(x) : x[i] \in V \/ (x[i] = "SITE" /\ i < Len(x))
  PROVE  WithoutSite(x) \in Seq(V) \ {<<>>}
<1> DEFINE n == Len(x)
           Value(f, i) == IF i = 0 THEN <<>>
                          ELSE IF x[i] = "SITE" /\ i < n THEN f[i - 1]
                          ELSE Append(f[i - 1], x[i])
           Keeps(f) == f = [i \in 0..n |-> Value(f, i)]
           kept == CHOOSE f : Keeps(f)
<1>1. WithoutSite(x) = kept[n]
  BY DEF WithoutSite
<1>2. n \in Nat /\ n > 0
  BY NameIs
<1>3. \E f : f \in [0..n -> Seq(V)] /\ Keeps(f) /\ (n > 0 => Len(f[n]) > 0)
  <2> DEFINE Solution(k) == \E f \in [0..k -> Seq(V)] : \A i \in 0..k : f[i] = Value(f, i)
             Solved == {k \in Nat : k <= n => Solution(k)}
  <2>1. 0 \in Solved
    <3> DEFINE f == [i \in 0..0 |-> <<>>]
    <3>1. f \in [0..0 -> Seq(V)] /\ \A i \in 0..0 : f[i] = Value(f, i)
      BY EmptySeq
    <3> QED BY <3>1
  <2>2. ASSUME NEW k \in Nat, k \in Solved PROVE k + 1 \in Solved
    <3> SUFFICES ASSUME k + 1 <= n PROVE Solution(k + 1)
      <4> HIDE DEF Solution
      <4> QED OBVIOUS
    <3>1. k <= n
      BY <1>2
    <3>2. PICK f \in [0..k -> Seq(V)] : \A i \in 0..k : f[i] = Value(f, i)
      BY <2>2, <3>1
    <3> DEFINE g == [i \in 0..k + 1 |-> Value(f, i)]
    <3>3. ASSUME NEW i \in 0..k + 1 PROVE Value(f, i) \in Seq(V)
      <4>1. CASE i = 0
        BY <4>1, EmptySeq
      <4>2. CASE i > 0
        <5>1. i \in 1..n /\ i - 1 \in 0..k
          BY <1>2, <4>2
        <5>2. f[i - 1] \in Seq(V)
          BY <3>2, <5>1
        <5>3. x[i] \in V \/ (x[i] = "SITE" /\ i < n)
          BY <5>1
        <5>4. x[i] \in V => Append(f[i - 1], x[i]) \in Seq(V)
          BY <5>2
        <5> QED BY <4>2, <5>2, <5>3, <5>4
      <4> QED BY <4>1, <4>2
    <3>4. \A i \in 0..k : g[i] = f[i]
      <4> HIDE DEF Value
      <4> QED BY <3>2
    <3>5. ASSUME NEW i \in 0..k + 1 PROVE Value(f, i) = Value(g, i)
      <4>1. CASE i = 0
        BY <4>1
      <4>2. CASE i > 0
        <5>1. i - 1 \in 0..k
          BY <4>2
        <5>2. f[i - 1] = g[i - 1]
          BY <3>4, <5>1
        <5> QED BY <4>2, <5>2
      <4> QED BY <4>1, <4>2
    <3>6. g \in [0..k + 1 -> Seq(V)]
      BY <3>3
    <3>7. \A i \in 0..k + 1 : g[i] = Value(g, i)
      BY <3>5
    <3> HIDE DEF g, Value
    <3> QED BY <3>6, <3>7
  <2>3. n \in Solved
    <3> HIDE DEF Solved
    <3>1. Nat \subseteq Solved
      BY <2>1, <2>2, NumbersIn
    <3> QED BY <1>2, <3>1
  <2>4. PICK f \in [0..n -> Seq(V)] : \A i \in 0..n : f[i] = Value(f, i)
    BY <1>2, <2>3
  <2>5. Len(f[n]) > 0
    <3>1. n - 1 \in 0..n /\ n \in 0..n /\ n # 0 /\ ~ (n < n)
      BY <1>2
    <3>2. f[n] = Append(f[n - 1], x[n]) /\ f[n - 1] \in Seq(V)
      BY <2>4, <3>1
    <3>3. Len(Append(f[n - 1], x[n])) = Len(f[n - 1]) + 1 /\ Len(f[n - 1]) \in Nat
      BY <3>2
    <3> QED BY <3>2, <3>3
  <2>6. f = [i \in 0..n |-> Value(f, i)]
    <3> HIDE DEF Value
    <3> QED BY <2>4
  <2> HIDE DEF Value
  <2> QED BY <2>4, <2>5, <2>6
<1>4. Keeps(kept)
  <2> HIDE DEF Keeps
  <2> QED BY <1>3
<1>5. PICK f : f \in [0..n -> Seq(V)] /\ Keeps(f) /\ Len(f[n]) > 0
  BY <1>2, <1>3
<1>6. ASSUME NEW i \in 0..n PROVE kept[i] = f[i]
  <2> DEFINE Same == {k \in Nat : k <= n => kept[k] = f[k]}
  <2>0. \A k \in 0..n : kept[k] = Value(kept, k) /\ f[k] = Value(f, k)
    <3> HIDE DEF Value, kept
    <3> QED BY <1>4, <1>5
  <2> HIDE DEF kept
  <2>1. 0 \in Same
    BY <1>2, <2>0
  <2>2. ASSUME NEW k \in Nat, k \in Same PROVE k + 1 \in Same
    <3> SUFFICES ASSUME k + 1 <= n PROVE kept[k + 1] = f[k + 1]
      BY <2>2
    <3>1. k <= n /\ k + 1 \in 0..n /\ (k + 1) - 1 = k /\ k + 1 # 0
      BY <1>2
    <3>2. kept[k] = f[k]
      BY <2>2, <3>1
    <3> QED BY <2>0, <3>1, <3>2
  <2>3. Nat \subseteq Same
    <3> HIDE DEF Same
    <3> QED BY <2>1, <2>2, NumbersIn
  <2> QED BY <1>2, <2>3
<1>7. kept[n] = f[n] /\ f[n] \in Seq(V)
  <2>1. n \in 0..n
    BY <1>2
  <2> HIDE DEF kept
  <2> QED BY <1>5, <1>6, <2>1
<1>8. f[n] # <<>>
  <2> HIDE DEF kept, Keeps, Value
  <2> QED BY <1>5, <1>7, EmptySeq
<1> QED BY <1>1, <1>7, <1>8

-----------------------------------------------------------------------------
(* What typing makes of a name.                                             *)

(* SITE is a plain name.                                                    *)
LEMMA PlainSite == Plain(<<"SITE">>)
<1> DEFINE q == <<"SITE">>
           e == ""
<1>1. q \in Names /\ Len(q) = 1 /\ q[1] # e
  BY SiteIs
<1>3. Plain(q) <=> \A i \in 1..Len(q) : q[i] # e
  BY SiteIs, PlainIs, Zenon
<1> HIDE DEF q, e
<1>4. \A i \in 1..1 : q[i] # e
  BY <1>1
<1>2. Plain(q)
  BY <1>1, <1>3, <1>4
<1> QED BY <1>2 DEF q

(* SITE- and something.                                                     *)
LEMMA SitePrefix ==
  ASSUME NEW m \in Names \ {<<>>}
  PROVE  /\ <<"SITE">> \o m \in Names \ {<<>>}
         /\ Len(<<"SITE">> \o m) \in Nat /\ Len(<<"SITE">> \o m) > 1
         /\ (<<"SITE">> \o m)[1] = "SITE"
         /\ Plain(m) => Plain(<<"SITE">> \o m)
<1>1. Len(m) \in Nat /\ Len(m) > 0
  BY NameIs
<1>2. Plain(m) => Plain(<<"SITE">> \o m)
  BY PlainSite, PlainJoined, SiteIs
<1> HIDE DEF Plain
<1> QED BY <1>1, <1>2, SiteThen

(* A code without SITE- and without the dashes around it.                   *)
LEMMA CodeIs ==
  ASSUME NEW code \in Names \ {<<>>}
  PROVE  LET m == LStrip(RStrip(WithoutSite(code))) IN
         m \in Names \ {<<>>} /\ (Plain(code) => Plain(m))
<1> DEFINE c == WithoutSite(code)
<1>1. c \in Names \ {<<>>}
  <2>1. \A i \in 1..Len(code) : code[i] \in Words \/ (code[i] = "SITE" /\ i < Len(code))
    BY NameIs
  <2> QED BY <2>1, WithoutSiteIs DEF Names
<1>2. ASSUME Plain(code) PROVE Plain(c)
  <2> DEFINE V == Words \ {""}
  <2>1. \A i \in 1..Len(code) : code[i] \in Words /\ code[i] # ""
    BY <1>2, PlainIs, NameIs
  <2>2. \A i \in 1..Len(code) : code[i] \in V \/ (code[i] = "SITE" /\ i < Len(code))
    BY <2>1
  <2> HIDE DEF V
  <2>3. c \in Seq(V) \ {<<>>}
    BY <2>2, WithoutSiteIs
  <2> HIDE DEF c
  <2>4. \A i \in 1..Len(c) : c[i] \in V
    BY <2>3
  <2>5. \A i \in 1..Len(c) : c[i] # ""
    BY <2>4 DEF V
  <2> QED BY <1>1, <2>5, PlainIs
<1> HIDE DEF c
<1>3. RStrip(c) \in Names \ {<<>>} /\ (Plain(c) => RStrip(c) = c)
  BY <1>1, RStripIs
<1>4. LStrip(RStrip(c)) \in Names \ {<<>>} /\ (Plain(c) => LStrip(RStrip(c)) = c)
  BY <1>1, <1>3, LStripIs
<1> QED BY <1>2, <1>3, <1>4 DEF c

(* A tenant's id begins with ORG- and goes on.                              *)
LEMMA OrgIs ==
  ASSUME NEW t \in Names, Under(t, <<"ORG">>)
  PROVE  Len(t) \in Nat /\ Len(t) > 1 /\ t[1] = "ORG" /\ t[2] \in Words
         /\ (Plain(t) => t[2] # "")
<1> DEFINE q == <<"ORG">>
<1>1. q \in Names /\ Len(q) = 1 /\ q[1] = "ORG"
  BY OnePart, NamingAssumption, Zenon DEF NamingAssumption
<1>2. Under(t, q)
  OBVIOUS
<1> HIDE DEF q
<1>3. Len(t) \in Nat /\ Len(t) > 1 /\ \A i \in 1..1 : t[i] = q[i]
  BY <1>1, <1>2, UnderIs, NameIs
<1>4. t[1] = q[1]
  BY <1>3
<1>5. 2 \in 1..Len(t)
  BY <1>3
<1>6. t[2] \in Words
  BY <1>5, NameIs
<1>7. Plain(t) => t[2] # ""
  BY <1>5, PlainIs
<1> QED BY <1>1, <1>3, <1>4, <1>6, <1>7

(* The prefix of a tenant is SITE- and something.                           *)
LEMMA PrefixIs ==
  ASSUME NEW t \in Names \ {<<>>}, NEW code \in Names
  PROVE  LET p == DeriveFacilityPrefix(t, code) IN
         /\ p \in Names \ {<<>>} /\ Len(p) \in Nat /\ Len(p) > 1 /\ p[1] = "SITE"
         /\ Plain(t) /\ Plain(code) => Plain(p)
<1>1. ASSUME code # <<>>
      PROVE  \E m \in Names \ {<<>>} : DeriveFacilityPrefix(t, code) = <<"SITE">> \o m
                                       /\ (Plain(code) => Plain(m))
  <2>1. DeriveFacilityPrefix(t, code) = <<"SITE">> \o LStrip(RStrip(WithoutSite(code)))
    BY <1>1 DEF DeriveFacilityPrefix
  <2> QED BY <1>1, <2>1, CodeIs
<1>2. ASSUME code = <<>>, Under(t, <<"ORG">>)
      PROVE  \E m \in Names \ {<<>>} : DeriveFacilityPrefix(t, code) = <<"SITE">> \o m
                                       /\ (Plain(t) => Plain(m))
  <2> DEFINE m == <<t[2]>>
  <2>1. DeriveFacilityPrefix(t, code) = <<"SITE">> \o m
    BY <1>2 DEF DeriveFacilityPrefix
  <2>2. t[2] \in Words /\ (Plain(t) => t[2] # "")
    BY <1>2, OrgIs
  <2>3. m \in Names \ {<<>>} /\ Len(m) = 1 /\ m[1] = t[2]
    BY <2>2, OnePart
  <2> HIDE DEF m
  <2>4. ASSUME Plain(t) PROVE Plain(m)
    <3> DEFINE e == ""
    <3>1. Plain(m) <=> \A i \in 1..Len(m) : m[i] # e
      BY <2>3, PlainIs, Zenon
    <3>2. m[1] # e
      BY <2>2, <2>3, <2>4
    <3> HIDE DEF e
    <3>3. \A i \in 1..1 : m[i] # e
      BY <3>2
    <3> QED BY <2>3, <3>1, <3>3
  <2> QED BY <2>1, <2>3, <2>4
<1>3. ASSUME code = <<>>, ~ Under(t, <<"ORG">>)
      PROVE  DeriveFacilityPrefix(t, code) = <<"SITE">> \o t
  BY <1>3 DEF DeriveFacilityPrefix
<1>4. PICK m \in Names \ {<<>>} : DeriveFacilityPrefix(t, code) = <<"SITE">> \o m
                                  /\ (Plain(t) /\ Plain(code) => Plain(m))
  BY <1>1, <1>2, <1>3, Zenon
<1> QED BY <1>4, SitePrefix

(* What the checks leave of a facility's name n, typed as x.                *)
FacilityCases(n, t, p, short, y) ==
  \/ Under(n, p) /\ y = Suffixed(p, Without(p, n))
  \/ ~ Under(n, p) /\ Under(n, short) /\ y = Suffixed(p, Without(short, n))
  \/ /\ ~ Under(n, p) /\ ~ Under(n, short) /\ Under(n, <<"SITE">> \o t)
     /\ y = (<<"SITE">> \o t) \o LStrip(Without(<<"SITE">> \o t, n))
  \/ Under(n, t) /\ y = (<<"SITE">> \o t) \o LStrip(Without(t, n))
  \/ ~ Under(n, <<"SITE">>) /\ y = p \o LStrip(n)

(* The short form of a prefix, as an empty suffix leaves it.                *)
Short(p) == RStrip(WithoutSite(p \o <<"">>))

(* A facility is given its name by one of these.                            *)
LEMMA FacilityIs ==
  ASSUME NEW t, NEW code, NEW x,
         ValidateOrApplyFacilityPrefix(x, t, code, TRUE) # Refused
  PROVE  /\ ~ Blank(x)
         /\ LET p == DeriveFacilityPrefix(t, code) IN
            FacilityCases(Deduplicate(x, p), t, p, Short(p),
                          ValidateOrApplyFacilityPrefix(x, t, code, TRUE))
<1> DEFINE p == DeriveFacilityPrefix(t, code)
           n == Deduplicate(x, p)
           y == ValidateOrApplyFacilityPrefix(x, t, code, TRUE)
           u == <<"SITE">> \o t
<1>1. /\ ~ Blank(x)
      /\ y = IF Under(n, p)              THEN Suffixed(p, Without(p, n))
             ELSE IF Under(n, Short(p))  THEN Suffixed(p, Without(Short(p), n))
             ELSE IF Under(n, u)         THEN u \o LStrip(Without(u, n))
             ELSE IF Under(n, t)         THEN u \o LStrip(Without(t, n))
             ELSE IF ~ Under(n, <<"SITE">>) THEN p \o LStrip(n)
             ELSE Refused
  BY DEF ValidateOrApplyFacilityPrefix, Short
<1> HIDE DEF p, n, y
<1>2. y # Refused
  BY DEF y
<1>3. FacilityCases(n, t, p, Short(p), y)
  BY <1>1, <1>2, Zenon DEF FacilityCases
<1> QED BY <1>1, <1>3, Zenon DEF n, p, y

(* The short form of a prefix does not begin with SITE.                     *)
LEMMA ShortIs ==
  ASSUME NEW p \in Names
  PROVE  Short(p) \in Names \ {<<>>} /\ Short(p)[1] # "SITE"
<1> DEFINE e == <<"">>
           x == p \o e
           c == WithoutSite(x)
           V == Words \ {"SITE"}
<1>1. e \in Names \ {<<>>} /\ Len(e) = 1 /\ e[1] = ""
  BY OnePart, NamingAssumption, Zenon DEF NamingAssumption
<1> HIDE DEF e
<1>2. /\ x \in Names /\ x # <<>> /\ Len(p) \in Nat /\ Len(x) = Len(p) + 1
      /\ x[Len(p) + 1] = ""
  <2>0. 1 \in 1..1
    OBVIOUS
  <2>1. Len(p) \in Nat /\ 1 \in 1..Len(e)
    BY <1>1, <2>0, NameIs, Zenon
  <2>2. /\ x \in Names /\ Len(x) = Len(p) + Len(e)
        /\ \A i \in 1..Len(e) : x[Len(p) + i] = e[i]
    BY <1>1, Joined
  <2>3. x # <<>>
    BY <1>1, JoinedUnder
  <2> HIDE DEF x
  <2>4. x[Len(p) + 1] = e[1]
    BY <2>1, <2>2
  <2> QED BY <1>1, <2>1, <2>2, <2>3, <2>4
<1> HIDE DEF x
<1>3. ASSUME NEW i \in 1..Len(x) PROVE x[i] \in V \/ (x[i] = "SITE" /\ i < Len(x))
  <2>1. x[i] \in Words
    BY <1>2, NameIs
  <2>2. i = Len(p) + 1 => x[i] = ""
    BY <1>2, Zenon
  <2>4. Len(x) = Len(p) + 1
    BY <1>2
  <2>7. Len(x) \in Nat
    BY <1>2, NameIs
  <2>3. i = Len(x) \/ i < Len(x)
    BY <2>7
  <2>5. CASE i = Len(x)
    BY <2>1, <2>2, <2>4, <2>5
  <2>6. CASE i < Len(x)
    BY <2>1, <2>6
  <2> QED BY <2>3, <2>5, <2>6
<1> HIDE DEF V
<1>4. c \in Seq(V) \ {<<>>}
  BY <1>2, <1>3, WithoutSiteIs
<1>5. c \in Names
  <2>1. \A i \in 1..Len(x) : x[i] \in Words \/ (x[i] = "SITE" /\ i < Len(x))
    BY <1>2, NameIs
  <2> QED BY <1>2, <2>1, WithoutSiteIs DEF Names
<1> HIDE DEF c
<1>6. c[1] \in V
  <2>1. Len(c) \in Nat /\ Len(c) # 0
    BY <1>4, <1>5, NameIs
  <2>2. 1 \in 1..Len(c)
    BY <2>1
  <2> QED BY <1>4, <2>2
<1>7. RStrip(c) \in Names \ {<<>>} /\ RStrip(c)[1] \in {"", c[1]}
  BY <1>5, RStripIs
<1>8. RStrip(c)[1] # "SITE"
  BY <1>6, <1>7 DEF V
<1>9. Short(p) = RStrip(c)
  BY DEF Short, c, x, e
<1> QED BY <1>7, <1>8, <1>9

(* Whatever is typed becomes a name under the prefix, or under SITE- and    *)
(* the tenant's id, or is refused.                                          *)
LEMMA FacilityForm ==
  ASSUME NEW t \in Names \ {<<>>}, NEW code \in Names, NEW x \in Names,
         ValidateOrApplyFacilityPrefix(x, t, code, TRUE) # Refused
  PROVE  LET y == ValidateOrApplyFacilityPrefix(x, t, code, TRUE) IN
         /\ y \in Names \ {<<>>} /\ Len(y) \in Nat /\ Len(y) > 1 /\ y[1] = "SITE"
         /\ Under(y, DeriveFacilityPrefix(t, code)) \/ Under(y, <<"SITE">> \o t)
         /\ Plain(x) /\ Plain(t) /\ Plain(code) => Plain(y)
<1> DEFINE p == DeriveFacilityPrefix(t, code)
           u == <<"SITE">> \o t
           s == Short(p)
           n == Deduplicate(x, p)
           y == ValidateOrApplyFacilityPrefix(x, t, code, TRUE)
<1>1. /\ p \in Names \ {<<>>} /\ Len(p) \in Nat /\ Len(p) > 1 /\ p[1] = "SITE"
      /\ Plain(t) /\ Plain(code) => Plain(p)
  BY PrefixIs
<1>2. /\ u \in Names \ {<<>>} /\ Len(u) \in Nat /\ Len(u) > 1 /\ u[1] = "SITE"
      /\ Plain(t) => Plain(u)
  BY SitePrefix
<1>3. y # Refused /\ FacilityCases(n, t, p, s, y)
  BY FacilityIs
<1>4. n \in Names /\ (Plain(x) => Plain(n))
  <2> HIDE DEF p
  <2> QED BY <1>1, DeduplicateIs, PlainDeduplicate
<1>5. s \in Names
  <2> HIDE DEF p
  <2> QED BY <1>1, ShortIs
<1> HIDE DEF p, u, s, n, y, Plain
<1>6. ASSUME NEW q \in Names, Under(n, q)
      PROVE  Without(q, n) \in Names \ {<<>>} /\ (Plain(x) => Plain(Without(q, n)))
  <2>1. Len(q) <= Len(n)
    BY <1>4, <1>6, UnderIs, NameIs
  <2> QED BY <1>4, <1>6, <2>1, UnderJoined, PlainWithout
<1>7. ASSUME NEW q \in {p, u}, NEW z \in Names \ {<<>>}, Plain(x) => Plain(z),
             y = q \o LStrip(z)
      PROVE  /\ y \in Names \ {<<>>}
             /\ Under(y, p) \/ Under(y, u)
             /\ Plain(x) /\ Plain(t) /\ Plain(code) => Plain(y)
  <2>1. LStrip(z) \in Names \ {<<>>} /\ (Plain(z) => LStrip(z) = z)
    BY LStripIs
  <2>2. y \in Names \ {<<>>} /\ Under(y, q)
    BY <1>1, <1>2, <1>7, <2>1, JoinedUnder
  <2>3. Plain(x) /\ Plain(t) /\ Plain(code) => Plain(y)
    BY <1>1, <1>2, <1>7, <2>1, PlainJoined
  <2> QED BY <1>7, <2>2, <2>3
<1>8. \A q, z : Suffixed(q, z) # Refused => Suffixed(q, z) = q \o LStrip(z)
  BY DEF Suffixed
<1>9. /\ y \in Names \ {<<>>}
      /\ Under(y, p) \/ Under(y, u)
      /\ Plain(x) /\ Plain(t) /\ Plain(code) => Plain(y)
  <2>1. CASE Under(n, p) /\ y = Suffixed(p, Without(p, n))
    BY <1>1, <1>3, <1>6, <1>7, <1>8, <2>1, Zenon
  <2>2. CASE Under(n, s) /\ y = Suffixed(p, Without(s, n))
    BY <1>3, <1>5, <1>6, <1>7, <1>8, <2>2, Zenon
  <2>3. CASE Under(n, u) /\ y = u \o LStrip(Without(u, n))
    BY <1>2, <1>6, <1>7, <2>3, Zenon
  <2>4. CASE Under(n, t) /\ y = u \o LStrip(Without(t, n))
    BY <1>6, <1>7, <2>4, Zenon
  <2>5. CASE y = p \o LStrip(n)
    <3>1. n # <<>>
      <4>1. ~ Blank(x)
        BY FacilityIs
      <4>2. x # <<>>
        <5>1. DOMAIN <<>> = {}
          OBVIOUS
        <5> QED BY <4>1, <5>1, Zenon DEF Blank
      <4>3. n = x \/ Under(n, p)
        BY <1>1, DeduplicateIs DEF n
      <4>4. Under(n, p) => n # <<>>
        BY <1>1, <1>4, UnderIs, NameIs
      <4> QED BY <4>2, <4>3, <4>4
    <3> QED BY <1>4, <1>7, <2>5, <3>1, Zenon
  <2> QED BY <1>3, <2>1, <2>2, <2>3, <2>4, <2>5, Zenon DEF FacilityCases, u
<1>10. Len(y) \in Nat /\ Len(y) > 1 /\ y[1] = "SITE"
  <2>1. PICK q \in {p, u} : Under(y, q)
    BY <1>9
  <2>2. q \in Names /\ Len(q) \in Nat /\ Len(q) > 1 /\ q[1] = "SITE"
    BY <1>1, <1>2
  <2>3. Len(y) > Len(q) /\ \A i \in 1..Len(q) : y[i] = q[i]
    BY <1>9, <2>1, <2>2, UnderIs
  <2>4. Len(y) \in Nat
    BY <1>9, NameIs
  <2> QED BY <2>2, <2>3, <2>4
<1> QED BY <1>9, <1>10 DEF y, p, u

(* A suffix without empty parts is taken as it is.                          *)
LEMMA PlainSuffixed ==
  ASSUME NEW p \in Names, NEW z \in Names \ {<<>>}, Plain(z)
  PROVE  Suffixed(p, z) = p \o z
<1> DEFINE e == <<"">>
<1>1. LStrip(z) = z
  BY LStripIs
<1>2. e[1] = "" /\ Len(e) = 1
  OBVIOUS
<1> HIDE DEF e
<1>3. ASSUME z = e PROVE FALSE
  <2>1. Len(z) = 1 /\ z[1] = ""
    BY <1>2, <1>3
  <2>2. 1 \in 1..1
    OBVIOUS
  <2>3. z[1] # ""
    BY <2>1, <2>2, PlainIs, Zenon
  <2> QED BY <2>1, <2>3
<1>4. z # e
  BY <1>3
<1> QED BY <1>1, <1>4 DEF Suffixed, e

(* What is found under a prefix and put under it again.                     *)
LEMMA PlainAgain ==
  ASSUME NEW p \in Names, NEW n \in Names, Plain(n), Under(n, p)
  PROVE  /\ Suffixed(p, Without(p, n)) = n
         /\ p \o LStrip(Without(p, n)) = n
<1>1. Without(p, n) \in Names \ {<<>>} /\ p \o Without(p, n) = n
  BY UnderJoined
<1>2. Len(p) <= Len(n)
  BY UnderIs, NameIs
<1>3. Plain(Without(p, n))
  BY <1>2, PlainWithout
<1>4. LStrip(Without(p, n)) = Without(p, n)
  BY <1>1, <1>3, LStripIs
<1> QED BY <1>1, <1>3, <1>4, PlainSuffixed

(* A plain name has a part.                                                 *)
LEMMA PlainTyped ==
  ASSUME NEW x \in Names \ {<<>>}, Plain(x)
  PROVE  ~ Blank(x)
<1>1. Len(x) \in Nat /\ Len(x) # 0 /\ DOMAIN x = 1..Len(x)
  BY NameIs
<1>2. 1 \in DOMAIN x
  BY <1>1
<1>3. x[1] # ""
  BY <1>1, <1>2, PlainIs, Zenon
<1> QED BY <1>2, <1>3, Zenon DEF Blank

(* A plain name under SITE- is kept, its prefix once, or refused.           *)
LEMMA FacilityRead ==
  ASSUME NEW t \in Names, Under(t, <<"ORG">>), Plain(t),
         NEW x \in Names, Plain(x), Len(x) > 1, x[1] = "SITE"
  PROVE  LET p == DeriveFacilityPrefix(t, <<>>)
             n == Deduplicate(x, p)
         IN  ValidateOrApplyFacilityPrefix(x, t, <<>>, TRUE)
               = IF Under(n, p) \/ Under(n, <<"SITE">> \o t) THEN n ELSE Refused
<1> DEFINE p == DeriveFacilityPrefix(t, <<>>)
           u == <<"SITE">> \o t
           n == Deduplicate(x, p)
           s == Short(p)
           y == ValidateOrApplyFacilityPrefix(x, t, <<>>, TRUE)
<1>1. t \in Names \ {<<>>} /\ Len(t) \in Nat /\ Len(t) > 1 /\ t[1] = "ORG"
  <2>1. Len(t) \in Nat /\ Len(t) > 1 /\ t[1] = "ORG"
    BY OrgIs
  <2> QED BY <2>1, NameIs
<1>2. p \in Names \ {<<>>} /\ Len(p) \in Nat /\ Len(p) > 1 /\ p[1] = "SITE"
  <2>1. <<>> \in Names
    BY EmptySeq DEF Names
  <2> QED BY <1>1, <2>1, PrefixIs
<1>3. u \in Names
  BY <1>1, SitePrefix
<1>4. s \in Names \ {<<>>} /\ s[1] # "SITE"
  <2> HIDE DEF p
  <2> QED BY <1>2, ShortIs
<1>5. /\ y = IF Blank(x)                 THEN Refused
             ELSE IF Under(n, p)         THEN Suffixed(p, Without(p, n))
             ELSE IF Under(n, s)         THEN Suffixed(p, Without(s, n))
             ELSE IF Under(n, u)         THEN u \o LStrip(Without(u, n))
             ELSE IF Under(n, t)         THEN u \o LStrip(Without(t, n))
             ELSE IF ~ Under(n, <<"SITE">>) THEN p \o LStrip(n)
             ELSE Refused
  BY DEF ValidateOrApplyFacilityPrefix, Short
<1> HIDE DEF p, u, s, y
<1>6. n \in Names /\ (n = x \/ Under(n, p)) /\ Plain(n)
  BY <1>2, DeduplicateIs, PlainDeduplicate
<1> HIDE DEF n
<1>7. Len(n) \in Nat /\ Len(n) > 1 /\ n[1] = "SITE"
  <2>1. CASE n = x
    BY <2>1, NameIs
  <2>2. CASE Under(n, p)
    <3>1. Len(n) > Len(p) /\ \A i \in 1..Len(p) : n[i] = p[i]
      BY <1>2, <1>6, <2>2, UnderIs
    <3>2. Len(n) \in Nat /\ 1 \in 1..Len(p)
      BY <1>2, <1>6, NameIs
    <3>3. n[1] = p[1]
      BY <3>1, <3>2
    <3> QED BY <1>2, <3>1, <3>2, <3>3
  <2> QED BY <1>6, <2>1, <2>2
<1>8. ASSUME NEW q \in Names \ {<<>>}, q[1] # "SITE" PROVE ~ Under(n, q)
  <2> SUFFICES ASSUME Under(n, q) PROVE FALSE
    OBVIOUS
  <2>1. Len(q) \in Nat /\ Len(q) # 0
    BY NameIs
  <2>2. \A i \in 1..Len(q) : n[i] = q[i]
    BY <1>6, UnderIs
  <2>3. 1 \in 1..Len(q)
    BY <2>1
  <2>4. n[1] = q[1]
    BY <2>2, <2>3
  <2> QED BY <1>7, <1>8, <2>4
<1>9. ~ Under(n, s) /\ ~ Under(n, t)
  <2>1. t[1] # "SITE"
    BY <1>1
  <2> QED BY <1>1, <1>4, <1>8, <2>1
<1>10. Under(n, <<"SITE">>)
  BY <1>6, <1>7, UnderSite
<1>11. ~ Blank(x)
  <2>1. x # <<>>
    <3>1. Len(x) # 0
      OBVIOUS
    <3> QED BY <3>1, NameIs
  <2> QED BY <2>1, PlainTyped
<1>12. Under(n, p) => Suffixed(p, Without(p, n)) = n
  BY <1>2, <1>6, PlainAgain
<1>13. Under(n, u) => u \o LStrip(Without(u, n)) = n
  BY <1>3, <1>6, PlainAgain
<1>14. y = IF Under(n, p) \/ Under(n, u) THEN n ELSE Refused
  BY <1>5, <1>9, <1>10, <1>11, <1>12, <1>13, Zenon
<1> QED BY <1>14, Zenon DEF y, n, p, u

(* So that what is accepted is accepted as it is from then on.              *)
LEMMA FacilitySettled ==
  ASSUME NEW t \in Names, Under(t, <<"ORG">>), Plain(t),
         NEW x \in Names, Plain(x), Len(x) > 1, x[1] = "SITE",
         ValidateOrApplyFacilityPrefix(x, t, <<>>, TRUE) # Refused
  PROVE  LET y == ValidateOrApplyFacilityPrefix(x, t, <<>>, TRUE) IN
         ValidateOrApplyFacilityPrefix(y, t, <<>>, TRUE) = y
<1> DEFINE V(z) == ValidateOrApplyFacilityPrefix(z, t, <<>>, TRUE)
           p == DeriveFacilityPrefix(t, <<>>)
           u == <<"SITE">> \o t
           n == Deduplicate(x, p)
<1>1. V(x) = IF Under(n, p) \/ Under(n, u) THEN n ELSE Refused
  BY FacilityRead
<1>2. t \in Names \ {<<>>} /\ <<>> \in Names
  <2>1. Len(t) \in Nat /\ Len(t) > 1
    BY OrgIs
  <2> QED BY <2>1, NameIs, EmptySeq DEF Names
<1>3. p \in Names \ {<<>>}
  BY <1>2, PrefixIs
<1>4. V(x) = n /\ (Under(n, p) \/ Under(n, u))
  <2> HIDE DEF p, u, n
  <2> QED BY <1>1
<1>5. n \in Names \ {<<>>} /\ Len(n) > 1 /\ n[1] = "SITE"
  BY <1>2, <1>4, FacilityForm, Zenon
<1> HIDE DEF p
<1>6. Plain(n) /\ RepeatsOf(n, p) = {}
  BY <1>3, DeduplicateIs, PlainDeduplicate
<1> HIDE DEF n
<1>7. Deduplicate(n, p) = n
  BY <1>3, <1>5, <1>6, DeduplicateFixed
<1>8. V(n) = IF Under(Deduplicate(n, p), p) \/ Under(Deduplicate(n, p), u)
             THEN Deduplicate(n, p) ELSE Refused
  BY <1>5, <1>6, FacilityRead DEF p
<1>9. V(n) = n
  <2> HIDE DEF V, u
  <2> QED BY <1>4, <1>7, <1>8
<1> QED BY <1>4, <1>9

(* The name of a facility that was typed and accepted is settled.           *)
LEMMA FacilitiesAre ==
  ASSUME NEW t \in Names, Under(t, <<"ORG">>), Plain(t), NEW code \in Names, Plain(code),
         NEW f \in Names, Plain(f), FacilityId(t, code, f) # Refused
  PROVE  ValidateOrApplyFacilityPrefix(FacilityId(t, code, f), t, <<>>, TRUE)
           = FacilityId(t, code, f)
<1> DEFINE z == ValidateOrApplyFacilityPrefix(f, t, code, TRUE)
<1>1. z # Refused /\ FacilityId(t, code, f) = ValidateOrApplyFacilityPrefix(z, t, <<>>, TRUE)
  BY DEF FacilityId
<1>2. t \in Names \ {<<>>}
  <2>1. Len(t) \in Nat /\ Len(t) > 1
    BY OrgIs
  <2> QED BY <2>1, NameIs
<1>3. z \in Names /\ Len(z) > 1 /\ z[1] = "SITE" /\ Plain(z)
  BY <1>1, <1>2, FacilityForm
<1> HIDE DEF z
<1> QED BY <1>1, <1>3, FacilitySettled

-----------------------------------------------------------------------------
(* Devices.                                                                 *)

(* Whatever is typed becomes a name under the facility's, without the       *)
(* dashes at its end, or is refused.                                        *)
LEMMA DeviceForm ==
  ASSUME NEW f \in Names \ {<<>>}, NEW x \in Names,
         ValidateOrApplyDevicePrefix(x, f, TRUE) # Refused
  PROVE  LET y == ValidateOrApplyDevicePrefix(x, f, TRUE) IN
         /\ y \in Names \ {<<>>} /\ Under(y, RStrip(f))
         /\ Plain(x) /\ Plain(f) => Plain(y)
<1> DEFINE p == RStrip(f)
           n == Deduplicate(x, p)
           s == RStrip(Tail(f))
           y == ValidateOrApplyDevicePrefix(x, f, TRUE)
<1>1. p \in Names \ {<<>>} /\ (Plain(f) => p = f)
  BY RStripIs
<1>2. s \in Names
  BY TailIs, RStripIs
<1>3. ~ Blank(x)
  BY DEF ValidateOrApplyDevicePrefix
<1>4. \/ Under(n, p) /\ y = Suffixed(p, Without(p, n))
      \/ Under(n, s) /\ y = p \o LStrip(Without(s, n))
      \/ y = p \o LStrip(n)
  BY DEF ValidateOrApplyDevicePrefix
<1>5. y # Refused
  OBVIOUS
<1> HIDE DEF p, s, y, Plain
<1>6. n \in Names /\ (n = x \/ Under(n, p)) /\ (Plain(x) => Plain(n))
  BY <1>1, DeduplicateIs, PlainDeduplicate
<1> HIDE DEF n
<1>7. ASSUME NEW q \in Names, Under(n, q)
      PROVE  Without(q, n) \in Names \ {<<>>} /\ (Plain(x) => Plain(Without(q, n)))
  <2>1. Len(q) <= Len(n)
    BY <1>6, <1>7, UnderIs, NameIs
  <2> QED BY <1>6, <1>7, <2>1, UnderJoined, PlainWithout
<1>8. ASSUME NEW z \in Names \ {<<>>}, Plain(x) => Plain(z), y = p \o LStrip(z)
      PROVE  /\ y \in Names \ {<<>>} /\ Under(y, p)
             /\ Plain(x) /\ Plain(f) => Plain(y)
  <2>1. LStrip(z) \in Names \ {<<>>} /\ (Plain(z) => LStrip(z) = z)
    BY LStripIs
  <2>2. y \in Names \ {<<>>} /\ Under(y, p)
    BY <1>1, <1>8, <2>1, JoinedUnder
  <2>3. Plain(x) /\ Plain(f) => Plain(y)
    BY <1>1, <1>8, <2>1, PlainJoined
  <2> QED BY <2>2, <2>3
<1>9. /\ y \in Names \ {<<>>} /\ Under(y, p)
      /\ Plain(x) /\ Plain(f) => Plain(y)
  <2>1. CASE Under(n, p) /\ y = Suffixed(p, Without(p, n))
    <3>1. y = p \o LStrip(Without(p, n))
      BY <1>5, <2>1 DEF Suffixed
    <3> QED BY <1>1, <1>7, <1>8, <2>1, <3>1, Zenon
  <2>2. CASE Under(n, s) /\ y = p \o LStrip(Without(s, n))
    BY <1>2, <1>7, <1>8, <2>2, Zenon
  <2>3. CASE y = p \o LStrip(n)
    <3>1. n # <<>>
      <4>1. x # <<>>
        <5>1. DOMAIN <<>> = {}
          OBVIOUS
        <5> QED BY <1>3, <5>1, Zenon DEF Blank
      <4>2. Under(n, p) => n # <<>>
        BY <1>1, <1>6, UnderIs, NameIs
      <4> QED BY <1>6, <4>1, <4>2
    <3> QED BY <1>6, <1>8, <2>3, <3>1, Zenon
  <2> QED BY <1>4, <2>1, <2>2, <2>3, Zenon
<1> QED BY <1>9 DEF y, p

(* A plain name under that of its facility is kept, the prefix once.        *)
LEMMA DeviceRead ==
  ASSUME NEW f \in Names \ {<<>>}, Plain(f), NEW x \in Names \ {<<>>}, Plain(x), Under(x, f)
  PROVE  /\ ValidateOrApplyDevicePrefix(x, f, TRUE) = Deduplicate(x, f)
         /\ Deduplicate(x, f) \in Names \ {<<>>} /\ Plain(Deduplicate(x, f))
         /\ Under(Deduplicate(x, f), f)
<1> DEFINE n == Deduplicate(x, f)
<1>1. RStrip(f) = f
  BY RStripIs
<1>2. n \in Names /\ Under(n, f) /\ Plain(n)
  BY DeduplicateIs, PlainDeduplicate
<1>3. ~ Blank(x)
  BY PlainTyped
<1>4. n # <<>>
  <2>1. Len(n) > Len(f) /\ Len(f) \in Nat
    BY <1>2, UnderIs, NameIs
  <2> HIDE DEF n
  <2> QED BY <1>2, <2>1, NameIs
<1>5. Suffixed(f, Without(f, n)) = n
  <2> HIDE DEF n
  <2> QED BY <1>2, PlainAgain
<1>6. ValidateOrApplyDevicePrefix(x, f, TRUE) = Suffixed(f, Without(f, n))
  BY <1>1, <1>2, <1>3, Zenon DEF ValidateOrApplyDevicePrefix
<1> QED BY <1>2, <1>4, <1>5, <1>6

(* The name of a device that was typed and accepted is under its            *)
(* facility's, and settled.                                                 *)
LEMMA DevicesAre ==
  ASSUME NEW f \in Names \ {<<>>}, NEW x \in Names, DeviceId(f, x) # Refused
  PROVE  LET id == DeviceId(f, x) IN
         /\ id \in Names \ {<<>>} /\ Under(id, RStrip(f))
         /\ Plain(f) /\ Plain(x) => ValidateOrApplyDevicePrefix(id, f, TRUE) = id
<1> DEFINE z == ValidateOrApplyDevicePrefix(x, f, TRUE)
           y == ValidateOrApplyDevicePrefix(z, f, TRUE)
<1>1. z # Refused /\ y # Refused /\ DeviceId(f, x) = y
  BY DEF DeviceId
<1>2. z \in Names \ {<<>>} /\ Under(z, RStrip(f)) /\ (Plain(x) /\ Plain(f) => Plain(z))
  BY <1>1, DeviceForm
<1> HIDE DEF z
<1>3. y \in Names \ {<<>>} /\ Under(y, RStrip(f))
  BY <1>1, <1>2, DeviceForm
<1>4. ASSUME Plain(f), Plain(x) PROVE ValidateOrApplyDevicePrefix(y, f, TRUE) = y
  <2> DEFINE n == Deduplicate(z, f)
  <2>1. Under(z, f) /\ Plain(z)
    BY <1>2, <1>4, RStripIs
  <2>2. y = n /\ n \in Names \ {<<>>} /\ Plain(n) /\ Under(n, f)
    BY <1>2, <1>4, <2>1, DeviceRead
  <2>3. RepeatsOf(n, f) = {}
    BY <1>2, DeduplicateIs
  <2> HIDE DEF n, y
  <2>4. Deduplicate(n, f) = n
    BY <2>2, <2>3, DeduplicateFixed
  <2>5. ValidateOrApplyDevicePrefix(n, f, TRUE) = Deduplicate(n, f)
    BY <1>4, <2>2, DeviceRead
  <2> QED BY <2>2, <2>4, <2>5
<1> QED BY <1>1, <1>3, <1>4

-----------------------------------------------------------------------------
(* Who a credential stands for.                                             *)

(* The first of some users, or 0 where there is none.                       *)
LEMMA FirstOfIs ==
  ASSUME NEW S, S \subseteq Nat \ {0}
  PROVE  IF S = {} THEN FirstOf(S) = 0 ELSE FirstOf(S) \in S /\ \A k \in S : FirstOf(S) <= k
BY MinIn DEF FirstOf

(* The operator of a credential is ACTIVE, and the first user the           *)
(* credential fits.                                                         *)
LEMMA OperatorIs ==
  ASSUME NEW w, DOMAIN users[w] \subseteq Nat \ {0}, NEW c
  PROVE  LET i == GetOperatorFromToken(w, c) IN
         i # 0 => /\ i \in DOMAIN users[w] /\ users[w][i].status = "ACTIVE"
                  /\ c \in {Session(users[w][i].email, users[w][i].tenant), Stored(i)}
                  /\ \A j \in DOMAIN users[w] :
                       /\ users[w][j].status = "ACTIVE"
                       /\ c \in {Session(users[w][j].email, users[w][j].tenant), Stored(j)}
                       => i <= j
<1> DEFINE S == {j \in DOMAIN users[w] :
                   /\ users[w][j].status = "ACTIVE"
                   /\ c \in {Session(users[w][j].email, users[w][j].tenant), Stored(j)}}
<1>1. S \subseteq Nat \ {0} /\ GetOperatorFromToken(w, c) = FirstOf(S)
  BY DEF GetOperatorFromToken
<1>2. FirstOf(S) # 0 => FirstOf(S) \in S /\ \A k \in S : FirstOf(S) <= k
  <2> HIDE DEF S
  <2> QED BY <1>1, FirstOfIs
<1> QED BY <1>1, <1>2

(* Login looks for the email, the session for email and tenant: the first.  *)
LEMMA LoginActsAs ==
  ASSUME \A w \in Workers : DOMAIN users[w] \subseteq Nat \ {0}
  PROVE  LoginIsHonoured
<1> SUFFICES ASSUME NEW w \in Workers, NEW e \in Emails, NEW n \in Tenants \cup {NoTenant},
                    OperatorLogin(w, e, n) # 0
             PROVE  GetOperatorFromToken(w, Session(e, users[w][OperatorLogin(w, e, n)].tenant))
                      = OperatorLogin(w, e, n)
  BY DEF LoginIsHonoured
<1> DEFINE E == {i \in DOMAIN users[w] : users[w][i].email = e}
           i == FirstOf(E)
           c == Session(e, users[w][i].tenant)
           S == {j \in DOMAIN users[w] :
                   /\ users[w][j].status = "ACTIVE"
                   /\ c \in {Session(users[w][j].email, users[w][j].tenant), Stored(j)}}
<1>1. OperatorLogin(w, e, n) = i /\ i # 0 /\ users[w][i].status = "ACTIVE"
  BY DEF OperatorLogin
<1>2. E \subseteq Nat \ {0}
  OBVIOUS
<1>3. i \in E /\ \A k \in E : i <= k
  <2> HIDE DEF E
  <2> QED BY <1>1, <1>2, FirstOfIs
<1>4. c # Stored(i) /\ \A j \in DOMAIN users[w] : c # Stored(j)
  BY DEF Session, Stored
<1>5. i \in S
  BY <1>1, <1>3
<1>6. S \subseteq E
  BY <1>4 DEF Session
<1>7. S \subseteq Nat \ {0}
  OBVIOUS
<1>8. FirstOf(S) \in S /\ \A k \in S : FirstOf(S) <= k
  <2> HIDE DEF S, i
  <2> QED BY <1>5, <1>7, FirstOfIs
<1>9. FirstOf(S) = i
  <2>1. FirstOf(S) <= i /\ i <= FirstOf(S)
    BY <1>3, <1>5, <1>6, <1>8
  <2>2. FirstOf(S) \in Nat /\ i \in Nat
    BY <1>2, <1>3, <1>7, <1>8
  <2> HIDE DEF i, S
  <2> QED BY <2>1, <2>2
<1> QED BY <1>1, <1>9 DEF GetOperatorFromToken

-----------------------------------------------------------------------------

(* A device with its facility.                                              *)
Devices == [id : Names, site : Names]

(* Every store of a worker's memory is well formed.                         *)
WTypes ==
  /\ registry \in [Workers -> SUBSET Tenants]
  /\ users \in [Workers -> Seq(UserRecords)]
  /\ sites \in [Workers -> [Tenants -> SUBSET Names]]
  /\ assets \in [Workers -> [Tenants -> SUBSET Devices]]

(* A site has a name its tenant may give.                                   *)
SiteNamed(s, t) == s # <<>> /\ MayName(s, t)

(* A device was seeded, or is named after its facility.                     *)
DeviceNamed(a, t) == a \in SeedAssets[t] \/ Under(a.id, RStrip(a.site))

(* Every site and every device was seeded or is named by the rules, and a   *)
(* device's facility is there.                                              *)
Named ==
  \A w \in Workers, t \in Tenants :
    /\ \A s \in sites[w][t] : SiteNamed(s, t)
    /\ \A a \in assets[w][t] : a.site \in sites[w][t] /\ DeviceNamed(a, t)

(* The inductive invariant of the workers' memory.                          *)
MemoryInv == WTypes /\ Named

(* The users of a worker are a sequence of users.                           *)
LEMMA UsersAre ==
  ASSUME WTypes, NEW w \in Workers
  PROVE  /\ users[w] \in Seq(UserRecords) /\ Len(users[w]) \in Nat
         /\ DOMAIN users[w] = 1..Len(users[w]) /\ DOMAIN users[w] \subseteq Nat \ {0}
         /\ \A i \in DOMAIN users[w] :
              /\ users[w][i] \in UserRecords
              /\ users[w][i].email \in Emails /\ users[w][i].tenant \in Tenants
              /\ users[w][i].role \in Roles
<1>1. users[w] \in Seq(UserRecords)
  BY DEF WTypes
<1>2. Len(users[w]) \in Nat /\ DOMAIN users[w] = 1..Len(users[w])
  BY <1>1
<1>3. \A i \in DOMAIN users[w] : users[w][i] \in UserRecords
  BY <1>1
<1>4. \A u \in UserRecords : u.email \in Emails /\ u.tenant \in Tenants /\ u.role \in Roles
  BY DEF UserRecords
<1> QED BY <1>1, <1>2, <1>3, <1>4

(* A user is added after the others.                                        *)
LEMMA UserAdded ==
  ASSUME WTypes, NEW w \in Workers, NEW e \in Emails, NEW t \in Tenants, NEW r \in Roles,
         OnboardUser(w, e, t, r)
  PROVE  /\ users' \in [Workers -> Seq(UserRecords)]
         /\ \A v \in Workers : v # w => users'[v] = users[v]
         /\ users'[w] = Append(users[w], User(e, t, r))
<1>1. User(e, t, r) \in UserRecords
  BY DEF User, UserRecords, Statuses
<1>2. users' = [users EXCEPT ![w] = Append(users[w], User(e, t, r))]
  BY DEF OnboardUser
<1>3. Append(users[w], User(e, t, r)) \in Seq(UserRecords)
  BY <1>1, UsersAre, AppendProperties
<1> QED BY <1>2, <1>3 DEF WTypes

(* A user's role, status or token is replaced; everything else stays.       *)
LEMMA UserChanged ==
  ASSUME WTypes, NEW w \in Workers, NEW j \in DOMAIN users[w],
         NEW u \in UserRecords, u.tenant = users[w][j].tenant,
         users' = [users EXCEPT ![w] = [users[w] EXCEPT ![j] = u]]
  PROVE  /\ users' \in [Workers -> Seq(UserRecords)]
         /\ \A v \in Workers : v # w => users'[v] = users[v]
         /\ DOMAIN users'[w] = DOMAIN users[w]
         /\ \A k \in DOMAIN users[w] : k # j => users'[w][k] = users[w][k]
         /\ users'[w][j].tenant = users[w][j].tenant
<1> DEFINE us == [users[w] EXCEPT ![j] = u]
<1>1. /\ us \in Seq(UserRecords) /\ DOMAIN us = DOMAIN users[w]
      /\ \A k \in DOMAIN users[w] : us[k] = IF k = j THEN u ELSE users[w][k]
  BY UsersAre, ExceptSeq
<1>2. users' = [users EXCEPT ![w] = us]
  OBVIOUS
<1> HIDE DEF us
<1>3. users'[w] = us
  BY <1>2 DEF WTypes
<1> QED BY <1>1, <1>2, <1>3 DEF WTypes

(* The j-th user is replaced by one of the same tenant.                     *)
ChangesUser(w, j) ==
  \E u \in UserRecords :
    /\ u.tenant = users[w][j].tenant
    /\ users' = [users EXCEPT ![w] = [users[w] EXCEPT ![j] = u]]

(* Roles, statuses and tokens are changes of one user who stays in the      *)
(* tenant.                                                                  *)
LEMMA UserOperations ==
  ASSUME WTypes, NEW w \in Workers, NEW j \in DOMAIN users[w], NEW by
  PROVE  /\ \A r \in Roles : UpdateUserRole(w, j, r, by) => ChangesUser(w, j)
         /\ \A s \in Statuses : UpdateUserStatus(w, j, s, by) => ChangesUser(w, j)
         /\ RegenerateUserToken(w, j, by) => ChangesUser(w, j)
<1>1. users[w][j] \in UserRecords /\ w \in DOMAIN users
  BY UsersAre DEF WTypes
<1>2. ASSUME NEW r \in Roles, UpdateUserRole(w, j, r, by) PROVE ChangesUser(w, j)
  <2>1. [users[w][j] EXCEPT !.role = r] \in UserRecords
        /\ [users[w][j] EXCEPT !.role = r].tenant = users[w][j].tenant
    BY <1>1 DEF UserRecords
  <2>2. users' = [users EXCEPT ![w] = [users[w] EXCEPT ![j] = [users[w][j] EXCEPT !.role = r]]]
    BY <1>1, <1>2 DEF UpdateUserRole
  <2> QED BY <2>1, <2>2 DEF ChangesUser
<1>3. ASSUME NEW s \in Statuses, UpdateUserStatus(w, j, s, by) PROVE ChangesUser(w, j)
  <2>1. [users[w][j] EXCEPT !.status = s] \in UserRecords
        /\ [users[w][j] EXCEPT !.status = s].tenant = users[w][j].tenant
    BY <1>1 DEF UserRecords
  <2>2. users' = [users EXCEPT ![w] = [users[w] EXCEPT ![j] = [users[w][j] EXCEPT !.status = s]]]
    BY <1>1, <1>3 DEF UpdateUserStatus
  <2> QED BY <2>1, <2>2 DEF ChangesUser
<1>4. ASSUME RegenerateUserToken(w, j, by) PROVE ChangesUser(w, j)
  <2> DEFINE u == [users[w][j] EXCEPT !.token = @ + 1]
  <2>1. u \in UserRecords /\ u.tenant = users[w][j].tenant
    BY <1>1 DEF UserRecords
  <2>2. users' = [users EXCEPT ![w] = [users[w] EXCEPT ![j] = u]]
    BY <1>1, <1>4 DEF RegenerateUserToken
  <2> QED BY <2>1, <2>2 DEF ChangesUser
<1> QED BY <1>2, <1>3, <1>4

-----------------------------------------------------------------------------

(* What the assumptions say of the constants, in the form the proofs use.   *)
LEMMA Constants ==
  /\ \A t \in Tenants : t \in Names \ {<<>>} /\ CodeOf[t] \in Names
  /\ TypedFacilities \subseteq Names /\ TypedDevices \subseteq Names
  /\ NewRoles \subseteq Roles /\ NewStatuses \subseteq Statuses
  /\ Namings \subseteq (Tenants \cup {NoTenant}) \X (Tenants \cup {NoTenant})
  /\ "none" \notin Workers
  /\ NoTenant \notin Tenants /\ DefaultTenant \in Tenants /\ "CHIEF_ENGINEER" \in Roles
BY OnboardingAssumption, WebServerAssumption
   DEF OnboardingAssumption, WebServerAssumption, Roles, Refused

(* Whatever was typed, the id a facility is given carries the prefix of its *)
(* tenant.                                                                  *)
LEMMA FacilityIdIs ==
  ASSUME NEW w, NEW t \in Tenants, NEW typed \in TypedFacilities,
         FacilityId(t, CodeIn(w, t), typed) # Refused
  PROVE  LET id == FacilityId(t, CodeIn(w, t), typed) IN id \in Names /\ SiteNamed(id, t)
<1> DEFINE code == CodeIn(w, t)
           z    == ValidateOrApplyFacilityPrefix(typed, t, code, TRUE)
           y    == ValidateOrApplyFacilityPrefix(z, t, <<>>, TRUE)
<1>1. code \in Names /\ typed \in Names /\ t \in Names \ {<<>>} /\ <<>> \in Names
  BY Constants, EmptySeq DEF CodeIn, Names
<1>2. z # Refused /\ y # Refused /\ y = FacilityId(t, code, typed)
  BY DEF FacilityId
<1> HIDE DEF code
<1>3. z \in Names
  BY <1>1, <1>2, FacilityForm
<1> HIDE DEF z
<1>4. /\ y \in Names \ {<<>>}
      /\ Under(y, DeriveFacilityPrefix(t, <<>>)) \/ Under(y, <<"SITE">> \o t)
  BY <1>1, <1>2, <1>3, FacilityForm
<1> HIDE DEF y
<1> QED BY <1>2, <1>4 DEF SiteNamed, MayName, FacilityName, OwnPrefix, code


-----------------------------------------------------------------------------
(* What a request for operator i of tenant t may change, if its body names  *)
(* tenant g.                                                                *)

(* Of users, tenant t's; of sites, assets and trails, t's and g's; all in   *)
(* worker w.                                                                *)
Within(w, t, g) ==
  /\ registry' = registry /\ logged'.worker \in {w, "none"}
  /\ \A v \in Workers \ {w} :
       users'[v] = users[v] /\ sites'[v] = sites[v] /\ assets'[v] = assets[v]
  /\ \A s \in Tenants \ {t} : UsersOf(w, s)' = UsersOf(w, s)
  /\ \A s \in Tenants \ {t, g} :
       sites'[w][s] = sites[w][s] /\ assets'[w][s] = assets[w][s] /\ logged'.tenant # s


(* A tenant's users are the same if the same places hold them.              *)
LEMMA UsersSame ==
  ASSUME NEW v, NEW s,
         \A j : (j \in DOMAIN users'[v] /\ users'[v][j].tenant = s)
                 <=> (j \in DOMAIN users[v] /\ users[v][j].tenant = s),
         \A j \in DOMAIN users[v] : users[v][j].tenant = s => users'[v][j] = users[v][j]
  PROVE  UsersOf(v, s)' = UsersOf(v, s)
<1>1. {k \in DOMAIN users'[v] : users'[v][k].tenant = s}
        = {k \in DOMAIN users[v] : users[v][k].tenant = s}
  OBVIOUS
<1> QED BY <1>1 DEF UsersOf

(* Adding a user leaves every other tenant's users alone.                   *)
LEMMA AddedWithin ==
  ASSUME WTypes, NEW w \in Workers, NEW e \in Emails, NEW t \in Tenants, NEW r \in Roles,
         OnboardUser(w, e, t, r),
         NEW v \in Workers, NEW s \in Tenants, v # w \/ s # t
  PROVE  UsersOf(v, s)' = UsersOf(v, s)
<1>1. CASE v # w
  <2>1. users'[v] = users[v]
    BY <1>1, UserAdded
  <2> QED BY <2>1 DEF UsersOf
<1>2. CASE v = w /\ s # t
  <2> DEFINE u == User(e, t, r)
             us == users[w]
  <2>1. us \in Seq(UserRecords) /\ users'[w] = Append(us, u) /\ u.tenant = t
    BY UserAdded, UsersAre DEF User
  <2> HIDE DEF us, u
  <2>2. /\ DOMAIN Append(us, u) = 1..Len(us) + 1 /\ DOMAIN us = 1..Len(us) /\ Len(us) \in Nat
        /\ Append(us, u)[Len(us) + 1] = u
        /\ \A j \in 1..Len(us) : Append(us, u)[j] = us[j]
    BY <2>1
  <2>3. \A j : (j \in 1..Len(us) + 1 /\ Append(us, u)[j].tenant = s)
                 <=> (j \in 1..Len(us) /\ us[j].tenant = s)
    <3> SUFFICES ASSUME NEW j \in 1..Len(us) + 1
                 PROVE  Append(us, u)[j].tenant = s <=> (j \in 1..Len(us) /\ us[j].tenant = s)
      BY <2>2
    <3>1. CASE j = Len(us) + 1
      BY <1>2, <2>1, <2>2, <3>1
    <3>2. CASE j # Len(us) + 1
      <4>1. j \in 1..Len(us)
        BY <2>2, <3>2
      <4> QED BY <2>2, <4>1
    <3> QED BY <3>1, <3>2
  <2> QED BY <1>2, <2>1, <2>2, <2>3, UsersSame DEF us
<1> QED BY <1>1, <1>2

(* Changing a user leaves every other tenant's users alone.                 *)
LEMMA ChangedWithin ==
  ASSUME WTypes, NEW w \in Workers, NEW j \in DOMAIN users[w], ChangesUser(w, j),
         NEW v \in Workers, NEW s \in Tenants, v # w \/ s # users[w][j].tenant
  PROVE  UsersOf(v, s)' = UsersOf(v, s)
<1>1. PICK u \in UserRecords :
        /\ u.tenant = users[w][j].tenant
        /\ users' = [users EXCEPT ![w] = [users[w] EXCEPT ![j] = u]]
  BY DEF ChangesUser
<1>2. /\ \A x \in Workers : x # w => users'[x] = users[x]
      /\ DOMAIN users'[w] = DOMAIN users[w]
      /\ \A k \in DOMAIN users[w] : k # j => users'[w][k] = users[w][k]
      /\ users'[w][j].tenant = users[w][j].tenant
  BY <1>1, UserChanged
<1>3. CASE v # w
  <2>1. users'[v] = users[v]
    BY <1>2, <1>3
  <2> QED BY <2>1 DEF UsersOf
<1>4. CASE v = w /\ s # users[w][j].tenant
  BY <1>2, <1>4, UsersSame
<1> QED BY <1>3, <1>4

-----------------------------------------------------------------------------


(* Operator i, or 0 for none, and the partition t of the request.           *)
Operator(w, i, t) ==
  /\ i = 0 \/ i \in DOMAIN users[w]
  /\ i # 0 => t = users[w][i].tenant

(* A decision that is logged is operator i's, who may take it.              *)
Authorised(w, i) ==
  i # 0 /\ logged'.action \in ByCaller \cup {"ADAPTATION_PROPOSED"} =>
    /\ logged'.worker = w /\ logged'.tenant = users[w][i].tenant
    /\ logged'.action \in ByCaller =>
         logged'.by = users[w][i].email /\ logged'.role = users[w][i].role
    /\ logged'.action \in Privileged => users[w][i].role \notin {"VIEWER", "OPERATOR"}
    /\ logged'.action \in {"ACKNOWLEDGE_ALERT", "ADAPTATION_PROPOSED"}
         => users[w][i].role # "VIEWER"

(* The step entered nothing, or in the trail of tenant t in worker w.       *)
Entered(w, t) == logged' = NoEntry \/ (logged'.worker = w /\ logged'.tenant = t)

(* A step that leaves the memory alone keeps its invariant.                 *)
LEMMA QuietMemory ==
  ASSUME MemoryInv, UNCHANGED memory
  PROVE  MemoryInv'
BY DEF MemoryInv, WTypes, Named, memory

(* An entry in one trail is none in another.                                *)
LEMMA EnteredElsewhere ==
  ASSUME NEW w, NEW t, Entered(w, t)
  PROVE  logged'.worker \in {w, "none"} /\ \A s \in Tenants \ {t} : logged'.tenant # s
BY Constants DEF Entered, NoEntry

(* A step that only enters in a tenant's trail stays within the tenant.     *)
LEMMA QuietWithin ==
  ASSUME NEW w, NEW t, NEW g, UNCHANGED memory, Entered(w, t)
  PROVE  Within(w, t, g)
<1>1. \A s \in Tenants : UsersOf(w, s)' = UsersOf(w, s)
  BY DEF UsersOf, memory
<1>2. registry' = registry /\ users' = users /\ sites' = sites /\ assets' = assets
  BY DEF memory
<1> QED BY <1>1, <1>2, EnteredElsewhere DEF Within

(* An entry by the caller is the operator's own, who may do it.             *)
LEMMA LogCallerIs ==
  ASSUME NEW w, NEW i, NEW t, NEW action, Operator(w, i, t), LogCaller(w, i, t, action),
         i # 0 /\ action \in Privileged => users[w][i].role \notin {"VIEWER", "OPERATOR"},
         i # 0 /\ action \in {"ACKNOWLEDGE_ALERT", "ADAPTATION_PROPOSED"}
           => users[w][i].role # "VIEWER"
  PROVE  Entered(w, t) /\ Authorised(w, i)
<1>1. CASE i = 0
  BY <1>1 DEF LogCaller, Log, Entered, Authorised
<1>2. CASE i # 0
  BY <1>2 DEF LogCaller, Log, Entered, Authorised, Operator
<1> QED BY <1>1, <1>2

(* What the code logs under names of its own or of the request's.           *)
Administrative ==
  {"USER_ONBOARDED", "FACILITY_ONBOARDED", "DEVICE_ONBOARDED", "USER_ROLE_UPDATED",
   "USER_STATUS_UPDATED", "USER_TOKEN_REGENERATED"}

(* Such an entry is no decision.                                            *)
LEMMA AdministrativeIs ==
  ASSUME NEW w, NEW i, NEW t, NEW by, NEW action \in Administrative,
         Log(w, t, by, "SYSTEM_SERVICE", action)
  PROVE  Entered(w, t) /\ Authorised(w, i)
BY DEF Administrative, Log, Entered, Authorised, ByCaller, Privileged

(* No entry is nobody's.                                                    *)
LEMMA NothingLoggedIs ==
  ASSUME NEW w, NEW i, NEW t, NothingLogged
  PROVE  Entered(w, t) /\ Authorised(w, i)
BY DEF NothingLogged, NoEntry, Entered, Authorised, ByCaller, Privileged

(* A refusal changes nothing and is entered where the operator belongs.     *)
LEMMA RefuseIs ==
  ASSUME NEW w, NEW i, i \in DOMAIN users[w], i # 0, NEW why, Refuse(w, i, why),
         why \in {"UNAUTHORIZED_ACTION_ATTEMPT", "SECURITY_BOUNDARY_VIOLATION",
                  "PRIVILEGE_ESCALATION_ATTEMPT"}
  PROVE  /\ UNCHANGED memory /\ UNCHANGED pending
         /\ Entered(w, users[w][i].tenant) /\ Authorised(w, i)
<1>1. why \notin Privileged /\ why \notin {"ACKNOWLEDGE_ALERT", "ADAPTATION_PROPOSED"}
  BY DEF Privileged
<1>2. Operator(w, i, users[w][i].tenant)
  BY DEF Operator
<1>3. LogCaller(w, i, users[w][i].tenant, why)
  BY DEF Refuse
<1>4. Entered(w, users[w][i].tenant) /\ Authorised(w, i)
  BY <1>1, <1>2, <1>3, LogCallerIs
<1> QED BY <1>4 DEF Refuse

(* Acting on an object changes nothing here and is entered for an operator  *)
(* who may.                                                                 *)
LEMMA ActIs ==
  ASSUME NEW w, NEW i, NEW t, Operator(w, i, t), NEW action, NEW refused, NEW o,
         Act(w, i, t, action, refused, o), "VIEWER" \in refused,
         action \in Privileged => "OPERATOR" \in refused
  PROVE  UNCHANGED memory /\ UNCHANGED pending /\ Entered(w, t) /\ Authorised(w, i)
<1>1. CASE i # 0 /\ users[w][i].role \in refused
  <2>1. Refuse(w, i, "UNAUTHORIZED_ACTION_ATTEMPT")
    BY <1>1 DEF Act
  <2> QED BY <1>1, <2>1, RefuseIs DEF Operator
<1>2. CASE ~ (i # 0 /\ users[w][i].role \in refused)
  <2>1. LogCaller(w, i, t, action) /\ UNCHANGED <<memory, pending>>
    BY <1>2 DEF Act
  <2>2. Entered(w, t) /\ Authorised(w, i)
    BY <1>2, <2>1, LogCallerIs
  <2> QED BY <2>1, <2>2
<1> QED BY <1>1, <1>2

-----------------------------------------------------------------------------

(* Onboarding a user keeps the invariant.                                   *)
LEMMA OnboardUserKeeps ==
  ASSUME MemoryInv, NEW w \in Workers, NEW t \in Tenants, NEW e \in Emails, NEW r \in Roles,
         OnboardUser(w, e, t, r), registry' \in [Workers -> SUBSET Tenants],
         sites' = sites, assets' = assets
  PROVE  MemoryInv'
BY UserAdded DEF MemoryInv, WTypes, Named

(* Changing a user keeps the invariant.                                     *)
LEMMA ChangesUserKeeps ==
  ASSUME MemoryInv, NEW w \in Workers, NEW j \in DOMAIN users[w], ChangesUser(w, j),
         registry' = registry, sites' = sites, assets' = assets
  PROVE  MemoryInv'
<1>1. users' \in [Workers -> Seq(UserRecords)]
  BY UserChanged DEF ChangesUser, MemoryInv
<1> QED BY <1>1 DEF MemoryInv, WTypes, Named

(* Onboarding a facility keeps the invariant and touches its tenant's sites *)
(* only.                                                                    *)
LEMMA FacilityKeeps ==
  ASSUME MemoryInv, NEW w \in Workers, NEW g \in Tenants, NEW typed \in TypedFacilities,
         OnboardFacilityApi(w, g, typed)
  PROVE  /\ MemoryInv'
         /\ registry' = registry /\ users' = users /\ assets' = assets
         /\ \A v \in Workers \ {w} : sites'[v] = sites[v]
         /\ \A s \in Tenants \ {g} : sites'[w][s] = sites[w][s]
<1> DEFINE id == FacilityId(g, CodeIn(w, g), typed)
<1>1. OnboardFacility(w, g, id) /\ registry' = registry /\ users' = users /\ assets' = assets
  BY DEF OnboardFacilityApi
<1>2. id \in Names /\ SiteNamed(id, g)
  BY <1>1, FacilityIdIs DEF OnboardFacility
<1> HIDE DEF id
<1>3. sites' = [sites EXCEPT ![w][g] = sites[w][g] \cup {id}]
  BY <1>1 DEF OnboardFacility
<1>4. /\ sites' \in [Workers -> [Tenants -> SUBSET Names]]
      /\ \A v \in Workers, s \in Tenants :
           sites'[v][s] = IF v = w /\ s = g THEN sites[w][g] \cup {id} ELSE sites[v][s]
      /\ \A v \in Workers \ {w} : sites'[v] = sites[v]
  BY <1>2, <1>3 DEF MemoryInv, WTypes
<1>5. Named'
  <2> SUFFICES ASSUME NEW v \in Workers, NEW s \in Tenants
               PROVE  /\ \A f \in sites'[v][s] : SiteNamed(f, s)
                      /\ \A a \in assets[v][s] : a.site \in sites'[v][s] /\ DeviceNamed(a, s)
    BY <1>1 DEF Named, SiteNamed, DeviceNamed
  <2>1. /\ \A f \in sites[v][s] : SiteNamed(f, s)
        /\ \A a \in assets[v][s] : a.site \in sites[v][s] /\ DeviceNamed(a, s)
    BY DEF MemoryInv, Named
  <2> HIDE DEF SiteNamed, DeviceNamed
  <2> QED BY <1>2, <1>4, <2>1
<1> QED BY <1>1, <1>4, <1>5 DEF MemoryInv, WTypes

(* Onboarding a device keeps the invariant and touches its tenant's assets  *)
(* only.                                                                    *)
LEMMA DeviceKeeps ==
  ASSUME MemoryInv, NEW w \in Workers, NEW g \in Tenants, NEW f \in SiteIds(w, g),
         NEW typed \in TypedDevices, OnboardDeviceApi(w, g, f, typed)
  PROVE  /\ MemoryInv'
         /\ registry' = registry /\ users' = users /\ sites' = sites
         /\ \A v \in Workers \ {w} : assets'[v] = assets[v]
         /\ \A s \in Tenants \ {g} : assets'[w][s] = assets[w][s]
<1> DEFINE id == DeviceId(f, typed)
           d  == [id |-> id, site |-> f]
<1>1. OnboardDevice(w, g, id, f) /\ registry' = registry /\ users' = users /\ sites' = sites
  BY DEF OnboardDeviceApi
<1>2. f \in sites[w][g] /\ f \in Names \ {<<>>}
  BY DEF MemoryInv, WTypes, Named, SiteNamed, SiteIds
<1>3. id \in Names /\ Under(id, RStrip(f))
  <2>1. id # Refused /\ typed \in Names
    BY <1>1, Constants DEF OnboardDevice
  <2> QED BY <1>2, <2>1, DevicesAre
<1> HIDE DEF id
<1>4. d \in Devices /\ DeviceNamed(d, g) /\ d.site = f
  BY <1>2, <1>3 DEF Devices, DeviceNamed
<1>5. assets' = [assets EXCEPT ![w][g] = assets[w][g] \cup {d}]
  BY <1>1 DEF OnboardDevice
<1> HIDE DEF d
<1>6. /\ assets' \in [Workers -> [Tenants -> SUBSET Devices]]
      /\ \A v \in Workers, s \in Tenants :
           assets'[v][s] = IF v = w /\ s = g THEN assets[w][g] \cup {d} ELSE assets[v][s]
      /\ \A v \in Workers \ {w} : assets'[v] = assets[v]
  BY <1>4, <1>5 DEF MemoryInv, WTypes
<1>7. Named'
  <2> SUFFICES ASSUME NEW v \in Workers, NEW s \in Tenants
               PROVE  /\ \A x \in sites[v][s] : SiteNamed(x, s)
                      /\ \A a \in assets'[v][s] : a.site \in sites[v][s] /\ DeviceNamed(a, s)
    BY <1>1 DEF Named, SiteNamed, DeviceNamed
  <2>1. /\ \A x \in sites[v][s] : SiteNamed(x, s)
        /\ \A a \in assets[v][s] : a.site \in sites[v][s] /\ DeviceNamed(a, s)
    BY DEF MemoryInv, Named
  <2> HIDE DEF SiteNamed, DeviceNamed
  <2> QED BY <1>2, <1>4, <1>6, <2>1
<1> QED BY <1>1, <1>6, <1>7 DEF MemoryInv, WTypes

-----------------------------------------------------------------------------
(* Handlers.                                                                *)

(* What a handler owes that runs for operator i in partition t, with a body *)
(* for g.                                                                   *)
Kept(w, i, t, g) == MemoryInv' /\ (i # 0 => Within(w, t, g)) /\ Authorised(w, i)

(* A handler that changes no memory keeps the invariant.                    *)
LEMMA QuietKept ==
  ASSUME MemoryInv, NEW w \in Workers, NEW i, NEW t, NEW g,
         UNCHANGED memory, Entered(w, t), Authorised(w, i)
  PROVE  Kept(w, i, t, g)
BY QuietMemory, QuietWithin DEF Kept

(* A change of users of the partition.                                      *)
LEMMA UsersWithin ==
  ASSUME NEW w \in Workers, NEW t, NEW g, Entered(w, t),
         registry' = registry, sites' = sites, assets' = assets,
         \A v \in Workers \ {w} : users'[v] = users[v],
         \A s \in Tenants \ {t} : UsersOf(w, s)' = UsersOf(w, s)
  PROVE  Within(w, t, g)
BY EnteredElsewhere DEF Within

(* A call about a user keeps the invariant, and for an operator stays       *)
(* within the tenant.                                                       *)
LEMMA OnUserStep ==
  ASSUME MemoryInv, NEW w \in Workers, NEW i, NEW t \in Tenants, NEW g, Operator(w, i, t),
         NEW j \in DOMAIN users[w], NEW Change,
         OnUser(w, i, j, Change),
         Change => /\ ChangesUser(w, j)
                   /\ registry' = registry /\ sites' = sites /\ assets' = assets
                   /\ Entered(w, users[w][j].tenant) /\ Authorised(w, i)
  PROVE  Kept(w, i, t, g)
<1>1. CASE i # 0 /\ users[w][j].tenant # users[w][i].tenant
  <2>1. Refuse(w, i, "SECURITY_BOUNDARY_VIOLATION")
    BY <1>1 DEF OnUser
  <2>2. UNCHANGED memory /\ Entered(w, users[w][i].tenant) /\ Authorised(w, i)
    BY <1>1, <2>1, RefuseIs DEF Operator
  <2> QED BY <1>1, <2>2, QuietKept DEF Operator
<1>2. CASE ~ (i # 0 /\ users[w][j].tenant # users[w][i].tenant)
  <2>1. /\ ChangesUser(w, j) /\ registry' = registry /\ sites' = sites /\ assets' = assets
        /\ Entered(w, users[w][j].tenant) /\ Authorised(w, i)
    BY <1>2 DEF OnUser
  <2>2. MemoryInv'
    BY <2>1, ChangesUserKeeps
  <2>3. ASSUME i # 0 PROVE Within(w, t, g)
    <3>1. users[w][j].tenant = t
      BY <1>2, <2>3 DEF Operator
    <3>2. \A s \in Tenants \ {t} : UsersOf(w, s)' = UsersOf(w, s)
      BY <2>1, <3>1, ChangedWithin DEF MemoryInv
    <3>3. \A v \in Workers \ {w} : users'[v] = users[v]
      BY <2>1, UserChanged DEF ChangesUser, MemoryInv
    <3> QED BY <2>1, <3>1, <3>2, <3>3, UsersWithin
  <2> QED BY <2>1, <2>2, <2>3 DEF Kept
<1> QED BY <1>1, <1>2

(* Every handler keeps the invariant, stays within the operator's tenant    *)
(* and the one its body names, and enters in the operator's name only what  *)
(* the operator may do.                                                     *)
LEMMA HandleStep ==
  ASSUME MemoryInv, NEW w \in Workers, NEW i, NEW t \in Tenants, Operator(w, i, t),
         NEW body \in Tenants \cup {NoTenant}, Handle(w, i, t, body)
  PROVE  Kept(w, i, t, Target(t, body))
<1> DEFINE g == Target(t, body)
<1>0. g \in Tenants
  BY DEF Target
<1> HIDE DEF g
<1>1. CASE \E o \in UNION {Objects[s] : s \in Tenants} :
             \/ AcknowledgeAlert(w, i, t, o) \/ ResolveAlert(w, i, t, o)
             \/ ApproveWorkOrder(w, i, t, o) \/ ApproveAdaptation(w, i, t, o)
  <2>1. PICK o : \/ AcknowledgeAlert(w, i, t, o) \/ ResolveAlert(w, i, t, o)
                 \/ ApproveWorkOrder(w, i, t, o) \/ ApproveAdaptation(w, i, t, o)
    BY <1>1
  <2>2. CASE AcknowledgeAlert(w, i, t, o)
    <3>1. Act(w, i, t, "ACKNOWLEDGE_ALERT", {"VIEWER"}, o) /\ "ACKNOWLEDGE_ALERT" \notin Privileged
      BY <2>2 DEF AcknowledgeAlert, Privileged
    <3> QED BY <3>1, ActIs, QuietKept DEF g
  <2>3. CASE ResolveAlert(w, i, t, o)
    BY <2>3, ActIs, QuietKept DEF ResolveAlert, g
  <2>4. CASE ApproveWorkOrder(w, i, t, o)
    BY <2>4, ActIs, QuietKept DEF ApproveWorkOrder, g
  <2>5. CASE ApproveAdaptation(w, i, t, o)
    BY <2>5, ActIs, QuietKept DEF ApproveAdaptation, g
  <2> QED BY <2>1, <2>2, <2>3, <2>4, <2>5
<1>2. CASE ProposeAdaptation(w, i, t)
  <2>1. /\ ~ (i # 0 /\ users[w][i].role = "VIEWER") /\ UNCHANGED memory
        /\ Log(w, t, "ADAPTIVE_INTELLIGENCE_ENGINE", "SYSTEM_SERVICE", "ADAPTATION_PROPOSED")
        /\ "ADAPTATION_PROPOSED" \notin ByCaller /\ "ADAPTATION_PROPOSED" \notin Privileged
    BY <1>2 DEF ProposeAdaptation, ByCaller, Privileged
  <2>2. Entered(w, t) /\ Authorised(w, i)
    BY <2>1 DEF Log, Entered, Authorised, Operator
  <2> QED BY <2>1, <2>2, QuietKept
<1>3. CASE \E a \in AssetIds(w, g) : InjectTelemetry(w, g, a)
  <2>1. NothingLogged /\ UNCHANGED memory
    BY <1>3 DEF InjectTelemetry
  <2> QED BY <2>1, NothingLoggedIs, QuietKept
<1>4. CASE \E e \in Emails, r \in NewRoles : OnboardUserApi(w, UserTenant(i, t, body), e, r)
  <2> DEFINE h == UserTenant(i, t, body)
  <2>1. PICK e \in Emails, r \in NewRoles : OnboardUserApi(w, h, e, r)
    BY <1>4
  <2>2. h \in Tenants /\ (i # 0 => h = t)
    BY <1>0 DEF UserTenant, g
  <2> HIDE DEF h
  <2>3. /\ OnboardUser(w, e, h, r) /\ registry' = registry /\ sites' = sites /\ assets' = assets
        /\ r \in Roles
    BY <2>1, Constants DEF OnboardUserApi
  <2>4. Entered(w, h) /\ Authorised(w, i)
    <3>1. "USER_ONBOARDED" \in Administrative
      BY DEF Administrative
    <3> QED BY <2>3, <3>1, AdministrativeIs DEF OnboardUser, LogSystem
  <2>5. MemoryInv'
    BY <2>2, <2>3, OnboardUserKeeps DEF MemoryInv, WTypes
  <2>6. ASSUME i # 0 PROVE Within(w, t, g)
    <3>1. \A s \in Tenants \ {t} : UsersOf(w, s)' = UsersOf(w, s)
      BY <2>2, <2>3, <2>6, AddedWithin DEF MemoryInv
    <3>2. \A v \in Workers \ {w} : users'[v] = users[v]
      BY <2>2, <2>3, UserAdded DEF MemoryInv
    <3> QED BY <2>2, <2>3, <2>4, <2>6, <3>1, <3>2, UsersWithin
  <2> QED BY <2>4, <2>5, <2>6 DEF Kept, g
<1>5. CASE \E f \in TypedFacilities : OnboardFacilityApi(w, g, f)
  <2>1. PICK f \in TypedFacilities : OnboardFacilityApi(w, g, f)
    BY <1>5
  <2>2. /\ MemoryInv'
        /\ registry' = registry /\ users' = users /\ assets' = assets
        /\ \A v \in Workers \ {w} : sites'[v] = sites[v]
        /\ \A s \in Tenants \ {g} : sites'[w][s] = sites[w][s]
    BY <1>0, <2>1, FacilityKeeps
  <2>3. Entered(w, g) /\ Authorised(w, i)
    <3>1. "FACILITY_ONBOARDED" \in Administrative
      BY DEF Administrative
    <3> QED BY <2>1, <3>1, AdministrativeIs DEF OnboardFacilityApi, OnboardFacility, LogSystem
  <2>4. Within(w, t, g)
    BY <2>2, <2>3, EnteredElsewhere DEF Within, UsersOf
  <2> QED BY <2>2, <2>3, <2>4 DEF Kept, g
<1>6. CASE \E f \in SiteIds(w, g), d \in TypedDevices : OnboardDeviceApi(w, g, f, d)
  <2>1. PICK f \in SiteIds(w, g), d \in TypedDevices : OnboardDeviceApi(w, g, f, d)
    BY <1>6
  <2>2. /\ MemoryInv'
        /\ registry' = registry /\ users' = users /\ sites' = sites
        /\ \A v \in Workers \ {w} : assets'[v] = assets[v]
        /\ \A s \in Tenants \ {g} : assets'[w][s] = assets[w][s]
    BY <1>0, <2>1, DeviceKeeps
  <2>3. Entered(w, g) /\ Authorised(w, i)
    <3>1. "DEVICE_ONBOARDED" \in Administrative
      BY DEF Administrative
    <3> QED BY <2>1, <3>1, AdministrativeIs DEF OnboardDeviceApi, OnboardDevice, LogSystem
  <2>4. Within(w, t, g)
    BY <2>2, <2>3, EnteredElsewhere DEF Within, UsersOf
  <2> QED BY <2>2, <2>3, <2>4 DEF Kept, g
<1>7. CASE \E j \in DOMAIN users[w], by \in Claimable :
             \/ \E r \in NewRoles : UpdateUserRoleApi(w, i, j, r, by)
             \/ \E s \in NewStatuses : ToggleUserStatusApi(w, i, j, s, by)
             \/ RegenerateUserTokenApi(w, i, j, by)
  <2>1. PICK j \in DOMAIN users[w], by \in Claimable :
             \/ \E r \in NewRoles : UpdateUserRoleApi(w, i, j, r, by)
             \/ \E s \in NewStatuses : ToggleUserStatusApi(w, i, j, s, by)
             \/ RegenerateUserTokenApi(w, i, j, by)
    BY <1>7
  <2> DEFINE Good == /\ ChangesUser(w, j)
                     /\ registry' = registry /\ sites' = sites /\ assets' = assets
                     /\ Entered(w, users[w][j].tenant) /\ Authorised(w, i)
  <2>2. ASSUME NEW action \in {"USER_ROLE_UPDATED", "USER_STATUS_UPDATED",
                               "USER_TOKEN_REGENERATED"},
               LogClaimed(w, users[w][j].tenant, by, action)
        PROVE  Entered(w, users[w][j].tenant) /\ Authorised(w, i)
    <3>1. action \in Administrative
      BY DEF Administrative
    <3> QED BY <2>2, <3>1, AdministrativeIs DEF LogClaimed
  <2>3. CASE \E r \in NewRoles : UpdateUserRoleApi(w, i, j, r, by)
    <3>1. PICK r \in NewRoles : UpdateUserRoleApi(w, i, j, r, by)
      BY <2>3
    <3> DEFINE C == UpdateUserRole(w, j, r, by) /\ UNCHANGED <<registry, sites, assets, pending>>
    <3>2. OnUser(w, i, j, C)
      BY <3>1 DEF UpdateUserRoleApi
    <3>3. C => Good
      <4>1. C => ChangesUser(w, j)
        BY UserOperations, Constants DEF MemoryInv
      <4> QED BY <2>2, <4>1 DEF UpdateUserRole
    <3> HIDE DEF C
    <3> QED BY <3>2, <3>3, OnUserStep
  <2>4. CASE \E s \in NewStatuses : ToggleUserStatusApi(w, i, j, s, by)
    <3>1. PICK s \in NewStatuses : ToggleUserStatusApi(w, i, j, s, by)
      BY <2>4
    <3> DEFINE C == UpdateUserStatus(w, j, s, by) /\ UNCHANGED <<registry, sites, assets, pending>>
    <3>2. OnUser(w, i, j, C)
      BY <3>1 DEF ToggleUserStatusApi
    <3>3. C => Good
      <4>1. C => ChangesUser(w, j)
        BY UserOperations, Constants DEF MemoryInv
      <4> QED BY <2>2, <4>1 DEF UpdateUserStatus
    <3> HIDE DEF C
    <3> QED BY <3>2, <3>3, OnUserStep
  <2>5. CASE RegenerateUserTokenApi(w, i, j, by)
    <3> DEFINE C == /\ RegenerateUserToken(w, j, by)
                    /\ Synchronise(w, SyncUser(users[w][j].tenant))
                    /\ UNCHANGED <<registry, sites, assets>>
    <3>1. OnUser(w, i, j, C)
      BY <2>5 DEF RegenerateUserTokenApi
    <3>2. C => Good
      <4>1. C => ChangesUser(w, j)
        BY UserOperations DEF MemoryInv
      <4> QED BY <2>2, <4>1 DEF RegenerateUserToken
    <3> HIDE DEF C
    <3> QED BY <3>1, <3>2, OnUserStep
  <2> QED BY <2>1, <2>3, <2>4, <2>5
<1> QED BY <1>1, <1>2, <1>3, <1>4, <1>5, <1>6, <1>7 DEF Handle, g

-----------------------------------------------------------------------------
(* Requests, restarts and the theorems.                                     *)

(* What a request, and its body, may name.                                  *)
MayBeNamed == Tenants \cup {NoTenant}

(* The partition of a request and its operator.                             *)
LEMMA PartitionIs ==
  ASSUME NEW w, NEW i, NEW n \in MayBeNamed, NEW b \in MayBeNamed,
         i # 0 => i \in DOMAIN users[w] /\ users[w][i].tenant \in Tenants
  PROVE  LET t == Partition(w, i, Requested(n, b)) IN
         /\ t \in Tenants /\ Operator(w, i, t) /\ Target(t, b) \in Tenants
         /\ i # 0 => t = users[w][i].tenant
<1> DEFINE r == Requested(n, b)
           t == Partition(w, i, r)
<1>1. r \in Tenants \cup {NoTenant}
  BY DEF Requested, MayBeNamed
<1> HIDE DEF r
<1>2. t \in Tenants /\ (i # 0 => t = users[w][i].tenant)
  BY <1>1, Constants DEF Partition
<1> HIDE DEF t
<1>3. Operator(w, i, t) /\ Target(t, b) \in Tenants
  BY <1>2 DEF Operator, Target, MayBeNamed
<1> QED BY <1>2, <1>3 DEF t, r

(* So does every request, whatever it names, and the operator it is served  *)
(* for is ACTIVE.                                                           *)
LEMMA DispatchStep ==
  ASSUME MemoryInv, NEW w \in Workers, NEW c, NEW n \in MayBeNamed, NEW b \in MayBeNamed,
         Dispatch(w, GetOperatorFromToken(w, c), n, b)
  PROVE  LET i == GetOperatorFromToken(w, c) IN
         /\ MemoryInv'
         /\ Authorised(w, i)
         /\ i # 0 => i \in DOMAIN users[w] /\ users[w][i].status = "ACTIVE"
         /\ served'.email # "none" =>
              /\ served'.worker = w /\ i # 0 /\ served'.tenant = users[w][i].tenant
              /\ served'.email = users[w][i].email /\ served'.body = b
              /\ Within(w, served'.tenant, Target(served'.tenant, b))
<1> DEFINE i == GetOperatorFromToken(w, c)
<1>1. i # 0 => i \in DOMAIN users[w] /\ users[w][i].status = "ACTIVE"
  BY UsersAre, OperatorIs DEF MemoryInv
<1>2. Dispatch(w, i, n, b)
  OBVIOUS
<1> HIDE DEF i
<1>3. i # 0 => users[w][i].tenant \in Tenants
  BY <1>1, UsersAre DEF MemoryInv
<1>4. served' = IF i = 0 THEN Nobody
               ELSE [worker |-> w, tenant |-> users[w][i].tenant,
                     email |-> users[w][i].email, body |-> b]
  BY <1>2 DEF Dispatch
<1>5. served'.email # "none" =>
              /\ served'.worker = w /\ i # 0 /\ served'.tenant = users[w][i].tenant
              /\ served'.email = users[w][i].email /\ served'.body = b
  BY <1>4 DEF Nobody
<1> DEFINE r == Requested(n, b)
<1>6. /\ MemoryInv' /\ Authorised(w, i)
      /\ i # 0 => Within(w, users[w][i].tenant, Target(users[w][i].tenant, b))
  <2>1. CASE \E t \in Tenants, e \in Emails : OnboardTenantApi(w, i, t, e)
    <3>1. PICK t \in Tenants, e \in Emails : OnboardTenantApi(w, i, t, e)
      BY <2>1
    <3>2. CASE i # 0
      <4>1. Refuse(w, i, "PRIVILEGE_ESCALATION_ATTEMPT")
        BY <3>1, <3>2 DEF OnboardTenantApi
      <4>2. UNCHANGED memory /\ Entered(w, users[w][i].tenant) /\ Authorised(w, i)
        BY <1>1, <3>2, <4>1, RefuseIs
      <4> QED BY <4>2, QuietMemory, QuietWithin
    <3>3. CASE i = 0
      <4>1. /\ OnboardTenant(w, t) /\ OnboardUser(w, e, t, "CHIEF_ENGINEER")
            /\ sites' = sites /\ assets' = assets
        BY <3>1, <3>3 DEF OnboardTenantApi
      <4>2. registry' \in [Workers -> SUBSET Tenants]
        BY <4>1 DEF OnboardTenant, MemoryInv, WTypes
      <4>3. MemoryInv'
        BY <4>1, <4>2, OnboardUserKeeps, Constants
      <4>4. Authorised(w, i)
        BY <3>3 DEF Authorised
      <4> QED BY <3>3, <4>3, <4>4
    <3> QED BY <3>2, <3>3
  <2>2. CASE ~ Admitted(w, i, r) /\ Refuse(w, i, "SECURITY_BOUNDARY_VIOLATION")
    <3>1. i # 0
      BY <2>2 DEF Admitted
    <3>2. UNCHANGED memory /\ Entered(w, users[w][i].tenant) /\ Authorised(w, i)
      BY <1>1, <2>2, <3>1, RefuseIs
    <3> QED BY <3>2, QuietMemory, QuietWithin
  <2>3. CASE Admitted(w, i, r) /\ Handle(w, i, Partition(w, i, r), b)
    <3> DEFINE t == Partition(w, i, r)
    <3>1. t \in Tenants /\ Operator(w, i, t) /\ (i # 0 => t = users[w][i].tenant)
      BY <1>1, <1>3, PartitionIs
    <3>2. Handle(w, i, t, b)
      BY <2>3
    <3> HIDE DEF t
    <3>3. Kept(w, i, t, Target(t, b))
      BY <3>1, <3>2, HandleStep DEF MayBeNamed
    <3> QED BY <3>1, <3>3 DEF Kept
  <2> QED BY <1>2, <2>1, <2>2, <2>3 DEF Dispatch
<1> QED BY <1>1, <1>5, <1>6 DEF i

(* What a fresh worker holds is well formed.                                *)
LEMMA SeedsNamed ==
  /\ SeedTenants \subseteq Tenants /\ SeedUsers \in Seq(UserRecords)
  /\ SeedSites \in [Tenants -> SUBSET Names] /\ SeedAssets \in [Tenants -> SUBSET Devices]
  /\ \A t \in Tenants : /\ \A s \in SeedSites[t] : SiteNamed(s, t)
                        /\ \A a \in SeedAssets[t] : a.site \in SeedSites[t] /\ DeviceNamed(a, t)
<1>1. SeedSites \in [Tenants -> SUBSET (Names \ {<<>>})]
  BY OnboardingAssumption DEF OnboardingAssumption, Refused
<1>2. SeedAssets \in [Tenants -> SUBSET Devices]
  BY OnboardingAssumption DEF OnboardingAssumption, Devices
<1>3. \A t \in Tenants : \A a \in SeedAssets[t] : a.site \in SeedSites[t]
  BY OnboardingAssumption DEF OnboardingAssumption
<1>4. SeedTenants \subseteq Tenants /\ SeedUsers \in Seq(UserRecords)
  BY OnboardingAssumption DEF OnboardingAssumption
<1> QED BY <1>1, <1>2, <1>3, <1>4 DEF SiteNamed, MayName, DeviceNamed

(* The invariant holds when the workers have started.                       *)
LEMMA MemoryInit == Init => MemoryInv
<1> SUFFICES ASSUME Init PROVE MemoryInv
  OBVIOUS
<1>1. /\ registry = [w \in Workers |-> SeedTenants] /\ users = [w \in Workers |-> SeedUsers]
      /\ sites = [w \in Workers |-> SeedSites] /\ assets = [w \in Workers |-> SeedAssets]
  BY DEF Init, OnboardingInit, Fresh
<1>2. WTypes
  BY <1>1, SeedsNamed DEF WTypes
<1>3. Named
  BY <1>1, SeedsNamed DEF Named
<1> QED BY <1>2, <1>3 DEF MemoryInv

(* A worker started again holds its seeds, and the others what they held.   *)
LEMMA RestartKeeps ==
  ASSUME MemoryInv, NEW w \in Workers, Restart(w)
  PROVE  MemoryInv'
<1>1. /\ registry' = [registry EXCEPT ![w] = SeedTenants]
      /\ users' = [users EXCEPT ![w] = SeedUsers]
      /\ sites' = [sites EXCEPT ![w] = SeedSites] /\ assets' = [assets EXCEPT ![w] = SeedAssets]
  BY DEF Restart, Fresh
<1>2. WTypes'
  BY <1>1, SeedsNamed DEF MemoryInv, WTypes
<1>3. Named'
  <2> SUFFICES ASSUME NEW v \in Workers, NEW t \in Tenants
               PROVE  /\ \A s \in sites'[v][t] : SiteNamed(s, t)
                      /\ \A a \in assets'[v][t] : a.site \in sites'[v][t] /\ DeviceNamed(a, t)
    BY DEF Named, SiteNamed, DeviceNamed
  <2>1. CASE v = w
    <3>1. sites'[v] = SeedSites /\ assets'[v] = SeedAssets
      BY <1>1, <2>1 DEF MemoryInv, WTypes
    <3> QED BY <3>1, SeedsNamed
  <2>2. CASE v # w
    <3>1. sites'[v] = sites[v] /\ assets'[v] = assets[v]
      BY <1>1, <2>2 DEF MemoryInv, WTypes
    <3> QED BY <3>1 DEF MemoryInv, Named
  <2> QED BY <2>1, <2>2
<1> QED BY <1>2, <1>3 DEF MemoryInv

(* What one step can be.                                                    *)
LEMMA StepIs ==
  ASSUME Next
  PROVE  \E w \in Workers :
           \/ Transact(w) \/ Restart(w)
           \/ \E c \in Credentials, n \in MayBeNamed, b \in MayBeNamed :
                Dispatch(w, GetOperatorFromToken(w, c), n, b)
<1>1. CASE \E w \in Workers : Transact(w)
  BY <1>1
<1>2. CASE \E w \in Workers : Restart(w)
  BY <1>2
<1>3. ASSUME NEW w \in Workers, NEW c \in Credentials, NEW n \in Namings,
             Dispatch(w, GetOperatorFromToken(w, c), n[1], n[2])
      PROVE  \E x \in MayBeNamed, b \in MayBeNamed :
               Dispatch(w, GetOperatorFromToken(w, c), x, b)
  <2>1. n[1] \in MayBeNamed /\ n[2] \in MayBeNamed
    BY Constants DEF MayBeNamed
  <2> QED BY <1>3, <2>1
<1> QED BY <1>1, <1>2, <1>3, Zenon DEF Next

(* A transaction or a restart serves nobody and enters nothing.             *)
LEMMA QuietStep ==
  ASSUME NEW w, Transact(w) \/ Restart(w)
  PROVE  served'.email = "none"
BY DEF Transact, Restart, NothingLogged, NoEntry, Nobody

(* Every step keeps the invariant.                                          *)
LEMMA MemoryStep == MemoryInv /\ [Next]_vars => MemoryInv'
<1> SUFFICES ASSUME MemoryInv, [Next]_vars PROVE MemoryInv'
  OBVIOUS
<1>1. CASE Next
  <2>1. PICK w \in Workers :
           \/ Transact(w) \/ Restart(w)
           \/ \E c \in Credentials, n \in MayBeNamed, b \in MayBeNamed :
                Dispatch(w, GetOperatorFromToken(w, c), n, b)
    BY <1>1, StepIs
  <2>2. CASE Transact(w)
    BY <2>2, QuietMemory DEF Transact
  <2>3. CASE Restart(w)
    BY <2>3, RestartKeeps
  <2>4. ASSUME NEW c \in Credentials, NEW n \in MayBeNamed, NEW b \in MayBeNamed,
               Dispatch(w, GetOperatorFromToken(w, c), n, b)
        PROVE  MemoryInv'
    BY <2>4, DispatchStep
  <2> QED BY <2>1, <2>2, <2>3, <2>4
<1>2. CASE UNCHANGED vars
  BY <1>2, QuietMemory DEF vars, memory
<1> QED BY <1>1, <1>2

(* The memory of every worker is well formed, every site has a name its     *)
(* tenant may give and every device hangs under a site of its tenant and is *)
(* named after it, under every request and restart.                         *)
THEOREM MemoryHolds == Spec => []MemoryInv
BY MemoryInit, MemoryStep, PTL DEF Spec

(* Whoever logs in is who the session acts as, for any users that share     *)
(* emails.                                                                  *)
THEOREM LoginHolds == Spec => []LoginIsHonoured
<1>1. MemoryInv => LoginIsHonoured
  BY UsersAre, LoginActsAs DEF MemoryInv
<1> QED BY <1>1, MemoryHolds, PTL

(* What is typed for a facility settles, whatever the tenant and its code,  *)
(* if nothing in them has doubled dashes.                                   *)
LEMMA FacilitiesDo == FacilitiesSettle
<1> SUFFICES ASSUME NEW t \in Tenants, NEW f \in TypedFacilities, NEW code \in {<<>>, CodeOf[t]},
                    Under(t, <<"ORG">>), Plain(t), Plain(code), Plain(f),
                    FacilityId(t, code, f) # Refused
             PROVE  ValidateOrApplyFacilityPrefix(FacilityId(t, code, f), t, <<>>, TRUE)
                      = FacilityId(t, code, f)
  BY DEF FacilitiesSettle
<1>1. t \in Names /\ code \in Names /\ f \in Names
  BY Constants, EmptySeq DEF Names
<1> HIDE DEF Plain, FacilityId
<1> QED BY <1>1, FacilitiesAre

(* Facilities are named after their tenant and devices after a facility of  *)
(* it, and what was typed without doubled dashes is found again under the   *)
(* name it was given.                                                       *)
THEOREM NamesHold == Spec => []NamesStable
<1>1. ASSUME MemoryInv PROVE NamesStable
  <2> SUFFICES ASSUME NEW w \in Workers, NEW t \in Tenants
               PROVE  /\ \A s \in sites[w][t] \ SeedSites[t] : FacilityName(s, t)
                      /\ \A a \in assets[w][t] \ SeedAssets[t] :
                           a.site \in sites[w][t] /\ Under(a.id, RStrip(a.site))
                      /\ FacilitiesSettle
                      /\ \A s \in sites[w][t], d \in TypedDevices :
                           LET id == DeviceId(s, d) IN
                           Plain(s) /\ Plain(d) /\ id # Refused =>
                             ValidateOrApplyDevicePrefix(id, s, TRUE) = id
    BY DEF NamesStable
  <2>1. /\ \A s \in sites[w][t] : SiteNamed(s, t) /\ s \in Names
        /\ \A a \in assets[w][t] : a.site \in sites[w][t] /\ DeviceNamed(a, t)
    BY <1>1 DEF MemoryInv, Named, WTypes
  <2>2. \A s \in sites[w][t] \ SeedSites[t] : FacilityName(s, t)
    BY <2>1 DEF SiteNamed, MayName
  <2>3. \A a \in assets[w][t] \ SeedAssets[t] :
          a.site \in sites[w][t] /\ Under(a.id, RStrip(a.site))
    BY <2>1 DEF DeviceNamed
  <2>4. ASSUME NEW s \in sites[w][t], NEW d \in TypedDevices,
               Plain(s), Plain(d), DeviceId(s, d) # Refused
        PROVE  ValidateOrApplyDevicePrefix(DeviceId(s, d), s, TRUE) = DeviceId(s, d)
    <3>1. s \in Names \ {<<>>} /\ d \in Names
      BY <2>1, Constants DEF SiteNamed
    <3> HIDE DEF Plain, DeviceId
    <3> QED BY <2>4, <3>1, DevicesAre
  <2> QED BY <2>2, <2>3, <2>4, FacilitiesDo
<1> QED BY <1>1, MemoryHolds, PTL

(* The action of PartitionsIsolated.                                        *)
Isolated ==
  \A w \in Workers : served'.email # "none" /\ w = served'.worker =>
    /\ registry' = registry /\ logged'.worker \in {w, "none"}
    /\ \A v \in Workers \ {w} :
         users'[v] = users[v] /\ sites'[v] = sites[v] /\ assets'[v] = assets[v]
    /\ \A t \in Tenants \ {served'.tenant} :
         /\ UsersOf(w, t)' = UsersOf(w, t)
         /\ served'.body \in {NoTenant, served'.tenant} =>
              sites'[w][t] = sites[w][t] /\ assets'[w][t] = assets[w][t] /\ logged'.tenant # t

(* A step for an operator leaves other workers, the enrolled tenants and    *)
(* other tenants' users alone, and other tenants' sites, assets and trails  *)
(* too if its body names no other tenant, for any tenants and any request.  *)
THEOREM IsolationHolds == Spec => PartitionsIsolated
<1>1. ASSUME MemoryInv, Next PROVE Isolated
  <2> SUFFICES ASSUME served'.email # "none" PROVE Isolated
    BY DEF Isolated
  <2>1. PICK w \in Workers :
           \/ Transact(w) \/ Restart(w)
           \/ \E c \in Credentials, n \in MayBeNamed, b \in MayBeNamed :
                Dispatch(w, GetOperatorFromToken(w, c), n, b)
    BY <1>1, StepIs
  <2>2. PICK c \in Credentials, n \in MayBeNamed, b \in MayBeNamed :
          Dispatch(w, GetOperatorFromToken(w, c), n, b)
    BY <2>1, QuietStep
  <2>3. /\ served'.worker = w /\ served'.body = b
        /\ Within(w, served'.tenant, Target(served'.tenant, b))
    BY <1>1, <2>2, DispatchStep
  <2>4. b \in {NoTenant, served'.tenant} => Target(served'.tenant, b) = served'.tenant
    BY DEF Target
  <2> QED BY <2>3, <2>4 DEF Isolated, Within
<1>2. MemoryInv /\ [Next]_vars => [Isolated]_vars
  BY <1>1
<1> QED BY <1>2, MemoryHolds, PTL DEF Spec, PartitionsIsolated, Isolated

(* The action of ActsWithinAuthority.                                       *)
WithinAuthority ==
  served'.email # "none" /\ logged'.action \in ByCaller \cup {"ADAPTATION_PROPOSED"} =>
    \E u \in Range(users[logged'.worker]) :
      /\ u.email = served'.email /\ u.tenant = served'.tenant /\ u.status = "ACTIVE"
      /\ logged'.worker = served'.worker /\ logged'.tenant = u.tenant
      /\ logged'.action \in ByCaller => logged'.by = u.email /\ logged'.role = u.role
      /\ logged'.action \in Privileged => u.role \notin {"VIEWER", "OPERATOR"}
      /\ logged'.action \in {"ACKNOWLEDGE_ALERT", "ADAPTATION_PROPOSED"}
           => u.role # "VIEWER"

(* A decision in the trail was taken by the user who was served, who could  *)
(* take it then.                                                            *)
THEOREM AuthorityHolds == Spec => ActsWithinAuthority
<1>1. ASSUME MemoryInv, Next PROVE WithinAuthority
  <2> SUFFICES ASSUME served'.email # "none",
                      logged'.action \in ByCaller \cup {"ADAPTATION_PROPOSED"}
               PROVE  WithinAuthority
    BY DEF WithinAuthority
  <2>1. PICK w \in Workers :
           \/ Transact(w) \/ Restart(w)
           \/ \E c \in Credentials, n \in MayBeNamed, b \in MayBeNamed :
                Dispatch(w, GetOperatorFromToken(w, c), n, b)
    BY <1>1, StepIs
  <2>2. PICK c \in Credentials, n \in MayBeNamed, b \in MayBeNamed :
          Dispatch(w, GetOperatorFromToken(w, c), n, b)
    BY <2>1, QuietStep
  <2> DEFINE i == GetOperatorFromToken(w, c)
  <2>3. /\ Authorised(w, i) /\ i # 0
        /\ i \in DOMAIN users[w] /\ users[w][i].status = "ACTIVE"
        /\ served'.worker = w /\ served'.tenant = users[w][i].tenant
        /\ served'.email = users[w][i].email
    BY <1>1, <2>2, DispatchStep
  <2> HIDE DEF i
  <2>4. users[w][i] \in Range(users[w])
    BY <2>3 DEF Range
  <2> QED BY <2>3, <2>4 DEF Authorised, WithinAuthority
<1>2. MemoryInv /\ [Next]_vars => [WithinAuthority]_vars
  BY <1>1
<1> QED BY <1>2, MemoryHolds, PTL DEF Spec, ActsWithinAuthority, WithinAuthority


-----------------------------------------------------------------------------
(* The database all workers share.                                          *)

(* The elements of a finite set, in some order.                             *)
LEMMA SetToSeqIn ==
  ASSUME NEW S, IsFiniteSet(S)
  PROVE  SetToSeq(S) \in Seq(S)
<1>1. Cardinality(S) \in Nat /\ ExistsBijection(1..Cardinality(S), S)
  BY FS_CardinalityType
<1>2. \E f \in [1..Cardinality(S) -> S] : IsInjective(f)
  BY <1>1 DEF ExistsBijection, Bijection, Injection
<1>3. SetToSeq(S) \in [1..Cardinality(S) -> S]
  BY <1>2 DEF SetToSeq
<1> QED BY <1>1, <1>3

(* Sequences over a set in a row are one over that set.                     *)
LEMMA FlatIn ==
  ASSUME NEW T, NEW q \in Seq(Seq(T))
  PROVE  Flat(q) \in Seq(T)
<1> DEFINE D == DOMAIN q
           V == Seq(T)
           Joins(f) == f = [s \in SUBSET D |-> IF s = {} THEN <<>>
                                               ELSE q[Pick(s)] \o f[s \ {Pick(s)}]]
           all == CHOOSE f : Joins(f)
<1>1. Flat(q) = all[D]
  BY DEF Pick, Flat, FoldSeq, FoldFunction, FoldFunctionOnSet, MapThenFoldSet
<1>2. D = 1..Len(q) /\ Len(q) \in Nat /\ IsFiniteSet(D) /\ \A i \in D : q[i] \in V
  BY FS_Interval
<1>3. \A s \in SUBSET D : s # {} => Pick(s) \in s
  BY DEF Pick
<1>4. <<>> \in V /\ \A u, v \in V : u \o v \in V
  BY EmptySeq, ConcatProperties
<1> HIDE DEF D, V
<1>5. \E f \in [SUBSET D -> V] : Joins(f)
  <2> DEFINE pick == [s \in SUBSET D |-> Pick(s)]
             step == [p \in D \X V |-> q[p[1]] \o p[2]]
  <2>1. Picks(pick, D)
    BY <1>3 DEF Picks
  <2>2. \A x \in D, v \in V : step[<<x, v>>] = q[x] \o v /\ step[<<x, v>>] \in V
    BY <1>2, <1>4
  <2> HIDE DEF step, pick
  <2>3. PICK g \in [SUBSET D -> V] : FoldsUp(g, D, <<>>, pick, step)
    <3>1. Steps(step, D, V)
      BY <2>2 DEF Steps
    <3> QED BY <1>2, <1>4, <2>1, <3>1, FoldExists
  <2>4. \A s \in SUBSET D : s # {} =>
          step[<<pick[s], g[s \ {pick[s]}]>>] = q[Pick(s)] \o g[s \ {Pick(s)}]
    <3> SUFFICES ASSUME NEW s \in SUBSET D, s # {}
                 PROVE  step[<<pick[s], g[s \ {pick[s]}]>>] = q[Pick(s)] \o g[s \ {Pick(s)}]
      OBVIOUS
    <3>1. pick[s] = Pick(s) /\ Pick(s) \in D /\ s \ {Pick(s)} \in SUBSET D
      BY <1>3 DEF pick
    <3>2. g[s \ {Pick(s)}] \in V
      BY <3>1
    <3> QED BY <2>2, <3>1, <3>2
  <2>5. Joins(g)
    BY <2>3, <2>4 DEF FoldsUp
  <2> QED BY <2>5
<1>6. Joins(all)
  <2> HIDE DEF Joins
  <2> QED BY <1>5
<1> HIDE DEF all
<1>7. /\ DOMAIN all = SUBSET D /\ all[{}] = <<>>
      /\ \A s \in SUBSET D : s # {} => all[s] = q[Pick(s)] \o all[s \ {Pick(s)}]
  BY <1>6
<1>8. SUBSET D \subseteq {s \in SUBSET D : all[s] \in V}
  <2> DEFINE P == {s \in SUBSET D : all[s] \in V}
  <2>1. ASSUME NEW s \in SUBSET D, \A r \in SUBSET s : r # s => r \in P
        PROVE  s \in P
    <3>1. CASE s = {}
      BY <1>4, <1>7, <3>1
    <3>2. CASE s # {}
      <4>1. Pick(s) \in s /\ s \ {Pick(s)} \in SUBSET s /\ s \ {Pick(s)} # s
        BY <1>3, <3>2
      <4>2. all[s \ {Pick(s)}] \in V
        BY <2>1, <4>1
      <4>3. q[Pick(s)] \in V
        BY <1>2, <4>1
      <4> QED BY <1>4, <1>7, <3>2, <4>2, <4>3
    <3> QED BY <3>1, <3>2
  <2>2. IsFiniteSet(D)
    BY <1>2
  <2> HIDE DEF P
  <2>3. SUBSET D \subseteq P
    BY <2>1, <2>2, SubsetsIn
  <2> QED BY <2>3 DEF P
<1> QED BY <1>1, <1>8 DEF V

-----------------------------------------------------------------------------
(* Databases.                                                               *)

(* Names of rows and what a row refers to.                                  *)
Keys    == Names
Parents == Keys \cup {Registered, Placeholder}
Links   == [tenant : Tenants, parent : Parents]

(* A transaction that a request of a well-formed worker leads to.           *)
TxOK(tx) ==
  /\ tx.table = "site"  => tx.key \in Names /\ SiteNamed(tx.key, tx.tenant)
  /\ tx.table = "asset" => /\ tx.key \in Names /\ tx.parent \in Names
                           /\ SiteNamed(tx.parent, tx.tenant)
                           /\ DeviceNamed([id |-> tx.key, site |-> tx.parent], tx.tenant)

Columns == {"organisation", "portfolio", "site", "asset", "observation"}

Txs == {tx \in [table : Columns, key : Keys, tenant : Tenants, parent : Parents] : TxOK(tx)}

(* A partial function, such as a table.                                     *)
Partial(X, Y) == UNION {[D -> Y] : D \in SUBSET X}

Tables == [organisation : Partial(Keys, Parents), portfolio : Partial(Keys, Links),
           site : Partial(Keys, Links), system : Partial(Keys, Links),
           asset : Partial(Keys, Links), observation : SUBSET Links]

SitesSound(site, system) ==
  /\ DOMAIN site = DOMAIN system
  /\ \A s \in DOMAIN site : /\ s \in Names /\ SiteNamed(s, site[s].tenant)
                            /\ system[s].tenant = site[s].tenant

AssetsSound(asset, site) ==
  \A a \in DOMAIN asset :
    /\ a \in Names /\ asset[a].parent \in Names /\ asset[a].parent \in DOMAIN site
    /\ SiteNamed(asset[a].parent, asset[a].tenant)
    /\ DeviceNamed([id |-> a, site |-> asset[a].parent], asset[a].tenant)

(* Databases in which all of MirrorSound holds.                             *)
SoundTables == {T \in Tables : SitesSound(T.site, T.system) /\ AssetsSound(T.asset, T.site)}

(* A partial function by its domain and its values.                         *)
LEMMA PartialIs ==
  ASSUME NEW X, NEW Y, NEW f
  PROVE  f \in Partial(X, Y) <=>
           /\ DOMAIN f \subseteq X /\ f = [x \in DOMAIN f |-> f[x]]
           /\ \A x \in DOMAIN f : f[x] \in Y
<1>1. ASSUME f \in Partial(X, Y)
      PROVE  /\ DOMAIN f \subseteq X /\ f = [x \in DOMAIN f |-> f[x]]
             /\ \A x \in DOMAIN f : f[x] \in Y
  <2>1. PICK D \in SUBSET X : f \in [D -> Y]
    BY <1>1 DEF Partial
  <2> QED BY <2>1
<1>2. ASSUME /\ DOMAIN f \subseteq X /\ f = [x \in DOMAIN f |-> f[x]]
             /\ \A x \in DOMAIN f : f[x] \in Y
      PROVE  f \in Partial(X, Y)
  <2>1. f \in [DOMAIN f -> Y] /\ DOMAIN f \in SUBSET X
    BY <1>2
  <2> QED BY <2>1 DEF Partial
<1> QED BY <1>1, <1>2

(* g is f with a row more, or another one for k.                            *)
Overrides(g, f, k, y) ==
  DOMAIN g = DOMAIN f \cup {k} /\ g[k] = y /\ \A x \in DOMAIN f : x # k => g[x] = f[x]

(* g is f, or f with a row for k.                                           *)
Upserts(g, f, k, y) ==
  /\ DOMAIN g = DOMAIN f \cup {k}
  /\ k \notin DOMAIN f => g[k] = y
  /\ \A x \in DOMAIN f : g[x] = f[x]

(* A row more.                                                              *)
LEMMA OverrideIs ==
  ASSUME NEW X, NEW Y, NEW f \in Partial(X, Y), NEW k \in X, NEW y \in Y
  PROVE  Override(f, k, y) \in Partial(X, Y) /\ Overrides(Override(f, k, y), f, k, y)
<1> DEFINE g == Override(f, k, y)
<1>1. /\ g = [x \in DOMAIN f \cup {k} |-> IF x = k THEN y ELSE f[x]]
      /\ DOMAIN g = DOMAIN f \cup {k}
      /\ \A x \in DOMAIN f \cup {k} : g[x] = IF x = k THEN y ELSE f[x]
  BY DEF Override
<1>2. DOMAIN f \subseteq X /\ \A x \in DOMAIN f : f[x] \in Y
  BY PartialIs
<1> HIDE DEF g
<1>3. g = [x \in DOMAIN g |-> g[x]]
  BY <1>1
<1>4. g \in Partial(X, Y)
  BY <1>1, <1>2, <1>3, PartialIs
<1>5. Overrides(g, f, k, y)
  BY <1>1 DEF Overrides
<1> QED BY <1>4, <1>5 DEF g

(* A row that is there stays.                                               *)
LEMMA UpsertIs ==
  ASSUME NEW X, NEW Y, NEW f \in Partial(X, Y), NEW k \in X, NEW y \in Y
  PROVE  Upsert(f, k, y) \in Partial(X, Y) /\ Upserts(Upsert(f, k, y), f, k, y)
<1> DEFINE g == Upsert(f, k, y)
<1>1. CASE k \in DOMAIN f
  <2>1. g = f
    BY <1>1 DEF Upsert
  <2> HIDE DEF g
  <2>2. Upserts(g, f, k, y)
    BY <1>1, <2>1 DEF Upserts
  <2> QED BY <2>1, <2>2 DEF g
<1>2. CASE k \notin DOMAIN f
  <2>1. g = Override(f, k, y)
    BY <1>2 DEF Upsert
  <2>2. g \in Partial(X, Y) /\ Overrides(g, f, k, y)
    BY <2>1, OverrideIs
  <2> HIDE DEF g
  <2>3. Upserts(g, f, k, y)
    BY <1>2, <2>2 DEF Upserts, Overrides
  <2> QED BY <2>2, <2>3 DEF g
<1> QED BY <1>1, <1>2

(* An empty database is sound.                                              *)
LEMMA EmptySound == Empty \in SoundTables
<1>1. \A X, Y : <<>> \in Partial(X, Y)
  <2> SUFFICES ASSUME NEW X, NEW Y PROVE <<>> \in Partial(X, Y)
    OBVIOUS
  <2>1. DOMAIN <<>> = {} /\ <<>> = [x \in DOMAIN <<>> |-> <<>>[x]]
    OBVIOUS
  <2> QED BY <2>1, PartialIs
<1>2. Empty \in Tables
  BY <1>1 DEF Empty, Tables
<1>3. /\ Empty.site = <<>> /\ Empty.system = <<>> /\ Empty.asset = <<>>
      /\ DOMAIN <<>> = {}
  BY DEF Empty
<1> QED BY <1>2, <1>3 DEF SoundTables, SitesSound, AssetsSound

(* A transaction by the table it writes.                                    *)
LEMMA LinkIs ==
  ASSUME NEW tx \in Txs
  PROVE  /\ Link(tx) \in Links /\ Link(tx).tenant = tx.tenant /\ Link(tx).parent = tx.parent
         /\ tx.tenant \in Tenants /\ tx.key \in Keys /\ tx.parent \in Parents
         /\ tx.table \in Columns /\ TxOK(tx)
BY DEF Link, Links, Txs

(* A tenant's portfolio in another's place.                                 *)
LEMMA PortfolioSound ==
  ASSUME NEW T \in SoundTables, NEW tx \in Txs, tx.table = "portfolio"
  PROVE  Insert(T, tx) \in SoundTables
<1> DEFINE p == Upsert(T.portfolio, tx.key, Link(tx))
           U == Insert(T, tx)
<1>1. T \in Tables /\ T.portfolio \in Partial(Keys, Links)
  BY DEF SoundTables, Tables
<1>2. p \in Partial(Keys, Links)
  BY <1>1, UpsertIs, LinkIs
<1>3. U = [T EXCEPT !.portfolio = p]
  BY DEF Insert
<1> HIDE DEF p, U
<1>4. U \in Tables /\ U.site = T.site /\ U.system = T.system /\ U.asset = T.asset
  BY <1>1, <1>2, <1>3 DEF Tables
<1> QED BY <1>4 DEF SoundTables, U

(* A site, with its energy system.                                          *)
LEMMA SiteSound ==
  ASSUME NEW T \in SoundTables, NEW tx \in Txs, tx.table = "site"
  PROVE  Insert(T, tx) \in SoundTables
<1> DEFINE k == tx.key
           l == Link(tx)
           m == [tenant |-> tx.tenant, parent |-> tx.key]
           p == Upsert(T.site, k, l)
           q == Upsert(T.system, k, m)
           U == Insert(T, tx)
<1>1. T \in Tables /\ T.site \in Partial(Keys, Links) /\ T.system \in Partial(Keys, Links)
      /\ SitesSound(T.site, T.system) /\ AssetsSound(T.asset, T.site)
  BY DEF SoundTables, Tables
<1>2. /\ l \in Links /\ l.tenant = tx.tenant /\ k \in Keys /\ tx.tenant \in Tenants
      /\ k \in Names /\ SiteNamed(k, tx.tenant)
  BY LinkIs DEF TxOK
<1>3. m \in Links /\ m.tenant = tx.tenant
  BY <1>2 DEF Links, Parents
<1>4. U = [[T EXCEPT !.site = p] EXCEPT !.system = q]
  <2>1. [T EXCEPT !.site = p].system = T.system
    BY <1>1 DEF Tables
  <2> QED BY <2>1 DEF Insert
<1> HIDE DEF k, l, m
<1>5. p \in Partial(Keys, Links) /\ Upserts(p, T.site, k, l)
  BY <1>1, <1>2, UpsertIs
<1>6. q \in Partial(Keys, Links) /\ Upserts(q, T.system, k, m)
  BY <1>1, <1>2, <1>3, UpsertIs
<1> HIDE DEF p, q, U
<1>7. U \in Tables /\ U.site = p /\ U.system = q /\ U.asset = T.asset
  BY <1>1, <1>4, <1>5, <1>6 DEF Tables
<1>8. SitesSound(p, q)
  <2>1. DOMAIN p = DOMAIN q
    BY <1>1, <1>5, <1>6 DEF SitesSound, Upserts
  <2>2. ASSUME NEW s \in DOMAIN p
        PROVE  s \in Names /\ SiteNamed(s, p[s].tenant) /\ q[s].tenant = p[s].tenant
    <3>1. CASE s \in DOMAIN T.site
      <4>1. p[s] = T.site[s] /\ q[s] = T.system[s]
        BY <1>1, <1>5, <1>6, <3>1 DEF SitesSound, Upserts
      <4> QED BY <1>1, <3>1, <4>1 DEF SitesSound
    <3>2. CASE s \notin DOMAIN T.site
      <4>1. s = k /\ p[s] = l /\ q[s] = m
        BY <1>1, <1>5, <1>6, <2>2, <3>2 DEF SitesSound, Upserts
      <4> QED BY <1>2, <1>3, <4>1
    <3> QED BY <3>1, <3>2
  <2> QED BY <2>1, <2>2 DEF SitesSound
<1>9. AssetsSound(T.asset, p)
  BY <1>1, <1>5 DEF AssetsSound, Upserts
<1> QED BY <1>7, <1>8, <1>9 DEF SoundTables, U

(* An asset, of which the database makes sure that its site is there, if    *)
(* perhaps in another tenant's name.                                        *)
LEMMA AssetSound ==
  ASSUME NEW T \in SoundTables, NEW tx \in Txs, tx.table = "asset", Accepts(T, tx)
  PROVE  Insert(T, tx) \in SoundTables
<1> DEFINE k == tx.key
           l == Link(tx)
           p == Upsert(T.asset, k, l)
           U == Insert(T, tx)
<1>1. T \in Tables /\ T.asset \in Partial(Keys, Links) /\ T.site \in Partial(Keys, Links)
      /\ SitesSound(T.site, T.system) /\ AssetsSound(T.asset, T.site)
  BY DEF SoundTables, Tables
<1>2. /\ l \in Links /\ l.tenant = tx.tenant /\ l.parent = tx.parent
      /\ tx.tenant \in Tenants /\ k \in Keys /\ k \in Names /\ tx.parent \in Names
      /\ SiteNamed(tx.parent, tx.tenant)
      /\ DeviceNamed([id |-> k, site |-> tx.parent], tx.tenant)
  BY LinkIs DEF TxOK
<1>3. U = [T EXCEPT !.asset = p]
  BY DEF Insert
<1>4. tx.parent \in DOMAIN T.site
  BY <1>1 DEF Accepts, Has, SitesSound
<1> HIDE DEF k, l
<1>6. p \in Partial(Keys, Links) /\ Upserts(p, T.asset, k, l)
  BY <1>1, <1>2, UpsertIs
<1> HIDE DEF p, U
<1>7. U \in Tables /\ U.asset = p /\ U.system = T.system /\ U.site = T.site
  BY <1>1, <1>3, <1>6 DEF Tables
<1>8. AssetsSound(p, T.site)
  <2> SUFFICES ASSUME NEW a \in DOMAIN p
               PROVE  /\ a \in Names /\ p[a].parent \in Names /\ p[a].parent \in DOMAIN T.site
                      /\ SiteNamed(p[a].parent, p[a].tenant)
                      /\ DeviceNamed([id |-> a, site |-> p[a].parent], p[a].tenant)
    BY DEF AssetsSound
  <2>1. CASE a \in DOMAIN T.asset
    <3>1. p[a] = T.asset[a]
      BY <1>6, <2>1 DEF Upserts
    <3> QED BY <1>1, <2>1, <3>1 DEF AssetsSound
  <2>2. CASE a \notin DOMAIN T.asset
    <3>1. a = k /\ p[a] = l
      BY <1>6, <2>2 DEF Upserts
    <3> QED BY <1>2, <1>4, <3>1
  <2> QED BY <2>1, <2>2
<1> QED BY <1>1, <1>7, <1>8 DEF SoundTables, U

(* Every transaction keeps the database sound, whatever it finds there.     *)
LEMMA WrittenSound ==
  ASSUME NEW T \in SoundTables, NEW tx \in Txs
  PROVE  Written(T, tx) \in SoundTables
<1> DEFINE U == Written(T, tx)
<1>1. T \in Tables
  BY DEF SoundTables
<1>2. CASE ~ Accepts(T, tx)
  <2>1. tx.table # "organisation" /\ tx.table # "observation"
    BY <1>2 DEF Accepts
  <2>2. U = T
    BY <1>2, <2>1 DEF Written
  <2> QED BY <2>2
<1>3. CASE Accepts(T, tx) /\ tx.table = "organisation"
  <2> DEFINE o == Override(T.organisation, tx.key, tx.parent)
  <2>1. U = [T EXCEPT !.organisation = o]
    BY <1>3 DEF Written
  <2>2. T.organisation \in Partial(Keys, Parents)
    BY <1>1 DEF Tables
  <2>3. o \in Partial(Keys, Parents)
    BY <2>2, LinkIs, OverrideIs
  <2> HIDE DEF o, U
  <2>4. U \in Tables /\ U.site = T.site /\ U.system = T.system /\ U.asset = T.asset
    BY <1>1, <2>1, <2>3 DEF Tables
  <2> QED BY <2>4 DEF SoundTables, U
<1>4. CASE Accepts(T, tx) /\ tx.table = "observation"
  <2> DEFINE o == T.observation \cup {Link(tx)}
  <2>1. U = [T EXCEPT !.observation = o]
    BY <1>4 DEF Written
  <2>2. o \in SUBSET Links
    BY <1>1, LinkIs DEF Tables
  <2> HIDE DEF o, U
  <2>3. U \in Tables /\ U.site = T.site /\ U.system = T.system /\ U.asset = T.asset
    BY <1>1, <2>1, <2>2 DEF Tables
  <2> QED BY <2>3 DEF SoundTables, U
<1>5. CASE Accepts(T, tx) /\ tx.table \in {"portfolio", "site", "asset"}
  <2>1. U = Insert(T, tx)
    BY <1>5 DEF Written
  <2> QED BY <1>5, <2>1, PortfolioSound, SiteSound, AssetSound
<1>6. tx.table \in Columns
  BY LinkIs
<1> QED BY <1>2, <1>3, <1>4, <1>5, <1>6 DEF Columns

(* Starting from an empty database, so do the transactions of a sequence.   *)
LEMMA WrittenAll ==
  ASSUME NEW q \in Seq(Txs)
  PROVE  FoldLeft(Written, Empty, q) \in SoundTables
<1> DEFINE D == DOMAIN q
           V == SoundTables
           Writes(f) == f = [s \in SUBSET D |-> IF s = {} THEN Empty
                                                ELSE Written(f[s \ {Max(s)}], q[Max(s)])]
           all == CHOOSE f : Writes(f)
<1>1. FoldLeft(Written, Empty, q) = all[D]
  BY DEF FoldLeft, MapThenFoldSet
<1>2. D = 1..Len(q) /\ Len(q) \in Nat /\ IsFiniteSet(D) /\ \A i \in D : q[i] \in Txs
  BY FS_Interval
<1>3. \A s \in SUBSET D : s # {} => Max(s) \in s
  <2> SUFFICES ASSUME NEW s \in SUBSET D, s # {} PROVE Max(s) \in s
    OBVIOUS
  <2>1. s \subseteq 0..Len(q)
    BY <1>2
  <2> QED BY <1>2, <2>1, MaxIn
<1>4. Empty \in V /\ \A U \in V, tx \in Txs : Written(U, tx) \in V
  BY EmptySound, WrittenSound
<1> HIDE DEF D, V
<1>5. \E f \in [SUBSET D -> V] : Writes(f)
  <2> DEFINE pick == [s \in SUBSET D |-> Max(s)]
             step == [p \in D \X V |-> Written(p[2], q[p[1]])]
  <2>1. Picks(pick, D)
    BY <1>3 DEF Picks
  <2>2. \A x \in D, v \in V : step[<<x, v>>] = Written(v, q[x]) /\ step[<<x, v>>] \in V
    BY <1>2, <1>4
  <2> HIDE DEF step, pick
  <2>3. PICK g \in [SUBSET D -> V] : FoldsUp(g, D, Empty, pick, step)
    <3>1. Steps(step, D, V)
      BY <2>2 DEF Steps
    <3> QED BY <1>2, <1>4, <2>1, <3>1, FoldExists
  <2>4. \A s \in SUBSET D : s # {} =>
          step[<<pick[s], g[s \ {pick[s]}]>>] = Written(g[s \ {Max(s)}], q[Max(s)])
    <3> SUFFICES ASSUME NEW s \in SUBSET D, s # {}
                 PROVE  step[<<pick[s], g[s \ {pick[s]}]>>] = Written(g[s \ {Max(s)}], q[Max(s)])
      OBVIOUS
    <3>1. pick[s] = Max(s) /\ Max(s) \in D /\ s \ {Max(s)} \in SUBSET D
      BY <1>3 DEF pick
    <3>2. g[s \ {Max(s)}] \in V
      BY <3>1
    <3> QED BY <2>2, <3>1, <3>2
  <2>5. Writes(g)
    BY <2>3, <2>4 DEF FoldsUp
  <2> QED BY <2>5
<1>6. Writes(all)
  <2> HIDE DEF Writes
  <2> QED BY <1>5
<1> HIDE DEF all
<1>7. /\ DOMAIN all = SUBSET D /\ all[{}] = Empty
      /\ \A s \in SUBSET D : s # {} => all[s] = Written(all[s \ {Max(s)}], q[Max(s)])
  BY <1>6
<1> DEFINE P == {s \in SUBSET D : all[s] \in V}
<1>8. ASSUME NEW s \in SUBSET D, \A r \in SUBSET s : r # s => r \in P
      PROVE  s \in P
  <2>1. CASE s = {}
    BY <1>4, <1>7, <2>1
  <2>2. CASE s # {}
    <3>1. Max(s) \in s /\ s \ {Max(s)} \in SUBSET s /\ s \ {Max(s)} # s
      BY <1>3, <2>2
    <3>2. all[s \ {Max(s)}] \in V /\ q[Max(s)] \in Txs
      BY <1>2, <1>8, <3>1
    <3>3. all[s] = Written(all[s \ {Max(s)}], q[Max(s)])
      BY <1>7, <2>2
    <3>4. Written(all[s \ {Max(s)}], q[Max(s)]) \in V
      BY <1>4, <3>2
    <3> QED BY <3>3, <3>4
  <2> QED BY <2>1, <2>2
<1>9. SUBSET D \subseteq P
  <2>1. IsFiniteSet(D)
    BY <1>2
  <2> HIDE DEF P
  <2> QED BY <1>8, <2>1, SubsetsIn
<1> QED BY <1>1, <1>9 DEF V

-----------------------------------------------------------------------------
(* What requests and starts send.                                           *)

(* A transaction of a well-formed request is well formed.                   *)
LEMMA RowIs ==
  ASSUME NEW table \in Columns, NEW key \in Keys, NEW tenant \in Tenants, NEW parent \in Parents,
         TxOK(Row(table, key, tenant, parent))
  PROVE  Row(table, key, tenant, parent) \in Txs
BY DEF Row, Txs

(* Tenants are named.                                                       *)
LEMMA TenantNamed == Tenants \subseteq Names
BY OnboardingAssumption DEF OnboardingAssumption

(* What the manager makes of a call for a tenant.                           *)
LEMMA TenantSyncs ==
  ASSUME NEW t \in Tenants
  PROVE  /\ SyncOrganisation(t, Registered) \in Seq(Txs) /\ SyncUser(t) \in Seq(Txs)
         /\ \A p \in Names : SyncPortfolio(p, t) \in Seq(Txs)
<1>1. t \in Keys /\ t \in Parents
  BY TenantNamed DEF Keys, Parents
<1>2. \A n \in {Registered, Placeholder} : SyncOrganisation(t, n) \in Seq(Txs)
  <2> SUFFICES ASSUME NEW n \in {Registered, Placeholder}
               PROVE  SyncOrganisation(t, n) \in Seq(Txs)
    OBVIOUS
  <2>1. n \in Parents
    BY DEF Parents
  <2>2. TxOK(Row("organisation", t, t, n))
    BY DEF TxOK, Row
  <2>3. Row("organisation", t, t, n) \in Txs
    BY <1>1, <2>1, <2>2, RowIs DEF Columns
  <2> QED BY <2>3 DEF SyncOrganisation
<1>3. ASSUME NEW p \in Names PROVE SyncPortfolio(p, t) \in Seq(Txs)
  <2>1. TxOK(Row("portfolio", p, t, t))
    BY DEF TxOK, Row
  <2>2. Row("portfolio", p, t, t) \in Txs
    BY <1>1, <2>1, RowIs DEF Columns, Keys
  <2> HIDE DEF Txs
  <2>3. <<Row("portfolio", p, t, t)>> \in Seq(Txs)
    BY <2>2
  <2> QED BY <1>2, <2>3, ConcatProperties DEF SyncPortfolio
<1> QED BY <1>2, <1>3 DEF SyncUser

(* What it makes of a site, of an asset and of an observation.              *)
LEMMA ObjectSyncs ==
  ASSUME NEW t \in Tenants, NEW x \in Names
  PROVE  /\ SiteNamed(x, t) => \A p \in Names : SyncSite(x, t, p) \in Seq(Txs)
         /\ \A s \in Names : SiteNamed(s, t) /\ DeviceNamed([id |-> x, site |-> s], t)
              => SyncAsset(x, t, s) \in Seq(Txs)
         /\ RecordTelemetryObservation(t, x) \in Seq(Txs)
<1>1. x \in Keys /\ x \in Parents
  BY DEF Keys, Parents
<1>2. ASSUME SiteNamed(x, t), NEW p \in Names PROVE SyncSite(x, t, p) \in Seq(Txs)
  <2>1. TxOK(Row("site", x, t, p)) /\ p \in Parents
    BY <1>2 DEF TxOK, Row, Keys, Parents
  <2>2. Row("site", x, t, p) \in Txs
    BY <1>1, <2>1, RowIs DEF Columns
  <2>3. <<Row("site", x, t, p)>> \in Seq(Txs)
    BY <2>2
  <2> QED BY <2>3, TenantSyncs, ConcatProperties DEF SyncSite
<1>3. ASSUME NEW s \in Names, SiteNamed(s, t), DeviceNamed([id |-> x, site |-> s], t)
      PROVE  SyncAsset(x, t, s) \in Seq(Txs)
  <2>1. s \in Parents
    BY DEF Keys, Parents
  <2>2. TxOK(Row("asset", x, t, s))
    BY <1>3 DEF TxOK, Row
  <2>3. Row("asset", x, t, s) \in Txs
    BY <1>1, <2>1, <2>2, RowIs DEF Columns
  <2> QED BY <2>3 DEF SyncAsset
<1>4. Row("observation", x, t, x) \in Txs
  <2>1. TxOK(Row("observation", x, t, x))
    BY DEF TxOK, Row
  <2> QED BY <1>1, <2>1, RowIs DEF Columns
<1> QED BY <1>2, <1>3, <1>4 DEF RecordTelemetryObservation

(* Values of a function over a finite set, in some order.                   *)
LEMMA ImageSeq ==
  ASSUME NEW S, IsFiniteSet(S), NEW T, NEW f \in [S -> T]
  PROVE  SetToSeq({f[x] : x \in S}) \in Seq(T)
<1> DEFINE I == {f[x] : x \in S}
<1>1. f \in Surjection(S, I)
  BY DEF Surjection
<1>2. IsFiniteSet(I)
  BY <1>1, FS_Surjection
<1>3. I \subseteq T
  OBVIOUS
<1> HIDE DEF I
<1>4. SetToSeq(I) \in Seq(I)
  BY <1>2, SetToSeqIn
<1> QED BY <1>3, <1>4 DEF I

(* What a worker sends when it starts.                                      *)
LEMMA StartupIn == StartupSync \in Seq(Txs)
<1> DEFINE Q == Seq(Txs)
           ofSites(t) == {SyncSite(s, t, SeedPortfolio[t][s]) : s \in SeedSites[t]}
           ofAssets(t) == {SyncAsset(a.id, t, a.site) : a \in SeedAssets[t]}
           of(t) == SyncOrganisation(t, Registered) \o Flat(SetToSeq(ofSites(t)))
                      \o Flat(SetToSeq(ofAssets(t)))
           ofTenants == {of(t) : t \in SeedTenants}
           ofUsers == [i \in DOMAIN SeedUsers |-> SyncUser(SeedUsers[i].tenant)]
<1>1. SeedTenants \subseteq Tenants /\ IsFiniteSet(SeedTenants)
  BY OnboardingAssumption DEF OnboardingAssumption
<1>2. \A t \in Tenants : IsFiniteSet(SeedSites[t]) /\ IsFiniteSet(SeedAssets[t])
  BY OnboardingAssumption DEF OnboardingAssumption
<1>3. \A u, v \in Q : u \o v \in Q
  BY ConcatProperties
<1>4. ASSUME NEW t \in Tenants PROVE of(t) \in Q
  <2> DEFINE fs == [s \in SeedSites[t] |-> SyncSite(s, t, SeedPortfolio[t][s])]
             fa == [a \in SeedAssets[t] |-> SyncAsset(a.id, t, a.site)]
  <2>1. \A s \in SeedSites[t] : SyncSite(s, t, SeedPortfolio[t][s]) \in Q
    <3>1. \A s \in SeedSites[t] :
            s \in Names /\ SiteNamed(s, t) /\ SeedPortfolio[t][s] \in Names
      BY SeedsNamed, WebServerAssumption DEF WebServerAssumption
    <3> QED BY <3>1, ObjectSyncs
  <2>2. \A a \in SeedAssets[t] : SyncAsset(a.id, t, a.site) \in Q
    <3> SUFFICES ASSUME NEW a \in SeedAssets[t] PROVE SyncAsset(a.id, t, a.site) \in Q
      OBVIOUS
    <3>1. a \in Devices /\ a.site \in SeedSites[t] /\ DeviceNamed(a, t)
      BY SeedsNamed
    <3>2. a.id \in Names /\ a.site \in Names /\ a = [id |-> a.id, site |-> a.site]
      BY <3>1 DEF Devices
    <3>3. SiteNamed(a.site, t)
      BY <3>1, SeedsNamed
    <3> HIDE DEF Q
    <3>4. DeviceNamed([id |-> a.id, site |-> a.site], t)
      BY <3>1, <3>2
    <3> QED BY <3>2, <3>3, <3>4, ObjectSyncs DEF Q
  <2> HIDE DEF Q
  <2>3. fs \in [SeedSites[t] -> Q] /\ fa \in [SeedAssets[t] -> Q]
    BY <2>1, <2>2
  <2>4. ofSites(t) = {fs[s] : s \in SeedSites[t]} /\ ofAssets(t) = {fa[a] : a \in SeedAssets[t]}
    OBVIOUS
  <2>5. SetToSeq({fs[s] : s \in SeedSites[t]}) \in Seq(Q)
        /\ SetToSeq({fa[a] : a \in SeedAssets[t]}) \in Seq(Q)
    <3> HIDE DEF fs, fa
    <3>1. IsFiniteSet(SeedSites[t]) /\ IsFiniteSet(SeedAssets[t])
      BY <1>2
    <3> QED BY <2>3, <3>1, ImageSeq
  <2> HIDE DEF fs, fa, ofSites, ofAssets
  <2>6. Flat(SetToSeq(ofSites(t))) \in Q /\ Flat(SetToSeq(ofAssets(t))) \in Q
    BY <2>4, <2>5, FlatIn DEF Q
  <2>7. SyncOrganisation(t, Registered) \in Q
    BY TenantSyncs DEF Q
  <2> QED BY <1>3, <2>6, <2>7
<1>5. Flat(SetToSeq(ofTenants)) \in Q
  <2> DEFINE f == [t \in SeedTenants |-> of(t)]
  <2> HIDE DEF Q, of
  <2>1. f \in [SeedTenants -> Q] /\ ofTenants = {f[t] : t \in SeedTenants}
    BY <1>1, <1>4
  <2> HIDE DEF f, ofTenants
  <2>2. SetToSeq({f[t] : t \in SeedTenants}) \in Seq(Q)
    BY <1>1, <2>1, ImageSeq
  <2> QED BY <2>1, <2>2, FlatIn DEF Q
<1>6. Flat(ofUsers) \in Q
  <2>1. SeedUsers \in Seq(UserRecords)
    BY SeedsNamed
  <2>2. \A i \in DOMAIN SeedUsers : SeedUsers[i].tenant \in Tenants
    BY OnboardingAssumption DEF OnboardingAssumption
  <2>3. \A i \in DOMAIN SeedUsers : SyncUser(SeedUsers[i].tenant) \in Q
    BY <2>2, TenantSyncs
  <2>4. DOMAIN SeedUsers = 1..Len(SeedUsers) /\ Len(SeedUsers) \in Nat
    BY <2>1
  <2> HIDE DEF Q
  <2>5. ofUsers \in Seq(Q)
    <3>1. ofUsers \in [1..Len(SeedUsers) -> Q]
      BY <2>3, <2>4
    <3> QED BY <2>4, <3>1
  <2> HIDE DEF ofUsers
  <2> QED BY <2>5, FlatIn DEF Q
<1> HIDE DEF Q, ofUsers
<1>7. StartupSync = Flat(SetToSeq(ofTenants)) \o Flat(ofUsers)
  BY DEF StartupSync, ofUsers
<1> QED BY <1>3, <1>5, <1>6, <1>7 DEF Q

-----------------------------------------------------------------------------
(* The invariant and its theorem.                                           *)

(* The database is sound, and nothing a worker has still to try can make it *)
(* otherwise.                                                               *)
MirrorInv == rows \in SoundTables /\ pending \in [Workers -> Seq(Txs)]

(* After a request one worker at most has transactions to try.              *)
Sends(w) == pending' = pending \/ \E q \in Seq(Txs) : pending' = [pending EXCEPT ![w] = q]

(* The transactions of a request are tried or left.                         *)
LEMMA SynchroniseIs ==
  ASSUME NEW w, NEW q \in Seq(Txs), Synchronise(w, q)
  PROVE  Sends(w)
BY DEF Synchronise, Sends

(* A request on a user: refused, or as the change does.                     *)
LEMMA OnUserSends ==
  ASSUME MemoryInv, NEW w \in Workers, NEW i, i # 0 => i \in DOMAIN users[w],
         NEW j \in DOMAIN users[w], NEW Change, OnUser(w, i, j, Change),
         Change => Sends(w)
  PROVE  Sends(w)
<1>1. CASE i # 0 /\ users[w][j].tenant # users[w][i].tenant
  BY <1>1, RefuseIs DEF OnUser, Sends
<1>2. CASE ~ (i # 0 /\ users[w][j].tenant # users[w][i].tenant)
  BY <1>2 DEF OnUser
<1> QED BY <1>1, <1>2

(* A request sends what keeps the database sound, since it reads what to    *)
(* send from a memory that is well formed and named.                        *)
LEMMA HandleSends ==
  ASSUME MemoryInv, NEW w \in Workers, NEW i, NEW t \in Tenants, Operator(w, i, t),
         NEW body \in MayBeNamed, Handle(w, i, t, body)
  PROVE  Sends(w)
<1> DEFINE g == Target(t, body)
<1>9. g \in Tenants
  BY DEF Target, MayBeNamed
<1> HIDE DEF g
<1>0. i # 0 => i \in DOMAIN users[w]
  BY DEF Operator
<1>1. CASE \E o \in UNION {Objects[s] : s \in Tenants} :
             \/ AcknowledgeAlert(w, i, t, o) \/ ResolveAlert(w, i, t, o)
             \/ ApproveWorkOrder(w, i, t, o) \/ ApproveAdaptation(w, i, t, o)
  <2>1. PICK o : \/ AcknowledgeAlert(w, i, t, o) \/ ResolveAlert(w, i, t, o)
                 \/ ApproveWorkOrder(w, i, t, o) \/ ApproveAdaptation(w, i, t, o)
    BY <1>1
  <2>2. pending' = pending
    BY <2>1 DEF AcknowledgeAlert, ResolveAlert, ApproveWorkOrder, ApproveAdaptation, Act, Refuse
  <2> QED BY <2>2 DEF Sends
<1>2. CASE ProposeAdaptation(w, i, t)
  BY <1>2 DEF ProposeAdaptation, Sends
<1>3. CASE \E a \in AssetIds(w, g) : InjectTelemetry(w, g, a)
  <2>1. PICK a \in AssetIds(w, g) : InjectTelemetry(w, g, a)
    BY <1>3
  <2>2. a \in Names
    BY <1>9 DEF AssetIds, MemoryInv, WTypes, Devices
  <2>3. Synchronise(w, RecordTelemetryObservation(g, a))
    BY <2>1 DEF InjectTelemetry
  <2>4. RecordTelemetryObservation(g, a) \in Seq(Txs)
    BY <1>9, <2>2, ObjectSyncs
  <2> QED BY <2>3, <2>4, SynchroniseIs
<1>4. CASE \E e \in Emails, r \in NewRoles : OnboardUserApi(w, UserTenant(i, t, body), e, r)
  <2> DEFINE h == UserTenant(i, t, body)
  <2>1. h \in Tenants
    BY <1>9 DEF UserTenant, g
  <2>2. Synchronise(w, SyncUser(h))
    BY <1>4 DEF OnboardUserApi
  <2> HIDE DEF h
  <2> QED BY <2>1, <2>2, TenantSyncs, SynchroniseIs
<1>5. CASE \E f \in TypedFacilities : OnboardFacilityApi(w, g, f)
  <2>1. PICK f \in TypedFacilities : OnboardFacilityApi(w, g, f)
    BY <1>5
  <2> DEFINE id == FacilityId(g, CodeIn(w, g), f)
  <2>2. id # Refused /\ Synchronise(w, SyncSite(id, g, Portfolio))
    BY <2>1 DEF OnboardFacilityApi, OnboardFacility
  <2>3. id \in Names /\ SiteNamed(id, g)
    BY <1>9, <2>2, FacilityIdIs
  <2> HIDE DEF id
  <2>4. SyncSite(id, g, Portfolio) \in Seq(Txs)
    BY <1>9, <2>3, ObjectSyncs, WebServerAssumption DEF WebServerAssumption
  <2> QED BY <2>2, <2>4, SynchroniseIs
<1>6. CASE \E f \in SiteIds(w, g), d \in TypedDevices : OnboardDeviceApi(w, g, f, d)
  <2>1. PICK f \in SiteIds(w, g), d \in TypedDevices : OnboardDeviceApi(w, g, f, d)
    BY <1>6
  <2> DEFINE id == DeviceId(f, d)
  <2>2. id # Refused /\ Synchronise(w, SyncAsset(id, g, f))
    BY <2>1 DEF OnboardDeviceApi, OnboardDevice
  <2>3. f \in Names \ {<<>>} /\ SiteNamed(f, g) /\ d \in Names
    BY <1>9, Constants DEF SiteIds, MemoryInv, WTypes, Named, SiteNamed
  <2>5. id \in Names /\ Under(id, RStrip(f))
    BY <2>2, <2>3, DevicesAre
  <2> HIDE DEF id
  <2>6. DeviceNamed([id |-> id, site |-> f], g)
    BY <2>5 DEF DeviceNamed
  <2>7. SyncAsset(id, g, f) \in Seq(Txs)
    BY <1>9, <2>3, <2>5, <2>6, ObjectSyncs
  <2> QED BY <2>2, <2>7, SynchroniseIs
<1>7. CASE \E j \in DOMAIN users[w], by \in Claimable :
             \/ \E r \in NewRoles : UpdateUserRoleApi(w, i, j, r, by)
             \/ \E s \in NewStatuses : ToggleUserStatusApi(w, i, j, s, by)
             \/ RegenerateUserTokenApi(w, i, j, by)
  <2>1. PICK j \in DOMAIN users[w], by \in Claimable :
             \/ \E r \in NewRoles : UpdateUserRoleApi(w, i, j, r, by)
             \/ \E s \in NewStatuses : ToggleUserStatusApi(w, i, j, s, by)
             \/ RegenerateUserTokenApi(w, i, j, by)
    BY <1>7
  <2>2. CASE \E r \in NewRoles : UpdateUserRoleApi(w, i, j, r, by)
    <3>1. PICK r \in NewRoles : UpdateUserRoleApi(w, i, j, r, by)
      BY <2>2
    <3> DEFINE C == UpdateUserRole(w, j, r, by) /\ UNCHANGED <<registry, sites, assets, pending>>
    <3>2. OnUser(w, i, j, C)
      BY <3>1 DEF UpdateUserRoleApi
    <3>3. C => Sends(w)
      BY DEF Sends
    <3> HIDE DEF C
    <3> QED BY <1>0, <3>2, <3>3, OnUserSends
  <2>3. CASE \E s \in NewStatuses : ToggleUserStatusApi(w, i, j, s, by)
    <3>1. PICK s \in NewStatuses : ToggleUserStatusApi(w, i, j, s, by)
      BY <2>3
    <3> DEFINE C == UpdateUserStatus(w, j, s, by) /\ UNCHANGED <<registry, sites, assets, pending>>
    <3>2. OnUser(w, i, j, C)
      BY <3>1 DEF ToggleUserStatusApi
    <3>3. C => Sends(w)
      BY DEF Sends
    <3> HIDE DEF C
    <3> QED BY <1>0, <3>2, <3>3, OnUserSends
  <2>4. CASE RegenerateUserTokenApi(w, i, j, by)
    <3> DEFINE C == /\ RegenerateUserToken(w, j, by)
                    /\ Synchronise(w, SyncUser(users[w][j].tenant))
                    /\ UNCHANGED <<registry, sites, assets>>
    <3>1. users[w][j].tenant \in Tenants
      BY UsersAre DEF MemoryInv
    <3>2. OnUser(w, i, j, C)
      BY <2>4 DEF RegenerateUserTokenApi
    <3>3. C => Sends(w)
      BY <3>1, TenantSyncs, SynchroniseIs
    <3> HIDE DEF C
    <3> QED BY <1>0, <3>2, <3>3, OnUserSends
  <2> QED BY <2>1, <2>2, <2>3, <2>4
<1> QED BY <1>1, <1>2, <1>3, <1>4, <1>5, <1>6, <1>7 DEF Handle, g

(* So does every request, whoever it is from and whatever it names.         *)
LEMMA DispatchSends ==
  ASSUME MemoryInv, NEW w \in Workers, NEW c, NEW n \in MayBeNamed, NEW b \in MayBeNamed,
         Dispatch(w, GetOperatorFromToken(w, c), n, b)
  PROVE  Sends(w) /\ rows' = rows
<1> DEFINE i == GetOperatorFromToken(w, c)
<1>1. i # 0 => i \in DOMAIN users[w] /\ users[w][i].status = "ACTIVE"
  BY UsersAre, OperatorIs DEF MemoryInv
<1>2. Dispatch(w, i, n, b)
  OBVIOUS
<1> HIDE DEF i
<1>3. i # 0 => users[w][i].tenant \in Tenants
  BY <1>1, UsersAre DEF MemoryInv
<1>4. ASSUME \E t \in Tenants, e \in Emails : OnboardTenantApi(w, i, t, e)
      PROVE  Sends(w)
  <2>1. PICK t \in Tenants, e \in Emails : OnboardTenantApi(w, i, t, e)
    BY <1>4
  <2>2. CASE i # 0
    BY <2>1, <2>2 DEF OnboardTenantApi, Refuse, Sends
  <2>3. CASE i = 0
    <3>1. Synchronise(w, SyncOrganisation(t, Registered) \o SyncUser(t))
      BY <2>1, <2>3 DEF OnboardTenantApi
    <3>2. SyncOrganisation(t, Registered) \o SyncUser(t) \in Seq(Txs)
      BY TenantSyncs, ConcatProperties
    <3> QED BY <3>1, <3>2, SynchroniseIs
  <2> QED BY <2>2, <2>3
<1> DEFINE r == Requested(n, b)
<1>5. ASSUME ~ Admitted(w, i, r) /\ Refuse(w, i, "SECURITY_BOUNDARY_VIOLATION")
      PROVE  Sends(w)
  BY <1>5 DEF Refuse, Sends
<1>6. ASSUME Admitted(w, i, r) /\ Handle(w, i, Partition(w, i, r), b)
      PROVE  Sends(w)
  <2> DEFINE t == Partition(w, i, r)
  <2>1. t \in Tenants /\ Operator(w, i, t)
    BY <1>1, <1>3, PartitionIs
  <2>2. Handle(w, i, t, b)
    BY <1>6
  <2> HIDE DEF t
  <2> QED BY <2>1, <2>2, HandleSends
<1>7. rows' = rows
  BY <1>2 DEF Dispatch
<1> QED BY <1>2, <1>4, <1>5, <1>6, <1>7 DEF Dispatch

(* What is sent by one worker alone keeps the types of all.                 *)
LEMMA SentIs ==
  ASSUME pending \in [Workers -> Seq(Txs)], NEW w \in Workers, Sends(w)
  PROVE  pending' \in [Workers -> Seq(Txs)]
<1>1. CASE pending' = pending
  BY <1>1
<1>2. ASSUME NEW q \in Seq(Txs), pending' = [pending EXCEPT ![w] = q]
      PROVE  pending' \in [Workers -> Seq(Txs)]
  <2> DEFINE Q == Seq(Txs)
  <2>1. q \in Q /\ pending \in [Workers -> Q]
    OBVIOUS
  <2> HIDE DEF Q
  <2>2. pending' \in [Workers -> Q]
    BY <1>2, <2>1
  <2> QED BY <2>2 DEF Q
<1> QED BY <1>1, <1>2 DEF Sends

(* Of the transactions a worker has to try, one is tried.                   *)
LEMMA TransactKeeps ==
  ASSUME MirrorInv, NEW w \in Workers, Transact(w)
  PROVE  MirrorInv'
<1>1. pending[w] \in Seq(Txs) /\ pending[w] # <<>>
  BY DEF MirrorInv, Transact
<1>2. Head(pending[w]) \in Txs /\ Tail(pending[w]) \in Seq(Txs)
  BY <1>1, HeadTailProperties
<1>3. pending' = [pending EXCEPT ![w] = Tail(pending[w])]
  BY DEF Transact
<1>4. pending' \in [Workers -> Seq(Txs)]
  BY <1>2, <1>3, SentIs DEF MirrorInv, Sends
<1>5. rows' = rows \/ rows' = Written(rows, Head(pending[w]))
  BY DEF Transact, Commit
<1>6. rows' \in SoundTables
  BY <1>2, <1>5, WrittenSound DEF MirrorInv
<1> QED BY <1>4, <1>6 DEF MirrorInv

(* The database is sound when the workers have started.                     *)
LEMMA MirrorInit == Init => MirrorInv
<1> SUFFICES ASSUME Init PROVE MirrorInv
  OBVIOUS
<1>1. rows = Empty \/ rows = FoldLeft(Written, Empty, StartupSync)
  BY DEF Init
<1>2. rows \in SoundTables
  BY <1>1, EmptySound, StartupIn, WrittenAll
<1>3. <<>> \in Seq(Txs)
  BY EmptySeq
<1>4. pending = [w \in Workers |-> <<>>]
  BY DEF Init
<1> QED BY <1>2, <1>3, <1>4 DEF MirrorInv

(* Every step keeps it so.                                                  *)
LEMMA MirrorStep == MemoryInv /\ MirrorInv /\ [Next]_vars => MirrorInv'
<1> SUFFICES ASSUME MemoryInv, MirrorInv, [Next]_vars PROVE MirrorInv'
  OBVIOUS
<1>1. CASE Next
  <2>1. PICK w \in Workers :
           \/ Transact(w) \/ Restart(w)
           \/ \E c \in Credentials, n \in MayBeNamed, b \in MayBeNamed :
                Dispatch(w, GetOperatorFromToken(w, c), n, b)
    BY <1>1, StepIs
  <2>2. CASE Transact(w)
    BY <2>2, TransactKeeps
  <2>3. CASE Restart(w)
    <3>1. rows' = rows
      BY <2>3 DEF Restart
    <3>2. /\ StartupSync \in Seq(Txs) /\ <<>> \in Seq(Txs)
          /\ pending' \in {[pending EXCEPT ![w] = <<>>], [pending EXCEPT ![w] = StartupSync]}
      BY <2>3, StartupIn, EmptySeq DEF Restart
    <3>3. Sends(w)
      BY <3>2 DEF Sends
    <3> QED BY <3>1, <3>3, SentIs DEF MirrorInv
  <2>4. ASSUME NEW c \in Credentials, NEW n \in MayBeNamed, NEW b \in MayBeNamed,
               Dispatch(w, GetOperatorFromToken(w, c), n, b)
        PROVE  MirrorInv'
    <3>1. Sends(w) /\ rows' = rows
      BY <2>4, DispatchSends
    <3> QED BY <3>1, SentIs DEF MirrorInv
  <2> QED BY <2>1, <2>2, <2>3, <2>4
<1>2. CASE UNCHANGED vars
  BY <1>2 DEF vars, MirrorInv
<1> QED BY <1>1, <1>2

(* However the transactions of any workers interleave, fail or are cut off  *)
(* by a restart, the database all of them share is sound.                   *)
THEOREM MirrorHolds == Spec => []MirrorSound
<1>1. MirrorInv => MirrorSound
  <2> SUFFICES ASSUME MirrorInv PROVE MirrorSound
    OBVIOUS
  <2>1. SitesSound(rows.site, rows.system) /\ AssetsSound(rows.asset, rows.site)
    BY DEF MirrorInv, SoundTables
  <2>2. ASSUME NEW s \in DOMAIN rows.site
        PROVE  rows.system[s].tenant = rows.site[s].tenant /\ MayName(s, rows.site[s].tenant)
    BY <2>1 DEF SitesSound, SiteNamed
  <2>3. ASSUME NEW a \in DOMAIN rows.asset
        PROVE  LET link == rows.asset[a] IN
               /\ link.parent \in DOMAIN rows.site /\ MayName(link.parent, link.tenant)
               /\ \/ [id |-> a, site |-> link.parent] \in SeedAssets[link.tenant]
                  \/ Under(a, RStrip(link.parent))
    BY <2>1 DEF AssetsSound, SiteNamed, DeviceNamed
  <2> QED BY <2>1, <2>2, <2>3 DEF SitesSound, MirrorSound
<1> QED BY <1>1, MemoryHolds, MirrorInit, MirrorStep, PTL DEF Spec

=============================================================================
