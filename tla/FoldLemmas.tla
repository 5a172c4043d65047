----------------------------- MODULE FoldLemmas -----------------------------
(***************************************************************************)
(* Folds of the community modules over finite sets: that the recursive     *)
(* function behind a fold exists, and induction over the subsets of the    *)
(* set it runs over.  The library states both for operators as arguments,  *)
(* which the provers cannot instantiate; here the arguments are sets and   *)
(* functions.                                                              *)
(***************************************************************************)
EXTENDS Functions, FiniteSetsExt, FiniteSetTheorems, SequenceTheorems, NaturalsInduction,
        WellFoundedInduction, TLAPS

(* A set with 0 and with every successor of its elements holds the numbers. *)
LEMMA NumbersIn ==
  ASSUME NEW P, 0 \in P, \A n \in Nat : n \in P => n + 1 \in P
  PROVE  Nat \subseteq P
<1> DEFINE Bad == Nat \ P
<1> SUFFICES ASSUME Bad # {} PROVE FALSE
  OBVIOUS
<1>1. PICK m \in Bad : \A k \in Bad : ~ (<<k, m>> \in OpToRel(<, Nat))
  BY NatLessThanWellFounded, WFMin
<1>2. m # 0 /\ m - 1 \in Nat /\ m - 1 \notin P
  OBVIOUS
<1>3. <<m - 1, m>> \in OpToRel(<, Nat)
  BY <1>2 DEF OpToRel
<1> QED BY <1>1, <1>2, <1>3

(* A family that holds a subset whenever it holds all smaller ones holds    *)
(* every subset of a finite set.                                            *)
LEMMA SubsetsIn ==
  ASSUME NEW S, IsFiniteSet(S), NEW P,
         \A s \in SUBSET S : (\A r \in SUBSET s : r # s => r \in P) => s \in P
  PROVE  SUBSET S \subseteq P
<1> DEFINE Below == {n \in Nat : \A s \in SUBSET S : Cardinality(s) <= n => s \in P}
<1>1. \A s \in SUBSET S : IsFiniteSet(s) /\ Cardinality(s) \in Nat
  BY FS_Subset, FS_CardinalityType
<1>2. \A s \in SUBSET S : \A r \in SUBSET s : r # s => Cardinality(r) < Cardinality(s)
  <2> SUFFICES ASSUME NEW s \in SUBSET S, NEW r \in SUBSET s, r # s
               PROVE  Cardinality(r) < Cardinality(s)
    OBVIOUS
  <2>1. Cardinality(r) <= Cardinality(s) /\ Cardinality(r) # Cardinality(s)
    BY <1>1, FS_Subset
  <2>2. r \in SUBSET S
    OBVIOUS
  <2> QED BY <1>1, <2>1, <2>2
<1>3. 0 \in Below
  <2> SUFFICES ASSUME NEW s \in SUBSET S, Cardinality(s) <= 0 PROVE s \in P
    OBVIOUS
  <2>1. s = {}
    BY <1>1, FS_EmptySet
  <2> QED BY <2>1
<1>4. ASSUME NEW n \in Nat, n \in Below PROVE n + 1 \in Below
  <2> SUFFICES ASSUME NEW s \in SUBSET S, Cardinality(s) <= n + 1 PROVE s \in P
    OBVIOUS
  <2>1. ASSUME NEW r \in SUBSET s, r # s PROVE r \in P
    <3>1. r \in SUBSET S /\ Cardinality(r) < Cardinality(s)
      BY <1>2, <2>1
    <3>2. Cardinality(r) <= n
      BY <1>1, <3>1
    <3> QED BY <1>4, <3>1, <3>2
  <2> QED BY <2>1
<1>5. Nat \subseteq Below
  <2> HIDE DEF Below
  <2> QED BY <1>3, <1>4, NumbersIn
<1> QED BY <1>1, <1>5

(* A nonempty set of numbers up to n has its maximum.                       *)
LEMMA MaxIn ==
  ASSUME NEW n \in Nat, NEW S, S \subseteq 0..n, S # {}
  PROVE  Max(S) \in S /\ \A k \in S : k <= Max(S)
<1> DEFINE T == {n - k : k \in S}
<1>0. \A k \in S : k \in Int
  OBVIOUS
<1>1. T \subseteq Nat /\ T # {}
  <2>1. \A k \in S : k \in Int /\ n - k \in Nat
    OBVIOUS
  <2> QED BY <2>1
<1>2. PICK m \in T : \A k \in T : ~ (<<k, m>> \in OpToRel(<, Nat))
  BY <1>1, NatLessThanWellFounded, WFMin
<1>3. PICK x \in S : m = n - x
  OBVIOUS
<1>4. ASSUME NEW k \in S PROVE k <= x
  <2>1. n - k \in T /\ n - k \in Nat /\ m \in Nat /\ k \in Int /\ x \in Int
    BY <1>1
  <2>2. ~ (n - k < m)
    BY <1>2, <2>1 DEF OpToRel
  <2> QED BY <1>3, <2>1, <2>2
<1>5. x \in S /\ \A y \in S : x >= y
  BY <1>0, <1>4
<1>6. Max(S) \in S /\ \A y \in S : Max(S) >= y
  BY <1>5 DEF Max
<1>7. PICK z \in S : z = Max(S) /\ \A y \in S : z >= y
  BY <1>6, Zenon
<1>8. ASSUME NEW y \in S PROVE y <= z
  BY <1>0, <1>7
<1> QED BY <1>7, <1>8

(* pick takes an element off a subset of S, step adds it to a value of V,   *)
(* and f is the recursive function of the fold.                             *)
Picks(pick, S)    == \A s \in SUBSET S : s # {} => pick[s] \in s
Steps(step, S, V) == \A x \in S, v \in V : step[<<x, v>>] \in V

FoldsUp(f, S, base, pick, step) ==
  f = [s \in SUBSET S |-> IF s = {} THEN base ELSE step[<<pick[s], f[s \ {pick[s]}]>>]]

(* The recursion of a fold, one element less in each step, has a solution.  *)
LEMMA FoldExists ==
  ASSUME NEW S, IsFiniteSet(S), NEW V, NEW base \in V,
         NEW pick, Picks(pick, S), NEW step, Steps(step, S, V)
  PROVE  \E f \in [SUBSET S -> V] : FoldsUp(f, S, base, pick, step)
<1> DEFINE Sets(n) == {s \in SUBSET S : Cardinality(s) <= n}
           Next(f, s) == IF s = {} THEN base ELSE step[<<pick[s], f[s \ {pick[s]}]>>]
           Solution(n) == \E f \in [Sets(n) -> V] : \A s \in Sets(n) : f[s] = Next(f, s)
           Solved == {n \in Nat : Solution(n)}
<1> USE DEF Picks, Steps
<1>1. \A s \in SUBSET S : IsFiniteSet(s) /\ Cardinality(s) \in Nat
  BY FS_Subset, FS_CardinalityType
<1>2. \A s \in SUBSET S : s # {} =>
        s \ {pick[s]} \in SUBSET S /\ Cardinality(s \ {pick[s]}) = Cardinality(s) - 1
  BY <1>1, FS_RemoveElement
<1>3. 0 \in Solved
  <2>1. ASSUME NEW s \in Sets(0) PROVE s = {}
    <3>1. s \in SUBSET S /\ Cardinality(s) <= 0
      OBVIOUS
    <3>2. Cardinality(s) = 0 /\ IsFiniteSet(s)
      BY <1>1, <3>1
    <3> QED BY <3>2, FS_EmptySet
  <2> DEFINE f == [s \in Sets(0) |-> base]
  <2>2. f \in [Sets(0) -> V] /\ \A s \in Sets(0) : f[s] = Next(f, s)
    BY <2>1
  <2> QED BY <2>2
<1>4. ASSUME NEW n \in Nat, n \in Solved PROVE n + 1 \in Solved
  <2>1. PICK f \in [Sets(n) -> V] : \A s \in Sets(n) : f[s] = Next(f, s)
    BY <1>4
  <2> DEFINE g == [s \in Sets(n + 1) |-> Next(f, s)]
  <2>2. ASSUME NEW s \in Sets(n) PROVE s \in Sets(n + 1)
    <3>1. s \in SUBSET S /\ Cardinality(s) <= n /\ Cardinality(s) \in Nat
      BY <1>1
    <3> QED BY <3>1
  <2>3. ASSUME NEW s \in Sets(n + 1), s # {} PROVE s \ {pick[s]} \in Sets(n)
    <3>1. s \in SUBSET S /\ Cardinality(s) <= n + 1 /\ Cardinality(s) \in Nat
      BY <1>1
    <3>2. s \ {pick[s]} \in SUBSET S /\ Cardinality(s \ {pick[s]}) <= n
      BY <1>2, <2>3, <3>1
    <3> QED BY <3>2
  <2>4. \A s \in Sets(n + 1) : Next(f, s) \in V
    BY <2>3
  <2>5. \A s \in Sets(n) : g[s] = f[s]
    BY <2>1, <2>2
  <2>6. \A s \in Sets(n + 1) : g[s] = Next(g, s)
    <3> SUFFICES ASSUME NEW s \in Sets(n + 1) PROVE Next(f, s) = Next(g, s)
      OBVIOUS
    <3> HIDE DEF g, Sets
    <3> QED BY <2>3, <2>5
  <2>7. g \in [Sets(n + 1) -> V]
    BY <2>4
  <2>8. Solution(n + 1)
    <3> HIDE DEF g, Next, Sets
    <3> QED BY <2>6, <2>7
  <2> HIDE DEF Solution
  <2> QED BY <2>8
<1>5. Cardinality(S) \in Solved
  <2>1. Nat \subseteq Solved
    <3> HIDE DEF Solved
    <3> QED BY <1>3, <1>4, NumbersIn
  <2>2. Cardinality(S) \in Nat
    BY <1>1
  <2> HIDE DEF Solved
  <2> QED BY <2>1, <2>2
<1>6. Sets(Cardinality(S)) = SUBSET S
  BY <1>1, FS_Subset
<1>7. PICK f \in [SUBSET S -> V] : \A s \in SUBSET S : f[s] = Next(f, s)
  BY <1>5, <1>6
<1>8. f = [s \in SUBSET S |-> Next(f, s)]
  <2> HIDE DEF Next
  <2> QED BY <1>7
<1> QED BY <1>8 DEF FoldsUp

-----------------------------------------------------------------------------
(* Sums.                                                                    *)

(* The element a fold takes off first.                                      *)
Pick(s) == CHOOSE x \in s : TRUE

(* g adds the values of f over a subset of S, one at a time.                *)
AddsUp(g, S, f) ==
  /\ g[{}] = 0
  /\ \A s \in SUBSET S : s # {} => g[s] = f[Pick(s)] + g[s \ {Pick(s)}]

(* The sum of a function is where a function on the subsets ends that adds  *)
(* one value at a time.                                                     *)
LEMMA SumIs ==
  ASSUME NEW S, IsFiniteSet(S), NEW f \in [S -> Nat]
  PROVE  \E g \in [SUBSET S -> Nat] : SumFunction(f) = g[S] /\ AddsUp(g, S, f)
<1> DEFINE Sums(g) == g = [s \in SUBSET S |-> IF s = {} THEN 0 ELSE f[Pick(s)] + g[s \ {Pick(s)}]]
           sum == CHOOSE g : Sums(g)
<1>1. SumFunction(f) = sum[S]
  BY DEF Pick, SumFunction, SumFunctionOnSet, FoldFunctionOnSet, MapThenFoldSet
<1>2. \A s \in SUBSET S : s # {} => Pick(s) \in s
  BY DEF Pick
<1>3. \E g : Sums(g)
  <2> DEFINE pick == [s \in SUBSET S |-> Pick(s)]
             step == [p \in S \X Nat |-> f[p[1]] + p[2]]
  <2>1. Picks(pick, S)
    BY <1>2 DEF Picks
  <2>2. \A x \in S, v \in Nat : step[<<x, v>>] = f[x] + v /\ step[<<x, v>>] \in Nat
    OBVIOUS
  <2> HIDE DEF step, pick
  <2>3. PICK g \in [SUBSET S -> Nat] :
          FoldsUp(g, S, 0, pick, step)
    <3>1. 0 \in Nat /\ Steps(step, S, Nat)
      BY <2>2 DEF Steps
    <3> QED BY <2>1, <3>1, FoldExists
  <2>4. \A s \in SUBSET S : s # {} =>
          step[<<pick[s], g[s \ {pick[s]}]>>] = f[Pick(s)] + g[s \ {Pick(s)}]
    <3> SUFFICES ASSUME NEW s \in SUBSET S, s # {}
                 PROVE  step[<<pick[s], g[s \ {pick[s]}]>>] = f[Pick(s)] + g[s \ {Pick(s)}]
      OBVIOUS
    <3>1. pick[s] = Pick(s) /\ Pick(s) \in S /\ s \ {Pick(s)} \in SUBSET S
      BY <1>2 DEF pick
    <3>2. g[s \ {Pick(s)}] \in Nat
      BY <3>1
    <3> QED BY <2>2, <3>1, <3>2
  <2>5. Sums(g)
    BY <2>3, <2>4 DEF FoldsUp
  <2> QED BY <2>5
<1>4. Sums(sum)
  <2> HIDE DEF Sums
  <2> QED BY <1>3
<1> HIDE DEF sum
<1>5. /\ DOMAIN sum = SUBSET S /\ sum[{}] = 0
      /\ \A s \in SUBSET S : s # {} => sum[s] = f[Pick(s)] + sum[s \ {Pick(s)}]
  BY <1>4
<1>6. SUBSET S \subseteq {s \in SUBSET S : sum[s] \in Nat}
  <2> DEFINE P == {s \in SUBSET S : sum[s] \in Nat}
  <2>1. ASSUME NEW s \in SUBSET S, \A r \in SUBSET s : r # s => r \in P
        PROVE  s \in P
    <3>1. CASE s = {}
      BY <1>5, <3>1
    <3>2. CASE s # {}
      <4>1. Pick(s) \in s /\ s \ {Pick(s)} \in SUBSET s /\ s \ {Pick(s)} # s
        BY <1>2, <3>2
      <4>2. sum[s \ {Pick(s)}] \in Nat
        BY <2>1, <4>1
      <4>3. f[Pick(s)] \in Nat
        BY <4>1
      <4> QED BY <1>5, <3>2, <4>2, <4>3
    <3> QED BY <3>1, <3>2
  <2> HIDE DEF P
  <2>2. SUBSET S \subseteq P
    BY <2>1, SubsetsIn
  <2> QED BY <2>2 DEF P
<1>7. sum \in [SUBSET S -> Nat]
  <2>1. sum = [s \in SUBSET S |-> sum[s]]
    BY <1>4
  <2> QED BY <1>6, <2>1
<1> QED BY <1>1, <1>5, <1>7 DEF AddsUp

(* The sum of natural numbers is one, and 0 if they are.                    *)
LEMMA SumNat ==
  ASSUME NEW S, IsFiniteSet(S), NEW f \in [S -> Nat]
  PROVE  SumFunction(f) \in Nat
<1>1. PICK g \in [SUBSET S -> Nat] : SumFunction(f) = g[S] /\ AddsUp(g, S, f)
  BY SumIs
<1>2. S \in SUBSET S
  OBVIOUS
<1> QED BY <1>1, <1>2

(* A sum of zeros.                                                          *)
LEMMA SumZero ==
  ASSUME NEW S, IsFiniteSet(S), NEW f \in [S -> Nat], \A x \in S : f[x] = 0
  PROVE  SumFunction(f) = 0
<1>1. PICK g \in [SUBSET S -> Nat] : SumFunction(f) = g[S] /\ AddsUp(g, S, f)
  BY SumIs
<1> DEFINE P == {s \in SUBSET S : g[s] = 0}
<1>2. ASSUME NEW s \in SUBSET S, \A r \in SUBSET s : r # s => r \in P
      PROVE  s \in P
  <2>1. CASE s = {}
    BY <1>1, <2>1 DEF AddsUp
  <2>2. CASE s # {}
    <3>1. Pick(s) \in s /\ s \ {Pick(s)} \in SUBSET s /\ s \ {Pick(s)} # s
      BY <2>2 DEF Pick
    <3>2. g[s \ {Pick(s)}] = 0 /\ f[Pick(s)] = 0
      BY <1>2, <3>1
    <3> QED BY <1>1, <2>2, <3>2 DEF AddsUp
  <2> QED BY <2>1, <2>2
<1>3. SUBSET S \subseteq P
  <2> HIDE DEF P
  <2> QED BY <1>2, SubsetsIn
<1> QED BY <1>1, <1>3

(* The sum of a single number.                                              *)
LEMMA SumOne ==
  ASSUME NEW x, NEW f \in [{x} -> Nat]
  PROVE  SumFunction(f) = f[x]
<1>1. IsFiniteSet({x})
  BY FS_Singleton
<1>2. PICK g \in [SUBSET {x} -> Nat] : SumFunction(f) = g[{x}] /\ AddsUp(g, {x}, f)
  BY <1>1, SumIs
<1>3. Pick({x}) = x /\ {x} \ {x} = {}
  BY DEF Pick
<1>4. g[{x}] = f[x] + g[{}] /\ g[{}] = 0
  BY <1>2, <1>3 DEF AddsUp
<1> QED BY <1>2, <1>4

(* The sum grows by what one value grows.                                   *)
LEMMA SumGrows ==
  ASSUME NEW S, IsFiniteSet(S), NEW f \in [S -> Nat], NEW x \in S, NEW n \in Nat
  PROVE  SumFunction([f EXCEPT ![x] = @ + n]) = SumFunction(f) + n
<1> DEFINE h == [f EXCEPT ![x] = @ + n]
<1>1. h \in [S -> Nat] /\ \A y \in S : h[y] = IF y = x THEN f[y] + n ELSE f[y]
  OBVIOUS
<1> HIDE DEF h
<1>2. PICK g \in [SUBSET S -> Nat] :
        SumFunction(f) = g[S] /\ AddsUp(g, S, f)
  BY SumIs
<1>3. PICK k \in [SUBSET S -> Nat] :
        SumFunction(h) = k[S] /\ AddsUp(k, S, h)
  BY <1>1, SumIs
<1>4. \A s \in SUBSET S : s # {} => Pick(s) \in s
  BY DEF Pick
<1> DEFINE P == {s \in SUBSET S : k[s] = g[s] + (IF x \in s THEN n ELSE 0)}
<1>5. ASSUME NEW s \in SUBSET S, \A r \in SUBSET s : r # s => r \in P
      PROVE  s \in P
  <2>1. CASE s = {}
    BY <1>2, <1>3, <2>1 DEF AddsUp
  <2>2. CASE s # {}
    <3> DEFINE y == Pick(s)
               r == s \ {y}
    <3>1. y \in s /\ r \in SUBSET s /\ r # s /\ r \in SUBSET S /\ y \in S
      BY <1>4, <2>2
    <3>2. k[r] = g[r] + (IF x \in r THEN n ELSE 0)
      BY <1>5, <3>1
    <3>3. k[s] = h[y] + k[r] /\ g[s] = f[y] + g[r]
      BY <1>2, <1>3, <2>2 DEF AddsUp
    <3>4. f[y] \in Nat /\ g[r] \in Nat /\ k[r] \in Nat /\ h[y] = IF y = x THEN f[y] + n ELSE f[y]
      BY <1>1, <3>1
    <3>5. k[s] = g[s] + (IF x \in s THEN n ELSE 0)
      <4>1. x \in r <=> x \in s /\ x # y
        OBVIOUS
      <4> HIDE DEF y, r
      <4> QED BY <3>1, <3>2, <3>3, <3>4, <4>1
    <3> QED BY <3>5
  <2> QED BY <2>1, <2>2
<1>6. SUBSET S \subseteq P
  <2> HIDE DEF P
  <2> QED BY <1>5, SubsetsIn
<1>7. k[S] = g[S] + n
  BY <1>6
<1> QED BY <1>2, <1>3, <1>7 DEF h

(* The order in which a sum is added up does not matter.                    *)
LEMMA SumTakes ==
  ASSUME NEW S, IsFiniteSet(S), NEW f \in [S -> Nat],
         NEW g \in [SUBSET S -> Nat], AddsUp(g, S, f)
  PROVE  \A s \in SUBSET S : \A x \in s : g[s] = f[x] + g[s \ {x}]
<1> DEFINE P == {s \in SUBSET S : \A x \in s : g[s] = f[x] + g[s \ {x}]}
<1>1. ASSUME NEW s \in SUBSET S, \A r \in SUBSET s : r # s => r \in P
      PROVE  s \in P
  <2> SUFFICES ASSUME NEW x \in s PROVE g[s] = f[x] + g[s \ {x}]
    OBVIOUS
  <2> DEFINE p == Pick(s)
  <2>1. p \in s /\ g[s] = f[p] + g[s \ {p}]
    BY DEF Pick, AddsUp
  <2> HIDE DEF p
  <2>2. CASE x = p
    BY <2>1, <2>2
  <2>3. CASE x # p
    <3> DEFINE r == (s \ {p}) \ {x}
    <3>1. /\ s \ {p} \in SUBSET s /\ s \ {p} # s /\ x \in s \ {p}
          /\ s \ {x} \in SUBSET s /\ s \ {x} # s /\ p \in s \ {x}
          /\ r = (s \ {x}) \ {p}
      BY <2>1, <2>3
    <3>2. g[s \ {p}] = f[x] + g[r] /\ g[s \ {x}] = f[p] + g[r]
      BY <1>1, <3>1
    <3>3. g[r] \in Nat /\ f[x] \in Nat /\ f[p] \in Nat
      BY <2>1
    <3> QED BY <2>1, <3>2, <3>3
  <2> QED BY <2>2, <2>3
<1>2. SUBSET S \subseteq P
  <2> HIDE DEF P
  <2> QED BY <1>1, SubsetsIn
<1> QED BY <1>2

(* Two functions that add up the same values agree.                         *)
LEMMA SumsAgree ==
  ASSUME NEW R, IsFiniteSet(R), NEW S, R \subseteq S, NEW f, NEW h, \A x \in R : h[x] = f[x],
         NEW g, AddsUp(g, S, f), NEW k, AddsUp(k, R, h)
  PROVE  k[R] = g[R]
<1> DEFINE P == {s \in SUBSET R : k[s] = g[s]}
<1>1. ASSUME NEW s \in SUBSET R, \A r \in SUBSET s : r # s => r \in P
      PROVE  s \in P
  <2>1. CASE s = {}
    BY <2>1 DEF AddsUp
  <2>2. CASE s # {}
    <3> DEFINE p == Pick(s)
    <3>1. p \in s /\ s \ {p} \in SUBSET s /\ s \ {p} # s
      BY <2>2 DEF Pick
    <3>2. g[s] = f[p] + g[s \ {p}] /\ k[s] = h[p] + k[s \ {p}]
      BY <2>2 DEF AddsUp
    <3>3. h[p] = f[p] /\ k[s \ {p}] = g[s \ {p}]
      BY <1>1, <3>1
    <3> QED BY <3>2, <3>3
  <2> QED BY <2>1, <2>2
<1>2. SUBSET R \subseteq P
  <2> HIDE DEF P
  <2> QED BY <1>1, SubsetsIn
<1> QED BY <1>2

(* One value, and the sum of the others.                                    *)
LEMMA SumSplit ==
  ASSUME NEW S, IsFiniteSet(S), NEW f \in [S -> Nat], NEW x \in S
  PROVE  SumFunction(f) = f[x] + SumFunction([y \in S \ {x} |-> f[y]])
<1> DEFINE R == S \ {x}
           h == [y \in R |-> f[y]]
<1>1. PICK g \in [SUBSET S -> Nat] : SumFunction(f) = g[S] /\ AddsUp(g, S, f)
  BY SumIs
<1>2. g[S] = f[x] + g[R]
  BY <1>1, SumTakes
<1>3. IsFiniteSet(R) /\ h \in [R -> Nat] /\ R \subseteq S /\ \A y \in R : h[y] = f[y]
  BY FS_Subset
<1> HIDE DEF h, R
<1>4. PICK k \in [SUBSET R -> Nat] : SumFunction(h) = k[R] /\ AddsUp(k, R, h)
  BY <1>3, SumIs
<1>5. k[R] = g[R]
  BY <1>1, <1>3, <1>4, SumsAgree
<1>6. SumFunction(f) = f[x] + SumFunction(h)
  BY <1>1, <1>2, <1>4, <1>5
<1> QED BY <1>6 DEF h, R

(* The sum of the numbers of a sequence, one by one.                        *)
LEMMA SumLast ==
  ASSUME NEW q \in Seq(Nat), NEW n \in Nat
  PROVE  SumFunction(Append(q, n)) = SumFunction(q) + n /\ SumFunction(q) \in Nat
<1> DEFINE m == Len(q) + 1
           f == Append(q, n)
           S == 1..m
<1>1. Len(q) \in Nat /\ q \in [1..Len(q) -> Nat] /\ IsFiniteSet(S) /\ IsFiniteSet(1..Len(q))
  BY FS_Interval
<1>2. f \in [S -> Nat] /\ f[m] = n /\ m \in S /\ \A y \in 1..Len(q) : f[y] = q[y]
  <2>1. /\ f \in Seq(Nat) /\ Len(f) = m /\ f[m] = n
        /\ \A y \in 1..Len(q) : f[y] = q[y]
    BY <1>1, AppendProperties
  <2> HIDE DEF f
  <2> QED BY <1>1, <2>1
<1>3. [y \in S \ {m} |-> f[y]] = q
  <2>1. S \ {m} = 1..Len(q)
    BY <1>1
  <2>2. \A y \in 1..Len(q) : f[y] = q[y]
    BY <1>2
  <2>3. q = [y \in 1..Len(q) |-> q[y]]
    BY <1>1
  <2> HIDE DEF f, S
  <2> QED BY <2>1, <2>2, <2>3
<1>4. SumFunction(q) \in Nat
  BY <1>1, SumNat
<1> HIDE DEF f, S, m
<1>5. SumFunction(f) = f[m] + SumFunction([y \in S \ {m} |-> f[y]])
  <2>1. IsFiniteSet(S) /\ f \in [S -> Nat] /\ m \in S
    BY <1>1, <1>2
  <2> QED BY <2>1, SumSplit
<1>6. SumFunction(f) = SumFunction(q) + n
  BY <1>2, <1>3, <1>4, <1>5
<1> QED BY <1>4, <1>6 DEF f

(* Of sequences in a row, the sums are added.                               *)
LEMMA SumConcat ==
  ASSUME NEW p \in Seq(Nat), NEW q \in Seq(Nat)
  PROVE  SumFunction(p \o q) = SumFunction(p) + SumFunction(q)
<1> DEFINE T == Seq(Nat)
           Good(r) == SumFunction(p \o r) = SumFunction(p) + SumFunction(r)
           P == {n \in Nat : \A r \in T : Len(r) = n => Good(r)}
<1>1. 0 \in P
  <2> SUFFICES ASSUME NEW r \in T, Len(r) = 0 PROVE Good(r)
    OBVIOUS
  <2>1. r = <<>> /\ p \o r = p
    BY EmptySeq, ConcatEmptySeq
  <2>2. SumFunction(<<>>) = 0
    <3>1. <<>> \in [{} -> Nat] /\ IsFiniteSet({})
      BY FS_EmptySet
    <3> QED BY <3>1, SumZero
  <2>3. SumFunction(p) \in Nat
    BY SumLast
  <2> QED BY <2>1, <2>2, <2>3
<1>2. ASSUME NEW n \in Nat, n \in P PROVE n + 1 \in P
  <2> SUFFICES ASSUME NEW r \in T, Len(r) = n + 1 PROVE Good(r)
    OBVIOUS
  <2> DEFINE s == [i \in 1..n |-> r[i]]
             x == r[n + 1]
  <2>1. s \in T /\ Len(s) = n /\ x \in Nat /\ r = Append(s, x)
    OBVIOUS
  <2> HIDE DEF s, x
  <2>2. Good(s)
    BY <1>2, <2>1
  <2>3. p \o r = Append(p \o s, x) /\ p \o s \in T
    BY <2>1, ConcatProperties
  <2>4. SumFunction(p \o r) = SumFunction(p \o s) + x /\ SumFunction(r) = SumFunction(s) + x
        /\ SumFunction(s) \in Nat /\ SumFunction(p) \in Nat
    BY <2>1, <2>3, SumLast
  <2> QED BY <2>1, <2>2, <2>4
<1>3. Nat \subseteq P
  <2> HIDE DEF P
  <2> QED BY <1>1, <1>2, NumbersIn
<1>4. Len(q) \in Nat /\ q \in T
  OBVIOUS
<1> QED BY <1>3, <1>4

(* The sum of numbers in two parts.                                         *)
LEMMA SumParts ==
  ASSUME NEW n \in Nat, NEW g \in [1..n -> Nat],
         NEW m \in Nat, NEW h \in [1..m -> Nat],
         NEW f \in [1..(n + m) -> Nat],
         \A i \in 1..n : f[i] = g[i], \A i \in 1..m : f[i + n] = h[i]
  PROVE  SumFunction(f) = SumFunction(g) + SumFunction(h)
<1>0. \A k \in Nat : \A q \in [1..k -> Nat] : q \in Seq(Nat) /\ Len(q) = k
  BY SeqDef, LenProperties
<1>1. g \in Seq(Nat) /\ Len(g) = n /\ h \in Seq(Nat) /\ Len(h) = m
      /\ f \in Seq(Nat) /\ Len(f) = n + m
  <2>1. n + m \in Nat
    OBVIOUS
  <2> QED BY <1>0, <2>1
<1>2. /\ g \o h \in Seq(Nat) /\ Len(g \o h) = n + m
      /\ \A i \in 1..(n + m) : (g \o h)[i] = IF i <= n THEN g[i] ELSE h[i - n]
  BY <1>1, ConcatProperties
<1>3. ASSUME NEW i \in 1..(n + m) PROVE f[i] = (g \o h)[i]
  <2>1. CASE i <= n
    BY <1>2, <2>1
  <2>2. CASE ~ (i <= n)
    <3>1. i - n \in 1..m /\ (i - n) + n = i
      BY <2>2
    <3>2. f[(i - n) + n] = h[i - n]
      BY <3>1
    <3> QED BY <1>2, <2>2, <3>1, <3>2
  <2> QED BY <2>1, <2>2
<1>4. f = g \o h
  BY <1>1, <1>2, <1>3, SeqEqual
<1> QED BY <1>1, <1>4, SumConcat
=============================================================================
