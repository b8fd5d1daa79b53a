-------------------------------- MODULE Sums --------------------------------
(***************************************************************************)
(* Sums of a function over a finite set, as MapThenSumSet computes them:   *)
(* what the proofs need of them.  The models define their sums with        *)
(* MapThenSumSet; every module of proofs shows that its sum is a SumOf.    *)
(***************************************************************************)
EXTENDS Integers, FiniteSets, FiniteSetTheorems, TLAPS

(* F gives the sum of f over every subset of S, an element at a time.      *)
Adds(F, f, S) ==
  F = [s \in SUBSET S |-> IF s = {} THEN 0
                          ELSE f[CHOOSE x \in s : TRUE] + F[s \ {CHOOSE x \in s : TRUE}]]

SumOf(f, S) == (CHOOSE F : Adds(F, f, S))[S]

(* Among sets of subsets of a finite set one has no smaller one in it.     *)
LEMMA LeastSubset ==
  ASSUME NEW S, IsFiniteSet(S), NEW B, B \subseteq SUBSET S, B # {}
  PROVE  \E s \in B : \A t \in SUBSET S : t \subseteq s /\ t # s => t \notin B
<1>1. IsWellFoundedOn(StrictSubsetOrdering(S), SUBSET S)
  BY FS_StrictSubsetOrderingWellFounded, FS_FiniteSubsetsOfFinite
<1>2. PICK s \in B : \A t \in B : ~ (<<t, s>> \in StrictSubsetOrdering(S))
  BY <1>1, WFMin
<1>3. ASSUME NEW t \in SUBSET S, t \subseteq s, t # s, t \in B PROVE FALSE
  <2>1. <<t, s>> \in StrictSubsetOrdering(S)
    BY <1>3 DEF StrictSubsetOrdering
  <2> QED  BY <1>2, <1>3, <2>1
<1> QED  BY <1>3

(* One step of the recursion.                                              *)
LEMMA AddsStep ==
  ASSUME NEW S, NEW f, NEW F, Adds(F, f, S), NEW s \in SUBSET S
  PROVE  /\ s = {} => F[s] = 0
         /\ s # {} => \E c \in s : /\ c = CHOOSE x \in s : TRUE
                                   /\ F[s] = f[c] + F[s \ {c}]
<1>1. F[s] = IF s = {} THEN 0 ELSE f[CHOOSE x \in s : TRUE] + F[s \ {CHOOSE x \in s : TRUE}]
  BY Zenon DEF Adds
<1> QED  BY <1>1

(* What is added are counts, so all sums are counts.                       *)
LEMMA AddsNat ==
  ASSUME NEW S, IsFiniteSet(S), NEW f, \A x \in S : f[x] \in Nat, NEW F, Adds(F, f, S)
  PROVE  F \in [SUBSET S -> Nat]
<1> DEFINE B == {s \in SUBSET S : F[s] \notin Nat}
<1>1. ASSUME B # {} PROVE FALSE
  <2>1. PICK s \in B : \A t \in SUBSET S : t \subseteq s /\ t # s => t \notin B
    <3>1. B \subseteq SUBSET S
      OBVIOUS
    <3> HIDE DEF B
    <3> QED  BY <1>1, <3>1, LeastSubset
  <2>2. s # {}
    BY AddsStep
  <2>3. PICK c \in s : F[s] = f[c] + F[s \ {c}]
    BY <2>2, AddsStep
  <2>4. F[s \ {c}] \in Nat /\ f[c] \in Nat
    BY <2>1
  <2> QED  BY <2>3, <2>4
<1>2. F = [s \in SUBSET S |-> F[s]]
  BY Zenon DEF Adds
<1> QED  BY <1>1, <1>2

(* Sums over the subsets of T depend on the values of f in T only.         *)
LEMMA AddsSame ==
  ASSUME NEW S, IsFiniteSet(S), NEW T \in SUBSET S, NEW f, NEW g, \A x \in T : f[x] = g[x],
         NEW F, Adds(F, f, S), NEW G, Adds(G, g, T)
  PROVE  \A s \in SUBSET T : F[s] = G[s]
<1> DEFINE B == {s \in SUBSET T : F[s] # G[s]}
<1>0. IsFiniteSet(T)
  BY FS_Subset
<1>1. ASSUME B # {} PROVE FALSE
  <2>1. PICK s \in B : \A t \in SUBSET T : t \subseteq s /\ t # s => t \notin B
    <3>1. B \subseteq SUBSET T
      OBVIOUS
    <3> HIDE DEF B
    <3> QED  BY <1>0, <1>1, <3>1, LeastSubset
  <2>2. s \in SUBSET S /\ s \in SUBSET T
    OBVIOUS
  <2>3. s # {}
    BY <2>2, AddsStep
  <2>4. PICK c \in s : c = (CHOOSE x \in s : TRUE) /\ F[s] = f[c] + F[s \ {c}]
    BY <2>2, <2>3, AddsStep
  <2>5. G[s] = g[c] + G[s \ {c}]
    <3>1. PICK d \in s : d = (CHOOSE x \in s : TRUE) /\ G[s] = g[d] + G[s \ {d}]
      BY <2>2, <2>3, AddsStep
    <3> QED  BY <2>4, <3>1
  <2>6. F[s \ {c}] = G[s \ {c}] /\ f[c] = g[c]
    BY <2>1
  <2> QED  BY <2>4, <2>5, <2>6
<1> QED  BY <1>1

(* The sum over a set is what is left without one of its elements and that *)
(* element's value, whichever it is.                                       *)
LEMMA AddsRemove ==
  ASSUME NEW S, IsFiniteSet(S), NEW f, \A x \in S : f[x] \in Nat, NEW F, Adds(F, f, S)
  PROVE  \A s \in SUBSET S : \A y \in s : F[s] = f[y] + F[s \ {y}]
<1> DEFINE B == {s \in SUBSET S : \E y \in s : F[s] # f[y] + F[s \ {y}]}
<1>0. F \in [SUBSET S -> Nat]
  BY AddsNat
<1>1. ASSUME B # {} PROVE FALSE
  <2>1. PICK s \in B : \A t \in SUBSET S : t \subseteq s /\ t # s => t \notin B
    <3>1. B \subseteq SUBSET S
      OBVIOUS
    <3> HIDE DEF B
    <3> QED  BY <1>1, <3>1, LeastSubset
  <2>2. PICK y \in s : F[s] # f[y] + F[s \ {y}]
    OBVIOUS
  <2>3. PICK c \in s : F[s] = f[c] + F[s \ {c}]
    BY <2>2, AddsStep
  <2>4. c # y
    BY <2>2, <2>3
  <2>5. F[s \ {c}] = f[y] + F[(s \ {c}) \ {y}] /\ F[s \ {y}] = f[c] + F[(s \ {y}) \ {c}]
    BY <2>1, <2>4
  <2>6. (s \ {c}) \ {y} = (s \ {y}) \ {c}
    OBVIOUS
  <2>7. F[(s \ {c}) \ {y}] \in Nat /\ f[c] \in Nat /\ f[y] \in Nat
    BY <1>0
  <2>8. F[s] = f[c] + (f[y] + F[(s \ {c}) \ {y}])
    BY <2>3, <2>5
  <2>9. F[s \ {y}] = f[c] + F[(s \ {c}) \ {y}]
    BY <2>5, <2>6
  <2> HIDE DEF B
  <2> QED  BY <2>2, <2>7, <2>8, <2>9
<1> QED  BY <1>1

-----------------------------------------------------------------------------
(* The recursion defines a function: by the least number of elements of    *)
(* the subsets for which it would not.                                     *)
LEMMA AddsExists ==
  ASSUME NEW S, IsFiniteSet(S), NEW f, \A x \in S : f[x] \in Nat
  PROVE  \E F : Adds(F, f, S)
<1> DEFINE c(s) == CHOOSE x \in s : TRUE
           Right(F, s) == F[s] = IF s = {} THEN 0 ELSE f[c(s)] + F[s \ {c(s)}]
           UpTo(F, n) == \A s \in SUBSET S : Cardinality(s) <= n => Right(F, s)
           Some(n) == \E F \in [SUBSET S -> Nat] : UpTo(F, n)
           B == {n \in Nat : ~ Some(n)}
<1>0. \A s \in SUBSET S : /\ IsFiniteSet(s) /\ Cardinality(s) \in Nat
                          /\ Cardinality(s) <= Cardinality(S)
                          /\ (Cardinality(s) = 0 <=> s = {})
                          /\ s # {} => c(s) \in s /\ s \ {c(s)} \in SUBSET S
                                       /\ Cardinality(s \ {c(s)}) = Cardinality(s) - 1
  BY FS_Subset, FS_CardinalityType, FS_EmptySet, FS_RemoveElement
<1> HIDE DEF c
<1>1. Some(0)
  <2> DEFINE F == [s \in SUBSET S |-> 0]
  <2>1. F \in [SUBSET S -> Nat]
    OBVIOUS
  <2>2. ASSUME NEW s \in SUBSET S, Cardinality(s) <= 0 PROVE Right(F, s)
    <3>1. s = {}
      <4>1. Cardinality(s) \in Nat /\ Cardinality(s) <= 0
        BY <1>0, <2>2
      <4>2. Cardinality(s) = 0
        BY <4>1
      <4> QED  BY <1>0, <4>2
    <3> QED  BY <3>1
  <2> HIDE DEF F, Right
  <2> QED  BY <2>1, <2>2
<1>2. ASSUME NEW n \in Nat, Some(n) PROVE Some(n + 1)
  <2>1. PICK F \in [SUBSET S -> Nat] : UpTo(F, n)
    BY <1>2
  <2> DEFINE v(s) == IF Cardinality(s) <= n THEN F[s] ELSE f[c(s)] + F[s \ {c(s)}]
             G == [s \in SUBSET S |-> v(s)]
  <2>2. ASSUME NEW s \in SUBSET S PROVE v(s) \in Nat
    <3>1. CASE Cardinality(s) <= n
      BY <3>1
    <3>2. CASE ~ (Cardinality(s) <= n)
      <4>1. Cardinality(s) # 0
        BY <3>2
      <4>2. s # {}
        BY <1>0, <4>1
      <4>3. f[c(s)] \in Nat /\ F[s \ {c(s)}] \in Nat
        BY <1>0, <4>2
      <4> QED  BY <3>2, <4>3
    <3> QED  BY <3>1, <3>2
  <2>3. G \in [SUBSET S -> Nat] /\ \A s \in SUBSET S : G[s] = v(s)
    <3> HIDE DEF v
    <3> QED  BY <2>2
  <2>4. ASSUME NEW s \in SUBSET S, Cardinality(s) <= n + 1 PROVE Right(G, s)
    <3> HIDE DEF G
    <3>1. CASE s = {}
      BY <1>0, <2>1, <2>3, <3>1
    <3>2. CASE s # {}
      <4> DEFINE t == s \ {c(s)}
      <4>1. t \in SUBSET S /\ Cardinality(t) <= n
        BY <1>0, <2>4, <3>2
      <4>2. G[t] = F[t]
        BY <2>3, <4>1
      <4>3. G[s] = f[c(s)] + F[t]
        BY <2>1, <2>3, <3>2
      <4> QED  BY <3>2, <4>2, <4>3
    <3> QED  BY <3>1, <3>2
  <2>5. UpTo(G, n + 1)
    <3> HIDE DEF G, Right
    <3> QED  BY <2>4
  <2> HIDE DEF G, UpTo
  <2> QED  BY <2>3, <2>5
<1> HIDE DEF Some
<1>3. B = {}
  <2> SUFFICES ASSUME B # {} PROVE FALSE
    OBVIOUS
  <2>1. PICK n \in B : \A m \in B : ~ (<<m, n>> \in OpToRel(<, Nat))
    BY NatLessThanWellFounded, WFMin
  <2>2. n # 0 /\ n \in Nat
    BY <1>1
  <2>3. n - 1 \in Nat /\ n - 1 < n
    BY <2>2
  <2>4. Some(n - 1)
    <3>1. <<n - 1, n>> \in OpToRel(<, Nat)
      BY <2>2, <2>3 DEF OpToRel
    <3> QED  BY <2>1, <2>3, <3>1
  <2>5. Some((n - 1) + 1)
    BY <1>2, <2>3, <2>4
  <2>6. (n - 1) + 1 = n
    BY <2>2
  <2> QED  BY <2>5, <2>6
<1>4. Cardinality(S) \in Nat
  BY FS_CardinalityType
<1>5. Some(Cardinality(S))
  BY <1>3, <1>4
<1>6. PICK F \in [SUBSET S -> Nat] : UpTo(F, Cardinality(S))
  BY <1>5 DEF Some
<1>7. \A s \in SUBSET S : Right(F, s)
  <2> HIDE DEF Right
  <2> QED  BY <1>0, <1>6
<1>8. F = [s \in SUBSET S |-> IF s = {} THEN 0 ELSE f[c(s)] + F[s \ {c(s)}]]
  BY <1>7
<1> QED  BY <1>8, Zenon DEF Adds, c

(* The sum is the value of a function that adds.                           *)
LEMMA SumAdds ==
  ASSUME NEW S, IsFiniteSet(S), NEW f, \A x \in S : f[x] \in Nat
  PROVE  \E F : Adds(F, f, S) /\ SumOf(f, S) = F[S]
<1>1. \E F : Adds(F, f, S)
  BY AddsExists
<1>2. Adds(CHOOSE F : Adds(F, f, S), f, S)
  <2> HIDE DEF Adds
  <2> QED  BY <1>1
<1> QED  BY <1>2 DEF SumOf

LEMMA SumType ==
  ASSUME NEW S, IsFiniteSet(S), NEW f, \A x \in S : f[x] \in Nat
  PROVE  SumOf(f, S) \in Nat
<1>1. PICK F : Adds(F, f, S) /\ SumOf(f, S) = F[S]
  BY SumAdds
<1>2. F \in [SUBSET S -> Nat]
  BY <1>1, AddsNat
<1> QED  BY <1>1, <1>2

LEMMA SumEmpty ==
  ASSUME NEW f
  PROVE  SumOf(f, {}) = 0
<1>1. PICK F : Adds(F, f, {}) /\ SumOf(f, {}) = F[{}]
  BY SumAdds, FS_EmptySet
<1> QED  BY <1>1, AddsStep

LEMMA SumSame ==
  ASSUME NEW S, IsFiniteSet(S), NEW f, NEW g, \A x \in S : f[x] \in Nat /\ f[x] = g[x]
  PROVE  SumOf(f, S) = SumOf(g, S)
<1>1. PICK F : Adds(F, f, S) /\ SumOf(f, S) = F[S]
  BY SumAdds
<1>2. PICK G : Adds(G, g, S) /\ SumOf(g, S) = G[S]
  BY SumAdds
<1>3. \A s \in SUBSET S : F[s] = G[s]
  BY <1>1, <1>2, AddsSame
<1> QED  BY <1>1, <1>2, <1>3

LEMMA SumZero ==
  ASSUME NEW S, IsFiniteSet(S), NEW f, \A x \in S : f[x] = 0
  PROVE  SumOf(f, S) = 0
<1>1. PICK F : Adds(F, f, S) /\ SumOf(f, S) = F[S]
  BY SumAdds
<1> DEFINE B == {s \in SUBSET S : F[s] # 0}
<1>2. ASSUME B # {} PROVE FALSE
  <2>1. PICK s \in B : \A t \in SUBSET S : t \subseteq s /\ t # s => t \notin B
    <3>1. B \subseteq SUBSET S
      OBVIOUS
    <3> HIDE DEF B
    <3> QED  BY <1>2, <3>1, LeastSubset
  <2>2. s # {}
    BY <1>1, AddsStep
  <2>3. PICK c \in s : F[s] = f[c] + F[s \ {c}]
    BY <1>1, <2>2, AddsStep
  <2>4. F[s \ {c}] = 0 /\ f[c] = 0
    BY <2>1
  <2> QED  BY <2>3, <2>4
<1> QED  BY <1>1, <1>2

LEMMA SumRemove ==
  ASSUME NEW S, IsFiniteSet(S), NEW f, \A x \in S : f[x] \in Nat, NEW y \in S
  PROVE  SumOf(f, S) = f[y] + SumOf(f, S \ {y})
<1> DEFINE T == S \ {y}
<1>0. T \in SUBSET S /\ IsFiniteSet(T) /\ \A x \in T : f[x] \in Nat
  BY FS_RemoveElement
<1>1. PICK F : Adds(F, f, S) /\ SumOf(f, S) = F[S]
  BY SumAdds
<1>2. PICK G : Adds(G, f, T) /\ SumOf(f, T) = G[T]
  BY <1>0, SumAdds
<1>3. F[S] = f[y] + F[T]
  BY <1>1, AddsRemove
<1>4. F[T] = G[T]
  BY <1>0, <1>1, <1>2, AddsSame
<1> QED  BY <1>1, <1>2, <1>3, <1>4

(* One value of the function changes.                                      *)
LEMMA SumChange ==
  ASSUME NEW S, IsFiniteSet(S), NEW y \in S, NEW f, NEW g,
         \A x \in S : f[x] \in Nat /\ g[x] \in Nat,
         \A x \in S : x # y => f[x] = g[x]
  PROVE  SumOf(g, S) + f[y] = SumOf(f, S) + g[y]
<1> DEFINE T == S \ {y}
<1>1. SumOf(f, S) = f[y] + SumOf(f, T) /\ SumOf(g, S) = g[y] + SumOf(g, T)
  BY SumRemove
<1>2. IsFiniteSet(T) /\ \A x \in T : f[x] \in Nat /\ f[x] = g[x]
  BY FS_RemoveElement
<1>3. SumOf(f, T) = SumOf(g, T) /\ SumOf(f, T) \in Nat
  BY <1>2, SumSame, SumType
<1> QED  BY <1>1, <1>3
=============================================================================
