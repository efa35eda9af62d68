---------------------------- MODULE SumTheorems ----------------------------
(***************************************************************************)
(* Sums of a function over a finite set, SumFunctionOnSet of the module    *)
(* Functions: the fold is well defined, and elements may be added and      *)
(* taken away in any order.  The library's induction theorems are about    *)
(* operators; here induction is the existence of a smallest set, or        *)
(* number, for which a claim would fail.                                   *)
(***************************************************************************)
EXTENDS Functions, FiniteSetTheorems, TLAPS

(* A set of natural numbers has a smallest element.                        *)
LEMMA NatMin ==
    ASSUME NEW N, N \subseteq Nat, N # {}
    PROVE  \E n \in N : \A m \in N : n <= m
<1> DEFINE R == OpToRel(<, Nat)
<1>1. R = {ss \in Nat \X Nat : ss[1] < ss[2]}
  BY DEF OpToRel
<1>2. IsWellFoundedOn(R, Nat)
  BY NatLessThanWellFounded
<1>3. \A n, m \in Nat : <<n, m>> \in R <=> n < m
  BY <1>1
<1> HIDE DEF R
<1>4. PICK n \in N : \A m \in N : <<m, n>> \notin R
  BY <1>2, WFMin
<1>5. \A m \in N : n <= m
  <2> TAKE m \in N
  <2>1. n \in Nat /\ m \in Nat /\ ~ (m < n)
    BY <1>3, <1>4
  <2> QED
    BY <2>1
<1> QED
  BY <1>5

(* A family of subsets of a finite set has a member that contains no other.*)
LEMMA SubsetMin ==
    ASSUME NEW S, IsFiniteSet(S), NEW F, F \subseteq SUBSET S, F # {}
    PROVE  \E T \in F : \A U \in F : U \subseteq T => U = T
<1>1. IsWellFoundedOn(StrictSubsetOrdering(S), SUBSET S)
  BY FS_StrictSubsetOrderingWellFounded, FS_FiniteSubsetsOfFinite
<1>2. \E T \in F : \A U \in F : <<U, T>> \notin StrictSubsetOrdering(S)
  BY <1>1, WFMin
<1> QED
  BY <1>2 DEF StrictSubsetOrdering

-----------------------------------------------------------------------------
(* The equation of the fold *)

Element(s) == CHOOSE x \in s : TRUE

(* g adds up f over the sets of the family F.                              *)
Adds(g, f, F) ==
    \A s \in F : g[s] = IF s = {} THEN 0 ELSE f[Element(s)] + g[s \ {Element(s)}]

LEMMA ElementIn == ASSUME NEW s, s # {} PROVE Element(s) \in s
  BY DEF Element

(* Sums exist for the small subsets, and so for all of them.               *)
LEMMA SmallSums ==
    ASSUME NEW f, NEW S, IsFiniteSet(S)
    PROVE  \A n \in Nat : \E g : Adds(g, f, {s \in SUBSET S : Cardinality(s) <= n})
<1> DEFINE Small(n) == {s \in SUBSET S : Cardinality(s) <= n}
           N == {n \in Nat : ~ \E g : Adds(g, f, Small(n))}
<1>1. \A s \in SUBSET S : IsFiniteSet(s) /\ Cardinality(s) \in Nat
  BY FS_Subset, FS_CardinalityType
<1>2. ASSUME NEW n \in N, \A m \in N : n <= m
      PROVE  FALSE
  <2>1. CASE n = 0
    <3>1. \A s \in Small(0) : s = {}
      BY <1>1, FS_EmptySet
    <3>2. Adds([s \in SUBSET S |-> 0], f, Small(0))
      BY <3>1 DEF Adds
    <3> QED
      BY <2>1, <3>2
  <2>2. CASE n # 0
    <3>1. n \in Nat /\ n - 1 \in Nat /\ n - 1 \notin N
      <4>1. n \in Nat
        OBVIOUS
      <4>2. n - 1 \in Nat /\ ~ (n <= n - 1)
        BY <2>2, <4>1
      <4> HIDE DEF N
      <4> QED
        BY <1>2, <4>1, <4>2
    <3>2. PICK g : Adds(g, f, Small(n - 1))
      BY <3>1
    <3> DEFINE h == [s \in SUBSET S |->
                        IF Cardinality(s) <= n - 1 THEN g[s]
                        ELSE f[Element(s)] + g[s \ {Element(s)}]]
    <3>3. \A s \in Small(n) : s # {} =>
              /\ s \ {Element(s)} \in SUBSET S
              /\ Cardinality(s \ {Element(s)}) <= n - 1
              /\ h[s \ {Element(s)}] = g[s \ {Element(s)}]
      <4> TAKE s \in Small(n)
      <4> HAVE s # {}
      <4>1. Element(s) \in s
        BY ElementIn
      <4>2. Cardinality(s \ {Element(s)}) = Cardinality(s) - 1
        BY <1>1, <4>1, FS_RemoveElement
      <4>3. s \ {Element(s)} \in SUBSET S /\ Cardinality(s) \in Nat
        BY <1>1
      <4> QED
        BY <3>1, <4>2, <4>3
    <3>4. ASSUME NEW s \in Small(n)
          PROVE  h[s] = IF s = {} THEN 0 ELSE f[Element(s)] + h[s \ {Element(s)}]
      <4>1. s \in SUBSET S /\ Cardinality(s) \in Nat
        BY <1>1
      <4>2. CASE Cardinality(s) <= n - 1
        <5>1. h[s] = g[s] /\ s \in Small(n - 1)
          BY <4>1, <4>2
        <5>2. g[s] = IF s = {} THEN 0 ELSE f[Element(s)] + g[s \ {Element(s)}]
          BY <3>2, <5>1 DEF Adds
        <5> HIDE DEF h
        <5> QED
          BY <3>3, <5>1, <5>2
      <4>3. CASE ~ (Cardinality(s) <= n - 1)
        <5>1. s # {}
          BY <3>1, <4>3, FS_EmptySet
        <5>2. h[s] = f[Element(s)] + g[s \ {Element(s)}]
          BY <4>1, <4>3
        <5> HIDE DEF h
        <5> QED
          BY <3>3, <5>1, <5>2
      <4> QED
        BY <4>2, <4>3
    <3>5. Adds(h, f, Small(n))
      BY <3>4 DEF Adds
    <3> QED
      BY <3>5
  <2> QED
    BY <2>1, <2>2
<1>3. N = {}
  <2> HIDE DEF N
  <2>1. N \subseteq Nat
    BY DEF N
  <2> QED
    BY <1>2, <2>1, NatMin
<1> QED
  BY <1>3

(* The equation that defines the fold.                                     *)
Solves(g, f, S) ==
    g = [s \in SUBSET S |-> IF s = {} THEN 0
                            ELSE f[Element(s)] + g[s \ {Element(s)}]]

LEMMA SumsExist ==
    ASSUME NEW f, NEW S, IsFiniteSet(S)
    PROVE  \E g : Solves(g, f, S)
<1>0. Cardinality(S) \in Nat
  BY FS_CardinalityType
<1>1. PICK g : Adds(g, f, {s \in SUBSET S : Cardinality(s) <= Cardinality(S)})
  <2>1. \A n \in Nat : \E g : Adds(g, f, {s \in SUBSET S : Cardinality(s) <= n})
    BY SmallSums
  <2> QED
    BY <1>0, <2>1
<1>2. \A s \in SUBSET S : Cardinality(s) <= Cardinality(S)
  BY FS_Subset
<1> DEFINE h == [s \in SUBSET S |-> g[s]]
<1>3. \A s \in SUBSET S :
          h[s] = IF s = {} THEN 0 ELSE f[Element(s)] + h[s \ {Element(s)}]
  BY <1>1, <1>2 DEF Adds
<1>4. Solves(h, f, S)
  <2>1. h = [s \in SUBSET S |-> h[s]]
    OBVIOUS
  <2> HIDE DEF h
  <2> QED
    BY <1>3, <2>1 DEF Solves
<1> QED
  BY <1>4

(* The function the fold picks satisfies the equation it is defined by.    *)
LEMMA SumFold ==
    ASSUME NEW f, NEW S, IsFiniteSet(S)
    PROVE  \E g : Adds(g, f, SUBSET S) /\ SumFunctionOnSet(f, S) = g[S]
<1> DEFINE g == CHOOSE h : Solves(h, f, S)
<1>1. Solves(g, f, S)
  BY SumsExist
<1>2. SumFunctionOnSet(f, S) = g[S]
  BY DEF SumFunctionOnSet, FoldFunctionOnSet, MapThenFoldSet, Element, Solves
<1> HIDE DEF g
<1>3. Adds(g, f, SUBSET S)
  BY <1>1 DEF Adds, Solves
<1> QED
  BY <1>2, <1>3

(* Functions that satisfy the equation agree where both do.                *)
LEMMA SumsAgree ==
    ASSUME NEW f, NEW h, NEW S, IsFiniteSet(S), \A k \in S : f[k] = h[k],
           NEW F, NEW H, Adds(F, f, SUBSET S), Adds(H, h, SUBSET S)
    PROVE  \A s \in SUBSET S : F[s] = H[s]
<1> DEFINE Differ == {s \in SUBSET S : F[s] # H[s]}
<1>1. ASSUME NEW s \in Differ, \A t \in Differ : t \subseteq s => t = s
      PROVE  FALSE
  <2>1. s # {}
    BY DEF Adds
  <2>2. Element(s) \in s
    BY <2>1, ElementIn
  <2>3. s \ {Element(s)} \notin Differ
    BY <1>1, <2>2
  <2>4. F[s \ {Element(s)}] = H[s \ {Element(s)}]
    BY <2>3
  <2>5. f[Element(s)] = h[Element(s)]
    BY <2>2
  <2>6. F[s] = f[Element(s)] + F[s \ {Element(s)}]
    BY <2>1 DEF Adds
  <2>7. H[s] = h[Element(s)] + H[s \ {Element(s)}]
    BY <2>1 DEF Adds
  <2> QED
    BY <2>4, <2>5, <2>6, <2>7
<1>2. Differ \subseteq SUBSET S
  OBVIOUS
<1>3. Differ = {}
  <2> HIDE DEF Differ
  <2> QED
    BY <1>1, <1>2, SubsetMin
<1> QED
  BY <1>3

-----------------------------------------------------------------------------
(* Sums *)

LEMMA SumPart ==
    ASSUME NEW f, NEW S, IsFiniteSet(S), NEW g, Adds(g, f, SUBSET S),
           NEW s \in SUBSET S
    PROVE  SumFunctionOnSet(f, s) = g[s]
<1>1. IsFiniteSet(s)
  BY FS_Subset
<1>2. PICK h : Adds(h, f, SUBSET s) /\ SumFunctionOnSet(f, s) = h[s]
  BY <1>1, SumFold
<1>3. Adds(g, f, SUBSET s)
  BY DEF Adds
<1>4. \A t \in SUBSET s : g[t] = h[t]
  BY <1>1, <1>2, <1>3, SumsAgree
<1> QED
  BY <1>2, <1>4

(* The equation of the sum. *)
LEMMA SumEquation ==
    ASSUME NEW f, NEW S, IsFiniteSet(S)
    PROVE  SumFunctionOnSet(f, S) =
               IF S = {} THEN 0
               ELSE f[Element(S)] + SumFunctionOnSet(f, S \ {Element(S)})
<1>1. PICK g : Adds(g, f, SUBSET S) /\ SumFunctionOnSet(f, S) = g[S]
  BY SumFold
<1>2. SumFunctionOnSet(f, S \ {Element(S)}) = g[S \ {Element(S)}]
  BY <1>1, SumPart
<1> QED
  BY <1>1, <1>2 DEF Adds

(* The sum looks at the elements of the set only.                          *)
LEMMA SumSame ==
    ASSUME NEW f, NEW h, NEW S, IsFiniteSet(S), \A k \in S : f[k] = h[k]
    PROVE  SumFunctionOnSet(f, S) = SumFunctionOnSet(h, S)
<1>1. PICK F : Adds(F, f, SUBSET S) /\ SumFunctionOnSet(f, S) = F[S]
  BY SumFold
<1>2. PICK H : Adds(H, h, SUBSET S) /\ SumFunctionOnSet(h, S) = H[S]
  BY SumFold
<1>3. \A s \in SUBSET S : F[s] = H[s]
  BY <1>1, <1>2, SumsAgree
<1> QED
  BY <1>1, <1>2, <1>3

(* A sum of integers is an integer.                                        *)
LEMMA SumType ==
    ASSUME NEW f, NEW S, IsFiniteSet(S), \A k \in S : f[k] \in Int
    PROVE  SumFunctionOnSet(f, S) \in Int
<1> DEFINE Odd == {s \in SUBSET S : SumFunctionOnSet(f, s) \notin Int}
<1>1. ASSUME NEW s \in Odd, \A t \in Odd : t \subseteq s => t = s
      PROVE  FALSE
  <2>1. IsFiniteSet(s)
    BY FS_Subset
  <2>2. s # {}
    <3>1. SumFunctionOnSet(f, s) =
              IF s = {} THEN 0
              ELSE f[Element(s)] + SumFunctionOnSet(f, s \ {Element(s)})
      BY <2>1, SumEquation
    <3> QED
      BY <3>1
  <2>3. Element(s) \in s
    BY <2>2, ElementIn
  <2>4. s \ {Element(s)} \notin Odd
    BY <1>1, <2>3
  <2>5. SumFunctionOnSet(f, s \ {Element(s)}) \in Int
    BY <2>4
  <2>6. f[Element(s)] \in Int
    BY <2>3
  <2> QED
    BY <2>1, <2>2, <2>5, <2>6, SumEquation
<1>2. Odd = {}
  <2>1. Odd \subseteq SUBSET S
    OBVIOUS
  <2> HIDE DEF Odd
  <2> QED
    BY <1>1, <2>1, SubsetMin
<1> QED
  BY <1>2

(* Any element may be taken out first.                                     *)
LEMMA SumRemove ==
    ASSUME NEW f, NEW S, IsFiniteSet(S), \A k \in S : f[k] \in Int, NEW x \in S
    PROVE  SumFunctionOnSet(f, S) = f[x] + SumFunctionOnSet(f, S \ {x})
<1> DEFINE Sum(s) == SumFunctionOnSet(f, s)
           Odd == {s \in SUBSET S : \E y \in s : Sum(s) # f[y] + Sum(s \ {y})}
<1>0. \A s \in SUBSET S : IsFiniteSet(s) /\ Sum(s) \in Int
  BY FS_Subset, SumType
<1>1. \A s \in SUBSET S : s # {} => /\ Element(s) \in s
                                    /\ Sum(s) = f[Element(s)] + Sum(s \ {Element(s)})
  BY <1>0, ElementIn, SumEquation
<1> HIDE DEF Sum
<1>2. ASSUME NEW s \in Odd, \A t \in Odd : t \subseteq s => t = s
      PROVE  FALSE
  <2>1. PICK y \in s : Sum(s) # f[y] + Sum(s \ {y})
    OBVIOUS
  <2> DEFINE c == Element(s)
  <2>2. c \in s /\ Sum(s) = f[c] + Sum(s \ {c}) /\ y # c
    BY <1>1, <2>1
  <2> HIDE DEF c
  <2>3. s \ {c} \notin Odd /\ s \ {y} \notin Odd
    BY <1>2, <2>2
  <2>4. Sum(s \ {c}) = f[y] + Sum((s \ {c}) \ {y})
    BY <2>2, <2>3
  <2>5. Sum(s \ {y}) = f[c] + Sum((s \ {y}) \ {c})
    BY <2>2, <2>3
  <2> DEFINE rest == Sum((s \ {c}) \ {y})
  <2>6. Sum(s \ {y}) = f[c] + rest
    <3>1. (s \ {c}) \ {y} = (s \ {y}) \ {c}
      OBVIOUS
    <3> QED
      BY <2>5, <3>1
  <2>7. f[y] \in Int /\ f[c] \in Int /\ rest \in Int
    BY <1>0, <2>2
  <2>8. Sum(s) = f[c] + (f[y] + rest) /\ Sum(s) # f[y] + (f[c] + rest)
    BY <2>1, <2>2, <2>4, <2>6
  <2> HIDE DEF rest, Odd
  <2> QED
    BY <2>7, <2>8
<1>3. Odd = {}
  <2>1. Odd \subseteq SUBSET S
    OBVIOUS
  <2> HIDE DEF Odd
  <2> QED
    BY <1>2, <2>1, SubsetMin
<1>4. Sum(S) = f[x] + Sum(S \ {x})
  BY <1>3
<1> QED
  BY <1>4 DEF Sum

LEMMA SumEmpty == ASSUME NEW f PROVE SumFunctionOnSet(f, {}) = 0
  BY FS_EmptySet, SumEquation

(* An element more adds its value.                                         *)
LEMMA SumAdd ==
    ASSUME NEW f, NEW S, IsFiniteSet(S), NEW x, x \notin S,
           \A k \in S \union {x} : f[k] \in Int
    PROVE  SumFunctionOnSet(f, S \union {x}) = SumFunctionOnSet(f, S) + f[x]
<1>1. IsFiniteSet(S \union {x}) /\ (S \union {x}) \ {x} = S
  BY FS_AddElement
<1>2. SumFunctionOnSet(f, S \union {x}) = f[x] + SumFunctionOnSet(f, S)
  BY <1>1, SumRemove
<1>3. SumFunctionOnSet(f, S) \in Int /\ f[x] \in Int
  BY SumType
<1> QED
  BY <1>2, <1>3
=============================================================================
