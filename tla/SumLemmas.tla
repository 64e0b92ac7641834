----------------------------- MODULE SumLemmas -----------------------------
(***************************************************************************)
(* Sums over finite sets.  SumFunctionOnSet(f, S) of the community modules *)
(* is a recursive function on the subsets of S that takes elements in an   *)
(* order of its own (CHOOSE); the lemmas say that there is such a function *)
(* and that the order does not matter.                                     *)
(***************************************************************************)
EXTENDS Integers, Functions, FiniteSetTheorems, WellFoundedInduction, TLAPS

\* Induction over the naturals, in terms of sets.
LEMMA AllNaturals ==
    ASSUME NEW T \in SUBSET Nat, 0 \in T, \A n \in T : n + 1 \in T
    PROVE  T = Nat
<1> SUFFICES ASSUME Nat \ T # {}
             PROVE  FALSE
    OBVIOUS
<1>1. PICK least \in Nat \ T : \A n \in Nat \ T : ~(<<n, least>> \in OpToRel(<, Nat))
    BY WFMin, NatLessThanWellFounded
<1>2. least # 0 /\ least - 1 \in Nat
    OBVIOUS
<1>3. <<least - 1, least>> \in OpToRel(<, Nat)
    BY <1>2 DEF OpToRel
<1>4. least - 1 \in T
    BY <1>1, <1>2, <1>3
<1> QED
    BY <1>2, <1>4

First(s) == CHOOSE x \in s : TRUE

\* The equation that the sums over the subsets of S satisfy.
Adding(f, S, sum) ==
    [s \in SUBSET S |-> IF s = {} THEN 0 ELSE f[First(s)] + sum[s \ {First(s)}]]

Adder(f, S) == CHOOSE sum : sum = Adding(f, S, sum)

LEMMA SumIsAdded ==
    ASSUME NEW f, NEW S
    PROVE  SumFunctionOnSet(f, S) = Adder(f, S)[S]
BY Zenon DEF SumFunctionOnSet, FoldFunctionOnSet, MapThenFoldSet, Adder, Adding, First

LEMMA FirstTaken ==
    ASSUME NEW S, IsFiniteSet(S), NEW s \in SUBSET S, s # {}
    PROVE  /\ First(s) \in s /\ s \ {First(s)} \in SUBSET S
           /\ Cardinality(s) \in Nat /\ Cardinality(s) - 1 \in Nat
           /\ Cardinality(s \ {First(s)}) = Cardinality(s) - 1
<1>1. First(s) \in s /\ s \ {First(s)} \in SUBSET S
    BY DEF First
<1>2. IsFiniteSet(s) /\ Cardinality(s) \in Nat
    BY FS_Subset, FS_CardinalityType
<1>3. Cardinality(s) # 0
    BY <1>2, FS_EmptySet
<1>4. Cardinality(s \ {First(s)}) = Cardinality(s) - 1
    BY <1>1, <1>2, FS_RemoveElement
<1> QED
    BY <1>1, <1>2, <1>3, <1>4

\* sum satisfies the equation on sets of up to n elements.
AddsUpTo(f, S, n) ==
    \E sum : /\ sum = [s \in SUBSET S |-> sum[s]]
             /\ \A s \in SUBSET S : Cardinality(s) <= n => sum[s] = Adding(f, S, sum)[s]

LEMMA AddsUp ==
    ASSUME NEW f, NEW S, IsFiniteSet(S)
    PROVE  \A n \in Nat : AddsUpTo(f, S, n)
<1> DEFINE T == {n \in Nat : AddsUpTo(f, S, n)}
<1>1. AddsUpTo(f, S, 0)
    <2> DEFINE none == [s \in SUBSET S |-> 0]
    <2>1. none = [s \in SUBSET S |-> none[s]] /\ \A s \in SUBSET S : none[s] = 0
        OBVIOUS
    <2> HIDE DEF none
    <2>2. ASSUME NEW s \in SUBSET S, Cardinality(s) <= 0
          PROVE  none[s] = Adding(f, S, none)[s]
        <3>1. s = {}
            <4>1. IsFiniteSet(s) /\ Cardinality(s) \in Nat
                BY FS_Subset, FS_CardinalityType
            <4>2. Cardinality(s) = 0
                BY <2>2, <4>1
            <4> QED
                BY <4>1, <4>2, FS_EmptySet
        <3> QED
            BY <2>1, <3>1 DEF Adding
    <2> QED
        BY <2>1, <2>2 DEF AddsUpTo
<1>2. ASSUME NEW n \in Nat, AddsUpTo(f, S, n)
      PROVE  AddsUpTo(f, S, n + 1)
    <2>1. PICK sum : /\ sum = [s \in SUBSET S |-> sum[s]]
                     /\ \A s \in SUBSET S : Cardinality(s) <= n =>
                            sum[s] = Adding(f, S, sum)[s]
        BY <1>2 DEF AddsUpTo
    <2> DEFINE next == [s \in SUBSET S |->
                           IF Cardinality(s) = n + 1 THEN Adding(f, S, sum)[s] ELSE sum[s]]
    <2>2. /\ next = [s \in SUBSET S |-> next[s]]
          /\ \A s \in SUBSET S : Cardinality(s) = n + 1 => next[s] = Adding(f, S, sum)[s]
          /\ \A s \in SUBSET S : Cardinality(s) # n + 1 => next[s] = sum[s]
        OBVIOUS
    <2> HIDE DEF next
    <2>3. ASSUME NEW s \in SUBSET S, Cardinality(s) <= n + 1
          PROVE  next[s] = Adding(f, S, next)[s]
        <3>1. Cardinality(s) \in Nat
            BY FS_Subset, FS_CardinalityType
        <3>2. CASE s = {}
            <4>1. Cardinality(s) = 0
                BY <3>2, FS_EmptySet
            <4>2. Cardinality(s) # n + 1 /\ Cardinality(s) <= n
                BY <4>1
            <4>3. Adding(f, S, sum)[s] = 0 /\ Adding(f, S, next)[s] = 0
                BY <3>2 DEF Adding
            <4> QED
                BY <2>1, <2>2, <4>2, <4>3
        <3>3. CASE s # {}
            <4> DEFINE rest == s \ {First(s)}
            <4>1. rest \in SUBSET S /\ Cardinality(rest) = Cardinality(s) - 1
                BY <3>3, FirstTaken
            <4>2. /\ Adding(f, S, sum)[s] = f[First(s)] + sum[rest]
                  /\ Adding(f, S, next)[s] = f[First(s)] + next[rest]
                BY <3>3 DEF Adding
            <4> HIDE DEF rest
            <4>3. Cardinality(rest) # n + 1
                BY <2>3, <3>1, <4>1
            <4>4. next[rest] = sum[rest]
                BY <2>2, <4>1, <4>3
            <4>5. CASE Cardinality(s) = n + 1
                BY <2>2, <4>2, <4>4, <4>5
            <4>6. CASE Cardinality(s) # n + 1
                <5>1. Cardinality(s) <= n
                    BY <2>3, <3>1, <4>6
                <5> QED
                    BY <2>1, <2>2, <4>2, <4>4, <4>6, <5>1
            <4> QED
                BY <4>5, <4>6
        <3> QED
            BY <3>2, <3>3
    <2> QED
        BY <2>2, <2>3 DEF AddsUpTo
<1>3. 0 \in T /\ \A n \in T : n + 1 \in T
    BY <1>1, <1>2
<1>4. T = Nat
    BY <1>3, AllNaturals
<1> QED
    BY <1>4

LEMMA AdderAdds ==
    ASSUME NEW f, NEW S, IsFiniteSet(S)
    PROVE  Adder(f, S) = Adding(f, S, Adder(f, S))
<1>1. Cardinality(S) \in Nat
    BY FS_CardinalityType
<1>2. PICK sum : /\ sum = [s \in SUBSET S |-> sum[s]]
                 /\ \A s \in SUBSET S : Cardinality(s) <= Cardinality(S) =>
                        sum[s] = Adding(f, S, sum)[s]
    <2>1. AddsUpTo(f, S, Cardinality(S))
        BY <1>1, AddsUp
    <2> QED
        BY <2>1, Zenon DEF AddsUpTo
<1>3. \A s \in SUBSET S : sum[s] = Adding(f, S, sum)[s]
    BY <1>2, FS_Subset
<1>4. sum = Adding(f, S, sum)
    BY <1>2, <1>3 DEF Adding
<1> QED
    BY <1>4 DEF Adder

\* The equation has one solution, and that for a subset is part of it.
LEMMA AddersAgree ==
    ASSUME NEW f, NEW g, NEW S, IsFiniteSet(S), NEW R \in SUBSET S,
           \A x \in R : f[x] = g[x], NEW s \in SUBSET R
    PROVE  Adder(f, S)[s] = Adder(g, R)[s]
<1> DEFINE a == Adder(f, S)
           b == Adder(g, R)
           T == {n \in Nat : \A r \in SUBSET R : Cardinality(r) = n => a[r] = b[r]}
<1>1. IsFiniteSet(R)
    BY FS_Subset
<1>2. a = Adding(f, S, a) /\ b = Adding(g, R, b)
    BY <1>1, AdderAdds
<1> HIDE DEF a, b
<1>3. /\ a[{}] = 0 /\ b[{}] = 0
      /\ \A r \in SUBSET R : r # {} => /\ a[r] = f[First(r)] + a[r \ {First(r)}]
                                       /\ b[r] = g[First(r)] + b[r \ {First(r)}]
    BY <1>2 DEF Adding
<1>4. 0 \in T
    BY <1>1, <1>3, FS_EmptySet, FS_Subset
<1>5. ASSUME NEW n \in T
      PROVE  n + 1 \in T
    <2> SUFFICES ASSUME NEW r \in SUBSET R, Cardinality(r) = n + 1
                 PROVE  a[r] = b[r]
        OBVIOUS
    <2>1. r # {}
        BY FS_EmptySet
    <2> DEFINE rest == r \ {First(r)}
    <2>2. rest \in SUBSET R /\ Cardinality(rest) = Cardinality(r) - 1 /\ First(r) \in R
        BY <1>1, <2>1, FirstTaken
    <2>3. a[r] = f[First(r)] + a[rest] /\ b[r] = g[First(r)] + b[rest]
        BY <1>3, <2>1
    <2> HIDE DEF rest
    <2>4. Cardinality(rest) = n
        BY <2>2
    <2>5. a[rest] = b[rest]
        BY <2>2, <2>4
    <2> QED
        BY <2>2, <2>3, <2>5
<1>6. T = Nat
    BY <1>4, <1>5, AllNaturals
<1>7. Cardinality(s) \in Nat
    BY <1>1, FS_Subset, FS_CardinalityType
<1> QED
    BY <1>6, <1>7 DEF a, b

-----------------------------------------------------------------------------
(***************************************************************************)
(* What the other proofs use.                                              *)
(***************************************************************************)

\* Nothing adds up to zero.
LEMMA SumOfNone == \A f : SumFunctionOnSet(f, {}) = 0
<1> SUFFICES ASSUME NEW f
             PROVE  SumFunctionOnSet(f, {}) = 0
    OBVIOUS
<1>1. Adder(f, {}) = Adding(f, {}, Adder(f, {}))
    BY FS_EmptySet, AdderAdds
<1>2. Adding(f, {}, Adder(f, {}))[{}] = 0
    BY DEF Adding
<1> QED
    BY <1>1, <1>2, SumIsAdded

\* Functions that agree on a set have the same sum over it.
LEMMA SumOfSame ==
    ASSUME NEW S, IsFiniteSet(S), NEW f, NEW g, \A x \in S : f[x] = g[x]
    PROVE  SumFunctionOnSet(f, S) = SumFunctionOnSet(g, S)
<1>1. Adder(f, S)[S] = Adder(g, S)[S]
    BY AddersAgree
<1> QED
    BY <1>1, SumIsAdded

\* Any element may be the first.
LEMMA SumAtFirst ==
    ASSUME NEW S, IsFiniteSet(S), S # {}, NEW f
    PROVE  SumFunctionOnSet(f, S) = f[First(S)] + SumFunctionOnSet(f, S \ {First(S)})
<1> DEFINE R == S \ {First(S)}
<1>1. Adder(f, S) = Adding(f, S, Adder(f, S))
    BY AdderAdds
<1>2. Adding(f, S, Adder(f, S))[S] = f[First(S)] + Adder(f, S)[R]
    BY DEF Adding
<1>3. Adder(f, S)[R] = Adder(f, R)[R]
    BY AddersAgree
<1> QED
    BY <1>1, <1>2, <1>3, SumIsAdded

LEMMA SumStaysIn ==
    ASSUME NEW S, IsFiniteSet(S), NEW f, NEW N, 0 \in N, \A a, b \in N : a + b \in N,
           \A x \in S : f[x] \in N
    PROVE  SumFunctionOnSet(f, S) \in N
<1> DEFINE T == {n \in Nat : \A s \in SUBSET S : Cardinality(s) = n => SumFunctionOnSet(f, s) \in N}
<1>1. 0 \in T
    <2> SUFFICES ASSUME NEW s \in SUBSET S, Cardinality(s) = 0
                 PROVE  SumFunctionOnSet(f, s) \in N
        OBVIOUS
    <2>1. s = {}
        BY FS_EmptySet, FS_Subset
    <2> QED
        BY <2>1, SumOfNone
<1>2. ASSUME NEW n \in T
      PROVE  n + 1 \in T
    <2> SUFFICES ASSUME NEW s \in SUBSET S, Cardinality(s) = n + 1
                 PROVE  SumFunctionOnSet(f, s) \in N
        OBVIOUS
    <2>1. s # {} /\ IsFiniteSet(s)
        BY FS_EmptySet, FS_Subset
    <2> DEFINE rest == s \ {First(s)}
    <2>2. rest \in SUBSET S /\ Cardinality(rest) = Cardinality(s) - 1 /\ First(s) \in S
        BY <2>1, FirstTaken
    <2>3. SumFunctionOnSet(f, s) = f[First(s)] + SumFunctionOnSet(f, rest)
        BY <2>1, SumAtFirst
    <2> HIDE DEF rest
    <2>4. Cardinality(rest) = n
        BY <2>2
    <2>5. SumFunctionOnSet(f, rest) \in N /\ f[First(s)] \in N
        BY <2>2, <2>4
    <2> QED
        BY <2>3, <2>5
<1>3. T = Nat
    BY <1>1, <1>2, AllNaturals
<1>4. Cardinality(S) \in Nat
    BY FS_CardinalityType
<1> QED
    BY <1>3, <1>4

LEMMA SumOfInts ==
    ASSUME NEW S, IsFiniteSet(S), NEW f, NEW N, N = Nat \/ N = Int, \A x \in S : f[x] \in N
    PROVE  SumFunctionOnSet(f, S) \in N
<1>1. 0 \in N /\ \A a, b \in N : a + b \in N
    OBVIOUS
<1> QED
    BY <1>1, SumStaysIn

LEMMA SumTakes ==
    ASSUME NEW S, IsFiniteSet(S), NEW f, \A x \in S : f[x] \in Int, NEW x \in S
    PROVE  SumFunctionOnSet(f, S) = f[x] + SumFunctionOnSet(f, S \ {x})
<1> DEFINE Sum(s) == SumFunctionOnSet(f, s)
           T == {n \in Nat : \A s \in SUBSET S : Cardinality(s) = n =>
                    \A y \in s : Sum(s) = f[y] + Sum(s \ {y})}
<1>0. \A s \in SUBSET S : IsFiniteSet(s) /\ Cardinality(s) \in Nat /\ Sum(s) \in Int
    BY FS_Subset, FS_CardinalityType, SumOfInts
<1>1. 0 \in T
    BY <1>0, FS_EmptySet
<1>2. ASSUME NEW n \in T
      PROVE  n + 1 \in T
    <2> SUFFICES ASSUME NEW s \in SUBSET S, Cardinality(s) = n + 1, NEW y \in s
                 PROVE  Sum(s) = f[y] + Sum(s \ {y})
        OBVIOUS
    <2> DEFINE z == First(s)
    <2>1. s # {}
        OBVIOUS
    <2>2. z \in s /\ s \ {z} \in SUBSET S /\ Cardinality(s \ {z}) = Cardinality(s) - 1
        BY <2>1, FirstTaken
    <2>3. Sum(s) = f[z] + Sum(s \ {z})
        BY <1>0, <2>1, SumAtFirst
    <2> HIDE DEF z
    <2>4. CASE y = z
        BY <2>3, <2>4
    <2>5. CASE y # z
        <3> DEFINE both == s \ {y, z}
        <3>1. Cardinality(s \ {y}) = Cardinality(s) - 1
            BY <1>0, FS_RemoveElement
        <3>2. Cardinality(s \ {y}) = n /\ Cardinality(s \ {z}) = n
            BY <2>2, <3>1
        <3>3. /\ s \ {z} \in SUBSET S /\ y \in s \ {z} /\ (s \ {z}) \ {y} = both
              /\ s \ {y} \in SUBSET S /\ z \in s \ {y} /\ (s \ {y}) \ {z} = both
              /\ both \in SUBSET S
            BY <2>2, <2>5
        <3>4. Sum(s \ {z}) = f[y] + Sum(both)
            BY <3>2, <3>3
        <3>5. Sum(s \ {y}) = f[z] + Sum(both)
            BY <3>2, <3>3
        <3>6. f[y] \in Int /\ f[z] \in Int /\ Sum(both) \in Int
            BY <1>0, <2>2, <3>3
        <3> HIDE DEF both, Sum
        <3> QED
            BY <2>3, <3>4, <3>5, <3>6
    <2> QED
        BY <2>4, <2>5
<1>3. T = Nat
    BY <1>1, <1>2, AllNaturals
<1>4. Cardinality(S) \in Nat
    BY FS_CardinalityType
<1> QED
    BY <1>3, <1>4

\* One more element adds its value.
LEMMA SumAdds ==
    ASSUME NEW S, IsFiniteSet(S), NEW f, NEW x, x \notin S, \A y \in S \union {x} : f[y] \in Int
    PROVE  SumFunctionOnSet(f, S \union {x}) = f[x] + SumFunctionOnSet(f, S)
<1>1. IsFiniteSet(S \union {x}) /\ (S \union {x}) \ {x} = S
    BY FS_AddElement
<1> QED
    BY <1>1, SumTakes

\* A finite set counted by places is the number of its elements that are in one of them.
PlacedAt(X, place, b) == {x \in X : place[x] = b}
PlacedIn(X, place, B) == {x \in X : place[x] \in B}

\* The counts of all places add up to the number of what has one of them.
LEMMA PartsMakeWhole ==
    ASSUME NEW X, IsFiniteSet(X), NEW B, IsFiniteSet(B), NEW place, NEW f,
           \A b \in B : f[b] = Cardinality(PlacedAt(X, place, b))
    PROVE  SumFunctionOnSet(f, B) = Cardinality(PlacedIn(X, place, B))
<1> DEFINE At(b) == PlacedAt(X, place, b)
           In(s) == PlacedIn(X, place, s)
           Good(n) == \A s \in SUBSET B : Cardinality(s) = n => SumFunctionOnSet(f, s) = Cardinality(In(s))
           T == {n \in Nat : Good(n)}
<1>1. \A s \in SUBSET B : IsFiniteSet(s) /\ Cardinality(s) \in Nat /\ IsFiniteSet(In(s)) /\ Cardinality(In(s)) \in Nat
    <2> TAKE s \in SUBSET B
    <2>1. IsFiniteSet(s) /\ IsFiniteSet(In(s))
        BY FS_Subset DEF PlacedIn
    <2> QED
        BY <2>1, FS_CardinalityType
<1>2. \A b \in B : IsFiniteSet(At(b)) /\ Cardinality(At(b)) \in Nat /\ f[b] = Cardinality(At(b))
    <2> TAKE b \in B
    <2>1. IsFiniteSet(At(b))
        BY FS_Subset DEF PlacedAt
    <2> QED
        BY <2>1, FS_CardinalityType
<1>3. 0 \in T
    <2> SUFFICES ASSUME NEW s \in SUBSET B, Cardinality(s) = 0
                 PROVE  SumFunctionOnSet(f, s) = Cardinality(In(s))
        OBVIOUS
    <2>1. s = {}
        BY <1>1, FS_EmptySet
    <2>2. In(s) = {}
        BY <2>1 DEF PlacedIn
    <2>3. Cardinality(In(s)) = 0
        BY <2>2, FS_EmptySet
    <2> QED
        BY <2>1, <2>3, SumOfNone
<1>4. \A n \in T : n + 1 \in T
    <2> SUFFICES ASSUME NEW n \in T
                 PROVE  n + 1 \in T
        OBVIOUS
    <2>1. n \in Nat /\ Good(n) /\ n + 1 \in Nat
        OBVIOUS
    <2> SUFFICES ASSUME NEW s \in SUBSET B, Cardinality(s) = n + 1
                 PROVE  SumFunctionOnSet(f, s) = Cardinality(In(s))
        BY <2>1
    <2>2. s # {} /\ IsFiniteSet(s)
        <3>0. n + 1 # 0
            BY <2>1
        <3>1. Cardinality(s) # 0 /\ IsFiniteSet(s)
            BY <1>1, <3>0
        <3> QED
            BY <3>1, FS_EmptySet
    <2>3. PICK b \in s : TRUE
        BY <2>2
    <2> DEFINE r == s \ {b}
    <2>4. Cardinality(r) = n /\ r \in SUBSET B /\ b \in B
        <3>1. Cardinality(r) = Cardinality(s) - 1
            BY <2>2, <2>3, FS_RemoveElement
        <3> HIDE DEF r
        <3>2. Cardinality(r) = n
            BY <2>1, <3>1
        <3>3. r \in SUBSET B /\ b \in B
            BY <2>3 DEF r
        <3> QED
            BY <3>2, <3>3
    <2>5. SumFunctionOnSet(f, s) = f[b] + SumFunctionOnSet(f, r)
        <3>1. \A x \in s : f[x] \in Int
            <4> TAKE x \in s
            <4>1. x \in B
                OBVIOUS
            <4>2. f[x] = Cardinality(At(x)) /\ Cardinality(At(x)) \in Nat
                BY <1>2, <4>1, Zenon
            <4> QED
                BY <4>2
        <3> QED
            BY <2>2, <2>3, <3>1, SumTakes
    <2>6. In(s) = At(b) \union In(r) /\ At(b) \cap In(r) = {}
        BY <2>3 DEF PlacedAt, PlacedIn
    <2> HIDE DEF r, At, In
    <2>7. SumFunctionOnSet(f, r) = Cardinality(In(r))
        BY <2>1, <2>4
    <2>8. Cardinality(In(s)) = Cardinality(At(b)) + Cardinality(In(r))
        <3>1. IsFiniteSet(At(b)) /\ IsFiniteSet(In(r)) /\ Cardinality(At(b)) \in Nat /\ Cardinality(In(r)) \in Nat
            BY <1>1, <1>2, <2>4
        <3>2. Cardinality(At(b) \union In(r)) = Cardinality(At(b)) + Cardinality(In(r)) - Cardinality(At(b) \cap In(r))
            BY <3>1, FS_Union
        <3>3. Cardinality(At(b) \cap In(r)) = 0
            BY <2>6, FS_EmptySet
        <3> QED
            BY <2>6, <3>1, <3>2, <3>3
    <2> QED
        BY <1>2, <2>4, <2>5, <2>7, <2>8
<1>5. T \in SUBSET Nat
    OBVIOUS
<1>6. T = Nat
    <2> HIDE DEF T
    <2> QED
        BY <1>3, <1>4, <1>5, AllNaturals
<1>7. Cardinality(B) \in T /\ B \in SUBSET B
    BY <1>1, <1>6
<1> QED
    BY <1>7

=============================================================================
