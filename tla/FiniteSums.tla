----------------------------- MODULE FiniteSums -----------------------------
(***************************************************************************)
(* What the proofs about several modules need of the numbers: a form of    *)
(* induction the provers can apply, and the sum of a function over a       *)
(* finite set, which is what balances and fees are.                        *)
(***************************************************************************)
EXTENDS Integers, FiniteSets, Functions, FiniteSetTheorems, WellFoundedInduction, TLAPS

-----------------------------------------------------------------------------
(* Induction.                                                              *)

\* A set of naturals has a least member.
LEMMA LeastNat ==
    ASSUME NEW S \in SUBSET Nat, S # {}
    PROVE  \E n \in S : \A m \in S : n <= m
  <1>1. \E n \in S : \A m \in S : ~ (<<m, n>> \in OpToRel(<, Nat))
    BY NatLessThanWellFounded, WFMin
  <1>2. \A m, n \in S : <<m, n>> \in OpToRel(<, Nat) <=> m < n
    <2>1. \A m, n \in Nat : <<m, n>> \in Nat \X Nat /\ <<m, n>>[1] = m /\ <<m, n>>[2] = n
      OBVIOUS
    <2> QED  BY <2>1 DEF OpToRel
  <1>3. \A m, n \in S : m \in Nat /\ n \in Nat /\ (~ (m < n) => n <= m)
    OBVIOUS
  <1> QED  BY <1>1, <1>2, <1>3

\* A set with 0 and with the successor of each of its members is all of Nat.
LEMMA Induction ==
    ASSUME NEW P \in SUBSET Nat, 0 \in P, \A n \in P : n + 1 \in P
    PROVE  P = Nat
  <1> SUFFICES ASSUME Nat \ P # {} PROVE FALSE
    OBVIOUS
  <1>1. PICK n \in Nat \ P : \A m \in Nat \ P : n <= m
    <2>1. Nat \ P \in SUBSET Nat
      OBVIOUS
    <2> QED  BY <2>1, LeastNat
  <1>2. n - 1 \in Nat /\ n - 1 \in P
    BY <1>1
  <1>3. (n - 1) + 1 = n
    BY <1>1
  <1> QED  BY <1>1, <1>2, <1>3

-----------------------------------------------------------------------------
(* SumFunctionOnSet.                                                       *)

\* The member that the fold takes first, and what is left then.
First(s) == CHOOSE x \in s : TRUE
Others(s) == s \ {First(s)}

\* The function that the fold of the community modules is defined by.
Folded(f, S, g) ==
    g = [s \in SUBSET S |-> IF s = {} THEN 0 ELSE f[First(s)] + g[Others(s)]]

LEMMA OthersProperties ==
    ASSUME NEW S, IsFiniteSet(S), NEW s \in SUBSET S, s # {}
    PROVE  /\ First(s) \in s /\ First(s) \in S
           /\ Others(s) \in SUBSET S
           /\ IsFiniteSet(s) /\ Cardinality(s) \in Nat
           /\ Cardinality(Others(s)) = Cardinality(s) - 1
  <1>1. First(s) \in s
    BY DEF First
  <1>2. IsFiniteSet(s) /\ Cardinality(s) \in Nat
    BY FS_Subset, FS_CardinalityType
  <1>3. Cardinality(Others(s)) = Cardinality(s) - 1
    BY <1>1, <1>2, FS_RemoveElement DEF Others
  <1> QED  BY <1>1, <1>2, <1>3 DEF Others

\* Such a function exists: it is put together for the sets of at most n members.
LEMMA FoldedExists ==
    ASSUME NEW S, IsFiniteSet(S), NEW f
    PROVE  \E g : Folded(f, S, g)
  <1> DEFINE Upto(n) == {s \in SUBSET S : Cardinality(s) <= n}
             Sum(g, s) == IF s = {} THEN 0 ELSE f[First(s)] + g[Others(s)]
             P == {n \in Nat : \E g : \A s \in Upto(n) : g[s] = Sum(g, s)}
  <1>1. \A s \in SUBSET S : Cardinality(s) \in Nat /\ (Cardinality(s) = 0 <=> s = {})
    BY FS_Subset, FS_CardinalityType, FS_EmptySet
  <1>2. 0 \in P
    <2> DEFINE g0 == [s \in SUBSET S |-> 0]
    <2>1. \A s \in Upto(0) : s \in SUBSET S /\ s = {}
      BY <1>1
    <2>2. \A s \in Upto(0) : g0[s] = Sum(g0, s)
      BY <2>1
    <2> HIDE DEF g0
    <2> QED  BY <2>2
  <1>3. ASSUME NEW n \in P PROVE n + 1 \in P
    <2>1. PICK g : \A s \in Upto(n) : g[s] = Sum(g, s)
      BY <1>3
    <2> DEFINE h == [s \in SUBSET S |-> IF Cardinality(s) <= n THEN g[s] ELSE Sum(g, s)]
    <2>2. ASSUME NEW s \in Upto(n + 1) PROVE h[s] = Sum(h, s)
      <3>1. s \in SUBSET S /\ Cardinality(s) \in Nat /\ Cardinality(s) <= n + 1 /\ n \in Nat
        BY <1>1
      <3>2. h[s] = Sum(g, s)
        <4>1. CASE Cardinality(s) <= n
          BY <2>1, <3>1, <4>1
        <4>2. CASE ~ (Cardinality(s) <= n)
          BY <3>1, <4>2
        <4> QED  BY <4>1, <4>2
      <3>3. CASE s = {}
        BY <3>2, <3>3
      <3>4. CASE s # {}
        <4>1. Others(s) \in SUBSET S /\ Cardinality(Others(s)) <= n
          BY <3>1, <3>4, OthersProperties
        <4>2. h[Others(s)] = g[Others(s)]
          BY <4>1
        <4> HIDE DEF h
        <4> QED  BY <3>2, <3>4, <4>2
      <3> QED  BY <3>3, <3>4
    <2>3. n + 1 \in Nat
      OBVIOUS
    <2> HIDE DEF h
    <2> QED  BY <2>2, <2>3
  <1>4. Cardinality(S) \in P
    <2>1. P \in SUBSET Nat
      OBVIOUS
    <2>2. Cardinality(S) \in Nat
      BY FS_CardinalityType
    <2> HIDE DEF P
    <2> QED  BY <1>2, <1>3, <2>1, <2>2, Induction
  <1>5. PICK g : \A s \in Upto(Cardinality(S)) : g[s] = Sum(g, s)
    BY <1>4
  <1>6. \A s \in SUBSET S : s \in Upto(Cardinality(S))
    BY FS_Subset
  <1> DEFINE whole == [s \in SUBSET S |-> Sum(g, s)]
  <1>7. \A s \in SUBSET S : whole[s] = g[s]
    BY <1>5, <1>6
  <1>8. \A s \in SUBSET S : Sum(whole, s) = Sum(g, s)
    <2>1. \A s \in SUBSET S : s # {} => Others(s) \in SUBSET S
      BY DEF Others
    <2> HIDE DEF whole
    <2> QED  BY <1>7, <2>1
  <1>9. whole = [s \in SUBSET S |-> Sum(whole, s)]
    <2>1. [s \in SUBSET S |-> Sum(whole, s)] = [s \in SUBSET S |-> Sum(g, s)]
      <3> HIDE DEF whole
      <3> QED  BY <1>8
    <2> QED  BY <2>1
  <1> HIDE DEF whole
  <1> QED  BY <1>9 DEF Folded

\* The sum is the value of such a function.
LEMMA SumUnfolds ==
    ASSUME NEW S, IsFiniteSet(S), NEW f
    PROVE  \E g : /\ Folded(f, S, g)
                  /\ SumFunctionOnSet(f, S) = g[S]
  <1> DEFINE iter == CHOOSE g : Folded(f, S, g)
  <1>1. Folded(f, S, iter)
    BY FoldedExists
  <1>2. SumFunctionOnSet(f, S) = iter[S]
    BY DEF SumFunctionOnSet, FoldFunctionOnSet, MapThenFoldSet, Folded, First, Others
  <1> QED  BY <1>1, <1>2

\* Two such functions agree on the sets they share, if what they add up does.
LEMMA FoldedAgree ==
    ASSUME NEW S1, IsFiniteSet(S1), NEW S2, IsFiniteSet(S2), NEW f1, NEW f2,
           NEW g1, Folded(f1, S1, g1), NEW g2, Folded(f2, S2, g2),
           NEW s, s \subseteq S1, s \subseteq S2, \A x \in s : f1[x] = f2[x]
    PROVE  g1[s] = g2[s]
  <1> DEFINE P == {n \in Nat : \A t \in SUBSET s : Cardinality(t) = n => g1[t] = g2[t]}
  <1>1. IsFiniteSet(s)
    BY FS_Subset
  <1>2. \A t \in SUBSET s : /\ t \in SUBSET S1 /\ t \in SUBSET S2
                            /\ Cardinality(t) \in Nat /\ (Cardinality(t) = 0 <=> t = {})
    BY <1>1, FS_Subset, FS_CardinalityType, FS_EmptySet
  <1>3. 0 \in P
    <2>1. g1[{}] = 0 /\ g2[{}] = 0
      BY DEF Folded
    <2> QED  BY <1>2, <2>1
  <1>4. ASSUME NEW n \in P PROVE n + 1 \in P
    <2>1. ASSUME NEW t \in SUBSET s, Cardinality(t) = n + 1
          PROVE  g1[t] = g2[t]
      <3>1. n \in Nat /\ t # {}
        BY <1>2, <2>1
      <3>2. /\ First(t) \in s
            /\ Others(t) \in SUBSET s
            /\ Cardinality(Others(t)) = n
        BY <1>1, <2>1, <3>1, OthersProperties
      <3>3. g1[Others(t)] = g2[Others(t)]
        BY <3>2
      <3>4. g1[t] = f1[First(t)] + g1[Others(t)]
        BY <1>2, <3>1 DEF Folded
      <3>5. g2[t] = f2[First(t)] + g2[Others(t)]
        BY <1>2, <3>1 DEF Folded
      <3>6. f1[First(t)] = f2[First(t)]
        BY <3>2
      <3> QED  BY <3>3, <3>4, <3>5, <3>6
    <2> QED  BY <2>1
  <1>5. Cardinality(s) \in P
    <2>1. P \in SUBSET Nat
      OBVIOUS
    <2>2. Cardinality(s) \in Nat
      BY <1>2
    <2> HIDE DEF P
    <2> QED  BY <1>3, <1>4, <2>1, <2>2, Induction
  <1> QED  BY <1>5

\* The sum looks at nothing but the values of the members.
LEMMA SumSame ==
    ASSUME NEW S, IsFiniteSet(S), NEW f1, NEW f2, \A x \in S : f1[x] = f2[x]
    PROVE  SumFunctionOnSet(f1, S) = SumFunctionOnSet(f2, S)
  <1>1. PICK g1 : Folded(f1, S, g1) /\ SumFunctionOnSet(f1, S) = g1[S]
    BY SumUnfolds
  <1>2. PICK g2 : Folded(f2, S, g2) /\ SumFunctionOnSet(f2, S) = g2[S]
    BY SumUnfolds
  <1> QED  BY <1>1, <1>2, FoldedAgree

LEMMA SumEmpty ==
    ASSUME NEW f
    PROVE  SumFunctionOnSet(f, {}) = 0
  <1>1. IsFiniteSet({})
    BY FS_EmptySet
  <1>2. PICK g : Folded(f, {}, g) /\ SumFunctionOnSet(f, {}) = g[{}]
    BY <1>1, SumUnfolds
  <1> QED  BY <1>2 DEF Folded

LEMMA SumFirst ==
    ASSUME NEW S, IsFiniteSet(S), S # {}, NEW f
    PROVE  SumFunctionOnSet(f, S) = f[First(S)] + SumFunctionOnSet(f, Others(S))
  <1>1. Others(S) \in SUBSET S /\ IsFiniteSet(Others(S))
    BY FS_Subset DEF Others
  <1>2. PICK g : Folded(f, S, g) /\ SumFunctionOnSet(f, S) = g[S]
    BY SumUnfolds
  <1>3. PICK h : Folded(f, Others(S), h) /\ SumFunctionOnSet(f, Others(S)) = h[Others(S)]
    BY <1>1, SumUnfolds
  <1>4. g[Others(S)] = h[Others(S)]
    BY <1>1, <1>2, <1>3, FoldedAgree
  <1>5. g[S] = f[First(S)] + g[Others(S)]
    BY <1>2 DEF Folded
  <1> QED  BY <1>2, <1>3, <1>4, <1>5

\* A set of values that is closed under addition has the sum of its members too:
\* what is said below of Int and of Nat.
LEMMA SumType ==
    ASSUME NEW S, IsFiniteSet(S), NEW f, NEW V \in SUBSET Int,
           0 \in V, \A u, v \in V : u + v \in V, \A x \in S : f[x] \in V
    PROVE  SumFunctionOnSet(f, S) \in V
  <1> DEFINE P == {n \in Nat : \A t \in SUBSET S : Cardinality(t) = n => SumFunctionOnSet(f, t) \in V}
  <1>1. \A t \in SUBSET S : /\ IsFiniteSet(t) /\ Cardinality(t) \in Nat
                            /\ (Cardinality(t) = 0 <=> t = {})
    BY FS_Subset, FS_CardinalityType, FS_EmptySet
  <1>2. 0 \in P
    BY <1>1, SumEmpty
  <1>3. ASSUME NEW n \in P PROVE n + 1 \in P
    <2>1. ASSUME NEW t \in SUBSET S, Cardinality(t) = n + 1
          PROVE  SumFunctionOnSet(f, t) \in V
      <3>1. n \in Nat /\ t # {} /\ IsFiniteSet(t)
        BY <1>1, <2>1
      <3>2. /\ First(t) \in S
            /\ Others(t) \in SUBSET S
            /\ Cardinality(Others(t)) = n
        BY <2>1, <3>1, OthersProperties
      <3>3. SumFunctionOnSet(f, Others(t)) \in V
        BY <3>2
      <3>4. SumFunctionOnSet(f, t) = f[First(t)] + SumFunctionOnSet(f, Others(t))
        BY <3>1, SumFirst
      <3> QED  BY <3>2, <3>3, <3>4
    <2> QED  BY <2>1
  <1>4. Cardinality(S) \in P
    <2>1. P \in SUBSET Nat
      OBVIOUS
    <2>2. Cardinality(S) \in Nat
      BY <1>1
    <2> HIDE DEF P
    <2> QED  BY <1>2, <1>3, <2>1, <2>2, Induction
  <1> QED  BY <1>4

LEMMA SumIsInt ==
    ASSUME NEW S, IsFiniteSet(S), NEW f, \A x \in S : f[x] \in Int
    PROVE  SumFunctionOnSet(f, S) \in Int
  <1>1. Int \in SUBSET Int /\ 0 \in Int /\ \A u, v \in Int : u + v \in Int
    OBVIOUS
  <1> QED  BY <1>1, SumType

LEMMA SumIsNat ==
    ASSUME NEW S, IsFiniteSet(S), NEW f, \A x \in S : f[x] \in Nat
    PROVE  SumFunctionOnSet(f, S) \in Nat
  <1>1. Nat \in SUBSET Int /\ 0 \in Nat /\ \A u, v \in Nat : u + v \in Nat
    OBVIOUS
  <1> QED  BY <1>1, SumType

\* One member more adds its value, whichever the fold takes first.
LEMMA SumAddMember ==
    ASSUME NEW S, IsFiniteSet(S), NEW f, NEW z, z \notin S,
           \A x \in S \union {z} : f[x] \in Int
    PROVE  SumFunctionOnSet(f, S \union {z}) = f[z] + SumFunctionOnSet(f, S)
  <1> DEFINE W == S \union {z}
             Adds(t, x) == SumFunctionOnSet(f, t \union {x}) = f[x] + SumFunctionOnSet(f, t)
             P == {n \in Nat : \A t \in SUBSET W : \A x \in W \ t : Cardinality(t) = n => Adds(t, x)}
  <1>1. IsFiniteSet(W)
    BY FS_AddElement
  <1>2. \A t \in SUBSET W : /\ IsFiniteSet(t) /\ Cardinality(t) \in Nat
                            /\ (Cardinality(t) = 0 <=> t = {})
                            /\ SumFunctionOnSet(f, t) \in Int
    BY <1>1, FS_Subset, FS_CardinalityType, FS_EmptySet, SumIsInt
  <1>3. \A x \in W : f[x] \in Int
    OBVIOUS
  <1> HIDE DEF W
  <1>4. ASSUME NEW t \in SUBSET W, NEW x \in W \ t, First(t \union {x}) = x
        PROVE  Adds(t, x)
    <2>1. IsFiniteSet(t \union {x}) /\ t \union {x} # {}
      BY <1>1, FS_Subset
    <2>2. Others(t \union {x}) = t
      BY <1>4 DEF Others
    <2> QED  BY <1>4, <2>1, <2>2, SumFirst
  <1>5. 0 \in P
    <2>1. ASSUME NEW t \in SUBSET W, NEW x \in W \ t, Cardinality(t) = 0
          PROVE  Adds(t, x)
      <3>1. t = {}
        BY <1>2, <2>1
      <3>2. First(t \union {x}) = x
        BY <3>1 DEF First
      <3> QED  BY <1>4, <3>2
    <2> QED  BY <2>1
  <1>6. ASSUME NEW n \in P PROVE n + 1 \in P
    <2>1. ASSUME NEW t \in SUBSET W, NEW x \in W \ t, Cardinality(t) = n + 1
          PROVE  Adds(t, x)
      <3> DEFINE y == First(t \union {x})
                 less == t \ {y}
      <3>1. CASE y = x
        BY <1>4, <3>1
      <3>2. CASE y # x
        <4>1. y \in t \union {x}
          BY DEF First
        <4>2. y \in t
          BY <3>2, <4>1
        <4> HIDE DEF y
        <4>3. less \in SUBSET W /\ x \in W \ less /\ y \in W \ less
          BY <3>2, <4>2
        <4>4. Cardinality(less) = n
          BY <1>2, <2>1, <4>2, FS_RemoveElement
        <4>5. Adds(less, x) /\ Adds(less, y)
          BY <4>3, <4>4
        <4>6. less \union {y} = t
          BY <4>2
        <4>7. Others(t \union {x}) = less \union {x}
          BY <3>2, <4>2 DEF Others, y
        <4>8. SumFunctionOnSet(f, t \union {x}) = f[y] + SumFunctionOnSet(f, less \union {x})
          <5>1. IsFiniteSet(t \union {x}) /\ t \union {x} # {}
            BY <1>1, FS_Subset
          <5> QED  BY <4>7, <5>1, SumFirst DEF y
        <4>9. f[x] \in Int /\ f[y] \in Int /\ SumFunctionOnSet(f, less) \in Int
          BY <1>2, <1>3, <4>3
        <4>10. SumFunctionOnSet(f, t) = f[y] + SumFunctionOnSet(f, less)
          BY <4>5, <4>6
        <4>11. SumFunctionOnSet(f, less \union {x}) = f[x] + SumFunctionOnSet(f, less)
          BY <4>5
        <4> HIDE DEF less
        <4> QED  BY <4>8, <4>9, <4>10, <4>11
      <3> QED  BY <3>1, <3>2
    <2>2. n + 1 \in Nat
      OBVIOUS
    <2> QED  BY <2>1, <2>2
  <1>7. Cardinality(S) \in P
    <2>1. P \in SUBSET Nat
      OBVIOUS
    <2>2. Cardinality(S) \in Nat
      BY FS_CardinalityType
    <2> HIDE DEF P
    <2> QED  BY <1>5, <1>6, <2>1, <2>2, Induction
  <1>8. S \in SUBSET W /\ z \in W \ S
    BY DEF W
  <1> QED  BY <1>7, <1>8

\* The sum over two sets without a common member.
LEMMA SumUnion ==
    ASSUME NEW A, IsFiniteSet(A), NEW B, IsFiniteSet(B), A \intersect B = {}, NEW f,
           \A x \in A \union B : f[x] \in Int
    PROVE  SumFunctionOnSet(f, A \union B) = SumFunctionOnSet(f, A) + SumFunctionOnSet(f, B)
  <1> DEFINE Adds(t) == SumFunctionOnSet(f, A \union t) = SumFunctionOnSet(f, A) + SumFunctionOnSet(f, t)
             P == {n \in Nat : \A t \in SUBSET B : Cardinality(t) = n => Adds(t)}
  <1>1. \A t \in SUBSET B : /\ IsFiniteSet(t) /\ Cardinality(t) \in Nat
                            /\ (Cardinality(t) = 0 <=> t = {})
                            /\ SumFunctionOnSet(f, t) \in Int
                            /\ IsFiniteSet(A \union t)
    BY FS_Subset, FS_CardinalityType, FS_EmptySet, FS_Union, SumIsInt
  <1>2. SumFunctionOnSet(f, A) \in Int
    BY SumIsInt
  <1>3. 0 \in P
    <2>1. Adds({})
      <3>1. A \union {} = A
        OBVIOUS
      <3> QED  BY <1>2, <3>1, SumEmpty
    <2> QED  BY <1>1, <2>1
  <1>4. ASSUME NEW n \in P PROVE n + 1 \in P
    <2>1. ASSUME NEW t \in SUBSET B, Cardinality(t) = n + 1
          PROVE  Adds(t)
      <3>1. n \in Nat /\ t # {} /\ IsFiniteSet(t)
        <4>1. Cardinality(t) # 0
          BY <2>1
        <4> QED  BY <1>1, <4>1
      <3> DEFINE z == First(t)
                 less == Others(t)
      <3>2. /\ z \in t /\ z \in B /\ less \in SUBSET B /\ Cardinality(less) = n
        BY <2>1, <3>1, OthersProperties
      <3>3. less \union {z} = t /\ z \notin less /\ z \notin A \union less
        BY <3>2 DEF Others
      <3>4. Adds(less)
        BY <3>2
      <3> HIDE DEF z, less
      <3>5. SumFunctionOnSet(f, less \union {z}) = f[z] + SumFunctionOnSet(f, less)
        <4>1. \A x \in less \union {z} : f[x] \in Int
          BY <3>2
        <4> QED  BY <1>1, <3>2, <3>3, <4>1, SumAddMember
      <3>6. SumFunctionOnSet(f, (A \union less) \union {z}) = f[z] + SumFunctionOnSet(f, A \union less)
        <4>1. \A x \in (A \union less) \union {z} : f[x] \in Int
          BY <3>2
        <4> QED  BY <1>1, <3>2, <3>3, <4>1, SumAddMember
      <3>7. (A \union less) \union {z} = A \union t
        BY <3>3
      <3>8. f[z] \in Int /\ SumFunctionOnSet(f, less) \in Int
        BY <1>1, <3>2
      <3>9. /\ SumFunctionOnSet(f, t) = f[z] + SumFunctionOnSet(f, less)
            /\ SumFunctionOnSet(f, A \union t) = f[z] + SumFunctionOnSet(f, A \union less)
        BY <3>3, <3>5, <3>6, <3>7
      <3> QED  BY <1>2, <3>4, <3>8, <3>9
    <2>2. n + 1 \in Nat
      OBVIOUS
    <2> QED  BY <2>1, <2>2
  <1>5. Cardinality(B) \in P
    <2>1. P \in SUBSET Nat
      OBVIOUS
    <2>2. Cardinality(B) \in Nat
      BY FS_CardinalityType
    <2> HIDE DEF P
    <2> QED  BY <1>3, <1>4, <2>1, <2>2, Induction
  <1> QED  BY <1>5

\* The sum over what is left of a set.
LEMMA SumDifference ==
    ASSUME NEW A, IsFiniteSet(A), NEW B \in SUBSET A, NEW f, \A x \in A : f[x] \in Int
    PROVE  SumFunctionOnSet(f, A \ B) = SumFunctionOnSet(f, A) - SumFunctionOnSet(f, B)
  <1>1. IsFiniteSet(B) /\ IsFiniteSet(A \ B)
    BY FS_Subset
  <1>2. (A \ B) \union B = A /\ (A \ B) \intersect B = {}
    OBVIOUS
  <1>3. SumFunctionOnSet(f, (A \ B) \union B) = SumFunctionOnSet(f, A \ B) + SumFunctionOnSet(f, B)
    BY <1>1, <1>2, SumUnion
  <1>4. SumFunctionOnSet(f, A \ B) \in Int /\ SumFunctionOnSet(f, B) \in Int
    BY <1>1, SumIsInt
  <1>5. SumFunctionOnSet(f, A) = SumFunctionOnSet(f, A \ B) + SumFunctionOnSet(f, B)
    BY <1>2, <1>3
  <1> QED  BY <1>4, <1>5

LEMMA SumZero ==
    ASSUME NEW S, IsFiniteSet(S), NEW f, \A x \in S : f[x] = 0
    PROVE  SumFunctionOnSet(f, S) = 0
  <1>1. {0} \in SUBSET Int /\ 0 \in {0} /\ \A u, v \in {0} : u + v \in {0}
    OBVIOUS
  <1>2. \A x \in S : f[x] \in {0}
    OBVIOUS
  <1>3. SumFunctionOnSet(f, S) \in {0}
    BY <1>1, <1>2, SumType
  <1> QED  BY <1>3

\* A change of one value.
LEMMA SumChange ==
    ASSUME NEW S, IsFiniteSet(S), NEW f, NEW g, NEW z \in S,
           \A x \in S : f[x] \in Int /\ g[x] \in Int,
           \A x \in S \ {z} : g[x] = f[x]
    PROVE  SumFunctionOnSet(g, S) = SumFunctionOnSet(f, S) - f[z] + g[z]
  <1> DEFINE T == S \ {z}
  <1>1. IsFiniteSet(T) /\ z \notin T /\ T \union {z} = S
    BY FS_Subset
  <1>2. /\ \A x \in T \union {z} : f[x] \in Int /\ g[x] \in Int
        /\ \A x \in T : g[x] = f[x]
    BY <1>1
  <1> HIDE DEF T
  <1>3. /\ SumFunctionOnSet(f, T \union {z}) = f[z] + SumFunctionOnSet(f, T)
        /\ SumFunctionOnSet(g, T \union {z}) = g[z] + SumFunctionOnSet(g, T)
    BY <1>1, <1>2, SumAddMember
  <1>4. SumFunctionOnSet(f, T) = SumFunctionOnSet(g, T)
    BY <1>1, <1>2, SumSame
  <1>5. SumFunctionOnSet(f, T) \in Int /\ f[z] \in Int /\ g[z] \in Int
    BY <1>1, <1>2, SumIsInt
  <1> DEFINE old == SumFunctionOnSet(f, T)
             u == f[z]
             v == g[z]
             sf == SumFunctionOnSet(f, S)
             sg == SumFunctionOnSet(g, S)
  <1>6. sf = u + old /\ sg = v + old /\ old \in Int /\ u \in Int /\ v \in Int
    BY <1>1, <1>3, <1>4, <1>5
  <1> HIDE DEF old, u, v, sf, sg
  <1>7. sg = sf - u + v
    BY <1>6
  <1> QED  BY <1>7 DEF u, v, sf, sg

\* The sum over numbers that follow each other, and over all but the last.
LEMMA SumLast ==
    ASSUME NEW a \in Int, NEW b \in Int, a <= b, NEW f, \A x \in a .. b : f[x] \in Int
    PROVE  SumFunctionOnSet(f, a .. b) = SumFunctionOnSet(f, a .. b - 1) + f[b]
  <1> DEFINE S == a .. b - 1
             T == a .. b
             sum == SumFunctionOnSet(f, S)
             last == f[b]
             whole == SumFunctionOnSet(f, T)
  <1>1. IsFiniteSet(S) /\ b \notin S /\ S \union {b} = T /\ S \subseteq T /\ b \in T
    BY FS_Interval
  <1>2. whole = last + sum /\ sum \in Int /\ last \in Int
    <2>1. \A x \in T : f[x] \in Int
      OBVIOUS
    <2> HIDE DEF S, T
    <2> QED  BY <1>1, <2>1, SumAddMember, SumIsInt
  <1> HIDE DEF sum, last, whole
  <1>3. whole = sum + last
    BY <1>2
  <1> QED  BY <1>3 DEF sum, last, whole

LEMMA SumConstant ==
    ASSUME NEW n \in Nat, NEW f, NEW c \in Int, \A x \in 1 .. n : f[x] = c
    PROVE  SumFunctionOnSet(f, 1 .. n) = n * c
  <1> DEFINE P == {k \in Nat : k <= n => SumFunctionOnSet(f, 1 .. k) = k * c}
  <1>1. 0 \in P
    <2>1. 1 .. 0 = {} /\ 0 * c = 0
      OBVIOUS
    <2> QED  BY <2>1, SumEmpty
  <1>2. ASSUME NEW k \in P PROVE k + 1 \in P
    <2> SUFFICES ASSUME k + 1 <= n PROVE SumFunctionOnSet(f, 1 .. k + 1) = (k + 1) * c
      OBVIOUS
    <2>1. k \in Nat /\ SumFunctionOnSet(f, 1 .. k) = k * c
      OBVIOUS
    <2>2. \A x \in 1 .. k + 1 : f[x] = c
      BY <2>1
    <2>3. f[k + 1] = c /\ \A x \in 1 .. k + 1 : f[x] \in Int
      BY <2>1, <2>2
    <2>4. SumFunctionOnSet(f, 1 .. k + 1) = SumFunctionOnSet(f, 1 .. k) + f[k + 1]
      <3>1. (k + 1) - 1 = k /\ 1 <= k + 1
        BY <2>1
      <3> QED  BY <2>1, <2>3, <3>1, SumLast
    <2>5. (k + 1) * c = k * c + c
      BY <2>1
    <2> QED  BY <2>1, <2>3, <2>4, <2>5
  <1>3. P = Nat
    <2>1. P \in SUBSET Nat
      OBVIOUS
    <2> HIDE DEF P
    <2> QED  BY <1>1, <1>2, <2>1, Induction
  <1> QED  BY <1>3

\* The sum over two stretches, one after the other.
LEMMA SumOfTwo ==
    ASSUME NEW m \in Nat, NEW n \in Nat, NEW f, NEW a, NEW b,
           \A i \in 1 .. m : f[i] = a[i] /\ a[i] \in Int,
           \A i \in 1 .. n : f[m + i] = b[i] /\ b[i] \in Int
    PROVE  SumFunctionOnSet(f, 1 .. m + n)
             = SumFunctionOnSet(a, 1 .. m) + SumFunctionOnSet(b, 1 .. n)
  <1> DEFINE A == SumFunctionOnSet(a, 1 .. m)
             F(k) == SumFunctionOnSet(f, 1 .. m + k)
             B(k) == SumFunctionOnSet(b, 1 .. k)
             P == {k \in Nat : k <= n => B(k) \in Int /\ F(k) = A + B(k)}
  <1>1. IsFiniteSet(1 .. m)
    BY FS_Interval
  <1>2. A \in Int
    BY <1>1, SumIsInt
  <1>3. 0 \in P
    <2>1. 1 .. 0 = {} /\ m + 0 = m
      OBVIOUS
    <2>2. B(0) = 0
      BY <2>1, SumEmpty
    <2>3. F(0) = A
      BY <1>1, <2>1, SumSame
    <2> HIDE DEF A, B, F
    <2> QED  BY <1>2, <2>2, <2>3
  <1>4. ASSUME NEW k \in P PROVE k + 1 \in P
    <2> SUFFICES ASSUME k + 1 <= n PROVE B(k + 1) \in Int /\ F(k + 1) = A + B(k + 1)
      OBVIOUS
    <2>1. k \in Nat /\ B(k) \in Int /\ F(k) = A + B(k)
      OBVIOUS
    <2>2. \A i \in 1 .. k + 1 : b[i] \in Int
      BY <2>1
    <2>3. \A i \in 1 .. m + (k + 1) : f[i] \in Int
      <3> SUFFICES ASSUME NEW i \in 1 .. m + (k + 1) PROVE f[i] \in Int
        OBVIOUS
      <3>1. CASE i \in 1 .. m
        BY <3>1
      <3>2. CASE i \notin 1 .. m
        <4>1. i - m \in 1 .. n /\ m + (i - m) = i
          BY <2>1, <3>2
        <4> QED  BY <4>1
      <3> QED  BY <3>1, <3>2
    <2>4. B(k + 1) = B(k) + b[k + 1]
      <3>1. (k + 1) - 1 = k /\ 1 <= k + 1 /\ k + 1 \in Int
        BY <2>1
      <3> QED  BY <2>2, <3>1, SumLast
    <2>5. F(k + 1) = F(k) + f[m + (k + 1)]
      <3>1. (m + (k + 1)) - 1 = m + k /\ 1 <= m + (k + 1) /\ m + (k + 1) \in Int
        BY <2>1
      <3> QED  BY <2>3, <3>1, SumLast
    <2>6. f[m + (k + 1)] = b[k + 1] /\ b[k + 1] \in Int
      <3>1. k + 1 \in 1 .. n
        BY <2>1
      <3> QED  BY <3>1
    <2> HIDE DEF A, B, F
    <2> QED  BY <1>2, <2>1, <2>4, <2>5, <2>6
  <1>5. P = Nat
    <2>1. P \in SUBSET Nat
      OBVIOUS
    <2> HIDE DEF P
    <2> QED  BY <1>3, <1>4, <2>1, Induction
  <1> QED  BY <1>5

\* The quotient and the remainder of a division are the only ones.
LEMMA Division ==
    ASSUME NEW I \in Nat \ {0}, NEW e \in Nat
    PROVE  /\ e \div I \in Nat /\ e % I \in 0 .. I - 1 /\ e = (e \div I) * I + (e % I)
           /\ \A q \in Nat : \A m \in 0 .. I - 1 : e = q * I + m => e \div I = q /\ e % I = m
  <1>1. e \div I \in Int /\ e % I \in 0 .. I - 1 /\ e = I * (e \div I) + (e % I)
    OBVIOUS
  <1> DEFINE q0 == e \div I
             m0 == e % I
  <1>2. q0 \in Int /\ m0 \in 0 .. I - 1 /\ e = I * q0 + m0
    BY <1>1
  <1> HIDE DEF q0, m0
  <1>3. I * q0 = q0 * I
    BY <1>2
  <1>4. q0 \in Nat
    <2> SUFFICES ASSUME q0 <= -1 PROVE FALSE
      BY <1>2
    <2>1. q0 * I <= (-1) * I
      BY <1>2
    <2> QED  BY <1>2, <1>3, <2>1
  <1>5. ASSUME NEW q \in Nat, NEW m \in 0 .. I - 1, e = q * I + m
        PROVE  q = q0 /\ m = m0
    <2>1. q * I \in Int /\ q0 * I \in Int
      BY <1>2
    <2>2. ~ (q < q0)
      <3> SUFFICES ASSUME q + 1 <= q0 PROVE FALSE
        BY <1>2
      <3>1. (q + 1) * I <= q0 * I
        BY <1>2
      <3>2. (q + 1) * I = q * I + I
        OBVIOUS
      <3> QED  BY <1>2, <1>3, <1>5, <2>1, <3>1, <3>2
    <2>3. ~ (q0 < q)
      <3> SUFFICES ASSUME q0 + 1 <= q PROVE FALSE
        BY <1>2
      <3>1. (q0 + 1) * I <= q * I
        BY <1>2
      <3>2. (q0 + 1) * I = q0 * I + I
        BY <1>2
      <3> QED  BY <1>2, <1>3, <1>5, <2>1, <3>1, <3>2
    <2>4. q = q0
      BY <1>2, <2>2, <2>3
    <2> QED  BY <1>2, <1>3, <1>5, <2>1, <2>4
  <1> QED  BY <1>2, <1>3, <1>4, <1>5 DEF q0, m0
\* What each number is worth that has the value of its quotient; how many numbers of
\* an interval lie before s; and what the rest of each interval is worth.
ByInterval(I, g) == [h \in Nat |-> g[h \div I]]
BeforeStart(I, s) == [u \in Nat |-> IF u = s \div I THEN s % I ELSE 0]
Weighted(I, g, s) == [u \in Nat |-> (I - BeforeStart(I, s)[u]) * g[u]]

\* The numbers from s on add up interval by interval: the first without the numbers
\* before s, the last up to the remainder.
LEMMA SumByInterval ==
    ASSUME NEW I \in Nat \ {0}, NEW g \in [Nat -> Int], NEW s \in Nat, NEW end \in Nat, s <= end
    PROVE  /\ s \div I <= end \div I
           /\ SumFunctionOnSet(ByInterval(I, g), s .. end - 1)
                = SumFunctionOnSet(Weighted(I, g, s), s \div I .. (end \div I) - 1)
                  + ((end % I) - BeforeStart(I, s)[end \div I]) * g[end \div I]
  <1> DEFINE from == BeforeStart(I, s)
             each == ByInterval(I, g)
             whole == Weighted(I, g, s)
  <1>11. /\ \A u \in Nat : g[u] \in Int
         /\ \A u \in Nat : from[u] = IF u = s \div I THEN s % I ELSE 0
         /\ \A h \in Nat : each[h] = g[h \div I]
         /\ \A u \in Nat : whole[u] = (I - from[u]) * g[u]
    BY DEF BeforeStart, ByInterval, Weighted
  <1> HIDE DEF from, each, whole
  <1> DEFINE first == s \div I
             Sum(e) == SumFunctionOnSet(each, s .. e - 1)
             Wholes(q) == SumFunctionOnSet(whole, first .. q - 1)
             Right(e) == /\ first <= e \div I
                         /\ Sum(e) = Wholes(e \div I) + ((e % I) - from[e \div I]) * g[e \div I]
             P == {n \in Nat : Right(s + n)}
  <1>1. \A e \in Nat : /\ e \div I \in Nat /\ e % I \in 0 .. I - 1
                       /\ e = (e \div I) * I + (e % I)
                       /\ \A q \in Nat : \A m \in 0 .. I - 1 :
                             e = q * I + m => e \div I = q /\ e % I = m
    BY Division
  <1>2. first \in Nat /\ s % I \in 0 .. I - 1
    BY <1>1
  <1>3. \A u \in Nat : from[u] \in Int /\ from[u] = IF u = first THEN s % I ELSE 0
    BY <1>2, <1>11
  <1>4. \A u \in Nat : whole[u] \in Int /\ whole[u] = (I - from[u]) * g[u]
    BY <1>3, <1>11
  <1>5. \A h \in Nat : each[h] \in Int /\ each[h] = g[h \div I]
    BY <1>1, <1>11
  <1>6. 0 \in P
    <2>1. s + 0 = s /\ s .. s - 1 = {} /\ first .. first - 1 = {}
      BY <1>2
    <2>2. Sum(s) = 0 /\ Wholes(first) = 0
      BY <2>1, SumEmpty
    <2>3. (s % I) - from[first] = 0 /\ g[first] \in Int
      BY <1>2, <1>3
    <2>4. 0 * g[first] = 0 /\ first <= first /\ 0 + 0 = 0
      BY <1>2, <2>3
    <2>5. Right(s)
      BY <2>2, <2>3, <2>4
    <2> QED  BY <2>1, <2>5
  <1>7. ASSUME NEW n \in P PROVE n + 1 \in P
    <2> DEFINE e == s + n
               q == e \div I
               m == e % I
               w == g[q]
               b == from[q]
               sum == Sum(e)
               wholes == Wholes(q)
    <2>1. n \in Nat /\ e \in Nat /\ s <= e /\ Right(e)
      OBVIOUS
    <2>2. q \in Nat /\ m \in 0 .. I - 1 /\ e = q * I + m
      BY <1>1, <2>1
    <2>3. w \in Int /\ b \in Int
      BY <1>3, <2>2
    <2>4. first <= q /\ sum = wholes + (m - b) * w
      BY <2>1
    <2>11. \A u \in first .. q : u \in Nat
      <3> HIDE DEF first, q
      <3> QED  BY <1>2, <2>2
    <2>12. \A h \in s .. e : h \in Nat
      <3> HIDE DEF e
      <3> QED  BY <2>1
    <2>5. wholes \in Int
      <3>1. \A u \in first .. q - 1 : u \in first .. q
        <4> HIDE DEF first, q
        <4> QED  BY <1>2, <2>2
      <3>2. IsFiniteSet(first .. q - 1)
        <4> HIDE DEF first, q
        <4> QED  BY <1>2, <2>2, FS_Interval
      <3> QED  BY <1>4, <2>11, <3>1, <3>2, SumIsInt
    <2>6. Sum(e + 1) = sum + w
      <3>1. \A h \in s .. e : each[h] \in Int
        BY <1>5, <2>12
      <3>2. (e + 1) - 1 = e
        BY <2>1
      <3>3. SumFunctionOnSet(each, s .. e) = SumFunctionOnSet(each, s .. e - 1) + each[e]
        <4>1. s \in Int /\ e \in Int /\ s <= e
          BY <2>1
        <4> HIDE DEF e
        <4> QED  BY <3>1, <4>1, SumLast
      <3>4. each[e] = w
        BY <1>5, <2>1
      <3> QED  BY <3>2, <3>3, <3>4
    <2>7. s + (n + 1) = e + 1 /\ n + 1 \in Nat /\ e + 1 \in Nat
      BY <2>1
    <2>8. Wholes(q + 1) = wholes + (I - b) * w
      <3>1. \A u \in first .. q : whole[u] \in Int
        BY <1>4, <2>11
      <3>2. (q + 1) - 1 = q
        BY <2>2
      <3>3. SumFunctionOnSet(whole, first .. q) = SumFunctionOnSet(whole, first .. q - 1) + whole[q]
        <4>1. first \in Int /\ q \in Int /\ first <= q
          BY <1>2, <2>2, <2>4
        <4> HIDE DEF q, first
        <4> QED  BY <3>1, <4>1, SumLast
      <3>4. whole[q] = (I - b) * w
        BY <1>4, <2>2
      <3> QED  BY <3>2, <3>3, <3>4
    <2> HIDE DEF Sum, Wholes, P, first, w, b, sum, wholes, q, m, e
    <2>9. CASE m + 1 < I
      <3>1. m + 1 \in 0 .. I - 1 /\ e + 1 = q * I + (m + 1)
        BY <2>2, <2>9
      <3>2. (e + 1) \div I = q /\ (e + 1) % I = m + 1
        <4>1. \A a \in Nat : \A r \in 0 .. I - 1 :
                 e + 1 = a * I + r => (e + 1) \div I = a /\ (e + 1) % I = r
          BY <1>1, <2>7
        <4> QED  BY <2>2, <3>1, <4>1
      <3>3. ((m + 1) - b) * w = (m - b) * w + w
        BY <2>2, <2>3
      <3>4. Sum(e + 1) = wholes + ((m + 1) - b) * w
        BY <2>2, <2>3, <2>4, <2>5, <2>6, <3>3
      <3>5. Right(e + 1)
        BY <2>4, <3>2, <3>4 DEF w, b, wholes
      <3> QED  BY <2>7, <3>5 DEF P
    <2>10. CASE m = I - 1
      <3>1. e + 1 = (q + 1) * I + 0
        <4>1. (q + 1) * I = q * I + I
          BY <2>2
        <4> QED  BY <2>2, <2>10, <4>1
      <3>2. (e + 1) \div I = q + 1 /\ (e + 1) % I = 0
        <4>1. q + 1 \in Nat /\ 0 \in 0 .. I - 1
          BY <2>2
        <4>2. \A k \in Nat : \A j \in 0 .. I - 1 :
                 e + 1 = k * I + j => (e + 1) \div I = k /\ (e + 1) % I = j
          BY <1>1, <2>7
        <4> QED  BY <3>1, <4>1, <4>2
      <3>3. from[q + 1] = 0 /\ g[q + 1] \in Int /\ first <= q + 1
        BY <1>2, <1>3, <2>2, <2>4
      <3>4. (m - b) * w + w = (I - b) * w
        BY <2>2, <2>3, <2>10
      <3>5. Sum(e + 1) = Wholes(q + 1)
        <4> DEFINE l == (m - b) * w
                   k == (I - b) * w
                   t == Sum(e + 1)
                   u == Wholes(q + 1)
        <4>1. /\ l \in Int /\ k \in Int /\ l + w = k
              /\ sum = wholes + l /\ t = sum + w /\ u = wholes + k
          BY <2>2, <2>3, <2>4, <2>6, <2>8, <3>4
        <4> HIDE DEF l, k, t, u
        <4>2. t = u
          BY <2>3, <2>5, <4>1
        <4> QED  BY <4>2 DEF t, u
      <3>6. Wholes(q + 1) + (0 - from[q + 1]) * g[q + 1] = Wholes(q + 1)
        <4>1. Wholes(q + 1) \in Int
          BY <2>2, <2>3, <2>5, <2>8
        <4>2. (0 - 0) * g[q + 1] = 0
          BY <3>3
        <4> QED  BY <3>3, <4>1, <4>2
      <3>7. Right(e + 1)
        BY <3>2, <3>3, <3>5, <3>6
      <3> QED  BY <2>7, <3>7 DEF P
    <2> QED  BY <2>2, <2>9, <2>10
  <1>8. P = Nat
    <2>1. P \in SUBSET Nat
      OBVIOUS
    <2> HIDE DEF P
    <2> QED  BY <1>6, <1>7, <2>1, Induction
  <1>9. end - s \in P /\ s + (end - s) = end
    <2> HIDE DEF P
    <2> QED  BY <1>8
  <1>10. Right(end)
    <2> HIDE DEF Right
    <2>1. Right(s + (end - s))
      BY <1>9
    <2> QED  BY <1>9, <2>1
  <1> QED  BY <1>10 DEF from, each, whole
=============================================================================
