------------------------------ MODULE Folding ------------------------------
(***************************************************************************)
(* What FoldLeft of the community modules comes to, for any operator: the  *)
(* last of a row of results, each made from the one before it.  A module   *)
(* that folds with an operator of its own takes this one by INSTANCE, with *)
(* that operator for Op: the theorem then says of it what the provers      *)
(* could not be told with an operator as a parameter.                      *)
(***************************************************************************)
EXTENDS Integers, SequencesExt, FiniteSums

CONSTANT Op(_, _)

\* Every set of numbers up to n that has members has a largest one; without it the
\* rest are below.
LEMMA LargestOf ==
    ASSUME NEW n \in Nat, NEW s \in SUBSET (1 .. n), s # {}
    PROVE  /\ Max(s) \in s /\ \A y \in s : y <= Max(s)
           /\ s \ {Max(s)} \in SUBSET (1 .. n - 1)
  <1> DEFINE D == {n - x : x \in s}
  <1>1. D \in SUBSET Nat /\ D # {}
    OBVIOUS
  <1>2. PICK d \in D : \A e \in D : d <= e
    BY <1>1, LeastNat
  <1>3. PICK x \in s : d = n - x
    BY <1>2
  <1>4. \A y \in s : x >= y
    <2> SUFFICES ASSUME NEW y \in s PROVE x >= y
      OBVIOUS
    <2>1. n - y \in D
      OBVIOUS
    <2>2. x \in Int /\ y \in Int /\ n \in Int
      OBVIOUS
    <2> HIDE DEF D
    <2> QED  BY <1>2, <1>3, <2>1, <2>2
  <1>5. Max(s) \in s /\ \A y \in s : Max(s) >= y
    BY <1>4 DEF Max
  <1>6. \A y \in s : y \in Int /\ 1 <= y /\ y <= n
    OBVIOUS
  <1> HIDE DEF D
  <1>7. ASSUME NEW y \in s \ {Max(s)} PROVE y \in 1 .. n - 1
    <2> DEFINE m == Max(s)
    <2>1. m \in Int /\ m >= y /\ m <= n /\ y \in Int /\ 1 <= y /\ y # m
      BY <1>5, <1>6
    <2> HIDE DEF m
    <2> QED  BY <2>1
  <1> QED  BY <1>5, <1>6, <1>7

\* What the fold over the members of seq at the places s is, if g is what it is for
\* fewer places.
Value(g, base, seq, s) == IF s = {} THEN base ELSE Op(g[s \ {Max(s)}], seq[Max(s)])

\* The function that the fold of sequences of length n is defined by.
IsFold(g, base, seq, n) == g = [s \in SUBSET (1 .. n) |-> Value(g, base, seq, s)]

LEMMA FoldExists ==
    ASSUME NEW n \in Nat, NEW base, NEW seq
    PROVE  \E g : IsFold(g, base, seq, n)
  <1> DEFINE Fits(g, k) == IsFold(g, base, seq, k)
             P == {k \in Nat : \E g : Fits(g, k)}
  <1>1. 0 \in P
    <2> DEFINE g == [s \in SUBSET (1 .. 0) |-> base]
    <2>1. \A s \in SUBSET (1 .. 0) : s = {}
      OBVIOUS
    <2>2. Fits(g, 0)
      BY <2>1 DEF Value, IsFold
    <2> HIDE DEF Fits
    <2> QED  BY <2>2
  <1>2. ASSUME NEW k \in P PROVE k + 1 \in P
    <2>1. PICK g : Fits(g, k)
      OBVIOUS
    <2> DEFINE h == [s \in SUBSET (1 .. k + 1) |-> Value(g, base, seq, s)]
    <2>2. k \in Nat /\ k + 1 \in Nat /\ (k + 1) - 1 = k
      OBVIOUS
    <2>3. SUBSET (1 .. k) \subseteq SUBSET (1 .. k + 1)
      BY <2>2
    <2>4. \A s \in SUBSET (1 .. k) : h[s] = g[s]
      <3> SUFFICES ASSUME NEW s \in SUBSET (1 .. k) PROVE h[s] = g[s]
        OBVIOUS
      <3>1. h[s] = Value(g, base, seq, s)
        BY <2>3
      <3>2. g[s] = Value(g, base, seq, s)
        BY <2>1 DEF IsFold
      <3> QED  BY <3>1, <3>2
    <2>5. ASSUME NEW s \in SUBSET (1 .. k + 1) PROVE Value(h, base, seq, s) = Value(g, base, seq, s)
      <3>1. CASE s = {}
        BY <3>1 DEF Value
      <3>2. CASE s # {}
        <4>1. s \ {Max(s)} \in SUBSET (1 .. k)
          BY <2>2, <3>2, LargestOf
        <4>2. h[s \ {Max(s)}] = g[s \ {Max(s)}]
          BY <2>4, <4>1
        <4> HIDE DEF h
        <4> QED  BY <3>2, <4>2 DEF Value
      <3> QED  BY <3>1, <3>2
    <2>6. Fits(h, k + 1)
      <3>1. [s \in SUBSET (1 .. k + 1) |-> Value(h, base, seq, s)] = h
        <4> DEFINE v == [s \in SUBSET (1 .. k + 1) |-> Value(h, base, seq, s)]
        <4>1. \A s \in SUBSET (1 .. k + 1) : Value(h, base, seq, s) = Value(g, base, seq, s)
          BY <2>5
        <4> SUFFICES v = [s \in SUBSET (1 .. k + 1) |-> Value(g, base, seq, s)]
          OBVIOUS
        <4> HIDE DEF h
        <4> QED  BY <4>1
      <3> QED  BY <3>1 DEF IsFold
    <2> HIDE DEF Fits, h
    <2> QED  BY <2>2, <2>6
  <1>3. P \in SUBSET Nat
    OBVIOUS
  <1> HIDE DEF P
  <1>4. n \in P
    BY <1>1, <1>2, <1>3, Induction
  <1> QED  BY <1>4 DEF P

\* The results on the way, from the base on: results[k] is that of the first k.
Results(results, base, seq, n) ==
    /\ results[0] = base
    /\ \A k \in 1 .. n : results[k] = Op(results[k - 1], seq[k])

LEMMA FoldHasResults ==
    ASSUME NEW n \in Nat, NEW base, NEW seq, DOMAIN seq = 1 .. n
    PROVE  \E results : /\ Results(results, base, seq, n)
                        /\ FoldLeft(Op, base, seq) = results[n]
  <1> DEFINE iter == CHOOSE g : IsFold(g, base, seq, n)
             results == [k \in 0 .. n |-> iter[1 .. k]]
  <1>1. IsFold(iter, base, seq, n)
    BY FoldExists
  <1>2. FoldLeft(Op, base, seq) = iter[1 .. n]
    BY DEF FoldLeft, MapThenFoldSet, Value, IsFold
  <1> HIDE DEF iter
  <1>3. \A k \in 0 .. n : iter[1 .. k] = Value(iter, base, seq, 1 .. k)
    <2> SUFFICES ASSUME NEW k \in 0 .. n PROVE iter[1 .. k] = Value(iter, base, seq, 1 .. k)
      OBVIOUS
    <2>1. 1 .. k \in SUBSET (1 .. n)
      OBVIOUS
    <2> QED  BY <1>1, <2>1 DEF IsFold
  <1>4. results[0] = base
    <2>1. results[0] = iter[1 .. 0] /\ 1 .. 0 = {} /\ 0 \in 0 .. n
      OBVIOUS
    <2> QED  BY <1>3, <2>1 DEF Value
  <1>5. ASSUME NEW k \in 1 .. n PROVE results[k] = Op(results[k - 1], seq[k])
    <2>1. k \in Nat /\ k \in 0 .. n /\ k - 1 \in 0 .. n
      OBVIOUS
    <2>2. k \in 1 .. k
      BY <2>1
    <2>3. Max(1 .. k) = k
      <3>1. Max(1 .. k) \in 1 .. k /\ \A y \in 1 .. k : y <= Max(1 .. k)
        BY <2>1, <2>2, LargestOf
      <3> QED  BY <2>1, <2>2, <3>1
    <2>4. (1 .. k) \ {k} = 1 .. k - 1
      BY <2>1
    <2>5. Value(iter, base, seq, 1 .. k) = Op(iter[1 .. k - 1], seq[k])
      BY <2>2, <2>3, <2>4 DEF Value
    <2>6. results[k] = iter[1 .. k] /\ results[k - 1] = iter[1 .. k - 1]
      BY <2>1
    <2> QED  BY <1>3, <2>1, <2>5, <2>6
  <1>6. results[n] = iter[1 .. n]
    OBVIOUS
  <1>7. Results(results, base, seq, n)
    <2> HIDE DEF results
    <2> QED  BY <1>4, <1>5 DEF Results
  <1> HIDE DEF results
  <1> QED  BY <1>2, <1>6, <1>7
=============================================================================
