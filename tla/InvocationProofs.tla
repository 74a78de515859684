-------------------------- MODULE InvocationProofs --------------------------
(***************************************************************************)
(* Proofs about Invocation and the VM it runs, for every amount of gas and *)
(* limit of the machine, every program and plan, and every multi-signature *)
(* contract: what an execution has paid, signatures that verify, and a     *)
(* machine that counts its items and returns what it was asked for.  The   *)
(* stacks, the heap and the instructions on stacks and contexts come       *)
(* first, then the payments, the instructions on collections and the       *)
(* invariants that follow.                                                 *)
(***************************************************************************)
EXTENDS Invocation, FiniteSums, SequenceTheorems

-----------------------------------------------------------------------------
(* Stacks and their holes.                                                 *)

\* The places of a stack that are no holes.
Solid(s) == {i \in DOMAIN s : s[i] # Hole}

\* A stack holds as many items as it has places that are no holes, so no more than it is
\* long, and just as many when it has no holes.
LEMMA SizeBounds ==
    ASSUME NEW S, NEW s \in Seq(S)
    PROVE  /\ IsFiniteSet(Solid(s)) /\ Size(s) = Cardinality(Solid(s))
           /\ Size(s) \in Nat /\ Size(s) <= Len(s)
           /\ (\A i \in 1 .. Len(s) : s[i] # Hole) => Size(s) = Len(s)
  <1>1. DOMAIN s = 1 .. Len(s) /\ Len(s) \in Nat
    OBVIOUS
  <1>2. IsFiniteSet(1 .. Len(s)) /\ Cardinality(1 .. Len(s)) = Len(s)
    BY <1>1, FS_Interval
  <1>3. Solid(s) \in SUBSET (1 .. Len(s))
    BY <1>1 DEF Solid
  <1>4. IsFiniteSet(Solid(s)) /\ Cardinality(Solid(s)) <= Cardinality(1 .. Len(s))
    BY <1>2, <1>3, FS_Subset
  <1>5. Cardinality(Solid(s)) \in Nat
    BY <1>4, FS_CardinalityType
  <1>6. Size(s) = Cardinality(Solid(s))
    BY DEF Size, Solid
  <1>7. (\A i \in 1 .. Len(s) : s[i] # Hole) => Solid(s) = 1 .. Len(s)
    BY <1>1 DEF Solid
  <1> QED  BY <1>2, <1>4, <1>5, <1>6, <1>7

\* A stack put on another holds what both hold.
LEMMA SizeConcat ==
    ASSUME NEW S, NEW s \in Seq(S), NEW t \in Seq(S)
    PROVE  Size(s \o t) = Size(s) + Size(t)
  <1> DEFINE after == {Len(s) + j : j \in Solid(t)}
             f == [j \in Solid(t) |-> Len(s) + j]
  <1>1. Len(s) \in Nat /\ Len(t) \in Nat /\ DOMAIN s = 1 .. Len(s) /\ DOMAIN t = 1 .. Len(t)
    OBVIOUS
  <1>2. /\ s \o t \in Seq(S) /\ Len(s \o t) = Len(s) + Len(t)
        /\ \A i \in 1 .. Len(s) + Len(t) : (s \o t)[i] = IF i <= Len(s) THEN s[i] ELSE t[i - Len(s)]
    BY ConcatProperties
  <1>3. DOMAIN (s \o t) = 1 .. Len(s) + Len(t)
    BY <1>1, <1>2
  <1>4. \A i \in Solid(s \o t) : i \in Solid(s) \/ i \in after
    <2> SUFFICES ASSUME NEW i \in Solid(s \o t), i \notin Solid(s) PROVE i \in after
      OBVIOUS
    <2>1. i \in 1 .. Len(s) + Len(t) /\ (s \o t)[i] # Hole
      BY <1>3 DEF Solid
    <2>2. ~ (i <= Len(s))
      BY <1>1, <1>2, <2>1 DEF Solid
    <2>3. i - Len(s) \in Solid(t)
      BY <1>1, <1>2, <2>1, <2>2 DEF Solid
    <2>4. Len(s) + (i - Len(s)) = i
      BY <1>1, <2>1
    <2> QED  BY <2>3, <2>4
  <1>5. Solid(s) \subseteq Solid(s \o t)
    BY <1>1, <1>2, <1>3 DEF Solid
  <1>6. after \subseteq Solid(s \o t)
    <2> SUFFICES ASSUME NEW j \in Solid(t) PROVE Len(s) + j \in Solid(s \o t)
      OBVIOUS
    <2>1. j \in 1 .. Len(t) /\ t[j] # Hole
      BY <1>1 DEF Solid
    <2>2. Len(s) + j \in 1 .. Len(s) + Len(t) /\ ~ (Len(s) + j <= Len(s)) /\ (Len(s) + j) - Len(s) = j
      BY <1>1, <2>1
    <2>3. (s \o t)[Len(s) + j] = t[j]
      BY <1>2, <2>2
    <2> QED  BY <1>3, <2>1, <2>2, <2>3 DEF Solid
  <1>7. Solid(s) \cap after = {}
    BY <1>1 DEF Solid
  <1>8. f \in Bijection(Solid(t), after)
    <2>1. \A j \in Solid(t) : j \in Int
      BY <1>1 DEF Solid
    <2> QED  BY <1>1, <2>1 DEF Bijection, Injection, Surjection, IsInjective
  <1>9. /\ IsFiniteSet(Solid(s)) /\ IsFiniteSet(Solid(t))
        /\ Size(s) = Cardinality(Solid(s)) /\ Size(t) = Cardinality(Solid(t))
    BY SizeBounds
  <1>10. Size(s \o t) = Cardinality(Solid(s \o t))
    BY <1>2, SizeBounds
  <1>11. IsFiniteSet(after) /\ Cardinality(after) = Cardinality(Solid(t))
    <2>1. ExistsBijection(Solid(t), after)
      BY <1>8 DEF ExistsBijection
    <2> HIDE DEF after
    <2> QED  BY <1>9, <2>1, FS_Bijection
  <1>12. Solid(s \o t) = Solid(s) \cup after
    BY <1>4, <1>5, <1>6
  <1> HIDE DEF after
  <1>13. Cardinality(Solid(s) \cup after) = Cardinality(Solid(s)) + Cardinality(after)
    <2>1. Cardinality(Solid(s) \cup after)
              = Cardinality(Solid(s)) + Cardinality(after) - Cardinality(Solid(s) \cap after)
      BY <1>9, <1>11, FS_Union
    <2>2. Cardinality(Solid(s)) \in Nat /\ Cardinality(after) \in Nat
      BY <1>9, <1>11, FS_CardinalityType
    <2>3. Cardinality(Solid(s) \cap after) = 0
      BY <1>7, FS_EmptySet
    <2> QED  BY <2>1, <2>2, <2>3
  <1> QED  BY <1>9, <1>10, <1>11, <1>12, <1>13

\* What an item counts for.
Counts(x) == IF x = Hole THEN 0 ELSE 1

\* A stack of one item holds what the item counts for.
LEMMA SizeOne ==
    ASSUME NEW x
    PROVE  Size(<<x>>) = Counts(x)
  <1>1. <<x>> \in Seq({x}) /\ Len(<<x>>) = 1 /\ <<x>>[1] = x /\ DOMAIN <<x>> = 1 .. 1
    OBVIOUS
  <1>2. CASE x # Hole
    <2>1. \A i \in 1 .. Len(<<x>>) : <<x>>[i] # Hole
      BY <1>1, <1>2
    <2>2. Size(<<x>>) = Len(<<x>>)
      BY <1>1, <2>1, SizeBounds
    <2> QED  BY <1>1, <1>2, <2>2 DEF Counts
  <1>3. CASE x = Hole
    <2>1. Solid(<<x>>) = {}
      BY <1>1, <1>3 DEF Solid
    <2>2. Size(<<x>>) = Cardinality(Solid(<<x>>))
      BY <1>1, SizeBounds
    <2> QED  BY <1>3, <2>1, <2>2, FS_EmptySet DEF Counts
  <1> QED  BY <1>2, <1>3

\* A stack cut in two.
LEMMA SizeCut ==
    ASSUME NEW S, NEW s \in Seq(S), NEW k \in 0 .. Len(s)
    PROVE  /\ SubSeq(s, 1, k) \in Seq(S) /\ Len(SubSeq(s, 1, k)) = k
           /\ SubSeq(s, k + 1, Len(s)) \in Seq(S) /\ Len(SubSeq(s, k + 1, Len(s))) = Len(s) - k
           /\ \A i \in 1 .. k : SubSeq(s, 1, k)[i] = s[i]
           /\ \A i \in 1 .. Len(s) - k : SubSeq(s, k + 1, Len(s))[i] = s[k + i]
           /\ Size(SubSeq(s, 1, k)) + Size(SubSeq(s, k + 1, Len(s))) = Size(s)
  <1>1. Len(s) \in Nat /\ k \in Nat /\ k <= Len(s) /\ \A i \in 1 .. Len(s) : s[i] \in S
    OBVIOUS
  <1> DEFINE a == SubSeq(s, 1, k)
             b == SubSeq(s, k + 1, Len(s))
  <1>2. a \in Seq(S) /\ Len(a) = k /\ \A i \in 1 .. k : a[i] = s[i]
    BY <1>1, SubSeqProperties
  <1>3. b \in Seq(S) /\ Len(b) = Len(s) - k /\ \A i \in 1 .. Len(s) - k : b[i] = s[k + i]
    <2>1. \A i \in k + 1 .. Len(s) : s[i] \in S
      BY <1>1
    <2>2. /\ b \in Seq(S) /\ Len(b) = IF k + 1 <= Len(s) THEN Len(s) - (k + 1) + 1 ELSE 0
          /\ \A i \in 1 .. Len(s) - (k + 1) + 1 : b[i] = s[(k + 1) + i - 1]
      BY <1>1, <2>1, SubSeqProperties
    <2> HIDE DEF b
    <2> QED  BY <1>1, <2>2
  <1>4. a \o b = s
    <2>1. 1 \in 1 .. Len(s) + 1 /\ k \in 1 - 1 .. Len(s) /\ Len(s) \in k .. Len(s)
      BY <1>1
    <2>2. a \o b = SubSeq(s, 1, Len(s))
      BY <2>1, ConcatAdjacentSubSeq
    <2> QED  BY <2>2, SubSeqFull
  <1> HIDE DEF a, b
  <1>5. Size(a \o b) = Size(a) + Size(b)
    BY <1>2, <1>3, SizeConcat
  <1> QED  BY <1>2, <1>3, <1>4, <1>5 DEF a, b

\* A stack and its holes.
LEMMA Halves ==
    ASSUME NEW S, NEW s \in Seq(S)
    PROVE  /\ Real(s) \in Seq(S) /\ Holes(s) \in Seq(S)
           /\ Len(Real(s)) + Len(Holes(s)) = Len(s) /\ Len(Real(s)) <= Len(s)
           /\ Size(Real(s)) + Size(Holes(s)) = Size(s)
  <1> DEFINE k == Size(s)
  <1>1. k \in 0 .. Len(s) /\ k \in Nat /\ Len(s) \in Nat /\ k <= Len(s)
    BY SizeBounds
  <1>2. Real(s) = SubSeq(s, 1, k) /\ Holes(s) = SubSeq(s, k + 1, Len(s))
    BY DEF Real, Holes
  <1> HIDE DEF k
  <1>3. /\ SubSeq(s, 1, k) \in Seq(S) /\ Len(SubSeq(s, 1, k)) = k
        /\ SubSeq(s, k + 1, Len(s)) \in Seq(S) /\ Len(SubSeq(s, k + 1, Len(s))) = Len(s) - k
        /\ Size(SubSeq(s, 1, k)) + Size(SubSeq(s, k + 1, Len(s))) = Size(s)
    BY <1>1, SizeCut
  <1>4. Len(Real(s)) = k /\ Len(Holes(s)) = Len(s) - k
    BY <1>2, <1>3
  <1>5. k + (Len(s) - k) = Len(s)
    BY <1>1
  <1> QED  BY <1>1, <1>2, <1>3, <1>4, <1>5

\* The shape of a stack put on another.
LEMMA Joined ==
    ASSUME NEW S, NEW s \in Seq(S), NEW t \in Seq(S)
    PROVE  /\ s \o t \in Seq(S)
           /\ Len(s \o t) = Len(s) + Len(t) /\ Len(s \o t) \in Nat /\ Len(s) \in Nat /\ Len(t) \in Nat
           /\ Size(s \o t) = Size(s) + Size(t) /\ Size(s) \in Nat /\ Size(t) \in Nat
           /\ \A i \in 1 .. Len(s) : (s \o t)[i] = s[i]
  <1>1. Len(s) \in Nat /\ Len(t) \in Nat /\ Size(s) \in Nat /\ Size(t) \in Nat
    BY SizeBounds
  <1> QED  BY <1>1, ConcatProperties, SizeConcat

\* Pushing keeps the holes at the far end: it adds what is pushed and moves no item.
LEMMA PushProperties ==
    ASSUME NEW S, NEW s \in Seq(S), NEW t \in Seq(S)
    PROVE  /\ Push(s, t) \in Seq(S)
           /\ Len(Push(s, t)) = Len(s) + Len(t)
           /\ Size(Push(s, t)) = Size(s) + Size(t)
           /\ \A i \in 1 .. Len(Real(s)) : Push(s, t)[i] = Real(s)[i]
  <1> DEFINE a == Real(s)
             b == Holes(s)
             c == Real(t)
             d == Holes(t)
             e == a \o c
             g == e \o b
  <1>1. /\ a \in Seq(S) /\ b \in Seq(S)
        /\ Len(a) + Len(b) = Len(s) /\ Size(a) + Size(b) = Size(s)
    BY Halves
  <1>2. /\ c \in Seq(S) /\ d \in Seq(S)
        /\ Len(c) + Len(d) = Len(t) /\ Size(c) + Size(d) = Size(t)
    BY Halves
  <1>3. Push(s, t) = g \o d
    BY DEF Push
  <1> HIDE DEF a, b, c, d
  <1>4. /\ e \in Seq(S) /\ Len(e) = Len(a) + Len(c) /\ Len(a) \in Nat /\ Len(c) \in Nat
        /\ Size(e) = Size(a) + Size(c) /\ Size(a) \in Nat /\ Size(c) \in Nat
        /\ \A i \in 1 .. Len(a) : e[i] = a[i]
    BY <1>1, <1>2, Joined
  <1> HIDE DEF e
  <1>5. /\ g \in Seq(S) /\ Len(g) = Len(e) + Len(b) /\ Len(b) \in Nat
        /\ Size(g) = Size(e) + Size(b) /\ Size(b) \in Nat
        /\ \A i \in 1 .. Len(e) : g[i] = e[i]
    BY <1>1, <1>4, Joined
  <1> HIDE DEF g
  <1>6. /\ g \o d \in Seq(S) /\ Len(g \o d) = Len(g) + Len(d) /\ Len(d) \in Nat
        /\ Size(g \o d) = Size(g) + Size(d) /\ Size(d) \in Nat
        /\ \A i \in 1 .. Len(g) : (g \o d)[i] = g[i]
    BY <1>2, <1>5, Joined
  <1>7. Len(g \o d) = Len(s) + Len(t)
    <2>1. \A k, l, m, n \in Nat : ((k + m) + l) + n = (k + l) + (m + n)
      OBVIOUS
    <2>2. ((Len(a) + Len(c)) + Len(b)) + Len(d) = (Len(a) + Len(b)) + (Len(c) + Len(d))
      BY <1>4, <1>5, <1>6, <2>1
    <2> QED  BY <1>1, <1>2, <1>4, <1>5, <1>6, <2>2
  <1>8. Size(g \o d) = Size(s) + Size(t)
    <2> DEFINE i == Size(a)
               j == Size(b)
               k == Size(c)
               l == Size(d)
    <2>1. /\ i \in Nat /\ j \in Nat /\ k \in Nat /\ l \in Nat
          /\ Size(s) = i + j /\ Size(t) = k + l
      BY <1>1, <1>2, <1>4, <1>5, <1>6
    <2>2. Size(g \o d) = ((i + k) + j) + l
      BY <1>4, <1>5, <1>6
    <2> HIDE DEF i, j, k, l
    <2> QED  BY <2>1, <2>2
  <1>9. \A i \in 1 .. Len(a) : i \in 1 .. Len(e) /\ i \in 1 .. Len(g)
    BY <1>4, <1>5
  <1>10. \A i \in 1 .. Len(a) : (g \o d)[i] = a[i]
    BY <1>4, <1>5, <1>6, <1>9
  <1> QED  BY <1>3, <1>6, <1>7, <1>8, <1>10 DEF a

\* An item counts for one, a hole for nothing.
LEMMA CountsType ==
    ASSUME NEW x
    PROVE  Counts(x) \in Int /\ 0 <= Counts(x) /\ Counts(x) <= 1 /\ (x # Hole => Counts(x) = 1)
  BY DEF Counts

\* What is left of a stack, and what is on top.
LEMMA LessUpper ==
    ASSUME NEW S, NEW s \in Seq(S), NEW n \in 0 .. Len(s)
    PROVE  /\ Less(s, n) \in Seq(S) /\ Len(Less(s, n)) = Len(s) - n
           /\ Upper(s, n) \in Seq(S) /\ Len(Upper(s, n)) = n
           /\ \A i \in 1 .. Len(s) - n : Less(s, n)[i] = s[i]
           /\ Size(Less(s, n)) \in Nat /\ Size(Upper(s, n)) \in Nat
           /\ Size(Less(s, n)) + Size(Upper(s, n)) = Size(s)
           /\ Size(Upper(s, n)) <= n
           /\ (\A i \in 0 .. n - 1 : Peek(s, i) # Hole) => Size(Less(s, n)) = Size(s) - n
  <1> DEFINE k == Len(s) - n
             a == SubSeq(s, 1, k)
             b == SubSeq(s, k + 1, Len(s))
  <1>1. k \in 0 .. Len(s) /\ Len(s) \in Nat /\ n \in Nat /\ Len(s) - k = n
    OBVIOUS
  <1>2. Less(s, n) = a /\ Upper(s, n) = b
    BY DEF Less, Upper
  <1> HIDE DEF k
  <1>3. /\ a \in Seq(S) /\ Len(a) = k
        /\ b \in Seq(S) /\ Len(b) = Len(s) - k
        /\ \A i \in 1 .. k : a[i] = s[i]
        /\ \A i \in 1 .. Len(s) - k : b[i] = s[k + i]
        /\ Size(a) + Size(b) = Size(s)
    BY <1>1, SizeCut
  <1>4. Size(a) \in Nat /\ Size(b) \in Nat /\ Size(b) <= n /\ Size(s) \in Nat
        /\ ((\A i \in 1 .. Len(b) : b[i] # Hole) => Size(b) = Len(b))
    BY <1>1, <1>3, SizeBounds
  <1>5. ASSUME \A i \in 0 .. n - 1 : Peek(s, i) # Hole PROVE Size(a) = Size(s) - n
    <2>1. ASSUME NEW i \in 1 .. n PROVE b[i] # Hole
      <3>1. n - i \in 0 .. n - 1 /\ Len(s) - (n - i) = k + i
        BY <1>1 DEF k
      <3> HIDE DEF b
      <3>2. Peek(s, n - i) # Hole /\ b[i] = s[k + i]
        BY <1>1, <1>3, <1>5, <3>1
      <3> QED  BY <3>1, <3>2 DEF Peek
    <2> HIDE DEF a, b
    <2>2. Size(b) = n
      BY <1>1, <1>3, <1>4, <2>1
    <2> QED  BY <1>1, <1>3, <1>4, <2>2
  <1> HIDE DEF a, b
  <1> QED  BY <1>1, <1>2, <1>3, <1>4, <1>5

\* A place taken out of a stack takes what it held with it.
LEMMA RemoveProperties ==
    ASSUME NEW S, NEW s \in Seq(S), NEW k \in 1 .. Len(s)
    PROVE  /\ RemoveAt(s, k) \in Seq(S) /\ Len(RemoveAt(s, k)) = Len(s) - 1
           /\ Size(RemoveAt(s, k)) = Size(s) - Counts(s[k])
  <1> DEFINE a == SubSeq(s, 1, k - 1)
             b == SubSeq(s, k, Len(s))
             c == SubSeq(s, k + 1, Len(s))
  <1>1. k - 1 \in 0 .. Len(s) /\ k \in 0 .. Len(s) /\ (k - 1) + 1 = k /\ Len(s) \in Nat
        /\ Len(s) \in k .. Len(s) /\ k \in Nat
    OBVIOUS
  <1>2. a \in Seq(S) /\ Len(a) = k - 1 /\ b \in Seq(S) /\ Size(a) + Size(b) = Size(s)
    <2> DEFINE j == k - 1
    <2>1. j \in 0 .. Len(s) /\ j + 1 = k
      BY <1>1
    <2> HIDE DEF j
    <2>2. /\ SubSeq(s, 1, j) \in Seq(S) /\ Len(SubSeq(s, 1, j)) = j
          /\ SubSeq(s, j + 1, Len(s)) \in Seq(S)
          /\ Size(SubSeq(s, 1, j)) + Size(SubSeq(s, j + 1, Len(s))) = Size(s)
      BY <2>1, SizeCut
    <2> QED  BY <2>1, <2>2 DEF j
  <1>3. c \in Seq(S) /\ Len(c) = Len(s) - k
    BY <1>1, SizeCut
  <1>4. b = <<s[k]>> \o c
    BY <1>1, SubSeqRecursiveFirst
  <1>5. RemoveAt(s, k) = a \o c
    BY DEF RemoveAt
  <1> HIDE DEF a, b, c
  <1>6. s[k] \in S /\ <<s[k]>> \in Seq(S)
    OBVIOUS
  <1>7. Size(b) = Counts(s[k]) + Size(c)
    <2>1. Size(<<s[k]>> \o c) = Size(<<s[k]>>) + Size(c)
      BY <1>3, <1>6, SizeConcat
    <2> QED  BY <1>4, <2>1, SizeOne
  <1>8. /\ a \o c \in Seq(S) /\ Len(a \o c) = Len(a) + Len(c) /\ Size(a \o c) = Size(a) + Size(c)
        /\ Size(a) \in Nat /\ Size(c) \in Nat
    BY <1>2, <1>3, Joined
  <1>9. Counts(s[k]) \in Int
    BY CountsType
  <1>10. Len(a \o c) = Len(s) - 1
    BY <1>1, <1>2, <1>3, <1>8
  <1>11. Size(a \o c) = Size(s) - Counts(s[k])
    BY <1>2, <1>7, <1>8, <1>9
  <1> QED  BY <1>5, <1>8, <1>10, <1>11

\* An item put between others adds what it counts for.
LEMMA InsertProperties ==
    ASSUME NEW S, NEW s \in Seq(S), NEW k \in 1 .. Len(s) + 1, NEW x \in S
    PROVE  /\ InsertAt(s, k, x) \in Seq(S)
           /\ Size(InsertAt(s, k, x)) = Size(s) + Counts(x)
  <1> DEFINE j == k - 1
             a == SubSeq(s, 1, j)
             b == SubSeq(s, j + 1, Len(s))
  <1>1. j \in 0 .. Len(s) /\ j + 1 = k
    OBVIOUS
  <1>2. InsertAt(s, k, x) = (a \o <<x>>) \o b
    BY <1>1 DEF InsertAt
  <1> HIDE DEF j
  <1>3. /\ a \in Seq(S) /\ b \in Seq(S) /\ Size(a) + Size(b) = Size(s)
    BY <1>1, SizeCut
  <1> DEFINE c == <<x>>
             d == a \o c
  <1>4. c \in Seq(S) /\ Size(c) = Counts(x)
    BY SizeOne
  <1> HIDE DEF a, b, c
  <1>5. d \in Seq(S) /\ Size(d) = Size(a) + Size(c) /\ Size(a) \in Nat /\ Size(c) \in Nat
    BY <1>3, <1>4, Joined
  <1> HIDE DEF d
  <1>6. d \o b \in Seq(S) /\ Size(d \o b) = Size(d) + Size(b) /\ Size(b) \in Nat
    BY <1>3, <1>5, Joined
  <1>7. Size(d \o b) = Size(s) + Counts(x)
    BY <1>3, <1>4, <1>5, <1>6
  <1> QED  BY <1>2, <1>6, <1>7 DEF c, d

\* A place of a stack that holds something else now.
LEMMA ExceptProperties ==
    ASSUME NEW S, NEW s \in Seq(S), NEW k \in 1 .. Len(s), NEW x \in S
    PROVE  /\ [s EXCEPT ![k] = x] \in Seq(S) /\ Len([s EXCEPT ![k] = x]) = Len(s)
           /\ Size([s EXCEPT ![k] = x]) = Size(s) - Counts(s[k]) + Counts(x)
           /\ \A j \in 1 .. Len(s) : [s EXCEPT ![k] = x][j] = IF j = k THEN x ELSE s[j]
  <1> DEFINE t == [s EXCEPT ![k] = x]
  <1>1. /\ t \in Seq(S) /\ Len(t) = Len(s)
        /\ \A j \in 1 .. Len(s) : t[j] = IF j = k THEN x ELSE s[j]
    BY ExceptSeq
  <1> HIDE DEF t
  <1>2. DOMAIN s = 1 .. Len(s) /\ DOMAIN t = 1 .. Len(s)
    BY <1>1
  <1>3. Solid(s) \ {k} = Solid(t) \ {k}
    BY <1>1, <1>2 DEF Solid
  <1>4. (k \in Solid(s) <=> s[k] # Hole) /\ (k \in Solid(t) <=> x # Hole)
    BY <1>1, <1>2 DEF Solid
  <1>5. /\ IsFiniteSet(Solid(s)) /\ Size(s) = Cardinality(Solid(s)) /\ Size(s) \in Nat
        /\ IsFiniteSet(Solid(t)) /\ Size(t) = Cardinality(Solid(t)) /\ Size(t) \in Nat
    BY <1>1, SizeBounds
  <1>6. /\ Cardinality(Solid(s) \ {k})
             = IF k \in Solid(s) THEN Cardinality(Solid(s)) - 1 ELSE Cardinality(Solid(s))
        /\ Cardinality(Solid(t) \ {k})
             = IF k \in Solid(t) THEN Cardinality(Solid(t)) - 1 ELSE Cardinality(Solid(t))
    BY <1>5, FS_RemoveElement
  <1>7. Counts(s[k]) = (IF k \in Solid(s) THEN 1 ELSE 0) /\ Counts(x) = (IF k \in Solid(t) THEN 1 ELSE 0)
    BY <1>4 DEF Counts
  <1> HIDE DEF Solid
  <1>8. Size(t) = Size(s) - Counts(s[k]) + Counts(x)
    <2> DEFINE p == Counts(s[k])
               q == Counts(x)
    <2>1. p \in {0, 1} /\ q \in {0, 1} /\ Cardinality(Solid(s) \ {k}) = Size(s) - p
          /\ Cardinality(Solid(t) \ {k}) = Size(t) - q
      BY <1>5, <1>6, <1>7
    <2> HIDE DEF p, q
    <2>2. Size(s) - p = Size(t) - q
      BY <1>3, <2>1
    <2>3. Size(t) = Size(s) - p + q
      BY <1>5, <2>1, <2>2
    <2> QED  BY <2>3 DEF p, q
  <1> QED  BY <1>1, <1>8 DEF t

\* An item added at the end of a list.
LEMMA AppendSize ==
    ASSUME NEW S, NEW s \in Seq(S), NEW x \in S
    PROVE  /\ Append(s, x) \in Seq(S) /\ Len(Append(s, x)) = Len(s) + 1
           /\ Size(Append(s, x)) = Size(s) + Counts(x)
  <1>1. <<x>> \in Seq(S) /\ Append(s, x) = s \o <<x>>
    BY AppendIsConcat
  <1>2. Size(s \o <<x>>) = Size(s) + Size(<<x>>)
    BY <1>1, SizeConcat
  <1> QED  BY <1>1, <1>2, SizeOne, AppendProperties

\* An item pushed on a stack.
LEMMA PushOne ==
    ASSUME NEW S, NEW s \in Seq(S), NEW x \in S
    PROVE  /\ Push(s, <<x>>) \in Seq(S) /\ Len(Push(s, <<x>>)) = Len(s) + 1
           /\ Size(Push(s, <<x>>)) = Size(s) + Counts(x)
  <1>1. <<x>> \in Seq(S) /\ Len(<<x>>) = 1
    OBVIOUS
  <1>2. Push(s, <<x>>) \in Seq(S) /\ Len(Push(s, <<x>>)) = Len(s) + Len(<<x>>)
        /\ Size(Push(s, <<x>>)) = Size(s) + Size(<<x>>)
    BY <1>1, PushProperties
  <1> QED  BY <1>1, <1>2, SizeOne

\* A list turned round is as long, and turned round again is what it was.
LEMMA ReverseTwice ==
    ASSUME NEW T, NEW s \in Seq(T)
    PROVE  /\ Reverse(s) \in Seq(T) /\ Len(Reverse(s)) = Len(s)
           /\ Reverse(Reverse(s)) = s
  <1>1. Reverse(s) \in [1..Len(s) -> T] /\ Len(s) \in Nat
    BY DEF Reverse
  <1>2. Reverse(s) \in Seq(T) /\ Len(Reverse(s)) = Len(s)
    BY <1>1
  <1>3. \A i \in 1..Len(s) : Reverse(Reverse(s))[i] = s[i]
    <2> SUFFICES ASSUME NEW i \in 1..Len(s) PROVE Reverse(Reverse(s))[i] = s[i]
      OBVIOUS
    <2>1. Len(s) - i + 1 \in 1..Len(s) /\ Len(s) - (Len(s) - i + 1) + 1 = i
      BY <1>1
    <2>2. Reverse(Reverse(s))[i] = Reverse(s)[Len(s) - i + 1]
      BY <1>2 DEF Reverse
    <2>3. Reverse(s)[Len(s) - i + 1] = s[i]
      BY <2>1 DEF Reverse
    <2> QED  BY <2>2, <2>3
  <1>4. Reverse(Reverse(s)) \in Seq(T) /\ Len(Reverse(Reverse(s))) = Len(s)
    <2>1. Reverse(Reverse(s)) \in [1..Len(s) -> T]
      BY <1>1, <1>2 DEF Reverse
    <2> QED  BY <1>1, <2>1
  <1> QED  BY <1>2, <1>3, <1>4

\* The holes of CopyTo count for nothing.
LEMMA ShortCopyProperties ==
    ASSUME NEW S, NEW s \in Seq(S), NEW n \in Nat, n > Len(s), Hole \in S
    PROVE  ShortCopy(s, n) \in Seq(S) /\ Size(ShortCopy(s, n)) <= Size(s)
  <1> DEFINE copied == IF s = << >> THEN << >> ELSE <<s[Len(s)]>>
             m == n - Len(copied)
             holes == [i \in 1 .. m |-> Hole]
  <1>1. ShortCopy(s, n) = Push(copied, holes)
    BY DEF ShortCopy
  <1>2. copied \in Seq(S) /\ Len(copied) <= Len(s) /\ Len(s) \in Nat /\ Len(copied) \in Nat
    <2>1. s # << >> => Len(s) \in 1 .. Len(s) /\ s[Len(s)] \in S
      OBVIOUS
    <2> QED  BY <2>1
  <1>3. Size(copied) <= Size(s) /\ Size(copied) \in Nat
    <2>1. CASE s = << >>
      <3>1. copied = s
        BY <2>1
      <3> QED  BY <3>1, SizeBounds
    <2>2. CASE s # << >>
      <3>1. 1 \in 0 .. Len(s) /\ Len(s) \in 1 .. Len(s) /\ Len(s) \in Nat
        BY <2>2
      <3>2. RemoveAt(s, Len(s)) \in Seq(S)
            /\ Size(RemoveAt(s, Len(s))) = Size(s) - Counts(s[Len(s)])
        BY <3>1, RemoveProperties
      <3>3. Size(RemoveAt(s, Len(s))) \in Nat /\ Size(s) \in Nat
        BY <3>2, SizeBounds
      <3>4. Size(copied) = Counts(s[Len(s)])
        BY <2>2, SizeOne
      <3> QED  BY <3>2, <3>3, <3>4, CountsType
    <2> QED  BY <2>1, <2>2
  <1> HIDE DEF copied
  <1>4. m \in Nat
    BY <1>2
  <1> HIDE DEF m
  <1>5. holes \in Seq(S) /\ Len(holes) = m /\ \A i \in 1 .. m : holes[i] = Hole
    <2>1. holes \in [1 .. m -> S]
      OBVIOUS
    <2> QED  BY <1>4, <2>1
  <1> HIDE DEF holes
  <1>6. Size(holes) = 0
    <2>1. DOMAIN holes = 1 .. m
      BY <1>4, <1>5
    <2>2. Solid(holes) = {}
      BY <1>5, <2>1 DEF Solid
    <2> QED  BY <1>5, <2>2, SizeBounds, FS_EmptySet
  <1>7. Push(copied, holes) \in Seq(S) /\ Size(Push(copied, holes)) = Size(copied) + Size(holes)
    BY <1>2, <1>5, PushProperties
  <1>8. Size(copied) + 0 = Size(copied)
    BY <1>3
  <1> QED  BY <1>1, <1>3, <1>6, <1>7, <1>8

-----------------------------------------------------------------------------
(* The invocation stack and the heap.                                      *)

\* What the heap holds: objects over lists, whose items are integers, references to
\* objects and holes. n is the number of objects that there are to refer to.
Kinds == {"array", "struct", "map"}
Item(n) == ({"int"} \X Int) \cup ({"obj"} \X (1 .. n)) \cup {Hole}
Object == [kind : Kinds, list : Nat, keys : Nat]

\* A map has a list of keys as long as that of its values, and no other object has
\* anything to do with either: a list that arrays share is never one of a map.
MapKept(h, o) ==
    LET map == h.objs[o]
    IN /\ map.keys \in DOMAIN h.lists /\ map.keys # map.list
       /\ Len(h.lists[map.keys]) = Len(h.lists[map.list])
       /\ \A p \in DOMAIN h.objs : p # o =>
              /\ h.objs[p].list # map.list /\ h.objs[p].list # map.keys
              /\ h.objs[p].keys # map.list /\ h.objs[p].keys # map.keys

\* A heap without dangling references, whose maps keep their lists to themselves.
HeapTyped(h) ==
    /\ h = [objs |-> h.objs, lists |-> h.lists]
    /\ h.objs \in Seq(Object)
    /\ h.lists \in Seq(Seq(Item(Len(h.objs))))
    /\ \A o \in DOMAIN h.objs : /\ h.objs[o].list \in DOMAIN h.lists
                                /\ h.objs[o].keys \in 0 .. Len(h.lists)
                                /\ h.objs[o].kind = "map" => MapKept(h, o)

\* A context of the invocation stack, and what CALL_E* has left its caller with.
Frame(n) ==
    [script : Script, ip : Int, rv : Nat \cup {-1}, eval : Seq(Item(n)), alt : Seq(Item(n)),
     owed : [rv : Nat \cup {-1}, kept : Seq(Item(n))]]

\* A context entered by CALL_E* is to return as many items as it owes, to a caller
\* whose stack is as the call left it.
Owing(fs) ==
    \A i \in DOMAIN fs : fs[i].owed.rv >= 0 =>
        /\ i > 1 /\ fs[i].rv = fs[i].owed.rv
        /\ fs[i - 1].eval = fs[i].owed.kept

\* What a context, the invocation stack and the heap carry. Counted as the engine counts
\* them: the holes of an evaluation stack count for nothing.
Weight(f) == Size(f.eval) + Len(f.alt)
OnFrames(fs) == SumFunctionOnSet([k \in DOMAIN fs |-> Weight(fs[k])], DOMAIN fs)
InLists(h) == SumFunctionOnSet([l \in DOMAIN h.lists |-> Len(h.lists[l])], DOMAIN h.lists)

\* A sum after one of its terms changed.
LEMMA SumChanged ==
    ASSUME NEW n \in Nat, NEW i \in 1 .. n, NEW f, NEW g,
           \A j \in 1 .. n : f[j] \in Int /\ g[j] \in Int,
           \A j \in 1 .. n : j # i => g[j] = f[j]
    PROVE  /\ SumFunctionOnSet(f, 1 .. n) \in Int /\ SumFunctionOnSet(g, 1 .. n) \in Int
           /\ SumFunctionOnSet(g, 1 .. n) = SumFunctionOnSet(f, 1 .. n) - f[i] + g[i]
  <1> DEFINE rest == (1 .. n) \ {i}
  <1>1. IsFiniteSet(1 .. n) /\ IsFiniteSet(rest)
    <2>1. IsFiniteSet(1 .. n)
      BY FS_Interval
    <2> QED  BY <2>1, FS_RemoveElement
  <1>2. i \notin rest /\ rest \union {i} = 1 .. n /\ rest \subseteq 1 .. n
    OBVIOUS
  <1>3. \A j \in rest : f[j] = g[j]
    OBVIOUS
  <1> HIDE DEF rest
  <1>4. SumFunctionOnSet(f, rest \union {i}) = f[i] + SumFunctionOnSet(f, rest)
    BY <1>1, <1>2, SumAddMember
  <1>5. SumFunctionOnSet(g, rest \union {i}) = g[i] + SumFunctionOnSet(g, rest)
    BY <1>1, <1>2, SumAddMember
  <1>6. SumFunctionOnSet(f, rest) = SumFunctionOnSet(g, rest)
    BY <1>1, <1>3, SumSame
  <1>7. SumFunctionOnSet(f, rest) \in Int
    <2>1. \A j \in rest : f[j] \in Int
      BY <1>2
    <2> QED  BY <1>1, <2>1, SumIsInt
  <1>8. f[i] \in Int /\ g[i] \in Int
    OBVIOUS
  <1>9. SumFunctionOnSet(f, 1 .. n) = f[i] + SumFunctionOnSet(f, rest)
        /\ SumFunctionOnSet(g, 1 .. n) = g[i] + SumFunctionOnSet(g, rest)
    BY <1>2, <1>4, <1>5, Zenon
  <1> DEFINE a == SumFunctionOnSet(f, rest)
             b == SumFunctionOnSet(f, 1 .. n)
             c == SumFunctionOnSet(g, 1 .. n)
  <1>10. a \in Int /\ b = f[i] + a /\ c = g[i] + a
    BY <1>6, <1>7, <1>9
  <1> HIDE DEF a, b, c
  <1>11. b \in Int /\ c \in Int /\ c = b - f[i] + g[i]
    BY <1>8, <1>10
  <1> QED  BY <1>11 DEF b, c

\* A sum after a term was added.
LEMMA SumExtended ==
    ASSUME NEW n \in Nat, NEW f, NEW g, g[n + 1] \in Int,
           \A j \in 1 .. n : f[j] \in Int /\ g[j] = f[j]
    PROVE  /\ SumFunctionOnSet(f, 1 .. n) \in Int /\ SumFunctionOnSet(g, 1 .. n + 1) \in Int
           /\ SumFunctionOnSet(g, 1 .. n + 1) = SumFunctionOnSet(f, 1 .. n) + g[n + 1]
  <1>1. IsFiniteSet(1 .. n)
    BY FS_Interval
  <1>2. n + 1 \notin 1 .. n /\ (1 .. n) \union {n + 1} = 1 .. n + 1
    OBVIOUS
  <1>3. SumFunctionOnSet(f, 1 .. n) = SumFunctionOnSet(g, 1 .. n)
    BY <1>1, SumSame
  <1>4. SumFunctionOnSet(f, 1 .. n) \in Int
    BY <1>1, SumIsInt
  <1>5. \A j \in (1 .. n) \union {n + 1} : g[j] \in Int
    OBVIOUS
  <1>6. SumFunctionOnSet(g, (1 .. n) \union {n + 1}) = g[n + 1] + SumFunctionOnSet(g, 1 .. n)
    BY <1>1, <1>2, <1>5, SumAddMember
  <1>7. SumFunctionOnSet(g, 1 .. n + 1) = g[n + 1] + SumFunctionOnSet(f, 1 .. n)
    BY <1>2, <1>3, <1>6, Zenon
  <1> DEFINE a == SumFunctionOnSet(f, 1 .. n)
             b == SumFunctionOnSet(g, 1 .. n + 1)
             x == g[n + 1]
  <1>8. a \in Int /\ x \in Int /\ b = x + a
    BY <1>4, <1>7
  <1> HIDE DEF a, b, x
  <1>9. b \in Int /\ b = a + x
    BY <1>8
  <1> QED  BY <1>4, <1>9 DEF a, b, x

\* A context carries a natural number of items.
LEMMA FrameWeight ==
    ASSUME NEW n \in Nat, NEW f \in Frame(n)
    PROVE  Weight(f) \in Nat
  <1>1. f.eval \in Seq(Item(n)) /\ f.alt \in Seq(Item(n))
    BY DEF Frame
  <1>2. Size(f.eval) \in Nat /\ Len(f.alt) \in Nat
    BY <1>1, SizeBounds
  <1> QED  BY <1>2 DEF Weight

\* So does the invocation stack.
LEMMA FramesWeight ==
    ASSUME NEW n \in Nat, NEW fs \in Seq(Frame(n))
    PROVE  OnFrames(fs) \in Nat
  <1> DEFINE w == [k \in DOMAIN fs |-> Weight(fs[k])]
  <1>1. DOMAIN fs = 1 .. Len(fs) /\ Len(fs) \in Nat /\ \A k \in 1 .. Len(fs) : fs[k] \in Frame(n)
    OBVIOUS
  <1>2. \A k \in 1 .. Len(fs) : w[k] \in Nat
    BY <1>1, FrameWeight
  <1>3. OnFrames(fs) = SumFunctionOnSet(w, 1 .. Len(fs))
    BY <1>1 DEF OnFrames
  <1> HIDE DEF w
  <1>4. IsFiniteSet(1 .. Len(fs))
    BY <1>1, FS_Interval
  <1> QED  BY <1>2, <1>3, <1>4, SumIsNat

\* The running context was replaced.
LEMMA TopChanged ==
    ASSUME NEW n \in Nat, NEW fs \in Seq(Frame(n)), fs # << >>, NEW c \in Frame(n), Owing(fs),
           c.owed.rv = -1 \/ (c.owed = fs[Len(fs)].owed /\ c.rv = fs[Len(fs)].rv)
    PROVE  /\ [fs EXCEPT ![Len(fs)] = c] \in Seq(Frame(n))
           /\ Len([fs EXCEPT ![Len(fs)] = c]) = Len(fs)
           /\ [fs EXCEPT ![Len(fs)] = c][Len(fs)] = c
           /\ Owing([fs EXCEPT ![Len(fs)] = c])
           /\ OnFrames([fs EXCEPT ![Len(fs)] = c]) = OnFrames(fs) - Weight(fs[Len(fs)]) + Weight(c)
  <1> DEFINE top == Len(fs)
             gs == [fs EXCEPT ![top] = c]
             v == [k \in DOMAIN fs |-> Weight(fs[k])]
             w == [k \in DOMAIN gs |-> Weight(gs[k])]
  <1>1. top \in 1 .. Len(fs) /\ Len(fs) \in Nat /\ DOMAIN fs = 1 .. Len(fs)
        /\ \A k \in 1 .. Len(fs) : fs[k] \in Frame(n)
    OBVIOUS
  <1>2. /\ gs \in Seq(Frame(n)) /\ Len(gs) = Len(fs)
        /\ \A k \in 1 .. Len(fs) : gs[k] = IF k = top THEN c ELSE fs[k]
    BY <1>1, ExceptSeq
  <1>3. DOMAIN gs = 1 .. Len(fs)
    BY <1>2
  <1> HIDE DEF gs, top
  <1>4. gs[top] = c
    BY <1>1, <1>2
  <1>5. Owing(gs)
    <2> SUFFICES ASSUME NEW i \in 1 .. Len(fs), gs[i].owed.rv >= 0
                 PROVE  /\ i > 1 /\ gs[i].rv = gs[i].owed.rv
                        /\ gs[i - 1].eval = gs[i].owed.kept
      BY <1>3 DEF Owing
    <2>1. gs[i].owed = fs[i].owed /\ gs[i].rv = fs[i].rv
      BY <1>2, <1>4 DEF top
    <2>2. i > 1 /\ fs[i].rv = fs[i].owed.rv /\ fs[i - 1].eval = fs[i].owed.kept
      BY <1>1, <2>1 DEF Owing
    <2>3. i - 1 \in 1 .. Len(fs) /\ i - 1 # top
      BY <1>1, <2>2 DEF top
    <2>4. gs[i - 1] = fs[i - 1]
      BY <1>2, <2>3
    <2> QED  BY <2>1, <2>2, <2>4
  <1>6. /\ \A k \in 1 .. Len(fs) : v[k] \in Int /\ w[k] \in Int
        /\ \A k \in 1 .. Len(fs) : k # top => w[k] = v[k]
        /\ v[top] = Weight(fs[top]) /\ w[top] = Weight(c)
    <2>1. \A k \in 1 .. Len(fs) : v[k] = Weight(fs[k]) /\ w[k] = Weight(gs[k])
      BY <1>1, <1>3
    <2>2. \A k \in 1 .. Len(fs) : gs[k] \in Frame(n)
      BY <1>1, <1>2
    <2>3. \A k \in 1 .. Len(fs) : Weight(fs[k]) \in Nat /\ Weight(gs[k]) \in Nat
      BY <1>1, <2>2, FrameWeight
    <2> HIDE DEF v, w
    <2> QED  BY <1>1, <1>2, <1>4, <2>1, <2>3
  <1>7. OnFrames(fs) = SumFunctionOnSet(v, 1 .. Len(fs)) /\ OnFrames(gs) = SumFunctionOnSet(w, 1 .. Len(fs))
    BY <1>1, <1>3 DEF OnFrames
  <1> HIDE DEF v, w
  <1>8. SumFunctionOnSet(w, 1 .. Len(fs)) = SumFunctionOnSet(v, 1 .. Len(fs)) - v[top] + w[top]
    <2>1. \A k \in 1 .. Len(fs) : v[k] \in Int /\ w[k] \in Int
      BY <1>6
    <2>2. Len(fs) \in Nat /\ top \in 1 .. Len(fs) /\ \A k \in 1 .. Len(fs) : k # top => w[k] = v[k]
      BY <1>1, <1>6
    <2> HIDE DEF top
    <2> QED  BY <2>1, <2>2, SumChanged, ZenonT(60)
  <1>9. OnFrames(gs) = OnFrames(fs) - Weight(fs[top]) + Weight(c)
    BY <1>6, <1>7, <1>8
  <1> QED  BY <1>2, <1>4, <1>5, <1>9 DEF gs, top

\* A context was put on top.
LEMMA Entered ==
    ASSUME NEW n \in Nat, NEW fs \in Seq(Frame(n)), NEW c \in Frame(n), Owing(fs),
           c.owed.rv >= 0 => /\ fs # << >> /\ c.rv = c.owed.rv
                             /\ fs[Len(fs)].eval = c.owed.kept
    PROVE  /\ Append(fs, c) \in Seq(Frame(n)) /\ Append(fs, c) # << >>
           /\ Len(Append(fs, c)) = Len(fs) + 1
           /\ Owing(Append(fs, c))
           /\ OnFrames(Append(fs, c)) = OnFrames(fs) + Weight(c)
  <1> DEFINE gs == Append(fs, c)
             m == Len(fs) + 1
             v == [k \in DOMAIN fs |-> Weight(fs[k])]
             w == [k \in DOMAIN gs |-> Weight(gs[k])]
  <1>1. Len(fs) \in Nat /\ DOMAIN fs = 1 .. Len(fs) /\ \A k \in 1 .. Len(fs) : fs[k] \in Frame(n)
    OBVIOUS
  <1>2. /\ gs \in Seq(Frame(n)) /\ gs # << >> /\ Len(gs) = m
        /\ \A k \in 1 .. Len(fs) : gs[k] = fs[k]
        /\ gs[m] = c
    BY AppendProperties
  <1> HIDE DEF gs
  <1>3. DOMAIN gs = 1 .. m
    BY <1>2
  <1>4. Owing(gs)
    <2> SUFFICES ASSUME NEW i \in 1 .. m, gs[i].owed.rv >= 0
                 PROVE  /\ i > 1 /\ gs[i].rv = gs[i].owed.rv
                        /\ gs[i - 1].eval = gs[i].owed.kept
      BY <1>3 DEF Owing
    <2>1. CASE i = m
      <3>1. fs # << >> /\ c.rv = c.owed.rv /\ fs[Len(fs)].eval = c.owed.kept
        BY <1>2, <2>1
      <3>2. Len(fs) \in 1 .. Len(fs) /\ i - 1 = Len(fs) /\ i > 1
        BY <1>1, <2>1, <3>1
      <3> QED  BY <1>2, <2>1, <3>1, <3>2
    <2>2. CASE i # m
      <3>1. i \in 1 .. Len(fs)
        BY <1>1, <2>2
      <3>2. gs[i] = fs[i]
        BY <1>2, <3>1
      <3>3. i > 1 /\ fs[i].rv = fs[i].owed.rv /\ fs[i - 1].eval = fs[i].owed.kept
        BY <1>1, <3>1, <3>2 DEF Owing
      <3>4. i - 1 \in 1 .. Len(fs)
        BY <1>1, <3>1, <3>3
      <3>5. gs[i - 1] = fs[i - 1]
        BY <1>2, <3>4
      <3> QED  BY <3>2, <3>3, <3>5
    <2> QED  BY <2>1, <2>2
  <1>5. /\ \A k \in 1 .. Len(fs) : v[k] \in Int /\ w[k] = v[k]
        /\ w[m] = Weight(c) /\ Weight(c) \in Nat
    <2>1. \A k \in 1 .. Len(fs) : v[k] = Weight(fs[k]) /\ w[k] = Weight(gs[k])
      BY <1>1, <1>3
    <2>2. \A k \in 1 .. Len(fs) : Weight(fs[k]) \in Nat
      BY <1>1, FrameWeight
    <2>3. w[m] = Weight(gs[m])
      BY <1>1, <1>3
    <2>4. Weight(c) \in Nat
      BY FrameWeight
    <2> HIDE DEF v, w
    <2> QED  BY <1>2, <2>1, <2>2, <2>3, <2>4
  <1>6. OnFrames(fs) = SumFunctionOnSet(v, 1 .. Len(fs)) /\ OnFrames(gs) = SumFunctionOnSet(w, 1 .. m)
    BY <1>1, <1>3 DEF OnFrames
  <1> HIDE DEF v, w
  <1>7. SumFunctionOnSet(w, 1 .. Len(fs) + 1) = SumFunctionOnSet(v, 1 .. Len(fs)) + w[Len(fs) + 1]
    <2> DEFINE k == Len(fs)
    <2>1. k \in Nat /\ w[k + 1] \in Int /\ \A j \in 1 .. k : v[j] \in Int /\ w[j] = v[j]
      BY <1>1, <1>5
    <2> HIDE DEF k
    <2>2. SumFunctionOnSet(w, 1 .. k + 1) = SumFunctionOnSet(v, 1 .. k) + w[k + 1]
      BY <2>1, SumExtended
    <2> QED  BY <2>2 DEF k
  <1>8. OnFrames(gs) = OnFrames(fs) + Weight(c)
    BY <1>5, <1>6, <1>7
  <1> QED  BY <1>2, <1>4, <1>8 DEF gs

\* The running context was dropped.
LEMMA Dropped ==
    ASSUME NEW n \in Nat, NEW fs \in Seq(Frame(n)), fs # << >>, Owing(fs)
    PROVE  /\ SubSeq(fs, 1, Len(fs) - 1) \in Seq(Frame(n))
           /\ Len(SubSeq(fs, 1, Len(fs) - 1)) = Len(fs) - 1
           /\ \A k \in 1 .. Len(fs) - 1 : SubSeq(fs, 1, Len(fs) - 1)[k] = fs[k]
           /\ Owing(SubSeq(fs, 1, Len(fs) - 1))
           /\ OnFrames(SubSeq(fs, 1, Len(fs) - 1)) = OnFrames(fs) - Weight(fs[Len(fs)])
  <1> DEFINE m == Len(fs) - 1
             gs == SubSeq(fs, 1, m)
             v == [k \in DOMAIN gs |-> Weight(gs[k])]
             w == [k \in DOMAIN fs |-> Weight(fs[k])]
  <1>1. /\ Len(fs) \in Nat /\ DOMAIN fs = 1 .. Len(fs) /\ \A k \in 1 .. Len(fs) : fs[k] \in Frame(n)
        /\ m \in Nat /\ m + 1 = Len(fs) /\ Len(fs) \in 1 .. Len(fs) /\ m \in 0 .. Len(fs)
    OBVIOUS
  <1> HIDE DEF m
  <1>2. gs \in Seq(Frame(n)) /\ Len(gs) = m /\ \A k \in 1 .. m : gs[k] = fs[k]
    BY <1>1, SizeCut
  <1> HIDE DEF gs
  <1>3. DOMAIN gs = 1 .. m
    BY <1>2
  <1>4. Owing(gs)
    <2> SUFFICES ASSUME NEW i \in 1 .. m, gs[i].owed.rv >= 0
                 PROVE  /\ i > 1 /\ gs[i].rv = gs[i].owed.rv
                        /\ gs[i - 1].eval = gs[i].owed.kept
      BY <1>3 DEF Owing
    <2>1. gs[i] = fs[i] /\ i \in DOMAIN fs
      BY <1>1, <1>2
    <2>2. i > 1 /\ fs[i].rv = fs[i].owed.rv /\ fs[i - 1].eval = fs[i].owed.kept
      BY <2>1 DEF Owing
    <2>3. i - 1 \in 1 .. m
      BY <1>1, <2>2
    <2>4. gs[i - 1] = fs[i - 1]
      BY <1>2, <2>3
    <2> QED  BY <2>1, <2>2, <2>4
  <1>5. /\ \A k \in 1 .. m : v[k] \in Int /\ w[k] = v[k]
        /\ w[m + 1] = Weight(fs[Len(fs)]) /\ Weight(fs[Len(fs)]) \in Nat
    <2>1. \A k \in 1 .. m : v[k] = Weight(gs[k])
      BY <1>3
    <2>2. \A k \in 1 .. Len(fs) : w[k] = Weight(fs[k])
      BY <1>1
    <2>3. \A k \in 1 .. Len(fs) : Weight(fs[k]) \in Nat
      BY <1>1, FrameWeight
    <2>4. \A k \in 1 .. m : k \in 1 .. Len(fs)
      BY <1>1
    <2> HIDE DEF v, w
    <2> QED  BY <1>1, <1>2, <2>1, <2>2, <2>3, <2>4
  <1>6. OnFrames(gs) = SumFunctionOnSet(v, 1 .. m) /\ OnFrames(fs) = SumFunctionOnSet(w, 1 .. m + 1)
    BY <1>1, <1>3 DEF OnFrames
  <1> HIDE DEF v, w
  <1>7. SumFunctionOnSet(v, 1 .. m) \in Int
        /\ SumFunctionOnSet(w, 1 .. m + 1) = SumFunctionOnSet(v, 1 .. m) + w[m + 1]
    <2>1. m \in Nat /\ w[m + 1] \in Int /\ \A j \in 1 .. m : v[j] \in Int /\ w[j] = v[j]
      BY <1>1, <1>5
    <2> QED  BY <2>1, SumExtended
  <1>8. OnFrames(gs) = OnFrames(fs) - Weight(fs[Len(fs)])
    BY <1>5, <1>6, <1>7
  <1> QED  BY <1>2, <1>4, <1>8 DEF gs, m

-----------------------------------------------------------------------------
(* What is added to the heap.                                              *)

\* The folds of Clone and of VALUES.
Copies == INSTANCE Folding WITH Op <- Copied
Puts == INSTANCE Folding WITH Op <- StoredToo

\* An item is an integer, a reference or a hole.
LEMMA ItemCases ==
    ASSUME NEW n \in Nat, NEW x \in Item(n)
    PROVE  \/ x[1] = "int" /\ x[2] \in Int /\ x # Hole
           \/ x[1] = "obj" /\ x[2] \in 1 .. n /\ x # Hole
           \/ x = Hole /\ x[1] = "hole" /\ x[2] = 0
  BY DEF Item, Hole

\* The items that instructions make.
LEMMA ItemTypes ==
    ASSUME NEW n \in Nat
    PROVE  /\ Hole \in Item(n)
           /\ \A i \in Int : Num(i) \in Item(n)
           /\ \A b \in BOOLEAN : Truth(b) \in Item(n)
           /\ \A o \in 1 .. n : Ref(o) \in Item(n) /\ Ref(o) # Hole
  BY DEF Item, Hole, Num, Ref, Truth

\* More objects: what was an item is still one.
LEMMA ItemsGrow ==
    ASSUME NEW n \in Nat, NEW m \in Nat, n <= m
    PROVE  /\ Item(n) \subseteq Item(m)
           /\ Seq(Item(n)) \subseteq Seq(Item(m))
           /\ Frame(n) \subseteq Frame(m) /\ Seq(Frame(n)) \subseteq Seq(Frame(m))
           /\ Seq(Seq(Item(n))) \subseteq Seq(Seq(Item(m)))
  <1>1. Item(n) \subseteq Item(m)
    BY DEF Item
  <1>2. \A S, T : S \subseteq T => Seq(S) \subseteq Seq(T)
    BY SeqMonotonic
  <1>3. Seq(Item(n)) \subseteq Seq(Item(m))
    BY <1>1, <1>2
  <1>4. Frame(n) \subseteq Frame(m)
    BY <1>3 DEF Frame
  <1> QED  BY <1>1, <1>2, <1>3, <1>4

\* h with objects and lists added.
Extends(h, g) ==
    /\ Len(h.objs) <= Len(g.objs) /\ Len(h.lists) <= Len(g.lists)
    /\ \A o \in 1 .. Len(h.objs) : g.objs[o] = h.objs[o]
    /\ \A l \in 1 .. Len(h.lists) : g.lists[l] = h.lists[l]

\* The indices of a heap.
LEMMA HeapShape ==
    ASSUME NEW h, HeapTyped(h)
    PROVE  /\ Len(h.objs) \in Nat /\ DOMAIN h.objs = 1 .. Len(h.objs)
           /\ Len(h.lists) \in Nat /\ DOMAIN h.lists = 1 .. Len(h.lists)
           /\ \A l \in 1 .. Len(h.lists) : h.lists[l] \in Seq(Item(Len(h.objs)))
           /\ \A o \in 1 .. Len(h.objs) :
                  /\ h.objs[o] \in Object
                  /\ h.objs[o].list \in 1 .. Len(h.lists) /\ h.objs[o].keys \in 0 .. Len(h.lists)
                  /\ h.objs[o].kind = "map" => MapKept(h, o)
  BY DEF HeapTyped

\* Nothing added extends a heap.
LEMMA ExtendsItself ==
    ASSUME NEW h, HeapTyped(h)
    PROVE  Extends(h, h)
  BY HeapShape DEF Extends

\* What extends an extension extends the heap it extends.
LEMMA ExtendsTransitive ==
    ASSUME NEW f, NEW g, NEW h, HeapTyped(f), HeapTyped(g), HeapTyped(h), Extends(f, g), Extends(g, h)
    PROVE  Extends(f, h)
  <1>1. Len(f.objs) \in Nat /\ Len(g.objs) \in Nat /\ Len(h.objs) \in Nat
        /\ Len(f.lists) \in Nat /\ Len(g.lists) \in Nat /\ Len(h.lists) \in Nat
    BY HeapShape
  <1> QED  BY <1>1 DEF Extends

\* The lists hold a natural number of items.
LEMMA HeapWeight ==
    ASSUME NEW h, HeapTyped(h)
    PROVE  InLists(h) \in Nat
  <1> DEFINE w == [l \in DOMAIN h.lists |-> Len(h.lists[l])]
  <1>1. DOMAIN h.lists = 1 .. Len(h.lists) /\ Len(h.lists) \in Nat
        /\ \A l \in 1 .. Len(h.lists) : h.lists[l] \in Seq(Item(Len(h.objs)))
    BY HeapShape
  <1>2. \A l \in 1 .. Len(h.lists) : w[l] \in Nat
    BY <1>1
  <1>3. InLists(h) = SumFunctionOnSet(w, 1 .. Len(h.lists))
    BY <1>1 DEF InLists
  <1> HIDE DEF w
  <1>4. IsFiniteSet(1 .. Len(h.lists))
    BY <1>1, FS_Interval
  <1> QED  BY <1>2, <1>3, <1>4, SumIsNat

\* What a reference gives access to.
LEMMA Collection ==
    ASSUME NEW h, HeapTyped(h), NEW x \in Item(Len(h.objs)), x[1] = "obj"
    PROVE  /\ x[2] \in 1 .. Len(h.objs) /\ x # Hole
           /\ KindIn(h, x) = h.objs[x[2]].kind
           /\ KindIn(h, x) \in Kinds
           /\ ListIn(h, x) = h.lists[h.objs[x[2]].list]
           /\ ListIn(h, x) \in Seq(Item(Len(h.objs))) /\ Len(ListIn(h, x)) \in Nat
           /\ h.objs[x[2]].list \in 1 .. Len(h.lists)
           /\ KindIn(h, x) = "map" =>
                 /\ KeysIn(h, x) \in Seq(Item(Len(h.objs)))
                 /\ KeysIn(h, x) = h.lists[h.objs[x[2]].keys]
                 /\ Len(KeysIn(h, x)) = Len(ListIn(h, x))
                 /\ h.objs[x[2]].keys \in 1 .. Len(h.lists)
                 /\ h.objs[x[2]].keys # h.objs[x[2]].list
  <1>1. /\ Len(h.objs) \in Nat /\ DOMAIN h.objs = 1 .. Len(h.objs)
        /\ Len(h.lists) \in Nat /\ DOMAIN h.lists = 1 .. Len(h.lists)
        /\ \A l \in 1 .. Len(h.lists) : h.lists[l] \in Seq(Item(Len(h.objs)))
    BY HeapShape
  <1>2. x[2] \in 1 .. Len(h.objs) /\ x # Hole
    BY <1>1, ItemCases DEF Hole
  <1>3. /\ h.objs[x[2]] \in Object
        /\ h.objs[x[2]].list \in 1 .. Len(h.lists) /\ h.objs[x[2]].keys \in 0 .. Len(h.lists)
        /\ h.objs[x[2]].kind = "map" => MapKept(h, x[2])
    BY <1>2, HeapShape
  <1>4. KindIn(h, x) = h.objs[x[2]].kind /\ KindIn(h, x) \in Kinds
    BY <1>3 DEF KindIn, Object
  <1>5. ListIn(h, x) = h.lists[h.objs[x[2]].list] /\ KeysIn(h, x) = h.lists[h.objs[x[2]].keys]
    BY DEF ListIn, KeysIn
  <1>6. ListIn(h, x) \in Seq(Item(Len(h.objs))) /\ Len(ListIn(h, x)) \in Nat
    <2>1. ListIn(h, x) \in Seq(Item(Len(h.objs)))
      BY <1>1, <1>3, <1>5
    <2> QED  BY <2>1
  <1>7. ASSUME KindIn(h, x) = "map"
        PROVE  /\ KeysIn(h, x) \in Seq(Item(Len(h.objs)))
               /\ Len(KeysIn(h, x)) = Len(ListIn(h, x))
               /\ h.objs[x[2]].keys \in 1 .. Len(h.lists)
               /\ h.objs[x[2]].keys # h.objs[x[2]].list
    <2>1. MapKept(h, x[2])
      BY <1>3, <1>4, <1>7
    <2> QED  BY <1>1, <1>5, <2>1 DEF MapKept
  <1> QED  BY <1>2, <1>3, <1>4, <1>5, <1>6, <1>7

\* A map keeps its lists to itself when no object but those of h has anything to do
\* with them.
LEMMA StillKept ==
    ASSUME NEW h, NEW g, NEW o, MapKept(h, o), g.objs[o] = h.objs[o],
           DOMAIN h.lists \subseteq DOMAIN g.lists,
           Len(g.lists[h.objs[o].keys]) = Len(g.lists[h.objs[o].list]),
           \A p \in DOMAIN g.objs : p # o =>
               \/ p \in DOMAIN h.objs /\ g.objs[p] = h.objs[p]
               \/ /\ g.objs[p].list # h.objs[o].list /\ g.objs[p].list # h.objs[o].keys
                  /\ g.objs[p].keys # h.objs[o].list /\ g.objs[p].keys # h.objs[o].keys
    PROVE  MapKept(g, o)
  BY DEF MapKept

\* g is h with the object new, over lists that may be new as well.
Makes(h, new, lists, g) ==
    /\ new \in Object /\ lists \in Seq(Seq(Item(Len(h.objs))))
    /\ Len(h.lists) <= Len(lists) /\ \A l \in 1 .. Len(h.lists) : lists[l] = h.lists[l]
    /\ new.list \in 1 .. Len(lists) /\ new.keys \in 0 .. Len(lists)
    /\ \A o \in 1 .. Len(h.objs) : h.objs[o].kind = "map" =>
           /\ new.list # h.objs[o].list /\ new.list # h.objs[o].keys
           /\ new.keys # h.objs[o].list /\ new.keys # h.objs[o].keys
    /\ new.kind = "map" => /\ new.list > Len(h.lists) /\ new.keys > Len(h.lists)
                           /\ new.keys # new.list /\ Len(lists[new.keys]) = Len(lists[new.list])
    /\ g = [objs |-> Append(h.objs, new), lists |-> lists]

\* A heap with one object more is still one, if the object leaves the lists of the maps
\* alone.
LEMMA ObjectMade ==
    ASSUME NEW h, HeapTyped(h), NEW new, NEW lists, NEW g, Makes(h, new, lists, g)
    PROVE  HeapTyped(g) /\ Extends(h, g) /\ Len(g.objs) = Len(h.objs) + 1
  <1> DEFINE n == Len(h.objs)
             m == Len(h.lists)
             k == Len(lists)
             objs == Append(h.objs, new)
  <1>1. /\ n \in Nat /\ m \in Nat /\ h.objs \in Seq(Object)
        /\ \A o \in 1 .. n : /\ h.objs[o] \in Object
                             /\ h.objs[o].list \in 1 .. m /\ h.objs[o].keys \in 0 .. m
                             /\ h.objs[o].kind = "map" => MapKept(h, o)
        /\ DOMAIN h.objs = 1 .. n /\ DOMAIN h.lists = 1 .. m
    BY HeapShape DEF HeapTyped
  <1>2. k \in Nat /\ m <= k /\ DOMAIN lists = 1 .. k /\ \A l \in 1 .. m : lists[l] = h.lists[l]
    BY DEF Makes
  <1>3. g.objs = objs /\ g.lists = lists /\ g = [objs |-> g.objs, lists |-> g.lists]
    BY DEF Makes
  <1>4. /\ objs \in Seq(Object) /\ Len(objs) = n + 1
        /\ \A o \in 1 .. n : objs[o] = h.objs[o]
        /\ objs[n + 1] = new
    BY <1>1, AppendProperties DEF Makes
  <1> HIDE DEF objs
  <1>5. /\ Len(g.objs) = n + 1 /\ DOMAIN g.objs = 1 .. n + 1 /\ DOMAIN g.lists = 1 .. k
        /\ \A o \in 1 .. n : g.objs[o] = h.objs[o]
        /\ g.objs[n + 1] = new
        /\ \A l \in 1 .. m : g.lists[l] = h.lists[l]
    BY <1>1, <1>2, <1>3, <1>4
  <1>6. g.lists \in Seq(Seq(Item(n + 1)))
    <2>1. n \in Nat /\ n + 1 \in Nat /\ n <= n + 1
      BY <1>1
    <2>2. lists \in Seq(Seq(Item(n)))
      BY DEF Makes
    <2> HIDE DEF n
    <2> QED  BY <1>3, <2>1, <2>2, ItemsGrow
  <1>7. ASSUME NEW o \in 1 .. n, h.objs[o].kind = "map" PROVE MapKept(g, o)
    <2>1. MapKept(h, o)
      BY <1>1, <1>7
    <2>2. g.objs[o] = h.objs[o]
      BY <1>5
    <2> DEFINE list == h.objs[o].list
               keys == h.objs[o].keys
    <2>3. list \in 1 .. m /\ keys \in 1 .. m /\ Len(h.lists[keys]) = Len(h.lists[list])
      BY <1>1, <2>1 DEF MapKept
    <2>4. new.list # list /\ new.list # keys /\ new.keys # list /\ new.keys # keys
      BY <1>7 DEF Makes
    <2> HIDE DEF list, keys
    <2>5. Len(g.lists[keys]) = Len(g.lists[list])
      BY <1>5, <2>3
    <2>6. ASSUME NEW p \in 1 .. n + 1, p # o, ~(p \in 1 .. n /\ g.objs[p] = h.objs[p])
          PROVE  /\ g.objs[p].list # list /\ g.objs[p].list # keys
                 /\ g.objs[p].keys # list /\ g.objs[p].keys # keys
      <3>1. p \in 1 .. n \/ p = n + 1
        <4>1. n \in Nat /\ p \in 1 .. n + 1
          BY <1>1
        <4> HIDE DEF n
        <4> QED  BY <4>1
      <3>2. g.objs[p] = new
        BY <1>5, <2>6, <3>1
      <3> QED  BY <2>4, <3>2
    <2>7. DOMAIN h.lists \subseteq DOMAIN g.lists
      BY <1>1, <1>2, <1>5
    <2> QED  BY <1>1, <1>5, <2>1, <2>2, <2>5, <2>6, <2>7, StillKept DEF list, keys
  <1>8. ASSUME new.kind = "map" PROVE MapKept(g, n + 1)
    <2>1. /\ new.list > m /\ new.keys > m /\ new.keys # new.list
          /\ Len(lists[new.keys]) = Len(lists[new.list])
      BY <1>8 DEF Makes
    <2>2. new.list \in Int /\ new.keys \in Int /\ new.keys \in 1 .. k
      BY <1>1, <2>1 DEF Makes
    <2>3. ASSUME NEW p \in 1 .. n + 1, p # n + 1
          PROVE  /\ g.objs[p].list # new.list /\ g.objs[p].list # new.keys
                 /\ g.objs[p].keys # new.list /\ g.objs[p].keys # new.keys
      <3>1. p \in 1 .. n
        BY <1>1, <2>3
      <3>2. g.objs[p] = h.objs[p] /\ h.objs[p].list \in 1 .. m /\ h.objs[p].keys \in 0 .. m
        BY <1>1, <1>5, <3>1
      <3> QED  BY <1>1, <2>1, <2>2, <3>2
    <2> QED  BY <1>3, <1>5, <2>1, <2>2, <2>3 DEF MapKept
  <1>9. ASSUME NEW o \in 1 .. n + 1
        PROVE  /\ g.objs[o].list \in 1 .. k /\ g.objs[o].keys \in 0 .. k
               /\ g.objs[o].kind = "map" => MapKept(g, o)
    <2>1. CASE o = n + 1
      BY <1>5, <1>8, <2>1 DEF Makes
    <2>2. CASE o # n + 1
      <3>1. o \in 1 .. n
        BY <1>1, <2>2
      <3>2. g.objs[o] = h.objs[o] /\ h.objs[o].list \in 1 .. m /\ h.objs[o].keys \in 0 .. m
        BY <1>1, <1>5, <3>1
      <3>3. g.objs[o].kind = "map" => MapKept(g, o)
        BY <1>7, <3>1, <3>2
      <3> QED  BY <1>1, <1>2, <3>2, <3>3
    <2> QED  BY <2>1, <2>2
  <1>10. HeapTyped(g)
    <2>1. g.objs \in Seq(Object) /\ Len(g.lists) = k
      BY <1>3, <1>4
    <2> QED  BY <1>3, <1>5, <1>6, <1>9, <2>1, Zenon DEF HeapTyped
  <1>11. Extends(h, g)
    BY <1>1, <1>2, <1>3, <1>5 DEF Extends
  <1> QED  BY <1>5, <1>10, <1>11

\* The lists of h, and a list that is one item longer than they are.
LEMMA ListsGrown ==
    ASSUME NEW n \in Nat, NEW S, NEW a \in Seq(Seq(S)), NEW b \in Seq(Seq(S)),
           Len(a) = n, Len(b) = n + 1, \A l \in 1 .. n : b[l] = a[l]
    PROVE  SumFunctionOnSet([l \in DOMAIN b |-> Len(b[l])], DOMAIN b)
             = SumFunctionOnSet([l \in DOMAIN a |-> Len(a[l])], DOMAIN a) + Len(b[n + 1])
  <1> DEFINE v == [l \in DOMAIN a |-> Len(a[l])]
             w == [l \in DOMAIN b |-> Len(b[l])]
  <1>1. DOMAIN a = 1 .. n /\ DOMAIN b = 1 .. n + 1
    OBVIOUS
  <1>2. /\ \A l \in 1 .. n : a[l] \in Seq(S)
        /\ b[n + 1] \in Seq(S)
    OBVIOUS
  <1>3. \A l \in 1 .. n : v[l] = Len(a[l]) /\ v[l] \in Int
    BY <1>1, <1>2
  <1>4. \A l \in 1 .. n : w[l] = v[l]
    BY <1>1, <1>3
  <1>5. w[n + 1] = Len(b[n + 1]) /\ w[n + 1] \in Int
    BY <1>1, <1>2
  <1> HIDE DEF v, w
  <1>6. SumFunctionOnSet(w, 1 .. n + 1) = SumFunctionOnSet(v, 1 .. n) + w[n + 1]
    BY <1>3, <1>4, <1>5, SumExtended
  <1> QED  BY <1>1, <1>5, <1>6 DEF v, w

\* A new array or struct.
LEMMA ArrayMade ==
    ASSUME NEW h, HeapTyped(h), NEW kind \in {"array", "struct"}, NEW items \in Seq(Item(Len(h.objs)))
    PROVE  /\ HeapTyped(NewArray(h, kind, items)) /\ Extends(h, NewArray(h, kind, items))
           /\ Len(NewArray(h, kind, items).objs) = Len(h.objs) + 1
           /\ InLists(NewArray(h, kind, items)) = InLists(h) + Len(items)
  <1> DEFINE m == Len(h.lists)
             S == Seq(Item(Len(h.objs)))
             new == [kind |-> kind, list |-> m + 1, keys |-> 0]
             lists == Append(h.lists, items)
             g == NewArray(h, kind, items)
  <1>1. /\ m \in Nat /\ h.lists \in Seq(S) /\ items \in S
        /\ \A o \in 1 .. Len(h.objs) : /\ h.objs[o].list \in 1 .. m
                                       /\ h.objs[o].kind = "map" => MapKept(h, o)
        /\ DOMAIN h.lists = 1 .. m
    BY HeapShape DEF HeapTyped
  <1>2. /\ lists \in Seq(S) /\ Len(lists) = m + 1
        /\ \A l \in 1 .. m : lists[l] = h.lists[l]
        /\ lists[m + 1] = items
    <2> HIDE DEF S
    <2> QED  BY <1>1, AppendProperties
  <1>3. new \in Object /\ new.kind # "map" /\ new.list = m + 1 /\ new.keys = 0
    BY <1>1 DEF Object, Kinds
  <1>4. g = [objs |-> Append(h.objs, new), lists |-> lists]
    BY DEF NewArray
  <1> HIDE DEF new, lists, g
  <1>5. ASSUME NEW o \in 1 .. Len(h.objs), h.objs[o].kind = "map"
        PROVE  /\ new.list # h.objs[o].list /\ new.list # h.objs[o].keys
               /\ new.keys # h.objs[o].list /\ new.keys # h.objs[o].keys
    <2>1. h.objs[o].list \in 1 .. m /\ h.objs[o].keys \in 1 .. m
      BY <1>1, <1>5 DEF MapKept
    <2> QED  BY <1>1, <1>3, <2>1
  <1>6. new.list \in 1 .. Len(lists) /\ new.keys \in 0 .. Len(lists) /\ Len(h.lists) <= Len(lists)
    BY <1>1, <1>2, <1>3
  <1>7. HeapTyped(g) /\ Extends(h, g) /\ Len(g.objs) = Len(h.objs) + 1
    <2>1. Makes(h, new, lists, g)
      BY <1>2, <1>3, <1>4, <1>5, <1>6, SMTT(30) DEF Makes
    <2> QED  BY <2>1, ObjectMade
  <1>8. InLists(g) = InLists(h) + Len(items)
    <2>1. SumFunctionOnSet([l \in DOMAIN lists |-> Len(lists[l])], DOMAIN lists)
             = SumFunctionOnSet([l \in DOMAIN h.lists |-> Len(h.lists[l])], DOMAIN h.lists)
               + Len(lists[m + 1])
      BY <1>1, <1>2, ListsGrown
    <2>2. g.lists = lists
      BY <1>4
    <2> QED  BY <1>2, <2>1, <2>2 DEF InLists
  <1> QED  BY <1>7, <1>8 DEF g

\* A new map.
LEMMA MapMade ==
    ASSUME NEW h, HeapTyped(h)
    PROVE  /\ HeapTyped(NewMap(h)) /\ Extends(h, NewMap(h))
           /\ Len(NewMap(h).objs) = Len(h.objs) + 1
           /\ InLists(NewMap(h)) = InLists(h)
  <1> DEFINE m == Len(h.lists)
             S == Seq(Item(Len(h.objs)))
             new == [kind |-> "map", list |-> m + 1, keys |-> m + 2]
             one == Append(h.lists, << >>)
             two == Append(one, << >>)
             lists == h.lists \o << << >>, << >> >>
             g == NewMap(h)
  <1>1. /\ m \in Nat /\ h.lists \in Seq(S) /\ << >> \in S
        /\ \A o \in 1 .. Len(h.objs) : /\ h.objs[o].list \in 1 .. m
                                       /\ h.objs[o].kind = "map" => MapKept(h, o)
        /\ DOMAIN h.lists = 1 .. m
    BY HeapShape DEF HeapTyped
  <1>2. /\ one \in Seq(S) /\ Len(one) = m + 1
        /\ \A l \in 1 .. m : one[l] = h.lists[l]
        /\ one[m + 1] = << >>
    <2> HIDE DEF S
    <2> QED  BY <1>1, AppendProperties
  <1>3. /\ two \in Seq(S) /\ Len(two) = m + 2
        /\ \A l \in 1 .. m + 1 : two[l] = one[l]
        /\ two[m + 2] = << >>
    <2> HIDE DEF S, one
    <2>1. /\ two \in Seq(S) /\ Len(two) = Len(one) + 1
          /\ \A l \in 1 .. Len(one) : two[l] = one[l]
          /\ two[Len(one) + 1] = << >>
      BY <1>1, <1>2, AppendProperties
    <2> QED  BY <1>1, <1>2, <2>1
  <1>4. lists = two
    <2> DEFINE tail == << << >>, << >> >>
    <2>1. tail \in Seq(S) /\ Len(tail) = 2 /\ tail[1] = << >> /\ tail[2] = << >>
      BY <1>1
    <2>2. /\ lists \in Seq(S) /\ Len(lists) = m + 2
          /\ \A i \in 1 .. m + 2 : lists[i] = IF i <= m THEN h.lists[i] ELSE tail[i - m]
      <3> HIDE DEF S, tail
      <3>1. lists = h.lists \o tail
        BY DEF tail
      <3>2. /\ h.lists \o tail \in Seq(S) /\ Len(h.lists \o tail) = Len(h.lists) + Len(tail)
            /\ \A i \in 1 .. Len(h.lists) + Len(tail) :
                   (h.lists \o tail)[i] = IF i <= Len(h.lists) THEN h.lists[i] ELSE tail[i - Len(h.lists)]
        BY <1>1, <2>1, ConcatProperties
      <3> QED  BY <2>1, <3>1, <3>2
    <2> HIDE DEF S, lists, tail, two, one
    <2>3. \A i \in 1 .. m + 2 : lists[i] = two[i]
      <3> SUFFICES ASSUME NEW i \in 1 .. m + 2 PROVE lists[i] = two[i]
        OBVIOUS
      <3>1. CASE i <= m
        <4>1. i \in 1 .. m /\ i \in 1 .. m + 1
          BY <1>1, <3>1
        <4> QED  BY <1>2, <1>3, <2>2, <3>1, <4>1
      <3>2. CASE i = m + 1
        <4>1. i \in 1 .. m + 1 /\ i - m = 1 /\ ~ (i <= m)
          BY <1>1, <3>2
        <4> QED  BY <1>2, <1>3, <2>1, <2>2, <3>2, <4>1
      <3>3. CASE i = m + 2
        <4>1. i - m = 2 /\ ~ (i <= m)
          BY <1>1, <3>3
        <4> QED  BY <1>3, <2>1, <2>2, <3>3, <4>1
      <3> QED  BY <1>1, <3>1, <3>2, <3>3
    <2> QED  BY <1>3, <2>2, <2>3, SeqEqual
  <1>5. new \in Object /\ new.list = m + 1 /\ new.keys = m + 2
    BY <1>1 DEF Object, Kinds
  <1>6. g = [objs |-> Append(h.objs, new), lists |-> two]
    BY <1>4 DEF NewMap
  <1> HIDE DEF new, one, two, lists, g
  <1>7. ASSUME NEW o \in 1 .. Len(h.objs), h.objs[o].kind = "map"
        PROVE  /\ new.list # h.objs[o].list /\ new.list # h.objs[o].keys
               /\ new.keys # h.objs[o].list /\ new.keys # h.objs[o].keys
    <2>1. h.objs[o].list \in 1 .. m /\ h.objs[o].keys \in 1 .. m
      BY <1>1, <1>7 DEF MapKept
    <2> QED  BY <1>1, <1>5, <2>1
  <1>8. \A l \in 1 .. m : two[l] = h.lists[l]
    <2>1. \A l \in 1 .. m : l \in 1 .. m + 1
      BY <1>1
    <2> QED  BY <1>2, <1>3, <2>1
  <1>9. /\ new.list \in 1 .. Len(two) /\ new.keys \in 0 .. Len(two) /\ Len(h.lists) <= Len(two)
        /\ new.list > Len(h.lists) /\ new.keys > Len(h.lists) /\ new.keys # new.list
        /\ Len(two[new.keys]) = Len(two[new.list])
    <2>1. two[m + 1] = << >> /\ two[m + 2] = << >>
      <3>1. m + 1 \in 1 .. m + 1
        BY <1>1
      <3> QED  BY <1>2, <1>3, <3>1
    <2> QED  BY <1>1, <1>3, <1>5, <2>1
  <1>10. HeapTyped(g) /\ Extends(h, g) /\ Len(g.objs) = Len(h.objs) + 1
    <2>1. Makes(h, new, two, g)
      BY <1>3, <1>5, <1>6, <1>7, <1>8, <1>9 DEF Makes
    <2> QED  BY <2>1, ObjectMade
  <1>11. InLists(g) = InLists(h)
    <2> DEFINE W(a) == SumFunctionOnSet([l \in DOMAIN a |-> Len(a[l])], DOMAIN a)
    <2>1. W(one) = W(h.lists) + Len(one[m + 1])
      BY <1>1, <1>2, ListsGrown
    <2>2. W(two) = W(one) + Len(two[(m + 1) + 1])
      <3>1. m + 1 \in Nat /\ Len(two) = (m + 1) + 1
        BY <1>1, <1>3
      <3> QED  BY <1>2, <1>3, <3>1, ListsGrown, ZenonT(60)
    <2>3. (m + 1) + 1 = m + 2
      BY <1>1
    <2>4. W(h.lists) = InLists(h) /\ W(two) = InLists(g) /\ InLists(h) \in Nat
      BY <1>6, HeapWeight DEF InLists
    <2> HIDE DEF W
    <2> QED  BY <1>2, <1>3, <2>1, <2>2, <2>3, <2>4
  <1> QED  BY <1>10, <1>11 DEF g

\* The other kind of array over the same list.
LEMMA ArrayConverted ==
    ASSUME NEW h, HeapTyped(h), NEW kind \in {"array", "struct"}, NEW x \in Item(Len(h.objs)),
           KindIn(h, x) \in {"array", "struct"}
    PROVE  /\ HeapTyped(Converted(h, kind, x)) /\ Extends(h, Converted(h, kind, x))
           /\ Len(Converted(h, kind, x).objs) = Len(h.objs) + 1
           /\ InLists(Converted(h, kind, x)) = InLists(h)
  <1> DEFINE m == Len(h.lists)
             list == h.objs[x[2]].list
             new == [kind |-> kind, list |-> list, keys |-> 0]
             g == Converted(h, kind, x)
  <1>1. /\ m \in Nat /\ h.lists \in Seq(Seq(Item(Len(h.objs)))) /\ h = [objs |-> h.objs, lists |-> h.lists]
        /\ \A o \in 1 .. Len(h.objs) : h.objs[o].kind = "map" => MapKept(h, o)
        /\ DOMAIN h.lists = 1 .. m /\ DOMAIN h.objs = 1 .. Len(h.objs) /\ Len(h.objs) \in Nat
        /\ \A o \in 1 .. Len(h.objs) : h.objs[o].list \in 1 .. m
    BY HeapShape DEF HeapTyped
  <1>2. x[1] = "obj"
    BY <1>1, ItemCases DEF KindIn
  <1>3. x[2] \in 1 .. Len(h.objs) /\ h.objs[x[2]].kind # "map" /\ list \in 1 .. m
    BY <1>2, Collection
  <1>4. new \in Object /\ new.kind # "map" /\ new.list = list /\ new.keys = 0
    BY <1>1, <1>3 DEF Object, Kinds
  <1>5. g = [objs |-> Append(h.objs, new), lists |-> h.lists]
    <2>1. \A a, b, c : [[objs |-> a, lists |-> b] EXCEPT !.objs = c] = [objs |-> c, lists |-> b]
      OBVIOUS
    <2>2. g = [h EXCEPT !.objs = Append(h.objs, new)]
      BY DEF Converted
    <2> QED  BY <1>1, <2>1, <2>2, Zenon
  <1> HIDE DEF new, g
  <1>6. ASSUME NEW o \in 1 .. Len(h.objs), h.objs[o].kind = "map"
        PROVE  /\ new.list # h.objs[o].list /\ new.list # h.objs[o].keys
               /\ new.keys # h.objs[o].list /\ new.keys # h.objs[o].keys
    <2>1. MapKept(h, o) /\ x[2] # o
      BY <1>1, <1>3, <1>6
    <2>2. /\ list # h.objs[o].list /\ list # h.objs[o].keys /\ h.objs[o].keys \in 1 .. m
      BY <1>1, <1>3, <2>1 DEF MapKept
    <2> QED  BY <1>1, <1>4, <2>2
  <1>7. new.list \in 1 .. Len(h.lists) /\ new.keys \in 0 .. Len(h.lists) /\ Len(h.lists) <= Len(h.lists)
    BY <1>1, <1>3, <1>4
  <1>8. HeapTyped(g) /\ Extends(h, g) /\ Len(g.objs) = Len(h.objs) + 1
    <2>1. Makes(h, new, h.lists, g)
      BY <1>1, <1>4, <1>5, <1>6, <1>7 DEF Makes
    <2> QED  BY <2>1, ObjectMade
  <1>9. InLists(g) = InLists(h)
    BY <1>5 DEF InLists
  <1> QED  BY <1>8, <1>9 DEF g

-----------------------------------------------------------------------------
(* What is changed in the heap.                                            *)

\* The items of lists.
InAll(lists) == SumFunctionOnSet([l \in DOMAIN lists |-> Len(lists[l])], DOMAIN lists)

\* A heap with a list replaced.
LEMMA ListReplaced ==
    \A a, b : \A i, c : [[objs |-> a, lists |-> b] EXCEPT !.lists[i] = c]
                            = [objs |-> a, lists |-> [b EXCEPT ![i] = c]]
  <1>1. \A r, i, c : [r EXCEPT !.lists[i] = c] = [r EXCEPT !.lists = [r.lists EXCEPT ![i] = c]]
    BY ZenonT(30)
  <1>2. \A a, b, d : [[objs |-> a, lists |-> b] EXCEPT !.lists = d] = [objs |-> a, lists |-> d]
    BY SMTT(30)
  <1> QED  BY <1>1, <1>2, ZenonT(30)

\* One of several lists was changed.
LEMMA ListChanged ==
    ASSUME NEW S, NEW a \in Seq(Seq(S)), NEW i \in 1 .. Len(a), NEW items \in Seq(S)
    PROVE  /\ [a EXCEPT ![i] = items] \in Seq(Seq(S)) /\ Len([a EXCEPT ![i] = items]) = Len(a)
           /\ \A j \in 1 .. Len(a) : [a EXCEPT ![i] = items][j] = IF j = i THEN items ELSE a[j]
           /\ InAll([a EXCEPT ![i] = items]) = InAll(a) - Len(a[i]) + Len(items)
           /\ InAll(a) \in Int
  <1> DEFINE n == Len(a)
             T == Seq(S)
             b == [a EXCEPT ![i] = items]
             v == [l \in DOMAIN a |-> Len(a[l])]
             w == [l \in DOMAIN b |-> Len(b[l])]
  <1>1. a \in Seq(T) /\ items \in T /\ n \in Nat /\ DOMAIN a = 1 .. n
        /\ \A l \in 1 .. n : Len(a[l]) \in Int
    OBVIOUS
  <1>2. b \in Seq(T) /\ Len(b) = n /\ \A j \in 1 .. n : b[j] = IF j = i THEN items ELSE a[j]
    <2> HIDE DEF T
    <2> QED  BY <1>1, ExceptSeq
  <1> HIDE DEF b
  <1>3. DOMAIN b = 1 .. n
    BY <1>2
  <1>4. \A l \in 1 .. n : v[l] = Len(a[l])
    BY <1>1
  <1>5. \A l \in 1 .. n : w[l] = Len(b[l])
    BY <1>3
  <1>6. Len(items) \in Int
    OBVIOUS
  <1> HIDE DEF v, w
  <1>7. /\ \A l \in 1 .. n : v[l] \in Int /\ w[l] \in Int
        /\ \A l \in 1 .. n : l # i => w[l] = v[l]
        /\ v[i] = Len(a[i]) /\ w[i] = Len(items)
    BY <1>1, <1>2, <1>4, <1>5, <1>6
  <1>8. /\ SumFunctionOnSet(v, 1 .. n) \in Int
        /\ SumFunctionOnSet(w, 1 .. n) = SumFunctionOnSet(v, 1 .. n) - v[i] + w[i]
    BY <1>1, <1>7, SumChanged
  <1>9. InAll(a) = SumFunctionOnSet(v, 1 .. n) /\ InAll(b) = SumFunctionOnSet(w, 1 .. n)
    BY <1>1, <1>3 DEF InAll, v, w
  <1> QED  BY <1>2, <1>7, <1>8, <1>9 DEF b

\* The lists of h were changed, those of a map both together.
LEMMA ListsChanged ==
    ASSUME NEW h, HeapTyped(h), NEW lists \in Seq(Seq(Item(Len(h.objs)))), Len(lists) = Len(h.lists),
           \A o \in 1 .. Len(h.objs) : h.objs[o].kind = "map" =>
               Len(lists[h.objs[o].keys]) = Len(lists[h.objs[o].list])
    PROVE  HeapTyped([objs |-> h.objs, lists |-> lists])
  <1> DEFINE g == [objs |-> h.objs, lists |-> lists]
             n == Len(h.objs)
             m == Len(h.lists)
  <1>1. g.objs = h.objs /\ g.lists = lists /\ g = [objs |-> g.objs, lists |-> g.lists]
    OBVIOUS
  <1> HIDE DEF g
  <1>2. /\ n \in Nat /\ m \in Nat /\ DOMAIN h.objs = 1 .. n /\ DOMAIN h.lists = 1 .. m
        /\ DOMAIN lists = 1 .. m /\ h.objs \in Seq(Object)
        /\ \A o \in 1 .. n : /\ h.objs[o].list \in 1 .. m /\ h.objs[o].keys \in 0 .. m
                             /\ h.objs[o].kind = "map" => MapKept(h, o)
    BY HeapShape DEF HeapTyped
  <1>3. ASSUME NEW o \in 1 .. n, h.objs[o].kind = "map" PROVE MapKept(g, o)
    <2>1. MapKept(h, o) /\ g.objs[o] = h.objs[o]
      BY <1>1, <1>2, <1>3
    <2>2. Len(g.lists[h.objs[o].keys]) = Len(g.lists[h.objs[o].list])
      BY <1>1, <1>3
    <2>3. DOMAIN h.lists \subseteq DOMAIN g.lists
      BY <1>1, <1>2
    <2>4. \A p \in DOMAIN g.objs : p # o => p \in DOMAIN h.objs /\ g.objs[p] = h.objs[p]
      BY <1>1
    <2> QED  BY <2>1, <2>2, <2>3, <2>4, StillKept
  <1>4. /\ g.objs \in Seq(Object) /\ g.lists \in Seq(Seq(Item(Len(g.objs))))
        /\ \A o \in DOMAIN g.objs : /\ g.objs[o].list \in DOMAIN g.lists
                                    /\ g.objs[o].keys \in 0 .. Len(g.lists)
                                    /\ g.objs[o].kind = "map" => MapKept(g, o)
    BY <1>1, <1>2, <1>3
  <1>5. HeapTyped(g)
    BY <1>1, <1>4, Zenon DEF HeapTyped
  <1> QED  BY <1>5 DEF g

\* A collection got other items: an array, or a map as many as it had.
LEMMA ListSet ==
    ASSUME NEW h, HeapTyped(h), NEW x \in Item(Len(h.objs)), x[1] = "obj",
           NEW items \in Seq(Item(Len(h.objs))),
           KindIn(h, x) # "map" \/ Len(items) = Len(ListIn(h, x))
    PROVE  /\ HeapTyped(SetList(h, x, items))
           /\ SetList(h, x, items).objs = h.objs
           /\ InLists(SetList(h, x, items)) = InLists(h) - Len(ListIn(h, x)) + Len(items)
           /\ SetList(h, x, items)
                = [objs |-> h.objs, lists |-> [h.lists EXCEPT ![h.objs[x[2]].list] = items]]
  <1> DEFINE n == Len(h.objs)
             l == h.objs[x[2]].list
             S == Item(Len(h.objs))
             lists == [h.lists EXCEPT ![l] = items]
             g == [objs |-> h.objs, lists |-> lists]
  <1>1. h = [objs |-> h.objs, lists |-> h.lists] /\ h.lists \in Seq(Seq(S))
    BY DEF HeapTyped
  <1>2. /\ x[2] \in 1 .. n /\ KindIn(h, x) = h.objs[x[2]].kind
        /\ ListIn(h, x) = h.lists[l] /\ l \in 1 .. Len(h.lists)
    BY Collection
  <1>3. SetList(h, x, items) = g
    <2>1. \A a, b : \A i, c : [[objs |-> a, lists |-> b] EXCEPT !.lists[i] = c]
                                  = [objs |-> a, lists |-> [b EXCEPT ![i] = c]]
      BY ListReplaced
    <2>2. SetList(h, x, items) = [h EXCEPT !.lists[l] = items]
      BY DEF SetList
    <2> QED  BY <1>1, <2>1, <2>2, Zenon
  <1>4. /\ lists \in Seq(Seq(S)) /\ Len(lists) = Len(h.lists)
        /\ \A j \in 1 .. Len(h.lists) : lists[j] = IF j = l THEN items ELSE h.lists[j]
        /\ InAll(lists) = InAll(h.lists) - Len(h.lists[l]) + Len(items)
    <2>1. items \in Seq(S)
      OBVIOUS
    <2> HIDE DEF S, l
    <2> QED  BY <1>1, <1>2, <2>1, ListChanged
  <1>5. g.objs = h.objs /\ InLists(g) = InAll(lists) /\ InLists(h) = InAll(h.lists)
    BY DEF InLists, InAll
  <1>6. ASSUME NEW o \in 1 .. n, h.objs[o].kind = "map"
        PROVE  Len(lists[h.objs[o].keys]) = Len(lists[h.objs[o].list])
    <2>1. MapKept(h, o) /\ DOMAIN h.lists = 1 .. Len(h.lists) /\ DOMAIN h.objs = 1 .. n
          /\ h.objs[o].list \in 1 .. Len(h.lists)
      BY <1>6, HeapShape
    <2>2. h.objs[o].keys \in 1 .. Len(h.lists) /\ h.objs[o].keys # h.objs[o].list
          /\ Len(h.lists[h.objs[o].keys]) = Len(h.lists[h.objs[o].list])
      BY <2>1 DEF MapKept
    <2> HIDE DEF lists
    <2>3. CASE o = x[2]
      <3>1. Len(items) = Len(h.lists[l])
        BY <1>2, <1>6, <2>3
      <3>2. h.objs[o].list = l
        BY <2>3
      <3> QED  BY <1>4, <2>1, <2>2, <3>1, <3>2
    <2>4. CASE o # x[2]
      <3>1. l # h.objs[o].list /\ l # h.objs[o].keys
        BY <1>2, <2>1, <2>4 DEF MapKept
      <3> QED  BY <1>4, <2>1, <2>2, <3>1
    <2> QED  BY <2>3, <2>4
  <1> HIDE DEF lists
  <1>7. HeapTyped(g)
    BY <1>4, <1>6, ListsChanged
  <1> QED  BY <1>2, <1>3, <1>4, <1>5, <1>7 DEF lists

\* A map got other keys and values.
LEMMA BothSet ==
    ASSUME NEW h, HeapTyped(h), NEW x \in Item(Len(h.objs)), KindIn(h, x) = "map",
           NEW items \in Seq(Item(Len(h.objs))), NEW keys \in Seq(Item(Len(h.objs))),
           Len(items) = Len(keys)
    PROVE  LET g == [SetList(h, x, items) EXCEPT !.lists[h.objs[x[2]].keys] = keys]
           IN /\ HeapTyped(g) /\ g.objs = h.objs
              /\ InLists(g) = InLists(h) - Len(ListIn(h, x)) + Len(items) - Len(KeysIn(h, x)) + Len(keys)
  <1> DEFINE n == Len(h.objs)
             l == h.objs[x[2]].list
             k == h.objs[x[2]].keys
             S == Item(Len(h.objs))
             first == [h.lists EXCEPT ![l] = items]
             lists == [first EXCEPT ![k] = keys]
             g == [objs |-> h.objs, lists |-> lists]
  <1>1. h = [objs |-> h.objs, lists |-> h.lists] /\ h.lists \in Seq(Seq(S)) /\ n \in Nat
    BY HeapShape DEF HeapTyped
  <1>2. x[1] = "obj"
    BY <1>1, ItemCases DEF KindIn
  <1>3. /\ x[2] \in 1 .. n /\ KindIn(h, x) = h.objs[x[2]].kind
        /\ ListIn(h, x) = h.lists[l] /\ l \in 1 .. Len(h.lists)
        /\ KeysIn(h, x) = h.lists[k] /\ k \in 1 .. Len(h.lists) /\ k # l
        /\ Len(KeysIn(h, x)) \in Int /\ Len(ListIn(h, x)) \in Int
    BY <1>2, Collection
  <1>4. [SetList(h, x, items) EXCEPT !.lists[k] = keys] = g
    <2>1. \A a, b : \A i, c : [[objs |-> a, lists |-> b] EXCEPT !.lists[i] = c]
                                  = [objs |-> a, lists |-> [b EXCEPT ![i] = c]]
      BY ListReplaced
    <2>2. SetList(h, x, items) = [h EXCEPT !.lists[l] = items]
      BY DEF SetList
    <2>3. SetList(h, x, items) = [objs |-> h.objs, lists |-> first]
      BY <1>1, <2>1, <2>2, Zenon
    <2> HIDE DEF first, k
    <2>4. [[objs |-> h.objs, lists |-> first] EXCEPT !.lists[k] = keys]
            = [objs |-> h.objs, lists |-> [first EXCEPT ![k] = keys]]
      BY <2>1
    <2> QED  BY <2>3, <2>4
  <1>5. /\ first \in Seq(Seq(S)) /\ Len(first) = Len(h.lists)
        /\ \A j \in 1 .. Len(h.lists) : first[j] = IF j = l THEN items ELSE h.lists[j]
        /\ InAll(first) = InAll(h.lists) - Len(h.lists[l]) + Len(items)
        /\ InAll(h.lists) \in Int
    <2>1. items \in Seq(S)
      OBVIOUS
    <2> HIDE DEF S, l
    <2> QED  BY <1>1, <1>3, <2>1, ListChanged
  <1> HIDE DEF first
  <1>6. /\ lists \in Seq(Seq(S)) /\ Len(lists) = Len(h.lists)
        /\ \A j \in 1 .. Len(h.lists) : lists[j] = IF j = k THEN keys ELSE first[j]
        /\ InAll(lists) = InAll(first) - Len(first[k]) + Len(keys)
    <2>1. keys \in Seq(S) /\ k \in 1 .. Len(first)
      BY <1>3, <1>5
    <2>2. first \in Seq(Seq(S)) /\ Len(first) = Len(h.lists)
      BY <1>5
    <2> HIDE DEF S, k
    <2>3. /\ lists \in Seq(Seq(S)) /\ Len(lists) = Len(first)
          /\ \A j \in 1 .. Len(first) : lists[j] = IF j = k THEN keys ELSE first[j]
          /\ InAll(lists) = InAll(first) - Len(first[k]) + Len(keys)
      BY <2>1, <2>2, ListChanged
    <2> QED  BY <2>2, <2>3
  <1>7. g.objs = h.objs /\ InLists(g) = InAll(lists) /\ InLists(h) = InAll(h.lists)
    BY DEF InLists, InAll
  <1> HIDE DEF lists
  <1>8. ASSUME NEW o \in 1 .. n, h.objs[o].kind = "map"
        PROVE  Len(lists[h.objs[o].keys]) = Len(lists[h.objs[o].list])
    <2>1. MapKept(h, o) /\ DOMAIN h.lists = 1 .. Len(h.lists) /\ DOMAIN h.objs = 1 .. n
          /\ h.objs[o].list \in 1 .. Len(h.lists)
      BY <1>8, HeapShape
    <2>2. h.objs[o].keys \in 1 .. Len(h.lists) /\ h.objs[o].keys # h.objs[o].list
          /\ Len(h.lists[h.objs[o].keys]) = Len(h.lists[h.objs[o].list])
      BY <2>1 DEF MapKept
    <2>3. CASE o = x[2]
      <3>1. h.objs[o].list = l /\ h.objs[o].keys = k
        BY <2>3
      <3> QED  BY <1>3, <1>5, <1>6, <3>1
    <2>4. CASE o # x[2]
      <3>1. l # h.objs[o].list /\ l # h.objs[o].keys /\ k # h.objs[o].list /\ k # h.objs[o].keys
        BY <1>3, <2>1, <2>4 DEF MapKept
      <3> QED  BY <1>5, <1>6, <2>1, <2>2, <3>1
    <2> QED  BY <2>3, <2>4
  <1>9. HeapTyped(g)
    BY <1>6, <1>8, ListsChanged
  <1>10. InLists(g) = InLists(h) - Len(ListIn(h, x)) + Len(items) - Len(KeysIn(h, x)) + Len(keys)
    <2>1. first[k] = h.lists[k]
      BY <1>3, <1>5
    <2>2. Len(items) \in Int /\ Len(keys) \in Int
      OBVIOUS
    <2>3. InAll(lists) = InAll(first) - Len(KeysIn(h, x)) + Len(keys)
          /\ InAll(first) = InAll(h.lists) - Len(ListIn(h, x)) + Len(items)
      BY <1>3, <1>5, <1>6, <2>1
    <2>4. InLists(g) = InAll(lists) /\ InLists(h) = InAll(h.lists) /\ InAll(h.lists) \in Int
      BY <1>5, <1>7
    <2> HIDE DEF g
    <2>5. \A a, b, c, d, e \in Int : ((a - b + c) - d) + e = a - b + c - d + e
      OBVIOUS
    <2> DEFINE a == InAll(h.lists)
               b == Len(ListIn(h, x))
               c == Len(items)
               d == Len(KeysIn(h, x))
               e == Len(keys)
    <2>6. InLists(g) = ((a - b + c) - d) + e
      BY <2>3, <2>4, Zenon
    <2>7. a \in Int /\ b \in Int /\ c \in Int /\ d \in Int /\ e \in Int
      BY <1>3, <2>2, <2>4
    <2> HIDE DEF a, b, c, d, e
    <2>8. InLists(g) = a - b + c - d + e
      BY <2>5, <2>6, <2>7
    <2> QED  BY <2>4, <2>8 DEF a, b, c, d, e
  <1> QED  BY <1>4, <1>7, <1>9, <1>10

\* What a fold over items has made of h so far.
Accumulated(h, acc) ==
    /\ HeapTyped(acc.heap) /\ Extends(h, acc.heap)
    /\ acc.items \in Seq(Item(Len(acc.heap.objs)))

\* Clone copies one item more.
LEMMA CopiedKeeps ==
    ASSUME NEW h, HeapTyped(h), NEW acc, Accumulated(h, acc), NEW y \in Item(Len(h.objs))
    PROVE  Accumulated(h, Copied(acc, y))
  <1> DEFINE f == acc.heap
             g == NewArray(f, "struct", ListIn(f, y))
             n == Len(f.objs)
  <1>1. /\ HeapTyped(f) /\ Extends(h, f) /\ n \in Nat /\ Len(h.objs) \in Nat
        /\ Len(h.objs) <= n /\ acc.items \in Seq(Item(n))
    BY HeapShape DEF Accumulated, Extends
  <1>2. y \in Item(n)
    <2> HIDE DEF f
    <2>1. Item(Len(h.objs)) \subseteq Item(n)
      BY <1>1, ItemsGrow
    <2> QED  BY <2>1
  <1>3. CASE KindIn(f, y) = "struct"
    <2>1. y[1] = "obj"
      BY <1>1, <1>2, <1>3, ItemCases DEF KindIn
    <2>2. ListIn(f, y) \in Seq(Item(n))
      BY <1>1, <1>2, <2>1, Collection
    <2>3. HeapTyped(g) /\ Extends(f, g) /\ Len(g.objs) = n + 1
      BY <1>1, <2>2, ArrayMade
    <2>4. Copied(acc, y) = [heap |-> g, items |-> Append(acc.items, Newest(g))]
      BY <1>3 DEF Copied
    <2> HIDE DEF g, f
    <2>5. Extends(h, g)
      BY <1>1, <2>3, ExtendsTransitive
    <2>6. acc.items \in Seq(Item(n + 1)) /\ Newest(g) \in Item(n + 1)
      <3>1. n \in Nat /\ n + 1 \in Nat /\ n <= n + 1 /\ n + 1 \in 1 .. n + 1
        BY <1>1
      <3> HIDE DEF n
      <3>2. Seq(Item(n)) \subseteq Seq(Item(n + 1))
        BY <3>1, ItemsGrow
      <3>3. Newest(g) = Ref(n + 1)
        BY <2>3 DEF Newest, n
      <3> QED  BY <1>1, <3>1, <3>2, <3>3, ItemTypes
    <2>7. Append(acc.items, Newest(g)) \in Seq(Item(n + 1))
      BY <2>6, AppendProperties
    <2> QED  BY <2>3, <2>4, <2>5, <2>7 DEF Accumulated
  <1>4. CASE KindIn(f, y) # "struct"
    <2>1. Copied(acc, y) = [heap |-> f, items |-> Append(acc.items, y)]
      BY <1>4 DEF Copied
    <2> HIDE DEF f
    <2>2. Append(acc.items, y) \in Seq(Item(n))
      BY <1>1, <1>2, AppendProperties
    <2> QED  BY <1>1, <2>1, <2>2 DEF Accumulated
  <1> QED  BY <1>3, <1>4

\* A fold starts with the heap as it is.
LEMMA AccumulatedNone ==
    ASSUME NEW h, HeapTyped(h)
    PROVE  Accumulated(h, [heap |-> h, items |-> << >>])
  <1>1. << >> \in Seq(Item(Len(h.objs)))
    OBVIOUS
  <1> QED  BY <1>1, ExtendsItself DEF Accumulated

\* Clone has copied all the items.
LEMMA AllCopied ==
    ASSUME NEW h, HeapTyped(h), NEW seq \in Seq(Item(Len(h.objs)))
    PROVE  Accumulated(h, FoldLeft(Copied, [heap |-> h, items |-> << >>], seq))
  <1> DEFINE n == Len(seq)
             base == [heap |-> h, items |-> << >>]
  <1>1. n \in Nat /\ DOMAIN seq = 1 .. n /\ \A k \in 1 .. n : seq[k] \in Item(Len(h.objs))
    OBVIOUS
  <1> HIDE DEF base, n
  <1>2. PICK results : /\ Copies!Results(results, base, seq, n)
                       /\ FoldLeft(Copied, base, seq) = results[n]
    <2>1. \E results : /\ Copies!Results(results, base, seq, n)
                       /\ Copies!FoldLeft(Copied, base, seq) = results[n]
      BY <1>1, Copies!FoldHasResults
    <2>2. Copies!FoldLeft(Copied, base, seq) = FoldLeft(Copied, base, seq)
      BY DEF FoldLeft, Copies!FoldLeft, MapThenFoldSet, Copies!MapThenFoldSet, Max, Copies!Max
    <2> QED  BY <2>1, <2>2
  <1>3. /\ results[0] = base
        /\ \A k \in 1 .. n : results[k] = Copied(results[k - 1], seq[k])
    BY <1>2 DEF Copies!Results
  <1> DEFINE P == {k \in Nat : k <= n => Accumulated(h, results[k])}
  <1>4. 0 \in P
    BY <1>3, AccumulatedNone DEF base
  <1>5. ASSUME NEW k \in P PROVE k + 1 \in P
    <2>1. SUFFICES ASSUME k + 1 <= n PROVE Accumulated(h, results[k + 1])
      OBVIOUS
    <2>2. k \in Nat /\ k + 1 \in 1 .. n /\ (k + 1) - 1 = k /\ k <= n
      BY <1>1, <2>1
    <2>3. results[k + 1] = Copied(results[k], seq[k + 1]) /\ seq[k + 1] \in Item(Len(h.objs))
      BY <1>1, <1>3, <2>2
    <2>4. Accumulated(h, results[k])
      BY <2>2
    <2> HIDE DEF P
    <2> QED  BY <2>3, <2>4, CopiedKeeps
  <1>6. P \in SUBSET Nat
    OBVIOUS
  <1> HIDE DEF P
  <1>7. n \in P
    BY <1>1, <1>4, <1>5, <1>6, Induction
  <1>8. Accumulated(h, results[n])
    BY <1>1, <1>7 DEF P
  <1> QED  BY <1>2, <1>8 DEF base

\* A clone leaves the objects and lists there were as they are.
LEMMA Cloned ==
    ASSUME NEW h, HeapTyped(h), NEW x \in Item(Len(h.objs)), x[1] = "obj"
    PROVE  HeapTyped(Clone(h, x)) /\ Extends(h, Clone(h, x)) /\ Len(Clone(h, x).objs) \in Nat \ {0}
  <1> DEFINE all == FoldLeft(Copied, [heap |-> h, items |-> << >>], ListIn(h, x))
             g == NewArray(all.heap, "struct", all.items)
  <1>1. ListIn(h, x) \in Seq(Item(Len(h.objs)))
    BY Collection
  <1>2. Accumulated(h, all)
    BY <1>1, AllCopied
  <1>3. Clone(h, x) = g
    BY DEF Clone
  <1> HIDE DEF all
  <1>4. HeapTyped(g) /\ Extends(all.heap, g) /\ Len(g.objs) = Len(all.heap.objs) + 1
    BY <1>2, ArrayMade DEF Accumulated
  <1>5. Len(all.heap.objs) \in Nat
    BY <1>2, HeapShape DEF Accumulated
  <1> HIDE DEF g
  <1>6. Extends(h, g)
    BY <1>2, <1>4, ExtendsTransitive DEF Accumulated
  <1> QED  BY <1>3, <1>4, <1>5, <1>6

\* What is stored for an item, and the heap it is in.
LEMMA StoredTyped ==
    ASSUME NEW h, HeapTyped(h), NEW x \in Item(Len(h.objs))
    PROVE  /\ HeapTyped(Stored(h, x).heap) /\ Extends(h, Stored(h, x).heap)
           /\ Stored(h, x).item \in Item(Len(Stored(h, x).heap.objs))
  <1>1. CASE KindIn(h, x) = "struct"
    <2> DEFINE g == Clone(h, x)
    <2>1. Len(h.objs) \in Nat
      BY HeapShape
    <2>2. x[1] = "obj"
      BY <1>1, <2>1, ItemCases DEF KindIn
    <2>3. HeapTyped(g) /\ Extends(h, g) /\ Len(g.objs) \in Nat \ {0}
      BY <2>2, Cloned
    <2>4. Stored(h, x) = [heap |-> g, item |-> Newest(g)]
      BY <1>1 DEF Stored
    <2> HIDE DEF g
    <2>5. Newest(g) \in Item(Len(g.objs))
      BY <2>3, ItemTypes DEF Newest
    <2> QED  BY <2>3, <2>4, <2>5
  <1>2. CASE KindIn(h, x) # "struct"
    <2>1. Stored(h, x) = [heap |-> h, item |-> x]
      BY <1>2 DEF Stored
    <2> QED  BY <2>1, ExtendsItself
  <1> QED  BY <1>1, <1>2

\* VALUES stores one value more.
LEMMA StoredKeeps ==
    ASSUME NEW h, HeapTyped(h), NEW acc, Accumulated(h, acc), NEW x \in Item(Len(h.objs))
    PROVE  Accumulated(h, StoredToo(acc, x))
  <1> DEFINE f == acc.heap
             put == Stored(f, x)
             g == put.heap
             n == Len(f.objs)
             m == Len(g.objs)
  <1>1. /\ HeapTyped(f) /\ Extends(h, f) /\ n \in Nat /\ Len(h.objs) \in Nat
        /\ Len(h.objs) <= n /\ acc.items \in Seq(Item(n))
    BY HeapShape DEF Accumulated, Extends
  <1>2. x \in Item(n)
    <2> HIDE DEF f
    <2>1. Item(Len(h.objs)) \subseteq Item(n)
      BY <1>1, ItemsGrow
    <2> QED  BY <2>1
  <1>3. StoredToo(acc, x) = [heap |-> g, items |-> Append(acc.items, put.item)]
    BY DEF StoredToo
  <1> HIDE DEF f
  <1>4. HeapTyped(g) /\ Extends(f, g) /\ put.item \in Item(m)
    BY <1>1, <1>2, StoredTyped
  <1> HIDE DEF put
  <1>5. m \in Nat /\ n <= m /\ Extends(h, g)
    <2>1. m \in Nat
      BY <1>4, HeapShape
    <2>2. n <= m
      BY <1>4 DEF Extends
    <2> QED  BY <1>1, <1>4, <2>1, <2>2, ExtendsTransitive
  <1>6. Append(acc.items, put.item) \in Seq(Item(m))
    <2>1. Seq(Item(n)) \subseteq Seq(Item(m))
      BY <1>1, <1>5, ItemsGrow
    <2>2. acc.items \in Seq(Item(m))
      BY <1>1, <2>1
    <2> QED  BY <1>4, <2>2, AppendProperties
  <1> HIDE DEF g
  <1>7. StoredToo(acc, x).heap = g /\ StoredToo(acc, x).items = Append(acc.items, put.item)
    BY <1>3
  <1> QED  BY <1>4, <1>5, <1>6, <1>7 DEF Accumulated

\* VALUES has stored all the values.
LEMMA AllStored ==
    ASSUME NEW h, HeapTyped(h), NEW seq \in Seq(Item(Len(h.objs)))
    PROVE  Accumulated(h, FoldLeft(StoredToo, [heap |-> h, items |-> << >>], seq))
  <1> DEFINE n == Len(seq)
             base == [heap |-> h, items |-> << >>]
  <1>1. n \in Nat /\ DOMAIN seq = 1 .. n /\ \A k \in 1 .. n : seq[k] \in Item(Len(h.objs))
    OBVIOUS
  <1> HIDE DEF base, n
  <1>2. PICK results : /\ Puts!Results(results, base, seq, n)
                       /\ FoldLeft(StoredToo, base, seq) = results[n]
    <2>1. \E results : /\ Puts!Results(results, base, seq, n)
                       /\ Puts!FoldLeft(StoredToo, base, seq) = results[n]
      BY <1>1, Puts!FoldHasResults
    <2>2. Puts!FoldLeft(StoredToo, base, seq) = FoldLeft(StoredToo, base, seq)
      BY DEF FoldLeft, Puts!FoldLeft, MapThenFoldSet, Puts!MapThenFoldSet, Max, Puts!Max
    <2> QED  BY <2>1, <2>2
  <1>3. /\ results[0] = base
        /\ \A k \in 1 .. n : results[k] = StoredToo(results[k - 1], seq[k])
    BY <1>2 DEF Puts!Results
  <1> DEFINE P == {k \in Nat : k <= n => Accumulated(h, results[k])}
  <1>4. 0 \in P
    BY <1>3, AccumulatedNone DEF base
  <1>5. ASSUME NEW k \in P PROVE k + 1 \in P
    <2>1. SUFFICES ASSUME k + 1 <= n PROVE Accumulated(h, results[k + 1])
      OBVIOUS
    <2>2. k \in Nat /\ k + 1 \in 1 .. n /\ (k + 1) - 1 = k /\ k <= n
      BY <1>1, <2>1
    <2>3. results[k + 1] = StoredToo(results[k], seq[k + 1]) /\ seq[k + 1] \in Item(Len(h.objs))
      BY <1>1, <1>3, <2>2
    <2>4. Accumulated(h, results[k])
      BY <2>2
    <2> HIDE DEF P
    <2> QED  BY <2>3, <2>4, StoredKeeps
  <1>6. P \in SUBSET Nat
    OBVIOUS
  <1> HIDE DEF P
  <1>7. n \in P
    BY <1>1, <1>4, <1>5, <1>6, Induction
  <1>8. Accumulated(h, results[n])
    BY <1>1, <1>7 DEF P
  <1> QED  BY <1>2, <1>8 DEF base

-----------------------------------------------------------------------------
(* Steps of the machine.                                                   *)

\* The machine's stacks and heap.
MachineTyped == HeapTyped(heap) /\ frames \in Seq(Frame(Len(heap.objs))) /\ Owing(frames)

\* A machine that can execute.
Ready == MachineTyped /\ frames # << >> /\ multisigs \in Nat

\* The items of the stacks and lists.
Carried == OnFrames(frames) + InLists(heap)

\* The count was kept, and n more is as much as it went up.
Allows(n) ==
    Running' /\ ~recounted' =>
        /\ ~recounted
        /\ counted \in 0 .. IntMax => counted' \in 0 .. IntMax /\ counted' >= counted + n

\* A step that keeps the machine typed, and counts what it adds.
Stepped ==
    /\ MachineTyped' /\ frames' # << >> /\ Len(frames') >= Len(frames)
    /\ \E n \in Int : Allows(n) /\ Carried' + multisigs <= Carried + n + multisigs'

\* CheckStackSize adds what it is asked to, unless it counts the items anew.
LEMMA Allowed ==
    ASSUME NEW s, NEW n \in Int, NEW fs, NEW h, CheckStackSize(s, n, fs, h),
           n <= 0 \/ (Running' => Fits)
    PROVE  Allows(n)
  <1>1. MaxStackSize \in Nat /\ IntMax \in Nat /\ IntMax > MaxStackSize
    BY VMAssumption
  <1> SUFFICES ASSUME Running', ~recounted'
               PROVE  /\ ~recounted
                      /\ counted \in 0 .. IntMax => counted' \in 0 .. IntMax /\ counted' >= counted + n
    BY DEF Allows
  <1> DEFINE sum == IF counted + n < 0 \/ counted + n > IntMax THEN IntMax ELSE counted + n
  <1>2. counted' = sum /\ recounted' = recounted
    BY DEF CheckStackSize
  <1> SUFFICES ASSUME counted \in 0 .. IntMax
               PROVE  counted' \in 0 .. IntMax /\ counted' >= counted + n
    BY <1>2
  <1>3. CASE n <= 0
    BY <1>1, <1>2, <1>3
  <1>4. CASE counted' <= MaxStackSize
    BY <1>1, <1>2, <1>4
  <1> QED  BY <1>3, <1>4 DEF Fits

\* After the items were counted anew, whatever is added is allowed.
LEMMA AllowedAnew ==
    ASSUME NEW fs, NEW h, CheckStackSize(FALSE, IntMax, fs, h)
    PROVE  \A n \in Int : Allows(n)
  <1>1. MaxStackSize \in Nat /\ IntMax \in Nat /\ IntMax > MaxStackSize
    BY VMAssumption
  <1> SUFFICES ASSUME NEW n \in Int, Running', ~recounted'
               PROVE  /\ ~recounted
                      /\ counted \in 0 .. IntMax => counted' \in 0 .. IntMax /\ counted' >= counted + n
    BY DEF Allows
  <1> DEFINE sum == IF counted + IntMax < 0 \/ counted + IntMax > IntMax THEN IntMax ELSE counted + IntMax
  <1>2. sum <= MaxStackSize /\ recounted' = recounted
    BY DEF CheckStackSize
  <1>3. counted \notin 0 .. IntMax
    BY <1>1, <1>2
  <1> QED  BY <1>2, <1>3

\* An instruction that is not counted may add nothing.
LEMMA AllowedNone ==
    ASSUME Uncounted
    PROVE  Allows(0)
  <1>1. IntMax \in Nat
    BY VMAssumption
  <1> QED  BY <1>1 DEF Uncounted, Allows

\* An instruction that did not fault fits the limit of the stack.
LEMMA RanFits ==
    ASSUME NEW ins, Ran(ins, Fits)
    PROVE  Running' => Fits
  BY DEF Ran, Running

\* The running context and its stacks.
LEMMA CurTyped ==
    ASSUME Ready
    PROVE  /\ Len(heap.objs) \in Nat /\ Len(frames) \in Nat \ {0}
           /\ Cur = frames[Len(frames)] /\ Cur \in Frame(Len(heap.objs))
           /\ E \in Seq(Item(Len(heap.objs))) /\ A \in Seq(Item(Len(heap.objs)))
           /\ Len(E) \in Nat /\ Len(A) \in Nat /\ Size(E) \in Nat /\ Size(E) <= Len(E)
           /\ Weight(Cur) = Size(E) + Len(A)
           /\ InLists(heap) \in Int /\ OnFrames(frames) \in Nat
  <1>1. HeapTyped(heap) /\ frames \in Seq(Frame(Len(heap.objs))) /\ frames # << >>
    BY DEF Ready, MachineTyped
  <1>2. Len(heap.objs) \in Nat /\ heap.lists \in Seq(Seq(Item(Len(heap.objs))))
    BY <1>1, HeapShape DEF HeapTyped
  <1>3. Len(frames) \in Nat \ {0} /\ frames[Len(frames)] \in Frame(Len(heap.objs))
    BY <1>1
  <1>4. E \in Seq(Item(Len(heap.objs))) /\ A \in Seq(Item(Len(heap.objs)))
    BY <1>3 DEF Frame, Cur, E, A
  <1>5. Size(E) \in Nat /\ Size(E) <= Len(E)
    BY <1>4, SizeBounds
  <1>6. OnFrames(frames) \in Nat
    BY <1>1, <1>2, FramesWeight
  <1>7. InLists(heap) \in Int
    <2>1. \A l \in DOMAIN heap.lists : Len(heap.lists[l]) \in Int
      BY <1>2
    <2>2. IsFiniteSet(DOMAIN heap.lists)
      <3>1. DOMAIN heap.lists = 1 .. Len(heap.lists) /\ Len(heap.lists) \in Nat
        BY <1>2
      <3> QED  BY <3>1, FS_Interval
    <2> DEFINE f == [l \in DOMAIN heap.lists |-> Len(heap.lists[l])]
    <2>3. \A l \in DOMAIN heap.lists : f[l] \in Int
      BY <2>1
    <2>4. InLists(heap) = SumFunctionOnSet(f, DOMAIN heap.lists)
      BY DEF InLists
    <2> HIDE DEF f
    <2> QED  BY <2>2, <2>3, <2>4, SumIsInt
  <1>8. Len(E) \in Nat /\ Len(A) \in Nat
    BY <1>4
  <1> QED  BY <1>2, <1>3, <1>4, <1>5, <1>6, <1>7, <1>8 DEF Weight, Cur, E, A

\* MoveNext with other stacks.
LEMMA MovedKeeps ==
    ASSUME Ready, NEW n \in Nat, Len(heap.objs) <= n,
           NEW eval \in Seq(Item(n)), NEW alt \in Seq(Item(n))
    PROVE  /\ Moved(eval, alt) \in Seq(Frame(n)) /\ Moved(eval, alt) # << >>
           /\ Len(Moved(eval, alt)) = Len(frames)
           /\ Moved(eval, alt)[Len(frames)].eval = eval
           /\ Owing(Moved(eval, alt))
           /\ OnFrames(Moved(eval, alt)) = OnFrames(frames) - (Size(E) + Len(A)) + (Size(eval) + Len(alt))
  <1> DEFINE c == [Cur EXCEPT !.eval = eval, !.alt = alt, !.ip = @ + 1]
  <1>1. /\ frames \in Seq(Frame(n)) /\ Owing(frames) /\ frames # << >>
        /\ Cur = frames[Len(frames)] /\ Cur \in Frame(n) /\ Weight(Cur) = Size(E) + Len(A)
        /\ Len(frames) \in Nat \ {0}
    BY CurTyped, ItemsGrow DEF Ready, MachineTyped
  <1>2. c \in Frame(n) /\ c.owed = Cur.owed /\ c.rv = Cur.rv /\ c.eval = eval /\ c.alt = alt
    <2>1. Cur = [script |-> Cur.script, ip |-> Cur.ip, rv |-> Cur.rv, eval |-> Cur.eval,
                 alt |-> Cur.alt, owed |-> Cur.owed]
      BY <1>1 DEF Frame
    <2> DEFINE ip == Cur.ip + 1
    <2>2. \A a, b, d, e, f, g, x :
              [[script |-> a, ip |-> b, rv |-> d, eval |-> e, alt |-> f, owed |-> g] EXCEPT !.eval = x]
              = [script |-> a, ip |-> b, rv |-> d, eval |-> x, alt |-> f, owed |-> g]
      OBVIOUS
    <2>10. \A a, b, d, e, f, g, x :
              [[script |-> a, ip |-> b, rv |-> d, eval |-> e, alt |-> f, owed |-> g] EXCEPT !.alt = x]
              = [script |-> a, ip |-> b, rv |-> d, eval |-> e, alt |-> x, owed |-> g]
      OBVIOUS
    <2>6. \A a, b, d, e, f, g, i :
              [[script |-> a, ip |-> b, rv |-> d, eval |-> e, alt |-> f, owed |-> g] EXCEPT !.ip = i]
              = [script |-> a, ip |-> i, rv |-> d, eval |-> e, alt |-> f, owed |-> g]
      OBVIOUS
    <2>5. c = [[[Cur EXCEPT !.eval = eval] EXCEPT !.alt = alt] EXCEPT !.ip = ip]
      OBVIOUS
    <2> HIDE DEF ip, c
    <2>3. c = [script |-> Cur.script, ip |-> ip, rv |-> Cur.rv, eval |-> eval, alt |-> alt,
               owed |-> Cur.owed]
      BY <2>1, <2>2, <2>5, <2>6, <2>10, Zenon
    <2>7. Cur \in Frame(n)
      BY <1>1
    <2>4. Cur.script \in Script /\ Cur.rv \in Nat \cup {-1}
      BY <2>7 DEF Frame
    <2>8. ip \in Int
      BY <2>7 DEF Frame, ip
    <2>9. Cur.owed \in [rv : Nat \cup {-1}, kept : Seq(Item(n))]
      BY <2>7 DEF Frame
    <2> QED  BY <2>3, <2>4, <2>8, <2>9 DEF Frame
  <1>3. Moved(eval, alt) = [frames EXCEPT ![Len(frames)] = c]
    BY DEF Moved
  <1> HIDE DEF c
  <1>4. Weight(c) = Size(eval) + Len(alt)
    BY <1>2 DEF Weight
  <1>5. c.owed = frames[Len(frames)].owed /\ c.rv = frames[Len(frames)].rv
    BY <1>1, <1>2
  <1>6. /\ [frames EXCEPT ![Len(frames)] = c] \in Seq(Frame(n))
        /\ Len([frames EXCEPT ![Len(frames)] = c]) = Len(frames)
        /\ [frames EXCEPT ![Len(frames)] = c][Len(frames)] = c
        /\ Owing([frames EXCEPT ![Len(frames)] = c])
        /\ OnFrames([frames EXCEPT ![Len(frames)] = c])
             = OnFrames(frames) - Weight(frames[Len(frames)]) + Weight(c)
    BY <1>1, <1>2, <1>5, TopChanged
  <1> DEFINE fs == Moved(eval, alt)
  <1>7. /\ fs \in Seq(Frame(n)) /\ Len(fs) = Len(frames) /\ fs[Len(frames)] = c /\ Owing(fs)
        /\ OnFrames(fs) = OnFrames(frames) - Weight(frames[Len(frames)]) + Weight(c)
    BY <1>3, <1>6, Zenon
  <1> HIDE DEF fs
  <1>8. fs # << >>
    BY <1>1, <1>7
  <1>9. fs[Len(frames)].eval = eval
    BY <1>2, <1>7
  <1>10. OnFrames(fs) = OnFrames(frames) - (Size(E) + Len(A)) + (Size(eval) + Len(alt))
    BY <1>1, <1>4, <1>7
  <1> QED  BY <1>7, <1>8, <1>9, <1>10 DEF fs

\* An instruction that moves on with other stacks, over a heap that may be new.
LEMMA MovedStep ==
    ASSUME Ready, HeapTyped(heap'), Len(heap.objs) <= Len(heap'.objs),
           NEW eval \in Seq(Item(Len(heap'.objs))), NEW alt \in Seq(Item(Len(heap'.objs))),
           frames' = Moved(eval, alt), UNCHANGED multisigs,
           NEW n \in Int, Allows(n), InLists(heap') \in Int,
           Size(eval) + Len(alt) + InLists(heap') <= Size(E) + Len(A) + InLists(heap) + n
    PROVE  Stepped
  <1> DEFINE m == Len(heap'.objs)
  <1>1. m \in Nat
    BY HeapShape
  <1> HIDE DEF m
  <1>2. /\ frames' \in Seq(Frame(m)) /\ frames' # << >> /\ Len(frames') = Len(frames) /\ Owing(frames')
        /\ OnFrames(frames') = OnFrames(frames) - (Size(E) + Len(A)) + (Size(eval) + Len(alt))
    <2>1. Len(heap.objs) <= m /\ eval \in Seq(Item(m)) /\ alt \in Seq(Item(m))
      BY DEF m
    <2> QED  BY <1>1, <2>1, MovedKeeps
  <1>3. /\ Size(E) \in Nat /\ Len(A) \in Nat /\ InLists(heap) \in Int /\ OnFrames(frames) \in Nat
        /\ Len(frames) \in Nat
    BY CurTyped
  <1>4. Size(eval) \in Nat /\ Len(alt) \in Nat
    BY SizeBounds
  <1> DEFINE a == Size(E)
             b == Len(A)
             c == Size(eval)
             d == Len(alt)
             e == InLists(heap)
             f == InLists(heap')
             g == OnFrames(frames)
             k == OnFrames(frames')
  <1>5. /\ a \in Int /\ b \in Int /\ c \in Int /\ d \in Int /\ e \in Int /\ f \in Int /\ g \in Int
        /\ k = g - (a + b) + (c + d) /\ c + d + f <= a + b + e + n
    BY <1>2, <1>3, <1>4
  <1> HIDE DEF a, b, c, d, e, f, g, k
  <1>6. k + f <= g + e + n /\ k + f \in Int /\ g + e \in Int
    BY <1>5
  <1>7. Carried' = k + f /\ Carried = g + e
    BY DEF Carried, k, f, g, e
  <1>8. Carried' + multisigs <= Carried + n + multisigs'
    <2> DEFINE x == Carried'
               y == Carried
    <2>1. x \in Int /\ y \in Int /\ x <= y + n /\ multisigs \in Int
      BY <1>6, <1>7 DEF Ready
    <2> HIDE DEF x, y
    <2>2. x + multisigs <= y + n + multisigs
      BY <2>1
    <2> QED  BY <2>2 DEF x, y
  <1>9. MachineTyped'
    BY <1>2 DEF MachineTyped, m
  <1> QED  BY <1>2, <1>3, <1>8, <1>9 DEF Stepped

\* The same over the same heap.
LEMMA StackStep ==
    ASSUME Ready, UNCHANGED <<heap, multisigs>>,
           NEW eval \in Seq(Item(Len(heap.objs))), NEW alt \in Seq(Item(Len(heap.objs))),
           frames' = Moved(eval, alt), NEW n \in Int, Allows(n),
           Size(eval) + Len(alt) <= Size(E) + Len(A) + n
    PROVE  Stepped
  <1>1. heap' = heap /\ HeapTyped(heap) /\ Len(heap.objs) \in Nat
    BY CurTyped DEF Ready, MachineTyped
  <1>2. HeapTyped(heap') /\ Len(heap.objs) <= Len(heap'.objs)
    BY <1>1
  <1>3. InLists(heap') = InLists(heap) /\ InLists(heap) \in Int
    BY <1>1, CurTyped
  <1>4. Size(eval) \in Nat /\ Len(alt) \in Nat /\ Size(E) \in Nat /\ Len(A) \in Nat
    BY SizeBounds, CurTyped
  <1> DEFINE a == Size(E) + Len(A)
             c == Size(eval) + Len(alt)
             e == InLists(heap)
  <1>5. a \in Int /\ c \in Int /\ e \in Int /\ c <= a + n
    BY <1>3, <1>4
  <1> HIDE DEF a, c, e
  <1>6. c + e <= a + e + n
    BY <1>5
  <1>7. Size(eval) + Len(alt) + InLists(heap') <= Size(E) + Len(A) + InLists(heap) + n
    BY <1>3, <1>6 DEF a, c, e
  <1>8. eval \in Seq(Item(Len(heap'.objs))) /\ alt \in Seq(Item(Len(heap'.objs))) /\ InLists(heap') \in Int
    BY <1>1, <1>3
  <1> QED  BY <1>2, <1>7, <1>8, MovedStep

\* And with the other stack as it was.
LEMMA EvalStep ==
    ASSUME Ready, UNCHANGED <<heap, multisigs>>,
           NEW eval \in Seq(Item(Len(heap.objs))),
           frames' = Moved(eval, A), NEW n \in Int, Allows(n), Size(eval) <= Size(E) + n
    PROVE  Stepped
  <1>1. A \in Seq(Item(Len(heap.objs))) /\ Len(A) \in Nat /\ Size(E) \in Nat
    BY CurTyped
  <1>2. Size(eval) \in Nat
    BY SizeBounds
  <1> DEFINE a == A
  <1>3. a \in Seq(Item(Len(heap.objs))) /\ frames' = Moved(eval, a)
        /\ Size(eval) + Len(a) <= Size(E) + Len(A) + n
    <2> DEFINE x == Size(eval)
               y == Size(E)
               z == Len(A)
    <2>1. x \in Int /\ y \in Int /\ z \in Int /\ x <= y + n
      BY <1>1, <1>2
    <2> HIDE DEF x, y, z
    <2>2. x + z <= y + z + n
      BY <2>1
    <2> QED  BY <1>1, <2>2 DEF x, y, z
  <1> HIDE DEF a
  <1> QED  BY <1>3, StackStep

-----------------------------------------------------------------------------
(* Instructions on the stacks.                                             *)

\* An item that an instruction can reach is no hole.
LEMMA ItemAt ==
    ASSUME NEW n \in Nat, NEW s \in Seq(Item(n)), NEW i \in Nat, Reach(s, i)
    PROVE  /\ Len(s) \in Nat /\ i < Len(s) /\ Len(s) - i \in 1 .. Len(s)
           /\ Peek(s, i) = s[Len(s) - i] /\ Peek(s, i) \in Item(n)
           /\ Peek(s, i) # Hole /\ Counts(Peek(s, i)) = 1
  <1>1. Len(s) \in Nat /\ i < Len(s) /\ Peek(s, i) # Hole /\ Peek(s, i) = s[Len(s) - i]
    BY DEF Reach, Peek
  <1>2. Len(s) - i \in 1 .. Len(s)
    BY <1>1
  <1> QED  BY <1>1, <1>2, CountsType DEF Counts

\* One item is put on top.
LEMMA PushStep ==
    ASSUME Ready, UNCHANGED <<heap, multisigs>>, NEW x \in Item(Len(heap.objs)),
           frames' = Moved(Push(E, <<x>>), A), Allows(1)
    PROVE  Stepped
  <1> DEFINE eval == Push(E, <<x>>)
  <1>1. E \in Seq(Item(Len(heap.objs))) /\ Size(E) \in Nat
    BY CurTyped
  <1>2. eval \in Seq(Item(Len(heap.objs))) /\ Size(eval) = Size(E) + Counts(x)
    BY <1>1, PushOne
  <1>3. Size(eval) <= Size(E) + 1
    BY <1>1, <1>2, CountsType
  <1> DEFINE n == 1
  <1>4. frames' = Moved(eval, A) /\ n \in Int /\ Allows(n) /\ Size(eval) <= Size(E) + n
    BY <1>3
  <1> HIDE DEF eval, n
  <1> QED  BY <1>2, <1>4, EvalStep

\* What CheckStackSize allows, for the usual counts.
LEMMA OneAllowed ==
    ASSUME NEW ins, NEW s, NEW fs, NEW h, CheckStackSize(s, 1, fs, h), Ran(ins, Fits)
    PROVE  Allows(1)
  <1>1. Running' => Fits
    BY RanFits
  <1>2. 1 \in Int
    OBVIOUS
  <1> QED  BY <1>1, <1>2, Allowed

\* An instruction that pops is allowed to.
LEMMA FewerAllowed ==
    ASSUME NEW s, NEW n \in Int, n <= 0, NEW fs, NEW h, CheckStackSize(s, n, fs, h)
    PROVE  Allows(n)
  BY Allowed

\* k items are popped and xs pushed, and n more were counted.
LEMMA PopStep ==
    ASSUME Ready, UNCHANGED <<heap, multisigs>>, NEW k \in Nat, k <= Len(E),
           \A i \in 0 .. k - 1 : Reach(E, i),
           NEW xs \in Seq(Item(Len(heap.objs))), frames' = Moved(Less(E, k) \o xs, A),
           NEW n \in Int, Allows(n), Len(xs) <= k + n
    PROVE  Stepped
  <1> DEFINE eval == Less(E, k) \o xs
  <1>1. E \in Seq(Item(Len(heap.objs))) /\ Size(E) \in Nat /\ Len(E) \in Nat
    BY CurTyped
  <1>2. Less(E, k) \in Seq(Item(Len(heap.objs))) /\ Size(Less(E, k)) = Size(E) - k
    <2>1. k \in 0 .. Len(E)
      BY <1>1
    <2>2. \A i \in 0 .. k - 1 : Peek(E, i) # Hole
      BY Zenon DEF Reach, Peek
    <2> QED  BY <1>1, <2>1, <2>2, LessUpper
  <1>3. eval \in Seq(Item(Len(heap.objs))) /\ Size(eval) = Size(Less(E, k)) + Size(xs)
    BY <1>2, Joined
  <1>4. Size(xs) \in Nat /\ Len(xs) \in Nat /\ Size(xs) <= Len(xs)
    BY SizeBounds
  <1>5. Size(eval) <= Size(E) + n
    BY <1>1, <1>2, <1>3, <1>4
  <1>6. frames' = Moved(eval, A)
    OBVIOUS
  <1> HIDE DEF eval
  <1> QED  BY <1>3, <1>5, <1>6, EvalStep

\* k items are popped.
LEMMA LessStep ==
    ASSUME Ready, UNCHANGED <<heap, multisigs>>, NEW k \in Nat, k <= Len(E),
           \A i \in 0 .. k - 1 : Reach(E, i),
           frames' = Moved(Less(E, k), A), NEW n \in Int, n = 0 - k, Allows(n)
    PROVE  Stepped
  <1> DEFINE eval == Less(E, k)
  <1>1. E \in Seq(Item(Len(heap.objs))) /\ Size(E) \in Nat /\ Len(E) \in Nat
    BY CurTyped
  <1>2. eval \in Seq(Item(Len(heap.objs))) /\ Size(eval) = Size(E) - k
    <2>1. k \in 0 .. Len(E)
      BY <1>1
    <2>2. \A i \in 0 .. k - 1 : Peek(E, i) # Hole
      BY Zenon DEF Reach, Peek
    <2> QED  BY <1>1, <2>1, <2>2, LessUpper
  <1>3. frames' = Moved(eval, A) /\ Size(eval) <= Size(E) + n
    BY <1>1, <1>2
  <1> HIDE DEF eval
  <1> QED  BY <1>2, <1>3, EvalStep

\* PUSH0 to PUSH16, PUSHM1 and PUSHBYTES: one item is pushed and counted.
LEMMA PushValueSteps ==
    ASSUME Ready, NEW ins \in Instruction, PushValue(ins)
    PROVE  Stepped
  <1>1. Len(E) \in Int /\ ins.n \in Int /\ Len(heap.objs) \in Nat
    BY CurTyped DEF Instruction
  <1>2. Pushed(ins) \in Item(Len(heap.objs))
    BY <1>1, ItemTypes DEF Pushed
  <1>3. Allows(1)
    <2>1. CheckStackSize(TRUE, 1, frames', heap) /\ Ran(ins, Fits)
      BY DEF PushValue
    <2> QED  BY <2>1, OneAllowed
  <1>4. UNCHANGED <<heap, multisigs>> /\ frames' = Moved(Push(E, <<Pushed(ins)>>), A)
    BY DEF PushValue
  <1> QED  BY <1>2, <1>3, <1>4, PushStep

\* NOP moves on.
LEMMA NopSteps ==
    ASSUME Ready, NEW ins \in Instruction, Nop(ins)
    PROVE  Stepped
  <1>1. Allows(0) /\ UNCHANGED <<heap, multisigs>> /\ frames' = Moved(E, A)
    BY AllowedNone DEF Nop
  <1>2. E \in Seq(Item(Len(heap.objs))) /\ Size(E) \in Nat
    BY CurTyped
  <1>3. Size(E) <= Size(E) + 0
    BY <1>2
  <1> DEFINE eval == E
  <1>4. eval \in Seq(Item(Len(heap.objs))) /\ frames' = Moved(eval, A) /\ Size(eval) <= Size(E) + 0
    BY <1>1, <1>2, <1>3
  <1> HIDE DEF eval
  <1> QED  BY <1>1, <1>4, EvalStep

\* One item is taken out of a stack, and put on top.
LEMMA RollProperties ==
    ASSUME NEW n \in Nat, NEW s \in Seq(Item(n)), NEW i \in Nat, Reach(s, i)
    PROVE  /\ Without(s, i) \in Seq(Item(n)) /\ Size(Without(s, i)) = Size(s) - 1
           /\ Push(Without(s, i), <<Peek(s, i)>>) \in Seq(Item(n))
           /\ Size(Push(Without(s, i), <<Peek(s, i)>>)) = Size(s)
  <1> DEFINE k == Len(s) - i
             x == Peek(s, i)
             t == Without(s, i)
  <1>1. k \in 1 .. Len(s) /\ x = s[k] /\ x \in Item(n) /\ Counts(x) = 1 /\ t = RemoveAt(s, k)
    BY ItemAt DEF Without
  <1>2. Size(s) \in Nat
    BY SizeBounds
  <1> HIDE DEF k, x, t
  <1>3. RemoveAt(s, k) \in Seq(Item(n)) /\ Size(RemoveAt(s, k)) = Size(s) - Counts(s[k])
    BY <1>1, RemoveProperties
  <1>4. t \in Seq(Item(n)) /\ Size(t) = Size(s) - 1
    BY <1>1, <1>2, <1>3
  <1>5. Push(t, <<x>>) \in Seq(Item(n)) /\ Size(Push(t, <<x>>)) = Size(t) + Counts(x)
    BY <1>1, <1>4, PushOne
  <1>6. Size(Push(t, <<x>>)) = Size(s)
    BY <1>1, <1>2, <1>4, <1>5
  <1> QED  BY <1>4, <1>5, <1>6 DEF t, x

\* DUP, DROP, OVER, ROT and the like (ExecutionEngine.ExecuteOp): what they add to the stack
\* is what they count.
LEMMA ShuffleSteps ==
    ASSUME Ready, NEW ins \in Instruction, Shuffle(ins)
    PROVE  Stepped
  <1> DEFINE d == Depths[ins.op]
             n == Len(heap.objs)
  <1>1. /\ CanShuffle(ins) /\ frames' = Moved(Shuffled(ins.op), A)
        /\ UNCHANGED <<heap, multisigs>>
    BY DEF Shuffle
  <1>2. E \in Seq(Item(n)) /\ n \in Nat /\ Size(E) \in Nat /\ Len(E) \in Nat
    BY CurTyped
  <1>3. Reach(E, d) /\ (ins.op = "TUCK" => Len(E) >= 2)
    BY <1>1 DEF CanShuffle
  <1> HIDE DEF n, d
  <1>4. CASE ins.op \in {"DUP", "OVER"}
    <2>1. d \in Nat /\ Shuffled(ins.op) = Push(E, <<Peek(E, d)>>)
      BY <1>4 DEF Shuffled, Depths, d
    <2>2. Peek(E, d) \in Item(n)
      BY <1>2, <1>3, <2>1, ItemAt
    <2>3. Allows(1)
      BY <1>4, OneAllowed DEF Shuffle
    <2>4. frames' = Moved(Push(E, <<Peek(E, d)>>), A)
      BY <1>1, <2>1
    <2> QED  BY <1>1, <2>2, <2>3, <2>4, PushStep DEF n
  <1>5. CASE ins.op = "TUCK"
    <2> DEFINE x == Peek(E, 0)
               k == Len(E) - 1
               eval == InsertAt(E, k, x)
               one == 1
    <2>1. Shuffled(ins.op) = eval /\ d = 0
      BY <1>5 DEF Shuffled, Depths, d
    <2>2. x \in Item(n) /\ k \in 1 .. Len(E) + 1
      BY <1>2, <1>3, <1>5, <2>1, ItemAt
    <2>3. one \in Int /\ Allows(one)
      <3>1. CheckStackSize(TRUE, 1, frames', heap) /\ Ran(ins, Fits)
        BY <1>5 DEF Shuffle
      <3>2. Allows(1)
        BY <3>1, OneAllowed
      <3> QED  BY <3>2
    <2>4. frames' = Moved(eval, A)
      BY <1>1, <2>1
    <2> HIDE DEF x, k
    <2>5. eval \in Seq(Item(n)) /\ Size(eval) = Size(E) + Counts(x)
      BY <1>2, <2>2, InsertProperties
    <2>6. Size(eval) <= Size(E) + one
      BY <1>2, <2>5, CountsType
    <2> HIDE DEF eval, one
    <2> QED  BY <1>1, <2>3, <2>4, <2>5, <2>6, EvalStep DEF n
  <1>6. CASE ins.op \in {"NIP", "DROP"}
    <2> DEFINE eval == Shuffled(ins.op)
               less == -1
    <2>1. less \in Int /\ Allows(less)
      <3>1. less \in Int /\ less <= 0
        OBVIOUS
      <3>2. CheckStackSize(FALSE, -1, frames', heap)
        BY <1>6 DEF Shuffle
      <3>3. CheckStackSize(FALSE, less, frames', heap)
        BY <3>2
      <3> HIDE DEF less
      <3> QED  BY <3>1, <3>3, FewerAllowed
    <2>2. eval \in Seq(Item(n)) /\ Size(eval) = Size(E) - 1
      <3>1. CASE ins.op = "NIP"
        <4>1. eval = Without(E, 1)
          BY <3>1 DEF Shuffled
        <4>2. d = 1
          BY <3>1 DEF Depths, d
        <4>3. Reach(E, 1) /\ 1 \in Nat
          BY <1>3, <4>2
        <4> HIDE DEF eval
        <4> QED  BY <1>2, <4>1, <4>3, RollProperties
      <3>2. CASE ins.op = "DROP"
        <4>1. d = 0 /\ eval = Less(E, 1)
          BY <3>2 DEF Shuffled, Depths, d
        <4>2. 1 \in 0 .. Len(E) /\ \A i \in 0 .. 1 - 1 : Peek(E, i) # Hole
          BY <1>2, <1>3, <4>1 DEF Reach, Peek
        <4>3. Less(E, 1) \in Seq(Item(n)) /\ Size(Less(E, 1)) = Size(E) - 1
          BY <1>2, <4>2, LessUpper
        <4> QED  BY <4>1, <4>3
      <3> QED  BY <1>6, <3>1, <3>2
    <2>3. frames' = Moved(eval, A) /\ Size(eval) <= Size(E) + less
      BY <1>1, <1>2, <2>2
    <2> HIDE DEF eval, less
    <2> QED  BY <1>1, <2>1, <2>2, <2>3, EvalStep DEF n
  <1>7. CASE ins.op \in {"ROT", "SWAP"}
    <2> DEFINE eval == Shuffled(ins.op)
               none == 0
    <2>1. none \in Int /\ Allows(none)
      <3>1. Uncounted
        BY <1>7 DEF Shuffle
      <3>2. Allows(0)
        BY <3>1, AllowedNone
      <3> QED  BY <3>2
    <2>2. d \in Nat /\ eval = Push(Without(E, d), <<Peek(E, d)>>)
      BY <1>7 DEF Shuffled, Depths, d
    <2>3. eval \in Seq(Item(n)) /\ Size(eval) = Size(E)
      <3> HIDE DEF eval
      <3> QED  BY <1>2, <1>3, <2>2, RollProperties
    <2>4. frames' = Moved(eval, A) /\ Size(eval) <= Size(E) + none
      BY <1>1, <1>2, <2>3
    <2> HIDE DEF eval, none
    <2> QED  BY <1>1, <2>1, <2>3, <2>4, EvalStep DEF n
  <1>8. ins.op \in {"DUP", "OVER", "TUCK", "NIP", "DROP", "ROT", "SWAP"}
    BY DEF Shuffle, Depths
  <1> QED  BY <1>4, <1>5, <1>6, <1>7, <1>8

\* A fault leaves the machine as it was, and ends the execution.
LEMMA FaultSteps ==
    ASSUME Ready, Fault
    PROVE  Stepped
  <1>1. /\ frames' = frames /\ heap' = heap /\ multisigs' = multisigs /\ ~Running'
    BY DEF Fault, machine, Running
  <1>2. MachineTyped'
    BY <1>1 DEF Ready, MachineTyped
  <1>3. Carried' = Carried /\ Carried \in Int
    BY <1>1, CurTyped DEF Carried
  <1>4. Allows(0)
    BY <1>1 DEF Allows
  <1>5. Carried' + multisigs <= Carried + 0 + multisigs'
    <2> DEFINE x == Carried
    <2>1. x \in Int /\ multisigs \in Int
      BY <1>3 DEF Ready
    <2> HIDE DEF x
    <2>2. x + multisigs <= x + 0 + multisigs
      BY <2>1
    <2> QED  BY <1>1, <1>3, <2>2 DEF x
  <1>6. Len(frames') >= Len(frames) /\ frames' # << >>
    BY <1>1, CurTyped DEF Ready
  <1> QED  BY <1>2, <1>4, <1>5, <1>6 DEF Stepped

\* DUPFROMALTSTACK, TOALTSTACK and FROMALTSTACK, between the two stacks.
LEMMA AltStackSteps ==
    ASSUME Ready, NEW ins \in Instruction, AltStack(ins)
    PROVE  Stepped
  <1> DEFINE n == Len(heap.objs)
  <1>1. /\ E \in Seq(Item(n)) /\ A \in Seq(Item(n)) /\ n \in Nat /\ Size(E) \in Nat
        /\ Len(E) \in Nat /\ Len(A) \in Nat
    BY CurTyped
  <1>2. UNCHANGED <<heap, multisigs>>
    BY DEF AltStack
  <1> HIDE DEF n
  <1>3. CASE ins.op = "DUPFROMALTSTACK"
    <2>1. /\ A # << >> /\ frames' = Moved(Push(E, <<Peek(A, 0)>>), A)
          /\ CheckStackSize(TRUE, 1, frames', heap) /\ Ran(ins, Fits)
      BY <1>3 DEF AltStack
    <2>2. Allows(1)
      BY <2>1, OneAllowed
    <2>3. Peek(A, 0) \in Item(n)
      BY <1>1, <2>1 DEF Peek
    <2> QED  BY <1>2, <2>1, <2>2, <2>3, PushStep DEF n
  <1>4. CASE ins.op # "DUPFROMALTSTACK"
    <2> DEFINE none == 0
    <2>1. none \in Int /\ Allows(none)
      <3>1. Uncounted
        BY <1>4 DEF AltStack
      <3>2. Allows(0)
        BY <3>1, AllowedNone
      <3> QED  BY <3>2
    <2> HIDE DEF none
    <2>2. CASE ins.op = "TOALTSTACK"
      <3> DEFINE x == Peek(E, 0)
                 eval == Less(E, 1)
                 alt == Append(A, x)
      <3>1. Reach(E, 0) /\ frames' = Moved(eval, alt)
        BY <2>2 DEF AltStack
      <3>2. x \in Item(n) /\ 1 \in 0 .. Len(E) /\ \A i \in 0 .. 1 - 1 : Peek(E, i) # Hole
        <4>1. x \in Item(n) /\ x # Hole /\ 0 < Len(E)
          BY <1>1, <3>1, ItemAt
        <4> QED  BY <1>1, <4>1
      <3>3. eval \in Seq(Item(n)) /\ Size(eval) = Size(E) - 1
        BY <1>1, <3>2, LessUpper
      <3> HIDE DEF x
      <3>4. alt \in Seq(Item(n)) /\ Len(alt) = Len(A) + 1
        BY <1>1, <3>2, AppendSize
      <3> HIDE DEF eval, alt
      <3>5. Size(eval) + Len(alt) <= Size(E) + Len(A) + none
        BY <1>1, <3>3, <3>4 DEF none
      <3> QED  BY <1>2, <2>1, <3>1, <3>3, <3>4, <3>5, StackStep DEF n
    <2>3. CASE ins.op = "FROMALTSTACK"
      <3> DEFINE x == Peek(A, 0)
                 eval == Push(E, <<x>>)
                 alt == Less(A, 1)
      <3>1. A # << >> /\ frames' = Moved(eval, alt)
        BY <2>3 DEF AltStack
      <3>2. x \in Item(n) /\ 1 \in 0 .. Len(A)
        BY <1>1, <3>1 DEF Peek
      <3> HIDE DEF x
      <3>3. eval \in Seq(Item(n)) /\ Size(eval) = Size(E) + Counts(x)
        BY <1>1, <3>2, PushOne
      <3>4. alt \in Seq(Item(n)) /\ Len(alt) = Len(A) - 1
        BY <1>1, <3>2, LessUpper
      <3> HIDE DEF eval, alt
      <3>5. Size(eval) + Len(alt) <= Size(E) + Len(A) + none
        <4>1. Counts(x) \in Int /\ Counts(x) <= 1
          BY CountsType
        <4> QED  BY <1>1, <3>3, <3>4, <4>1 DEF none
      <3> QED  BY <1>2, <2>1, <3>1, <3>3, <3>4, <3>5, StackStep DEF n
    <2>4. ins.op \in {"TOALTSTACK", "FROMALTSTACK"}
      BY <1>4 DEF AltStack
    <2> QED  BY <2>2, <2>3, <2>4
  <1> QED  BY <1>3, <1>4

\* Two places of a stack exchange what they hold.
LEMMA SwapSize ==
    ASSUME NEW S, NEW s \in Seq(S), NEW i \in 1 .. Len(s), NEW j \in 1 .. Len(s), i # j
    PROVE  /\ [s EXCEPT ![i] = s[j], ![j] = s[i]] \in Seq(S)
           /\ Size([s EXCEPT ![i] = s[j], ![j] = s[i]]) = Size(s)
  <1> DEFINE x == s[j]
             y == s[i]
             t == [s EXCEPT ![i] = x]
             u == [t EXCEPT ![j] = y]
  <1>1. x \in S /\ y \in S
    OBVIOUS
  <1>2. [s EXCEPT ![i] = x, ![j] = y] = u
    OBVIOUS
  <1>3. Size(s) \in Nat /\ Counts(x) \in Int /\ Counts(y) \in Int
    BY SizeBounds, CountsType
  <1> HIDE DEF x
  <1>4. /\ t \in Seq(S) /\ Len(t) = Len(s) /\ Size(t) = Size(s) - Counts(s[i]) + Counts(x)
        /\ \A k \in 1 .. Len(s) : t[k] = IF k = i THEN x ELSE s[k]
    BY <1>1, ExceptProperties
  <1>5. t[j] = x
    BY <1>4 DEF x
  <1> HIDE DEF t, y
  <1>6. u \in Seq(S) /\ Size(u) = Size(t) - Counts(t[j]) + Counts(y)
    <2>1. j \in 1 .. Len(t)
      BY <1>4
    <2> QED  BY <1>1, <1>4, <2>1, ExceptProperties
  <1> HIDE DEF u
  <1>7. Size(t) = Size(s) - Counts(y) + Counts(x) /\ Size(u) = Size(t) - Counts(x) + Counts(y)
    BY <1>4, <1>5, <1>6 DEF y
  <1>8. Size(u) = Size(s)
    BY <1>3, <1>7
  <1>9. [s EXCEPT ![i] = s[j], ![j] = s[i]] = u
    BY <1>2 DEF x, y
  <1> QED  BY <1>6, <1>8, <1>9

\* The instructions that take the place they work at from the stack: XDROP, XSWAP, XTUCK, PICK
\* and ROLL.
LEMMA IndexSteps ==
    ASSUME Ready, NEW ins \in Instruction, Index(ins)
    PROVE  Stepped
  <1> DEFINE m == Len(heap.objs)
             n == Peek(E, 0)[2]
             s == Less(E, 1)
  <1>1. /\ E \in Seq(Item(m)) /\ m \in Nat /\ Size(E) \in Nat /\ Len(E) \in Nat
    BY CurTyped
  <1>2. UNCHANGED <<heap, multisigs>> /\ CanIndex(ins) /\ ins.op \in IndexOps
    BY DEF Index
  <1> HIDE DEF m
  <1>3. s \in Seq(Item(m)) /\ Size(s) = Size(E) - 1 /\ Len(s) \in Nat
    <2>1. Reach(E, 0)
      BY <1>2 DEF CanIndex
    <2>2. 0 < Len(E) /\ Peek(E, 0) # Hole
      BY <1>1, <2>1, ItemAt
    <2>3. 1 \in 0 .. Len(E) /\ \A i \in 0 .. 1 - 1 : Peek(E, i) # Hole
      BY <1>1, <2>2
    <2>4. s \in Seq(Item(m)) /\ Size(s) = Size(E) - 1
      BY <1>1, <2>3, LessUpper
    <2> HIDE DEF s
    <2> QED  BY <2>4
  <1>4. n \in Nat
    <2>1. Reach(E, 0) /\ IsNum(Peek(E, 0)) /\ n >= 0
      BY <1>2 DEF CanIndex
    <2>2. Peek(E, 0) \in Item(m)
      BY <1>1, <2>1, ItemAt
    <2>3. n \in Int
      BY <1>1, <2>1, <2>2, ItemCases DEF IsNum
    <2> QED  BY <2>1, <2>3
  <1>5. CASE ins.op = "XDROP"
    <2> DEFINE eval == Without(s, n)
               less == -2
    <2>1. Reach(s, n)
      BY <1>2, <1>5 DEF CanIndex
    <2>2. frames' = Moved(eval, A)
      BY <1>5 DEF Index
    <2>3. CheckStackSize(FALSE, less, frames', heap)
      BY <1>5 DEF Index
    <2>4. less \in Int /\ less <= 0
      OBVIOUS
    <2> HIDE DEF s, n
    <2>5. eval \in Seq(Item(m)) /\ Size(eval) = Size(s) - 1
      BY <1>1, <1>3, <1>4, <2>1, RollProperties
    <2>6. Size(eval) <= Size(E) + less
      BY <1>1, <1>3, <2>5
    <2> HIDE DEF eval, less
    <2>7. Allows(less)
      BY <2>3, <2>4, FewerAllowed
    <2> QED  BY <1>2, <2>2, <2>4, <2>5, <2>6, <2>7, EvalStep DEF m
  <1>6. CASE ins.op \in {"XSWAP", "ROLL"}
    <2> DEFINE rolled == Push(Without(s, n), <<Peek(s, n)>>)
               swapped == [s EXCEPT ![Len(s) - n] = Peek(s, 0), ![Len(s)] = Peek(s, n)]
               eval == IF n = 0 THEN s ELSE IF ins.op = "ROLL" THEN rolled ELSE swapped
               less == -1
    <2>1. n = 0 \/ Reach(s, n)
      BY <1>2, <1>6 DEF CanIndex
    <2>2. frames' = Moved(eval, A)
      <3>1. CASE ins.op = "ROLL"
        BY <3>1 DEF Index
      <3>2. CASE ins.op = "XSWAP"
        BY <3>2 DEF Index
      <3> QED  BY <1>6, <3>1, <3>2
    <2>3. CheckStackSize(TRUE, less, frames', heap)
      BY <1>6 DEF Index
    <2>4. less \in Int /\ less <= 0
      OBVIOUS
    <2> HIDE DEF s, n
    <2>5. eval \in Seq(Item(m)) /\ Size(eval) = Size(s)
      <3>1. CASE n = 0
        BY <1>3, <3>1
      <3>2. CASE n # 0
        <4>1. Reach(s, n) /\ Len(s) - n \in 1 .. Len(s) /\ n < Len(s)
          BY <1>1, <1>3, <1>4, <2>1, <3>2, ItemAt
        <4>2. rolled \in Seq(Item(m)) /\ Size(rolled) = Size(s)
          BY <1>1, <1>3, <1>4, <4>1, RollProperties
        <4>3. swapped \in Seq(Item(m)) /\ Size(swapped) = Size(s)
          <5> DEFINE i == Len(s) - n
                     j == Len(s)
          <5>1. i \in 1 .. Len(s) /\ j \in 1 .. Len(s) /\ i # j
            BY <1>3, <1>4, <3>2, <4>1
          <5>2. Peek(s, 0) = s[j] /\ Peek(s, n) = s[i]
            BY <1>3, <1>4 DEF Peek
          <5> HIDE DEF i, j
          <5>3. /\ [s EXCEPT ![i] = s[j], ![j] = s[i]] \in Seq(Item(m))
                /\ Size([s EXCEPT ![i] = s[j], ![j] = s[i]]) = Size(s)
            BY <1>3, <5>1, SwapSize
          <5>4. swapped = [s EXCEPT ![i] = s[j], ![j] = s[i]]
            BY <5>2 DEF i, j
          <5> QED  BY <5>3, <5>4
        <4> HIDE DEF rolled, swapped
        <4> QED  BY <3>2, <4>2, <4>3
      <3> QED  BY <3>1, <3>2
    <2> HIDE DEF rolled, swapped, eval
    <2>6. Size(eval) <= Size(E) + less
      BY <1>1, <1>3, <2>5
    <2> HIDE DEF less
    <2>7. Allows(less)
      BY <2>3, <2>4, FewerAllowed
    <2> QED  BY <1>2, <2>2, <2>4, <2>5, <2>6, <2>7, EvalStep DEF m
  <1>7. CASE ins.op \in {"XTUCK", "PICK"}
    <2> DEFINE eval == IF ins.op = "PICK" THEN Push(s, <<Peek(s, n)>>)
                       ELSE InsertAt(s, Len(s) - n + 1, Peek(s, 0))
               none == 0
    <2>1. /\ ins.op = "PICK" => Reach(s, n)
          /\ ins.op = "XTUCK" => n > 0 /\ n <= Len(s)
      BY <1>2, <1>7 DEF CanIndex
    <2>2. frames' = Moved(eval, A)
      <3>1. CASE ins.op = "PICK"
        BY <3>1 DEF Index
      <3>2. CASE ins.op = "XTUCK"
        BY <3>2 DEF Index
      <3> QED  BY <1>7, <3>1, <3>2
    <2>3. none \in Int /\ Allows(none)
      <3>1. Uncounted
        BY <1>7 DEF Index
      <3>2. Allows(0)
        BY <3>1, AllowedNone
      <3> QED  BY <3>2
    <2> HIDE DEF s, n
    <2>4. \E x : eval \in Seq(Item(m)) /\ Size(eval) = Size(s) + Counts(x)
      <3>1. CASE ins.op = "PICK"
        <4> DEFINE x == Peek(s, n)
        <4>1. x \in Item(m)
          BY <1>1, <1>3, <1>4, <2>1, <3>1, ItemAt
        <4>2. eval = Push(s, <<x>>)
          BY <3>1
        <4> HIDE DEF x, eval
        <4> QED  BY <1>3, <4>1, <4>2, PushOne
      <3>2. CASE ins.op = "XTUCK"
        <4> DEFINE x == Peek(s, 0)
                   k == Len(s) - n + 1
        <4>1. x \in Item(m) /\ k \in 1 .. Len(s) + 1
          BY <1>3, <1>4, <2>1, <3>2 DEF Peek
        <4>2. eval = InsertAt(s, k, x)
          BY <3>2
        <4> HIDE DEF x, k, eval
        <4> QED  BY <1>3, <4>1, <4>2, InsertProperties
      <3> QED  BY <1>7, <3>1, <3>2
    <2> HIDE DEF eval
    <2>5. Size(eval) <= Size(E) + none
      BY <1>1, <1>3, <2>4, CountsType
    <2> HIDE DEF none
    <2> QED  BY <1>2, <2>2, <2>3, <2>4, <2>5, EvalStep DEF m
  <1> QED  BY <1>2, <1>5, <1>6, <1>7 DEF IndexOps

\* The operands of a computation are replaced by its result.
LEMMA ReplaceSteps ==
    ASSUME Ready, NEW ins \in Instruction, NEW results \in SUBSET Int, ins.op \in DOMAIN Popped,
           Replace(ins, results)
    PROVE  Stepped
  <1> DEFINE m == Len(heap.objs)
             k == Popped[ins.op]
  <1>1. E \in Seq(Item(m)) /\ m \in Nat /\ Len(E) \in Nat
    BY CurTyped
  <1>2. k \in {1, 2, 3}
    BY DEF Popped
  <1>3. UNCHANGED <<heap, multisigs>> /\ CanCompute(ins)
    BY DEF Replace
  <1>4. PICK v \in results : frames' = Moved(Append(Less(E, k), Num(v)), A)
    BY DEF Replace
  <1>5. \A i \in 0 .. k - 1 : Reach(E, i)
    BY <1>3 DEF CanCompute
  <1>6. (Uncounted /\ k = 1) \/ \E s : CheckStackSize(s, 1 - k, frames', heap)
    BY DEF Replace
  <1> HIDE DEF m, k
  <1>7. k \in Nat /\ k <= Len(E)
    <2>1. k - 1 \in 0 .. k - 1
      BY <1>2
    <2>2. Reach(E, k - 1)
      BY <1>5, <2>1
    <2>3. k - 1 < Len(E)
      BY <2>2 DEF Reach
    <2> QED  BY <1>1, <1>2, <2>3
  <1> DEFINE n == 1 - k
             x == Num(v)
             xs == <<x>>
  <1>8. n \in Int /\ n <= 0
    BY <1>2
  <1>9. x \in Item(m)
    BY <1>1, <1>4, ItemTypes
  <1> HIDE DEF x
  <1>10. xs \in Seq(Item(m)) /\ Len(xs) = 1
    BY <1>9
  <1>11. frames' = Moved(Less(E, k) \o xs, A)
    <2>1. Less(E, k) \in Seq(Item(m))
      <3>1. k \in 0 .. Len(E)
        BY <1>1, <1>7
      <3> QED  BY <1>1, <3>1, LessUpper
    <2>2. Append(Less(E, k), x) = Less(E, k) \o xs
      BY <1>9, <2>1, AppendIsConcat
    <2> QED  BY <1>4, <2>2 DEF x
  <1>12. Allows(n)
    <2>1. CASE Uncounted /\ k = 1
      <3>1. n = 0
        BY <2>1
      <3>2. Allows(0)
        BY <2>1, AllowedNone
      <3> QED  BY <3>1, <3>2
    <2>2. CASE \E s : CheckStackSize(s, 1 - k, frames', heap)
      <3>1. PICK s : CheckStackSize(s, n, frames', heap)
        BY <2>2
      <3> HIDE DEF n
      <3> QED  BY <1>8, <3>1, FewerAllowed
    <2> QED  BY <1>6, <2>1, <2>2
  <1>13. Len(xs) <= k + n
    BY <1>2, <1>10
  <1> HIDE DEF xs, n
  <1> QED  BY <1>3, <1>5, <1>7, <1>8, <1>10, <1>11, <1>12, <1>13, PopStep DEF m

\* The instructions that compute: on byte arrays, bits and numbers, and hashes.
LEMMA ComputingSteps ==
    ASSUME Ready, NEW ins \in Instruction, Splice(ins) \/ Bits(ins) \/ Numeric(ins) \/ Crypto(ins)
    PROVE  Stepped
  <1>1. Values \in SUBSET Int /\ Values \cap Nat \in SUBSET Int /\ {0, 1} \in SUBSET Int
    BY VMAssumption
  <1>2. ins.op \in DOMAIN Popped
    BY DEF Splice, Bits, Numeric, Crypto, Popped
  <1>3. \/ Replace(ins, Values) \/ Replace(ins, Values \cap Nat) \/ Replace(ins, {0, 1})
    BY DEF Splice, Bits, Numeric, Crypto
  <1>4. ASSUME NEW results \in SUBSET Int, Replace(ins, results) PROVE Stepped
    BY <1>2, <1>4, ReplaceSteps
  <1> QED  BY <1>1, <1>3, <1>4

\* THROWIFNOT pops one item, or faults.
LEMMA ThrowIfNotSteps ==
    ASSUME Ready, NEW ins \in Instruction, ThrowIfNot(ins)
    PROVE  Stepped
  <1> DEFINE k == 1
             n == -1
  <1>1. /\ Reach(E, 0) /\ frames' = Moved(Less(E, k), A) /\ CheckStackSize(FALSE, -1, frames', heap)
        /\ UNCHANGED <<heap, multisigs>>
    BY DEF ThrowIfNot
  <1>2. 0 < Len(E) /\ Len(E) \in Nat
    BY <1>1, CurTyped DEF Reach
  <1>3. k \in Nat /\ k <= Len(E) /\ \A i \in 0 .. k - 1 : Reach(E, i)
    BY <1>1, <1>2
  <1>4. n \in Int /\ n = 0 - k /\ n <= 0
    OBVIOUS
  <1>6. CheckStackSize(FALSE, n, frames', heap)
    BY <1>1
  <1> HIDE DEF k, n
  <1>5. Allows(n)
    BY <1>4, <1>6, FewerAllowed
  <1> QED  BY <1>1, <1>3, <1>4, <1>5, LessStep

\* Runtime.Notify, and a system call that pushes a value.
LEMMA SyscallSteps ==
    ASSUME Ready, NEW ins \in Instruction, Syscall(ins)
    PROVE  Stepped
  <1> DEFINE m == Len(heap.objs)
  <1>1. E \in Seq(Item(m)) /\ m \in Nat /\ Len(E) \in Nat /\ ins.n \in Int
    BY CurTyped DEF Instruction
  <1>2. UNCHANGED <<heap, multisigs>> /\ CheckStackSize(FALSE, IntMax, frames', heap)
    BY DEF Syscall
  <1>3. \A n \in Int : Allows(n)
    BY <1>2, AllowedAnew
  <1>4. CASE ins.op = "NOTIFY"
    <2> DEFINE k == 1
               n == -1
    <2>1. Pops(1) /\ frames' = Moved(Less(E, k), A)
      BY <1>4 DEF Syscall
    <2>2. Reach(E, 0)
      BY <2>1 DEF Pops
    <2>3. k \in Nat /\ k <= Len(E) /\ \A i \in 0 .. k - 1 : Reach(E, i)
      BY <1>1, <2>2 DEF Reach
    <2>4. n \in Int /\ n = 0 - k
      OBVIOUS
    <2> HIDE DEF k, n
    <2> QED  BY <1>2, <1>3, <2>1, <2>3, <2>4, LessStep
  <1>5. CASE ins.op # "NOTIFY"
    <2>1. frames' = Moved(Push(E, <<Num(ins.n)>>), A)
      BY <1>5 DEF Syscall
    <2>2. Num(ins.n) \in Item(m)
      BY <1>1, ItemTypes
    <2>3. Allows(1)
      BY <1>3
    <2> QED  BY <1>2, <2>1, <2>2, <2>3, PushStep
  <1> QED  BY <1>4, <1>5

-----------------------------------------------------------------------------
(* Instructions that enter a context.                                      *)

\* A new context.
LEMMA ContextTyped ==
    ASSUME NEW n \in Nat, NEW s \in Script, NEW ip \in Int, NEW rv \in Nat \cup {-1},
           NEW eval \in Seq(Item(n)), NEW owed \in [rv : Nat \cup {-1}, kept : Seq(Item(n))]
    PROVE  /\ Context(s, ip, rv, eval, owed) \in Frame(n)
           /\ Context(s, ip, rv, eval, owed).rv = rv /\ Context(s, ip, rv, eval, owed).owed = owed
           /\ Weight(Context(s, ip, rv, eval, owed)) = Size(eval)
  <1> DEFINE c == Context(s, ip, rv, eval, owed)
  <1>1. << >> \in Seq(Item(n)) /\ Len(<< >>) = 0
    OBVIOUS
  <1>2. c = [script |-> s, ip |-> ip, rv |-> rv, eval |-> eval, alt |-> << >>, owed |-> owed]
    BY DEF Context
  <1> HIDE DEF c
  <1>3. c \in Frame(n)
    BY <1>1, <1>2 DEF Frame
  <1>4. c.rv = rv /\ c.owed = owed /\ c.eval = eval /\ c.alt = << >>
    BY <1>2
  <1>5. Size(eval) \in Nat
    BY SizeBounds
  <1>6. Weight(c) = Size(eval)
    BY <1>1, <1>4, <1>5 DEF Weight
  <1> QED  BY <1>3, <1>4, <1>6 DEF c

\* A context was put on top of fs.
LEMMA EnterStep ==
    ASSUME Ready, UNCHANGED <<heap, multisigs>>,
           NEW fs \in Seq(Frame(Len(heap.objs))), Owing(fs), Len(fs) + 1 >= Len(frames),
           NEW c \in Frame(Len(heap.objs)),
           c.owed.rv >= 0 => /\ fs # << >> /\ c.rv = c.owed.rv
                             /\ fs[Len(fs)].eval = c.owed.kept,
           frames' = Append(fs, c), NEW k \in Int, Allows(k),
           OnFrames(fs) + Weight(c) <= OnFrames(frames) + k
    PROVE  Stepped
  <1> DEFINE n == Len(heap.objs)
  <1>1. n \in Nat /\ Len(frames) \in Nat /\ OnFrames(frames) \in Int /\ InLists(heap) \in Int
    BY CurTyped
  <1>2. heap' = heap /\ multisigs' = multisigs /\ HeapTyped(heap) /\ multisigs \in Int
    BY DEF Ready, MachineTyped
  <1> HIDE DEF n
  <1>3. /\ Append(fs, c) \in Seq(Frame(n)) /\ Append(fs, c) # << >>
        /\ Len(Append(fs, c)) = Len(fs) + 1
        /\ Owing(Append(fs, c))
        /\ OnFrames(Append(fs, c)) = OnFrames(fs) + Weight(c)
    <2>1. fs \in Seq(Frame(n)) /\ c \in Frame(n)
      BY DEF n
    <2> QED  BY <1>1, <2>1, Entered
  <1>4. frames' \in Seq(Frame(n)) /\ frames' # << >> /\ Len(frames') >= Len(frames) /\ Owing(frames')
    BY <1>3
  <1>5. MachineTyped'
    BY <1>2, <1>4 DEF MachineTyped, n
  <1>6. OnFrames(frames') = OnFrames(fs) + Weight(c)
    BY <1>3
  <1>7. Carried' = OnFrames(frames') + InLists(heap)
    BY <1>2 DEF Carried
  <1> DEFINE a == OnFrames(frames')
             b == OnFrames(frames)
             e == InLists(heap)
  <1>8. a \in Int
    <2>1. fs \in Seq(Frame(n)) /\ c \in Frame(n)
      BY DEF n
    <2>2. OnFrames(fs) \in Nat /\ Weight(c) \in Nat
      BY <1>1, <2>1, FramesWeight, FrameWeight
    <2> QED  BY <1>6, <2>2
  <1>9. b \in Int /\ e \in Int /\ a <= b + k /\ Carried = b + e /\ Carried' = a + e
    BY <1>1, <1>6, <1>7 DEF Carried
  <1> HIDE DEF a, b, e
  <1>10. Carried' + multisigs <= Carried + k + multisigs'
    BY <1>2, <1>8, <1>9
  <1> QED  BY <1>4, <1>5, <1>10 DEF Stepped

\* The running context gave way to another.
LEMMA ReplaceStep ==
    ASSUME Ready, UNCHANGED <<heap, multisigs>>, NEW c \in Frame(Len(heap.objs)),
           c.owed.rv = -1 \/ (c.owed = Cur.owed /\ c.rv = Cur.rv),
           frames' = Append(Below, c), NEW k \in Int, Allows(k),
           Weight(c) <= Size(E) + Len(A) + k
    PROVE  Stepped
  <1> DEFINE n == Len(heap.objs)
             fs == Below
  <1>1. /\ n \in Nat /\ Len(frames) \in Nat \ {0} /\ OnFrames(frames) \in Int
        /\ Cur = frames[Len(frames)] /\ Weight(Cur) = Size(E) + Len(A)
        /\ Size(E) \in Nat /\ Len(A) \in Nat
    BY CurTyped
  <1>2. frames \in Seq(Frame(n)) /\ Owing(frames) /\ frames # << >>
    BY DEF Ready, MachineTyped
  <1>3. Below = SubSeq(frames, 1, Len(frames) - 1)
    BY DEF Below
  <1> HIDE DEF n, fs
  <1>4. /\ SubSeq(frames, 1, Len(frames) - 1) \in Seq(Frame(n))
        /\ Len(SubSeq(frames, 1, Len(frames) - 1)) = Len(frames) - 1
        /\ \A i \in 1 .. Len(frames) - 1 : SubSeq(frames, 1, Len(frames) - 1)[i] = frames[i]
        /\ Owing(SubSeq(frames, 1, Len(frames) - 1))
        /\ OnFrames(SubSeq(frames, 1, Len(frames) - 1)) = OnFrames(frames) - Weight(frames[Len(frames)])
    BY <1>1, <1>2, Dropped
  <1>5. /\ fs \in Seq(Frame(n)) /\ Len(fs) = Len(frames) - 1 /\ Owing(fs)
        /\ \A i \in 1 .. Len(frames) - 1 : fs[i] = frames[i]
        /\ OnFrames(fs) = OnFrames(frames) - Weight(Cur)
    BY <1>1, <1>3, <1>4 DEF fs
  <1>6. c.owed.rv >= 0 => /\ fs # << >> /\ c.rv = c.owed.rv
                          /\ fs[Len(fs)].eval = c.owed.kept
    <2> SUFFICES ASSUME c.owed.rv >= 0
                 PROVE  fs # << >> /\ c.rv = c.owed.rv /\ fs[Len(fs)].eval = c.owed.kept
      OBVIOUS
    <2>1. c.owed = Cur.owed /\ c.rv = Cur.rv
      OBVIOUS
    <2> DEFINE top == Len(frames)
    <2>2. top \in DOMAIN frames /\ frames[top].owed.rv >= 0 /\ frames[top] = Cur /\ top \in Nat
      BY <1>1, <1>2, <2>1
    <2>3. top > 1 /\ frames[top].rv = frames[top].owed.rv
          /\ frames[top - 1].eval = frames[top].owed.kept
      <3> HIDE DEF top
      <3> QED  BY <1>2, <2>2 DEF Owing
    <2>4. Len(fs) = top - 1 /\ fs[top - 1] = frames[top - 1]
      BY <1>5, <2>2, <2>3
    <2>5. fs # << >>
      BY <1>5, <2>3, <2>4
    <2> HIDE DEF top
    <2> QED  BY <2>1, <2>2, <2>3, <2>4, <2>5
  <1>7. Weight(c) \in Nat
    <2>1. c \in Frame(n)
      BY DEF n
    <2> QED  BY <1>1, <2>1, FrameWeight
  <1>8. OnFrames(fs) + Weight(c) <= OnFrames(frames) + k
    <2> DEFINE a == OnFrames(frames)
               b == OnFrames(fs)
               w == Weight(c)
               v == Size(E) + Len(A)
    <2>1. a \in Int /\ b = a - v /\ w \in Int /\ v \in Int /\ w <= v + k
      BY <1>1, <1>5, <1>7
    <2> HIDE DEF a, b, w, v
    <2>2. b + w <= a + k
      BY <2>1
    <2> QED  BY <2>2 DEF a, b, w
  <1>9. frames' = Append(fs, c) /\ Len(fs) + 1 >= Len(frames)
    BY <1>1, <1>5 DEF fs
  <1> QED  BY <1>5, <1>6, <1>8, <1>9, EnterStep DEF n

\* A context was entered from the running one, which keeps some of its stacks.
LEMMA CallStep ==
    ASSUME Ready, UNCHANGED <<heap, multisigs>>,
           NEW eval \in Seq(Item(Len(heap.objs))), NEW c \in Frame(Len(heap.objs)),
           c.owed.rv >= 0 => c.rv = c.owed.rv /\ eval = c.owed.kept,
           frames' = Append(Moved(eval, A), c), NEW k \in Int, Allows(k),
           Size(eval) + Weight(c) <= Size(E) + k
    PROVE  Stepped
  <1> DEFINE n == Len(heap.objs)
             fs == Moved(eval, A)
  <1>1. /\ n \in Nat /\ Len(frames) \in Nat \ {0} /\ OnFrames(frames) \in Int
        /\ Size(E) \in Nat /\ Len(A) \in Nat /\ A \in Seq(Item(n))
    BY CurTyped
  <1> HIDE DEF n
  <1>2. eval \in Seq(Item(n)) /\ c \in Frame(n) /\ Len(heap.objs) <= n
    BY <1>1 DEF n
  <1>3. /\ fs \in Seq(Frame(n)) /\ fs # << >> /\ Len(fs) = Len(frames)
        /\ fs[Len(frames)].eval = eval /\ Owing(fs)
        /\ OnFrames(fs) = OnFrames(frames) - (Size(E) + Len(A)) + (Size(eval) + Len(A))
    <2> DEFINE alt == A
    <2>1. alt \in Seq(Item(n))
      BY <1>1
    <2> HIDE DEF fs
    <2>2. /\ Moved(eval, alt) \in Seq(Frame(n)) /\ Moved(eval, alt) # << >>
          /\ Len(Moved(eval, alt)) = Len(frames)
          /\ Moved(eval, alt)[Len(frames)].eval = eval
          /\ Owing(Moved(eval, alt))
          /\ OnFrames(Moved(eval, alt)) = OnFrames(frames) - (Size(E) + Len(A)) + (Size(eval) + Len(alt))
      <3> HIDE DEF alt
      <3> QED  BY <1>1, <1>2, <2>1, MovedKeeps
    <2> QED  BY <2>2 DEF fs
  <1> HIDE DEF fs
  <1>4. Weight(c) \in Nat /\ Size(eval) \in Nat
    BY <1>1, <1>2, FrameWeight, SizeBounds
  <1>5. OnFrames(fs) + Weight(c) <= OnFrames(frames) + k
    <2> DEFINE a == OnFrames(frames)
               b == OnFrames(fs)
               w == Weight(c)
               x == Size(E)
               y == Size(eval)
               z == Len(A)
    <2>1. /\ a \in Int /\ w \in Int /\ x \in Int /\ y \in Int /\ z \in Int
          /\ b = a - (x + z) + (y + z) /\ y + w <= x + k
      BY <1>1, <1>3, <1>4
    <2> HIDE DEF a, b, w, x, y, z
    <2>2. b + w <= a + k
      BY <2>1
    <2> QED  BY <2>2 DEF a, b, w
  <1>6. c.owed.rv >= 0 => /\ fs # << >> /\ c.rv = c.owed.rv
                          /\ fs[Len(fs)].eval = c.owed.kept
    BY <1>3
  <1>7. frames' = Append(fs, c) /\ Len(fs) + 1 >= Len(frames)
    BY <1>1, <1>3 DEF fs
  <1> QED  BY <1>3, <1>5, <1>6, <1>7, EnterStep DEF n

\* The running context with another address and other stacks.
LEMMA CurWith ==
    ASSUME Ready, NEW ip \in Int, NEW eval \in Seq(Item(Len(heap.objs)))
    PROVE  /\ [Cur EXCEPT !.eval = eval, !.ip = ip] \in Frame(Len(heap.objs))
           /\ [Cur EXCEPT !.eval = eval, !.ip = ip].owed = Cur.owed
           /\ [Cur EXCEPT !.eval = eval, !.ip = ip].rv = Cur.rv
           /\ Weight([Cur EXCEPT !.eval = eval, !.ip = ip]) = Size(eval) + Len(A)
  <1> DEFINE n == Len(heap.objs)
             c == [Cur EXCEPT !.eval = eval, !.ip = ip]
  <1>1. Cur \in Frame(n)
    BY CurTyped
  <1> HIDE DEF n
  <1>2. Cur = [script |-> Cur.script, ip |-> Cur.ip, rv |-> Cur.rv, eval |-> Cur.eval,
               alt |-> Cur.alt, owed |-> Cur.owed]
    BY <1>1 DEF Frame
  <1>3. \A a, b, d, e, f, g, x :
            [[script |-> a, ip |-> b, rv |-> d, eval |-> e, alt |-> f, owed |-> g] EXCEPT !.eval = x]
            = [script |-> a, ip |-> b, rv |-> d, eval |-> x, alt |-> f, owed |-> g]
    OBVIOUS
  <1>4. \A a, b, d, e, f, g, x :
            [[script |-> a, ip |-> b, rv |-> d, eval |-> e, alt |-> f, owed |-> g] EXCEPT !.ip = x]
            = [script |-> a, ip |-> x, rv |-> d, eval |-> e, alt |-> f, owed |-> g]
    OBVIOUS
  <1>5. c = [[Cur EXCEPT !.eval = eval] EXCEPT !.ip = ip]
    OBVIOUS
  <1> HIDE DEF c
  <1>6. c = [script |-> Cur.script, ip |-> ip, rv |-> Cur.rv, eval |-> eval, alt |-> Cur.alt,
             owed |-> Cur.owed]
    BY <1>2, <1>3, <1>4, <1>5, Zenon
  <1>7. /\ Cur.script \in Script /\ Cur.rv \in Nat \cup {-1} /\ Cur.alt \in Seq(Item(n))
    BY <1>1 DEF Frame
  <1>8. Cur.owed \in [rv : Nat \cup {-1}, kept : Seq(Item(n))]
    BY <1>1 DEF Frame
  <1>9. eval \in Seq(Item(n))
    BY DEF n
  <1>10. c \in Frame(n)
    BY <1>6, <1>7, <1>8, <1>9 DEF Frame
  <1>11. c.owed = Cur.owed /\ c.rv = Cur.rv /\ c.eval = eval /\ c.alt = A
    BY <1>6 DEF A
  <1>12. Weight(c) = Size(eval) + Len(A)
    BY <1>11 DEF Weight
  <1> QED  BY <1>10, <1>11, <1>12 DEF c, n

\* JMP, JMPIF and JMPIFNOT.
LEMMA JumpSteps ==
    ASSUME Ready, NEW ins \in Instruction, Jump(ins)
    PROVE  Stepped
  <1> DEFINE n == Len(heap.objs)
  <1>1. /\ E \in Seq(Item(n)) /\ n \in Nat /\ Size(E) \in Nat /\ Len(E) \in Nat /\ Len(A) \in Nat
        /\ Cur \in Frame(n)
    BY CurTyped
  <1>2. UNCHANGED <<heap, multisigs>> /\ CanJump(ins) /\ ins.n \in Int
    BY DEF Jump, Instruction
  <1>3. Cur.ip \in Int
    BY <1>1 DEF Frame
  <1> HIDE DEF n
  <1>4. CASE ins.op = "JMP"
    <2> DEFINE c == [Cur EXCEPT !.ip = ins.n]
               d == [Cur EXCEPT !.eval = E, !.ip = ins.n]
               none == 0
    <2>1. frames' = Append(Below, c) /\ Uncounted
      BY <1>4 DEF Jump
    <2>2. \E a, b, e, g, h :
              Cur = [script |-> a, ip |-> b, rv |-> e, eval |-> E, alt |-> g, owed |-> h]
      <3>1. Cur = [script |-> Cur.script, ip |-> Cur.ip, rv |-> Cur.rv, eval |-> E,
                   alt |-> Cur.alt, owed |-> Cur.owed]
        BY <1>1 DEF Frame, E
      <3> QED  BY <3>1
    <2>3. c = d
      <3>1. \A a, b, e, f, g, h :
                [[script |-> a, ip |-> b, rv |-> e, eval |-> f, alt |-> g, owed |-> h] EXCEPT !.eval = f]
                = [script |-> a, ip |-> b, rv |-> e, eval |-> f, alt |-> g, owed |-> h]
        OBVIOUS
      <3>2. [Cur EXCEPT !.eval = E] = Cur
        <4> DEFINE cur == Cur
                   stack == E
        <4>1. \E a, b, e, g, h :
                  cur = [script |-> a, ip |-> b, rv |-> e, eval |-> stack, alt |-> g, owed |-> h]
          BY <2>2
        <4> HIDE DEF cur, stack
        <4>2. [cur EXCEPT !.eval = stack] = cur
          BY <3>1, <4>1
        <4> QED  BY <4>2 DEF cur, stack
      <3>3. d = [[Cur EXCEPT !.eval = E] EXCEPT !.ip = ins.n]
        OBVIOUS
      <3> HIDE DEF d
      <3> QED  BY <3>2, <3>3, Zenon
    <2>4. /\ d \in Frame(n) /\ d.owed = Cur.owed /\ d.rv = Cur.rv /\ Weight(d) = Size(E) + Len(A)
      <3> DEFINE eval == E
                 ip == ins.n
      <3>1. eval \in Seq(Item(Len(heap.objs))) /\ ip \in Int
        BY <1>1, <1>2 DEF n
      <3>2. d = [Cur EXCEPT !.eval = eval, !.ip = ip]
        OBVIOUS
      <3> HIDE DEF d, eval, ip
      <3>3. /\ d \in Frame(Len(heap.objs)) /\ d.owed = Cur.owed /\ d.rv = Cur.rv
            /\ Weight(d) = Size(eval) + Len(A)
        BY <3>1, <3>2, CurWith
      <3> QED  BY <3>3 DEF eval, n
    <2>5. Allows(none) /\ none \in Int
      BY <2>1, AllowedNone
    <2> HIDE DEF c
    <2>6. frames' = Append(Below, d)
      BY <2>1, <2>3
    <2> HIDE DEF d
    <2>7. Weight(d) <= Size(E) + Len(A) + none
      BY <1>1, <2>4
    <2> HIDE DEF none
    <2> QED  BY <1>2, <2>4, <2>5, <2>6, <2>7, ReplaceStep DEF n
  <1>5. CASE ins.op = "JMPIF"
    <2> DEFINE eval == Less(E, 1)
               ip == IF Truthy(Peek(E, 0)) THEN ins.n ELSE Cur.ip + 1
               c == [Cur EXCEPT !.eval = eval, !.ip = ip]
               less == -1
    <2>1. frames' = Append(Below, c)
      <3>1. frames' = Append(Below, [Cur EXCEPT !.eval = Less(E, 1),
                                                !.ip = IF Truthy(Peek(E, 0)) THEN ins.n ELSE @ + 1])
        BY <1>5 DEF Jump
      <3> QED  BY <3>1
    <2>2. CheckStackSize(FALSE, less, frames, heap)
      BY <1>5 DEF Jump
    <2>3. less \in Int /\ less <= 0
      OBVIOUS
    <2>4. ip \in Int
      BY <1>2, <1>3
    <2>5. Reach(E, 0)
      BY <1>2, <1>5 DEF CanJump
    <2>6. eval \in Seq(Item(n)) /\ Size(eval) = Size(E) - 1
      <3>1. 0 < Len(E) /\ Peek(E, 0) # Hole
        BY <1>1, <2>5, ItemAt
      <3>2. 1 \in 0 .. Len(E) /\ \A i \in 0 .. 1 - 1 : Peek(E, i) # Hole
        BY <1>1, <3>1
      <3> QED  BY <1>1, <3>2, LessUpper
    <2> HIDE DEF ip, eval
    <2>7. /\ c \in Frame(n) /\ c.owed = Cur.owed /\ c.rv = Cur.rv /\ Weight(c) = Size(eval) + Len(A)
      BY <2>4, <2>6, CurWith DEF n
    <2> HIDE DEF c
    <2>8. Weight(c) <= Size(E) + Len(A) + less
      BY <1>1, <2>6, <2>7
    <2> HIDE DEF less
    <2>9. Allows(less)
      BY <2>2, <2>3, FewerAllowed
    <2> QED  BY <1>2, <2>1, <2>3, <2>7, <2>8, <2>9, ReplaceStep DEF n
  <1>6. ins.op \in {"JMP", "JMPIF"}
    BY DEF Jump
  <1> QED  BY <1>4, <1>5, <1>6

\* A context that is not one of CALL_E* owes nothing.
LEMMA NothingOwed ==
    ASSUME NEW n \in Nat
    PROVE  /\ Anything \in [rv : Nat \cup {-1}, kept : Seq(Item(n))] /\ Anything.rv = -1
           /\ -1 \in Nat \cup {-1} /\ ~(-1 >= 0)
           /\ << >> \in Seq(Item(n)) /\ Size(<< >>) = 0
  <1>1. << >> \in Seq(Item(n)) /\ Len(<< >>) = 0
    OBVIOUS
  <1>2. Size(<< >>) \in Nat /\ Size(<< >>) <= Len(<< >>)
    BY <1>1, SizeBounds
  <1> QED  BY <1>1, <1>2 DEF Anything

\* CALL hands the whole stack to a new context over the same script.
LEMMA CallSteps ==
    ASSUME Ready, NEW ins \in Instruction, Call(ins)
    PROVE  Stepped
  <1> DEFINE n == Len(heap.objs)
             eval == << >>
             none == 0
             rv == -1
             c == Context(Cur.script, ins.n, rv, E, Anything)
  <1>1. /\ E \in Seq(Item(n)) /\ n \in Nat /\ Size(E) \in Nat /\ Cur \in Frame(n) /\ ins.n \in Int
    BY CurTyped DEF Instruction
  <1>2. UNCHANGED <<heap, multisigs>> /\ frames' = Append(Moved(eval, A), c)
    BY DEF Call
  <1>3. Allows(none) /\ none \in Int
    BY AllowedNone DEF Call
  <1>4. Cur.script \in Script
    BY <1>1 DEF Frame
  <1>5. /\ rv \in Nat \cup {-1} /\ Anything \in [rv : Nat \cup {-1}, kept : Seq(Item(n))]
        /\ ~(Anything.rv >= 0) /\ eval \in Seq(Item(n)) /\ Size(eval) = 0
    BY <1>1, NothingOwed
  <1> HIDE DEF n, eval, rv
  <1>6. c \in Frame(n) /\ c.owed = Anything /\ Weight(c) = Size(E)
    <2> DEFINE s == Cur.script
               e == E
               ip == ins.n
               owed == Anything
    <2>1. /\ s \in Script /\ e \in Seq(Item(n)) /\ ip \in Int
          /\ owed \in [rv : Nat \cup {-1}, kept : Seq(Item(n))]
          /\ n \in Nat /\ rv \in Nat \cup {-1}
      BY <1>1, <1>4, <1>5
    <2>2. c = Context(s, ip, rv, e, owed)
      OBVIOUS
    <2> HIDE DEF s, e, ip, c, owed
    <2>4. /\ Context(s, ip, rv, e, owed) \in Frame(n)
          /\ Context(s, ip, rv, e, owed).owed = owed
          /\ Weight(Context(s, ip, rv, e, owed)) = Size(e)
      BY <2>1, ContextTyped
    <2>3. c \in Frame(n) /\ c.owed = owed /\ Weight(c) = Size(e)
      BY <2>2, <2>4
    <2> QED  BY <2>3 DEF e, owed
  <1> HIDE DEF c
  <1>7. Size(eval) + Weight(c) <= Size(E) + none
    BY <1>1, <1>5, <1>6
  <1>8. c.owed.rv >= 0 => c.rv = c.owed.rv /\ eval = c.owed.kept
    BY <1>5, <1>6
  <1> HIDE DEF none
  <1> QED  BY <1>2, <1>3, <1>5, <1>6, <1>7, <1>8, CallStep DEF n

\* The stack after APPCALL or TAILCALL has taken the script hash.
LEMMA HashTaken ==
    ASSUME Ready, NEW ins, HashPopped(ins)
    PROVE  /\ AfterHash(ins) \in Seq(Item(Len(heap.objs))) /\ Size(AfterHash(ins)) <= Size(E)
           /\ ins.to = Unread => Size(AfterHash(ins)) = Size(E) - 1
           /\ Size(AfterHash(ins)) \in Nat
  <1> DEFINE n == Len(heap.objs)
  <1>1. /\ E \in Seq(Item(n)) /\ n \in Nat /\ Size(E) \in Nat /\ Len(E) \in Nat
    BY CurTyped
  <1> HIDE DEF n
  <1>2. CASE ins.to = Unread
    <2>1. AfterHash(ins) = Less(E, 1) /\ Reach(E, 0)
      BY <1>2 DEF AfterHash, HashPopped
    <2>2. 0 < Len(E) /\ Peek(E, 0) # Hole
      BY <1>1, <2>1, ItemAt
    <2>3. 1 \in 0 .. Len(E) /\ \A i \in 0 .. 1 - 1 : Peek(E, i) # Hole
      BY <1>1, <2>2
    <2>4. Less(E, 1) \in Seq(Item(n)) /\ Size(Less(E, 1)) = Size(E) - 1 /\ Size(Less(E, 1)) \in Nat
      BY <1>1, <2>3, LessUpper
    <2> QED  BY <1>1, <2>1, <2>4 DEF n
  <1>3. CASE ins.to # Unread
    <2>1. AfterHash(ins) = E
      BY <1>3 DEF AfterHash
    <2> QED  BY <1>1, <1>3, <2>1 DEF n
  <1> QED  BY <1>2, <1>3

\* APPCALL and TAILCALL hand the whole stack over.
LEMMA AppCallSteps ==
    ASSUME Ready, NEW ins \in Instruction, AppCall(ins)
    PROVE  Stepped
  <1> DEFINE n == Len(heap.objs)
             none == 0
             rv == -1
             given == AfterHash(ins)
             owed == IF ins.op = "APPCALL" THEN Anything ELSE [Cur.owed EXCEPT !.rv = -1]
  <1>1. /\ n \in Nat /\ Size(E) \in Nat /\ Cur \in Frame(n) /\ Len(A) \in Nat
    BY CurTyped
  <1>2. UNCHANGED <<heap, multisigs>> /\ CanAppCall(ins) /\ CheckStackSize(FALSE, none, frames', heap)
    BY DEF AppCall
  <1>3. Allows(none) /\ none \in Int
    <2>1. none \in Int /\ none <= 0
      OBVIOUS
    <2> HIDE DEF none
    <2> QED  BY <1>2, <2>1, FewerAllowed
  <1>4. given \in Seq(Item(n)) /\ Size(given) <= Size(E) /\ Size(given) \in Nat
    BY <1>2, HashTaken DEF CanAppCall
  <1>5. PICK s \in Callees(ins) \cap Deployed :
            frames' = Append(IF ins.op = "APPCALL" THEN Moved(<< >>, A) ELSE Below,
                             Context(s, 0, rv, given, owed))
    BY DEF AppCall
  <1>6. s \in Script
    BY VMAssumption
  <1> HIDE DEF n, given
  <1>7. owed \in [rv : Nat \cup {-1}, kept : Seq(Item(n))] /\ owed.rv = -1
    <2>1. CASE ins.op = "APPCALL"
      BY <1>1, <2>1, NothingOwed
    <2>2. CASE ins.op # "APPCALL"
      <3>1. Cur.owed \in [rv : Nat \cup {-1}, kept : Seq(Item(n))]
        BY <1>1 DEF Frame
      <3>2. ASSUME NEW o \in [rv : Nat \cup {-1}, kept : Seq(Item(n))]
            PROVE  /\ [o EXCEPT !.rv = -1] \in [rv : Nat \cup {-1}, kept : Seq(Item(n))]
                   /\ [o EXCEPT !.rv = -1].rv = -1
        OBVIOUS
      <3> QED  BY <2>2, <3>1, <3>2
    <2> QED  BY <2>1, <2>2
  <1> DEFINE c == Context(s, 0, rv, given, owed)
             zero == 0
  <1>8. rv \in Nat \cup {-1} /\ zero \in Int /\ c = Context(s, zero, rv, given, owed)
    OBVIOUS
  <1> HIDE DEF owed, rv, c, zero
  <1>9. c \in Frame(n) /\ c.owed = owed /\ Weight(c) = Size(given)
    BY <1>1, <1>4, <1>6, <1>7, <1>8, ContextTyped
  <1>10. c.owed.rv = -1 /\ ~(c.owed.rv >= 0)
    BY <1>7, <1>9
  <1>11. CASE ins.op = "APPCALL"
    <2> DEFINE eval == << >>
    <2>1. frames' = Append(Moved(eval, A), c)
      BY <1>5, <1>11 DEF c
    <2>2. eval \in Seq(Item(n)) /\ Size(eval) = 0
      BY <1>1, NothingOwed
    <2> HIDE DEF eval
    <2>3. Size(eval) + Weight(c) <= Size(E) + none
      BY <1>1, <1>4, <1>9, <2>2
    <2>4. c.owed.rv >= 0 => c.rv = c.owed.rv /\ eval = c.owed.kept
      BY <1>10
    <2> HIDE DEF none
    <2> QED  BY <1>2, <1>3, <1>9, <2>1, <2>2, <2>3, <2>4, CallStep DEF n
  <1>12. CASE ins.op # "APPCALL"
    <2>1. frames' = Append(Below, c)
      BY <1>5, <1>12 DEF c
    <2>2. Weight(c) <= Size(E) + Len(A) + none
      BY <1>1, <1>4, <1>9
    <2> HIDE DEF none
    <2> QED  BY <1>2, <1>3, <1>9, <1>10, <2>1, <2>2, ReplaceStep DEF n
  <1> QED  BY <1>11, <1>12

\* CALL_I, CALL_E, CALL_ED, CALL_ET and CALL_EDT: a stack of the arguments alone, and the
\* promise to hand back as many items as were asked for.
LEMMA IsolatedSteps ==
    ASSUME Ready, NEW ins \in Instruction, CallIsolated(ins)
    PROVE  Stepped
  <1> DEFINE n == Len(heap.objs)
             s == IF ins.op = "CALL_I" THEN E ELSE AfterHash(ins)
             given == IF ins.pc <= Len(s) THEN Upper(s, ins.pc) ELSE ShortCopy(s, ins.pc)
             kept == Less(s, ins.pc)
             ip == IF ins.op = "CALL_I" THEN ins.n ELSE 0
             owed == [rv |-> ins.rv, kept |-> kept]
             k == IF ins.op \in {"CALL_ED", "CALL_EDT"} THEN -1 ELSE 0
  <1>1. /\ n \in Nat /\ Size(E) \in Nat /\ Cur \in Frame(n) /\ Len(A) \in Nat /\ E \in Seq(Item(n))
        /\ ins.n \in Int /\ ins.pc \in Nat /\ ins.rv \in Nat
        /\ ins.op \in {"CALL_ED", "CALL_EDT"} => ins.to = Unread
    BY CurTyped DEF Instruction
  <1>2. UNCHANGED <<heap, multisigs>> /\ CanCallIsolated(ins) /\ ins.op \in Isolated
    BY DEF CallIsolated
  <1>3. Allows(k) /\ k \in Int
    <2>1. k \in Int /\ k <= 0
      OBVIOUS
    <2>2. CASE ins.op \in {"CALL_ED", "CALL_EDT"}
      <3>1. CheckStackSize(TRUE, -1, Moved(AfterHash(ins), A), heap)
        BY <2>2 DEF CallIsolated
      <3>2. k = -1
        BY <2>2
      <3>3. CheckStackSize(TRUE, k, Moved(AfterHash(ins), A), heap)
        BY <3>1, <3>2
      <3> HIDE DEF k
      <3> QED  BY <2>1, <3>3, FewerAllowed
    <2>3. CASE ins.op \notin {"CALL_ED", "CALL_EDT"}
      <3>1. Uncounted
        BY <2>3 DEF CallIsolated
      <3>2. k = 0
        BY <2>3
      <3>3. Allows(0)
        BY <3>1, AllowedNone
      <3> QED  BY <2>1, <3>2, <3>3
    <2> QED  BY <2>2, <2>3
  <1>4. PICK to \in IF ins.op = "CALL_I" THEN {Cur.script} ELSE Callees(ins) \cap Deployed :
            frames' = IF Replaces(ins)
                      THEN Append(Below, Context(to, 0, ins.rv, given, Cur.owed))
                      ELSE Append(Moved(kept, A), Context(to, ip, ins.rv, given, owed))
    BY DEF CallIsolated
  <1>5. to \in Script
    <2>1. Cur.script \in Script
      BY <1>1 DEF Frame
    <2> QED  BY <2>1, VMAssumption
  <1>6. s \in Seq(Item(n)) /\ Size(s) \in Nat /\ Len(s) \in Nat /\ Size(s) <= Size(E) + k
    <2>1. CASE ins.op = "CALL_I"
      BY <1>1, <2>1
    <2>2. CASE ins.op # "CALL_I"
      <3>1. s = AfterHash(ins) /\ HashPopped(ins)
        BY <1>2, <2>2 DEF CanCallIsolated
      <3>2. /\ AfterHash(ins) \in Seq(Item(n)) /\ Size(AfterHash(ins)) <= Size(E)
            /\ ins.to = Unread => Size(AfterHash(ins)) = Size(E) - 1
            /\ Size(AfterHash(ins)) \in Nat
        <4> HIDE DEF s, given, kept, owed, k, ip
        <4> QED  BY <3>1, HashTaken
      <3> HIDE DEF s, n
      <3> QED  BY <1>1, <3>1, <3>2
    <2> QED  BY <2>1, <2>2
  <1>7. /\ ~Replaces(ins) => ins.pc <= Len(s)
        /\ Replaces(ins) => ins.rv = Cur.rv
    <2>1. CASE ins.op = "CALL_I"
      BY <1>2, <2>1 DEF CanCallIsolated, Replaces
    <2>2. CASE ins.op # "CALL_I"
      BY <1>1, <1>2, <1>6, <2>2 DEF CanCallIsolated
    <2> QED  BY <2>1, <2>2
  <1>8. ip \in Int /\ 0 \in Int /\ ins.rv \in Nat \cup {-1}
    BY <1>1
  <1>9. Cur.owed \in [rv : Nat \cup {-1}, kept : Seq(Item(n))]
    BY <1>1 DEF Frame
  <1> HIDE DEF n, s, k, ip
  <1>10. given \in Seq(Item(n)) /\ Size(given) <= Size(s) /\ Size(given) \in Nat
    <2>1. CASE ins.pc <= Len(s)
      <3>1. ins.pc \in 0 .. Len(s)
        BY <1>1, <1>6, <2>1
      <3>2. /\ Upper(s, ins.pc) \in Seq(Item(n)) /\ Size(Upper(s, ins.pc)) \in Nat
            /\ Size(Less(s, ins.pc)) \in Nat
            /\ Size(Less(s, ins.pc)) + Size(Upper(s, ins.pc)) = Size(s)
        BY <1>6, <3>1, LessUpper
      <3> QED  BY <2>1, <3>2
    <2>2. CASE ~(ins.pc <= Len(s))
      <3>1. ins.pc > Len(s) /\ Hole \in Item(n)
        BY <1>1, <1>6, <2>2, ItemTypes
      <3>2. ShortCopy(s, ins.pc) \in Seq(Item(n)) /\ Size(ShortCopy(s, ins.pc)) <= Size(s)
        BY <1>1, <1>6, <3>1, ShortCopyProperties
      <3>3. given = ShortCopy(s, ins.pc)
        BY <2>2
      <3> HIDE DEF given
      <3>4. Size(given) \in Nat
        BY <3>2, <3>3, SizeBounds
      <3> QED  BY <3>2, <3>3, <3>4
    <2> QED  BY <2>1, <2>2
  <1>11. CASE Replaces(ins)
    <2> DEFINE c == Context(to, 0, ins.rv, given, Cur.owed)
    <2>1. frames' = Append(Below, c)
      BY <1>4, <1>11
    <2> DEFINE zero == 0
               t == to
               rv == ins.rv
               o == Cur.owed
    <2>2. c = Context(t, zero, rv, given, o)
      OBVIOUS
    <2>3. /\ zero \in Int /\ rv \in Nat \cup {-1} /\ o \in [rv : Nat \cup {-1}, kept : Seq(Item(n))]
          /\ given \in Seq(Item(n)) /\ n \in Nat /\ t \in Script
      BY <1>1, <1>5, <1>8, <1>9, <1>10
    <2> HIDE DEF c, t, zero, rv, o, given
    <2>4. /\ Context(t, zero, rv, given, o) \in Frame(n)
          /\ Context(t, zero, rv, given, o).rv = rv
          /\ Context(t, zero, rv, given, o).owed = o
          /\ Weight(Context(t, zero, rv, given, o)) = Size(given)
      BY <2>3, ContextTyped
    <2>5. c \in Frame(n) /\ c.rv = Cur.rv /\ c.owed = Cur.owed /\ Weight(c) = Size(given)
      BY <1>7, <1>11, <2>2, <2>4 DEF rv, o
    <2>6. Weight(c) <= Size(E) + Len(A) + k
      BY <1>1, <1>3, <1>6, <1>10, <2>5
    <2> QED  BY <1>2, <1>3, <2>1, <2>5, <2>6, ReplaceStep DEF n
  <1>12. CASE ~Replaces(ins)
    <2> DEFINE c == Context(to, ip, ins.rv, given, owed)
    <2>1. frames' = Append(Moved(kept, A), c)
      BY <1>4, <1>12
    <2>2. kept \in Seq(Item(n)) /\ Size(kept) \in Nat /\ Size(kept) + Size(given) = Size(s)
      <3>1. ins.pc \in 0 .. Len(s)
        BY <1>1, <1>6, <1>7, <1>12
      <3>2. /\ Less(s, ins.pc) \in Seq(Item(n)) /\ Size(Less(s, ins.pc)) \in Nat
            /\ Size(Less(s, ins.pc)) + Size(Upper(s, ins.pc)) = Size(s)
        BY <1>6, <3>1, LessUpper
      <3>3. given = Upper(s, ins.pc)
        BY <1>7, <1>12
      <3> HIDE DEF given
      <3> QED  BY <3>2, <3>3
    <2> HIDE DEF kept
    <2>3. owed \in [rv : Nat \cup {-1}, kept : Seq(Item(n))] /\ owed.rv = ins.rv /\ owed.kept = kept
      BY <1>8, <2>2
    <2> DEFINE rv == ins.rv
               t == to
               i == ip
               o == owed
    <2>4. c = Context(t, i, rv, given, o)
      OBVIOUS
    <2>5. /\ i \in Int /\ rv \in Nat \cup {-1} /\ o \in [rv : Nat \cup {-1}, kept : Seq(Item(n))]
          /\ given \in Seq(Item(n)) /\ n \in Nat /\ t \in Script
      BY <1>1, <1>5, <1>8, <1>10, <2>3
    <2> HIDE DEF c, t, i, rv, o, owed, given
    <2>6. /\ Context(t, i, rv, given, o) \in Frame(n)
          /\ Context(t, i, rv, given, o).rv = rv
          /\ Context(t, i, rv, given, o).owed = o
          /\ Weight(Context(t, i, rv, given, o)) = Size(given)
      BY <2>5, ContextTyped
    <2>7. /\ c \in Frame(n) /\ Weight(c) = Size(given)
          /\ c.owed.rv >= 0 => c.rv = c.owed.rv /\ kept = c.owed.kept
      BY <2>3, <2>4, <2>6 DEF rv, o
    <2>8. Size(kept) + Weight(c) <= Size(E) + k
      BY <1>1, <1>3, <1>6, <1>10, <2>2, <2>7
    <2> QED  BY <1>2, <1>3, <2>1, <2>2, <2>7, <2>8, CallStep DEF n
  <1> QED  BY <1>11, <1>12

\* What CHECKMULTISIG takes holds no holes.
LEMMA TakenProperties ==
    ASSUME NEW n \in Nat, NEW s \in Seq(Item(n)), CanTake(s)
    PROVE  /\ Taken(s).rest \in Seq(Item(n)) /\ Len(Taken(s).rest) <= Len(s)
           /\ Size(Taken(s).rest) \in Nat /\ Size(s) \in Nat
           /\ Len(Taken(s).rest) \in Nat /\ Len(s) \in Nat
           /\ Size(Taken(s).rest) - Len(Taken(s).rest) = Size(s) - Len(s)
  <1> DEFINE top == Peek(s, 0)
             k == IF IsArray(top) THEN 1 ELSE top[2] + 1
             rest == Less(s, k)
  <1>1. Reach(s, 0) /\ (~IsArray(top) => /\ top[2] >= 1 /\ top[2] < Len(s)
                                         /\ \A i \in 0 .. top[2] : IsNum(Peek(s, i)))
    BY DEF CanTake
  <1>2. Len(s) \in Nat /\ 0 < Len(s) /\ top \in Item(n) /\ top # Hole /\ Size(s) \in Nat
    BY <1>1, ItemAt, SizeBounds
  <1>3. Taken(s).rest = rest
    BY DEF Taken
  <1>4. k \in 0 .. Len(s) /\ \A i \in 0 .. k - 1 : Peek(s, i) # Hole
    <2>1. CASE IsArray(top)
      BY <1>2, <2>1
    <2>2. CASE ~IsArray(top)
      <3>1. IsNum(top)
        BY <1>1, <2>2 DEF CanTake
      <3>2. top[2] \in Int
        BY <1>2, <3>1, ItemCases DEF IsNum
      <3>3. \A i \in 0 .. top[2] : Peek(s, i) # Hole
        BY <1>1, <2>2 DEF IsNum, Hole
      <3> HIDE DEF top
      <3> QED  BY <1>1, <1>2, <2>2, <3>2, <3>3
    <2> QED  BY <2>1, <2>2
  <1> HIDE DEF k
  <1>5. rest \in Seq(Item(n)) /\ Len(rest) = Len(s) - k /\ Size(rest) = Size(s) - k
    BY <1>4, LessUpper
  <1> HIDE DEF rest
  <1>6. Len(rest) \in Nat /\ Size(rest) \in Nat
    BY <1>5, SizeBounds
  <1> QED  BY <1>2, <1>3, <1>4, <1>5, <1>6

\* CHECKMULTISIG counts as if it pushed nothing: the one result more is in multisigs.
LEMMA CheckMultisigSteps ==
    ASSUME Ready, NEW ins \in Instruction, CheckMultisig(ins)
    PROVE  Stepped
  <1> DEFINE n == Len(heap.objs)
             rest == Taken(Taken(E).rest).rest
             k == Len(rest) - Len(E)
  <1>1. /\ n \in Nat /\ E \in Seq(Item(n)) /\ A \in Seq(Item(n)) /\ Size(E) \in Nat /\ Len(A) \in Nat
        /\ InLists(heap) \in Int /\ OnFrames(frames) \in Nat /\ Len(frames) \in Nat
    BY CurTyped
  <1>2. /\ CanTake(E) /\ CanTake(Taken(E).rest) /\ heap' = heap /\ multisigs' = multisigs + 1
        /\ HeapTyped(heap) /\ multisigs \in Int
    BY DEF CheckMultisig, CanCheckMultisig, Ready, MachineTyped
  <1>3. PICK ok \in BOOLEAN : frames' = Moved(Append(rest, Truth(ok)), A)
    BY DEF CheckMultisig
  <1>4. \E s, fs : CheckStackSize(s, k, fs, heap)
    BY DEF CheckMultisig
  <1> HIDE DEF n
  <1> DEFINE keys == Taken(E).rest
  <1>5. /\ keys \in Seq(Item(n)) /\ Len(keys) <= Len(E) /\ Size(keys) \in Nat
        /\ Len(keys) \in Nat /\ Len(E) \in Nat /\ Size(keys) - Len(keys) = Size(E) - Len(E)
    BY <1>1, <1>2, TakenProperties
  <1>6. rest = Taken(keys).rest /\ CanTake(keys)
    BY <1>2
  <1> HIDE DEF keys, rest
  <1>7. /\ rest \in Seq(Item(n)) /\ Len(rest) <= Len(keys) /\ Size(rest) \in Nat
        /\ Len(rest) \in Nat /\ Size(rest) - Len(rest) = Size(keys) - Len(keys)
    BY <1>1, <1>5, <1>6, TakenProperties
  <1>8. k \in Int /\ k <= 0 /\ Size(rest) = Size(E) + k
    <2> DEFINE a == Size(rest)
               b == Len(rest)
               c == Size(keys)
               d == Len(keys)
               e == Size(E)
               f == Len(E)
    <2>1. /\ a \in Nat /\ b \in Nat /\ c \in Nat /\ d \in Nat /\ e \in Nat /\ f \in Nat
          /\ b <= d /\ d <= f /\ a - b = c - d /\ c - d = e - f
      BY <1>1, <1>5, <1>7
    <2> HIDE DEF a, b, c, d, e, f
    <2>2. b - f \in Int /\ b - f <= 0 /\ a = e + (b - f)
      BY <2>1
    <2> QED  BY <2>2 DEF a, b, e, f
  <1> HIDE DEF k
  <1>9. Allows(k)
    BY <1>4, <1>8, FewerAllowed
  <1> DEFINE x == Truth(ok)
             eval == Append(rest, x)
             alt == A
  <1>10. x \in Item(n)
    BY <1>1, ItemTypes
  <1> HIDE DEF x
  <1>11. eval \in Seq(Item(n)) /\ Size(eval) = Size(rest) + Counts(x)
    BY <1>7, <1>10, AppendSize
  <1>12. Size(eval) \in Nat /\ Size(eval) <= Size(E) + k + 1
    <2>1. Counts(x) \in Int /\ 0 <= Counts(x) /\ Counts(x) <= 1
      BY CountsType
    <2> DEFINE a == Size(rest)
               e == Size(E)
               w == Counts(x)
               v == Size(eval)
    <2>2. /\ a \in Nat /\ e \in Nat /\ k \in Int /\ a = e + k
          /\ w \in Int /\ 0 <= w /\ w <= 1 /\ v = a + w
      BY <1>1, <1>7, <1>8, <1>11, <2>1
    <2> HIDE DEF a, e, w, v
    <2>3. v \in Nat /\ v <= e + k + 1
      BY <2>2
    <2> QED  BY <2>3 DEF e, v
  <1>13. frames' = Moved(eval, alt) /\ alt \in Seq(Item(n)) /\ Len(heap.objs) <= n
    BY <1>1, <1>3 DEF x, n
  <1>14. Len(alt) = Len(A)
    OBVIOUS
  <1> HIDE DEF eval, alt
  <1>15. /\ Moved(eval, alt) \in Seq(Frame(n)) /\ Moved(eval, alt) # << >>
         /\ Len(Moved(eval, alt)) = Len(frames)
         /\ Owing(Moved(eval, alt))
         /\ OnFrames(Moved(eval, alt)) = OnFrames(frames) - (Size(E) + Len(A)) + (Size(eval) + Len(alt))
    BY <1>1, <1>11, <1>13, MovedKeeps
  <1>16. /\ frames' \in Seq(Frame(n)) /\ frames' # << >> /\ Len(frames') >= Len(frames) /\ Owing(frames')
         /\ OnFrames(frames') = OnFrames(frames) - (Size(E) + Len(A)) + (Size(eval) + Len(A))
    BY <1>1, <1>13, <1>14, <1>15
  <1>17. MachineTyped'
    BY <1>2, <1>16 DEF MachineTyped, n
  <1> DEFINE a == OnFrames(frames')
             b == OnFrames(frames)
             e == InLists(heap)
             v == Size(E)
             w == Size(eval)
             z == Len(A)
  <1>18. /\ b \in Int /\ e \in Int /\ v \in Int /\ w \in Int /\ z \in Int
         /\ a = b - (v + z) + (w + z) /\ w <= v + k + 1
    BY <1>1, <1>12, <1>16
  <1>19. Carried = b + e /\ Carried' = a + e
    BY <1>2 DEF Carried
  <1> HIDE DEF a, b, e, v, w, z
  <1>20. a \in Int /\ a <= b + k + 1
    BY <1>8, <1>18
  <1>21. Carried' + multisigs <= Carried + k + multisigs'
    BY <1>2, <1>8, <1>18, <1>19, <1>20
  <1> QED  BY <1>8, <1>9, <1>16, <1>17, <1>21 DEF Stepped

-----------------------------------------------------------------------------
(* RET.                                                                    *)

\* What every instruction keeps of the machine, RET too.
Kept ==
    /\ MachineTyped' /\ (Running' => frames' # << >>)
    /\ \E n \in Int : Allows(n) /\ Carried' + multisigs <= Carried + n + multisigs'

\* What the caller of an isolated call is left with.
Handed ==
    Len(frames) > 1 /\ Cur.owed.rv >= 0 =>
        /\ Len(frames'[Len(frames) - 1].eval) = Len(Cur.owed.kept) + Cur.owed.rv
        /\ IsPrefix(Real(Cur.owed.kept), frames'[Len(frames) - 1].eval)

\* Pushing moves none of the items there are.
LEMMA PushedKeeps ==
    ASSUME NEW S, NEW s \in Seq(S), NEW t \in Seq(S)
    PROVE  IsPrefix(Real(s), Push(s, t))
  <1> DEFINE r == Real(s)
             p == Push(s, t)
  <1>1. /\ r \in Seq(S) /\ p \in Seq(S) /\ Len(r) <= Len(s) /\ Len(p) = Len(s) + Len(t)
        /\ \A i \in 1 .. Len(r) : p[i] = r[i]
    <2>1. r \in Seq(S) /\ Len(r) <= Len(s)
      BY Halves
    <2>2. p \in Seq(S) /\ Len(p) = Len(s) + Len(t) /\ \A i \in 1 .. Len(Real(s)) : Push(s, t)[i] = Real(s)[i]
      BY PushProperties
    <2> QED  BY <2>1, <2>2
  <1>2. Len(r) \in Nat /\ Len(s) \in Nat /\ Len(t) \in Nat
    BY <1>1
  <1> HIDE DEF r, p
  <1>3. Len(r) <= Len(p)
    BY <1>1, <1>2
  <1>4. SubSeq(r, 1, Len(r)) = SubSeq(p, 1, Len(r))
    <2>1. Len(p) \in Nat /\ \A i \in 1 .. Len(r) : i \in 1 .. Len(p)
      BY <1>1, <1>2, <1>3
    <2>2. /\ SubSeq(r, 1, Len(r)) = [i \in 1 .. Len(r) |-> r[i]]
          /\ SubSeq(p, 1, Len(r)) = [i \in 1 .. Len(r) |-> p[i]]
      BY <1>1, <1>2, <2>1
    <2> QED  BY <1>1, <2>2
  <1> QED  BY <1>3, <1>4 DEF IsPrefix, r, p

\* RET from a context that has a caller.
LEMMA Returned ==
    ASSUME Ready, NEW ins, Ret(ins), Below # << >>
    PROVE  /\ MachineTyped' /\ frames' # << >> /\ Len(frames') = Len(frames) - 1
           /\ Handed /\ Carried' <= Carried
  <1> DEFINE m == Len(heap.objs)
             b == Below
             p == Len(b)
             t == b[p]
             r == Results
             up == Upper(E, r)
             eval == Push(t.eval, up)
             alt == IF Cur.rv = -1 THEN t.alt \o A ELSE t.alt
             c == [t EXCEPT !.eval = eval, !.alt = alt]
  <1>1. /\ m \in Nat /\ Len(frames) \in Nat \ {0} /\ Cur = frames[Len(frames)] /\ Cur \in Frame(m)
        /\ E \in Seq(Item(m)) /\ A \in Seq(Item(m)) /\ Len(E) \in Nat /\ Len(A) \in Nat /\ Size(E) \in Nat
        /\ Weight(Cur) = Size(E) + Len(A) /\ InLists(heap) \in Int /\ OnFrames(frames) \in Nat
    BY CurTyped
  <1>2. frames \in Seq(Frame(m)) /\ frames # << >> /\ Owing(frames) /\ HeapTyped(heap)
    BY DEF Ready, MachineTyped
  <1>3. /\ CanReturn(ins) /\ UNCHANGED heap
        /\ frames' = [b EXCEPT ![p].eval = Push(@, up), ![p].alt = IF Cur.rv = -1 THEN @ \o A ELSE @]
    BY DEF Ret
  <1>4. /\ b \in Seq(Frame(m)) /\ p = Len(frames) - 1 /\ Owing(b)
        /\ \A k \in 1 .. Len(frames) - 1 : b[k] = frames[k]
        /\ OnFrames(b) = OnFrames(frames) - Weight(Cur) /\ b # << >>
    <2>1. /\ b \in Seq(Frame(m)) /\ p = Len(frames) - 1
          /\ \A k \in 1 .. Len(frames) - 1 : b[k] = frames[k]
      BY <1>1, <1>2, Dropped DEF Below
    <2>2. Owing(b) /\ OnFrames(b) = OnFrames(frames) - Weight(frames[Len(frames)])
      BY <1>1, <1>2, Dropped DEF Below
    <2> QED  BY <1>1, <2>1, <2>2
  <1> HIDE DEF m
  <1>5. p \in Nat \ {0} /\ p \in 1 .. Len(frames) - 1
    <2> HIDE DEF b
    <2>1. p # 0 /\ p \in Nat
      BY <1>4
    <2> QED  BY <1>1, <1>4, <2>1
  <1> HIDE DEF b
  <1>6. t \in Frame(m) /\ t = frames[p]
    BY <1>4, <1>5
  <1> HIDE DEF p, t
  <1>7. /\ t.eval \in Seq(Item(m)) /\ t.alt \in Seq(Item(m))
        /\ Cur.rv \in Nat \cup {-1} /\ Weight(t) = Size(t.eval) + Len(t.alt)
        /\ Size(t.eval) \in Nat /\ Len(t.alt) \in Nat /\ Len(t.eval) \in Nat
    <2>1. t.eval \in Seq(Item(m)) /\ t.alt \in Seq(Item(m)) /\ Cur.rv \in Nat \cup {-1}
      BY <1>1, <1>6 DEF Frame
    <2> QED  BY <2>1, SizeBounds DEF Weight
  <1>8. r \in 0 .. Len(E)
    BY <1>1, <1>3, <1>7 DEF CanReturn, Results
  <1>9. r = Cur.rv \/ Cur.rv = -1
    BY DEF Results
  <1> HIDE DEF r
  <1>10. /\ up \in Seq(Item(m)) /\ Len(up) = r /\ Size(up) \in Nat /\ Size(up) <= Size(E)
    <2>1. /\ up \in Seq(Item(m)) /\ Len(up) = r /\ Size(up) \in Nat /\ Size(Less(E, r)) \in Nat
          /\ Size(Less(E, r)) + Size(up) = Size(E)
      BY <1>1, <1>8, LessUpper
    <2> QED  BY <1>1, <2>1
  <1> HIDE DEF up
  <1>11. /\ eval \in Seq(Item(m)) /\ Len(eval) = Len(t.eval) + Len(up)
         /\ Size(eval) = Size(t.eval) + Size(up) /\ IsPrefix(Real(t.eval), eval)
    BY <1>7, <1>10, PushProperties, PushedKeeps
  <1> HIDE DEF eval
  <1>12. alt \in Seq(Item(m)) /\ Len(alt) \in Nat /\ Len(alt) <= Len(t.alt) + Len(A)
    <2>1. CASE Cur.rv = -1
      <3>1. alt = t.alt \o A
        BY <2>1
      <3> DEFINE u == t.alt
                 v == A
      <3>2. u \in Seq(Item(m)) /\ v \in Seq(Item(m))
        BY <1>1, <1>7
      <3> HIDE DEF u, v
      <3>3. u \o v \in Seq(Item(m)) /\ Len(u \o v) = Len(u) + Len(v) /\ Len(u \o v) \in Nat
        BY <3>2, Joined
      <3>4. alt = u \o v
        BY <3>1 DEF u, v
      <3> QED  BY <3>3, <3>4 DEF u, v
    <2>2. CASE Cur.rv # -1
      <3>1. alt = t.alt
        BY <2>2
      <3> QED  BY <1>1, <1>7, <3>1
    <2> QED  BY <2>1, <2>2
  <1> HIDE DEF alt
  <1>13. c \in Frame(m) /\ c.owed = t.owed /\ c.rv = t.rv /\ c.eval = eval /\ c.alt = alt
    <2>1. c = [[t EXCEPT !.eval = eval] EXCEPT !.alt = alt]
      OBVIOUS
    <2>2. t = [script |-> t.script, ip |-> t.ip, rv |-> t.rv, eval |-> t.eval, alt |-> t.alt, owed |-> t.owed]
      BY <1>6 DEF Frame
    <2> DEFINE u == [script |-> t.script, ip |-> t.ip, rv |-> t.rv, eval |-> eval, alt |-> alt, owed |-> t.owed]
    <2>3. c = u
      <3>1. \A f1, f2, f3, f4, f5, f6, x :
                [[script |-> f1, ip |-> f2, rv |-> f3, eval |-> f4, alt |-> f5, owed |-> f6] EXCEPT !.eval = x]
                  = [script |-> f1, ip |-> f2, rv |-> f3, eval |-> x, alt |-> f5, owed |-> f6]
        OBVIOUS
      <3>2. \A f1, f2, f3, f4, f5, f6, x :
                [[script |-> f1, ip |-> f2, rv |-> f3, eval |-> f4, alt |-> f5, owed |-> f6] EXCEPT !.alt = x]
                  = [script |-> f1, ip |-> f2, rv |-> f3, eval |-> f4, alt |-> x, owed |-> f6]
        OBVIOUS
      <3> HIDE DEF c
      <3> QED  BY <2>1, <2>2, <3>1, <3>2, Zenon
    <2>4. t.script \in Script /\ t.ip \in Int /\ t.rv \in Nat \cup {-1}
          /\ t.owed \in [rv : Nat \cup {-1}, kept : Seq(Item(m))]
      BY <1>6 DEF Frame
    <2> HIDE DEF c
    <2>5. u \in Frame(m)
      BY <1>11, <1>12, <2>4 DEF Frame
    <2> QED  BY <2>3, <2>5
  <1>14. frames' = [b EXCEPT ![p] = c]
    BY <1>3, <1>4, <1>5 DEF eval, alt, t
  <1> HIDE DEF c
  <1>15. Weight(c) \in Nat /\ Weight(c) <= Weight(t) + Weight(Cur)
    <2> DEFINE x == Size(eval)
               y == Len(alt)
    <2>1. Weight(c) = x + y
      BY <1>13 DEF Weight
    <2> DEFINE d == Size(t.eval)
               e == Size(E)
               f == Len(t.alt)
               g == Len(A)
               h == Size(up)
    <2>2. /\ d \in Nat /\ e \in Nat /\ f \in Nat /\ g \in Nat /\ h \in Nat /\ y \in Nat
          /\ x = d + h /\ h <= e /\ y <= f + g /\ Weight(t) = d + f /\ Weight(Cur) = e + g
      BY <1>1, <1>7, <1>10, <1>11, <1>12
    <2> HIDE DEF x, y, d, e, f, g, h
    <2> QED  BY <2>1, <2>2
  <1>16. /\ frames' \in Seq(Frame(m)) /\ Len(frames') = p /\ Owing(frames') /\ frames'[p] = c
         /\ OnFrames(frames') = OnFrames(b) - Weight(t) + Weight(c)
    <2>1. c.owed.rv = -1 \/ (c.owed = b[Len(b)].owed /\ c.rv = b[Len(b)].rv)
      BY <1>13 DEF p, t
    <2>2. m \in Nat /\ b \in Seq(Frame(m)) /\ b # << >> /\ c \in Frame(m) /\ Owing(b)
      BY <1>1, <1>4, <1>13
    <2>3. /\ [b EXCEPT ![p] = c] \in Seq(Frame(m)) /\ Len([b EXCEPT ![p] = c]) = p
          /\ [b EXCEPT ![p] = c][p] = c /\ Owing([b EXCEPT ![p] = c])
          /\ OnFrames([b EXCEPT ![p] = c]) = OnFrames(b) - Weight(b[p]) + Weight(c)
      <3>1. /\ [b EXCEPT ![Len(b)] = c] \in Seq(Frame(m)) /\ Len([b EXCEPT ![Len(b)] = c]) = Len(b)
            /\ [b EXCEPT ![Len(b)] = c][Len(b)] = c /\ Owing([b EXCEPT ![Len(b)] = c])
            /\ OnFrames([b EXCEPT ![Len(b)] = c]) = OnFrames(b) - Weight(b[Len(b)]) + Weight(c)
        BY <2>2, <2>1, TopChanged
      <3> QED  BY <3>1 DEF p
    <2> QED  BY <1>14, <2>3 DEF t
  <1>17. MachineTyped'
    <2>1. heap' = heap
      BY <1>3
    <2>2. HeapTyped(heap') /\ frames' \in Seq(Frame(Len(heap'.objs))) /\ Owing(frames')
      BY <1>2, <1>16, <2>1 DEF m
    <2> QED  BY <2>2 DEF MachineTyped
  <1>18. frames' # << >> /\ Len(frames') = Len(frames) - 1
    BY <1>4, <1>5, <1>16
  <1>19. Handed
    <2> SUFFICES ASSUME Cur.owed.rv >= 0
                 PROVE  /\ Len(frames'[Len(frames) - 1].eval) = Len(Cur.owed.kept) + Cur.owed.rv
                        /\ IsPrefix(Real(Cur.owed.kept), frames'[Len(frames) - 1].eval)
      BY DEF Handed
    <2>1. Cur.rv = Cur.owed.rv /\ frames[Len(frames) - 1].eval = Cur.owed.kept
      <3>1. Len(frames) \in DOMAIN frames
        BY <1>1, <1>2
      <3>2. frames[Len(frames)].owed.rv >= 0
        BY <1>1
      <3>3. \A i \in DOMAIN frames : frames[i].owed.rv >= 0 =>
                /\ i > 1 /\ frames[i].rv = frames[i].owed.rv
                /\ frames[i - 1].eval = frames[i].owed.kept
        BY <1>2 DEF Owing
      <3>4. /\ frames[Len(frames)].rv = frames[Len(frames)].owed.rv
            /\ frames[Len(frames) - 1].eval = frames[Len(frames)].owed.kept
        BY <3>1, <3>2, <3>3
      <3> QED  BY <1>1, <3>4
    <2>2. t.eval = Cur.owed.kept
      BY <1>4, <1>6, <2>1
    <2>3. r = Cur.owed.rv
      BY <1>9, <2>1
    <2>4. frames'[Len(frames) - 1].eval = eval
      BY <1>4, <1>13, <1>16
    <2> QED  BY <1>10, <1>11, <2>2, <2>3, <2>4
  <1>20. Carried' <= Carried
    <2> DEFINE x == Weight(t)
               y == Weight(Cur)
               z == Weight(c)
               w == OnFrames(frames)
               i == InLists(heap)
    <2>1. x \in Int /\ y \in Int /\ z \in Int /\ w \in Int /\ i \in Int /\ z <= x + y
      BY <1>1, <1>7, <1>15, SMTT(30)
    <2>2. OnFrames(frames') = w - y - x + z
      BY <1>4, <1>16
    <2>3. Carried' = OnFrames(frames') + i /\ Carried = w + i
      BY <1>3 DEF Carried
    <2> HIDE DEF x, y, z, w, i
    <2> QED  BY <2>1, <2>2, <2>3
  <1> QED  BY <1>17, <1>18, <1>19, <1>20

\* RET, from the last context as well.
LEMMA RetSteps ==
    ASSUME Ready, NEW ins, Ret(ins)
    PROVE  Kept /\ Handed
  <1>1. /\ Len(heap.objs) \in Nat /\ Len(frames) \in Nat \ {0} /\ InLists(heap) \in Int
        /\ OnFrames(frames) \in Nat /\ multisigs \in Nat /\ HeapTyped(heap)
        /\ frames \in Seq(Frame(Len(heap.objs)))
    BY CurTyped DEF Ready, MachineTyped
  <1>2. UNCHANGED <<heap, multisigs>> /\ CheckStackSize(FALSE, 0, frames', heap)
    BY DEF Ret
  <1>3. CASE Below = << >>
    <2>1. frames' = << >> /\ vmState' = "HALT"
      BY <1>3 DEF Ret
    <2>2. Len(frames) = 1
      <3>1. Len(Below) = Len(frames) - 1
        BY <1>1, Dropped DEF Below, Ready, MachineTyped
      <3> QED  BY <1>1, <1>3, <3>1
    <2>3. ~Running'
      BY <2>1 DEF Running
    <2>4. << >> \in Seq(Frame(Len(heap.objs))) /\ Owing(<< >>)
      BY DEF Owing
    <2>5. MachineTyped'
      <3>1. HeapTyped(heap') /\ frames' \in Seq(Frame(Len(heap'.objs))) /\ Owing(frames')
        BY <1>1, <1>2, <2>1, <2>4
      <3> QED  BY <3>1 DEF MachineTyped
    <2>6. OnFrames(frames') \in Int
      <3>1. OnFrames(<< >>) \in Nat
        BY <1>1, <2>4, FramesWeight
      <3> QED  BY <2>1, <3>1
    <2> DEFINE n == Carried' - Carried
    <2>7. n \in Int /\ Carried' \in Int /\ Carried \in Int
      BY <1>1, <1>2, <2>6 DEF Carried
    <2>8. Carried' + multisigs <= Carried + n + multisigs'
      <3> DEFINE x == Carried
                 y == Carried'
                 z == multisigs
      <3>1. x \in Int /\ y \in Int /\ z \in Int /\ multisigs' = z /\ n = y - x
        BY <1>1, <1>2, <2>7
      <3> HIDE DEF x, y, z, n
      <3>2. y + z <= x + n + z
        BY <3>1
      <3> QED  BY <3>1, <3>2 DEF x, y, z
    <2> HIDE DEF n
    <2>9. Allows(n)
      BY <2>3 DEF Allows
    <2> QED  BY <2>2, <2>3, <2>5, <2>7, <2>8, <2>9 DEF Kept, Handed
  <1>4. CASE Below # << >>
    <2>1. MachineTyped' /\ frames' # << >> /\ Handed /\ Carried' <= Carried
      BY <1>4, Returned
    <2> DEFINE n == 0
    <2>2. n \in Int /\ n <= 0
      OBVIOUS
    <2>3. CheckStackSize(FALSE, n, frames', heap)
      BY <1>2
    <2>4. Carried \in Int /\ Carried' \in Int
      <3>1. OnFrames(frames') \in Nat
        <4>1. frames' \in Seq(Frame(Len(heap'.objs))) /\ Len(heap'.objs) \in Nat
          BY <1>1, <1>2, <2>1 DEF MachineTyped
        <4> QED  BY <4>1, FramesWeight
      <3> QED  BY <1>1, <1>2, <3>1 DEF Carried
    <2>5. Carried' + multisigs <= Carried + n + multisigs'
      <3> DEFINE x == Carried
                 y == Carried'
                 z == multisigs
      <3>1. x \in Int /\ y \in Int /\ z \in Int /\ multisigs' = z /\ n = 0 /\ y <= x
        BY <1>1, <1>2, <2>1, <2>4
      <3> HIDE DEF x, y, z, n
      <3>2. y + z <= x + n + z
        BY <3>1
      <3> QED  BY <3>1, <3>2 DEF x, y, z
    <2> HIDE DEF n
    <2>6. Allows(n)
      BY <2>2, <2>3, FewerAllowed
    <2> QED  BY <2>1, <2>2, <2>5, <2>6 DEF Kept
  <1> QED  BY <1>3, <1>4

-----------------------------------------------------------------------------
(* What an execution has paid.                                             *)

\* What is consumed is a natural number, and an engine that still runs has not gone
\* over what was paid: the one instruction that may is the RET that halts it.
GasInvariant ==
    /\ gas \in Nat
    /\ ~testMode /\ Running => gas <= GasAmount
    /\ HaltsPaid

\* No instruction gives gas back, a RET costs one unit, and nothing past the
\* end of the script.
LEMMA PriceType ==
    ASSUME NEW ins
    PROVE  /\ Price(ins) \in Nat
           /\ ins.op = "RET" => Price(ins) = IF AtEnd THEN 0 ELSE 1
  <1>1. Costs["call"] \in Nat /\ Costs["hash"] \in Nat /\ Costs["sign"] \in Nat
    BY VMAssumption
  <1>2. \A n \in Nat \ {0} : Costs["sign"] * n \in Nat
    BY <1>1
  <1>4. ins.op = "RET" => Price(ins) = IF AtEnd THEN 0 ELSE 1
    BY DEF Price
  <1>5. Price(ins) \in Nat
    <2> DEFINE top == Peek(E, 0)
               n == IF E = << >> THEN 0 ELSE IF IsArray(top) THEN Len(Items(top)) ELSE top[2]
    <2>1. (IF n \in Nat \ {0} THEN Costs["sign"] * n ELSE 1) \in Nat
      <3> HIDE DEF n
      <3> QED  BY <1>2
    <2> QED  BY <1>1, <2>1, Zenon DEF Price
  <1> QED  BY <1>4, <1>5

\* However an instruction ends, the engine has faulted, or it goes on and
\* PreExecuteInstruction agreed to that, or it was a RET and has halted.
LEMMA Outcome ==
    ASSUME NEW ins, Syscall(ins) \/ WithoutService(ins)
    PROVE  \/ vmState' = "FAULT"
           \/ vmState' = "NONE" /\ PreExecute(ins)
           \/ vmState' = "HALT" /\ ins.op = "RET"
  <1> DEFINE Goal == \/ vmState' = "FAULT"
                     \/ vmState' = "NONE" /\ PreExecute(ins)
                     \/ vmState' = "HALT" /\ ins.op = "RET"
  <1>1. ASSUME NEW ok, Ran(ins, ok) PROVE Goal
    BY <1>1 DEF Ran
  <1>2. Fault => Goal
    BY DEF Fault
  <1>3. ASSUME NEW results, Replace(ins, results) PROVE Goal
    BY <1>3 DEF Replace, Ran
  <1> QED
    <2> SUFFICES ASSUME WithoutService(ins) PROVE Goal
      BY DEF Syscall, Ran
    <2> QED
      BY <1>2, <1>3 DEF WithoutService, PushValue, Nop, Shuffle, AltStack, Index, Splice, Bits,
         Numeric, Crypto, ExceedLimit, CheckMultisig, Jump, ThrowIfNot, Ret, Call, AppCall,
         CallIsolated, NoSuchContract, Pack, Unpack, PickItem, SetItem, NewCollection, NewMapItem,
         AppendItem, ReverseItems, RemoveItem, ArraySize, Look, Raise, Ran

LEMMA GasKept ==
    ASSUME GasInvariant, [Next]_vars
    PROVE  GasInvariant'
  <1>1. CASE Execute
    <2>1. PICK ins \in Fetched :
              /\ gas' = IF testMode THEN gas ELSE gas + Price(ins)
              /\ Syscall(ins) \/ WithoutService(ins)
      BY <1>1 DEF Execute, ExecuteNext
    <2>2. Running /\ testMode' = testMode
      BY <1>1 DEF Execute, ExecuteNext
    <2>3. Price(ins) \in Nat /\ (ins.op = "RET" => Price(ins) = IF AtEnd THEN 0 ELSE 1)
      BY PriceType
    <2>4. AtEnd => ins.op = "RET"
      BY DEF Fetched, Return
    <2>5. gas \in Nat /\ gas' \in Nat /\ GasAmount \in Nat
      BY <2>1, <2>3, VMAssumption DEF GasInvariant
    <2>6. CASE testMode
      BY <2>2, <2>5, <2>6 DEF GasInvariant, HaltsPaid
    <2>7. CASE ~testMode
      <3>1. gas <= GasAmount /\ gas' = gas + Price(ins)
        BY <2>1, <2>2, <2>7 DEF GasInvariant
      <3>2. CASE vmState' = "FAULT"
        BY <2>5, <3>2 DEF GasInvariant, HaltsPaid, Running
      <3>3. CASE vmState' = "NONE" /\ PreExecute(ins)
        <4>1. gas' <= GasAmount
          BY <2>3, <2>4, <2>5, <2>7, <3>1, <3>3, <2>2 DEF PreExecute
        <4> QED  BY <2>5, <3>3, <4>1 DEF GasInvariant, HaltsPaid, Running
      <3>4. CASE vmState' = "HALT" /\ ins.op = "RET"
        BY <2>3, <2>5, <3>1, <3>4 DEF GasInvariant, HaltsPaid, Running
      <3> QED  BY <2>1, <3>2, <3>3, <3>4, Outcome
    <2> QED  BY <2>6, <2>7
  <1>2. ASSUME NEW program, NEW loaded, NEW isTest, Load(program, loaded, isTest)
        PROVE  GasInvariant'
    <2>1. gas' = 0 /\ vmState' = "NONE"
      BY <1>2 DEF Load
    <2> QED  BY <2>1, VMAssumption DEF GasInvariant, HaltsPaid, Running
  <1>3. Unload => GasInvariant'
    BY DEF Unload, GasInvariant, HaltsPaid, Running
  <1>4. UNCHANGED vmVars => GasInvariant'
    BY DEF vmVars, GasInvariant, HaltsPaid, Running
  <1> QED
    BY <1>1, <1>2, <1>3, <1>4 DEF Next, vars, CollectSignatures, LeaveSigning, VerifyForPool,
       TestInvoke, RunInvocation, ExecutionCompleted, BeginBlock, EndBlock, ListenerRaises,
       PersistRaises, File, Stop

\* HaltsPaid: an execution on the chain that halts was paid for, but for the RET that
\* ends it, whatever its scripts do and however many invocations, verifications and
\* stops there are around it.
THEOREM PaidBeforeHalt == Spec => [](GasInvariant /\ HaltsPaid)
  <1>1. Init => GasInvariant
    BY DEF Init, NoExecution, GasInvariant, HaltsPaid, Running
  <1>2. GasInvariant => GasInvariant /\ HaltsPaid
    BY DEF GasInvariant
  <1> QED  BY <1>1, <1>2, GasKept, PTL DEF Spec

-----------------------------------------------------------------------------
(* Keys in order.                                                          *)

LEMMA PlaceType ==
    ASSUME NEW S \in SUBSET Signers
    PROVE  /\ IsFiniteSet(S) /\ Cardinality(S) \in Nat
           /\ \A k \in S : k \in Nat
           /\ \A k \in S : Place(S, k) \in 1..Cardinality(S)
           /\ \A j, k \in S : j < k => Place(S, k) < Place(S, j)
  <1>1. IsFiniteSet(S) /\ Cardinality(S) \in Nat
    BY SignersAssumption, FS_Subset, FS_CardinalityType
  <1>2. \A k \in S : k \in Nat
    BY SignersAssumption
  <1> DEFINE Upwards(k) == {j \in S : j >= k}
  <1>3. ASSUME NEW k \in S
        PROVE  IsFiniteSet(Upwards(k)) /\ Place(S, k) \in Nat /\ Place(S, k) \in 1..Cardinality(S)
    <2>1. Upwards(k) \in SUBSET S /\ k \in Upwards(k)
      BY <1>2
    <2>2. /\ IsFiniteSet(Upwards(k)) /\ Cardinality(Upwards(k)) \in Nat
          /\ Cardinality(Upwards(k)) <= Cardinality(S) /\ Cardinality(Upwards(k)) # 0
      BY <1>1, <2>1, FS_Subset, FS_CardinalityType, FS_EmptySet
    <2> QED  BY <1>1, <2>2 DEF Place
  <1>4. ASSUME NEW j \in S, NEW k \in S, j < k
        PROVE  Place(S, k) < Place(S, j)
    <2>1. Upwards(k) \in SUBSET Upwards(j) /\ j \in Upwards(j) /\ j \notin Upwards(k)
      BY <1>2, <1>4
    <2>2. Cardinality(Upwards(k)) <= Cardinality(Upwards(j)) /\ Cardinality(Upwards(k)) # Cardinality(Upwards(j))
      BY <1>3, <2>1, FS_Subset
    <2>3. Cardinality(Upwards(k)) \in Nat /\ Cardinality(Upwards(j)) \in Nat
      BY <1>3, FS_CardinalityType
    <2> QED  BY <2>2, <2>3 DEF Place
  <1> QED  BY <1>1, <1>2, <1>3, <1>4

\* Every place is taken by one key.
LEMMA PlaceTaken ==
    ASSUME NEW S \in SUBSET Signers, NEW i \in 1..Cardinality(S)
    PROVE  \E k \in S : Place(S, k) = i
  <1> DEFINE f == [k \in S |-> Place(S, k)]
  <1>1. f \in [S -> 1..Cardinality(S)]
    BY PlaceType
  <1>2. ASSUME NEW j \in S, NEW k \in S, f[j] = f[k] PROVE j = k
    <2>1. j \in Nat /\ k \in Nat /\ Place(S, j) \in Nat /\ Place(S, k) = Place(S, j)
      BY <1>2, PlaceType
    <2>2. ~ (j < k) /\ ~ (k < j)
      BY <2>1, PlaceType
    <2> QED  BY <2>1, <2>2
  <1>3. f \in Injection(S, 1..Cardinality(S))
    <2> HIDE DEF f
    <2> QED  BY <1>1, <1>2 DEF Injection, IsInjective
  <1>4. IsFiniteSet(1..Cardinality(S)) /\ Cardinality(1..Cardinality(S)) = Cardinality(S)
    <2>1. Cardinality(S) \in Nat
      BY PlaceType
    <2> QED  BY <2>1, FS_Interval
  <1>5. f \in Surjection(S, 1..Cardinality(S))
    BY <1>3, <1>4, FS_Injection
  <1> QED  BY <1>5 DEF Surjection

LEMMA DescendingProperties ==
    ASSUME NEW S \in SUBSET Signers
    PROVE  /\ Descending(S) \in [1..Cardinality(S) -> S]
           /\ Descending(S) \in Seq(S) /\ Len(Descending(S)) = Cardinality(S)
           /\ \A i \in 1..Cardinality(S) : Place(S, Descending(S)[i]) = i
           /\ \A k \in S : Descending(S)[Place(S, k)] = k
  <1>1. \A i \in 1..Cardinality(S) : Descending(S)[i] \in S /\ Place(S, Descending(S)[i]) = i
    BY PlaceTaken DEF Descending
  <1>2. Descending(S) \in [1..Cardinality(S) -> S]
    BY <1>1 DEF Descending
  <1>3. Cardinality(S) \in Nat
    BY PlaceType
  <1>4. \A j, k \in S : Place(S, j) = Place(S, k) => j = k
    <2> SUFFICES ASSUME NEW j \in S, NEW k \in S, Place(S, j) = Place(S, k) PROVE j = k
      OBVIOUS
    <2>1. j \in Nat /\ k \in Nat /\ Place(S, j) \in Nat
      BY PlaceType
    <2>2. ~ (j < k) /\ ~ (k < j)
      BY <2>1, PlaceType
    <2> QED  BY <2>1, <2>2
  <1>5. \A k \in S : Descending(S)[Place(S, k)] = k
    BY <1>1, <1>4, PlaceType
  <1> HIDE DEF Descending
  <1> QED  BY <1>1, <1>2, <1>3, <1>5

\* How many of the keys of S stand among the first j of all Signers.
Before(S, j) == {k \in S : Place(Signers, k) <= j}

LEMMA BeforeGrows ==
    ASSUME NEW S \in SUBSET Signers, NEW j \in 0..Cardinality(Signers)
    PROVE  /\ Cardinality(Before(S, j)) \in Nat /\ Cardinality(Before(S, j)) <= Cardinality(S)
           /\ j < Cardinality(Signers) =>
                LET k == Descending(Signers)[j + 1]
                IN Cardinality(Before(S, j + 1)) =
                     IF k \in S THEN Cardinality(Before(S, j)) + 1 ELSE Cardinality(Before(S, j))
  <1>1. Before(S, j) \in SUBSET S /\ IsFiniteSet(S) /\ IsFiniteSet(Before(S, j))
    BY PlaceType, FS_Subset DEF Before
  <1>2. Cardinality(Before(S, j)) \in Nat /\ Cardinality(Before(S, j)) <= Cardinality(S)
    BY <1>1, FS_Subset, FS_CardinalityType
  <1>3. ASSUME j < Cardinality(Signers)
        PROVE  LET k == Descending(Signers)[j + 1]
               IN Cardinality(Before(S, j + 1)) =
                     IF k \in S THEN Cardinality(Before(S, j)) + 1 ELSE Cardinality(Before(S, j))
    <2> DEFINE k == Descending(Signers)[j + 1]
    <2>1. Cardinality(Signers) \in Nat /\ j \in Nat /\ j + 1 \in 1..Cardinality(Signers)
      BY <1>3, PlaceType
    <2>2. k \in Signers /\ Place(Signers, k) = j + 1
      BY <2>1, DescendingProperties
    <2>3. \A s \in S : Place(Signers, s) \in Nat /\ (Place(Signers, s) = j + 1 => s = k)
      <3>1. \A s \in Signers : Descending(Signers)[Place(Signers, s)] = s /\ Place(Signers, s) \in Nat
        BY DescendingProperties, PlaceType
      <3> QED  BY <3>1
    <2>4. k \notin Before(S, j)
      BY <2>1, <2>2 DEF Before
    <2> HIDE DEF k
    <2>5. CASE k \in S
      <3>1. \A s : s \in Before(S, j + 1) <=> s \in Before(S, j) \cup {k}
        BY <2>1, <2>2, <2>3, <2>5 DEF Before
      <3>2. Before(S, j + 1) = Before(S, j) \cup {k}
        BY <3>1
      <3>3. Cardinality(Before(S, j) \cup {k}) = Cardinality(Before(S, j)) + 1
        BY <1>1, <2>4, FS_AddElement
      <3> QED  BY <2>5, <3>2, <3>3 DEF k
    <2>6. CASE k \notin S
      <3>1. \A s : s \in Before(S, j + 1) <=> s \in Before(S, j)
        BY <2>1, <2>2, <2>3, <2>6 DEF Before
      <3>2. Before(S, j + 1) = Before(S, j)
        BY <3>1
      <3> QED  BY <2>6, <3>2 DEF k
    <2> QED  BY <2>5, <2>6
  <1> QED  BY <1>2, <1>3

\* What the search of CHECKMULTISIG is defined by.
Search(sigs, keys, f) ==
    f = [j \in 0 .. Len(keys) |->
            IF j = 0 THEN 0
            ELSE LET i == f[j - 1]
                 IN IF i < Len(sigs) /\ sigs[i + 1] = keys[j] THEN i + 1 ELSE i]

Found(sigs, keys) == CHOOSE f : Search(sigs, keys, f)

LEMMA AcceptsWhenFound ==
    ASSUME NEW pushed
    PROVE  CheckMultisigAccepts(pushed) <=>
             Found(Reverse(pushed), Reverse(Points))[Len(Reverse(Points))] = Len(Reverse(pushed))
  BY DEF CheckMultisigAccepts, Found, Search

\* With i signatures found among the first j keys, the next key is that of the next
\* signature when it is a key that has signed, and no other time.
LEMMA SearchStep ==
    ASSUME NEW S \in SUBSET Signers, NEW j \in Nat, j + 1 <= Cardinality(Signers)
    PROVE  LET sigs == Descending(S)
               i == Cardinality(Before(S, j))
           IN Cardinality(Before(S, j + 1)) =
                 IF i < Len(sigs) /\ sigs[i + 1] = Descending(Signers)[j + 1] THEN i + 1 ELSE i
  <1> DEFINE sigs == Descending(S)
             k == Descending(Signers)[j + 1]
             n == Cardinality(Signers)
             i == Cardinality(Before(S, j))
  <1>1. Len(sigs) = Cardinality(S) /\ Cardinality(S) \in Nat /\ n \in Nat
    BY DescendingProperties, PlaceType
  <1>2. j \in 0..n /\ j < n /\ j + 1 \in 1..n
    BY <1>1
  <1>3. /\ i \in Nat /\ i <= Cardinality(S)
        /\ Cardinality(Before(S, j + 1)) = IF k \in S THEN i + 1 ELSE i
    BY <1>2, BeforeGrows
  <1>4. k \in Signers /\ Place(Signers, k) = j + 1
    BY <1>2, DescendingProperties
  <1>5. ASSUME k \in S PROVE i + 1 \in 1..Cardinality(S) /\ sigs[i + 1] = k
    <2>1. \A s : s \in {x \in S : x >= k} <=> s \in Before(S, j) \cup {k}
      <3> SUFFICES ASSUME NEW s \in S PROVE s >= k <=> Place(Signers, s) <= j \/ s = k
        BY <1>5 DEF Before
      <3>1. s \in Nat /\ k \in Nat /\ s \in Signers
        BY <1>4, PlaceType
      <3>2. s > k => Place(Signers, s) < Place(Signers, k)
        BY <1>4, <3>1, PlaceType
      <3>3. s < k => Place(Signers, k) < Place(Signers, s)
        BY <1>4, <3>1, PlaceType
      <3>4. Place(Signers, s) \in Nat
        BY <3>1, PlaceType
      <3> QED  BY <1>1, <1>2, <1>4, <3>1, <3>2, <3>3, <3>4
    <2>2. {x \in S : x >= k} = Before(S, j) \cup {k}
      BY <2>1
    <2>3. k \notin Before(S, j)
      BY <1>2, <1>4 DEF Before
    <2>4. IsFiniteSet(Before(S, j))
      BY PlaceType, FS_Subset DEF Before
    <2>5. Cardinality(Before(S, j) \cup {k}) = i + 1
      BY <2>3, <2>4, FS_AddElement
    <2>6. Place(S, k) = i + 1
      BY <2>2, <2>5 DEF Place
    <2>7. Place(S, k) \in 1..Cardinality(S) /\ sigs[Place(S, k)] = k
      BY <1>5, PlaceType, DescendingProperties
    <2> QED  BY <2>6, <2>7
  <1>6. ASSUME k \notin S, i < Len(sigs) PROVE sigs[i + 1] # k
    <2>1. i + 1 \in 1..Cardinality(S)
      BY <1>1, <1>3, <1>6
    <2>2. sigs[i + 1] \in S
      BY <2>1, DescendingProperties
    <2> QED  BY <1>6, <2>2
  <1> HIDE DEF i, k, sigs
  <1>7. Cardinality(Before(S, j + 1)) = IF i < Len(sigs) /\ sigs[i + 1] = k THEN i + 1 ELSE i
    BY <1>1, <1>3, <1>5, <1>6
  <1> QED  BY <1>7 DEF i, k, sigs

LEMMA NoneBefore ==
    ASSUME NEW S \in SUBSET Signers
    PROVE  Cardinality(Before(S, 0)) = 0
  <1>1. \A k \in S : Place(Signers, k) \in 1..Cardinality(Signers)
    BY PlaceType
  <1>2. Before(S, 0) = {}
    BY <1>1, PlaceType DEF Before
  <1> QED  BY <1>2, FS_EmptySet

\* Looking for the signatures of S in the order of the keys finds, among the first j
\* keys, each one that has signed.
LEMMA SearchFinds ==
    ASSUME NEW S \in SUBSET Signers, NEW f,
           Search(Descending(S), Descending(Signers), f)
    PROVE  \A j \in 0..Cardinality(Signers) : f[j] = Cardinality(Before(S, j))
  <1> DEFINE sigs == Descending(S)
             keys == Descending(Signers)
             n == Cardinality(Signers)
             P == {j \in Nat : j <= n => f[j] = Cardinality(Before(S, j))}
  <1>1. Len(keys) = n /\ n \in Nat
    BY DescendingProperties, PlaceType
  <1>2. 0 \in P
    <2>1. f[0] = 0
      BY <1>1 DEF Search
    <2> QED  BY <2>1, NoneBefore
  <1>3. ASSUME NEW j \in P PROVE j + 1 \in P
    <2> SUFFICES ASSUME j + 1 <= n PROVE f[j + 1] = Cardinality(Before(S, j + 1))
      OBVIOUS
    <2> DEFINE i == Cardinality(Before(S, j))
    <2>1. j \in Nat /\ f[j] = i
      BY <1>1
    <2>2. j + 1 \in 0..Len(keys) /\ j + 1 # 0 /\ (j + 1) - 1 = j
      BY <1>1, <2>1
    <2>3. f[j + 1] = IF i < Len(sigs) /\ sigs[i + 1] = keys[j + 1] THEN i + 1 ELSE i
      <3> HIDE DEF i, sigs, keys
      <3> QED  BY <2>1, <2>2 DEF Search, sigs, keys
    <2> QED  BY <2>1, <2>3, SearchStep
  <1>4. P = Nat
    <2>1. P \in SUBSET Nat
      OBVIOUS
    <2> HIDE DEF P
    <2> QED  BY <1>2, <1>3, <2>1, Induction
  <1> QED  BY <1>1, <1>4

\* There is such a search.
LEMMA SearchExists ==
    ASSUME NEW S \in SUBSET Signers
    PROVE  \E f : Search(Descending(S), Descending(Signers), f)
  <1> DEFINE n == Cardinality(Signers)
             sigs == Descending(S)
             keys == Descending(Signers)
             f == [j \in 0..n |-> Cardinality(Before(S, j))]
  <1>1. Len(keys) = n /\ n \in Nat
    BY DescendingProperties, PlaceType
  <1>2. ASSUME NEW j \in 0..n
        PROVE  f[j] = IF j = 0 THEN 0
                      ELSE LET i == f[j - 1]
                           IN IF i < Len(sigs) /\ sigs[i + 1] = keys[j] THEN i + 1 ELSE i
    <2>1. CASE j = 0
      BY <1>1, <2>1, NoneBefore
    <2>2. CASE j # 0
      <3>1. j - 1 \in Nat /\ (j - 1) + 1 = j /\ (j - 1) + 1 <= n /\ j - 1 \in 0..n
        BY <1>1, <2>2
      <3>2. f[j - 1] = Cardinality(Before(S, j - 1)) /\ f[j] = Cardinality(Before(S, j))
        BY <3>1
      <3> HIDE DEF f
      <3>3. LET i == f[j - 1]
            IN Cardinality(Before(S, (j - 1) + 1)) =
                  IF i < Len(sigs) /\ sigs[i + 1] = keys[(j - 1) + 1] THEN i + 1 ELSE i
        BY <3>1, <3>2, SearchStep
      <3> QED  BY <2>2, <3>1, <3>2, <3>3
    <2> QED  BY <2>1, <2>2
  <1>3. f = [j \in 0..n |-> f[j]]
    OBVIOUS
  <1>4. Search(sigs, keys, f)
    <2> HIDE DEF f, sigs, keys
    <2> QED  BY <1>1, <1>2, <1>3 DEF Search
  <1> QED  BY <1>4

\* Whoever signs, their signatures in the order of the keys are accepted.
LEMMA InKeyOrderAccepted ==
    ASSUME NEW S \in SUBSET Signers
    PROVE  CheckMultisigAccepts(Reverse(InKeyOrder(S)))
  <1> DEFINE n == Cardinality(Signers)
             sigs == Descending(S)
             keys == Descending(Signers)
             found == Found(sigs, keys)
  <1>1. Search(sigs, keys, found)
    BY SearchExists DEF Found
  <1>2. Len(keys) = n /\ n \in Nat /\ Len(sigs) = Cardinality(S)
    BY DescendingProperties, PlaceType
  <1>3. found[n] = Cardinality(Before(S, n))
    <2> HIDE DEF found
    <2> QED  BY <1>1, <1>2, SearchFinds
  <1>4. Before(S, n) = S
    BY <1>2, PlaceType DEF Before
  <1>5. Reverse(Reverse(sigs)) = sigs /\ Reverse(Reverse(keys)) = keys
    BY DescendingProperties, ReverseTwice
  <1> QED
    BY <1>2, <1>3, <1>4, <1>5, AcceptsWhenFound DEF InKeyOrder, Points

-----------------------------------------------------------------------------
(* Collecting signatures.                                                  *)

Blank(h) == [i \in 1 .. IF h = Multi THEN M ELSE 1 |-> Null]
TooFew == {S \in SUBSET Signers : Cardinality(S) < M}
Enough == {S \in SUBSET Signers : Cardinality(S) = M}

\* What a context may have for a script hash: values still to come, or all of them.
Collecting(h) ==
    {[signatures |-> s, values |-> Blank(h)] : s \in IF h = Multi THEN {Null} \cup TooFew ELSE {Null}}
Filled(h) ==
    IF h = Multi THEN {[signatures |-> Null, values |-> InKeyOrder(S)] : S \in Enough}
    ELSE {[signatures |-> Null, values |-> <<h>>]}

IsContext(items) ==
    /\ DOMAIN items \in SUBSET (Signers \cup {Multi})
    /\ items = [h \in DOMAIN items |-> items[h]]
    /\ \A h \in DOMAIN items : items[h] = Absent \/ items[h] \in Collecting(h)

Lacking(item) == item \in Collecting(Multi) /\ item.signatures \in TooFew

\* A context that was printed has no values, and its multi-signature contract, when it
\* has no other, has some signatures and not enough.
SigningInvariant ==
    /\ \A items \in papers : IsContext(items) /\ (DOMAIN items = {Multi} => Lacking(items[Multi]))
    /\ RelayedVerifies

LEMMA BlankProperties ==
    ASSUME NEW h \in Signers \cup {Multi}
    PROVE  /\ M \in Nat /\ M >= 1 /\ Null \notin Signers /\ Multi \notin Signers
           /\ NewItem(h) \in Collecting(h)
           /\ DOMAIN Blank(h) = (1 .. IF h = Multi THEN M ELSE 1) /\ 1 \in DOMAIN Blank(h)
           /\ \A i \in DOMAIN Blank(h) : Blank(h)[i] = Null
           /\ Blank(h) # Absent.values
  <1>1. M \in Nat /\ M >= 1 /\ Cardinality(Signers) \in Nat /\ Null \notin Signers /\ Multi \notin Signers
    BY SignersAssumption, FS_CardinalityType
  <1>2. NewItem(h) \in Collecting(h)
    BY DEF NewItem, Collecting, Blank
  <1>3. DOMAIN Blank(h) = (1 .. IF h = Multi THEN M ELSE 1) /\ 1 \in DOMAIN Blank(h)
    BY <1>1 DEF Blank
  <1>4. Absent.values = << >> /\ DOMAIN Absent.values = {}
    BY DEF Absent
  <1> QED  BY <1>1, <1>2, <1>3, <1>4 DEF Blank

LEMMA CollectingProperties ==
    ASSUME NEW h \in Signers \cup {Multi}, NEW item \in Collecting(h)
    PROVE  /\ item = [signatures |-> item.signatures, values |-> Blank(h)]
           /\ item.values = Blank(h)
           /\ item # Absent
           /\ item.signatures \in IF h = Multi THEN {Null} \cup TooFew ELSE {Null}
  <1>1. PICK s \in IF h = Multi THEN {Null} \cup TooFew ELSE {Null} :
            item = [signatures |-> s, values |-> Blank(h)]
    BY DEF Collecting
  <1>2. item.values = Blank(h) /\ item.signatures = s
    BY <1>1
  <1> QED  BY <1>1, <1>2, BlankProperties

LEMMA FilledProperties ==
    ASSUME NEW h \in Signers \cup {Multi}, NEW item \in Filled(h)
    PROVE  /\ item = [signatures |-> Null, values |-> item.values]
           /\ item # Absent
           /\ DOMAIN item.values = DOMAIN Blank(h)
           /\ \A i \in DOMAIN item.values : item.values[i] # Null
  <1>1. CASE h = Multi
    <2>1. PICK S \in Enough : item = [signatures |-> Null, values |-> InKeyOrder(S)]
      BY <1>1 DEF Filled
    <2>2. item.values = InKeyOrder(S) /\ S \in SUBSET Signers /\ Cardinality(S) = M
      BY <2>1 DEF Enough
    <2>3. InKeyOrder(S) \in [1..M -> S]
      BY <2>2, DescendingProperties DEF InKeyOrder
    <2>4. DOMAIN item.values = 1..M /\ \A i \in 1..M : item.values[i] \in S
      BY <2>2, <2>3
    <2>5. 1 \in DOMAIN item.values /\ item # Absent
      BY <2>4, BlankProperties DEF Absent
    <2> QED  BY <1>1, <2>1, <2>2, <2>4, <2>5, BlankProperties
  <1>2. CASE h # Multi
    <2>1. item = [signatures |-> Null, values |-> <<h>>] /\ h \in Signers
      BY <1>2 DEF Filled
    <2>2. item.values = <<h>> /\ DOMAIN item.values = 1..1 /\ \A i \in 1..1 : item.values[i] = h
      BY <2>1
    <2>3. 1 \in DOMAIN item.values /\ item # Absent
      BY <2>2 DEF Absent
    <2> QED  BY <1>2, <2>1, <2>2, <2>3, BlankProperties
  <1> QED  BY <1>1, <1>2

\* AddSignature for the multi-signature contract: M signatures fill it, fewer leave it
\* lacking, and the other contracts are left alone.
LEMMA AddMultiResult ==
    ASSUME NEW items, IsContext(items), Multi \in DOMAIN items, NEW w \in Signers
    PROVE  LET r == AddMulti(items, w)
           IN /\ DOMAIN r = DOMAIN items
              /\ r = [h \in DOMAIN items |-> r[h]]
              /\ \A h \in DOMAIN items \ {Multi} : r[h] = items[h]
              /\ r[Multi] \in Filled(Multi) \/ Lacking(r[Multi])
  <1> DEFINE made == CreateItem(items, Multi)
             item == made[Multi]
             signed == (IF item.signatures = Null THEN {} ELSE item.signatures) \cup {w}
             new == IF Cardinality(signed) = M
                    THEN [signatures |-> Null, values |-> InKeyOrder(signed)]
                    ELSE [item EXCEPT !.signatures = signed]
  <1>1. /\ DOMAIN made = DOMAIN items
        /\ \A h \in DOMAIN items \ {Multi} : made[h] = items[h]
        /\ item \in Collecting(Multi)
    BY BlankProperties DEF CreateItem, IsContext
  <1>2. /\ item.values = Blank(Multi)
        /\ item = [signatures |-> item.signatures, values |-> Blank(Multi)]
        /\ \A i \in DOMAIN item.values : item.values[i] = Null
        /\ item.signatures = Null \/ item.signatures \in TooFew
    <2> HIDE DEF made
    <2> QED  BY <1>1, BlankProperties, CollectingProperties
  <1>3. AddMulti(items, w) = [made EXCEPT ![Multi] = new]
    BY <1>2 DEF AddMulti
  <1> HIDE DEF made
  <1>4. signed \in SUBSET Signers /\ Cardinality(signed) \in Nat /\ Cardinality(signed) <= M /\ M \in Nat
    <2>1. M \in Nat /\ M >= 1
      BY SignersAssumption, FS_CardinalityType
    <2>2. CASE item.signatures = Null
      <3>1. signed = {w}
        BY <2>2
      <3>2. Cardinality({w}) = 1 /\ {w} \in SUBSET Signers
        BY FS_Singleton
      <3> HIDE DEF signed
      <3> QED  BY <2>1, <3>1, <3>2
    <2>3. CASE item.signatures # Null
      <3>1. item.signatures \in SUBSET Signers /\ Cardinality(item.signatures) < M
        BY <1>2, <2>3 DEF TooFew
      <3>2. IsFiniteSet(item.signatures) /\ Cardinality(item.signatures) \in Nat
        BY <3>1, PlaceType
      <3>3. Cardinality(item.signatures \cup {w}) =
                IF w \in item.signatures THEN Cardinality(item.signatures)
                                         ELSE Cardinality(item.signatures) + 1
        BY <3>2, FS_AddElement
      <3> QED  BY <2>1, <2>3, <3>1, <3>2, <3>3
    <2> QED  BY <2>2, <2>3
  <1>5. new \in Filled(Multi) \/ Lacking(new)
    <2>1. CASE Cardinality(signed) = M
      BY <1>4, <2>1 DEF Filled, Enough
    <2>2. CASE Cardinality(signed) # M
      <3>1. signed \in TooFew
        BY <1>4, <2>2 DEF TooFew
      <3>2. new = [signatures |-> signed, values |-> Blank(Multi)]
        <4>1. ASSUME NEW it, NEW old, NEW set, it = [signatures |-> old, values |-> Blank(Multi)]
              PROVE  [it EXCEPT !.signatures = set] = [signatures |-> set, values |-> Blank(Multi)]
          BY <4>1
        <4> HIDE DEF signed, item
        <4>2. [item EXCEPT !.signatures = signed] = [signatures |-> signed, values |-> Blank(Multi)]
          BY <1>2, <4>1
        <4> QED  BY <4>2, <2>2
      <3> HIDE DEF new, signed
      <3> QED  BY <3>1, <3>2 DEF Lacking, Collecting
    <2> QED  BY <2>1, <2>2
  <1> HIDE DEF new
  <1> QED  BY <1>1, <1>3, <1>5

\* AddSignature for a standard contract, which one signature fills.
LEMMA AddStandardResult ==
    ASSUME NEW items, NEW w \in Signers, w \in DOMAIN items,
           items = [h \in DOMAIN items |-> items[h]],
           items[w] = Absent \/ items[w] \in Collecting(w)
    PROVE  LET r == AddStandard(items, w)
           IN /\ DOMAIN r = DOMAIN items
              /\ r = [h \in DOMAIN items |-> r[h]]
              /\ \A h \in DOMAIN items \ {w} : r[h] = items[h]
              /\ r[w] \in Filled(w)
  <1> DEFINE made == CreateItem(items, w)
             item == made[w]
  <1>1. /\ DOMAIN made = DOMAIN items
        /\ \A h \in DOMAIN items \ {w} : made[h] = items[h]
        /\ item \in Collecting(w)
    BY BlankProperties DEF CreateItem
  <1>2. w # Multi
    BY SignersAssumption
  <1>3. item = [signatures |-> Null, values |-> Blank(w)]
    <2> HIDE DEF made
    <2>1. item.signatures = Null /\ item = [signatures |-> item.signatures, values |-> Blank(w)]
      BY <1>1, <1>2, CollectingProperties
    <2> QED  BY <2>1
  <1> HIDE DEF made
  <1>4. [item EXCEPT !.values = [@ EXCEPT ![1] = w]] \in Filled(w)
    <2>1. [Blank(w) EXCEPT ![1] = w] = <<w>>
      BY <1>2 DEF Blank
    <2>2. [item EXCEPT !.values = [@ EXCEPT ![1] = w]]
            = [signatures |-> Null, values |-> [Blank(w) EXCEPT ![1] = w]]
      <3> HIDE DEF item
      <3> QED  BY <1>3
    <2> QED  BY <1>2, <2>1, <2>2 DEF Filled
  <1>5. AddStandard(items, w) = [made EXCEPT ![w] = [item EXCEPT !.values = [@ EXCEPT ![1] = w]]]
    BY DEF AddStandard, made
  <1> QED  BY <1>1, <1>4, <1>5

\* Wallet.Sign: what is filled is filled, what is collected stays so; the own contract
\* is filled, the others are left alone, and the multi-signature one is signed.
LEMMA SignResult ==
    ASSUME NEW items, IsContext(items), NEW w \in Signers
    PROVE  LET r == Sign(items, w)
           IN /\ DOMAIN r = DOMAIN items
              /\ r = [h \in DOMAIN items |-> r[h]]
              /\ \A h \in DOMAIN items : r[h] = Absent \/ r[h] \in Collecting(h) \/ r[h] \in Filled(h)
              /\ \A h \in DOMAIN items \ {Multi, w} : r[h] = items[h]
              /\ w \in DOMAIN items => r[w] \in Filled(w)
              /\ Multi \in DOMAIN items => r[Multi] \in Filled(Multi) \/ Lacking(r[Multi])
  <1> DEFINE first == IF Multi \in DOMAIN items /\ w \in Signers THEN AddMulti(items, w) ELSE items
  <1>1. w # Multi
    BY SignersAssumption
  <1>2. /\ DOMAIN first = DOMAIN items
        /\ first = [h \in DOMAIN items |-> first[h]]
        /\ \A h \in DOMAIN items \ {Multi} : first[h] = items[h]
        /\ Multi \in DOMAIN items => first[Multi] \in Filled(Multi) \/ Lacking(first[Multi])
    <2>1. CASE Multi \in DOMAIN items
      BY <2>1, AddMultiResult
    <2>2. CASE Multi \notin DOMAIN items
      BY <2>2 DEF IsContext
    <2> QED  BY <2>1, <2>2
  <1>3. \A h \in DOMAIN items : items[h] = Absent \/ items[h] \in Collecting(h)
    BY DEF IsContext
  <1>4. Sign(items, w) = IF w \in DOMAIN items THEN AddStandard(first, w) ELSE first
    BY DEF Sign
  <1>5. \A item : Lacking(item) => item \in Collecting(Multi)
    BY DEF Lacking
  <1> HIDE DEF first
  <1>6. CASE w \in DOMAIN items
    <2>1. first[w] = items[w] /\ w \in DOMAIN first
      BY <1>1, <1>2, <1>6
    <2>2. first = [h \in DOMAIN first |-> first[h]]
      BY <1>2
    <2> DEFINE r == AddStandard(first, w)
    <2>3. /\ DOMAIN r = DOMAIN first
          /\ r = [h \in DOMAIN first |-> r[h]]
          /\ \A h \in DOMAIN first \ {w} : r[h] = first[h]
          /\ r[w] \in Filled(w)
      BY <1>3, <1>6, <2>1, <2>2, AddStandardResult
    <2> HIDE DEF r
    <2>4. /\ \A h \in DOMAIN items : r[h] = Absent \/ r[h] \in Collecting(h) \/ r[h] \in Filled(h)
          /\ \A h \in DOMAIN items \ {Multi, w} : r[h] = items[h]
          /\ Multi \in DOMAIN items => r[Multi] \in Filled(Multi) \/ Lacking(r[Multi])
      BY <1>1, <1>2, <1>3, <1>5, <2>3
    <2> QED  BY <1>2, <1>4, <1>6, <2>3, <2>4 DEF r
  <1>7. CASE w \notin DOMAIN items
    BY <1>2, <1>3, <1>4, <1>5, <1>7
  <1> QED  BY <1>6, <1>7

\* The scripts made of filled items are what the verification of the transaction
\* accepts.
LEMMA FilledVerifies ==
    ASSUME NEW h \in Signers \cup {Multi}, NEW item \in Filled(h)
    PROVE  IF h = Multi THEN Len(Reverse(item.values)) = M /\ CheckMultisigAccepts(Reverse(item.values))
           ELSE Reverse(item.values) = <<h>>
  <1>1. CASE h = Multi
    <2>1. PICK S \in Enough : item = [signatures |-> Null, values |-> InKeyOrder(S)]
      BY <1>1 DEF Filled
    <2>2. item.values = InKeyOrder(S) /\ S \in SUBSET Signers /\ Cardinality(S) = M
      BY <2>1 DEF Enough
    <2>3. InKeyOrder(S) \in Seq(S) /\ Len(InKeyOrder(S)) = M
      BY <2>2, DescendingProperties DEF InKeyOrder
    <2>4. Len(Reverse(InKeyOrder(S))) = M
      BY <2>3, ReverseTwice
    <2> QED  BY <1>1, <2>2, <2>4, InKeyOrderAccepted
  <1>2. CASE h # Multi
    <2>1. item.values = <<h>>
      BY <1>2 DEF Filled
    <2>2. Reverse(<<h>>) = <<h>>
      BY DEF Reverse
    <2> QED  BY <1>2, <2>1, <2>2
  <1> QED  BY <1>1, <1>2

\* Relaying, or printing, what a wallet has signed.
LEMMA SignedKept ==
    ASSUME SigningInvariant, NEW items, IsContext(items), NEW w \in Signers, NEW isMultiSig,
           isMultiSig \/ (Multi \notin DOMAIN items /\ \A h \in DOMAIN items : items[h] = Absent),
           RelayOrPrint(Sign(items, w), isMultiSig)
    PROVE  SigningInvariant'
  <1> DEFINE r == Sign(items, w)
             Hs == DOMAIN items
  <1>1. Hs \in SUBSET (Signers \cup {Multi})
    BY DEF IsContext
  <1>2. /\ DOMAIN r = Hs
        /\ r = [h \in Hs |-> r[h]]
        /\ \A h \in Hs : r[h] = Absent \/ r[h] \in Collecting(h) \/ r[h] \in Filled(h)
        /\ \A h \in Hs \ {Multi, w} : r[h] = items[h]
        /\ w \in Hs => r[w] \in Filled(w)
        /\ Multi \in Hs => r[Multi] \in Filled(Multi) \/ Lacking(r[Multi])
    BY SignResult
  <1>3. RelayOrPrint(r, isMultiSig)
    OBVIOUS
  <1> HIDE DEF r
  <1>4. CASE Completed(r, isMultiSig)
    <2>1. relayed' = relayed \cup {GetScripts(r)} /\ papers' = papers
      BY <1>3, <1>4 DEF RelayOrPrint
    <2>2. ASSUME NEW h \in Hs PROVE r[h] \in Filled(h)
      <3>1. r[h] # Absent /\ (isMultiSig => \A i \in DOMAIN r[h].values : r[h].values[i] # Null)
        BY <1>2, <1>4 DEF Completed
      <3>2. CASE isMultiSig
        <4>1. r[h] \notin Collecting(h)
          BY <1>1, <3>1, <3>2, BlankProperties, CollectingProperties
        <4> QED  BY <1>2, <3>1, <4>1
      <3>3. CASE ~isMultiSig
        <4>1. h # Multi /\ items[h] = Absent
          BY <3>3
        <4>2. h = w
          BY <1>2, <3>1, <4>1
        <4> QED  BY <1>2, <4>2
      <3> QED  BY <3>2, <3>3
    <2> DEFINE scripts == GetScripts(r)
    <2>3. DOMAIN scripts = Hs /\ \A h \in Hs : scripts[h] = Reverse(r[h].values)
      BY <1>2 DEF GetScripts
    <2>4. \A h \in DOMAIN scripts :
              IF h = Multi THEN Len(scripts[h]) = M /\ CheckMultisigAccepts(scripts[h])
              ELSE scripts[h] = <<h>>
      <3> HIDE DEF scripts
      <3> QED  BY <1>1, <2>2, <2>3, FilledVerifies
    <2> HIDE DEF scripts
    <2> QED  BY <2>1, <2>4 DEF SigningInvariant, RelayedVerifies, scripts
  <1>5. CASE ~Completed(r, isMultiSig)
    <2> DEFINE p == Printed(r)
    <2>1. papers' = papers \cup {p} /\ relayed' = relayed
      BY <1>3, <1>5 DEF RelayOrPrint
    <2>2. /\ DOMAIN p = Hs
          /\ p = [h \in Hs |-> p[h]]
          /\ \A h \in Hs : p[h] = IF r[h] = Absent THEN Absent
                ELSE [r[h] EXCEPT !.values = [i \in DOMAIN r[h].values |-> Null]]
      BY <1>2 DEF Printed
    <2> HIDE DEF p
    <2>3. ASSUME NEW h \in Hs, r[h] \in Collecting(h) \/ r[h] \in Filled(h)
          PROVE  /\ p[h] = [signatures |-> r[h].signatures, values |-> Blank(h)]
                 /\ p[h] \in Collecting(h)
      <3>1. /\ r[h] = [signatures |-> r[h].signatures, values |-> r[h].values]
            /\ DOMAIN r[h].values = DOMAIN Blank(h)
            /\ r[h].signatures \in IF h = Multi THEN {Null} \cup TooFew ELSE {Null}
            /\ r[h] # Absent
        <4>1. h \in Signers \cup {Multi}
          BY <1>1
        <4>2. CASE r[h] \in Collecting(h)
          BY <4>1, <4>2, CollectingProperties
        <4>3. CASE r[h] \in Filled(h)
          <5>1. r[h] = [signatures |-> Null, values |-> r[h].values]
            BY <4>1, <4>3, FilledProperties
          <5>2. r[h].signatures = Null
            BY <5>1
          <5> QED  BY <4>1, <4>3, <5>1, <5>2, FilledProperties
        <4> QED  BY <2>3, <4>2, <4>3
      <3>2. [i \in DOMAIN Blank(h) |-> Null] = Blank(h)
        BY DEF Blank
      <3>3. ASSUME NEW it, NEW s, NEW v, NEW b, it = [signatures |-> s, values |-> v]
            PROVE  [it EXCEPT !.values = b] = [signatures |-> s, values |-> b]
        BY <3>3
      <3>4. p[h] = [r[h] EXCEPT !.values = [i \in DOMAIN r[h].values |-> Null]]
        BY <2>2, <3>1
      <3>5. p[h] = [r[h] EXCEPT !.values = Blank(h)]
        BY <3>1, <3>2, <3>4
      <3>6. p[h] = [signatures |-> r[h].signatures, values |-> Blank(h)]
        BY <3>1, <3>3, <3>5
      <3> QED  BY <3>1, <3>6 DEF Collecting
    <2>4. IsContext(p)
      <3>1. \A h \in Hs : p[h] = Absent \/ p[h] \in Collecting(h)
        BY <1>2, <2>2, <2>3
      <3> QED  BY <1>1, <2>2, <3>1 DEF IsContext
    <2>5. ASSUME Hs = {Multi} PROVE Lacking(p[Multi])
      <3>1. CASE r[Multi] \in Filled(Multi)
        <4>1. r[Multi] # Absent /\ \A i \in DOMAIN r[Multi].values : r[Multi].values[i] # Null
          BY <3>1, FilledProperties
        <4> QED  BY <1>2, <1>5, <2>5, <4>1 DEF Completed
      <3>2. CASE Lacking(r[Multi])
        <4>1. r[Multi] \in Collecting(Multi) /\ r[Multi].signatures \in TooFew
          BY <3>2 DEF Lacking
        <4>2. p[Multi] = [signatures |-> r[Multi].signatures, values |-> Blank(Multi)] /\ p[Multi] \in Collecting(Multi)
          BY <2>3, <2>5, <4>1
        <4>3. p[Multi].signatures = r[Multi].signatures
          BY <4>2
        <4> QED  BY <4>1, <4>2, <4>3 DEF Lacking
      <3> QED  BY <1>2, <2>5, <3>1, <3>2
    <2>6. Hs = {Multi} => Cardinality(p[Multi].signatures) < M
      BY <2>5 DEF Lacking, TooFew
    <2> QED  BY <2>1, <2>2, <2>4, <2>5, <2>6 DEF SigningInvariant, RelayedVerifies
  <1> QED  BY <1>4, <1>5

LEMMA SigningKept ==
    ASSUME SigningInvariant, [Next]_vars
    PROVE  SigningInvariant'
  <1>1. CASE CollectSignatures
    <2>1. PICK w \in Signers : ProcessTransaction(w) \/ ParseAndSign(w)
      BY <1>1 DEF CollectSignatures, Signing
    <2>2. CASE ProcessTransaction(w)
      <3>1. PICK hashes \in Hashes :
                RelayOrPrint(Sign([h \in hashes |-> Absent], w), Multi \in hashes)
        BY <2>2 DEF ProcessTransaction
      <3> DEFINE items == [h \in hashes |-> Absent]
      <3>2. IsContext(items)
        BY SignersAssumption DEF IsContext
      <3>3. DOMAIN items = hashes /\ \A h \in DOMAIN items : items[h] = Absent
        OBVIOUS
      <3> HIDE DEF items
      <3> QED  BY <3>1, <3>2, <3>3, SignedKept DEF items
    <2>3. CASE ParseAndSign(w)
      <3>1. PICK items \in papers : RelayOrPrint(Sign(items, w), TRUE)
        BY <2>3 DEF ParseAndSign
      <3> QED  BY <3>1, SignedKept DEF SigningInvariant
    <2> QED  BY <2>1, <2>2, <2>3
  <1>2. CASE LeaveSigning
    BY <1>2 DEF LeaveSigning, SigningInvariant, RelayedVerifies
  <1>3. UNCHANGED sigVars => SigningInvariant'
    BY DEF sigVars, SigningInvariant, RelayedVerifies
  <1> QED
    BY <1>1, <1>2, <1>3 DEF Next, vars, vmOnly, VerifyForPool, TestInvoke, RunInvocation, Execute,
       ExecutionCompleted, BeginBlock, EndBlock, ListenerRaises, PersistRaises, File, Stop

\* RelayedVerifies: whatever the number of signers and of signatures asked for, and in
\* whatever order the wallets take up the printed contexts, a transaction is relayed
\* with witnesses that CHECKMULTISIG accepts, and a context still printed lacks one.
THEOREM SignaturesVerify == Spec => [](SigningInvariant /\ RelayedVerifies)
  <1>1. Init => SigningInvariant
    BY DEF Init, SigningInit, SigningInvariant, RelayedVerifies
  <1>2. SigningInvariant => SigningInvariant /\ RelayedVerifies
    BY DEF SigningInvariant
  <1> QED  BY <1>1, <1>2, SigningKept, PTL DEF Spec

-----------------------------------------------------------------------------
(* Instructions on collections.                                            *)

\* The items an instruction pops.
LEMMA PopsReach ==
    ASSUME Ready, NEW k \in Nat, Pops(k)
    PROVE  /\ k \in 0 .. Len(E) /\ \A i \in 0 .. k - 1 : Reach(E, i) /\ Peek(E, i) # Hole
           /\ \A i \in 0 .. k - 1 : Top(i) \in Item(Len(heap.objs))
  <1> DEFINE n == Len(heap.objs)
  <1>1. /\ E \in Seq(Item(n)) /\ n \in Nat /\ Len(E) \in Nat
    BY CurTyped
  <1> HIDE DEF n
  <1>2. \A i \in 0 .. k - 1 : Reach(E, i)
    BY DEF Pops
  <1>3. ASSUME NEW i \in 0 .. k - 1
        PROVE  i < Len(E) /\ Peek(E, i) # Hole /\ Peek(E, i) \in Item(n)
    <2>1. i \in Nat /\ Reach(E, i)
      BY <1>2
    <2> QED  BY <1>1, <2>1, ItemAt
  <1>4. k \in 0 .. Len(E)
    <2>1. CASE k = 0
      BY <1>1, <2>1
    <2>2. CASE k # 0
      <3>1. k - 1 \in 0 .. k - 1
        BY <2>2
      <3>2. k - 1 < Len(E)
        BY <1>3, <3>1
      <3> QED  BY <1>1, <3>2
    <2> QED  BY <2>1, <2>2
  <1> QED  BY <1>2, <1>3, <1>4 DEF Top, n

\* k items are popped and xs put in their place, over a heap that may be new.
LEMMA LeftStep ==
    ASSUME Ready, HeapTyped(heap'), Len(heap.objs) <= Len(heap'.objs), UNCHANGED multisigs,
           NEW k \in Nat, Pops(k), NEW xs \in Seq(Item(Len(heap'.objs))), frames' = Left(k, xs),
           NEW n \in Int, Allows(n), InLists(heap') + Len(xs) <= InLists(heap) + k + n
    PROVE  Stepped
  <1> DEFINE p == Len(heap.objs)
             m == Len(heap'.objs)
             low == Less(E, k)
             eval == low \o xs
             alt == A
  <1>1. /\ E \in Seq(Item(p)) /\ A \in Seq(Item(p)) /\ p \in Nat /\ Size(E) \in Nat /\ Len(A) \in Nat
        /\ InLists(heap) \in Int
    BY CurTyped
  <1>2. m \in Nat /\ InLists(heap') \in Int
    BY HeapShape, HeapWeight
  <1>3. k \in 0 .. Len(E) /\ \A i \in 0 .. k - 1 : Peek(E, i) # Hole
    BY PopsReach
  <1>4. frames' = Moved(eval, alt) /\ xs \in Seq(Item(m)) /\ p <= m
    BY DEF Left
  <1> HIDE DEF p, m
  <1>5. low \in Seq(Item(p)) /\ Size(low) = Size(E) - k
    BY <1>1, <1>3, LessUpper
  <1> HIDE DEF low
  <1>6. low \in Seq(Item(m)) /\ alt \in Seq(Item(m))
    <2>1. Seq(Item(p)) \subseteq Seq(Item(m))
      BY <1>1, <1>2, <1>4, ItemsGrow
    <2> QED  BY <1>1, <1>5, <2>1
  <1>7. eval \in Seq(Item(m)) /\ Size(eval) = Size(low) + Size(xs)
    BY <1>4, <1>6, Joined
  <1>8. Size(xs) \in Nat /\ Len(xs) \in Nat /\ Size(xs) <= Len(xs)
    BY <1>4, SizeBounds
  <1>9. Len(alt) = Len(A)
    OBVIOUS
  <1> HIDE DEF eval, alt
  <1>10. Size(eval) + Len(alt) + InLists(heap') <= Size(E) + Len(A) + InLists(heap) + n
    <2> DEFINE a == Size(E)
               b == Len(A)
               c == InLists(heap)
               d == InLists(heap')
               e == Size(xs)
               f == Len(xs)
               g == Size(eval)
    <2>1. /\ a \in Int /\ b \in Int /\ c \in Int /\ d \in Int /\ e \in Int /\ f \in Int
          /\ g = a - k + e /\ e <= f /\ d + f <= c + k + n
      BY <1>1, <1>2, <1>5, <1>7, <1>8
    <2> HIDE DEF a, b, c, d, e, f, g
    <2>2. g + b + d <= a + b + c + n
      BY <2>1
    <2> QED  BY <1>9, <2>2 DEF a, b, c, d, g
  <1>11. Ready /\ HeapTyped(heap') /\ Len(heap.objs) <= Len(heap'.objs) /\ multisigs' = multisigs
    OBVIOUS
  <1>12. eval \in Seq(Item(Len(heap'.objs))) /\ alt \in Seq(Item(Len(heap'.objs)))
    BY <1>6, <1>7 DEF m
  <1> QED  BY <1>2, <1>4, <1>10, <1>11, <1>12, MovedStep

\* A collection is made, and is put in the place of k items.
LEMMA MadeStep ==
    ASSUME Ready, HeapTyped(heap'), Len(heap'.objs) = Len(heap.objs) + 1, UNCHANGED multisigs,
           NEW k \in Nat, Pops(k), frames' = Left(k, <<Newest(heap')>>),
           NEW n \in Int, Allows(n), InLists(heap') + 1 <= InLists(heap) + k + n
    PROVE  Stepped
  <1> DEFINE x == Newest(heap')
             xs == <<x>>
  <1>1. Len(heap.objs) \in Nat /\ Len(heap'.objs) \in Nat
    BY CurTyped, HeapShape
  <1>2. x \in Item(Len(heap'.objs))
    <2>1. Len(heap'.objs) \in 1 .. Len(heap'.objs)
      BY <1>1
    <2> QED  BY <1>1, <2>1, ItemTypes DEF Newest
  <1> HIDE DEF x
  <1>3. xs \in Seq(Item(Len(heap'.objs))) /\ Len(xs) = 1
    BY <1>2
  <1>4. frames' = Left(k, xs)
    BY DEF x
  <1> HIDE DEF xs
  <1>5. Len(heap.objs) <= Len(heap'.objs) /\ InLists(heap') + Len(xs) <= InLists(heap) + k + n
    BY <1>1, <1>3
  <1> QED  BY <1>3, <1>4, <1>5, LeftStep

\* k items are popped and xs put in their place, over the same heap.
LEMMA SameHeapStep ==
    ASSUME Ready, UNCHANGED <<heap, multisigs>>, NEW k \in Nat, Pops(k),
           NEW xs \in Seq(Item(Len(heap.objs))), frames' = Left(k, xs),
           NEW n \in Int, Allows(n), Len(xs) <= k + n
    PROVE  Stepped
  <1>1. HeapTyped(heap) /\ heap' = heap /\ Len(heap.objs) \in Nat /\ InLists(heap) \in Int
    BY CurTyped DEF Ready, MachineTyped
  <1>2. HeapTyped(heap') /\ Len(heap.objs) <= Len(heap'.objs) /\ xs \in Seq(Item(Len(heap'.objs)))
    BY <1>1
  <1>3. InLists(heap') + Len(xs) <= InLists(heap) + k + n
    <2> DEFINE a == InLists(heap)
    <2>1. a \in Int /\ Len(xs) \in Int /\ InLists(heap') = a
      BY <1>1
    <2> HIDE DEF a
    <2> QED  BY <2>1 DEF a
  <1> QED  BY <1>2, <1>3, LeftStep

\* PACK.
LEMMA PackSteps ==
    ASSUME Ready, NEW ins \in Instruction, Pack(ins)
    PROVE  Stepped
  <1> DEFINE n == Len(heap.objs)
             c == Top(0)[2]
             low == Less(E, 1)
             high == Upper(low, c)
             items == Reverse(high)
             k == c + 1
             kind == "array"
             none == 0
  <1>1. /\ E \in Seq(Item(n)) /\ n \in Nat /\ Len(E) \in Nat /\ InLists(heap) \in Int
        /\ HeapTyped(heap)
    BY CurTyped DEF Ready, MachineTyped
  <1>2. /\ c \in 0 .. MaxArraySize /\ Pops(k) /\ UNCHANGED multisigs
        /\ heap' = NewArray(heap, kind, items) /\ frames' = Left(k, <<Newest(heap')>>)
    BY DEF Pack, CanPack
  <1>3. Allows(none) /\ none \in Int
    BY AllowedNone DEF Pack
  <1>4. c \in Nat /\ k \in Nat
    BY <1>2
  <1> HIDE DEF n, c
  <1>5. k <= Len(E)
    <2> HIDE DEF k
    <2> QED  BY <1>1, <1>2, <1>4, PopsReach
  <1>6. low \in Seq(Item(n)) /\ Len(low) = Len(E) - 1
    <2>1. 1 \in 0 .. Len(E)
      BY <1>1, <1>4, <1>5
    <2> QED  BY <1>1, <2>1, LessUpper
  <1> HIDE DEF low
  <1>7. high \in Seq(Item(n)) /\ Len(high) = c
    <2>1. c \in 0 .. Len(low)
      BY <1>1, <1>4, <1>5, <1>6
    <2> QED  BY <1>6, <2>1, LessUpper
  <1> HIDE DEF high
  <1>8. items \in Seq(Item(n)) /\ Len(items) = c
    BY <1>7, ReverseTwice
  <1> HIDE DEF items
  <1>9. /\ HeapTyped(heap') /\ Len(heap'.objs) = Len(heap.objs) + 1
        /\ InLists(heap') = InLists(heap) + c
    <2>1. kind \in {"array", "struct"} /\ items \in Seq(Item(Len(heap.objs)))
      BY <1>8 DEF n
    <2> HIDE DEF kind
    <2>2. /\ HeapTyped(NewArray(heap, kind, items))
          /\ Len(NewArray(heap, kind, items).objs) = Len(heap.objs) + 1
          /\ InLists(NewArray(heap, kind, items)) = InLists(heap) + Len(items)
      BY <1>1, <2>1, ArrayMade
    <2> QED  BY <1>2, <1>8, <2>2
  <1>10. InLists(heap') + 1 <= InLists(heap) + k + none
    BY <1>1, <1>4, <1>9
  <1> HIDE DEF k, none
  <1> QED  BY <1>2, <1>3, <1>4, <1>9, <1>10, MadeStep

\* UNPACK.
LEMMA UnpackSteps ==
    ASSUME Ready, NEW ins \in Instruction, Unpack(ins)
    PROVE  Stepped
  <1> DEFINE n == Len(heap.objs)
             x == Top(0)
             items == Reverse(Items(x))
             c == Len(items)
             last == Num(c)
             xs == items \o <<last>>
             k == 1
  <1>1. n \in Nat /\ InLists(heap) \in Int /\ HeapTyped(heap)
    BY CurTyped DEF Ready, MachineTyped
  <1>2. /\ Pops(k) /\ IsArray(x) /\ UNCHANGED multisigs /\ Ran(ins, Fits)
        /\ heap' = SetList(heap, x, items) /\ frames' = Left(k, xs)
        /\ CheckStackSize(FALSE, c, frames', heap')
    BY DEF Unpack
  <1>3. k \in Nat /\ 0 \in 0 .. k - 1
    OBVIOUS
  <1> HIDE DEF k
  <1>4. x \in Item(n)
    BY <1>2, <1>3, PopsReach
  <1> HIDE DEF n, x
  <1>5. x[1] = "obj" /\ KindIn(heap, x) # "map"
    BY <1>1, <1>2, <1>4, ItemCases DEF IsArray, KindIn
  <1>6. ListIn(heap, x) \in Seq(Item(n)) /\ Len(ListIn(heap, x)) \in Nat
    BY <1>1, <1>4, <1>5, Collection DEF n
  <1>7. items \in Seq(Item(n)) /\ c = Len(ListIn(heap, x))
    BY <1>6, ReverseTwice DEF Items
  <1> HIDE DEF items
  <1>8. /\ HeapTyped(heap') /\ heap'.objs = heap.objs
        /\ InLists(heap') = InLists(heap) - Len(ListIn(heap, x)) + Len(items)
    <2>1. /\ HeapTyped(SetList(heap, x, items)) /\ SetList(heap, x, items).objs = heap.objs
          /\ InLists(SetList(heap, x, items)) = InLists(heap) - Len(ListIn(heap, x)) + Len(items)
      BY <1>1, <1>4, <1>5, <1>7, ListSet DEF n
    <2> QED  BY <1>2, <2>1
  <1>9. InLists(heap') = InLists(heap)
    BY <1>1, <1>6, <1>7, <1>8
  <1>10. c \in Nat /\ last \in Item(n)
    BY <1>1, <1>6, <1>7, ItemTypes
  <1>11. Allows(c)
    <2>1. Running' => Fits
      BY <1>2, RanFits
    <2>2. CheckStackSize(FALSE, c, frames', heap')
      BY <1>2
    <2>3. c \in Int
      BY <1>10
    <2> HIDE DEF c
    <2> QED  BY <2>1, <2>2, <2>3, Allowed
  <1> HIDE DEF last
  <1>12. xs \in Seq(Item(n)) /\ Len(xs) = c + 1
    <2>1. <<last>> \in Seq(Item(n)) /\ Len(<<last>>) = 1
      BY <1>10
    <2> QED  BY <1>7, <2>1, Joined
  <1> HIDE DEF xs, c
  <1>13. InLists(heap') + Len(xs) <= InLists(heap) + k + c
    BY <1>1, <1>9, <1>10, <1>12 DEF k
  <1>14. xs \in Seq(Item(Len(heap'.objs))) /\ Len(heap.objs) <= Len(heap'.objs) /\ c \in Int
    BY <1>1, <1>8, <1>10, <1>12 DEF n
  <1> QED  BY <1>2, <1>3, <1>8, <1>11, <1>13, <1>14, LeftStep

\* Where an entry is kept: a place of a map's values is one of its keys.
LEMMA PlaceFound ==
    ASSUME Ready, NEW m \in Item(Len(heap.objs)), IsMap(m), NEW key, HasKey(m, key)
    PROVE  PlaceOf(m, key) \in 1 .. Len(Items(m))
  <1> DEFINE keys == KeysIn(heap, m)
  <1>1. Len(heap.objs) \in Nat /\ HeapTyped(heap)
    BY CurTyped DEF Ready, MachineTyped
  <1>2. m[1] = "obj"
    <2>1. KindIn(heap, m) = "map"
      BY DEF IsMap
    <2> QED  BY <1>1, <2>1, ItemCases DEF KindIn
  <1>3. /\ keys \in Seq(Item(Len(heap.objs))) /\ Len(keys) = Len(Items(m))
    <2>1. KindIn(heap, m) = "map"
      BY DEF IsMap
    <2> QED  BY <1>1, <1>2, <2>1, Collection DEF Items
  <1>4. \E i \in DOMAIN keys : keys[i] = key
    BY DEF HasKey, ToSet
  <1>5. PlaceOf(m, key) \in DOMAIN keys
    BY <1>4 DEF PlaceOf
  <1>6. DOMAIN keys = 1 .. Len(keys)
    BY <1>3
  <1> QED  BY <1>3, <1>5, <1>6

\* A list of the heap, found by a reference to a collection.
LEMMA CollectionList ==
    ASSUME Ready, NEW x \in Item(Len(heap.objs)), IsArray(x) \/ IsMap(x)
    PROVE  /\ x[1] = "obj" /\ x[2] \in 1 .. Len(heap.objs)
           /\ Items(x) = ListIn(heap, x) /\ KindIn(heap, x) = heap.objs[x[2]].kind
           /\ Items(x) \in Seq(Item(Len(heap.objs))) /\ Len(Items(x)) \in Nat
           /\ IsArray(x) => KindIn(heap, x) # "map"
           /\ heap.objs[x[2]].list \in 1 .. Len(heap.lists)
           /\ IsMap(x) => /\ KeysIn(heap, x) \in Seq(Item(Len(heap.objs)))
                          /\ KeysIn(heap, x) = heap.lists[heap.objs[x[2]].keys]
                          /\ Len(KeysIn(heap, x)) = Len(Items(x))
                          /\ heap.objs[x[2]].keys \in 1 .. Len(heap.lists)
                          /\ heap.objs[x[2]].keys # heap.objs[x[2]].list
  <1>1. Len(heap.objs) \in Nat /\ HeapTyped(heap)
    BY CurTyped DEF Ready, MachineTyped
  <1>2. KindIn(heap, x) \in {"array", "struct", "map"}
    BY DEF IsArray, IsMap
  <1>3. x[1] = "obj"
    BY <1>1, <1>2, ItemCases DEF KindIn
  <1>4. IsArray(x) => KindIn(heap, x) # "map"
    BY DEF IsArray
  <1>5. IsMap(x) => KindIn(heap, x) = "map"
    BY DEF IsMap
  <1> QED  BY <1>1, <1>3, <1>4, <1>5, Collection DEF Items

\* PICKITEM.
LEMMA PickItemSteps ==
    ASSUME Ready, NEW ins \in Instruction, PickItem(ins)
    PROVE  Stepped
  <1> DEFINE n == Len(heap.objs)
             x == Top(1)
             key == Top(0)
             i == IF IsMap(x) THEN PlaceOf(x, key) ELSE key[2] + 1
             y == Items(x)[i]
             xs == <<y>>
             k == 2
             less == -1
  <1>1. n \in Nat
    BY CurTyped
  <1>2. /\ CanPick /\ UNCHANGED <<heap, multisigs>> /\ frames' = Left(k, xs)
        /\ CheckStackSize(FALSE, less, frames', heap)
    BY DEF PickItem
  <1>3. Pops(k)
    BY <1>2 DEF CanPick
  <1>4. k \in Nat /\ less \in Int /\ less <= 0 /\ k + less = 1 /\ 0 \in 0 .. k - 1 /\ 1 \in 0 .. k - 1
    OBVIOUS
  <1> HIDE DEF k, less
  <1>5. x \in Item(n) /\ key \in Item(n)
    <2>1. ASSUME NEW j \in 0 .. k - 1
          PROVE  Top(j) \in Item(n)
      BY <1>3, <1>4, PopsReach
    <2> HIDE DEF n
    <2>2. Top(0) \in Item(n)
      BY <1>4, <2>1
    <2>3. Top(1) \in Item(n)
      BY <1>4, <2>1
    <2>4. x \in Item(n)
      BY <2>3
    <2>5. key \in Item(n)
      BY <2>2
    <2> QED  BY <2>4, <2>5
  <1>6. IsNum(key) /\ ((IsArray(x) /\ InRange(key, Items(x))) \/ (IsMap(x) /\ HasKey(x, key)))
    BY <1>2 DEF CanPick
  <1> HIDE DEF x, key, n
  <1>7. Items(x) \in Seq(Item(n)) /\ Len(Items(x)) \in Nat /\ (IsArray(x) => ~IsMap(x))
    BY <1>5, <1>6, CollectionList DEF n, IsArray, IsMap
  <1>8. i \in 1 .. Len(Items(x))
    <2>1. CASE IsMap(x)
      <3>1. PlaceOf(x, key) \in 1 .. Len(Items(x))
        BY <1>5, <1>6, <1>7, <2>1, PlaceFound DEF n
      <3> QED  BY <2>1, <3>1
    <2>2. CASE ~IsMap(x)
      <3>1. key[2] \in Int
        BY <1>1, <1>5, <1>6, ItemCases DEF IsNum
      <3>2. key[2] >= 0 /\ key[2] < Len(Items(x))
        BY <1>6, <2>2 DEF InRange
      <3> QED  BY <1>7, <2>2, <3>1, <3>2
    <2> QED  BY <2>1, <2>2
  <1> HIDE DEF i
  <1>9. y \in Item(n)
    BY <1>7, <1>8
  <1> HIDE DEF y
  <1>10. xs \in Seq(Item(n)) /\ Len(xs) = 1
    BY <1>9
  <1> HIDE DEF xs
  <1>11. Allows(less)
    BY <1>2, <1>4, FewerAllowed
  <1>12. Len(xs) <= k + less /\ xs \in Seq(Item(Len(heap.objs)))
    BY <1>4, <1>10 DEF n
  <1> QED  BY <1>2, <1>3, <1>4, <1>11, <1>12, SameHeapStep

\* ARRAYSIZE.
LEMMA ArraySizeSteps ==
    ASSUME Ready, NEW ins \in Instruction, ArraySize(ins)
    PROVE  Stepped
  <1> DEFINE n == Len(heap.objs)
             x == Top(0)
             y == IF IsNum(x) THEN Truth(Truthy(x)) ELSE Num(Len(Items(x)))
             xs == <<y>>
             k == 1
             none == 0
             s == IsNum(x)
  <1>1. n \in Nat /\ HeapTyped(heap)
    BY CurTyped DEF Ready, MachineTyped
  <1>2. /\ Pops(k) /\ UNCHANGED <<heap, multisigs>> /\ frames' = Left(k, xs)
        /\ CheckStackSize(s, none, frames', heap)
    BY DEF ArraySize
  <1>3. k \in Nat /\ none \in Int /\ none <= 0 /\ k + none = 1 /\ 0 \in 0 .. k - 1
    OBVIOUS
  <1> HIDE DEF k, none, s
  <1>4. x \in Item(n) /\ x # Hole
    BY <1>2, <1>3, PopsReach DEF Top
  <1> HIDE DEF x, n
  <1>5. y \in Item(n)
    <2>1. CASE IsNum(x)
      <3>1. Truth(Truthy(x)) = Num(0) \/ Truth(Truthy(x)) = Num(1)
        BY DEF Truth
      <3>2. Num(0) \in Item(n) /\ Num(1) \in Item(n)
        BY <1>1, ItemTypes
      <3> QED  BY <2>1, <3>1, <3>2
    <2>2. CASE ~IsNum(x)
      <3>1. x[1] = "obj"
        BY <1>1, <1>4, <2>2, ItemCases DEF IsNum
      <3>2. Len(Items(x)) \in Nat
        BY <1>1, <1>4, <3>1, Collection DEF Items, n
      <3> QED  BY <1>1, <2>2, <3>2, ItemTypes
    <2> QED  BY <2>1, <2>2
  <1> HIDE DEF y
  <1>6. xs \in Seq(Item(n)) /\ Len(xs) = 1
    BY <1>5
  <1> HIDE DEF xs
  <1>7. Allows(none)
    BY <1>2, <1>3, FewerAllowed
  <1>8. Len(xs) <= k + none /\ xs \in Seq(Item(Len(heap.objs)))
    BY <1>3, <1>6 DEF n
  <1> QED  BY <1>2, <1>3, <1>7, <1>8, SameHeapStep

\* REVERSE.
LEMMA ReverseItemsSteps ==
    ASSUME Ready, NEW ins \in Instruction, ReverseItems(ins)
    PROVE  Stepped
  <1> DEFINE n == Len(heap.objs)
             x == Top(0)
             items == Reverse(Items(x))
             xs == << >>
             k == 1
             less == -1
  <1>1. n \in Nat /\ HeapTyped(heap) /\ InLists(heap) \in Int
    BY CurTyped DEF Ready, MachineTyped
  <1>2. /\ Pops(k) /\ IsArray(x) /\ UNCHANGED multisigs /\ heap' = SetList(heap, x, items)
        /\ frames' = Left(k, xs) /\ CheckStackSize(FALSE, less, frames', heap)
    BY DEF ReverseItems
  <1>3. k \in Nat /\ less \in Int /\ less <= 0 /\ k + less = 0 /\ 0 \in 0 .. k - 1
    OBVIOUS
  <1> HIDE DEF k, less
  <1>4. x \in Item(n)
    BY <1>2, <1>3, PopsReach
  <1> HIDE DEF x, n
  <1>5. /\ x[1] = "obj" /\ KindIn(heap, x) # "map" /\ Items(x) \in Seq(Item(n))
        /\ Items(x) = ListIn(heap, x) /\ Len(Items(x)) \in Nat
    BY <1>2, <1>4, CollectionList DEF n
  <1>6. items \in Seq(Item(n)) /\ Len(items) = Len(ListIn(heap, x))
    BY <1>5, ReverseTwice
  <1> HIDE DEF items
  <1>7. /\ HeapTyped(heap') /\ heap'.objs = heap.objs
        /\ InLists(heap') = InLists(heap) - Len(ListIn(heap, x)) + Len(items)
    <2>1. /\ HeapTyped(SetList(heap, x, items)) /\ SetList(heap, x, items).objs = heap.objs
          /\ InLists(SetList(heap, x, items)) = InLists(heap) - Len(ListIn(heap, x)) + Len(items)
      BY <1>1, <1>4, <1>5, <1>6, ListSet DEF n
    <2> QED  BY <1>2, <2>1
  <1>8. xs \in Seq(Item(n)) /\ Len(xs) = 0
    OBVIOUS
  <1> HIDE DEF xs
  <1>9. Allows(less)
    BY <1>2, <1>3, FewerAllowed
  <1>10. InLists(heap') + Len(xs) <= InLists(heap) + k + less
    BY <1>1, <1>3, <1>5, <1>6, <1>7, <1>8
  <1>11. xs \in Seq(Item(Len(heap'.objs))) /\ Len(heap.objs) <= Len(heap'.objs)
    BY <1>1, <1>7, <1>8 DEF n
  <1> QED  BY <1>2, <1>3, <1>7, <1>9, <1>10, <1>11, LeftStep

\* NEWMAP.
LEMMA NewMapItemSteps ==
    ASSUME Ready, NEW ins \in Instruction, NewMapItem(ins)
    PROVE  Stepped
  <1> DEFINE m == Len(heap'.objs)
             x == Newest(heap')
             eval == Push(E, <<x>>)
             alt == A
             one == 1
  <1>1. /\ Len(heap.objs) \in Nat /\ HeapTyped(heap) /\ InLists(heap) \in Int
        /\ E \in Seq(Item(Len(heap.objs))) /\ A \in Seq(Item(Len(heap.objs)))
        /\ Size(E) \in Nat /\ Len(A) \in Nat
    BY CurTyped DEF Ready, MachineTyped
  <1>2. /\ heap' = NewMap(heap) /\ frames' = Moved(eval, alt) /\ UNCHANGED multisigs
        /\ CheckStackSize(TRUE, one, frames', heap') /\ Ran(ins, Fits)
    BY DEF NewMapItem
  <1>3. HeapTyped(heap') /\ m = Len(heap.objs) + 1 /\ InLists(heap') = InLists(heap)
    BY <1>1, <1>2, MapMade
  <1>4. m \in Nat /\ m \in 1 .. m /\ Len(heap.objs) <= m
    BY <1>1, <1>3
  <1>5. x \in Item(m)
    BY <1>4, ItemTypes DEF Newest
  <1> HIDE DEF m, x
  <1>6. E \in Seq(Item(m)) /\ alt \in Seq(Item(m))
    <2>1. Seq(Item(Len(heap.objs))) \subseteq Seq(Item(m))
      BY <1>1, <1>4, ItemsGrow
    <2> QED  BY <1>1, <2>1
  <1>7. eval \in Seq(Item(m)) /\ Size(eval) = Size(E) + Counts(x)
    BY <1>5, <1>6, PushOne
  <1>8. Counts(x) \in Int /\ Counts(x) <= 1
    BY CountsType
  <1>9. Allows(one) /\ one \in Int /\ one = 1
    <2>1. Running' => Fits
      BY <1>2, RanFits
    <2>2. one \in Int
      OBVIOUS
    <2> HIDE DEF one
    <2>3. Allows(one)
      BY <1>2, <2>1, <2>2, Allowed
    <2> QED  BY <2>2, <2>3 DEF one
  <1> HIDE DEF eval, one
  <1>10. Len(alt) = Len(A)
    OBVIOUS
  <1> HIDE DEF alt
  <1>11. Size(eval) + Len(alt) + InLists(heap') <= Size(E) + Len(A) + InLists(heap) + one
    <2> DEFINE a == Size(E)
               b == Len(A)
               c == InLists(heap)
               d == Counts(x)
               e == Size(eval)
    <2>1. a \in Int /\ b \in Int /\ c \in Int /\ d \in Int /\ e = a + d /\ d <= 1
      BY <1>1, <1>7, <1>8
    <2> HIDE DEF a, b, c, d, e
    <2>2. e + b + c <= a + b + c + one
      BY <1>9, <2>1
    <2> QED  BY <1>3, <1>10, <2>2 DEF a, b, c, e
  <1>12. eval \in Seq(Item(Len(heap'.objs))) /\ alt \in Seq(Item(Len(heap'.objs)))
         /\ Len(heap.objs) <= Len(heap'.objs) /\ InLists(heap') \in Int
    BY <1>1, <1>3, <1>4, <1>6, <1>7 DEF m
  <1> QED  BY <1>2, <1>3, <1>9, <1>11, <1>12, MovedStep

\* NEWARRAY and NEWSTRUCT, also of an array that is there.
LEMMA NewCollectionSteps ==
    ASSUME Ready, NEW ins \in Instruction, NewCollection(ins)
    PROVE  Stepped
  <1> DEFINE n == Len(heap.objs)
             x == Top(0)
             kind == NewKind[ins.op]
             k == 1
             none == 0
             c == x[2]
             zeros == [i \in 1 .. c |-> Num(0)]
  <1>1. n \in Nat /\ HeapTyped(heap) /\ InLists(heap) \in Int
    BY CurTyped DEF Ready, MachineTyped
  <1>2. CanNew /\ ins.op \in DOMAIN NewKind /\ UNCHANGED multisigs
    BY DEF NewCollection
  <1>3. kind \in {"array", "struct"}
    BY <1>2 DEF NewKind
  <1>4. k \in Nat /\ none \in Int /\ k = 1 /\ none = 0 /\ 0 \in 0 .. k - 1
    OBVIOUS
  <1>5. Pops(k)
    BY <1>2 DEF CanNew
  <1>6. \/ /\ IsNum(x) /\ heap' = NewArray(heap, kind, zeros) /\ frames' = Left(k, <<Newest(heap')>>)
           /\ CheckStackSize(TRUE, c, frames', heap') /\ Ran(ins, Fits)
        \/ /\ ~IsNum(x) /\ heap' = (IF KindIn(heap, x) = kind THEN heap ELSE Converted(heap, kind, x))
           /\ frames' = Left(k, <<IF heap' = heap THEN x ELSE Newest(heap')>>) /\ Uncounted
    BY DEF NewCollection
  <1>7. IsArray(x) \/ (IsNum(x) /\ c \in 0 .. MaxArraySize)
    BY <1>2 DEF CanNew
  <1> HIDE DEF k, none, kind
  <1>8. x \in Item(n)
    BY <1>4, <1>5, PopsReach
  <1> HIDE DEF n, x
  <1>9. CASE IsNum(x)
    <2>1. /\ heap' = NewArray(heap, kind, zeros) /\ frames' = Left(k, <<Newest(heap')>>)
          /\ CheckStackSize(TRUE, c, frames', heap') /\ Ran(ins, Fits)
      BY <1>6, <1>9
    <2>2. c \in Nat
      <3>1. ~IsArray(x)
        BY <1>9 DEF IsArray, IsNum, KindIn
      <3> QED  BY <1>7, <3>1
    <2> HIDE DEF c
    <2>3. zeros \in Seq(Item(n)) /\ Len(zeros) = c
      <3>1. Num(0) \in Item(n)
        BY <1>1, ItemTypes
      <3> QED  BY <2>2, <3>1
    <2> HIDE DEF zeros
    <2>4. /\ HeapTyped(heap') /\ Len(heap'.objs) = Len(heap.objs) + 1
          /\ InLists(heap') = InLists(heap) + c
      <3>1. /\ HeapTyped(NewArray(heap, kind, zeros))
            /\ Len(NewArray(heap, kind, zeros).objs) = Len(heap.objs) + 1
            /\ InLists(NewArray(heap, kind, zeros)) = InLists(heap) + Len(zeros)
        BY <1>1, <1>3, <2>3, ArrayMade DEF n
      <3> QED  BY <2>1, <2>3, <3>1
    <2>5. Allows(c)
      <3>1. Running' => Fits
        BY <2>1, RanFits
      <3>2. c \in Int
        BY <2>2
      <3> QED  BY <2>1, <3>1, <3>2, Allowed
    <2>6. InLists(heap') + 1 <= InLists(heap) + k + c /\ c \in Int
      BY <1>1, <1>4, <2>2, <2>4
    <2> QED  BY <1>2, <1>4, <1>5, <2>1, <2>4, <2>5, <2>6, MadeStep
  <1>10. CASE ~IsNum(x)
    <2>1. /\ heap' = (IF KindIn(heap, x) = kind THEN heap ELSE Converted(heap, kind, x))
          /\ frames' = Left(k, <<IF heap' = heap THEN x ELSE Newest(heap')>>) /\ Uncounted
      BY <1>6, <1>10
    <2>2. Allows(none)
      BY <1>4, <2>1, AllowedNone
    <2>3. IsArray(x)
      BY <1>7, <1>10
    <2>4. CASE KindIn(heap, x) = kind
      <3> DEFINE xs == <<x>>
      <3>1. heap' = heap /\ frames' = Left(k, xs)
        BY <2>1, <2>4
      <3>2. xs \in Seq(Item(Len(heap.objs))) /\ Len(xs) <= k + none
        BY <1>4, <1>8 DEF n
      <3> HIDE DEF xs
      <3> QED  BY <1>2, <1>4, <1>5, <2>2, <3>1, <3>2, SameHeapStep
    <2>5. CASE KindIn(heap, x) # kind
      <3>1. /\ HeapTyped(Converted(heap, kind, x)) /\ Len(Converted(heap, kind, x).objs) = Len(heap.objs) + 1
            /\ InLists(Converted(heap, kind, x)) = InLists(heap)
        <4>1. KindIn(heap, x) \in {"array", "struct"}
          BY <2>3 DEF IsArray
        <4> QED  BY <1>1, <1>3, <1>8, <4>1, ArrayConverted DEF n
      <3>2. heap' = Converted(heap, kind, x)
        BY <2>1, <2>5
      <3>3. /\ HeapTyped(heap') /\ Len(heap'.objs) = Len(heap.objs) + 1
            /\ InLists(heap') = InLists(heap)
        BY <3>1, <3>2
      <3>4. heap' # heap
        BY <1>1, <3>3 DEF n
      <3>5. frames' = Left(k, <<Newest(heap')>>)
        BY <2>1, <3>4
      <3>6. InLists(heap') + 1 <= InLists(heap) + k + none
        BY <1>1, <1>4, <3>3
      <3> QED  BY <1>2, <1>4, <1>5, <2>2, <3>3, <3>5, <3>6, MadeStep
    <2> QED  BY <2>4, <2>5
  <1> QED  BY <1>9, <1>10

\* What a value is stored as goes into a list of the grown heap.
LEMMA StoredInto ==
    ASSUME Ready, NEW x \in Item(Len(heap.objs)), IsArray(x) \/ IsMap(x), NEW v \in Item(Len(heap.objs))
    PROVE  LET put == Stored(heap, v)
               m == Len(put.heap.objs)
           IN /\ HeapTyped(put.heap) /\ Extends(heap, put.heap) /\ put.item \in Item(m)
              /\ m \in Nat /\ Len(heap.objs) <= m /\ x \in Item(m) /\ x[1] = "obj"
              /\ Items(x) \in Seq(Item(m)) /\ Items(x) = ListIn(put.heap, x)
              /\ put.heap.objs[x[2]] = heap.objs[x[2]] /\ KindIn(put.heap, x) = KindIn(heap, x)
              /\ InLists(put.heap) \in Nat
              /\ IsMap(x) => KeysIn(heap, x) \in Seq(Item(m)) /\ KeysIn(put.heap, x) = KeysIn(heap, x)
  <1> DEFINE put == Stored(heap, v)
             g == put.heap
             y == put.item
             n == Len(heap.objs)
             m == Len(g.objs)
  <1>1. n \in Nat /\ HeapTyped(heap)
    BY CurTyped DEF Ready, MachineTyped
  <1>2. HeapTyped(g) /\ Extends(heap, g) /\ y \in Item(m)
    BY <1>1, StoredTyped
  <1> HIDE DEF put
  <1>3. m \in Nat /\ n <= m
    BY <1>2, HeapShape DEF Extends
  <1> HIDE DEF m, y
  <1>4. Item(n) \subseteq Item(m) /\ Seq(Item(n)) \subseteq Seq(Item(m))
    BY <1>1, <1>3, ItemsGrow
  <1>5. /\ x[1] = "obj" /\ x[2] \in 1 .. n /\ Items(x) = ListIn(heap, x)
        /\ Items(x) \in Seq(Item(n)) /\ heap.objs[x[2]].list \in 1 .. Len(heap.lists)
        /\ IsMap(x) => /\ KeysIn(heap, x) \in Seq(Item(n))
                       /\ heap.objs[x[2]].keys \in 1 .. Len(heap.lists)
    BY CollectionList
  <1> HIDE DEF n
  <1>6. g.objs[x[2]] = heap.objs[x[2]]
    BY <1>2, <1>5 DEF Extends, n
  <1>7. KindIn(g, x) = KindIn(heap, x) /\ ListIn(heap, x) = ListIn(g, x)
    <2>1. g.lists[heap.objs[x[2]].list] = heap.lists[heap.objs[x[2]].list]
      BY <1>2, <1>5 DEF Extends
    <2> QED  BY <1>6, <2>1 DEF KindIn, ListIn
  <1>8. IsMap(x) => KeysIn(g, x) = KeysIn(heap, x)
    <2> SUFFICES ASSUME IsMap(x) PROVE KeysIn(g, x) = KeysIn(heap, x)
      OBVIOUS
    <2>1. g.lists[heap.objs[x[2]].keys] = heap.lists[heap.objs[x[2]].keys]
      BY <1>2, <1>5 DEF Extends
    <2> QED  BY <1>6, <2>1 DEF KeysIn
  <1>9. InLists(g) \in Nat
    BY <1>2, HeapWeight
  <1>10. x \in Item(m) /\ Items(x) \in Seq(Item(m)) /\ (IsMap(x) => KeysIn(heap, x) \in Seq(Item(m)))
    BY <1>4, <1>5 DEF n
  <1> HIDE DEF g
  <1>11. /\ HeapTyped(g) /\ Extends(heap, g) /\ y \in Item(m)
         /\ m \in Nat /\ Len(heap.objs) <= m /\ x \in Item(m) /\ x[1] = "obj"
         /\ Items(x) \in Seq(Item(m)) /\ Items(x) = ListIn(g, x)
         /\ g.objs[x[2]] = heap.objs[x[2]] /\ KindIn(g, x) = KindIn(heap, x)
         /\ InLists(g) \in Nat
         /\ IsMap(x) => KeysIn(heap, x) \in Seq(Item(m)) /\ KeysIn(g, x) = KeysIn(heap, x)
    BY <1>2, <1>3, <1>5, <1>6, <1>7, <1>8, <1>9, <1>10 DEF n
  <1> QED  BY <1>11 DEF g, m, y, put

\* After the items were counted anew, whatever was added is allowed.
LEMMA AnewStep ==
    ASSUME Ready, HeapTyped(heap'), Len(heap.objs) <= Len(heap'.objs), UNCHANGED multisigs,
           NEW k \in Nat, Pops(k), NEW xs \in Seq(Item(Len(heap'.objs))), frames' = Left(k, xs),
           NEW fs, NEW h, CheckStackSize(FALSE, IntMax, fs, h)
    PROVE  Stepped
  <1> DEFINE a == InLists(heap')
             b == InLists(heap)
             c == Len(xs)
             n == a + c - b - k
  <1>1. a \in Int /\ b \in Int /\ c \in Int
    BY CurTyped, HeapWeight
  <1> HIDE DEF a, b, c
  <1>2. n \in Int /\ a + c <= b + k + n
    BY <1>1
  <1> HIDE DEF n
  <1>3. Allows(n)
    BY <1>2, AllowedAnew
  <1>4. InLists(heap') + Len(xs) <= InLists(heap) + k + n
    BY <1>2 DEF a, b, c
  <1> QED  BY <1>2, <1>3, <1>4, LeftStep

\* APPEND, that counts the items anew.
LEMMA AppendItemSteps ==
    ASSUME Ready, NEW ins \in Instruction, AppendItem(ins)
    PROVE  Stepped
  <1> DEFINE n == Len(heap.objs)
             x == Top(1)
             v == Top(0)
             put == Stored(heap, v)
             g == put.heap
             m == Len(g.objs)
             items == Append(Items(x), put.item)
             xs == << >>
             k == 2
  <1>1. /\ CanAppend /\ UNCHANGED multisigs /\ heap' = SetList(g, x, items) /\ frames' = Left(k, xs)
        /\ CheckStackSize(FALSE, IntMax, frames', heap')
    BY DEF AppendItem
  <1>2. Pops(k) /\ IsArray(x)
    BY <1>1 DEF CanAppend
  <1>3. k \in Nat /\ 0 \in 0 .. k - 1 /\ 1 \in 0 .. k - 1
    OBVIOUS
  <1> HIDE DEF k
  <1>4. x \in Item(n) /\ v \in Item(n)
    <2>1. ASSUME NEW j \in 0 .. k - 1
          PROVE  Top(j) \in Item(n)
      BY <1>2, <1>3, PopsReach
    <2> HIDE DEF n
    <2>2. Top(0) \in Item(n)
      BY <1>3, <2>1
    <2>3. Top(1) \in Item(n)
      BY <1>3, <2>1
    <2> QED  BY <2>2, <2>3
  <1> HIDE DEF x, v
  <1>5. /\ HeapTyped(g) /\ put.item \in Item(m) /\ m \in Nat /\ Len(heap.objs) <= m /\ x \in Item(m)
        /\ x[1] = "obj" /\ Items(x) \in Seq(Item(m)) /\ Items(x) = ListIn(g, x)
        /\ KindIn(g, x) = KindIn(heap, x)
    BY <1>2, <1>4, StoredInto DEF n
  <1>6. KindIn(g, x) # "map"
    BY <1>2, <1>5 DEF IsArray
  <1> HIDE DEF put
  <1>7. items \in Seq(Item(m))
    BY <1>5
  <1> HIDE DEF items
  <1>8. HeapTyped(heap') /\ heap'.objs = g.objs
    <2> HIDE DEF g
    <2>1. HeapTyped(SetList(g, x, items)) /\ SetList(g, x, items).objs = g.objs
      BY <1>5, <1>6, <1>7, ListSet DEF m
    <2> QED  BY <1>1, <2>1
  <1>9. Len(heap.objs) <= Len(heap'.objs) /\ xs \in Seq(Item(Len(heap'.objs)))
    BY <1>5, <1>8
  <1> HIDE DEF xs
  <1> QED  BY <1>1, <1>2, <1>3, <1>8, <1>9, AnewStep

\* The entry of a map and its key are changed together.
LEMMA EntryChanged ==
    ASSUME NEW h, HeapTyped(h), NEW x \in Item(Len(h.objs)), KindIn(h, x) = "map",
           NEW items \in Seq(Item(Len(h.objs)))
    PROVE  SetList(h, x, items).lists[h.objs[x[2]].keys] = KeysIn(h, x)
  <1> DEFINE n == Len(h.objs)
             p == h.objs[x[2]].list
             q == h.objs[x[2]].keys
  <1>1. n \in Nat /\ Len(h.lists) \in Nat /\ DOMAIN h.lists = 1 .. Len(h.lists)
    BY HeapShape
  <1>2. x[1] = "obj"
    BY <1>1, ItemCases DEF KindIn
  <1>3. p # q /\ q \in 1 .. Len(h.lists) /\ KeysIn(h, x) = h.lists[q]
    BY <1>2, Collection
  <1>4. h = [objs |-> h.objs, lists |-> h.lists] /\ h.lists \in Seq(Seq(Item(n)))
    BY DEF HeapTyped
  <1> HIDE DEF p, q, n
  <1>5. SetList(h, x, items).lists = [h.lists EXCEPT ![p] = items]
    <2>1. \A objs, lists : [[objs |-> objs, lists |-> lists] EXCEPT !.lists[p] = items].lists
                             = [lists EXCEPT ![p] = items]
      OBVIOUS
    <2>2. SetList(h, x, items) = [h EXCEPT !.lists[p] = items]
      BY DEF SetList, p
    <2> QED  BY <1>4, <2>1, <2>2
  <1>6. [h.lists EXCEPT ![p] = items][q] = h.lists[q]
    BY <1>1, <1>3
  <1> QED  BY <1>3, <1>5, <1>6 DEF q

\* SETITEM, which clones a struct that is stored.
LEMMA SetItemSteps ==
    ASSUME Ready, NEW ins \in Instruction, SetItem(ins)
    PROVE  Stepped
  <1> DEFINE n == Len(heap.objs)
             x == Top(2)
             key == Top(1)
             v == Top(0)
             put == Stored(heap, v)
             y == put.item
             g == put.heap
             m == Len(g.objs)
             items == Items(x)
             new == IsMap(x) /\ ~HasKey(x, key)
             i == IF IsMap(x) THEN PlaceOf(x, key) ELSE key[2] + 1
             more == Append(items, y)
             other == [items EXCEPT ![i] = y]
             f == SetList(g, x, more)
             q == heap.objs[x[2]].keys
             xs == << >>
             k == 3
  <1>1. /\ CanSet /\ UNCHANGED multisigs /\ frames' = Left(k, xs)
        /\ CheckStackSize(FALSE, IntMax, frames', heap')
        /\ heap' = IF new THEN [f EXCEPT !.lists[q] = Append(@, key)] ELSE SetList(g, x, other)
    BY DEF SetItem
  <1>2. /\ Pops(k) /\ IsNum(key)
        /\ \/ IsArray(x) /\ InRange(key, Items(x))
           \/ IsMap(x) /\ (HasKey(x, key) \/ Len(Items(x)) < MaxArraySize)
    BY <1>1 DEF CanSet
  <1>3. k \in Nat /\ 0 \in 0 .. k - 1 /\ 1 \in 0 .. k - 1 /\ 2 \in 0 .. k - 1 /\ n \in Nat
    BY CurTyped
  <1> HIDE DEF k
  <1>4. x \in Item(n) /\ v \in Item(n) /\ key \in Item(n)
    <2>1. ASSUME NEW j \in 0 .. k - 1
          PROVE  Top(j) \in Item(n)
      BY <1>2, <1>3, PopsReach
    <2> HIDE DEF n
    <2>2. Top(0) \in Item(n)
      BY <1>3, <2>1
    <2>3. Top(1) \in Item(n)
      BY <1>3, <2>1
    <2>4. Top(2) \in Item(n)
      BY <1>3, <2>1
    <2> QED  BY <2>2, <2>3, <2>4
  <1> HIDE DEF x, v, key
  <1>5. /\ HeapTyped(g) /\ y \in Item(m) /\ m \in Nat /\ n <= m /\ x \in Item(m)
        /\ x[1] = "obj" /\ items \in Seq(Item(m)) /\ items = ListIn(g, x)
        /\ KindIn(g, x) = KindIn(heap, x) /\ g.objs[x[2]] = heap.objs[x[2]]
        /\ IsMap(x) => KeysIn(heap, x) \in Seq(Item(m)) /\ KeysIn(g, x) = KeysIn(heap, x)
    BY <1>2, <1>4, StoredInto
  <1>6. Len(items) \in Nat /\ (IsMap(x) => Len(KeysIn(heap, x)) = Len(items))
    BY <1>2, <1>4, CollectionList
  <1>7. key \in Item(m)
    <2>1. Item(n) \subseteq Item(m)
      BY <1>3, <1>5, ItemsGrow
    <2> QED  BY <1>4, <2>1
  <1> HIDE DEF put
  <1>8. CASE new
    <2> DEFINE keys == Append(KeysIn(heap, x), key)
               both == [f EXCEPT !.lists[g.objs[x[2]].keys] = keys]
    <2>1. IsMap(x)
      BY <1>8
    <2>2. KindIn(g, x) = "map" /\ q = g.objs[x[2]].keys
      BY <1>5, <2>1 DEF IsMap
    <2> HIDE DEF m, y, g, items
    <2>3. more \in Seq(Item(m)) /\ Len(more) = Len(items) + 1
      BY <1>5
    <2>4. keys \in Seq(Item(m)) /\ Len(keys) = Len(KeysIn(heap, x)) + 1
      BY <1>5, <1>7, <2>1
    <2> HIDE DEF more, keys, q
    <2>5. f.lists[q] = KeysIn(heap, x)
      <3>1. f.lists[g.objs[x[2]].keys] = KeysIn(g, x)
        BY <1>5, <2>2, <2>3, EntryChanged DEF m
      <3> QED  BY <1>5, <2>1, <2>2, <3>1
    <2>6. HeapTyped(both) /\ both.objs = g.objs
      <3>1. Len(more) = Len(keys)
        BY <1>6, <2>1, <2>3, <2>4
      <3> QED  BY <1>5, <2>2, <2>3, <2>4, <3>1, BothSet, ZenonT(60) DEF m
    <2>7. heap' = both
      <3> HIDE DEF f
      <3>1. heap' = [f EXCEPT !.lists[q] = Append(f.lists[q], key)]
        BY <1>1, <1>8
      <3>2. Append(f.lists[q], key) = keys
        BY <2>5 DEF keys
      <3>3. heap' = [f EXCEPT !.lists[q] = keys]
        BY <3>1, <3>2
      <3> QED  BY <2>2, <3>3
    <2> HIDE DEF both
    <2>8. HeapTyped(heap') /\ heap'.objs = g.objs
      BY <2>6, <2>7
    <2>9. Len(heap.objs) <= Len(heap'.objs) /\ xs \in Seq(Item(Len(heap'.objs)))
      BY <1>5, <2>8 DEF n, m
    <2> HIDE DEF xs
    <2> QED  BY <1>1, <1>2, <1>3, <2>8, <2>9, AnewStep
  <1>9. CASE ~new
    <2>1. i \in 1 .. Len(items)
      <3>1. CASE IsMap(x)
        <4>1. PlaceOf(x, key) \in 1 .. Len(Items(x))
          BY <1>4, <1>9, <3>1, PlaceFound
        <4> QED  BY <3>1, <4>1
      <3>2. CASE ~IsMap(x)
        <4>1. key[2] \in Int
          BY <1>2, <1>3, <1>4, ItemCases DEF IsNum
        <4>2. key[2] >= 0 /\ key[2] < Len(Items(x))
          BY <1>2, <3>2 DEF InRange
        <4> QED  BY <1>6, <3>2, <4>1, <4>2
      <3> QED  BY <3>1, <3>2
    <2> HIDE DEF i, m, y, g, items
    <2>2. other \in Seq(Item(m)) /\ Len(other) = Len(items)
      BY <1>5, <2>1, ExceptProperties
    <2> HIDE DEF other
    <2>3. HeapTyped(heap') /\ heap'.objs = g.objs
      <3>1. HeapTyped(SetList(g, x, other)) /\ SetList(g, x, other).objs = g.objs
        BY <1>5, <2>2, ListSet DEF m
      <3> QED  BY <1>1, <1>9, <3>1
    <2>4. Len(heap.objs) <= Len(heap'.objs) /\ xs \in Seq(Item(Len(heap'.objs)))
      BY <1>5, <2>3 DEF n, m
    <2> HIDE DEF xs
    <2> QED  BY <1>1, <1>2, <1>3, <2>3, <2>4, AnewStep
  <1> QED  BY <1>8, <1>9

\* REMOVE, from an array or a map.
LEMMA RemoveItemSteps ==
    ASSUME Ready, NEW ins \in Instruction, RemoveItem(ins)
    PROVE  Stepped
  <1> DEFINE n == Len(heap.objs)
             x == Top(1)
             key == Top(0)
             items == Items(x)
             i == IF IsMap(x) THEN PlaceOf(x, key) ELSE key[2] + 1
             fewer == RemoveAt(items, i)
             f == SetList(heap, x, fewer)
             q == heap.objs[x[2]].keys
             xs == << >>
             k == 2
             less == -2
  <1>1. /\ CanRemove /\ UNCHANGED multisigs /\ frames' = Left(k, xs)
        /\ CheckStackSize(FALSE, less, frames', heap)
        /\ heap' = IF IsMap(x)
                   THEN IF HasKey(x, key) THEN [f EXCEPT !.lists[q] = RemoveAt(@, i)] ELSE heap
                   ELSE f
    BY DEF RemoveItem
  <1>2. Pops(k) /\ IsNum(key) /\ (IsMap(x) \/ (IsArray(x) /\ InRange(key, items)))
    BY <1>1 DEF CanRemove
  <1>3. /\ k \in Nat /\ less \in Int /\ less <= 0 /\ k + less = 0 /\ 0 \in 0 .. k - 1 /\ 1 \in 0 .. k - 1
        /\ n \in Nat /\ HeapTyped(heap) /\ InLists(heap) \in Int
    BY CurTyped DEF Ready, MachineTyped
  <1> HIDE DEF k, less
  <1>4. x \in Item(n) /\ key \in Item(n)
    <2>1. ASSUME NEW j \in 0 .. k - 1
          PROVE  Top(j) \in Item(n)
      BY <1>2, <1>3, PopsReach
    <2> HIDE DEF n
    <2>2. Top(0) \in Item(n)
      BY <1>3, <2>1
    <2>3. Top(1) \in Item(n)
      BY <1>3, <2>1
    <2> QED  BY <2>2, <2>3
  <1> HIDE DEF x, key
  <1>5. Allows(less)
    BY <1>1, <1>3, FewerAllowed
  <1>6. /\ items \in Seq(Item(n)) /\ Len(items) \in Nat /\ items = ListIn(heap, x) /\ x[1] = "obj"
        /\ IsArray(x) => KindIn(heap, x) # "map"
        /\ IsMap(x) => /\ KeysIn(heap, x) \in Seq(Item(n)) /\ Len(KeysIn(heap, x)) = Len(items)
                       /\ KindIn(heap, x) = "map"
    BY <1>2, <1>4, CollectionList DEF IsMap
  <1>7. xs \in Seq(Item(n)) /\ Len(xs) = 0
    OBVIOUS
  <1> HIDE DEF xs
  <1>8. CASE IsMap(x) /\ ~HasKey(x, key)
    <2>1. heap' = heap
      BY <1>1, <1>8
    <2>2. UNCHANGED <<heap, multisigs>> /\ xs \in Seq(Item(Len(heap.objs))) /\ Len(xs) <= k + less
      BY <1>1, <1>3, <1>7, <2>1 DEF n
    <2> QED  BY <1>1, <1>2, <1>3, <1>5, <2>2, SameHeapStep
  <1>9. CASE ~IsMap(x) \/ HasKey(x, key)
    <2>1. i \in 1 .. Len(items)
      <3>1. CASE IsMap(x)
        <4>1. PlaceOf(x, key) \in 1 .. Len(Items(x))
          BY <1>4, <1>9, <3>1, PlaceFound
        <4> QED  BY <3>1, <4>1
      <3>2. CASE ~IsMap(x)
        <4>1. key[2] \in Int
          BY <1>2, <1>3, <1>4, ItemCases DEF IsNum
        <4>2. key[2] >= 0 /\ key[2] < Len(items)
          BY <1>2, <3>2 DEF InRange
        <4> QED  BY <1>6, <3>2, <4>1, <4>2
      <3> QED  BY <3>1, <3>2
    <2> HIDE DEF i, items
    <2>2. fewer \in Seq(Item(n)) /\ Len(fewer) = Len(items) - 1
      BY <1>6, <2>1, RemoveProperties
    <2> HIDE DEF fewer
    <2>3. HeapTyped(heap') /\ heap'.objs = heap.objs /\ InLists(heap') <= InLists(heap)
      <3>1. CASE IsMap(x)
        <4> DEFINE keys == RemoveAt(KeysIn(heap, x), i)
                   both == [f EXCEPT !.lists[q] = keys]
        <4>1. keys \in Seq(Item(n)) /\ Len(keys) = Len(KeysIn(heap, x)) - 1
          <5>1. i \in 1 .. Len(KeysIn(heap, x))
            BY <1>6, <2>1, <3>1
          <5> QED  BY <1>6, <3>1, <5>1, RemoveProperties
        <4> HIDE DEF keys
        <4>2. f.lists[q] = KeysIn(heap, x)
          BY <1>3, <1>4, <1>6, <2>2, <3>1, EntryChanged DEF n
        <4>3. /\ HeapTyped(both) /\ both.objs = heap.objs
              /\ InLists(both) = InLists(heap) - Len(ListIn(heap, x)) + Len(fewer)
                                   - Len(KeysIn(heap, x)) + Len(keys)
          <5>1. Len(fewer) = Len(keys)
            BY <1>6, <2>2, <3>1, <4>1
          <5>2. KindIn(heap, x) = "map"
            BY <1>6, <3>1
          <5> QED  BY <1>3, <1>4, <2>2, <4>1, <5>1, <5>2, BothSet DEF n
        <4>4. heap' = both
          <5> HIDE DEF f, q
          <5>1. heap' = [f EXCEPT !.lists[q] = RemoveAt(f.lists[q], i)]
            BY <1>1, <1>9, <3>1
          <5>2. RemoveAt(f.lists[q], i) = keys
            BY <4>2 DEF keys
          <5> QED  BY <5>1, <5>2
        <4> HIDE DEF both
        <4> QED  BY <1>3, <1>6, <2>2, <3>1, <4>1, <4>3, <4>4
      <3>2. CASE ~IsMap(x)
        <4>1. /\ HeapTyped(f) /\ f.objs = heap.objs
              /\ InLists(f) = InLists(heap) - Len(ListIn(heap, x)) + Len(fewer)
          <5>1. KindIn(heap, x) # "map"
            BY <1>2, <1>6, <3>2
          <5> QED  BY <1>3, <1>4, <1>6, <2>2, <5>1, ListSet DEF n
        <4>2. heap' = f
          BY <1>1, <3>2
        <4> HIDE DEF f
        <4> QED  BY <1>3, <1>6, <2>2, <4>1, <4>2
      <3> QED  BY <3>1, <3>2
    <2>4. InLists(heap') \in Int
      BY <2>3, HeapWeight
    <2>5. InLists(heap') + Len(xs) <= InLists(heap) + k + less
      BY <1>3, <1>7, <2>3, <2>4
    <2>6. xs \in Seq(Item(Len(heap'.objs))) /\ Len(heap.objs) <= Len(heap'.objs)
      BY <1>3, <1>7, <2>3 DEF n
    <2> QED  BY <1>1, <1>2, <1>3, <1>5, <2>3, <2>5, <2>6, LeftStep
  <1> QED  BY <1>8, <1>9

\* KEYS, VALUES and HASKEY.
LEMMA LookSteps ==
    ASSUME Ready, NEW ins \in Instruction, Look(ins)
    PROVE  Stepped
  <1>1. Len(heap.objs) \in Nat /\ HeapTyped(heap) /\ InLists(heap) \in Int /\ CanLook(ins) /\ UNCHANGED multisigs
    BY CurTyped DEF Ready, MachineTyped, Look
  <1>2. CASE ins.op = "HASKEY"
    <2> DEFINE b == IF IsMap(Top(1)) THEN HasKey(Top(1), Top(0)) ELSE Top(0)[2] < Len(Items(Top(1)))
               xs == <<Truth(b)>>
               k == 2
               less == -1
    <2>1. /\ frames' = Left(k, xs) /\ CheckStackSize(FALSE, less, frames', heap) /\ UNCHANGED heap
          /\ Pops(k)
      BY <1>1, <1>2 DEF Look, CanLook
    <2>2. k \in Nat /\ less \in Int /\ less <= 0 /\ k + less = 1
      OBVIOUS
    <2> HIDE DEF k, less, b
    <2>3. xs \in Seq(Item(Len(heap.objs))) /\ Len(xs) = 1
      <3>1. Truth(b) = Num(0) \/ Truth(b) = Num(1)
        BY DEF Truth
      <3>2. Num(0) \in Item(Len(heap.objs)) /\ Num(1) \in Item(Len(heap.objs))
        BY <1>1, ItemTypes
      <3> QED  BY <3>1, <3>2
    <2> HIDE DEF xs
    <2>4. Allows(less)
      BY <2>1, <2>2, FewerAllowed
    <2>5. Len(xs) <= k + less /\ UNCHANGED <<heap, multisigs>>
      BY <1>1, <2>1, <2>2, <2>3
    <2> QED  BY <2>1, <2>2, <2>3, <2>4, <2>5, SameHeapStep
  <1>3. CASE ins.op \in {"KEYS", "VALUES"}
    <2> DEFINE n == Len(heap.objs)
               x == Top(0)
               k == 1
               kind == "array"
    <2>1. Pops(k) /\ IsMap(x)
      BY <1>1, <1>3 DEF CanLook
    <2>2. k \in Nat /\ k = 1 /\ 0 \in 0 .. k - 1 /\ kind \in {"array", "struct"}
      OBVIOUS
    <2>3. /\ ins.op = "KEYS" => /\ heap' = NewArray(heap, kind, KeysIn(heap, x))
                                /\ frames' = Left(k, <<Newest(heap')>>)
                                /\ CheckStackSize(FALSE, Len(Items(x)), frames', heap')
                                /\ Ran(ins, Fits)
      BY <1>3 DEF Look
    <2>4. ins.op = "VALUES" =>
              LET all == FoldLeft(StoredToo, [heap |-> heap, items |-> << >>], Items(x))
              IN /\ heap' = NewArray(all.heap, kind, all.items)
                 /\ frames' = Left(k, <<Newest(heap')>>)
                 /\ CheckStackSize(FALSE, IntMax, frames', heap')
      BY <1>3 DEF Look
    <2> HIDE DEF k, kind
    <2>5. x \in Item(n)
      BY <2>1, <2>2, PopsReach
    <2> HIDE DEF x, n
    <2>6. /\ KeysIn(heap, x) \in Seq(Item(n)) /\ Len(KeysIn(heap, x)) = Len(Items(x))
          /\ Items(x) \in Seq(Item(n)) /\ Len(Items(x)) \in Nat
      BY <2>1, <2>5, CollectionList DEF n
    <2>7. CASE ins.op = "KEYS"
      <3> DEFINE keys == KeysIn(heap, x)
                 c == Len(Items(x))
      <3>1. /\ heap' = NewArray(heap, kind, keys) /\ frames' = Left(k, <<Newest(heap')>>)
            /\ CheckStackSize(FALSE, c, frames', heap') /\ Ran(ins, Fits)
        BY <2>3, <2>7
      <3>2. keys \in Seq(Item(n)) /\ Len(keys) = c /\ c \in Nat
        BY <2>6
      <3> HIDE DEF keys, c
      <3>3. /\ HeapTyped(heap') /\ Len(heap'.objs) = Len(heap.objs) + 1
            /\ InLists(heap') = InLists(heap) + c
        <4>1. /\ HeapTyped(NewArray(heap, kind, keys))
              /\ Len(NewArray(heap, kind, keys).objs) = Len(heap.objs) + 1
              /\ InLists(NewArray(heap, kind, keys)) = InLists(heap) + Len(keys)
          BY <1>1, <2>2, <3>2, ArrayMade DEF n
        <4> QED  BY <3>1, <3>2, <4>1
      <3>4. Allows(c)
        <4>1. Running' => Fits
          BY <3>1, RanFits
        <4>2. c \in Int
          BY <3>2
        <4> QED  BY <3>1, <4>1, <4>2, Allowed
      <3>5. InLists(heap') + 1 <= InLists(heap) + k + c /\ c \in Int
        BY <1>1, <2>2, <3>2, <3>3
      <3> QED  BY <1>1, <2>1, <2>2, <3>1, <3>3, <3>4, <3>5, MadeStep
    <2>8. CASE ins.op = "VALUES"
      <3> DEFINE all == FoldLeft(StoredToo, [heap |-> heap, items |-> << >>], Items(x))
                 g == all.heap
                 items == all.items
                 y == Newest(heap')
                 xs == <<y>>
      <3>1. /\ heap' = NewArray(g, kind, items) /\ frames' = Left(k, xs)
            /\ CheckStackSize(FALSE, IntMax, frames', heap')
        BY <2>4, <2>8
      <3>2. Accumulated(heap, all)
        BY <1>1, <2>6, AllStored DEF n
      <3> HIDE DEF all
      <3>3. HeapTyped(g) /\ Extends(heap, g) /\ items \in Seq(Item(Len(g.objs)))
        BY <3>2 DEF Accumulated
      <3> HIDE DEF g, items
      <3>4. HeapTyped(heap') /\ Len(heap'.objs) = Len(g.objs) + 1
        <4>1. HeapTyped(NewArray(g, kind, items)) /\ Len(NewArray(g, kind, items).objs) = Len(g.objs) + 1
          BY <2>2, <3>3, ArrayMade
        <4> QED  BY <3>1, <4>1
      <3>5. Len(g.objs) \in Nat /\ Len(heap.objs) <= Len(g.objs)
        BY <3>3, HeapShape DEF Extends
      <3>6. Len(heap'.objs) \in Nat /\ Len(heap'.objs) \in 1 .. Len(heap'.objs) /\ Len(heap.objs) <= Len(heap'.objs)
        BY <1>1, <3>4, <3>5
      <3>7. y \in Item(Len(heap'.objs))
        BY <3>6, ItemTypes DEF Newest
      <3> HIDE DEF y
      <3>8. xs \in Seq(Item(Len(heap'.objs)))
        BY <3>7
      <3> HIDE DEF xs
      <3> QED  BY <1>1, <2>1, <2>2, <3>1, <3>4, <3>6, <3>8, AnewStep
    <2> QED  BY <1>3, <2>7, <2>8
  <1> QED  BY <1>2, <1>3 DEF Look

-----------------------------------------------------------------------------
(* What the engine would count.                                            *)

\* A sum of terms that are no smaller.
LEMMA SumMonotone ==
    ASSUME NEW S, IsFiniteSet(S), NEW f, NEW g,
           \A x \in S : f[x] \in Int /\ g[x] \in Int /\ f[x] <= g[x]
    PROVE  SumFunctionOnSet(f, S) <= SumFunctionOnSet(g, S)
  <1> DEFINE Below2(t) == SumFunctionOnSet(f, t) <= SumFunctionOnSet(g, t)
             P == {n \in Nat : \A t \in SUBSET S : Cardinality(t) = n => Below2(t)}
  <1>1. \A t \in SUBSET S : /\ IsFiniteSet(t) /\ Cardinality(t) \in Nat
                            /\ (Cardinality(t) = 0 <=> t = {})
    BY FS_Subset, FS_CardinalityType, FS_EmptySet
  <1>2. 0 \in P
    <2>1. Below2({})
      BY SumEmpty
    <2> QED  BY <1>1, <2>1
  <1>3. ASSUME NEW n \in P PROVE n + 1 \in P
    <2>1. ASSUME NEW t \in SUBSET S, Cardinality(t) = n + 1
          PROVE  Below2(t)
      <3>1. n \in Nat /\ t # {} /\ IsFiniteSet(t)
        BY <1>1, <2>1
      <3>2. /\ First(t) \in S /\ Others(t) \in SUBSET S
            /\ Cardinality(Others(t)) = n
        BY <2>1, <3>1, OthersProperties
      <3>3. Below2(Others(t))
        BY <3>2
      <3>4. /\ SumFunctionOnSet(f, t) = f[First(t)] + SumFunctionOnSet(f, Others(t))
            /\ SumFunctionOnSet(g, t) = g[First(t)] + SumFunctionOnSet(g, Others(t))
        BY <3>1, SumFirst
      <3>5. SumFunctionOnSet(f, Others(t)) \in Int /\ SumFunctionOnSet(g, Others(t)) \in Int
        BY <1>1, <3>2, SumIsInt
      <3> QED  BY <3>2, <3>3, <3>4, <3>5
    <2> QED  BY <2>1
  <1>4. Cardinality(S) \in P
    <2>1. P \in SUBSET Nat
      OBVIOUS
    <2>2. Cardinality(S) \in Nat
      BY <1>1
    <2> HIDE DEF P
    <2> QED  BY <1>2, <1>3, <2>1, <2>2, Induction
  <1> QED  BY <1>4

\* A stack holds no fewer items than it holds primitives.
LEMMA PrimitivesBound ==
    ASSUME NEW n \in Nat, NEW s \in Seq(Item(n))
    PROVE  Primitives(s) \in Nat /\ Primitives(s) <= Size(s) /\ Size(s) <= Len(s) /\ Size(s) \in Nat
  <1>1. IsFiniteSet(Solid(s)) /\ Size(s) = Cardinality(Solid(s)) /\ Size(s) \in Nat /\ Size(s) <= Len(s)
    BY SizeBounds
  <1> DEFINE nums == {i \in DOMAIN s : IsNum(s[i])}
  <1>2. nums \in SUBSET Solid(s)
    BY DEF Solid, IsNum, Hole
  <1>3. IsFiniteSet(nums) /\ Cardinality(nums) <= Cardinality(Solid(s))
    BY <1>1, <1>2, FS_Subset
  <1>4. Cardinality(nums) \in Nat
    BY <1>3, FS_CardinalityType
  <1> QED  BY <1>1, <1>3, <1>4 DEF Primitives

\* What a script holds is no more than what the stacks and lists carry.
LEMMA HeldBound ==
    ASSUME MachineTyped
    PROVE  Held(frames, heap) <= Carried /\ Held(frames, heap) \in Int /\ Carried \in Int
  <1> DEFINE n == Len(heap.objs)
             fs == frames
             stacks == [k \in DOMAIN fs |-> Primitives(fs[k].eval) + Primitives(fs[k].alt)]
             weights == [k \in DOMAIN fs |-> Weight(fs[k])]
             prims == [l \in DOMAIN heap.lists |-> Primitives(heap.lists[l])]
             lens == [l \in DOMAIN heap.lists |-> Len(heap.lists[l])]
             all == DOMAIN heap.lists
             some == {l \in DOMAIN heap.lists : \E o \in Reached(fs, heap) : heap.objs[o].list = l}
  <1>1. HeapTyped(heap) /\ fs \in Seq(Frame(n))
    BY DEF MachineTyped
  <1>2. /\ n \in Nat /\ all = 1 .. Len(heap.lists) /\ Len(heap.lists) \in Nat
        /\ \A l \in all : heap.lists[l] \in Seq(Item(n))
    BY <1>1, HeapShape
  <1>3. DOMAIN fs = 1 .. Len(fs) /\ Len(fs) \in Nat /\ \A k \in DOMAIN fs : fs[k] \in Frame(n)
    BY <1>1
  <1> HIDE DEF n
  <1>4. IsFiniteSet(DOMAIN fs) /\ IsFiniteSet(all)
    <2>1. IsFiniteSet(1 .. Len(fs)) /\ IsFiniteSet(1 .. Len(heap.lists))
      BY <1>2, <1>3, FS_Interval
    <2> QED  BY <1>2, <1>3, <2>1
  <1>5. some \in SUBSET all
    OBVIOUS
  <1>6. OnStacks(fs) \in Int /\ OnFrames(fs) \in Int /\ OnStacks(fs) <= OnFrames(fs)
    <2>1. \A k \in DOMAIN fs : stacks[k] \in Int /\ weights[k] \in Int /\ stacks[k] <= weights[k]
      <3>1. ASSUME NEW k \in DOMAIN fs
            PROVE  stacks[k] \in Int /\ weights[k] \in Int /\ stacks[k] <= weights[k]
        <4> DEFINE s == fs[k].eval
                   t == fs[k].alt
        <4>1. s \in Seq(Item(n)) /\ t \in Seq(Item(n))
          BY <1>3 DEF Frame
        <4>2. /\ stacks[k] = Primitives(s) + Primitives(t)
              /\ weights[k] = Size(s) + Len(t)
          BY DEF Weight
        <4> HIDE DEF s, t
        <4>3. /\ Primitives(s) \in Nat /\ Primitives(s) <= Size(s) /\ Size(s) \in Nat
          BY <1>2, <4>1, PrimitivesBound
        <4>4. /\ Primitives(t) \in Nat /\ Primitives(t) <= Size(t) /\ Size(t) \in Nat /\ Size(t) <= Len(t)
          BY <1>2, <4>1, PrimitivesBound
        <4>5. Len(t) \in Nat
          BY <4>1
        <4> QED  BY <4>2, <4>3, <4>4, <4>5
      <3> QED  BY <3>1
    <2> HIDE DEF stacks, weights
    <2>2. /\ SumFunctionOnSet(stacks, DOMAIN fs) <= SumFunctionOnSet(weights, DOMAIN fs)
          /\ SumFunctionOnSet(stacks, DOMAIN fs) \in Int /\ SumFunctionOnSet(weights, DOMAIN fs) \in Int
      BY <1>4, <2>1, SumMonotone, SumIsInt
    <2> QED  BY <2>2 DEF OnStacks, OnFrames, stacks, weights
  <1>7. /\ \A l \in all : /\ prims[l] \in Nat /\ lens[l] \in Nat /\ prims[l] <= lens[l]
    <2>1. ASSUME NEW l \in all
          PROVE  prims[l] \in Nat /\ lens[l] \in Nat /\ prims[l] <= lens[l]
      <3> DEFINE s == heap.lists[l]
      <3>1. s \in Seq(Item(n))
        BY <1>2
      <3>2. prims[l] = Primitives(s) /\ lens[l] = Len(s)
        OBVIOUS
      <3> HIDE DEF s
      <3>3. Primitives(s) \in Nat /\ Primitives(s) <= Size(s) /\ Size(s) \in Nat /\ Size(s) <= Len(s)
        BY <1>2, <3>1, PrimitivesBound
      <3>4. Len(s) \in Nat
        BY <3>1
      <3> QED  BY <3>2, <3>3, <3>4
    <2> QED  BY <2>1
  <1> HIDE DEF some, all
  <1>8. SumFunctionOnSet(prims, some) <= SumFunctionOnSet(lens, all)
        /\ SumFunctionOnSet(prims, some) \in Int /\ SumFunctionOnSet(lens, all) \in Int
    <2> DEFINE rest == all \ some
    <2> HIDE DEF prims, lens
    <2>1. IsFiniteSet(some) /\ IsFiniteSet(rest) /\ some \intersect rest = {} /\ some \union rest = all
      <3>1. rest \in SUBSET all
        OBVIOUS
      <3> QED  BY <1>4, <1>5, <3>1, FS_Subset
    <2>2. rest \in SUBSET all
      OBVIOUS
    <2> HIDE DEF rest
    <2>3. SumFunctionOnSet(prims, some) <= SumFunctionOnSet(lens, some)
      <3>1. \A l \in some : prims[l] \in Int /\ lens[l] \in Int /\ prims[l] <= lens[l]
        BY <1>5, <1>7
      <3> QED  BY <2>1, <3>1, SumMonotone
    <2>4. SumFunctionOnSet(lens, all) = SumFunctionOnSet(lens, some) + SumFunctionOnSet(lens, rest)
      <3>1. \A l \in some \union rest : lens[l] \in Int
        BY <1>7, <2>1
      <3>2. SumFunctionOnSet(lens, some \union rest)
              = SumFunctionOnSet(lens, some) + SumFunctionOnSet(lens, rest)
        BY <2>1, <3>1, SumUnion
      <3> QED  BY <2>1, <3>2
    <2>5. SumFunctionOnSet(lens, rest) \in Nat /\ SumFunctionOnSet(lens, some) \in Nat
          /\ SumFunctionOnSet(prims, some) \in Nat
      <3>1. /\ \A l \in rest : lens[l] \in Nat
            /\ \A l \in some : lens[l] \in Nat /\ prims[l] \in Nat
        BY <1>5, <1>7, <2>2
      <3> QED  BY <2>1, <3>1, SumIsNat
    <2> QED  BY <2>3, <2>4, <2>5
  <1> DEFINE a == OnStacks(fs)
             b == OnFrames(fs)
             c == SumFunctionOnSet(prims, some)
             d == SumFunctionOnSet(lens, all)
  <1>9. a \in Int /\ b \in Int /\ c \in Int /\ d \in Int /\ a <= b /\ c <= d
    BY <1>6, <1>8
  <1>10. Held(frames, heap) = a + c
    BY DEF Held, some, all
  <1>11. Carried = b + d
    BY DEF Carried, InLists, all
  <1> HIDE DEF a, b, c, d
  <1> QED  BY <1>9, <1>10, <1>11

-----------------------------------------------------------------------------
(* All instructions.                                                       *)

\* The code of the scripts, as far as it was read, is made of instructions.
CodeTyped ==
    /\ code \subseteq Instruction
    /\ DOMAIN script = Script
    /\ \A s \in Script : \A a \in DOMAIN script[s] : script[s][a] \in Instruction \cup {Unread}

\* What is fetched is an instruction.
LEMMA FetchedTyped ==
    ASSUME CodeTyped, Ready
    PROVE  Fetched \subseteq Instruction
  <1>1. Return \in Instruction
    <2> DEFINE zero == 0
    <2>1. zero \in Int /\ zero \in Nat
      OBVIOUS
    <2>2. Return = [op |-> "RET", n |-> zero, to |-> Unread, rv |-> zero, pc |-> zero]
      BY DEF Return
    <2> HIDE DEF zero
    <2>3. Return \in [op : Opcode, n : Int, to : Script \cup {Unread}, rv : Nat, pc : Nat]
      <3> DEFINE ret == "RET"
                 to == Unread
                 T == Script \cup {Unread}
      <3>1. ret \in Opcode
        BY DEF Opcode
      <3>0. to \in T
        OBVIOUS
      <3>2. Return = [op |-> ret, n |-> zero, to |-> to, rv |-> zero, pc |-> zero]
        BY <2>2
      <3> HIDE DEF ret, to, T
      <3>3. Return \in [op : Opcode, n : Int, to : T, rv : Nat, pc : Nat]
        BY <2>1, <3>0, <3>1, <3>2
      <3> QED  BY <3>3 DEF T
    <2>4. Return.to = Unread
      BY <2>2
    <2> QED  BY <2>3, <2>4 DEF Instruction
  <1>2. ASSUME ~AtEnd, Written # Unread
        PROVE  Written \in Instruction
    <2>1. Cur \in Frame(Len(heap.objs))
      BY CurTyped
    <2>2. Cur.script \in Script
      BY <2>1 DEF Frame
    <2>3. Cur.ip \in DOMAIN script[Cur.script]
      BY <1>2 DEF AtEnd
    <2>4. script[Cur.script][Cur.ip] \in Instruction \cup {Unread}
      BY <2>2, <2>3 DEF CodeTyped
    <2> QED  BY <1>2, <2>4 DEF Written
  <1> QED  BY <1>1, <1>2 DEF Fetched, CodeTyped

\* An instruction is read once, and is what it was read as from then on.
LEMMA FetchKeeps ==
    ASSUME CodeTyped, Ready, NEW ins \in Instruction, Fetch(ins), code' = code
    PROVE  CodeTyped'
  <1> DEFINE s == Cur.script
             a == Cur.ip
  <1>1. CASE AtEnd
    BY <1>1 DEF Fetch, CodeTyped
  <1>2. CASE ~AtEnd
    <2>1. script' = [script EXCEPT ![s][a] = ins]
      BY <1>2 DEF Fetch
    <2> HIDE DEF s, a
    <2>2. DOMAIN script' = Script
      BY <2>1 DEF CodeTyped
    <2>3. ASSUME NEW t \in Script, NEW b \in DOMAIN script'[t]
          PROVE  script'[t][b] \in Instruction \cup {Unread}
      <3>1. DOMAIN script = Script /\ \A c \in DOMAIN script[t] : script[t][c] \in Instruction \cup {Unread}
        BY DEF CodeTyped
      <3>2. CASE t = s
        <4>1. script'[t] = [script[t] EXCEPT ![a] = ins]
          BY <2>1, <3>1, <3>2
        <4> QED  BY <2>3, <3>1, <4>1
      <3>3. CASE t # s
        <4>1. script'[t] = script[t]
          BY <2>1, <3>1, <3>3
        <4> QED  BY <2>3, <3>1, <4>1
      <3> QED  BY <3>2, <3>3
    <2> QED  BY <2>2, <2>3 DEF CodeTyped
  <1> QED  BY <1>1, <1>2

\* The results of CHECKMULTISIG that were not counted are one more, or as many.
LEMMA MultisigsGrow ==
    ASSUME NEW ins, Syscall(ins) \/ WithoutService(ins)
    PROVE  multisigs' = multisigs \/ multisigs' = multisigs + 1
  <1> DEFINE Goal == multisigs' = multisigs \/ multisigs' = multisigs + 1
  <1>1. Fault => Goal
    BY DEF Fault, machine
  <1>2. ASSUME NEW results, Replace(ins, results) PROVE Goal
    BY <1>2 DEF Replace
  <1> QED
    <2> SUFFICES ASSUME WithoutService(ins) PROVE Goal
      BY DEF Syscall
    <2> QED
      BY <1>1, <1>2 DEF WithoutService, PushValue, Nop, Shuffle, AltStack, Index, Splice, Bits,
         Numeric, Crypto, ExceedLimit, CheckMultisig, Jump, ThrowIfNot, Ret, Call, AppCall,
         CallIsolated, NoSuchContract, Pack, Unpack, PickItem, SetItem, NewCollection, NewMapItem,
         AppendItem, ReverseItems, RemoveItem, ArraySize, Look, Raise

\* The items are still a number after a step.
LEMMA CarriedLater ==
    ASSUME MachineTyped'
    PROVE  Carried' \in Int
  <1>1. HeapTyped(heap') /\ frames' \in Seq(Frame(Len(heap'.objs)))
    BY DEF MachineTyped
  <1>2. Len(heap'.objs) \in Nat /\ InLists(heap') \in Nat
    BY <1>1, HeapShape, HeapWeight
  <1>3. OnFrames(frames') \in Nat
    BY <1>1, <1>2, FramesWeight
  <1> QED  BY <1>2, <1>3 DEF Carried

\* Every instruction but RET leaves as many contexts as there were, or more.
LEMMA InstructionSteps ==
    ASSUME Ready, NEW ins \in Instruction, Syscall(ins) \/ WithoutService(ins)
    PROVE  Stepped \/ Ret(ins)
  <1>1. CASE Syscall(ins)
    BY <1>1, SyscallSteps
  <1>2. CASE PushValue(ins) \/ Nop(ins) \/ Shuffle(ins) \/ AltStack(ins) \/ Index(ins)
    BY <1>2, PushValueSteps, NopSteps, ShuffleSteps, AltStackSteps, IndexSteps
  <1>3. CASE Splice(ins) \/ Bits(ins) \/ Numeric(ins) \/ Crypto(ins) \/ CheckMultisig(ins)
    BY <1>3, ComputingSteps, CheckMultisigSteps
  <1>4. CASE ExceedLimit(ins) \/ NoSuchContract(ins) \/ Raise(ins)
    BY <1>4, FaultSteps DEF ExceedLimit, NoSuchContract, Raise
  <1>5. CASE Jump(ins) \/ ThrowIfNot(ins) \/ Call(ins) \/ AppCall(ins) \/ CallIsolated(ins)
    BY <1>5, JumpSteps, ThrowIfNotSteps, CallSteps, AppCallSteps, IsolatedSteps
  <1>6. CASE Pack(ins) \/ Unpack(ins) \/ PickItem(ins) \/ SetItem(ins) \/ NewCollection(ins)
    BY <1>6, PackSteps, UnpackSteps, PickItemSteps, SetItemSteps, NewCollectionSteps
  <1>7. CASE NewMapItem(ins) \/ AppendItem(ins) \/ ReverseItems(ins) \/ RemoveItem(ins)
    BY <1>7, NewMapItemSteps, AppendItemSteps, ReverseItemsSteps, RemoveItemSteps
  <1>8. CASE ArraySize(ins) \/ Look(ins)
    BY <1>8, ArraySizeSteps, LookSteps
  <1>9. CASE Ret(ins)
    BY <1>9
  <1> QED  BY <1>1, <1>2, <1>3, <1>4, <1>5, <1>6, <1>7, <1>8, <1>9 DEF WithoutService

\* Every step of the engine keeps the machine's shape, pays for what it carries in the
\* count, and hands back what an isolated call owes.
LEMMA ExecuteSteps ==
    ASSUME Ready, CodeTyped, ExecuteNext
    PROVE  /\ Kept /\ CodeTyped'
           /\ (multisigs' = multisigs \/ multisigs' = multisigs + 1)
           /\ (Len(frames') = Len(frames) - 1 => Handed)
  <1>1. PICK ins \in Fetched : Fetch(ins) /\ (Syscall(ins) \/ WithoutService(ins))
    BY DEF ExecuteNext
  <1>2. ins \in Instruction
    BY FetchedTyped
  <1>3. code' = code
    BY DEF ExecuteNext
  <1>4. CodeTyped'
    BY <1>1, <1>2, <1>3, FetchKeeps
  <1>5. Stepped \/ Ret(ins)
    BY <1>1, <1>2, InstructionSteps
  <1>8. multisigs' = multisigs \/ multisigs' = multisigs + 1
    BY <1>1, MultisigsGrow
  <1>6. CASE Stepped
    <2>1. Kept /\ Len(frames') >= Len(frames)
      BY <1>6 DEF Stepped, Kept
    <2>2. Len(frames) \in Nat /\ Len(frames') \in Nat
      <3>1. Len(frames) \in Nat
        BY CurTyped
      <3>2. frames' \in Seq(Frame(Len(heap.objs)))'
        BY <2>1 DEF Kept, MachineTyped
      <3> QED  BY <3>1, <3>2
    <2> QED  BY <1>4, <1>8, <2>1, <2>2
  <1>7. CASE Ret(ins)
    BY <1>4, <1>8, <1>7, RetSteps
  <1> QED  BY <1>5, <1>6, <1>7

-----------------------------------------------------------------------------

-----------------------------------------------------------------------------
(* What the engine counts, and what it returns.                            *)

\* An engine runs only for a purpose, and then it has a context to run.
Scheduled == (purpose = "none" => ~Running) /\ (Running => frames # << >>)

\* As long as the items were not counted anew, the count covers what the stacks and
\* lists carry, but for the results of CHECKMULTISIG.
Counted ==
    /\ multisigs \in Nat
    /\ Running /\ ~recounted => counted \in 0 .. IntMax /\ Carried <= counted + multisigs

\* The plan left, the code, the heap and the stacks are what they are to be, and the
\* count covers them.
MachineInvariant == left \in Plan /\ CodeTyped /\ MachineTyped /\ Scheduled /\ Counted

\* A machine with no heap and empty stacks.
LEMMA EmptyMachine ==
    ASSUME NEW fs, fs = << >> \/ (\E s \in Script : fs = <<Context(s, 0, -1, << >>, Anything)>>)
                   \/ (\E s, t \in Script : fs = <<Context(s, 0, -1, << >>, Anything),
                                                   Context(t, 0, -1, << >>, Anything)>>)
    PROVE  LET h == [objs |-> << >>, lists |-> << >>]
           IN /\ HeapTyped(h) /\ fs \in Seq(Frame(Len(h.objs))) /\ Owing(fs)
              /\ OnFrames(fs) + InLists(h) = 0
  <1> DEFINE h == [objs |-> << >>, lists |-> << >>]
             c(s) == Context(s, 0, -1, << >>, Anything)
             n == Len(h.objs)
             none == << >>
  <1>1. h.objs = << >> /\ h.lists = << >> /\ n = 0 /\ n \in Nat
    OBVIOUS
  <1>2. HeapTyped(h)
    <2>1. h.objs \in Seq(Object) /\ h.lists \in Seq(Seq(Item(n))) /\ DOMAIN h.objs = {}
      BY <1>1
    <2>2. h = [objs |-> h.objs, lists |-> h.lists]
      BY <1>1
    <2> QED  BY <2>1, <2>2 DEF HeapTyped
  <1>3. InLists(h) = 0
    <2>1. DOMAIN h.lists = {}
      BY <1>1
    <2> QED  BY <2>1, SumEmpty DEF InLists
  <1> HIDE DEF h
  <1>4. ASSUME NEW s \in Script
        PROVE  c(s) \in Frame(n) /\ c(s).owed.rv = -1 /\ Weight(c(s)) = 0
    <2> DEFINE zero == 0
               all == -1
               owed == Anything
    <2>1. /\ owed \in [rv : Nat \cup {-1}, kept : Seq(Item(n))] /\ owed.rv = -1
          /\ none \in Seq(Item(n)) /\ Size(none) = 0
      BY <1>1, NothingOwed
    <2>2. zero \in Int /\ all \in Nat \cup {-1}
      OBVIOUS
    <2> HIDE DEF zero, all, owed, none, n
    <2>3. /\ Context(s, zero, all, none, owed) \in Frame(n)
          /\ Context(s, zero, all, none, owed).owed = owed
          /\ Weight(Context(s, zero, all, none, owed)) = Size(none)
      <3>1. s \in Script /\ n \in Nat
        BY <1>1
      <3> HIDE DEF zero, all, owed, none, n
      <3> QED  BY <2>1, <2>2, <3>1, ContextTyped, SMTT(30)
    <2> QED  BY <2>1, <2>3 DEF zero, all, owed, none
  <1> HIDE DEF c, n
  <1>5. none \in Seq(Frame(n)) /\ Owing(none) /\ OnFrames(none) = 0
    <2>1. DOMAIN none = {}
      OBVIOUS
    <2> QED  BY <2>1, SumEmpty DEF Owing, OnFrames
  <1> HIDE DEF none
  <1>6. ASSUME NEW s \in Script, NEW gs \in Seq(Frame(n)), Owing(gs), OnFrames(gs) = 0
        PROVE  /\ Append(gs, c(s)) \in Seq(Frame(n)) /\ Owing(Append(gs, c(s)))
               /\ OnFrames(Append(gs, c(s))) = 0
    <2> DEFINE x == c(s)
    <2>1. x \in Frame(n) /\ ~(x.owed.rv >= 0) /\ Weight(x) = 0
      BY <1>4
    <2> HIDE DEF x
    <2>2. /\ Append(gs, x) \in Seq(Frame(n)) /\ Owing(Append(gs, x))
          /\ OnFrames(Append(gs, x)) = OnFrames(gs) + Weight(x)
      BY <1>1, <1>6, <2>1, Entered
    <2> QED  BY <1>6, <2>1, <2>2 DEF x
  <1>7. fs \in Seq(Frame(n)) /\ Owing(fs) /\ OnFrames(fs) = 0
    <2>1. CASE fs = << >>
      BY <1>5, <2>1 DEF none
    <2>2. ASSUME NEW s \in Script, fs = <<c(s)>>
          PROVE  fs \in Seq(Frame(n)) /\ Owing(fs) /\ OnFrames(fs) = 0
      <3>1. fs = Append(none, c(s))
        BY <2>2 DEF none
      <3> QED  BY <1>5, <1>6, <3>1
    <2>3. ASSUME NEW s \in Script, NEW t \in Script, fs = <<c(s), c(t)>>
          PROVE  fs \in Seq(Frame(n)) /\ Owing(fs) /\ OnFrames(fs) = 0
      <3> DEFINE gs == Append(none, c(s))
      <3>1. gs \in Seq(Frame(n)) /\ Owing(gs) /\ OnFrames(gs) = 0
        BY <1>5, <1>6
      <3>2. fs = Append(gs, c(t))
        <4>1. \A u, v : <<u, v>> = Append(Append(<<>>, u), v)
          OBVIOUS
        <4> QED  BY <2>3, <4>1 DEF none
      <3> HIDE DEF gs
      <3> QED  BY <1>6, <3>1, <3>2
    <2> QED  BY <2>1, <2>2, <2>3 DEF c
  <1> QED  BY <1>2, <1>3, <1>7 DEF h, n

\* An engine was made with empty stacks, or dropped.
LEMMA MachineFresh ==
    ASSUME heap' = [objs |-> << >>, lists |-> << >>], multisigs' = 0, counted' = 0,
           \/ frames' = << >>
           \/ \E s \in Script : frames' = <<Context(s, 0, -1, << >>, Anything)>>
           \/ \E s, t \in Script : frames' = <<Context(s, 0, -1, << >>, Anything),
                                               Context(t, 0, -1, << >>, Anything)>>
    PROVE  MachineTyped' /\ Counted'
  <1> DEFINE h == [objs |-> << >>, lists |-> << >>]
             fs == frames'
  <1>1. \/ fs = << >> \/ (\E s \in Script : fs = <<Context(s, 0, -1, << >>, Anything)>>)
        \/ (\E s, t \in Script : fs = <<Context(s, 0, -1, << >>, Anything),
                                        Context(t, 0, -1, << >>, Anything)>>)
    OBVIOUS
  <1>2. heap' = h
    OBVIOUS
  <1> HIDE DEF fs
  <1>3. HeapTyped(h) /\ fs \in Seq(Frame(Len(h.objs))) /\ Owing(fs) /\ OnFrames(fs) + InLists(h) = 0
    BY <1>1, EmptyMachine
  <1> HIDE DEF h
  <1>4. /\ HeapTyped(heap') /\ frames' \in Seq(Frame(Len(heap'.objs))) /\ Owing(frames')
        /\ OnFrames(frames') + InLists(heap') = 0
    BY <1>2, <1>3 DEF fs
  <1>5. MachineTyped'
    BY <1>4 DEF MachineTyped
  <1>6. Carried' = 0
    BY <1>4 DEF Carried
  <1>7. IntMax \in Nat
    BY VMAssumption
  <1>8. Counted'
    BY <1>6, <1>7 DEF Counted
  <1> QED  BY <1>5, <1>8

\* A program was loaded.
LEMMA LoadedTyped ==
    ASSUME left \in Plan, NEW loaded, NEW isTest, Load(left.program, loaded, isTest),
           \/ loaded = <<Entry>>
           \/ loaded = <<Witness, Entry>>
    PROVE  CodeTyped' /\ MachineTyped' /\ Counted' /\ frames' # << >>
  <1> DEFINE program == left.program
             top == loaded[Len(loaded)]
  <1>1. program \in Program
    BY DEF Plan
  <1>2. Entry \in Script /\ Witness \in Script
    BY InvocationAssumption
  <1>3. /\ code' = program.code
        /\ script' = [s \in Script |->
                         [a \in 0 .. program.length[s] - 1 |->
                             IF s = top /\ a < Len(program.start) THEN program.start[a + 1] ELSE Unread]]
        /\ frames' = [i \in DOMAIN loaded |-> Context(loaded[i], 0, -1, << >>, Anything)]
        /\ heap' = [objs |-> << >>, lists |-> << >>] /\ multisigs' = 0 /\ counted' = 0
    BY DEF Load
  <1> HIDE DEF program, top
  <1>4. CodeTyped'
    <2>1. program.code \subseteq Instruction /\ program.start \in Seq(Instruction)
      BY <1>1 DEF Program
    <2>2. ASSUME NEW s \in Script, NEW a \in DOMAIN script'[s]
          PROVE  script'[s][a] \in Instruction \cup {Unread}
      <3> DEFINE one == program.start[a + 1]
      <3>1. script'[s] = [b \in 0 .. program.length[s] - 1 |->
                             IF s = top /\ b < Len(program.start) THEN program.start[b + 1] ELSE Unread]
        BY <1>3
      <3>2. a \in 0 .. program.length[s] - 1
        BY <2>2, <3>1
      <3>3. script'[s][a] = (IF s = top /\ a < Len(program.start) THEN one ELSE Unread)
        BY <3>1, <3>2
      <3>4. a < Len(program.start) => one \in Instruction
        <4>1. a \in Nat
          <5>1. program.length[s] \in Nat
            BY <1>1 DEF Program
          <5> QED  BY <3>2, <5>1
        <4> QED  BY <2>1, <4>1
      <3> HIDE DEF one
      <3> QED  BY <3>3, <3>4
    <2>3. DOMAIN script' = Script
      BY <1>3
    <2> QED  BY <1>3, <2>1, <2>2, <2>3 DEF CodeTyped
  <1>5. CASE loaded = <<Entry>>
    <2>1. frames' = <<Context(Entry, 0, -1, << >>, Anything)>>
      <3>1. DOMAIN loaded = {1} /\ loaded[1] = Entry
        BY <1>5
      <3>2. frames' = [i \in {1} |-> Context(loaded[i], 0, -1, << >>, Anything)]
        BY <1>3, <3>1
      <3> QED  BY <3>1, <3>2
    <2>2. frames' # << >>
      BY <2>1
    <2> QED  BY <1>2, <1>3, <1>4, <2>1, <2>2, MachineFresh
  <1>6. CASE loaded = <<Witness, Entry>>
    <2>1. frames' = <<Context(Witness, 0, -1, << >>, Anything), Context(Entry, 0, -1, << >>, Anything)>>
      <3>1. DOMAIN loaded = 1 .. 2 /\ loaded[1] = Witness /\ loaded[2] = Entry
        BY <1>6
      <3>2. frames' = [i \in 1 .. 2 |-> Context(loaded[i], 0, -1, << >>, Anything)]
        BY <1>3, <3>1
      <3> QED  BY <3>1, <3>2
    <2>2. frames' # << >>
      BY <2>1
    <2> QED  BY <1>2, <1>3, <1>4, <2>1, <2>2, MachineFresh
  <1> QED  BY <1>5, <1>6

\* The engine was dropped.
LEMMA UnloadedTyped ==
    ASSUME Unload
    PROVE  CodeTyped' /\ MachineTyped' /\ Counted' /\ ~Running'
  <1>1. /\ code' = {} /\ script' = [s \in Script |-> << >>] /\ vmState' = "BREAK" /\ frames' = << >>
        /\ heap' = [objs |-> << >>, lists |-> << >>] /\ counted' = 0 /\ multisigs' = 0
    BY DEF Unload
  <1>2. MachineTyped' /\ Counted'
    BY <1>1, MachineFresh
  <1>3. CodeTyped'
    <2>1. DOMAIN script' = Script /\ \A s \in Script : DOMAIN script'[s] = {}
      BY <1>1
    <2> QED  BY <1>1, <2>1 DEF CodeTyped
  <1> QED  BY <1>1, <1>2, <1>3 DEF Running

\* What is left of a plan is one.
LEMMA PlanLeft ==
    ASSUME left \in Plan
    PROVE  /\ \A what \in {"pools", "tests", "blocks", "raises", "stops"} : Spend(what) => left' \in Plan
           /\ [left EXCEPT !.signing = FALSE] \in Plan
  <1>1. ASSUME NEW what \in {"pools", "tests", "blocks", "raises", "stops"}, Spend(what)
        PROVE  left' \in Plan
    <2>1. left' = [left EXCEPT ![what] = @ - 1] /\ left[what] > 0
      BY <1>1 DEF Spend
    <2>2. left[what] \in Nat
      BY DEF Plan
    <2>3. left[what] - 1 \in Nat
      BY <2>1, <2>2
    <2> QED  BY <2>1, <2>3 DEF Plan
  <1>2. [left EXCEPT !.signing = FALSE] \in Plan
    BY DEF Plan
  <1> QED  BY <1>1, <1>2

\* The invariant is kept by every step.
LEMMA MachineKept ==
    ASSUME MachineInvariant, [Next]_vars
    PROVE  MachineInvariant'
  <1> USE DEF MachineInvariant
  <1>1. ASSUME UNCHANGED vmVars, left' \in Plan, purpose' = purpose
        PROVE  MachineInvariant'
    <2>1. /\ code' = code /\ script' = script /\ vmState' = vmState /\ frames' = frames /\ heap' = heap
          /\ counted' = counted /\ recounted' = recounted /\ multisigs' = multisigs
      BY <1>1 DEF vmVars, machine
    <2>2. CodeTyped'
      BY <2>1 DEF CodeTyped
    <2>3. MachineTyped'
      BY <2>1 DEF MachineTyped
    <2>4. Scheduled'
      BY <1>1, <2>1 DEF Scheduled, Running
    <2>5. Counted'
      BY <2>1 DEF Counted, Running, Carried
    <2> QED  BY <1>1, <2>2, <2>3, <2>4, <2>5
  <1>2. ASSUME Unload, left' \in Plan
        PROVE  MachineInvariant'
    <2>1. CodeTyped' /\ MachineTyped' /\ Counted' /\ ~Running'
      BY <1>2, UnloadedTyped
    <2>2. Scheduled'
      BY <2>1 DEF Scheduled
    <2> QED  BY <1>2, <2>1, <2>2
  <1>3. ASSUME NEW loaded, NEW isTest, Load(left.program, loaded, isTest),
               loaded = <<Entry>> \/ loaded = <<Witness, Entry>>,
               left' \in Plan, purpose' # "none"
        PROVE  MachineInvariant'
    <2>1. CodeTyped' /\ MachineTyped' /\ Counted' /\ frames' # << >>
      BY <1>3, LoadedTyped
    <2>2. Scheduled'
      BY <1>3, <2>1 DEF Scheduled
    <2> QED  BY <1>3, <2>1, <2>2
  <1>4. CASE Execute
    <2>1. ExecuteNext /\ left' = left /\ purpose' = purpose /\ Running
      BY <1>4 DEF Execute, ExecuteNext
    <2>2. Ready
      BY <2>1 DEF Ready, Scheduled, Counted
    <2>3. Kept /\ CodeTyped'
      BY <2>1, <2>2, ExecuteSteps
    <2>4. MachineTyped' /\ (Running' => frames' # << >>)
      BY <2>3 DEF Kept
    <2>5. Scheduled'
      BY <2>1, <2>4 DEF Scheduled
    <2>6. multisigs' \in Nat
      <3>1. \/ multisigs' = multisigs
            \/ multisigs' = multisigs + 1
        BY <2>1, <2>2, ExecuteSteps
      <3> QED  BY <3>1 DEF Counted
    <2>7. Counted'
      <3> SUFFICES ASSUME Running', ~recounted'
                   PROVE  counted' \in 0 .. IntMax /\ Carried' <= counted' + multisigs'
        BY <2>6 DEF Counted
      <3>1. PICK n \in Int : Allows(n) /\ Carried' + multisigs <= Carried + n + multisigs'
        BY <2>3 DEF Kept
      <3>2. ~recounted
        BY <3>1 DEF Allows
      <3>3. counted \in 0 .. IntMax /\ Carried <= counted + multisigs /\ multisigs \in Nat
        BY <2>1, <3>2 DEF Counted
      <3>4. counted' \in 0 .. IntMax /\ counted' >= counted + n
        BY <3>1, <3>3 DEF Allows
      <3>5. Carried \in Int /\ Carried' \in Int /\ IntMax \in Nat
        BY <2>4, HeldBound, CarriedLater, VMAssumption
      <3> DEFINE a == Carried
                 b == Carried'
                 c == counted
                 d == counted'
                 e == multisigs
                 f == multisigs'
      <3>6. a \in Int /\ b \in Int
        BY <3>5
      <3>7. c \in Int /\ d \in Int
        BY <3>3, <3>4, <3>5
      <3>8. e \in Int /\ f \in Int
        BY <2>6, <3>3
      <3>9. b + e <= a + n + f
        BY <3>1
      <3>10. a <= c + e /\ d >= c + n
        BY <3>3, <3>4
      <3> HIDE DEF a, b, c, d, e, f
      <3>11. b <= d + f
        BY <3>6, <3>7, <3>8, <3>9, <3>10
      <3> QED  BY <3>4, <3>11 DEF b, d, f
    <2> QED  BY <2>1, <2>3, <2>4, <2>5, <2>7
  <1>5. CASE VerifyForPool
    <2>1. /\ Spend("pools") /\ Load(left.program, <<Witness, Entry>>, FALSE) /\ purpose' = "pool"
      BY <1>5 DEF VerifyForPool
    <2>2. left' \in Plan
      BY <2>1, PlanLeft
    <2> QED  BY <1>3, <2>1, <2>2
  <1>6. CASE TestInvoke
    <2>1. /\ Spend("tests") /\ Load(left.program, <<Entry>>, TRUE) /\ purpose' = "test"
      BY <1>6 DEF TestInvoke
    <2>2. left' \in Plan
      BY <2>1, PlanLeft
    <2> QED  BY <1>3, <2>1, <2>2
  <1>7. CASE RunInvocation
    <2>1. left' = left /\ Load(left.program, <<Entry>>, FALSE) /\ purpose' = "block"
      BY <1>7 DEF RunInvocation
    <2> QED  BY <1>3, <2>1
  <1>8. CASE ExecutionCompleted
    <2>1. Unload /\ left' = left
      BY <1>8 DEF ExecutionCompleted
    <2> QED  BY <1>2, <2>1
  <1>9. CASE Stop
    <2>1. Unload /\ Spend("stops")
      BY <1>9 DEF Stop
    <2>2. left' \in Plan
      BY <2>1, PlanLeft
    <2> QED  BY <1>2, <2>1, <2>2
  <1>10. CASE CollectSignatures \/ EndBlock \/ File
    <2>1. UNCHANGED vmVars /\ left' = left /\ purpose' = purpose
      BY <1>10 DEF CollectSignatures, EndBlock, File
    <2> QED  BY <1>1, <2>1
  <1>11. CASE LeaveSigning
    <2>1. UNCHANGED vmVars /\ left' = [left EXCEPT !.signing = FALSE] /\ purpose' = purpose
      BY <1>11 DEF LeaveSigning
    <2>2. left' \in Plan
      BY <2>1, PlanLeft
    <2> QED  BY <1>1, <2>1, <2>2
  <1>12. CASE BeginBlock
    <2>1. UNCHANGED vmVars /\ Spend("blocks") /\ purpose' = purpose
      BY <1>12 DEF BeginBlock
    <2>2. left' \in Plan
      BY <2>1, PlanLeft
    <2> QED  BY <1>1, <2>1, <2>2
  <1>13. CASE ListenerRaises \/ PersistRaises
    <2>1. UNCHANGED vmVars /\ Spend("raises") /\ purpose' = purpose
      BY <1>13 DEF ListenerRaises, PersistRaises
    <2>2. left' \in Plan
      BY <2>1, PlanLeft
    <2> QED  BY <1>1, <2>1, <2>2
  <1>14. CASE UNCHANGED vars
    <2>1. UNCHANGED vmVars /\ left' = left /\ purpose' = purpose
      BY <1>14 DEF vars
    <2> QED  BY <1>1, <2>1
  <1> QED
    BY <1>4, <1>5, <1>6, <1>7, <1>8, <1>9, <1>10, <1>11, <1>12, <1>13, <1>14 DEF Next

\* The machine invariant holds of every execution: no reference dangles, no list of a map
\* is another object's as well, no context owes what its caller's stack does not allow, and
\* the engine's count of stack items (ExecutionEngine.CheckStackSize) covers what its stacks
\* and lists carry unless it was to count them anew.
THEOREM MachineIsKept == Spec => []MachineInvariant
  <1>1. Init => MachineInvariant
    <2> SUFFICES ASSUME Init PROVE MachineInvariant
      OBVIOUS
    <2>1. /\ code = {} /\ script = [s \in Script |-> << >>] /\ vmState = "BREAK" /\ frames = << >>
          /\ heap = [objs |-> << >>, lists |-> << >>] /\ counted = 0 /\ multisigs = 0
          /\ left \in Plans
      BY DEF Init, NoExecution
    <2>2. left \in Plan
      BY <2>1, InvocationAssumption
    <2>3. CodeTyped
      <3>1. DOMAIN script = Script /\ \A s \in Script : DOMAIN script[s] = {}
        BY <2>1
      <3> QED  BY <2>1, <3>1 DEF CodeTyped
    <2>4. ~Running
      BY <2>1 DEF Running
    <2>5. MachineTyped
      <3> DEFINE h == [objs |-> << >>, lists |-> << >>]
                 fs == << >>
      <3>1. heap = h /\ frames = fs
        BY <2>1
      <3>2. fs = << >> \/ (\E s \in Script : fs = <<Context(s, 0, -1, << >>, Anything)>>)
            \/ (\E s, t \in Script : fs = <<Context(s, 0, -1, << >>, Anything),
                                            Context(t, 0, -1, << >>, Anything)>>)
        OBVIOUS
      <3> HIDE DEF fs
      <3>3. HeapTyped(h) /\ fs \in Seq(Frame(Len(h.objs))) /\ Owing(fs)
        BY <3>2, EmptyMachine
      <3> HIDE DEF h
      <3> QED  BY <3>1, <3>3 DEF MachineTyped
    <2>6. Scheduled
      BY <2>4 DEF Scheduled
    <2>7. Counted
      BY <2>1, <2>4 DEF Counted
    <2> QED  BY <2>2, <2>3, <2>5, <2>6, <2>7 DEF MachineInvariant
  <1>2. MachineInvariant /\ [Next]_vars => MachineInvariant'
    BY MachineKept
  <1> QED  BY <1>1, <1>2, PTL DEF Spec

\* The count of stack items is never below what the engine would count if it looked
\* (StackItem.GetItemCount, without the results of CHECKMULTISIG that are not counted):
\* the limit of the stack holds whatever the program pushes, copies, clones and stores.
THEOREM CountAlwaysCovers == Spec => []CountCovers
  <1>1. MachineInvariant => CountCovers
    <2> SUFFICES ASSUME MachineInvariant, Running, ~recounted
                 PROVE  Held(frames, heap) <= counted + multisigs
      BY DEF CountCovers
    <2>1. Held(frames, heap) <= Carried /\ Held(frames, heap) \in Int /\ Carried \in Int
      BY HeldBound DEF MachineInvariant
    <2>2. counted \in 0 .. IntMax /\ Carried <= counted + multisigs /\ multisigs \in Nat
      BY DEF MachineInvariant, Counted
    <2>3. IntMax \in Nat
      BY VMAssumption
    <2> DEFINE a == Held(frames, heap)
               b == Carried
    <2>4. a \in Int /\ b \in Int /\ a <= b /\ counted \in Int /\ multisigs \in Int /\ b <= counted + multisigs
      BY <2>1, <2>2, <2>3
    <2> HIDE DEF a, b
    <2>5. a <= counted + multisigs
      BY <2>4
    <2> QED  BY <2>5 DEF a
  <1> QED  BY <1>1, MachineIsKept, PTL

\* RET from a context that CALL_I or CALL_E* entered leaves its caller with what it kept and
\* just as many items more as the call asked for, at whatever depth and whatever the callee did
\* to its own stack (ExecutionEngine.ExecuteOp, RET and CALL_E*).
THEOREM AlwaysReturnsAsAsked == Spec => ReturnsAsAsked
  <1> DEFINE n == Len(frames)
             asked == n > 1 /\ Running /\ Len(frames') = n - 1 /\ Cur.owed.rv >= 0
             given == /\ Len(frames'[n - 1].eval) = Len(Cur.owed.kept) + Cur.owed.rv
                      /\ IsPrefix(Real(Cur.owed.kept), frames'[n - 1].eval)
  <1>1. MachineInvariant /\ [Next]_vars => [asked => given]_vmVars
    <2> SUFFICES ASSUME MachineInvariant, [Next]_vars, asked
                 PROVE  given \/ UNCHANGED vmVars
      OBVIOUS
    <2>1. Running /\ n > 1 /\ Len(frames') = n - 1 /\ n \in Nat /\ purpose # "none"
      <3>1. frames \in Seq(Frame(Len(heap.objs)))
        BY DEF MachineInvariant, MachineTyped
      <3>2. purpose # "none"
        BY DEF MachineInvariant, Scheduled
      <3> QED  BY <3>1, <3>2
    <2>2. CASE Execute
      <3>1. ExecuteNext
        BY <2>2 DEF Execute
      <3>2. Ready /\ CodeTyped
        BY <2>1 DEF Ready, MachineInvariant, Scheduled, Counted
      <3>3. Handed
        BY <2>1, <3>1, <3>2, ExecuteSteps
      <3> QED  BY <3>3 DEF Handed
    <2>3. CASE UNCHANGED vmVars
      BY <2>3
    <2>4. ASSUME Unload PROVE FALSE
      <3>1. frames' = << >>
        BY <2>4 DEF Unload
      <3>2. Len(frames') = 0
        BY <3>1
      <3>3. Len(frames') = n - 1 /\ n > 1 /\ n \in Nat
        BY <2>1
      <3> DEFINE m == Len(frames')
      <3> HIDE DEF n
      <3>4. m = 0 /\ m = n - 1 /\ n > 1 /\ n \in Nat
        BY <3>2, <3>3
      <3> HIDE DEF m
      <3> QED  BY <3>4
    <2>5. CASE Stop \/ ExecutionCompleted
      BY <2>4, <2>5 DEF Stop, ExecutionCompleted
    <2>6. CASE VerifyForPool \/ TestInvoke \/ RunInvocation
      BY <2>1, <2>6 DEF VerifyForPool, TestInvoke, RunInvocation, LoopFree
    <2>7. CASE CollectSignatures \/ LeaveSigning \/ BeginBlock \/ EndBlock \/ ListenerRaises
                 \/ PersistRaises \/ File \/ UNCHANGED vars
      <3>1. UNCHANGED vmVars
        BY <2>7 DEF CollectSignatures, LeaveSigning, BeginBlock, EndBlock, ListenerRaises,
                    PersistRaises, File, vars
      <3> QED  BY <3>1
    <2> QED  BY <2>2, <2>5, <2>6, <2>7 DEF Next
  <1>2. [][asked => given]_vmVars => ReturnsAsAsked
    BY DEF ReturnsAsAsked
  <1>3. Spec => [][asked => given]_vmVars
    BY <1>1, MachineIsKept, PTL DEF Spec
  <1> QED  BY <1>2, <1>3
=============================================================================
