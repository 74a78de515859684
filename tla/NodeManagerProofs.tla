------------------------- MODULE NodeManagerProofs -------------------------
(***************************************************************************)
(* Proofs about NodeManager, for all addresses and guests, any number of   *)
(* connections, all limits and faults: no spot stays taken for nothing, no *)
(* address is forgotten but where a node is replaced in a full pool, and   *)
(* no node comes into use after a shutdown.                                *)
(***************************************************************************)
EXTENDS NodeManager, FiniteSums, SequenceTheorems

Fills == INSTANCE Folding WITH Op <- FillSpot
Replacements == INSTANCE Folding WITH Op <- Replacement
Failures == INSTANCE Folding WITH Op <- Failed

-----------------------------------------------------------------------------
(* The invariant.                                                          *)

Anyone == Address \union Guest

\* The attempts, a bag; TLC cannot enumerate the set of all.
Attempts == UNION {[S -> Nat \ {0}] : S \in SUBSET PossibleAttempt}

Pools == [known : Seq(Anyone), bad : Seq(Anyone), queued : SUBSET Anyone,
          attempts : Attempts, errors : 0..PoolErrors]

PoolTyped(p) ==
    /\ p \in Pools
    /\ IsFiniteSet(p.queued) /\ IsFiniteSet(DOMAIN p.attempts)

NodesTyped ==
    /\ nodes \in Seq(Conn) /\ IsInjective(nodes)
    /\ conn \in [Conn -> Neonode \union {Null}]
    /\ \A c \in ToSet(nodes) : conn[c] # Null /\ conn[c].stage = "connected" /\ ~conn[c].check

RestTyped ==
    /\ maxClients \in 1..MaxClients /\ stalls \in 0..StallLimit + 1
    /\ phase \in {"up", "stopping", "down"} /\ alive \subseteq Address /\ faults \in 0..MaxFaults

\* An address that is being dialled, or with which a handshake goes on.
Shaking(a) == \E c \in Conn : conn[c] # Null /\ conn[c].addr = a /\ conn[c].stage = "handshake"
Backed(p) == \A a \in p.queued : BagIn([addr |-> a, check |-> FALSE], p.attempts) \/ Shaking(a)

PoolInvariant ==
    PoolTyped(pool) /\ NodesTyped /\ RestTyped /\ (phase = "up" => Backed(pool)) /\ NodesLeave

-----------------------------------------------------------------------------
(* Sequences.                                                              *)

LEMMA ToSetOf ==
    ASSUME NEW S, NEW s \in Seq(S)
    PROVE  /\ Len(s) \in Nat /\ DOMAIN s = 1 .. Len(s) /\ ToSet(s) \subseteq S
           /\ \A x : x \in ToSet(s) <=> \E i \in 1 .. Len(s) : s[i] = x
  <1>1. Len(s) \in Nat /\ DOMAIN s = 1 .. Len(s) /\ s \in [1 .. Len(s) -> S]
    BY LenProperties
  <1>2. \A x : x \in ToSet(s) <=> \E i \in 1 .. Len(s) : s[i] = x
    BY <1>1 DEF ToSet
  <1> QED  BY <1>1, <1>2

LEMMA AppendIs ==
    ASSUME NEW S, NEW s \in Seq(S), NEW e \in S
    PROVE  /\ Append(s, e) \in Seq(S) /\ ToSet(Append(s, e)) = ToSet(s) \union {e}
           /\ IsInjective(s) /\ e \notin ToSet(s) => IsInjective(Append(s, e))
  <1> DEFINE t == Append(s, e)
  <1>1. /\ t \in Seq(S) /\ Len(t) = Len(s) + 1 /\ t[Len(s) + 1] = e
        /\ \A i \in 1 .. Len(s) : t[i] = s[i]
    BY AppendProperties
  <1> HIDE DEF t
  <1>2. /\ Len(s) \in Nat /\ DOMAIN s = 1 .. Len(s)
        /\ \A x : x \in ToSet(s) <=> \E i \in 1 .. Len(s) : s[i] = x
    BY ToSetOf
  <1>3. /\ DOMAIN t = 1 .. Len(s) + 1
        /\ \A x : x \in ToSet(t) <=> \E i \in 1 .. Len(s) + 1 : t[i] = x
    BY <1>1, ToSetOf
  <1>4. \A i \in 1 .. Len(s) + 1 : i \in 1 .. Len(s) \/ i = Len(s) + 1
    BY <1>2
  <1>5. \A i \in 1 .. Len(s) : i \in 1 .. Len(s) + 1
    BY <1>2
  <1>6. Len(s) + 1 \in 1 .. Len(s) + 1
    BY <1>2
  <1>7. ToSet(t) = ToSet(s) \union {e}
    <2>1. \A x : x \in ToSet(t) <=> x \in ToSet(s) \/ x = e
      BY <1>1, <1>2, <1>3, <1>4, <1>5, <1>6
    <2> QED  BY <2>1
  <1>8. ASSUME IsInjective(s), e \notin ToSet(s)
        PROVE  IsInjective(t)
    <2>1. \A i \in 1 .. Len(s) : s[i] # e
      BY <1>2, <1>8
    <2>2. \A i, j \in 1 .. Len(s) : s[i] = s[j] => i = j
      BY <1>2, <1>8 DEF IsInjective
    <2> SUFFICES ASSUME NEW i \in 1 .. Len(s) + 1, NEW j \in 1 .. Len(s) + 1, t[i] = t[j]
                 PROVE  i = j
      BY <1>3 DEF IsInjective
    <2> QED  BY <1>1, <1>4, <2>1, <2>2
  <1> QED  BY <1>1, <1>7, <1>8 DEF t

\* Without its first member.
LEMMA TailIs ==
    ASSUME NEW S, NEW s \in Seq(S), s # << >>
    PROVE  /\ Head(s) \in S /\ Tail(s) \in Seq(S)
           /\ ToSet(s) = ToSet(Tail(s)) \union {Head(s)}
  <1> DEFINE t == Tail(s)
  <1>1. /\ t \in Seq(S) /\ Len(t) = Len(s) - 1 /\ \A i \in 1 .. Len(s) - 1 : t[i] = s[i + 1]
    <2>1. /\ Tail(s) \in Seq(S) /\ Len(Tail(s)) = Len(s) - 1
          /\ \A i \in 1 .. Len(Tail(s)) : Tail(s)[i] = s[i + 1]
      BY HeadTailProperties
    <2> QED  BY <2>1
  <1>2. Head(s) \in S /\ Head(s) = s[1]
    BY HeadTailProperties
  <1> HIDE DEF t
  <1>3. /\ Len(s) \in Nat /\ DOMAIN s = 1 .. Len(s)
        /\ \A x : x \in ToSet(s) <=> \E i \in 1 .. Len(s) : s[i] = x
    BY ToSetOf
  <1>4. \A x : x \in ToSet(t) <=> \E i \in 1 .. Len(s) - 1 : t[i] = x
    BY <1>1, ToSetOf
  <1>5. Len(s) # 0
    BY EmptySeq
  <1>6. 1 \in 1 .. Len(s)
    BY <1>3, <1>5
  <1>7. \A i \in 1 .. Len(s) : i = 1 \/ (i - 1 \in 1 .. Len(s) - 1 /\ (i - 1) + 1 = i)
    BY <1>3
  <1>8. \A i \in 1 .. Len(s) - 1 : i + 1 \in 1 .. Len(s)
    BY <1>3
  <1>9. \A x : x \in ToSet(s) <=> x \in ToSet(t) \/ x = s[1]
    <2>1. ASSUME NEW x, x \in ToSet(s) PROVE x \in ToSet(t) \/ x = s[1]
      <3>1. PICK i \in 1 .. Len(s) : s[i] = x
        BY <1>3, <2>1
      <3>2. CASE i = 1
        BY <3>1, <3>2
      <3>3. CASE i - 1 \in 1 .. Len(s) - 1 /\ (i - 1) + 1 = i
        <4>1. t[i - 1] = x
          BY <1>1, <3>1, <3>3
        <4> QED  BY <1>4, <3>3, <4>1
      <3> QED  BY <1>7, <3>2, <3>3
    <2>2. ASSUME NEW x, x \in ToSet(t) PROVE x \in ToSet(s)
      <3>1. PICK i \in 1 .. Len(s) - 1 : t[i] = x
        BY <1>4, <2>2
      <3> QED  BY <1>1, <1>3, <1>8, <3>1
    <2>3. s[1] \in ToSet(s)
      BY <1>3, <1>6
    <2> QED  BY <2>1, <2>2, <2>3
  <1> QED  BY <1>1, <1>2, <1>9 DEF t

LEMMA RemoveAtIs ==
    ASSUME NEW S, NEW s \in Seq(S), NEW k \in 1 .. Len(s)
    PROVE  /\ RemoveAt(s, k) \in Seq(S) /\ Len(RemoveAt(s, k)) = Len(s) - 1
           /\ \A i \in 1 .. Len(s) - 1 : RemoveAt(s, k)[i] = IF i < k THEN s[i] ELSE s[i + 1]
  <1> DEFINE a == SubSeq(s, 1, k - 1)
             b == SubSeq(s, k + 1, Len(s))
             t == RemoveAt(s, k)
  <1>1. Len(s) \in Nat /\ DOMAIN s = 1 .. Len(s) /\ k \in Int /\ 1 <= k /\ k <= Len(s)
    BY ToSetOf
  <1>2. \A i \in 1 .. Len(s) : s[i] \in S
    BY LenProperties
  <1>3. a \in Seq(S) /\ Len(a) = k - 1 /\ \A i \in 1 .. k - 1 : a[i] = s[i]
    <2>1. 1 \in Int /\ k - 1 \in Int /\ (\A i \in 1 .. k - 1 : s[i] \in S)
      BY <1>1, <1>2
    <2>2. /\ a \in Seq(S) /\ Len(a) = IF 1 <= k - 1 THEN (k - 1) - 1 + 1 ELSE 0
          /\ \A i \in 1 .. (k - 1) - 1 + 1 : a[i] = s[1 + i - 1]
      BY <2>1, SubSeqProperties
    <2> HIDE DEF a
    <2>3. \A i \in 1 .. k - 1 : i \in 1 .. (k - 1) - 1 + 1 /\ 1 + i - 1 = i
      BY <1>1
    <2> QED  BY <1>1, <2>2, <2>3
  <1>4. b \in Seq(S) /\ Len(b) = Len(s) - k /\ \A i \in 1 .. Len(s) - k : b[i] = s[k + i]
    <2>1. k + 1 \in Int /\ Len(s) \in Int /\ (\A i \in k + 1 .. Len(s) : s[i] \in S)
      BY <1>1, <1>2
    <2>2. /\ b \in Seq(S) /\ Len(b) = IF k + 1 <= Len(s) THEN Len(s) - (k + 1) + 1 ELSE 0
          /\ \A i \in 1 .. Len(s) - (k + 1) + 1 : b[i] = s[(k + 1) + i - 1]
      BY <2>1, SubSeqProperties
    <2> HIDE DEF b
    <2>3. \A i \in 1 .. Len(s) - k : i \in 1 .. Len(s) - (k + 1) + 1 /\ (k + 1) + i - 1 = k + i
      BY <1>1
    <2>4. \A i \in 1 .. Len(s) - k : b[i] = s[k + i]
      BY <2>2, <2>3
    <2>5. (IF k + 1 <= Len(s) THEN Len(s) - (k + 1) + 1 ELSE 0) = Len(s) - k
      <3>1. \A m, n \in Int : m <= n => (IF m + 1 <= n THEN n - (m + 1) + 1 ELSE 0) = n - m
        OBVIOUS
      <3>2. k \in Int /\ Len(s) \in Int /\ k <= Len(s)
        BY <1>1
      <3> QED  BY <3>1, <3>2
    <2> QED  BY <2>2, <2>4, <2>5
  <1>5. t = a \o b
    BY DEF RemoveAt
  <1> HIDE DEF a, b, t
  <1>6. /\ t \in Seq(S) /\ Len(t) = Len(a) + Len(b)
        /\ \A i \in 1 .. Len(a) + Len(b) : t[i] = IF i <= Len(a) THEN a[i] ELSE b[i - Len(a)]
    BY <1>3, <1>4, <1>5, ConcatProperties
  <1>7. Len(a) + Len(b) = Len(s) - 1
    BY <1>1, <1>3, <1>4
  <1>8. ASSUME NEW i \in 1 .. Len(s) - 1 PROVE t[i] = IF i < k THEN s[i] ELSE s[i + 1]
    <2>1. t[i] = IF i <= k - 1 THEN a[i] ELSE b[i - (k - 1)]
      BY <1>3, <1>6, <1>7
    <2>2. CASE i < k
      <3>1. i \in 1 .. k - 1 /\ i <= k - 1
        BY <1>1, <2>2
      <3> QED  BY <1>3, <2>1, <2>2, <3>1
    <2>3. CASE ~ (i < k)
      <3>1. i - (k - 1) \in 1 .. Len(s) - k /\ ~ (i <= k - 1) /\ k + (i - (k - 1)) = i + 1
        BY <1>1, <2>3
      <3> QED  BY <1>4, <2>1, <2>3, <3>1
    <2> QED  BY <2>2, <2>3
  <1> QED  BY <1>6, <1>7, <1>8 DEF t

LEMMA RemoveFirstIs ==
    ASSUME NEW S, NEW s \in Seq(S), NEW e
    PROVE  /\ RemoveFirst(s, e) \in Seq(S)
           /\ ToSet(RemoveFirst(s, e)) \subseteq ToSet(s)
           /\ ToSet(s) \ {e} \subseteq ToSet(RemoveFirst(s, e))
           /\ IsInjective(s) => /\ IsInjective(RemoveFirst(s, e))
                                /\ e \notin ToSet(RemoveFirst(s, e))
  <1> DEFINE t == RemoveFirst(s, e)
             at == {i \in 1 .. Len(s) : s[i] = e}
             k == Min(at)
  <1>1. /\ Len(s) \in Nat /\ DOMAIN s = 1 .. Len(s)
        /\ \A x : x \in ToSet(s) <=> \E i \in 1 .. Len(s) : s[i] = x
    BY ToSetOf
  <1>2. CASE at = {}
    <2>1. t = s
      BY <1>2 DEF RemoveFirst
    <2>2. e \notin ToSet(s)
      BY <1>1, <1>2
    <2> QED  BY <2>1, <2>2
  <1>3. CASE at # {}
    <2>1. at \in SUBSET Nat
      BY <1>1
    <2>2. k \in at
      <3>1. \E n \in at : \A m \in at : n <= m
        BY <1>3, <2>1, LeastNat
      <3> HIDE DEF at
      <3> QED  BY <3>1 DEF Min
    <2>3. t = RemoveAt(s, k)
      <3>1. \E i \in 1 .. Len(s) : s[i] = e
        BY <1>3
      <3> QED  BY <1>3, <3>1 DEF RemoveFirst, SelectInSeq
    <2>4. k \in 1 .. Len(s) /\ s[k] = e
      BY <2>2
    <2> HIDE DEF k, at, t
    <2>5. /\ t \in Seq(S) /\ Len(t) = Len(s) - 1
          /\ \A i \in 1 .. Len(s) - 1 : t[i] = IF i < k THEN s[i] ELSE s[i + 1]
      BY <2>3, <2>4, RemoveAtIs
    <2>6. /\ DOMAIN t = 1 .. Len(s) - 1
          /\ \A x : x \in ToSet(t) <=> \E i \in 1 .. Len(s) - 1 : t[i] = x
      BY <2>5, ToSetOf
    <2> DEFINE old(i) == IF i < k THEN i ELSE i + 1
    <2>7. \A i \in 1 .. Len(s) - 1 : old(i) \in 1 .. Len(s) /\ old(i) # k /\ t[i] = s[old(i)]
      BY <1>1, <2>4, <2>5
    <2>8. \A i \in 1 .. Len(s) : i # k => \E j \in 1 .. Len(s) - 1 : old(j) = i
      <3> SUFFICES ASSUME NEW i \in 1 .. Len(s), i # k PROVE \E j \in 1 .. Len(s) - 1 : old(j) = i
        OBVIOUS
      <3>1. CASE i < k
        <4>1. i \in 1 .. Len(s) - 1
          BY <1>1, <2>4, <3>1
        <4> QED  BY <3>1, <4>1
      <3>2. CASE i > k
        <4>1. i - 1 \in 1 .. Len(s) - 1 /\ ~ (i - 1 < k) /\ (i - 1) + 1 = i
          BY <1>1, <2>4, <3>2
        <4> QED  BY <4>1
      <3> QED  BY <1>1, <2>4, <3>1, <3>2
    <2>9. \A i, j \in 1 .. Len(s) - 1 : old(i) = old(j) => i = j
      BY <1>1, <2>4
    <2> HIDE DEF old
    <2>10. ToSet(t) \subseteq ToSet(s)
      <3> SUFFICES ASSUME NEW x \in ToSet(t) PROVE x \in ToSet(s)
        OBVIOUS
      <3>1. PICK i \in 1 .. Len(s) - 1 : t[i] = x
        BY <2>6
      <3> QED  BY <1>1, <2>7, <3>1
    <2>11. ToSet(s) \ {e} \subseteq ToSet(t)
      <3> SUFFICES ASSUME NEW x \in ToSet(s), x # e PROVE x \in ToSet(t)
        OBVIOUS
      <3>1. PICK i \in 1 .. Len(s) : s[i] = x
        BY <1>1
      <3>2. PICK j \in 1 .. Len(s) - 1 : old(j) = i
        BY <2>4, <2>8, <3>1
      <3> QED  BY <2>6, <2>7, <3>1, <3>2
    <2>12. ASSUME IsInjective(s)
           PROVE  IsInjective(t) /\ e \notin ToSet(t)
      <3>1. \A i, j \in 1 .. Len(s) : s[i] = s[j] => i = j
        BY <1>1, <2>12 DEF IsInjective
      <3>2. IsInjective(t)
        <4> SUFFICES ASSUME NEW i \in 1 .. Len(s) - 1, NEW j \in 1 .. Len(s) - 1, t[i] = t[j]
                     PROVE  i = j
          BY <2>6 DEF IsInjective
        <4>1. old(i) = old(j)
          BY <2>7, <3>1
        <4> QED  BY <2>9, <4>1
      <3>3. e \notin ToSet(t)
        <4> SUFFICES ASSUME NEW i \in 1 .. Len(s) - 1, t[i] = e PROVE FALSE
          BY <2>6
        <4>1. old(i) = k
          BY <2>4, <2>7, <3>1
        <4> QED  BY <2>7, <4>1
      <3> QED  BY <3>2, <3>3
    <2> QED  BY <2>5, <2>10, <2>11, <2>12 DEF t
  <1> HIDE DEF t, at
  <1> QED  BY <1>2, <1>3 DEF t

\* The first k members.
LEMMA FirstOnes ==
    ASSUME NEW S, NEW s \in Seq(S), NEW k \in 0 .. Len(s)
    PROVE  /\ SubSeq(s, 1, k) \in Seq(S)
           /\ \A x : x \in ToSet(SubSeq(s, 1, k)) <=> \E i \in 1 .. k : s[i] = x
           /\ IsInjective(s) => IsInjective(SubSeq(s, 1, k))
  <1> DEFINE t == SubSeq(s, 1, k)
  <1>1. /\ Len(s) \in Nat /\ DOMAIN s = 1 .. Len(s) /\ (\A i \in 1 .. Len(s) : s[i] \in S)
        /\ k \in Int /\ 0 <= k /\ k <= Len(s)
    BY ToSetOf, LenProperties
  <1>2. t \in Seq(S) /\ Len(t) = k /\ \A i \in 1 .. k : t[i] = s[i]
    <2>1. 1 \in Int /\ (\A i \in 1 .. k : s[i] \in S)
      BY <1>1
    <2>2. /\ t \in Seq(S) /\ Len(t) = IF 1 <= k THEN k - 1 + 1 ELSE 0
          /\ \A i \in 1 .. k - 1 + 1 : t[i] = s[1 + i - 1]
      BY <1>1, <2>1, SubSeqProperties
    <2> HIDE DEF t
    <2>3. (IF 1 <= k THEN k - 1 + 1 ELSE 0) = k /\ k - 1 + 1 = k /\ \A i \in 1 .. k : 1 + i - 1 = i
      BY <1>1
    <2> QED  BY <2>2, <2>3
  <1> HIDE DEF t
  <1>3. DOMAIN t = 1 .. k /\ \A x : x \in ToSet(t) <=> \E i \in 1 .. k : t[i] = x
    BY <1>2, ToSetOf
  <1>4. \A i \in 1 .. k : i \in 1 .. Len(s)
    BY <1>1
  <1>5. ASSUME IsInjective(s) PROVE IsInjective(t)
    <2>1. \A i, j \in 1 .. Len(s) : s[i] = s[j] => i = j
      BY <1>1, <1>5 DEF IsInjective
    <2> QED  BY <1>2, <1>3, <1>4, <2>1 DEF IsInjective
  <1> QED  BY <1>2, <1>3, <1>5 DEF t

\* The members of a finite set in an order.
LEMMA SetToSeqIs ==
    ASSUME NEW S, IsFiniteSet(S)
    PROVE  SetToSeq(S) \in Seq(S)
  <1> DEFINE n == Cardinality(S)
  <1>1. n \in Nat /\ ExistsBijection(1 .. n, S)
    BY FS_CardinalityType
  <1>2. \E g \in [1 .. n -> S] : IsInjective(g)
    BY <1>1 DEF ExistsBijection, Bijection, Injection
  <1>3. SetToSeq(S) \in [1 .. n -> S]
    BY <1>2 DEF SetToSeq
  <1> QED  BY <1>1, <1>3, SeqDef

LEMMA MinOfTwo == \A i, j \in Nat : Min({i, j}) \in 0 .. i /\ Min({i, j}) \in 0 .. j
  <1> SUFFICES ASSUME NEW i \in Nat, NEW j \in Nat
               PROVE  Min({i, j}) \in 0 .. i /\ Min({i, j}) \in 0 .. j
    OBVIOUS
  <1>1. \E n \in {i, j} : \A m \in {i, j} : n <= m
    OBVIOUS
  <1>2. Min({i, j}) \in {i, j} /\ \A m \in {i, j} : Min({i, j}) <= m
    BY <1>1 DEF Min
  <1> QED  BY <1>2

-----------------------------------------------------------------------------
(* Attempts.                                                               *)

LEMMA AttemptAdded ==
    ASSUME NEW B \in Attempts, IsFiniteSet(DOMAIN B), NEW x \in PossibleAttempt
    PROVE  /\ B (+) SetToBag({x}) \in Attempts /\ IsFiniteSet(DOMAIN (B (+) SetToBag({x})))
           /\ BagIn(x, B (+) SetToBag({x}))
           /\ \A y : BagIn(y, B) => BagIn(y, B (+) SetToBag({x}))
  <1> DEFINE C == B (+) SetToBag({x})
  <1>1. PICK S \in SUBSET PossibleAttempt : B \in [S -> Nat \ {0}]
    BY DEF Attempts
  <1>2. /\ DOMAIN C = DOMAIN B \union {x}
        /\ \A e \in DOMAIN C : C[e] = (IF e \in DOMAIN B THEN B[e] ELSE 0) + (IF e = x THEN 1 ELSE 0)
    BY DEF (+), SetToBag
  <1>3. C = [e \in DOMAIN B \union {x} |->
                (IF e \in DOMAIN B THEN B[e] ELSE 0) + (IF e = x THEN 1 ELSE 0)]
    BY DEF (+), SetToBag
  <1> HIDE DEF C
  <1>4. \A e \in DOMAIN C : C[e] \in Nat \ {0}
    BY <1>1, <1>2
  <1>5. C \in [DOMAIN C -> Nat \ {0}] /\ DOMAIN C \in SUBSET PossibleAttempt
    BY <1>1, <1>2, <1>3, <1>4
  <1>6. C \in Attempts
    BY <1>5 DEF Attempts
  <1>7. IsFiniteSet(DOMAIN C)
    BY <1>2, FS_AddElement
  <1> QED  BY <1>2, <1>6, <1>7 DEF C, BagIn, BagToSet

LEMMA AttemptTaken ==
    ASSUME NEW B \in Attempts, IsFiniteSet(DOMAIN B), NEW x
    PROVE  /\ B (-) SetToBag({x}) \in Attempts /\ IsFiniteSet(DOMAIN (B (-) SetToBag({x})))
           /\ \A y : BagIn(y, B) /\ y # x => BagIn(y, B (-) SetToBag({x}))
  <1> DEFINE C == B (-) SetToBag({x})
             rest == [e \in DOMAIN B |-> IF e = x THEN B[e] - 1 ELSE B[e]]
  <1>1. PICK S \in SUBSET PossibleAttempt : B \in [S -> Nat \ {0}]
    BY DEF Attempts
  <1>2. C = [e \in {d \in DOMAIN rest : rest[d] > 0} |-> rest[e]]
    BY DEF (-), SetToBag
  <1>3. \A e \in DOMAIN B : rest[e] \in Int /\ (e # x => rest[e] = B[e])
    BY <1>1
  <1>4. DOMAIN rest = DOMAIN B
    OBVIOUS
  <1> HIDE DEF C, rest
  <1>5. DOMAIN C = {d \in DOMAIN B : rest[d] > 0} /\ \A e \in DOMAIN C : C[e] = rest[e]
    BY <1>2, <1>4
  <1>6. C \in [DOMAIN C -> Nat \ {0}] /\ DOMAIN C \in SUBSET PossibleAttempt
    <2>1. \A e \in DOMAIN C : C[e] \in Nat \ {0}
      BY <1>3, <1>5
    <2>2. C = [e \in DOMAIN C |-> C[e]]
      BY <1>2
    <2> QED  BY <1>1, <1>5, <2>1, <2>2
  <1>7. C \in Attempts
    BY <1>6 DEF Attempts
  <1>8. IsFiniteSet(DOMAIN C)
    BY <1>5, FS_Subset
  <1>9. \A y \in DOMAIN B : y # x => y \in DOMAIN C
    BY <1>1, <1>3, <1>5
  <1> QED  BY <1>7, <1>8, <1>9 DEF C, BagIn, BagToSet

LEMMA NoAttempt == EmptyBag \in Attempts /\ IsFiniteSet(DOMAIN EmptyBag)
  <1>1. EmptyBag \in [{} -> Nat \ {0}] /\ DOMAIN EmptyBag = {}
    BY DEF EmptyBag, SetToBag
  <1> QED  BY <1>1, FS_EmptySet DEF Attempts

-----------------------------------------------------------------------------
(* What the manager does to its lists.                                     *)

Listed(p) == ToSet(p.known) \union ToSet(p.bad)

\* The addresses that p lists are listed by q, queued there or connected.
Keeps(p, q) == Listed(p) \subseteq Listed(q) \union q.queued \union ConnectedAddresses

\* What all of it has in common: the spots taken stay taken, and each has its attempt.
Grows(p, q) ==
    /\ PoolTyped(q) /\ p.queued \subseteq q.queued
    /\ Backed(p) => Backed(q)
    /\ InUse(p) <= InUse(q)

LEMMA InUseType ==
    ASSUME NodesTyped, NEW p, PoolTyped(p)
    PROVE  Len(nodes) \in Nat /\ Cardinality(p.queued) \in Nat /\ InUse(p) \in Nat
  <1>1. Len(nodes) \in Nat
    BY ToSetOf DEF NodesTyped
  <1>2. Cardinality(p.queued) \in Nat
    BY FS_CardinalityType DEF PoolTyped
  <1> QED  BY <1>1, <1>2 DEF InUse

\* An address is queued, unless it is already or every spot is taken.
LEMMA Queues ==
    ASSUME NodesTyped, RestTyped, NEW p, PoolTyped(p), NEW a \in Anyone
    PROVE  LET q == QueueForConnection(p, a)
           IN  /\ Grows(p, q) /\ q.known = p.known /\ q.bad = p.bad
               /\ q.errors = p.errors
               /\ InUse(q) <= InUse(p) + 1
               /\ a \in q.queued \union ConnectedAddresses \/ InUse(q) >= maxClients
               /\ InUse(p) < maxClients => a \in q.queued \union ConnectedAddresses
  <1> DEFINE q == QueueForConnection(p, a)
             new == [p EXCEPT !.queued = @ \union {a}, !.attempts = @ (+) One(a, FALSE)]
             x == [addr |-> a, check |-> FALSE]
  <1>1. Len(nodes) \in Nat /\ Cardinality(p.queued) \in Nat /\ InUse(p) \in Nat
    BY InUseType
  <1>2. maxClients \in Int
    BY NodeManagerAssumption DEF RestTyped
  <1>3. CASE InUse(p) < maxClients /\ a \notin p.queued \union ConnectedAddresses
    <2>1. q = new
      BY <1>3 DEF QueueForConnection
    <2>2. x \in PossibleAttempt
      BY DEF PossibleAttempt, Anyone
    <2>3. p.attempts \in Attempts /\ IsFiniteSet(DOMAIN p.attempts) /\ IsFiniteSet(p.queued)
      BY DEF PoolTyped, Pools
    <2> DEFINE b == p.attempts (+) One(a, FALSE)
    <2>4. /\ b \in Attempts /\ IsFiniteSet(DOMAIN b) /\ BagIn(x, b)
          /\ \A y : BagIn(y, p.attempts) => BagIn(y, b)
      BY <2>2, <2>3, AttemptAdded DEF One
    <2> HIDE DEF b
    <2>5. /\ new.queued = p.queued \union {a} /\ new.attempts = b
          /\ new.known = p.known /\ new.bad = p.bad /\ new.errors = p.errors
          /\ new \in Pools
      BY <2>4 DEF PoolTyped, Pools, b
    <2>6. /\ IsFiniteSet(new.queued)
          /\ Cardinality(new.queued) = Cardinality(p.queued) + 1
      BY <1>3, <2>3, <2>5, FS_AddElement
    <2> HIDE DEF new, q
    <2>7. PoolTyped(new)
      BY <2>4, <2>5, <2>6 DEF PoolTyped
    <2>8. ASSUME Backed(p) PROVE Backed(new)
      <3> SUFFICES ASSUME NEW o \in new.queued
                   PROVE  BagIn([addr |-> o, check |-> FALSE], b) \/ Shaking(o)
        BY <2>5 DEF Backed
      <3>1. CASE o = a
        BY <2>4, <3>1 DEF x
      <3>2. CASE o \in p.queued
        BY <2>4, <2>8, <3>2 DEF Backed
      <3> QED  BY <2>5, <3>1, <3>2
    <2>9. InUse(new) = InUse(p) + 1
      BY <1>1, <2>6 DEF InUse
    <2>10. Grows(p, new)
      BY <1>1, <2>5, <2>7, <2>8, <2>9 DEF Grows
    <2> QED  BY <1>1, <2>1, <2>5, <2>9, <2>10 DEF q
  <1>4. CASE ~ (InUse(p) < maxClients /\ a \notin p.queued \union ConnectedAddresses)
    <2>1. q = p
      BY <1>4 DEF QueueForConnection
    <2> HIDE DEF q
    <2>2. Grows(p, p)
      BY <1>1 DEF Grows
    <2>3. a \in p.queued \union ConnectedAddresses \/ InUse(p) >= maxClients
      BY <1>1, <1>2, <1>4
    <2> QED  BY <1>1, <1>2, <1>4, <2>1, <2>2, <2>3 DEF q
  <1> QED  BY <1>3, <1>4

\* The first known address is queued, and forgotten only when every spot is taken.
LEMMA Pops ==
    ASSUME NodesTyped, RestTyped, NEW p, PoolTyped(p), p.known # << >>
    PROVE  LET q == PopKnown(p)
           IN  /\ Grows(p, q) /\ InUse(q) <= InUse(p) + 1
               /\ Keeps(p, q) \/ InUse(q) >= maxClients
               /\ InUse(p) < maxClients => Keeps(p, q)
  <1> DEFINE rest == [p EXCEPT !.known = Tail(@)]
             a == Head(p.known)
             q == QueueForConnection(rest, a)
  <1>1. p.known \in Seq(Anyone)
    BY DEF PoolTyped, Pools
  <1>2. /\ a \in Anyone /\ Tail(p.known) \in Seq(Anyone)
        /\ ToSet(p.known) = ToSet(Tail(p.known)) \union {a}
    BY <1>1, TailIs
  <1> HIDE DEF a
  <1>3. /\ rest.known = Tail(p.known) /\ rest.bad = p.bad /\ rest.queued = p.queued
        /\ rest.attempts = p.attempts
        /\ PoolTyped(rest)
    BY <1>2 DEF PoolTyped, Pools
  <1>4. PopKnown(p) = q
    BY DEF PopKnown, a
  <1> HIDE DEF rest
  <1>5. /\ Grows(rest, q) /\ q.known = rest.known /\ q.bad = rest.bad
        /\ InUse(q) <= InUse(rest) + 1
        /\ a \in q.queued \union ConnectedAddresses \/ InUse(q) >= maxClients
        /\ InUse(rest) < maxClients => a \in q.queued \union ConnectedAddresses
    BY <1>2, <1>3, Queues
  <1> HIDE DEF q
  <1>6. InUse(rest) = InUse(p)
    BY <1>3 DEF InUse
  <1>7. Backed(p) => Backed(rest)
    BY <1>3 DEF Backed
  <1>8. Grows(p, q)
    BY <1>3, <1>5, <1>6, <1>7 DEF Grows
  <1>9. a \in q.queued \union ConnectedAddresses => Keeps(p, q)
    BY <1>2, <1>3, <1>5 DEF Keeps, Listed
  <1> QED  BY <1>4, <1>5, <1>6, <1>8, <1>9

\* An address is bad, once.
LEMMA Marks ==
    ASSUME NodesTyped, NEW p, PoolTyped(p), NEW a \in Anyone
    PROVE  LET q == MarkBad(p, a)
           IN  /\ Grows(p, q) /\ InUse(q) = InUse(p)
               /\ q.known = p.known /\ q.queued = p.queued /\ q.attempts = p.attempts
               /\ ToSet(q.bad) = ToSet(p.bad) \union {a}
  <1> DEFINE q == MarkBad(p, a)
             bad == IF a \in ToSet(p.bad) THEN p.bad ELSE Append(p.bad, a)
  <1>1. p.bad \in Seq(Anyone)
    BY DEF PoolTyped, Pools
  <1>2. bad \in Seq(Anyone) /\ ToSet(bad) = ToSet(p.bad) \union {a}
    <2>1. Append(p.bad, a) \in Seq(Anyone) /\ ToSet(Append(p.bad, a)) = ToSet(p.bad) \union {a}
      BY <1>1, AppendIs
    <2>2. CASE a \in ToSet(p.bad)
      BY <1>1, <2>2
    <2>3. CASE a \notin ToSet(p.bad)
      BY <2>1, <2>3
    <2> QED  BY <2>2, <2>3
  <1>3. q = [p EXCEPT !.bad = bad]
    BY DEF MarkBad
  <1> HIDE DEF bad, q
  <1>4. /\ q.known = p.known /\ q.queued = p.queued /\ q.attempts = p.attempts /\ q.bad = bad
        /\ PoolTyped(q)
    BY <1>2, <1>3 DEF PoolTyped, Pools
  <1>5. InUse(q) = InUse(p) /\ InUse(p) \in Nat /\ (Backed(p) => Backed(q))
    BY <1>4, InUseType DEF InUse, Backed
  <1> QED  BY <1>2, <1>4, <1>5 DEF Grows, q

LEMMA GrowsOn ==
    ASSUME NodesTyped, NEW p, PoolTyped(p), NEW q, NEW r, Grows(p, q), Grows(q, r)
    PROVE  Grows(p, r)
  <1>1. PoolTyped(q) /\ PoolTyped(r)
    BY DEF Grows
  <1>2. InUse(p) \in Nat /\ InUse(q) \in Nat /\ InUse(r) \in Nat
    BY <1>1, InUseType
  <1> QED  BY <1>2 DEF Grows

LEMMA KeepsOn ==
    ASSUME NEW p, NEW q, NEW r, Keeps(p, q), Keeps(q, r), q.queued \subseteq r.queued
    PROVE  Keeps(p, r)
  BY DEF Keeps

\* One spot of check_open_spots_and_queue_nodes.
LEMMA FillsSpot ==
    ASSUME NodesTyped, RestTyped, NEW s \in [pool : Pools, done : BOOLEAN], PoolTyped(s.pool), NEW i
    PROVE  LET t == FillSpot(s, i)
           IN  /\ t \in [pool : Pools, done : BOOLEAN] /\ Grows(s.pool, t.pool)
               /\ InUse(t.pool) <= InUse(s.pool) + 1
               /\ InUse(s.pool) < maxClients => Keeps(s.pool, t.pool)
  <1> DEFINE t == FillSpot(s, i)
             p == s.pool
             Goal == /\ t \in [pool : Pools, done : BOOLEAN] /\ Grows(p, t.pool)
                     /\ InUse(t.pool) <= InUse(p) + 1
                     /\ InUse(p) < maxClients => Keeps(p, t.pool)
  <1>1. PoolTyped(p) /\ p \in Pools /\ InUse(p) \in Nat
    BY InUseType DEF PoolTyped
  <1>2. Grows(p, p) /\ Keeps(p, p)
    BY <1>1 DEF Grows, Keeps
  <1>3. CASE s.done \/ (p.known = << >> /\ Len(nodes) >= MinClients)
    <2>1. t = s
      BY <1>3 DEF FillSpot
    <2> QED  BY <1>1, <1>2, <2>1
  <1>4. CASE ~s.done /\ p.known # << >>
    <2>1. t = [s EXCEPT !.pool = PopKnown(@)]
      BY <1>4 DEF FillSpot
    <2>2. t.pool = PopKnown(p) /\ t.done = s.done /\ t = [pool |-> PopKnown(p), done |-> s.done]
      BY <2>1
    <2>3. /\ Grows(p, PopKnown(p)) /\ InUse(PopKnown(p)) <= InUse(p) + 1
          /\ InUse(p) < maxClients => Keeps(p, PopKnown(p))
      BY <1>1, <1>4, Pops
    <2>4. PopKnown(p) \in Pools
      BY <2>3 DEF Grows, PoolTyped
    <2> QED  BY <2>2, <2>3, <2>4
  <1>5. CASE ~s.done /\ p.known = << >> /\ ~ (Len(nodes) >= MinClients)
    <2>1. t = IF p.errors # PoolErrors
              THEN [pool |-> [p EXCEPT !.errors = @ + 1], done |-> TRUE]
              ELSE [s EXCEPT !.pool = Recycle(@)]
      BY <1>5 DEF FillSpot
    <2>2. CASE p.errors # PoolErrors
      <3> DEFINE q == [p EXCEPT !.errors = @ + 1]
      <3>1. t = [pool |-> q, done |-> TRUE]
        BY <2>1, <2>2
      <3>2. p.errors + 1 \in 0..PoolErrors
        BY <1>1, <2>2, NodeManagerAssumption DEF Pools
      <3>3. /\ q \in Pools /\ q.known = p.known /\ q.bad = p.bad /\ q.queued = p.queued
            /\ q.attempts = p.attempts
        BY <1>1, <3>2 DEF Pools
      <3> HIDE DEF q
      <3>4. PoolTyped(q) /\ InUse(q) = InUse(p) /\ (Backed(p) => Backed(q)) /\ Keeps(p, q)
        BY <1>1, <3>3 DEF PoolTyped, InUse, Backed, Keeps, Listed
      <3> QED  BY <1>1, <3>1, <3>3, <3>4 DEF Grows
    <2>3. CASE p.errors = PoolErrors
      <3> DEFINE q == Recycle(p)
      <3>1. t.pool = q /\ t = [pool |-> q, done |-> s.done]
        BY <2>1, <2>3
      <3>2. << >> \in Seq(Anyone) /\ 0 \in 0..PoolErrors
        BY EmptySeq, NodeManagerAssumption
      <3>3. /\ q \in Pools /\ q.known = p.bad /\ q.bad = << >> /\ q.queued = p.queued
            /\ q.attempts = p.attempts
        BY <1>1, <3>2 DEF Pools, Recycle
      <3> HIDE DEF q
      <3>4. ToSet(p.known) = {}
        BY <1>5 DEF ToSet
      <3>5. PoolTyped(q) /\ InUse(q) = InUse(p) /\ (Backed(p) => Backed(q)) /\ Keeps(p, q)
        BY <1>1, <3>3, <3>4 DEF PoolTyped, InUse, Backed, Keeps, Listed
      <3> QED  BY <1>1, <3>1, <3>3, <3>5 DEF Grows
    <2> QED  BY <2>2, <2>3
  <1> QED  BY <1>3, <1>4, <1>5

\* All spots that are open: no address is forgotten.
LEMMA FillsSpots ==
    ASSUME NodesTyped, RestTyped, PoolTyped(pool), OpenSpots > 0, NEW q,
           q = FoldLeft(FillSpot, [pool |-> pool, done |-> FALSE], [i \in 1..OpenSpots |-> i]).pool
    PROVE  Grows(pool, q) /\ Keeps(pool, q)
  <1> DEFINE n == OpenSpots
             base == [pool |-> pool, done |-> FALSE]
             seq == [i \in 1..n |-> i]
  <1>1. InUse(pool) \in Nat /\ maxClients \in Int /\ n \in Nat /\ InUse(pool) + n = maxClients
    <2>1. InUse(pool) \in Nat
      BY InUseType
    <2>2. maxClients \in Int
      BY NodeManagerAssumption DEF RestTyped
    <2> QED  BY <2>1, <2>2 DEF OpenSpots
  <1>2. DOMAIN seq = 1 .. n
    OBVIOUS
  <1>3. q = FoldLeft(FillSpot, base, seq).pool
    OBVIOUS
  <1> HIDE DEF n, seq
  <1>4. PICK results : /\ Fills!Results(results, base, seq, n)
                       /\ FoldLeft(FillSpot, base, seq) = results[n]
    <2>1. \E results : /\ Fills!Results(results, base, seq, n)
                       /\ Fills!FoldLeft(FillSpot, base, seq) = results[n]
      BY <1>1, <1>2, Fills!FoldHasResults
    <2>2. Fills!FoldLeft(FillSpot, base, seq) = FoldLeft(FillSpot, base, seq)
      BY DEF FoldLeft, Fills!FoldLeft, MapThenFoldSet, Fills!MapThenFoldSet, Max, Fills!Max
    <2> QED  BY <2>1, <2>2
  <1>5. /\ results[0] = base
        /\ \A k \in 1 .. n : results[k] = FillSpot(results[k - 1], seq[k])
    BY <1>4 DEF Fills!Results
  <1> DEFINE Right(k) == /\ results[k] \in [pool : Pools, done : BOOLEAN]
                         /\ Grows(pool, results[k].pool) /\ Keeps(pool, results[k].pool)
                         /\ InUse(results[k].pool) <= InUse(pool) + k
             P == {k \in Nat : k <= n => Right(k)}
  <1>6. 0 \in P
    <2>1. base.pool = pool /\ base \in [pool : Pools, done : BOOLEAN]
      BY DEF PoolTyped
    <2>2. Grows(pool, pool) /\ Keeps(pool, pool)
      BY <1>1 DEF Grows, Keeps
    <2> HIDE DEF base
    <2> QED  BY <1>1, <1>5, <2>1, <2>2
  <1>7. ASSUME NEW k \in P PROVE k + 1 \in P
    <2> SUFFICES ASSUME k + 1 <= n PROVE Right(k + 1)
      OBVIOUS
    <2> DEFINE s == results[k]
               t == results[k + 1]
    <2>1. k \in Nat /\ k + 1 \in 1 .. n /\ (k + 1) - 1 = k
      BY <1>1
    <2>2. Right(k)
      BY <1>1, <2>1
    <2>3. t = FillSpot(s, seq[k + 1])
      BY <1>5, <2>1
    <2>4. PoolTyped(s.pool)
      BY <2>2 DEF Grows
    <2>5. InUse(s.pool) \in Nat /\ InUse(s.pool) < maxClients
      BY <1>1, <2>1, <2>2, <2>4, InUseType
    <2>6. /\ t \in [pool : Pools, done : BOOLEAN] /\ Grows(s.pool, t.pool)
          /\ InUse(t.pool) <= InUse(s.pool) + 1 /\ Keeps(s.pool, t.pool)
      BY <2>2, <2>3, <2>4, <2>5, FillsSpot
    <2>7. Grows(pool, t.pool)
      BY <2>2, <2>6, GrowsOn
    <2>8. Keeps(pool, t.pool)
      BY <2>2, <2>6, KeepsOn DEF Grows
    <2>9. InUse(t.pool) <= InUse(pool) + (k + 1)
      <3>1. PoolTyped(t.pool)
        BY <2>6 DEF Grows
      <3>2. InUse(t.pool) \in Nat
        BY <3>1, InUseType
      <3> QED  BY <1>1, <2>1, <2>2, <2>5, <2>6, <3>2
    <2> QED  BY <2>6, <2>7, <2>8, <2>9
  <1>8. P \in SUBSET Nat
    OBVIOUS
  <1>9. n \in P
    <2> HIDE DEF P
    <2> QED  BY <1>1, <1>6, <1>7, <1>8, Induction
  <1> QED  BY <1>1, <1>3, <1>4, <1>9

\* replace_node forgets an address only when every spot is taken.
LEMMA ReplacesNode ==
    ASSUME NodesTyped, RestTyped, NEW p, PoolTyped(p), NEW c \in ToSet(nodes)
    PROVE  LET q == Replacement(p, c)
           IN  Grows(p, q) /\ (Keeps(p, q) \/ InUse(q) >= maxClients)
  <1> DEFINE q == MarkBad(p, conn[c].addr)
             r == IF q.known = << >> THEN q ELSE PopKnown(q)
  <1>1. conn[c].addr \in Anyone
    BY ToSetOf DEF NodesTyped, Neonode, Anyone
  <1>2. /\ Grows(p, q) /\ InUse(q) = InUse(p) /\ q.known = p.known /\ q.queued = p.queued
        /\ ToSet(q.bad) = ToSet(p.bad) \union {conn[c].addr}
    BY <1>1, Marks
  <1>3. Replacement(p, c) = r
    BY DEF Replacement
  <1>4. PoolTyped(q)
    BY <1>2 DEF Grows
  <1>5. Keeps(p, q)
    BY <1>2 DEF Keeps, Listed
  <1> HIDE DEF q
  <1>6. CASE q.known = << >>
    BY <1>2, <1>3, <1>5, <1>6
  <1>7. CASE q.known # << >>
    <2>1. Grows(q, r) /\ (Keeps(q, r) \/ InUse(r) >= maxClients)
      BY <1>4, <1>7, Pops
    <2>2. Grows(p, r)
      BY <1>2, <2>1, GrowsOn
    <2>3. Keeps(q, r) => Keeps(p, r)
      BY <1>5, <2>1, KeepsOn DEF Grows
    <2> QED  BY <1>3, <2>1, <2>2, <2>3
  <1> QED  BY <1>6, <1>7

\* The replacement of all nodes, one after the other.
LEMMA ReplacesNodes ==
    ASSUME NodesTyped, RestTyped, PoolTyped(pool), NEW q, q = FoldLeft(Replacement, pool, nodes)
    PROVE  Grows(pool, q) /\ (Keeps(pool, q) \/ InUse(q) >= maxClients)
  <1> DEFINE n == Len(nodes)
  <1>1. n \in Nat /\ DOMAIN nodes = 1 .. n /\ \A k \in 1 .. n : nodes[k] \in ToSet(nodes)
    BY ToSetOf DEF NodesTyped
  <1>2. maxClients \in Int /\ InUse(pool) \in Nat
    BY NodeManagerAssumption, InUseType DEF RestTyped
  <1> HIDE DEF n
  <1>3. PICK results : /\ Replacements!Results(results, pool, nodes, n)
                       /\ FoldLeft(Replacement, pool, nodes) = results[n]
    <2>1. \E results : /\ Replacements!Results(results, pool, nodes, n)
                       /\ Replacements!FoldLeft(Replacement, pool, nodes) = results[n]
      BY <1>1, Replacements!FoldHasResults
    <2>2. Replacements!FoldLeft(Replacement, pool, nodes) = FoldLeft(Replacement, pool, nodes)
      BY DEF FoldLeft, Replacements!FoldLeft, MapThenFoldSet, Replacements!MapThenFoldSet, Max, Replacements!Max
    <2> QED  BY <2>1, <2>2
  <1>4. /\ results[0] = pool
        /\ \A k \in 1 .. n : results[k] = Replacement(results[k - 1], nodes[k])
    BY <1>3 DEF Replacements!Results
  <1> DEFINE Right(k) == /\ Grows(pool, results[k])
                         /\ Keeps(pool, results[k]) \/ InUse(results[k]) >= maxClients
             P == {k \in Nat : k <= n => Right(k)}
  <1>5. 0 \in P
    BY <1>2, <1>4 DEF Grows, Keeps
  <1>6. ASSUME NEW k \in P PROVE k + 1 \in P
    <2> SUFFICES ASSUME k + 1 <= n PROVE Right(k + 1)
      OBVIOUS
    <2> DEFINE s == results[k]
               t == results[k + 1]
    <2>1. k \in Nat /\ k + 1 \in 1 .. n /\ (k + 1) - 1 = k
      BY <1>1
    <2>2. Right(k)
      BY <1>1, <2>1
    <2>3. t = Replacement(s, nodes[k + 1])
      BY <1>4, <2>1
    <2>4. PoolTyped(s)
      BY <2>2 DEF Grows
    <2>5. Grows(s, t) /\ (Keeps(s, t) \/ InUse(t) >= maxClients)
      BY <1>1, <2>1, <2>3, <2>4, ReplacesNode
    <2>6. Grows(pool, t)
      BY <2>2, <2>5, GrowsOn
    <2>7. CASE InUse(s) >= maxClients
      <3>1. PoolTyped(t)
        BY <2>5 DEF Grows
      <3>2. InUse(s) \in Nat /\ InUse(t) \in Nat /\ InUse(s) <= InUse(t)
        BY <2>4, <2>5, <3>1, InUseType DEF Grows
      <3> QED  BY <1>2, <2>6, <2>7, <3>2
    <2>8. CASE Keeps(pool, s)
      <3>1. Keeps(s, t) => Keeps(pool, t)
        BY <2>5, <2>8, KeepsOn DEF Grows
      <3> QED  BY <2>5, <2>6, <3>1
    <2> QED  BY <2>2, <2>7, <2>8
  <1>7. P \in SUBSET Nat
    OBVIOUS
  <1>8. n \in P
    <2> HIDE DEF P
    <2> QED  BY <1>1, <1>5, <1>6, <1>7, Induction
  <1> QED  BY <1>1, <1>3, <1>8

\* An attempt that fails leaves the address among the bad ones.
LEMMA Fails ==
    ASSUME NEW p, PoolTyped(p), NEW x \in PossibleAttempt
    PROVE  LET q == Failed(p, x)
           IN  /\ PoolTyped(q) /\ Listed(p) \subseteq Listed(q)
               /\ q.attempts = p.attempts (-) SetToBag({x}) /\ q.queued = p.queued \ {x.addr}
  <1> DEFINE left == p.attempts (-) SetToBag({x})
             known == RemoveFirst(p.known, x.addr)
             bad == Append(p.bad, x.addr)
             q == [p EXCEPT !.attempts = left, !.queued = @ \ {x.addr}, !.known = known, !.bad = bad]
  <1>1. /\ p \in Pools /\ p.known \in Seq(Anyone) /\ p.bad \in Seq(Anyone) /\ x.addr \in Anyone
        /\ p.attempts \in Attempts /\ IsFiniteSet(DOMAIN p.attempts) /\ IsFiniteSet(p.queued)
    BY DEF PoolTyped, Pools, PossibleAttempt, Anyone
  <1>2. known \in Seq(Anyone) /\ ToSet(p.known) \ {x.addr} \subseteq ToSet(known)
    BY <1>1, RemoveFirstIs
  <1>3. bad \in Seq(Anyone) /\ ToSet(bad) = ToSet(p.bad) \union {x.addr}
    BY <1>1, AppendIs
  <1>4. left \in Attempts /\ IsFiniteSet(DOMAIN left)
    BY <1>1, AttemptTaken
  <1>5. Failed(p, x) = q
    BY DEF Failed
  <1> HIDE DEF known, bad, left
  <1>6. /\ q \in Pools /\ q.known = known /\ q.bad = bad /\ q.queued = p.queued \ {x.addr}
        /\ q.attempts = left
    BY <1>1, <1>2, <1>3, <1>4 DEF Pools
  <1> HIDE DEF q
  <1>7. IsFiniteSet(q.queued)
    BY <1>1, <1>6, FS_Subset
  <1>8. PoolTyped(q)
    BY <1>4, <1>6, <1>7 DEF PoolTyped
  <1>9. Listed(p) \subseteq Listed(q)
    BY <1>2, <1>3, <1>6 DEF Listed
  <1> QED  BY <1>5, <1>6, <1>8, <1>9 DEF left

\* Any attempts that fail, one after the other.
LEMMA FailAll ==
    ASSUME PoolTyped(pool), NEW seq \in Seq(PossibleAttempt)
    PROVE  /\ PoolTyped(FoldLeft(Failed, pool, seq))
           /\ Listed(pool) \subseteq Listed(FoldLeft(Failed, pool, seq))
  <1> DEFINE n == Len(seq)
  <1>1. n \in Nat /\ DOMAIN seq = 1 .. n /\ \A k \in 1 .. n : seq[k] \in PossibleAttempt
    BY LenProperties
  <1> HIDE DEF n
  <1>2. PICK results : /\ Failures!Results(results, pool, seq, n)
                       /\ FoldLeft(Failed, pool, seq) = results[n]
    <2>1. \E results : /\ Failures!Results(results, pool, seq, n)
                       /\ Failures!FoldLeft(Failed, pool, seq) = results[n]
      BY <1>1, Failures!FoldHasResults
    <2>2. Failures!FoldLeft(Failed, pool, seq) = FoldLeft(Failed, pool, seq)
      BY DEF FoldLeft, Failures!FoldLeft, MapThenFoldSet, Failures!MapThenFoldSet, Max, Failures!Max
    <2> QED  BY <2>1, <2>2
  <1>3. /\ results[0] = pool
        /\ \A k \in 1 .. n : results[k] = Failed(results[k - 1], seq[k])
    BY <1>2 DEF Failures!Results
  <1> DEFINE Right(k) == PoolTyped(results[k]) /\ Listed(pool) \subseteq Listed(results[k])
             P == {k \in Nat : k <= n => Right(k)}
  <1>4. 0 \in P
    BY <1>3
  <1>5. ASSUME NEW k \in P PROVE k + 1 \in P
    <2> SUFFICES ASSUME k + 1 <= n PROVE Right(k + 1)
      OBVIOUS
    <2> DEFINE s == results[k]
               t == results[k + 1]
    <2>1. k \in Nat /\ k + 1 \in 1 .. n /\ (k + 1) - 1 = k
      BY <1>1
    <2>2. Right(k)
      BY <1>1, <2>1
    <2>3. t = Failed(s, seq[k + 1]) /\ seq[k + 1] \in PossibleAttempt
      BY <1>1, <1>3, <2>1
    <2>4. PoolTyped(s)
      BY <2>2
    <2> HIDE DEF s, t
    <2>5. PoolTyped(t) /\ Listed(s) \subseteq Listed(t)
      BY <2>3, <2>4, Fails
    <2> QED  BY <2>2, <2>5 DEF s, t
  <1>6. P \in SUBSET Nat
    OBVIOUS
  <1>7. n \in P
    <2> HIDE DEF P
    <2> QED  BY <1>1, <1>4, <1>5, <1>6, Induction
  <1> QED  BY <1>1, <1>2, <1>7

-----------------------------------------------------------------------------
(* What a step does to the connections.                                    *)

\* Connections change one at a time or several; of those in use nothing changes but
\* what they owe and how often they failed.
LEMMA StageOf ==
    ASSUME NEW n \in Neonode
    PROVE  /\ Disconnected(n) \in Neonode /\ Leave(n) \in Neonode
           /\ Disconnected(n).stage = "closed" /\ Disconnected(n).addr = n.addr
           /\ Leave(n).stage = n.stage /\ Leave(n).addr = n.addr /\ Leave(n).check = n.check
           /\ "task" \in Leave(n).due /\ n.due \subseteq Leave(n).due
           /\ n.due \subseteq Disconnected(n).due
  BY DEF Neonode, Disconnected, Leave

LEMMA InitRight == Init => PoolInvariant
  <1> SUFFICES ASSUME Init PROVE PoolInvariant
    OBVIOUS
  <1>1. /\ pool = [known |-> Seeds, bad |-> <<>>, queued |-> {}, attempts |-> EmptyBag, errors |-> 0]
        /\ nodes = <<>> /\ conn = [c \in Conn |-> Null]
        /\ maxClients = MaxClients /\ stalls = 0 /\ phase = "up" /\ faults = 0
        /\ alive \in SUBSET Address
    BY DEF Init
  <1>2. Seeds \in Seq(Anyone)
    <2>1. Address \subseteq Anyone
      BY DEF Anyone
    <2> QED  BY <2>1, SeqMonotonic, NodeManagerAssumption
  <1>3. PoolTyped(pool)
    <2>1. << >> \in Seq(Anyone) /\ 0 \in 0..PoolErrors
      BY EmptySeq, NodeManagerAssumption
    <2>2. pool \in Pools /\ pool.queued = {} /\ pool.attempts = EmptyBag
      BY <1>1, <1>2, <2>1, NoAttempt DEF Pools
    <2> QED  BY <2>2, NoAttempt, FS_EmptySet DEF PoolTyped
  <1>4. NodesTyped
    <2>1. << >> \in Seq(Conn) /\ IsInjective(<< >>)
      BY EmptySeq DEF IsInjective
    <2>2. ToSet(<< >>) = {}
      BY DEF ToSet
    <2> QED  BY <1>1, <2>1, <2>2 DEF NodesTyped
  <1>5. RestTyped
    BY <1>1, NodeManagerAssumption DEF RestTyped
  <1>6. Backed(pool) /\ NodesLeave
    BY <1>1 DEF Backed, NodesLeave
  <1> QED  BY <1>3, <1>4, <1>5, <1>6 DEF PoolInvariant

\* A step that changes none of the connections.
LEMMA PoolChanges ==
    ASSUME PoolInvariant, PoolTyped(pool'), UNCHANGED <<nodes, conn>>, RestTyped',
           phase' = "up" => Backed(pool'), phase' = "down" => phase = "down"
    PROVE  PoolInvariant'
  <1>1. NodesTyped'
    BY DEF PoolInvariant, NodesTyped
  <1>2. PoolTyped(pool)'
    BY DEF PoolTyped, Pools
  <1>3. Backed(pool)' <=> Backed(pool')
    BY DEF Backed, Shaking
  <1>4. NodesLeave'
    BY DEF PoolInvariant, NodesLeave
  <1> QED  BY <1>1, <1>2, <1>3, <1>4 DEF PoolInvariant

\* The property: an address that is listed stays, or every spot is taken by replacements.
Kept == \A a \in Listed(pool) : a \in Remembered' \/ (Replacing /\ InUse(pool)' >= maxClients)

LEMMA ListsGrow ==
    ASSUME Listed(pool) \subseteq Listed(pool')
    PROVE  Kept
  <1>1. Listed(pool') \subseteq Remembered'
    BY DEF Listed, Remembered
  <1> QED  BY <1>1 DEF Kept

LEMMA PoolKeeps ==
    ASSUME Keeps(pool, pool') \/ (Replacing /\ InUse(pool') >= maxClients), nodes' = nodes,
           ConnectedAddresses' = ConnectedAddresses
    PROVE  Kept
  <1>1. Listed(pool') \union pool'.queued \union ConnectedAddresses \subseteq Remembered'
    BY DEF Listed, Remembered
  <1>2. InUse(pool)' = InUse(pool')
    BY DEF InUse
  <1> QED  BY <1>1, <1>2 DEF Kept, Keeps

\* The nodes in use that stay are as they were but for what they owe.
LEMMA NodesStay ==
    ASSUME NodesTyped, NodesLeave, nodes' \in Seq(Conn), IsInjective(nodes'),
           conn' \in [Conn -> Neonode \union {Null}], phase' = "down" => phase = "down",
           \A c \in ToSet(nodes') :
               /\ c \in ToSet(nodes) /\ conn'[c] # Null /\ conn'[c].stage = conn[c].stage
               /\ conn'[c].check = conn[c].check /\ conn[c].due \subseteq conn'[c].due
    PROVE  NodesTyped' /\ NodesLeave'
  BY DEF NodesTyped, NodesLeave

\* When the address of a connection is taken off the queue, the others have their
\* attempts and handshakes as before.
LEMMA OthersBacked ==
    ASSUME PoolInvariant, NEW c \in Conn, conn[c] # Null, \A d \in Conn \ {c} : conn'[d] = conn[d],
           pool'.queued \subseteq pool.queued \ {conn[c].addr}, pool'.attempts = pool.attempts,
           phase' = phase
    PROVE  phase' = "up" => Backed(pool)'
  <1> SUFFICES ASSUME phase = "up", NEW o \in pool'.queued
               PROVE  BagIn([addr |-> o, check |-> FALSE], pool'.attempts) \/ Shaking(o)'
    BY DEF Backed
  <1>1. o \in pool.queued /\ o # conn[c].addr
    OBVIOUS
  <1>2. CASE BagIn([addr |-> o, check |-> FALSE], pool.attempts)
    BY <1>2
  <1>3. CASE Shaking(o)
    <2>1. PICK d \in Conn : conn[d] # Null /\ conn[d].addr = o /\ conn[d].stage = "handshake"
      BY <1>3 DEF Shaking
    <2>2. conn'[d] = conn[d]
      BY <1>1, <2>1
    <2> QED  BY <2>1, <2>2 DEF Shaking
  <1> QED  BY <1>1, <1>2, <1>3 DEF PoolInvariant, Backed

LEMMA FaultTyped ==
    ASSUME RestTyped, NEW kind, Fault(kind)
    PROVE  faults' \in 0..MaxFaults
  BY NodeManagerAssumption DEF RestTyped, Fault

\* What is off the queue.
LEMMA Dequeues ==
    ASSUME NEW p, PoolTyped(p), NEW n
    PROVE  /\ PoolTyped(Dequeued(p, n)) /\ Listed(Dequeued(p, n)) = Listed(p)
           /\ Dequeued(p, n).queued = p.queued \ {n.addr} /\ Dequeued(p, n).attempts = p.attempts
           /\ Dequeued(p, n).known = p.known /\ Dequeued(p, n).bad = p.bad
  <1> DEFINE q == Dequeued(p, n)
  <1>1. /\ q \in Pools /\ q.known = p.known /\ q.bad = p.bad /\ q.queued = p.queued \ {n.addr}
        /\ q.attempts = p.attempts
    BY DEF PoolTyped, Pools, Dequeued
  <1> HIDE DEF q
  <1>2. IsFiniteSet(q.queued)
    BY <1>1, FS_Subset DEF PoolTyped
  <1> QED  BY <1>1, <1>2 DEF PoolTyped, Listed, q

\* A check that fails moves an address among the bad ones.
LEMMA UnhealthyIs ==
    ASSUME NodesTyped, NEW p, PoolTyped(p), NEW a \in Anyone
    PROVE  /\ PoolTyped(Unhealthy(p, a)) /\ Listed(p) \subseteq Listed(Unhealthy(p, a))
           /\ Unhealthy(p, a).queued = p.queued /\ Unhealthy(p, a).attempts = p.attempts
  <1> DEFINE known == RemoveFirst(p.known, a)
             rest == [p EXCEPT !.known = known]
             q == MarkBad(rest, a)
  <1>1. p \in Pools /\ p.known \in Seq(Anyone)
    BY DEF PoolTyped, Pools
  <1>2. known \in Seq(Anyone) /\ ToSet(p.known) \ {a} \subseteq ToSet(known)
    BY <1>1, RemoveFirstIs
  <1>3. Unhealthy(p, a) = q
    BY DEF Unhealthy
  <1> HIDE DEF known
  <1>4. /\ rest \in Pools /\ rest.known = known /\ rest.bad = p.bad /\ rest.queued = p.queued
        /\ rest.attempts = p.attempts
    BY <1>1, <1>2 DEF Pools
  <1> HIDE DEF rest
  <1>5. PoolTyped(rest)
    BY <1>4 DEF PoolTyped
  <1>6. /\ Grows(rest, q) /\ q.known = rest.known /\ q.queued = rest.queued
        /\ q.attempts = rest.attempts /\ ToSet(q.bad) = ToSet(rest.bad) \union {a}
    BY <1>5, Marks
  <1> HIDE DEF q
  <1>7. PoolTyped(q)
    BY <1>6 DEF Grows
  <1>8. Listed(p) \subseteq Listed(q)
    BY <1>2, <1>4, <1>6 DEF Listed
  <1> QED  BY <1>3, <1>4, <1>6, <1>7, <1>8

-----------------------------------------------------------------------------
(* The steps.                                                              *)

LEMMA CheckOpenSpotsStep ==
    ASSUME PoolInvariant, CheckOpenSpots
    PROVE  PoolInvariant' /\ Kept
  <1>1. NodesTyped /\ RestTyped /\ PoolTyped(pool)
    BY DEF PoolInvariant
  <1>2. /\ phase = "up" /\ OpenSpots > 0
        /\ pool' = FoldLeft(FillSpot, [pool |-> pool, done |-> FALSE], [i \in 1..OpenSpots |-> i]).pool
        /\ UNCHANGED <<nodes, conn, maxClients, stalls, phase, alive, faults>>
    BY DEF CheckOpenSpots
  <1>3. Grows(pool, pool') /\ Keeps(pool, pool')
    BY <1>1, <1>2, FillsSpots
  <1>4. PoolTyped(pool') /\ Backed(pool')
    BY <1>2, <1>3 DEF Grows, PoolInvariant
  <1>5. RestTyped'
    BY <1>1, <1>2 DEF RestTyped
  <1>6. PoolInvariant'
    BY <1>2, <1>4, <1>5, PoolChanges
  <1>7. ConnectedAddresses' = ConnectedAddresses
    BY <1>2 DEF ConnectedAddresses
  <1>8. Kept
    BY <1>2, <1>3, <1>7, PoolKeeps
  <1> QED  BY <1>6, <1>8

LEMMA OnAddrReceivedStep ==
    ASSUME PoolInvariant, NEW a \in Address, OnAddrReceived(a)
    PROVE  PoolInvariant' /\ Kept
  <1> DEFINE known == Append(pool.known, a)
             p == [pool EXCEPT !.known = known]
             x == [addr |-> a, check |-> TRUE]
             more == p.attempts (+) One(a, TRUE)
             q == [p EXCEPT !.attempts = more]
  <1>1. NodesTyped /\ RestTyped /\ PoolTyped(pool) /\ a \in Anyone
    BY DEF PoolInvariant, Anyone
  <1>2. /\ pool' = IF InUse(p) < maxClients THEN QueueForConnection(p, a) ELSE QueueForCheck(p, a)
        /\ UNCHANGED <<nodes, conn, maxClients, stalls, phase, alive, faults>>
    BY DEF OnAddrReceived
  <1>3. pool \in Pools /\ pool.known \in Seq(Anyone)
    BY <1>1 DEF PoolTyped, Pools
  <1>4. known \in Seq(Anyone) /\ ToSet(known) = ToSet(pool.known) \union {a}
    BY <1>1, <1>3, AppendIs
  <1> HIDE DEF known
  <1>5. /\ p \in Pools /\ p.known = known /\ p.bad = pool.bad /\ p.queued = pool.queued
        /\ p.attempts = pool.attempts
    BY <1>3, <1>4 DEF Pools
  <1>6. QueueForCheck(p, a) = q
    BY DEF QueueForCheck
  <1> HIDE DEF p
  <1>7. PoolTyped(p) /\ (Backed(pool) => Backed(p)) /\ Listed(pool) \subseteq Listed(p)
    BY <1>1, <1>4, <1>5 DEF PoolTyped, Backed, Listed
  <1> DEFINE Right == /\ PoolTyped(pool') /\ (Backed(pool) => Backed(pool'))
                      /\ Listed(pool) \subseteq Listed(pool')
  <1>8. ASSUME InUse(p) < maxClients PROVE Right
    <2>1. pool' = QueueForConnection(p, a)
      BY <1>2, <1>8
    <2>2. /\ Grows(p, QueueForConnection(p, a)) /\ QueueForConnection(p, a).known = p.known
          /\ QueueForConnection(p, a).bad = p.bad
      BY <1>1, <1>7, Queues
    <2>3. PoolTyped(pool') /\ (Backed(p) => Backed(pool'))
      BY <2>1, <2>2 DEF Grows
    <2>4. Listed(pool') = Listed(p)
      BY <2>1, <2>2 DEF Listed
    <2> QED  BY <1>7, <2>3, <2>4
  <1>9. ASSUME ~ (InUse(p) < maxClients) PROVE Right
    <2>1. pool' = q
      BY <1>2, <1>6, <1>9
    <2>2. /\ more \in Attempts /\ IsFiniteSet(DOMAIN more)
          /\ \A y : BagIn(y, p.attempts) => BagIn(y, more)
      <3>1. x \in PossibleAttempt
        BY <1>1 DEF PossibleAttempt, Anyone
      <3>2. p.attempts \in Attempts /\ IsFiniteSet(DOMAIN p.attempts)
        BY <1>7 DEF PoolTyped, Pools
      <3> QED  BY <3>1, <3>2, AttemptAdded DEF One
    <2> HIDE DEF more
    <2>3. /\ q \in Pools /\ q.known = p.known /\ q.bad = p.bad /\ q.queued = p.queued
          /\ q.attempts = more
      BY <1>5, <2>2 DEF Pools
    <2> HIDE DEF q
    <2>4. PoolTyped(q) /\ (Backed(p) => Backed(q)) /\ Listed(q) = Listed(p)
      BY <1>7, <2>2, <2>3 DEF PoolTyped, Backed, Listed
    <2> QED  BY <1>7, <2>1, <2>4
  <1>10. Right
    BY <1>8, <1>9
  <1>11. RestTyped'
    BY <1>1, <1>2 DEF RestTyped
  <1>12. PoolInvariant'
    <2>1. phase = "up" => Backed(pool')
      BY <1>10 DEF PoolInvariant
    <2> QED  BY <1>2, <1>10, <1>11, <2>1, PoolChanges
  <1> QED  BY <1>10, <1>12, ListsGrow

LEMMA GoDownStep ==
    ASSUME PoolInvariant, NEW a \in Address, GoDown(a)
    PROVE  PoolInvariant' /\ Kept
  <1>1. UNCHANGED <<pool, nodes, conn, maxClients, stalls, phase>> /\ alive' \subseteq alive
    BY DEF GoDown
  <1>2. RestTyped /\ faults' \in 0..MaxFaults
    BY FaultTyped DEF GoDown, PoolInvariant
  <1>3. RestTyped'
    BY <1>1, <1>2 DEF RestTyped
  <1>4. PoolTyped(pool') /\ (phase' = "up" => Backed(pool')) /\ Listed(pool) = Listed(pool')
    BY <1>1 DEF PoolInvariant
  <1> QED  BY <1>1, <1>3, <1>4, PoolChanges, ListsGrow

\* An attempt leaves, a connection that was not there is opened.
LEMMA OpenedIs ==
    ASSUME NEW a \in Anyone, NEW check \in BOOLEAN
    PROVE  /\ Opened(a, check) \in Neonode /\ Opened(a, check) # Null
           /\ Opened(a, check).addr = a /\ Opened(a, check).stage = "handshake"
  <1>1. Opened(a, check) \in Neonode
    BY DEF Opened, Neonode, Anyone
  <1> QED  BY <1>1, NodeManagerAssumption DEF Opened

LEMMA OpensOne ==
    ASSUME PoolInvariant, NEW c \in Conn, conn[c] = Null, NEW a \in Anyone, NEW check \in BOOLEAN,
           conn' = [conn EXCEPT ![c] = Opened(a, check)], UNCHANGED <<nodes, phase>>
    PROVE  /\ NodesTyped' /\ NodesLeave'
           /\ Shaking(a)' /\ \A o : Shaking(o) => Shaking(o)'
  <1>1. /\ NodesTyped /\ NodesLeave /\ conn \in [Conn -> Neonode \union {Null}]
        /\ nodes \in Seq(Conn) /\ IsInjective(nodes)
    BY DEF PoolInvariant, NodesTyped
  <1>2. /\ Opened(a, check) \in Neonode /\ Opened(a, check) # Null
        /\ Opened(a, check).addr = a /\ Opened(a, check).stage = "handshake"
    BY OpenedIs
  <1>3. /\ conn' \in [Conn -> Neonode \union {Null}] /\ conn'[c] = Opened(a, check)
        /\ \A d \in Conn : d # c => conn'[d] = conn[d]
    BY <1>1, <1>2
  <1>4. \A d \in ToSet(nodes) : d \in Conn /\ d # c
    BY <1>1, ToSetOf DEF NodesTyped
  <1>5. \A d \in ToSet(nodes') :
           /\ d \in ToSet(nodes) /\ conn'[d] # Null /\ conn'[d].stage = conn[d].stage
           /\ conn'[d].check = conn[d].check /\ conn[d].due \subseteq conn'[d].due
    BY <1>1, <1>3, <1>4 DEF NodesTyped
  <1>6. NodesTyped' /\ NodesLeave'
    BY <1>1, <1>3, <1>5, NodesStay
  <1>7. Shaking(a)'
    BY <1>2, <1>3 DEF Shaking
  <1>8. ASSUME NEW o, Shaking(o) PROVE Shaking(o)'
    <2>1. PICK d \in Conn : conn[d] # Null /\ conn[d].addr = o /\ conn[d].stage = "handshake"
      BY <1>8 DEF Shaking
    <2>2. conn'[d] = conn[d]
      BY <1>3, <2>1
    <2> QED  BY <2>1, <2>2 DEF Shaking
  <1> QED  BY <1>6, <1>7, <1>8

LEMMA ConnectStep ==
    ASSUME PoolInvariant, NEW x \in PossibleAttempt, Connect(x)
    PROVE  PoolInvariant' /\ Kept
  <1> DEFINE left == pool.attempts (-) SetToBag({x})
  <1>1. /\ RestTyped /\ PoolTyped(pool) /\ pool \in Pools
        /\ pool.attempts \in Attempts /\ IsFiniteSet(DOMAIN pool.attempts)
    BY DEF PoolInvariant, PoolTyped, Pools
  <1>2. /\ pool' = [pool EXCEPT !.attempts = left]
        /\ UNCHANGED <<nodes, maxClients, stalls, phase, alive, faults>>
    BY DEF Connect, Attempted
  <1>3. PICK c \in Conn : conn[c] = Null /\ conn' = [conn EXCEPT ![c] = Opened(x.addr, x.check)]
    BY DEF Connect
  <1>4. x.addr \in Anyone /\ x.check \in BOOLEAN
    BY DEF PossibleAttempt, Anyone
  <1>5. /\ NodesTyped' /\ NodesLeave'
        /\ Shaking(x.addr)' /\ \A o : Shaking(o) => Shaking(o)'
    BY <1>2, <1>3, <1>4, OpensOne
  <1>6. /\ left \in Attempts /\ IsFiniteSet(DOMAIN left)
        /\ \A y : BagIn(y, pool.attempts) /\ y # x => BagIn(y, left)
    BY <1>1, AttemptTaken
  <1> HIDE DEF left
  <1>7. /\ pool' \in Pools /\ pool'.known = pool.known /\ pool'.bad = pool.bad
        /\ pool'.queued = pool.queued /\ pool'.attempts = left
    BY <1>1, <1>2, <1>6 DEF Pools
  <1>8. PoolTyped(pool)' /\ Listed(pool) = Listed(pool')
    BY <1>1, <1>6, <1>7 DEF PoolTyped, Listed
  <1>9. phase' = "up" => Backed(pool)'
    <2> SUFFICES ASSUME phase = "up", NEW o \in pool.queued
                 PROVE  BagIn([addr |-> o, check |-> FALSE], left) \/ Shaking(o)'
      BY <1>2, <1>7 DEF Backed
    <2>1. CASE Shaking(o)
      BY <1>5, <2>1
    <2>2. CASE BagIn([addr |-> o, check |-> FALSE], pool.attempts)
      <3>1. CASE [addr |-> o, check |-> FALSE] # x
        BY <1>6, <2>2, <3>1
      <3>2. CASE [addr |-> o, check |-> FALSE] = x
        <4>1. x.addr = o
          BY <3>2
        <4> QED  BY <1>5, <4>1
      <3> QED  BY <3>1, <3>2
    <2> QED  BY <2>1, <2>2 DEF PoolInvariant, Backed
  <1>10. RestTyped'
    BY <1>1, <1>2 DEF RestTyped
  <1>11. Kept
    BY <1>8, ListsGrow
  <1> QED  BY <1>5, <1>8, <1>9, <1>10, <1>11 DEF PoolInvariant

LEMMA ConnectFailsStep ==
    ASSUME PoolInvariant, NEW x \in PossibleAttempt, ConnectFails(x)
    PROVE  PoolInvariant' /\ Kept
  <1>1. RestTyped /\ PoolTyped(pool)
    BY DEF PoolInvariant
  <1>2. /\ pool' = Failed(pool, x)
        /\ UNCHANGED <<nodes, conn, maxClients, stalls, phase, alive, faults>>
    BY DEF ConnectFails
  <1>3. /\ PoolTyped(pool') /\ Listed(pool) \subseteq Listed(pool')
        /\ pool'.attempts = pool.attempts (-) SetToBag({x}) /\ pool'.queued = pool.queued \ {x.addr}
    BY <1>1, <1>2, Fails
  <1>4. ASSUME phase' = "up" PROVE Backed(pool')
    <2>1. \A y : BagIn(y, pool.attempts) /\ y # x => BagIn(y, pool'.attempts)
      <3>1. pool.attempts \in Attempts /\ IsFiniteSet(DOMAIN pool.attempts)
        BY <1>1 DEF PoolTyped, Pools
      <3> QED  BY <1>3, <3>1, AttemptTaken
    <2> SUFFICES ASSUME NEW o \in pool.queued, o # x.addr
                 PROVE  BagIn([addr |-> o, check |-> FALSE], pool'.attempts) \/ Shaking(o)
      BY <1>3 DEF Backed
    <2>2. [addr |-> o, check |-> FALSE] # x
      OBVIOUS
    <2>3. BagIn([addr |-> o, check |-> FALSE], pool.attempts) \/ Shaking(o)
      BY <1>2, <1>4 DEF PoolInvariant, Backed
    <2> QED  BY <2>1, <2>2, <2>3
  <1>5. RestTyped'
    BY <1>1, <1>2 DEF RestTyped
  <1> QED  BY <1>2, <1>3, <1>4, <1>5, PoolChanges, ListsGrow

LEMMA AcceptStep ==
    ASSUME PoolInvariant, NEW g \in Guest, Accept(g)
    PROVE  PoolInvariant' /\ Kept
  <1>1. RestTyped /\ faults' \in 0..MaxFaults
    BY FaultTyped DEF Accept, PoolInvariant
  <1>2. UNCHANGED <<pool, nodes, maxClients, stalls, phase, alive>>
    BY DEF Accept
  <1>3. PICK c \in Conn : conn[c] = Null /\ conn' = [conn EXCEPT ![c] = Opened(g, FALSE)]
    BY DEF Accept
  <1>4. g \in Anyone
    BY DEF Anyone
  <1>5. NodesTyped' /\ NodesLeave' /\ \A o : Shaking(o) => Shaking(o)'
    BY <1>2, <1>3, <1>4, OpensOne
  <1>6. RestTyped'
    BY <1>1, <1>2 DEF RestTyped
  <1>7. phase' = "up" => Backed(pool)'
    BY <1>2, <1>5 DEF PoolInvariant, Backed
  <1>8. PoolTyped(pool)' /\ Listed(pool) = Listed(pool')
    BY <1>2 DEF PoolInvariant, PoolTyped, Pools
  <1> QED  BY <1>5, <1>6, <1>7, <1>8, ListsGrow DEF PoolInvariant

\* A connection is not in use during its handshake.
LEMMA OutsideNodes ==
    ASSUME NodesTyped
    PROVE  \A c \in ToSet(nodes) : c \in Conn /\ conn[c] # Null /\ conn[c] \in Neonode
                                   /\ conn[c].stage = "connected"
  <1>1. \A c \in ToSet(nodes) : c \in Conn
    BY ToSetOf DEF NodesTyped
  <1> QED  BY <1>1 DEF NodesTyped

LEMMA HandshakeDoneStep ==
    ASSUME PoolInvariant, NEW c \in Conn, HandshakeDone(c)
    PROVE  PoolInvariant' /\ Kept
  <1> DEFINE n == conn[c]
  <1>1. NodesTyped /\ RestTyped /\ PoolTyped(pool) /\ NodesLeave
    BY DEF PoolInvariant
  <1>2. /\ n # Null /\ n.stage = "handshake" /\ pool' = Dequeued(pool, n)
        /\ UNCHANGED <<maxClients, stalls, phase, alive, faults>>
    BY DEF HandshakeDone
  <1>3. n \in Neonode /\ conn \in [Conn -> Neonode \union {Null}] /\ nodes \in Seq(Conn)
        /\ IsInjective(nodes)
    BY <1>1, <1>2 DEF NodesTyped
  <1>4. c \notin ToSet(nodes)
    BY <1>1, <1>2, OutsideNodes
  <1>5. /\ PoolTyped(pool') /\ Listed(pool') = Listed(pool) /\ pool'.queued = pool.queued \ {n.addr}
        /\ pool'.attempts = pool.attempts
    BY <1>1, <1>2, Dequeues
  <1>6. NodesTyped' /\ NodesLeave' /\ \A d \in Conn \ {c} : conn'[d] = conn[d]
    <2>1. ASSUME n.check PROVE NodesTyped' /\ NodesLeave' /\ \A d \in Conn \ {c} : conn'[d] = conn[d]
      <3>1. conn' = [conn EXCEPT ![c] = Disconnected(@)] /\ nodes' = nodes
        BY <2>1 DEF HandshakeDone
      <3>2. Disconnected(n) \in Neonode
        BY <1>3, StageOf
      <3>3. conn' \in [Conn -> Neonode \union {Null}] /\ \A d \in Conn \ {c} : conn'[d] = conn[d]
        BY <1>3, <3>1, <3>2
      <3>4. \A d \in ToSet(nodes') :
              /\ d \in ToSet(nodes) /\ conn'[d] # Null /\ conn'[d].stage = conn[d].stage
              /\ conn'[d].check = conn[d].check /\ conn[d].due \subseteq conn'[d].due
        BY <1>1, <1>4, <3>1, <3>3, OutsideNodes
      <3> QED  BY <1>1, <1>2, <1>3, <3>1, <3>3, <3>4, NodesStay
    <2>2. ASSUME ~ n.check PROVE NodesTyped' /\ NodesLeave' /\ \A d \in Conn \ {c} : conn'[d] = conn[d]
      <3> DEFINE m == [n EXCEPT !.stage = "connected"]
      <3>1. conn' = [conn EXCEPT ![c] = m] /\ nodes' = AddConnectedNode(c)
        BY <2>2 DEF HandshakeDone
      <3>2. m \in Neonode /\ m.stage = "connected" /\ m.check = n.check /\ m # Null
        <4>1. m \in Neonode /\ m.stage = "connected" /\ m.check = n.check
          BY <1>3 DEF Neonode
        <4> QED  BY <4>1, NodeManagerAssumption
      <3> HIDE DEF m
      <3>3. /\ conn' \in [Conn -> Neonode \union {Null}] /\ conn'[c] = m
            /\ \A d \in Conn \ {c} : conn'[d] = conn[d]
        BY <1>3, <3>1, <3>2
      <3>4. \A d \in ToSet(nodes) : d \in Conn \ {c} /\ conn'[d] = conn[d]
        BY <1>1, <1>4, <3>3, OutsideNodes
      <3>5. CASE phase = "up"
        <4>1. nodes' = Append(nodes, c)
          BY <3>1, <3>5 DEF AddConnectedNode
        <4>2. nodes' \in Seq(Conn) /\ ToSet(nodes') = ToSet(nodes) \union {c} /\ IsInjective(nodes')
          BY <1>3, <1>4, <4>1, AppendIs
        <4>3. NodesTyped'
          BY <1>1, <2>2, <3>2, <3>3, <3>4, <4>2 DEF NodesTyped
        <4>4. NodesLeave'
          BY <1>2, <3>5 DEF NodesLeave
        <4> QED  BY <3>3, <4>3, <4>4
      <3>6. CASE phase # "up"
        <4>1. nodes' = nodes
          BY <3>1, <3>6 DEF AddConnectedNode
        <4>2. NodesTyped' /\ NodesLeave'
          BY <1>1, <1>2, <3>3, <3>4, <4>1 DEF NodesTyped, NodesLeave
        <4> QED  BY <3>3, <4>2
      <3> QED  BY <3>5, <3>6
    <2> QED  BY <2>1, <2>2
  <1>7. phase' = "up" => Backed(pool)'
    BY <1>2, <1>5, <1>6, OthersBacked
  <1>8. RestTyped'
    BY <1>1, <1>2 DEF RestTyped
  <1>9. Kept
    BY <1>5, ListsGrow
  <1>10. PoolTyped(pool)'
    BY <1>5 DEF PoolTyped, Pools
  <1> QED  BY <1>6, <1>7, <1>8, <1>9, <1>10 DEF PoolInvariant

LEMMA HandshakeFailsStep ==
    ASSUME PoolInvariant, NEW c \in Conn, HandshakeFails(c)
    PROVE  PoolInvariant' /\ Kept
  <1> DEFINE n == conn[c]
  <1>1. NodesTyped /\ RestTyped /\ PoolTyped(pool) /\ NodesLeave
    BY DEF PoolInvariant
  <1>2. /\ n # Null /\ n.stage = "handshake" /\ pool' = Dequeued(pool, n)
        /\ conn' = [conn EXCEPT ![c] = Disconnected(@)]
        /\ UNCHANGED <<nodes, maxClients, stalls, phase, alive>>
    BY DEF HandshakeFails
  <1>3. RestTyped'
    <2>1. faults' \in 0..MaxFaults
      BY <1>1, FaultTyped DEF HandshakeFails, RestTyped
    <2> QED  BY <1>1, <1>2, <2>1 DEF RestTyped
  <1>4. n \in Neonode /\ conn \in [Conn -> Neonode \union {Null}] /\ nodes \in Seq(Conn)
        /\ IsInjective(nodes)
    BY <1>1, <1>2 DEF NodesTyped
  <1>5. Disconnected(n) \in Neonode
    BY <1>4, StageOf
  <1>6. conn' \in [Conn -> Neonode \union {Null}] /\ \A d \in Conn \ {c} : conn'[d] = conn[d]
    BY <1>2, <1>4, <1>5
  <1>7. \A d \in ToSet(nodes') :
           /\ d \in ToSet(nodes) /\ conn'[d] # Null /\ conn'[d].stage = conn[d].stage
           /\ conn'[d].check = conn[d].check /\ conn[d].due \subseteq conn'[d].due
    <2>1. c \notin ToSet(nodes)
      BY <1>1, <1>2, OutsideNodes
    <2> QED  BY <1>1, <1>2, <1>6, <2>1, OutsideNodes
  <1>8. NodesTyped' /\ NodesLeave'
    BY <1>1, <1>2, <1>4, <1>6, <1>7, NodesStay
  <1>9. /\ PoolTyped(pool') /\ Listed(pool') = Listed(pool) /\ pool'.queued = pool.queued \ {n.addr}
        /\ pool'.attempts = pool.attempts
    BY <1>1, <1>2, Dequeues
  <1>10. phase' = "up" => Backed(pool)'
    BY <1>2, <1>6, <1>9, OthersBacked
  <1>11. PoolTyped(pool)'
    BY <1>9 DEF PoolTyped, Pools
  <1> QED  BY <1>3, <1>8, <1>9, <1>10, <1>11, ListsGrow DEF PoolInvariant

\* A connection changes in what it owes and how often it failed.
LEMMA OneNode ==
    ASSUME PoolInvariant, NEW c \in Conn, conn[c] # Null, NEW n \in Neonode,
           conn' = [conn EXCEPT ![c] = n], n.addr = conn[c].addr, n.stage = conn[c].stage,
           n.check = conn[c].check, conn[c].due \subseteq n.due, UNCHANGED <<nodes, phase>>
    PROVE  /\ NodesTyped' /\ NodesLeave' /\ ConnectedAddresses' = ConnectedAddresses
           /\ \A o : Shaking(o) => Shaking(o)'
  <1>1. /\ NodesTyped /\ NodesLeave /\ conn \in [Conn -> Neonode \union {Null}]
        /\ nodes \in Seq(Conn) /\ IsInjective(nodes)
    BY DEF PoolInvariant, NodesTyped
  <1>2. n # Null
    BY NodeManagerAssumption
  <1>3. /\ conn' \in [Conn -> Neonode \union {Null}] /\ conn'[c] = n
        /\ \A d \in Conn : d # c => conn'[d] = conn[d]
    BY <1>1
  <1>4. \A d \in ToSet(nodes) : d \in Conn /\ conn[d] # Null
    BY <1>1, OutsideNodes
  <1>5. \A d \in Conn : conn[d] # Null =>
           /\ conn'[d] # Null /\ conn'[d].stage = conn[d].stage /\ conn'[d].addr = conn[d].addr
           /\ conn'[d].check = conn[d].check /\ conn[d].due \subseteq conn'[d].due
    BY <1>2, <1>3
  <1>6. NodesTyped' /\ NodesLeave'
    BY <1>1, <1>3, <1>4, <1>5, NodesStay
  <1>7. ConnectedAddresses' = ConnectedAddresses
    BY <1>4, <1>5 DEF ConnectedAddresses
  <1>8. \A o : Shaking(o) => Shaking(o)'
    BY <1>5 DEF Shaking
  <1> QED  BY <1>6, <1>7, <1>8

\* What is queued has its attempt or its handshake also when no handshake ends.
LEMMA BackedStays ==
    ASSUME Backed(pool'), \A o : Shaking(o) => Shaking(o)'
    PROVE  Backed(pool)'
  BY DEF Backed

LEMMA PeerClosesStep ==
    ASSUME PoolInvariant, NEW c \in Conn, PeerCloses(c)
    PROVE  PoolInvariant' /\ Kept
  <1> DEFINE n == [conn[c] EXCEPT !.due = @ \union {"eof"}]
  <1>1. RestTyped /\ conn \in [Conn -> Neonode \union {Null}]
    BY DEF PoolInvariant, NodesTyped
  <1>2. /\ conn[c] # Null /\ conn' = [conn EXCEPT ![c] = n]
        /\ UNCHANGED <<pool, nodes, maxClients, stalls, phase, alive>>
    BY DEF PeerCloses, Live
  <1>3. RestTyped'
    <2>1. faults' \in 0..MaxFaults
      BY <1>1, FaultTyped DEF PeerCloses, RestTyped
    <2> QED  BY <1>1, <1>2, <2>1 DEF RestTyped
  <1>4. /\ n \in Neonode /\ n.addr = conn[c].addr /\ n.stage = conn[c].stage
        /\ n.check = conn[c].check /\ conn[c].due \subseteq n.due
    <2>1. conn[c] \in Neonode
      BY <1>1, <1>2
    <2> QED  BY <2>1 DEF Neonode
  <1> HIDE DEF n
  <1>5. NodesTyped' /\ NodesLeave' /\ \A o : Shaking(o) => Shaking(o)'
    BY <1>2, <1>4, OneNode
  <1>6. phase' = "up" => Backed(pool)'
    BY <1>2, <1>5 DEF PoolInvariant, Backed
  <1>7. PoolTyped(pool)' /\ Listed(pool) = Listed(pool')
    BY <1>2 DEF PoolInvariant, PoolTyped, Pools
  <1> QED  BY <1>3, <1>5, <1>6, <1>7, ListsGrow DEF PoolInvariant

LEMMA DisconnectStep ==
    ASSUME PoolInvariant, NEW c \in Conn, NEW d \in {"eof", "lost", "run", "task"}, Disconnect(c, d)
    PROVE  PoolInvariant' /\ Kept
  <1> DEFINE m == [conn[c] EXCEPT !.due = @ \ {d}]
             n == Disconnected(m)
             p == Dequeued(pool, n)
  <1>1. /\ NodesTyped /\ RestTyped /\ PoolTyped(pool) /\ NodesLeave
        /\ conn \in [Conn -> Neonode \union {Null}] /\ nodes \in Seq(Conn) /\ IsInjective(nodes)
    BY DEF PoolInvariant, NodesTyped
  <1>2. /\ conn[c] # Null /\ conn' = [conn EXCEPT ![c] = NextStage(n)]
        /\ pool' = IF n.check /\ d \in {"eof", "lost"} THEN Unhealthy(p, n.addr) ELSE p
        /\ nodes' = RemoveFirst(nodes, c)
        /\ UNCHANGED <<maxClients, stalls, phase, alive, faults>>
    BY DEF Disconnect
  <1>3. conn[c] \in Neonode
    BY <1>1, <1>2
  <1>4. m \in Neonode /\ m.addr = conn[c].addr
    BY <1>3 DEF Neonode
  <1> HIDE DEF m
  <1>5. n \in Neonode /\ n.addr = conn[c].addr
    BY <1>4, StageOf
  <1>6. n.addr \in Anyone
    BY <1>5 DEF Neonode, Anyone
  <1> HIDE DEF n
  <1>7. NextStage(n) \in Neonode \union {Null}
    BY <1>5 DEF NextStage
  <1>8. conn' \in [Conn -> Neonode \union {Null}] /\ \A e \in Conn \ {c} : conn'[e] = conn[e]
    BY <1>1, <1>2, <1>7
  <1>9. /\ nodes' \in Seq(Conn) /\ ToSet(nodes') \subseteq ToSet(nodes)
        /\ IsInjective(nodes') /\ c \notin ToSet(nodes')
    BY <1>1, <1>2, RemoveFirstIs
  <1>10. \A e \in ToSet(nodes') :
           /\ e \in ToSet(nodes) /\ conn'[e] # Null /\ conn'[e].stage = conn[e].stage
           /\ conn'[e].check = conn[e].check /\ conn[e].due \subseteq conn'[e].due
    <2>1. \A e \in ToSet(nodes') : e \in ToSet(nodes) /\ e \in Conn \ {c} /\ conn[e] # Null
      BY <1>1, <1>9, OutsideNodes
    <2> QED  BY <1>8, <2>1
  <1>11. NodesTyped' /\ NodesLeave'
    BY <1>1, <1>2, <1>8, <1>9, <1>10, NodesStay
  <1>12. /\ PoolTyped(p) /\ Listed(p) = Listed(pool) /\ p.queued = pool.queued \ {n.addr}
         /\ p.attempts = pool.attempts
    BY <1>1, Dequeues
  <1> HIDE DEF p
  <1>13. /\ PoolTyped(pool') /\ Listed(pool) \subseteq Listed(pool')
         /\ pool'.queued = pool.queued \ {n.addr} /\ pool'.attempts = pool.attempts
    <2>1. CASE n.check /\ d \in {"eof", "lost"}
      <3>1. pool' = Unhealthy(p, n.addr)
        BY <1>2, <2>1
      <3> QED  BY <1>1, <1>6, <1>12, <3>1, UnhealthyIs
    <2>2. CASE ~ (n.check /\ d \in {"eof", "lost"})
      <3>1. pool' = p
        BY <1>2, <2>2
      <3> QED  BY <1>12, <3>1
    <2> QED  BY <2>1, <2>2
  <1>14. phase' = "up" => Backed(pool)'
    BY <1>2, <1>5, <1>8, <1>13, OthersBacked
  <1>15. PoolTyped(pool)'
    BY <1>13 DEF PoolTyped, Pools
  <1>16. RestTyped'
    BY <1>1, <1>2 DEF RestTyped
  <1> QED  BY <1>11, <1>13, <1>14, <1>15, <1>16, ListsGrow DEF PoolInvariant

\* An error or a timeout is counted; over the limit the node is replaced.
LEMMA CountedStep ==
    ASSUME PoolInvariant, NEW c \in ToSet(nodes), NEW n \in Neonode, NEW over \in BOOLEAN,
           Counted(c, n, over), n.addr = conn[c].addr, n.stage = conn[c].stage,
           n.check = conn[c].check, conn[c].due \subseteq n.due, Replacing, RestTyped',
           UNCHANGED <<nodes, maxClients, phase>>
    PROVE  PoolInvariant' /\ Kept
  <1>1. NodesTyped /\ RestTyped /\ PoolTyped(pool) /\ c \in Conn /\ conn[c] # Null
    BY OutsideNodes DEF PoolInvariant
  <1> DEFINE Right == /\ NodesTyped' /\ NodesLeave' /\ ConnectedAddresses' = ConnectedAddresses
                      /\ \A o : Shaking(o) => Shaking(o)'
                      /\ Grows(pool, pool') /\ (Keeps(pool, pool') \/ InUse(pool') >= maxClients)
  <1>2. ASSUME over PROVE Right
    <2>1. conn' = [conn EXCEPT ![c] = Leave(n)] /\ pool' = Replacement(pool, c)
      BY <1>2 DEF Counted
    <2>2. /\ Leave(n) \in Neonode /\ Leave(n).addr = conn[c].addr
          /\ Leave(n).stage = conn[c].stage /\ Leave(n).check = conn[c].check
          /\ conn[c].due \subseteq Leave(n).due
      BY StageOf
    <2>3. /\ NodesTyped' /\ NodesLeave' /\ ConnectedAddresses' = ConnectedAddresses
          /\ \A o : Shaking(o) => Shaking(o)'
      BY <1>1, <2>1, <2>2, OneNode
    <2>4. Grows(pool, pool') /\ (Keeps(pool, pool') \/ InUse(pool') >= maxClients)
      BY <1>1, <2>1, ReplacesNode
    <2> QED  BY <2>3, <2>4
  <1>3. ASSUME ~ over PROVE Right
    <2>1. conn' = [conn EXCEPT ![c] = n] /\ pool' = pool
      BY <1>3 DEF Counted
    <2>2. /\ NodesTyped' /\ NodesLeave' /\ ConnectedAddresses' = ConnectedAddresses
          /\ \A o : Shaking(o) => Shaking(o)'
      BY <1>1, <2>1, OneNode
    <2>3. Grows(pool, pool') /\ Keeps(pool, pool')
      <3>1. InUse(pool) \in Nat
        BY <1>1, InUseType
      <3> QED  BY <1>1, <2>1, <3>1 DEF Grows, Keeps
    <2> QED  BY <2>2, <2>3
  <1>4. Right
    BY <1>2, <1>3
  <1>5. PoolTyped(pool') /\ (phase' = "up" => Backed(pool'))
    BY <1>4 DEF Grows, PoolInvariant
  <1>6. PoolTyped(pool)' /\ (phase' = "up" => Backed(pool)')
    <2>1. PoolTyped(pool)'
      BY <1>5 DEF PoolTyped, Pools
    <2> QED  BY <1>4, <1>5, <2>1, BackedStays
  <1>7. Kept
    BY <1>4, PoolKeeps
  <1> QED  BY <1>4, <1>6, <1>7 DEF PoolInvariant

LEMMA AddNodeErrorCountStep ==
    ASSUME PoolInvariant, NEW c \in Conn, AddNodeErrorCount(c)
    PROVE  PoolInvariant' /\ Kept
  <1> DEFINE n == [conn[c] EXCEPT !.errors = @ + 1]
  <1>1. /\ c \in ToSet(nodes) /\ Counted(c, n, n.errors > ErrorLimit)
        /\ UNCHANGED <<nodes, maxClients, stalls, phase, alive>>
    BY DEF AddNodeErrorCount
  <1>2. RestTyped'
    <2>1. RestTyped /\ faults' \in 0..MaxFaults
      BY FaultTyped DEF AddNodeErrorCount, PoolInvariant
    <2> QED  BY <1>1, <2>1 DEF RestTyped
  <1>3. conn[c] \in Neonode
    BY <1>1, OutsideNodes DEF PoolInvariant
  <1>4. /\ n \in Neonode /\ n.addr = conn[c].addr /\ n.stage = conn[c].stage
        /\ n.check = conn[c].check /\ conn[c].due \subseteq n.due
    BY <1>3 DEF Neonode
  <1>5. Replacing
    BY DEF Replacing
  <1>6. (n.errors > ErrorLimit) \in BOOLEAN
    OBVIOUS
  <1> HIDE DEF n
  <1> QED  BY <1>1, <1>2, <1>4, <1>5, <1>6, CountedStep

LEMMA AddNodeTimeoutCountStep ==
    ASSUME PoolInvariant, NEW c \in Conn, AddNodeTimeoutCount(c)
    PROVE  PoolInvariant' /\ Kept
  <1> DEFINE n == [conn[c] EXCEPT !.timeouts = @ + 1]
  <1>1. /\ c \in ToSet(nodes) /\ Counted(c, n, n.timeouts > TimeoutLimit)
        /\ UNCHANGED <<nodes, maxClients, stalls, phase, alive>>
    BY DEF AddNodeTimeoutCount
  <1>2. RestTyped'
    <2>1. RestTyped /\ faults' \in 0..MaxFaults
      BY FaultTyped DEF AddNodeTimeoutCount, PoolInvariant
    <2> QED  BY <1>1, <2>1 DEF RestTyped
  <1>3. conn[c] \in Neonode
    BY <1>1, OutsideNodes DEF PoolInvariant
  <1>4. /\ n \in Neonode /\ n.addr = conn[c].addr /\ n.stage = conn[c].stage
        /\ n.check = conn[c].check /\ conn[c].due \subseteq n.due
    BY <1>3 DEF Neonode
  <1>5. Replacing
    BY DEF Replacing
  <1>6. (n.timeouts > TimeoutLimit) \in BOOLEAN
    OBVIOUS
  <1> HIDE DEF n
  <1> QED  BY <1>1, <1>2, <1>4, <1>5, <1>6, CountedStep

LEMMA DisconnectAllStep ==
    ASSUME PoolInvariant, DisconnectAll
    PROVE  PoolInvariant' /\ Kept
  <1>1. /\ NodesTyped /\ RestTyped /\ PoolTyped(pool)
        /\ conn \in [Conn -> Neonode \union {Null}]
    BY DEF PoolInvariant, NodesTyped
  <1>2. /\ phase' = "down" /\ conn' = [c \in Conn |-> IF c \in ToSet(nodes) THEN Leave(conn[c]) ELSE conn[c]]
        /\ UNCHANGED <<pool, nodes, maxClients, stalls, alive, faults>>
    BY DEF DisconnectAll
  <1>3. \A c \in ToSet(nodes) : c \in Conn /\ conn[c] \in Neonode
    BY <1>1, OutsideNodes
  <1>4. \A c \in ToSet(nodes) :
           /\ Leave(conn[c]) \in Neonode /\ Leave(conn[c]).stage = conn[c].stage
           /\ Leave(conn[c]).check = conn[c].check /\ "task" \in Leave(conn[c]).due
    BY <1>3, StageOf
  <1>5. conn' \in [Conn -> Neonode \union {Null}] /\ \A c \in ToSet(nodes) : conn'[c] = Leave(conn[c])
    BY <1>1, <1>2, <1>3, <1>4
  <1>6. \A c \in ToSet(nodes) : Leave(conn[c]) # Null
    BY <1>4, NodeManagerAssumption
  <1>7. NodesTyped' /\ NodesLeave'
    BY <1>1, <1>2, <1>4, <1>5, <1>6 DEF NodesTyped, NodesLeave
  <1>8. RestTyped' /\ phase' # "up"
    BY <1>1, <1>2 DEF RestTyped
  <1>9. PoolTyped(pool)' /\ Listed(pool) = Listed(pool')
    BY <1>1, <1>2 DEF PoolTyped, Pools
  <1> QED  BY <1>7, <1>8, <1>9, ListsGrow DEF PoolInvariant

LEMMA ShutdownStep ==
    ASSUME PoolInvariant, Shutdown
    PROVE  PoolInvariant' /\ Kept
  <1>1. NodesTyped /\ RestTyped /\ PoolTyped(pool) /\ NodesLeave
    BY DEF PoolInvariant
  <1>2. /\ phase' = "stopping" /\ UNCHANGED <<nodes, conn, maxClients, stalls, alive, faults>>
    BY DEF Shutdown
  <1>3. PICK dialling \in SUBSET BagToSet(pool.attempts) :
           pool' = [FoldLeft(Failed, pool, SetToSeq(dialling)) EXCEPT !.attempts = EmptyBag]
    BY DEF Shutdown
  <1> DEFINE p == FoldLeft(Failed, pool, SetToSeq(dialling))
  <1>4. IsFiniteSet(dialling) /\ dialling \subseteq PossibleAttempt
    <2>1. pool.attempts \in Attempts /\ IsFiniteSet(DOMAIN pool.attempts)
      BY <1>1 DEF PoolTyped, Pools
    <2>2. dialling \subseteq DOMAIN pool.attempts
      BY DEF BagToSet
    <2>3. DOMAIN pool.attempts \subseteq PossibleAttempt
      BY <2>1 DEF Attempts
    <2> QED  BY <2>1, <2>2, <2>3, FS_Subset
  <1>5. SetToSeq(dialling) \in Seq(PossibleAttempt)
    <2>1. SetToSeq(dialling) \in Seq(dialling)
      BY <1>4, SetToSeqIs
    <2> QED  BY <1>4, <2>1, SeqMonotonic
  <1>6. PoolTyped(p) /\ Listed(pool) \subseteq Listed(p)
    BY <1>1, <1>5, FailAll
  <1> HIDE DEF p
  <1>7. /\ pool' \in Pools /\ pool'.known = p.known /\ pool'.bad = p.bad
        /\ pool'.queued = p.queued /\ pool'.attempts = EmptyBag
    <2>1. p \in Pools /\ pool' = [p EXCEPT !.attempts = EmptyBag]
      BY <1>3, <1>6 DEF p, PoolTyped
    <2> QED  BY <2>1, NoAttempt DEF Pools
  <1>8. PoolTyped(pool') /\ Listed(pool) \subseteq Listed(pool')
    BY <1>6, <1>7, NoAttempt DEF PoolTyped, Listed
  <1>9. RestTyped'
    BY <1>1, <1>2 DEF RestTyped
  <1> QED  BY <1>2, <1>8, <1>9, PoolChanges, ListsGrow

\* The manager finds the chain stalled and replaces all its nodes.
LEMMA StalledStep ==
    ASSUME PoolInvariant, BlockHealth(FALSE), Stalled(stalls + 1)
    PROVE  PoolInvariant' /\ Kept
  <1>1. /\ NodesTyped /\ RestTyped /\ PoolTyped(pool) /\ NodesLeave
        /\ conn \in [Conn -> Neonode \union {Null}] /\ nodes \in Seq(Conn) /\ IsInjective(nodes)
    BY DEF PoolInvariant, NodesTyped
  <1>2. /\ phase = "up" /\ stalls' = Min({stalls + 1, StallLimit + 1}) /\ Fault("stall")
        /\ pool' = FoldLeft(Replacement, pool, nodes)
        /\ conn' = [c \in Conn |-> IF c \in ToSet(nodes) THEN Leave(conn[c]) ELSE conn[c]]
        /\ UNCHANGED <<nodes, maxClients, phase, alive>>
    BY DEF BlockHealth
  <1>3. /\ Grows(pool, pool') /\ (Keeps(pool, pool') \/ InUse(pool') >= maxClients)
    BY <1>1, <1>2, ReplacesNodes
  <1>4. \A c \in ToSet(nodes) : c \in Conn /\ conn[c] # Null /\ conn[c] \in Neonode
                                 /\ conn[c].stage = "connected"
    BY <1>1, OutsideNodes
  <1>5. \A c \in ToSet(nodes) :
           /\ Leave(conn[c]) \in Neonode /\ Leave(conn[c]).stage = conn[c].stage
           /\ Leave(conn[c]).addr = conn[c].addr /\ Leave(conn[c]).check = conn[c].check
           /\ conn[c].due \subseteq Leave(conn[c]).due
    BY <1>4, StageOf
  <1>6. /\ conn' \in [Conn -> Neonode \union {Null}]
        /\ \A c \in ToSet(nodes) : conn'[c] = Leave(conn[c])
        /\ \A c \in Conn : c \notin ToSet(nodes) => conn'[c] = conn[c]
    BY <1>1, <1>2, <1>4, <1>5
  <1>7. \A c \in ToSet(nodes) : conn'[c] # Null
    BY <1>5, <1>6, NodeManagerAssumption
  <1>8. NodesTyped' /\ NodesLeave'
    <2>1. \A c \in ToSet(nodes') :
             /\ c \in ToSet(nodes) /\ conn'[c] # Null /\ conn'[c].stage = conn[c].stage
             /\ conn'[c].check = conn[c].check /\ conn[c].due \subseteq conn'[c].due
      BY <1>2, <1>5, <1>6, <1>7
    <2> QED  BY <1>1, <1>2, <1>6, <2>1, NodesStay
  <1>9. ConnectedAddresses' = ConnectedAddresses
    BY <1>2, <1>5, <1>6 DEF ConnectedAddresses
  <1>10. \A o : Shaking(o) => Shaking(o)'
    <2> SUFFICES ASSUME NEW o, Shaking(o) PROVE Shaking(o)'
      OBVIOUS
    <2>1. PICK c \in Conn : conn[c] # Null /\ conn[c].addr = o /\ conn[c].stage = "handshake"
      BY DEF Shaking
    <2>2. conn'[c] = conn[c]
      BY <1>4, <1>6, <2>1
    <2> QED  BY <2>1, <2>2 DEF Shaking
  <1>11. PoolTyped(pool)' /\ (phase' = "up" => Backed(pool)')
    <2>1. PoolTyped(pool') /\ Backed(pool')
      BY <1>2, <1>3 DEF Grows, PoolInvariant
    <2>2. PoolTyped(pool)'
      BY <2>1 DEF PoolTyped, Pools
    <2> QED  BY <1>10, <2>1, <2>2, BackedStays
  <1>12. RestTyped'
    <2>1. faults' \in 0..MaxFaults
      BY <1>1, <1>2, FaultTyped
    <2>2. stalls' \in 0..StallLimit + 1
      <3>1. stalls + 1 \in Nat /\ StallLimit + 1 \in Nat
        BY <1>1, NodeManagerAssumption DEF RestTyped
      <3>2. \A i, j \in Nat : Min({i, j}) \in 0..j
        BY MinOfTwo
      <3> QED  BY <1>2, <3>1, <3>2
    <2> QED  BY <1>1, <1>2, <2>1, <2>2 DEF RestTyped
  <1>13. Kept
    <2>1. Replacing
      BY DEF Replacing
    <2> QED  BY <1>2, <1>3, <1>9, <2>1, PoolKeeps
  <1> QED  BY <1>8, <1>11, <1>12, <1>13 DEF PoolInvariant

LEMMA BlockHealthStep ==
    ASSUME PoolInvariant, NEW advanced \in BOOLEAN, BlockHealth(advanced)
    PROVE  PoolInvariant' /\ Kept
  <1>1. CASE ~ advanced /\ Stalled(stalls + 1)
    <2>1. BlockHealth(FALSE)
      BY <1>1
    <2> QED  BY <1>1, <2>1, StalledStep
  <1>2. CASE advanced \/ ~ Stalled(stalls + 1)
    <2>1. /\ UNCHANGED <<pool, conn, faults, nodes, maxClients, phase, alive>>
          /\ stalls' = 0 \/ stalls' = Min({stalls + 1, StallLimit + 1})
      BY <1>2 DEF BlockHealth
    <2>2. RestTyped /\ PoolTyped(pool)
      BY DEF PoolInvariant
    <2>3. stalls' \in 0..StallLimit + 1
      <3>1. stalls + 1 \in Nat /\ StallLimit + 1 \in Nat
        BY <2>2, NodeManagerAssumption DEF RestTyped
      <3>2. \A i, j \in Nat : Min({i, j}) \in 0..j
        BY MinOfTwo
      <3>3. 0 \in 0..StallLimit + 1
        BY <3>1
      <3> QED  BY <2>1, <3>1, <3>2, <3>3
    <2>4. RestTyped'
      BY <2>1, <2>2, <2>3 DEF RestTyped
    <2>5. PoolTyped(pool') /\ (phase' = "up" => Backed(pool')) /\ Listed(pool) = Listed(pool')
      BY <2>1 DEF PoolInvariant
    <2> QED  BY <2>1, <2>4, <2>5, PoolChanges, ListsGrow
  <1> QED  BY <1>1, <1>2

LEMMA ConfigMaxpeersStep ==
    ASSUME PoolInvariant, NEW n \in 1..MaxClients, ConfigMaxpeers(n)
    PROVE  PoolInvariant' /\ Kept
  <1> DEFINE kept == Min({n, Len(nodes)})
             gone == {nodes[i] : i \in kept + 1..Len(nodes)}
             left == pool.queued \ {conn[c].addr : c \in gone}
  <1>1. /\ NodesTyped /\ RestTyped /\ PoolTyped(pool) /\ NodesLeave
        /\ conn \in [Conn -> Neonode \union {Null}] /\ nodes \in Seq(Conn) /\ IsInjective(nodes)
        /\ Len(nodes) \in Nat /\ DOMAIN nodes = 1 .. Len(nodes)
    BY ToSetOf DEF PoolInvariant, NodesTyped
  <1>2. /\ phase = "up" /\ Fault("configure") /\ maxClients' = n
        /\ nodes' = SubSeq(nodes, 1, kept)
        /\ conn' = [c \in Conn |-> IF c \in gone THEN Disconnected(conn[c]) ELSE conn[c]]
        /\ pool' = [pool EXCEPT !.queued = left]
        /\ UNCHANGED <<stalls, phase, alive>>
    BY DEF ConfigMaxpeers
  <1>3. kept \in 0 .. Len(nodes)
    <2>1. n \in Nat
      BY NodeManagerAssumption
    <2> QED  BY <1>1, <2>1, MinOfTwo
  <1> HIDE DEF kept
  <1>4. /\ nodes' \in Seq(Conn) /\ IsInjective(nodes')
        /\ \A x : x \in ToSet(nodes') <=> \E i \in 1 .. kept : nodes[i] = x
    BY <1>1, <1>2, <1>3, FirstOnes
  <1>5. \A i \in kept + 1 .. Len(nodes) : i \in 1 .. Len(nodes)
    BY <1>1, <1>3
  <1>6. \A i \in 1 .. kept : i \in 1 .. Len(nodes) /\ i \notin kept + 1 .. Len(nodes)
    BY <1>1, <1>3
  <1>7. \A x : x \in ToSet(nodes) <=> \E i \in 1 .. Len(nodes) : nodes[i] = x
    BY <1>1, ToSetOf
  <1>8. gone \subseteq ToSet(nodes)
    BY <1>5, <1>7
  <1>9. \A c \in ToSet(nodes') : c \in ToSet(nodes) /\ c \notin gone
    <2> SUFFICES ASSUME NEW i \in 1 .. kept PROVE nodes[i] \in ToSet(nodes) /\ nodes[i] \notin gone
      BY <1>4
    <2>1. nodes[i] \in ToSet(nodes)
      BY <1>6, <1>7
    <2>2. ASSUME NEW j \in kept + 1 .. Len(nodes), nodes[i] = nodes[j] PROVE FALSE
      <3>1. i = j
        BY <1>1, <1>5, <1>6, <2>2 DEF IsInjective
      <3> QED  BY <1>6, <3>1
    <2> QED  BY <2>1, <2>2
  <1> HIDE DEF gone
  <1>10. \A c \in gone : c \in Conn /\ conn[c] # Null /\ conn[c] \in Neonode
                          /\ conn[c].stage = "connected"
    BY <1>1, <1>8, OutsideNodes
  <1>11. \A c \in gone : Disconnected(conn[c]) \in Neonode
    BY <1>10, StageOf
  <1>12. /\ conn' \in [Conn -> Neonode \union {Null}]
         /\ \A c \in Conn : c \notin gone => conn'[c] = conn[c]
    BY <1>1, <1>2, <1>11
  <1>13. NodesTyped' /\ NodesLeave'
    <2>1. \A c \in ToSet(nodes') : c \in Conn /\ conn[c] # Null
      BY <1>1, <1>9, OutsideNodes
    <2>2. \A c \in ToSet(nodes') :
             /\ c \in ToSet(nodes) /\ conn'[c] # Null /\ conn'[c].stage = conn[c].stage
             /\ conn'[c].check = conn[c].check /\ conn[c].due \subseteq conn'[c].due
      BY <1>9, <1>12, <2>1
    <2> QED  BY <1>1, <1>2, <1>4, <1>12, <2>2, NodesStay
  <1> HIDE DEF left
  <1>14. left \subseteq pool.queued
    BY DEF left
  <1>15. /\ pool' \in Pools /\ pool'.known = pool.known /\ pool'.bad = pool.bad
         /\ pool'.queued = left /\ pool'.attempts = pool.attempts
    BY <1>1, <1>2, <1>14 DEF PoolTyped, Pools
  <1>16. PoolTyped(pool)' /\ Listed(pool) = Listed(pool')
    <2>1. IsFiniteSet(left)
      BY <1>1, <1>14, FS_Subset DEF PoolTyped
    <2> QED  BY <1>1, <1>15, <2>1 DEF PoolTyped, Listed
  <1>17. Backed(pool)'
    <2>1. \A o : Shaking(o) => Shaking(o)'
      <3> SUFFICES ASSUME NEW o, Shaking(o) PROVE Shaking(o)'
        OBVIOUS
      <3>1. PICK c \in Conn : conn[c] # Null /\ conn[c].addr = o /\ conn[c].stage = "handshake"
        BY DEF Shaking
      <3>2. conn'[c] = conn[c]
        BY <1>10, <1>12, <3>1
      <3> QED  BY <3>1, <3>2 DEF Shaking
    <2>2. Backed(pool')
      BY <1>2, <1>14, <1>15 DEF PoolInvariant, Backed
    <2> QED  BY <2>1, <2>2, BackedStays
  <1>18. RestTyped'
    <2>1. faults' \in 0..MaxFaults
      BY <1>1, <1>2, FaultTyped
    <2> QED  BY <1>1, <1>2, <2>1 DEF RestTyped
  <1> QED  BY <1>13, <1>16, <1>17, <1>18, ListsGrow DEF PoolInvariant

LEMMA PoolStep ==
    ASSUME PoolInvariant, [Next]_vars
    PROVE  PoolInvariant' /\ Kept
  <1>1. CASE CheckOpenSpots
    BY <1>1, CheckOpenSpotsStep
  <1>2. ASSUME NEW a \in Address, OnAddrReceived(a) PROVE PoolInvariant' /\ Kept
    BY <1>2, OnAddrReceivedStep
  <1>3. ASSUME NEW a \in Address, GoDown(a) PROVE PoolInvariant' /\ Kept
    BY <1>3, GoDownStep
  <1>4. ASSUME NEW x \in PossibleAttempt, Connect(x) PROVE PoolInvariant' /\ Kept
    BY <1>4, ConnectStep
  <1>5. ASSUME NEW x \in PossibleAttempt, ConnectFails(x) PROVE PoolInvariant' /\ Kept
    BY <1>5, ConnectFailsStep
  <1>6. ASSUME NEW g \in Guest, Accept(g) PROVE PoolInvariant' /\ Kept
    BY <1>6, AcceptStep
  <1>7. ASSUME NEW c \in Conn, HandshakeDone(c) PROVE PoolInvariant' /\ Kept
    BY <1>7, HandshakeDoneStep
  <1>8. ASSUME NEW c \in Conn, HandshakeFails(c) PROVE PoolInvariant' /\ Kept
    BY <1>8, HandshakeFailsStep
  <1>9. ASSUME NEW c \in Conn, PeerCloses(c) PROVE PoolInvariant' /\ Kept
    BY <1>9, PeerClosesStep
  <1>10. ASSUME NEW c \in Conn, NEW d \in {"eof", "lost", "run", "task"}, Disconnect(c, d)
         PROVE  PoolInvariant' /\ Kept
    BY <1>10, DisconnectStep
  <1>11. ASSUME NEW c \in Conn, AddNodeErrorCount(c) PROVE PoolInvariant' /\ Kept
    BY <1>11, AddNodeErrorCountStep
  <1>12. ASSUME NEW c \in Conn, AddNodeTimeoutCount(c) PROVE PoolInvariant' /\ Kept
    BY <1>12, AddNodeTimeoutCountStep
  <1>13. ASSUME NEW advanced \in BOOLEAN, BlockHealth(advanced) PROVE PoolInvariant' /\ Kept
    BY <1>13, BlockHealthStep
  <1>14. ASSUME NEW n \in 1..MaxClients, ConfigMaxpeers(n) PROVE PoolInvariant' /\ Kept
    BY <1>14, ConfigMaxpeersStep
  <1>15. CASE Shutdown
    BY <1>15, ShutdownStep
  <1>16. CASE DisconnectAll
    BY <1>16, DisconnectAllStep
  <1>17. CASE UNCHANGED vars
    <2>1. UNCHANGED <<pool, nodes, conn, maxClients, stalls, phase, alive, faults>>
      BY <1>17 DEF vars
    <2>2. RestTyped'
      BY <2>1 DEF PoolInvariant, RestTyped
    <2>3. PoolTyped(pool') /\ (phase' = "up" => Backed(pool')) /\ Listed(pool) = Listed(pool')
      BY <2>1 DEF PoolInvariant
    <2> QED  BY <2>1, <2>2, <2>3, PoolChanges, ListsGrow
  <1> QED  BY <1>1, <1>2, <1>3, <1>4, <1>5, <1>6, <1>7, <1>8, <1>9, <1>10, <1>11, <1>12, <1>13,
              <1>14, <1>15, <1>16, <1>17 DEF Next

-----------------------------------------------------------------------------
(* The results.                                                            *)

\* What the lists, the connections and the tasks under way have to do with each
\* other, after any steps of the manager, its peers, the timers and the callbacks
\* in any order.
THEOREM PoolRight == Spec => []PoolInvariant
  <1>1. PoolInvariant /\ [Next]_vars => PoolInvariant'
    BY PoolStep
  <1> QED  BY <1>1, InitRight, PTL DEF Spec

\* The manager's lists, its connections and their records are what the code
\* takes them for: the nodes in use are different connections whose handshake is
\* done, and none of them was made only to check an address.
THEOREM TypesRight == Spec => []TypeOK
  <1>1. PoolInvariant => TypeOK
    <2> SUFFICES ASSUME PoolInvariant PROVE TypeOK
      OBVIOUS
    <2>1. pool \in Pools /\ NodesTyped /\ RestTyped /\ pool.attempts \in Attempts
      BY DEF PoolInvariant, PoolTyped, Pools
    <2>2. PICK S \in SUBSET PossibleAttempt : pool.attempts \in [S -> Nat \ {0}]
      BY <2>1 DEF Attempts
    <2>3. IsABag(pool.attempts) /\ BagToSet(pool.attempts) \subseteq PossibleAttempt
      BY <2>2 DEF IsABag, BagToSet
    <2> QED  BY <2>1, <2>3 DEF TypeOK, Pools, NodesTyped, RestTyped, Anyone
  <1> QED  BY <1>1, PoolRight, PTL

\* As long as the manager runs, each address that takes a spot without being a node
\* is still to be dialled, or a handshake with it goes on, which gives the spot back
\* when it ends (nodemanager.py:146-158, 284-291, 328-357); and when all nodes have been
\* told to disconnect, each that is left is about to, as no handshake that ends
\* later adds one (nodemanager.py:146-148, 371-377).
THEOREM SpotsComeBack == Spec => []SpotsGivenBack
  <1>1. PoolInvariant => SpotsGivenBack
    BY DEF PoolInvariant, Backed, Shaking, SpotsBacked, SpotsGivenBack
  <1> QED  BY <1>1, PoolRight, PTL

\* No address is lost but where a node is replaced and by then every spot is taken
\* (nodemanager.py:184-192, 284), however many nodes are replaced at once.
THEOREM AddressesAreKept == Spec => AddressesKept
  <1>1. PoolInvariant /\ [Next]_vars =>
           [\A a \in ToSet(pool.known) \union ToSet(pool.bad) :
               a \in Remembered' \/ (Replacing /\ InUse(pool)' >= maxClients)]_vars
    BY PoolStep DEF Kept, Listed
  <1> QED  BY <1>1, PoolRight, PTL DEF Spec, AddressesKept
=============================================================================
