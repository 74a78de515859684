---------------------------- MODULE WalletProofs ----------------------------
(***************************************************************************)
(* Proofs about Wallet, for every genesis block, every other transaction   *)
(* of the network, every length of a portion and every number of steps:    *)
(* what is offered is not in a block, no coin is spent twice, the file     *)
(* follows the memory, and no transaction pays out more than it takes.     *)
(*                                                                         *)
(* The invariant of the first three comes first, then sequences and sets,  *)
(* the operators of Accounts and of Wallet, and the steps; what is needed  *)
(* about money follows with an invariant of its own.                       *)
(***************************************************************************)
EXTENDS Wallet, FiniteSums, SequenceTheorems

Blocks == INSTANCE Folding WITH Op <- AfterBlock
RowWrites == INSTANCE Folding WITH Op <- RowWritten

-----------------------------------------------------------------------------
(* The invariants.                                                         *)

IsSequence(s) == s \in Seq(Range(s))

\* No member of a sequence is there twice, apart from some.
Unrepeated(s, some) ==
    \A i, j \in DOMAIN s : s[i] = s[j] /\ s[i] \notin some => i = j

\* The chain: a transaction is in one block, and what it spends or claims is in an
\* earlier one.
ChainInvariant ==
    /\ IsSequence(chain) /\ Len(chain) > 0
    /\ IsSequence(txs)
    /\ known \subseteq DOMAIN txs /\ OnChain \subseteq DOMAIN txs
    /\ \A i, j \in DOMAIN chain : i # j => chain[i] \cap chain[j] = {}
    /\ \A i \in DOMAIN chain : \A t \in chain[i] :
          \A r \in txs[t].ins \cup txs[t].claims : r[1] \in Below(i - 1)

\* The outputs of all transactions.
Made == Refs(DOMAIN txs)

\* Coins are outputs that were made, and confirmed ones are of the chain.
CoinsRight(coins, made, onChain) ==
    /\ IsFiniteSet(DOMAIN coins)
    /\ coins = [r \in DOMAIN coins |-> coins[r]]
    /\ \A r \in DOMAIN coins :
          /\ r \in made
          /\ "confirmed" \in coins[r] => r[1] \in onChain

\* The file: a contract has one row, and a row of its address that is not watched.
IsFile(file) ==
    file = [coins |-> file.coins, height |-> file.height, tokens |-> file.tokens,
            accounts |-> file.accounts, contracts |-> file.contracts,
            addresses |-> file.addresses]

AddressesRight(contracts, addresses) ==
    /\ addresses = [a \in DOMAIN addresses |-> addresses[a]]
    /\ IsFiniteSet(DOMAIN addresses)
    /\ \A a \in DOMAIN addresses : addresses[a] \in BOOLEAN
    /\ IsSequence(contracts) /\ Unrepeated(contracts, {})
    /\ \A a \in ToSet(contracts) : a \in DOMAIN addresses /\ ~addresses[a]

FileRight(file, made, onChain, top) ==
    /\ IsFile(file)
    /\ AddressesRight(file.contracts, file.addresses)
    /\ file.height \in 0 .. top
    /\ CoinsRight(file.coins, made, onChain)

\* The tasks of an open wallet: either one that syncs is about to start or sleeps, or
\* the handler is subscribed, and a rebuild may be about to start.
Tasks == {<<{"open"}, 0, 0>>, <<{}, 1, 0>>, <<{}, 0, 1>>, <<{"rebuild"}, 0, 1>>}

IsWallet(w) ==
    w = [keys |-> w.keys, contracts |-> w.contracts, tokens |-> w.tokens,
         watch |-> w.watch, coins |-> w.coins, height |-> w.height,
         handlers |-> w.handlers, loops |-> w.loops, starts |-> w.starts]

WalletRight(w, some, made, onChain, top) ==
    /\ IsWallet(w)
    /\ <<w.starts, w.loops, w.handlers>> \in Tasks
    /\ w.height \in 0 .. top
    /\ IsSequence(w.contracts) /\ Unrepeated(w.contracts, {})
    /\ IsSequence(w.watch) /\ Unrepeated(w.watch, some)
    /\ CoinsRight(w.coins, made, onChain)

\* What was spent or claimed in this session is marked so, or is gone from the wallet
\* and in no block that it is still to process.
Marks(refs, flag, coins, onChain, past) ==
    \A r \in refs :
        /\ r[1] \in onChain
        /\ r \in DOMAIN coins => flag \in coins[r]
        /\ r \notin DOMAIN coins => r[1] \in past

AllMarked(spends, coins, onChain, past) ==
    \A i \in DOMAIN spends : /\ Marks(spends[i].ins, "spent", coins, onChain, past)
                             /\ Marks(spends[i].claims, "claimed", coins, onChain, past)

\* The transactions of the blocks that the wallet has behind it.
Past(w) == IF w.handlers = 1 THEN OnChain ELSE Below(w.height)

\* What RowsFollow says of the coins in memory and in the file.
Agree(coins, stored, made, some) ==
    \A r \in DOMAIN coins \cup DOMAIN stored :
        made[r[1]].outs[r[2]].to \notin some =>
            r \in DOMAIN coins /\ r \in DOMAIN stored /\ coins[r] = stored[r]

WalletInvariant ==
    /\ ChainInvariant
    /\ FileRight(rows, Made, OnChain, Height)
    /\ wallet # Null => /\ WalletRight(wallet, doubled, Made, OnChain, Height)
                        /\ AllMarked(sends, wallet.coins, OnChain, Past(wallet))
    /\ IsSequence(sends) /\ SpendsOnce
    /\ OffersUnconfirmed
    /\ RowsFollow

-----------------------------------------------------------------------------
(* Sequences and sets.                                                     *)

LEMMA SequenceIs ==
    ASSUME NEW s, IsSequence(s)
    PROVE  /\ Len(s) \in Nat /\ DOMAIN s = 1 .. Len(s)
           /\ s = [i \in 1 .. Len(s) |-> s[i]]
           /\ \A i \in DOMAIN s : s[i] \in ToSet(s)
           /\ Range(s) = ToSet(s)
  <1>1. /\ Len(s) \in Nat /\ DOMAIN s = 1 .. Len(s)
        /\ s \in [1 .. Len(s) -> Range(s)]
    BY LenProperties DEF IsSequence
  <1> QED  BY <1>1 DEF Range, ToSet

LEMMA IsASequence ==
    ASSUME NEW n \in Nat, NEW s, s = [i \in 1 .. n |-> s[i]]
    PROVE  IsSequence(s) /\ Len(s) = n
  <1>1. DOMAIN s = 1 .. n /\ \A i \in 1 .. n : s[i] \in Range(s)
    BY DEF Range
  <1>2. s \in [1 .. n -> Range(s)]
    BY <1>1
  <1>3. s \in Seq(Range(s))
    BY <1>2, SeqDef
  <1>4. Len(s) = n
    <2>1. Len(s) \in Nat /\ DOMAIN s = 1 .. Len(s)
      BY <1>3, LenProperties
    <2>2. \A m \in Nat : 1 .. m = 1 .. n => m = n
      <3> SUFFICES ASSUME NEW m \in Nat, 1 .. m = 1 .. n PROVE m = n
        OBVIOUS
      <3>1. m > 0 => m \in 1 .. n
        OBVIOUS
      <3>2. n > 0 => n \in 1 .. m
        OBVIOUS
      <3> QED  BY <3>1, <3>2
    <2> QED  BY <1>1, <2>1, <2>2
  <1> QED  BY <1>3, <1>4 DEF IsSequence

LEMMA EmptyIsSequence == IsSequence(<< >>) /\ Len(<< >>) = 0 /\ ToSet(<< >>) = {}
  <1>1. << >> = [i \in 1 .. 0 |-> << >>[i]]
    OBVIOUS
  <1>2. IsSequence(<< >>) /\ Len(<< >>) = 0
    BY <1>1, IsASequence
  <1> QED  BY <1>2, SequenceIs DEF ToSet

LEMMA AppendIs ==
    ASSUME NEW s, IsSequence(s), NEW e
    PROVE  /\ IsSequence(Append(s, e)) /\ Len(Append(s, e)) = Len(s) + 1
           /\ \A i \in 1 .. Len(s) : Append(s, e)[i] = s[i]
           /\ Append(s, e)[Len(s) + 1] = e
           /\ ToSet(Append(s, e)) = ToSet(s) \cup {e}
  <1> DEFINE S == Range(s) \cup {e}
             t == Append(s, e)
  <1>1. s \in Seq(S) /\ e \in S
    BY SeqMonotonic DEF IsSequence
  <1>2. /\ t \in Seq(S) /\ Len(t) = Len(s) + 1 /\ t[Len(s) + 1] = e
        /\ \A i \in 1 .. Len(s) : t[i] = s[i]
    BY <1>1, LenProperties
  <1>3. Len(s) \in Nat /\ Len(s) + 1 \in Nat /\ DOMAIN s = 1 .. Len(s)
    BY SequenceIs
  <1>4. t \in [1 .. Len(s) + 1 -> S] /\ DOMAIN t = 1 .. Len(s) + 1
    BY <1>2, LenProperties
  <1> HIDE DEF t
  <1>5. t = [i \in 1 .. Len(s) + 1 |-> t[i]]
    BY <1>4
  <1>6. IsSequence(t)
    BY <1>3, <1>5, IsASequence
  <1>7. ToSet(t) = ToSet(s) \cup {e}
    BY <1>2, <1>3, <1>4 DEF ToSet
  <1> QED  BY <1>2, <1>6, <1>7 DEF t

LEMMA ConcatIs ==
    ASSUME NEW s, IsSequence(s), NEW t, IsSequence(t)
    PROVE  /\ IsSequence(s \o t) /\ Len(s \o t) = Len(s) + Len(t)
           /\ \A i \in 1 .. Len(s) : (s \o t)[i] = s[i]
           /\ \A i \in 1 .. Len(t) : (s \o t)[Len(s) + i] = t[i]
           /\ ToSet(s \o t) = ToSet(s) \cup ToSet(t)
  <1> DEFINE S == Range(s) \cup Range(t)
             u == s \o t
  <1>1. s \in Seq(S) /\ t \in Seq(S)
    BY SeqMonotonic DEF IsSequence
  <1>2. /\ u \in Seq(S) /\ Len(u) = Len(s) + Len(t)
        /\ \A i \in 1 .. Len(s) + Len(t) : u[i] = IF i <= Len(s) THEN s[i] ELSE t[i - Len(s)]
    BY <1>1, ConcatProperties
  <1>3. /\ Len(s) \in Nat /\ DOMAIN s = 1 .. Len(s)
        /\ Len(t) \in Nat /\ DOMAIN t = 1 .. Len(t)
    BY SequenceIs
  <1>4. u \in [1 .. Len(s) + Len(t) -> S] /\ DOMAIN u = 1 .. Len(s) + Len(t)
    BY <1>2, LenProperties
  <1> HIDE DEF u
  <1>5. u = [i \in 1 .. Len(s) + Len(t) |-> u[i]] /\ Len(s) + Len(t) \in Nat
    BY <1>3, <1>4
  <1>6. IsSequence(u)
    BY <1>5, IsASequence
  <1>7. \A i \in 1 .. Len(s) : u[i] = s[i]
    BY <1>2, <1>3
  <1>8. ASSUME NEW i \in 1 .. Len(t) PROVE u[Len(s) + i] = t[i]
    <2>1. /\ Len(s) + i \in 1 .. Len(s) + Len(t) /\ ~ (Len(s) + i <= Len(s))
          /\ (Len(s) + i) - Len(s) = i
      BY <1>3
    <2> QED  BY <1>2, <2>1
  <1>9. ToSet(u) = ToSet(s) \cup ToSet(t)
    <2>1. \A i \in 1 .. Len(s) : i \in DOMAIN u
      BY <1>3, <1>4
    <2>2. \A i \in 1 .. Len(t) : Len(s) + i \in DOMAIN u
      BY <1>3, <1>4
    <2>3. \A i \in DOMAIN u : i \in 1 .. Len(s) \/ i - Len(s) \in 1 .. Len(t)
      BY <1>3, <1>4
    <2>4. \A i \in DOMAIN u : u[i] \in ToSet(s) \cup ToSet(t)
      <3> SUFFICES ASSUME NEW i \in DOMAIN u PROVE u[i] \in ToSet(s) \cup ToSet(t)
        OBVIOUS
      <3>1. CASE i \in 1 .. Len(s)
        BY <1>3, <1>7, <3>1 DEF ToSet
      <3>2. CASE i - Len(s) \in 1 .. Len(t)
        <4>1. Len(s) + (i - Len(s)) = i
          BY <1>3, <1>4
        <4> QED  BY <1>3, <1>8, <3>2, <4>1 DEF ToSet
      <3> QED  BY <2>3, <3>1, <3>2
    <2>5. \A i \in DOMAIN s : s[i] \in ToSet(u)
      BY <1>3, <1>7, <2>1 DEF ToSet
    <2>6. \A i \in DOMAIN t : t[i] \in ToSet(u)
      BY <1>3, <1>8, <2>2 DEF ToSet
    <2>7. ToSet(u) = {u[i] : i \in DOMAIN u} /\ ToSet(s) = {s[i] : i \in DOMAIN s}
          /\ ToSet(t) = {t[i] : i \in DOMAIN t}
      BY DEF ToSet
    <2> QED  BY <2>4, <2>5, <2>6, <2>7
  <1> QED  BY <1>2, <1>6, <1>7, <1>8, <1>9 DEF u

\* The members of a finite set in an order.
LEMMA SetToSeqIs ==
    ASSUME NEW S, IsFiniteSet(S)
    PROVE  /\ IsSequence(SetToSeq(S)) /\ Len(SetToSeq(S)) = Cardinality(S)
           /\ ToSet(SetToSeq(S)) = S /\ Unrepeated(SetToSeq(S), {})
  <1> DEFINE n == Cardinality(S)
             f == SetToSeq(S)
  <1>1. n \in Nat /\ ExistsBijection(1 .. n, S)
    BY FS_CardinalityType
  <1>2. f \in [1 .. n -> S] /\ IsInjective(f)
    <2>1. \E g \in [1 .. n -> S] : IsInjective(g)
      BY <1>1 DEF ExistsBijection, Bijection, Injection
    <2> QED  BY <2>1 DEF SetToSeq
  <1>3. f \in Surjection(1 .. n, S)
    <2>1. f \in Injection(1 .. n, S)
      BY <1>2 DEF Injection
    <2>2. Cardinality(1 .. n) = n
      BY <1>1, FS_Interval
    <2> HIDE DEF f
    <2> QED  BY <2>1, <2>2, FS_Injection
  <1> HIDE DEF f, n
  <1>4. f = [i \in 1 .. n |-> f[i]] /\ DOMAIN f = 1 .. n
    BY <1>2
  <1>5. IsSequence(f) /\ Len(f) = n
    BY <1>1, <1>4, IsASequence
  <1>6. ToSet(f) = S
    BY <1>2, <1>3, <1>4 DEF ToSet, Surjection
  <1>7. Unrepeated(f, {})
    BY <1>2 DEF Unrepeated, IsInjective
  <1> QED  BY <1>5, <1>6, <1>7 DEF f, n

LEMMA ContainsIs ==
    ASSUME NEW s, IsSequence(s), NEW e
    PROVE  Contains(s, e) <=> e \in ToSet(s)
  BY SequenceIs DEF Contains, ToSet

\* A sequence without its k-th member.
LEMMA RemoveAtIs ==
    ASSUME NEW s, IsSequence(s), NEW k \in 1 .. Len(s)
    PROVE  /\ IsSequence(RemoveAt(s, k)) /\ Len(RemoveAt(s, k)) = Len(s) - 1
           /\ \A i \in 1 .. Len(s) - 1 : RemoveAt(s, k)[i] = IF i < k THEN s[i] ELSE s[i + 1]
  <1> DEFINE S == Range(s)
             a == SubSeq(s, 1, k - 1)
             b == SubSeq(s, k + 1, Len(s))
             t == RemoveAt(s, k)
  <1>1. Len(s) \in Nat /\ DOMAIN s = 1 .. Len(s) /\ k \in Int /\ 1 <= k /\ k <= Len(s)
    BY SequenceIs
  <1>2. \A i \in 1 .. Len(s) : s[i] \in S
    BY <1>1 DEF Range
  <1>3. a \in Seq(S) /\ Len(a) = k - 1 /\ \A i \in 1 .. k - 1 : a[i] = s[i]
    <2>1. 1 \in Int /\ k - 1 \in Int /\ (\A i \in 1 .. k - 1 : s[i] \in S)
      BY <1>1, <1>2
    <2>2. /\ a \in Seq(S) /\ Len(a) = IF 1 <= k - 1 THEN (k - 1) - 1 + 1 ELSE 0
          /\ \A i \in 1 .. (k - 1) - 1 + 1 : a[i] = s[1 + i - 1]
      BY <2>1, SubSeqProperties
    <2> HIDE DEF a
    <2>3. \A i \in 1 .. k - 1 : i \in 1 .. (k - 1) - 1 + 1 /\ 1 + i - 1 = i
      BY <1>1
    <2> QED  BY <1>1, <2>2, <2>3
  <1>4. b \in Seq(S) /\ Len(b) = Len(s) - k /\ \A i \in 1 .. Len(s) - k : b[i] = s[k + i]
    <2>1. k + 1 \in Int /\ Len(s) \in Int /\ (\A i \in k + 1 .. Len(s) : s[i] \in S)
      BY <1>1, <1>2
    <2>2. /\ b \in Seq(S) /\ Len(b) = IF k + 1 <= Len(s) THEN Len(s) - (k + 1) + 1 ELSE 0
          /\ \A i \in 1 .. Len(s) - (k + 1) + 1 : b[i] = s[(k + 1) + i - 1]
      BY <2>1, SubSeqProperties
    <2> HIDE DEF b
    <2>3. \A i \in 1 .. Len(s) - k : i \in 1 .. Len(s) - (k + 1) + 1 /\ (k + 1) + i - 1 = k + i
      BY <1>1
    <2>4. \A i \in 1 .. Len(s) - k : b[i] = s[k + i]
      BY <2>2, <2>3
    <2>5. Len(b) = Len(s) - k
      <3>1. Len(b) = IF k + 1 <= Len(s) THEN Len(s) - (k + 1) + 1 ELSE 0
        BY <2>2
      <3>2. \A m, n \in Int : m <= n => (IF m + 1 <= n THEN n - (m + 1) + 1 ELSE 0) = n - m
        OBVIOUS
      <3>3. k \in Int /\ Len(s) \in Int /\ k <= Len(s)
        BY <1>1
      <3>4. (IF k + 1 <= Len(s) THEN Len(s) - (k + 1) + 1 ELSE 0) = Len(s) - k
        BY <3>2, <3>3
      <3> QED  BY <3>1, <3>4
    <2> QED  BY <2>2, <2>4, <2>5
  <1>5. t = a \o b
    BY DEF RemoveAt
  <1> HIDE DEF a, b, t, S
  <1>6. /\ t \in Seq(S) /\ Len(t) = Len(a) + Len(b)
        /\ \A i \in 1 .. Len(a) + Len(b) : t[i] = IF i <= Len(a) THEN a[i] ELSE b[i - Len(a)]
    BY <1>3, <1>4, <1>5, ConcatProperties
  <1>7. Len(a) + Len(b) = Len(s) - 1 /\ Len(s) - 1 \in Nat
    BY <1>1, <1>3, <1>4
  <1>8. ASSUME NEW i \in 1 .. Len(s) - 1 PROVE t[i] = IF i < k THEN s[i] ELSE s[i + 1]
    <2>1. t[i] = IF i <= k - 1 THEN a[i] ELSE b[i - (k - 1)]
      BY <1>3, <1>6, <1>7
    <2>2. CASE i < k
      <3>1. i \in 1 .. k - 1 /\ i <= k - 1
        BY <1>1, <2>2
      <3> QED  BY <1>3, <2>1, <2>2, <3>1
    <2>3. CASE ~ (i < k)
      <3>1. i - (k - 1) \in 1 .. Len(s) - k /\ ~ (i <= k - 1) /\ k + (i - (k - 1)) = i + 1
        BY <1>1, <2>3
      <3> QED  BY <1>4, <2>1, <2>3, <3>1
    <2> QED  BY <2>2, <2>3
  <1>9. IsSequence(t) /\ Len(t) = Len(s) - 1
    <2>1. t \in [1 .. Len(t) -> S] /\ Len(t) = Len(s) - 1
      BY <1>6, <1>7, LenProperties
    <2>2. t = [i \in 1 .. Len(s) - 1 |-> t[i]]
      BY <2>1
    <2> QED  BY <1>7, <2>2, IsASequence
  <1> QED  BY <1>8, <1>9 DEF t

LEMMA RemoveFirstIs ==
    ASSUME NEW s, IsSequence(s), NEW e
    PROVE  /\ IsSequence(RemoveFirst(s, e))
           /\ ToSet(RemoveFirst(s, e)) \subseteq ToSet(s)
           /\ ToSet(s) \ {e} \subseteq ToSet(RemoveFirst(s, e))
           /\ \A some : Unrepeated(s, some) =>
                 /\ Unrepeated(RemoveFirst(s, e), some)
                 /\ e \notin some => e \notin ToSet(RemoveFirst(s, e))
  <1> DEFINE t == RemoveFirst(s, e)
             at == {i \in 1 .. Len(s) : s[i] = e}
             k == Min(at)
  <1>1. Len(s) \in Nat /\ DOMAIN s = 1 .. Len(s)
    BY SequenceIs
  <1>2. CASE at = {}
    <2>1. t = s
      BY <1>2 DEF RemoveFirst
    <2>2. e \notin ToSet(s)
      BY <1>1, <1>2 DEF ToSet
    <2> HIDE DEF t
    <2>3. IsSequence(t) /\ ToSet(t) = ToSet(s) /\ \A some : Unrepeated(t, some) <=> Unrepeated(s, some)
      BY <2>1
    <2> QED  BY <2>2, <2>3 DEF t
  <1>3. CASE at # {}
    <2>1. at \in SUBSET Nat
      BY <1>1
    <2>2. k \in at
      <3>1. \E n \in at : \A m \in at : n <= m
        BY <1>3, <2>1, Blocks!LeastNat
      <3> HIDE DEF at
      <3> QED  BY <3>1 DEF Min
    <2>3. t = RemoveAt(s, k)
      <3>1. \E i \in 1 .. Len(s) : s[i] = e
        BY <1>3
      <3> QED  BY <1>3, <3>1 DEF RemoveFirst, SelectInSeq
    <2>4. k \in 1 .. Len(s) /\ s[k] = e
      BY <2>2
    <2> HIDE DEF k, at, t
    <2>5. /\ IsSequence(t) /\ Len(t) = Len(s) - 1
          /\ \A i \in 1 .. Len(s) - 1 : t[i] = IF i < k THEN s[i] ELSE s[i + 1]
      BY <2>3, <2>4, RemoveAtIs
    <2>6. DOMAIN t = 1 .. Len(s) - 1
      BY <2>5, SequenceIs
    <2> DEFINE old(i) == IF i < k THEN i ELSE i + 1
    <2>7. \A i \in DOMAIN t : old(i) \in DOMAIN s /\ old(i) # k /\ t[i] = s[old(i)]
      BY <1>1, <2>4, <2>5, <2>6
    <2>8. \A i \in DOMAIN s : i # k => \E j \in DOMAIN t : old(j) = i
      <3> SUFFICES ASSUME NEW i \in DOMAIN s, i # k PROVE \E j \in DOMAIN t : old(j) = i
        OBVIOUS
      <3>1. CASE i < k
        <4>1. i \in DOMAIN t
          BY <1>1, <2>4, <2>6, <3>1
        <4> QED  BY <3>1, <4>1
      <3>2. CASE i > k
        <4>1. i - 1 \in DOMAIN t /\ ~ (i - 1 < k) /\ (i - 1) + 1 = i
          BY <1>1, <2>4, <2>6, <3>2
        <4> QED  BY <4>1
      <3> QED  BY <1>1, <2>4, <3>1, <3>2
    <2>9. \A i, j \in DOMAIN t : old(i) = old(j) => i = j
      BY <1>1, <2>4, <2>6
    <2> HIDE DEF old
    <2>10. ToSet(t) \subseteq ToSet(s) /\ ToSet(s) \ {e} \subseteq ToSet(t)
      <3>1. ToSet(t) \subseteq ToSet(s)
        BY <2>7 DEF ToSet
      <3>2. \A i \in DOMAIN s : s[i] # e => \E j \in DOMAIN t : t[j] = s[i]
        BY <2>4, <2>7, <2>8
      <3> QED  BY <3>1, <3>2 DEF ToSet
    <2>11. ASSUME NEW some, Unrepeated(s, some)
           PROVE  Unrepeated(t, some) /\ (e \notin some => e \notin ToSet(t))
      <3>1. Unrepeated(t, some)
        <4> SUFFICES ASSUME NEW i \in DOMAIN t, NEW j \in DOMAIN t, t[i] = t[j], t[i] \notin some
                     PROVE  i = j
          BY DEF Unrepeated
        <4>1. old(i) = old(j)
          BY <2>7, <2>11 DEF Unrepeated
        <4> QED  BY <2>9, <4>1
      <3>2. ASSUME e \notin some PROVE e \notin ToSet(t)
        <4> SUFFICES ASSUME NEW i \in DOMAIN t, t[i] = e PROVE FALSE
          BY DEF ToSet
        <4>1. old(i) = k
          BY <1>1, <2>4, <2>7, <2>11, <3>2 DEF Unrepeated
        <4> QED  BY <2>7, <4>1
      <3> QED  BY <3>1, <3>2
    <2> QED  BY <2>5, <2>10, <2>11 DEF t
  <1> HIDE DEF t, at
  <1> QED  BY <1>2, <1>3 DEF t

\* What comes new at the end is there once.
LEMMA AppendUnrepeated ==
    ASSUME NEW s, IsSequence(s), NEW some, Unrepeated(s, some), NEW e,
           e \in ToSet(s) => e \in some
    PROVE  Unrepeated(Append(s, e), some)
  <1> DEFINE t == Append(s, e)
  <1>1. /\ IsSequence(t) /\ Len(t) = Len(s) + 1
        /\ \A i \in 1 .. Len(s) : t[i] = s[i]
        /\ t[Len(s) + 1] = e
    BY AppendIs
  <1>2. DOMAIN t = 1 .. Len(s) + 1 /\ DOMAIN s = 1 .. Len(s) /\ Len(s) \in Nat
    BY <1>1, SequenceIs
  <1> HIDE DEF t
  <1> SUFFICES ASSUME NEW i \in DOMAIN t, NEW j \in DOMAIN t, t[i] = t[j], t[i] \notin some
               PROVE  i = j
    BY DEF Unrepeated, t
  <1>3. \A m \in DOMAIN t : m \in DOMAIN s \/ m = Len(s) + 1
    BY <1>2
  <1>4. \A m \in DOMAIN s : t[m] = s[m] /\ s[m] \in ToSet(s)
    BY <1>1, <1>2 DEF ToSet
  <1> QED  BY <1>1, <1>3, <1>4 DEF Unrepeated

-----------------------------------------------------------------------------
(* The chain.                                                              *)

LEMMA BelowIs ==
    ASSUME IsSequence(chain)
    PROVE  /\ \A h \in Nat : Below(h + 1) = Below(h) \cup chain[h + 1]
           /\ \A g, h \in Nat : g <= h => Below(g) \subseteq Below(h)
           /\ \A h \in 0 .. Len(chain) : Below(h) \subseteq OnChain
           /\ \A t : t \in OnChain <=> \E i \in DOMAIN chain : t \in chain[i]
           /\ Below(0) = {}
  <1>1. Len(chain) \in Nat /\ DOMAIN chain = 1 .. Len(chain)
    BY SequenceIs
  <1>2. ASSUME NEW h \in Nat PROVE Below(h + 1) = Below(h) \cup chain[h + 1]
    <2>1. 1 .. h + 1 = (1 .. h) \cup {h + 1}
      OBVIOUS
    <2> QED  BY <2>1 DEF Below
  <1>3. ASSUME NEW g \in Nat, NEW h \in Nat, g <= h PROVE Below(g) \subseteq Below(h)
    <2>1. 1 .. g \subseteq 1 .. h
      BY <1>3
    <2> QED  BY <2>1 DEF Below
  <1>4. \A h \in 0 .. Len(chain) : Below(h) \subseteq OnChain
    BY <1>1, <1>3 DEF OnChain
  <1>5. \A t : t \in OnChain <=> \E i \in DOMAIN chain : t \in chain[i]
    BY <1>1 DEF OnChain, Below
  <1>6. Below(0) = {}
    <2>1. 1 .. 0 = {}
      OBVIOUS
    <2> QED  BY <2>1 DEF Below
  <1> QED  BY <1>2, <1>3, <1>4, <1>5, <1>6

\* One block more.
LEMMA BlockAdded ==
    ASSUME IsSequence(chain), Len(chain) > 0, NEW ids, chain' = Append(chain, ids)
    PROVE  /\ IsSequence(chain)' /\ Len(chain)' = Len(chain) + 1 /\ Height' = Height + 1
           /\ Height \in Nat
           /\ \A i \in DOMAIN chain : i \in DOMAIN chain' /\ chain'[i] = chain[i]
           /\ \A i \in DOMAIN chain' : i \in DOMAIN chain \/ (i = Len(chain) + 1 /\ chain'[i] = ids)
           /\ \A h \in 0 .. Len(chain) : Below(h)' = Below(h)
           /\ OnChain' = OnChain \cup ids
  <1>1. Len(chain) \in Nat /\ DOMAIN chain = 1 .. Len(chain)
    BY SequenceIs
  <1>2. /\ IsSequence(chain') /\ Len(chain') = Len(chain) + 1
        /\ \A i \in 1 .. Len(chain) : chain'[i] = chain[i]
        /\ chain'[Len(chain) + 1] = ids
    BY AppendIs
  <1>3. DOMAIN chain' = 1 .. Len(chain) + 1
    BY <1>2, SequenceIs
  <1>4. IsSequence(chain)'
    BY <1>2 DEF IsSequence
  <1>5. ASSUME NEW h \in 0 .. Len(chain) PROVE Below(h)' = Below(h)
    <2>1. \A i \in 1 .. h : chain'[i] = chain[i]
      BY <1>1, <1>2
    <2> QED  BY <2>1 DEF Below
  <1>6. OnChain' = OnChain \cup ids
    <2>1. OnChain' = UNION {chain'[i] : i \in 1 .. Len(chain')}
      BY DEF OnChain, Below
    <2>2. 1 .. Len(chain') = (1 .. Len(chain)) \cup {Len(chain) + 1}
      BY <1>1, <1>2
    <2>3. OnChain = UNION {chain[i] : i \in 1 .. Len(chain)}
      BY DEF OnChain, Below
    <2> QED  BY <1>2, <2>1, <2>2, <2>3
  <1>7. Height' = Height + 1 /\ Height \in Nat
    BY <1>1, <1>2 DEF Height
  <1> QED  BY <1>1, <1>2, <1>3, <1>4, <1>5, <1>6, <1>7

LEMMA RefsMade ==
    ASSUME NEW ids, ids \subseteq DOMAIN txs
    PROVE  Refs(ids) \subseteq Made
  BY DEF Made, Refs

LEMMA RefsAre ==
    ASSUME NEW ids, NEW r \in Refs(ids)
    PROVE  r[1] \in ids /\ r \in ids \X Places
  BY DEF Refs

\* What a block takes: transactions that are on no block, of coins of the chain.
LEMMA MinableIs ==
    ASSUME ChainInvariant, NEW ids \in Minable
    PROVE  /\ ids \subseteq known /\ ids \subseteq DOMAIN txs /\ ids \cap OnChain = {}
           /\ IsFiniteSet(ids)
           /\ \A t \in ids : \A r \in txs[t].ins \cup txs[t].claims : r[1] \in OnChain
  <1>1. ids \subseteq known \ OnChain
    BY DEF Minable
  <1>2. ids \subseteq DOMAIN txs
    BY <1>1 DEF ChainInvariant
  <1>3. IsFiniteSet(ids)
    <2>1. Len(txs) \in Nat /\ DOMAIN txs = 1 .. Len(txs)
      BY SequenceIs DEF ChainInvariant
    <2>2. IsFiniteSet(1 .. Len(txs))
      BY <2>1, FS_Interval
    <2> QED  BY <1>2, <2>1, <2>2, FS_Subset
  <1>4. \A r \in SpentBy(OnChain) : r[1] \in OnChain
    <2> SUFFICES ASSUME NEW t \in OnChain, NEW r \in txs[t].ins PROVE r[1] \in OnChain
      BY DEF SpentBy
    <2>1. IsSequence(chain) /\ Len(chain) \in Nat /\ DOMAIN chain = 1 .. Len(chain)
      BY SequenceIs DEF ChainInvariant
    <2>2. PICK i \in DOMAIN chain : t \in chain[i]
      BY <2>1, BelowIs
    <2>3. r[1] \in Below(i - 1)
      BY <2>2 DEF ChainInvariant
    <2>4. i - 1 \in 0 .. Len(chain)
      BY <2>1
    <2> QED  BY <2>1, <2>3, <2>4, BelowIs
  <1>5. ASSUME NEW t \in ids, NEW r \in txs[t].ins \cup txs[t].claims PROVE r[1] \in OnChain
    <2>1. txs[t].ins \subseteq Unspent /\ txs[t].claims \subseteq Unclaimed
      BY DEF Minable
    <2>2. CASE r \in txs[t].ins
      BY <2>1, <2>2, RefsAre DEF Unspent
    <2>3. CASE r \in txs[t].claims
      BY <2>1, <2>3, <1>4 DEF Unclaimed
    <2> QED  BY <2>2, <2>3
  <1> QED  BY <1>1, <1>2, <1>3, <1>5

LEMMA ChainLonger ==
    ASSUME ChainInvariant, NEW ids \in Minable, chain' = Append(chain, ids),
           UNCHANGED <<txs, known>>
    PROVE  ChainInvariant'
  <1>1. IsSequence(chain) /\ Len(chain) > 0 /\ Len(chain) \in Nat /\ DOMAIN chain = 1 .. Len(chain)
    BY SequenceIs DEF ChainInvariant
  <1>2. /\ ids \subseteq DOMAIN txs /\ ids \cap OnChain = {}
        /\ \A t \in ids : \A r \in txs[t].ins \cup txs[t].claims : r[1] \in OnChain
    BY MinableIs
  <1>3. /\ IsSequence(chain)' /\ Len(chain)' = Len(chain) + 1
        /\ \A i \in DOMAIN chain : i \in DOMAIN chain' /\ chain'[i] = chain[i]
        /\ \A i \in DOMAIN chain' : i \in DOMAIN chain \/ (i = Len(chain) + 1 /\ chain'[i] = ids)
        /\ \A h \in 0 .. Len(chain) : Below(h)' = Below(h)
        /\ OnChain' = OnChain \cup ids
    BY <1>1, BlockAdded
  <1>4. \A i \in DOMAIN chain : chain[i] \subseteq OnChain
    BY <1>1, BelowIs
  <1>5. ASSUME NEW i \in DOMAIN chain', NEW j \in DOMAIN chain', i # j
        PROVE  chain'[i] \cap chain'[j] = {}
    <2>1. CASE i \in DOMAIN chain /\ j \in DOMAIN chain
      BY <1>3, <1>5, <2>1 DEF ChainInvariant
    <2>2. CASE i \notin DOMAIN chain
      BY <1>2, <1>3, <1>4, <1>5, <2>2
    <2>3. CASE j \notin DOMAIN chain
      BY <1>2, <1>3, <1>4, <1>5, <2>3
    <2> QED  BY <2>1, <2>2, <2>3
  <1>6. ASSUME NEW i \in DOMAIN chain', NEW t \in chain'[i],
               NEW r \in txs'[t].ins \cup txs'[t].claims
        PROVE  r[1] \in Below(i - 1)'
    <2>1. CASE i \in DOMAIN chain
      <3>1. i - 1 \in 0 .. Len(chain)
        BY <1>1, <2>1
      <3>2. t \in chain[i] /\ r \in txs[t].ins \cup txs[t].claims
        BY <1>3, <1>6, <2>1
      <3> QED  BY <1>3, <2>1, <3>1, <3>2 DEF ChainInvariant
    <2>2. CASE i = Len(chain) + 1 /\ t \in ids
      <3>1. i - 1 = Len(chain) /\ Len(chain) \in 0 .. Len(chain)
        BY <1>1, <2>2
      <3>2. Below(i - 1)' = OnChain
        BY <1>3, <3>1 DEF OnChain
      <3> QED  BY <1>2, <1>6, <2>2, <3>2
    <2> QED  BY <1>3, <2>1, <2>2
  <1>7. IsSequence(txs)' /\ known' \subseteq DOMAIN txs' /\ OnChain' \subseteq DOMAIN txs'
    BY <1>2, <1>3 DEF ChainInvariant, IsSequence
  <1>8. Len(chain)' > 0
    BY <1>1, <1>3
  <1> QED  BY <1>3, <1>5, <1>6, <1>7, <1>8 DEF ChainInvariant

\* Transactions are made and none is changed.
Extends == IsSequence(txs)' /\ \A t \in DOMAIN txs : t \in DOMAIN txs' /\ txs'[t] = txs[t]

\* The outputs a transaction t makes when id is its hash.
OutsOf(id, t) == {r \in {id} \X Places : r[2] \in DOMAIN t.outs}

LEMMA MadeMore ==
    ASSUME Extends
    PROVE  /\ Made \subseteq Made'
           /\ \A r \in Made : Output(r)' = Output(r)
           /\ \A id \in DOMAIN txs' : OutsOf(id, txs'[id]) \subseteq Made'
  <1>1. \A r : r \in Made <=> r \in (DOMAIN txs) \X Places /\ r[2] \in DOMAIN txs[r[1]].outs
    BY DEF Made, Refs
  <1>2. \A r : r \in Made' <=> r \in (DOMAIN txs') \X Places /\ r[2] \in DOMAIN txs'[r[1]].outs
    BY DEF Made, Refs
  <1>3. ASSUME NEW r \in (DOMAIN txs) \X Places
        PROVE  r \in (DOMAIN txs') \X Places /\ txs'[r[1]] = txs[r[1]]
    <2>1. r[1] \in DOMAIN txs /\ r[2] \in Places /\ r = <<r[1], r[2]>>
      OBVIOUS
    <2>2. r[1] \in DOMAIN txs' /\ txs'[r[1]] = txs[r[1]]
      BY <2>1 DEF Extends
    <2>3. <<r[1], r[2]>> \in (DOMAIN txs') \X Places
      BY <2>1, <2>2
    <2> QED  BY <2>1, <2>2, <2>3
  <1>4. ASSUME NEW id \in DOMAIN txs', NEW r \in OutsOf(id, txs'[id])
        PROVE  r \in (DOMAIN txs') \X Places /\ r[2] \in DOMAIN txs'[r[1]].outs
    <2>1. r \in {id} \X Places /\ r[2] \in DOMAIN txs'[id].outs
      BY DEF OutsOf
    <2>2. r[1] = id /\ r[2] \in Places /\ r = <<r[1], r[2]>>
      BY <2>1
    <2>3. <<r[1], r[2]>> \in (DOMAIN txs') \X Places
      BY <2>2
    <2> QED  BY <2>1, <2>2, <2>3
  <1>5. \A r \in Made : Output(r)' = Output(r)
    BY <1>1, <1>3 DEF Output
  <1> QED  BY <1>1, <1>2, <1>3, <1>4, <1>5

LEMMA ChainKept ==
    ASSUME ChainInvariant, chain' = chain, Extends, known' \subseteq DOMAIN txs'
    PROVE  /\ ChainInvariant' /\ OnChain' = OnChain /\ Height' = Height
           /\ \A h : Below(h)' = Below(h)
  <1>1. OnChain' = OnChain /\ Height' = Height /\ \A h : Below(h)' = Below(h)
    BY DEF OnChain, Height, Below
  <1>2. \A i \in DOMAIN chain : chain[i] \subseteq DOMAIN txs
    BY BelowIs DEF ChainInvariant
  <1>3. \A i \in DOMAIN chain : \A t \in chain[i] : \A r \in txs'[t].ins \cup txs'[t].claims :
           r[1] \in Below(i - 1)
    BY <1>2 DEF ChainInvariant, Extends
  <1>4. OnChain' \subseteq DOMAIN txs'
    BY <1>1 DEF ChainInvariant, Extends
  <1> QED  BY <1>1, <1>3, <1>4 DEF ChainInvariant, Extends, IsSequence

-----------------------------------------------------------------------------
(* What a block or a transaction does to the coins.                        *)

LEMMA PlacesFinite == IsFiniteSet(Places)
  <1>1. \A n \in Int : IsFiniteSet(1 .. n)
    BY FS_Interval
  <1>2. 3 \in Int
    OBVIOUS
  <1> QED  BY <1>1, <1>2, Zenon DEF Places

LEMMA MineIs ==
    ASSUME NEW ids, IsFiniteSet(ids)
    PROVE  IsFiniteSet(Mine(ids)) /\ \A r \in Mine(ids) : r[1] \in ids
  <1>1. \A r \in Mine(ids) : r \in Refs(ids)
    BY DEF Mine
  <1>2. Mine(ids) \in SUBSET (ids \X Places)
    BY <1>1, RefsAre
  <1>3. IsFiniteSet(ids \X Places)
    BY PlacesFinite, FS_Product
  <1>4. IsFiniteSet(Mine(ids))
    BY <1>2, <1>3, FS_Subset
  <1> QED  BY <1>1, <1>4, RefsAre

\* What a step makes of coins: those that are new or changed are where they belong.
DeltaRight(d, coins, made, onChain) ==
    /\ IsFiniteSet(d.added \cup d.changed) /\ IsFiniteSet(d.deleted)
    /\ d.added \cup d.changed \subseteq DOMAIN d.state
    /\ DOMAIN coins \subseteq DOMAIN d.state
    /\ CoinsRight(d.state, made, onChain)
    /\ \A r \in DOMAIN d.state \ (d.added \cup d.changed) :
          r \in DOMAIN coins /\ d.state[r] = coins[r]

LEMMA DeltaIs ==
    ASSUME NEW coins, NEW made, NEW onChain, CoinsRight(coins, made, onChain),
           NEW ids, IsFiniteSet(ids), Refs(ids) \subseteq made, ids \subseteq onChain,
           \A t \in ids : \A r \in txs[t].ins : r[1] \in onChain
    PROVE  /\ DeltaRight(Delta(coins, ids), coins, made, onChain)
           /\ Delta(coins, ids).state = Marked(coins, ids)
           /\ DOMAIN Marked(coins, ids) = DOMAIN coins \cup Mine(ids)
           /\ \A r \in DOMAIN coins : coins[r] \subseteq Marked(coins, ids)[r]
           /\ Delta(coins, ids).added = Mine(ids) \ DOMAIN coins
           /\ \A r \in Delta(coins, ids).deleted :
                 r \in SpentBy(ids) \cup ClaimedBy(ids)
  <1> DEFINE d == Delta(coins, ids)
             m == Marked(coins, ids)
  <1>1. IsFiniteSet(Mine(ids)) /\ Mine(ids) \subseteq Refs(ids) /\ \A r \in Mine(ids) : r[1] \in ids
    BY MineIs DEF Mine
  <1>2. /\ DOMAIN m = DOMAIN coins \cup Mine(ids)
        /\ m = [r \in DOMAIN m |-> m[r]]
    BY DEF Marked
  <1>3. IsFiniteSet(DOMAIN m)
    <2>1. IsFiniteSet(DOMAIN coins)
      BY DEF CoinsRight
    <2>2. IsFiniteSet(DOMAIN coins \cup Mine(ids))
      BY <1>1, <2>1, FS_Union
    <2> QED  BY <1>2, <2>2
  <1>4. /\ d.state = m
        /\ d.added = Mine(ids) \ DOMAIN coins
        /\ d.changed \in SUBSET DOMAIN m /\ d.deleted \in SUBSET DOMAIN m
        /\ \A r \in DOMAIN m : r \in SpentBy(ids) /\ Output(r).asset = Share => r \in d.changed
        /\ \A r \in Mine(ids) \cap DOMAIN coins : r \in d.changed
        /\ \A r \in d.deleted : r \in SpentBy(ids) \cup ClaimedBy(ids)
    BY <1>2 DEF Delta
  <1>5. ASSUME NEW r \in DOMAIN coins PROVE coins[r] \subseteq m[r]
    BY DEF Marked
  <1>6. ASSUME NEW r \in DOMAIN m, "confirmed" \in m[r] PROVE r[1] \in onChain
    <2>1. CASE r \in Mine(ids)
      BY <1>1, <2>1
    <2>2. CASE r \in SpentBy(ids)
      BY <2>2 DEF SpentBy
    <2>3. CASE r \notin Mine(ids) /\ r \notin SpentBy(ids)
      <3>1. r \in DOMAIN coins
        BY <1>2, <2>3
      <3>2. m[r] = coins[r]
        BY <2>3, <3>1 DEF Marked
      <3> QED  BY <1>6, <3>1, <3>2 DEF CoinsRight
    <2> QED  BY <2>1, <2>2, <2>3
  <1>7. \A r \in DOMAIN m : r \in made
    BY <1>1, <1>2 DEF CoinsRight
  <1>8. ASSUME NEW r \in DOMAIN m, r \notin d.added, r \notin d.changed
        PROVE  r \in DOMAIN coins /\ m[r] = coins[r]
    <2>1. r \in DOMAIN coins /\ r \notin Mine(ids) /\ ~ (r \in SpentBy(ids) /\ Output(r).asset = Share)
      BY <1>2, <1>4, <1>8
    <2> QED  BY <2>1 DEF Marked
  <1> HIDE DEF d, m
  <1>9. CoinsRight(m, made, onChain)
    BY <1>2, <1>3, <1>6, <1>7 DEF CoinsRight
  <1>10. /\ d.added \cup d.changed \in SUBSET DOMAIN m /\ d.deleted \in SUBSET DOMAIN m
         /\ DOMAIN coins \subseteq DOMAIN m
    BY <1>2, <1>4
  <1>11. IsFiniteSet(d.added \cup d.changed) /\ IsFiniteSet(d.deleted)
    BY <1>3, <1>10, FS_Subset
  <1>12. DeltaRight(d, coins, made, onChain)
    BY <1>4, <1>8, <1>9, <1>10, <1>11 DEF DeltaRight
  <1> QED  BY <1>2, <1>4, <1>5, <1>12 DEF d, m

\* The writes of a step save what is new or changed, and delete.
LEMMA DoneIs ==
    ASSUME NEW d, IsFiniteSet(d.added \cup d.changed), IsFiniteSet(d.deleted)
    PROVE  /\ Len(Writes(d)) \in Nat
           /\ \A n \in 0 .. Len(Writes(d)) :
                 /\ Done(d, n, "save") \subseteq d.added \cup d.changed
                 /\ Done(d, n, "delete") \subseteq d.deleted
           /\ Done(d, Len(Writes(d)), "save") = d.added \cup d.changed
           /\ Done(d, Len(Writes(d)), "delete") = d.deleted
  <1> DEFINE S == SetToSeq(d.added \cup d.changed)
             T == SetToSeq(d.deleted)
             save(c) == [op |-> "save", coin |-> c]
             delete(c) == [op |-> "delete", coin |-> c]
             sw == [i \in DOMAIN S |-> save(S[i])]
             dw == [i \in DOMAIN T |-> delete(T[i])]
             W == Writes(d)
  <1>1. /\ IsSequence(S) /\ ToSet(S) = d.added \cup d.changed
        /\ IsSequence(T) /\ ToSet(T) = d.deleted
    BY SetToSeqIs
  <1>2. W = sw \o dw
    BY DEF Writes
  <1> HIDE DEF S, T, W
  <1>3. /\ IsSequence(sw)
        /\ \A w \in ToSet(sw) : \E c \in ToSet(S) : w = save(c)
        /\ \A c \in ToSet(S) : save(c) \in ToSet(sw)
    <2>1. Len(S) \in Nat /\ DOMAIN S = 1 .. Len(S)
      BY <1>1, SequenceIs
    <2>2. sw = [i \in 1 .. Len(S) |-> sw[i]] /\ DOMAIN sw = DOMAIN S
      BY <2>1
    <2>3. \A i \in DOMAIN S : sw[i] = save(S[i])
      OBVIOUS
    <2> HIDE DEF sw, save
    <2>4. IsSequence(sw)
      BY <2>1, <2>2, IsASequence
    <2>5. /\ \A w : w \in ToSet(sw) <=> \E i \in DOMAIN S : w = sw[i]
          /\ \A c : c \in ToSet(S) <=> \E i \in DOMAIN S : c = S[i]
      BY <2>2 DEF ToSet
    <2>6. \A x \in ToSet(sw) : \E c \in ToSet(S) : x = save(c)
      BY <2>3, <2>5
    <2>7. \A c \in ToSet(S) : save(c) \in ToSet(sw)
      BY <2>3, <2>5
    <2> QED  BY <2>4, <2>6, <2>7
  <1>4. /\ IsSequence(dw)
        /\ \A w \in ToSet(dw) : \E c \in ToSet(T) : w = delete(c)
        /\ \A c \in ToSet(T) : delete(c) \in ToSet(dw)
    <2>1. Len(T) \in Nat /\ DOMAIN T = 1 .. Len(T)
      BY <1>1, SequenceIs
    <2>2. dw = [i \in 1 .. Len(T) |-> dw[i]] /\ DOMAIN dw = DOMAIN T
      BY <2>1
    <2>3. \A i \in DOMAIN T : dw[i] = delete(T[i])
      OBVIOUS
    <2> HIDE DEF dw, delete
    <2>4. IsSequence(dw)
      BY <2>1, <2>2, IsASequence
    <2>5. /\ \A w : w \in ToSet(dw) <=> \E i \in DOMAIN T : w = dw[i]
          /\ \A c : c \in ToSet(T) <=> \E i \in DOMAIN T : c = T[i]
      BY <2>2 DEF ToSet
    <2>6. \A x \in ToSet(dw) : \E c \in ToSet(T) : x = delete(c)
      BY <2>3, <2>5
    <2>7. \A c \in ToSet(T) : delete(c) \in ToSet(dw)
      BY <2>3, <2>5
    <2> QED  BY <2>4, <2>6, <2>7
  <1> HIDE DEF sw, dw
  <1>5. IsSequence(W) /\ ToSet(W) = ToSet(sw) \cup ToSet(dw)
    BY <1>2, <1>3, <1>4, ConcatIs
  <1>6. Len(W) \in Nat /\ DOMAIN W = 1 .. Len(W) /\ W \in Seq(Range(W))
    BY <1>5, SequenceIs DEF IsSequence
  <1>7. ASSUME NEW n \in 0 .. Len(W) PROVE ToSet(SubSeq(W, 1, n)) \subseteq ToSet(W)
    <2>1. SubSeq(W, 1, n) = Restrict(W, 1 .. n)
      BY <1>6, SubSeqRestrict
    <2> QED  BY <1>6, <2>1 DEF ToSet, Restrict
  <1>8. SubSeq(W, 1, Len(W)) = W
    BY <1>6, SubSeqFull
  <1>9. \A n : Done(d, n, "save") = {w.coin : w \in {w \in ToSet(SubSeq(W, 1, n)) : w.op = "save"}}
               /\ Done(d, n, "delete") = {w.coin : w \in {w \in ToSet(SubSeq(W, 1, n)) : w.op = "delete"}}
    BY DEF Done, W
  <1>10. /\ \A w \in ToSet(W) : w.op = "save" => w.coin \in d.added \cup d.changed
         /\ \A w \in ToSet(W) : w.op = "delete" => w.coin \in d.deleted
    BY <1>1, <1>3, <1>4, <1>5
  <1>11. /\ \A c \in d.added \cup d.changed : \E w \in ToSet(W) : w.op = "save" /\ w.coin = c
         /\ \A c \in d.deleted : \E w \in ToSet(W) : w.op = "delete" /\ w.coin = c
    <2>1. ASSUME NEW c \in d.added \cup d.changed
          PROVE  \E w \in ToSet(W) : w.op = "save" /\ w.coin = c
      <3>1. save(c) \in ToSet(W)
        BY <1>1, <1>3, <1>5
      <3> QED  BY <3>1
    <2>2. ASSUME NEW c \in d.deleted
          PROVE  \E w \in ToSet(W) : w.op = "delete" /\ w.coin = c
      <3>1. delete(c) \in ToSet(W)
        BY <1>1, <1>4, <1>5
      <3> QED  BY <3>1
    <2> QED  BY <2>1, <2>2
  <1>12. \A n \in 0 .. Len(W) : /\ Done(d, n, "save") \subseteq d.added \cup d.changed
                                /\ Done(d, n, "delete") \subseteq d.deleted
    BY <1>7, <1>9, <1>10
  <1>13. Done(d, Len(W), "save") = d.added \cup d.changed /\ Done(d, Len(W), "delete") = d.deleted
    <2>1. /\ Done(d, Len(W), "save") = {w.coin : w \in {w \in ToSet(W) : w.op = "save"}}
          /\ Done(d, Len(W), "delete") = {w.coin : w \in {w \in ToSet(W) : w.op = "delete"}}
      BY <1>8, <1>9
    <2>2. \A c \in d.added \cup d.changed : c \in Done(d, Len(W), "save")
      BY <1>11, <2>1
    <2>3. \A c \in d.deleted : c \in Done(d, Len(W), "delete")
      BY <1>11, <2>1
    <2>4. Len(W) \in 0 .. Len(W)
      BY <1>6
    <2> QED  BY <1>12, <2>2, <2>3, <2>4
  <1> QED  BY <1>6, <1>12, <1>13 DEF W

\* The rows after some of the writes of a step.
LEMMA WrittenIs ==
    ASSUME NEW d, NEW coins, NEW made, NEW onChain, DeltaRight(d, coins, made, onChain),
           NEW r, CoinsRight(r, made, onChain), NEW n \in 0 .. Len(Writes(d))
    PROVE  CoinsRight(Written(r, d, n), made, onChain)
  <1> DEFINE w == Written(r, d, n)
             S == Done(d, n, "save")
             saved == S \cap ((d.added \ d.homeless) \cup DOMAIN r)
             left == (DOMAIN r \cup saved) \ Done(d, n, "delete")
  <1>1. S \subseteq d.added \cup d.changed
    BY DoneIs DEF DeltaRight
  <1>2. saved \subseteq DOMAIN d.state
    BY <1>1 DEF DeltaRight
  <1>3. w = [c \in left |-> IF c \in saved THEN d.state[c] ELSE r[c]]
    BY DEF Written
  <1>4. left \subseteq DOMAIN r \cup saved
    OBVIOUS
  <1> HIDE DEF w, saved, left
  <1>5. DOMAIN w = left /\ w = [c \in left |-> w[c]]
    BY <1>3
  <1>6. IsFiniteSet(left)
    <2>1. IsFiniteSet(DOMAIN r) /\ IsFiniteSet(DOMAIN d.state)
      BY DEF CoinsRight, DeltaRight
    <2>2. IsFiniteSet(DOMAIN r \cup DOMAIN d.state)
      BY <2>1, FS_Union
    <2>3. left \in SUBSET (DOMAIN r \cup DOMAIN d.state)
      BY <1>2, <1>4
    <2> QED  BY <2>2, <2>3, FS_Subset
  <1>7. ASSUME NEW c \in left PROVE c \in made /\ ("confirmed" \in w[c] => c[1] \in onChain)
    <2>1. CASE c \in saved
      <3>1. w[c] = d.state[c] /\ c \in DOMAIN d.state
        BY <1>2, <1>3, <2>1
      <3> QED  BY <3>1 DEF DeltaRight, CoinsRight
    <2>2. CASE c \notin saved
      <3>1. w[c] = r[c] /\ c \in DOMAIN r
        BY <1>3, <1>4, <2>2
      <3> QED  BY <3>1 DEF CoinsRight
    <2> QED  BY <2>1, <2>2
  <1>8. CoinsRight(w, made, onChain)
    BY <1>5, <1>6, <1>7 DEF CoinsRight
  <1> QED  BY <1>8 DEF w

\* The rows w after all of them: rows are written of coins that are new, unless homeless,
\* and of changed ones that have a row.
Rewritten(w, r, d) ==
    LET saved == (d.added \cup d.changed) \cap ((d.added \ d.homeless) \cup DOMAIN r)
    IN /\ DOMAIN w = (DOMAIN r \cup saved) \ d.deleted
       /\ \A c \in DOMAIN w : w[c] = IF c \in saved THEN d.state[c] ELSE r[c]

LEMMA AllWritten ==
    ASSUME NEW d, NEW coins, NEW made, NEW onChain, DeltaRight(d, coins, made, onChain),
           NEW r, CoinsRight(r, made, onChain)
    PROVE  /\ CoinsRight(OnCoinsChanged(r, d), made, onChain)
           /\ Rewritten(OnCoinsChanged(r, d), r, d)
  <1> DEFINE n == Len(Writes(d))
             w == OnCoinsChanged(r, d)
             saved == (d.added \cup d.changed) \cap ((d.added \ d.homeless) \cup DOMAIN r)
  <1>1. /\ n \in Nat
        /\ Done(d, n, "save") = d.added \cup d.changed
        /\ Done(d, n, "delete") = d.deleted
    BY DoneIs DEF DeltaRight
  <1>2. n \in 0 .. Len(Writes(d)) /\ w = Written(r, d, n)
    BY <1>1 DEF OnCoinsChanged
  <1>3. CoinsRight(w, made, onChain)
    BY <1>2, WrittenIs
  <1>4. w = [c \in (DOMAIN r \cup saved) \ d.deleted |-> IF c \in saved THEN d.state[c] ELSE r[c]]
    BY <1>1, <1>2 DEF Written
  <1> HIDE DEF w, saved
  <1>5. DOMAIN w = (DOMAIN r \cup saved) \ d.deleted
    BY <1>4
  <1>6. \A c \in DOMAIN w : w[c] = IF c \in saved THEN d.state[c] ELSE r[c]
    BY <1>4, <1>5
  <1>7. Rewritten(w, r, d)
    BY <1>5, <1>6 DEF saved, Rewritten
  <1> QED  BY <1>3, <1>7 DEF w

\* A block in a wallet whose coins and rows are where they belong.
LEMMA AfterBlockIs ==
    ASSUME NEW acc, NEW made, NEW onChain,
           CoinsRight(acc.coins, made, onChain), CoinsRight(acc.rows, made, onChain),
           NEW ids, IsFiniteSet(ids), Refs(ids) \subseteq made, ids \subseteq onChain,
           \A t \in ids : \A r \in txs[t].ins : r[1] \in onChain
    PROVE  /\ CoinsRight(AfterBlock(acc, ids).coins, made, onChain)
           /\ CoinsRight(AfterBlock(acc, ids).rows, made, onChain)
           /\ \A r \in DOMAIN acc.coins :
                 IF r \in DOMAIN AfterBlock(acc, ids).coins
                 THEN acc.coins[r] \subseteq AfterBlock(acc, ids).coins[r]
                 ELSE r \in SpentBy(ids) \cup ClaimedBy(ids)
           /\ \A r \in DOMAIN AfterBlock(acc, ids).coins \ DOMAIN acc.coins : r[1] \in ids
           /\ \A some :
                 /\ Agree(acc.coins, acc.rows, txs, some)
                 /\ \A r \in Mine(ids) : Output(r).to \notin some => Output(r).to \in DOMAIN rows.addresses
                 => Agree(AfterBlock(acc, ids).coins, AfterBlock(acc, ids).rows, txs, some)
  <1> DEFINE d == Delta(acc.coins, ids)
             m == Marked(acc.coins, ids)
             c == AfterBlock(acc, ids).coins
             w == AfterBlock(acc, ids).rows
             saved == (d.added \cup d.changed) \cap ((d.added \ d.homeless) \cup DOMAIN acc.rows)
  <1>1. /\ DeltaRight(d, acc.coins, made, onChain)
        /\ d.state = m
        /\ DOMAIN m = DOMAIN acc.coins \cup Mine(ids)
        /\ \A r \in DOMAIN acc.coins : acc.coins[r] \subseteq m[r]
        /\ d.added = Mine(ids) \ DOMAIN acc.coins
        /\ \A r \in d.deleted : r \in SpentBy(ids) \cup ClaimedBy(ids)
    BY DeltaIs
  <1>2. c = ProcessNewBlock(acc.coins, ids) /\ w = OnCoinsChanged(acc.rows, d)
    BY DEF AfterBlock
  <1>3. c = [r \in DOMAIN d.state \ d.deleted |-> d.state[r]]
    BY <1>2 DEF ProcessNewBlock, Restrict
  <1>4. d.homeless = {r \in Mine(ids) : Output(r).to \notin DOMAIN rows.addresses}
    BY DEF Delta
  <1> HIDE DEF d, m, c, w
  <1>5. /\ CoinsRight(w, made, onChain)
        /\ DOMAIN w = (DOMAIN acc.rows \cup saved) \ d.deleted
        /\ \A r \in DOMAIN w : w[r] = IF r \in saved THEN d.state[r] ELSE acc.rows[r]
    <2>1. CoinsRight(w, made, onChain) /\ Rewritten(w, acc.rows, d)
      BY <1>1, <1>2, AllWritten
    <2> QED  BY <2>1 DEF Rewritten
  <1>6. /\ DOMAIN c = DOMAIN d.state \ d.deleted
        /\ \A r \in DOMAIN c : c[r] = d.state[r]
        /\ c = [r \in DOMAIN c |-> c[r]]
    BY <1>3
  <1>7. CoinsRight(c, made, onChain)
    <2>1. IsFiniteSet(DOMAIN c)
      <3>1. IsFiniteSet(DOMAIN d.state) /\ DOMAIN c \in SUBSET DOMAIN d.state
        BY <1>1, <1>6 DEF DeltaRight, CoinsRight
      <3> QED  BY <3>1, FS_Subset
    <2>2. \A r \in DOMAIN c : r \in made /\ ("confirmed" \in c[r] => r[1] \in onChain)
      BY <1>1, <1>6 DEF DeltaRight, CoinsRight
    <2> QED  BY <1>6, <2>1, <2>2 DEF CoinsRight
  <1>8. \A r \in DOMAIN acc.coins : IF r \in DOMAIN c THEN acc.coins[r] \subseteq c[r]
                                    ELSE r \in SpentBy(ids) \cup ClaimedBy(ids)
    BY <1>1, <1>6
  <1>9. \A r \in DOMAIN c \ DOMAIN acc.coins : r[1] \in ids
    <2>1. \A r \in DOMAIN c \ DOMAIN acc.coins : r \in Mine(ids)
      BY <1>1, <1>6
    <2> QED  BY <2>1, MineIs
  <1>10. ASSUME NEW some, Agree(acc.coins, acc.rows, txs, some),
                \A r \in Mine(ids) : Output(r).to \notin some => Output(r).to \in DOMAIN rows.addresses
         PROVE  Agree(c, w, txs, some)
    <2> SUFFICES ASSUME NEW r \in DOMAIN c \cup DOMAIN w, txs[r[1]].outs[r[2]].to \notin some
                 PROVE  r \in DOMAIN c /\ r \in DOMAIN w /\ c[r] = w[r]
      BY DEF Agree
    <2>1. r \notin d.deleted
      BY <1>5, <1>6
    <2>2. r \in DOMAIN acc.coins \cup DOMAIN acc.rows =>
             r \in DOMAIN acc.coins /\ r \in DOMAIN acc.rows /\ acc.coins[r] = acc.rows[r]
      BY <1>10 DEF Agree
    <2>3. r \in Mine(ids) => r \notin d.homeless
      BY <1>4, <1>10 DEF Output
    <2>4. r \in DOMAIN d.state
      BY <1>1, <1>5, <1>6, <2>2
    <2>5. CASE r \in d.added \cup d.changed
      <3>1. r \in saved
        BY <1>1, <2>2, <2>3, <2>4, <2>5
      <3> QED  BY <1>5, <1>6, <2>1, <2>4, <3>1
    <2>6. CASE r \notin d.added \cup d.changed
      <3>1. r \notin saved
        BY <2>6
      <3>2. r \in DOMAIN acc.coins /\ d.state[r] = acc.coins[r]
        BY <1>1, <2>4, <2>6 DEF DeltaRight
      <3> QED  BY <1>5, <1>6, <2>1, <2>2, <2>4, <3>1, <3>2
    <2> QED  BY <2>5, <2>6
  <1> QED  BY <1>5, <1>7, <1>8, <1>9, <1>10 DEF c, w

\* Blocks that a wallet may process one after the other: no output is spent or claimed
\* in the block that makes it or in an earlier one.
InOrder(blocks, n, made, onChain) ==
    \A k \in 1 .. n :
        /\ IsFiniteSet(blocks[k]) /\ Refs(blocks[k]) \subseteq made /\ blocks[k] \subseteq onChain
        /\ \A t \in blocks[k] : \A r \in txs[t].ins \cup txs[t].claims :
              r[1] \in onChain /\ \A j \in k .. n : r[1] \notin blocks[j]

\* The flags of a coin are kept until a block spends or claims it, and new coins are
\* of the blocks.
Kept(coins, later, blocks, n) ==
    /\ \A r \in DOMAIN coins :
          IF r \in DOMAIN later THEN coins[r] \subseteq later[r]
          ELSE \E i \in 1 .. n : r \in SpentBy(blocks[i]) \cup ClaimedBy(blocks[i])
    /\ \A r \in DOMAIN later \ DOMAIN coins : \E i \in 1 .. n : r[1] \in blocks[i]

\* What is paid to the wallet is paid to addresses that have a row, some apart.
Housed(ids, some) ==
    \A r \in Mine(ids) : Output(r).to \notin some => Output(r).to \in DOMAIN rows.addresses

LEMMA AfterBlocksIs ==
    ASSUME NEW coins, NEW r, NEW made, NEW onChain,
           CoinsRight(coins, made, onChain), CoinsRight(r, made, onChain),
           NEW n \in Nat, NEW blocks, DOMAIN blocks = 1 .. n, InOrder(blocks, n, made, onChain)
    PROVE  /\ CoinsRight(AfterBlocks(coins, r, blocks).coins, made, onChain)
           /\ CoinsRight(AfterBlocks(coins, r, blocks).rows, made, onChain)
           /\ Kept(coins, AfterBlocks(coins, r, blocks).coins, blocks, n)
           /\ \A some :
                 /\ Agree(coins, r, txs, some)
                 /\ \A k \in 1 .. n : Housed(blocks[k], some)
                 => Agree(AfterBlocks(coins, r, blocks).coins, AfterBlocks(coins, r, blocks).rows,
                          txs, some)
  <1> DEFINE base == [coins |-> coins, rows |-> r]
  <1>1. base.coins = coins /\ base.rows = r
    OBVIOUS
  <1> HIDE DEF base
  <1>2. PICK results : /\ Blocks!Results(results, base, blocks, n)
                       /\ FoldLeft(AfterBlock, base, blocks) = results[n]
    <2>1. \E results : /\ Blocks!Results(results, base, blocks, n)
                       /\ Blocks!FoldLeft(AfterBlock, base, blocks) = results[n]
      BY Blocks!FoldHasResults
    <2>2. Blocks!FoldLeft(AfterBlock, base, blocks) = FoldLeft(AfterBlock, base, blocks)
      BY DEF FoldLeft, Blocks!FoldLeft, MapThenFoldSet, Blocks!MapThenFoldSet, Max, Blocks!Max
    <2> QED  BY <2>1, <2>2
  <1>3. results[0] = base /\ \A k \in 1 .. n : results[k] = AfterBlock(results[k - 1], blocks[k])
    BY <1>2 DEF Blocks!Results
  <1>4. AfterBlocks(coins, r, blocks) = results[n]
    BY <1>2 DEF AfterBlocks, base
  <1> DEFINE Right(k) == /\ CoinsRight(results[k].coins, made, onChain)
                         /\ CoinsRight(results[k].rows, made, onChain)
             Same(k) == \A some : /\ Agree(coins, r, txs, some)
                                  /\ \A j \in 1 .. k : Housed(blocks[j], some)
                                  => Agree(results[k].coins, results[k].rows, txs, some)
             Good(k) == Right(k) /\ Kept(coins, results[k].coins, blocks, k) /\ Same(k)
             P == {k \in Nat : k <= n => Good(k)}
  <1>5. 0 \in P
    <2>1. Kept(coins, coins, blocks, 0)
      BY DEF Kept
    <2> QED  BY <1>1, <1>3, <2>1
  <1>6. ASSUME NEW k \in P PROVE k + 1 \in P
    <2> SUFFICES ASSUME k + 1 <= n PROVE Good(k + 1)
      OBVIOUS
    <2> DEFINE ids == blocks[k + 1]
               old == results[k]
               new == results[k + 1]
    <2>1. k \in Nat /\ Good(k) /\ k + 1 \in 1 .. n /\ (k + 1) - 1 = k
      OBVIOUS
    <2>2. new = AfterBlock(old, ids)
      BY <1>3, <2>1
    <2>3. /\ IsFiniteSet(ids) /\ Refs(ids) \subseteq made /\ ids \subseteq onChain
          /\ \A t \in ids : \A q \in txs[t].ins : q[1] \in onChain
      BY <2>1 DEF InOrder
    <2>4. ASSUME NEW i \in 1 .. k + 1, NEW q \in SpentBy(blocks[i]) \cup ClaimedBy(blocks[i])
          PROVE  q[1] \notin ids
      <3>1. i \in 1 .. n /\ k + 1 \in i .. n
        BY <2>1
      <3>2. \E t \in blocks[i] : q \in txs[t].ins \cup txs[t].claims
        BY DEF SpentBy, ClaimedBy
      <3> QED  BY <3>1, <3>2 DEF InOrder
    <2>5. CoinsRight(old.coins, made, onChain) /\ CoinsRight(old.rows, made, onChain)
      BY <2>1
    <2>6. Kept(coins, old.coins, blocks, k) /\ Same(k)
      BY <2>1
    <2> HIDE DEF ids, old, new, Good, P
    <2>7. /\ CoinsRight(new.coins, made, onChain) /\ CoinsRight(new.rows, made, onChain)
          /\ \A q \in DOMAIN old.coins :
                IF q \in DOMAIN new.coins THEN old.coins[q] \subseteq new.coins[q]
                ELSE q \in SpentBy(ids) \cup ClaimedBy(ids)
          /\ \A q \in DOMAIN new.coins \ DOMAIN old.coins : q[1] \in ids
          /\ \A some : Agree(old.coins, old.rows, txs, some) /\ Housed(ids, some)
                       => Agree(new.coins, new.rows, txs, some)
      BY <2>2, <2>3, <2>5, AfterBlockIs DEF Housed
    <2>8. \A i \in 1 .. k : i \in 1 .. k + 1
      BY <2>1
    <2>9. k + 1 \in 1 .. k + 1
      BY <2>1
    <2>10. ASSUME NEW q \in DOMAIN coins
           PROVE  IF q \in DOMAIN new.coins THEN coins[q] \subseteq new.coins[q]
                  ELSE \E i \in 1 .. k + 1 : q \in SpentBy(blocks[i]) \cup ClaimedBy(blocks[i])
      <3>1. CASE q \in DOMAIN old.coins
        <4>1. coins[q] \subseteq old.coins[q]
          BY <2>6, <3>1 DEF Kept
        <4> QED  BY <2>7, <2>9, <3>1, <4>1 DEF ids
      <3>2. CASE q \notin DOMAIN old.coins
        <4>1. PICK i \in 1 .. k : q \in SpentBy(blocks[i]) \cup ClaimedBy(blocks[i])
          BY <2>6, <3>2 DEF Kept
        <4>2. i \in 1 .. k + 1 /\ q[1] \notin ids
          BY <2>4, <2>8, <4>1
        <4>3. q \notin DOMAIN new.coins
          BY <2>7, <3>2, <4>2
        <4> QED  BY <4>1, <4>2, <4>3
      <3> QED  BY <3>1, <3>2
    <2>11. ASSUME NEW q \in DOMAIN new.coins \ DOMAIN coins
           PROVE  \E i \in 1 .. k + 1 : q[1] \in blocks[i]
      <3>1. CASE q \in DOMAIN old.coins
        BY <2>6, <2>8, <3>1 DEF Kept
      <3>2. CASE q \notin DOMAIN old.coins
        BY <2>7, <2>9, <3>2 DEF ids
      <3> QED  BY <3>1, <3>2
    <2>12. Kept(coins, new.coins, blocks, k + 1)
      BY <2>10, <2>11 DEF Kept
    <2>13. ASSUME NEW some, Agree(coins, r, txs, some),
                  \A j \in 1 .. k + 1 : Housed(blocks[j], some)
           PROVE  Agree(new.coins, new.rows, txs, some)
      <3>1. Agree(old.coins, old.rows, txs, some)
        BY <2>6, <2>8, <2>13 DEF old
      <3>2. Housed(ids, some)
        BY <2>9, <2>13 DEF ids
      <3> QED  BY <2>7, <3>1, <3>2
    <2> QED  BY <2>7, <2>12, <2>13 DEF new, Good
  <1> HIDE DEF Good, Right, Same
  <1>7. P \in SUBSET Nat
    OBVIOUS
  <1>8. n \in P
    <2> HIDE DEF P
    <2> QED  BY <1>5, <1>6, <1>7, Blocks!Induction
  <1>9. Good(n)
    BY <1>8
  <1> QED  BY <1>4, <1>9 DEF Good, Right, Same

\* A block of the chain.
LEMMA BlockIs ==
    ASSUME ChainInvariant, NEW i \in DOMAIN chain
    PROVE  /\ IsFiniteSet(chain[i]) /\ Refs(chain[i]) \subseteq Made /\ chain[i] \subseteq OnChain
           /\ \A t \in chain[i] : \A r \in txs[t].ins \cup txs[t].claims :
                 r[1] \in OnChain /\ r[1] \in Below(i - 1)
  <1>1. IsSequence(chain) /\ Len(chain) \in Nat /\ DOMAIN chain = 1 .. Len(chain)
    BY SequenceIs DEF ChainInvariant
  <1>2. chain[i] \subseteq OnChain
    BY <1>1, BelowIs
  <1>3. chain[i] \subseteq DOMAIN txs
    BY <1>2 DEF ChainInvariant
  <1>4. IsFiniteSet(chain[i])
    <2>1. Len(txs) \in Nat /\ DOMAIN txs = 1 .. Len(txs)
      BY SequenceIs DEF ChainInvariant
    <2>2. IsFiniteSet(1 .. Len(txs))
      BY <2>1, FS_Interval
    <2> QED  BY <1>3, <2>1, <2>2, FS_Subset
  <1>5. ASSUME NEW t \in chain[i], NEW r \in txs[t].ins \cup txs[t].claims
        PROVE  r[1] \in OnChain /\ r[1] \in Below(i - 1)
    <2>1. r[1] \in Below(i - 1) /\ i - 1 \in 0 .. Len(chain)
      BY <1>1 DEF ChainInvariant
    <2> QED  BY <1>1, <2>1, BelowIs
  <1> QED  BY <1>2, <1>3, <1>4, <1>5, RefsMade

\* The portions of a chain that a wallet has before it.
LEMMA PortionIs ==
    ASSUME ChainInvariant, NEW h \in 0 .. Height, NEW n \in Nat, h + n <= Height
    PROVE  /\ DOMAIN SubSeq(chain, h + 1, h + n) = 1 .. n
           /\ \A i \in 1 .. n : SubSeq(chain, h + 1, h + n)[i] = chain[h + i]
           /\ InOrder(SubSeq(chain, h + 1, h + n), n, Made, OnChain)
           /\ \A i \in 1 .. n : chain[h + i] \subseteq Below(h + n)
           /\ \A i \in 1 .. n : chain[h + i] \cap Below(h) = {}
           /\ \A i \in 1 .. n : \A r \in SpentBy(chain[h + i]) \cup ClaimedBy(chain[h + i]) :
                 r[1] \in Below(h + n)
  <1> DEFINE b == SubSeq(chain, h + 1, h + n)
  <1>1. IsSequence(chain) /\ Len(chain) \in Nat /\ DOMAIN chain = 1 .. Len(chain)
    BY SequenceIs DEF ChainInvariant
  <1>2. Height = Len(chain) - 1 /\ h \in Nat
    BY <1>1 DEF Height
  <1>3. \A i \in h + 1 .. h + n : chain[i] \in Range(chain)
    BY <1>1, <1>2 DEF Range
  <1>4. /\ b \in Seq(Range(chain)) /\ Len(b) = n
        /\ \A i \in 1 .. n : b[i] = chain[h + i]
    <2>1. /\ h + 1 \in Int /\ h + n \in Int
          /\ (IF h + 1 <= h + n THEN (h + n) - (h + 1) + 1 ELSE 0) = n
          /\ (h + n) - (h + 1) + 1 = n
          /\ \A i \in 1 .. n : (h + 1) + i - 1 = h + i
      BY <1>2
    <2>2. /\ b \in Seq(Range(chain))
          /\ Len(b) = IF h + 1 <= h + n THEN (h + n) - (h + 1) + 1 ELSE 0
          /\ \A i \in 1 .. (h + n) - (h + 1) + 1 : b[i] = chain[(h + 1) + i - 1]
      BY <1>3, <2>1, SubSeqProperties
    <2> HIDE DEF b
    <2> QED  BY <2>1, <2>2
  <1>5. DOMAIN b = 1 .. n
    BY <1>4, LenProperties
  <1>6. \A i \in 1 .. n : h + i \in DOMAIN chain
    BY <1>1, <1>2
  <1>7. \A i \in DOMAIN chain :
           IsFiniteSet(chain[i]) /\ Refs(chain[i]) \subseteq Made /\ chain[i] \subseteq OnChain
    BY BlockIs
  <1>8. ASSUME NEW i \in DOMAIN chain, NEW g \in Nat, NEW t \in Below(g), g < i PROVE t \notin chain[i]
    <2>1. PICK j \in 1 .. g : t \in chain[j]
      BY DEF Below
    <2>2. j \in DOMAIN chain /\ i # j
      BY <1>1, <1>8
    <2> QED  BY <2>1, <2>2 DEF ChainInvariant
  <1>9. ASSUME NEW i \in DOMAIN chain, NEW t \in chain[i], NEW r \in txs[t].ins \cup txs[t].claims
        PROVE  r[1] \in OnChain /\ r[1] \in Below(i - 1) /\ \A j \in DOMAIN chain : i <= j => r[1] \notin chain[j]
    <2>1. r[1] \in Below(i - 1) /\ r[1] \in OnChain
      BY BlockIs
    <2>2. i - 1 \in Nat
      BY <1>1
    <2>3. ASSUME NEW j \in DOMAIN chain, i <= j PROVE r[1] \notin chain[j]
      <3>1. i - 1 < j
        BY <1>1, <2>3
      <3> QED  BY <1>8, <2>1, <2>2, <3>1
    <2> QED  BY <2>1, <2>3
  <1>10. InOrder(b, n, Made, OnChain)
    <2> SUFFICES ASSUME NEW k \in 1 .. n
                 PROVE  /\ IsFiniteSet(b[k]) /\ Refs(b[k]) \subseteq Made /\ b[k] \subseteq OnChain
                        /\ \A t \in b[k] : \A r \in txs[t].ins \cup txs[t].claims :
                              r[1] \in OnChain /\ \A j \in k .. n : r[1] \notin b[j]
      BY DEF InOrder
    <2>1. b[k] = chain[h + k] /\ h + k \in DOMAIN chain
      BY <1>4, <1>6
    <2>2. ASSUME NEW t \in b[k], NEW r \in txs[t].ins \cup txs[t].claims, NEW j \in k .. n
          PROVE  r[1] \notin b[j]
      <3>1. j \in 1 .. n /\ h + k <= h + j
        BY <1>2
      <3>2. b[j] = chain[h + j] /\ h + j \in DOMAIN chain
        BY <1>4, <1>6, <3>1
      <3> QED  BY <1>9, <2>1, <3>1, <3>2
    <2> QED  BY <1>7, <1>9, <2>1, <2>2
  <1>11. ASSUME NEW i \in 1 .. n
         PROVE  /\ chain[h + i] \subseteq Below(h + n) /\ chain[h + i] \cap Below(h) = {}
                /\ \A r \in SpentBy(chain[h + i]) \cup ClaimedBy(chain[h + i]) : r[1] \in Below(h + n)
    <2>1. h + i \in 1 .. h + n /\ h < h + i /\ (h + i) - 1 \in Nat /\ h + n \in Nat
      BY <1>2
    <2>2. chain[h + i] \subseteq Below(h + n)
      BY <2>1 DEF Below
    <2>3. chain[h + i] \cap Below(h) = {}
      BY <1>2, <1>6, <1>8, <2>1
    <2>4. ASSUME NEW r \in SpentBy(chain[h + i]) \cup ClaimedBy(chain[h + i]) PROVE r[1] \in Below(h + n)
      <3>1. PICK t \in chain[h + i] : r \in txs[t].ins \cup txs[t].claims
        BY DEF SpentBy, ClaimedBy
      <3>2. r[1] \in Below((h + i) - 1)
        BY <1>6, <1>9, <3>1
      <3>3. (h + i) - 1 <= h + n
        BY <1>2
      <3> QED  BY <1>1, <2>1, <3>2, <3>3, BelowIs
    <2> QED  BY <2>2, <2>3, <2>4
  <1> HIDE DEF b
  <1> QED  BY <1>4, <1>5, <1>10, <1>11 DEF b

\* What the blocks do to the marks.
LEMMA MarksKept ==
    ASSUME NEW coins, NEW later, NEW blocks, NEW n, Kept(coins, later, blocks, n),
           NEW onChain, NEW onChain2, onChain \subseteq onChain2,
           NEW past, NEW past2, past \subseteq past2,
           \A i \in 1 .. n : blocks[i] \cap past = {},
           \A i \in 1 .. n : \A r \in SpentBy(blocks[i]) \cup ClaimedBy(blocks[i]) : r[1] \in past2,
           NEW spends, AllMarked(spends, coins, onChain, past)
    PROVE  AllMarked(spends, later, onChain2, past2)
  <1>1. ASSUME NEW refs, NEW flag, Marks(refs, flag, coins, onChain, past)
        PROVE  Marks(refs, flag, later, onChain2, past2)
    <2> SUFFICES ASSUME NEW r \in refs
                 PROVE  /\ r[1] \in onChain2
                        /\ r \in DOMAIN later => flag \in later[r]
                        /\ r \notin DOMAIN later => r[1] \in past2
      BY DEF Marks
    <2>1. /\ r[1] \in onChain
          /\ r \in DOMAIN coins => flag \in coins[r]
          /\ r \notin DOMAIN coins => r[1] \in past
      BY <1>1 DEF Marks
    <2>2. CASE r \in DOMAIN coins
      BY <2>1, <2>2 DEF Kept
    <2>3. CASE r \notin DOMAIN coins
      <3>1. r \notin DOMAIN later
        BY <2>1, <2>3 DEF Kept
      <3> QED  BY <2>1, <2>3, <3>1
    <2> QED  BY <2>2, <2>3
  <1> QED  BY <1>1 DEF AllMarked

\* A portion, or a part of it.
LEMMA ProcessedIs ==
    ASSUME ChainInvariant, NEW h \in 0 .. Height, NEW n \in Nat, h + n <= Height,
           NEW coins, NEW r,
           CoinsRight(coins, Made, OnChain), CoinsRight(r, Made, OnChain)
    PROVE  /\ CoinsRight(Processed(coins, r, h, n).coins, Made, OnChain)
           /\ CoinsRight(Processed(coins, r, h, n).rows, Made, OnChain)
           /\ \A spends : AllMarked(spends, coins, OnChain, Below(h))
                 => AllMarked(spends, Processed(coins, r, h, n).coins, OnChain, Below(h + n))
           /\ \A some : Agree(coins, r, txs, some) /\ (\A ids : Housed(ids, some))
                 => Agree(Processed(coins, r, h, n).coins, Processed(coins, r, h, n).rows, txs, some)
  <1> DEFINE b == SubSeq(chain, h + 1, h + n)
             p == Processed(coins, r, h, n)
  <1>1. /\ DOMAIN b = 1 .. n
        /\ \A i \in 1 .. n : b[i] = chain[h + i]
        /\ InOrder(b, n, Made, OnChain)
        /\ \A i \in 1 .. n : chain[h + i] \cap Below(h) = {}
        /\ \A i \in 1 .. n : \A q \in SpentBy(chain[h + i]) \cup ClaimedBy(chain[h + i]) :
              q[1] \in Below(h + n)
    BY PortionIs
  <1>2. p = AfterBlocks(coins, r, b)
    BY DEF Processed
  <1> HIDE DEF b, p
  <1>3. /\ CoinsRight(p.coins, Made, OnChain)
        /\ CoinsRight(p.rows, Made, OnChain)
        /\ Kept(coins, p.coins, b, n)
        /\ \A some : /\ Agree(coins, r, txs, some)
                     /\ \A k \in 1 .. n : Housed(b[k], some)
                     => Agree(p.coins, p.rows, txs, some)
    BY <1>1, <1>2, AfterBlocksIs
  <1>4. ASSUME NEW spends, AllMarked(spends, coins, OnChain, Below(h))
        PROVE  AllMarked(spends, p.coins, OnChain, Below(h + n))
    <2>1. \A i \in 1 .. n : b[i] \cap Below(h) = {}
      BY <1>1
    <2>2. \A i \in 1 .. n : \A q \in SpentBy(b[i]) \cup ClaimedBy(b[i]) : q[1] \in Below(h + n)
      BY <1>1
    <2>3. Below(h) \subseteq Below(h + n)
      <3>1. Len(chain) \in Nat
        BY SequenceIs DEF ChainInvariant
      <3>2. h \in Nat /\ h + n \in Nat /\ h <= h + n
        BY <3>1 DEF Height
      <3> QED  BY <3>2, BelowIs DEF ChainInvariant
    <2> QED  BY <1>3, <1>4, <2>1, <2>2, <2>3, MarksKept
  <1> QED  BY <1>3, <1>4 DEF p

LEMMA RestrictedIs ==
    ASSUME NEW coins, NEW r, NEW made, NEW some
    PROVE  LET Kin(c) == {q \in DOMAIN c : made[q[1]].outs[q[2]].to \notin some}
           IN Restrict(coins, Kin(coins)) = Restrict(r, Kin(r))
              <=> Agree(coins, r, made, some)
  <1> DEFINE S == {q \in DOMAIN coins : made[q[1]].outs[q[2]].to \notin some}
             T == {q \in DOMAIN r : made[q[1]].outs[q[2]].to \notin some}
             f == Restrict(coins, S)
             g == Restrict(r, T)
  <1>1. /\ DOMAIN f = S /\ DOMAIN g = T
        /\ f = [q \in S |-> coins[q]] /\ g = [q \in T |-> r[q]]
    BY DEF Restrict
  <1>2. /\ \A q : q \in S <=> q \in DOMAIN coins /\ made[q[1]].outs[q[2]].to \notin some
        /\ \A q : q \in T <=> q \in DOMAIN r /\ made[q[1]].outs[q[2]].to \notin some
    OBVIOUS
  <1> HIDE DEF S, T, f, g
  <1>3. ASSUME f = g PROVE Agree(coins, r, made, some)
    <2>1. S = T
      BY <1>1, <1>3
    <2>2. \A q \in S : coins[q] = r[q]
      BY <1>1, <1>3, <2>1
    <2> QED  BY <1>2, <2>1, <2>2 DEF Agree
  <1>4. ASSUME Agree(coins, r, made, some) PROVE f = g
    <2>1. S = T /\ \A q \in S : coins[q] = r[q]
      BY <1>2, <1>4 DEF Agree
    <2> QED  BY <1>1, <2>1
  <1> QED  BY <1>3, <1>4 DEF S, T, f, g

\* RowsFollow of a wallet and a file, for the state and for the next.
Follows(w, file, made, some) ==
    /\ w.keys = file.accounts /\ w.tokens = file.tokens
    /\ ToSet(w.contracts) = ToSet(file.contracts)
    /\ ToSet(w.watch) \ some = LoadWatchOnly(file) \ some
    /\ Agree(w.coins, file.coins, made, some)

LEMMA FollowIs ==
    /\ RowsFollow <=> (wallet # Null => Follows(wallet, rows, txs, doubled))
    /\ RowsFollow' <=> (wallet' # Null => Follows(wallet', rows', txs', doubled'))
  <1>1. RowsFollow <=> (wallet # Null => Follows(wallet, rows, txs, doubled))
    <2>1. LET Kin(c) == {q \in DOMAIN c : txs[q[1]].outs[q[2]].to \notin doubled}
          IN Restrict(wallet.coins, Kin(wallet.coins)) = Restrict(rows.coins, Kin(rows.coins))
             <=> Agree(wallet.coins, rows.coins, txs, doubled)
      BY RestrictedIs
    <2> QED  BY <2>1, Zenon DEF RowsFollow, Follows, Output
  <1>2. RowsFollow' <=> (wallet' # Null => Follows(wallet', rows', txs', doubled'))
    <2>1. LET Kin(c) == {q \in DOMAIN c : txs'[q[1]].outs[q[2]].to \notin doubled'}
          IN Restrict(wallet'.coins, Kin(wallet'.coins)) = Restrict(rows'.coins, Kin(rows'.coins))
             <=> Agree(wallet'.coins, rows'.coins, txs', doubled')
      BY RestrictedIs
    <2>2. LoadWatchOnly(rows)' = LoadWatchOnly(rows')
      BY DEF LoadWatchOnly
    <2> QED  BY <2>1, <2>2, Zenon DEF RowsFollow, Follows, Output
  <1> QED  BY <1>1, <1>2

\* What is the wallet's has a row.
LEMMA HousedIs ==
    ASSUME wallet # Null, RowsFollow, AddressesRight(rows.contracts, rows.addresses),
           IsSequence(wallet.contracts), IsSequence(wallet.watch)
    PROVE  /\ \A a : CheckAddressState(a) # {} /\ a \notin doubled => a \in DOMAIN rows.addresses
           /\ \A ids : Housed(ids, doubled)
  <1>1. ASSUME NEW a, CheckAddressState(a) # {}, a \notin doubled
        PROVE  a \in DOMAIN rows.addresses
    <2>1. a \in ToSet(wallet.contracts) \/ a \in ToSet(wallet.watch)
      <3>1. Contains(wallet.contracts, a) \/ Contains(wallet.watch, a)
        BY <1>1 DEF CheckAddressState
      <3> QED  BY <3>1, ContainsIs
    <2>2. CASE a \in ToSet(wallet.contracts)
      BY <2>2 DEF RowsFollow, AddressesRight
    <2>3. CASE a \in ToSet(wallet.watch)
      <3>1. a \in LoadWatchOnly(rows)
        BY <1>1, <2>3 DEF RowsFollow
      <3> QED  BY <3>1 DEF LoadWatchOnly
    <2> QED  BY <2>1, <2>2, <2>3
  <1>2. \A ids : \A r \in Mine(ids) : CheckAddressState(Output(r).to) # {}
    BY DEF Mine
  <1> QED  BY <1>1, <1>2 DEF Housed

-----------------------------------------------------------------------------
(* The steps.                                                              *)

\* What the invariant says, and what a step has to bring about.
LEMMA InvariantIs ==
    /\ WalletInvariant =>
          /\ ChainInvariant /\ FileRight(rows, Made, OnChain, Height)
          /\ wallet # Null => /\ WalletRight(wallet, doubled, Made, OnChain, Height)
                              /\ AllMarked(sends, wallet.coins, OnChain, Past(wallet))
                              /\ Follows(wallet, rows, txs, doubled)
                              /\ \A a : CheckAddressState(a) # {} /\ a \notin doubled
                                       => a \in DOMAIN rows.addresses
                              /\ \A ids : Housed(ids, doubled)
          /\ IsSequence(sends) /\ SpendsOnce /\ OffersUnconfirmed
    /\ (/\ ChainInvariant' /\ FileRight(rows', Made', OnChain', Height')
        /\ wallet' # Null => /\ WalletRight(wallet', doubled', Made', OnChain', Height')
                             /\ AllMarked(sends', wallet'.coins, OnChain', Past(wallet)')
                             /\ Follows(wallet', rows', txs', doubled')
        /\ IsSequence(sends') /\ SpendsOnce' /\ OffersUnconfirmed')
       => WalletInvariant'
  <1>1. ASSUME WalletInvariant
        PROVE  /\ ChainInvariant /\ FileRight(rows, Made, OnChain, Height)
               /\ wallet # Null => /\ WalletRight(wallet, doubled, Made, OnChain, Height)
                                   /\ AllMarked(sends, wallet.coins, OnChain, Past(wallet))
                                   /\ Follows(wallet, rows, txs, doubled)
                                   /\ \A a : CheckAddressState(a) # {} /\ a \notin doubled
                                            => a \in DOMAIN rows.addresses
                                   /\ \A ids : Housed(ids, doubled)
               /\ IsSequence(sends) /\ SpendsOnce /\ OffersUnconfirmed
    <2>1. /\ ChainInvariant /\ FileRight(rows, Made, OnChain, Height)
          /\ IsSequence(sends) /\ SpendsOnce /\ OffersUnconfirmed /\ RowsFollow
      BY <1>1 DEF WalletInvariant
    <2>2. ASSUME wallet # Null
          PROVE  /\ WalletRight(wallet, doubled, Made, OnChain, Height)
                 /\ AllMarked(sends, wallet.coins, OnChain, Past(wallet))
                 /\ Follows(wallet, rows, txs, doubled)
                 /\ \A a : CheckAddressState(a) # {} /\ a \notin doubled
                          => a \in DOMAIN rows.addresses
                 /\ \A ids : Housed(ids, doubled)
      <3>1. /\ WalletRight(wallet, doubled, Made, OnChain, Height)
            /\ AllMarked(sends, wallet.coins, OnChain, Past(wallet))
        BY <1>1, <2>2 DEF WalletInvariant
      <3>2. Follows(wallet, rows, txs, doubled)
        BY <2>1, <2>2, FollowIs
      <3>3. /\ \A a : CheckAddressState(a) # {} /\ a \notin doubled => a \in DOMAIN rows.addresses
            /\ \A ids : Housed(ids, doubled)
        BY <2>1, <2>2, <3>1, HousedIs DEF WalletRight, FileRight
      <3> QED  BY <3>1, <3>2, <3>3
    <2> QED  BY <2>1, <2>2
  <1>2. ASSUME ChainInvariant', FileRight(rows', Made', OnChain', Height'),
               wallet' # Null => /\ WalletRight(wallet', doubled', Made', OnChain', Height')
                                 /\ AllMarked(sends', wallet'.coins, OnChain', Past(wallet)')
                                 /\ Follows(wallet', rows', txs', doubled'),
               IsSequence(sends'), SpendsOnce', OffersUnconfirmed'
        PROVE  WalletInvariant'
    <2>1. RowsFollow'
      BY <1>2, FollowIs
    <2>2. /\ FileRight(rows, Made, OnChain, Height)' <=> FileRight(rows', Made', OnChain', Height')
          /\ IsSequence(sends)' <=> IsSequence(sends')
          /\ WalletRight(wallet, doubled, Made, OnChain, Height)'
                <=> WalletRight(wallet', doubled', Made', OnChain', Height')
          /\ AllMarked(sends, wallet.coins, OnChain, Past(wallet))'
                <=> AllMarked(sends', wallet'.coins, OnChain', Past(wallet)')
      OBVIOUS
    <2> QED  BY <1>2, <2>1, <2>2 DEF WalletInvariant
  <1> QED  BY <1>1, <1>2

\* A step that leaves the chain and the transactions alone.
LEMMA ChainSame ==
    ASSUME ChainInvariant, UNCHANGED <<chain, txs, known>>
    PROVE  /\ ChainInvariant' /\ OnChain' = OnChain /\ Height' = Height
           /\ \A h : Below(h)' = Below(h)
           /\ Made' = Made
  <1>1. Extends
    BY DEF Extends, ChainInvariant, IsSequence
  <1>2. known' \subseteq DOMAIN txs'
    BY DEF ChainInvariant
  <1>3. Made' = Made
    BY DEF Made, Refs
  <1> QED  BY <1>1, <1>2, <1>3, ChainKept

LEMMA PortionFits ==
    ASSUME Height \in Nat, NEW h \in 0 .. Height
    PROVE  Portion(h) \in Nat /\ h + Portion(h) <= Height
  BY WalletAssumption DEF Portion

\* A turn of the loop, on a wallet that no handler has been subscribed for.
LEMMA TurnIs ==
    ASSUME WalletInvariant, wallet # Null,
           NEW w, IsWallet(w),
           w.keys = wallet.keys, w.contracts = wallet.contracts, w.tokens = wallet.tokens,
           w.watch = wallet.watch, w.starts = {}, w.handlers = 0, w.height \in 0 .. Height,
           NEW r, CoinsRight(w.coins, Made, OnChain), CoinsRight(r, Made, OnChain),
           Agree(w.coins, r, txs, doubled),
           SyncTurn(w, r, 0), UNCHANGED <<chain, txs, pool, cache, known, doubled>>,
           IsSequence(sends'), SpendsOnce',
           AllMarked(sends', w.coins, OnChain, Below(w.height))
    PROVE  WalletInvariant'
  <1> DEFINE n == Portion(w.height)
             p == Processed(w.coins, r, w.height, n)
             h == w.height + n
  <1>1. /\ ChainInvariant /\ FileRight(rows, Made, OnChain, Height)
        /\ WalletRight(wallet, doubled, Made, OnChain, Height)
        /\ Follows(wallet, rows, txs, doubled)
        /\ \A ids : Housed(ids, doubled)
        /\ OffersUnconfirmed
    BY InvariantIs
  <1>2. /\ ChainInvariant' /\ OnChain' = OnChain /\ Height' = Height
        /\ \A g : Below(g)' = Below(g)
        /\ Made' = Made
    BY <1>1, ChainSame
  <1>3. Height \in Nat
    BY <1>1, SequenceIs DEF ChainInvariant, Height
  <1>4. n \in Nat /\ h <= Height /\ h \in 0 .. Height
    BY <1>3, PortionFits
  <1> HIDE DEF n
  <1>5. /\ CoinsRight(p.coins, Made, OnChain) /\ CoinsRight(p.rows, Made, OnChain)
        /\ AllMarked(sends', p.coins, OnChain, Below(h))
        /\ Agree(p.coins, p.rows, txs, doubled)
    BY <1>1, <1>4, ProcessedIs
  <1>6. /\ rows' = [rows EXCEPT !.coins = p.rows, !.height = h]
        /\ wallet' = [w EXCEPT !.coins = p.coins, !.height = h,
                               !.loops = IF IsSynced(h) THEN 0 ELSE 0 + 1,
                               !.handlers = IF IsSynced(h) THEN @ + 1 ELSE @]
    BY DEF SyncTurn, n
  <1> HIDE DEF p, h
  <1>7. /\ wallet' = [keys |-> w.keys, contracts |-> w.contracts, tokens |-> w.tokens,
                      watch |-> w.watch, coins |-> p.coins, height |-> h,
                      loops |-> IF IsSynced(h) THEN 0 ELSE 1,
                      handlers |-> IF IsSynced(h) THEN 1 ELSE 0, starts |-> {}]
    <2>1. 0 + 1 = 1
      OBVIOUS
    <2> QED  BY <1>6, <2>1 DEF IsWallet
  <1>8. rows' = [coins |-> p.rows, height |-> h, tokens |-> rows.tokens,
                 accounts |-> rows.accounts, contracts |-> rows.contracts,
                 addresses |-> rows.addresses]
    BY <1>1, <1>6 DEF FileRight, IsFile
  <1>9. FileRight(rows', Made', OnChain', Height')
    <2>1. IsFile(rows')
      BY <1>8 DEF IsFile
    <2> QED  BY <1>1, <1>2, <1>4, <1>5, <1>8, <2>1 DEF FileRight
  <1>10. WalletRight(wallet', doubled', Made', OnChain', Height')
    <2>1. IsWallet(wallet')
      BY <1>7 DEF IsWallet
    <2>2. <<wallet'.starts, wallet'.loops, wallet'.handlers>> \in Tasks
      <3>1. CASE IsSynced(h)
        BY <1>7, <3>1 DEF Tasks
      <3>2. CASE ~ IsSynced(h)
        BY <1>7, <3>2 DEF Tasks
      <3> QED  BY <3>1, <3>2
    <2> QED  BY <1>1, <1>2, <1>4, <1>5, <1>7, <2>1, <2>2 DEF WalletRight
  <1>11. AllMarked(sends', wallet'.coins, OnChain', Past(wallet)')
    <2>1. wallet'.height = h /\ wallet'.coins = p.coins
      BY <1>7
    <2>2. Past(wallet)' = OnChain \/ Past(wallet)' = Below(h)
      BY <1>2, <2>1 DEF Past
    <2>3. Below(h) \subseteq OnChain
      <3>1. IsSequence(chain) /\ Len(chain) \in Nat /\ h \in 0 .. Len(chain)
        BY <1>1, <1>4, SequenceIs DEF ChainInvariant, Height
      <3> QED  BY <3>1, BelowIs
    <2>4. AllMarked(sends', p.coins, OnChain, Past(wallet)')
      BY <1>5, <2>2, <2>3 DEF AllMarked, Marks
    <2> QED  BY <1>2, <2>1, <2>4
  <1>12. Follows(wallet', rows', txs', doubled')
    <2>1. LoadWatchOnly(rows') = LoadWatchOnly(rows)
      BY <1>8 DEF LoadWatchOnly
    <2> QED  BY <1>1, <1>5, <1>7, <1>8, <2>1 DEF Follows
  <1>13. OffersUnconfirmed'
    BY <1>1, <1>2 DEF OffersUnconfirmed
  <1> QED  BY <1>2, <1>9, <1>10, <1>11, <1>12, <1>13, InvariantIs

LEMMA ContinueSyncIs ==
    ASSUME WalletInvariant, ContinueSync
    PROVE  WalletInvariant'
  <1>1. /\ wallet # Null /\ wallet.loops > 0
        /\ SyncTurn(wallet, rows.coins, wallet.loops - 1)
        /\ UNCHANGED <<chain, txs, pool, cache, known, sends, doubled>>
    BY DEF ContinueSync, late
  <1>2. /\ FileRight(rows, Made, OnChain, Height)
        /\ WalletRight(wallet, doubled, Made, OnChain, Height)
        /\ AllMarked(sends, wallet.coins, OnChain, Past(wallet))
        /\ Follows(wallet, rows, txs, doubled)
        /\ IsSequence(sends) /\ SpendsOnce
    BY <1>1, InvariantIs
  <1>3. wallet.starts = {} /\ wallet.handlers = 0 /\ wallet.loops - 1 = 0
    BY <1>1, <1>2 DEF WalletRight, Tasks
  <1>4. IsSequence(sends') /\ SpendsOnce'
    BY <1>1, <1>2 DEF SpendsOnce
  <1>5. AllMarked(sends', wallet.coins, OnChain, Below(wallet.height))
    BY <1>1, <1>2, <1>3 DEF Past
  <1>6. IsWallet(wallet) /\ wallet.height \in 0 .. Height /\ CoinsRight(wallet.coins, Made, OnChain)
    BY <1>2 DEF WalletRight
  <1>7. CoinsRight(rows.coins, Made, OnChain) /\ Agree(wallet.coins, rows.coins, txs, doubled)
    BY <1>2 DEF FileRight, Follows
  <1>8. SyncTurn(wallet, rows.coins, 0)
    BY <1>1, <1>3
  <1> QED  BY <1>1, <1>3, <1>4, <1>5, <1>6, <1>7, <1>8, TurnIs

LEMMA NoCoinsRight ==
    ASSUME NEW made, NEW onChain, NEW some
    PROVE  CoinsRight(<< >>, made, onChain) /\ Agree(<< >>, << >>, txs, some)
  <1>1. DOMAIN << >> = {} /\ << >> = [r \in {} |-> << >>[r]]
    OBVIOUS
  <1>2. IsFiniteSet({})
    BY FS_EmptySet
  <1> QED  BY <1>1, <1>2 DEF CoinsRight, Agree

LEMMA StartSyncIs ==
    ASSUME WalletInvariant, NEW kind, StartSync(kind)
    PROVE  WalletInvariant'
  <1> DEFINE w == [wallet EXCEPT !.starts = @ \ {kind}, !.handlers = 0]
             u == [w EXCEPT !.coins = << >>, !.height = 0]
  <1>1. /\ wallet # Null /\ kind \in wallet.starts
        /\ IF kind = "rebuild" THEN SyncTurn(u, << >>, w.loops) ELSE SyncTurn(w, rows.coins, w.loops)
        /\ sends' = IF kind = "rebuild" THEN << >> ELSE sends
        /\ UNCHANGED <<chain, txs, pool, cache, known, doubled>>
    BY Zenon DEF StartSync
  <1>2. /\ ChainInvariant
        /\ FileRight(rows, Made, OnChain, Height)
        /\ WalletRight(wallet, doubled, Made, OnChain, Height)
        /\ AllMarked(sends, wallet.coins, OnChain, Past(wallet))
        /\ Follows(wallet, rows, txs, doubled)
        /\ IsSequence(sends) /\ SpendsOnce
    BY <1>1, InvariantIs
  <1>3. /\ wallet.starts = {kind} /\ wallet.loops = 0
        /\ kind # "rebuild" => wallet.handlers = 0
    BY <1>1, <1>2 DEF WalletRight, Tasks
  <1>4. w = [keys |-> wallet.keys, contracts |-> wallet.contracts, tokens |-> wallet.tokens,
             watch |-> wallet.watch, coins |-> wallet.coins, height |-> wallet.height,
             handlers |-> 0, loops |-> 0, starts |-> {}]
    <2>1. wallet.starts \ {kind} = {}
      BY <1>3
    <2>2. IsWallet(wallet)
      BY <1>2 DEF WalletRight
    <2>3. w = [wallet EXCEPT !.starts = {}, !.handlers = 0]
      BY <2>1
    <2> HIDE DEF w
    <2> QED  BY <1>3, <2>2, <2>3 DEF IsWallet
  <1> HIDE DEF w
  <1>5. /\ IsWallet(w)
        /\ w.keys = wallet.keys /\ w.contracts = wallet.contracts /\ w.tokens = wallet.tokens
        /\ w.watch = wallet.watch /\ w.handlers = 0 /\ w.loops = 0 /\ w.starts = {}
    BY <1>4 DEF IsWallet
  <1>6. u = [w EXCEPT !.coins = << >>, !.height = 0]
    OBVIOUS
  <1> HIDE DEF u
  <1>7. u = [keys |-> w.keys, contracts |-> w.contracts, tokens |-> w.tokens,
             watch |-> w.watch, coins |-> << >>, height |-> 0,
             handlers |-> w.handlers, loops |-> w.loops, starts |-> w.starts]
    BY <1>5, <1>6 DEF IsWallet
  <1>8. CASE kind = "rebuild"
    <2>1. SyncTurn(u, << >>, 0) /\ sends' = << >>
      BY <1>1, <1>5, <1>8
    <2>2. IsSequence(sends') /\ DOMAIN sends' = {}
      BY <2>1, EmptyIsSequence
    <2>3. SpendsOnce' /\ AllMarked(sends', << >>, OnChain, Below(0))
      BY <2>2 DEF SpendsOnce, AllMarked
    <2>4. /\ IsWallet(u) /\ u.keys = wallet.keys /\ u.contracts = wallet.contracts
          /\ u.tokens = wallet.tokens /\ u.watch = wallet.watch /\ u.starts = {}
          /\ u.handlers = 0 /\ u.height = 0 /\ u.coins = << >>
      BY <1>5, <1>7 DEF IsWallet
    <2>5. 0 \in 0 .. Height
      BY <1>2, SequenceIs DEF ChainInvariant, Height
    <2> QED  BY <1>1, <2>1, <2>2, <2>3, <2>4, <2>5, NoCoinsRight, TurnIs
  <1>9. CASE kind # "rebuild"
    <2>1. SyncTurn(w, rows.coins, 0) /\ sends' = sends
      BY <1>1, <1>5, <1>9
    <2>2. IsSequence(sends') /\ SpendsOnce'
      BY <1>2, <2>1 DEF SpendsOnce
    <2>3. /\ IsWallet(w) /\ w.keys = wallet.keys /\ w.contracts = wallet.contracts
          /\ w.tokens = wallet.tokens /\ w.watch = wallet.watch /\ w.starts = {}
          /\ w.handlers = 0 /\ w.height = wallet.height /\ w.coins = wallet.coins
      BY <1>4 DEF IsWallet
    <2>4. /\ w.height \in 0 .. Height
          /\ CoinsRight(w.coins, Made, OnChain)
          /\ CoinsRight(rows.coins, Made, OnChain)
          /\ Agree(w.coins, rows.coins, txs, doubled)
      BY <1>2, <2>3 DEF WalletRight, FileRight, Follows
    <2>5. AllMarked(sends', w.coins, OnChain, Below(w.height))
      BY <1>2, <1>3, <1>9, <2>1, <2>3 DEF Past
    <2> QED  BY <1>1, <2>1, <2>2, <2>3, <2>4, <2>5, TurnIs
  <1> QED  BY <1>8, <1>9

LEMMA OpenWalletIs ==
    ASSUME WalletInvariant, OpenWallet
    PROVE  WalletInvariant'
  <1>1. /\ wallet' = Loaded(rows, {"open"}) /\ sends' = << >> /\ doubled' = {}
        /\ UNCHANGED <<chain, txs, pool, cache, known, rows>>
    BY DEF OpenWallet
  <1>2. /\ ChainInvariant /\ FileRight(rows, Made, OnChain, Height) /\ OffersUnconfirmed
    BY InvariantIs
  <1>3. /\ ChainInvariant' /\ OnChain' = OnChain /\ Height' = Height
        /\ \A g : Below(g)' = Below(g)
        /\ Made' = Made
    BY <1>1, <1>2, ChainSame
  <1> DEFINE watched == SetToSeq(LoadWatchOnly(rows))
  <1>4. /\ IsSequence(watched) /\ ToSet(watched) = LoadWatchOnly(rows) /\ Unrepeated(watched, {})
    <2>1. IsFiniteSet(DOMAIN rows.addresses) /\ LoadWatchOnly(rows) \in SUBSET DOMAIN rows.addresses
      BY <1>2 DEF FileRight, AddressesRight, LoadWatchOnly
    <2>2. IsFiniteSet(LoadWatchOnly(rows))
      BY <2>1, FS_Subset
    <2> QED  BY <2>2, SetToSeqIs
  <1> HIDE DEF watched
  <1>5. wallet' = [keys |-> rows.accounts, contracts |-> rows.contracts, tokens |-> rows.tokens,
                   watch |-> watched, coins |-> rows.coins, height |-> rows.height,
                   handlers |-> 0, loops |-> 0, starts |-> {"open"}]
    BY <1>1 DEF Loaded, watched
  <1>6. WalletRight(wallet', doubled', Made', OnChain', Height')
    <2>1. IsWallet(wallet')
      BY <1>5 DEF IsWallet
    <2>2. <<wallet'.starts, wallet'.loops, wallet'.handlers>> \in Tasks
      BY <1>5 DEF Tasks
    <2>3. /\ rows.height \in 0 .. Height /\ IsSequence(rows.contracts)
          /\ Unrepeated(rows.contracts, {}) /\ CoinsRight(rows.coins, Made, OnChain)
      BY <1>2 DEF FileRight, AddressesRight
    <2> QED  BY <1>1, <1>3, <1>4, <1>5, <2>1, <2>2, <2>3 DEF WalletRight
  <1>7. Follows(wallet', rows', txs', doubled')
    BY <1>1, <1>4, <1>5 DEF Follows, Agree
  <1>8. /\ IsSequence(sends') /\ SpendsOnce'
        /\ AllMarked(sends', wallet'.coins, OnChain', Past(wallet)')
    <2>1. IsSequence(sends') /\ DOMAIN sends' = {}
      BY <1>1, EmptyIsSequence
    <2> QED  BY <2>1 DEF SpendsOnce, AllMarked
  <1>9. OffersUnconfirmed' /\ FileRight(rows', Made', OnChain', Height')
    BY <1>1, <1>2, <1>3 DEF OffersUnconfirmed
  <1> QED  BY <1>3, <1>6, <1>7, <1>8, <1>9, InvariantIs

\* A step that only changes the tasks of the wallet, if anything.
LEMMA TasksChanged ==
    ASSUME WalletInvariant, UNCHANGED <<chain, txs, pool, cache, known, rows, sends, doubled>>,
           wallet' # Null =>
              /\ wallet # Null /\ IsWallet(wallet')
              /\ <<wallet'.starts, wallet'.loops, wallet'.handlers>> \in Tasks
              /\ wallet'.keys = wallet.keys /\ wallet'.contracts = wallet.contracts
              /\ wallet'.tokens = wallet.tokens /\ wallet'.watch = wallet.watch
              /\ wallet'.coins = wallet.coins /\ wallet'.height = wallet.height
              /\ wallet'.handlers = wallet.handlers
    PROVE  WalletInvariant'
  <1>1. /\ ChainInvariant /\ FileRight(rows, Made, OnChain, Height)
        /\ wallet # Null => /\ WalletRight(wallet, doubled, Made, OnChain, Height)
                            /\ AllMarked(sends, wallet.coins, OnChain, Past(wallet))
                            /\ Follows(wallet, rows, txs, doubled)
        /\ IsSequence(sends) /\ SpendsOnce /\ OffersUnconfirmed
    BY InvariantIs
  <1>2. /\ ChainInvariant' /\ OnChain' = OnChain /\ Height' = Height
        /\ \A g : Below(g)' = Below(g)
        /\ Made' = Made
    BY <1>1, ChainSame
  <1>3. ASSUME wallet' # Null
        PROVE  /\ WalletRight(wallet', doubled', Made', OnChain', Height')
               /\ AllMarked(sends', wallet'.coins, OnChain', Past(wallet)')
               /\ Follows(wallet', rows', txs', doubled')
    <2>1. WalletRight(wallet', doubled', Made', OnChain', Height')
      BY <1>1, <1>2, <1>3 DEF WalletRight
    <2>2. Past(wallet)' = Past(wallet)
      BY <1>2, <1>3 DEF Past
    <2>3. AllMarked(sends', wallet'.coins, OnChain', Past(wallet)')
      BY <1>1, <1>2, <1>3, <2>2
    <2>4. Follows(wallet', rows', txs', doubled')
      BY <1>1, <1>3 DEF Follows
    <2> QED  BY <2>1, <2>3, <2>4
  <1>4. /\ IsSequence(sends') /\ SpendsOnce' /\ OffersUnconfirmed'
        /\ FileRight(rows', Made', OnChain', Height')
    BY <1>1, <1>2 DEF SpendsOnce, OffersUnconfirmed
  <1> QED  BY <1>2, <1>3, <1>4, InvariantIs

LEMMA CloseWalletIs ==
    ASSUME WalletInvariant, CloseWallet
    PROVE  WalletInvariant'
  <1>1. wallet' = Null /\ UNCHANGED <<chain, txs, pool, cache, known, rows, sends, doubled>>
    BY DEF CloseWallet, late
  <1> QED  BY <1>1, TasksChanged

LEMMA RebuildWalletIs ==
    ASSUME WalletInvariant, RebuildWallet
    PROVE  WalletInvariant'
  <1>1. /\ wallet # Null /\ wallet.loops = 0 /\ wallet.starts = {}
        /\ wallet' = [wallet EXCEPT !.starts = @ \cup {"rebuild"}]
        /\ UNCHANGED <<chain, txs, pool, cache, known, rows, sends, doubled>>
    BY DEF RebuildWallet, late
  <1>2. WalletRight(wallet, doubled, Made, OnChain, Height)
    BY <1>1, InvariantIs
  <1>3. wallet.handlers = 1 /\ wallet.starts \cup {"rebuild"} = {"rebuild"}
    BY <1>1, <1>2 DEF WalletRight, Tasks
  <1>4. IsWallet(wallet)
    BY <1>2 DEF WalletRight
  <1>5. wallet' = [wallet EXCEPT !.starts = {"rebuild"}]
    BY <1>1, <1>3
  <1>6. wallet' = [keys |-> wallet.keys, contracts |-> wallet.contracts, tokens |-> wallet.tokens,
                   watch |-> wallet.watch, coins |-> wallet.coins, height |-> wallet.height,
                   handlers |-> wallet.handlers, loops |-> wallet.loops, starts |-> {"rebuild"}]
    BY <1>4, <1>5 DEF IsWallet
  <1>7. IsWallet(wallet') /\ <<wallet'.starts, wallet'.loops, wallet'.handlers>> \in Tasks
    BY <1>1, <1>3, <1>6 DEF IsWallet, Tasks
  <1> QED  BY <1>1, <1>6, <1>7, TasksChanged

-----------------------------------------------------------------------------
(* The program stops.                                                      *)

LEMMA MoreMade ==
    ASSUME NEW made, NEW made2, made \subseteq made2,
           NEW onChain, NEW onChain2, onChain \subseteq onChain2
    PROVE  /\ \A coins : CoinsRight(coins, made, onChain) => CoinsRight(coins, made2, onChain2)
           /\ \A file : \A m, n \in Nat : m <= n /\ FileRight(file, made, onChain, m)
                 => FileRight(file, made2, onChain2, n)
  <1>1. ASSUME NEW coins, CoinsRight(coins, made, onChain) PROVE CoinsRight(coins, made2, onChain2)
    BY <1>1 DEF CoinsRight
  <1>2. \A m, n \in Nat : m <= n => 0 .. m \subseteq 0 .. n
    OBVIOUS
  <1> QED  BY <1>1, <1>2 DEF FileRight

LEMMA CoinsReplaced ==
    ASSUME NEW file, NEW made, NEW onChain, NEW top, FileRight(file, made, onChain, top),
           NEW coins, CoinsRight(coins, made, onChain)
    PROVE  /\ FileRight([file EXCEPT !.coins = coins], made, onChain, top)
           /\ [file EXCEPT !.coins = coins]
              = [coins |-> coins, height |-> file.height, tokens |-> file.tokens,
                 accounts |-> file.accounts, contracts |-> file.contracts,
                 addresses |-> file.addresses]
  <1> DEFINE f == [file EXCEPT !.coins = coins]
  <1>1. IsFile(file)
    BY DEF FileRight
  <1>2. f = [file EXCEPT !.coins = coins]
    OBVIOUS
  <1> HIDE DEF f
  <1>3. f = [coins |-> coins, height |-> file.height, tokens |-> file.tokens,
             accounts |-> file.accounts, contracts |-> file.contracts,
             addresses |-> file.addresses]
    BY <1>1, <1>2 DEF IsFile
  <1>4. IsFile(f)
    BY <1>3 DEF IsFile
  <1>5. FileRight(f, made, onChain, top)
    BY <1>3, <1>4 DEF FileRight
  <1> QED  BY <1>3, <1>5 DEF f

LEMMA StoppedIs ==
    ASSUME Down, ChainInvariant', FileRight(rows', Made', OnChain', Height')
    PROVE  WalletInvariant'
  <1>1. wallet' = Null /\ pool' = {} /\ cache' = {} /\ sends' = << >>
    BY DEF Down
  <1>2. IsSequence(sends') /\ DOMAIN sends' = {}
    BY <1>1, EmptyIsSequence
  <1>3. SpendsOnce' /\ OffersUnconfirmed'
    BY <1>1, <1>2 DEF SpendsOnce, OffersUnconfirmed
  <1> QED  BY <1>1, <1>2, <1>3, InvariantIs

LEMMA StopIs ==
    ASSUME WalletInvariant, Stop
    PROVE  WalletInvariant'
  <1>1. Down /\ UNCHANGED <<chain, txs, known, rows>>
    BY DEF Stop
  <1>2. ChainInvariant /\ FileRight(rows, Made, OnChain, Height)
    BY InvariantIs
  <1>3. ChainInvariant' /\ OnChain' = OnChain /\ Height' = Height /\ Made' = Made
    BY <1>1, <1>2, ChainSame
  <1> QED  BY <1>1, <1>2, <1>3, StoppedIs

\* The program stops and has changed rows of coins.
LEMMA StoppedWithCoins ==
    ASSUME WalletInvariant, Down, UNCHANGED <<chain, txs, known>>,
           NEW coins, CoinsRight(coins, Made, OnChain), rows' = [rows EXCEPT !.coins = coins]
    PROVE  WalletInvariant'
  <1>1. ChainInvariant /\ FileRight(rows, Made, OnChain, Height)
    BY InvariantIs
  <1>2. ChainInvariant' /\ OnChain' = OnChain /\ Height' = Height /\ Made' = Made
    BY <1>1, ChainSame
  <1>3. FileRight(rows', Made, OnChain, Height)
    BY <1>1, CoinsReplaced
  <1> QED  BY <1>2, <1>3, StoppedIs

LEMMA StopInRebuildIs ==
    ASSUME WalletInvariant, StopInRebuild
    PROVE  WalletInvariant'
  <1>1. /\ Down /\ UNCHANGED <<chain, txs, known>>
        /\ \E n \in 0 .. Cardinality(DOMAIN rows.coins) :
              rows' = [rows EXCEPT !.coins =
                          Restrict(@, Range(SubSeq(SetToSeq(DOMAIN @), 1, n)))]
    BY DEF StopInRebuild
  <1>2. CoinsRight(rows.coins, Made, OnChain)
    BY InvariantIs DEF FileRight
  <1>3. PICK n \in 0 .. Cardinality(DOMAIN rows.coins) :
              rows' = [rows EXCEPT !.coins =
                          Restrict(@, Range(SubSeq(SetToSeq(DOMAIN @), 1, n)))]
    BY <1>1
  <1> DEFINE c == rows.coins
             S == SetToSeq(DOMAIN c)
             left == Restrict(c, Range(SubSeq(S, 1, n)))
  <1>4. rows' = [rows EXCEPT !.coins = left]
    BY <1>3
  <1>5. /\ IsSequence(S) /\ ToSet(S) = DOMAIN c /\ Len(S) = Cardinality(DOMAIN c)
    BY <1>2, SetToSeqIs DEF CoinsRight
  <1>6. Range(SubSeq(S, 1, n)) \subseteq DOMAIN c
    <2>1. S \in Seq(Range(S)) /\ n \in 0 .. Len(S)
      BY <1>5 DEF IsSequence
    <2> HIDE DEF S
    <2>2. SubSeq(S, 1, n) = Restrict(S, 1 .. n)
      BY <2>1, SubSeqRestrict
    <2>3. DOMAIN S = 1 .. Len(S) /\ Len(S) \in Nat
      BY <2>1, LenProperties
    <2>4. \A i \in 1 .. n : S[i] \in ToSet(S)
      BY <2>1, <2>3 DEF ToSet
    <2> QED  BY <1>5, <2>2, <2>4 DEF Range, Restrict
  <1>7. CoinsRight(left, Made, OnChain)
    <2> DEFINE kept == Range(SubSeq(S, 1, n))
    <2>1. DOMAIN left = kept /\ left = [r \in kept |-> c[r]]
      BY DEF Restrict
    <2>2. IsFiniteSet(kept)
      BY <1>2, <1>6, FS_Subset DEF CoinsRight
    <2> HIDE DEF kept, left
    <2>3. kept \subseteq DOMAIN c
      BY <1>6 DEF kept
    <2>4. left = [r \in DOMAIN left |-> left[r]] /\ \A r \in DOMAIN left : left[r] = c[r]
      BY <2>1
    <2> QED  BY <1>2, <2>1, <2>2, <2>3, <2>4 DEF CoinsRight
  <1> HIDE DEF left
  <1> QED  BY <1>1, <1>4, <1>7, StoppedWithCoins

LEMMA StopInSyncIs ==
    ASSUME WalletInvariant, StopInSync
    PROVE  WalletInvariant'
  <1>1. /\ wallet # Null /\ Down /\ UNCHANGED <<chain, txs, known>>
        /\ \E n \in 0 .. Portion(wallet.height) - 1 :
              LET p == Processed(wallet.coins, rows.coins, wallet.height, n)
                  d == Delta(p.coins, chain[wallet.height + n + 1])
              IN \E m \in 0 .. Len(Writes(d)) :
                    rows' = [rows EXCEPT !.coins = Written(p.rows, d, m)]
    BY DEF StopInSync
  <1> DEFINE h == wallet.height
  <1>2. PICK n \in 0 .. Portion(h) - 1 :
              LET p == Processed(wallet.coins, rows.coins, h, n)
                  d == Delta(p.coins, chain[h + n + 1])
              IN \E m \in 0 .. Len(Writes(d)) :
                    rows' = [rows EXCEPT !.coins = Written(p.rows, d, m)]
    BY <1>1
  <1> DEFINE p == Processed(wallet.coins, rows.coins, h, n)
             ids == chain[h + n + 1]
             d == Delta(p.coins, ids)
  <1>3. PICK m \in 0 .. Len(Writes(d)) : rows' = [rows EXCEPT !.coins = Written(p.rows, d, m)]
    BY <1>2
  <1>4. /\ ChainInvariant /\ FileRight(rows, Made, OnChain, Height)
        /\ WalletRight(wallet, doubled, Made, OnChain, Height)
    BY <1>1, InvariantIs
  <1>5. /\ h \in 0 .. Height /\ CoinsRight(wallet.coins, Made, OnChain)
        /\ CoinsRight(rows.coins, Made, OnChain)
    BY <1>4 DEF WalletRight, FileRight
  <1> HIDE DEF h
  <1>6. n \in Nat /\ h + n <= Height /\ h + n + 1 \in DOMAIN chain
    <2>1. Height \in Nat /\ Height = Len(chain) - 1 /\ DOMAIN chain = 1 .. Len(chain)
      BY <1>4, SequenceIs DEF ChainInvariant, Height
    <2>2. Portion(h) \in Nat /\ h + Portion(h) <= Height
      BY <1>5, <2>1, PortionFits
    <2> QED  BY <1>5, <2>1, <2>2
  <1>7. CoinsRight(p.coins, Made, OnChain) /\ CoinsRight(p.rows, Made, OnChain)
    BY <1>4, <1>5, <1>6, ProcessedIs
  <1>8. /\ IsFiniteSet(ids) /\ Refs(ids) \subseteq Made /\ ids \subseteq OnChain
        /\ \A t \in ids : \A r \in txs[t].ins : r[1] \in OnChain
    BY <1>4, <1>6, BlockIs
  <1> HIDE DEF p, ids
  <1>9. DeltaRight(d, p.coins, Made, OnChain)
    BY <1>7, <1>8, DeltaIs
  <1> HIDE DEF d
  <1>10. CoinsRight(Written(p.rows, d, m), Made, OnChain)
    BY <1>3, <1>7, <1>9, WrittenIs
  <1> QED  BY <1>1, <1>3, <1>10, StoppedWithCoins

\* A new block and what was right before it.
LEMMA BlockComes ==
    ASSUME WalletInvariant, NEW ids \in Minable, chain' = Append(chain, ids),
           UNCHANGED <<txs, known>>
    PROVE  /\ ChainInvariant' /\ OnChain' = OnChain \cup ids /\ Height' = Height + 1
           /\ Height \in Nat
           /\ \A h \in 0 .. Height : Below(h)' = Below(h)
           /\ FileRight(rows, Made, OnChain', Height')
           /\ wallet # Null => CoinsRight(wallet.coins, Made, OnChain')
           /\ IsFiniteSet(ids) /\ Refs(ids) \subseteq Made /\ ids \subseteq OnChain'
           /\ ids \cap OnChain = {}
           /\ \A t \in ids : \A r \in txs[t].ins \cup txs[t].claims : r[1] \in OnChain
  <1>1. ChainInvariant /\ FileRight(rows, Made, OnChain, Height)
    BY InvariantIs
  <1>2. ChainInvariant'
    BY <1>1, ChainLonger
  <1>3. /\ OnChain' = OnChain \cup ids /\ Height' = Height + 1 /\ Height \in Nat
        /\ \A h \in 0 .. Len(chain) : Below(h)' = Below(h)
    BY <1>1, BlockAdded DEF ChainInvariant
  <1>4. /\ IsFiniteSet(ids) /\ ids \subseteq DOMAIN txs /\ ids \cap OnChain = {}
        /\ \A t \in ids : \A r \in txs[t].ins \cup txs[t].claims : r[1] \in OnChain
    BY <1>1, MinableIs
  <1>5. Height \in Nat /\ Height' \in Nat /\ Height <= Height' /\ OnChain \subseteq OnChain'
    BY <1>3
  <1>6. FileRight(rows, Made, OnChain', Height')
    BY <1>1, <1>5, MoreMade
  <1>7. wallet # Null => CoinsRight(wallet.coins, Made, OnChain')
    <2>1. wallet # Null => CoinsRight(wallet.coins, Made, OnChain)
      BY InvariantIs DEF WalletRight
    <2> QED  BY <1>5, <2>1, MoreMade
  <1>8. \A h \in 0 .. Height : Below(h)' = Below(h)
    <2>1. 0 .. Height \subseteq 0 .. Len(chain)
      BY <1>1, SequenceIs DEF ChainInvariant, Height
    <2> QED  BY <1>3, <2>1
  <1> QED  BY <1>2, <1>3, <1>4, <1>6, <1>7, <1>8, RefsMade

LEMMA StopInBlockIs ==
    ASSUME WalletInvariant, NEW ids \in Minable, StopInBlock(ids)
    PROVE  WalletInvariant'
  <1>1. /\ wallet # Null /\ Down /\ chain' = Append(chain, ids) /\ UNCHANGED <<txs, known>>
        /\ LET d == Delta(wallet.coins, ids) IN
           \E n \in 0 .. Len(Writes(d)) : rows' = [rows EXCEPT !.coins = Written(@, d, n)]
    BY DEF StopInBlock
  <1> DEFINE d == Delta(wallet.coins, ids)
  <1>2. PICK n \in 0 .. Len(Writes(d)) : rows' = [rows EXCEPT !.coins = Written(@, d, n)]
    BY <1>1
  <1>3. /\ ChainInvariant' /\ OnChain' = OnChain \cup ids
        /\ FileRight(rows, Made, OnChain', Height')
        /\ CoinsRight(wallet.coins, Made, OnChain')
        /\ IsFiniteSet(ids) /\ Refs(ids) \subseteq Made /\ ids \subseteq OnChain'
        /\ \A t \in ids : \A r \in txs[t].ins \cup txs[t].claims : r[1] \in OnChain
    BY <1>1, BlockComes
  <1>4. DeltaRight(d, wallet.coins, Made, OnChain')
    <2>1. \A t \in ids : \A r \in txs[t].ins : r[1] \in OnChain'
      BY <1>3
    <2> QED  BY <1>3, <2>1, DeltaIs
  <1> HIDE DEF d
  <1>5. CoinsRight(rows.coins, Made, OnChain')
    BY <1>3 DEF FileRight
  <1>6. CoinsRight(Written(rows.coins, d, n), Made, OnChain')
    BY <1>2, <1>4, <1>5, WrittenIs
  <1> DEFINE c == Written(rows.coins, d, n)
  <1>7. rows' = [rows EXCEPT !.coins = c]
    BY <1>2
  <1> HIDE DEF c
  <1>8. CoinsRight(c, Made, OnChain')
    BY <1>6 DEF c
  <1>9. FileRight(rows', Made, OnChain', Height')
    BY <1>3, <1>7, <1>8, CoinsReplaced
  <1>10. Made' = Made
    BY <1>1 DEF Made, Refs
  <1> QED  BY <1>1, <1>3, <1>9, <1>10, StoppedIs

\* The calls of the handlers of an open wallet.
LEMMA HandledIs ==
    ASSUME WalletInvariant, wallet # Null, NEW ids \in Minable, chain' = Append(chain, ids),
           UNCHANGED <<txs, known>>
    PROVE  LET p == Handled(ids, wallet.handlers) IN
           /\ wallet.handlers \in {0, 1}
           /\ CoinsRight(p.coins, Made, OnChain') /\ CoinsRight(p.rows, Made, OnChain')
           /\ Agree(p.coins, p.rows, txs, doubled)
           /\ AllMarked(sends, p.coins, OnChain',
                        IF wallet.handlers = 1 THEN OnChain' ELSE Below(wallet.height))
  <1> DEFINE k == wallet.handlers
             b == [i \in 1 .. k |-> ids]
             p == Handled(ids, k)
  <1>1. /\ OnChain' = OnChain \cup ids
        /\ FileRight(rows, Made, OnChain', Height')
        /\ CoinsRight(wallet.coins, Made, OnChain')
        /\ IsFiniteSet(ids) /\ Refs(ids) \subseteq Made /\ ids \subseteq OnChain'
        /\ ids \cap OnChain = {}
        /\ \A t \in ids : \A r \in txs[t].ins \cup txs[t].claims : r[1] \in OnChain
    BY BlockComes
  <1>2. /\ WalletRight(wallet, doubled, Made, OnChain, Height)
        /\ AllMarked(sends, wallet.coins, OnChain, Past(wallet))
        /\ Follows(wallet, rows, txs, doubled)
        /\ \A s : Housed(s, doubled)
    BY InvariantIs
  <1>3. k \in {0, 1} /\ k \in Nat
    BY <1>2 DEF WalletRight, Tasks
  <1>4. p = AfterBlocks(wallet.coins, rows.coins, b)
    BY DEF Handled
  <1>5. DOMAIN b = 1 .. k /\ \A i \in 1 .. k : b[i] = ids
    OBVIOUS
  <1> HIDE DEF k, b, p
  <1>6. InOrder(b, k, Made, OnChain')
    <2> SUFFICES ASSUME NEW i \in 1 .. k
                 PROVE  /\ IsFiniteSet(b[i]) /\ Refs(b[i]) \subseteq Made /\ b[i] \subseteq OnChain'
                        /\ \A t \in b[i] : \A r \in txs[t].ins \cup txs[t].claims :
                              r[1] \in OnChain' /\ \A j \in i .. k : r[1] \notin b[j]
      BY DEF InOrder
    <2>1. \A j \in i .. k : j \in 1 .. k
      BY <1>3
    <2>2. b[i] = ids /\ \A j \in i .. k : b[j] = ids
      BY <1>5, <2>1
    <2>3. \A t \in ids : \A r \in txs[t].ins \cup txs[t].claims : r[1] \in OnChain' /\ r[1] \notin ids
      BY <1>1
    <2> QED  BY <1>1, <2>2, <2>3
  <1>7. CoinsRight(rows.coins, Made, OnChain')
    BY <1>1 DEF FileRight
  <1>8. /\ CoinsRight(p.coins, Made, OnChain') /\ CoinsRight(p.rows, Made, OnChain')
        /\ Kept(wallet.coins, p.coins, b, k)
        /\ \A some : /\ Agree(wallet.coins, rows.coins, txs, some)
                     /\ \A i \in 1 .. k : Housed(b[i], some)
                     => Agree(p.coins, p.rows, txs, some)
    BY <1>1, <1>3, <1>4, <1>5, <1>6, <1>7, AfterBlocksIs
  <1>9. Agree(p.coins, p.rows, txs, doubled)
    BY <1>2, <1>8 DEF Follows
  <1> DEFINE past2 == IF k = 1 THEN OnChain' ELSE Below(wallet.height)
  <1>10. AllMarked(sends, p.coins, OnChain', past2)
    <2>1. Past(wallet) \subseteq past2
      BY <1>1 DEF Past, k
    <2>2. \A i \in 1 .. k : b[i] \cap Past(wallet) = {}
      <3>1. CASE k = 0
        BY <3>1
      <3>2. CASE k = 1
        BY <1>1, <1>5, <3>2 DEF Past, k
      <3> QED  BY <1>3, <3>1, <3>2
    <2>3. \A i \in 1 .. k : \A r \in SpentBy(b[i]) \cup ClaimedBy(b[i]) : r[1] \in past2
      <3>1. CASE k = 0
        BY <3>1
      <3>2. CASE k = 1
        <4>1. \A r \in SpentBy(ids) \cup ClaimedBy(ids) : r[1] \in OnChain
          BY <1>1 DEF SpentBy, ClaimedBy
        <4>2. past2 = OnChain'
          BY <3>2
        <4> QED  BY <1>1, <1>5, <4>1, <4>2
      <3> QED  BY <1>3, <3>1, <3>2
    <2>4. OnChain \subseteq OnChain'
      BY <1>1
    <2> HIDE DEF past2
    <2> QED  BY <1>2, <1>8, <2>1, <2>2, <2>3, <2>4, MarksKept
  <1> QED  BY <1>3, <1>8, <1>9, <1>10 DEF k, p

LEMMA PersistBlockIs ==
    ASSUME WalletInvariant, NEW ids \in Minable, PersistBlock(ids)
    PROVE  WalletInvariant'
  <1> DEFINE p == Handled(ids, wallet.handlers)
  <1>1. /\ chain' = Append(chain, ids) /\ Dropped(ids) /\ UNCHANGED <<txs, known, sends, doubled>>
        /\ IF wallet = Null THEN UNCHANGED <<wallet, rows>>
           ELSE /\ wallet' = [wallet EXCEPT !.coins = p.coins, !.height = @ + wallet.handlers]
                /\ rows' = [rows EXCEPT !.coins = p.rows]
    BY DEF PersistBlock, late
  <1>2. /\ ChainInvariant' /\ OnChain' = OnChain \cup ids /\ Height' = Height + 1 /\ Height \in Nat
        /\ \A h \in 0 .. Height : Below(h)' = Below(h)
        /\ FileRight(rows, Made, OnChain', Height')
    BY <1>1, BlockComes
  <1>3. IsSequence(sends) /\ SpendsOnce /\ OffersUnconfirmed
    BY InvariantIs
  <1>4. IsSequence(sends') /\ SpendsOnce'
    BY <1>1, <1>3 DEF SpendsOnce
  <1>5. OffersUnconfirmed'
    BY <1>1, <1>2, <1>3 DEF OffersUnconfirmed, Dropped
  <1>6. Made' = Made
    BY <1>1 DEF Made, Refs
  <1>7. CASE wallet = Null
    <2>1. wallet' = Null /\ rows' = rows
      BY <1>1, <1>7
    <2> QED  BY <1>2, <1>4, <1>5, <1>6, <2>1, InvariantIs
  <1>8. CASE wallet # Null
    <2>1. /\ wallet' = [wallet EXCEPT !.coins = p.coins, !.height = @ + wallet.handlers]
          /\ rows' = [rows EXCEPT !.coins = p.rows]
      BY <1>1, <1>8
    <2>2. /\ wallet.handlers \in {0, 1}
          /\ CoinsRight(p.coins, Made, OnChain') /\ CoinsRight(p.rows, Made, OnChain')
          /\ Agree(p.coins, p.rows, txs, doubled)
          /\ AllMarked(sends, p.coins, OnChain',
                       IF wallet.handlers = 1 THEN OnChain' ELSE Below(wallet.height))
      BY <1>1, <1>8, HandledIs
    <2> HIDE DEF p
    <2>3. /\ WalletRight(wallet, doubled, Made, OnChain, Height)
          /\ Follows(wallet, rows, txs, doubled)
      BY <1>8, InvariantIs
    <2>4. wallet' = [keys |-> wallet.keys, contracts |-> wallet.contracts, tokens |-> wallet.tokens,
                     watch |-> wallet.watch, coins |-> p.coins,
                     height |-> wallet.height + wallet.handlers, handlers |-> wallet.handlers,
                     loops |-> wallet.loops, starts |-> wallet.starts]
      <3>1. IsWallet(wallet)
        BY <2>3 DEF WalletRight
      <3> QED  BY <2>1, <3>1 DEF IsWallet
    <2>5. /\ FileRight(rows', Made', OnChain', Height')
          /\ rows' = [coins |-> p.rows, height |-> rows.height, tokens |-> rows.tokens,
                      accounts |-> rows.accounts, contracts |-> rows.contracts,
                      addresses |-> rows.addresses]
      BY <1>2, <1>6, <2>1, <2>2, CoinsReplaced
    <2>6. WalletRight(wallet', doubled', Made', OnChain', Height')
      <3>1. IsWallet(wallet')
        BY <2>4 DEF IsWallet
      <3>2. wallet.height + wallet.handlers \in 0 .. Height'
        <4>1. wallet.height \in 0 .. Height
          BY <2>3 DEF WalletRight
        <4> QED  BY <1>2, <2>2, <4>1
      <3> QED  BY <1>1, <1>6, <2>2, <2>3, <2>4, <3>1, <3>2 DEF WalletRight
    <2>7. AllMarked(sends', wallet'.coins, OnChain', Past(wallet)')
      <3>1. Past(wallet)' = IF wallet.handlers = 1 THEN OnChain' ELSE Below(wallet.height)
        <4>1. wallet'.handlers = wallet.handlers /\ wallet'.height = wallet.height + wallet.handlers
          BY <2>4
        <4>2. wallet.height \in 0 .. Height /\ wallet.height + 0 = wallet.height
          BY <1>2, <2>3 DEF WalletRight
        <4>3. CASE wallet.handlers = 1
          BY <4>1, <4>3 DEF Past
        <4>4. CASE wallet.handlers = 0
          <5>1. wallet'.height = wallet.height
            BY <4>1, <4>2, <4>4
          <5>2. \A h : wallet'.height = h => Past(wallet)' = Below(h)'
            BY <4>1, <4>4 DEF Past, Below
          <5>3. Past(wallet)' = Below(wallet.height)
            BY <1>2, <4>2, <5>1, <5>2
          <5> QED  BY <4>4, <5>3
        <4> QED  BY <2>2, <4>3, <4>4
      <3>2. sends' = sends /\ wallet'.coins = p.coins
        BY <1>1, <2>4
      <3> QED  BY <2>2, <3>1, <3>2
    <2>8. Follows(wallet', rows', txs', doubled')
      <3>1. LoadWatchOnly(rows') = LoadWatchOnly(rows)
        BY <2>5 DEF LoadWatchOnly
      <3> QED  BY <1>1, <2>2, <2>3, <2>4, <2>5, <3>1 DEF Follows
    <2> QED  BY <1>2, <1>4, <1>5, <2>5, <2>6, <2>7, <2>8, InvariantIs
  <1> QED  BY <1>7, <1>8

-----------------------------------------------------------------------------
(* A transaction of the wallet.                                            *)

\* What it spends is confirmed and not spent, what it claims is not claimed.
Fresh(coins, t) ==
    /\ \A r \in t.ins : r \in DOMAIN coins /\ "confirmed" \in coins[r] /\ "spent" \notin coins[r]
    /\ \A r \in t.claims : r \in DOMAIN coins /\ "confirmed" \in coins[r] /\ "claimed" \notin coins[r]
    /\ t.ins = {} \/ t.claims = {}

LEMMA TransactionMade ==
    ASSUME IsSequence(txs), NEW t,
           txs' = IF IdOf(t) \in DOMAIN txs THEN txs ELSE Append(txs, t)
    PROVE  Extends /\ IdOf(t) \in DOMAIN txs' /\ txs'[IdOf(t)] = t
  <1>1. Len(txs) \in Nat /\ DOMAIN txs = 1 .. Len(txs)
    BY SequenceIs
  <1>2. CASE \E i \in DOMAIN txs : txs[i] = t
    <2>1. IdOf(t) \in DOMAIN txs /\ txs[IdOf(t)] = t
      BY <1>2 DEF IdOf
    <2> QED  BY <2>1 DEF Extends, IsSequence
  <1>3. CASE ~ \E i \in DOMAIN txs : txs[i] = t
    <2>1. IdOf(t) = Len(txs) + 1
      BY <1>3 DEF IdOf
    <2>2. txs' = Append(txs, t)
      <3>1. Len(txs) + 1 \notin DOMAIN txs
        BY <1>1
      <3> QED  BY <2>1, <3>1
    <2>3. /\ IsSequence(txs') /\ Len(txs') = Len(txs) + 1
          /\ \A i \in 1 .. Len(txs) : txs'[i] = txs[i]
          /\ txs'[Len(txs) + 1] = t
      BY <2>2, AppendIs
    <2>4. DOMAIN txs' = 1 .. Len(txs) + 1
      BY <2>3, SequenceIs
    <2> QED  BY <1>1, <2>1, <2>3, <2>4 DEF Extends, IsSequence
  <1> QED  BY <1>2, <1>3

\* What SaveTransaction changes.
LEMMA SaveTransactionIs ==
    ASSUME NEW coins, NEW made, NEW onChain, CoinsRight(coins, made, onChain),
           NEW t, Fresh(coins, t), NEW id, OutsOf(id, t) \subseteq made
    PROVE  LET s == SaveTransaction(coins, t, id) IN
           /\ DeltaRight(s, coins, made, onChain)
           /\ s.deleted = {}
           /\ \A r \in s.added : /\ r[1] = id /\ CheckAddressState(t.outs[r[2]].to) # {}
                                 /\ r \in s.homeless => t.outs[r[2]].to \notin DOMAIN rows.addresses
           /\ DOMAIN s.state = DOMAIN coins \cup s.added
           /\ \A r \in DOMAIN coins \ s.added : coins[r] \ {"confirmed"} \subseteq s.state[r]
           /\ \A r \in t.ins \ s.added : "spent" \in s.state[r]
           /\ \A r \in t.claims \ s.added : "claimed" \in s.state[r]
  <1> DEFINE outs == {r \in {id} \X Places : /\ r[2] \in DOMAIN t.outs
                                             /\ CheckAddressState(t.outs[r[2]].to) # {}}
             f == [r \in DOMAIN coins \cup outs |->
                     IF r \in outs THEN CheckAddressState(t.outs[r[2]].to) \ {"inwallet"}
                     ELSE IF r \in t.ins THEN (coins[r] \cup {"spent"}) \ {"confirmed"}
                     ELSE IF r \in t.claims THEN (coins[r] \cup {"claimed"}) \ {"confirmed"}
                     ELSE coins[r]]
             s == SaveTransaction(coins, t, id)
  <1>1. /\ s.added = outs /\ s.changed = (t.ins \cup t.claims) \cap DOMAIN coins
        /\ s.homeless = {r \in outs : t.outs[r[2]].to \notin DOMAIN rows.addresses}
        /\ s.deleted = {} /\ s.state = f
    BY DEF SaveTransaction
  <1>2. /\ \A r \in outs : r[1] = id /\ CheckAddressState(t.outs[r[2]].to) # {}
        /\ outs \in SUBSET ({id} \X Places)
    OBVIOUS
  <1>15. outs \subseteq made
    BY DEF OutsOf
  <1>3. IsFiniteSet(outs)
    <2>1. IsFiniteSet({id})
      BY FS_Singleton
    <2>2. IsFiniteSet({id} \X Places)
      BY <2>1, PlacesFinite, FS_Product
    <2> HIDE DEF outs
    <2> QED  BY <1>2, <2>2, FS_Subset
  <1>4. \A r \in outs : "confirmed" \notin CheckAddressState(t.outs[r[2]].to)
    BY DEF CheckAddressState
  <1> HIDE DEF outs, s
  <1>5. /\ DOMAIN f = DOMAIN coins \cup outs /\ f = [r \in DOMAIN f |-> f[r]]
        /\ \A r \in outs : f[r] = CheckAddressState(t.outs[r[2]].to) \ {"inwallet"}
        /\ \A r \in DOMAIN coins \ outs :
              f[r] = IF r \in t.ins THEN (coins[r] \cup {"spent"}) \ {"confirmed"}
                     ELSE IF r \in t.claims THEN (coins[r] \cup {"claimed"}) \ {"confirmed"}
                     ELSE coins[r]
    OBVIOUS
  <1> HIDE DEF f
  <1>6. /\ \A r \in outs : "confirmed" \notin f[r]
        /\ \A r \in DOMAIN coins \ outs : "confirmed" \in f[r] => "confirmed" \in coins[r]
        /\ \A r \in DOMAIN coins \ outs : coins[r] \ {"confirmed"} \subseteq f[r]
        /\ \A r \in (DOMAIN coins \cap t.ins) \ outs : "spent" \in f[r]
        /\ \A r \in (DOMAIN coins \cap t.claims) \ outs : r \notin t.ins => "claimed" \in f[r]
        /\ \A r \in DOMAIN f : r \notin outs /\ r \notin t.ins /\ r \notin t.claims => f[r] = coins[r]
    <2>1. \A r \in outs : "confirmed" \notin f[r]
      BY <1>4, <1>5
    <2>2. ASSUME NEW r \in DOMAIN coins \ outs
          PROVE  /\ "confirmed" \in f[r] => "confirmed" \in coins[r]
                 /\ coins[r] \ {"confirmed"} \subseteq f[r]
                 /\ r \in t.ins => "spent" \in f[r]
                 /\ r \in t.claims /\ r \notin t.ins => "claimed" \in f[r]
                 /\ r \notin t.ins /\ r \notin t.claims => f[r] = coins[r]
      <3>1. CASE r \in t.ins
        <4>1. f[r] = (coins[r] \cup {"spent"}) \ {"confirmed"}
          BY <1>5, <3>1
        <4> QED  BY <3>1, <4>1
      <3>2. CASE r \notin t.ins /\ r \in t.claims
        <4>1. f[r] = (coins[r] \cup {"claimed"}) \ {"confirmed"}
          BY <1>5, <3>2
        <4> QED  BY <3>2, <4>1
      <3>3. CASE r \notin t.ins /\ r \notin t.claims
        <4>1. f[r] = coins[r]
          BY <1>5, <3>3
        <4> QED  BY <3>3, <4>1
      <3> QED  BY <3>1, <3>2, <3>3
    <2>3. \A r \in DOMAIN f : r \notin outs => r \in DOMAIN coins \ outs
      BY <1>5
    <2> QED  BY <2>1, <2>2, <2>3
  <1>7. IsFiniteSet(DOMAIN coins)
    BY DEF CoinsRight
  <1>8. IsFiniteSet(DOMAIN f)
    <2>1. DOMAIN f = DOMAIN coins \cup outs
      BY <1>5
    <2> QED  BY <1>3, <1>7, <2>1, FS_Union
  <1>9. IsFiniteSet(s.added \cup s.changed) /\ IsFiniteSet(s.deleted)
    <2>1. s.added \cup s.changed \in SUBSET DOMAIN f /\ s.deleted \in SUBSET DOMAIN f
      BY <1>1, <1>5
    <2> QED  BY <1>8, <2>1, FS_Subset
  <1>10. CoinsRight(s.state, made, onChain)
    <2>1. \A r \in DOMAIN f : r \in made /\ ("confirmed" \in f[r] => r[1] \in onChain)
      BY <1>2, <1>5, <1>6, <1>15 DEF CoinsRight
    <2> QED  BY <1>1, <1>5, <1>8, <2>1 DEF CoinsRight
  <1>11. \A r \in DOMAIN s.state \ (s.added \cup s.changed) :
            r \in DOMAIN coins /\ s.state[r] = coins[r]
    BY <1>1, <1>5, <1>6
  <1>12. DeltaRight(s, coins, made, onChain)
    BY <1>1, <1>5, <1>9, <1>10, <1>11 DEF DeltaRight
  <1>13. /\ \A r \in t.ins \ outs : "spent" \in f[r]
         /\ \A r \in t.claims \ outs : "claimed" \in f[r]
    BY <1>5, <1>6 DEF Fresh
  <1>14. /\ \A r \in s.added : /\ r[1] = id /\ CheckAddressState(t.outs[r[2]].to) # {}
                               /\ r \in s.homeless => t.outs[r[2]].to \notin DOMAIN rows.addresses
         /\ DOMAIN s.state = DOMAIN coins \cup s.added
         /\ \A r \in DOMAIN coins \ s.added : coins[r] \ {"confirmed"} \subseteq s.state[r]
         /\ \A r \in t.ins \ s.added : "spent" \in s.state[r]
         /\ \A r \in t.claims \ s.added : "claimed" \in s.state[r]
    BY <1>1, <1>2, <1>5, <1>6, <1>13
  <1> QED  BY <1>1, <1>12, <1>14 DEF s

\* The marks once a transaction was saved.
LEMMA MarkedToo ==
    ASSUME NEW coins, NEW made, NEW onChain, CoinsRight(coins, made, onChain),
           NEW t, Fresh(coins, t), NEW id, OutsOf(id, t) \subseteq made, id \notin onChain, NEW past,
           IsSequence(sends), AllMarked(sends, coins, onChain, past), SpendsOnce,
           sends' = Append(sends, [ins |-> t.ins, claims |-> t.claims])
    PROVE  /\ AllMarked(sends', SaveTransaction(coins, t, id).state, onChain, past)
           /\ IsSequence(sends') /\ SpendsOnce'
  <1> DEFINE s == SaveTransaction(coins, t, id)
             new == [ins |-> t.ins, claims |-> t.claims]
             n == Len(sends) + 1
  <1>1. /\ \A r \in s.added : r[1] = id
        /\ DOMAIN s.state = DOMAIN coins \cup s.added
        /\ \A r \in DOMAIN coins \ s.added : coins[r] \ {"confirmed"} \subseteq s.state[r]
        /\ \A r \in t.ins \ s.added : "spent" \in s.state[r]
        /\ \A r \in t.claims \ s.added : "claimed" \in s.state[r]
    BY SaveTransactionIs
  <1>2. \A r : r[1] \in onChain => r \notin s.added
    BY <1>1
  <1>3. /\ IsSequence(sends') /\ Len(sends') = n
        /\ \A i \in 1 .. Len(sends) : sends'[i] = sends[i]
        /\ sends'[n] = new
    BY AppendIs
  <1>4. DOMAIN sends' = 1 .. n /\ DOMAIN sends = 1 .. Len(sends) /\ Len(sends) \in Nat
    BY <1>3, SequenceIs
  <1>5. /\ \A i \in DOMAIN sends' : i \in DOMAIN sends \/ i = n
        /\ \A i \in DOMAIN sends : sends'[i] = sends[i]
    BY <1>3, <1>4
  <1>6. new.ins = t.ins /\ new.claims = t.claims
    OBVIOUS
  <1> HIDE DEF s, new, n
  <1>7. \A r \in t.ins \cup t.claims : r \in DOMAIN coins /\ r[1] \in onChain
    BY DEF Fresh, CoinsRight
  <1>8. ASSUME NEW refs, NEW flag, flag # "confirmed", Marks(refs, flag, coins, onChain, past)
        PROVE  Marks(refs, flag, s.state, onChain, past)
    <2> SUFFICES ASSUME NEW r \in refs
                 PROVE  /\ r[1] \in onChain
                        /\ r \in DOMAIN s.state => flag \in s.state[r]
                        /\ r \notin DOMAIN s.state => r[1] \in past
      BY DEF Marks
    <2>1. /\ r[1] \in onChain
          /\ r \in DOMAIN coins => flag \in coins[r]
          /\ r \notin DOMAIN coins => r[1] \in past
      BY <1>8 DEF Marks
    <2>2. r \in DOMAIN s.state => r \in DOMAIN coins \ s.added
      BY <1>1, <1>2, <2>1
    <2>3. r \notin DOMAIN s.state => r \notin DOMAIN coins
      BY <1>1
    <2>4. ASSUME r \in DOMAIN s.state PROVE flag \in s.state[r]
      <3>1. flag \in coins[r] /\ coins[r] \ {"confirmed"} \subseteq s.state[r]
        BY <1>1, <2>1, <2>2, <2>4
      <3> QED  BY <1>8, <3>1
    <2> QED  BY <2>1, <2>3, <2>4
  <1>9. /\ Marks(t.ins, "spent", s.state, onChain, past)
        /\ Marks(t.claims, "claimed", s.state, onChain, past)
    <2>1. \A r \in t.ins \cup t.claims : r \in DOMAIN s.state /\ r \notin s.added /\ r[1] \in onChain
      BY <1>1, <1>2, <1>7
    <2> QED  BY <1>1, <2>1 DEF Marks
  <1>10. AllMarked(sends', s.state, onChain, past)
    <2> SUFFICES ASSUME NEW i \in DOMAIN sends'
                 PROVE  /\ Marks(sends'[i].ins, "spent", s.state, onChain, past)
                        /\ Marks(sends'[i].claims, "claimed", s.state, onChain, past)
      BY DEF AllMarked
    <2>1. CASE i \in DOMAIN sends
      <3>1. /\ Marks(sends[i].ins, "spent", coins, onChain, past)
            /\ Marks(sends[i].claims, "claimed", coins, onChain, past)
        BY <2>1 DEF AllMarked
      <3>2. sends'[i] = sends[i] /\ "spent" # "confirmed" /\ "claimed" # "confirmed"
        BY <1>5, <2>1
      <3> QED  BY <1>8, <3>1, <3>2
    <2>2. CASE i = n
      BY <1>3, <1>6, <1>9, <2>2
    <2> QED  BY <1>5, <2>1, <2>2
  <1>11. ASSUME NEW i \in DOMAIN sends
         PROVE  sends[i].ins \cap t.ins = {} /\ sends[i].claims \cap t.claims = {}
    <2>1. /\ Marks(sends[i].ins, "spent", coins, onChain, past)
          /\ Marks(sends[i].claims, "claimed", coins, onChain, past)
      BY DEF AllMarked
    <2>2. \A r \in t.ins : r \in DOMAIN coins /\ "spent" \notin coins[r]
      BY DEF Fresh
    <2>3. \A r \in t.claims : r \in DOMAIN coins /\ "claimed" \notin coins[r]
      BY DEF Fresh
    <2> QED  BY <2>1, <2>2, <2>3 DEF Marks
  <1>12. SpendsOnce'
    <2> SUFFICES ASSUME NEW i \in DOMAIN sends', NEW j \in DOMAIN sends', i # j
                 PROVE  /\ sends'[i].ins \cap sends'[j].ins = {}
                        /\ sends'[i].claims \cap sends'[j].claims = {}
      BY DEF SpendsOnce
    <2>1. CASE i \in DOMAIN sends /\ j \in DOMAIN sends
      BY <1>5, <2>1 DEF SpendsOnce
    <2>2. CASE i \in DOMAIN sends /\ j = n
      BY <1>3, <1>5, <1>6, <1>11, <2>2
    <2>3. CASE i = n /\ j \in DOMAIN sends
      BY <1>3, <1>5, <1>6, <1>11, <2>3
    <2> QED  BY <1>5, <2>1, <2>2, <2>3
  <1> QED  BY <1>3, <1>10, <1>12 DEF s

\* The rows once a transaction was saved.
LEMMA AgreeSaved ==
    ASSUME NEW coins, NEW r, NEW made, NEW onChain, CoinsRight(coins, made, onChain),
           CoinsRight(r, made, onChain), made = Made',
           NEW t, Fresh(coins, t), NEW id, OutsOf(id, t) \subseteq made, Extends, txs'[id] = t,
           NEW some, Agree(coins, r, txs, some),
           \A q \in DOMAIN coins \cup DOMAIN r : q[1] \in DOMAIN txs,
           \A a : CheckAddressState(a) # {} /\ a \notin some => a \in DOMAIN rows.addresses
    PROVE  LET s == SaveTransaction(coins, t, id) IN
           Agree(s.state, OnCoinsChanged(r, s), txs', some)
  <1> DEFINE s == SaveTransaction(coins, t, id)
             w == OnCoinsChanged(r, s)
             saved == (s.added \cup s.changed) \cap ((s.added \ s.homeless) \cup DOMAIN r)
  <1>1. /\ DeltaRight(s, coins, made, onChain)
        /\ s.deleted = {}
        /\ \A q \in s.added : /\ q[1] = id /\ CheckAddressState(t.outs[q[2]].to) # {}
                              /\ q \in s.homeless => t.outs[q[2]].to \notin DOMAIN rows.addresses
        /\ DOMAIN s.state = DOMAIN coins \cup s.added
    BY SaveTransactionIs
  <1> HIDE DEF s
  <1>2. /\ DOMAIN w = (DOMAIN r \cup saved) \ s.deleted
        /\ \A c \in DOMAIN w : w[c] = IF c \in saved THEN s.state[c] ELSE r[c]
    <2>1. Rewritten(w, r, s)
      BY <1>1, AllWritten
    <2> QED  BY <2>1 DEF Rewritten
  <1>3. \A c : c \in DOMAIN w <=> c \in DOMAIN r \/ c \in saved
    BY <1>1, <1>2
  <1> HIDE DEF w
  <1> SUFFICES ASSUME NEW q \in DOMAIN s.state \cup DOMAIN w, txs'[q[1]].outs[q[2]].to \notin some
               PROVE  q \in DOMAIN s.state /\ q \in DOMAIN w /\ s.state[q] = w[q]
    BY DEF Agree, w, s
  <1>4. CASE q \in s.added
    <2>1. q \notin s.homeless
      BY <1>1, <1>4
    <2>2. q \in saved
      BY <1>4, <2>1
    <2> QED  BY <1>1, <1>2, <1>3, <1>4, <2>2
  <1>5. CASE q \notin s.added
    <2>1. q \in DOMAIN coins \cup DOMAIN r
      BY <1>1, <1>3, <1>5 DEF DeltaRight
    <2>2. txs[q[1]].outs[q[2]].to \notin some
      BY <2>1 DEF Extends
    <2>3. q \in DOMAIN coins /\ q \in DOMAIN r /\ coins[q] = r[q]
      BY <2>1, <2>2 DEF Agree
    <2>4. CASE q \in s.changed
      <3>1. q \in saved
        BY <2>3, <2>4
      <3> QED  BY <1>1, <1>2, <1>3, <2>3, <3>1
    <2>5. CASE q \notin s.changed
      <3>1. q \notin saved
        BY <1>5, <2>5
      <3>2. s.state[q] = coins[q]
        BY <1>1, <1>5, <2>3, <2>5 DEF DeltaRight
      <3> QED  BY <1>1, <1>2, <1>3, <2>3, <3>1, <3>2
    <2> QED  BY <2>4, <2>5
  <1> QED  BY <1>4, <1>5

\* Relaying and saving a transaction that spends and claims fresh coins.
LEMMA RelayAndSaveIs ==
    ASSUME WalletInvariant, wallet # Null, NEW t, Fresh(wallet.coins, t), RelayAndSave(t)
    PROVE  WalletInvariant'
  <1> DEFINE id == IdOf(t)
             s == SaveTransaction(wallet.coins, t, id)
             new == [ins |-> t.ins, claims |-> t.claims]
  <1>1. /\ Accepts(t)
        /\ txs' = IF id \in DOMAIN txs THEN txs ELSE Append(txs, t)
        /\ \/ /\ pool' = pool \cup {id} /\ cache' = cache \cup {id}
              /\ \/ UNCHANGED <<known, wallet, rows, sends>>
                 \/ /\ known' = known \cup {id}
                    /\ sends' = Append(sends, new)
                    /\ IF MaySave(wallet.coins, t)
                       THEN /\ wallet' = [wallet EXCEPT !.coins = s.state]
                            /\ rows' = [rows EXCEPT !.coins = OnCoinsChanged(@, s)]
                       ELSE UNCHANGED <<wallet, rows>>
           \/ /\ Down /\ known' = known \cup {id}
              /\ \E n \in 0 .. Len(Writes(s)) - 1 :
                    rows' = [rows EXCEPT !.coins = Written(@, s, n)]
        /\ UNCHANGED <<chain, doubled>>
    BY DEF RelayAndSave, late
  <1>2. /\ ChainInvariant /\ FileRight(rows, Made, OnChain, Height)
        /\ WalletRight(wallet, doubled, Made, OnChain, Height)
        /\ AllMarked(sends, wallet.coins, OnChain, Past(wallet))
        /\ Follows(wallet, rows, txs, doubled)
        /\ \A a : CheckAddressState(a) # {} /\ a \notin doubled => a \in DOMAIN rows.addresses
        /\ IsSequence(sends) /\ SpendsOnce /\ OffersUnconfirmed
    BY InvariantIs
  <1>3. Extends /\ id \in DOMAIN txs' /\ txs'[id] = t
    BY <1>1, <1>2, TransactionMade DEF ChainInvariant
  <1>4. id \notin OnChain
    BY <1>1 DEF Accepts
  <1> HIDE DEF id, s, new
  <1>5. known' \subseteq DOMAIN txs'
    <2>1. known \subseteq DOMAIN txs'
      BY <1>2, <1>3 DEF ChainInvariant, Extends
    <2> QED  BY <1>1, <1>3, <2>1
  <1>6. /\ ChainInvariant' /\ OnChain' = OnChain /\ Height' = Height
        /\ \A h : Below(h)' = Below(h)
    BY <1>1, <1>2, <1>3, <1>5, ChainKept
  <1>7. Made \subseteq Made' /\ OutsOf(id, t) \subseteq Made' /\ Height \in Nat
    BY <1>2, <1>3, MadeMore, SequenceIs DEF ChainInvariant, Height
  <1>8. /\ FileRight(rows, Made', OnChain, Height)
        /\ CoinsRight(wallet.coins, Made', OnChain)
    BY <1>2, <1>7, MoreMade DEF WalletRight
  <1>9. CoinsRight(rows.coins, Made', OnChain)
    BY <1>8 DEF FileRight
  <1>10. DeltaRight(s, wallet.coins, Made', OnChain)
    BY <1>7, <1>8, SaveTransactionIs DEF s
  <1>11. Past(wallet) = IF wallet.handlers = 1 THEN OnChain ELSE Below(wallet.height)
    BY DEF Past
  <1>12. CASE /\ pool' = pool \cup {id} /\ cache' = cache \cup {id}
              /\ UNCHANGED <<known, wallet, rows, sends>>
    <2>1. WalletRight(wallet', doubled', Made', OnChain', Height')
      BY <1>1, <1>2, <1>6, <1>8, <1>12 DEF WalletRight
    <2>2. AllMarked(sends', wallet'.coins, OnChain', Past(wallet)')
      <3>1. Past(wallet)' = Past(wallet)
        BY <1>6, <1>12 DEF Past
      <3> QED  BY <1>2, <1>6, <1>12, <3>1
    <2>3. Follows(wallet', rows', txs', doubled')
      <3>1. Agree(wallet.coins, rows.coins, txs', doubled)
        <4>1. \A r \in DOMAIN wallet.coins \cup DOMAIN rows.coins : r[1] \in DOMAIN txs
          BY <1>2, RefsAre DEF Made, WalletRight, FileRight, CoinsRight
        <4> QED  BY <1>2, <1>3, <4>1 DEF Agree, Follows, Extends
      <3> QED  BY <1>1, <1>2, <1>12, <3>1 DEF Follows
    <2>4. OffersUnconfirmed'
      BY <1>2, <1>4, <1>6, <1>12 DEF OffersUnconfirmed
    <2>5. IsSequence(sends') /\ SpendsOnce' /\ FileRight(rows', Made', OnChain', Height')
      BY <1>2, <1>6, <1>8, <1>12 DEF SpendsOnce
    <2> QED  BY <1>6, <2>1, <2>2, <2>3, <2>4, <2>5, InvariantIs
  <1>13. CASE /\ pool' = pool \cup {id} /\ cache' = cache \cup {id}
              /\ sends' = Append(sends, new)
              /\ IF MaySave(wallet.coins, t)
                 THEN /\ wallet' = [wallet EXCEPT !.coins = s.state]
                      /\ rows' = [rows EXCEPT !.coins = OnCoinsChanged(@, s)]
                 ELSE UNCHANGED <<wallet, rows>>
    <2> DEFINE w == OnCoinsChanged(rows.coins, s)
    <2>1. MaySave(wallet.coins, t)
      BY DEF MaySave, Fresh
    <2>2. /\ wallet' = [wallet EXCEPT !.coins = s.state]
          /\ rows' = [rows EXCEPT !.coins = w]
      BY <1>13, <2>1
    <2>3. CoinsRight(w, Made', OnChain)
      BY <1>9, <1>10, AllWritten
    <2>4. Agree(s.state, w, txs', doubled)
      <3>1. \A r \in DOMAIN wallet.coins \cup DOMAIN rows.coins : r[1] \in DOMAIN txs
        BY <1>2, RefsAre DEF Made, WalletRight, FileRight, CoinsRight
      <3>2. Agree(wallet.coins, rows.coins, txs, doubled)
        BY <1>2 DEF Follows
      <3> QED  BY <1>2, <1>3, <1>7, <1>8, <1>9, <3>1, <3>2, AgreeSaved DEF s
    <2>5. /\ AllMarked(sends', s.state, OnChain, Past(wallet))
          /\ IsSequence(sends') /\ SpendsOnce'
      BY <1>2, <1>4, <1>7, <1>8, <1>13, MarkedToo DEF s, new
    <2> HIDE DEF w
    <2>6. /\ FileRight(rows', Made', OnChain', Height')
          /\ rows' = [coins |-> w, height |-> rows.height, tokens |-> rows.tokens,
                      accounts |-> rows.accounts, contracts |-> rows.contracts,
                      addresses |-> rows.addresses]
      BY <1>6, <1>8, <2>2, <2>3, CoinsReplaced
    <2>7. wallet' = [keys |-> wallet.keys, contracts |-> wallet.contracts, tokens |-> wallet.tokens,
                     watch |-> wallet.watch, coins |-> s.state, height |-> wallet.height,
                     handlers |-> wallet.handlers, loops |-> wallet.loops,
                     starts |-> wallet.starts]
      <3>1. IsWallet(wallet)
        BY <1>2 DEF WalletRight
      <3> QED  BY <2>2, <3>1 DEF IsWallet
    <2>8. WalletRight(wallet', doubled', Made', OnChain', Height')
      <3>1. IsWallet(wallet')
        BY <2>7 DEF IsWallet
      <3>2. CoinsRight(s.state, Made', OnChain)
        BY <1>10 DEF DeltaRight
      <3> QED  BY <1>1, <1>2, <1>6, <2>7, <3>1, <3>2 DEF WalletRight
    <2>9. AllMarked(sends', wallet'.coins, OnChain', Past(wallet)')
      <3>1. wallet'.handlers = wallet.handlers /\ wallet'.height = wallet.height
        BY <2>7
      <3>2. Past(wallet)' = Past(wallet)
        BY <1>6, <1>11, <3>1 DEF Past
      <3>3. wallet'.coins = s.state
        BY <2>7
      <3> QED  BY <1>6, <2>5, <3>2, <3>3
    <2>10. Follows(wallet', rows', txs', doubled')
      <3>1. LoadWatchOnly(rows') = LoadWatchOnly(rows)
        BY <2>6 DEF LoadWatchOnly
      <3> QED  BY <1>1, <1>2, <2>4, <2>6, <2>7, <3>1 DEF Follows
    <2>11. OffersUnconfirmed'
      BY <1>2, <1>4, <1>6, <1>13 DEF OffersUnconfirmed
    <2> QED  BY <1>6, <2>5, <2>6, <2>8, <2>9, <2>10, <2>11, InvariantIs
  <1>14. CASE /\ Down
              /\ \E n \in 0 .. Len(Writes(s)) - 1 :
                    rows' = [rows EXCEPT !.coins = Written(@, s, n)]
    <2>1. PICK n \in 0 .. Len(Writes(s)) - 1 : rows' = [rows EXCEPT !.coins = Written(@, s, n)]
      BY <1>14
    <2> DEFINE w == Written(rows.coins, s, n)
    <2>2. rows' = [rows EXCEPT !.coins = w]
      BY <2>1
    <2>3. n \in 0 .. Len(Writes(s))
      <3>1. Len(Writes(s)) \in Nat
        BY <1>10, DoneIs DEF DeltaRight
      <3> QED  BY <3>1
    <2>4. CoinsRight(w, Made', OnChain)
      BY <1>9, <1>10, <2>3, WrittenIs
    <2> HIDE DEF w
    <2>5. FileRight(rows', Made', OnChain', Height')
      BY <1>6, <1>8, <2>2, <2>4, CoinsReplaced
    <2> QED  BY <1>6, <1>14, <2>5, StoppedIs
  <1> QED  BY <1>1, <1>12, <1>13, <1>14

LEMMA PaidByFresh ==
    ASSUME NEW coins, NEW asset, NEW amount, NEW fee, NEW ins \in PaidBy(coins, asset, amount, fee)
    PROVE  \A r \in ins : r \in DOMAIN coins /\ "confirmed" \in coins[r] /\ "spent" \notin coins[r]
  <1>1. ASSUME NEW of, NEW sum, NEW some \in FindUnspentCoinsByAssetAndTotal(coins, of, sum)
        PROVE  some \subseteq FindUnspentCoinsByAsset(coins, of, Own)
    <2> DEFINE found == FindUnspentCoinsByAsset(coins, of, Own)
    <2> HIDE DEF found
    <2>1. \/ \E r \in found : some = {r}
          \/ some \in SUBSET found
      BY <1>1 DEF FindUnspentCoinsByAssetAndTotal, found
    <2> QED  BY <2>1 DEF found
  <1>2. \A of : \A r \in FindUnspentCoinsByAsset(coins, of, Own) :
           r \in DOMAIN coins /\ "confirmed" \in coins[r] /\ "spent" \notin coins[r]
    BY DEF FindUnspentCoinsByAsset
  <1>3. \E a, g : /\ ins = a \cup g
                  /\ \E sum : a \in FindUnspentCoinsByAssetAndTotal(coins, asset, sum)
                  /\ g = {} \/ \E sum : g \in FindUnspentCoinsByAssetAndTotal(coins, Gas, sum)
    BY DEF PaidBy
  <1> QED  BY <1>1, <1>2, <1>3

LEMMA SendIs ==
    ASSUME WalletInvariant, NEW asset, NEW amount, NEW fee, Send(asset, amount, fee)
    PROVE  WalletInvariant'
  <1>1. wallet # Null
    BY DEF Send
  <1>2. PICK ins \in PaidBy(wallet.coins, asset, amount, fee) :
           RelayAndSave(MakeTransaction(asset, amount, Other, fee, ins))
    BY DEF Send
  <1> DEFINE t == MakeTransaction(asset, amount, Other, fee, ins)
  <1>3. t.ins = ins /\ t.claims = {}
    BY DEF MakeTransaction
  <1> HIDE DEF t
  <1>4. Fresh(wallet.coins, t)
    BY <1>3, PaidByFresh DEF Fresh
  <1> QED  BY <1>1, <1>2, <1>4, RelayAndSaveIs DEF t

LEMMA SplitIs ==
    ASSUME WalletInvariant, NEW r, NEW divisions, NEW fee, Split(r, divisions, fee)
    PROVE  WalletInvariant'
  <1> DEFINE outs == SplitToVouts(Output(r).asset, Output(r).value, divisions)
             t == [kind |-> "contract", ins |-> {r}, claims |-> {}, made |-> 0,
                   outs |-> [outs EXCEPT ![1].value = @ - fee]]
  <1>1. /\ wallet # Null /\ r \in FindUnspentCoinsByAsset(wallet.coins, Output(r).asset, Own)
        /\ RelayAndSave(t)
    BY DEF Split
  <1>2. t.ins = {r} /\ t.claims = {}
    OBVIOUS
  <1> HIDE DEF t
  <1>3. r \in DOMAIN wallet.coins /\ "confirmed" \in wallet.coins[r] /\ "spent" \notin wallet.coins[r]
    BY <1>1 DEF FindUnspentCoinsByAsset
  <1>4. Fresh(wallet.coins, t)
    BY <1>2, <1>3 DEF Fresh
  <1> QED  BY <1>1, <1>4, RelayAndSaveIs

LEMMA ClaimGasIs ==
    ASSUME WalletInvariant, ClaimGas
    PROVE  WalletInvariant'
  <1> DEFINE claims == GetUnclaimedCoins(wallet.coins)
             bonus == CalculateBonus(claims \cap Unclaimed)
             t == [kind |-> "claim", ins |-> {}, claims |-> claims, made |-> 0,
                   outs |-> <<[asset |-> Gas, value |-> bonus, to |-> GetChangeAddress]>>]
  <1>1. wallet # Null /\ RelayAndSave(t)
    BY DEF ClaimGas
  <1>2. t.ins = {} /\ t.claims = claims
    OBVIOUS
  <1>3. \A r \in claims : /\ r \in DOMAIN wallet.coins /\ "confirmed" \in wallet.coins[r]
                          /\ "claimed" \notin wallet.coins[r]
    BY DEF GetUnclaimedCoins
  <1> HIDE DEF t, claims
  <1>4. Fresh(wallet.coins, t)
    BY <1>2, <1>3 DEF Fresh
  <1> QED  BY <1>1, <1>4, RelayAndSaveIs

-----------------------------------------------------------------------------
(* The rows of a command.                                                  *)

\* The file on the way: each write is done upon what the writes before it left.
LEMMA SavedIs ==
    ASSUME NEW file, NEW writes, IsSequence(writes)
    PROVE  /\ Saved(file, writes, 0) = file
           /\ \A n \in 1 .. Len(writes) :
                 Saved(file, writes, n) = RowWritten(Saved(file, writes, n - 1), writes[n])
  <1> DEFINE On(results, n) == /\ results[0] = file
                               /\ \A k \in 1 .. n : results[k] = RowWritten(results[k - 1], writes[k])
             P == {k \in Nat : \A f, g : \A m, n \in Nat :
                      On(f, m) /\ On(g, n) /\ k <= m /\ k <= n => f[k] = g[k]}
  <1>1. Len(writes) \in Nat /\ DOMAIN writes = 1 .. Len(writes)
    BY SequenceIs
  <1>2. ASSUME NEW n \in 0 .. Len(writes)
        PROVE  \E results : On(results, n) /\ Saved(file, writes, n) = results[n]
    <2> DEFINE first == SubSeq(writes, 1, n)
    <2>1. DOMAIN first = 1 .. n /\ \A i \in 1 .. n : first[i] = writes[i]
      <3>1. n \in Int /\ 1 \in Int /\ n \in Nat /\ \A i \in 1 .. n : writes[i] \in Range(writes)
        BY <1>1 DEF Range
      <3>2. /\ first \in Seq(Range(writes)) /\ Len(first) = IF 1 <= n THEN n - 1 + 1 ELSE 0
            /\ \A i \in 1 .. n - 1 + 1 : first[i] = writes[1 + i - 1]
        BY <3>1, SubSeqProperties
      <3> HIDE DEF first
      <3>3. Len(first) = n
        <4>1. \A m \in Nat : (IF 1 <= m THEN m - 1 + 1 ELSE 0) = m
          OBVIOUS
        <4> QED  BY <3>1, <3>2, <4>1
      <3>4. DOMAIN first = 1 .. n
        BY <3>2, <3>3, LenProperties
      <3>5. \A i \in 1 .. n : i \in 1 .. n - 1 + 1 /\ 1 + i - 1 = i
        BY <3>1
      <3> QED  BY <3>2, <3>4, <3>5
    <2> HIDE DEF first
    <2>2. n \in Nat
      BY <1>1
    <2>3. PICK results : /\ RowWrites!Results(results, file, first, n)
                         /\ RowWrites!FoldLeft(RowWritten, file, first) = results[n]
      BY <2>1, <2>2, RowWrites!FoldHasResults
    <2>4. RowWrites!FoldLeft(RowWritten, file, first) = FoldLeft(RowWritten, file, first)
      BY DEF FoldLeft, RowWrites!FoldLeft, MapThenFoldSet, RowWrites!MapThenFoldSet,
             Max, RowWrites!Max
    <2>5. On(results, n)
      BY <2>1, <2>3 DEF RowWrites!Results
    <2> QED  BY <2>3, <2>4, <2>5 DEF Saved, first
  <1>3. 0 \in P
    OBVIOUS
  <1>4. ASSUME NEW k \in P PROVE k + 1 \in P
    <2>1. k \in Nat /\ k + 1 \in Nat
      OBVIOUS
    <2> SUFFICES ASSUME NEW f, NEW g, NEW m \in Nat, NEW n \in Nat, On(f, m), On(g, n),
                        k + 1 <= m, k + 1 <= n
                 PROVE  f[k + 1] = g[k + 1]
      BY <2>1
    <2>2. k <= m /\ k <= n /\ k + 1 \in 1 .. m /\ k + 1 \in 1 .. n /\ (k + 1) - 1 = k
      BY <2>1
    <2>3. f[k] = g[k]
      BY <2>2
    <2> QED  BY <2>2, <2>3
  <1>5. P = Nat
    <2>1. P \in SUBSET Nat
      OBVIOUS
    <2> HIDE DEF P
    <2> QED  BY <1>3, <1>4, <2>1, RowWrites!Induction
  <1>6. ASSUME NEW n \in 1 .. Len(writes)
        PROVE  Saved(file, writes, n) = RowWritten(Saved(file, writes, n - 1), writes[n])
    <2>1. n \in Nat /\ n - 1 \in Nat /\ n \in 0 .. Len(writes) /\ n - 1 \in 0 .. Len(writes)
      BY <1>1
    <2>2. PICK f : On(f, n) /\ Saved(file, writes, n) = f[n]
      BY <1>2, <2>1
    <2>3. PICK g : On(g, n - 1) /\ Saved(file, writes, n - 1) = g[n - 1]
      BY <1>2, <2>1
    <2>4. f[n - 1] = g[n - 1]
      <3> HIDE DEF P, On
      <3>1. n - 1 \in P
        BY <1>5, <2>1
      <3>2. n - 1 <= n /\ n - 1 <= n - 1
        BY <2>1
      <3> QED  BY <2>1, <2>2, <2>3, <3>1, <3>2 DEF P
    <2>5. n \in 1 .. n
      BY <2>1
    <2> QED  BY <2>2, <2>3, <2>4, <2>5
  <1>7. Saved(file, writes, 0) = file
    <2>1. 0 \in 0 .. Len(writes)
      BY <1>1
    <2> QED  BY <1>2, <2>1
  <1> QED  BY <1>6, <1>7

\* Some writes and then others.
LEMMA SavedInTurn ==
    ASSUME NEW file, NEW u, IsSequence(u), NEW v, IsSequence(v)
    PROVE  /\ \A n \in 0 .. Len(u) : Saved(file, u \o v, n) = Saved(file, u, n)
           /\ \A n \in 0 .. Len(v) :
                 Saved(file, u \o v, Len(u) + n) = Saved(Saved(file, u, Len(u)), v, n)
  <1> DEFINE w == u \o v
             mid == Saved(file, u, Len(u))
             P == {n \in Nat : n <= Len(u) => Saved(file, w, n) = Saved(file, u, n)}
             Q == {n \in Nat : n <= Len(v) => Saved(file, w, Len(u) + n) = Saved(mid, v, n)}
  <1>1. /\ Len(u) \in Nat /\ Len(v) \in Nat
        /\ IsSequence(w) /\ Len(w) = Len(u) + Len(v)
        /\ \A i \in 1 .. Len(u) : w[i] = u[i]
        /\ \A i \in 1 .. Len(v) : w[Len(u) + i] = v[i]
    <2>1. Len(u) \in Nat /\ Len(v) \in Nat
      BY SequenceIs
    <2> QED  BY <2>1, ConcatIs
  <1> HIDE DEF w
  <1>2. /\ Saved(file, w, 0) = file /\ Saved(file, u, 0) = file /\ Saved(mid, v, 0) = mid
        /\ \A n \in 1 .. Len(w) : Saved(file, w, n) = RowWritten(Saved(file, w, n - 1), w[n])
        /\ \A n \in 1 .. Len(u) : Saved(file, u, n) = RowWritten(Saved(file, u, n - 1), u[n])
        /\ \A n \in 1 .. Len(v) : Saved(mid, v, n) = RowWritten(Saved(mid, v, n - 1), v[n])
    <2> HIDE DEF mid
    <2>1. /\ Saved(file, w, 0) = file
          /\ \A n \in 1 .. Len(w) : Saved(file, w, n) = RowWritten(Saved(file, w, n - 1), w[n])
      <3>1. IsSequence(w)
        BY <1>1
      <3> QED  BY <3>1, SavedIs, ZenonT(60)
    <2>2. /\ Saved(file, u, 0) = file
          /\ \A n \in 1 .. Len(u) : Saved(file, u, n) = RowWritten(Saved(file, u, n - 1), u[n])
      BY SavedIs, ZenonT(60)
    <2>3. /\ Saved(mid, v, 0) = mid
          /\ \A n \in 1 .. Len(v) : Saved(mid, v, n) = RowWritten(Saved(mid, v, n - 1), v[n])
      BY SavedIs, ZenonT(60)
    <2> QED  BY <2>1, <2>2, <2>3
  <1> HIDE DEF mid
  <1>3. P = Nat
    <2>1. 0 \in P
      BY <1>2
    <2>2. ASSUME NEW n \in P PROVE n + 1 \in P
      <3> SUFFICES ASSUME n + 1 <= Len(u) PROVE Saved(file, w, n + 1) = Saved(file, u, n + 1)
        OBVIOUS
      <3>1. /\ n <= Len(u) /\ n + 1 \in 1 .. Len(u) /\ n + 1 \in 1 .. Len(w)
            /\ (n + 1) - 1 = n
        BY <1>1
      <3>2. Saved(file, w, n) = Saved(file, u, n)
        BY <3>1
      <3> HIDE DEF P
      <3> QED  BY <1>1, <1>2, <3>1, <3>2
    <2>3. P \in SUBSET Nat
      OBVIOUS
    <2> HIDE DEF P
    <2> QED  BY <2>1, <2>2, <2>3, RowWrites!Induction
  <1>4. \A n \in 0 .. Len(u) : Saved(file, w, n) = Saved(file, u, n)
    <2>1. \A n \in 0 .. Len(u) : n \in P /\ n <= Len(u)
      BY <1>1, <1>3
    <2> QED  BY <2>1
  <1>5. Q = Nat
    <2>1. 0 \in Q
      <3>1. Len(u) \in 0 .. Len(u) /\ Len(u) + 0 = Len(u)
        BY <1>1
      <3> QED  BY <1>2, <1>4, <3>1 DEF mid
    <2>2. ASSUME NEW n \in Q PROVE n + 1 \in Q
      <3> SUFFICES ASSUME n + 1 <= Len(v)
                   PROVE  Saved(file, w, Len(u) + (n + 1)) = Saved(mid, v, n + 1)
        OBVIOUS
      <3>1. /\ n <= Len(v) /\ n + 1 \in 1 .. Len(v) /\ Len(u) + (n + 1) \in 1 .. Len(w)
            /\ (n + 1) - 1 = n /\ (Len(u) + (n + 1)) - 1 = Len(u) + n
        BY <1>1
      <3>2. Saved(file, w, Len(u) + n) = Saved(mid, v, n)
        BY <3>1
      <3> HIDE DEF Q
      <3> QED  BY <1>1, <1>2, <3>1, <3>2
    <2>3. Q \in SUBSET Nat
      OBVIOUS
    <2> HIDE DEF Q
    <2> QED  BY <2>1, <2>2, <2>3, RowWrites!Induction
  <1>6. \A n \in 0 .. Len(v) : Saved(file, w, Len(u) + n) = Saved(mid, v, n)
    <2> SUFFICES ASSUME NEW n \in 0 .. Len(v) PROVE Saved(file, w, Len(u) + n) = Saved(mid, v, n)
      OBVIOUS
    <2>1. n \in Nat /\ n <= Len(v)
      BY <1>1
    <2>2. n \in Q
      <3> HIDE DEF Q
      <3> QED  BY <1>5, <2>1
    <2> QED  BY <2>1, <2>2
  <1> QED  BY <1>4, <1>6 DEF w, mid

\* A command whose writes, and whose first writes, leave the file as it should be.
AllRight(file, writes, made, onChain, top) ==
    \A n \in 0 .. Len(writes) : FileRight(Saved(file, writes, n), made, onChain, top)

After(file, writes) == Saved(file, writes, Len(writes))

LEMMA RightInTurn ==
    ASSUME NEW file, NEW u, IsSequence(u), NEW v, IsSequence(v), NEW made, NEW onChain, NEW top,
           AllRight(file, u, made, onChain, top), AllRight(After(file, u), v, made, onChain, top)
    PROVE  /\ IsSequence(u \o v)
           /\ AllRight(file, u \o v, made, onChain, top)
           /\ After(file, u \o v) = After(After(file, u), v)
  <1> DEFINE w == u \o v
  <1>1. /\ Len(u) \in Nat /\ Len(v) \in Nat /\ IsSequence(w) /\ Len(w) = Len(u) + Len(v)
    BY ConcatIs, SequenceIs
  <1>2. /\ \A n \in 0 .. Len(u) : Saved(file, w, n) = Saved(file, u, n)
        /\ \A n \in 0 .. Len(v) : Saved(file, w, Len(u) + n) = Saved(After(file, u), v, n)
    BY SavedInTurn DEF After
  <1> HIDE DEF w
  <1>3. ASSUME NEW n \in 0 .. Len(w) PROVE FileRight(Saved(file, w, n), made, onChain, top)
    <2>1. CASE n <= Len(u)
      <3>1. n \in 0 .. Len(u)
        BY <1>1, <2>1
      <3> QED  BY <1>2, <3>1 DEF AllRight
    <2>2. CASE n > Len(u)
      <3>1. n - Len(u) \in 0 .. Len(v) /\ Len(u) + (n - Len(u)) = n
        BY <1>1, <2>2
      <3> QED  BY <1>2, <3>1 DEF AllRight
    <2> QED  BY <1>1, <2>1, <2>2
  <1>4. After(file, w) = After(After(file, u), v)
    <2>1. Len(v) \in 0 .. Len(v)
      BY <1>1
    <2>2. Saved(file, w, Len(u) + Len(v)) = Saved(After(file, u), v, Len(v))
      BY <1>2, <2>1
    <2> QED  BY <1>1, <2>2 DEF After
  <1> QED  BY <1>1, <1>3, <1>4 DEF AllRight, w

\* One write, or none.
LEMMA OneRight ==
    ASSUME NEW file, NEW write, NEW made, NEW onChain, NEW top,
           FileRight(file, made, onChain, top), NEW condition \in BOOLEAN,
           condition => FileRight(RowWritten(file, write), made, onChain, top)
    PROVE  /\ IsSequence(If(condition, <<write>>)) /\ IsSequence(<<write>>)
           /\ AllRight(file, If(condition, <<write>>), made, onChain, top)
           /\ After(file, If(condition, <<write>>))
                 = IF condition THEN RowWritten(file, write) ELSE file
  <1> DEFINE none == << >>
             one == <<write>>
  <1>1. IsSequence(none) /\ Len(none) = 0
    BY EmptyIsSequence
  <1>2. IsSequence(one) /\ Len(one) = 1 /\ one[1] = write
    <2>1. one = [i \in 1 .. 1 |-> one[i]] /\ one[1] = write
      OBVIOUS
    <2> HIDE DEF one
    <2> QED  BY <2>1, IsASequence
  <1> HIDE DEF one, none
  <1>3. Saved(file, none, 0) = file
    BY <1>1, SavedIs
  <1>4. Saved(file, one, 0) = file /\ Saved(file, one, 1) = RowWritten(file, write)
    <2>1. /\ Saved(file, one, 0) = file
          /\ \A n \in 1 .. Len(one) : Saved(file, one, n) = RowWritten(Saved(file, one, n - 1), one[n])
      BY <1>2, SavedIs
    <2>2. 1 \in 1 .. Len(one) /\ 1 - 1 = 0
      BY <1>2
    <2> QED  BY <1>2, <2>1, <2>2
  <1>5. /\ \A n \in 0 .. Len(none) : n = 0
        /\ \A n \in 0 .. Len(one) : n = 0 \/ n = 1
    BY <1>1, <1>2
  <1>6. CASE condition
    <2>1. If(condition, one) = one
      BY <1>6 DEF If
    <2>2. AllRight(file, one, made, onChain, top)
      BY <1>4, <1>5, <1>6 DEF AllRight
    <2>3. After(file, one) = RowWritten(file, write)
      BY <1>2, <1>4 DEF After
    <2> QED  BY <1>2, <1>6, <2>1, <2>2, <2>3 DEF one
  <1>7. CASE ~condition
    <2>1. If(condition, one) = none
      BY <1>7 DEF If, none
    <2>2. AllRight(file, none, made, onChain, top)
      BY <1>3, <1>5 DEF AllRight
    <2>3. After(file, none) = file
      BY <1>1, <1>3 DEF After
    <2> QED  BY <1>1, <1>2, <1>7, <2>1, <2>2, <2>3 DEF one
  <1> QED  BY <1>6, <1>7

\* What each write does.
LEMMA RowWrittenIs ==
    ASSUME NEW file, IsFile(file), NEW on
    PROVE  /\ RowWritten(file, <<"account", on>>)
              = [coins |-> file.coins, height |-> file.height, tokens |-> file.tokens,
                 accounts |-> file.accounts \cup {on}, contracts |-> file.contracts,
                 addresses |-> file.addresses]
           /\ RowWritten(file, <<"contract", on>>)
              = [coins |-> file.coins, height |-> file.height, tokens |-> file.tokens,
                 accounts |-> file.accounts, contracts |-> Append(file.contracts, on),
                 addresses |-> file.addresses]
           /\ RowWritten(file, <<"uncontract", on>>)
              = [coins |-> file.coins, height |-> file.height, tokens |-> file.tokens,
                 accounts |-> file.accounts, contracts |-> RemoveFirst(file.contracts, on),
                 addresses |-> file.addresses]
           /\ RowWritten(file, <<"address", on>>)
              = [coins |-> file.coins, height |-> file.height, tokens |-> file.tokens,
                 accounts |-> file.accounts, contracts |-> file.contracts,
                 addresses |-> Put(file.addresses, on, FALSE)]
           /\ RowWritten(file, <<"watched", on>>)
              = [coins |-> file.coins, height |-> file.height, tokens |-> file.tokens,
                 accounts |-> file.accounts, contracts |-> file.contracts,
                 addresses |-> Put(file.addresses, on, TRUE)]
           /\ RowWritten(file, <<"unaddress", on>>)
              = [coins |-> file.coins, height |-> file.height, tokens |-> file.tokens,
                 accounts |-> file.accounts, contracts |-> file.contracts,
                 addresses |-> Restrict(file.addresses, DOMAIN file.addresses \ {on})]
           /\ RowWritten(file, <<"token", on>>)
              = [coins |-> file.coins, height |-> file.height, tokens |-> file.tokens \cup {on},
                 accounts |-> file.accounts, contracts |-> file.contracts,
                 addresses |-> file.addresses]
           /\ RowWritten(file, <<"untoken", on>>)
              = [coins |-> file.coins, height |-> file.height, tokens |-> file.tokens \ {on},
                 accounts |-> file.accounts, contracts |-> file.contracts,
                 addresses |-> file.addresses]
           /\ RowWritten(file, <<"uncoin", on>>)
              = [coins |-> Restrict(file.coins, DOMAIN file.coins \ {on}), height |-> file.height,
                 tokens |-> file.tokens, accounts |-> file.accounts,
                 contracts |-> file.contracts, addresses |-> file.addresses]
  <1>1. /\ RowWritten(file, <<"account", on>>) = [file EXCEPT !.accounts = @ \cup {on}]
        /\ RowWritten(file, <<"contract", on>>) = [file EXCEPT !.contracts = Append(@, on)]
        /\ RowWritten(file, <<"uncontract", on>>) = [file EXCEPT !.contracts = RemoveFirst(@, on)]
    BY DEF RowWritten
  <1>2. /\ RowWritten(file, <<"address", on>>) = [file EXCEPT !.addresses = Put(@, on, FALSE)]
        /\ RowWritten(file, <<"watched", on>>) = [file EXCEPT !.addresses = Put(@, on, TRUE)]
        /\ RowWritten(file, <<"unaddress", on>>)
           = [file EXCEPT !.addresses = Restrict(@, DOMAIN @ \ {on})]
    BY DEF RowWritten
  <1>3. /\ RowWritten(file, <<"token", on>>) = [file EXCEPT !.tokens = @ \cup {on}]
        /\ RowWritten(file, <<"untoken", on>>) = [file EXCEPT !.tokens = @ \ {on}]
        /\ RowWritten(file, <<"uncoin", on>>)
           = [file EXCEPT !.coins = Restrict(@, DOMAIN @ \ {on})]
    BY DEF RowWritten
  <1>4. \A coins, accounts, contracts, addresses, tokens :
           /\ [file EXCEPT !.coins = coins]
              = [coins |-> coins, height |-> file.height, tokens |-> file.tokens,
                 accounts |-> file.accounts, contracts |-> file.contracts,
                 addresses |-> file.addresses]
           /\ [file EXCEPT !.accounts = accounts]
              = [coins |-> file.coins, height |-> file.height, tokens |-> file.tokens,
                 accounts |-> accounts, contracts |-> file.contracts, addresses |-> file.addresses]
           /\ [file EXCEPT !.contracts = contracts]
              = [coins |-> file.coins, height |-> file.height, tokens |-> file.tokens,
                 accounts |-> file.accounts, contracts |-> contracts, addresses |-> file.addresses]
           /\ [file EXCEPT !.addresses = addresses]
              = [coins |-> file.coins, height |-> file.height, tokens |-> file.tokens,
                 accounts |-> file.accounts, contracts |-> file.contracts, addresses |-> addresses]
           /\ [file EXCEPT !.tokens = tokens]
              = [coins |-> file.coins, height |-> file.height, tokens |-> tokens,
                 accounts |-> file.accounts, contracts |-> file.contracts,
                 addresses |-> file.addresses]
    BY DEF IsFile
  <1> QED  BY <1>1, <1>2, <1>3, <1>4

LEMMA PutIs ==
    ASSUME NEW addresses, NEW on, NEW value
    PROVE  /\ DOMAIN Put(addresses, on, value) = DOMAIN addresses \cup {on}
           /\ Put(addresses, on, value)[on] = value
           /\ \A a \in DOMAIN addresses \ {on} : Put(addresses, on, value)[a] = addresses[a]
  BY DEF Put

LEMMA WatchedIs ==
    ASSUME NEW file, NEW changed, NEW on, changed.addresses = Put(file.addresses, on, TRUE)
    PROVE  LoadWatchOnly(changed) = LoadWatchOnly(file) \cup {on}
  <1> DEFINE p == changed.addresses
             f == file.addresses
  <1>1. /\ LoadWatchOnly(changed) = {a \in DOMAIN p : p[a]}
        /\ LoadWatchOnly(file) = {a \in DOMAIN f : f[a]}
    BY DEF LoadWatchOnly
  <1> HIDE DEF f
  <1>2. /\ DOMAIN p = DOMAIN f \cup {on} /\ p[on] = TRUE
        /\ \A a \in DOMAIN f \ {on} : p[a] = f[a]
    BY DEF Put, f
  <1> HIDE DEF p
  <1> QED  BY <1>1, <1>2

LEMMA UnwatchedIs ==
    ASSUME NEW file, NEW changed, NEW on, changed.addresses = Put(file.addresses, on, FALSE)
    PROVE  LoadWatchOnly(changed) = LoadWatchOnly(file) \ {on}
  <1> DEFINE p == changed.addresses
             f == file.addresses
  <1>1. /\ LoadWatchOnly(changed) = {a \in DOMAIN p : p[a]}
        /\ LoadWatchOnly(file) = {a \in DOMAIN f : f[a]}
    BY DEF LoadWatchOnly
  <1> HIDE DEF f
  <1>2. /\ DOMAIN p = DOMAIN f \cup {on} /\ p[on] = FALSE
        /\ \A a \in DOMAIN f \ {on} : p[a] = f[a]
    BY DEF Put, f
  <1> HIDE DEF p
  <1> QED  BY <1>1, <1>2

\* The addresses after a write: those of the contracts keep their rows.
LEMMA AddressesKept ==
    ASSUME NEW contracts, NEW addresses, AddressesRight(contracts, addresses), NEW on
    PROVE  /\ AddressesRight(contracts, Put(addresses, on, FALSE))
           /\ AddressesRight(RemoveFirst(contracts, on), addresses)
           /\ on \notin ToSet(RemoveFirst(contracts, on))
           /\ on \notin ToSet(contracts) =>
                 /\ AddressesRight(contracts, Put(addresses, on, TRUE))
                 /\ AddressesRight(contracts, Restrict(addresses, DOMAIN addresses \ {on}))
                 /\ on \in DOMAIN addresses /\ ~addresses[on]
                       => AddressesRight(Append(contracts, on), addresses)
  <1>1. /\ addresses = [a \in DOMAIN addresses |-> addresses[a]]
        /\ IsFiniteSet(DOMAIN addresses)
        /\ \A a \in DOMAIN addresses : addresses[a] \in BOOLEAN
        /\ IsSequence(contracts) /\ Unrepeated(contracts, {})
        /\ \A a \in ToSet(contracts) : a \in DOMAIN addresses /\ ~addresses[a]
    BY DEF AddressesRight
  <1>2. ASSUME NEW value \in BOOLEAN, on \in ToSet(contracts) => ~value
        PROVE  AddressesRight(contracts, Put(addresses, on, value))
    <2> DEFINE p == Put(addresses, on, value)
    <2>1. /\ DOMAIN p = DOMAIN addresses \cup {on} /\ p[on] = value
          /\ \A a \in DOMAIN addresses \ {on} : p[a] = addresses[a]
      BY DEF Put
    <2>2. p = [a \in DOMAIN p |-> p[a]]
      BY DEF Put
    <2>3. IsFiniteSet(DOMAIN p)
      BY <1>1, <2>1, FS_AddElement
    <2> HIDE DEF p
    <2>4. \A a \in DOMAIN p : p[a] \in BOOLEAN
      BY <1>1, <1>2, <2>1
    <2>5. \A a \in ToSet(contracts) : a \in DOMAIN p /\ ~p[a]
      BY <1>1, <1>2, <2>1
    <2> QED  BY <1>1, <2>2, <2>3, <2>4, <2>5 DEF AddressesRight, p
  <1>3. /\ AddressesRight(RemoveFirst(contracts, on), addresses)
        /\ on \notin ToSet(RemoveFirst(contracts, on))
    <2>1. /\ IsSequence(RemoveFirst(contracts, on))
          /\ ToSet(RemoveFirst(contracts, on)) \subseteq ToSet(contracts)
          /\ Unrepeated(RemoveFirst(contracts, on), {})
          /\ on \notin ToSet(RemoveFirst(contracts, on))
      BY <1>1, RemoveFirstIs
    <2> QED  BY <1>1, <2>1 DEF AddressesRight
  <1>4. ASSUME on \notin ToSet(contracts)
        PROVE  AddressesRight(contracts, Restrict(addresses, DOMAIN addresses \ {on}))
    <2> DEFINE left == DOMAIN addresses \ {on}
               p == Restrict(addresses, left)
    <2>1. p = [a \in left |-> addresses[a]]
      BY DEF Restrict
    <2>2. left \in SUBSET DOMAIN addresses
      OBVIOUS
    <2>3. IsFiniteSet(left)
      BY <1>1, <2>2, FS_Subset
    <2>4. \A a \in ToSet(contracts) : a \in left
      BY <1>1, <1>4
    <2> HIDE DEF left, p
    <2>5. DOMAIN p = left /\ \A a \in left : p[a] = addresses[a]
      BY <2>1
    <2>6. p = [a \in DOMAIN p |-> p[a]]
      BY <2>1, <2>5
    <2>7. \A a \in ToSet(contracts) : a \in DOMAIN p /\ ~p[a]
      BY <1>1, <2>4, <2>5
    <2>8. \A a \in DOMAIN p : p[a] \in BOOLEAN
      BY <1>1, <2>2, <2>5
    <2> QED  BY <1>1, <2>3, <2>5, <2>6, <2>7, <2>8 DEF AddressesRight, p, left
  <1>5. ASSUME on \notin ToSet(contracts), on \in DOMAIN addresses, ~addresses[on]
        PROVE  AddressesRight(Append(contracts, on), addresses)
    <2>1. IsSequence(Append(contracts, on)) /\ ToSet(Append(contracts, on)) = ToSet(contracts) \cup {on}
      BY <1>1, AppendIs
    <2>2. Unrepeated(Append(contracts, on), {})
      BY <1>1, <1>5, AppendUnrepeated
    <2> QED  BY <1>1, <1>5, <2>1, <2>2 DEF AddressesRight
  <1> QED  BY <1>2, <1>3, <1>4, <1>5

\* A write leaves the file right where the order of the writes has made sure of it.
LEMMA WriteRight ==
    ASSUME NEW file, NEW made, NEW onChain, NEW top, FileRight(file, made, onChain, top), NEW on
    PROVE  /\ FileRight(RowWritten(file, <<"account", on>>), made, onChain, top)
           /\ FileRight(RowWritten(file, <<"token", on>>), made, onChain, top)
           /\ FileRight(RowWritten(file, <<"untoken", on>>), made, onChain, top)
           /\ FileRight(RowWritten(file, <<"uncoin", on>>), made, onChain, top)
           /\ FileRight(RowWritten(file, <<"uncontract", on>>), made, onChain, top)
           /\ FileRight(RowWritten(file, <<"address", on>>), made, onChain, top)
           /\ on \notin ToSet(file.contracts) =>
                 /\ FileRight(RowWritten(file, <<"watched", on>>), made, onChain, top)
                 /\ FileRight(RowWritten(file, <<"unaddress", on>>), made, onChain, top)
                 /\ on \in DOMAIN file.addresses /\ ~file.addresses[on]
                       => FileRight(RowWritten(file, <<"contract", on>>), made, onChain, top)
  <1> DEFINE F(coins, tokens, accounts, contracts, addresses) ==
                [coins |-> coins, height |-> file.height, tokens |-> tokens,
                 accounts |-> accounts, contracts |-> contracts, addresses |-> addresses]
             others == Restrict(file.coins, DOMAIN file.coins \ {on})
             without == RemoveFirst(file.contracts, on)
             left == Restrict(file.addresses, DOMAIN file.addresses \ {on})
  <1>1. /\ IsFile(file) /\ AddressesRight(file.contracts, file.addresses)
        /\ file.height \in 0 .. top /\ CoinsRight(file.coins, made, onChain)
    BY DEF FileRight
  <1>2. ASSUME NEW coins, NEW tokens, NEW accounts, NEW contracts, NEW addresses,
               AddressesRight(contracts, addresses), CoinsRight(coins, made, onChain)
        PROVE  FileRight(F(coins, tokens, accounts, contracts, addresses), made, onChain, top)
    <2> DEFINE f == F(coins, tokens, accounts, contracts, addresses)
    <2>1. f = [coins |-> coins, height |-> file.height, tokens |-> tokens,
               accounts |-> accounts, contracts |-> contracts, addresses |-> addresses]
      OBVIOUS
    <2> HIDE DEF f
    <2>2. IsFile(f)
      BY <2>1 DEF IsFile
    <2>3. FileRight(f, made, onChain, top)
      BY <1>1, <1>2, <2>1, <2>2 DEF FileRight
    <2> QED  BY <2>3 DEF f
  <1>3. CoinsRight(others, made, onChain)
    <2> DEFINE rest == DOMAIN file.coins \ {on}
               c == Restrict(file.coins, rest)
    <2>1. c = [q \in rest |-> file.coins[q]]
      BY DEF Restrict
    <2>2. rest \in SUBSET DOMAIN file.coins
      OBVIOUS
    <2>3. IsFiniteSet(rest)
      BY <1>1, <2>2, FS_Subset DEF CoinsRight
    <2> HIDE DEF rest, c
    <2>4. DOMAIN c = rest /\ \A q \in rest : c[q] = file.coins[q]
      BY <2>1
    <2>5. c = [q \in DOMAIN c |-> c[q]]
      BY <2>1, <2>4
    <2> QED  BY <1>1, <2>2, <2>3, <2>4, <2>5 DEF CoinsRight, rest, c
  <1>4. /\ AddressesRight(file.contracts, Put(file.addresses, on, FALSE))
        /\ AddressesRight(without, file.addresses)
        /\ on \notin ToSet(file.contracts) =>
              /\ AddressesRight(file.contracts, Put(file.addresses, on, TRUE))
              /\ AddressesRight(file.contracts, left)
              /\ on \in DOMAIN file.addresses /\ ~file.addresses[on]
                    => AddressesRight(Append(file.contracts, on), file.addresses)
    BY <1>1, AddressesKept
  <1>5. /\ RowWritten(file, <<"account", on>>)
           = F(file.coins, file.tokens, file.accounts \cup {on}, file.contracts, file.addresses)
        /\ RowWritten(file, <<"token", on>>)
           = F(file.coins, file.tokens \cup {on}, file.accounts, file.contracts, file.addresses)
        /\ RowWritten(file, <<"untoken", on>>)
           = F(file.coins, file.tokens \ {on}, file.accounts, file.contracts, file.addresses)
        /\ RowWritten(file, <<"uncoin", on>>)
           = F(others, file.tokens, file.accounts, file.contracts, file.addresses)
    BY <1>1, RowWrittenIs
  <1>6. /\ RowWritten(file, <<"uncontract", on>>)
           = F(file.coins, file.tokens, file.accounts, without, file.addresses)
        /\ RowWritten(file, <<"contract", on>>)
           = F(file.coins, file.tokens, file.accounts, Append(file.contracts, on), file.addresses)
        /\ RowWritten(file, <<"address", on>>)
           = F(file.coins, file.tokens, file.accounts, file.contracts, Put(file.addresses, on, FALSE))
        /\ RowWritten(file, <<"watched", on>>)
           = F(file.coins, file.tokens, file.accounts, file.contracts, Put(file.addresses, on, TRUE))
        /\ RowWritten(file, <<"unaddress", on>>)
           = F(file.coins, file.tokens, file.accounts, file.contracts, left)
    BY <1>1, RowWrittenIs
  <1> HIDE DEF F, others, without, left
  <1>7. /\ FileRight(RowWritten(file, <<"account", on>>), made, onChain, top)
        /\ FileRight(RowWritten(file, <<"token", on>>), made, onChain, top)
        /\ FileRight(RowWritten(file, <<"untoken", on>>), made, onChain, top)
        /\ FileRight(RowWritten(file, <<"uncoin", on>>), made, onChain, top)
    BY <1>1, <1>2, <1>3, <1>5
  <1>8. /\ FileRight(RowWritten(file, <<"uncontract", on>>), made, onChain, top)
        /\ FileRight(RowWritten(file, <<"address", on>>), made, onChain, top)
    BY <1>1, <1>2, <1>4, <1>6
  <1>9. ASSUME on \notin ToSet(file.contracts)
        PROVE  /\ FileRight(RowWritten(file, <<"watched", on>>), made, onChain, top)
               /\ FileRight(RowWritten(file, <<"unaddress", on>>), made, onChain, top)
               /\ on \in DOMAIN file.addresses /\ ~file.addresses[on]
                     => FileRight(RowWritten(file, <<"contract", on>>), made, onChain, top)
    BY <1>1, <1>2, <1>4, <1>6, <1>9
  <1> QED  BY <1>7, <1>8, <1>9

\* Two writes are one after the other.
LEMMA PairIs ==
    ASSUME NEW a, NEW b
    PROVE  <<a>> \o <<b>> = <<a, b>>
  <1> DEFINE s == <<a>>
             t == <<b>>
             u == s \o t
             p == <<a, b>>
  <1>1. /\ s = [i \in 1 .. 1 |-> s[i]] /\ s[1] = a
        /\ t = [i \in 1 .. 1 |-> t[i]] /\ t[1] = b
        /\ p = [i \in 1 .. 2 |-> p[i]] /\ p[1] = a /\ p[2] = b
    OBVIOUS
  <1> HIDE DEF s, t, p
  <1>2. IsSequence(s) /\ Len(s) = 1 /\ IsSequence(t) /\ Len(t) = 1
    BY <1>1, IsASequence
  <1>3. /\ IsSequence(u) /\ Len(u) = 1 + 1
        /\ \A i \in 1 .. 1 : u[i] = s[i]
        /\ \A i \in 1 .. 1 : u[1 + i] = t[i]
    <2>0. IsSequence(s) /\ IsSequence(t)
      BY <1>2
    <2>1. /\ IsSequence(u) /\ Len(u) = Len(s) + Len(t)
          /\ \A i \in 1 .. Len(s) : u[i] = s[i]
          /\ \A i \in 1 .. Len(t) : u[Len(s) + i] = t[i]
      BY <2>0, ConcatIs
    <2> HIDE DEF u
    <2>2. Len(s) = 1 /\ Len(t) = 1
      BY <1>2
    <2>3. IsSequence(u) /\ Len(u) = 1 + 1
      BY <2>1, <2>2
    <2>4. \A i \in 1 .. 1 : u[i] = s[i]
      BY <2>1, <2>2
    <2>5. \A i \in 1 .. 1 : u[1 + i] = t[i]
      BY <2>1, <2>2
    <2> QED  BY <2>3, <2>4, <2>5
  <1> HIDE DEF u
  <1>4. u = [i \in 1 .. 2 |-> u[i]]
    BY <1>3, SequenceIs
  <1>5. u[1] = a /\ u[2] = b
    BY <1>1, <1>3
  <1>6. \A i \in 1 .. 2 : u[i] = p[i]
    <2>1. \A i \in 1 .. 2 : i = 1 \/ i = 2
      OBVIOUS
    <2> QED  BY <1>1, <1>5, <2>1
  <1>7. p = [i \in 1 .. 2 |-> p[i]]
    BY <1>1
  <1>8. u = p
    BY <1>4, <1>6, <1>7
  <1> QED  BY <1>8 DEF u, s, t, p

\* What a command on contracts comes to in the file.
LEMMA AddContractSaved ==
    ASSUME NEW file, NEW made, NEW onChain, NEW top, FileRight(file, made, onChain, top), NEW addr
    PROVE  LET writes == AddContractWrites(file, addr)
               saved == After(file, writes)
           IN /\ IsSequence(writes) /\ AllRight(file, writes, made, onChain, top)
              /\ saved.coins = file.coins /\ saved.tokens = file.tokens
              /\ saved.accounts = file.accounts
              /\ ToSet(saved.contracts) = ToSet(file.contracts) \cup {addr}
              /\ LoadWatchOnly(saved) = LoadWatchOnly(file) \ {addr}
  <1> DEFINE first == If(Contains(file.contracts, addr), <<<<"uncontract", addr>>>>)
             second == <<<<"address", addr>>>>
             third == <<<<"contract", addr>>>>
             f1 == After(file, first)
             f2 == After(f1, second)
             f3 == After(f2, third)
             writes == AddContractWrites(file, addr)
  <1>1. /\ IsFile(file) /\ IsSequence(file.contracts)
        /\ addr \notin ToSet(RemoveFirst(file.contracts, addr))
    BY AddressesKept DEF FileRight, AddressesRight
  <1>2. Contains(file.contracts, addr) \in BOOLEAN
    BY DEF Contains
  <1>3. Contains(file.contracts, addr) <=> addr \in ToSet(file.contracts)
    BY <1>1, ContainsIs
  <1>4. /\ IsSequence(first) /\ AllRight(file, first, made, onChain, top)
        /\ f1 = IF Contains(file.contracts, addr) THEN RowWritten(file, <<"uncontract", addr>>) ELSE file
    <2>1. FileRight(RowWritten(file, <<"uncontract", addr>>), made, onChain, top)
      BY WriteRight
    <2> QED  BY <1>2, <2>1, OneRight
  <1>5. /\ FileRight(f1, made, onChain, top) /\ IsFile(f1)
        /\ addr \notin ToSet(f1.contracts) /\ IsSequence(f1.contracts)
        /\ ToSet(f1.contracts) \cup {addr} = ToSet(file.contracts) \cup {addr}
        /\ f1.coins = file.coins /\ f1.tokens = file.tokens /\ f1.accounts = file.accounts
        /\ f1.addresses = file.addresses
    <2> HIDE DEF first, f1
    <2>1. CASE Contains(file.contracts, addr)
      <3>1. f1 = [coins |-> file.coins, height |-> file.height, tokens |-> file.tokens,
                  accounts |-> file.accounts, contracts |-> RemoveFirst(file.contracts, addr),
                  addresses |-> file.addresses]
        BY <1>1, <1>4, <2>1, RowWrittenIs
      <3>2. FileRight(f1, made, onChain, top)
        BY <1>4, <2>1, WriteRight
      <3>3. /\ IsSequence(RemoveFirst(file.contracts, addr))
            /\ ToSet(RemoveFirst(file.contracts, addr)) \cup {addr} = ToSet(file.contracts) \cup {addr}
        BY <1>1, <1>3, <2>1, RemoveFirstIs
      <3> QED  BY <1>1, <3>1, <3>2, <3>3 DEF FileRight
    <2>2. CASE ~Contains(file.contracts, addr)
      BY <1>1, <1>3, <1>4, <2>2
    <2> QED  BY <2>1, <2>2
  <1> HIDE DEF f1, first
  <1>6. /\ IsSequence(second) /\ AllRight(f1, second, made, onChain, top)
        /\ f2 = RowWritten(f1, <<"address", addr>>)
    <2>1. second = If(TRUE, second)
      BY DEF If
    <2>2. FileRight(RowWritten(f1, <<"address", addr>>), made, onChain, top)
      BY <1>5, WriteRight
    <2>3. /\ IsSequence(second) /\ AllRight(f1, If(TRUE, second), made, onChain, top)
          /\ After(f1, If(TRUE, second)) = RowWritten(f1, <<"address", addr>>)
      BY <1>5, <2>2, OneRight
    <2> QED  BY <2>1, <2>3
  <1> HIDE DEF f2
  <1>7. /\ FileRight(f2, made, onChain, top) /\ IsFile(f2)
        /\ f2 = [coins |-> f1.coins, height |-> f1.height, tokens |-> f1.tokens,
                 accounts |-> f1.accounts, contracts |-> f1.contracts,
                 addresses |-> Put(f1.addresses, addr, FALSE)]
    <2>1. FileRight(f2, made, onChain, top)
      BY <1>5, <1>6, WriteRight
    <2>2. IsFile(f2)
      BY <2>1 DEF FileRight
    <2>3. f2 = [coins |-> f1.coins, height |-> f1.height, tokens |-> f1.tokens,
                accounts |-> f1.accounts, contracts |-> f1.contracts,
                addresses |-> Put(f1.addresses, addr, FALSE)]
      BY <1>5, <1>6, RowWrittenIs
    <2> QED  BY <2>1, <2>2, <2>3
  <1>8. addr \in DOMAIN f2.addresses /\ ~f2.addresses[addr] /\ addr \notin ToSet(f2.contracts)
    <2>1. f2.addresses = Put(f1.addresses, addr, FALSE) /\ f2.contracts = f1.contracts
      BY <1>7
    <2>2. addr \in DOMAIN f2.addresses /\ f2.addresses[addr] = FALSE
      BY <2>1 DEF Put
    <2> QED  BY <1>5, <2>1, <2>2
  <1>9. FileRight(RowWritten(f2, <<"contract", addr>>), made, onChain, top)
    BY <1>7, <1>8, WriteRight
  <1>10. /\ IsSequence(third) /\ AllRight(f2, third, made, onChain, top)
         /\ f3 = RowWritten(f2, <<"contract", addr>>)
    <2>1. third = If(TRUE, third)
      BY DEF If
    <2>2. /\ IsSequence(third) /\ AllRight(f2, If(TRUE, third), made, onChain, top)
          /\ After(f2, If(TRUE, third)) = RowWritten(f2, <<"contract", addr>>)
      BY <1>7, <1>9, OneRight
    <2> QED  BY <2>1, <2>2
  <1>11. f3 = [coins |-> f2.coins, height |-> f2.height, tokens |-> f2.tokens,
               accounts |-> f2.accounts, contracts |-> Append(f2.contracts, addr),
               addresses |-> f2.addresses]
    BY <1>7, <1>10, RowWrittenIs, ZenonT(60)
  <1>12. writes = first \o (second \o third)
    <2>1. second \o third = <<<<"address", addr>>, <<"contract", addr>>>>
      BY PairIs
    <2> QED  BY <2>1 DEF AddContractWrites, first
  <1> HIDE DEF f3, second, third
  <1>13. /\ IsSequence(second \o third) /\ AllRight(f1, second \o third, made, onChain, top)
         /\ After(f1, second \o third) = f3
    BY <1>6, <1>10, RightInTurn DEF f2, f3
  <1>14. /\ IsSequence(writes) /\ AllRight(file, writes, made, onChain, top)
         /\ After(file, writes) = f3
    BY <1>4, <1>12, <1>13, RightInTurn DEF f1
  <1>15. ToSet(f3.contracts) = ToSet(file.contracts) \cup {addr}
    <2>1. ToSet(Append(f2.contracts, addr)) = ToSet(f2.contracts) \cup {addr}
      BY <1>5, <1>7, AppendIs
    <2> QED  BY <1>5, <1>7, <1>11, <2>1
  <1>16. LoadWatchOnly(f3) = LoadWatchOnly(file) \ {addr}
    <2>1. f3.addresses = Put(file.addresses, addr, FALSE)
      BY <1>5, <1>7, <1>11
    <2> QED  BY <2>1, UnwatchedIs
  <1> HIDE DEF writes
  <1>17. f3.coins = file.coins /\ f3.tokens = file.tokens /\ f3.accounts = file.accounts
    BY <1>5, <1>7, <1>11
  <1> QED  BY <1>14, <1>15, <1>16, <1>17 DEF writes

LEMMA CreateKeySaved ==
    ASSUME NEW file, NEW made, NEW onChain, NEW top, FileRight(file, made, onChain, top), NEW addr
    PROVE  LET writes == CreateKeyWrites(file, addr)
               saved == After(file, writes)
           IN /\ IsSequence(writes) /\ AllRight(file, writes, made, onChain, top)
              /\ saved.coins = file.coins /\ saved.tokens = file.tokens
              /\ saved.accounts = file.accounts \cup {addr}
              /\ ToSet(saved.contracts) = ToSet(file.contracts) \cup {addr}
              /\ LoadWatchOnly(saved) = LoadWatchOnly(file) \ {addr}
  <1> DEFINE first == <<<<"account", addr>>>>
             f1 == After(file, first)
             rest == AddContractWrites(f1, addr)
             f2 == After(f1, rest)
             writes == CreateKeyWrites(file, addr)
  <1>1. FileRight(RowWritten(file, <<"account", addr>>), made, onChain, top)
    BY WriteRight
  <1>2. /\ IsSequence(first) /\ AllRight(file, first, made, onChain, top)
        /\ f1 = RowWritten(file, <<"account", addr>>)
    <2>1. first = If(TRUE, first)
      BY DEF If
    <2>2. /\ IsSequence(first) /\ AllRight(file, If(TRUE, first), made, onChain, top)
          /\ After(file, If(TRUE, first)) = RowWritten(file, <<"account", addr>>)
      BY <1>1, OneRight
    <2> QED  BY <2>1, <2>2
  <1> HIDE DEF f1
  <1>3. f1 = [coins |-> file.coins, height |-> file.height, tokens |-> file.tokens,
              accounts |-> file.accounts \cup {addr}, contracts |-> file.contracts,
              addresses |-> file.addresses]
    BY <1>2, RowWrittenIs DEF FileRight
  <1>4. FileRight(f1, made, onChain, top)
    BY <1>1, <1>2
  <1>5. /\ IsSequence(rest) /\ AllRight(f1, rest, made, onChain, top)
        /\ f2.coins = f1.coins /\ f2.tokens = f1.tokens /\ f2.accounts = f1.accounts
        /\ ToSet(f2.contracts) = ToSet(f1.contracts) \cup {addr}
        /\ LoadWatchOnly(f2) = LoadWatchOnly(f1) \ {addr}
    BY <1>4, AddContractSaved
  <1>6. writes = first \o rest
    <2>1. f1.contracts = file.contracts
      BY <1>3
    <2> QED  BY <2>1 DEF CreateKeyWrites, AddContractWrites
  <1> HIDE DEF first, rest, f2, writes
  <1>7. /\ IsSequence(writes) /\ AllRight(file, writes, made, onChain, top)
        /\ After(file, writes) = f2
    BY <1>2, <1>5, <1>6, RightInTurn DEF f1, f2
  <1>8. LoadWatchOnly(f1) = LoadWatchOnly(file)
    BY <1>3 DEF LoadWatchOnly
  <1> QED  BY <1>3, <1>5, <1>7, <1>8 DEF writes

LEMMA AddWatchOnlySaved ==
    ASSUME NEW file, NEW made, NEW onChain, NEW top, FileRight(file, made, onChain, top), NEW addr
    PROVE  LET writes == AddWatchOnlyWrites(file, addr)
               saved == After(file, writes)
           IN /\ IsSequence(writes) /\ AllRight(file, writes, made, onChain, top)
              /\ saved.coins = file.coins /\ saved.tokens = file.tokens
              /\ saved.accounts = file.accounts /\ saved.contracts = file.contracts
              /\ LoadWatchOnly(saved) = IF addr \in DOMAIN file.addresses THEN LoadWatchOnly(file)
                                        ELSE LoadWatchOnly(file) \cup {addr}
  <1> DEFINE writes == AddWatchOnlyWrites(file, addr)
             saved == After(file, writes)
  <1>1. IsFile(file) /\ (addr \notin DOMAIN file.addresses => addr \notin ToSet(file.contracts))
    BY DEF FileRight, AddressesRight
  <1>2. addr \notin DOMAIN file.addresses
        => FileRight(RowWritten(file, <<"watched", addr>>), made, onChain, top)
    BY <1>1, WriteRight
  <1>3. /\ IsSequence(writes) /\ AllRight(file, writes, made, onChain, top)
        /\ saved = IF addr \notin DOMAIN file.addresses THEN RowWritten(file, <<"watched", addr>>)
                   ELSE file
    BY <1>2, OneRight DEF AddWatchOnlyWrites
  <1> HIDE DEF saved
  <1>4. CASE addr \in DOMAIN file.addresses
    <2>1. saved = file
      BY <1>3, <1>4
    <2> QED  BY <1>3, <1>4, <2>1 DEF saved
  <1>5. CASE addr \notin DOMAIN file.addresses
    <2>1. saved = [coins |-> file.coins, height |-> file.height, tokens |-> file.tokens,
                   accounts |-> file.accounts, contracts |-> file.contracts,
                   addresses |-> Put(file.addresses, addr, TRUE)]
      BY <1>1, <1>3, <1>5, RowWrittenIs
    <2>2. LoadWatchOnly(saved) = LoadWatchOnly(file) \cup {addr}
      <3>1. saved.addresses = Put(file.addresses, addr, TRUE)
        BY <2>1
      <3> QED  BY <3>1, WatchedIs
    <2> QED  BY <1>3, <1>5, <2>1, <2>2 DEF saved
  <1> QED  BY <1>4, <1>5

LEMMA TokensSaved ==
    ASSUME NEW file, NEW made, NEW onChain, NEW top, FileRight(file, made, onChain, top), NEW token
    PROVE  /\ LET writes == AddNEP5TokenWrites(file, token)
                  saved == After(file, writes)
              IN /\ IsSequence(writes) /\ AllRight(file, writes, made, onChain, top)
                 /\ saved.coins = file.coins /\ saved.tokens = file.tokens \cup {token}
                 /\ saved.accounts = file.accounts /\ saved.contracts = file.contracts
                 /\ LoadWatchOnly(saved) = LoadWatchOnly(file)
           /\ token \in file.tokens =>
              LET writes == DeleteNEP5TokenWrites(file, token)
                  saved == After(file, writes)
              IN /\ IsSequence(writes) /\ AllRight(file, writes, made, onChain, top)
                 /\ saved.coins = file.coins /\ saved.tokens = file.tokens \ {token}
                 /\ saved.accounts = file.accounts /\ saved.contracts = file.contracts
                 /\ LoadWatchOnly(saved) = LoadWatchOnly(file)
  <1> DEFINE first == If(token \in file.tokens, <<<<"untoken", token>>>>)
             second == <<<<"token", token>>>>
             f1 == After(file, first)
             f2 == After(f1, second)
  <1>1. IsFile(file)
    BY DEF FileRight
  <1>2. /\ IsSequence(first) /\ AllRight(file, first, made, onChain, top)
        /\ f1 = IF token \in file.tokens THEN RowWritten(file, <<"untoken", token>>) ELSE file
    <2>1. FileRight(RowWritten(file, <<"untoken", token>>), made, onChain, top)
      BY WriteRight
    <2>2. (token \in file.tokens) \in BOOLEAN
      OBVIOUS
    <2> QED  BY <2>1, <2>2, OneRight
  <1> HIDE DEF first, f1
  <1>3. f1 = [coins |-> file.coins, height |-> file.height, tokens |-> file.tokens \ {token},
              accounts |-> file.accounts, contracts |-> file.contracts,
              addresses |-> file.addresses]
    <2>1. CASE token \in file.tokens
      BY <1>1, <1>2, <2>1, RowWrittenIs
    <2>2. CASE token \notin file.tokens
      <3>1. file.tokens \ {token} = file.tokens
        BY <2>2
      <3> QED  BY <1>1, <1>2, <2>2, <3>1 DEF IsFile
    <2> QED  BY <2>1, <2>2
  <1>4. FileRight(f1, made, onChain, top) /\ IsFile(f1)
    <2>1. FileRight(f1, made, onChain, top)
      BY <1>2, WriteRight
    <2> QED  BY <2>1 DEF FileRight
  <1>5. /\ IsSequence(second) /\ AllRight(f1, second, made, onChain, top)
        /\ f2 = RowWritten(f1, <<"token", token>>)
    <2>1. second = If(TRUE, second)
      BY DEF If
    <2>2. FileRight(RowWritten(f1, <<"token", token>>), made, onChain, top)
      BY <1>4, WriteRight
    <2>3. /\ IsSequence(second) /\ AllRight(f1, If(TRUE, second), made, onChain, top)
          /\ After(f1, If(TRUE, second)) = RowWritten(f1, <<"token", token>>)
      BY <1>4, <2>2, OneRight
    <2> QED  BY <2>1, <2>3
  <1> HIDE DEF second, f2
  <1>6. f2 = [coins |-> f1.coins, height |-> f1.height, tokens |-> f1.tokens \cup {token},
              accounts |-> f1.accounts, contracts |-> f1.contracts, addresses |-> f1.addresses]
    BY <1>4, <1>5, RowWrittenIs
  <1>7. /\ IsSequence(first \o second) /\ AllRight(file, first \o second, made, onChain, top)
        /\ After(file, first \o second) = f2
    BY <1>2, <1>5, RightInTurn DEF f1, f2
  <1>8. AddNEP5TokenWrites(file, token) = first \o second
    BY DEF AddNEP5TokenWrites, first, second
  <1>9. /\ f2.coins = file.coins /\ f2.tokens = file.tokens \cup {token}
        /\ f2.accounts = file.accounts /\ f2.contracts = file.contracts
        /\ LoadWatchOnly(f2) = LoadWatchOnly(file)
    BY <1>3, <1>6 DEF LoadWatchOnly
  <1>10. DeleteNEP5TokenWrites(file, token) = first
    BY DEF DeleteNEP5TokenWrites, first
  <1>11. LoadWatchOnly(f1) = LoadWatchOnly(file)
    BY <1>3 DEF LoadWatchOnly
  <1> QED  BY <1>2, <1>3, <1>7, <1>8, <1>9, <1>10, <1>11 DEF f1

\* The rows of the coins go one after the other.
LEMMA UncoinsSaved ==
    ASSUME NEW file, NEW made, NEW onChain, NEW top, FileRight(file, made, onChain, top),
           NEW q, IsSequence(q)
    PROVE  LET writes == [i \in DOMAIN q |-> <<"uncoin", q[i]>>]
               saved == After(file, writes)
           IN /\ IsSequence(writes) /\ AllRight(file, writes, made, onChain, top)
              /\ saved.tokens = file.tokens /\ saved.accounts = file.accounts
              /\ saved.contracts = file.contracts /\ saved.addresses = file.addresses
              /\ DOMAIN saved.coins = DOMAIN file.coins \ ToSet(q)
              /\ \A r \in DOMAIN saved.coins : saved.coins[r] = file.coins[r]
  <1> DEFINE u == [i \in DOMAIN q |-> <<"uncoin", q[i]>>]
             at(n) == Saved(file, u, n)
             Fine(n) == /\ FileRight(at(n), made, onChain, top)
                        /\ at(n).tokens = file.tokens /\ at(n).accounts = file.accounts
                        /\ at(n).contracts = file.contracts /\ at(n).addresses = file.addresses
                        /\ DOMAIN at(n).coins = DOMAIN file.coins \ {q[i] : i \in 1 .. n}
                        /\ \A r \in DOMAIN at(n).coins : at(n).coins[r] = file.coins[r]
             P == {n \in Nat : n <= Len(q) => Fine(n)}
  <1>1. Len(q) \in Nat /\ DOMAIN q = 1 .. Len(q)
    BY SequenceIs
  <1>2. IsSequence(u) /\ Len(u) = Len(q) /\ \A i \in 1 .. Len(q) : u[i] = <<"uncoin", q[i]>>
    <2>1. u = [i \in 1 .. Len(q) |-> u[i]] /\ \A i \in 1 .. Len(q) : u[i] = <<"uncoin", q[i]>>
      BY <1>1
    <2> HIDE DEF u
    <2> QED  BY <1>1, <2>1, IsASequence
  <1> HIDE DEF u
  <1>3. at(0) = file /\ \A n \in 1 .. Len(q) : at(n) = RowWritten(at(n - 1), <<"uncoin", q[n]>>)
    <2>1. /\ Saved(file, u, 0) = file
          /\ \A n \in 1 .. Len(u) : Saved(file, u, n) = RowWritten(Saved(file, u, n - 1), u[n])
      BY <1>2, SavedIs
    <2> QED  BY <1>2, <2>1
  <1> HIDE DEF at
  <1>4. 0 \in P
    <2>1. {q[i] : i \in 1 .. 0} = {}
      OBVIOUS
    <2> QED  BY <1>3, <2>1
  <1>5. ASSUME NEW n \in P PROVE n + 1 \in P
    <2> SUFFICES ASSUME n + 1 <= Len(q) PROVE Fine(n + 1)
      OBVIOUS
    <2>1. n \in Nat /\ n + 1 \in 1 .. Len(q) /\ (n + 1) - 1 = n /\ Fine(n)
      BY <1>1
    <2> DEFINE left == DOMAIN at(n).coins \ {q[n + 1]}
    <2> HIDE DEF P
    <2>2. IsFile(at(n))
      BY <2>1 DEF FileRight
    <2>3. at(n + 1) = RowWritten(at(n), <<"uncoin", q[n + 1]>>)
      BY <1>3, <2>1
    <2>4. at(n + 1) = [coins |-> Restrict(at(n).coins, left), height |-> at(n).height,
                       tokens |-> at(n).tokens, accounts |-> at(n).accounts,
                       contracts |-> at(n).contracts, addresses |-> at(n).addresses]
      BY <2>2, <2>3, RowWrittenIs
    <2>5. FileRight(at(n + 1), made, onChain, top)
      <3>1. FileRight(at(n), made, onChain, top)
        BY <2>1
      <3>2. FileRight(RowWritten(at(n), <<"uncoin", q[n + 1]>>), made, onChain, top)
        BY <3>1, WriteRight
      <3> QED  BY <2>3, <3>2
    <2>6. {q[i] : i \in 1 .. n + 1} = {q[i] : i \in 1 .. n} \cup {q[n + 1]}
      <3>1. \A i : i \in 1 .. n + 1 <=> i \in 1 .. n \/ i = n + 1
        BY <2>1
      <3> QED  BY <3>1
    <2>7. DOMAIN at(n + 1).coins = left /\ \A r \in left : at(n + 1).coins[r] = at(n).coins[r]
      BY <2>4 DEF Restrict
    <2>8. DOMAIN at(n + 1).coins = DOMAIN file.coins \ {q[i] : i \in 1 .. n + 1}
      BY <2>1, <2>6, <2>7
    <2>9. \A r \in DOMAIN at(n + 1).coins : at(n + 1).coins[r] = file.coins[r]
      BY <2>1, <2>7
    <2> QED  BY <2>1, <2>4, <2>5, <2>8, <2>9
  <1>6. P = Nat
    <2>1. P \in SUBSET Nat
      OBVIOUS
    <2> HIDE DEF P
    <2> QED  BY <1>4, <1>5, <2>1, RowWrites!Induction
  <1>7. \A n \in 0 .. Len(q) : Fine(n)
    <2>1. \A n \in 0 .. Len(q) : n \in P /\ n <= Len(q)
      BY <1>1, <1>6
    <2> HIDE DEF Fine
    <2> QED  BY <2>1
  <1>8. AllRight(file, u, made, onChain, top)
    BY <1>2, <1>7 DEF AllRight, at
  <1>9. After(file, u) = at(Len(q))
    BY <1>2 DEF After, at
  <1>10. ToSet(q) = {q[i] : i \in 1 .. Len(q)}
    BY <1>1 DEF ToSet
  <1>11. Len(q) \in 0 .. Len(q)
    BY <1>1
  <1>12. Fine(Len(q))
    BY <1>7, <1>11
  <1> QED  BY <1>2, <1>8, <1>9, <1>10, <1>12 DEF u

LEMMA DeleteAddressSaved ==
    ASSUME NEW file, NEW made, NEW onChain, NEW top, FileRight(file, made, onChain, top), NEW addr,
           NEW gone
    PROVE  LET writes == DeleteAddressWrites(file, addr, gone)
               saved == After(file, writes)
           IN /\ IsSequence(writes) /\ AllRight(file, writes, made, onChain, top)
              /\ saved.tokens = file.tokens /\ saved.accounts = file.accounts
              /\ ToSet(saved.contracts) = ToSet(file.contracts) \ {addr}
              /\ LoadWatchOnly(saved) = LoadWatchOnly(file) \ {addr}
              /\ DOMAIN saved.coins = DOMAIN file.coins \ gone
              /\ \A r \in DOMAIN saved.coins : saved.coins[r] = file.coins[r]
  <1> DEFINE q == SetToSeq(gone \cap DOMAIN file.coins)
             first == [i \in DOMAIN q |-> <<"uncoin", q[i]>>]
             second == If(Contains(file.contracts, addr), <<<<"uncontract", addr>>>>)
             third == If(addr \in DOMAIN file.addresses, <<<<"unaddress", addr>>>>)
             f1 == After(file, first)
             f2 == After(f1, second)
             f3 == After(f2, third)
             writes == DeleteAddressWrites(file, addr, gone)
  <1>1. /\ IsFile(file) /\ IsSequence(file.contracts)
        /\ addr \notin ToSet(RemoveFirst(file.contracts, addr))
    BY AddressesKept DEF FileRight, AddressesRight
  <1>2. IsSequence(q) /\ ToSet(q) = gone \cap DOMAIN file.coins
    <2>1. IsFiniteSet(DOMAIN file.coins) /\ (gone \cap DOMAIN file.coins) \in SUBSET DOMAIN file.coins
      BY DEF FileRight, CoinsRight
    <2>2. IsFiniteSet(gone \cap DOMAIN file.coins)
      BY <2>1, FS_Subset
    <2> QED  BY <2>2, SetToSeqIs
  <1> HIDE DEF q
  <1>3. /\ IsSequence(first) /\ AllRight(file, first, made, onChain, top)
        /\ f1.tokens = file.tokens /\ f1.accounts = file.accounts
        /\ f1.contracts = file.contracts /\ f1.addresses = file.addresses
        /\ DOMAIN f1.coins = DOMAIN file.coins \ ToSet(q)
        /\ \A r \in DOMAIN f1.coins : f1.coins[r] = file.coins[r]
    BY <1>2, UncoinsSaved
  <1>4. FileRight(f1, made, onChain, top) /\ IsFile(f1)
    <2> HIDE DEF first
    <2>1. Len(first) \in 0 .. Len(first)
      BY <1>3, SequenceIs
    <2>2. FileRight(f1, made, onChain, top)
      BY <1>3, <2>1 DEF AllRight, After
    <2> QED  BY <2>2 DEF FileRight
  <1> HIDE DEF first, f1
  <1>5. Contains(file.contracts, addr) \in BOOLEAN
    BY DEF Contains
  <1>6. Contains(file.contracts, addr) <=> addr \in ToSet(file.contracts)
    BY <1>1, ContainsIs
  <1>7. /\ IsSequence(second) /\ AllRight(f1, second, made, onChain, top)
        /\ f2 = IF Contains(file.contracts, addr) THEN RowWritten(f1, <<"uncontract", addr>>) ELSE f1
    <2>1. FileRight(RowWritten(f1, <<"uncontract", addr>>), made, onChain, top)
      BY <1>4, WriteRight
    <2> QED  BY <1>4, <1>5, <2>1, OneRight
  <1> HIDE DEF second, f2
  <1>8. FileRight(f2, made, onChain, top) /\ IsFile(f2)
    <2>1. FileRight(f2, made, onChain, top)
      BY <1>4, <1>7, WriteRight
    <2> QED  BY <2>1 DEF FileRight
  <1>9. /\ addr \notin ToSet(f2.contracts)
        /\ ToSet(f2.contracts) = ToSet(file.contracts) \ {addr}
        /\ f2.coins = f1.coins /\ f2.tokens = f1.tokens /\ f2.accounts = f1.accounts
        /\ f2.addresses = file.addresses
    <2>1. CASE Contains(file.contracts, addr)
      <3>1. f2 = [coins |-> f1.coins, height |-> f1.height, tokens |-> f1.tokens,
                  accounts |-> f1.accounts, contracts |-> RemoveFirst(file.contracts, addr),
                  addresses |-> file.addresses]
        <4>1. RowWritten(f1, <<"uncontract", addr>>)
              = [coins |-> f1.coins, height |-> f1.height, tokens |-> f1.tokens,
                 accounts |-> f1.accounts, contracts |-> RemoveFirst(f1.contracts, addr),
                 addresses |-> f1.addresses]
          BY <1>4, RowWrittenIs
        <4> QED  BY <1>3, <1>7, <2>1, <4>1
      <3>2. ToSet(RemoveFirst(file.contracts, addr)) = ToSet(file.contracts) \ {addr}
        <4>1. /\ ToSet(RemoveFirst(file.contracts, addr)) \subseteq ToSet(file.contracts)
              /\ ToSet(file.contracts) \ {addr} \subseteq ToSet(RemoveFirst(file.contracts, addr))
          BY <1>1, RemoveFirstIs
        <4> QED  BY <1>1, <4>1
      <3> QED  BY <3>1, <3>2
    <2>2. CASE ~Contains(file.contracts, addr)
      <3>1. f2 = f1 /\ addr \notin ToSet(file.contracts)
        BY <1>6, <1>7, <2>2
      <3> QED  BY <1>3, <3>1
    <2> QED  BY <2>1, <2>2
  <1>10. (addr \in DOMAIN file.addresses) \in BOOLEAN
    OBVIOUS
  <1>11. FileRight(RowWritten(f2, <<"unaddress", addr>>), made, onChain, top)
    BY <1>8, <1>9, WriteRight
  <1>12. /\ IsSequence(third) /\ AllRight(f2, third, made, onChain, top)
         /\ f3 = IF addr \in DOMAIN file.addresses THEN RowWritten(f2, <<"unaddress", addr>>) ELSE f2
    BY <1>8, <1>10, <1>11, OneRight
  <1> HIDE DEF third, f3
  <1>13. /\ f3.coins = f2.coins /\ f3.tokens = f2.tokens /\ f3.accounts = f2.accounts
         /\ f3.contracts = f2.contracts
         /\ LoadWatchOnly(f3) = LoadWatchOnly(file) \ {addr}
    <2>1. CASE addr \in DOMAIN file.addresses
      <3> DEFINE left == DOMAIN file.addresses \ {addr}
      <3>1. f3 = [coins |-> f2.coins, height |-> f2.height, tokens |-> f2.tokens,
                  accounts |-> f2.accounts, contracts |-> f2.contracts,
                  addresses |-> Restrict(file.addresses, left)]
        BY <1>8, <1>9, <1>12, <2>1, RowWrittenIs, ZenonT(60)
      <3>2. DOMAIN f3.addresses = left /\ \A a \in left : f3.addresses[a] = file.addresses[a]
        BY <3>1 DEF Restrict
      <3>3. LoadWatchOnly(f3) = LoadWatchOnly(file) \ {addr}
        BY <3>2 DEF LoadWatchOnly
      <3> QED  BY <3>1, <3>3
    <2>2. CASE addr \notin DOMAIN file.addresses
      <3>1. f3 = f2
        BY <1>12, <2>2
      <3>2. LoadWatchOnly(f3) = LoadWatchOnly(file) \ {addr}
        BY <1>9, <2>2, <3>1 DEF LoadWatchOnly
      <3> QED  BY <3>1, <3>2
    <2> QED  BY <2>1, <2>2
  <1>14. /\ IsSequence(second \o third) /\ AllRight(f1, second \o third, made, onChain, top)
         /\ After(f1, second \o third) = f3
    BY <1>7, <1>12, RightInTurn DEF f2, f3
  <1>15. writes = first \o (second \o third)
    <2>1. writes = (first \o second) \o third
      BY DEF DeleteAddressWrites, first, second, third, q
    <2>2. first \in Seq(Range(first)) /\ second \in Seq(Range(second)) /\ third \in Seq(Range(third))
      BY <1>3, <1>7, <1>12 DEF IsSequence
    <2> DEFINE S == Range(first) \cup Range(second) \cup Range(third)
    <2>3. first \in Seq(S) /\ second \in Seq(S) /\ third \in Seq(S)
      BY <2>2, SeqMonotonic
    <2>4. (first \o second) \o third = first \o (second \o third)
      BY <2>3, ConcatAssociative
    <2> QED  BY <2>1, <2>4
  <1> HIDE DEF writes
  <1>16. /\ IsSequence(writes) /\ AllRight(file, writes, made, onChain, top)
         /\ After(file, writes) = f3
    BY <1>3, <1>14, <1>15, RightInTurn DEF f1
  <1>17. /\ DOMAIN f3.coins = DOMAIN file.coins \ gone
         /\ \A r \in DOMAIN f3.coins : f3.coins[r] = file.coins[r]
    BY <1>2, <1>3, <1>9, <1>13
  <1> QED  BY <1>3, <1>9, <1>13, <1>16, <1>17 DEF writes

-----------------------------------------------------------------------------
(* The addresses and tokens of the wallet.                                 *)

LEMMA EditIs ==
    ASSUME WalletInvariant, wallet # Null, NEW w, NEW writes, Edit(w, writes),
           AllRight(rows, writes, Made, OnChain, Height), IsSequence(writes),
           WalletRight(w, doubled', Made, OnChain, Height),
           w.height = wallet.height, w.handlers = wallet.handlers,
           Follows(w, After(rows, writes), txs, doubled'),
           IsSequence(sends'), SpendsOnce', AllMarked(sends', w.coins, OnChain, Past(wallet))
    PROVE  WalletInvariant'
  <1>1. /\ wallet' = w /\ rows' = After(rows, writes)
        /\ UNCHANGED <<chain, txs, pool, cache, known>>
    BY DEF Edit, After
  <1>2. ChainInvariant /\ OffersUnconfirmed
    BY InvariantIs
  <1>3. /\ ChainInvariant' /\ OnChain' = OnChain /\ Height' = Height
        /\ \A h : Below(h)' = Below(h)
        /\ Made' = Made
    BY <1>1, <1>2, ChainSame
  <1>4. FileRight(rows', Made', OnChain', Height')
    <2>1. Len(writes) \in 0 .. Len(writes)
      BY SequenceIs
    <2> QED  BY <1>1, <1>3, <2>1 DEF AllRight, After
  <1>5. Past(wallet)' = Past(wallet)
    <2>1. wallet'.height = wallet.height /\ wallet'.handlers = wallet.handlers
      BY <1>1
    <2> QED  BY <1>3, <2>1 DEF Past
  <1>6. WalletRight(wallet', doubled', Made', OnChain', Height')
    BY <1>1, <1>3
  <1>7. AllMarked(sends', wallet'.coins, OnChain', Past(wallet)')
    BY <1>1, <1>3, <1>5
  <1>8. Follows(wallet', rows', txs', doubled')
    BY <1>1
  <1>9. OffersUnconfirmed'
    BY <1>1, <1>2, <1>3 DEF OffersUnconfirmed
  <1> QED  BY <1>3, <1>4, <1>6, <1>7, <1>8, <1>9, InvariantIs

LEMMA StopInEditIs ==
    ASSUME WalletInvariant, NEW writes, StopInEdit(writes), IsSequence(writes),
           AllRight(rows, writes, Made, OnChain, Height)
    PROVE  WalletInvariant'
  <1>1. PICK n \in 0 .. Len(writes) - 1 : rows' = Saved(rows, writes, n)
    BY DEF StopInEdit
  <1>2. n \in 0 .. Len(writes)
    <2>1. Len(writes) \in Nat
      BY SequenceIs
    <2> QED  BY <2>1
  <1>3. Down /\ UNCHANGED <<chain, txs, known>>
    BY DEF StopInEdit
  <1>4. ChainInvariant
    BY InvariantIs
  <1>5. ChainInvariant' /\ OnChain' = OnChain /\ Height' = Height /\ Made' = Made
    BY <1>3, <1>4, ChainSame
  <1>6. FileRight(rows', Made', OnChain', Height')
    BY <1>1, <1>2, <1>5 DEF AllRight
  <1> QED  BY <1>3, <1>5, <1>6, StoppedIs

\* The contracts and the watched addresses once a contract was added.
WithContract(contracts, addr) ==
    IF Contains(contracts, addr) THEN contracts ELSE Append(contracts, addr)

LEMMA ContractAdded ==
    ASSUME NEW contracts, IsSequence(contracts), Unrepeated(contracts, {}), NEW addr
    PROVE  /\ IsSequence(WithContract(contracts, addr))
           /\ Unrepeated(WithContract(contracts, addr), {})
           /\ ToSet(WithContract(contracts, addr)) = ToSet(contracts) \cup {addr}
  <1>1. Contains(contracts, addr) <=> addr \in ToSet(contracts)
    BY ContainsIs
  <1>2. CASE Contains(contracts, addr)
    <2>1. WithContract(contracts, addr) = contracts
      BY <1>2 DEF WithContract
    <2> QED  BY <1>1, <1>2, <2>1
  <1>3. CASE ~Contains(contracts, addr)
    <2>1. WithContract(contracts, addr) = Append(contracts, addr)
      BY <1>3 DEF WithContract
    <2>2. /\ IsSequence(Append(contracts, addr))
          /\ ToSet(Append(contracts, addr)) = ToSet(contracts) \cup {addr}
      BY AppendIs
    <2>3. Unrepeated(Append(contracts, addr), {})
      BY <1>1, <1>3, AppendUnrepeated
    <2> QED  BY <2>1, <2>2, <2>3
  <1> QED  BY <1>2, <1>3

LEMMA WatchLeft ==
    ASSUME NEW watch, NEW some, IsSequence(watch), Unrepeated(watch, some), NEW addr
    PROVE  /\ IsSequence(RemoveFirst(watch, addr)) /\ Unrepeated(RemoveFirst(watch, addr), some)
           /\ ToSet(RemoveFirst(watch, addr)) \ some = (ToSet(watch) \ {addr}) \ some
  <1> DEFINE left == RemoveFirst(watch, addr)
  <1>1. /\ IsSequence(left)
        /\ ToSet(left) \subseteq ToSet(watch) /\ ToSet(watch) \ {addr} \subseteq ToSet(left)
        /\ Unrepeated(left, some) /\ (addr \notin some => addr \notin ToSet(left))
    BY RemoveFirstIs
  <1> HIDE DEF left
  <1>2. ToSet(left) \ some = (ToSet(watch) \ {addr}) \ some
    BY <1>1
  <1> QED  BY <1>1, <1>2 DEF left

LEMMA AddContractIs ==
    ASSUME NEW w, IsWallet(w), NEW addr
    PROVE  LET contracts == WithContract(w.contracts, addr)
               watch == RemoveFirst(w.watch, addr)
           IN /\ AddContract(w, addr)
                 = [keys |-> w.keys, contracts |-> contracts, tokens |-> w.tokens,
                    watch |-> watch, coins |-> w.coins, height |-> w.height,
                    handlers |-> w.handlers, loops |-> w.loops, starts |-> w.starts]
              /\ CreateKey(w, addr)
                 = [keys |-> w.keys \cup {addr}, contracts |-> contracts, tokens |-> w.tokens,
                    watch |-> watch, coins |-> w.coins, height |-> w.height,
                    handlers |-> w.handlers, loops |-> w.loops, starts |-> w.starts]
  <1> DEFINE contracts == WithContract(w.contracts, addr)
             watch == RemoveFirst(w.watch, addr)
             v == AddContract(w, addr)
             x == [w EXCEPT !.keys = @ \cup {addr}]
             y == CreateKey(w, addr)
  <1>1. v = [w EXCEPT !.contracts = contracts, !.watch = watch]
    BY DEF AddContract, IsWallet, WithContract
  <1>2. x = [keys |-> w.keys \cup {addr}, contracts |-> w.contracts, tokens |-> w.tokens,
             watch |-> w.watch, coins |-> w.coins, height |-> w.height,
             handlers |-> w.handlers, loops |-> w.loops, starts |-> w.starts]
    BY DEF IsWallet
  <1>3. y = AddContract(x, addr)
    BY DEF CreateKey
  <1> HIDE DEF x, v, y
  <1>4. y = [x EXCEPT !.contracts = contracts, !.watch = watch]
    <2>1. x.contracts = w.contracts /\ x.watch = w.watch
      BY <1>2
    <2>2. AddContract(x, addr) = [x EXCEPT !.contracts = WithContract(x.contracts, addr),
                                           !.watch = RemoveFirst(x.watch, addr)]
      BY <1>2 DEF AddContract, WithContract
    <2> QED  BY <1>3, <2>1, <2>2
  <1> HIDE DEF contracts, watch
  <1>5. v = [keys |-> w.keys, contracts |-> contracts, tokens |-> w.tokens,
             watch |-> watch, coins |-> w.coins, height |-> w.height,
             handlers |-> w.handlers, loops |-> w.loops, starts |-> w.starts]
    BY <1>1 DEF IsWallet
  <1>6. y = [keys |-> w.keys \cup {addr}, contracts |-> contracts, tokens |-> w.tokens,
              watch |-> watch, coins |-> w.coins, height |-> w.height,
              handlers |-> w.handlers, loops |-> w.loops, starts |-> w.starts]
    BY <1>2, <1>4
  <1> QED  BY <1>5, <1>6 DEF v, y, contracts, watch

\* A contract is added, with its key or without.
LEMMA ContractImported ==
    ASSUME WalletInvariant, wallet # Null, NEW addr, NEW w, NEW writes, Edit(w, writes),
           UNCHANGED <<sends, doubled>>, NEW keys, NEW contracts, NEW watch,
           w = [keys |-> keys, contracts |-> contracts, tokens |-> wallet.tokens, watch |-> watch,
                coins |-> wallet.coins, height |-> wallet.height,
                handlers |-> wallet.handlers, loops |-> wallet.loops, starts |-> wallet.starts],
           IsSequence(contracts), Unrepeated(contracts, {}),
           ToSet(contracts) = ToSet(wallet.contracts) \cup {addr},
           IsSequence(watch), Unrepeated(watch, doubled),
           ToSet(watch) \ doubled = (ToSet(wallet.watch) \ {addr}) \ doubled,
           IsSequence(writes), AllRight(rows, writes, Made, OnChain, Height),
           NEW saved, saved = After(rows, writes),
           saved.coins = rows.coins, saved.tokens = rows.tokens, saved.accounts = keys,
           ToSet(saved.contracts) = ToSet(rows.contracts) \cup {addr},
           LoadWatchOnly(saved) = LoadWatchOnly(rows) \ {addr}
    PROVE  WalletInvariant'
  <1>1. /\ WalletRight(wallet, doubled, Made, OnChain, Height)
        /\ AllMarked(sends, wallet.coins, OnChain, Past(wallet))
        /\ Follows(wallet, rows, txs, doubled)
        /\ IsSequence(sends) /\ SpendsOnce
    BY InvariantIs
  <1>2. WalletRight(w, doubled', Made, OnChain, Height)
    <2>1. IsWallet(w)
      BY DEF IsWallet
    <2>2. WalletRight(w, doubled, Made, OnChain, Height)
      BY <1>1, <2>1 DEF WalletRight
    <2> QED  BY <2>2
  <1>3. Follows(w, saved, txs, doubled')
    <2>1. ToSet(watch) \ doubled = LoadWatchOnly(saved) \ doubled
      <3>1. ToSet(wallet.watch) \ doubled = LoadWatchOnly(rows) \ doubled
        BY <1>1 DEF Follows
      <3>2. (ToSet(wallet.watch) \ {addr}) \ doubled = (LoadWatchOnly(rows) \ {addr}) \ doubled
        BY <3>1
      <3> QED  BY <3>2
    <2>2. Follows(w, saved, txs, doubled)
      BY <1>1, <2>1 DEF Follows
    <2> QED  BY <2>2
  <1>4. /\ IsSequence(sends') /\ SpendsOnce'
        /\ AllMarked(sends', w.coins, OnChain, Past(wallet))
    BY <1>1 DEF SpendsOnce
  <1>5. w.height = wallet.height /\ w.handlers = wallet.handlers
    OBVIOUS
  <1>6. Follows(w, After(rows, writes), txs, doubled')
    BY <1>3
  <1> QED  BY <1>2, <1>4, <1>5, <1>6, EditIs

LEMMA ImportKeyIs ==
    ASSUME WalletInvariant, NEW addr, ImportKey(addr)
    PROVE  WalletInvariant'
  <1> DEFINE contracts == WithContract(wallet.contracts, addr)
             watch == RemoveFirst(wallet.watch, addr)
             writes == CreateKeyWrites(rows, addr)
             saved == After(rows, writes)
             w == CreateKey(wallet, addr)
  <1>1. /\ wallet # Null
        /\ \/ Edit(w, writes) /\ UNCHANGED <<sends, doubled>>
           \/ StopInEdit(writes)
    BY DEF ImportKey
  <1>2. /\ FileRight(rows, Made, OnChain, Height)
        /\ WalletRight(wallet, doubled, Made, OnChain, Height)
        /\ wallet.keys = rows.accounts
    BY <1>1, InvariantIs DEF Follows
  <1>3. /\ IsSequence(writes) /\ AllRight(rows, writes, Made, OnChain, Height)
        /\ saved.coins = rows.coins /\ saved.tokens = rows.tokens
        /\ saved.accounts = rows.accounts \cup {addr}
        /\ ToSet(saved.contracts) = ToSet(rows.contracts) \cup {addr}
        /\ LoadWatchOnly(saved) = LoadWatchOnly(rows) \ {addr}
    BY <1>2, CreateKeySaved
  <1>4. w = [keys |-> wallet.keys \cup {addr},
             contracts |-> contracts, tokens |-> wallet.tokens, watch |-> watch,
             coins |-> wallet.coins, height |-> wallet.height,
             handlers |-> wallet.handlers, loops |-> wallet.loops, starts |-> wallet.starts]
    BY <1>2, AddContractIs DEF WalletRight
  <1>5. /\ IsSequence(contracts) /\ Unrepeated(contracts, {})
        /\ ToSet(contracts) = ToSet(wallet.contracts) \cup {addr}
        /\ IsSequence(watch) /\ Unrepeated(watch, doubled)
        /\ ToSet(watch) \ doubled = (ToSet(wallet.watch) \ {addr}) \ doubled
    <2>1. /\ IsSequence(wallet.contracts) /\ Unrepeated(wallet.contracts, {})
          /\ IsSequence(wallet.watch) /\ Unrepeated(wallet.watch, doubled)
      BY <1>2 DEF WalletRight
    <2>2. /\ IsSequence(contracts) /\ Unrepeated(contracts, {})
          /\ ToSet(contracts) = ToSet(wallet.contracts) \cup {addr}
      BY <2>1, ContractAdded
    <2>3. /\ IsSequence(watch) /\ Unrepeated(watch, doubled)
          /\ ToSet(watch) \ doubled = (ToSet(wallet.watch) \ {addr}) \ doubled
      BY <2>1, WatchLeft
    <2> QED  BY <2>2, <2>3
  <1> HIDE DEF contracts, watch, writes, saved, w
  <1>6. CASE StopInEdit(writes)
    BY <1>3, <1>6, StopInEditIs
  <1>7. CASE Edit(w, writes) /\ UNCHANGED <<sends, doubled>>
    <2>1. saved.accounts = wallet.keys \cup {addr}
      BY <1>2, <1>3
    <2> QED  BY <1>1, <1>3, <1>4, <1>7, <1>5, <2>1, ContractImported DEF saved
  <1> QED  BY <1>1, <1>6, <1>7

LEMMA ImportMultisigAddrIs ==
    ASSUME WalletInvariant, NEW addr, ImportMultisigAddr(addr)
    PROVE  WalletInvariant'
  <1> DEFINE contracts == WithContract(wallet.contracts, addr)
             watch == RemoveFirst(wallet.watch, addr)
             writes == AddContractWrites(rows, addr)
             saved == After(rows, writes)
             w == AddContract(wallet, addr)
  <1>1. /\ wallet # Null
        /\ \/ Edit(w, writes) /\ UNCHANGED <<sends, doubled>>
           \/ StopInEdit(writes)
    BY DEF ImportMultisigAddr
  <1>2. /\ FileRight(rows, Made, OnChain, Height)
        /\ WalletRight(wallet, doubled, Made, OnChain, Height)
        /\ wallet.keys = rows.accounts
    BY <1>1, InvariantIs DEF Follows
  <1>3. /\ IsSequence(writes) /\ AllRight(rows, writes, Made, OnChain, Height)
        /\ saved.coins = rows.coins /\ saved.tokens = rows.tokens
        /\ saved.accounts = rows.accounts
        /\ ToSet(saved.contracts) = ToSet(rows.contracts) \cup {addr}
        /\ LoadWatchOnly(saved) = LoadWatchOnly(rows) \ {addr}
    BY <1>2, AddContractSaved
  <1>4. w = [keys |-> wallet.keys,
             contracts |-> contracts, tokens |-> wallet.tokens, watch |-> watch,
             coins |-> wallet.coins, height |-> wallet.height,
             handlers |-> wallet.handlers, loops |-> wallet.loops, starts |-> wallet.starts]
    BY <1>2, AddContractIs DEF WalletRight
  <1>5. /\ IsSequence(contracts) /\ Unrepeated(contracts, {})
        /\ ToSet(contracts) = ToSet(wallet.contracts) \cup {addr}
        /\ IsSequence(watch) /\ Unrepeated(watch, doubled)
        /\ ToSet(watch) \ doubled = (ToSet(wallet.watch) \ {addr}) \ doubled
    <2>1. /\ IsSequence(wallet.contracts) /\ Unrepeated(wallet.contracts, {})
          /\ IsSequence(wallet.watch) /\ Unrepeated(wallet.watch, doubled)
      BY <1>2 DEF WalletRight
    <2>2. /\ IsSequence(contracts) /\ Unrepeated(contracts, {})
          /\ ToSet(contracts) = ToSet(wallet.contracts) \cup {addr}
      BY <2>1, ContractAdded
    <2>3. /\ IsSequence(watch) /\ Unrepeated(watch, doubled)
          /\ ToSet(watch) \ doubled = (ToSet(wallet.watch) \ {addr}) \ doubled
      BY <2>1, WatchLeft
    <2> QED  BY <2>2, <2>3
  <1> HIDE DEF contracts, watch, writes, saved, w
  <1>6. CASE StopInEdit(writes)
    BY <1>3, <1>6, StopInEditIs
  <1>7. CASE Edit(w, writes) /\ UNCHANGED <<sends, doubled>>
    <2>1. saved.accounts = wallet.keys
      BY <1>2, <1>3
    <2> QED  BY <1>1, <1>3, <1>4, <1>7, <1>5, <2>1, ContractImported DEF saved
  <1> QED  BY <1>1, <1>6, <1>7

LEMMA ImportWatchAddrIs ==
    ASSUME WalletInvariant, NEW addr, ImportWatchAddr(addr)
    PROVE  WalletInvariant'
  <1> DEFINE writes == AddWatchOnlyWrites(rows, addr)
             w == AddWatchOnly(wallet, addr)
             saved == After(rows, writes)
             watch == Append(wallet.watch, addr)
             some == IF addr \in DOMAIN rows.addresses THEN doubled \cup {addr} ELSE doubled
  <1>1. wallet # Null /\ Edit(w, writes) /\ doubled' = some /\ UNCHANGED sends
    BY DEF ImportWatchAddr
  <1>2. /\ FileRight(rows, Made, OnChain, Height)
        /\ WalletRight(wallet, doubled, Made, OnChain, Height)
        /\ AllMarked(sends, wallet.coins, OnChain, Past(wallet))
        /\ Follows(wallet, rows, txs, doubled)
        /\ IsSequence(sends) /\ SpendsOnce
    BY <1>1, InvariantIs
  <1>3. /\ IsSequence(writes) /\ AllRight(rows, writes, Made, OnChain, Height)
        /\ saved.coins = rows.coins /\ saved.tokens = rows.tokens
        /\ saved.accounts = rows.accounts /\ saved.contracts = rows.contracts
        /\ LoadWatchOnly(saved) = IF addr \in DOMAIN rows.addresses THEN LoadWatchOnly(rows)
                                  ELSE LoadWatchOnly(rows) \cup {addr}
    BY <1>2, AddWatchOnlySaved
  <1>4. /\ IsWallet(wallet) /\ IsSequence(wallet.watch) /\ Unrepeated(wallet.watch, doubled)
        /\ ToSet(wallet.watch) \ doubled = LoadWatchOnly(rows) \ doubled
    BY <1>2 DEF WalletRight, Follows
  <1>5. w = [wallet EXCEPT !.watch = watch]
    BY DEF AddWatchOnly
  <1>6. IsSequence(watch) /\ ToSet(watch) = ToSet(wallet.watch) \cup {addr}
    BY <1>4, AppendIs
  <1>7. Unrepeated(watch, some)
    <2>1. Unrepeated(wallet.watch, some)
      BY <1>4 DEF Unrepeated
    <2>2. addr \in ToSet(wallet.watch) => addr \in some
      BY <1>4 DEF LoadWatchOnly
    <2> HIDE DEF some
    <2> QED  BY <1>4, <2>1, <2>2, AppendUnrepeated
  <1> HIDE DEF w, watch, saved, writes
  <1>8. w = [keys |-> wallet.keys, contracts |-> wallet.contracts, tokens |-> wallet.tokens,
             watch |-> watch, coins |-> wallet.coins, height |-> wallet.height,
             handlers |-> wallet.handlers, loops |-> wallet.loops, starts |-> wallet.starts]
    BY <1>4, <1>5 DEF IsWallet
  <1>9. WalletRight(w, some, Made, OnChain, Height)
    <2> HIDE DEF some
    <2>1. IsWallet(w)
      BY <1>8 DEF IsWallet
    <2> QED  BY <1>2, <1>6, <1>7, <1>8, <2>1 DEF WalletRight
  <1>10. Follows(w, saved, txs, some)
    <2>1. ToSet(watch) \ some = LoadWatchOnly(saved) \ some
      BY <1>3, <1>4, <1>6
    <2>2. Agree(wallet.coins, rows.coins, txs, some)
      BY <1>2 DEF Follows, Agree
    <2> HIDE DEF some
    <2> QED  BY <1>2, <1>3, <1>8, <2>1, <2>2 DEF Follows
  <1>11. /\ IsSequence(sends') /\ SpendsOnce'
         /\ AllMarked(sends', w.coins, OnChain, Past(wallet))
    BY <1>1, <1>2, <1>8 DEF SpendsOnce
  <1>12. w.height = wallet.height /\ w.handlers = wallet.handlers
    BY <1>8
  <1> HIDE DEF some
  <1> QED  BY <1>1, <1>3, <1>9, <1>10, <1>11, <1>12, EditIs DEF saved

\* The memory once an address was deleted.
LEMMA AddressDeleted ==
    ASSUME NEW w, NEW some, NEW made, NEW onChain, NEW top,
           WalletRight(w, some, made, onChain, top), NEW addr, NEW gone
    PROVE  LET v == DeleteAddress(w, addr, gone) IN
           /\ WalletRight(v, some, made, onChain, top)
           /\ v.keys = w.keys /\ v.tokens = w.tokens
           /\ v.height = w.height /\ v.handlers = w.handlers
           /\ ToSet(v.contracts) = ToSet(w.contracts) \ {addr}
           /\ ToSet(v.watch) \ some = IF addr \in ToSet(w.contracts) THEN ToSet(w.watch) \ some
                                      ELSE (ToSet(w.watch) \ {addr}) \ some
           /\ DOMAIN v.coins = DOMAIN w.coins \ gone
           /\ \A r \in DOMAIN v.coins : v.coins[r] = w.coins[r]
  <1> DEFINE coins == Restrict(w.coins, DOMAIN w.coins \ gone)
             contracts == RemoveFirst(w.contracts, addr)
             watch == RemoveFirst(w.watch, addr)
             v == DeleteAddress(w, addr, gone)
  <1>1. /\ IsWallet(w) /\ IsSequence(w.contracts) /\ Unrepeated(w.contracts, {})
        /\ IsSequence(w.watch) /\ Unrepeated(w.watch, some)
        /\ CoinsRight(w.coins, made, onChain)
    BY DEF WalletRight
  <1>2. Contains(w.contracts, addr) <=> addr \in ToSet(w.contracts)
    BY <1>1, ContainsIs
  <1>3. /\ CoinsRight(coins, made, onChain) /\ DOMAIN coins = DOMAIN w.coins \ gone
        /\ \A r \in DOMAIN coins : coins[r] = w.coins[r]
    <2> DEFINE left == DOMAIN w.coins \ gone
    <2>1. coins = [q \in left |-> w.coins[q]]
      BY DEF Restrict
    <2>2. left \in SUBSET DOMAIN w.coins
      OBVIOUS
    <2>3. IsFiniteSet(left)
      BY <1>1, <2>2, FS_Subset DEF CoinsRight
    <2> HIDE DEF left, coins
    <2>4. DOMAIN coins = left /\ \A q \in left : coins[q] = w.coins[q]
      BY <2>1
    <2>5. coins = [q \in DOMAIN coins |-> coins[q]]
      BY <2>1, <2>4
    <2>6. CoinsRight(coins, made, onChain)
      BY <1>1, <2>2, <2>3, <2>4, <2>5 DEF CoinsRight
    <2> QED  BY <2>4, <2>6 DEF left
  <1>4. /\ IsSequence(contracts) /\ Unrepeated(contracts, {})
        /\ ToSet(contracts) = ToSet(w.contracts) \ {addr}
    <2>1. /\ IsSequence(contracts)
          /\ ToSet(contracts) \subseteq ToSet(w.contracts)
          /\ ToSet(w.contracts) \ {addr} \subseteq ToSet(contracts)
          /\ Unrepeated(contracts, {}) /\ addr \notin ToSet(contracts)
      BY <1>1, RemoveFirstIs
    <2> HIDE DEF contracts
    <2> QED  BY <2>1
  <1>5. /\ IsSequence(watch) /\ Unrepeated(watch, some)
        /\ ToSet(watch) \ some = (ToSet(w.watch) \ {addr}) \ some
    <2>1. /\ IsSequence(watch)
          /\ ToSet(watch) \subseteq ToSet(w.watch) /\ ToSet(w.watch) \ {addr} \subseteq ToSet(watch)
          /\ Unrepeated(watch, some) /\ (addr \notin some => addr \notin ToSet(watch))
      BY <1>1, RemoveFirstIs
    <2> HIDE DEF watch
    <2> QED  BY <2>1
  <1> DEFINE x == [w EXCEPT !.coins = coins]
  <1>6. v = IF Contains(w.contracts, addr) THEN [x EXCEPT !.contracts = RemoveFirst(@, addr)]
            ELSE [x EXCEPT !.watch = RemoveFirst(@, addr)]
    BY <1>1 DEF DeleteAddress, IsWallet
  <1>7. x = [w EXCEPT !.coins = coins]
    OBVIOUS
  <1> HIDE DEF x, v, coins
  <1>8. x = [keys |-> w.keys, contracts |-> w.contracts, tokens |-> w.tokens,
             watch |-> w.watch, coins |-> coins, height |-> w.height,
             handlers |-> w.handlers, loops |-> w.loops, starts |-> w.starts]
    BY <1>1, <1>7 DEF IsWallet
  <1>9. CASE Contains(w.contracts, addr)
    <2>1. v = [x EXCEPT !.contracts = contracts]
      BY <1>6, <1>8, <1>9
    <2> HIDE DEF contracts, watch
    <2>2. v = [keys |-> w.keys, contracts |-> contracts, tokens |-> w.tokens,
               watch |-> w.watch, coins |-> coins, height |-> w.height,
               handlers |-> w.handlers, loops |-> w.loops, starts |-> w.starts]
      BY <1>8, <2>1
    <2>3. IsWallet(v)
      BY <2>2 DEF IsWallet
    <2>4. WalletRight(v, some, made, onChain, top)
      BY <1>1, <1>3, <1>4, <2>2, <2>3 DEF WalletRight
    <2> QED  BY <1>2, <1>3, <1>4, <1>9, <2>2, <2>4 DEF v
  <1>10. CASE ~Contains(w.contracts, addr)
    <2>1. v = [x EXCEPT !.watch = watch]
      BY <1>6, <1>8, <1>10
    <2> HIDE DEF contracts, watch
    <2>2. v = [keys |-> w.keys, contracts |-> w.contracts, tokens |-> w.tokens,
               watch |-> watch, coins |-> coins, height |-> w.height,
               handlers |-> w.handlers, loops |-> w.loops, starts |-> w.starts]
      BY <1>8, <2>1
    <2>3. IsWallet(v)
      BY <2>2 DEF IsWallet
    <2>4. WalletRight(v, some, made, onChain, top)
      BY <1>1, <1>3, <1>5, <2>2, <2>3 DEF WalletRight
    <2>5. ToSet(w.contracts) = ToSet(w.contracts) \ {addr}
      BY <1>2, <1>10
    <2> QED  BY <1>2, <1>3, <1>5, <1>10, <2>2, <2>4, <2>5 DEF v
  <1> QED  BY <1>9, <1>10

\* What was spent of the coins of the other addresses is still marked.
LEMMA SendsLeft ==
    ASSUME IsSequence(sends), SpendsOnce, NEW coins, NEW past, AllMarked(sends, coins, OnChain, past),
           NEW addr, NEW left, DOMAIN left \subseteq DOMAIN coins,
           \A r \in DOMAIN coins : Output(r).to # addr => r \in DOMAIN left,
           \A r \in DOMAIN left : left[r] = coins[r],
           sends' = SendsWithout(addr)
    PROVE  IsSequence(sends') /\ SpendsOnce' /\ AllMarked(sends', left, OnChain, past)
  <1> DEFINE kept(refs) == {r \in refs : Output(r).to # addr}
             new == SendsWithout(addr)
  <1>1. new = [i \in DOMAIN sends |-> [ins |-> kept(sends[i].ins), claims |-> kept(sends[i].claims)]]
    BY DEF SendsWithout
  <1>2. Len(sends) \in Nat /\ DOMAIN sends = 1 .. Len(sends)
    BY SequenceIs
  <1> HIDE DEF new
  <1>3. /\ DOMAIN new = DOMAIN sends
        /\ \A i \in DOMAIN sends : /\ new[i].ins = kept(sends[i].ins)
                                   /\ new[i].claims = kept(sends[i].claims)
    BY <1>1
  <1>4. IsSequence(new)
    <2>1. new = [i \in 1 .. Len(sends) |-> new[i]]
      BY <1>1, <1>2, <1>3
    <2> QED  BY <1>2, <2>1, IsASequence
  <1>5. SpendsOnce'
    <2> SUFFICES ASSUME NEW i \in DOMAIN sends', NEW j \in DOMAIN sends', i # j
                 PROVE  /\ sends'[i].ins \cap sends'[j].ins = {}
                        /\ sends'[i].claims \cap sends'[j].claims = {}
      BY DEF SpendsOnce
    <2>1. /\ i \in DOMAIN sends /\ j \in DOMAIN sends
          /\ sends'[i].ins = kept(sends[i].ins) /\ sends'[j].ins = kept(sends[j].ins)
          /\ sends'[i].claims = kept(sends[i].claims) /\ sends'[j].claims = kept(sends[j].claims)
      BY <1>3 DEF new
    <2>2. /\ sends[i].ins \cap sends[j].ins = {} /\ sends[i].claims \cap sends[j].claims = {}
      BY <2>1 DEF SpendsOnce
    <2> QED  BY <2>1, <2>2
  <1>6. ASSUME NEW refs, NEW flag, Marks(refs, flag, coins, OnChain, past)
        PROVE  Marks(kept(refs), flag, left, OnChain, past)
    BY <1>6 DEF Marks
  <1>7. AllMarked(new, left, OnChain, past)
    <2> SUFFICES ASSUME NEW i \in DOMAIN sends
                 PROVE  /\ Marks(new[i].ins, "spent", left, OnChain, past)
                        /\ Marks(new[i].claims, "claimed", left, OnChain, past)
      BY <1>3 DEF AllMarked
    <2>1. /\ Marks(sends[i].ins, "spent", coins, OnChain, past)
          /\ Marks(sends[i].claims, "claimed", coins, OnChain, past)
      BY DEF AllMarked
    <2> HIDE DEF kept
    <2> QED  BY <1>3, <1>6, <2>1
  <1> QED  BY <1>4, <1>5, <1>7 DEF new

LEMMA DeleteWalletAddressIs ==
    ASSUME WalletInvariant, NEW addr, DeleteWalletAddress(addr)
    PROVE  WalletInvariant'
  <1> DEFINE gone == CoinsOf(addr)
             writes == DeleteAddressWrites(rows, addr, gone)
             w == DeleteAddress(wallet, addr, gone)
             saved == After(rows, writes)
  <1>1. /\ wallet # Null
        /\ \/ Edit(w, writes) /\ sends' = SendsWithout(addr) /\ doubled' = doubled
           \/ StopInEdit(writes)
    BY DEF DeleteWalletAddress, late
  <1>2. /\ FileRight(rows, Made, OnChain, Height)
        /\ WalletRight(wallet, doubled, Made, OnChain, Height)
        /\ AllMarked(sends, wallet.coins, OnChain, Past(wallet))
        /\ Follows(wallet, rows, txs, doubled)
        /\ IsSequence(sends) /\ SpendsOnce
    BY <1>1, InvariantIs
  <1>3. /\ IsSequence(writes) /\ AllRight(rows, writes, Made, OnChain, Height)
        /\ saved.tokens = rows.tokens /\ saved.accounts = rows.accounts
        /\ ToSet(saved.contracts) = ToSet(rows.contracts) \ {addr}
        /\ LoadWatchOnly(saved) = LoadWatchOnly(rows) \ {addr}
        /\ DOMAIN saved.coins = DOMAIN rows.coins \ gone
        /\ \A r \in DOMAIN saved.coins : saved.coins[r] = rows.coins[r]
    <2> HIDE DEF gone
    <2> QED  BY <1>2, DeleteAddressSaved
  <1>4. /\ WalletRight(w, doubled, Made, OnChain, Height)
        /\ w.keys = wallet.keys /\ w.tokens = wallet.tokens
        /\ w.height = wallet.height /\ w.handlers = wallet.handlers
        /\ ToSet(w.contracts) = ToSet(wallet.contracts) \ {addr}
        /\ ToSet(w.watch) \ doubled
           = IF addr \in ToSet(wallet.contracts) THEN ToSet(wallet.watch) \ doubled
             ELSE (ToSet(wallet.watch) \ {addr}) \ doubled
        /\ DOMAIN w.coins = DOMAIN wallet.coins \ gone
        /\ \A r \in DOMAIN w.coins : w.coins[r] = wallet.coins[r]
    <2> HIDE DEF gone
    <2> QED  BY <1>2, AddressDeleted
  <1>5. \A r : r \in gone <=> r \in DOMAIN wallet.coins /\ Output(r).to = addr
    BY DEF CoinsOf
  <1> HIDE DEF w, writes, gone, saved
  <1>6. CASE StopInEdit(writes)
    BY <1>3, <1>6, StopInEditIs
  <1>7. CASE Edit(w, writes) /\ sends' = SendsWithout(addr) /\ doubled' = doubled
    <2>1. addr \in ToSet(wallet.contracts) => addr \notin LoadWatchOnly(rows)
      BY <1>2 DEF Follows, FileRight, AddressesRight, LoadWatchOnly
    <2>2. ToSet(w.watch) \ doubled = LoadWatchOnly(saved) \ doubled
      <3>1. ToSet(wallet.watch) \ doubled = LoadWatchOnly(rows) \ doubled
        BY <1>2 DEF Follows
      <3>2. CASE addr \in ToSet(wallet.contracts)
        <4>1. ToSet(w.watch) \ doubled = ToSet(wallet.watch) \ doubled
          BY <1>4, <3>2
        <4> QED  BY <1>3, <2>1, <3>1, <3>2, <4>1
      <3>3. CASE addr \notin ToSet(wallet.contracts)
        <4>1. ToSet(w.watch) \ doubled = (ToSet(wallet.watch) \ {addr}) \ doubled
          BY <1>4, <3>3
        <4> QED  BY <1>3, <3>1, <4>1
      <3> QED  BY <3>2, <3>3
    <2>3. Agree(w.coins, saved.coins, txs, doubled)
      <3>1. Agree(wallet.coins, rows.coins, txs, doubled)
        BY <1>2 DEF Follows
      <3> QED  BY <1>3, <1>4, <3>1 DEF Agree
    <2>4. Follows(w, saved, txs, doubled)
      BY <1>2, <1>3, <1>4, <2>2, <2>3 DEF Follows
    <2>5. /\ IsSequence(sends') /\ SpendsOnce'
          /\ AllMarked(sends', w.coins, OnChain, Past(wallet))
      <3>1. /\ DOMAIN w.coins \subseteq DOMAIN wallet.coins
            /\ \A r \in DOMAIN wallet.coins : Output(r).to # addr => r \in DOMAIN w.coins
        BY <1>4, <1>5
      <3> QED  BY <1>2, <1>4, <1>7, <3>1, SendsLeft
    <2> QED  BY <1>1, <1>3, <1>4, <1>7, <2>4, <2>5, EditIs DEF saved
  <1> QED  BY <1>1, <1>6, <1>7

\* A step that only changes the tokens.
LEMMA TokensChanged ==
    ASSUME WalletInvariant, wallet # Null, NEW tokens, NEW w, NEW writes, Edit(w, writes),
           UNCHANGED <<sends, doubled>>, w = [wallet EXCEPT !.tokens = tokens],
           IsSequence(writes), AllRight(rows, writes, Made, OnChain, Height),
           After(rows, writes).coins = rows.coins, After(rows, writes).tokens = tokens,
           After(rows, writes).accounts = rows.accounts,
           After(rows, writes).contracts = rows.contracts,
           LoadWatchOnly(After(rows, writes)) = LoadWatchOnly(rows)
    PROVE  WalletInvariant'
  <1>1. /\ WalletRight(wallet, doubled, Made, OnChain, Height)
        /\ AllMarked(sends, wallet.coins, OnChain, Past(wallet))
        /\ Follows(wallet, rows, txs, doubled)
        /\ IsSequence(sends) /\ SpendsOnce
    BY InvariantIs
  <1>2. IsWallet(wallet)
    BY <1>1 DEF WalletRight
  <1>3. w = [keys |-> wallet.keys, contracts |-> wallet.contracts, tokens |-> tokens,
             watch |-> wallet.watch, coins |-> wallet.coins, height |-> wallet.height,
             handlers |-> wallet.handlers, loops |-> wallet.loops, starts |-> wallet.starts]
    BY <1>2 DEF IsWallet
  <1>4. WalletRight(w, doubled', Made, OnChain, Height)
    <2>1. IsWallet(w)
      BY <1>3 DEF IsWallet
    <2> QED  BY <1>1, <1>3, <2>1 DEF WalletRight
  <1>5. Follows(w, After(rows, writes), txs, doubled')
    BY <1>1, <1>3 DEF Follows
  <1>6. /\ IsSequence(sends') /\ SpendsOnce'
        /\ AllMarked(sends', w.coins, OnChain, Past(wallet))
    BY <1>1, <1>3 DEF SpendsOnce
  <1>7. w.height = wallet.height /\ w.handlers = wallet.handlers
    BY <1>3
  <1> QED  BY <1>4, <1>5, <1>6, <1>7, EditIs

LEMMA ImportTokenIs ==
    ASSUME WalletInvariant, NEW token, ImportToken(token)
    PROVE  WalletInvariant'
  <1> DEFINE writes == AddNEP5TokenWrites(rows, token)
             w == AddNEP5Token(wallet, token)
  <1>1. /\ wallet # Null
        /\ \/ Edit(w, writes) /\ UNCHANGED <<sends, doubled>>
           \/ StopInEdit(writes)
    BY DEF ImportToken, late
  <1>2. FileRight(rows, Made, OnChain, Height) /\ wallet.tokens = rows.tokens
    BY <1>1, InvariantIs DEF Follows
  <1>3. /\ IsSequence(writes) /\ AllRight(rows, writes, Made, OnChain, Height)
        /\ After(rows, writes).coins = rows.coins
        /\ After(rows, writes).tokens = rows.tokens \cup {token}
        /\ After(rows, writes).accounts = rows.accounts
        /\ After(rows, writes).contracts = rows.contracts
        /\ LoadWatchOnly(After(rows, writes)) = LoadWatchOnly(rows)
    BY <1>2, TokensSaved
  <1>4. w = [wallet EXCEPT !.tokens = rows.tokens \cup {token}]
    BY <1>2 DEF AddNEP5Token
  <1> HIDE DEF writes, w
  <1>5. CASE StopInEdit(writes)
    BY <1>3, <1>5, StopInEditIs
  <1>6. CASE Edit(w, writes) /\ UNCHANGED <<sends, doubled>>
    BY <1>1, <1>3, <1>4, <1>6, TokensChanged
  <1> QED  BY <1>1, <1>5, <1>6

LEMMA DeleteTokenIs ==
    ASSUME WalletInvariant, NEW token, DeleteToken(token)
    PROVE  WalletInvariant'
  <1> DEFINE writes == DeleteNEP5TokenWrites(rows, token)
             w == DeleteNEP5Token(wallet, token)
  <1>1. /\ wallet # Null /\ token \in rows.tokens
        /\ Edit(w, writes) /\ UNCHANGED <<sends, doubled>>
    BY DEF DeleteToken, late
  <1>2. FileRight(rows, Made, OnChain, Height) /\ wallet.tokens = rows.tokens
    BY <1>1, InvariantIs DEF Follows
  <1>3. /\ IsSequence(writes) /\ AllRight(rows, writes, Made, OnChain, Height)
        /\ After(rows, writes).coins = rows.coins
        /\ After(rows, writes).tokens = rows.tokens \ {token}
        /\ After(rows, writes).accounts = rows.accounts
        /\ After(rows, writes).contracts = rows.contracts
        /\ LoadWatchOnly(After(rows, writes)) = LoadWatchOnly(rows)
    BY <1>1, <1>2, TokensSaved
  <1>4. w = [wallet EXCEPT !.tokens = rows.tokens \ {token}]
    BY <1>2 DEF DeleteNEP5Token
  <1> HIDE DEF writes, w
  <1> QED  BY <1>1, <1>3, <1>4, TokensChanged

LEMMA EditStepIs ==
    ASSUME WalletInvariant, EditStep
    PROVE  WalletInvariant'
  <1>1. CASE \E addr \in Imports.keys : ImportKey(addr)
    BY <1>1, ImportKeyIs
  <1>2. CASE \E addr \in Imports.joints : ImportMultisigAddr(addr)
    BY <1>2, ImportMultisigAddrIs
  <1>3. CASE \E addr \in Imports.watched : ImportWatchAddr(addr)
    BY <1>3, ImportWatchAddrIs
  <1>4. CASE \E addr \in Imports.deleted : DeleteWalletAddress(addr)
    BY <1>4, DeleteWalletAddressIs
  <1>5. CASE \E token \in Imports.tokens : ImportToken(token) \/ DeleteToken(token)
    BY <1>5, ImportTokenIs, DeleteTokenIs
  <1> QED  BY <1>1, <1>2, <1>3, <1>4, <1>5 DEF EditStep

-----------------------------------------------------------------------------
(* The beginning and the next step.                                        *)

LEMMA InitIs == Init => WalletInvariant
  <1> SUFFICES ASSUME Init PROVE WalletInvariant
    OBVIOUS
  <1> DEFINE miner == [kind |-> "miner", ins |-> {}, claims |-> {}, made |-> 0, outs |-> Genesis]
  <1>1. /\ chain = <<{1}>> /\ txs = <<miner>> \o Strangers
        /\ pool = {} /\ cache = {} /\ known = 2 .. Len(Strangers) + 1
        /\ wallet = Null /\ rows = EmptyFile /\ sends = << >> /\ doubled = {}
    BY DEF Init
  <1>2. IsSequence(chain) /\ Len(chain) = 1 /\ chain[1] = {1} /\ DOMAIN chain = {1}
    <2>1. chain = [i \in 1 .. 1 |-> chain[i]] /\ chain[1] = {1}
      BY <1>1
    <2>2. IsSequence(chain) /\ Len(chain) = 1
      BY <2>1, IsASequence
    <2> QED  BY <2>1, <2>2, SequenceIs
  <1>3. IsSequence(txs) /\ Len(txs) = 1 + Len(Strangers) /\ txs[1] = miner /\ Len(Strangers) \in Nat
    <2> DEFINE one == <<miner>>
    <2> HIDE DEF miner
    <2>1. one = [i \in 1 .. 1 |-> one[i]] /\ one[1] = miner
      OBVIOUS
    <2> HIDE DEF one
    <2>2. IsSequence(one) /\ Len(one) = 1
      BY <2>1, IsASequence
    <2>3. IsSequence(Strangers)
      BY WalletAssumption DEF IsSequence
    <2>4. /\ IsSequence(one \o Strangers) /\ Len(one \o Strangers) = Len(one) + Len(Strangers)
          /\ \A i \in 1 .. Len(one) : (one \o Strangers)[i] = one[i]
      BY <2>2, <2>3, ConcatIs
    <2>5. Len(Strangers) \in Nat /\ 1 \in 1 .. Len(one)
      BY <2>2, <2>3, SequenceIs
    <2> QED  BY <1>1, <2>1, <2>2, <2>4, <2>5 DEF one
  <1>4. DOMAIN txs = 1 .. Len(Strangers) + 1
    <2>1. Len(txs) = Len(Strangers) + 1
      BY <1>3
    <2> QED  BY <1>3, <2>1, SequenceIs
  <1>5. OnChain = {1} /\ Height = 0
    <2>1. Below(1) = {1}
      <3>1. \A i : i \in 1 .. 1 <=> i = 1
        OBVIOUS
      <3> QED  BY <1>2, <3>1 DEF Below
    <2> QED  BY <1>2, <2>1 DEF OnChain, Height
  <1>6. ChainInvariant
    <2>1. known \subseteq DOMAIN txs /\ OnChain \subseteq DOMAIN txs
      BY <1>1, <1>3, <1>4, <1>5
    <2>2. \A t \in chain[1] : txs[t].ins = {} /\ txs[t].claims = {}
      BY <1>2, <1>3
    <2> QED  BY <1>2, <1>3, <2>1, <2>2 DEF ChainInvariant
  <1>7. FileRight(rows, Made, OnChain, Height)
    <2> DEFINE addresses == [a \in {Own, Watched} |-> a # Own]
               contracts == <<Own>>
               coins == << >>
    <2>1. rows = [coins |-> coins, height |-> 0, tokens |-> {}, accounts |-> {Own},
                  contracts |-> contracts, addresses |-> addresses]
      BY <1>1 DEF EmptyFile
    <2>2. contracts = [i \in 1 .. 1 |-> contracts[i]] /\ contracts[1] = Own
      OBVIOUS
    <2>3. /\ DOMAIN addresses = {Own, Watched} /\ addresses = [a \in DOMAIN addresses |-> addresses[a]]
          /\ \A a \in DOMAIN addresses : addresses[a] \in BOOLEAN
          /\ ~addresses[Own]
      OBVIOUS
    <2> HIDE DEF contracts, addresses
    <2>4. IsSequence(contracts) /\ Len(contracts) = 1
      BY <2>2, IsASequence
    <2>5. DOMAIN contracts = 1 .. 1
      BY <2>4, SequenceIs
    <2>6. ToSet(contracts) = {Own} /\ Unrepeated(contracts, {})
      <3>1. DOMAIN contracts = {1} /\ contracts[1] = Own
        BY <2>2, <2>5
      <3>2. ToSet(contracts) = {Own}
        BY <3>1 DEF ToSet
      <3>3. Unrepeated(contracts, {})
        BY <3>1 DEF Unrepeated
      <3> QED  BY <3>2, <3>3
    <2>7. IsFiniteSet({Own, Watched})
      <3>1. IsFiniteSet({Own})
        BY FS_Singleton
      <3>2. {Own, Watched} = {Own} \cup {Watched}
        OBVIOUS
      <3> QED  BY <3>1, <3>2, FS_AddElement
    <2>8. AddressesRight(contracts, addresses)
      BY <2>3, <2>4, <2>6, <2>7 DEF AddressesRight
    <2>9. CoinsRight(coins, Made, OnChain)
      <3>1. DOMAIN coins = {}
        OBVIOUS
      <3>2. coins = [r \in DOMAIN coins |-> coins[r]]
        OBVIOUS
      <3> QED  BY <3>1, <3>2, FS_EmptySet DEF CoinsRight
    <2> HIDE DEF coins
    <2>10. IsFile(rows)
      BY <2>1 DEF IsFile
    <2> QED  BY <1>5, <2>1, <2>8, <2>9, <2>10 DEF FileRight
  <1>8. IsSequence(sends) /\ SpendsOnce
    <2>1. IsSequence(sends) /\ DOMAIN sends = {}
      BY <1>1, EmptyIsSequence
    <2> QED  BY <2>1 DEF SpendsOnce
  <1>9. OffersUnconfirmed
    BY <1>1 DEF OffersUnconfirmed
  <1>10. RowsFollow
    BY <1>1 DEF RowsFollow
  <1> QED  BY <1>1, <1>6, <1>7, <1>8, <1>9, <1>10 DEF WalletInvariant

LEMMA NextIs == WalletInvariant /\ [Next]_vars => WalletInvariant'
  <1> SUFFICES ASSUME WalletInvariant, [Next]_vars PROVE WalletInvariant'
    OBVIOUS
  <1>1. CASE UserStep
    <2>1. CASE OpenWallet
      BY <2>1, OpenWalletIs
    <2>2. CASE CloseWallet
      BY <2>2, CloseWalletIs
    <2>3. CASE RebuildWallet
      BY <2>3, RebuildWalletIs
    <2>4. CASE EditStep
      BY <2>4, EditStepIs
    <2>5. CASE \E asset \in {Share, Gas}, amount \in Amounts, fee \in Fees : Send(asset, amount, fee)
      BY <2>5, SendIs
    <2>6. CASE \E r \in Refs(OnChain), fee \in Fees : Split(r, 2, fee)
      BY <2>6, SplitIs
    <2>7. CASE ClaimGas
      BY <2>7, ClaimGasIs
    <2> QED  BY <1>1, <2>1, <2>2, <2>3, <2>4, <2>5, <2>6, <2>7 DEF UserStep
  <1>2. CASE SyncStep
    BY <1>2, StartSyncIs, ContinueSyncIs DEF SyncStep
  <1>3. CASE BlockStep
    BY <1>3, PersistBlockIs DEF BlockStep
  <1>4. CASE StopStep
    BY <1>4, StopIs, StopInSyncIs, StopInRebuildIs, StopInBlockIs DEF StopStep
  <1>5. CASE UNCHANGED vars
    <2>1. /\ UNCHANGED <<chain, txs, pool, cache, known, rows, sends, doubled>>
          /\ wallet' = wallet
      BY <1>5 DEF vars
    <2>2. wallet # Null => WalletRight(wallet, doubled, Made, OnChain, Height)
      BY InvariantIs
    <2> QED  BY <2>1, <2>2, TasksChanged DEF WalletRight
  <1> QED  BY <1>1, <1>2, <1>3, <1>4, <1>5 DEF Next

-----------------------------------------------------------------------------
(* What a share earns.                                                     *)

\* What a block generates for a share, by its interval.
Gain(u) == IF u < Len(Generation) THEN Generation[u + 1] ELSE 0

\* The bonus is what the blocks between generated.
LEMMA BonusIs ==
    ASSUME NEW start \in Nat, NEW end \in Nat, start < end, HasBonus(start, end)
    PROVE  BonusOf(start, end) =
             SumFunctionOnSet([h \in start .. end - 1 |-> Gain(h \div Interval)], start .. end - 1)
  <1> DEFINE L == Len(Generation)
             g == [u \in Nat |-> Gain(u)]
             first == start \div Interval
             from == BeforeStart(Interval, start)
             each == ByInterval(Interval, g)
             whole == Weighted(Interval, g, start)
             q == end \div Interval
             m == end % Interval
             generated == SumFunctionOnSet(each, start .. end - 1)
             Wholes(k) == SumFunctionOnSet(whole, first .. k - 1)
  <1>1. /\ Interval \in Nat \ {0} /\ L \in Nat
        /\ \A k \in 1 .. L : Generation[k] \in Nat
    BY WalletAssumption, LenProperties
  <1>2. /\ first \in Nat /\ start % Interval \in 0 .. Interval - 1
        /\ start = first * Interval + (start % Interval)
    BY <1>1, Division
  <1>3. /\ q \in Nat /\ m \in 0 .. Interval - 1 /\ end = q * Interval + m
    BY <1>1, Division
  <1>4. \A u \in Nat : Gain(u) \in Int
    <2> SUFFICES ASSUME NEW u \in Nat PROVE Gain(u) \in Int
      OBVIOUS
    <2>1. CASE u < L
      BY <1>1, <2>1 DEF Gain
    <2>2. CASE ~ (u < L)
      BY <2>2 DEF Gain
    <2> QED  BY <2>1, <2>2
  <1>5. g \in [Nat -> Int] /\ \A u \in Nat : g[u] \in Int /\ g[u] = Gain(u)
    BY <1>4
  <1> HIDE DEF g
  <1>6. \A u \in Nat : from[u] = IF u = first THEN start % Interval ELSE 0
    BY DEF BeforeStart
  <1>7. /\ \A h \in Nat : each[h] = g[h \div Interval]
        /\ \A u \in Nat : whole[u] = (Interval - from[u]) * g[u]
    BY DEF ByInterval, Weighted
  <1>8. first <= q /\ generated = Wholes(q) + (m - from[q]) * g[q]
    <2>1. start <= end
      OBVIOUS
    <2> QED  BY <1>1, <1>5, <2>1, SumByInterval
  <1> HIDE DEF from, each, whole
  <1>9. generated = SumFunctionOnSet([h \in start .. end - 1 |-> Gain(h \div Interval)], start .. end - 1)
    <2>1. ASSUME NEW h \in start .. end - 1
          PROVE  each[h] = [k \in start .. end - 1 |-> Gain(k \div Interval)][h]
      <3>1. h \in Nat /\ h \div Interval \in Nat
        <4>1. h \in Nat
          OBVIOUS
        <4> QED  BY <1>1, <4>1, Division
      <3> QED  BY <1>5, <1>7, <3>1
    <2>2. IsFiniteSet(start .. end - 1)
      BY FS_Interval
    <2> QED  BY <2>1, <2>2, SumSame
  <1>10. CASE first >= L
    <2>1. BonusOf(start, end) = 0
      BY <1>10 DEF BonusOf
    <2>2. \A u \in Nat : first <= u => g[u] = 0
      BY <1>1, <1>2, <1>5, <1>10 DEF Gain
    <2>3. (m - from[q]) * g[q] = 0
      <3>1. from[q] \in Int /\ g[q] = 0 /\ m \in Int
        BY <1>2, <1>3, <1>6, <1>8, <2>2
      <3> QED  BY <3>1
    <2>4. Wholes(q) = 0
      <3>1. ASSUME NEW u \in first .. q - 1 PROVE whole[u] = 0
        <4>1. u \in Nat /\ first <= u
          BY <1>2, <1>3
        <4>2. from[u] \in Int
          BY <1>2, <1>6, <4>1
        <4>3. whole[u] = (Interval - from[u]) * 0
          BY <1>7, <2>2, <4>1
        <4> QED  BY <1>1, <4>2, <4>3
      <3>2. IsFiniteSet(first .. q - 1)
        BY <1>2, <1>3, FS_Interval
      <3> QED  BY <3>1, <3>2, SumZero
    <2> QED  BY <1>8, <1>9, <2>1, <2>3, <2>4
  <1>11. CASE first < L
    <2> DEFINE all == end \div Interval >= Len(Generation) \/ end % Interval = 0
               uend == IF all THEN (end \div Interval) - 1 ELSE end \div Interval
               iend == IF all THEN Interval ELSE end % Interval
               at == IF first < uend THEN uend ELSE first
               Begin(u) == IF u = first THEN start % Interval ELSE 0
               wholes == [u \in first .. uend - 1 |-> (Interval - Begin(u)) * Generation[u + 1]]
    <2>1. BonusOf(start, end) = SumFunctionOnSet(wholes, first .. uend - 1)
                                + (iend - Begin(at)) * Generation[at + 1]
      BY <1>1, <1>2, <1>11 DEF BonusOf
    <2>2. q <= L
      BY <1>1, <1>2, <1>11 DEF HasBonus
    <2>3. q = first => m > start % Interval
      <3> SUFFICES ASSUME q = first PROVE m > start % Interval
        OBVIOUS
      <3> DEFINE part == start % Interval
                 more == first * Interval
      <3>1. part \in Int /\ m \in Int /\ more \in Int /\ start = more + part
        BY <1>1, <1>2, <1>3
      <3> HIDE DEF q, m, first, part
      <3>2. end = more + m
        BY <1>3
      <3> HIDE DEF more
      <3>3. m > part
        BY <3>1, <3>2
      <3> QED  BY <3>3 DEF part
    <2>4. /\ from[q] \in Int /\ g[q] \in Int
          /\ q = L => g[q] = 0
      <3>1. from[q] \in Int
        BY <1>2, <1>3, <1>6
      <3>2. g[q] \in Int /\ g[q] = Gain(q) /\ q \in Nat
        BY <1>3, <1>5
      <3>3. q = L => g[q] = 0
        <4> HIDE DEF q
        <4> QED  BY <1>1, <3>2 DEF Gain
      <3> QED  BY <3>1, <3>2, <3>3
    <2>5. \A u \in Nat : u < L => g[u] = Generation[u + 1] /\ g[u] \in Int /\ from[u] \in Int
      BY <1>1, <1>2, <1>5, <1>6 DEF Gain
    <2>6. uend < L /\ uend \in Nat /\ first <= uend /\ at = uend
      <3> HIDE DEF first, q, m, L
      <3>1. CASE all
        <4>1. uend = q - 1
          BY <3>1 DEF q, m, L
        <4>2. first # q
          <5> SUFFICES ASSUME first = q PROVE FALSE
            OBVIOUS
          <5>1. m = 0
            BY <1>11, <2>2, <3>1 DEF q, m, L
          <5> QED  BY <1>2, <2>3, <5>1
        <4> QED  BY <1>1, <1>2, <1>3, <1>8, <2>2, <4>1, <4>2
      <3>2. CASE ~ all
        <4>1. uend = q /\ q < L
          BY <1>1, <1>3, <3>2 DEF q, m, L
        <4> QED  BY <1>2, <1>3, <1>8, <4>1
      <3> QED  BY <3>1, <3>2
    <2>7. SumFunctionOnSet(wholes, first .. uend - 1) = Wholes(uend)
      <3>1. ASSUME NEW u \in first .. uend - 1 PROVE wholes[u] = whole[u]
        <4>1. u \in Nat /\ u < L
          <5> HIDE DEF first, uend, L
          <5> QED  BY <1>1, <1>2, <2>6
        <4>2. wholes[u] = (Interval - Begin(u)) * Generation[u + 1]
          OBVIOUS
        <4>3. Begin(u) = from[u] /\ Generation[u + 1] = g[u]
          BY <1>6, <2>5, <4>1
        <4> QED  BY <1>7, <4>1, <4>2, <4>3
      <3>2. IsFiniteSet(first .. uend - 1)
        <4> HIDE DEF first, uend
        <4> QED  BY <1>2, <2>6, FS_Interval
      <3> HIDE DEF wholes, uend, first
      <3> QED  BY <3>1, <3>2, SumSame
    <2>8. BonusOf(start, end) = Wholes(uend) + (iend - from[uend]) * g[uend]
      <3>1. Begin(at) = from[uend] /\ Generation[at + 1] = g[uend]
        BY <1>6, <2>5, <2>6
      <3> HIDE DEF wholes, uend, iend, at, Begin
      <3> QED  BY <2>1, <2>7, <3>1
    <2>9. Wholes(uend) \in Int
      <3>1. ASSUME NEW u \in first .. uend - 1 PROVE whole[u] \in Int
        <4>1. u \in Nat /\ u < L
          <5> HIDE DEF first, uend, L
          <5> QED  BY <1>1, <1>2, <2>6
        <4>2. from[u] \in Int /\ g[u] \in Int /\ whole[u] = (Interval - from[u]) * g[u]
          BY <1>7, <2>5, <4>1
        <4> QED  BY <1>1, <4>2
      <3>2. IsFiniteSet(first .. uend - 1)
        <4> HIDE DEF first, uend
        <4> QED  BY <1>2, <2>6, FS_Interval
      <3> HIDE DEF uend, first
      <3> QED  BY <3>1, <3>2, SumIsInt
    <2> HIDE DEF first, q, m, L, Wholes, generated, Begin, at, wholes
    <2>10. CASE all
      <3>1. uend = q - 1 /\ iend = Interval
        BY <2>10 DEF q, m, L
      <3>2. Wholes(q) = Wholes(q - 1) + whole[q - 1]
        <4>1. \A u \in first .. q - 1 : whole[u] \in Int
          <5>1. ASSUME NEW u \in first .. q - 1 PROVE whole[u] \in Int
            <6>1. u \in Nat /\ u < L
              BY <1>2, <1>3, <2>2, <1>1 DEF L
            <6>2. from[u] \in Int /\ g[u] \in Int /\ whole[u] = (Interval - from[u]) * g[u]
              BY <1>7, <2>5, <6>1
            <6> QED  BY <1>1, <6>2
          <5> QED  BY <5>1
        <4>2. first \in Int /\ q - 1 \in Int /\ first <= q - 1
          BY <1>2, <1>3, <2>6, <3>1
        <4> QED  BY <4>1, <4>2, SumLast DEF Wholes
      <3>3. whole[q - 1] = (Interval - from[q - 1]) * g[q - 1]
        BY <1>7, <2>6, <3>1
      <3>4. BonusOf(start, end) = Wholes(q)
        BY <2>8, <3>1, <3>2, <3>3
      <3>5. (m - from[q]) * g[q] = 0
        <4>1. from[q] = 0
          BY <1>2, <1>3, <1>6, <2>6, <3>1
        <4>2. CASE q = L
          BY <1>3, <2>4, <4>1, <4>2
        <4>3. CASE q # L
          <5>1. m = 0
            BY <1>1, <1>3, <2>2, <2>10, <4>3 DEF q, m, L
          <5>2. m - from[q] = 0 /\ g[q] \in Int
            BY <2>4, <4>1, <5>1
          <5> QED  BY <5>2
        <4> QED  BY <4>2, <4>3
      <3>6. Wholes(q) \in Int
        <4>1. whole[q - 1] \in Int
          BY <1>1, <2>5, <2>6, <3>1, <3>3
        <4>2. Wholes(q - 1) \in Int
          BY <2>9, <3>1
        <4> HIDE DEF uend
        <4> QED  BY <3>2, <4>1, <4>2
      <3> QED  BY <1>8, <1>9, <3>4, <3>5, <3>6
    <2>11. CASE ~ all
      <3>1. uend = q /\ iend = m
        BY <2>11 DEF q, m, L
      <3> QED  BY <1>8, <1>9, <2>8, <3>1
    <2> QED  BY <2>10, <2>11
  <1>12. first \in Nat /\ L \in Nat
    BY <1>1, <1>2
  <1> HIDE DEF first, L
  <1> QED  BY <1>10, <1>11, <1>12

-----------------------------------------------------------------------------
(* Money.                                                                  *)

ValuesRight(outs) == IsSequence(outs) /\ \A i \in DOMAIN outs : outs[i].value \in Int

\* What a block spends are outputs that were made and that no other block spends.
SpendsRight ==
    /\ \A i \in DOMAIN chain : SpentBy(chain[i]) \subseteq Made
    /\ \A i, j \in DOMAIN chain : i # j => SpentBy(chain[i]) \cap SpentBy(chain[j]) = {}

\* What NothingCreated says of a transaction, and that it takes coins there are.
Balanced(t) ==
    /\ t.kind = "contract" =>
          /\ t.ins \subseteq Made /\ IsFiniteSet(t.ins)
          /\ \A of \in {t.outs[i].asset : i \in DOMAIN t.outs} :
                Paid(t.outs, of) <= Total({r \in t.ins : Output(r).asset = of})
          /\ Total(t.ins) - PaidInAll(t.outs) \in Fees
    /\ t.kind = "claim" =>
          /\ t.claims \subseteq SpentBy(OnChain) /\ IsFiniteSet(t.claims)
          /\ \A i \in DOMAIN t.outs : t.outs[i].asset = Gas
          /\ PaidInAll(t.outs) =
                SumFunctionOnSet([r \in t.claims |-> Output(r).value * Generated(r)], t.claims)

MoneyRight ==
    /\ \A t \in Range(txs) : ValuesRight(t.outs) /\ Balanced(t)
    /\ SpendsRight

LEMMA ValueIs ==
    ASSUME MoneyRight, NEW r \in Made
    PROVE  Output(r).value \in Int
  <1>1. r[1] \in DOMAIN txs /\ r[2] \in DOMAIN txs[r[1]].outs
    BY DEF Made, Refs
  <1>2. txs[r[1]] \in Range(txs)
    BY <1>1 DEF Range
  <1> QED  BY <1>1, <1>2 DEF MoneyRight, ValuesRight, Output

LEMMA TotalIs ==
    ASSUME MoneyRight, NEW refs, refs \subseteq Made, IsFiniteSet(refs)
    PROVE  Total(refs) \in Int
  <1> DEFINE f == [r \in refs |-> Output(r).value]
  <1>1. \A r \in refs : f[r] \in Int
    BY ValueIs
  <1> HIDE DEF f
  <1>2. SumFunctionOnSet(f, refs) \in Int
    BY <1>1, SumIsInt
  <1> QED  BY <1>2 DEF Total, f

LEMMA TotalOfNone == Total({}) = 0
  BY SumEmpty DEF Total

LEMMA TotalOfOne ==
    ASSUME MoneyRight, NEW r \in Made
    PROVE  Total({r}) = Output(r).value
  <1> DEFINE f == [q \in {r} |-> Output(q).value]
             value == Output(r).value
  <1>1. f[r] = value /\ value \in Int
    BY ValueIs
  <1>2. IsFiniteSet({}) /\ r \notin {} /\ {} \cup {r} = {r} /\ \A q \in {} \cup {r} : f[q] \in Int
    BY <1>1, FS_EmptySet
  <1> HIDE DEF f, value
  <1>3. SumFunctionOnSet(f, {} \cup {r}) = f[r] + SumFunctionOnSet(f, {})
    BY <1>2, SumAddMember
  <1>4. SumFunctionOnSet(f, {r}) = value
    BY <1>1, <1>2, <1>3, SumEmpty
  <1> QED  BY <1>4 DEF Total, f, value

LEMMA TotalOfTwo ==
    ASSUME MoneyRight, NEW A, NEW B, A \subseteq Made, B \subseteq Made,
           IsFiniteSet(A), IsFiniteSet(B), A \cap B = {}
    PROVE  Total(A \cup B) = Total(A) + Total(B)
  <1> DEFINE f == [r \in A \cup B |-> Output(r).value]
             fa == [r \in A |-> Output(r).value]
             fb == [r \in B |-> Output(r).value]
  <1>1. \A r \in A \cup B : f[r] \in Int
    BY ValueIs
  <1>2. (\A r \in A : f[r] = fa[r]) /\ (\A r \in B : f[r] = fb[r])
    OBVIOUS
  <1> HIDE DEF f, fa, fb
  <1>3. SumFunctionOnSet(f, A \cup B) = SumFunctionOnSet(f, A) + SumFunctionOnSet(f, B)
    BY <1>1, SumUnion
  <1>4. SumFunctionOnSet(f, A) = SumFunctionOnSet(fa, A)
    BY <1>2, SumSame
  <1>5. SumFunctionOnSet(f, B) = SumFunctionOnSet(fb, B)
    BY <1>2, SumSame
  <1> QED  BY <1>3, <1>4, <1>5 DEF Total, f, fa, fb

-----------------------------------------------------------------------------
(* What the outputs pay.                                                   *)

ToAsset(outs, of) == [i \in DOMAIN outs |-> IF outs[i].asset = of THEN outs[i].value ELSE 0]
Values(outs) == [i \in DOMAIN outs |-> outs[i].value]

LEMMA PaidIs ==
    ASSUME NEW outs, ValuesRight(outs), NEW of
    PROVE  /\ Paid(outs, of) = SumFunctionOnSet(ToAsset(outs, of), 1 .. Len(outs))
           /\ PaidInAll(outs) = SumFunctionOnSet(Values(outs), 1 .. Len(outs))
           /\ \A i \in 1 .. Len(outs) : Values(outs)[i] \in Int /\ ToAsset(outs, of)[i] \in Int
           /\ Paid(outs, of) \in Int /\ PaidInAll(outs) \in Int
  <1>1. DOMAIN outs = 1 .. Len(outs) /\ Len(outs) \in Nat /\ IsFiniteSet(1 .. Len(outs))
    <2>1. DOMAIN outs = 1 .. Len(outs) /\ Len(outs) \in Nat
      BY SequenceIs DEF ValuesRight
    <2> QED  BY <2>1, FS_Interval
  <1>2. /\ Paid(outs, of) = SumFunctionOnSet(ToAsset(outs, of), DOMAIN outs)
        /\ PaidInAll(outs) = SumFunctionOnSet(Values(outs), DOMAIN outs)
    BY DEF Paid, PaidInAll, ToAsset, Values
  <1>3. \A i \in 1 .. Len(outs) : Values(outs)[i] \in Int /\ ToAsset(outs, of)[i] \in Int
    BY <1>1 DEF Values, ToAsset, ValuesRight
  <1>4. /\ SumFunctionOnSet(ToAsset(outs, of), 1 .. Len(outs)) \in Int
        /\ SumFunctionOnSet(Values(outs), 1 .. Len(outs)) \in Int
    BY <1>1, <1>3, SumIsInt
  <1> QED  BY <1>1, <1>2, <1>3, <1>4

\* No output, and one.
LEMMA PaidByNone ==
    /\ ValuesRight(<< >>) /\ PaidInAll(<< >>) = 0 /\ \A of : Paid(<< >>, of) = 0
  <1>1. IsSequence(<< >>) /\ DOMAIN << >> = {}
    BY EmptyIsSequence
  <1> QED  BY <1>1, SumEmpty DEF ValuesRight, Paid, PaidInAll

LEMMA PaidByOne ==
    ASSUME NEW o, o.value \in Int
    PROVE  /\ ValuesRight(<<o>>) /\ Len(<<o>>) = 1 /\ PaidInAll(<<o>>) = o.value
           /\ \A of : Paid(<<o>>, of) = IF o.asset = of THEN o.value ELSE 0
  <1> DEFINE outs == <<o>>
  <1>1. outs = [i \in 1 .. 1 |-> outs[i]] /\ outs[1] = o
    OBVIOUS
  <1> HIDE DEF outs
  <1>2. IsSequence(outs) /\ Len(outs) = 1
    BY <1>1, IsASequence
  <1>3. DOMAIN outs = 1 .. 1 /\ 1 .. 1 = {1}
    BY <1>2, SequenceIs
  <1>4. ValuesRight(outs)
    BY <1>1, <1>2, <1>3 DEF ValuesRight
  <1>5. ASSUME NEW f, f[1] \in Int PROVE SumFunctionOnSet(f, 1 .. 1) = f[1]
    <2>1. \A x \in 1 .. 1 : f[x] \in Int
      BY <1>3, <1>5
    <2>2. SumFunctionOnSet(f, 1 .. 1) = SumFunctionOnSet(f, 1 .. 1 - 1) + f[1]
      <3>1. 1 \in Int /\ 1 <= 1
        OBVIOUS
      <3> QED  BY <2>1, <3>1, SumLast
    <2>3. 1 .. 1 - 1 = {}
      OBVIOUS
    <2> QED  BY <1>5, <2>2, <2>3, SumEmpty
  <1>6. PaidInAll(outs) = o.value
    <2>1. Values(outs)[1] = o.value
      BY <1>1, <1>3 DEF Values
    <2> QED  BY <1>2, <1>4, <1>5, <2>1, PaidIs
  <1>7. ASSUME NEW of PROVE Paid(outs, of) = IF o.asset = of THEN o.value ELSE 0
    <2>1. ToAsset(outs, of)[1] = IF o.asset = of THEN o.value ELSE 0
      BY <1>1, <1>3 DEF ToAsset
    <2> QED  BY <1>2, <1>4, <1>5, <2>1, PaidIs
  <1> QED  BY <1>2, <1>4, <1>6, <1>7 DEF outs

LEMMA PaidByTwo ==
    ASSUME NEW s, NEW t, ValuesRight(s), ValuesRight(t)
    PROVE  /\ ValuesRight(s \o t) /\ PaidInAll(s \o t) = PaidInAll(s) + PaidInAll(t)
           /\ \A of : Paid(s \o t, of) = Paid(s, of) + Paid(t, of)
  <1> DEFINE u == s \o t
             m == Len(s)
             n == Len(t)
  <1>1. /\ IsSequence(u) /\ Len(u) = m + n
        /\ \A i \in 1 .. m : u[i] = s[i]
        /\ \A i \in 1 .. n : u[m + i] = t[i]
    BY ConcatIs DEF ValuesRight
  <1>2. /\ m \in Nat /\ DOMAIN s = 1 .. m
        /\ n \in Nat /\ DOMAIN t = 1 .. n
    BY SequenceIs DEF ValuesRight
  <1> HIDE DEF u, m, n
  <1>3. DOMAIN u = 1 .. m + n
    BY <1>1, SequenceIs
  <1>4. /\ \A i \in 1 .. m : i \in 1 .. m + n
        /\ \A i \in 1 .. n : m + i \in 1 .. m + n
        /\ \A i \in 1 .. m + n : i \in 1 .. m \/ (i - m \in 1 .. n /\ m + (i - m) = i)
    BY <1>2
  <1>5. ValuesRight(u)
    <2> SUFFICES ASSUME NEW i \in 1 .. m + n PROVE u[i].value \in Int
      BY <1>1, <1>3 DEF ValuesRight
    <2>1. CASE i \in 1 .. m
      BY <1>1, <1>2, <2>1 DEF ValuesRight
    <2>2. CASE i - m \in 1 .. n /\ m + (i - m) = i
      <3>1. u[i] = t[i - m]
        BY <1>1, <2>2
      <3> QED  BY <1>2, <2>2, <3>1 DEF ValuesRight
    <2> QED  BY <1>4, <2>1, <2>2
  <1>6. PaidInAll(u) = PaidInAll(s) + PaidInAll(t)
    <2>1. \A i \in 1 .. m : Values(u)[i] = Values(s)[i] /\ Values(s)[i] \in Int
      <3>1. \A i \in 1 .. m : Values(s)[i] \in Int
        BY PaidIs DEF m
      <3> QED  BY <1>1, <1>2, <1>3, <1>4, <3>1 DEF Values
    <2>2. \A i \in 1 .. n : Values(u)[m + i] = Values(t)[i] /\ Values(t)[i] \in Int
      <3>1. \A i \in 1 .. n : Values(t)[i] \in Int
        BY PaidIs DEF n
      <3> QED  BY <1>1, <1>2, <1>3, <1>4, <3>1 DEF Values
    <2>3. SumFunctionOnSet(Values(u), 1 .. m + n)
            = SumFunctionOnSet(Values(s), 1 .. m) + SumFunctionOnSet(Values(t), 1 .. n)
      BY <1>2, <2>1, <2>2, SumOfTwo
    <2> QED  BY <1>1, <1>5, <2>3, PaidIs DEF m, n
  <1>7. ASSUME NEW of PROVE Paid(u, of) = Paid(s, of) + Paid(t, of)
    <2>1. \A i \in 1 .. m : ToAsset(u, of)[i] = ToAsset(s, of)[i] /\ ToAsset(s, of)[i] \in Int
      <3>1. \A i \in 1 .. m : ToAsset(s, of)[i] \in Int
        BY PaidIs DEF m
      <3> QED  BY <1>1, <1>2, <1>3, <1>4, <3>1 DEF ToAsset
    <2>2. \A i \in 1 .. n : ToAsset(u, of)[m + i] = ToAsset(t, of)[i] /\ ToAsset(t, of)[i] \in Int
      <3>1. \A i \in 1 .. n : ToAsset(t, of)[i] \in Int
        BY PaidIs DEF n
      <3> QED  BY <1>1, <1>2, <1>3, <1>4, <3>1 DEF ToAsset
    <2>3. SumFunctionOnSet(ToAsset(u, of), 1 .. m + n)
            = SumFunctionOnSet(ToAsset(s, of), 1 .. m) + SumFunctionOnSet(ToAsset(t, of), 1 .. n)
      BY <1>2, <2>1, <2>2, SumOfTwo
    <2> QED  BY <1>1, <1>5, <2>3, PaidIs DEF m, n
  <1> QED  BY <1>5, <1>6, <1>7 DEF u

-----------------------------------------------------------------------------
(* What the wallet pays with.                                              *)

\* The coins that pay an amount, or more.
Pays(coins, some, of, sum) ==
    /\ some \subseteq DOMAIN coins /\ some \subseteq Made /\ IsFiniteSet(some)
    /\ \A r \in some : Output(r).asset = of
    /\ Total(some) \in Int /\ sum <= Total(some)

LEMMA FoundPays ==
    ASSUME MoneyRight, NEW coins, NEW onChain, CoinsRight(coins, Made, onChain),
           NEW of, NEW sum \in Int,
           NEW some \in FindUnspentCoinsByAssetAndTotal(coins, of, sum)
    PROVE  Pays(coins, some, of, sum)
  <1> DEFINE found == FindUnspentCoinsByAsset(coins, of, Own)
  <1>1. found \subseteq DOMAIN coins /\ \A r \in found : Output(r).asset = of
    BY DEF FindUnspentCoinsByAsset
  <1>2. DOMAIN coins \subseteq Made /\ IsFiniteSet(DOMAIN coins)
    BY DEF CoinsRight
  <1> HIDE DEF found
  <1>3. \/ \E r \in found : some = {r} /\ Output(r).value = sum
        \/ some \in SUBSET found /\ Total(some) >= sum
    BY DEF FindUnspentCoinsByAssetAndTotal, found
  <1>4. some \subseteq found
    BY <1>3
  <1>5. some \subseteq DOMAIN coins /\ some \subseteq Made /\ \A r \in some : Output(r).asset = of
    BY <1>1, <1>2, <1>4
  <1>6. IsFiniteSet(some)
    BY <1>2, <1>5, FS_Subset
  <1>7. Total(some) \in Int
    BY <1>5, <1>6, TotalIs
  <1>8. sum <= Total(some)
    <2>1. CASE \E r \in found : some = {r} /\ Output(r).value = sum
      <3>1. PICK r \in found : some = {r} /\ Output(r).value = sum
        BY <2>1
      <3>2. Total(some) = sum
        BY <1>5, <3>1, TotalOfOne
      <3> QED  BY <3>2
    <2>2. CASE Total(some) >= sum
      BY <1>7, <2>2
    <2> QED  BY <1>3, <2>1, <2>2
  <1> QED  BY <1>5, <1>6, <1>7, <1>8 DEF Pays

\* What is taken for a transaction: coins of the asset, and coins of gas for the fee if
\* it is another asset.
FeeApart(asset, fee) == IF asset = Gas THEN 0 ELSE fee

Takes(coins, asset, amount, fee, a, g) ==
    /\ Pays(coins, a, asset, PayTotal(asset, amount, fee, asset))
    /\ Pays(coins, g, Gas, FeeApart(asset, fee))
    /\ asset = Gas => g = {}

LEMMA PaidByPays ==
    ASSUME MoneyRight, NEW coins, NEW onChain, CoinsRight(coins, Made, onChain),
           NEW asset, NEW amount \in Nat, NEW fee \in Nat,
           NEW ins \in PaidBy(coins, asset, amount, fee)
    PROVE  \E a, g : ins = a \cup g /\ Takes(coins, asset, amount, fee, a, g)
  <1> DEFINE cost(of) == PayTotal(asset, amount, fee, of)
             Found(of) == FindUnspentCoinsByAssetAndTotal(coins, of, cost(of))
             fees == IF asset = Gas \/ fee = 0 THEN {{}} ELSE Found(Gas)
  <1>0. ins \in {a \cup g : a \in Found(asset), g \in fees}
    BY DEF PaidBy
  <1> HIDE DEF Found, fees
  <1>1. PICK a \in Found(asset), g \in fees : ins = a \cup g
    BY <1>0
  <1> USE DEF Found, fees
  <1>2. \A of : cost(of) \in Int
    BY DEF PayTotal
  <1>3. asset # Gas => cost(Gas) = fee
    BY DEF PayTotal
  <1> HIDE DEF cost
  <1>4. \A of : \A some \in Found(of) : Pays(coins, some, of, cost(of))
    BY <1>2, FoundPays
  <1>5. Pays(coins, a, asset, cost(asset))
    BY <1>4
  <1> DEFINE left == FeeApart(asset, fee)
  <1>6. Pays(coins, g, Gas, left)
    <2>1. CASE asset = Gas \/ fee = 0
      <3>1. g = {} /\ left = 0
        BY <1>1, <2>1 DEF FeeApart
      <3>2. {} \subseteq DOMAIN coins /\ {} \subseteq Made /\ IsFiniteSet({})
        BY FS_EmptySet
      <3> HIDE DEF left
      <3> QED  BY <3>1, <3>2, TotalOfNone DEF Pays
    <2>2. CASE ~ (asset = Gas \/ fee = 0)
      <3>1. g \in Found(Gas) /\ left = cost(Gas)
        BY <1>1, <1>3, <2>2 DEF FeeApart
      <3> HIDE DEF left, Found
      <3> QED  BY <1>4, <3>1
    <2> QED  BY <2>1, <2>2
  <1>7. asset = Gas => g = {}
    BY <1>1
  <1> QED  BY <1>1, <1>5, <1>6, <1>7 DEF cost, Takes

\* A transaction takes as much as it pays, and the fee.
LEMMA MadeBalanced ==
    ASSUME MoneyRight, NEW coins, NEW onChain, CoinsRight(coins, Made, onChain),
           NEW asset, NEW amount \in Nat, NEW to, NEW fee \in Fees,
           NEW ins \in PaidBy(coins, asset, amount, fee)
    PROVE  LET t == MakeTransaction(asset, amount, to, fee, ins)
           IN ValuesRight(t.outs) /\ Balanced(t)
  <1> DEFINE t == MakeTransaction(asset, amount, to, fee, ins)
             Of(of) == {r \in ins : Output(r).asset = of}
             change(of) == Total(Of(of)) - PayTotal(asset, amount, fee, of)
             coin(of) == [asset |-> of, value |-> change(of), to |-> Own]
             back(of) == IF change(of) > 0 THEN <<coin(of)>> ELSE << >>
             main == [asset |-> asset, value |-> amount, to |-> to]
             second == IF asset = Gas THEN << >> ELSE back(Gas)
             outs == (<<main>> \o back(asset)) \o second
  <1>1. fee \in Nat
    BY WalletAssumption
  <1>0. PICK a, g : ins = a \cup g /\ Takes(coins, asset, amount, fee, a, g)
    BY <1>1, PaidByPays
  <1>2. /\ ins = a \cup g
        /\ Pays(coins, a, asset, PayTotal(asset, amount, fee, asset))
        /\ Pays(coins, g, Gas, IF asset = Gas THEN 0 ELSE fee)
        /\ asset = Gas => g = {}
    BY <1>0 DEF Takes, FeeApart
  <1>3. t.kind = "contract" /\ t.ins = ins /\ t.outs = outs
    BY DEF MakeTransaction
  <1>4. PayTotal(asset, amount, fee, asset) = amount + (IF asset = Gas THEN fee ELSE 0)
    BY <1>1 DEF PayTotal
  <1>5. asset # Gas => PayTotal(asset, amount, fee, Gas) = fee
    BY <1>1 DEF PayTotal
  <1>6. /\ ins \subseteq Made /\ IsFiniteSet(ins) /\ a \cap g = {}
        /\ Total(a) \in Int /\ Total(g) \in Int /\ Total(ins) = Total(a) + Total(g)
        /\ Of(asset) = a /\ (asset # Gas => Of(Gas) = g)
    <2>1. /\ a \subseteq Made /\ IsFiniteSet(a) /\ (\A r \in a : Output(r).asset = asset)
          /\ g \subseteq Made /\ IsFiniteSet(g) /\ (\A r \in g : Output(r).asset = Gas)
          /\ Total(a) \in Int /\ Total(g) \in Int
      BY <1>2 DEF Pays
    <2>2. IsFiniteSet(ins) /\ ins \subseteq Made
      BY <1>2, <2>1, FS_Union
    <2>3. a \cap g = {}
      BY <1>2, <2>1
    <2>4. Total(ins) = Total(a) + Total(g)
      BY <1>2, <2>1, <2>3, TotalOfTwo
    <2>5. Of(asset) = a
      BY <1>2, <2>1
    <2>6. asset # Gas => Of(Gas) = g
      BY <1>2, <2>1
    <2> QED  BY <2>1, <2>2, <2>3, <2>4, <2>5, <2>6
  <1> HIDE DEF t, Of
  <1>7. change(asset) \in Int /\ change(asset) = Total(a) - (amount + (IF asset = Gas THEN fee ELSE 0))
        /\ change(asset) >= 0
    <2>1. amount + (IF asset = Gas THEN fee ELSE 0) <= Total(a)
      BY <1>2, <1>4 DEF Pays
    <2> QED  BY <1>1, <1>4, <1>6, <2>1
  <1>8. asset # Gas => change(Gas) \in Int /\ change(Gas) = Total(g) - fee /\ change(Gas) >= 0
    <2> SUFFICES ASSUME asset # Gas PROVE change(Gas) \in Int /\ change(Gas) = Total(g) - fee /\ change(Gas) >= 0
      OBVIOUS
    <2>1. fee <= Total(g)
      BY <1>2 DEF Pays
    <2> QED  BY <1>1, <1>5, <1>6, <2>1
  <1> HIDE DEF change
  <1>9. ASSUME NEW of, change(of) \in Int, change(of) >= 0
        PROVE  /\ ValuesRight(back(of)) /\ PaidInAll(back(of)) = change(of)
               /\ \A x : Paid(back(of), x) = IF of = x THEN change(of) ELSE 0
               /\ \A i \in DOMAIN back(of) : back(of)[i].asset = of
    <2>1. CASE change(of) > 0
      <3>1. back(of) = <<coin(of)>> /\ coin(of).value = change(of) /\ coin(of).asset = of
        BY <2>1
      <3> HIDE DEF coin
      <3>2. \A i \in DOMAIN <<coin(of)>> : <<coin(of)>>[i] = coin(of)
        OBVIOUS
      <3> HIDE DEF back
      <3> QED  BY <1>9, <3>1, <3>2, PaidByOne
    <2>2. CASE ~ (change(of) > 0)
      <3>1. back(of) = << >> /\ change(of) = 0
        BY <1>9, <2>2
      <3> HIDE DEF back
      <3> QED  BY <3>1, PaidByNone
    <2> QED  BY <2>1, <2>2
  <1> HIDE DEF back, coin
  <1>10. /\ ValuesRight(<<main>>) /\ PaidInAll(<<main>>) = amount
         /\ \A x : Paid(<<main>>, x) = IF asset = x THEN amount ELSE 0
         /\ \A i \in DOMAIN <<main>> : <<main>>[i].asset = asset
    <2>1. main.value = amount /\ main.asset = asset /\ amount \in Int
      OBVIOUS
    <2> HIDE DEF main
    <2>2. \A i \in DOMAIN <<main>> : <<main>>[i] = main
      OBVIOUS
    <2> QED  BY <2>1, <2>2, PaidByOne
  <1> DEFINE more == IF asset = Gas THEN 0 ELSE change(Gas)
  <1>11. /\ ValuesRight(second) /\ PaidInAll(second) = more
         /\ \A x : Paid(second, x) = IF Gas = x THEN more ELSE 0
         /\ more \in Int
    <2>1. CASE asset = Gas
      <3>1. second = << >> /\ more = 0
        BY <2>1
      <3> HIDE DEF second, more
      <3> QED  BY <3>1, PaidByNone
    <2>2. CASE asset # Gas
      <3>1. second = back(Gas) /\ more = change(Gas)
        BY <2>2
      <3> HIDE DEF second, more
      <3> QED  BY <1>8, <1>9, <2>2, <3>1
    <2> QED  BY <2>1, <2>2
  <1> HIDE DEF main, second
  <1> DEFINE first == <<main>> \o back(asset)
             one == <<main>>
  <1>12. /\ ValuesRight(first) /\ PaidInAll(first) = amount + change(asset)
         /\ \A x : Paid(first, x) = IF asset = x THEN amount + change(asset) ELSE 0
    <2>1. ValuesRight(back(asset)) /\ PaidInAll(back(asset)) = change(asset)
          /\ \A x : Paid(back(asset), x) = IF asset = x THEN change(asset) ELSE 0
      BY <1>7, <1>9
    <2>2. /\ ValuesRight(first) /\ PaidInAll(first) = PaidInAll(one) + PaidInAll(back(asset))
          /\ \A x : Paid(first, x) = Paid(one, x) + Paid(back(asset), x)
      BY <1>10, <2>1, PaidByTwo
    <2>3. ASSUME NEW x PROVE Paid(first, x) = IF asset = x THEN amount + change(asset) ELSE 0
      <3>1. Paid(first, x) = (IF asset = x THEN amount ELSE 0) + (IF asset = x THEN change(asset) ELSE 0)
        BY <1>10, <2>1, <2>2
      <3> QED  BY <3>1
    <2> QED  BY <1>10, <2>1, <2>2, <2>3
  <1>13. /\ ValuesRight(outs) /\ PaidInAll(outs) = amount + change(asset) + more
         /\ \A x : Paid(outs, x) = (IF asset = x THEN amount + change(asset) ELSE 0)
                                   + (IF Gas = x THEN more ELSE 0)
    <2> HIDE DEF first, more
    <2>1. /\ ValuesRight(first \o second) /\ PaidInAll(first \o second) = PaidInAll(first) + PaidInAll(second)
          /\ \A x : Paid(first \o second, x) = Paid(first, x) + Paid(second, x)
      BY <1>11, <1>12, PaidByTwo
    <2>2. outs = first \o second
      BY DEF first
    <2> HIDE DEF outs
    <2> QED  BY <1>11, <1>12, <2>1, <2>2
  <1> HIDE DEF first, one, outs
  <1>14. PaidInAll(outs) = Total(ins) - fee
    <2>1. CASE asset = Gas
      <3>1. g = {} /\ more = 0
        BY <1>2, <2>1
      <3>2. Total(ins) = Total(a)
        BY <1>2, <3>1
      <3> QED  BY <1>1, <1>6, <1>7, <1>13, <2>1, <3>1, <3>2
    <2>2. CASE asset # Gas
      <3>1. more = Total(g) - fee
        BY <1>8, <2>2
      <3>2. change(asset) = Total(a) - amount
        BY <1>6, <1>7, <2>2
      <3> QED  BY <1>1, <1>6, <1>13, <3>1, <3>2
    <2> QED  BY <2>1, <2>2
  <1>15. Total(ins) - PaidInAll(outs) \in Fees
    <2>1. Total(ins) - PaidInAll(outs) = fee
      <3>1. Total(ins) \in Int
        BY <1>6
      <3> QED  BY <1>1, <1>14, <3>1
    <2> QED  BY <2>1
  <1>16. ASSUME NEW x PROVE Paid(outs, x) <= Total(Of(x))
    <2>1. CASE x = asset /\ asset = Gas
      <3>1. Paid(outs, x) = amount + change(asset) /\ Of(x) = a
        BY <1>6, <1>7, <1>13, <2>1
      <3> QED  BY <1>1, <1>6, <1>7, <2>1, <3>1
    <2>2. CASE x = asset /\ asset # Gas
      <3>1. Paid(outs, x) = amount + change(asset) /\ Of(x) = a
        BY <1>6, <1>7, <1>13, <2>2
      <3> QED  BY <1>1, <1>6, <1>7, <2>2, <3>1
    <2>3. CASE x # asset /\ x = Gas
      <3>1. Paid(outs, x) = more /\ Of(x) = g /\ more = Total(g) - fee
        BY <1>6, <1>8, <1>11, <1>13, <2>3
      <3> QED  BY <1>1, <1>6, <3>1
    <2>4. CASE x # asset /\ x # Gas
      <3>1. Paid(outs, x) = 0
        BY <1>13, <2>4
      <3>2. Of(x) = {}
        <4>1. (\A r \in a : Output(r).asset = asset) /\ (\A r \in g : Output(r).asset = Gas)
          BY <1>2 DEF Pays
        <4> QED  BY <1>2, <2>4, <4>1 DEF Of
      <3> QED  BY <3>1, <3>2, TotalOfNone
    <2> QED  BY <2>1, <2>2, <2>3, <2>4
  <1>17. Balanced(t)
    BY <1>3, <1>6, <1>15, <1>16 DEF Balanced, Of
  <1> QED  BY <1>3, <1>13, <1>17 DEF t

\* A coin split pays what it was worth without the fee.
LEMMA SplitBalanced ==
    ASSUME MoneyRight, NEW r \in Made, NEW divisions \in Nat \ {0}, NEW fee \in Fees,
           Output(r).value >= divisions, NEW t,
           t.kind = "contract", t.ins = {r},
           t.outs = [SplitToVouts(Output(r).asset, Output(r).value, divisions)
                        EXCEPT ![1].value = @ - fee]
    PROVE  ValuesRight(t.outs) /\ Balanced(t)
  <1> DEFINE asset == Output(r).asset
             value == Output(r).value
             part == value \div divisions
             size == IF asset = Share /\ part % D > 0 THEN ((part \div D) + 1) * D ELSE part
             whole == (value - 1) \div size
             outs == SplitToVouts(asset, value, divisions)
             new == [outs EXCEPT ![1].value = @ - fee]
             old(i) == IF i <= whole THEN size ELSE value - whole * size
  <1>1. value \in Nat \ {0} /\ value - 1 \in Nat /\ divisions \in Nat \ {0} /\ value >= divisions
    <2>1. value \in Int
      BY ValueIs
    <2> HIDE DEF value
    <2>2. value >= divisions
      BY DEF value
    <2> QED  BY <2>1, <2>2
  <1>2. fee \in Int /\ D \in Nat \ {0}
    BY WalletAssumption
  <1> HIDE DEF value, asset
  <1>3. part \in Nat \ {0}
    <2> DEFINE rest == value % divisions
    <2>1. part \in Nat /\ rest \in 0 .. divisions - 1 /\ value = part * divisions + rest
      BY <1>1, Division
    <2> HIDE DEF part, rest
    <2>2. part # 0
      <3> SUFFICES ASSUME part = 0 PROVE FALSE
        OBVIOUS
      <3>1. part * divisions = 0
        BY <1>1
      <3> QED  BY <1>1, <2>1, <3>1
    <2> QED  BY <2>1, <2>2
  <1> HIDE DEF part
  <1>4. size \in Nat \ {0}
    <2>1. CASE asset = Share /\ part % D > 0
      <3> DEFINE k == part \div D
      <3>1. k \in Nat
        BY <1>2, <1>3, Division
      <3>2. size = (k + 1) * D
        BY <2>1
      <3> HIDE DEF k, size
      <3>3. (k + 1) * D = k * D + D /\ k * D \in Nat
        BY <1>2, <3>1
      <3> QED  BY <1>2, <3>2, <3>3
    <2>2. CASE ~ (asset = Share /\ part % D > 0)
      <3>1. size = part
        BY <2>2
      <3> HIDE DEF size
      <3> QED  BY <1>3, <3>1
    <2> QED  BY <2>1, <2>2
  <1>5. outs = [i \in 1 .. whole + 1 |-> [asset |-> asset, to |-> Own, value |-> old(i)]]
    BY Zenon DEF SplitToVouts, part
  <1> HIDE DEF size
  <1>6. whole \in Nat
    BY <1>1, <1>4, Division
  <1> HIDE DEF whole, outs
  <1>7. whole * size \in Int /\ \A i \in 1 .. whole + 1 : old(i) \in Int
    BY <1>1, <1>4, <1>6
  <1> DEFINE n == whole + 1
             f == [i \in 1 .. n |-> old(i)]
  <1>8. SumFunctionOnSet(f, 1 .. n) = value
    <2>1. \A i \in 1 .. n : f[i] \in Int
      BY <1>7
    <2>2. f[n] = value - whole * size /\ \A i \in 1 .. whole : f[i] = size
      BY <1>6
    <2> HIDE DEF f, old
    <2>3. SumFunctionOnSet(f, 1 .. n) = SumFunctionOnSet(f, 1 .. n - 1) + f[n]
      <3>1. 1 \in Int /\ n \in Int /\ 1 <= n
        BY <1>6
      <3> HIDE DEF n
      <3> QED  BY <2>1, <3>1, SumLast
    <2>4. n - 1 = whole
      BY <1>6
    <2>5. SumFunctionOnSet(f, 1 .. whole) = whole * size
      BY <1>4, <1>6, <2>2, SumConstant
    <2> QED  BY <1>1, <1>7, <2>2, <2>3, <2>4, <2>5
  <1>9. 1 \in 1 .. n /\ n \in Nat
    BY <1>6
  <1> DEFINE g(i) == IF i = 1 THEN old(1) - fee ELSE old(i)
  <1>10. /\ DOMAIN new = 1 .. n /\ new = [i \in 1 .. n |-> new[i]]
         /\ \A i \in 1 .. n : new[i].asset = asset /\ new[i].value = g(i)
    <2> HIDE DEF old
    <2>1. DOMAIN outs = 1 .. n /\ \A i \in 1 .. n : outs[i] = [asset |-> asset, to |-> Own, value |-> old(i)]
      BY <1>5
    <2>2. /\ new = [i \in DOMAIN new |-> new[i]] /\ DOMAIN new = 1 .. n
          /\ new[1] = [outs[1] EXCEPT !.value = @ - fee]
          /\ \A i \in 1 .. n : i # 1 => new[i] = outs[i]
      BY <1>9, <2>1
    <2>3. new[1].asset = asset /\ new[1].value = old(1) - fee
      BY <1>9, <2>1, <2>2
    <2> HIDE DEF new
    <2> QED  BY <2>1, <2>2, <2>3
  <1>11. \A i \in 1 .. n : g(i) \in Int
    BY <1>2, <1>7, <1>9
  <1> HIDE DEF new
  <1>12. ValuesRight(new) /\ Len(new) = n
    <2>1. IsSequence(new) /\ Len(new) = n
      BY <1>9, <1>10, IsASequence
    <2>2. \A i \in DOMAIN new : new[i].value \in Int
      <3> HIDE DEF g
      <3> QED  BY <1>10, <1>11
    <2> QED  BY <2>1, <2>2 DEF ValuesRight
  <1>13. PaidInAll(new) = value - fee
    <2> DEFINE v == Values(new)
    <2>1. \A i \in 1 .. n : v[i] = g(i)
      BY <1>10 DEF Values
    <2>2. /\ \A i \in 1 .. n : f[i] \in Int /\ v[i] \in Int
          /\ \A i \in (1 .. n) \ {1} : v[i] = f[i]
          /\ v[1] = f[1] - fee
      BY <1>7, <1>9, <1>11, <2>1
    <2> HIDE DEF v, f, n
    <2>3. IsFiniteSet(1 .. n)
      BY <1>9, FS_Interval
    <2>4. SumFunctionOnSet(v, 1 .. n) = SumFunctionOnSet(f, 1 .. n) - f[1] + v[1]
      <3> DEFINE S == 1 .. n
      <3>1. 1 \in S /\ IsFiniteSet(S)
        BY <1>9, <2>3
      <3>2. \A i \in S : f[i] \in Int /\ v[i] \in Int
        BY <2>2
      <3>3. \A i \in S \ {1} : v[i] = f[i]
        BY <2>2
      <3> HIDE DEF S
      <3>4. SumFunctionOnSet(v, S) = SumFunctionOnSet(f, S) - f[1] + v[1]
        BY <3>1, <3>2, <3>3, SumChange
      <3> QED  BY <3>4 DEF S
    <2>5. SumFunctionOnSet(v, 1 .. n) = value - fee
      <3>1. f[1] \in Int /\ v[1] = f[1] - fee
        BY <1>9, <2>2
      <3> QED  BY <1>1, <1>2, <1>8, <2>4, <3>1
    <2> QED  BY <1>12, <2>5, PaidIs DEF v
  <1>14. Paid(new, asset) = value - fee
    <2>1. \A i \in 1 .. n : ToAsset(new, asset)[i] = Values(new)[i]
      BY <1>10 DEF ToAsset, Values
    <2>2. IsFiniteSet(1 .. n)
      BY <1>9, FS_Interval
    <2>3. SumFunctionOnSet(ToAsset(new, asset), 1 .. n) = SumFunctionOnSet(Values(new), 1 .. n)
      BY <2>1, <2>2, SumSame
    <2> QED  BY <1>12, <1>13, <2>3, PaidIs
  <1>15. Total({r}) = value /\ IsFiniteSet({r})
    BY TotalOfOne, FS_Singleton DEF value
  <1>16. {q \in {r} : Output(q).asset = asset} = {r}
    BY DEF asset
  <1>17. \A of \in {new[i].asset : i \in DOMAIN new} : of = asset
    BY <1>10
  <1>18. t.outs = new
    BY DEF new, outs, asset, value
  <1>19. value - fee <= value /\ value - (value - fee) \in Fees
    <2>1. fee \in Nat
      BY WalletAssumption
    <2>2. value - (value - fee) = fee
      BY <1>1, <1>2
    <2> QED  BY <1>1, <2>1, <2>2
  <1>20. Balanced(t)
    <2>1. ASSUME NEW of \in {t.outs[i].asset : i \in DOMAIN t.outs}
          PROVE  Paid(t.outs, of) <= Total({q \in t.ins : Output(q).asset = of})
      <3>1. of \in {new[i].asset : i \in DOMAIN new}
        BY <1>18
      <3>2. of = asset
        BY <1>17, <3>1
      <3>3. Total({q \in t.ins : Output(q).asset = of}) = value
        BY <1>15, <1>16, <3>2
      <3> QED  BY <1>14, <1>18, <1>19, <3>2, <3>3
    <2>2. Total(t.ins) - PaidInAll(t.outs) \in Fees
      BY <1>13, <1>15, <1>18, <1>19
    <2>3. t.ins \subseteq Made /\ IsFiniteSet(t.ins)
      BY <1>15
    <2> QED  BY <2>1, <2>2, <2>3 DEF Balanced
  <1> QED  BY <1>12, <1>18, <1>20

-----------------------------------------------------------------------------
(* When a coin came and when it was spent.                                 *)

LEMMA SpendIs ==
    ASSUME ChainInvariant, SpendsRight, NEW r \in SpentBy(OnChain)
    PROVE  /\ r \in Made
           /\ \E i, j \in DOMAIN chain : i < j /\ r[1] \in chain[i] /\ r \in SpentBy(chain[j])
  <1>1. IsSequence(chain) /\ Len(chain) \in Nat /\ DOMAIN chain = 1 .. Len(chain)
    BY SequenceIs DEF ChainInvariant
  <1>2. PICK t \in OnChain : r \in txs[t].ins
    BY DEF SpentBy
  <1>3. PICK j \in DOMAIN chain : t \in chain[j]
    BY <1>1, BelowIs
  <1>4. r[1] \in Below(j - 1)
    BY <1>2, <1>3 DEF ChainInvariant
  <1>5. PICK i \in 1 .. j - 1 : r[1] \in chain[i]
    BY <1>4 DEF Below
  <1>6. r \in SpentBy(chain[j])
    BY <1>2, <1>3 DEF SpentBy
  <1>7. i \in DOMAIN chain /\ i < j
    BY <1>1, <1>5
  <1> QED  BY <1>3, <1>5, <1>6, <1>7 DEF SpendsRight

LEMMA HeightIs ==
    ASSUME ChainInvariant, NEW i \in DOMAIN chain, NEW t \in chain[i]
    PROVE  HeightOf(t) = i - 1
  <1>1. \A j \in DOMAIN chain : t \in chain[j] => j = i
    BY DEF ChainInvariant
  <1>2. (CHOOSE j \in DOMAIN chain : t \in chain[j]) = i
    BY <1>1
  <1> QED  BY <1>2 DEF HeightOf

LEMMA SpentAtIs ==
    ASSUME SpendsRight, NEW i \in DOMAIN chain, NEW r \in SpentBy(chain[i])
    PROVE  SpentAt(r) = i - 1
  <1>1. \A j \in DOMAIN chain : r \in SpentBy(chain[j]) => j = i
    BY DEF SpendsRight
  <1>2. (CHOOSE j \in DOMAIN chain : r \in SpentBy(chain[j])) = i
    BY <1>1
  <1> QED  BY <1>2 DEF SpentAt

\* The bonus the code calculates is what the blocks generated.
LEMMA BonusIsGenerated ==
    ASSUME ChainInvariant, SpendsRight, NEW r \in SpentBy(OnChain),
           HasBonus(HeightOf(r[1]), SpentAt(r))
    PROVE  BonusOf(HeightOf(r[1]), SpentAt(r)) = Generated(r) /\ Generated(r) \in Int
  <1>1. PICK i \in DOMAIN chain, j \in DOMAIN chain :
           i < j /\ r[1] \in chain[i] /\ r \in SpentBy(chain[j])
    BY SpendIs
  <1> DEFINE start == i - 1
             end == j - 1
             f == [h \in start .. end - 1 |-> Gain(h \div Interval)]
  <1>2. HeightOf(r[1]) = start /\ SpentAt(r) = end
    BY <1>1, HeightIs, SpentAtIs
  <1>3. start \in Nat /\ end \in Nat /\ start < end
    <2>1. Len(chain) \in Nat /\ DOMAIN chain = 1 .. Len(chain)
      BY SequenceIs DEF ChainInvariant
    <2> QED  BY <1>1, <2>1
  <1> HIDE DEF start, end
  <1>4. Generated(r) = SumFunctionOnSet(f, start .. end - 1)
    BY <1>2 DEF Generated, Gain
  <1>5. BonusOf(start, end) = SumFunctionOnSet(f, start .. end - 1)
    BY <1>2, <1>3, BonusIs
  <1>6. SumFunctionOnSet(f, start .. end - 1) \in Int
    <2>1. ASSUME NEW h \in start .. end - 1 PROVE f[h] \in Int
      <3> DEFINE u == h \div Interval
      <3>1. h \in Nat
        BY <1>3
      <3>2. u \in Nat
        BY <3>1, WalletAssumption, Division
      <3>3. f[h] = Gain(u)
        OBVIOUS
      <3> HIDE DEF u, f
      <3>4. Len(Generation) \in Nat /\ \A k \in 1 .. Len(Generation) : Generation[k] \in Nat
        BY WalletAssumption, LenProperties
      <3>5. Gain(u) \in Int
        <4>1. CASE u < Len(Generation)
          <5>1. u + 1 \in 1 .. Len(Generation)
            BY <3>2, <3>4, <4>1
          <5> QED  BY <3>4, <4>1, <5>1 DEF Gain
        <4>2. CASE ~ (u < Len(Generation))
          BY <4>2 DEF Gain
        <4> QED  BY <4>1, <4>2
      <3> QED  BY <3>3, <3>5
    <2>2. IsFiniteSet(start .. end - 1)
      BY <1>3, FS_Interval
    <2> HIDE DEF f
    <2> QED  BY <2>1, <2>2, SumIsInt
  <1> QED  BY <1>2, <1>4, <1>5, <1>6

LEMMA ClaimBalanced ==
    ASSUME ChainInvariant, MoneyRight, NEW t, t.kind = "claim", Verify(t), IsFiniteSet(t.claims),
           NEW o, o.asset = Gas, t.outs = <<o>>
    PROVE  ValuesRight(t.outs) /\ Balanced(t)
  <1> DEFINE claims == t.claims
             bonus == [r \in claims |-> Output(r).value * BonusOf(HeightOf(r[1]), SpentAt(r))]
             due == [r \in claims |-> Output(r).value * Generated(r)]
  <1>1. /\ claims \subseteq SpentBy(OnChain)
        /\ \A r \in claims : HasBonus(HeightOf(r[1]), SpentAt(r))
        /\ t.outs[1].value = SumFunctionOnSet(bonus, claims)
    BY DEF Verify, Unclaimed, Calculable, CalculateBonus
  <1>2. SpendsRight
    BY DEF MoneyRight
  <1>3. ASSUME NEW r \in claims PROVE bonus[r] = due[r] /\ due[r] \in Int
    <2>1. r \in SpentBy(OnChain) /\ HasBonus(HeightOf(r[1]), SpentAt(r))
      BY <1>1
    <2>2. BonusOf(HeightOf(r[1]), SpentAt(r)) = Generated(r) /\ Generated(r) \in Int
      BY <1>2, <2>1, BonusIsGenerated
    <2>3. Output(r).value \in Int
      BY <1>2, <2>1, SpendIs, ValueIs
    <2> QED  BY <2>2, <2>3
  <1> HIDE DEF bonus, due
  <1>4. SumFunctionOnSet(bonus, claims) = SumFunctionOnSet(due, claims)
    BY <1>3, SumSame
  <1>5. SumFunctionOnSet(due, claims) \in Int
    BY <1>3, SumIsInt
  <1>6. <<o>>[1] = o
    OBVIOUS
  <1>7. o.value = SumFunctionOnSet(due, claims)
    BY <1>1, <1>4, <1>6
  <1>8. ValuesRight(<<o>>) /\ PaidInAll(<<o>>) = o.value
    BY <1>5, <1>7, PaidByOne
  <1>9. \A i \in DOMAIN <<o>> : <<o>>[i] = o
    OBVIOUS
  <1>10. Balanced(t)
    <2>1. \A i \in DOMAIN t.outs : t.outs[i].asset = Gas
      BY <1>9
    <2>2. PaidInAll(t.outs) = SumFunctionOnSet(due, claims)
      BY <1>7, <1>8
    <2> QED  BY <1>1, <2>1, <2>2 DEF Balanced, due
  <1> QED  BY <1>8, <1>10

-----------------------------------------------------------------------------
(* What a block or a transaction changes of it.                            *)

\* A step that adds a block or a transaction, or neither.
LEMMA SpendsKept ==
    ASSUME ChainInvariant, SpendsRight, Extends,
           chain' = chain \/ (txs' = txs /\ \E ids \in Minable : chain' = Append(chain, ids))
    PROVE  /\ SpendsRight'
           /\ \A i \in DOMAIN chain : i \in DOMAIN chain' /\ chain'[i] = chain[i]
           /\ SpentBy(OnChain) \subseteq SpentBy(OnChain)'
  <1>1. Made \subseteq Made'
    BY MadeMore
  <1>2. /\ IsSequence(chain) /\ Len(chain) > 0
        /\ \A i \in DOMAIN chain : chain[i] \subseteq OnChain
        /\ OnChain \subseteq DOMAIN txs
    BY BelowIs DEF ChainInvariant
  <1>3. \A t \in OnChain : txs'[t].ins = txs[t].ins
    BY <1>2 DEF Extends
  <1>4. CASE chain' = chain
    <2>1. OnChain' = OnChain
      BY <1>4 DEF OnChain, Below
    <2>2. SpentBy(OnChain)' = SpentBy(OnChain)
      BY <1>3, <2>1 DEF SpentBy
    <2>3. \A i \in DOMAIN chain' : SpentBy(chain[i])' = SpentBy(chain[i])
      BY <1>2, <1>3, <1>4 DEF SpentBy
    <2> QED  BY <1>1, <1>4, <2>2, <2>3 DEF SpendsRight
  <1>5. CASE txs' = txs /\ \E ids \in Minable : chain' = Append(chain, ids)
    <2>1. PICK ids \in Minable : chain' = Append(chain, ids)
      BY <1>5
    <2>2. /\ \A i \in DOMAIN chain : i \in DOMAIN chain' /\ chain'[i] = chain[i]
          /\ \A i \in DOMAIN chain' : i \in DOMAIN chain \/ (i = Len(chain) + 1 /\ chain'[i] = ids)
          /\ OnChain' = OnChain \cup ids
      BY <1>2, <2>1, BlockAdded
    <2>3. SpentBy(ids) \subseteq Made /\ SpentBy(ids) \cap SpentBy(OnChain) = {}
      <3>1. \A t \in ids : txs[t].ins \subseteq Unspent
        BY DEF Minable
      <3>2. Unspent \subseteq Made /\ Unspent \cap SpentBy(OnChain) = {}
        BY <1>2, RefsMade DEF Unspent
      <3> QED  BY <3>1, <3>2 DEF SpentBy
    <2>4. \A i \in DOMAIN chain : SpentBy(chain[i]) \subseteq SpentBy(OnChain)
      BY <1>2 DEF SpentBy
    <2>5. \A i \in DOMAIN chain : SpentBy(chain[i])' = SpentBy(chain[i])
      BY <1>5, <2>2 DEF SpentBy
    <2>6. \A i \in DOMAIN chain' : i \notin DOMAIN chain => SpentBy(chain[i])' = SpentBy(ids)
      BY <1>5, <2>2 DEF SpentBy
    <2>7. \A i \in DOMAIN chain' : SpentBy(chain[i])' \subseteq Made'
      BY <1>1, <2>3, <2>5, <2>6 DEF SpendsRight
    <2>8. ASSUME NEW i \in DOMAIN chain', NEW j \in DOMAIN chain', i # j
          PROVE  SpentBy(chain[i])' \cap SpentBy(chain[j])' = {}
      <3>1. CASE i \in DOMAIN chain /\ j \in DOMAIN chain
        BY <2>5, <2>8, <3>1 DEF SpendsRight
      <3>2. CASE i \notin DOMAIN chain /\ j \in DOMAIN chain
        BY <2>3, <2>4, <2>5, <2>6, <3>2
      <3>3. CASE i \in DOMAIN chain /\ j \notin DOMAIN chain
        BY <2>3, <2>4, <2>5, <2>6, <3>3
      <3>4. CASE i \notin DOMAIN chain /\ j \notin DOMAIN chain
        BY <2>2, <2>8, <3>4
      <3> QED  BY <3>1, <3>2, <3>3, <3>4
    <2>9. SpentBy(OnChain) \subseteq SpentBy(OnChain)'
      BY <1>5, <2>2 DEF SpentBy
    <2> QED  BY <2>2, <2>7, <2>8, <2>9 DEF SpendsRight
  <1> QED  BY <1>4, <1>5

LEMMA GeneratedKept ==
    ASSUME ChainInvariant, ChainInvariant', SpendsRight, SpendsRight', Extends,
           \A i \in DOMAIN chain : i \in DOMAIN chain' /\ chain'[i] = chain[i],
           NEW r \in SpentBy(OnChain)
    PROVE  Generated(r)' = Generated(r)
  <1>1. PICK i \in DOMAIN chain, j \in DOMAIN chain :
           i < j /\ r[1] \in chain[i] /\ r \in SpentBy(chain[j])
    BY SpendIs
  <1>2. HeightOf(r[1]) = i - 1 /\ SpentAt(r) = j - 1
    BY <1>1, HeightIs, SpentAtIs
  <1>3. HeightOf(r[1])' = i - 1
    <2>1. i \in DOMAIN chain' /\ r[1] \in chain'[i]
      BY <1>1
    <2>2. \A k \in DOMAIN chain' : r[1] \in chain'[k] => k = i
      BY <2>1 DEF ChainInvariant
    <2>3. (CHOOSE k \in DOMAIN chain' : r[1] \in chain'[k]) = i
      BY <2>1, <2>2
    <2> QED  BY <2>3 DEF HeightOf
  <1>4. SpentAt(r)' = j - 1
    <2>1. j \in DOMAIN chain' /\ r \in SpentBy(chain[j])'
      <3>1. chain[j] \subseteq DOMAIN txs
        BY BelowIs DEF ChainInvariant
      <3> QED  BY <1>1, <3>1 DEF SpentBy, Extends
    <2>2. \A k \in DOMAIN chain' : r \in SpentBy(chain[k])' => k = j
      BY <2>1 DEF SpendsRight
    <2>3. (CHOOSE k \in DOMAIN chain' : r \in SpentBy(chain[k])') = j
      BY <2>1, <2>2
    <2> QED  BY <2>3 DEF SpentAt
  <1> QED  BY <1>2, <1>3, <1>4 DEF Generated

\* What is balanced stays so.
LEMMA BalancedKept ==
    ASSUME ChainInvariant, ChainInvariant', MoneyRight, SpendsRight', Extends,
           \A i \in DOMAIN chain : i \in DOMAIN chain' /\ chain'[i] = chain[i],
           SpentBy(OnChain) \subseteq SpentBy(OnChain)',
           NEW t, Balanced(t)
    PROVE  Balanced(t)'
  <1>1. SpendsRight
    BY DEF MoneyRight
  <1>2. Made \subseteq Made' /\ \A r \in Made : Output(r)' = Output(r)
    BY MadeMore
  <1>3. \A refs : refs \subseteq Made => Total(refs)' = Total(refs)
    <2> SUFFICES ASSUME NEW refs, refs \subseteq Made PROVE Total(refs)' = Total(refs)
      OBVIOUS
    <2>1. \A r \in refs : Output(r)' = Output(r)
      BY <1>2
    <2>2. [r \in refs |-> Output(r).value]' = [r \in refs |-> Output(r).value]
      BY <2>1
    <2> QED  BY <2>2 DEF Total
  <1>4. ASSUME t.kind = "contract"
        PROVE  /\ t.ins \subseteq Made' /\ IsFiniteSet(t.ins)
               /\ \A of \in {t.outs[i].asset : i \in DOMAIN t.outs} :
                     Paid(t.outs, of) <= Total({r \in t.ins : Output(r).asset = of})'
               /\ Total(t.ins)' - PaidInAll(t.outs) \in Fees
    <2>1. /\ t.ins \subseteq Made /\ IsFiniteSet(t.ins)
          /\ \A of \in {t.outs[i].asset : i \in DOMAIN t.outs} :
                Paid(t.outs, of) <= Total({r \in t.ins : Output(r).asset = of})
          /\ Total(t.ins) - PaidInAll(t.outs) \in Fees
      BY <1>4 DEF Balanced
    <2>2. ASSUME NEW of
          PROVE  Total({r \in t.ins : Output(r).asset = of})' = Total({r \in t.ins : Output(r).asset = of})
      <3> DEFINE S == {r \in t.ins : Output(r).asset = of}
      <3>1. S' = S
        BY <1>2, <2>1
      <3>2. S \subseteq Made
        BY <2>1
      <3>3. PICK s : s = S
        OBVIOUS
      <3>4. Total(s)' = Total(s)
        BY <1>3, <3>2, <3>3
      <3>5. Total(S)' = Total(s)' /\ Total(S) = Total(s)
        <4> HIDE DEF S
        <4> QED  BY <3>1, <3>3 DEF Total
      <3> QED  BY <3>4, <3>5
    <2>3. Total(t.ins)' = Total(t.ins)
      BY <1>3, <2>1
    <2> QED  BY <1>2, <2>1, <2>2, <2>3
  <1>5. ASSUME t.kind = "claim"
        PROVE  /\ t.claims \subseteq SpentBy(OnChain)' /\ IsFiniteSet(t.claims)
               /\ \A i \in DOMAIN t.outs : t.outs[i].asset = Gas
               /\ PaidInAll(t.outs) =
                     SumFunctionOnSet([r \in t.claims |-> Output(r).value * Generated(r)], t.claims)'
    <2>1. /\ t.claims \subseteq SpentBy(OnChain) /\ IsFiniteSet(t.claims)
          /\ \A i \in DOMAIN t.outs : t.outs[i].asset = Gas
          /\ PaidInAll(t.outs) =
                SumFunctionOnSet([r \in t.claims |-> Output(r).value * Generated(r)], t.claims)
      BY <1>5 DEF Balanced
    <2>2. ASSUME NEW r \in t.claims PROVE Output(r)' = Output(r) /\ Generated(r)' = Generated(r)
      <3>1. r \in SpentBy(OnChain)
        BY <2>1
      <3>2. r \in Made
        BY <1>1, <3>1, SpendIs
      <3>3. Generated(r)' = Generated(r)
        BY <1>1, <3>1, GeneratedKept
      <3> QED  BY <1>2, <3>2, <3>3
    <2>3. [r \in t.claims |-> Output(r).value * Generated(r)]'
            = [r \in t.claims |-> Output(r).value * Generated(r)]
      BY <2>2
    <2> QED  BY <2>1, <2>3
  <1> QED  BY <1>4, <1>5 DEF Balanced, Paid, PaidInAll

LEMMA MoneyKept ==
    ASSUME ChainInvariant, ChainInvariant', MoneyRight, Extends,
           chain' = chain \/ (txs' = txs /\ \E ids \in Minable : chain' = Append(chain, ids)),
           \A t \in Range(txs') : t \in Range(txs) \/ (ValuesRight(t.outs) /\ Balanced(t))
    PROVE  MoneyRight'
  <1>1. SpendsRight
    BY DEF MoneyRight
  <1>2. /\ SpendsRight'
        /\ \A i \in DOMAIN chain : i \in DOMAIN chain' /\ chain'[i] = chain[i]
        /\ SpentBy(OnChain) \subseteq SpentBy(OnChain)'
    BY <1>1, SpendsKept
  <1>3. ASSUME NEW t \in Range(txs') PROVE ValuesRight(t.outs) /\ Balanced(t)'
    <2>1. ValuesRight(t.outs) /\ Balanced(t)
      BY <1>3 DEF MoneyRight
    <2> QED  BY <1>2, <2>1, BalancedKept
  <1>4. \A t \in Range(txs') : ValuesRight(t.outs)' /\ Balanced(t)'
    BY <1>3 DEF ValuesRight, IsSequence, Range
  <1> QED  BY <1>2, <1>4 DEF MoneyRight, Range

LEMMA MoneyRelayed ==
    ASSUME ChainInvariant, ChainInvariant', MoneyRight, NEW t, RelayAndSave(t),
           ValuesRight(t.outs), Balanced(t)
    PROVE  MoneyRight'
  <1>1. /\ txs' = IF IdOf(t) \in DOMAIN txs THEN txs ELSE Append(txs, t)
        /\ chain' = chain
    BY DEF RelayAndSave
  <1>2. IsSequence(txs)
    BY DEF ChainInvariant
  <1>3. Extends
    BY <1>1, <1>2, TransactionMade
  <1>4. Range(txs') \subseteq Range(txs) \cup {t}
    <2>1. CASE txs' = txs
      BY <2>1
    <2>2. CASE txs' = Append(txs, t)
      <3>1. IsSequence(txs') /\ ToSet(txs') = ToSet(txs) \cup {t}
        BY <1>2, <2>2, AppendIs
      <3> QED  BY <1>2, <3>1, SequenceIs
    <2> QED  BY <1>1, <2>1, <2>2
  <1> QED  BY <1>1, <1>3, <1>4, MoneyKept

\* Neither a block nor a transaction.
LEMMA MoneySame ==
    ASSUME ChainInvariant, ChainInvariant', MoneyRight, UNCHANGED <<chain, txs>>
    PROVE  MoneyRight'
  <1>1. Extends
    BY DEF ChainInvariant, Extends, IsSequence
  <1> QED  BY <1>1, MoneyKept

LEMMA MoneyInBlock ==
    ASSUME ChainInvariant, ChainInvariant', MoneyRight, UNCHANGED txs,
           NEW ids \in Minable, chain' = Append(chain, ids)
    PROVE  MoneyRight'
  <1>1. Extends
    BY DEF ChainInvariant, Extends, IsSequence
  <1> QED  BY <1>1, MoneyKept

LEMMA MoneySent ==
    ASSUME WalletInvariant, ChainInvariant', MoneyRight, NEW asset, NEW amount \in Amounts,
           NEW fee \in Fees, Send(asset, amount, fee)
    PROVE  MoneyRight'
  <1>1. PICK ins \in PaidBy(wallet.coins, asset, amount, fee) :
           RelayAndSave(MakeTransaction(asset, amount, Other, fee, ins))
    BY DEF Send
  <1>2. ChainInvariant /\ CoinsRight(wallet.coins, Made, OnChain)
    BY DEF Send, WalletInvariant, WalletRight
  <1>3. amount \in Nat
    BY WalletAssumption
  <1> DEFINE t == MakeTransaction(asset, amount, Other, fee, ins)
  <1>4. ValuesRight(t.outs) /\ Balanced(t)
    BY <1>2, <1>3, MadeBalanced
  <1> HIDE DEF t
  <1> QED  BY <1>1, <1>2, <1>4, MoneyRelayed DEF t

LEMMA MoneySplit ==
    ASSUME WalletInvariant, ChainInvariant', MoneyRight, NEW r, NEW fee \in Fees, Split(r, 2, fee)
    PROVE  MoneyRight'
  <1> DEFINE outs == SplitToVouts(Output(r).asset, Output(r).value, 2)
             t == [kind |-> "contract", ins |-> {r}, claims |-> {}, made |-> 0,
                   outs |-> [outs EXCEPT ![1].value = @ - fee]]
  <1>1. /\ wallet # Null /\ r \in FindUnspentCoinsByAsset(wallet.coins, Output(r).asset, Own)
        /\ Output(r).value >= 2
        /\ RelayAndSave(t)
    BY DEF Split
  <1>2. ChainInvariant /\ CoinsRight(wallet.coins, Made, OnChain)
    BY <1>1 DEF WalletInvariant, WalletRight
  <1>3. r \in Made
    BY <1>1, <1>2 DEF FindUnspentCoinsByAsset, CoinsRight
  <1>4. /\ t.kind = "contract" /\ t.ins = {r}
        /\ t.outs = [SplitToVouts(Output(r).asset, Output(r).value, 2) EXCEPT ![1].value = @ - fee]
    OBVIOUS
  <1> HIDE DEF t
  <1>5. 2 \in Nat \ {0}
    OBVIOUS
  <1>6. ValuesRight(t.outs) /\ Balanced(t)
    BY <1>1, <1>3, <1>4, <1>5, SplitBalanced
  <1> QED  BY <1>1, <1>2, <1>6, MoneyRelayed

LEMMA MoneyClaimed ==
    ASSUME WalletInvariant, ChainInvariant', MoneyRight, ClaimGas
    PROVE  MoneyRight'
  <1> DEFINE claims == GetUnclaimedCoins(wallet.coins)
             bonus == CalculateBonus(claims \cap Unclaimed)
             o == [asset |-> Gas, value |-> bonus, to |-> GetChangeAddress]
             t == [kind |-> "claim", ins |-> {}, claims |-> claims, made |-> 0, outs |-> <<o>>]
  <1>1. wallet # Null /\ RelayAndSave(t)
    BY DEF ClaimGas
  <1>2. ChainInvariant /\ CoinsRight(wallet.coins, Made, OnChain)
    BY <1>1 DEF WalletInvariant, WalletRight
  <1>3. claims \subseteq DOMAIN wallet.coins
    BY DEF GetUnclaimedCoins
  <1>4. o.asset = Gas
    OBVIOUS
  <1> HIDE DEF claims, o
  <1>5. t.kind = "claim" /\ t.claims = claims /\ t.outs = <<o>>
    OBVIOUS
  <1> HIDE DEF t
  <1>6. IsFiniteSet(t.claims)
    BY <1>2, <1>3, <1>5, FS_Subset DEF CoinsRight
  <1>7. Verify(t)
    BY <1>1 DEF RelayAndSave, Accepts
  <1>8. ValuesRight(t.outs) /\ Balanced(t)
    BY <1>2, <1>4, <1>5, <1>6, <1>7, ClaimBalanced
  <1> QED  BY <1>1, <1>2, <1>8, MoneyRelayed

LEMMA EditsNothingElse ==
    ASSUME EditStep
    PROVE  UNCHANGED <<chain, txs>>
  <1>1. \A addr : ImportKey(addr) => UNCHANGED <<chain, txs>>
    BY DEF ImportKey, Edit, StopInEdit
  <1>2. \A addr : ImportMultisigAddr(addr) => UNCHANGED <<chain, txs>>
    BY DEF ImportMultisigAddr, Edit, StopInEdit
  <1>3. \A addr : ImportWatchAddr(addr) => UNCHANGED <<chain, txs>>
    BY DEF ImportWatchAddr, Edit
  <1>4. \A addr : DeleteWalletAddress(addr) => UNCHANGED <<chain, txs>>
    BY DEF DeleteWalletAddress, Edit, StopInEdit
  <1>5. \A token : ImportToken(token) \/ DeleteToken(token) => UNCHANGED <<chain, txs>>
    BY DEF ImportToken, DeleteToken, Edit, StopInEdit
  <1> QED  BY <1>1, <1>2, <1>3, <1>4, <1>5 DEF EditStep

LEMMA MoneyNext ==
    ASSUME WalletInvariant, MoneyRight, [Next]_vars
    PROVE  MoneyRight'
  <1>1. ChainInvariant /\ ChainInvariant'
    BY NextIs DEF WalletInvariant
  <1>2. CASE UNCHANGED <<chain, txs>>
    BY <1>1, <1>2, MoneySame
  <1>3. CASE UserStep
    <2>1. CASE OpenWallet \/ CloseWallet \/ RebuildWallet \/ EditStep
      <3>1. UNCHANGED <<chain, txs>>
        BY <2>1, EditsNothingElse DEF OpenWallet, CloseWallet, RebuildWallet
      <3> QED  BY <1>2, <3>1
    <2>2. CASE \E asset \in {Share, Gas}, amount \in Amounts, fee \in Fees : Send(asset, amount, fee)
      BY <1>1, <2>2, MoneySent
    <2>3. CASE \E r \in Refs(OnChain), fee \in Fees : Split(r, 2, fee)
      BY <1>1, <2>3, MoneySplit
    <2>4. CASE ClaimGas
      BY <1>1, <2>4, MoneyClaimed
    <2> QED  BY <1>3, <2>1, <2>2, <2>3, <2>4 DEF UserStep
  <1>4. CASE SyncStep
    <2>1. UNCHANGED <<chain, txs>>
      BY <1>4 DEF SyncStep, StartSync, ContinueSync
    <2> QED  BY <1>2, <2>1
  <1>5. CASE BlockStep
    <2>1. PICK ids \in Minable : chain' = Append(chain, ids) /\ UNCHANGED txs
      BY <1>5 DEF BlockStep, PersistBlock
    <2> QED  BY <1>1, <2>1, MoneyInBlock
  <1>6. CASE StopStep
    <2>1. CASE Stop \/ StopInSync \/ StopInRebuild
      <3>1. UNCHANGED <<chain, txs>>
        BY <2>1 DEF Stop, StopInSync, StopInRebuild
      <3> QED  BY <1>2, <3>1
    <2>2. CASE \E ids \in Minable : StopInBlock(ids)
      <3>1. PICK ids \in Minable : chain' = Append(chain, ids) /\ UNCHANGED txs
        BY <2>2 DEF StopInBlock
      <3> QED  BY <1>1, <3>1, MoneyInBlock
    <2> QED  BY <1>6, <2>1, <2>2 DEF StopStep
  <1>7. CASE UNCHANGED vars
    <2>1. UNCHANGED <<chain, txs>>
      BY <1>7 DEF vars
    <2> QED  BY <1>2, <2>1
  <1> QED  BY <1>3, <1>4, <1>5, <1>6, <1>7 DEF Next

LEMMA MoneyAtFirst ==
    ASSUME Init
    PROVE  MoneyRight
  <1> DEFINE miner == [kind |-> "miner", ins |-> {}, claims |-> {}, made |-> 0, outs |-> Genesis]
             one == <<miner>>
  <1>1. chain = <<{1}>> /\ txs = one \o Strangers
    BY DEF Init
  <1>2. DOMAIN chain = {1} /\ chain[1] = {1}
    BY <1>1
  <1>3. one = [i \in 1 .. 1 |-> one[i]] /\ one[1] = miner
    OBVIOUS
  <1>4. miner.kind = "miner" /\ miner.ins = {} /\ miner.outs = Genesis
    OBVIOUS
  <1> HIDE DEF one, miner
  <1>5. IsSequence(one) /\ Len(one) = 1
    BY <1>3, IsASequence
  <1>6. IsSequence(Strangers)
    BY WalletAssumption DEF IsSequence
  <1>7. ToSet(one) = {miner}
    <2>1. DOMAIN one = {1}
      BY <1>5, SequenceIs
    <2> QED  BY <1>3, <2>1 DEF ToSet
  <1>8. /\ IsSequence(txs) /\ ToSet(txs) = {miner} \cup ToSet(Strangers)
        /\ \A i \in 1 .. Len(one) : txs[i] = one[i]
    BY <1>1, <1>5, <1>6, <1>7, ConcatIs
  <1>9. txs[1] = miner
    BY <1>3, <1>5, <1>8
  <1>10. Range(txs) = {miner} \cup Range(Strangers)
    BY <1>6, <1>8, SequenceIs
  <1>11. ASSUME NEW t \in Range(txs) PROVE ValuesRight(t.outs) /\ Balanced(t)
    <2>1. ASSUME NEW s, IsSequence(s), \A v \in Range(s) : v.value \in Nat
          PROVE  ValuesRight(s)
      BY <2>1, SequenceIs DEF ValuesRight
    <2>2. CASE t = miner
      <3>1. ValuesRight(Genesis)
        BY <2>1, WalletAssumption DEF IsSequence
      <3>2. Balanced(t)
        BY <1>4, <2>2 DEF Balanced
      <3> QED  BY <1>4, <2>2, <3>1, <3>2
    <2>3. CASE t \in Range(Strangers)
      <3>1. /\ t.kind # "contract" /\ t.kind # "claim"
            /\ IsSequence(t.outs) /\ \A v \in Range(t.outs) : v.value \in Nat
        BY <2>3, WalletAssumption DEF IsSequence
      <3>2. Balanced(t)
        BY <3>1 DEF Balanced
      <3> QED  BY <2>1, <3>1, <3>2
    <2> QED  BY <1>10, <2>2, <2>3
  <1>12. SpendsRight
    <2>1. SpentBy(chain[1]) = {}
      BY <1>2, <1>4, <1>9 DEF SpentBy
    <2> QED  BY <1>2, <2>1 DEF SpendsRight
  <1> QED  BY <1>11, <1>12 DEF MoneyRight

-----------------------------------------------------------------------------
(* What follows.                                                           *)

LEMMA InvariantHolds == Spec => []WalletInvariant
  BY InitIs, NextIs, PTL DEF Spec

\* What the node offers to other nodes from its pool and its relay cache is in no block,
\* and both hold the same: MemPool.add_transaction takes nothing that is in a block, and
\* OnPersistCompleted takes a block's transactions out of both.
THEOREM NothingOffered == Spec => []OffersUnconfirmed
  <1>1. WalletInvariant => OffersUnconfirmed
    BY DEF WalletInvariant
  <1> QED  BY <1>1, InvariantHolds, PTL

\* MakeTransaction and ClaimGas pick no coin twice in a session, although blocks are
\* processed in between and their transactions may or may not be in them: SaveTransaction
\* has marked what a transaction takes, and ProcessNewBlock brings no output back.
THEOREM NothingSpentTwice == Spec => []SpendsOnce
  <1>1. WalletInvariant => SpendsOnce
    BY DEF WalletInvariant
  <1> QED  BY <1>1, InvariantHolds, PTL

\* Each command, each block and each transaction changes the file by its row writes to
\* what LoadCoins and the other loaders would have to find of the memory.
THEOREM FileFollows == Spec => []RowsFollow
  <1>1. WalletInvariant => RowsFollow
    BY DEF WalletInvariant
  <1> QED  BY <1>1, InvariantHolds, PTL

\* No transaction that MakeTransaction, SplitUnspentCoin or ClaimGas make pays out more
\* than it takes and than the shares it claims have earned, whatever coins are chosen and
\* however the bonus is added up over the intervals.
THEOREM MoneyIsKept == Spec => []NothingCreated
  <1>1. Init => WalletInvariant /\ MoneyRight
    BY InitIs, MoneyAtFirst
  <1>2. WalletInvariant /\ MoneyRight /\ [Next]_vars => WalletInvariant' /\ MoneyRight'
    BY NextIs, MoneyNext
  <1>3. MoneyRight => NothingCreated
    BY DEF MoneyRight, Balanced, NothingCreated
  <1> QED  BY <1>1, <1>2, <1>3, PTL DEF Spec
=============================================================================
