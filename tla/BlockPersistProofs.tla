------------------------- MODULE BlockPersistProofs -------------------------
(***************************************************************************)
(* Proofs about BlockPersist, for every valid chain, every set of accounts *)
(* and assets and every number of stops and exceptions.                    *)
(*                                                                         *)
(* First the chain: which transactions come before which, and what that    *)
(* says of their coins.  Then what one transaction, and the commit, do to  *)
(* tables that are those of a set of transactions.  Then the invariants:   *)
(* of the rows of blocks and transactions, and of the tables.              *)
(***************************************************************************)
EXTENDS JsonRpc, FiniteSums, SequenceTheorems

-----------------------------------------------------------------------------
(* The chain.                                                              *)

LEMMA Heights ==
    /\ TopHeight \in Nat /\ Height = 0..TopHeight
    /\ \A h \in Height : /\ h \in Nat /\ h - 1 \in Int
                         /\ \A g \in 0..h : g \in Height
                         /\ \A g \in 0..(h - 1) : g \in Height
  BY ChainAssumption

LEMMA Blocks ==
    ASSUME NEW h \in Height
    PROVE  /\ Len(Chain[h]) \in Nat
           /\ DOMAIN Chain[h] = 1..Len(Chain[h])
           /\ Txs(h) = {Chain[h][i] : i \in 1..Len(Chain[h])}
           /\ Txs(h) \subseteq Tx
           /\ \A i \in 1..Len(Chain[h]) : Chain[h][i] \in Txs(h) /\ Chain[h][i] \in Tx
  <1>1. Chain[h] \in Seq(Txs(h))
    BY ChainAssumption
  <1>2. Len(Chain[h]) \in Nat /\ DOMAIN Chain[h] = 1..Len(Chain[h])
    BY <1>1, LenProperties
  <1>3. Txs(h) = {Chain[h][i] : i \in 1..Len(Chain[h])}
    BY <1>2 DEF Txs, Range
  <1>4. Txs(h) \subseteq Tx
    BY DEF Tx
  <1> QED  BY <1>2, <1>3, <1>4

LEMMA TxPosition ==
    ASSUME NEW tx \in Tx
    PROVE  \E h \in Height : \E i \in 1..Len(Chain[h]) : tx = Chain[h][i]
  <1>1. PICK h \in Height : tx \in Txs(h)
    BY DEF Tx
  <1> QED  BY <1>1, Blocks

\* The transaction j of block g comes before the transaction i of block h.
Earlier(g, j, h, i) == g < h \/ (g = h /\ j < i)

LEMMA BeforeMembers ==
    ASSUME NEW h \in Height, NEW i \in 1..(Len(Chain[h]) + 1)
    PROVE  /\ Before(h, i) \subseteq Tx
           /\ \A g \in Height : \A j \in 1..Len(Chain[g]) :
                  Earlier(g, j, h, i) => Chain[g][j] \in Before(h, i)
           /\ \A tx \in Before(h, i) :
                  \E g \in Height : \E j \in 1..Len(Chain[g]) : tx = Chain[g][j] /\ Earlier(g, j, h, i)
  <1>1. Len(Chain[h]) \in Nat /\ h \in Nat /\ i \in Nat
    BY Blocks, Heights
  <1>2. ASSUME NEW tx \in Before(h, i)
        PROVE  \E g \in Height : \E j \in 1..Len(Chain[g]) : tx = Chain[g][j] /\ Earlier(g, j, h, i)
    <2>1. CASE tx \in TxsUpTo(h - 1)
      <3>1. PICK g \in 0..(h - 1) : tx \in Txs(g)
        BY <2>1 DEF TxsUpTo
      <3>2. g \in Height /\ g < h
        BY <1>1, <3>1, Heights
      <3> QED  BY <3>1, <3>2, Blocks DEF Earlier
    <2>2. CASE tx \in {Chain[h][j] : j \in 1..(i - 1)}
      <3>1. PICK j \in 1..(i - 1) : tx = Chain[h][j]
        BY <2>2
      <3>2. j \in 1..Len(Chain[h]) /\ j < i
        BY <1>1, <3>1
      <3> QED  BY <3>1, <3>2 DEF Earlier
    <2> QED  BY <2>1, <2>2 DEF Before
  <1>3. ASSUME NEW g \in Height, NEW j \in 1..Len(Chain[g]), Earlier(g, j, h, i)
        PROVE  Chain[g][j] \in Before(h, i)
    <2>1. g \in Nat /\ Len(Chain[g]) \in Nat /\ Chain[g][j] \in Txs(g)
      BY Heights, Blocks
    <2>2. CASE g < h
      <3>1. g \in 0..(h - 1)
        BY <1>1, <2>1, <2>2
      <3> QED  BY <2>1, <3>1 DEF Before, TxsUpTo
    <2>3. CASE g = h /\ j < i
      <3>1. j \in 1..(i - 1)
        BY <1>1, <2>1, <2>3
      <3> QED  BY <2>3, <3>1 DEF Before
    <2> QED  BY <1>3, <2>2, <2>3 DEF Earlier
  <1>4. Before(h, i) \subseteq Tx
    BY <1>2, Blocks
  <1> QED  BY <1>2, <1>3, <1>4

\* The transactions before the next one, at the start and at the end of a block.
LEMMA BeforeGrows ==
    ASSUME NEW h \in Height
    PROVE  /\ Before(h, 1) = TxsUpTo(h - 1)
           /\ Before(h, Len(Chain[h]) + 1) = TxsUpTo(h)
           /\ \A i \in 1..Len(Chain[h]) : Before(h, i + 1) = Before(h, i) \union {Chain[h][i]}
  <1>1. Len(Chain[h]) \in Nat /\ h \in Nat
    BY Blocks, Heights
  <1>2. Before(h, 1) = TxsUpTo(h - 1)
    <2>1. 1..(1 - 1) = {}
      OBVIOUS
    <2> QED  BY <2>1 DEF Before
  <1>3. Before(h, Len(Chain[h]) + 1) = TxsUpTo(h)
    <2>1. 1..(Len(Chain[h]) + 1 - 1) = 1..Len(Chain[h])
      BY <1>1
    <2>2. {Chain[h][j] : j \in 1..(Len(Chain[h]) + 1 - 1)} = Txs(h)
      BY <2>1, Blocks
    <2>3. 0..h = (0..(h - 1)) \union {h}
      BY <1>1
    <2>4. TxsUpTo(h) = TxsUpTo(h - 1) \union Txs(h)
      BY <2>3 DEF TxsUpTo
    <2> QED  BY <2>2, <2>4 DEF Before
  <1>4. ASSUME NEW i \in 1..Len(Chain[h])
        PROVE  Before(h, i + 1) = Before(h, i) \union {Chain[h][i]}
    <2>1. 1..(i + 1 - 1) = (1..(i - 1)) \union {i}
      BY <1>1
    <2> QED  BY <2>1 DEF Before
  <1> QED  BY <1>2, <1>3, <1>4

\* Two transactions of the chain with one id are one.
LEMMA UniqueIds ==
    ASSUME NEW t \in Tx, NEW u \in Tx, t.id = u.id
    PROVE  t = u
  <1>1. PICK g \in Height : \E j \in 1..Len(Chain[g]) : t = Chain[g][j]
    BY TxPosition
  <1>2. PICK j \in 1..Len(Chain[g]) : t = Chain[g][j]
    BY <1>1
  <1>3. PICK h \in Height : \E i \in 1..Len(Chain[h]) : u = Chain[h][i]
    BY TxPosition
  <1>4. PICK i \in 1..Len(Chain[h]) : u = Chain[h][i]
    BY <1>3
  <1>5. /\ g \in Nat /\ h \in Nat
        /\ Len(Chain[g]) \in Nat /\ Len(Chain[h]) \in Nat
        /\ DOMAIN Chain[g] = 1..Len(Chain[g]) /\ DOMAIN Chain[h] = 1..Len(Chain[h])
    BY Blocks, Heights
  <1>6. ~ Earlier(g, j, h, i)
    <2>1. i \in 1..(Len(Chain[h]) + 1) /\ i \in DOMAIN Chain[h]
      BY <1>5
    <2>2. \A other \in Before(h, i) : other.id # u.id
      BY <1>4, <2>1, ValidChain
    <2> QED  BY <1>2, <2>1, <2>2, BeforeMembers
  <1>7. ~ Earlier(h, i, g, j)
    <2>1. j \in 1..(Len(Chain[g]) + 1) /\ j \in DOMAIN Chain[g]
      BY <1>5
    <2>2. \A other \in Before(g, j) : other.id # t.id
      BY <1>2, <2>1, ValidChain
    <2> QED  BY <1>4, <2>1, <2>2, BeforeMembers
  <1>8. g = h /\ j = i
    BY <1>5, <1>6, <1>7 DEF Earlier
  <1> QED  BY <1>2, <1>4, <1>8

-----------------------------------------------------------------------------
(* Coins.                                                                  *)

LEMMA CoinsOfTx ==
    ASSUME NEW tx \in Tx
    PROVE  /\ tx.id \in TxId
           /\ tx.outputs \in Seq(Outputs)
           /\ DOMAIN tx.outputs = 1..Len(tx.outputs) /\ Len(tx.outputs) \in Nat
           /\ CoinsOf(tx) \subseteq Coin
           /\ \A c \in CoinsOf(tx) : c[1] = tx.id /\ c[2] \in DOMAIN tx.outputs /\ c = <<c[1], c[2]>>
           /\ \A n \in DOMAIN tx.outputs : <<tx.id, n>> \in CoinsOf(tx)
           /\ \A c \in Coin : c[1] = tx.id => c \in CoinsOf(tx)
           /\ \A c \in CoinsOf(tx) : OutputOf(c) = tx.outputs[c[2]] /\ OutputOf(c) \in Outputs
  <1>1. tx.outputs \in Seq(Outputs)
    BY ChainAssumption
  <1>2. \A c \in CoinsOf(tx) : c[1] = tx.id /\ c[2] \in DOMAIN tx.outputs /\ c = <<c[1], c[2]>>
    BY DEF CoinsOf
  <1>3. ASSUME NEW c \in Coin, c[1] = tx.id
        PROVE  c \in CoinsOf(tx)
    <2>1. PICK u \in Tx : c \in CoinsOf(u)
      BY DEF Coin
    <2>2. u.id = tx.id
      BY <1>3, <2>1 DEF CoinsOf
    <2> QED  BY <2>1, <2>2, UniqueIds
  <1>4. ASSUME NEW c \in CoinsOf(tx)
        PROVE  OutputOf(c) = tx.outputs[c[2]] /\ OutputOf(c) \in Outputs
    <2>1. (CHOOSE u \in Tx : u.id = c[1]) = tx
      BY <1>2, UniqueIds
    <2>2. OutputOf(c) = tx.outputs[c[2]]
      BY <2>1 DEF OutputOf
    <2>3. tx.outputs[c[2]] \in Outputs
      <3>1. c[2] \in DOMAIN tx.outputs
        BY <1>2
      <3> HIDE DEF Outputs
      <3> QED  BY <1>1, <3>1, LenProperties, ElementOfSeq
    <2> QED  BY <2>2, <2>3
  <1>5. CoinsOf(tx) \subseteq Coin /\ tx.id \in TxId
    BY DEF Coin, TxId
  <1>6. DOMAIN tx.outputs = 1..Len(tx.outputs) /\ Len(tx.outputs) \in Nat
    BY <1>1, LenProperties
  <1> QED  BY <1>1, <1>2, <1>3, <1>4, <1>5, <1>6 DEF CoinsOf

LEMMA CoinShape ==
    ASSUME NEW c \in Coin
    PROVE  /\ c = <<c[1], c[2]>> /\ c[1] \in TxId
           /\ OutputOf(c) \in Outputs
           /\ ValueOf[c] \in Nat /\ ValueOf[c] = OutputOf(c).value
  <1>1. PICK tx \in Tx : c \in CoinsOf(tx)
    BY DEF Coin
  <1>2. OutputOf(c) \in Outputs
    BY <1>1, CoinsOfTx
  <1>3. OutputOf(c).value \in Nat
    BY <1>2 DEF Outputs
  <1> QED  BY <1>1, <1>2, <1>3, CoinsOfTx DEF ValueOf

LEMMA FiniteChain ==
    /\ IsFiniteSet(Tx)
    /\ IsFiniteSet(Coin)
    /\ \A txs \in SUBSET Tx : IsFiniteSet(txs)
    /\ \A coins \in SUBSET Coin : IsFiniteSet(coins)
  <1>1. \A h \in Height : IsFiniteSet(Txs(h))
    <2> TAKE h \in Height
    <2>1. IsFiniteSet(1..Len(Chain[h]))
      BY Blocks, FS_Interval
    <2> DEFINE at == [i \in 1..Len(Chain[h]) |-> Chain[h][i]]
    <2>2. {Chain[h][i] : i \in 1..Len(Chain[h])} = {at[i] : i \in 1..Len(Chain[h])}
      OBVIOUS
    <2>3. at \in [1..Len(Chain[h]) -> Txs(h)]
      BY Blocks
    <2> HIDE DEF at
    <2>4. at \in Surjection(1..Len(Chain[h]), Txs(h))
      <3>1. \A t \in Txs(h) : t \in {at[i] : i \in 1..Len(Chain[h])}
        BY <2>2, Blocks
      <3>2. \A t \in Txs(h) : \E i \in 1..Len(Chain[h]) : at[i] = t
        BY <3>1
      <3> QED  BY <2>3, <3>2 DEF Surjection
    <2> QED  BY <2>1, <2>4, FS_Surjection
  <1>2. IsFiniteSet({Txs(h) : h \in Height})
    <2>1. IsFiniteSet(Height)
      BY Heights, FS_Interval
    <2> DEFINE at == [h \in Height |-> Txs(h)]
    <2>2. at \in Surjection(Height, {Txs(h) : h \in Height})
      BY DEF Surjection
    <2> QED  BY <2>1, <2>2, FS_Surjection
  <1>3. IsFiniteSet(Tx)
    BY <1>1, <1>2, FS_UNION DEF Tx
  <1>4. \A tx \in Tx : IsFiniteSet(CoinsOf(tx))
    <2> TAKE tx \in Tx
    <2>1. IsFiniteSet(DOMAIN tx.outputs)
      BY CoinsOfTx, FS_Interval
    <2> DEFINE at == [n \in DOMAIN tx.outputs |-> <<tx.id, n>>]
    <2>2. at \in Surjection(DOMAIN tx.outputs, CoinsOf(tx))
      BY DEF Surjection, CoinsOf
    <2> QED  BY <2>1, <2>2, FS_Surjection
  <1>5. IsFiniteSet({CoinsOf(tx) : tx \in Tx})
    <2> DEFINE at == [tx \in Tx |-> CoinsOf(tx)]
    <2>1. at \in Surjection(Tx, {CoinsOf(tx) : tx \in Tx})
      BY DEF Surjection
    <2> QED  BY <1>3, <2>1, FS_Surjection
  <1>6. IsFiniteSet(Coin)
    BY <1>4, <1>5, FS_UNION DEF Coin
  <1> QED  BY <1>3, <1>6, FS_Subset

LEMMA MadeCoins ==
    ASSUME NEW txs \in SUBSET Tx
    PROVE  /\ Made(txs) \subseteq Coin
           /\ UnspentIn(txs) = Made(txs) \ SpentIn(txs)
           /\ UnspentIn(txs) \subseteq Coin
           /\ \A c \in Made(txs) : \E t \in txs : c[1] = t.id
           /\ \A tx \in Tx : (\A t \in txs : t.id # tx.id) => CoinsOf(tx) \intersect Made(txs) = {}
  <1>1. \A c \in Made(txs) : \E t \in txs : c[1] = t.id
    BY CoinsOfTx DEF Made
  <1>2. Made(txs) \subseteq Coin
    BY CoinsOfTx DEF Made
  <1>3. ASSUME NEW tx \in Tx, \A t \in txs : t.id # tx.id
        PROVE  CoinsOf(tx) \intersect Made(txs) = {}
    BY <1>1, <1>3, CoinsOfTx
  <1>4. UnspentIn(txs) = Made(txs) \ SpentIn(txs)
    BY DEF UnspentIn
  <1> QED  BY <1>1, <1>2, <1>3, <1>4

\* What the chain before a transaction says of it: all it spends and claims is of
\* coins made before, and nothing made before is spent or claimed but once.
LEMMA NextOfChain ==
    ASSUME NEW h \in Height, NEW i \in 1..Len(Chain[h])
    PROVE  LET tx == Chain[h][i]
               before == Before(h, i)
           IN  /\ tx \in Tx /\ before \subseteq Tx /\ tx \notin before
               /\ \A t \in before : t.id # tx.id
               /\ tx.inputs \subseteq UnspentIn(before)
               /\ tx.claims \subseteq SpentIn(before) \ ClaimsIn(before)
  <1>1. i \in DOMAIN Chain[h] /\ i \in 1..(Len(Chain[h]) + 1)
    BY Blocks
  <1>2. Chain[h][i] \in Tx /\ Before(h, i) \subseteq Tx
    BY <1>1, Blocks, BeforeMembers
  <1>3. /\ \A t \in Before(h, i) : t.id # Chain[h][i].id
        /\ Chain[h][i].inputs \subseteq UnspentIn(Before(h, i))
        /\ Chain[h][i].claims \subseteq SpentIn(Before(h, i)) \ ClaimsIn(Before(h, i))
    BY <1>1, ValidChain
  <1> QED  BY <1>2, <1>3

LEMMA EarlierGrows ==
    ASSUME NEW h \in Height, NEW i \in 1..(Len(Chain[h]) + 1), NEW t \in Before(h, i)
    PROVE  \E g \in Height : \E j \in 1..Len(Chain[g]) :
               t = Chain[g][j] /\ Before(g, j) \subseteq Before(h, i)
  <1>1. PICK g \in Height : \E j \in 1..Len(Chain[g]) : t = Chain[g][j] /\ Earlier(g, j, h, i)
    BY BeforeMembers
  <1>2. PICK j \in 1..Len(Chain[g]) : t = Chain[g][j] /\ Earlier(g, j, h, i)
    BY <1>1
  <1>3. g \in Nat /\ h \in Nat /\ Len(Chain[g]) \in Nat /\ Len(Chain[h]) \in Nat
    BY Blocks, Heights
  <1>4. ASSUME NEW u \in Before(g, j)
        PROVE  u \in Before(h, i)
    <2>1. j \in 1..(Len(Chain[g]) + 1)
      BY <1>3
    <2>2. PICK f \in Height : \E k \in 1..Len(Chain[f]) : u = Chain[f][k] /\ Earlier(f, k, g, j)
      BY <2>1, BeforeMembers
    <2>3. PICK k \in 1..Len(Chain[f]) : u = Chain[f][k] /\ Earlier(f, k, g, j)
      BY <2>2
    <2>4. f \in Nat /\ Len(Chain[f]) \in Nat
      BY Blocks, Heights
    <2>5. Earlier(f, k, h, i)
      BY <1>2, <1>3, <2>3, <2>4 DEF Earlier
    <2> QED  BY <2>3, <2>5, BeforeMembers
  <1> QED  BY <1>2, <1>4

LEMMA BeforeIsClosed ==
    ASSUME NEW h \in Height, NEW i \in 1..(Len(Chain[h]) + 1)
    PROVE  /\ Before(h, i) \subseteq Tx
           /\ SpentIn(Before(h, i)) \subseteq Made(Before(h, i))
           /\ ClaimsIn(Before(h, i)) \subseteq SpentIn(Before(h, i))
  <1>1. Before(h, i) \subseteq Tx
    BY BeforeMembers
  <1>2. ASSUME NEW t \in Before(h, i)
        PROVE  /\ t.inputs \subseteq Made(Before(h, i))
               /\ t.claims \subseteq SpentIn(Before(h, i))
    <2>1. PICK g \in Height : \E j \in 1..Len(Chain[g]) :
               t = Chain[g][j] /\ Before(g, j) \subseteq Before(h, i)
      BY EarlierGrows
    <2>2. PICK j \in 1..Len(Chain[g]) : t = Chain[g][j] /\ Before(g, j) \subseteq Before(h, i)
      BY <2>1
    <2>3. /\ t.inputs \subseteq UnspentIn(Before(g, j))
          /\ t.claims \subseteq SpentIn(Before(g, j))
      BY <2>2, NextOfChain
    <2>4. /\ UnspentIn(Before(g, j)) \subseteq Made(Before(h, i))
          /\ SpentIn(Before(g, j)) \subseteq SpentIn(Before(h, i))
      BY <2>2 DEF UnspentIn, Made, SpentIn
    <2> QED  BY <2>3, <2>4
  <1>3. SpentIn(Before(h, i)) \subseteq Made(Before(h, i))
    BY <1>2 DEF SpentIn
  <1>4. ClaimsIn(Before(h, i)) \subseteq SpentIn(Before(h, i))
    BY <1>2 DEF ClaimsIn
  <1> QED  BY <1>1, <1>3, <1>4

LEMMA SumsOfCoins ==
    ASSUME NEW txs, NEW tx
    PROVE  /\ Made(txs \union {tx}) = Made(txs) \union CoinsOf(tx)
           /\ SpentIn(txs \union {tx}) = SpentIn(txs) \union tx.inputs
           /\ ClaimsIn(txs \union {tx}) = ClaimsIn(txs) \union tx.claims
  BY DEF Made, SpentIn, ClaimsIn

\* What the next transaction of the chain does to the coins that are unspent.
LEMMA UnspentAfterNext ==
    ASSUME NEW h \in Height, NEW i \in 1..Len(Chain[h])
    PROVE  LET tx == Chain[h][i]
               before == Before(h, i)
           IN  /\ Before(h, i + 1) = before \union {tx}
               /\ tx.inputs \subseteq UnspentIn(before)
               /\ CoinsOf(tx) \intersect UnspentIn(before) = {}
               /\ CoinsOf(tx) \intersect tx.inputs = {}
               /\ UnspentIn(before \union {tx}) = (UnspentIn(before) \union CoinsOf(tx)) \ tx.inputs
  <1> DEFINE tx == Chain[h][i]
             before == Before(h, i)
  <1>1. /\ tx \in Tx /\ before \subseteq Tx
        /\ \A t \in before : t.id # tx.id
        /\ tx.inputs \subseteq UnspentIn(before)
    BY NextOfChain
  <1>2. Before(h, i + 1) = before \union {tx}
    BY BeforeGrows
  <1>3. SpentIn(before) \subseteq Made(before)
    <2>1. i \in 1..(Len(Chain[h]) + 1)
      BY Blocks
    <2> QED  BY <2>1, BeforeIsClosed
  <1> HIDE DEF tx, before
  <1>4. CoinsOf(tx) \intersect Made(before) = {}
    BY <1>1, MadeCoins
  <1>5. before \union {tx} \in SUBSET Tx
    BY <1>1
  <1>6. /\ UnspentIn(before) = Made(before) \ SpentIn(before)
        /\ UnspentIn(before \union {tx}) = Made(before \union {tx}) \ SpentIn(before \union {tx})
    BY <1>1, <1>5, MadeCoins
  <1>7. UnspentIn(before \union {tx}) = (UnspentIn(before) \union CoinsOf(tx)) \ tx.inputs
    <2>1. /\ Made(before \union {tx}) = Made(before) \union CoinsOf(tx)
          /\ SpentIn(before \union {tx}) = SpentIn(before) \union tx.inputs
      BY SumsOfCoins
    <2>2. \A c : c \in UnspentIn(before \union {tx}) <=>
                     c \in (UnspentIn(before) \union CoinsOf(tx)) \ tx.inputs
      BY <1>3, <1>4, <1>6, <2>1
    <2> QED  BY <2>2
  <1>8. CoinsOf(tx) \intersect tx.inputs = {} /\ CoinsOf(tx) \intersect UnspentIn(before) = {}
    BY <1>1, <1>4, <1>6
  <1> QED  BY <1>1, <1>2, <1>7, <1>8 DEF tx, before

-----------------------------------------------------------------------------
(* Rows of coins.                                                          *)

\* A row without an output left is deleted by the next commit only.
HasRows(rows, coins) ==
    \A id \in TxId :
        IF OutputsIn(coins, id) = {} THEN rows[id] \in {Null, {}} ELSE rows[id] = OutputsIn(coins, id)

LEMMA OutputsInCoins ==
    ASSUME NEW coins \in SUBSET Coin, NEW id \in TxId
    PROVE  /\ \A n : n \in OutputsIn(coins, id) <=> <<id, n>> \in coins
           /\ OutputsIn(coins, id) # Null
           /\ Null # {}
  <1>1. ASSUME NEW n, n \in OutputsIn(coins, id)
        PROVE  <<id, n>> \in coins
    <2>1. PICK c \in coins : c[1] = id /\ n = c[2]
      BY <1>1 DEF OutputsIn
    <2>2. c = <<c[1], c[2]>>
      BY CoinShape
    <2> QED  BY <2>1, <2>2
  <1>2. ASSUME NEW n, <<id, n>> \in coins
        PROVE  n \in OutputsIn(coins, id)
    <2>1. <<id, n>>[1] = id /\ <<id, n>>[2] = n
      OBVIOUS
    <2> QED  BY <1>2, <2>1 DEF OutputsIn
  <1>3. OutputsIn(coins, id) \in SUBSET UNION {DOMAIN tx.outputs : tx \in Tx}
    <2>1. ASSUME NEW n \in OutputsIn(coins, id)
          PROVE  \E tx \in Tx : n \in DOMAIN tx.outputs
      <3>1. <<id, n>> \in Coin /\ <<id, n>>[2] = n
        BY <1>1
      <3>2. PICK tx \in Tx : <<id, n>> \in CoinsOf(tx)
        BY <3>1 DEF Coin
      <3> QED  BY <3>1, <3>2, CoinsOfTx
    <2> QED  BY <2>1
  <1>4. {} \in SUBSET UNION {DOMAIN tx.outputs : tx \in Tx}
    OBVIOUS
  <1> QED  BY <1>1, <1>2, <1>3, <1>4, NullAssumption

LEMMA RowsOfCoins ==
    ASSUME NEW coins \in SUBSET Coin
    PROVE  HasRows(RowsOf(coins), coins)
  BY DEF HasRows, RowsOf

\* Spending and making coins changes the rows as it changes the coins.
LEMMA SpendRows ==
    ASSUME NEW tx \in Tx, NEW coins \in SUBSET Coin, NEW t, HasRows(t.coins, coins)
    PROVE  HasRows(Spend(t, tx), (coins \union CoinsOf(tx)) \ tx.inputs)
  <1> DEFINE after == (coins \union CoinsOf(tx)) \ tx.inputs
             items(id) == IF id = tx.id THEN DOMAIN tx.outputs ELSE t.coins[id]
             left(id) == {n \in items(id) : <<id, n>> \notin tx.inputs}
  <1>1. after \in SUBSET Coin
    BY CoinsOfTx
  <1>2. ASSUME NEW id \in TxId
        PROVE  Spend(t, tx)[id] = IF items(id) = Null THEN Null ELSE left(id)
    BY DEF Spend
  <1>3. ASSUME NEW id \in TxId
        PROVE  IF OutputsIn(after, id) = {} THEN Spend(t, tx)[id] \in {Null, {}}
                                           ELSE Spend(t, tx)[id] = OutputsIn(after, id)
    <2>1. \A n : n \in OutputsIn(after, id) <=>
                  (<<id, n>> \in coins \/ <<id, n>> \in CoinsOf(tx)) /\ <<id, n>> \notin tx.inputs
      BY <1>1, OutputsInCoins
    <2>2. \A n : n \in OutputsIn(coins, id) <=> <<id, n>> \in coins
      BY OutputsInCoins
    <2> HIDE DEF after
    <2>3. CASE id = tx.id
      <3>1. \A n : <<id, n>> \in CoinsOf(tx) <=> n \in DOMAIN tx.outputs
        BY <2>3, CoinsOfTx
      <3>2. \A n : <<id, n>> \in coins => <<id, n>> \in CoinsOf(tx)
        BY <2>3, CoinsOfTx
      <3>3. \A n : n \in OutputsIn(after, id) <=> n \in left(id)
        BY <2>1, <2>3, <3>1, <3>2
      <3>4. OutputsIn(after, id) = left(id)
        BY <3>3
      <3>5. items(id) # Null
        BY <2>3, NullAssumption
      <3> QED  BY <1>2, <3>4, <3>5
    <2>4. CASE id # tx.id
      <3>1. \A n : <<id, n>> \notin CoinsOf(tx)
        BY <2>4, CoinsOfTx
      <3>2. \A n : n \in OutputsIn(after, id) <=> n \in OutputsIn(coins, id) /\ <<id, n>> \notin tx.inputs
        BY <2>1, <2>2, <3>1
      <3>3. items(id) = t.coins[id]
        BY <2>4
      <3>4. CASE OutputsIn(coins, id) = {}
        <4>1. OutputsIn(after, id) = {}
          BY <3>2, <3>4
        <4>2. t.coins[id] \in {Null, {}}
          BY <3>4 DEF HasRows
        <4> QED  BY <1>2, <3>3, <4>1, <4>2
      <3>5. CASE OutputsIn(coins, id) # {}
        <4>1. t.coins[id] = OutputsIn(coins, id)
          BY <3>5 DEF HasRows
        <4>2. items(id) # Null
          BY <3>3, <4>1, OutputsInCoins
        <4>3. OutputsIn(after, id) = left(id)
          BY <3>2, <3>3, <4>1
        <4> QED  BY <1>2, <4>2, <4>3
      <3> QED  BY <3>4, <3>5
    <2> QED  BY <2>3, <2>4
  <1> QED  BY <1>3 DEF HasRows

-----------------------------------------------------------------------------
(* Tables that are those of some transactions.                             *)

IsTables(t) == t = [coins |-> t.coins, spent |-> t.spent, balance |-> t.balance, storage |-> t.storage]

MatchesTxs(t, txs) ==
    /\ HasRows(t.coins, UnspentIn(txs))
    /\ t.spent = LedgerOf(txs).spent
    /\ t.balance = LedgerOf(txs).balance
    /\ t.storage = LedgerOf(txs).storage

LEMMA LedgerMatches ==
    ASSUME NEW txs \in SUBSET Tx
    PROVE  IsTables(LedgerOf(txs)) /\ MatchesTxs(LedgerOf(txs), txs)
  <1>1. UnspentIn(txs) \in SUBSET Coin
    BY MadeCoins
  <1> QED  BY <1>1, RowsOfCoins DEF LedgerOf, MatchesTxs, IsTables

LEMMA WorthOfCoins ==
    ASSUME NEW a \in Account, NEW s \in Asset, NEW coins \in SUBSET Coin
    PROVE  /\ Owned(coins, a, s) \in SUBSET Coin
           /\ IsFiniteSet(Owned(coins, a, s))
           /\ \A c \in Owned(coins, a, s) : ValueOf[c] \in Nat
           /\ Worth(coins, a, s) \in Nat
  <1>1. Owned(coins, a, s) \in SUBSET Coin
    BY DEF Owned
  <1>2. IsFiniteSet(Owned(coins, a, s)) /\ \A c \in Owned(coins, a, s) : ValueOf[c] \in Nat
    BY <1>1, FiniteChain, CoinShape
  <1> QED  BY <1>1, <1>2, SumIsNat DEF Worth

\* What an account has grows by the coins made for it and shrinks by those spent.
LEMMA WorthAfter ==
    ASSUME NEW a \in Account, NEW s \in Asset,
           NEW coins \in SUBSET Coin, NEW made \in SUBSET Coin, NEW gone \in SUBSET coins,
           coins \intersect made = {}, gone \intersect made = {}
    PROVE  Worth((coins \union made) \ gone, a, s) = Worth(coins, a, s) + Worth(made, a, s) - Worth(gone, a, s)
  <1> DEFINE A == Owned(coins, a, s)
             B == Owned(made, a, s)
             C == Owned(gone, a, s)
  <1>1. Owned((coins \union made) \ gone, a, s) = (A \union B) \ C
    BY DEF Owned
  <1>2. A \intersect B = {} /\ C \in SUBSET (A \union B)
    BY DEF Owned
  <1>3. /\ IsFiniteSet(A) /\ IsFiniteSet(B)
        /\ \A c \in A \union B : ValueOf[c] \in Int
    BY WorthOfCoins
  <1>4. IsFiniteSet(A \union B)
    BY <1>3, FS_Union
  <1> HIDE DEF A, B, C
  <1>5. SumFunctionOnSet(ValueOf, A \union B) = SumFunctionOnSet(ValueOf, A) + SumFunctionOnSet(ValueOf, B)
    BY <1>2, <1>3, SumUnion
  <1>6. SumFunctionOnSet(ValueOf, (A \union B) \ C) =
            SumFunctionOnSet(ValueOf, A \union B) - SumFunctionOnSet(ValueOf, C)
    BY <1>2, <1>3, <1>4, SumDifference
  <1>7. /\ Worth((coins \union made) \ gone, a, s) = SumFunctionOnSet(ValueOf, (A \union B) \ C)
        /\ Worth(coins, a, s) = SumFunctionOnSet(ValueOf, A)
        /\ Worth(made, a, s) = SumFunctionOnSet(ValueOf, B)
        /\ Worth(gone, a, s) = SumFunctionOnSet(ValueOf, C)
    BY <1>1 DEF Worth, A, B, C
  <1>8. Worth(coins, a, s) \in Nat /\ Worth(made, a, s) \in Nat /\ Worth(gone, a, s) \in Nat
    BY WorthOfCoins
  <1> QED  BY <1>5, <1>6, <1>7, <1>8

LEMMA TransferMatches ==
    ASSUME NEW h \in Height, NEW i \in 1..Len(Chain[h]), NEW t, MatchesTxs(t, Before(h, i))
    PROVE  Transfer(t, Chain[h][i]) = LedgerOf(Before(h, i + 1)).balance
  <1> DEFINE tx == Chain[h][i]
             U == UnspentIn(Before(h, i))
             V == UnspentIn(Before(h, i + 1))
  <1>1. /\ tx.inputs \in SUBSET U
        /\ CoinsOf(tx) \intersect U = {} /\ CoinsOf(tx) \intersect tx.inputs = {}
        /\ V = (U \union CoinsOf(tx)) \ tx.inputs
    BY UnspentAfterNext
  <1>2. U \in SUBSET Coin /\ CoinsOf(tx) \in SUBSET Coin
    BY NextOfChain, MadeCoins, CoinsOfTx
  <1>3. t.balance = [a \in Account |-> [s \in Asset |-> Worth(U, a, s)]]
    BY DEF MatchesTxs, LedgerOf
  <1> HIDE DEF tx, U, V
  <1>4. \A a \in Account : \A s \in Asset :
            Worth(V, a, s) = t.balance[a][s] + Worth(CoinsOf(tx), a, s) - Worth(tx.inputs, a, s)
    BY <1>1, <1>2, <1>3, WorthAfter
  <1>5. Transfer(t, tx) = [a \in Account |-> [s \in Asset |-> Worth(V, a, s)]]
    BY <1>4 DEF Transfer
  <1> QED  BY <1>5 DEF LedgerOf, tx, V

LEMMA ClaimableMatches ==
    ASSUME NEW h \in Height, NEW i \in 1..Len(Chain[h]), NEW t, MatchesTxs(t, Before(h, i))
    PROVE  Claimable(t, Chain[h][i]) = LedgerOf(Before(h, i + 1)).spent
  <1> DEFINE tx == Chain[h][i]
             S == SpentIn(Before(h, i))
             C == ClaimsIn(Before(h, i))
             entry(c, s, d) == IF c \in s \ d /\ OutputOf(c).asset = Share THEN 1 ELSE 0
  <1>1. tx.inputs \intersect S = {} /\ tx.claims \subseteq S \ C
    <2>1. tx.inputs \subseteq UnspentIn(Before(h, i)) /\ tx.claims \subseteq S \ C
      BY NextOfChain
    <2> QED  BY <2>1 DEF UnspentIn
  <1>2. C \subseteq S
    <2>1. i \in 1..(Len(Chain[h]) + 1)
      BY Blocks
    <2> QED  BY <2>1, BeforeIsClosed
  <1>3. SpentIn(Before(h, i + 1)) = S \union tx.inputs /\ ClaimsIn(Before(h, i + 1)) = C \union tx.claims
    <2>1. Before(h, i + 1) = Before(h, i) \union {tx}
      BY BeforeGrows
    <2> QED  BY <2>1, SumsOfCoins
  <1>4. t.spent = [c \in Coin |-> entry(c, S, C)]
    BY DEF MatchesTxs, LedgerOf
  <1>5. LedgerOf(Before(h, i + 1)).spent = [c \in Coin |-> entry(c, S \union tx.inputs, C \union tx.claims)]
    BY <1>3 DEF LedgerOf
  <1> HIDE DEF tx, S, C
  <1>6. \A c \in Coin : Claimable(t, tx)[c] = entry(c, S \union tx.inputs, C \union tx.claims)
    <2> TAKE c \in Coin
    <2>1. t.spent[c] = entry(c, S, C)
      BY <1>4
    <2> QED  BY <1>1, <1>2, <2>1 DEF Claimable
  <1>7. Claimable(t, tx) = [c \in Coin |-> Claimable(t, tx)[c]]
    BY DEF Claimable
  <1>8. Claimable(t, tx) = [c \in Coin |-> entry(c, S \union tx.inputs, C \union tx.claims)]
    BY <1>6, <1>7
  <1> QED  BY <1>5, <1>8 DEF tx

Halting(txs) == {tx \in txs : tx.kind = "invocation" /\ tx.halts}

LEMMA InvokeMatches ==
    ASSUME NEW h \in Height, NEW i \in 1..Len(Chain[h]), NEW t, MatchesTxs(t, Before(h, i))
    PROVE  Invoke(t, Chain[h][i]) = LedgerOf(Before(h, i + 1)).storage
  <1> DEFINE tx == Chain[h][i]
             before == Before(h, i)
  <1>1. tx \in Tx /\ before \subseteq Tx /\ tx \notin before
    BY NextOfChain
  <1>2. Before(h, i + 1) = before \union {tx}
    BY BeforeGrows
  <1> HIDE DEF tx, before
  <1>3. t.storage = Cardinality(Halting(before))
    BY DEF MatchesTxs, LedgerOf, Halting, before
  <1>4. IsFiniteSet(Halting(before)) /\ tx \notin Halting(before)
    BY <1>1, FiniteChain DEF Halting
  <1>5. CASE tx.kind = "invocation" /\ tx.halts
    <2>1. Halting(before \union {tx}) = Halting(before) \union {tx}
      BY <1>5 DEF Halting
    <2>2. Cardinality(Halting(before) \union {tx}) = Cardinality(Halting(before)) + 1
      BY <1>4, FS_AddElement
    <2>3. Invoke(t, tx) = t.storage + 1
      BY <1>5 DEF Invoke
    <2> QED  BY <1>2, <1>3, <2>1, <2>2, <2>3 DEF LedgerOf, Halting, tx
  <1>6. CASE ~ (tx.kind = "invocation" /\ tx.halts)
    <2>1. Halting(before \union {tx}) = Halting(before)
      BY <1>6 DEF Halting
    <2>2. Invoke(t, tx) = t.storage
      BY <1>6 DEF Invoke
    <2> QED  BY <1>2, <1>3, <2>1, <2>2 DEF LedgerOf, Halting, tx
  <1> QED  BY <1>5, <1>6

\* The tables after the next transaction are those of the chain up to it.
LEMMA ApplyMatches ==
    ASSUME NEW h \in Height, NEW i \in 1..Len(Chain[h]), NEW t, MatchesTxs(t, Before(h, i))
    PROVE  /\ IsTables(Apply(t, Chain[h][i]))
           /\ MatchesTxs(Apply(t, Chain[h][i]), Before(h, i + 1))
  <1>1. HasRows(Spend(t, Chain[h][i]), UnspentIn(Before(h, i + 1)))
    <2>1. Chain[h][i] \in Tx /\ UnspentIn(Before(h, i)) \in SUBSET Coin
      BY NextOfChain, MadeCoins
    <2>2. HasRows(t.coins, UnspentIn(Before(h, i)))
      BY DEF MatchesTxs
    <2>3. HasRows(Spend(t, Chain[h][i]),
                  (UnspentIn(Before(h, i)) \union CoinsOf(Chain[h][i])) \ Chain[h][i].inputs)
      BY <2>1, <2>2, SpendRows
    <2> QED  BY <2>3, UnspentAfterNext
  <1> QED  BY <1>1, TransferMatches, ClaimableMatches, InvokeMatches DEF Apply, MatchesTxs, IsTables

LEMMA CommitIsTables ==
    ASSUME NEW t, IsTables(t)
    PROVE  IsTables(Commit(t))
  <1> DEFINE c == [id \in TxId |-> IF t.coins[id] = {} THEN Null ELSE t.coins[id]]
             b == [a \in Account |-> IF \A s \in Asset : t.balance[a][s] <= 0
                                     THEN [s \in Asset |-> 0] ELSE t.balance[a]]
             Rows == [coins : {t.coins, c}, spent : {t.spent},
                      balance : {t.balance, b}, storage : {t.storage}]
  <1>1. Commit(t) = [t EXCEPT !.coins = c, !.balance = b]
    BY DEF Commit
  <1> HIDE DEF c, b
  <1>2. t \in Rows
    BY DEF IsTables
  <1>3. Commit(t) \in Rows
    BY <1>1, <1>2
  <1>4. \A u \in Rows : u = [coins |-> u.coins, spent |-> u.spent, balance |-> u.balance, storage |-> u.storage]
    OBVIOUS
  <1> HIDE DEF Rows
  <1> QED  BY <1>3, <1>4 DEF IsTables

LEMMA CommitRows ==
    ASSUME NEW t, IsTables(t), NEW coins \in SUBSET Coin, HasRows(t.coins, coins)
    PROVE  IsTables(Commit(t)) /\ Commit(t).coins = RowsOf(coins)
  <1>1. Commit(t).coins = [id \in TxId |-> IF t.coins[id] = {} THEN Null ELSE t.coins[id]]
    BY DEF Commit, IsTables
  <1>2. \A id \in TxId : (IF t.coins[id] = {} THEN Null ELSE t.coins[id]) =
                          (IF OutputsIn(coins, id) = {} THEN Null ELSE OutputsIn(coins, id))
    BY DEF HasRows
  <1>3. IsTables(Commit(t))
    BY CommitIsTables
  <1> QED  BY <1>1, <1>2, <1>3 DEF RowsOf

\* The commit deletes what is spent altogether and the accounts that have nothing.
LEMMA CommitMatches ==
    ASSUME NEW t, IsTables(t), NEW txs \in SUBSET Tx, MatchesTxs(t, txs)
    PROVE  Commit(t) = LedgerOf(txs)
  <1>1. UnspentIn(txs) \in SUBSET Coin
    BY MadeCoins
  <1>2. IsTables(Commit(t)) /\ Commit(t).coins = RowsOf(UnspentIn(txs))
    BY <1>1, CommitRows DEF MatchesTxs
  <1>3. Commit(t).balance = LedgerOf(txs).balance
    <2> DEFINE b == [a \in Account |-> [s \in Asset |-> Worth(UnspentIn(txs), a, s)]]
    <2>1. t.balance = b /\ LedgerOf(txs).balance = b
      BY DEF MatchesTxs, LedgerOf
    <2>2. Commit(t).balance = [a \in Account |-> IF \A s \in Asset : t.balance[a][s] <= 0
                                                 THEN [s \in Asset |-> 0] ELSE t.balance[a]]
      BY DEF Commit, IsTables
    <2>3. \A a \in Account : \A s \in Asset : b[a][s] \in Nat
      BY <1>1, WorthOfCoins
    <2>4. \A a \in Account : b[a] = [s \in Asset |-> b[a][s]]
      OBVIOUS
    <2>5. b = [a \in Account |-> b[a]]
      OBVIOUS
    <2> HIDE DEF b
    <2>6. \A a \in Account : (\A s \in Asset : b[a][s] <= 0) => b[a] = [s \in Asset |-> 0]
      <3> TAKE a \in Account
      <3> HAVE \A s \in Asset : b[a][s] <= 0
      <3>1. \A s \in Asset : b[a][s] = 0
        BY <2>3
      <3> QED  BY <2>4, <3>1
    <2>7. \A a \in Account : (IF \A s \in Asset : b[a][s] <= 0 THEN [s \in Asset |-> 0] ELSE b[a]) = b[a]
      BY <2>6
    <2> QED  BY <2>1, <2>2, <2>5, <2>7
  <1>4. Commit(t).spent = LedgerOf(txs).spent /\ Commit(t).storage = LedgerOf(txs).storage
    BY DEF Commit, IsTables, MatchesTxs
  <1>5. LedgerOf(txs).coins = RowsOf(UnspentIn(txs)) /\ IsTables(LedgerOf(txs))
    BY DEF LedgerOf, IsTables
  <1> QED  BY <1>2, <1>3, <1>4, <1>5 DEF IsTables

-----------------------------------------------------------------------------
(* The invariants.                                                         *)

\* Where Persist is: always at the block after the stored height, with the rows of
\* the transactions that are done with.
Place ==
    /\ current \in Height
    /\ running \in BOOLEAN
    /\ ~running => phase = "idle"
    /\ running => height = current
    /\ phase \in {"idle", "txs", "await", "finish"}
    /\ phase # "idle" =>
          /\ persisting \in Height /\ persisting = current + 1
          /\ done \in 0..Len(Chain[persisting])
          /\ sysfee = TotalFees(TxsUpTo(persisting))
          /\ \A j \in 1..done : Chain[persisting][j].id \in txRows
    /\ phase = "await" => done < Len(Chain[persisting])
    /\ phase = "finish" => done = Len(Chain[persisting])

BlockRow == [fee : Nat, whole : BOOLEAN]

HistoryInvariant ==
    /\ Place
    /\ blockRow \in [Height -> BlockRow \union {Null}]
    /\ HistoryComplete

\* The first k transactions of a block; the coins that are unspent when these follow
\* the blocks before, and when they follow the block itself.
FirstOf(p, k) == {Chain[p][j] : j \in 1..k}
CoinsAfter(p, k) == UnspentIn(Before(p, k + 1))
CoinsAgain(p, k) == (UnspentIn(TxsUpTo(p)) \union Made(FirstOf(p, k))) \ SpentIn(FirstOf(p, k))

HasApplied(t, p, k) ==
    /\ IsTables(t)
    /\ HasRows(t.coins, CoinsAfter(p, k)) \/ HasRows(t.coins, CoinsAgain(p, k))

\* How many transactions the snapshot has: that of the await is in it, and not done.
Applied == IF phase = "await" THEN done + 1 ELSE done

\* The tables are those of the stored blocks, of one more between the two batches; only
\* a stop there puts them out of step, and then not their coins.
TablesInvariant ==
    /\ IsTables(tables)
    /\ ~torn => tables = LedgerOf(TxsUpTo(IF phase = "finish" THEN current + 1 ELSE current))
    /\ \E h \in {current, current + 1} \intersect Height : tables.coins = RowsOf(UnspentIn(TxsUpTo(h)))
    /\ phase = "finish" => tables.coins = RowsOf(UnspentIn(TxsUpTo(current + 1)))
    /\ phase \in {"txs", "await"} =>
          /\ HasApplied(snapshot, persisting, Applied)
          /\ ~torn => MatchesTxs(snapshot, Before(persisting, Applied + 1))

LEMMA UpTo ==
    /\ TxsUpTo(0) = Txs(0)
    /\ \A h \in Height : TxsUpTo(h) \in SUBSET Tx /\ Txs(h) \in SUBSET Tx /\ Txs(h) \subseteq TxsUpTo(h)
    /\ \A h \in Height : h + 1 \in Height =>
            /\ TxsUpTo(h + 1) = TxsUpTo(h) \union Txs(h + 1)
            /\ TxsUpTo(h) \intersect Txs(h + 1) = {}
            /\ Before(h + 1, 1) = TxsUpTo(h)
  <1>1. TxsUpTo(0) = Txs(0)
    <2>1. 0..0 = {0}
      OBVIOUS
    <2> QED  BY <2>1 DEF TxsUpTo
  <1>2. ASSUME NEW h \in Height
        PROVE  TxsUpTo(h) \in SUBSET Tx /\ Txs(h) \in SUBSET Tx /\ Txs(h) \subseteq TxsUpTo(h)
    <2>1. h \in 0..h /\ \A g \in 0..h : g \in Height
      BY Heights
    <2>2. \A g \in 0..h : Txs(g) \subseteq Tx
      BY <2>1, Blocks
    <2> QED  BY <2>1, <2>2 DEF TxsUpTo
  <1>3. ASSUME NEW h \in Height, h + 1 \in Height
        PROVE  /\ TxsUpTo(h + 1) = TxsUpTo(h) \union Txs(h + 1)
               /\ TxsUpTo(h) \intersect Txs(h + 1) = {}
               /\ Before(h + 1, 1) = TxsUpTo(h)
    <2>1. h \in Nat /\ h + 1 - 1 = h
      BY Heights
    <2>2. 0..(h + 1) = (0..h) \union {h + 1}
      BY <2>1
    <2>3. TxsUpTo(h + 1) = TxsUpTo(h) \union Txs(h + 1)
      BY <2>2 DEF TxsUpTo
    <2>4. Before(h + 1, 1) = TxsUpTo(h)
      BY <1>3, <2>1, BeforeGrows
    <2>5. ASSUME NEW tx \in Txs(h + 1)
          PROVE  tx \notin TxsUpTo(h)
      <3>1. PICK i \in 1..Len(Chain[h + 1]) : tx = Chain[h + 1][i]
        BY <1>3, Blocks
      <3>2. tx \notin Before(h + 1, i)
        BY <1>3, <3>1, NextOfChain
      <3>3. TxsUpTo(h) \subseteq Before(h + 1, i)
        BY <2>1 DEF Before
      <3> QED  BY <3>2, <3>3
    <2> QED  BY <2>3, <2>4, <2>5
  <1> QED  BY <1>1, <1>2, <1>3

LEMMA Fees ==
    /\ \A h \in Height : TotalFees(Txs(h)) \in Nat /\ TotalFees(TxsUpTo(h)) \in Nat
    /\ \A h \in Height : h + 1 \in Height =>
            TotalFees(TxsUpTo(h + 1)) = TotalFees(TxsUpTo(h)) + TotalFees(Txs(h + 1))
  <1>1. \A txs \in SUBSET Tx : IsFiniteSet(txs) /\ \A tx \in txs : FeeOf[tx] \in Nat /\ FeeOf[tx] \in Int
    BY FiniteChain, ChainAssumption DEF FeeOf
  <1>2. ASSUME NEW h \in Height
        PROVE  TotalFees(Txs(h)) \in Nat /\ TotalFees(TxsUpTo(h)) \in Nat
    <2>1. TxsUpTo(h) \in SUBSET Tx /\ Txs(h) \in SUBSET Tx
      BY UpTo
    <2> QED  BY <1>1, <2>1, SumIsNat DEF TotalFees
  <1>3. ASSUME NEW h \in Height, h + 1 \in Height
        PROVE  TotalFees(TxsUpTo(h + 1)) = TotalFees(TxsUpTo(h)) + TotalFees(Txs(h + 1))
    <2> DEFINE S == TxsUpTo(h)
               T == Txs(h + 1)
    <2>1. S \in SUBSET Tx /\ T \in SUBSET Tx /\ S \intersect T = {} /\ TxsUpTo(h + 1) = S \union T
      BY <1>3, UpTo
    <2> HIDE DEF S, T
    <2>2. /\ IsFiniteSet(S) /\ IsFiniteSet(T)
          /\ \A tx \in S \union T : FeeOf[tx] \in Int
      BY <1>1, <2>1
    <2>3. SumFunctionOnSet(FeeOf, S \union T) = SumFunctionOnSet(FeeOf, S) + SumFunctionOnSet(FeeOf, T)
      BY <2>1, <2>2, SumUnion
    <2> QED  BY <2>1, <2>3 DEF TotalFees, S, T
  <1> QED  BY <1>2, <1>3

LEMMA HistoryInit == Init => HistoryInvariant
  <1> SUFFICES ASSUME Init PROVE HistoryInvariant
    OBVIOUS
  <1> USE DEF Init
  <1>1. 0 \in Height
    BY Heights
  <1>2. Place
    BY <1>1 DEF Place
  <1>3. TotalFees(Txs(0)) \in Nat
    BY <1>1, Fees
  <1>4. blockRow \in [Height -> BlockRow \union {Null}]
    BY <1>3 DEF BlockRow, Row
  <1>5. HistoryComplete
    <2>1. 0..current = {0}
      OBVIOUS
    <2> QED  BY <1>1, <2>1, UpTo DEF HistoryComplete
  <1> QED  BY <1>2, <1>4, <1>5 DEF HistoryInvariant

\* A header's row is written where there is none, which is above the stored height.
LEMMA HeaderKeeps ==
    ASSUME HistoryInvariant, NEW h \in Height, OnAddHeader(h), UNCHANGED <<current, txRows>>
    PROVE  /\ blockRow' \in [Height -> BlockRow \union {Null}]
           /\ HistoryComplete'
  <1>1. blockRow' = [blockRow EXCEPT ![h] = IF blockRow[h] = Null THEN Row(0, FALSE) ELSE blockRow[h]]
    BY DEF OnAddHeader, HeaderRow
  <1>2. blockRow \in [Height -> BlockRow \union {Null}] /\ current \in Height
    BY DEF HistoryInvariant, Place
  <1>3. Row(0, FALSE) \in BlockRow
    BY DEF Row, BlockRow
  <1>4. blockRow' \in [Height -> BlockRow \union {Null}]
    BY <1>1, <1>2, <1>3
  <1>5. \A g \in 0..current : g \in Height
    BY <1>2, Heights
  <1>6. \A g \in 0..current : blockRow[g] = Row(TotalFees(TxsUpTo(g)), TRUE) /\ blockRow[g] # Null
    <2> TAKE g \in 0..current
    <2>1. TotalFees(TxsUpTo(g)) \in Nat
      BY <1>5, Fees
    <2>2. blockRow[g] = Row(TotalFees(TxsUpTo(g)), TRUE)
      BY DEF HistoryInvariant, HistoryComplete
    <2>3. Row(TotalFees(TxsUpTo(g)), TRUE) \in BlockRow
      BY <2>1 DEF Row, BlockRow
    <2> QED  BY <2>2, <2>3, NullAssumption DEF BlockRow
  <1>7. \A g \in 0..current : blockRow'[g] = blockRow[g]
    BY <1>1, <1>2, <1>5, <1>6
  <1>8. HistoryComplete'
    BY <1>6, <1>7 DEF HistoryInvariant, HistoryComplete
  <1> QED  BY <1>4, <1>8

\* A step that keeps the stored blocks, and adds rows of transactions at most.
LEMMA HistoryKept ==
    ASSUME HistoryInvariant, Place', UNCHANGED <<blockRow, current>>, txRows \subseteq txRows'
    PROVE  HistoryInvariant'
  BY DEF HistoryInvariant, HistoryComplete

LEMMA HistoryStep == HistoryInvariant /\ [Next]_vars => HistoryInvariant'
  <1> SUFFICES ASSUME HistoryInvariant, [Next]_vars PROVE HistoryInvariant'
    OBVIOUS
  <1>p. Place /\ HistoryComplete /\ current \in Height /\ current \in Nat
    BY Heights DEF HistoryInvariant, Place
  <1>1. ASSUME NEW h \in Height, AddHeader(h)
        PROVE  HistoryInvariant'
    <2>1. Place'
      BY <1>1, <1>p DEF AddHeader, Place, task, OnAddHeader
    <2> QED  BY <1>1, <2>1, HeaderKeeps DEF AddHeader, HistoryInvariant
  <1>2. ASSUME NEW h \in Height, BeginPersist(h)
        PROVE  HistoryInvariant'
    <2>1. h = current + 1 /\ h - 1 = current
      BY <1>2, <1>p DEF BeginPersist, Expects, Place
    <2>2. /\ blockRow' \in [Height -> BlockRow \union {Null}]
          /\ HistoryComplete'
      <3>1. CASE h = headers
        BY <1>2, <3>1, HeaderKeeps DEF BeginPersist
      <3>2. CASE h # headers
        <4>1. UNCHANGED <<blockRow, current, txRows>>
          BY <1>2, <3>2 DEF BeginPersist
        <4> QED  BY <4>1 DEF HistoryInvariant, HistoryComplete
      <3> QED  BY <3>1, <3>2
    <2>3. sysfee' = TotalFees(TxsUpTo(h))
      <3>1. TotalFees(TxsUpTo(current)) \in Nat
        BY <1>p, Fees
      <3>2. blockRow[current] = Row(TotalFees(TxsUpTo(current)), TRUE)
        <4>1. current \in 0..current
          BY <1>p
        <4> QED  BY <1>p, <4>1 DEF HistoryComplete
      <3>3. Row(TotalFees(TxsUpTo(current)), TRUE) \in BlockRow
        BY <3>1 DEF Row, BlockRow
      <3>4. blockRow[current] # Null
        BY <3>2, <3>3, NullAssumption DEF BlockRow
      <3>5. SysFeeBefore(h) = TotalFees(TxsUpTo(current))
        BY <2>1, <3>2, <3>4 DEF SysFeeBefore, Row
      <3> QED  BY <1>2, <1>p, <2>1, <3>5, Fees DEF BeginPersist
    <2>4. Len(Chain[h]) \in Nat
      BY Blocks
    <2>5. Place'
      BY <1>2, <1>p, <2>1, <2>3, <2>4 DEF BeginPersist, Place
    <2> QED  BY <2>2, <2>5 DEF HistoryInvariant
  <1>3. CASE PersistTx
    <2>1. Place'
      BY <1>3, <1>p, Blocks DEF PersistTx, MoreTxs, NextTx, Place
    <2> QED  BY <1>3, <2>1, HistoryKept DEF PersistTx
  <1>4. CASE PersistInvocation
    <2>1. Place'
      BY <1>4, <1>p, Blocks DEF PersistInvocation, MoreTxs, NextTx, Place, disk
    <2> QED  BY <1>4, <2>1, HistoryKept DEF PersistInvocation, disk
  <1>5. CASE Resume
    <2>1. Place'
      BY <1>5, <1>p, Blocks DEF Resume, NextTx, Place
    <2> QED  BY <1>5, <2>1, HistoryKept DEF Resume
  <1>6. CASE PersistRaises
    <2>1. Place'
      BY <1>6, <1>p DEF PersistRaises, Abandon, Place, disk
    <2> QED  BY <1>6, <2>1, HistoryKept DEF PersistRaises, Abandon, disk
  <1>7. CASE PersistInterrupted
    <2>1. Place'
      BY <1>7, <1>p DEF PersistInterrupted, Abandon, Place, disk
    <2> QED  BY <1>7, <2>1, HistoryKept DEF PersistInterrupted, Abandon, disk
  <1>8. CASE CommitSnapshot
    <2>1. Place'
      BY <1>8, <1>p DEF CommitSnapshot, Place
    <2> QED  BY <1>8, <2>1, HistoryKept DEF CommitSnapshot
  <1>9. CASE Finish
    <2>1. /\ persisting \in Height /\ persisting = current + 1 /\ current' = persisting
          /\ done = Len(Chain[persisting]) /\ sysfee = TotalFees(TxsUpTo(persisting))
          /\ \A j \in 1..done : Chain[persisting][j].id \in txRows
          /\ blockRow' = [blockRow EXCEPT ![persisting] = Row(sysfee, TRUE)] /\ txRows' = txRows
      BY <1>9, <1>p DEF Finish, Place
    <2>2. Place'
      BY <1>9, <1>p, <2>1 DEF Finish, Place
    <2>3. blockRow \in [Height -> BlockRow \union {Null}]
      BY DEF HistoryInvariant
    <2>4. blockRow' \in [Height -> BlockRow \union {Null}]
      <3>1. Row(sysfee, TRUE) \in BlockRow
        BY <2>1, Fees DEF Row, BlockRow
      <3> QED  BY <2>1, <2>3, <3>1
    <2>5. ASSUME NEW g \in 0..current'
          PROVE  /\ blockRow'[g] = Row(TotalFees(TxsUpTo(g)), TRUE)
                 /\ \A tx \in Txs(g) : tx.id \in txRows'
      <3>1. CASE g = persisting
        <4>1. blockRow'[g] = Row(TotalFees(TxsUpTo(g)), TRUE)
          BY <2>1, <2>3, <3>1
        <4>2. \A tx \in Txs(g) : tx.id \in txRows'
          BY <2>1, <3>1, Blocks
        <4> QED  BY <4>1, <4>2
      <3>2. CASE g # persisting
        <4>1. g \in 0..current
          BY <1>p, <2>1, <3>2
        <4>2. blockRow'[g] = blockRow[g]
          BY <2>1, <2>3, <3>2, <4>1, <1>p, Heights
        <4> QED  BY <1>p, <2>1, <4>1, <4>2 DEF HistoryComplete
      <3> QED  BY <3>1, <3>2
    <2> QED  BY <2>2, <2>4, <2>5 DEF HistoryInvariant, HistoryComplete
  <1>10. CASE Stop
    <2>1. Place'
      BY <1>10, <1>p DEF Stop, Place, disk
    <2> QED  BY <1>10, <2>1, HistoryKept DEF Stop, disk
  <1>11. CASE Start
    <2>1. Place'
      BY <1>11, <1>p DEF Start, Place, disk, task
    <2> QED  BY <1>11, <2>1, HistoryKept DEF Start, disk
  <1>12. CASE UNCHANGED vars
    <2>1. Place'
      BY <1>12, <1>p DEF vars, disk, task, Place
    <2> QED  BY <1>12, <2>1, HistoryKept DEF vars, disk
  <1> QED
    BY <1>1, <1>2, <1>3, <1>4, <1>5, <1>6, <1>7, <1>8, <1>9, <1>10, <1>11, <1>12
    DEF Next, PersistStep

THEOREM PlaceAndHistory == Spec => []HistoryInvariant
  BY HistoryInit, HistoryStep, PTL DEF Spec

\* The rows of the blocks up to the stored height, with the fees of the chain, and those
\* of all their transactions are there at any time, whatever the stops and exceptions.
THEOREM HistoryStaysComplete == Spec => []HistoryComplete
  <1>1. HistoryInvariant => HistoryComplete
    BY DEF HistoryInvariant
  <1> QED  BY <1>1, PlaceAndHistory, PTL

-----------------------------------------------------------------------------
(* The tables.                                                             *)

LEMMA FirstOfBlock ==
    ASSUME NEW p \in Height
    PROVE  /\ FirstOf(p, 0) = {}
           /\ FirstOf(p, Len(Chain[p])) = Txs(p)
           /\ \A k \in 0..Len(Chain[p]) : FirstOf(p, k) \in SUBSET Tx
           /\ \A k \in 0..(Len(Chain[p]) - 1) :
                  /\ k + 1 \in 1..Len(Chain[p]) /\ k + 1 \in 1..(Len(Chain[p]) + 1)
                  /\ FirstOf(p, k + 1) = FirstOf(p, k) \union {Chain[p][k + 1]}
  <1>1. Len(Chain[p]) \in Nat /\ \A i \in 1..Len(Chain[p]) : Chain[p][i] \in Tx
    BY Blocks
  <1>2. FirstOf(p, 0) = {}
    BY DEF FirstOf
  <1>3. FirstOf(p, Len(Chain[p])) = Txs(p)
    BY Blocks DEF FirstOf
  <1>4. \A k \in 0..Len(Chain[p]) : FirstOf(p, k) \in SUBSET Tx
    BY <1>1 DEF FirstOf
  <1>5. ASSUME NEW k \in 0..(Len(Chain[p]) - 1)
        PROVE  /\ k + 1 \in 1..Len(Chain[p]) /\ k + 1 \in 1..(Len(Chain[p]) + 1)
               /\ FirstOf(p, k + 1) = FirstOf(p, k) \union {Chain[p][k + 1]}
    <2>1. 1..(k + 1) = (1..k) \union {k + 1}
      OBVIOUS
    <2> QED  BY <1>1, <2>1 DEF FirstOf
  <1> QED  BY <1>2, <1>3, <1>4, <1>5

\* A block that is persisted again starts from, and comes back to, the coins after it.
LEMMA CoinsAgainEnds ==
    ASSUME NEW p \in Height
    PROVE  /\ CoinsAgain(p, 0) = UnspentIn(TxsUpTo(p))
           /\ CoinsAgain(p, Len(Chain[p])) = UnspentIn(TxsUpTo(p))
           /\ CoinsAfter(p, Len(Chain[p])) = UnspentIn(TxsUpTo(p))
           /\ CoinsAfter(p, 0) = UnspentIn(TxsUpTo(p - 1))
  <1> DEFINE all == TxsUpTo(p)
             before == Before(p, 1)
             block == Txs(p)
  <1>1. CoinsAgain(p, 0) = UnspentIn(all)
    <2>1. Made({}) = {} /\ SpentIn({}) = {}
      BY DEF Made, SpentIn
    <2> QED  BY <2>1, FirstOfBlock DEF CoinsAgain
  <1>2. CoinsAfter(p, Len(Chain[p])) = UnspentIn(all) /\ CoinsAfter(p, 0) = UnspentIn(TxsUpTo(p - 1))
    BY BeforeGrows DEF CoinsAfter
  <1>3. /\ before \in SUBSET Tx /\ block \in SUBSET Tx /\ all \in SUBSET Tx
        /\ all = before \union block /\ before = TxsUpTo(p - 1)
    <2>1. before = TxsUpTo(p - 1)
      BY BeforeGrows
    <2>2. p \in Nat
      BY Heights
    <2>3. 0..p = (0..(p - 1)) \union {p}
      BY <2>2
    <2>4. all = before \union block
      BY <2>1, <2>3 DEF TxsUpTo
    <2> QED  BY <2>1, <2>4, UpTo
  <1>4. SpentIn(before) \subseteq Made(before)
    <2>1. Len(Chain[p]) \in Nat
      BY Blocks
    <2> QED  BY <2>1, BeforeIsClosed
  <1>5. Made(block) \intersect Made(before) = {}
    <2>1. ASSUME NEW tx \in block
          PROVE  \A t \in before : t.id # tx.id
      <3>1. PICK i \in 1..Len(Chain[p]) : tx = Chain[p][i]
        BY Blocks
      <3>2. \A t \in Before(p, i) : t.id # tx.id
        BY <3>1, NextOfChain
      <3>3. before \subseteq Before(p, i)
        BY <1>3 DEF Before
      <3> QED  BY <3>2, <3>3
    <2>2. \A tx \in block : CoinsOf(tx) \intersect Made(before) = {}
      BY <1>3, <2>1, MadeCoins
    <2>3. \A c \in Made(block) : \E tx \in block : c \in CoinsOf(tx)
      BY DEF Made
    <2> QED  BY <2>2, <2>3
  <1>6. /\ Made(all) = Made(before) \union Made(block)
        /\ SpentIn(all) = SpentIn(before) \union SpentIn(block)
    BY <1>3 DEF Made, SpentIn
  <1>7. /\ UnspentIn(all) = Made(all) \ SpentIn(all)
        /\ CoinsAgain(p, Len(Chain[p])) = (UnspentIn(all) \union Made(block)) \ SpentIn(block)
    BY <1>3, MadeCoins, FirstOfBlock DEF CoinsAgain
  <1> HIDE DEF all, before, block
  <1>8. \A c : c \in CoinsAgain(p, Len(Chain[p])) <=> c \in UnspentIn(all)
    BY <1>4, <1>5, <1>6, <1>7
  <1>9. CoinsAgain(p, Len(Chain[p])) = UnspentIn(all)
    BY <1>8
  <1> QED  BY <1>1, <1>2, <1>9 DEF all

\* Each transaction takes the coins one step further, whichever these are.
LEMMA AppliesNext ==
    ASSUME NEW p \in Height, NEW k \in 0..(Len(Chain[p]) - 1), NEW t, HasApplied(t, p, k)
    PROVE  HasApplied(Apply(t, Chain[p][k + 1]), p, k + 1)
  <1> DEFINE tx == Chain[p][k + 1]
  <1>1. k + 1 \in 1..Len(Chain[p])
    BY FirstOfBlock
  <1>2. tx \in Tx /\ Before(p, k + 1) \in SUBSET Tx
    BY <1>1, NextOfChain
  <1>3. Apply(t, tx).coins = Spend(t, tx) /\ IsTables(Apply(t, tx))
    BY DEF Apply, IsTables
  <1>4. CASE HasRows(t.coins, CoinsAfter(p, k))
    <2>1. CoinsAfter(p, k) \in SUBSET Coin
      BY <1>2, MadeCoins DEF CoinsAfter
    <2>2. HasRows(Spend(t, tx), (CoinsAfter(p, k) \union CoinsOf(tx)) \ tx.inputs)
      BY <1>2, <1>4, <2>1, SpendRows
    <2>3. CoinsAfter(p, k + 1) = (CoinsAfter(p, k) \union CoinsOf(tx)) \ tx.inputs
      BY <1>1, UnspentAfterNext DEF CoinsAfter
    <2> QED  BY <1>3, <2>2, <2>3 DEF HasApplied
  <1>5. CASE HasRows(t.coins, CoinsAgain(p, k))
    <2> DEFINE all == UnspentIn(TxsUpTo(p))
               first == FirstOf(p, k)
    <2>1. k \in 0..Len(Chain[p]) /\ first \in SUBSET Tx
      BY Blocks, FirstOfBlock
    <2>2. CoinsAgain(p, k) \in SUBSET Coin
      BY <2>1, MadeCoins, UpTo DEF CoinsAgain
    <2>3. HasRows(Spend(t, tx), (CoinsAgain(p, k) \union CoinsOf(tx)) \ tx.inputs)
      BY <1>2, <1>5, <2>2, SpendRows
    <2>4. FirstOf(p, k + 1) = first \union {tx}
      BY FirstOfBlock
    <2>5. /\ CoinsAgain(p, k) = (all \union Made(first)) \ SpentIn(first)
          /\ CoinsAgain(p, k + 1) = (all \union (Made(first) \union CoinsOf(tx))) \ (SpentIn(first) \union tx.inputs)
      <3>1. /\ Made(first \union {tx}) = Made(first) \union CoinsOf(tx)
            /\ SpentIn(first \union {tx}) = SpentIn(first) \union tx.inputs
        BY SumsOfCoins
      <3>2. CoinsAgain(p, k + 1) = (all \union Made(FirstOf(p, k + 1))) \ SpentIn(FirstOf(p, k + 1))
        BY DEF CoinsAgain
      <3>3. CoinsAgain(p, k) = (all \union Made(first)) \ SpentIn(first)
        BY DEF CoinsAgain
      <3> HIDE DEF all, first, tx
      <3> QED  BY <2>4, <3>1, <3>2, <3>3
    <2>6. CoinsOf(tx) \intersect SpentIn(first) = {}
      <3>1. /\ SpentIn(Before(p, k + 1)) \subseteq Made(Before(p, k + 1))
            /\ \A u \in Before(p, k + 1) : u.id # tx.id
        BY <1>1, FirstOfBlock, BeforeIsClosed, NextOfChain
      <3>2. CoinsOf(tx) \intersect Made(Before(p, k + 1)) = {}
        BY <1>2, <3>1, MadeCoins
      <3>3. k + 1 - 1 = k
        OBVIOUS
      <3>4. first \subseteq Before(p, k + 1)
        BY <3>3 DEF FirstOf, Before
      <3>5. SpentIn(first) \subseteq SpentIn(Before(p, k + 1))
        BY <3>4 DEF SpentIn
      <3> QED  BY <3>1, <3>2, <3>5
    <2> HIDE DEF all, first, tx
    <2>7. \A c : c \in CoinsAgain(p, k + 1) <=> c \in (CoinsAgain(p, k) \union CoinsOf(tx)) \ tx.inputs
      BY <2>5, <2>6
    <2>8. CoinsAgain(p, k + 1) = (CoinsAgain(p, k) \union CoinsOf(tx)) \ tx.inputs
      BY <2>7
    <2> QED  BY <1>3, <2>3, <2>8 DEF HasApplied, tx
  <1> QED  BY <1>4, <1>5 DEF HasApplied

LEMMA TablesInit == Init => TablesInvariant
  <1> SUFFICES ASSUME Init PROVE TablesInvariant
    OBVIOUS
  <1>1. 0 \in Height /\ TxsUpTo(0) = Txs(0) /\ TxsUpTo(0) \in SUBSET Tx
    BY Heights, UpTo
  <1>2. tables = LedgerOf(TxsUpTo(0)) /\ IsTables(tables) /\ current = 0 /\ phase = "idle"
    BY <1>1, LedgerMatches DEF Init
  <1>3. LedgerOf(TxsUpTo(0)).coins = RowsOf(UnspentIn(TxsUpTo(0)))
    BY DEF LedgerOf
  <1>4. 0 \in {current, current + 1} \intersect Height
    BY <1>1, <1>2
  <1> QED  BY <1>2, <1>3, <1>4 DEF TablesInvariant

\* A step that keeps the tables and the height, and leaves Persist idle.
LEMMA TablesKept ==
    ASSUME TablesInvariant, UNCHANGED <<tables, current>>, phase' = "idle", phase # "finish" \/ torn',
           torn => torn'
    PROVE  TablesInvariant'
  BY DEF TablesInvariant

LEMMA LedgerCoins == \A txs : LedgerOf(txs).coins = RowsOf(UnspentIn(txs))
  BY DEF LedgerOf

\* What a block's snapshot starts from.
LEMMA SnapshotStarts ==
    ASSUME Place, TablesInvariant, phase = "idle", NEW p \in Height, p = current + 1
    PROVE  HasApplied(tables, p, 0) /\ (~torn => MatchesTxs(tables, Before(p, 1)))
  <1>1. current \in Height /\ current \in Nat /\ p - 1 = current
    BY Heights DEF Place
  <1>2. Before(p, 1) = TxsUpTo(current) /\ TxsUpTo(current) \in SUBSET Tx
    BY <1>1, UpTo
  <1>3. /\ CoinsAfter(p, 0) = UnspentIn(TxsUpTo(current))
        /\ CoinsAgain(p, 0) = UnspentIn(TxsUpTo(p))
    BY <1>1, CoinsAgainEnds
  <1>4. \A h \in Height : HasRows(RowsOf(UnspentIn(TxsUpTo(h))), UnspentIn(TxsUpTo(h)))
    BY UpTo, MadeCoins, RowsOfCoins
  <1>5. PICK h \in {current, current + 1} \intersect Height : tables.coins = RowsOf(UnspentIn(TxsUpTo(h)))
    BY DEF TablesInvariant
  <1>6. HasRows(tables.coins, CoinsAfter(p, 0)) \/ HasRows(tables.coins, CoinsAgain(p, 0))
    BY <1>3, <1>4, <1>5
  <1>7. ~torn => MatchesTxs(tables, Before(p, 1))
    BY <1>2, LedgerMatches DEF TablesInvariant
  <1> QED  BY <1>6, <1>7 DEF HasApplied, TablesInvariant

\* A transaction of the block goes into the snapshot.
LEMMA SnapshotApplies ==
    ASSUME Place, TablesInvariant, MoreTxs, snapshot' = Apply(snapshot, NextTx)
    PROVE  /\ persisting \in Height
           /\ HasApplied(snapshot', persisting, done + 1)
           /\ ~torn => MatchesTxs(snapshot', Before(persisting, done + 1 + 1))
  <1>1. /\ persisting \in Height /\ done \in 0..Len(Chain[persisting])
        /\ done < Len(Chain[persisting]) /\ Len(Chain[persisting]) \in Nat /\ Applied = done
    BY Blocks DEF Place, MoreTxs, Applied
  <1>2. done \in 0..(Len(Chain[persisting]) - 1) /\ done + 1 \in 1..Len(Chain[persisting])
    BY <1>1
  <1>3. /\ HasApplied(snapshot, persisting, done)
        /\ ~torn => MatchesTxs(snapshot, Before(persisting, done + 1))
    BY <1>1 DEF TablesInvariant, MoreTxs
  <1>4. snapshot' = Apply(snapshot, Chain[persisting][done + 1])
    BY DEF NextTx
  <1>5. HasApplied(snapshot', persisting, done + 1)
    BY <1>1, <1>2, <1>3, <1>4, AppliesNext
  <1>6. ~torn => MatchesTxs(snapshot', Before(persisting, done + 1 + 1))
    BY <1>1, <1>2, <1>3, <1>4, ApplyMatches
  <1> QED  BY <1>1, <1>5, <1>6

\* Nothing but the snapshot changes while transactions are applied.
LEMMA TablesStay ==
    ASSUME TablesInvariant, UNCHANGED <<tables, current, torn>>,
           phase # "finish", phase' \in {"txs", "await"},
           HasApplied(snapshot', persisting', Applied'),
           ~torn => MatchesTxs(snapshot', Before(persisting', Applied' + 1))
    PROVE  TablesInvariant'
  BY DEF TablesInvariant

LEMMA TablesStep == HistoryInvariant /\ TablesInvariant /\ [Next]_vars => TablesInvariant'
  <1> SUFFICES ASSUME HistoryInvariant, TablesInvariant, [Next]_vars PROVE TablesInvariant'
    OBVIOUS
  <1>p. Place /\ current \in Height /\ current \in Nat
    BY Heights DEF HistoryInvariant, Place
  <1>1. ASSUME NEW h \in Height, AddHeader(h)
        PROVE  TablesInvariant'
    BY <1>1 DEF AddHeader, task, history, TablesInvariant, Applied
  <1>2. ASSUME NEW h \in Height, BeginPersist(h)
        PROVE  TablesInvariant'
    <2>1. h = current + 1
      BY <1>2, <1>p DEF BeginPersist, Expects, Place
    <2>2. HasApplied(tables, h, 0) /\ (~torn => MatchesTxs(tables, Before(h, 1)))
      BY <1>2, <1>p, <2>1, SnapshotStarts DEF BeginPersist
    <2>3. /\ snapshot' = tables /\ persisting' = h /\ Applied' = 0 /\ 0 + 1 = 1
          /\ phase = "idle" /\ phase' = "txs"
          /\ UNCHANGED <<tables, current, torn>>
      BY <1>2 DEF BeginPersist, Applied, history
    <2> QED  BY <2>2, <2>3, TablesStay
  <1>3. CASE PersistTx
    <2>1. /\ snapshot' = Apply(snapshot, NextTx) /\ MoreTxs
          /\ persisting' = persisting /\ Applied' = done + 1
          /\ phase = "txs" /\ phase' = "txs"
          /\ UNCHANGED <<tables, current, torn>>
      BY <1>3 DEF PersistTx, MoreTxs, Applied, history
    <2> QED  BY <1>p, <2>1, SnapshotApplies, TablesStay
  <1>4. CASE PersistInvocation
    <2>1. /\ snapshot' = Apply(snapshot, NextTx) /\ MoreTxs
          /\ persisting' = persisting /\ Applied' = done + 1
          /\ phase = "txs" /\ phase' = "await"
          /\ UNCHANGED <<tables, current, torn>>
      BY <1>4 DEF PersistInvocation, MoreTxs, Applied, history, disk
    <2> QED  BY <1>p, <2>1, SnapshotApplies, TablesStay
  <1>5. CASE Resume
    <2>1. /\ UNCHANGED <<tables, current, torn, snapshot, persisting>>
          /\ phase = "await" /\ phase' = "txs" /\ Applied' = Applied
      BY <1>5 DEF Resume, Applied, history
    <2> QED  BY <2>1 DEF TablesInvariant
  <1>6. CASE PersistRaises
    BY <1>6, TablesKept DEF PersistRaises, Abandon, MoreTxs, disk
  <1>7. CASE PersistInterrupted
    BY <1>7, TablesKept DEF PersistInterrupted, Abandon, MoreTxs, disk
  <1>8. CASE CommitSnapshot
    <2>1. /\ persisting \in Height /\ persisting = current + 1
          /\ done = Len(Chain[persisting]) /\ Applied = done
          /\ tables' = Commit(snapshot) /\ phase' = "finish"
          /\ UNCHANGED <<current, torn>>
      BY <1>8, <1>p DEF CommitSnapshot, Place, Applied, history
    <2> DEFINE all == TxsUpTo(persisting)
    <2>2. /\ CoinsAfter(persisting, done) = UnspentIn(all)
          /\ CoinsAgain(persisting, done) = UnspentIn(all)
          /\ Before(persisting, done + 1) = all
          /\ all \in SUBSET Tx /\ UnspentIn(all) \in SUBSET Coin
      BY <2>1, CoinsAgainEnds, BeforeGrows, UpTo, MadeCoins
    <2>3. /\ IsTables(snapshot) /\ HasRows(snapshot.coins, UnspentIn(all))
          /\ ~torn => MatchesTxs(snapshot, all)
      BY <1>8, <2>1, <2>2 DEF CommitSnapshot, TablesInvariant, HasApplied
    <2>4. IsTables(tables') /\ tables'.coins = RowsOf(UnspentIn(all))
      BY <2>1, <2>2, <2>3, CommitRows
    <2>5. ~torn => tables' = LedgerOf(all)
      BY <2>1, <2>2, <2>3, CommitMatches
    <2>6. current + 1 \in {current', current' + 1} \intersect Height
      BY <2>1
    <2> QED  BY <2>1, <2>4, <2>5, <2>6 DEF TablesInvariant
  <1>9. CASE Finish
    <2>1. /\ current + 1 \in Height /\ current' = current + 1
          /\ phase = "finish" /\ phase' = "idle"
          /\ UNCHANGED <<tables, torn>>
      BY <1>9, <1>p DEF Finish, Place, history
    <2>2. current' \in {current', current' + 1} \intersect Height
      BY <2>1
    <2> QED  BY <2>1, <2>2 DEF TablesInvariant
  <1>10. CASE Stop
    BY <1>10, TablesKept DEF Stop, disk
  <1>11. CASE Start
    <2>1. phase = "idle" /\ phase' = "idle" /\ UNCHANGED <<tables, current, torn>>
      BY <1>11, <1>p DEF Start, Place, disk, task, history
    <2> QED  BY <2>1, TablesKept
  <1>12. CASE UNCHANGED vars
    BY <1>12 DEF vars, disk, task, history, TablesInvariant, Applied
  <1> QED
    BY <1>1, <1>2, <1>3, <1>4, <1>5, <1>6, <1>7, <1>8, <1>9, <1>10, <1>11, <1>12
    DEF Next, PersistStep

THEOREM TablesOfChain == Spec => []TablesInvariant
  BY TablesInit, TablesStep, PlaceAndHistory, PTL DEF Spec

\* What a reader of the tables sees when no commit is half done is the state of exactly
\* the stored blocks, computed from the chain without order or batches; the unspent
\* outputs stay those of the stored chain or of one block more even after a stop between
\* the two batches of a block and a second application of it.
THEOREM TablesMatchChain == Spec => []StateMatchesChain
  <1>1. TablesInvariant => StateMatchesChain
    BY LedgerCoins DEF TablesInvariant, StateMatchesChain
  <1> QED  BY <1>1, TablesOfChain, PTL

-----------------------------------------------------------------------------
(* The answers of JsonRpc fit each other, for every valid chain and any     *)
(* stops and exceptions: what the queries of ChainQueries read, one answer  *)
(* at a time, and then what a client makes of several of them.              *)

-----------------------------------------------------------------------------
(* What the queries rely on beside the history of the stored blocks.       *)

\* Only a stored block has a row that the block follows.
RowsAhead == \A h \in Height : h > current => blockRow[h] = Null \/ ~blockRow[h].whole

AnswerInvariant ==
    /\ headers \in Nat /\ lastHeader \in Nat
    /\ RowsAhead

LEMMA AnswerInit == Init => AnswerInvariant
  <1> SUFFICES ASSUME Init PROVE AnswerInvariant
    OBVIOUS
  <1>1. \A h \in Height : h \in Nat
    BY Heights
  <1>2. RowsAhead
    <2>1. current = 0 /\ \A h \in Height : h # 0 => blockRow[h] = Null
      BY DEF Init
    <2> QED  BY <1>1, <2>1 DEF RowsAhead
  <1> QED  BY <1>2 DEF Init, AnswerInvariant

LEMMA HeaderAnswers ==
    ASSUME HistoryInvariant, AnswerInvariant, NEW h \in Height, OnAddHeader(h), current' = current
    PROVE  AnswerInvariant'
  <1>1. h \in Nat
    BY Heights
  <1>2. blockRow \in [Height -> BlockRow \union {Null}]
    BY DEF HistoryInvariant
  <1>3. blockRow' = [blockRow EXCEPT ![h] = IF blockRow[h] = Null THEN Row(0, FALSE) ELSE blockRow[h]]
    BY DEF OnAddHeader, HeaderRow
  <1>4. ~Row(0, FALSE).whole
    BY DEF Row
  <1>5. RowsAhead'
    BY <1>2, <1>3, <1>4 DEF RowsAhead, AnswerInvariant
  <1> QED  BY <1>1, <1>5 DEF AnswerInvariant, OnAddHeader

LEMMA AnswersKept ==
    ASSUME AnswerInvariant, UNCHANGED <<headers, lastHeader, blockRow, current>>
    PROVE  AnswerInvariant'
  BY DEF AnswerInvariant, RowsAhead

LEMMA AnswerStep == HistoryInvariant /\ AnswerInvariant /\ [Next]_vars => AnswerInvariant'
  <1> SUFFICES ASSUME HistoryInvariant, AnswerInvariant, [Next]_vars PROVE AnswerInvariant'
    OBVIOUS
  <1>p. Place /\ current \in Nat /\ blockRow \in [Height -> BlockRow \union {Null}]
    BY Heights DEF HistoryInvariant, Place
  <1>1. ASSUME NEW h \in Height, AddHeader(h)
        PROVE  AnswerInvariant'
    BY <1>1, HeaderAnswers DEF AddHeader
  <1>2. ASSUME NEW h \in Height, BeginPersist(h)
        PROVE  AnswerInvariant'
    <2>1. CASE h = headers
      BY <1>2, <2>1, HeaderAnswers DEF BeginPersist
    <2>2. CASE h # headers
      BY <1>2, <2>2, AnswersKept DEF BeginPersist
    <2> QED  BY <2>1, <2>2
  <1>3. CASE PersistTx
    BY <1>3, AnswersKept DEF PersistTx
  <1>4. CASE PersistInvocation
    BY <1>4, AnswersKept DEF PersistInvocation, disk
  <1>5. CASE Resume
    BY <1>5, AnswersKept DEF Resume
  <1>6. CASE PersistRaises
    BY <1>6, AnswersKept DEF PersistRaises, Abandon, disk
  <1>7. CASE PersistInterrupted
    BY <1>7, AnswersKept DEF PersistInterrupted, Abandon, disk
  <1>8. CASE CommitSnapshot
    BY <1>8, AnswersKept DEF CommitSnapshot
  <1>9. CASE Finish
    <2>1. /\ persisting \in Height /\ persisting = current + 1 /\ current' = persisting
          /\ blockRow' = [blockRow EXCEPT ![persisting] = Row(sysfee, TRUE)]
          /\ UNCHANGED <<headers, lastHeader>>
      BY <1>9, <1>p DEF Finish, Place
    <2>2. \A h \in Height : h \in Nat
      BY Heights
    <2>3. ASSUME NEW h \in Height, h > current'
          PROVE  blockRow'[h] = Null \/ ~blockRow'[h].whole
      <3>1. h > current /\ h # persisting
        BY <1>p, <2>1, <2>2, <2>3
      <3> QED  BY <1>p, <2>1, <3>1 DEF AnswerInvariant, RowsAhead
    <2> QED  BY <2>1, <2>3 DEF AnswerInvariant, RowsAhead
  <1>10. CASE Stop
    BY <1>10, AnswersKept DEF Stop, disk
  <1>11. CASE Start
    <2>1. headers' \in Nat
      BY <1>11 DEF Start, IndexAfterStart, AnswerInvariant
    <2> QED  BY <1>11, <2>1 DEF Start, disk, AnswerInvariant, RowsAhead
  <1>12. CASE UNCHANGED vars
    BY <1>12, AnswersKept DEF vars, disk
  <1> QED
    BY <1>1, <1>2, <1>3, <1>4, <1>5, <1>6, <1>7, <1>8, <1>9, <1>10, <1>11, <1>12
    DEF Next, PersistStep

-----------------------------------------------------------------------------
(* The answers.                                                            *)

LEMMA Asked ==
    ASSUME NEW method, NEW params
    PROVE  Ask(method, params) = Answer(method, params)
  BY DEF Ask, GetData

\* A transaction is in one block.
LEMMA OneBlock ==
    ASSUME NEW h \in Height, NEW g \in Height, NEW t \in Txs(h), NEW u \in Txs(g), t.id = u.id
    PROVE  h = g
  <1>1. PICK i \in 1..Len(Chain[h]) : t = Chain[h][i]
    BY Blocks
  <1>2. PICK j \in 1..Len(Chain[g]) : u = Chain[g][j]
    BY Blocks
  <1>3. h \in Nat /\ g \in Nat /\ t = u
    BY Heights, Blocks, UniqueIds
  <1>4. ASSUME NEW a \in Height, NEW b \in Height, a < b, NEW k \in 1..Len(Chain[b]),
               Chain[b][k] \in Txs(a)
        PROVE  FALSE
    <2>1. a \in 0..(b - 1)
      BY <1>4, Heights
    <2>2. Chain[b][k] \in Before(b, k)
      BY <1>4, <2>1 DEF Before, TxsUpTo
    <2> QED  BY <2>2, NextOfChain
  <1>5. ~(h < g) /\ ~(g < h)
    BY <1>1, <1>2, <1>3, <1>4
  <1> QED  BY <1>3, <1>5

\* What is known of the state when the loop is free.
LEMMA Stored ==
    ASSUME HistoryInvariant, AnswerInvariant, Free
    PROVE  /\ height = current /\ current \in Height /\ height \in Nat /\ headers \in Nat
           /\ \A h \in Height : h \in Nat /\ h # Null /\ h # -1
           /\ \A h \in Height : h <= height =>
                /\ HasRow(h) /\ blockRow[h].whole
                /\ \A tx \in Txs(h) : tx.id \in txRows
           /\ \A h \in Height : h > height => blockRow[h] = Null \/ ~blockRow[h].whole
  <1>1. height = current /\ current \in Height /\ headers \in Nat
    BY DEF HistoryInvariant, Place, Free, AnswerInvariant
  <1>2. \A h \in Height : h \in Nat /\ h # Null /\ h # -1
    BY Heights, NullAssumption
  <1>3. ASSUME NEW h \in Height, h <= height
        PROVE  /\ HasRow(h) /\ blockRow[h].whole
               /\ \A tx \in Txs(h) : tx.id \in txRows
    <2>1. h \in 0..current
      BY <1>1, <1>2, <1>3
    <2>2. blockRow[h] = Row(TotalFees(TxsUpTo(h)), TRUE) /\ \A tx \in Txs(h) : tx.id \in txRows
      BY <2>1 DEF HistoryInvariant, HistoryComplete
    <2>3. Row(TotalFees(TxsUpTo(h)), TRUE) \in BlockRow
      BY Fees DEF Row, BlockRow
    <2>4. blockRow[h] # Null /\ blockRow[h].whole
      BY <2>2, <2>3, NullAssumption DEF BlockRow, Row
    <2> QED  BY <1>2, <2>2, <2>4 DEF HasRow
  <1>4. \A h \in Height : h > height => blockRow[h] = Null \/ ~blockRow[h].whole
    BY <1>1 DEF AnswerInvariant, RowsAhead
  <1> QED  BY <1>1, <1>2, <1>3, <1>4

LEMMA CountIs == Count = height + 1
  <1>1. AboutChain("getblockcount", Null) = Result(height + 1)
    BY DEF AboutChain
  <1>2. Answer("getblockcount", Null) = AboutChain("getblockcount", Null)
    BY DEF Answer, ChainMethods, StateMethods
  <1> QED  BY <1>1, <1>2, Asked DEF Count, Result

LEMMA HashIs ==
    ASSUME HistoryInvariant, AnswerInvariant, Free, NEW h \in Height, h <= height, h < headers
    PROVE  Ask("getblockhash", h).result = h
  <1>1. h \in 0..height /\ GetBlockHash(h) = h /\ h # Null
    BY Stored DEF GetBlockHash
  <1> QED  BY <1>1, Asked DEF Answer, AboutChain, ChainMethods, StateMethods, HashOutput, Result

LEMMA BlockIs ==
    ASSUME HistoryInvariant, AnswerInvariant, Free, NEW h \in Height, h <= height, h < headers
    PROVE  /\ Ask("getblock", [height |-> h]) = BlockOutput([index |-> h, txs |-> Chain[h]])
           /\ Ask("getblock", [hash |-> h]) = BlockOutput([index |-> h, txs |-> Chain[h]])
  <1>1. GetBlockByHash(h) = [index |-> h, txs |-> Chain[h]] /\ [index |-> h, txs |-> Chain[h]] # Null
    BY Stored, AnswerAssumption DEF GetBlockByHash, ContainsTransaction
  <1>2. GetBlock([height |-> h]) = GetBlockByHash(h)
    <2>1. GetBlockHash(h) = h
      BY Stored DEF GetBlockHash
    <2>2. "height" \in DOMAIN [height |-> h] /\ [height |-> h].height = h
      OBVIOUS
    <2> QED  BY <2>1, <2>2 DEF GetBlock, HashOf
  <1>3. GetBlock([hash |-> h]) = GetBlockByHash(h)
    <2>1. "height" \notin DOMAIN [hash |-> h] /\ [hash |-> h].hash = h
      OBVIOUS
    <2> QED  BY <2>1 DEF GetBlock, HashOf
  <1>4. \A ref : GetBlock(ref) = GetBlockByHash(h) =>
            Ask("getblock", ref) = BlockOutput([index |-> h, txs |-> Chain[h]])
    BY <1>1, Asked DEF Answer, AboutChain, ChainMethods, StateMethods
  <1> QED  BY <1>2, <1>3, <1>4

LEMMA TxIs ==
    ASSUME HistoryInvariant, AnswerInvariant, Free,
           NEW h \in Height, h <= height, h < headers, NEW tx \in Txs(h)
    PROVE  Ask("getrawtransaction", tx.id) = Result([blockhash |-> h, confirmations |-> Confirmations(h)])
  <1>1. GetTransaction(tx.id) = h
    <2>1. tx.id \in txRows
      BY Stored
    <2>2. \E g \in Height : \E t \in Txs(g) : t.id = tx.id
      OBVIOUS
    <2>3. \A g \in Height : (\E t \in Txs(g) : t.id = tx.id) => g = h
      BY OneBlock
    <2> QED  BY <2>1, <2>2, <2>3 DEF GetTransaction
  <1>2. h # -1 /\ h # Null
    BY Stored
  <1>3. GetHeaderByHeight(h) = h
    BY Stored DEF GetHeaderByHeight, GetHeader
  <1> QED
    BY <1>1, <1>2, <1>3, Asked DEF Answer, AboutState, ChainMethods, StateMethods, TxOutput

LEMMA FoundBlock ==
    ASSUME HistoryInvariant, AnswerInvariant, Free, NEW h \in Height, h <= height, h < headers
    PROVE  BlockFound(h)
  <1>1. Ask("getblockhash", h).result = h
    BY HashIs
  <1>2. /\ Block(h) = BlockOutput([index |-> h, txs |-> Chain[h]])
        /\ Ask("getblock", [hash |-> h]) = Block(h)
    BY BlockIs DEF Block
  <1>3. /\ Block(h).result.txs = Chain[h]
        /\ Block(h).result.confirmations = Confirmations(h)
        /\ Block(h).result.next = GetNextBlockHash(h)
    BY <1>2 DEF BlockOutput, Result
  <1>4. Confirmations(h) >= 1
    BY Stored DEF Confirmations
  <1>5. ASSUME h + 1 < Count, h + 1 < headers
        PROVE  GetNextBlockHash(h) = Ask("getblockhash", h + 1).result
    <2>1. h + 1 <= height /\ h + 1 \in Height
      BY <1>5, CountIs, Stored, Heights
    <2>2. Ask("getblockhash", h + 1).result = h + 1
      BY <1>5, <2>1, HashIs
    <2>3. GetHeader(h) = h /\ h # Null
      BY Stored DEF GetHeader
    <2> QED  BY <1>5, <2>2, <2>3, Stored DEF GetNextBlockHash
  <1>6. ASSUME NEW tx \in Txs(h)
        PROVE  LET answer == Ask("getrawtransaction", tx.id).result
               IN  answer.blockhash = h /\ answer.confirmations = Confirmations(h)
    <2>1. Ask("getrawtransaction", tx.id) = Result([blockhash |-> h, confirmations |-> Confirmations(h)])
      BY TxIs
    <2> QED  BY <2>1 DEF Result
  <1> QED  BY <1>1, <1>2, <1>3, <1>4, <1>5, <1>6 DEF BlockFound

LEMMA BlockAhead ==
    ASSUME HistoryInvariant, AnswerInvariant, Free, NEW h \in Height, h > height
    PROVE  NotConfirmed(h)
  <1>1. "height" \notin DOMAIN [hash |-> h] /\ [hash |-> h].hash = h
    OBVIOUS
  <1>2. \A other : HashOf([hash |-> h], other) \in {h, Null}
    BY <1>1 DEF HashOf
  <1>3. GetBlock([hash |-> h]) = Null
    BY <1>2, Stored DEF GetBlock, GetBlockByHash, HasRow
  <1>4. Ask("getblock", [hash |-> h]) = Error(Unknown)
    BY <1>3, Asked DEF Answer, AboutChain, ChainMethods, StateMethods
  <1>5. GetHeaderBy([hash |-> h]) \in {h, Null}
    BY <1>2 DEF GetHeaderBy, GetHeader
  <1>6. CASE GetHeaderBy([hash |-> h]) = Null
    <2>1. Ask("getblockheader", [hash |-> h]) = Error(Unknown)
      BY <1>6, Asked DEF Answer, AboutChain, ChainMethods, StateMethods
    <2>2. "result" \notin DOMAIN Error(Unknown)
      BY DEF Error
    <2> QED  BY <1>4, <2>1, <2>2 DEF NotConfirmed
  <1>7. CASE GetHeaderBy([hash |-> h]) = h /\ h # Null
    <2>1. Ask("getblockheader", [hash |-> h]) = HeaderOutput(h)
      BY <1>7, Asked DEF Answer, AboutChain, ChainMethods, StateMethods
    <2>2. HeaderOutput(h).result.confirmations = height - h + 1
      BY DEF HeaderOutput, Result, Confirmations
    <2>3. height - h + 1 < 1
      BY Stored
    <2> QED  BY <1>4, <2>1, <2>2, <2>3 DEF NotConfirmed
  <1> QED  BY <1>5, <1>6, <1>7

LEMMA BalanceIs ==
    ASSUME HistoryInvariant, AnswerInvariant, TablesInvariant, Free, ~torn,
           NEW a \in Account, NEW s \in Asset
    PROVE  Ask("getaccountstate", a).result[s] = WorthOf(a, s)
  <1> DEFINE U == UnspentIn(TxsUpTo(current))
  <1>1. current \in Height /\ \A h \in 0..current : h \in Height
    BY Stored, Heights
  <1>2. TxsUpTo(current) \in SUBSET Tx /\ U \in SUBSET Coin
    BY <1>1, UpTo, MadeCoins
  <1>3. /\ tables.coins = RowsOf(U)
        /\ tables.balance = [b \in Account |-> [z \in Asset |-> Worth(U, b, z)]]
    BY DEF TablesInvariant, Free, LedgerOf
  <1>4. ASSUME NEW c \in Coin
        PROVE  GetUnspent(c) # Null <=> c \in U
    <2>1. c = <<c[1], c[2]>> /\ c[1] \in TxId /\ OutputOf(c) # Null
      BY CoinShape, AnswerAssumption
    <2>2. /\ \A n : n \in OutputsIn(U, c[1]) <=> <<c[1], n>> \in U
          /\ OutputsIn(U, c[1]) # Null
      BY <1>2, <2>1, OutputsInCoins
    <2>3. tables.coins[c[1]] = IF OutputsIn(U, c[1]) = {} THEN Null ELSE OutputsIn(U, c[1])
      BY <1>3, <2>1 DEF RowsOf
    <2>4. ASSUME c \in U
          PROVE  ContainsTransaction(c[1])
      <3>1. c \in Made(TxsUpTo(current))
        BY <1>2, <2>4, MadeCoins
      <3>2. PICK tx \in TxsUpTo(current) : c[1] = tx.id
        BY <1>2, <3>1, MadeCoins
      <3>3. PICK h \in 0..current : tx \in Txs(h)
        BY <3>2 DEF TxsUpTo
      <3> QED  BY <3>2, <3>3 DEF ContainsTransaction, HistoryInvariant, HistoryComplete
    <2> HIDE DEF U
    <2>5. (tables.coins[c[1]] # Null /\ c[2] \in tables.coins[c[1]]) <=> c \in U
      BY <2>1, <2>2, <2>3
    <2> QED  BY <2>1, <2>4, <2>5 DEF GetUnspent
  <1>5. \A c \in Coin : Ask("gettxout", c).result = GetUnspent(c)
    BY Asked DEF Answer, AboutState, ChainMethods, StateMethods, Result
  <1>6. {c \in Coin : Ask("gettxout", c).result # Null} = U
    <2> HIDE DEF U
    <2> QED  BY <1>2, <1>4, <1>5
  <1>7. Ask("getaccountstate", a).result = tables.balance[a]
    BY Asked DEF Answer, AboutState, ChainMethods, StateMethods, Result, GetAccountState
  <1>8. WorthOf(a, s) = Worth(U, a, s)
    BY <1>6 DEF WorthOf
  <1>9. tables.balance[a][s] = Worth(U, a, s)
    BY <1>3
  <1> QED  BY <1>7, <1>8, <1>9

\* A client that asks between any two steps of Persist, after whatever stops and
\* exceptions, gets answers that fit each other: every block below getblockcount with
\* its transactions, by height and by hash, nothing above it confirmed, and balances that
\* are the worth of the outputs that gettxout answers.
THEOREM AnswersFit == Spec => []AnswersAgree
  <1>1. HistoryInvariant /\ AnswerInvariant /\ TablesInvariant => AnswersAgree
    <2> SUFFICES ASSUME HistoryInvariant, AnswerInvariant, TablesInvariant, Free
                 PROVE  /\ \A h \in Height :
                               IF h >= Count THEN NotConfirmed(h) ELSE h < headers => BlockFound(h)
                        /\ ~torn => \A a \in Account, s \in Asset :
                               Ask("getaccountstate", a).result[s] = WorthOf(a, s)
      BY DEF AnswersAgree
    <2>1. \A h \in Height : h >= Count => NotConfirmed(h)
      BY BlockAhead, CountIs, Stored
    <2>2. \A h \in Height : ~(h >= Count) /\ h < headers => BlockFound(h)
      BY FoundBlock, CountIs, Stored
    <2> QED  BY <2>1, <2>2, BalanceIs
  <1> QED
    BY <1>1, AnswerInit, AnswerStep, PlaceAndHistory, TablesOfChain, PTL DEF Spec
=============================================================================
