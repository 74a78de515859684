--------------------------- MODULE ChainQueries ---------------------------
(***************************************************************************)
(* What neo/Core/Blockchain.py answers to those who ask about the chain:   *)
(* the queries read the rows of the database, the height and the header    *)
(* index, which grow one after the other.  None of them waits, so that     *)
(* they are answered between the steps of BlockPersist, where the loop is  *)
(* free; they change nothing and are operators over its state.             *)
(*                                                                         *)
(* There is one chain: the hash of a block is modelled by its height.  A   *)
(* block is asked for by either, [height |-> h] or [hash |-> h].           *)
(***************************************************************************)
EXTENDS BlockPersist

\* Null answers that there is nothing: no output and no block is that.
ASSUME AnswerAssumption ==
    /\ Null \notin Outputs
    /\ \A h \in Height : [index |-> h, txs |-> Chain[h]] # Null

\* The loop runs something else than Persist.
Free == running /\ phase \in {"idle", "await"}

-----------------------------------------------------------------------------
(* The header index.                                                       *)

CurrentHeaderHash == headers - 1

GetHeaderHash(h) == IF h \in 0..(headers - 1) THEN h ELSE Null

\* The list is indexed with what it is given: a negative height counts from
\* its end.
GetBlockHash(h) ==
    IF height < h \/ headers <= h THEN Null ELSE IF h < 0 THEN headers + h ELSE h

\* A height gives the hash `atHeight`, a hash has to be in the index.
HashOf(ref, atHeight) ==
    IF "height" \in DOMAIN ref THEN atHeight
    ELSE IF ref.hash < headers THEN ref.hash ELSE Null

-----------------------------------------------------------------------------
(* Rows of headers, blocks and transactions.                               *)

HasRow(hash) == hash # Null /\ blockRow[hash] # Null

\* The header at the front of the row, whatever follows it.
GetHeader(hash) == IF HasRow(hash) THEN hash ELSE Null

GetHeaderBy(ref) == GetHeader(HashOf(ref, GetHeaderHash(ref.height)))

GetHeaderByHeight(h) == IF headers <= h THEN Null ELSE GetHeader(h)

GetNextBlockHash(hash) ==
    LET header == GetHeader(hash)
    IN  IF header = Null \/ header + 1 >= headers THEN Null ELSE header + 1

\* The height in front of the transaction's row, -1 without a row.
GetTransaction(id) ==
    IF id \in txRows THEN CHOOSE h \in Height : \E tx \in Txs(h) : tx.id = id ELSE -1

ContainsTransaction(id) == id \in txRows

\* FromTrimmedData wants the hashes of one transaction at least, and the row
\* of each; any exception is answered with None.
GetBlockByHash(hash) ==
    IF /\ HasRow(hash)
       /\ blockRow[hash].whole
       /\ \A tx \in Txs(hash) : ContainsTransaction(tx.id)
    THEN [index |-> hash, txs |-> Chain[hash]]
    ELSE Null

GetBlock(ref) == GetBlockByHash(HashOf(ref, GetBlockHash(ref.height)))

\* No hash, no row: zero.
GetSysFeeAmount(hash) == IF HasRow(hash) THEN blockRow[hash].fee ELSE 0

GetSysFeeAmountByHeight(h) == GetSysFeeAmount(GetBlockHash(h))

-----------------------------------------------------------------------------
(* Rows of the state.                                                      *)

\* Mutant: the flag of a spent output is not looked at.
GetUnspentOrSpent(coin) ==
    IF tables.coins[coin[1]] = Null \/ ~ContainsTransaction(coin[1]) THEN Null
    ELSE OutputOf(coin)

\* The coins row says whether the output is spent, the transaction's row what
\* it is worth.
GetUnspent(coin) ==
    LET items == tables.coins[coin[1]]
    IN  IF items = Null \/ coin[2] \notin items \/ ~ContainsTransaction(coin[1])
        THEN Null
        ELSE OutputOf(coin)

\* An account without a row is answered as an empty one.
GetAccountState(account) == tables.balance[account]

GetStorageItem == tables.storage
=============================================================================
