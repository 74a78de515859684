---------------------------- MODULE BlockPersist ----------------------------
(***************************************************************************)
(* Blockchain.Persist and TryPersist of neo/Core/Blockchain.py: how one    *)
(* block after the other reaches the database, in which batches, with the  *)
(* process stopping or an exception leaving Persist anywhere in between.   *)
(*                                                                         *)
(* The block's Snapshot is a transaction on the tables (SnapshotCache and  *)
(* its refinement of KVStore), so here it is simply a copy of them.        *)
(***************************************************************************)
EXTENDS Integers, Sequences, FiniteSetsExt, Functions

CONSTANTS
    Chain,     \* per height, the transactions of the block, a sequence
    Account,   \* the addresses
    Asset,     \* the assets
    Share,     \* the asset whose spent coins can be claimed
    ListSize,  \* hashes in a stored header list: 2000 in the code
    Null,      \* no row
    MaxFaults  \* bound: how often the process stops or an exception is raised

Height == DOMAIN Chain
TopHeight == Max(Height)

Txs(h) == Range(Chain[h])
Tx == UNION {Txs(h) : h \in Height}
TxId == {tx.id : tx \in Tx}

\* A coin is the n-th output of a transaction.
CoinsOf(tx) == {<<tx.id, n>> : n \in DOMAIN tx.outputs}
Coin == UNION {CoinsOf(tx) : tx \in Tx}
OutputOf(coin) == (CHOOSE tx \in Tx : tx.id = coin[1]).outputs[coin[2]]

FeeOf == [tx \in Tx |-> tx.fee]
TotalFees(txs) == SumFunctionOnSet(FeeOf, txs)

\* A row of DATA_Block: the fee total up to the block, and whether the block follows.
Row(fee, whole) == [fee |-> fee, whole |-> whole]

Outputs == [asset : Asset, owner : Account, value : Nat]

ASSUME ChainAssumption ==
    /\ TopHeight \in Nat /\ Height = 0..TopHeight
    /\ Share \in Asset
    /\ MaxFaults \in Nat /\ ListSize \in Nat \ {0}
    /\ \A h \in Height : Chain[h] \in Seq(Txs(h))
    /\ \A tx \in Tx : tx.outputs \in Seq(Outputs) /\ tx.fee \in Nat

\* Having no row is told from every row.
ASSUME NullAssumption ==
    /\ Null \notin Nat
    /\ Null \notin [fee : Nat, whole : BOOLEAN]
    /\ \A items \in SUBSET UNION {DOMAIN tx.outputs : tx \in Tx} : items # Null

VARIABLES
    tables,     \* the state columns: coins, spent coins, balances, storage
    txRows,     \* DATA_Transaction: the transactions stored
    blockRow,   \* DATA_Block: the fee total in front, and whether the block follows
    current,    \* the height in SYS_CurrentBlock
    lastHeader, \* the height in SYS_CurrentHeader
    running,    \* the process is up
    height,     \* _current_block_height
    headers,    \* the length of _header_index
    persisting, \* the height of _persisting_block, or Null
    phase,      \* where Persist is: "idle", "txs", "await" or "finish"
    snapshot,   \* the tables as the block's snapshot has them
    done,       \* transactions of the block done with
    sysfee,     \* amount_sysfee
    faults,     \* stops and exceptions so far
    torn        \* history: a stop fell between the last two batches of a block

disk == <<tables, txRows, blockRow, current, lastHeader>>
task == <<phase, snapshot, done, sysfee>>
history == <<faults, torn>>
vars == <<disk, running, height, headers, persisting, task, history>>

-----------------------------------------------------------------------------
(* One transaction.                                                        *)

ValueOf == [c \in Coin |-> OutputOf(c).value]
Owned(coins, account, asset) ==
    {c \in coins : OutputOf(c).owner = account /\ OutputOf(c).asset = asset}

\* The sum of the values of the coins of one owner and asset.
Worth(coins, account, asset) == SumFunctionOnSet(ValueOf, Owned(coins, account, asset))

\* GetTransaction finds no row, or GetAndChange of UnspentCoins no coin.
TxRaises(t, tx) ==
    \E c \in tx.inputs :
        c[1] # tx.id /\ (c[1] \notin txRows \/ t.coins[c[1]] = Null)

Spend(t, tx) ==
    [id \in TxId |->
        LET items == IF id = tx.id THEN DOMAIN tx.outputs ELSE t.coins[id]
        IN  IF items = Null THEN Null ELSE {n \in items : <<id, n>> \notin tx.inputs}]

\* Mutant: an output that is claimed stays claimable.
KeepClaimable(t, tx) ==
    [c \in Coin |->
        t.spent[c] + (IF c \in tx.inputs /\ OutputOf(c).asset = Share THEN 1 ELSE 0)]

\* How many items SpentCoins has for a coin; DeleteIndex removes one.
Claimable(t, tx) ==
    [c \in Coin |->
        LET added == IF c \in tx.inputs /\ OutputOf(c).asset = Share THEN 1 ELSE 0
        IN  IF c \in tx.claims /\ t.spent[c] + added > 0
            THEN t.spent[c] + added - 1
            ELSE t.spent[c] + added]

\* AddToBalance for the outputs, SubtractFromBalance for the inputs.
Transfer(t, tx) ==
    [a \in Account |-> [s \in Asset |->
        t.balance[a][s] + Worth(CoinsOf(tx), a, s) - Worth(tx.inputs, a, s)]]

\* A contract that halts changes its storage as a function of what it read.
Invoke(t, tx) ==
    IF tx.kind = "invocation" /\ tx.halts THEN t.storage + 1 ELSE t.storage

Apply(t, tx) ==
    [coins |-> Spend(t, tx), spent |-> Claimable(t, tx),
     balance |-> Transfer(t, tx), storage |-> Invoke(t, tx)]

\* Mutant: the row of a transaction goes with its last but one coin.
CommitDropsLast(t) ==
    [t EXCEPT !.coins =
        [id \in TxId |-> IF @[id] # Null /\ Cardinality(@[id]) <= 1 THEN Null ELSE @[id]]]

\* Snapshot.Commit first deletes coins spent altogether and empty accounts.
Commit(t) ==
    [t EXCEPT
        !.coins = [id \in TxId |-> IF @[id] = {} THEN Null ELSE @[id]],
        !.balance = [a \in Account |-> IF \A s \in Asset : @[a][s] <= 0
                                       THEN [s \in Asset |-> 0] ELSE @[a]]]

-----------------------------------------------------------------------------
(* What the state should be, from the chain alone: no order, no batches.   *)

TxsUpTo(h) == UNION {Txs(g) : g \in 0..h}

Made(txs) == UNION {CoinsOf(tx) : tx \in txs}
SpentIn(txs) == UNION {tx.inputs : tx \in txs}
UnspentIn(txs) == Made(txs) \ SpentIn(txs)
ClaimsIn(txs) == UNION {tx.claims : tx \in txs}

\* The outputs of one transaction among some coins, and the rows of these.
OutputsIn(coins, id) == {c[2] : c \in {d \in coins : d[1] = id}}
RowsOf(coins) ==
    [id \in TxId |-> IF OutputsIn(coins, id) = {} THEN Null ELSE OutputsIn(coins, id)]

LedgerOf(txs) ==
    [coins |-> RowsOf(UnspentIn(txs)),
     spent |-> [c \in Coin |->
                    IF c \in SpentIn(txs) \ ClaimsIn(txs) /\ OutputOf(c).asset = Share
                    THEN 1 ELSE 0],
     balance |-> [a \in Account |-> [s \in Asset |-> Worth(UnspentIn(txs), a, s)]],
     storage |-> Cardinality({tx \in txs : tx.kind = "invocation" /\ tx.halts})]

\* The transactions of the chain before the i-th of block h.
Before(h, i) == TxsUpTo(h - 1) \union {Chain[h][j] : j \in 1..(i - 1)}

\* What consensus makes sure of: every transaction is a new one, and spends coins
\* that are there and claims for coins that are spent and not claimed for.
ASSUME ValidChain ==
    \A h \in Height : \A i \in DOMAIN Chain[h] :
        LET tx == Chain[h][i]
            before == Before(h, i)
        IN  /\ \A other \in before : other.id # tx.id
            /\ tx.inputs \subseteq UnspentIn(before)
            /\ tx.claims \subseteq SpentIn(before) \ ClaimsIn(before)

-----------------------------------------------------------------------------
(* Persisting a block.                                                     *)

\* Mutant: the row is written although there is one.
HeaderRowOverwrites(h) == [blockRow EXCEPT ![h] = Row(0, FALSE)]

\* OnAddHeader stores the header with a zero fee total unless it finds a row.
HeaderRow(h) == [blockRow EXCEPT ![h] = IF @ = Null THEN Row(0, FALSE) ELSE @]

OnAddHeader(h) ==
    /\ headers' = h + 1
    /\ lastHeader' = h
    /\ blockRow' = HeaderRow(h)

\* Other coroutines run while Persist waits, and add headers then too.  Bound:
\* one header a message; HeaderIndex has more, and what that does to a start.
AddHeader(h) ==
    /\ running
    /\ phase \in {"idle", "await"}
    /\ h = headers
    /\ OnAddHeader(h)
    /\ UNCHANGED <<tables, txRows, current, running, height, persisting, task, history>>

\* GetSysFeeAmount of the previous block, whatever kind of row it has.
SysFeeBefore(h) == IF blockRow[h - 1] = Null THEN 0 ELSE blockRow[h - 1].fee

\* TryPersist refuses any block but the next.
Expects(h) == h = height + 1

\* Ledger.add_block: AddHeader, which takes only the next header, then Persist.
BeginPersist(h) ==
    /\ running
    /\ phase = "idle"
    /\ Expects(h)
    /\ IF h = headers
       THEN OnAddHeader(h)
       ELSE UNCHANGED <<headers, lastHeader, blockRow>>
    /\ persisting' = h
    /\ phase' = "txs"
    /\ snapshot' = tables
    /\ done' = 0
    /\ sysfee' = SysFeeBefore(h) + TotalFees(Txs(h))
    /\ UNCHANGED <<tables, txRows, current, running, height, history>>

NextTx == Chain[persisting][done + 1]
MoreTxs == phase = "txs" /\ done < Len(Chain[persisting])

\* A transaction without a contract: its row is written when it is done.
PersistTx ==
    /\ running
    /\ MoreTxs
    /\ NextTx.kind # "invocation"
    /\ ~TxRaises(snapshot, NextTx)
    /\ snapshot' = Apply(snapshot, NextTx)
    /\ txRows' = txRows \union {NextTx.id}
    /\ done' = done + 1
    /\ UNCHANGED <<tables, blockRow, current, lastHeader, running, height, headers, persisting, phase, sysfee, history>>

\* An invocation is followed by `await asyncio.sleep(0.001)`, with its row
\* still in the open batch.
PersistInvocation ==
    /\ running
    /\ MoreTxs
    /\ NextTx.kind = "invocation"
    /\ ~TxRaises(snapshot, NextTx)
    /\ snapshot' = Apply(snapshot, NextTx)
    /\ phase' = "await"
    /\ UNCHANGED <<disk, running, height, headers, persisting, done, sysfee, history>>

Resume ==
    /\ running
    /\ phase = "await"
    /\ txRows' = txRows \union {NextTx.id}
    /\ done' = done + 1
    /\ phase' = "txs"
    /\ UNCHANGED <<tables, blockRow, current, lastHeader, running, height, headers, persisting, snapshot, sysfee, history>>

\* An exception discards the open batches and the snapshot, not the rows of
\* the transactions before; TryPersist catches it.
Abandon ==
    /\ running
    /\ MoreTxs
    /\ phase' = "idle"
    /\ snapshot' = tables
    /\ done' = 0
    /\ sysfee' = 0
    /\ UNCHANGED <<disk, running, height, headers, persisting, torn>>

\* A coin or a transaction is missing.
PersistRaises ==
    /\ MoreTxs /\ TxRaises(snapshot, NextTx)
    /\ Abandon
    /\ UNCHANGED faults

\* Any other exception: a read or a write that fails, or a bug in a handler.
PersistInterrupted ==
    /\ faults < MaxFaults
    /\ faults' = faults + 1
    /\ Abandon

\* snapshot.Commit: a batch of its own.
CommitSnapshot ==
    /\ running
    /\ phase = "txs"
    /\ done = Len(Chain[persisting])
    /\ tables' = Commit(snapshot)
    /\ phase' = "finish"
    /\ UNCHANGED <<txRows, blockRow, current, lastHeader, running, height, headers, persisting, snapshot, done, sysfee, history>>

\* The batch opened first is written last: the block's row and its height.
Finish ==
    /\ running
    /\ phase = "finish"
    /\ blockRow' = [blockRow EXCEPT ![persisting] = Row(sysfee, TRUE)]
    /\ current' = persisting
    /\ height' = persisting
    /\ persisting' = Null
    /\ phase' = "idle"
    /\ snapshot' = tables
    /\ done' = 0
    /\ sysfee' = 0
    /\ UNCHANGED <<tables, txRows, lastHeader, running, headers, history>>

-----------------------------------------------------------------------------
(* The process.                                                            *)

Stop ==
    /\ running
    /\ faults < MaxFaults
    /\ faults' = faults + 1
    /\ torn' = (torn \/ phase = "finish")
    /\ running' = FALSE
    /\ height' = 0 /\ persisting' = Null /\ phase' = "idle"
    /\ snapshot' = tables /\ done' = 0 /\ sysfee' = 0
    /\ UNCHANGED <<disk, headers>>

\* The index is rebuilt without its last header when that is the first one
\* after a stored list: HeaderIndex has the whole of it.
IndexAfterStart ==
    IF lastHeader >= ListSize /\ lastHeader % ListSize = 0 THEN lastHeader ELSE lastHeader + 1

Start ==
    /\ ~running
    /\ running' = TRUE
    /\ height' = current
    /\ headers' = IndexAfterStart
    /\ UNCHANGED <<disk, persisting, task, history>>

\* The first start has persisted the genesis block.
Init ==
    /\ tables = LedgerOf(Txs(0))
    /\ txRows = {tx.id : tx \in Txs(0)}
    /\ blockRow = [h \in Height |-> IF h = 0 THEN Row(TotalFees(Txs(0)), TRUE) ELSE Null]
    /\ current = 0 /\ lastHeader = 0 /\ height = 0 /\ headers = 1 /\ persisting = Null /\ running = TRUE
    /\ phase = "idle" /\ snapshot = tables /\ done = 0 /\ sysfee = 0
    /\ faults = 0 /\ torn = FALSE

PersistStep ==
    \/ PersistTx \/ PersistInvocation \/ Resume \/ PersistRaises
    \/ CommitSnapshot \/ Finish

Next ==
    \/ \E h \in Height : AddHeader(h)
    \/ \E h \in Height : BeginPersist(h)
    \/ PersistStep
    \/ PersistInterrupted
    \/ Stop
    \/ Start

Spec == Init /\ [][Next]_vars

\* The loop runs what is scheduled, a stopped node is started again, and the
\* sync manager offers the next block until the chain has it.
Fairness ==
    /\ WF_vars(PersistStep)
    /\ WF_vars(\E h \in Height : BeginPersist(h))
    /\ WF_vars(Start)

FairSpec == Spec /\ Fairness

-----------------------------------------------------------------------------
(* Properties.                                                             *)

\* A reader of the tables, at an await of Persist or after a start, sees the
\* state of exactly the blocks up to the stored height: coins, claimable
\* coins, balances and storage all of the same chain.  Only a stop between the
\* snapshot's batch and the block's, after which the block is persisted over
\* itself, can end that; and even then the outputs that are unspent are those
\* of the stored chain or of one block more.
StateMatchesChain ==
    phase # "finish" =>
        /\ ~torn => tables = LedgerOf(TxsUpTo(current))
        /\ \E h \in {current, current + 1} \intersect Height :
                tables.coins = LedgerOf(TxsUpTo(h)).coins

\* Every block up to the stored height has its own row, with the fee total of
\* the chain up to it, and all of its transactions have theirs.
HistoryComplete ==
    \A h \in 0..current :
        /\ blockRow[h] = Row(TotalFees(TxsUpTo(h)), TRUE)
        /\ \A tx \in Txs(h) : tx.id \in txRows

\* A coin claimed by a stored block is claimable no more: DeleteIndex has
\* removed it.
ClaimedOnce ==
    \A h \in 0..current : \A tx \in Txs(h) : \A c \in tx.claims : tables.spent[c] = 0

\* Every block of the chain is persisted in the end, after any stops and
\* exceptions, unless a stop fell between the last two batches of a block.
ChainPersisted == <>(torn \/ [](current = TopHeight))
=============================================================================
