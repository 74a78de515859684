# A TLA+ model of neo-python

neo-python is a node of the NEO 2 network: it keeps the chain of blocks in
LevelDB, fetches headers and blocks from its peers, runs contracts, and serves
a wallet, a prompt and two APIs. All of it runs in one process on one `asyncio`
loop (the locks in `Wallet` and `LevelDBImpl` never contend), so what can go
wrong lies in the order of callbacks, in the places where a coroutine waits, in what
peers do or fail to do, and in the process stopping between two writes.

Paths below are relative to `src/neo`.

## Inventory

| Part | State it keeps | Operations | Talks to |
|---|---|---|---|
| **Snapshot caches** `Storage/Common/{DataCache,CloneCache,Snapshot,CloneSnapshot}.py`, `Storage/Implementation/LevelDB/{LevelDBCache,LevelDBSnapshot}.py` | per column a dict from key to `Trackable(item, state)`; a LevelDB batch | `Add`, `Delete`, `DeleteWhere`, `Find`, `GetAndChange`, `GetOrAdd`, `TryGet`, `Commit`, `Clone` | the database below, `Persist` and contracts above |
| **Header index** `Core/Blockchain.py` | `_header_index`, `_stored_header_count`; rows `DATA_Block`, `IX_HeaderHashList`, `SYS_CurrentHeader` | `AddHeaders`, `OnAddHeader`, rebuild in `__init__`, `GetBlockHash` | ledger (sync manager), import, API |
| **Block persistence** `Core/Blockchain.py` | `_current_block_height`, `_persisting_block`; all state columns, `DATA_Transaction`, `DATA_Block`, `SYS_CurrentBlock` | `AddBlock`, `Persist`, `TryPersist` | snapshot caches, contract engine, notification events |
| **Sync manager** `Network/syncmanager.py`, `Network/ledger.py` | requests with their flights, header cache, block cache, service and persist tasks | `sync`, `sync_header`, `sync_block`, `persist_headers`, `persist_blocks`, `check_timeout`, `on_headers_received`, `on_block_received`, `block_health` | node manager, ledger, message router |
| **Node manager and peers** `Network/{nodemanager,node,nodeweight}.py` | connected nodes, known, queued and bad addresses, weights | connecting, handshake, replacing, choosing a node, counting timeouts and errors | sockets, sync manager |
| **Mempool and relay cache** `Network/{mempool,relaycache}.py` | transactions by hash | add, remove when a block is persisted | peers, `Persist` |
| **Virtual machine and engine** `VM`, `SmartContract` | invocation and evaluation stacks, gas | executing a script, interop calls | a cloned snapshot |
| **Wallet** `Wallets/Wallet.py`, `Implementations/Wallets/peewee`, `Prompt/Commands/{Wallet,WalletImport,WalletAddress,Send,Tokens}.py` | keys, contracts, watched addresses, tokens, coins with states, height; the same as rows of a SQLite file | opening, `ProcessBlocks`, `ProcessNewBlock`, rebuild, importing and deleting, `FindUnspentCoins`, `MakeTransaction`, `SaveTransaction`, claiming | blocks by height, its own file, the mempool |
| **Notification database** `Implementations/Notifications/NotificationDB.py` | notifications per address, block and contract, with counters; tokens | `on_smart_contract_event`, `on_persist_completed`, `get_by_*` | events of `Persist`, the REST API |
| **Transactions and verification** `Core/TX`, `Core/Block.py`, `Core/Helper.py` | none of their own | `Verify`, `VerifyScripts`, fees, claims | the chain, the mempool, the engine |
| **Signature collection** `SmartContract/ContractParameterContext.py` | parameters and signatures per script hash | `AddSignature`, `Completed`, `GetScripts`, `ToJson`, `FromJson` | wallets |
| **Cryptography and serialisation** `Core/IO`, `IO/MemoryStream.py`, `Core/Cryptography`, `Core/KeyPair.py`, `Core/State`, `Network/payloads`, `VM/ScriptBuilder.py` | a pool of streams | `Serialize`, `Deserialize`, `Size`, hashes, Merkle trees, points, keys as text | everything that is stored or sent |
| **JSON-RPC and REST API** `api` | none | queries, notifications in pages | the chain, the notification database |
| Prompt and command line `Prompt`, `bin` | the open wallet | commands | all of the above |

How they interact. The sync manager asks peers for headers and hands them to
`Blockchain.AddHeaders`, which grows the index; it asks for the blocks whose
headers it has, queues what comes in, and a second task hands one block after
the other to `TryPersist`. `Persist` opens a snapshot on the database and, for
each invocation, a clone of the snapshot for the contract engine; it waits
after every invocation, so headers are added and queries are answered while a
block is half persisted. When it is through, the notification database, the
mempool and the wallet hear of the block by events.

What is hard, and what would make each part correct:

* *Snapshot caches.* Three layers can each hold, change or delete a key. They
  are right when they cannot be told from nested transactions on one store.
* *Header index.* Most of it exists only in memory, the rest in lists of 2000
  and in rows of which a batch of headers leaves one. It is right when the hash
  under a height is that of the header of this height, over any stops.
* *Block persistence.* One block takes many batches. It is right when a reader,
  now or after a start, sees the state of exactly the stored chain, and when
  the chain advances in the end.
* *Sync manager.* Lost, late and repeated answers, retries that cross them, and
  two tasks on one cache. It is right when no block is forgotten, nothing stays
  requested for ever, and the node catches up.
* *Node manager.* Addresses move between lists in many callbacks; right when
  none is lost and the pool is filled again.
* *Wallet.* Coins, height and addresses are changed in one place and saved row
  by row in another, by tasks that follow each other in any order. It is right
  when its file follows its memory, a sync that ends has found every coin, and
  it neither spends twice nor makes money.
* *Notification database.* Each event is written to several lists with counters,
  in several batches; right when an event is found by all or none of them.
* *Mempool and relay cache.* Right when what is offered is not in a block.
* *Virtual machine and services.* Many instructions, each with its own limits;
  right when the count behind the stack limit covers what is held, calls return
  what was asked for, every execution ends and was paid for, no contract reaches
  the storage of another, and all nodes compute the same.
* *Signatures, byte formats.* Right when whatever order keys and signatures come
  in, and whichever class writes and reads, the same bytes and hashes come out,
  and damage shows.
* *APIs.* Right when answers given between two steps of anything fit together.

`PROJECT.json` lists the parts with what is modelled of each, and the hazards
at their lines.

## Modules

| Module | What it models |
|---|---|
| `DataCache` | the operations of one tracking cache, as operators on a function from keys to entries, and how a cache is committed into the one below |
| `SnapshotCache` | the database, a block's snapshot and an invocation's clone: one action per operation of the block or of the contract |
| `KVStore` | abstract: a store with a transaction per block and, inside it, one per invocation |
| `HeaderIndex` | growing, storing, losing and rebuilding the header index |
| `BlockPersist` | `Persist` transaction by transaction and batch by batch, stops and exceptions, and a definition of the ledger's state from the chain alone |
| `ChainQueries`, `JsonRpc` | over `BlockPersist`: what `Blockchain` finds by height or hash, and what the JSON-RPC methods make of it |
| `SyncManager` | the service loop, the persist task, the message handlers, time, peers and their faults |
| `NodeManager` | the address lists, the connections with their callbacks, replacing of nodes, the health check, `maxpeers`, shutdown |
| `Accounts` | the addresses, keys and tokens of a wallet, in memory and as row writes |
| `Wallet` | over `Accounts`: coins, height, transactions, the mempool and the relay cache, blocks, stops |
| `VM` | the virtual machine, an instruction a step, with its limits and metering |
| `NotificationDB`, `SignatureContext` | the notification database; the collection of signatures |
| `Invocation` | over those three: an invocation from its signatures to the events it leaves |
| `RestApi` | over `Invocation`: the pages of notifications |
| `Contracts` | over `SnapshotCache`: the services on contracts and their storage, with calls, migration, rows that share an item, and iterators over a dictionary that changes |
| `Streams`, `Formats` | readers, writers and the pool of streams; the layout of every class, as data |
| `MerkleTree`, `Curve`, `Keys`, `ScriptBuilder` | trees of hashes, points, keys and addresses as text, scripts built by pushes |
| `Serialization` | over those: an object on its way from one class to another |
| `StackItems`, `Enumerators`, `Interop` | stack items with comparison and serialisation, enumerators and iterators, the services that read the chain, time and objects or make assets |
| `HeaderIndexProofs`, `BlockPersistProofs` (with `JsonRpc`), `InvocationProofs` (with `VM`), `ContractsProofs` (with `SnapshotCache`), `WalletProofs`, `NodeManagerProofs` | theorems about the module they are named for |
| `FiniteSums`, `Folding` | what those proofs need of numbers: induction over sets of naturals, sums of functions over finite sets; folds of any operator |
| `MC...` | small instances |

A composition is a module that EXTENDS its parts and whose actions are theirs
joined: `Wallet` (wallet, mempool, relay cache, chain), `Invocation` (signatures,
engine, `Persist`, notification database), `Contracts` (services over the
caches), `JsonRpc` (queries over `Persist`).

Definitions that begin with "Mutant:" in their comment are plausible mistakes
in the code. None of them is used by a specification; they show that the
properties would notice.

### DataCache and SnapshotCache

A key of the model is a column with a key of it, so one function stands for all
caches of a `Snapshot`. `db` is what LevelDB holds, `top` the block's
`LevelDBCache`s, `clone` the invocation's `CloneCache`s; an entry has the state
and the item of a `Trackable`, and `Untracked` means that the key is not in
`dictionary`. `level` says which snapshots exist. `Replica` says what
`FromReplica` of the column's class does: `StorageItem` copies, `AccountState`
builds an object that `CloneCache.UpdateInternal` drops (harmless, because
contracts only look accounts up or make them), and no other class has the
method, so that a contract that was destroyed and made again, or an asset that
was renewed, makes `Commit` raise. `Persist` prints that exception and goes on,
with the columns before it committed: `InvocationCommitRaises`. Which
operations a block or a contract performs is left open, but for what the callers
guarantee: `Add` is preceded by a look-up or concerns a new hash.

`DeleteWhere` is part of `Commit`, as it is in `Snapshot.Commit`.

`KVStore` promises less than one would like, and exactly what the code keeps:
`CommitSome` is the commit that stops over a contract or an asset.

*Left out*: items are values here. The layers clone what they hand on, and the one
place where two keys of a layer come to hold one item is `Contract_Migrate`:
`Contracts` has it. `Find` enumerates at once here, and goes on reading while a
contract writes in `Contracts`. When `FromReplica` is missing, `UpdateInternal` has
already marked the inner entry CHANGED (`Storage/Common/CloneCache.py:30`); here the entry
stays as it was, which makes the block write an equal row again, or not.

*Observed*: both `Find`s list the keys that contain the prefix, not those that
begin with it (`Storage/Common/DataCache.py:95`), in the cached layers only, so
that a contract with the hash of another in a key of its own can list more rows
than the database alone would give.

### HeaderIndex

There is one chain, so a header's hash is its height. `AddHeaders` takes a
message of up to `MaxBatch` headers (2000 from a peer, one in an import) and
`AddBlock` the next block with its header, each with all of `OnAddHeader`: lists
of `ListSize` headers are written once as many are in memory, the row of the
last header is written unless there is one, `SYS_CurrentHeader` follows. `Stop`
drops the memory; `Start` is the part of `Blockchain.__init__` that reads the
lists and walks back from the current header, or, when there is no list, reads
every row: `Ascending` is the order in which the rows are put together.

### BlockPersist

`tables` are the state columns, `snapshot` the open snapshot on them; that
nothing but `Commit` moves one into the other is what `SnapshotCache` shows,
and why a plain copy is enough here. `phase` is the point Persist has reached:
in a transaction, in the wait that follows an invocation, or between the
snapshot's batch and the block's. Every batch the code writes is one step:
the row of a transaction, the snapshot, the block's row with `SYS_CurrentBlock`.
`Apply` is one transaction with its coins, claims and balances; a contract's
effect is a counter, which tells once from twice. An exception (a missing coin,
or any other: `PersistInterrupted`) leaves the rows of the transactions before
it and nothing else, and the block is tried again.

`LedgerOf` says what the tables should hold, from a set of transactions, with
no order and no batches; `StateMatchesChain` compares the two. Sums of fees and
balances are `SumFunctionOnSet` of the community modules. `ValidChain` is what
verification leaves of a block before it is persisted: no transaction
twice, and no input or claim that is not there to be spent or claimed.

*Left out*: assets, validators and contracts, which are tables like the others;
a disk write that raises while the process lives on; verification, the chain is
valid.

`ChainQueries` and `JsonRpc` answer from the same state between any two steps:
`GetBlock`, `GetHeader`, `GetTransaction`, `GetAccountState` and the unspent
outputs, and the methods of the server on them. `headers` is the length of the
index, which a start rebuilds without its last header when that follows a stored
list (`HeaderIndex` has the whole of it).

*Observed*: with such an index `getblockhash` of the top block raises,
`getblock` by its height says "Unknown block" and a verbose `getrawtransaction`
of it raises, until the header comes again; `getbestblockhash` is the newest
header, whose block may be unknown; a negative height counts from the end of the
index; confirmations of what is ahead of the height are zero or less; the middle
headers of a message have no row, so `getblockheader` does not know them.

### SyncManager

A step is the code between two places where the task really waits: sockets,
`asyncio.sleep`, the headers and blocks that are added one at a time. (The
`await`s on the ledger's heights do not yield.) So `check_header_timeout`,
`check_block_timeout`, `sync_header` and `sync_block` are one step each,
`persist_headers` is a step per message, and the handlers come in between.
A block is in `inHand` from its `pop` out of the cache to the end of
`add_block`. Per peer, messages arrive in order. The blocks of a batch are timed
from the same moment. Which node `get_next_node` takes depends on weights, that
is on speeds and times, so it may be any node that has the height. This is not
an exaggeration: a node that never delivered keeps the speed it starts with
(102402, as `100 * 1024 ^ 2` is an exclusive or) and outweighs most that did.

*Left out*: the check of `OnHeadersReceived` for headers in the cache already
(`Network/syncmanager.py:365`), which never finds any, as headers of the network layer have no
`__eq__`;
`reset`; peers with different chains or malformed headers; and
`shutdown` and `block_health`, which are in `NodeManager`.

*Observed*: the retry of a batch may go to a node that has failed it more often
than another, although `get_node_with_min_failed_time` looks for the one with the
fewest failures (`Network/nodemanager.py:213`).

### NodeManager

Addresses are on `pool.known`, `pool.queued` and `pool.bad`, connections in `conn`, those
that finished the handshake in `nodes`. A step is again the code between two
waits, and what a call leaves to a callback or a task (`connection_lost` after a
close, the disconnect of a node that erred) is kept in `due` until it runs.
`CheckOpenSpots`, `Connect`, `ConnectFails`, `HandshakeDone`, `HandshakeFails`,
`Disconnect`, `Replacement`, `Shutdown` and `DisconnectAll` are the methods of the manager and
the protocol. What a shutdown cancels fails if it was dialling and never runs if it was
still in the queue, so `Shutdown` chooses which attempts fail; errors, timeouts and stalls are counted as in `add_node_error_count`,
`add_node_timeout_count` and `block_health`. Faults: an address stops answering, a
peer drops the connection, errs, is slow or stalls, a node dials in, the user
sets `maxpeers`.

*Observed*: an address checked with success ends among the bad ones, because
`connection_lost` runs after every close (`Network/node.py:105`); `replace_node` with a
full pool loses the address it popped (`Network/nodemanager.py:184`), and so does the
replacement of all nodes at once when the pool is full half-way: `AddressesKept` excepts
the replacements after which every spot is taken; an address that was connected and does not answer any more is on no
list; more than `maxclients` nodes may be connected and one may be dialled twice;
`block_health` acts when its counter is three and never again in the same stall;
`config minpeers` and `maxpeers` leave the manager's `min_clients` as it is.

### Accounts and Wallet

`wallet` is the memory and `rows` the file. Each command changes the memory and
then writes rows, one commit each; `Accounts` gives the writes of a command as a
sequence, `Wallet` those of a block or a transaction (`Writes`), and the program
may stop after any prefix of them (`StopInEdit`, `StopInBlock`, `StopInSync`,
`StopInRebuild`, and the second half of `RelayAndSave`). `sync_wallet` is a task that
takes a turn of `BlockLimit` blocks at a time; `starts` and `loops` count the tasks
created and those asleep, `handlers` how often `ProcessNewBlock` is subscribed.
`Send`, `Split` and `ClaimGas` make a transaction from the wallet's coins,
`RelayAndSave` offers it to the pool and, when a node took it, marks the coins
(`MaySave` is the check in `SaveTransaction`, the operator of that name what it changes).
`AfterBlock` is one block for memory and file, `AfterBlocks` several of them; `Done` are
the coins that the first row writes reach.
`PersistBlock` is `OnPersistCompleted`: wallet, pool and relay cache hear of the
block. Which of the transactions told to the network a block takes is left to
the consensus nodes: any that spend and claim once.

`torn`, `unseen` and `doubled` record what no sync can repair: a rebuild cut off
by a stop and not repeated, an address that came when blocks had been processed
(or was watched until then), an address watched although the wallet had it.

*Observed*: a sync stops at `_current_height < Height` (`Wallets/Wallet.py:641`)
and subscribes the wallet then, so that it has not processed the block at the
chain's height and the next one it hears of comes after it: that block is left
out until a rebuild or the next opening, although `Wallets/Wallet.py:660` asks
for blocks in order. A rebuild may process blocks twice or skip one when a sync
task or the handler is active (`Wallets/Wallet.py:639`), which is why the user
of the model waits; a start that processes a block again can bring a spent GAS
coin back as unconfirmed until the next rebuild; `UserWallet.Close` never closes
the file; an address whose coins were spent and that is deleted and imported
again before the transaction is in a block has these coins back after a rebuild
or sync, unspent, which is why `SpendsOnce` excepts the coins of a deleted
address; `SaveTransaction` that refuses an input leaves the inputs before it
marked spent; `parse_and_sign` saves before it relays; `CalculateBonusInternal`
raises an `IndexError` at an end of `(len + 1) * interval` and beyond (`HasBonus`); splitting
never ends when a part is zero and can give an output more than asked for; the
fee of a split is taken from the output whatever its asset. `AddWatchOnly`
compares a hash with byte keys, so that an address the wallet has is watched
until it is closed although "Address already exists in wallet" is shown; a key
imported again moves its contract to the end of the file, so that the default
contract and the address of change differ after the wallet is opened again; the
key of a deleted address stays; an import cut off leaves an address that is
neither owned nor watched, and cannot be watched until it is deleted.

*Left out*: a block's coins are written in one order, where the code goes through
collections of its own (a stop may still come behind every row); a
`SaveTransaction` refused after it marked some coins; encryption of keys and the password, aliases, the rows of
transactions, NEP-5 balances. A key goes by the address of its signature
contract. Rebuilding is from block 0.

### VM

A step is one `ExecuteNext` with `PreExecuteInstruction`. Scripts are not listed:
an address of a script holds `Unread` until it is reached, any instruction of the
program's `code` may be found there and stays there, so one run covers all scripts
of a length over an instruction set. Items are small integers and references to
lists of the heap; what a string, hash or signature instruction computes is any
of `Values`, bounded as in the code. `counted` and `strict` follow
`CheckStackSize`, `Held` is what there really is. Gas is kept in a block or a
verification, the number of operations in a test, where each is compared.

*Observed*: `NZ` always pushes true (`VM/ExecutionEngine.py:567`); `UNPACK` reverses a
shared array in place; `VALUES` of an array faults; the instruction whose metering
failed is executed all the same, and the last `RET` turns that `FAULT` into `HALT`;
`CHECKMULTISIG` counts one item too few, and a count below zero makes the next push
fault; counting anew leaves the collections out; `TAILCALL` from an isolated
context returns everything; `NEWARRAY` of a struct shares its list; Boolean keys of
maps never compare equal; `CHECKSIG` without a container faults.

*Left out*: `CHECKMULTISIG` calls `CheckStackSize` twice, which is one step here;
`CountCovers` excepts it.

### NotificationDB, SignatureContext, Invocation, RestApi

`NotificationDB` writes event by event: both addresses with their counters in
one batch, then the contract's and the block's. `SignatureContext` has the wallets
sign papers that travel as JSON (`papers`) until `Completed`, and relay. `Invocation`
joins them with `VM`: verification for the pool, test invocations, blocks whose
invocations execute with waits in between, the dispatch of events with listeners
that raise, and stops. An event belongs to its transaction, so that `RestApi` can
answer by block, address, contract and transaction, in pages.

*Observed*: the rows per contract of one block overwrite each other but for the
last; the first count of a sender is `b'x\00'`, 120
(`Implementations/Notifications/NotificationDB.py:157`); events are lost when the program
stops between the block and `on_persist_completed`, or when a listener raises;
those of a verification are stored with the next block's number and are in no
transaction of it; with `emit_notify_events_on_sc_execution_error` events are
stored twice, and those of faulted executions, too; mint events can be written,
not read; `pagesize=0` raises `ZeroDivisionError`; a negative page counts from the
end. In signatures, JSON loses the values of parameters, so two standard signers
complete only in a wallet with both keys; the check for a signature given twice
compares bytes with text; without `isMultiSig` a missing value becomes 0.

### Contracts

The scripts are left open: which service is called next, with which of the
contexts and contracts the scripts hold, is any, within the `services` of a plan.
Storage is `SnapshotCache` with the clone of the execution, so that rows have a
state in each layer. `PublishTransaction`,
faults, and a commit that a re-created contract stops half-way are actions.
`ColumnsAssumption` says which columns the keys are: contracts, whose states have no
`FromReplica`, and rows, whose items have it; `Commit` removes nothing from either.

*Shared items.* What `Find` takes from the clone's own dictionary is no copy
(`Storage/Common/DataCache.py:96`; only what comes from below is cloned), and
`Contract_Migrate` adds it under the new key as it is. `sharing` has the pairs of rows
whose entries in the clone hold one `StorageItem`. The migrated rows themselves are
deleted in the same call, but `key_prefix in k` also finds rows of other contracts
with the hash in their key, and those stay. A `Put` to one row then changes both. When
both are ADDED the block's cache gets the very item twice (`shared`), so that in a
later execution of the block the `FromReplica` of one CHANGED row changes the
other, too; of several the last in the dictionary wins. `Committed` is that commit.
A row made anew, after it was deleted, has an item of its own.

*The dictionary.* `iter` is a `Find` read on lazily: the rows of the database, read when the
first is asked for, then the block's dictionary, then the clone's, as they are
at each `Next`. The clone's is kept with its order, because a contract can delete a row that is new
in it and put it back between two `Next`s: the size is then the same, which is all that the
enumeration of a dict asks for. `dictionary` is the array of entries of a CPython dict
(3.6 and later): an insertion goes behind the last, a `pop` leaves a gap, and an insertion
that finds the array full makes it anew without the gaps (`Compact`). The iterator
keeps its index in the array (`pos`). When the array is full depends on its size, which no
property should: it may be made anew at any insertion. `After` is what a service does to it, with
the rows it looks up or adds in any order. Of the block's dictionary only the size
matters: nothing is popped from it while an execution runs.

After a commit that stopped half-way (`torn`), rows can be left whose contract is not
there, and a contract made again under the same hash is filled over them: the clone
calls a row new that is not, and when it deletes it, the old one is there again.
`StorageHasOwner`, `MigrationMovesRows`, `ListsAllButPopped` and what `OnlyOwnersWrite`
says of rows therefore speak of the time before such a commit; `TokensListed`, and what
`OnlyOwnersWrite` says of contracts, of any. Which rows share an item is not followed
beyond it, either.

*Observed*: `Storage.Put` asks neither for the trigger nor whether the context is
read-only; a migration into an existing contract destroys the old one and copies
nothing; it copies cached rows of others that have the hash in their key, and
faults when two of them end alike; a contract made so can change a row of another
contract, which never ran, until the block ends, as told above; rows found early and
touched later are listed twice; a row that is new, deleted and put back is listed as often as
that happens, and if the dictionary closes its gaps at such a `Put` a row that nobody
touched is not listed at all, which makes the answer depend on the Python that runs the
node; a dictionary that grows while it is enumerated faults the execution;
`PublishTransaction` raises no event, so its token is never listed; token rows
outlive their contract; `PutEx`, `Account.IsStandard` and `AsReadOnly` always fault.

### Streams, Formats, MerkleTree, Curve, Keys, ScriptBuilder, Serialization

A layout of `Formats` is the sequence of writer or reader calls of one
`Serialize` or `Deserialize`; `Streams` says what each call does to bytes, for the two
pairs of readers and writers (`neo/Core/IO` and `neo/Network/common`). `Serialization`
takes an object from its writer to its reader, writes it again and hashes it,
with every stream taken from the pool; bytes may be cut at any place and typed
texts have a byte wrong. Texts, points and scripts are routes of their own.
The curve is y² = x³ + x + 1 over a field of 23, its arithmetic that of `ECCurve`;
hashes are a mixing function.

*Observed*: `WriteBytes` halves data that looks hexadecimal
(`Core/IO/BinaryWriter.py:102`); an ECDH attribute is read as other data than was
written, which changes the hash; an attribute of an unknown usage can be read and
not hashed; a refused state descriptor is dropped silently; a cut public key reads
as another; `PublishTransaction.Size` leaves a byte out, `TransactionState.Size`
returns nothing, `AccountState.Size` raises with votes; an IP address ending in 0
is read wrong; `GetBlocksPayload` is never readable; a header relayed through
`neo/Network` loses its witness; comparing hashes leaves out byte 0; `_TrimNode` uses
the left child's index for the right; multiplying a point by a number divides
with `/` (`Core/Cryptography/ECCurve.py:558`) and is not modelled; the negative of
Infinity is no point; points of one abscissa are not ordered; `ScriptBuilder.push`
of `True` emits opcode 1 and of an integer above 16 raises.

### StackItems, Enumerators, Interop

Scripts follow a plan: what they start with, which services, instructions and
literals they use and how much gas they have. `StackItems` has the comparison,
numbers, hashes and serialisation of items with the heap of lists; `Enumerators`
the wrappers around arrays, maps, struct iterators, concatenation, keys and
values; `Interop` the services on the chain, on headers, blocks, transactions,
accounts, assets and time, with their prices. The same script runs in two
views of one height: nodes whose headers are ahead by different numbers, or
with rows that an interrupted `Persist` has left.

*Observed*: items are compared by a polynomial hash, so `b'\x00\x1f'` equals
`b'\x01\x00'` in arrays and maps; Boolean keys are found by identity only; `EQUAL` is
not symmetric; `Deserialize` takes collections as keys, checks no array size and
reads cut data as empty; a contract that asks for what is above the height gets
answers that depend on the node; `GetHeader` by hash, `GetValidators` and `GetAsset`
always fault; a second `Asset.Create` in a transaction returns the first asset;
`Renew` costs 1 and asks for no witness.

*Left out*: two interfaces that hold one transaction, attribute, witness or enumerator are
equal in the code if it is the same Python object; here these are equal to themselves only, the
others by what they hold (`Comparable`).

## Runs

| Run | Instance | Question |
|---|---|---|
| `Snapshot` | one account, one storage item, one contract, two values | are the caches transactions, and what can stop a commit? |
| `HeaderIndex` | lists of 3, messages of up to 3, height 10 | does the index stay right over stops? |
| `HeaderWrongHash` | lists of 3, messages of up to 3, height 7 | is the hash under a block's height always its own? (no) |
| `Persist` | four blocks, three stops or exceptions | is the stored state that of the stored chain, do answers agree, does it advance? |
| `PersistClaimTwice` | the same, two faults | is a claimed coin claimable no more? (no) |
| `SyncLive` | two peers at heights 3 and 2, one fault of any kind | does the node catch up? |
| `NodePool` | two addresses and a caller, three connections, one fault of any kind | does the pool lose no address, fill up again and empty at a shutdown? |
| `Wallet` | three kinds of address, two assets, three blocks; seven budgets of steps | does the file follow, does a sync find all, is nothing spent twice or made? |
| `Invocation` | four scripts of up to 11 addresses, three signers; sixteen plans | do the limits hold, do executions end, are events filed, do signatures verify? |
| `Contracts` | three contracts, two suffixes, one block; eight plans | whose rows can an execution change, what do contracts leave when they go, what does an enumeration list while the contract writes? |
| `Serialization` | every class, on every route; each cut and each typing error | do writer and reader agree, and does damage show? |
| `Interop` | nine plans, up to four views each | are items read back the same, and do nodes agree? |

What the passing runs show:

* `Snapshot`. `CachesTrack` relates every entry to the layer below it over any
  sequence of operations on both layers; `Commit` relies on it, and
  `OnlyUncopiedRaise` says that none of the caches' own exceptions can occur
  there. `FindAgreesWithTryGet`: what a contract enumerates is what it would
  read key by key. `NoDeadStored`: removing only what the snapshot has tracked
  removes every empty account and spent coin. `Transactional` is the refinement
  of `KVStore`.
* `HeaderIndex`. `IndexKeptRight`: no step puts a wrong hash into the index or
  into a list when a list is stored or every header has its row.
  `StartLosesAtMostOne`: with every row in place a start is back at the current
  header or one below it. That one is lost when it is the only header after the
  lists, because the start compares a height with a count; if it is the current
  block's, `GetBlockByHeight` of that block returns nothing until a header
  follows.
* `Persist`. `StateMatchesChain`, `HistoryComplete` (fee totals and rows of all
  stored blocks, even when headers of known blocks come in again), `AnswersAgree`
  (what a client is told between any two steps fits together) and
  `ChainPersisted` hold over stops and exceptions at every step but one: a stop
  between the snapshot's batch and the block's. After it, the start persists the
  block over itself. The unspent coins and the history survive this; balances,
  claims and contract storage are applied twice, and a block that spends the
  last output of an earlier transaction can never be persisted again (its row
  is gone: `KeyError`). The variable `torn` records such a stop, and the
  properties that do not survive it say so.
* `SyncLive`. `ChainSynced`: whatever the fault, the node ends at the height of
  its peers; no stale request, lost block or full cache keeps it from asking.
* `NodePool`. `SpotsGivenBack`: an address that takes a spot is still to be dialled or in
  a handshake, so no spot is taken for ever, whichever of the callbacks come first
  (`SpotsBacked`); after a shutdown each node left has its disconnect pending (`NodesLeave`).
  `AddressesKept`: no step but a replacement that leaves no spot open forgets an address.
  `PoolFilled`: once the network is quiet there are as many nodes as wanted or as
  answer. `ShutdownComplete`: after a shutdown no handshake that was under way leaves a
  node.
* `Wallet`. `RowsFollow`: after every step a wallet opened again would be the
  open one. `SyncFindsAll`: a sync that ends has every coin of its addresses and
  offers none that a block has spent, after stops between any two rows.
  `SpendsOnce`, `OffersUnconfirmed`. `NothingCreated`: no transfer or split pays more of an
  asset than its inputs hold, and a claim pays what the blocks generated for its shares.
  `WalletSyncs`: an open wallet ends up following the chain. The exceptions are `torn`, `unseen` and `doubled`;
  without any one of them the properties fail.
* `Invocation`. `CountCovers`, `HaltsPaid`, `ReturnsAsAsked` and `Terminates` speak
  of the engine, `EventsFiled` of the notifications as the REST API shows them,
  `RelayedVerifies` of signatures in any order.
* `Contracts`. `StorageHasOwner`: rows belong to contracts that exist.
  `MigrationMovesRows`, `TokensListed`. `OnlyOwnersWrite`: rows are
  changed by their contract only, but for a row with a script hash in its suffix that
  holds one item with a row of a contract that ran; without that exception the run
  fails. `ListsAllButPopped`: an enumeration that came to its end has
  missed at most as many of the rows that were there all the while as the execution had popped
  from the dictionary; with 0 for that bound the run fails. It lists a row twice at most, and
  then one the execution touched, but for rows that were popped: those once for each pop, and
  once more.
* `Serialization`. `RoundTrip`, `DamageShows`, `MembersInAnyOrder`,
  `PointsAdd`. `Spoiled` names the objects that do not come through.
* `Interop`. `SerializedSame`, `ListedInOrder`, `NodesAgree`.

`HeaderWrongHash` and `PersistClaimTwice` show the code doing what a comment of it
denies; the findings in `PROJECT.json` quote the lines.

### Bounds

They are named in the modules and given in the configurations.

* `Snapshot`: two values and three keys. A key's life in the caches depends on
  its own entries only, except for the order of columns in `Commit` and for
  `Find`; the third key gives `Commit` a column before and one behind the one
  that raises.
* `ListSize`, `MaxHeight`: three lists, with every remainder, and messages that
  end within, at and beyond a list.
* Four blocks of `Persist`: a coin is made, spent, claimed; an output is spent in
  its own block; a transaction's row goes when its outputs are spent in two
  different blocks; invocations halt and fault, first, between and last in a
  block. `MaxFaults` of three lets a block be interrupted, stopped and interrupted
  again, and two blocks be hit.
* Peers at heights 3 and 2, caches, requests and messages of 2: the block cache
  fills, a batch is larger than one peer can serve, a second batch follows, and
  a retry can find one peer, both or none. `MaxFaults` bounds the faults, not
  the retries they cause.
* `NodePool`: two seeds with a pool of two make it full; three connections let one
  close while its successor is dialled. Limits of errors and timeouts are 0, so
  that one of each replaces a node.
* `Wallet`: `Budgets` says how many blocks, openings, rebuilds, transactions,
  edits and stops a behaviour may have: two transactions in a session; one and a
  stop anywhere; one, a rebuild and a stop; three blocks, a rebuild and a stop;
  three edits with a stop, or in two sessions; two edits and a rebuild. A portion is one block, so that a sync takes several turns. An
  interval of two blocks puts starts and ends of a bonus on, before and behind a
  boundary. One multi-signature address, one token; the wallet is closed and
  rebuilt when no task runs.
* `Invocation`: a plan is a set of instructions and what else happens; the gas,
  the stack of 6, the arrays of 3 and three contexts are reached and passed by
  scripts of 4 to 11 instructions. Pages of 1, 2 and 500.
* `Contracts`: a plan is a sequence of sets, the services scripts may use first,
  second and so on, in all executions of the block together; `Stores` are the databases a plan begins
  with. Depth 2, three contracts and two suffixes, one with the hash of the first contract in it; a
  third contract because shared items take one that migrates, the one it
  makes and one whose row mentions it. Five services a block, or four where more of them are
  offered, and longer sequences of fewer services where it takes more to get
  there: `Lending` (eleven) puts a row under the mentioned hash, migrates, and writes both rows in one
  execution or several; `Listing` (twelve) puts rows, lists one, deletes it, puts it back and lists
  on, so that a row is listed again and another passed over; `ListingLater` does some of it in a second
  execution. Two values, so that a row is seen to change. One iterator at a time.
* `Serialization`: each class with each of its kinds, empty, short and long arrays
  and the boundaries of variable lengths; numbers computed with stay below 2³¹,
  lengths saturate at 2²⁶.
* `Interop`: 3 or 4 calls a plan, items of up to 12 bytes and arrays of 3, so that
  both limits are met; three blocks and one header ahead; numbers below 2²³. A test
  invocation is looked at with no header ahead and two, with and without rows
  of the block to come.

### Fairness

* `Persist`: the loop runs what is scheduled (`PersistStep`); the sync manager
  offers the next block until the chain has it (`BeginPersist`, which `SyncLive`
  justifies); a node that was stopped is started again. Headers, exceptions and
  stops are under no fairness.
* `SyncManager`: the event loop runs the service loop and the persist task; time
  passes (`HeaderTimeout`, `BlockTimeout`); what a peer has sent and is not lost
  arrives; the node manager fills its pool (`Connect`, which `NodePool` justifies).
* `NodeManager`: the loop runs the periodic check, pending callbacks and
  disconnects; an attempt and a handshake end one way or the other; a peer that
  has gone closes in the end.
* `Wallet`, `Invocation`: a task of the loop gets its turn (`SyncStep`), an engine
  executes (`Execute`). Both are weak fairness with its `ENABLED` written out,
  which TLC checks faster.

Faults, the user and other nodes are under no fairness, and faults are finitely
many. Weak fairness is enough everywhere, because none of these actions is
disabled again by others for ever.

## Proofs

The theorems hold for every value of the constants that satisfies the named
assumptions of the modules; the runs check the same formulas on one instance
each. Assumptions say what the code or its surroundings guarantee, and TLC
evaluates them on the instances.

`ContractsProofs`, of `SnapshotCache`, for all sets of keys and items, all columns, and from the
four assumptions of `DataCache` and `SnapshotCache` only (`Null` is no
item; `Replica`, `Dead` and `Rank` are functions on the keys):

* `TypeCorrect`, `Invariance`, `NothingDeadStored`: the inductive invariant is
  `IInv == TypeOK /\ CachesTrack /\ NoDeadStored`. Types alone are not
  inductive: `Commit` calls `Add` on the cache below, and that the result is an
  entry that agrees with its lower layer depends on what the clone's states say
  about that cache, which depends on what the cache's states say about the
  database. One lemma per operation says what it does to an entry, to what is
  seen through the cache (`View`) and to the agreement with the layer below
  (`Tracks`); the step lemma has one case per action.
* `CommitRaisesOverUncopied` is `OnlyUncopiedRaise`: from the invariant, neither `Add` nor
  `GetAndChange` can raise in `Commit`, so that only the missing `FromReplica`
  is left.
* `FindIsComplete` is `FindAgreesWithTryGet`: one layer's `Find` over the live keys below gives the live
  keys seen through it; used twice.
* `Refinement` is `Transactional`: the caches implement `KVStore`, with the mapping in
  `SnapshotCache`: the store as it is, the block as seen through one cache, the
  invocation as seen through two, each without the items that `DeleteWhere` is
  going to remove. It needs one more invariant, `NothingIgnored`: a contract
  changes nothing whose `FromReplica` has no effect.
* `CachesKeepTrack` is `CachesTrack`, the part of the inductive invariant that `Commit`
  relies on.

`HeaderIndexProofs`, for every size of a list, of a message and of the chain:

* `CountsStoredHeaders`: the inductive invariant `HeaderInvariant`, the types and that
  a running node has counted exactly the headers in its lists. Without the count
  nothing can be said about the slice of the index that becomes the next list.
* `IndexStaysRight` is `IndexKeptRight`, `StartComesBack` is `StartLosesAtMostOne`.
  The hard case is the start: its index is the lists followed by a walk back,
  or all rows in order, and has to be shown equal to `0, 1, 2, ...`. The lemmas on
  `Ascending` say that the members of a gapless set come out so.
* What the proof found: that every height up to the current header has a row is not
  enough. After a start that a gap sent astray, there can be rows above the
  current header with a gap below them, and without a list the next start reads
  these, too. `RowsComplete` therefore speaks of every row. (With lists of 6 and
  messages of 4, TLC then shows it; with lists no longer than a message it cannot
  happen.) `StartLosesAtMostOne` supposes lists that are right.

`BlockPersistProofs`, for every valid chain and any number of stops and exceptions:

* `PlaceAndHistory`, `HistoryStaysComplete`: `HistoryInvariant` says where `Persist` is
  (`Place`: the block it has, how many of its transactions are done, that the rows
  written so far are those of these transactions, what fee has been added up) and
  what is stored below. `HistoryComplete` alone is not inductive: the last batch
  makes a block count, so the rows of its transactions must be known before.
* `TablesOfChain`, `TablesMatchChain`: `TablesInvariant` says that the snapshot is
  the ledger of the transactions before the one that is next, and the tables that
  of a prefix of the chain. The core is one lemma: `Apply` of a transaction to the
  tables of a set of transactions gives those of the set with it, coin by coin, claim by
  claim, and balance by balance (sums over finite sets, `FiniteSums`). It needs of the chain
  that transactions come after what they spend (`ValidChain`). After a stop between
  the two last batches (`torn`) the same transactions are applied to tables that have
  them; the invariant then keeps of the tables what survives, the unspent outputs.
* `AnswersFit` is `AnswersAgree` of `JsonRpc`: what a client is told at any moment fits together.
  From the two invariants and `AnswerInvariant` (no row above the height has a block
  behind it), one lemma for each query that the answers are made of.

`InvocationProofs`, for every amount of gas and every limit, program and
plan, and for every contract of several keys:

* `PaidBeforeHalt`: `HaltsPaid`. `GasInvariant` adds that what is consumed is a natural
  number and that an engine that still runs has not passed the amount. `Outcome` sorts
  what any instruction does: it faults, or it was metered and goes on, or it is the
  `RET` that halts. That this one is executed even when its metering has failed is why
  `HaltsPaid` allows it one unit.
* `SignaturesVerify`: `RelayedVerifies`, for any number of keys and any minimum.
  `SigningInvariant` says what a paper that travels can hold: blank values and signatures
  of signers only, for the hashes asked for, and fewer than the minimum. The lemmas on
  `Descending` (the order of `AddSignature`) and on the loop of `CHECKMULTISIG`, which
  never goes back to a key, show that signatures in the order of the keys are all found.
* `MachineIsKept`, `CountAlwaysCovers`, `AlwaysReturnsAsAsked`: `CountCovers` and
  `ReturnsAsAsked`. The inductive invariant is `MachineInvariant`; TLC checked it on the
  instance of `Invocation` before it was proved. Its parts:
  `HeapTyped`, no reference dangles, a map has as many keys as values, and its two lists
  belong to no other object; `Owing`, what a context owes is what its caller kept: the
  frame below still has exactly that stack, whatever tail calls have replaced in between;
  `Counted`, what the stacks and the lists of the heap carry, a reference counted wherever
  it stands, is at most the count and the results of `CHECKMULTISIG`; `CodeTyped` and
  `Scheduled`, that what is fetched is an instruction and that an engine that runs
  has a context.
  `CountCovers` is not inductive: `Held` counts an array that several references lead to
  once, so that popping one of them frees nothing, and what an instruction will add
  depends on items that `Held` did not see. `Carried` counts every list of the heap, also
  one that nothing leads to any more, and every item of a stack; every instruction adds to
  the count at least what it adds to that (`Stepped`, one lemma per instruction), and
  `HeldBound` says that `Held` is no more. That a map keeps its lists to itself is
  what makes a removed entry one key and one value less, and that arrays may share a list
  (`NEWSTRUCT` of an array) is why the invariant speaks of lists and not of objects.
  Clones and `VALUES` copy a whole list, one item after the other (`Folding`), after which the
  engine counts anew, and from then on `recounted` makes no promise.

`ContractsProofs`, of `Contracts`, for all sets of contracts and suffixes, any mentions of a hash in a
suffix, any depth and any plan, and from `ColumnsAssumption`:

* `ContractsInvariance`: the inductive invariant `ContractsInvariant`, a conjunction of
  `Typed`, `Control`, `Announced`, `Authorised`, `Orderly`, `Held`, `Arrayed` and `Sharing`. `Control` says
  which contexts a script can hold: of scripts that ran, and of contracts made in this
  execution; `Announced`, that a contract seen at any level has its event or
  is listed; `Orderly`, that both caches track the layer below and that the rows seen at
  each of the three levels have their owners, as long as no commit stopped half-way.
  Rows with owners are not inductive by themselves: that the rows of a new contract
  were absent decides whether the clone rightly calls them new. `Arrayed` says that the
  rows of `dictionary` are those the clone tracks, each in a place of its own; `Held` and
  `Sharing`, that two rows with one item have the same suffix, with a script hash in it, that
  the clone can read both, and that in the block's cache they are ADDED or CHANGED.
  `Authorised` says that the clone tracks only rows of contracts that ran or were made.
* `OnlyOwnersDo` is `OnlyOwnersWrite`, for any set of contracts, so that two migrations
  one after the other, and rows shared by three, are in it. `RowsHaveOwners` is `StorageHasOwner`,
  `TokensAreListed` is `TokensListed`. A service changes several keys of two caches at once;
  what it does is proved one entry at a time, from the lemmas on the caches' operations,
  and `Does` is what all services have in common. A destroyed contract leaves no
  rows because `Found` yields each row that is seen (`FoundProps`), whatever else it yields.
* `MigrationMoves` is `MigrationMovesRows`; only `Contract_Migrate` takes a contract away
  and makes another in one step. What the proof found: it needs `~torn` as well.
* `EveryRowListed` is `ListsAllButPopped`, from `FiniteAssumption` as well (finite sets of contracts and
  suffixes), by an invariant of its own, `Enumerates`, which is `InOrder` and `Gauged`.
  `InOrder`: until the end every row that stayed and is not yet listed is left from the database, or
  tracked in a dictionary that is not through (`Awaits`); `Counts` says how often each can have been
  listed before the clone's dictionary is reached. There `Gauged` takes over: `Slack`, the rows not
  listed that lie behind the iterator's place and the gaps of the array, is at most the
  pops. A pop makes one gap, an insertion moves nothing, and making the array anew brings no more rows
  behind the place than it closes gaps (`CompactSlack`). `Listed` says that a row is listed once
  more than it was popped, at most. Why rows are not lost as they change layers is in `Touches`:
  what the cache below comes to track, the clone tracks, too; and a clone forgets only
  rows that are new in it. It does not need the check on the size of the
  dictionaries. It needs `~torn`, too, for the row that is new in the clone and there below.

`WalletProofs`, for every genesis block and every other transaction of the network, any
amounts and fees, lengths of a portion and numbers of steps, and from
`WalletAssumption` (types of the constants) only:

* The inductive invariant is `WalletInvariant`. TLC checked it on the instance of
  `Wallet` (all 229,700 states) before it was proved. Its parts:
  `ChainInvariant`, a transaction is in one block and what it takes is in an earlier one;
  `FileRight`, the coins of the file are of transactions that were made, the confirmed ones
  of the chain, each contract has one row, and its address a row that is not watched;
  `WalletRight`, the same of the memory, and `Tasks`: which of the sync tasks and the handler
  there can be at once; `AllMarked`, on which `SpendsOnce` rests.
* `NothingOffered` is `OffersUnconfirmed`. It needs of the chain only that
  `PersistBlock` takes the block's transactions from pool and cache in its own step.
* `NothingSpentTwice` is `SpendsOnce`, for blocks that come between any two sends, with the
  transactions sent or without. Two sends that took one coin are far apart, so the
  invariant speaks of each coin taken: it is marked spent (or claimed), or it is gone
  from the wallet **and its transaction is in no block that the wallet has yet to
  process** (`Marks`, `Past`). Without the last part a block processed late would bring
  the coin back. A sync makes it delicate: its task takes blocks in order below the
  wallet's height, and the handler the newest, so `Past` differs with `Tasks`.
* `FileFollows` is `RowsFollow`. A command writes several rows one after the other and the
  memory changes at once; a block or a transaction writes a row for each coin. The
  lemmas on `Saved` say what the file is after each of the writes, so that the same lemma
  serves the whole command and the stop in the middle of it. What makes it more than
  a comparison of two assignments is that the writes go by what the file has, and the
  changes by what the memory has: an address without a row takes no coin
  (`homeless`), `AddContract` removes a row that `RemoveFirst` must find, and
  `AddWatchOnly` writes only where there is no row. That is why the invariant keeps, of the
  file, that no contract has two rows and no contract's address is watched.
* `MoneyIsKept` is `NothingCreated`. `MoneyRight` says, on top of `WalletInvariant`, that
  values are natural numbers (`ValuesRight`), that each transaction pays no more of an
  asset than its inputs hold (`Balanced`), and when a coin was spent (`SpendsRight`); TLC
  checked it, too. A transfer is a sum over the inputs taken one after the other, a split a
  sum over portions; `BonusIs` shows that the interval-by-interval sum of
  `CalculateBonusInternal` is what each block generated, added up block by block, for any
  interval, table, start and end for which the code finishes (`HasBonus`).

`NodeManagerProofs`, for all addresses, seeds and limits, any number of connections and any
faults, and from `NodeManagerAssumption` (types of the constants) only:

* `PoolRight`: the inductive invariant `PoolInvariant`. `PoolTyped`, `NodesTyped` and `RestTyped`
  are the types (`TypesRight` is `TypeOK`), with nodes that are different connections, all
  past their handshake; `Backed` and `NodesLeave` are what follows.
* `SpotsComeBack` is `SpotsGivenBack`. An attempt and a handshake with one address may both be
  under way, also twice, because `on_addr_received` starts checks beside the pool. The
  step to look at is the end of one of them: it frees the spot of the address, so the
  others need not be behind it any more (`OthersBacked`). After a shutdown it rests on
  `add_connected_node`, which looks at `shutting_down`.
* `AddressesAreKept` is `AddressesKept`. `check_open_spots_and_queue_nodes` fills as many spots
  as were open when it began; a fill takes at most one (`FillsSpots`), so none of them
  finds the pool full. `ReplacesNodes` says the same of replacements as far as it goes: as
  long as there is a spot, nothing is lost. What the proof found: the property excepted
  only replacements that began in a full pool, but `block_health` replaces all nodes
  in one step, none of which has left by then, and the pool may be full half-way. The small
  instance has too few addresses for that.

`FiniteSums` has what several modules share. The library's induction theorem takes an operator,
which none of the provers here can instantiate; `Induction` says the same of a set,
that a set of naturals with 0 and with the successor of each member is all of them, and
follows from the well-foundedness of `<`. With it the folds of the community
modules are unfolded one member at a time, and statements about sequences and counts are
proved for every length. `Folding` does this for `FoldLeft` once and for all: the
operator is its CONSTANT, and a module that folds takes it by INSTANCE with its own (`WalletProofs`
twice, for blocks and for row writes, `InvocationProofs` twice, for clones and for values,
`NodeManagerProofs` three times), which the provers accept.
What stays out of reach is recursion by `RECURSIVE`.

Only model-checked:

* Liveness under fairness (`ChainPersisted`, `ChainSynced`, `PoolFilled`, `WalletSyncs`,
  `Terminates`) and everything with `ENABLED`: out of the provers' reach.
* What recursive operators compute: nine modules are recursive over data (`StackItems`,
  `Enumerators`, `Interop`, `Streams`, `Formats`, `MerkleTree`, `Curve`, `ScriptBuilder`,
  `Serialization`), and so their properties stay with `Serialization` and `Interop`.
* `SyncFindsAll` of `Wallet`, `EventsFiled` of `Invocation`: no proof yet.
  `EventsFiled` looks at the first page of a block's or a transaction's events, so it supposes
  fewer events in a block than `DefaultLength`, as the run has; for every value of the constants
  it would be stated of the listing before it is cut into pages. `ShutdownComplete`
  of `NodeManager` is a liveness property; `NodesLeave` is what of it is safety, and proved.

## Not modelled

* Values of hashes, signatures and ciphers: functions without state.
* Multiplication of points, and with it making and checking signatures: the code
  of `ECCurve.mul` is not the one the node verifies with.
* Transaction results by asset beyond what a claim needs, priorities, and the
  policies on fees: sums over the outputs, and one comparison each.
* Votes and validators: no block is made by this node.
* The debugger, `sc build` and the printing commands: they change nothing that is
  kept.
* Bootstrap, import, export, `reencrypt_wallet`: one pass over a file with no other
  actor. (An import from height 0 reads as many records as the file counts and one
  more, `bin/import_blocks.py:149`, so it reads past the end of an
  exported file.) The import hands every block to the same `AddHeaders` and `TryPersist`, with
  one header a message (`MaxBatch`).
* JSON-RPC methods that act on a wallet or invoke scripts: the operations are
  those of `Wallet` and `Invocation`; `get_status` of the REST API reads counters.
* A disk write that raises while the process lives on: the code has no answer to
  it anywhere (after `Core/Blockchain.py:1089` the height in memory is ahead for good).

## Plan

1. `EventsFiled`: counters stay ahead of the rows they number.
2. Safety of `SyncManager`: that a block is nowhere lost while it is requested.
