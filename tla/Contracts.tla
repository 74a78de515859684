----------------------------- MODULE Contracts -----------------------------
(***************************************************************************)
(* What running contracts do to the contracts and to their storage: the    *)
(* services of neo/SmartContract/StateReader.py and StateMachine.py that   *)
(* call, create, migrate and destroy contracts, hand out storage contexts  *)
(* and read, write and search storage, over the caches of SnapshotCache.   *)
(*                                                                         *)
(* A key is <<"contract", c>> or <<c, s>>: the row of contract c with the  *)
(* suffix s.  The script of the transaction, Script, has no contract.       *)
(* Which services a script calls, in which order and with which of the     *)
(* objects it got hold of, is left open.  A service that returns False or  *)
(* raises ends the execution, so only successful calls are actions; Fault  *)
(* stands for all the others.                                              *)
(***************************************************************************)
EXTENDS SnapshotCache, Sequences, FiniteSets

CONSTANTS
    Hash,        \* script hashes of contracts
    Script,      \* the hash of a transaction's script
    Suffix,      \* what follows the script hash in the key of a row
    Mentions,    \* per suffix, the script hashes that occur in it
    Plans,       \* bounds: the services scripts may use first, second and so on
    Stores,      \* bounds: per plan, the databases to begin with
    MaxBlocks,   \* bound: blocks
    MaxDepth,    \* bound: scripts on the invocation stack
    MaxPublished \* bound: contracts made by PublishTransactions

VARIABLES
    running,     \* script hashes on the invocation stack, the current one last
    contexts,    \* the StorageContexts the scripts hold
    held,        \* hashes of the ContractStates the scripts hold
    created,     \* _contracts_created
    iter,        \* the StorageIterator
    sharing,     \* pairs of rows whose entries in the clone hold one StorageItem
    shared,      \* pairs of rows whose entries in the block's cache hold one
    dictionary,  \* the clone's dictionary of storage: where it has its rows
    pops,        \* rows taken out of it in this execution (history)
    dropped,     \* which rows these were (history)
    ran,         \* scripts that ran in this execution (history)
    emitted,     \* contracts with a CREATED or MIGRATED event to dispatch
    tokens,      \* contracts among PREFIX_TOKEN of the notification database
    published,   \* contracts made by PublishTransactions (history)
    torn,        \* the commit of an invocation stopped half-way (history)
    plan,        \* the plan followed
    services, blocks \* how many were used, and blocks there were

engine == <<running, contexts, held, created, ran, emitted>>
objects == <<sharing, dictionary, pops, dropped>>
listing == <<tokens, published, torn, plan, blocks>>
contractVars == <<vars, engine, iter, objects, shared, listing, services>>

Nobody == "nobody"
Contract(c) == <<"contract", c>>
Row(c, s) == <<c, s>>
Rows(c) == {Row(c, s) : s \in Suffix}
AllRows == UNION {Rows(c) : c \in Hash}

\* The columns of contracts and of storage.  StorageItem is the one that has FromReplica,
\* and Snapshot.Commit removes nothing from either and commits contracts first.
ASSUME ColumnsAssumption ==
    /\ Key = ({"contract"} \X Hash) \union (Hash \X Suffix)
    /\ "contract" \notin Hash /\ Nobody \notin Hash \union {Script}
    /\ {"plain", "storing"} \subseteq Value
    /\ \A c \in Hash : Replica[Contract(c)] = "missing" /\ \A k \in Rows(c) : Replica[k] = "copies"
    /\ \A k \in Key : Dead[k] = {}
    /\ \A c \in Hash, k \in AllRows : Rank[Contract(c)] < Rank[k]

ASSUME StoresAssumption == Stores \in [Plans -> SUBSET [Key -> Item]]
ASSUME FiniteAssumption == IsFiniteSet(Hash) /\ IsFiniteSet(Suffix)

\* The keys that begin with a script hash, and those that contain it somewhere.
Starting(c) == Rows(c)
Containing(c) == Rows(c) \union {Row(d, s) : d \in Hash, s \in {t \in Suffix : c \in Mentions[t]}}

HasStorage(state) == state = "storing"

NoIter == [phase |-> "none"]

-----------------------------------------------------------------------------
(* The clone's dictionary of storage is an array of entries in the order in *)
(* which they came in, as CPython keeps it.  slot is the place of a row, 0  *)
(* when it is not there.  A popped entry leaves a gap.  An update that       *)
(* finds the array full closes the gaps first; how many entries there is    *)
(* room for is left open.                                                  *)

EmptyDictionary == [slot |-> [k \in AllRows |-> 0], used |-> 0]

Orders(S) ==
    {order \in [S -> 1..Cardinality(S)] : \A j, k \in S : order[j] = order[k] => j = k}

\* The rows between the m-th and the n-th of an order come in.
Enter(d, order, m, n) ==
    [slot |-> [k \in AllRows |-> IF k \in DOMAIN order /\ m < order[k] /\ order[k] <= n
                                THEN d.used + order[k] - m ELSE d.slot[k]],
     used |-> d.used + n - m]

Popped(d, K) == [d EXCEPT !.slot = [k \in AllRows |-> IF k \in K THEN 0 ELSE d.slot[k]]]

Entered(d) == {k \in AllRows : d.slot[k] # 0}

Compact(d) ==
    [slot |-> [k \in AllRows |-> Cardinality({j \in Entered(d) : d.slot[j] <= d.slot[k]})],
     used |-> Cardinality(Entered(d))]

\* The dictionary after updates with the rows `writes`, which come in if they are not
\* there, in any order, and pops of the rows `out`.
After(d, writes, out) ==
    LET new == {k \in writes : d.slot[k] = 0}
        all == Cardinality(new)
    IN  UNION {{Popped(Enter(d, order, 0, all), out)} \union
               {Popped(Enter(Compact(Popped(Enter(d, order, 0, n), gone)), order, n, all), out) :
                    n \in {m \in 0..all : writes # {}}, gone \in SUBSET out} : order \in Orders(new)}

ContractsInit ==
    /\ plan \in Plans /\ db \in Stores[plan]
    /\ \A c \in Hash :
          /\ db[Contract(c)] \in {"plain", "storing", Null}
          /\ \A s \in Suffix : db[Row(c, s)] \in (IF HasStorage(db[Contract(c)])
                                                  THEN Value \ {"plain", "storing"} ELSE {}) \union {Null}
    /\ top = EmptyCache /\ clone = EmptyCache /\ level = "idle"
    /\ running = << >> /\ contexts = {} /\ held = {} /\ ran = {}
    /\ created = [c \in Hash |-> Nobody]
    /\ iter = NoIter
    /\ sharing = {} /\ shared = {} /\ dictionary = EmptyDictionary /\ pops = 0 /\ dropped = {}
    /\ emitted = {} /\ tokens = {c \in Hash : db[Contract(c)] # Null} /\ published = {}
    /\ torn = FALSE /\ services = 0 /\ blocks = 0

-----------------------------------------------------------------------------
(* Effects on the caches.  ks are looked up in the clone, which looks them  *)
(* up in the cache below; dels are deleted from it.                        *)

AfterLookup(t, ks) == [k \in Key |-> IF k \in ks /\ clone[k] = Untracked THEN TryGet(t, db, k)[k] ELSE t[k]]

LookUp(c, t, ks) == [k \in Key |-> IF k \in ks THEN TryGet(c, View(t, db), k)[k] ELSE c[k]]

DeleteAll(c, t, dels) == [k \in Key |-> IF k \in dels THEN Delete(c, View(t, db), k)[k] ELSE c[k]]

\* Storages.Find of the clone, run to its end.
Found(c, t, h) ==
    Find(c, Find(t, FindInternal(db, Starting(h)), Containing(h)), Containing(h))

Live(c) == InvocationView[Contract(c)] # Null
Current == running[Len(running)]

Planned(service) == services < Len(plan) /\ service \in plan[services + 1]

Calls(service) ==
    /\ level = "invoke" /\ Planned(service)
    /\ services' = services + 1
    /\ UNCHANGED <<listing, shared>>

-----------------------------------------------------------------------------
(* The transaction and its invocation stack.                               *)

\* Persist reaches an InvocationTransaction; its script comes first.
Invoke ==
    /\ BeginInvocation
    /\ running' = <<Script>> /\ ran' = {Script}
    /\ contexts' = {} /\ held' = {} /\ created' = [c \in Hash |-> Nobody] /\ iter' = NoIter
    /\ UNCHANGED <<objects, emitted, shared, listing, services>>

\* A PublishTransaction: no event is emitted for it.
Publish(c, state) ==
    /\ Planned("publish") /\ Cardinality(published) < MaxPublished
    /\ BlockGetOrAdd(Contract(c), state)
    /\ published' = published \union {c}
    /\ UNCHANGED <<engine, iter, objects, shared, tokens, torn, plan, blocks, services>>

\* APPCALL: GetScript of the script table, which is the snapshot.
AppCall(c) ==
    /\ Calls("call")
    /\ Len(running) < MaxDepth /\ Live(c)
    /\ InvocationGet(Contract(c))
    /\ running' = Append(running, c) /\ ran' = ran \union {c}
    /\ UNCHANGED <<contexts, held, created, emitted>>

\* RET; what the scripts hold may be handed on, through stack or arguments.
Return ==
    /\ level = "invoke" /\ Len(running) > 1
    /\ running' = SubSeq(running, 1, Len(running) - 1)
    /\ UNCHANGED <<vars, contexts, held, created, ran, emitted, listing, shared, services>>

\* The execution is over, and its snapshot with all that goes with it.
EndExecution ==
    /\ running' = << >> /\ contexts' = {} /\ held' = {} /\ ran' = {}
    /\ created' = [c \in Hash |-> Nobody] /\ iter' = NoIter
    /\ sharing' = {} /\ dictionary' = EmptyDictionary /\ pops' = 0 /\ dropped' = {}
    /\ UNCHANGED <<tokens, published, plan, blocks, services>>

\* Commit changes the item of a CHANGED row in the cache below in place, and so the
\* item of every row that shares it there; the last of the dictionary wins.
Writers(k) == {j \in AllRows : Filtered[j].state = "CHANGED" /\ (j = k \/ <<j, k>> \in shared)}

LastOf(K) == CHOOSE k \in K : \A j \in K : dictionary.slot[j] <= dictionary.slot[k]

Committed ==
    [k \in Key |->
        LET entry == CommitInto(Filtered, top, db, Key)[k]
        IN  IF k \in AllRows /\ Writers(k) # {} /\ entry.state \in TrackState
            THEN [entry EXCEPT !.item = Filtered[LastOf(Writers(k))].item]
            ELSE entry]

\* An ADDED row hands over its very item.
SharedAfterCommit ==
    {p \in shared : clone[p[1]] # DeletedEntry /\ clone[p[2]] # DeletedEntry}
        \union {p \in sharing : clone[p[1]].state = "ADDED" /\ clone[p[2]].state = "ADDED"}

\* The last script returned and the engine halted: the snapshot is committed.
Halt ==
    /\ level = "invoke" /\ Len(running) = 1 /\ RaisingKeys = {}
    /\ top' = Committed /\ clone' = EmptyCache /\ level' = "block"
    /\ shared' = SharedAfterCommit
    /\ UNCHANGED <<db, emitted, torn>>
    /\ EndExecution

\* Mutant: the events of an execution whose commit raised are dropped.
HaltRaisesSilently ==
    /\ Len(running) = 1 /\ InvocationCommitRaises
    /\ torn' = TRUE /\ emitted' = {}
    /\ UNCHANGED shared
    /\ EndExecution

\* Contracts are committed before rows, and rows raise only when a commit stopped half-way
\* before: which of them share an item is not followed from there on.
HaltRaises ==
    /\ Len(running) = 1 /\ InvocationCommitRaises
    /\ torn' = TRUE
    /\ UNCHANGED <<emitted, shared>>
    /\ EndExecution

\* A service returned False or raised, or the script threw: the events of the
\* execution stay, its changes do not.
Fault == InvocationDiscard /\ UNCHANGED <<emitted, torn, shared>> /\ EndExecution

-----------------------------------------------------------------------------
(* Storage contexts.                                                       *)

Context(c, readOnly) == [owner |-> c, readOnly |-> readOnly]

\* Storage_GetContext and Storage_GetReadOnlyContext.
StorageGetContext(readOnly) ==
    /\ Calls(IF readOnly THEN "readOnlyContext" ELSE "context")
    /\ contexts' = contexts \union {Context(Current, readOnly)}
    /\ UNCHANGED <<vars, running, held, created, ran, emitted>>

\* Blockchain_GetContract pushes the state of a contract that exists.
BlockchainGetContract(c) ==
    /\ Calls("contract")
    /\ Live(c)
    /\ held' = held \union {c}
    /\ InvocationGet(Contract(c))
    /\ UNCHANGED <<running, contexts, created, ran, emitted>>

\* Mutant: nobody asks who made the contract.
GetStorageContextOfAny(c) ==
    /\ Calls("contextOf")
    /\ c \in held
    /\ contexts' = contexts \union {Context(c, FALSE)}
    /\ UNCHANGED <<vars, running, held, created, ran, emitted>>

\* Only the script that made the contract, in this execution, gets its context;
\* whether the contract still exists is asked when the context is used.
ContractGetStorageContext(c) ==
    /\ Calls("contextOf")
    /\ c \in held /\ created[c] = Current
    /\ contexts' = contexts \union {Context(c, FALSE)}
    /\ UNCHANGED <<vars, running, held, created, ran, emitted>>

CheckStorageContext(ctx) ==
    ctx.owner \in Hash /\ HasStorage(InvocationView[Contract(ctx.owner)])

-----------------------------------------------------------------------------
(* Storage.  CheckStorageContext looks the contract up first.              *)

Looks(ctx, ks) ==
    /\ clone' = LookUp(clone, top, ks \union {Contract(ctx.owner)})
    /\ top' = AfterLookup(top, ks \union {Contract(ctx.owner)})

StorageGet(ctx, s) ==
    /\ Calls("get")
    /\ CheckStorageContext(ctx)
    /\ Looks(ctx, {Row(ctx.owner, s)})
    /\ UNCHANGED <<db, level, engine>>

\* Storage_Put does not ask whether the context is read-only.  The item it changes may
\* be that of other rows too.
StoragePut(ctx, s, v) ==
    /\ Calls("put")
    /\ CheckStorageContext(ctx)
    /\ LET row == Row(ctx.owner, s)
           put == Put(LookUp(clone, top, {Contract(ctx.owner)}), BlockView, row, v)
       IN  /\ clone' = [k \in Key |-> IF <<row, k>> \in sharing THEN [put[k] EXCEPT !.item = v] ELSE put[k]]
           /\ top' = AfterLookup(top, {row, Contract(ctx.owner)})
    /\ UNCHANGED <<db, level, engine>>

StorageDelete(ctx, s) ==
    /\ Calls("delete")
    /\ CheckStorageContext(ctx) /\ ~ctx.readOnly
    /\ LET k == Row(ctx.owner, s)
       IN  /\ clone' = Delete(LookUp(clone, top, {k, Contract(ctx.owner)}), BlockView, k)
           /\ top' = AfterLookup(top, {k, Contract(ctx.owner)})
    /\ UNCHANGED <<db, level, engine>>

-----------------------------------------------------------------------------
(* Enumerating.  Find is a generator: nothing is looked at before the first *)
(* Next, and then the two dictionaries are read as they are at each Next.   *)
(* A dictionary that changed its size since its enumeration began raises.   *)

Tracked(c) == {k \in AllRows : c[k] # Untracked}
LiveRows(c) == {k \in AllRows : InvocationView[k] # Null /\ k \in Starting(c)}

\* The prefix is the script hash.
StorageFind(ctx) ==
    /\ Calls("find")
    /\ iter.phase \in {"none", "end"}
    /\ CheckStorageContext(ctx)
    /\ Looks(ctx, {})
    /\ iter' = [phase |-> "made", of |-> ctx.owner, left |-> {}, size |-> 0, visited |-> {}, pos |-> 0,
                times |-> [k \in AllRows |-> 0], kept |-> LiveRows(ctx.owner)]
    /\ UNCHANGED <<db, level, engine, objects>>

\* The iterator at the first Next: the database has been read.
Started(it) ==
    IF it.phase = "made"
    THEN [it EXCEPT !.phase = "db", !.left = {kv[1] : kv \in FindInternal(db, Starting(it.of))}]
    ELSE it

FromDb(it) == {k \in it.left : k \notin Tracked(top) \union Tracked(clone)}

\* The rows of the database are through: the dictionary of the cache below.
InTop(it) ==
    IF it.phase = "db" /\ FromDb(it) = {}
    THEN [it EXCEPT !.phase = "top", !.left = {}, !.size = Cardinality(Tracked(top))]
    ELSE it

\* While an execution runs, this dictionary can only grow, which raises: in which order
\* it has its rows makes no difference.
FromTop(it) ==
    {k \in Containing(it.of) \ it.visited : top[k].state \in TrackState /\ clone[k] = Untracked}

\* Those are through too: the dictionary of the clone, from its first entry.
InClone(it) ==
    IF it.phase = "top" /\ FromTop(it) = {} /\ it.size = Cardinality(Tracked(top))
    THEN [it EXCEPT !.phase = "clone", !.visited = {}, !.size = Cardinality(Tracked(clone))]
    ELSE it

\* The first row among K that lies beyond the iterator's place.
NextOf(it, K) ==
    LET ahead == {k \in K : dictionary.slot[k] > it.pos}
    IN  {k \in ahead : \A j \in ahead : dictionary.slot[k] <= dictionary.slot[j]}

\* Mutant: only what the execution changed is listed from its own dictionary.
FromCloneChanged(it) ==
    NextOf(it, {k \in Containing(it.of) : clone[k].state \in {"ADDED", "CHANGED"}})

FromClone(it) == NextOf(it, {k \in Containing(it.of) : clone[k].state \in TrackState})

Yields(it, k) == [it EXCEPT !.times[k] = @ + 1]

\* StorageIterator.Next: one more row, or False at the end.
IteratorNext ==
    /\ Calls("next")
    /\ iter.phase \in {"made", "db", "top", "clone"}
    /\ LET it == InClone(InTop(Started(iter)))
       IN  \/ /\ it.phase = "db"
              /\ \E k \in FromDb(it) : iter' = Yields([it EXCEPT !.left = @ \ {k}], k)
           \/ /\ it.phase = "top" /\ it.size = Cardinality(Tracked(top))
              /\ \E k \in FromTop(it) : iter' = Yields([it EXCEPT !.visited = @ \union {k}], k)
           \/ /\ it.phase = "clone" /\ it.size = Cardinality(Tracked(clone))
              /\ \E k \in FromClone(it) : iter' = Yields([it EXCEPT !.pos = dictionary.slot[k]], k)
           \/ /\ it.phase = "clone" /\ it.size = Cardinality(Tracked(clone))
              /\ FromClone(it) = {}
              /\ iter' = [it EXCEPT !.phase = "end"]
    /\ UNCHANGED <<vars, engine, objects>>

-----------------------------------------------------------------------------
(* Contracts.                                                              *)

\* Contract_Create: a contract that exists is left as it is.
ContractCreate(c, state) ==
    /\ Calls("create")
    /\ clone' = IF Live(c) THEN TryGet(clone, BlockView, Contract(c)) ELSE Add(clone, Contract(c), state)
    /\ top' = AfterLookup(top, {Contract(c)})
    /\ created' = IF Live(c) THEN created ELSE [created EXCEPT ![c] = Current]
    /\ held' = held \union {c} /\ emitted' = emitted \union {c}
    /\ UNCHANGED <<db, level, running, contexts, ran>>

\* Mutant: the rows are left to whoever has the script hash next.
DestroyedKeepsRows(c, t, h) ==
    DeleteAll(LookUp(c, t, {Contract(h)}), t, {Contract(h)})

\* Contract_Destroy of h, over a clone c and the cache t below it.  The rows found
\* are deleted under the hash of the contract, whosever rows they are.
Destroyed(c, t, h) ==
    LET state == View(c, View(t, db))[Contract(h)]
        rows == IF HasStorage(state) THEN {Row(h, kv[1][2]) : kv \in Found(c, t, h)} ELSE {}
    IN  DeleteAll(LookUp(c, t, {Contract(h)}), t, rows \union {Contract(h)})

\* The rows Destroyed looks up.
DestroyedKeys(c, t, h) == {Contract(h)} \union {Row(h, kv[1][2]) : kv \in Found(c, t, h)}

\* Contract_Destroy; a script that is no contract (any more) changes nothing.
ContractDestroy ==
    /\ Calls("destroy")
    /\ IF Current \in Hash
       THEN /\ clone' = Destroyed(clone, top, Current)
            /\ top' = AfterLookup(top, IF HasStorage(InvocationView[Contract(Current)])
                                       THEN DestroyedKeys(clone, top, Current) ELSE {Contract(Current)})
       ELSE UNCHANGED <<clone, top>>
    /\ UNCHANGED <<db, level, engine>>

\* Mutant: only the rows the caches know are copied.
MigratedMissesStored(h) == Find(clone, Find(top, {}, Containing(h)), Containing(h))

\* What Contract_Migrate copies.
Migrated(h) == Found(clone, top, h)

\* The rows a contract c made by a migration of the running script gets, and the clone
\* before and after they are added.
Copies(c, state) ==
    IF Current \in Hash /\ ~Live(c) /\ HasStorage(state) THEN Migrated(Current) ELSE {}

Made(c, state) ==
    IF Live(c) THEN TryGet(clone, BlockView, Contract(c)) ELSE Add(clone, Contract(c), state)

Filled(c, state) ==
    LET copies == Copies(c, state)
        made == Made(c, state)
    IN  [k \in Key |->
            IF \E kv \in copies : k = Row(c, kv[1][2])
            THEN Add(made, k, (CHOOSE kv \in copies : k = Row(c, kv[1][2]))[2])[k]
            ELSE made[k]]

\* What Find takes from the clone's own dictionary is no copy: the new row holds the very
\* item of the row found, and of those that share it.
Lent(c, state) == {kv[1] : kv \in {x \in Copies(c, state) : clone[x[1]].state \in TrackState}}

Joined(c, state) ==
    LET lent == Lent(c, state)
    IN  {p \in AllRows \X AllRows :
            \E k \in lent, j \in AllRows :
                /\ j = k \/ <<k, j>> \in sharing
                /\ p \in {<<Row(c, k[2]), j>>, <<j, Row(c, k[2])>>}}

\* Contract_Migrate: unless it exists, contract c is made with the rows found under
\* the hash of the running script; Add raises when two of them have one suffix.  Then
\* the running script's contract is destroyed.
ContractMigrate(c, state) ==
    /\ Calls("migrate")
    /\ \A a, b \in Copies(c, state) : a[1][2] = b[1][2] => a = b
    /\ \A kv \in Copies(c, state) : ~AddRaises(Made(c, state), Row(c, kv[1][2]))
    /\ LET filled == Filled(c, state)
           seen == AfterLookup(top, {Contract(c)})
       IN  IF Current \in Hash
           THEN /\ clone' = Destroyed(filled, seen, Current)
                /\ top' = AfterLookup(seen, IF HasStorage(View(filled, View(seen, db))[Contract(Current)])
                                            THEN DestroyedKeys(filled, seen, Current)
                                            ELSE {Contract(Current)})
           ELSE clone' = filled /\ top' = seen
    /\ created' = IF Live(c) THEN created ELSE [created EXCEPT ![c] = Current]
    /\ held' = held \union {c} /\ emitted' = emitted \union {c}
    /\ UNCHANGED <<db, level, running, contexts, ran>>

-----------------------------------------------------------------------------
(* The block.                                                              *)

Open ==
    /\ blocks < MaxBlocks
    /\ OpenSnapshot
    /\ blocks' = blocks + 1 /\ services' = 0 /\ emitted' = {}
    /\ UNCHANGED <<running, contexts, held, created, ran, iter, objects, shared, tokens, published, torn, plan>>

\* on_persist_completed: a row for each new contract, under its hash.  Before,
\* on_smart_contract_created asked each for its name, which only one that exists answers.
WriteNewContracts ==
    tokens' = tokens \union {c \in emitted : db'[Contract(c)] # Null}

\* The block is stored and the events are dispatched.
Close ==
    /\ CommitBlock
    /\ WriteNewContracts
    /\ emitted' = {} /\ shared' = {}
    /\ UNCHANGED <<running, contexts, held, created, ran, iter, objects, published, torn, plan, blocks, services>>

\* NotificationDB.get_tokens and get_token, and what the REST API makes of them.
GetTokens == tokens
GetToken(c) == IF c \in GetTokens THEN {c} ELSE {}
RestToken(c) == [results |-> GetToken(c),
                 message |-> IF GetToken(c) = {} THEN "could not find" ELSE ""]

\* What a service leaves of shared items, and of the rows an iterator's contract keeps
\* (history), and what it does to the dictionary.  mid is the clone between the additions
\* of a migration and its deletions, and joined what its copies share.
Follow(mid, joined) ==
    /\ iter' = IF iter = NoIter THEN iter
               ELSE [iter EXCEPT !.kept = {k \in @ : InvocationView'[k] # Null}]
    /\ sharing' = {p \in sharing \union joined : clone'[p[1]].state \in TrackState
                                               /\ clone'[p[2]].state \in TrackState}
    /\ LET added == {k \in AllRows : mid[k] # clone[k]}
           lookedUp == Tracked(clone') \ Tracked(mid)
           out == Tracked(mid) \ Tracked(clone')
       IN  /\ \E d \in After(dictionary, added, {}) : dictionary' \in After(d, lookedUp, out)
           /\ pops' = pops + Cardinality(out)
           /\ dropped' = dropped \union out

StateOf == {"plain", "storing"}
RowItem == Value \ StateOf

Service ==
    \/ \E c \in Hash : AppCall(c)
    \/ Return
    \/ \E readOnly \in BOOLEAN : StorageGetContext(readOnly)
    \/ \E c \in Hash : BlockchainGetContract(c)
    \/ \E c \in Hash : ContractGetStorageContext(c)
    \/ \E ctx \in contexts, s \in Suffix : StorageGet(ctx, s)
    \/ \E ctx \in contexts, s \in Suffix, v \in RowItem : StoragePut(ctx, s, v)
    \/ \E ctx \in contexts, s \in Suffix : StorageDelete(ctx, s)
    \/ \E c \in Hash, state \in StateOf : ContractCreate(c, state)
    \/ ContractDestroy

ContractsNext ==
    \/ Open \/ Close
    \/ \E c \in Hash, state \in StateOf : Publish(c, state)
    \/ Invoke \/ Halt \/ HaltRaises \/ Fault
    \/ Service /\ Follow(clone, {})
    \/ \E c \in Hash, state \in StateOf :
          ContractMigrate(c, state) /\ Follow(Filled(c, state), Joined(c, state))
    \/ \E ctx \in contexts : StorageFind(ctx)
    \/ IteratorNext

ContractsSpec == ContractsInit /\ [][ContractsNext]_contractVars

(***************************************************************************)
(* Properties.                                                             *)
(***************************************************************************)
\* Stored rows, as the running contract sees them, belong to a contract that exists
\* and has storage, however contracts were destroyed, made again with other
\* properties and migrated, unless a commit stopped half-way before.
StorageHasOwner ==
    ~torn => \A c \in Hash : (\E k \in Rows(c) : InvocationView[k] # Null)
                                => HasStorage(InvocationView[Contract(c)])

\* An execution changes the rows of a contract for the block, or destroys it, only if
\* that contract ran in it or was made in it: no script reaches the storage of another.
\* The exceptions are a row with a script hash in its suffix, for a contract made by a
\* migration from that script may hold one item with it until the block ends, and a
\* change of its own row is a change of both, and rows after a commit that stopped
\* half-way.
Reached(c) == c \in ran \/ created[c] # Nobody

OnlyOwnersWrite ==
    [][level = "invoke" => \A c \in Hash :
          /\ \A s \in Suffix : ~torn /\ BlockView'[Row(c, s)] # BlockView[Row(c, s)] =>
                \/ Reached(c)
                \/ /\ Mentions[s] # {}
                   /\ \E d \in Hash : Reached(d) /\ <<Row(c, s), Row(d, s)>> \in shared
          /\ BlockView[Contract(c)] # Null /\ BlockView'[Contract(c)] = Null => c \in ran]_contractVars

\* An enumeration that came to its end without raising has missed at most as many of
\* the rows of its contract that were there all the while as the execution had deleted
\* rows of its own making, none if it deleted none, whatever the contract read and wrote
\* in between, unless a commit stopped half-way before.  It listed a row twice at most,
\* and only one the execution has touched, unless that row was deleted so.
ListsAllButPopped ==
    iter # NoIter /\ ~torn =>
        /\ iter.phase = "end" => Cardinality({k \in iter.kept : iter.times[k] = 0}) <= pops
        /\ \A k \in AllRows :
              IF k \in dropped THEN iter.times[k] <= 1 + pops
              ELSE iter.times[k] > 1 => iter.times[k] = 2 /\ clone[k] # Untracked

\* A migration hands every row of the old contract to the new one and leaves none
\* behind, unless a commit stopped half-way before.  (It may hand over more: cached
\* rows of others with the hash in their key.)
MigrationMovesRows ==
    [][\A c, d \in Hash :
          /\ level = "invoke" /\ level' = "invoke" /\ ~torn
          /\ Live(c) /\ ~Live(c)' /\ ~Live(d) /\ HasStorage(InvocationView[Contract(d)])'
          => \A s \in Suffix :
                /\ InvocationView[Row(c, s)] # Null => InvocationView'[Row(d, s)] = InvocationView[Row(c, s)]
                /\ InvocationView'[Row(c, s)] = Null]_contractVars

\* The REST API finds every contract that an execution made and that exists when its
\* block has been stored, alone and among the tokens.
TokensListed ==
    level = "idle" => \A c \in Hash : db[Contract(c)] # Null =>
        c \in published \/ (c \in GetTokens /\ RestToken(c).message = "")
=============================================================================
