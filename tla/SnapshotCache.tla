--------------------------- MODULE SnapshotCache ---------------------------
(***************************************************************************)
(* The state of the chain while blocks are persisted: the database, the    *)
(* LevelDBSnapshot that Blockchain.Persist opens for a block (`top`) and   *)
(* the CloneSnapshot given to the contract invocation that runs (`clone`). *)
(* Blocks and invocations are executed one at a time, so at most one of    *)
(* each exists.  Which transactions a block holds and what a contract does *)
(* is left open: any sequence of the operations they use may happen.       *)
(***************************************************************************)
EXTENDS DataCache, Naturals

CONSTANTS
    Dead,  \* per key, the items Snapshot.Commit removes: empty accounts,
           \* coins spent altogether, spent coins claimed altogether
    Rank   \* per key, the position of its column in Snapshot.Commit

ASSUME DeadAssumption == Dead \in [Key -> SUBSET Value]
ASSUME RankAssumption == Rank \in [Key -> Nat]

VARIABLES
    db,     \* the stored items
    top,    \* the caches of the block's snapshot
    clone,  \* the caches of the invocation's snapshot
    level   \* "idle", "block" or "invoke"

vars == <<db, top, clone, level>>

\* What a transaction sees, and what a contract sees.
BlockView == View(top, db)
InvocationView == View(clone, BlockView)

Init ==
    /\ db \in [Key -> Item]
    /\ \A k \in Key : db[k] \notin Dead[k]
    /\ top = EmptyCache
    /\ clone = EmptyCache
    /\ level = "idle"

-----------------------------------------------------------------------------
(* The block.                                                              *)

OpenSnapshot ==
    /\ level = "idle"
    /\ level' = "block"
    /\ UNCHANGED <<db, top, clone>>

\* GetAndChange with a factory, or without one on a key that exists, and the
\* change Persist makes to the item it returns.
BlockPut(k, v) ==
    /\ level = "block"
    /\ top' = Put(top, db, k, v)
    /\ UNCHANGED <<db, clone, level>>

\* Coins and assets are added under the hash of their transaction, which is
\* persisted once and so is new.
BlockAdd(k, v) ==
    /\ level = "block"
    /\ BlockView[k] = Null
    /\ top' = Add(top, k, v)
    /\ UNCHANGED <<db, clone, level>>

BlockGetOrAdd(k, v) ==
    /\ level = "block"
    /\ top' = GetOrAdd(top, db, k, v)
    /\ UNCHANGED <<db, clone, level>>

BlockGet(k) ==
    /\ level = "block"
    /\ top' = TryGet(top, db, k)
    /\ UNCHANGED <<db, clone, level>>

-----------------------------------------------------------------------------
(* The invocation.  A key the clone does not track is looked up in the     *)
(* cache below, which thereby comes to track it.                           *)

BeginInvocation ==
    /\ level = "block"
    /\ level' = "invoke"
    /\ UNCHANGED <<db, top, clone>>

\* Contracts look accounts up and make them, but change and delete none.
Changeable(k) == Replica[k] # "ignored"

LookedUpBelow(k) == IF clone[k] = Untracked THEN TryGet(top, db, k) ELSE top

InvocationGet(k) ==
    /\ level = "invoke"
    /\ clone' = TryGet(clone, BlockView, k)
    /\ top' = LookedUpBelow(k)
    /\ UNCHANGED <<db, level>>

InvocationPut(k, v) ==
    /\ level = "invoke"
    /\ Changeable(k)
    /\ clone' = Put(clone, BlockView, k, v)
    /\ top' = LookedUpBelow(k)
    /\ UNCHANGED <<db, level>>

InvocationGetOrAdd(k, v) ==
    /\ level = "invoke"
    /\ clone' = GetOrAdd(clone, BlockView, k, v)
    /\ top' = LookedUpBelow(k)
    /\ UNCHANGED <<db, level>>

\* Contract_Create and Contract_Migrate look the contract up first and add it
\* only when it is absent; the storage of a new contract is empty.
InvocationAdd(k, v) ==
    /\ level = "invoke"
    /\ Changeable(k)
    /\ InvocationView[k] = Null
    /\ clone' = Add(clone, k, v)
    /\ UNCHANGED <<db, top, level>>

InvocationDelete(k) ==
    /\ level = "invoke"
    /\ Changeable(k)
    /\ clone' = Delete(clone, BlockView, k)
    /\ top' = LookedUpBelow(k)
    /\ UNCHANGED <<db, level>>

\* What Snapshot.Commit of the clone is about to apply to the caches below.
Filtered == DeleteWhere(clone, Dead)

RaisingKeys == {k \in Key : CommitRaises(Filtered[k], top, db, k)}

\* The engine halted: Commit of the clone, which is Snapshot.Commit.
InvocationCommit ==
    /\ level = "invoke"
    /\ RaisingKeys = {}
    /\ top' = CommitInto(Filtered, top, db, Key)
    /\ clone' = EmptyCache
    /\ level' = "block"
    /\ UNCHANGED db

\* Commit reaches an entry that raises.  The columns before its column and
\* some entries of its column are in, the rest is not; Persist prints the
\* exception and goes on with the next transaction.
InvocationCommitRaises ==
    /\ level = "invoke"
    /\ \E bad \in RaisingKeys :
          LET before == {k \in Key : Rank[k] < Rank[bad]}
              beside == {k \in Key \ RaisingKeys : Rank[k] = Rank[bad]}
          IN  /\ before \intersect RaisingKeys = {}
              /\ \E done \in SUBSET beside :
                    top' = CommitInto(Filtered, top, db, before \union done)
    /\ clone' = EmptyCache
    /\ level' = "block"
    /\ UNCHANGED db

\* The engine faulted or an exception left it: the clone is dropped.
InvocationDiscard ==
    /\ level = "invoke"
    /\ clone' = EmptyCache
    /\ level' = "block"
    /\ UNCHANGED <<db, top>>

-----------------------------------------------------------------------------
(* The end of the block.                                                   *)

CommitBlock ==
    /\ level = "block"
    /\ db' = WriteBatch(DeleteWhere(top, Dead), db)
    /\ top' = EmptyCache
    /\ level' = "idle"
    /\ UNCHANGED clone

\* An exception leaves Persist, or the process dies before the batch is written.
AbortBlock ==
    /\ level # "idle"
    /\ top' = EmptyCache
    /\ clone' = EmptyCache
    /\ level' = "idle"
    /\ UNCHANGED db

Next ==
    \/ OpenSnapshot
    \/ \E k \in Key, v \in Value : BlockPut(k, v)
    \/ \E k \in Key, v \in Value : BlockAdd(k, v)
    \/ \E k \in Key, v \in Value : BlockGetOrAdd(k, v)
    \/ \E k \in Key : BlockGet(k)
    \/ BeginInvocation
    \/ \E k \in Key : InvocationGet(k)
    \/ \E k \in Key, v \in Value : InvocationPut(k, v)
    \/ \E k \in Key, v \in Value : InvocationGetOrAdd(k, v)
    \/ \E k \in Key, v \in Value : InvocationAdd(k, v)
    \/ \E k \in Key : InvocationDelete(k)
    \/ InvocationCommit
    \/ InvocationCommitRaises
    \/ InvocationDiscard
    \/ CommitBlock
    \/ AbortBlock

Spec == Init /\ [][Next]_vars

-----------------------------------------------------------------------------
(* Properties.                                                             *)

\* The caches hold well-formed entries.
TypeOK ==
    /\ db \in [Key -> Item]
    /\ top \in [Key -> Entry]
    /\ clone \in [Key -> Entry]
    /\ level \in {"idle", "block", "invoke"}

\* A cache agrees with the layer under it about which keys are new to it: an
\* entry only read still equals the item below, an entry called ADDED has none
\* there, an entry called CHANGED or DELETED has one.  Commit relies on this.
Tracks(c, inner) ==
    \A k \in Key :
        /\ c[k].state = "NONE" => c[k].item = inner[k]
        /\ c[k].state = "ADDED" => inner[k] = Null
        /\ c[k].state \in {"CHANGED", "DELETED"} => inner[k] # Null

\* Both caches keep track of the layer below them, over any sequence of
\* operations on either, and hold entries only while their snapshot is open.
CachesTrack ==
    /\ Tracks(top, db)
    /\ Tracks(clone, BlockView)
    /\ level # "invoke" => clone = EmptyCache
    /\ level = "idle" => top = EmptyCache

\* An invocation's change is never lost to a FromReplica without effect: it has
\* only read or made the items of such a column.
NothingIgnored ==
    \A k \in Key : clone[k].state \in {"CHANGED", "DELETED"} => Changeable(k)

\* The columns whose items have no FromReplica: contracts and assets.
Uncopied == {k \in Key : Replica[k] = "missing"}

\* Nothing but a changed item without FromReplica can stop the commit of an
\* invocation half-way: Add never meets an entry that is tracked below, and
\* GetAndChange never meets an absent key.
OnlyUncopiedRaise == level = "invoke" => RaisingKeys \subseteq Uncopied

\* No empty account and no entirely spent or claimed coin survives a block,
\* although DeleteWhere inspects only the entries the snapshot has tracked.
NoDeadStored == \A k \in Key : db[k] \notin Dead[k]

\* Find of the clone, for a prefix that `starts` the keys it occurs in: the
\* keys below are enumerated through two caches, yet every live key of the
\* prefix is met exactly once and with the value the contract would read.
FindBelow(starts) == Find(top, FindInternal(db, starts), starts)

FindMatches(starts) ==
    Find(clone, FindBelow(starts), starts) =
        {<<k, InvocationView[k]>> : k \in {x \in starts : InvocationView[x] # Null}}

FindAgreesWithTryGet ==
    level = "invoke" => \A starts \in SUBSET Key : FindMatches(starts)

-----------------------------------------------------------------------------
(* The caches implement transactions on one store, in which an item that   *)
(* Snapshot.Commit is to remove counts as absent already.                  *)

Norm(f) == [k \in Key |-> IF f[k] \in Dead[k] THEN Null ELSE f[k]]

KV == INSTANCE KVStore WITH
        Fragile <- Uncopied,
        stored <- Norm(db),
        block <- Norm(BlockView),
        invocation <- Norm(InvocationView)

\* Every step of the caches is a step of the transactional store: what a block
\* or an invocation has written is seen exactly by those stacked on it, a
\* commit passes on all of it and a fault or an aborted block none of it.  A
\* commit may stop half-way only over a contract or an asset, and then nothing
\* but what it did pass on is seen.
Transactional == KV!Spec
=============================================================================
