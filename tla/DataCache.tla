----------------------------- MODULE DataCache -----------------------------
(***************************************************************************)
(* The tracking cache of neo/Storage/Common/DataCache.py and the two ways  *)
(* it is stacked: LevelDBCache keeps a block's changes over the database,  *)
(* CloneCache keeps one invocation's changes over that cache.              *)
(*                                                                         *)
(* A cache is a function from keys to entries.  An entry is the Trackable  *)
(* of the code (state and item), or Untracked when the key is not in       *)
(* `dictionary`.  What the layer below holds enters every operator as      *)
(* `inner`, a function from keys to items, Null meaning "no such key".     *)
(* A key stands for a column and a key of it, so that one function models  *)
(* the caches of a whole Snapshot; Replica tells the columns apart.        *)
(***************************************************************************)
CONSTANTS
    Key,     \* column and key
    Value,   \* the items stored under a key
    Null,    \* what TryGet returns for a key that is absent
    Replica  \* what FromReplica of the column's item class does

ASSUME NullAssumption == Null \notin Value

\* StorageItem copies the value, AccountState builds a new object that the
\* caller drops, no other state class has the method.
ASSUME ReplicaAssumption == Replica \in [Key -> {"copies", "ignored", "missing"}]

Item == Value \union {Null}

Untracked == [state |-> "UNTRACKED", item |-> Null]

Trackable(s, v) == [state |-> s, item |-> v]

\* The item of a deleted entry is never read again, so it is not kept.
DeletedEntry == Trackable("DELETED", Null)

TrackState == {"NONE", "ADDED", "CHANGED"}

Entry == {Untracked, DeletedEntry}
            \union [state : TrackState, item : Value]

EmptyCache == [k \in Key |-> Untracked]

-----------------------------------------------------------------------------
(* Reading.                                                                *)

\* What TryGet answers for every key.
View(c, inner) ==
    [k \in Key |-> IF c[k] = Untracked THEN inner[k] ELSE c[k].item]

\* TryGet and [] also remember an item they had to fetch from below.
TryGet(c, inner, k) ==
    IF c[k] = Untracked /\ inner[k] # Null
    THEN [c EXCEPT ![k] = Trackable("NONE", inner[k])]
    ELSE c

-----------------------------------------------------------------------------
(* Writing.                                                                *)

\* Add raises ValueError when the key is tracked and not deleted.
AddRaises(c, k) == c[k].state \in TrackState

\* Mutant: a key added again after its deletion is tracked as new.
AddForgetsDeleted(c, k, v) == [c EXCEPT ![k] = Trackable("ADDED", v)]

Add(c, k, v) ==
    [c EXCEPT ![k] = Trackable(IF c[k] = Untracked THEN "ADDED" ELSE "CHANGED", v)]

Delete(c, inner, k) ==
    [c EXCEPT ![k] =
        IF c[k].state = "ADDED" \/ (c[k] = Untracked /\ inner[k] = Null)
        THEN Untracked
        ELSE DeletedEntry]

\* GetAndChange called without a factory raises KeyError on an absent key.
GetAndChangeRaises(c, inner, k) == View(c, inner)[k] = Null

\* The state GetAndChange leaves behind; an ADDED entry stays ADDED.
ChangedState(c, inner, k) ==
    IF c[k].state = "ADDED" \/ (c[k] = Untracked /\ inner[k] = Null)
    THEN "ADDED"
    ELSE "CHANGED"

\* Mutant: GetAndChange hands out an untouched entry without marking it.
PutForgetsNone(c, inner, k, v) ==
    [c EXCEPT ![k] =
        Trackable(IF c[k].state = "NONE" THEN "NONE" ELSE ChangedState(c, inner, k), v)]

\* GetAndChange followed by the caller's assignment of v to the item it got.
Put(c, inner, k, v) ==
    [c EXCEPT ![k] = Trackable(ChangedState(c, inner, k), v)]

\* GetOrAdd calls the factory (which makes v) only for an absent key.
GetOrAdd(c, inner, k, v) ==
    IF View(c, inner)[k] = Null
    THEN Put(c, inner, k, v)
    ELSE TryGet(c, inner, k)

\* Mutant: entries new in this cache are not looked at.
DeleteWhereSkipsNew(c, dead) ==
    [k \in Key |-> IF c[k].item \in dead[k] /\ c[k].state # "ADDED"
                   THEN DeletedEntry ELSE c[k]]

\* DeleteWhere looks only at what the cache tracks, and never drops an entry.
DeleteWhere(c, dead) ==
    [k \in Key |-> IF c[k].item \in dead[k] THEN DeletedEntry ELSE c[k]]

-----------------------------------------------------------------------------
(* Enumerating: `starts` holds the keys that begin with the prefix asked   *)
(* for, `occurs` those that contain it somewhere.  The database is         *)
(* searched by prefix; the tracked keys are filtered with Python's `in`.   *)

FindInternal(inner, starts) ==
    {<<k, inner[k]>> : k \in {x \in starts : inner[x] # Null}}

\* Mutant: an entry the cache has deleted is still taken from below.
FindShowsDeleted(c, below, occurs) ==
    {kv \in below : c[kv[1]].state \notin TrackState}
        \union {<<k, c[k].item>> : k \in {x \in occurs : c[x].state \in TrackState}}

Find(c, below, occurs) ==
    {kv \in below : c[kv[1]] = Untracked}
        \union {<<k, c[k].item>> : k \in {x \in occurs : c[x].state \in TrackState}}

-----------------------------------------------------------------------------
(* Committing a CloneCache entry e into the cache p below it, itself over  *)
(* `inner`: AddInternal, UpdateInternal and DeleteInternal.                *)

CommitRaises(e, p, inner, k) ==
    \/ e.state = "ADDED" /\ AddRaises(p, k)
    \/ /\ e.state = "CHANGED"
       /\ GetAndChangeRaises(p, inner, k) \/ Replica[k] = "missing"

\* The item GetAndChange handed out, after FromReplica(value) was called on it.
AfterFromReplica(k, old, value) ==
    IF Replica[k] = "copies" THEN value ELSE old

\* Mutant: a deletion made by the invocation is not passed on.
CommitEntryKeepsDeleted(e, p, inner, k) ==
    CASE e.state = "ADDED"   -> Add(p, k, e.item)[k]
      [] e.state = "CHANGED" -> Put(p, inner, k, e.item)[k]
      [] OTHER               -> p[k]

CommitEntry(e, p, inner, k) ==
    CASE e.state = "ADDED"   -> Add(p, k, e.item)[k]
      [] e.state = "CHANGED" ->
            Put(p, inner, k, AfterFromReplica(k, View(p, inner)[k], e.item))[k]
      [] e.state = "DELETED" -> Delete(p, inner, k)[k]
      [] OTHER               -> p[k]

\* The entries of the keys in ks are committed, the others not (yet).
CommitInto(c, p, inner, ks) ==
    [k \in Key |-> IF k \in ks THEN CommitEntry(c[k], p, inner, k) ELSE p[k]]

\* Commit of the LevelDBCaches: their batch, applied to the database.
WriteBatch(c, store) ==
    [k \in Key |-> IF c[k].state \in {"ADDED", "CHANGED", "DELETED"}
                   THEN c[k].item
                   ELSE store[k]]
=============================================================================
