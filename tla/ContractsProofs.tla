-------------------------- MODULE ContractsProofs --------------------------
(***************************************************************************)
(* Proofs about SnapshotCache, for every set of keys and items, and about  *)
(* Contracts, for all finite sets of contracts and suffixes, every stored  *)
(* state and every plan.                                                   *)
(*                                                                         *)
(* First what each cache operation does to the entries (its type), to what *)
(* is seen through the cache (View) and to the agreement between the cache *)
(* and the layer below (Tracks), and the inductive invariant of the        *)
(* caches. Then the contracts kept in them: a service changes several keys *)
(* of the clone at once, so the lemmas on operations are used one entry at *)
(* a time. Then which rows share an item, in the clone and after a commit, *)
(* and in which place of the clone's dictionary a row is. Last the         *)
(* iterator: what it can still miss, and how often it has listed a row.    *)
(***************************************************************************)
EXTENDS Contracts, FiniteSetTheorems, WellFoundedInduction, TLAPS

-----------------------------------------------------------------------------
(* Entries.                                                                *)

\* The shapes an entry can have.
LEMMA EntryShapes ==
    ASSUME NEW e \in Entry
    PROVE  /\ e = Untracked \/ e = DeletedEntry \/ (e.state \in TrackState /\ e.item \in Value)
           /\ e = Untracked <=> e.state = "UNTRACKED"
           /\ e = DeletedEntry <=> e.state = "DELETED"
           /\ e.state \in TrackState => e.item \in Value
           /\ e.state \in TrackState \union {"UNTRACKED", "DELETED"}
  BY DEF Entry, Untracked, DeletedEntry, Trackable, TrackState

LEMMA TrackableShape ==
    ASSUME NEW s \in TrackState, NEW v \in Value
    PROVE  /\ Trackable(s, v) \in Entry
           /\ Trackable(s, v).state = s
           /\ Trackable(s, v).item = v
           /\ Trackable(s, v) # Untracked
  BY DEF Entry, Untracked, DeletedEntry, Trackable, TrackState

LEMMA FixedShapes ==
    /\ Untracked \in Entry /\ Untracked.state = "UNTRACKED" /\ Untracked.item = Null
    /\ DeletedEntry \in Entry /\ DeletedEntry.state = "DELETED" /\ DeletedEntry.item = Null
    /\ DeletedEntry # Untracked
  BY DEF Entry, Untracked, DeletedEntry, Trackable

\* What is true of one entry e over the item i below it, when it is Tracks.
Agrees(e, i) ==
    /\ e.state = "NONE" => e.item = i
    /\ e.state = "ADDED" => i = Null
    /\ e.state \in {"CHANGED", "DELETED"} => i # Null

Seen(e, i) == IF e = Untracked THEN i ELSE e.item

\* Replacing the entry of one key by one that agrees with the layer below
\* changes what is seen under that key only.
LEMMA ReplaceEntry ==
    ASSUME NEW c \in [Key -> Entry], NEW d \in [Key -> Entry], NEW inner \in [Key -> Item],
           NEW k \in Key, NEW i,
           Tracks(c, inner),
           Agrees(d[k], inner[k]),
           Seen(d[k], inner[k]) = i,
           \A j \in Key \ {k} : d[j] = c[j]
    PROVE  /\ Tracks(d, inner)
           /\ View(d, inner) = [View(c, inner) EXCEPT ![k] = i]
  BY DEF Tracks, Agrees, View, Seen

LEMMA ViewType ==
    ASSUME NEW c \in [Key -> Entry], NEW inner \in [Key -> Item]
    PROVE  View(c, inner) \in [Key -> Item]
  BY EntryShapes, FixedShapes DEF View, Item

-----------------------------------------------------------------------------
(* The operations.                                                         *)

\* A read tracks at most one more key and changes nothing that is seen.
LEMMA TryGetProps ==
    ASSUME NEW c \in [Key -> Entry], NEW inner \in [Key -> Item], NEW k \in Key,
           Tracks(c, inner)
    PROVE  /\ TryGet(c, inner, k) \in [Key -> Entry]
           /\ Tracks(TryGet(c, inner, k), inner)
           /\ View(TryGet(c, inner, k), inner) = View(c, inner)
<1>1. CASE c[k] = Untracked /\ inner[k] # Null
  <2> DEFINE e == Trackable("NONE", inner[k])
  <2>1. inner[k] \in Value  BY <1>1 DEF Item
  <2>2. e \in Entry /\ e.state = "NONE" /\ e.item = inner[k] /\ e # Untracked
    BY <2>1, TrackableShape DEF TrackState
  <2>3. Agrees(e, inner[k]) /\ Seen(e, inner[k]) = inner[k]
    BY <2>2 DEF Agrees, Seen
  <2>4. TryGet(c, inner, k) = [c EXCEPT ![k] = e]
    BY <1>1 DEF TryGet
  <2>5. View(c, inner)[k] = inner[k] /\ View(c, inner) \in [Key -> Item]
    BY <1>1, ViewType DEF View
  <2>6. [View(c, inner) EXCEPT ![k] = inner[k]] = View(c, inner)
    BY <2>5
  <2> DEFINE d == TryGet(c, inner, k)
  <2>7. /\ d \in [Key -> Entry]
        /\ d[k] = e
        /\ \A j \in Key \ {k} : d[j] = c[j]
    BY <2>2, <2>4
  <2> HIDE DEF d, e
  <2>8. Tracks(d, inner) /\ View(d, inner) = [View(c, inner) EXCEPT ![k] = inner[k]]
    BY <2>3, <2>7, ReplaceEntry
  <2> QED BY <2>6, <2>7, <2>8 DEF d
<1>2. CASE ~(c[k] = Untracked /\ inner[k] # Null)
  BY <1>2 DEF TryGet
<1> QED BY <1>1, <1>2

\* A change is seen under its key and nowhere else.
LEMMA PutProps ==
    ASSUME NEW c \in [Key -> Entry], NEW inner \in [Key -> Item], NEW k \in Key,
           NEW v \in Value, Tracks(c, inner)
    PROVE  /\ Put(c, inner, k, v) \in [Key -> Entry]
           /\ Tracks(Put(c, inner, k, v), inner)
           /\ View(Put(c, inner, k, v), inner) = [View(c, inner) EXCEPT ![k] = v]
<1> DEFINE s == ChangedState(c, inner, k)
           e == Trackable(s, v)
<1>1. s \in TrackState
  BY DEF ChangedState, TrackState
<1>2. e \in Entry /\ e.state = s /\ e.item = v /\ e # Untracked
  BY <1>1, TrackableShape
<1>3. /\ s = "ADDED" => inner[k] = Null
      /\ s = "CHANGED" => inner[k] # Null
      /\ s \in {"ADDED", "CHANGED"}
  <2>1. c[k] \in Entry  OBVIOUS
  <2>2. c[k].state \in {"UNTRACKED", "NONE", "ADDED", "CHANGED", "DELETED"}
    BY <2>1, EntryShapes DEF TrackState
  <2>3. c[k].state = "NONE" => inner[k] # Null
    BY <2>1, EntryShapes, NullAssumption DEF Tracks, TrackState
  <2> QED BY <2>1, <2>2, <2>3, EntryShapes DEF ChangedState, Tracks
<1>4. Agrees(e, inner[k]) /\ Seen(e, inner[k]) = v
  BY <1>2, <1>3 DEF Agrees, Seen
<1>5. Put(c, inner, k, v) = [c EXCEPT ![k] = e]
  BY DEF Put
<1> DEFINE d == Put(c, inner, k, v)
<1>6. /\ d \in [Key -> Entry]
      /\ d[k] = e
      /\ \A j \in Key \ {k} : d[j] = c[j]
  BY <1>2, <1>5
<1> HIDE DEF d, e
<1>7. Tracks(d, inner) /\ View(d, inner) = [View(c, inner) EXCEPT ![k] = v]
  BY <1>4, <1>6, ReplaceEntry
<1> QED BY <1>6, <1>7 DEF d

\* An addition of a key that is absent is seen under its key and nowhere else.
LEMMA AddProps ==
    ASSUME NEW c \in [Key -> Entry], NEW inner \in [Key -> Item], NEW k \in Key,
           NEW v \in Value, Tracks(c, inner), View(c, inner)[k] = Null
    PROVE  /\ Add(c, k, v) \in [Key -> Entry]
           /\ Tracks(Add(c, k, v), inner)
           /\ View(Add(c, k, v), inner) = [View(c, inner) EXCEPT ![k] = v]
           /\ ~AddRaises(c, k)
<1> DEFINE s == IF c[k] = Untracked THEN "ADDED" ELSE "CHANGED"
           e == Trackable(s, v)
<1>1. e \in Entry /\ e.state = s /\ e.item = v /\ e # Untracked
  BY TrackableShape DEF TrackState
<1>2. \/ c[k] = Untracked /\ inner[k] = Null
      \/ c[k] = DeletedEntry /\ inner[k] # Null
  BY EntryShapes, FixedShapes, NullAssumption DEF View, Tracks
<1>3. Agrees(e, inner[k]) /\ Seen(e, inner[k]) = v
  BY <1>1, <1>2, FixedShapes DEF Agrees, Seen
<1>4. Add(c, k, v) = [c EXCEPT ![k] = e]
  BY DEF Add
<1>5. ~AddRaises(c, k)
  BY <1>2, FixedShapes DEF AddRaises, TrackState
<1> DEFINE d == Add(c, k, v)
<1>6. /\ d \in [Key -> Entry]
      /\ d[k] = e
      /\ \A j \in Key \ {k} : d[j] = c[j]
  BY <1>1, <1>4
<1> HIDE DEF d, e
<1>7. Tracks(d, inner) /\ View(d, inner) = [View(c, inner) EXCEPT ![k] = v]
  BY <1>3, <1>6, ReplaceEntry
<1> QED BY <1>6, <1>7, <1>5 DEF d

\* A deletion hides its key and nothing else.
LEMMA DeleteProps ==
    ASSUME NEW c \in [Key -> Entry], NEW inner \in [Key -> Item], NEW k \in Key,
           Tracks(c, inner)
    PROVE  /\ Delete(c, inner, k) \in [Key -> Entry]
           /\ Tracks(Delete(c, inner, k), inner)
           /\ View(Delete(c, inner, k), inner) = [View(c, inner) EXCEPT ![k] = Null]
<1> DEFINE new == c[k].state = "ADDED" \/ (c[k] = Untracked /\ inner[k] = Null)
           e == IF new THEN Untracked ELSE DeletedEntry
<1>1. e \in Entry
  BY FixedShapes
<1>2. new => inner[k] = Null
  BY DEF Tracks
<1>3. ~new => inner[k] # Null
  <2>1. c[k].state \in {"UNTRACKED", "NONE", "ADDED", "CHANGED", "DELETED"}
    BY EntryShapes DEF TrackState
  <2>2. c[k].state = "NONE" => inner[k] # Null
    BY EntryShapes, NullAssumption DEF Tracks, TrackState
  <2> QED BY <2>1, <2>2, EntryShapes DEF Tracks
<1>4. Agrees(e, inner[k]) /\ Seen(e, inner[k]) = Null
  BY <1>2, <1>3, FixedShapes DEF Agrees, Seen
<1>5. Delete(c, inner, k) = [c EXCEPT ![k] = e]
  BY DEF Delete
<1> DEFINE d == Delete(c, inner, k)
<1>6. /\ d \in [Key -> Entry]
      /\ d[k] = e
      /\ \A j \in Key \ {k} : d[j] = c[j]
  BY <1>1, <1>5
<1> HIDE DEF d, e
<1>7. Tracks(d, inner) /\ View(d, inner) = [View(c, inner) EXCEPT ![k] = Null]
  BY <1>4, <1>6, ReplaceEntry
<1> QED BY <1>6, <1>7 DEF d

\* GetOrAdd changes what is seen of an absent key only.
LEMMA GetOrAddProps ==
    ASSUME NEW c \in [Key -> Entry], NEW inner \in [Key -> Item], NEW k \in Key,
           NEW v \in Value, Tracks(c, inner)
    PROVE  /\ GetOrAdd(c, inner, k, v) \in [Key -> Entry]
           /\ Tracks(GetOrAdd(c, inner, k, v), inner)
           /\ \/ View(GetOrAdd(c, inner, k, v), inner) = [View(c, inner) EXCEPT ![k] = v]
              \/ View(GetOrAdd(c, inner, k, v), inner) = View(c, inner)
<1>1. CASE View(c, inner)[k] = Null
  <2>1. GetOrAdd(c, inner, k, v) = Put(c, inner, k, v)  BY <1>1 DEF GetOrAdd
  <2> QED BY <2>1, PutProps
<1>2. CASE View(c, inner)[k] # Null
  <2>1. GetOrAdd(c, inner, k, v) = TryGet(c, inner, k)  BY <1>2 DEF GetOrAdd
  <2> QED BY <2>1, TryGetProps
<1> QED BY <1>1, <1>2

\* Tracks and View, one key at a time.
LEMMA EntryByEntry ==
    ASSUME NEW c \in [Key -> Entry], NEW inner \in [Key -> Item]
    PROVE  /\ Tracks(c, inner) <=> \A k \in Key : Agrees(c[k], inner[k])
           /\ \A k \in Key : View(c, inner)[k] = Seen(c[k], inner[k])
  BY DEF Tracks, Agrees, View, Seen

\* Committing one entry e, which belongs above a cache p that is itself in
\* order, leaves p in order; when the item is copied, what was seen through e
\* is now seen through p.
LEMMA CommitEntryProps ==
    ASSUME NEW p \in [Key -> Entry], NEW inner \in [Key -> Item], NEW k \in Key,
           NEW e \in Entry, Tracks(p, inner),
           e.state = "ADDED" => View(p, inner)[k] = Null,
           e.state = "CHANGED" => View(p, inner)[k] # Null,
           e.state = "NONE" => View(p, inner)[k] = e.item
    PROVE  /\ CommitEntry(e, p, inner, k) \in Entry
           /\ Agrees(CommitEntry(e, p, inner, k), inner[k])
           /\ (e.state = "CHANGED" => Replica[k] = "copies") =>
                Seen(CommitEntry(e, p, inner, k), inner[k]) = Seen(e, View(p, inner)[k])
<1> DEFINE w == View(p, inner)
           f == CommitEntry(e, p, inner, k)
<1>0. w \in [Key -> Item]  BY ViewType
<1>1. CASE e.state = "ADDED"
  <2>1. e.item \in Value /\ e # Untracked
    BY <1>1, EntryShapes, FixedShapes DEF TrackState
  <2>2. f = Add(p, k, e.item)[k]
    BY <1>1 DEF CommitEntry
  <2> DEFINE q == Add(p, k, e.item)
  <2>3. /\ q \in [Key -> Entry]
        /\ Tracks(q, inner)
        /\ View(q, inner) = [w EXCEPT ![k] = e.item]
    BY <1>1, <2>1, AddProps
  <2>4. View(q, inner)[k] = e.item
    BY <1>0, <2>3
  <2> HIDE DEF q
  <2>5. Agrees(q[k], inner[k]) /\ Seen(q[k], inner[k]) = e.item
    BY <2>3, <2>4, EntryByEntry
  <2>6. Seen(e, w[k]) = e.item
    BY <2>1 DEF Seen
  <2> QED BY <2>2, <2>3, <2>5, <2>6 DEF q
<1>2. CASE e.state = "CHANGED"
  <2> DEFINE x == AfterFromReplica(k, w[k], e.item)
  <2>1. e.item \in Value /\ e # Untracked
    BY <1>2, EntryShapes, FixedShapes DEF TrackState
  <2>2. x \in Value
    BY <1>0, <1>2, <2>1 DEF AfterFromReplica, Item
  <2>3. f = Put(p, inner, k, x)[k]
    BY <1>2 DEF CommitEntry
  <2>4. Replica[k] = "copies" => x = e.item
    BY DEF AfterFromReplica
  <2> HIDE DEF x
  <2> DEFINE q == Put(p, inner, k, x)
  <2>5. /\ q \in [Key -> Entry]
        /\ Tracks(q, inner)
        /\ View(q, inner) = [w EXCEPT ![k] = x]
    BY <2>2, PutProps
  <2>6. View(q, inner)[k] = x
    BY <1>0, <2>5
  <2> HIDE DEF q
  <2>7. Agrees(q[k], inner[k]) /\ Seen(q[k], inner[k]) = x
    BY <2>5, <2>6, EntryByEntry
  <2>8. Seen(e, w[k]) = e.item
    BY <2>1 DEF Seen
  <2> QED BY <1>2, <2>3, <2>4, <2>5, <2>7, <2>8 DEF q
<1>3. CASE e.state = "DELETED"
  <2>1. e = DeletedEntry
    BY <1>3, EntryShapes
  <2>2. f = Delete(p, inner, k)[k]
    BY <1>3 DEF CommitEntry
  <2> DEFINE q == Delete(p, inner, k)
  <2>3. /\ q \in [Key -> Entry]
        /\ Tracks(q, inner)
        /\ View(q, inner) = [w EXCEPT ![k] = Null]
    BY DeleteProps
  <2>4. View(q, inner)[k] = Null
    BY <1>0, <2>3
  <2> HIDE DEF q
  <2>5. Agrees(q[k], inner[k]) /\ Seen(q[k], inner[k]) = Null
    BY <2>3, <2>4, EntryByEntry
  <2>6. Seen(e, w[k]) = Null
    BY <2>1, FixedShapes DEF Seen
  <2> QED BY <2>2, <2>3, <2>5, <2>6 DEF q
<1>4. CASE e.state \in {"UNTRACKED", "NONE"}
  <2>1. f = p[k]
    BY <1>4 DEF CommitEntry
  <2>2. Agrees(p[k], inner[k]) /\ w[k] = Seen(p[k], inner[k])
    BY EntryByEntry
  <2>3. Seen(e, w[k]) = w[k]
    BY <1>4, EntryShapes DEF Seen
  <2> QED BY <2>1, <2>2, <2>3
<1> QED BY <1>1, <1>2, <1>3, <1>4, EntryShapes DEF TrackState

\* DeleteWhere leaves no dead item tracked, and hides no item that is not dead.
LEMMA DeleteWhereProps ==
    ASSUME NEW c \in [Key -> Entry], NEW inner \in [Key -> Item], Tracks(c, inner),
           NEW k \in Key
    PROVE  LET e == DeleteWhere(c, Dead)[k]
           IN  /\ DeleteWhere(c, Dead) \in [Key -> Entry]
               /\ e.state = "NONE" => e.item = inner[k]
               /\ e.state = "ADDED" => inner[k] = Null
               /\ e.state = "CHANGED" => inner[k] # Null
               /\ e.item \notin Dead[k]
               /\ \/ e = c[k]
                  \/ Seen(e, inner[k]) = Null /\ Seen(c[k], inner[k]) \in Dead[k]
<1>1. Null \notin Dead[k]
  BY NullAssumption, DeadAssumption
<1>2. DeleteWhere(c, Dead) \in [Key -> Entry]
  BY FixedShapes DEF DeleteWhere
<1>3. CASE c[k].item \in Dead[k]
  <2>1. DeleteWhere(c, Dead)[k] = DeletedEntry
    BY <1>3 DEF DeleteWhere
  <2>2. c[k] # Untracked
    BY <1>1, <1>3, FixedShapes
  <2> QED BY <1>1, <1>2, <1>3, <2>1, <2>2, FixedShapes DEF Seen
<1>4. CASE c[k].item \notin Dead[k]
  <2>1. DeleteWhere(c, Dead)[k] = c[k]
    BY <1>4 DEF DeleteWhere
  <2> QED BY <1>2, <1>4, <2>1 DEF Tracks
<1> QED BY <1>3, <1>4

\* Committing some of the entries of the clone leaves the block's caches in
\* order, whether or not the others follow.
LEMMA CommitIntoProps ==
    ASSUME NEW c \in [Key -> Entry], NEW p \in [Key -> Entry], NEW inner \in [Key -> Item],
           Tracks(p, inner), Tracks(c, View(p, inner)), NEW ks \in SUBSET Key
    PROVE  LET q == CommitInto(DeleteWhere(c, Dead), p, inner, ks)
           IN  q \in [Key -> Entry] /\ Tracks(q, inner)
<1> DEFINE d == DeleteWhere(c, Dead)
           q == CommitInto(d, p, inner, ks)
<1>1. View(p, inner) \in [Key -> Item]
  BY ViewType
<1>2. ASSUME NEW k \in Key
      PROVE  q[k] \in Entry /\ Agrees(q[k], inner[k])
  <2>1. /\ d[k] \in Entry
        /\ d[k].state = "NONE" => d[k].item = View(p, inner)[k]
        /\ d[k].state = "ADDED" => View(p, inner)[k] = Null
        /\ d[k].state = "CHANGED" => View(p, inner)[k] # Null
    BY <1>1, DeleteWhereProps
  <2> HIDE DEF d
  <2>2. CommitEntry(d[k], p, inner, k) \in Entry /\ Agrees(CommitEntry(d[k], p, inner, k), inner[k])
    BY <2>1, CommitEntryProps
  <2>3. p[k] \in Entry /\ Agrees(p[k], inner[k])
    BY EntryByEntry
  <2>4. q[k] = IF k \in ks THEN CommitEntry(d[k], p, inner, k) ELSE p[k]
    BY DEF CommitInto
  <2> QED BY <2>2, <2>3, <2>4
<1>3. q \in [Key -> Entry]
  BY <1>2 DEF CommitInto
<1> HIDE DEF q
<1>4. Tracks(q, inner)
  BY <1>2, <1>3, EntryByEntry
<1> QED BY <1>3, <1>4 DEF q

\* The database after a block: what the block saw, less what is dead.
LEMMA WriteBatchProps ==
    ASSUME NEW c \in [Key -> Entry], NEW store \in [Key -> Item], Tracks(c, store),
           \A k \in Key : store[k] \notin Dead[k], NEW k \in Key
    PROVE  LET i == WriteBatch(DeleteWhere(c, Dead), store)[k]
           IN  /\ i \in Item
               /\ i \notin Dead[k]
               /\ i = View(c, store)[k] \/ (i = Null /\ View(c, store)[k] \in Dead[k])
<1> DEFINE d == DeleteWhere(c, Dead)
           i == WriteBatch(d, store)[k]
<1>1. /\ d[k] \in Entry
      /\ d[k].state = "NONE" => d[k].item = store[k]
      /\ d[k].item \notin Dead[k]
      /\ d[k] = c[k] \/ (Seen(d[k], store[k]) = Null /\ Seen(c[k], store[k]) \in Dead[k])
  BY DeleteWhereProps
<1> HIDE DEF d
<1>2. i = Seen(d[k], store[k])
  BY <1>1, EntryShapes DEF WriteBatch, Seen, TrackState
<1>3. i \in Item /\ i \notin Dead[k]
  BY <1>1, <1>2, EntryShapes, FixedShapes DEF Seen, Item
<1>4. View(c, store)[k] = Seen(c[k], store[k])
  BY EntryByEntry
<1> QED BY <1>1, <1>2, <1>3, <1>4 DEF d

-----------------------------------------------------------------------------
(* The inductive invariant.                                                *)

IInv == TypeOK /\ CachesTrack /\ NoDeadStored

LEMMA EmptyTracks ==
    ASSUME NEW inner \in [Key -> Item]
    PROVE  /\ EmptyCache \in [Key -> Entry]
           /\ Tracks(EmptyCache, inner)
           /\ View(EmptyCache, inner) = inner
  BY FixedShapes DEF EmptyCache, Tracks, View

\* A lookup through the clone leaves the block's caches in order and what the
\* invocation sees below it unchanged.
LEMMA LookedUpProps ==
    ASSUME IInv, NEW k \in Key
    PROVE  /\ LookedUpBelow(k) \in [Key -> Entry]
           /\ Tracks(LookedUpBelow(k), db)
           /\ View(LookedUpBelow(k), db) = BlockView
<1>1. top \in [Key -> Entry] /\ db \in [Key -> Item] /\ Tracks(top, db)
  BY DEF IInv, TypeOK, CachesTrack
<1>2. CASE clone[k] = Untracked
  <2>1. LookedUpBelow(k) = TryGet(top, db, k)
    BY <1>2 DEF LookedUpBelow
  <2> QED BY <1>1, <2>1, TryGetProps DEF BlockView
<1>3. CASE clone[k] # Untracked
  BY <1>1, <1>3 DEF LookedUpBelow, BlockView
<1> QED BY <1>2, <1>3

LEMMA InitIInv == Init => IInv
<1> SUFFICES ASSUME Init PROVE IInv  OBVIOUS
<1>1. db \in [Key -> Item] /\ top = EmptyCache /\ clone = EmptyCache /\ level = "idle"
  BY DEF Init
<1>2. View(top, db) = db /\ Tracks(top, db) /\ Tracks(clone, db) /\ EmptyCache \in [Key -> Entry]
  BY <1>1, EmptyTracks
<1>3. TypeOK
  BY <1>1, <1>2 DEF TypeOK
<1>4. CachesTrack
  BY <1>1, <1>2 DEF CachesTrack, BlockView
<1>5. NoDeadStored
  BY DEF Init, NoDeadStored
<1> QED BY <1>3, <1>4, <1>5 DEF IInv

\* Every step keeps the invariant.
LEMMA NextIInv == IInv /\ [Next]_vars => IInv'
<1> SUFFICES ASSUME IInv, [Next]_vars PROVE IInv'
  OBVIOUS
<1>0. /\ db \in [Key -> Item] /\ top \in [Key -> Entry] /\ clone \in [Key -> Entry]
      /\ BlockView \in [Key -> Item]
      /\ Tracks(top, db) /\ Tracks(clone, BlockView)
      /\ level # "invoke" => clone = EmptyCache
      /\ level = "idle" => top = EmptyCache
      /\ \A k \in Key : db[k] \notin Dead[k]
  BY ViewType DEF IInv, TypeOK, CachesTrack, NoDeadStored, BlockView
\* A step that only changes the caches keeps the invariant when it leaves both
\* of them in order.
<1>a. ASSUME db' = db, top' \in [Key -> Entry], clone' \in [Key -> Entry],
             Tracks(top', db), Tracks(clone', View(top', db)),
             level' \in {"idle", "block", "invoke"},
             level' # "invoke" => clone' = EmptyCache,
             level' = "idle" => top' = EmptyCache
      PROVE  IInv'
  BY <1>0, <1>a DEF IInv, TypeOK, CachesTrack, NoDeadStored, BlockView
\* A block's own operation runs while the clone is empty.
<1>b. ASSUME level = "block", level' = "block", db' = db, clone' = clone,
             top' \in [Key -> Entry], Tracks(top', db)
      PROVE  IInv'
  <2>1. View(top', db) \in [Key -> Item]
    BY <1>0, <1>b, ViewType
  <2>2. clone' = EmptyCache /\ Tracks(clone', View(top', db))
    BY <1>0, <1>b, <2>1, EmptyTracks
  <2> QED BY <1>0, <1>a, <1>b, <2>2
\* An invocation's operation changes the clone, and tracks at most a key below.
<1>c. ASSUME level = "invoke", level' = "invoke", db' = db,
             top' \in [Key -> Entry], Tracks(top', db), View(top', db) = BlockView,
             clone' \in [Key -> Entry], Tracks(clone', BlockView)
      PROVE  IInv'
  BY <1>a, <1>c
\* What ends an invocation empties the clone.
<1>d. ASSUME level' = "block", db' = db, clone' = EmptyCache,
             top' \in [Key -> Entry], Tracks(top', db)
      PROVE  IInv'
  <2>1. View(top', db) \in [Key -> Item]
    BY <1>0, <1>d, ViewType
  <2>2. clone' \in [Key -> Entry] /\ Tracks(clone', View(top', db))
    BY <1>d, <2>1, EmptyTracks
  <2> QED BY <1>a, <1>d, <2>2
<1>1. CASE OpenSnapshot
  BY <1>0, <1>1, <1>b, <1>a DEF OpenSnapshot, BlockView
<1>2. ASSUME NEW k \in Key, NEW v \in Value, BlockPut(k, v) PROVE IInv'
  <2>1. top' = Put(top, db, k, v) /\ level = "block" /\ level' = level /\ db' = db /\ clone' = clone
    BY <1>2 DEF BlockPut
  <2>2. top' \in [Key -> Entry] /\ Tracks(top', db)
    BY <1>0, <2>1, PutProps
  <2> QED BY <1>b, <2>1, <2>2
<1>3. ASSUME NEW k \in Key, NEW v \in Value, BlockAdd(k, v) PROVE IInv'
  <2>1. /\ top' = Add(top, k, v) /\ level = "block" /\ level' = level /\ db' = db /\ clone' = clone
        /\ View(top, db)[k] = Null
    BY <1>3 DEF BlockAdd, BlockView
  <2>2. top' \in [Key -> Entry] /\ Tracks(top', db)
    BY <1>0, <2>1, AddProps
  <2> QED BY <1>b, <2>1, <2>2
<1>4. ASSUME NEW k \in Key, NEW v \in Value, BlockGetOrAdd(k, v) PROVE IInv'
  <2>1. top' = GetOrAdd(top, db, k, v) /\ level = "block" /\ level' = level /\ db' = db /\ clone' = clone
    BY <1>4 DEF BlockGetOrAdd
  <2>2. top' \in [Key -> Entry] /\ Tracks(top', db)
    BY <1>0, <2>1, GetOrAddProps
  <2> QED BY <1>b, <2>1, <2>2
<1>5. ASSUME NEW k \in Key, BlockGet(k) PROVE IInv'
  <2>1. top' = TryGet(top, db, k) /\ level = "block" /\ level' = level /\ db' = db /\ clone' = clone
    BY <1>5 DEF BlockGet
  <2>2. top' \in [Key -> Entry] /\ Tracks(top', db)
    BY <1>0, <2>1, TryGetProps
  <2> QED BY <1>b, <2>1, <2>2
<1>6. CASE BeginInvocation
  BY <1>0, <1>6, <1>a DEF BeginInvocation, BlockView
<1>7. ASSUME NEW k \in Key, InvocationGet(k) PROVE IInv'
  <2>1. /\ clone' = TryGet(clone, BlockView, k) /\ top' = LookedUpBelow(k)
        /\ level = "invoke" /\ level' = level /\ db' = db
    BY <1>7 DEF InvocationGet
  <2>2. clone' \in [Key -> Entry] /\ Tracks(clone', BlockView)
    BY <1>0, <2>1, TryGetProps
  <2> QED BY <1>c, <2>1, <2>2, LookedUpProps
<1>8. ASSUME NEW k \in Key, NEW v \in Value, InvocationPut(k, v) PROVE IInv'
  <2>1. /\ clone' = Put(clone, BlockView, k, v) /\ top' = LookedUpBelow(k)
        /\ level = "invoke" /\ level' = level /\ db' = db
    BY <1>8 DEF InvocationPut
  <2>2. clone' \in [Key -> Entry] /\ Tracks(clone', BlockView)
    BY <1>0, <2>1, PutProps
  <2> QED BY <1>c, <2>1, <2>2, LookedUpProps
<1>9. ASSUME NEW k \in Key, NEW v \in Value, InvocationGetOrAdd(k, v) PROVE IInv'
  <2>1. /\ clone' = GetOrAdd(clone, BlockView, k, v) /\ top' = LookedUpBelow(k)
        /\ level = "invoke" /\ level' = level /\ db' = db
    BY <1>9 DEF InvocationGetOrAdd
  <2>2. clone' \in [Key -> Entry] /\ Tracks(clone', BlockView)
    BY <1>0, <2>1, GetOrAddProps
  <2> QED BY <1>c, <2>1, <2>2, LookedUpProps
<1>10. ASSUME NEW k \in Key, NEW v \in Value, InvocationAdd(k, v) PROVE IInv'
  <2>1. /\ clone' = Add(clone, k, v) /\ top' = top
        /\ level = "invoke" /\ level' = level /\ db' = db
        /\ View(clone, BlockView)[k] = Null
    BY <1>10 DEF InvocationAdd, InvocationView
  <2>2. clone' \in [Key -> Entry] /\ Tracks(clone', BlockView)
    BY <1>0, <2>1, AddProps
  <2> QED BY <1>0, <1>c, <2>1, <2>2 DEF BlockView
<1>11. ASSUME NEW k \in Key, InvocationDelete(k) PROVE IInv'
  <2>1. /\ clone' = Delete(clone, BlockView, k) /\ top' = LookedUpBelow(k)
        /\ level = "invoke" /\ level' = level /\ db' = db
    BY <1>11 DEF InvocationDelete
  <2>2. clone' \in [Key -> Entry] /\ Tracks(clone', BlockView)
    BY <1>0, <2>1, DeleteProps
  <2> QED BY <1>c, <2>1, <2>2, LookedUpProps
<1>12. CASE InvocationCommit
  <2>1. /\ top' = CommitInto(DeleteWhere(clone, Dead), top, db, Key)
        /\ clone' = EmptyCache /\ level' = "block" /\ db' = db
    BY <1>12 DEF InvocationCommit, Filtered
  <2>2. top' \in [Key -> Entry] /\ Tracks(top', db)
    BY <1>0, <2>1, CommitIntoProps DEF BlockView
  <2> QED BY <1>d, <2>1, <2>2
<1>13. CASE InvocationCommitRaises
  <2>1. PICK ks \in SUBSET Key : top' = CommitInto(DeleteWhere(clone, Dead), top, db, ks)
    BY <1>13 DEF InvocationCommitRaises, Filtered
  <2>2. clone' = EmptyCache /\ level' = "block" /\ db' = db
    BY <1>13 DEF InvocationCommitRaises
  <2>3. top' \in [Key -> Entry] /\ Tracks(top', db)
    BY <1>0, <2>1, CommitIntoProps DEF BlockView
  <2> QED BY <1>d, <2>2, <2>3
<1>14. CASE InvocationDiscard
  BY <1>0, <1>14, <1>d DEF InvocationDiscard
<1>15. CASE CommitBlock
  <2>1. /\ db' = WriteBatch(DeleteWhere(top, Dead), db)
        /\ top' = EmptyCache /\ clone' = EmptyCache /\ level' = "idle"
    BY <1>0, <1>15 DEF CommitBlock
  <2>2. \A k \in Key : db'[k] \in Item /\ db'[k] \notin Dead[k]
    BY <1>0, <2>1, WriteBatchProps
  <2>3. db' \in [Key -> Item]
    BY <2>1, <2>2 DEF WriteBatch
  <2>4. /\ EmptyCache \in [Key -> Entry]
        /\ Tracks(EmptyCache, db')
        /\ View(EmptyCache, db') = db'
    BY <2>3, EmptyTracks
  <2> QED BY <2>1, <2>2, <2>3, <2>4 DEF IInv, TypeOK, CachesTrack, NoDeadStored, BlockView
<1>16. CASE AbortBlock
  <2>1. db' = db /\ top' = EmptyCache /\ clone' = EmptyCache /\ level' = "idle"
    BY <1>16 DEF AbortBlock
  <2>2. /\ EmptyCache \in [Key -> Entry]
        /\ Tracks(EmptyCache, db)
        /\ View(EmptyCache, db) = db
    BY <1>0, EmptyTracks
  <2> QED BY <1>a, <2>1, <2>2
<1>17. CASE UNCHANGED vars
  BY <1>17 DEF vars, IInv, TypeOK, CachesTrack, NoDeadStored, BlockView
<1> QED BY <1>1, <1>2, <1>3, <1>4, <1>5, <1>6, <1>7, <1>8, <1>9, <1>10, <1>11, <1>12,
           <1>13, <1>14, <1>15, <1>16, <1>17 DEF Next

\* The caches are well formed and keep track of the layer below them, and no
\* dead item is stored, in every reachable state.
THEOREM Invariance == Spec => []IInv
<1>1. Init => IInv  BY InitIInv
<1>2. IInv /\ [Next]_vars => IInv'  BY NextIInv
<1> QED BY <1>1, <1>2, PTL DEF Spec

\* The caches always hold well-formed entries.
THEOREM TypeCorrect == Spec => []TypeOK
<1>1. IInv => TypeOK  BY DEF IInv
<1> QED BY <1>1, Invariance, PTL

\* What every entry of both caches says about the layer below it (new, changed or only
\* read there) stays true: Commit relies on it.
THEOREM CachesKeepTrack == Spec => []CachesTrack
<1>1. IInv => CachesTrack  BY DEF IInv
<1> QED BY <1>1, Invariance, PTL

\* No empty account and no coin that is spent or claimed altogether is stored.
THEOREM NothingDeadStored == Spec => []NoDeadStored
<1>1. IInv => NoDeadStored  BY DEF IInv
<1> QED BY <1>1, Invariance, PTL

-----------------------------------------------------------------------------
(* Commit and Find.                                                        *)

\* Committing an entry raises only when it changes an item without FromReplica,
\* and the invocation sees such an item.
LEMMA RaisingProps ==
    ASSUME IInv, NEW k \in RaisingKeys
    PROVE  /\ Replica[k] = "missing"
           /\ InvocationView[k] \in Value
           /\ InvocationView[k] \notin Dead[k]
<1>0. /\ db \in [Key -> Item] /\ top \in [Key -> Entry] /\ clone \in [Key -> Entry]
      /\ BlockView \in [Key -> Item] /\ BlockView = View(top, db)
      /\ Tracks(top, db) /\ Tracks(clone, BlockView)
      /\ Filtered = DeleteWhere(clone, Dead)
      /\ k \in Key /\ CommitRaises(Filtered[k], top, db, k)
  BY ViewType DEF IInv, TypeOK, CachesTrack, BlockView, Filtered, RaisingKeys
<1>1. /\ Filtered[k] \in Entry
      /\ Filtered[k].state = "ADDED" => BlockView[k] = Null
      /\ Filtered[k].state = "CHANGED" => BlockView[k] # Null
      /\ Filtered[k].item \notin Dead[k]
      /\ \/ Filtered[k] = clone[k]
         \/ Seen(Filtered[k], BlockView[k]) = Null /\ Seen(clone[k], BlockView[k]) \in Dead[k]
  BY <1>0, DeleteWhereProps
<1>2. BlockView[k] = Null => top[k].state \notin TrackState
  <2>1. top[k].state \in TrackState => top[k].item \in Value /\ top[k] # Untracked
    BY <1>0, EntryShapes, FixedShapes DEF TrackState
  <2> QED BY <1>0, <2>1, EntryByEntry, NullAssumption DEF Seen
<1>3. Filtered[k].state = "CHANGED" /\ Replica[k] = "missing"
  BY <1>0, <1>1, <1>2 DEF CommitRaises, AddRaises, GetAndChangeRaises
<1>4. Filtered[k].item \in Value /\ Filtered[k] # Untracked
  BY <1>1, <1>3, EntryShapes, FixedShapes DEF TrackState
<1>5. Filtered[k] = clone[k]
  BY <1>1, <1>4, NullAssumption DEF Seen
<1>6. InvocationView[k] = Filtered[k].item
  BY <1>0, <1>4, <1>5, EntryByEntry DEF InvocationView, Seen
<1> QED BY <1>1, <1>3, <1>4, <1>6

\* The commit of an invocation stops half-way over a changed contract or asset
\* or not at all: the caches' own exceptions cannot occur.
THEOREM CommitRaisesOverUncopied == Spec => []OnlyUncopiedRaise
<1>1. ASSUME IInv PROVE RaisingKeys \subseteq Uncopied
  <2>1. RaisingKeys \subseteq Key  BY DEF RaisingKeys
  <2> QED BY <1>1, <2>1, RaisingProps DEF Uncopied
<1>2. IInv => OnlyUncopiedRaise  BY <1>1 DEF OnlyUncopiedRaise
<1> QED BY <1>2, Invariance, PTL

\* Find over one cache returns the live keys of the prefix when what it is
\* given from below are the live keys there.
LEMMA FindProps ==
    ASSUME NEW c \in [Key -> Entry], NEW inner \in [Key -> Item], NEW starts \in SUBSET Key
    PROVE  Find(c, FindInternal(inner, starts), starts) = FindInternal(View(c, inner), starts)
<1>1. ASSUME NEW k \in Key
      PROVE  /\ c[k] = Untracked => View(c, inner)[k] = inner[k]
             /\ c[k].state \in TrackState <=> c[k] # Untracked /\ View(c, inner)[k] # Null
             /\ c[k].state \in TrackState => View(c, inner)[k] = c[k].item
  <2>1. c[k].state \in TrackState => c[k] # Untracked /\ c[k].item # Null
    BY EntryShapes, FixedShapes, NullAssumption DEF TrackState
  <2>2. c[k].state \notin TrackState => c[k] = Untracked \/ c[k] = DeletedEntry
    BY EntryShapes
  <2> QED BY <2>1, <2>2, EntryByEntry, FixedShapes DEF Seen
<1> QED BY <1>1 DEF Find, FindInternal

\* What Find returns to a contract is what TryGet would return for every key
\* of the prefix, whatever the two caches have tracked.
THEOREM FindIsComplete == Spec => []FindAgreesWithTryGet
<1>1. ASSUME IInv, NEW starts \in SUBSET Key PROVE FindMatches(starts)
  <2>1. /\ db \in [Key -> Item] /\ top \in [Key -> Entry] /\ clone \in [Key -> Entry]
        /\ BlockView \in [Key -> Item]
    BY <1>1, ViewType DEF IInv, TypeOK, BlockView
  <2>2. FindBelow(starts) = FindInternal(BlockView, starts)
    BY <2>1, FindProps DEF FindBelow, BlockView
  <2>3. Find(clone, FindBelow(starts), starts) = FindInternal(InvocationView, starts)
    BY <2>1, <2>2, FindProps DEF InvocationView
  <2> QED BY <2>3 DEF FindMatches, FindInternal
<1>2. IInv => FindAgreesWithTryGet  BY <1>1 DEF FindAgreesWithTryGet
<1> QED BY <1>2, Invariance, PTL

-----------------------------------------------------------------------------
(* Refinement.                                                             *)

Normal(k, i) == IF i \in Dead[k] THEN Null ELSE i

LEMMA NormProps ==
    ASSUME NEW f \in [Key -> Item]
    PROVE  /\ Norm(f) \in [Key -> Item]
           /\ \A k \in Key : Norm(f)[k] = Normal(k, f[k])
  BY DEF Norm, Normal, Item

\* No step makes an invocation change an item that FromReplica would not copy.
LEMMA IgnoredStep ==
    ASSUME IInv, NothingIgnored, [Next]_vars
    PROVE  NothingIgnored'
<1>0. clone \in [Key -> Entry] /\ BlockView \in [Key -> Item] /\ Tracks(clone, BlockView)
  BY ViewType DEF IInv, TypeOK, CachesTrack, BlockView
<1>a. CASE clone' = clone
  BY <1>a DEF NothingIgnored, Changeable
<1>b. CASE clone' = EmptyCache
  BY <1>b, FixedShapes DEF NothingIgnored, EmptyCache
\* A step that replaces the entry of one key, which is changeable or not changed.
<1>c. ASSUME NEW j \in Key, NEW e, clone' = [clone EXCEPT ![j] = e],
             Changeable(j) \/ e.state \notin {"CHANGED", "DELETED"}
      PROVE  NothingIgnored'
  BY <1>0, <1>c DEF NothingIgnored, Changeable
<1>1. ASSUME NEW k \in Key, clone' = TryGet(clone, BlockView, k) PROVE NothingIgnored'
  <2>1. CASE clone[k] = Untracked /\ BlockView[k] # Null
    <3>1. Trackable("NONE", BlockView[k]).state = "NONE"
      BY DEF Trackable
    <3> QED BY <1>1, <1>c, <2>1, <3>1 DEF TryGet
  <2>2. CASE ~(clone[k] = Untracked /\ BlockView[k] # Null)
    BY <1>1, <1>a, <2>2 DEF TryGet
  <2> QED BY <2>1, <2>2
<1>2. ASSUME NEW k \in Key, InvocationGet(k) PROVE NothingIgnored'
  BY <1>1, <1>2 DEF InvocationGet
<1>3. ASSUME NEW k \in Key, NEW v \in Value, InvocationPut(k, v) PROVE NothingIgnored'
  BY <1>3, <1>c DEF InvocationPut, Put
<1>4. ASSUME NEW k \in Key, NEW v \in Value, InvocationGetOrAdd(k, v) PROVE NothingIgnored'
  <2>1. clone' = GetOrAdd(clone, BlockView, k, v)
    BY <1>4 DEF InvocationGetOrAdd
  <2>2. CASE View(clone, BlockView)[k] = Null
    <3>1. \/ clone[k] = Untracked /\ BlockView[k] = Null
          \/ clone[k] = DeletedEntry
      BY <1>0, <2>2, EntryShapes, FixedShapes, NullAssumption DEF View
    <3>2. Changeable(k) \/ ChangedState(clone, BlockView, k) = "ADDED"
      BY <3>1, FixedShapes DEF NothingIgnored, ChangedState
    <3>3. Changeable(k) \/ Trackable(ChangedState(clone, BlockView, k), v).state = "ADDED"
      BY <3>2 DEF Trackable
    <3>4. clone' = [clone EXCEPT ![k] = Trackable(ChangedState(clone, BlockView, k), v)]
      BY <2>1, <2>2 DEF GetOrAdd, Put
    <3> QED BY <1>c, <3>3, <3>4
  <2>3. CASE View(clone, BlockView)[k] # Null
    BY <1>1, <2>1, <2>3 DEF GetOrAdd
  <2> QED BY <2>2, <2>3
<1>5. ASSUME NEW k \in Key, NEW v \in Value, InvocationAdd(k, v) PROVE NothingIgnored'
  BY <1>5, <1>c DEF InvocationAdd, Add
<1>6. ASSUME NEW k \in Key, InvocationDelete(k) PROVE NothingIgnored'
  BY <1>6, <1>c DEF InvocationDelete, Delete
<1>7. CASE InvocationCommit \/ InvocationCommitRaises \/ InvocationDiscard \/ AbortBlock
  BY <1>7, <1>b DEF InvocationCommit, InvocationCommitRaises, InvocationDiscard, AbortBlock
<1>8. CASE OpenSnapshot \/ BeginInvocation \/ CommitBlock \/ UNCHANGED vars
  BY <1>8, <1>a DEF OpenSnapshot, BeginInvocation, CommitBlock, vars
<1>9. ASSUME NEW k \in Key, NEW v \in Value,
             BlockPut(k, v) \/ BlockAdd(k, v) \/ BlockGetOrAdd(k, v) \/ BlockGet(k)
      PROVE  NothingIgnored'
  BY <1>9, <1>a DEF BlockPut, BlockAdd, BlockGetOrAdd, BlockGet
<1>10. ASSUME NEW k \in Key, BlockGet(k) PROVE NothingIgnored'
  BY <1>10, <1>a DEF BlockGet
<1> QED BY <1>2, <1>3, <1>4, <1>5, <1>6, <1>7, <1>8, <1>9, <1>10 DEF Next

\* What the invocation saw under the keys that were committed is what the block
\* sees then, and what the block saw under the others.
LEMMA CommitView ==
    ASSUME IInv, NothingIgnored, NEW ks \in SUBSET Key, ks \intersect RaisingKeys = {}
    PROVE  Norm(View(CommitInto(Filtered, top, db, ks), db)) =
                [k \in Key |-> IF k \in ks THEN Norm(InvocationView)[k] ELSE Norm(BlockView)[k]]
<1>0. /\ db \in [Key -> Item] /\ top \in [Key -> Entry] /\ clone \in [Key -> Entry]
      /\ BlockView \in [Key -> Item] /\ BlockView = View(top, db)
      /\ Tracks(top, db) /\ Tracks(clone, BlockView)
      /\ Filtered = DeleteWhere(clone, Dead)
  BY ViewType DEF IInv, TypeOK, CachesTrack, BlockView, Filtered
<1> DEFINE q == CommitInto(Filtered, top, db, ks)
<1>1. q \in [Key -> Entry]
  BY <1>0, CommitIntoProps
<1>2. ASSUME NEW k \in ks PROVE Normal(k, View(q, db)[k]) = Normal(k, InvocationView[k])
  <2>1. /\ Filtered[k] \in Entry
        /\ Filtered[k].state = "NONE" => View(top, db)[k] = Filtered[k].item
        /\ Filtered[k].state = "ADDED" => View(top, db)[k] = Null
        /\ Filtered[k].state = "CHANGED" => View(top, db)[k] # Null
        /\ \/ Filtered[k] = clone[k]
           \/ Seen(Filtered[k], BlockView[k]) = Null /\ Seen(clone[k], BlockView[k]) \in Dead[k]
    BY <1>0, DeleteWhereProps
  <2>2. Filtered[k].state = "CHANGED" => Replica[k] = "copies"
    <3> SUFFICES ASSUME Filtered[k].state = "CHANGED" PROVE Replica[k] = "copies"
      OBVIOUS
    <3>1. Filtered[k].item \in Value /\ Filtered[k] # Untracked
      BY <2>1, EntryShapes, FixedShapes DEF TrackState
    <3>2. clone[k].state = "CHANGED"
      BY <2>1, <3>1, NullAssumption DEF Seen
    <3>3. Replica[k] # "ignored"
      BY <3>2 DEF NothingIgnored, Changeable
    <3>4. Replica[k] # "missing"
      BY DEF RaisingKeys, CommitRaises
    <3> QED BY <3>3, <3>4, ReplicaAssumption
  <2>3. Seen(CommitEntry(Filtered[k], top, db, k), db[k]) = Seen(Filtered[k], BlockView[k])
    BY <1>0, <2>1, <2>2, CommitEntryProps
  <2>4. q[k] = CommitEntry(Filtered[k], top, db, k)
    BY DEF CommitInto
  <2> HIDE DEF q
  <2>5. View(q, db)[k] = Seen(Filtered[k], BlockView[k])
    BY <1>0, <1>1, <2>3, <2>4, EntryByEntry
  <2>6. InvocationView[k] = Seen(clone[k], BlockView[k])
    BY <1>0, EntryByEntry DEF InvocationView
  <2>7. Null \notin Dead[k]
    BY NullAssumption, DeadAssumption
  <2> QED BY <2>1, <2>5, <2>6, <2>7 DEF Normal
<1>3. ASSUME NEW k \in Key \ ks PROVE View(q, db)[k] = BlockView[k]
  <2>1. q[k] = top[k]
    BY DEF CommitInto
  <2> HIDE DEF q
  <2> QED BY <1>0, <1>1, <2>1, EntryByEntry
<1> HIDE DEF q
<1>4. View(q, db) \in [Key -> Item] /\ InvocationView \in [Key -> Item]
  BY <1>0, <1>1, ViewType DEF InvocationView
<1>5. Norm(View(q, db)) =
        [k \in Key |-> IF k \in ks THEN Norm(InvocationView)[k] ELSE Norm(BlockView)[k]]
  <2>1. ASSUME NEW k \in Key
        PROVE  Norm(View(q, db))[k] =
                    IF k \in ks THEN Norm(InvocationView)[k] ELSE Norm(BlockView)[k]
    BY <1>0, <1>2, <1>3, <1>4, NormProps
  <2>2. Norm(View(q, db)) = [k \in Key |-> Norm(View(q, db))[k]]
    BY DEF Norm
  <2> QED BY <2>1, <2>2
<1> QED BY <1>5 DEF q

\* What the block saw is what is stored once its batch is written.
LEMMA StoredView ==
    ASSUME IInv
    PROVE  Norm(WriteBatch(DeleteWhere(top, Dead), db)) = Norm(BlockView)
<1>0. /\ db \in [Key -> Item] /\ top \in [Key -> Entry] /\ Tracks(top, db)
      /\ \A k \in Key : db[k] \notin Dead[k]
  BY DEF IInv, TypeOK, CachesTrack, NoDeadStored
<1> DEFINE w == WriteBatch(DeleteWhere(top, Dead), db)
<1>1. ASSUME NEW k \in Key PROVE Normal(k, w[k]) = Normal(k, BlockView[k])
  <2>1. w[k] = BlockView[k] \/ (w[k] = Null /\ BlockView[k] \in Dead[k])
    BY <1>0, WriteBatchProps DEF BlockView
  <2>2. Null \notin Dead[k]
    BY NullAssumption, DeadAssumption
  <2> QED BY <2>1, <2>2 DEF Normal
<1> HIDE DEF w
<1>2. Norm(w) = Norm(BlockView)
  BY <1>1 DEF Norm, Normal
<1> QED BY <1>2 DEF w

\* Every step of the caches is a step of the abstract store or leaves it alone.
LEMMA RefinementStep ==
    ASSUME IInv, IInv', NothingIgnored, [Next]_vars
    PROVE  [KV!Next]_KV!kvVars
<1>0. /\ db \in [Key -> Item] /\ top \in [Key -> Entry] /\ clone \in [Key -> Entry]
      /\ BlockView = View(top, db) /\ BlockView' = View(top', db')
      /\ InvocationView = View(clone, BlockView) /\ InvocationView' = View(clone', BlockView')
      /\ BlockView \in [Key -> Item] /\ BlockView' \in [Key -> Item]
      /\ InvocationView \in [Key -> Item] /\ InvocationView' \in [Key -> Item]
      /\ Tracks(top, db) /\ Tracks(clone, BlockView)
      /\ level # "invoke" => clone = EmptyCache
      /\ level = "idle" => top = EmptyCache
  <2>1. /\ db \in [Key -> Item] /\ top \in [Key -> Entry] /\ clone \in [Key -> Entry]
        /\ db' \in [Key -> Item] /\ top' \in [Key -> Entry] /\ clone' \in [Key -> Entry]
    BY DEF IInv, TypeOK
  <2>2. BlockView \in [Key -> Item] /\ BlockView' \in [Key -> Item]
    BY <2>1, ViewType DEF BlockView
  <2>3. InvocationView \in [Key -> Item] /\ InvocationView' \in [Key -> Item]
    BY <2>1, <2>2, ViewType DEF InvocationView
  <2> QED BY <2>1, <2>2, <2>3 DEF IInv, CachesTrack, BlockView, InvocationView
\* With the clone empty, what an invocation would see is what the block sees.
<1>e. \A f \in [Key -> Item] : View(EmptyCache, f) = f
  BY EmptyTracks
\* A step that changes nothing that is seen.
<1>s. ASSUME level' = level, db' = db, BlockView' = BlockView, InvocationView' = InvocationView
      PROVE  UNCHANGED KV!kvVars
  BY <1>s DEF KV!kvVars, Norm
\* A block's write to one key.
<1>w. ASSUME level = "block", level' = "block", db' = db, clone' = clone, NEW k \in Key,
             NEW i \in Item, BlockView' = [BlockView EXCEPT ![k] = i]
      PROVE  KV!BlockWrite
  <2>0. /\ BlockView \in [Key -> Item] /\ BlockView' \in [Key -> Item]
        /\ BlockView' = [BlockView EXCEPT ![k] = i]
    BY <1>0, <1>w
  <2>1. /\ Normal(k, i) \in Value \union {Null}
        /\ Norm(BlockView') = [Norm(BlockView) EXCEPT ![k] = Normal(k, i)]
    BY <2>0 DEF Norm, Normal, Item
  <2>2. InvocationView' = BlockView'
    <3>1. clone = EmptyCache /\ clone' = EmptyCache
      BY <1>0, <1>w
    <3>2. InvocationView' = View(clone', BlockView')
      BY <1>0
    <3> QED BY <2>0, <3>1, <3>2, <1>e
  <2> QED BY <1>w, <2>1, <2>2 DEF KV!BlockWrite, Norm
\* An invocation's write to one key.
<1>i. ASSUME level = "invoke", level' = "invoke", db' = db, BlockView' = BlockView, NEW k \in Key,
             NEW i \in Item, InvocationView' = [InvocationView EXCEPT ![k] = i]
      PROVE  KV!InvocationWrite
  <2>0. /\ InvocationView \in [Key -> Item] /\ InvocationView' \in [Key -> Item]
        /\ InvocationView' = [InvocationView EXCEPT ![k] = i]
    BY <1>0, <1>i
  <2>1. /\ Normal(k, i) \in Value \union {Null}
        /\ Norm(InvocationView') = [Norm(InvocationView) EXCEPT ![k] = Normal(k, i)]
    BY <2>0 DEF Norm, Normal, Item
  <2> QED BY <1>i, <2>1 DEF KV!InvocationWrite, Norm
<1>1. CASE OpenSnapshot
  BY <1>0, <1>1 DEF OpenSnapshot, KV!Next, KV!Begin, Norm
<1>2. ASSUME NEW k \in Key, NEW v \in Value, BlockPut(k, v) PROVE KV!BlockWrite
  <2>1. level = "block" /\ level' = "block" /\ db' = db /\ clone' = clone /\ top' = Put(top, db, k, v)
    BY <1>2 DEF BlockPut
  <2>2. BlockView' = [BlockView EXCEPT ![k] = v]
    BY <1>0, <2>1, PutProps
  <2> QED BY <1>w, <2>1, <2>2 DEF Item
<1>3. ASSUME NEW k \in Key, NEW v \in Value, BlockAdd(k, v) PROVE KV!BlockWrite
  <2>1. /\ level = "block" /\ level' = "block" /\ db' = db /\ clone' = clone
        /\ top' = Add(top, k, v) /\ View(top, db)[k] = Null
    BY <1>0, <1>3 DEF BlockAdd
  <2>2. BlockView' = [BlockView EXCEPT ![k] = v]
    BY <1>0, <2>1, AddProps
  <2> QED BY <1>w, <2>1, <2>2 DEF Item
<1>4. ASSUME NEW k \in Key, NEW v \in Value, BlockGetOrAdd(k, v)
      PROVE  KV!BlockWrite \/ UNCHANGED KV!kvVars
  <2>1. /\ level = "block" /\ level' = "block" /\ db' = db /\ clone' = clone
        /\ top' = GetOrAdd(top, db, k, v)
    BY <1>4 DEF BlockGetOrAdd
  <2>2. BlockView' = [BlockView EXCEPT ![k] = v] \/ BlockView' = BlockView
    BY <1>0, <2>1, GetOrAddProps, SMTT(30)
  <2>3. CASE BlockView' = [BlockView EXCEPT ![k] = v]
    BY <1>w, <2>1, <2>3 DEF Item
  <2>4. CASE BlockView' = BlockView
    BY <1>0, <1>s, <2>1, <2>4
  <2> QED BY <2>2, <2>3, <2>4
<1>5. ASSUME NEW k \in Key, BlockGet(k) PROVE UNCHANGED KV!kvVars
  <2>1. /\ level = "block" /\ level' = "block" /\ db' = db /\ clone' = clone
        /\ top' = TryGet(top, db, k)
    BY <1>5 DEF BlockGet
  <2>2. BlockView' = BlockView
    BY <1>0, <2>1, TryGetProps
  <2> QED BY <1>0, <1>s, <2>1, <2>2
<1>6. CASE BeginInvocation
  BY <1>0, <1>6 DEF BeginInvocation, KV!Next, KV!BeginInvocation, Norm
<1>7. ASSUME NEW k \in Key, InvocationGet(k) PROVE UNCHANGED KV!kvVars
  <2>1. /\ level' = level /\ db' = db /\ top' = LookedUpBelow(k)
        /\ clone' = TryGet(clone, BlockView, k)
    BY <1>7 DEF InvocationGet
  <2>2. BlockView' = BlockView
    BY <1>0, <2>1, LookedUpProps
  <2>3. InvocationView = View(clone, BlockView) /\ InvocationView' = View(TryGet(clone, BlockView, k), BlockView)
    BY <1>0, <2>1, <2>2
  <2>4. InvocationView' = InvocationView
    BY <1>0, <2>3, TryGetProps
  <2> QED BY <1>s, <2>1, <2>2, <2>4
<1>8. ASSUME NEW k \in Key, NEW v \in Value, InvocationPut(k, v) PROVE KV!InvocationWrite
  <2>1. /\ level = "invoke" /\ level' = "invoke" /\ db' = db /\ top' = LookedUpBelow(k)
        /\ clone' = Put(clone, BlockView, k, v)
    BY <1>8 DEF InvocationPut
  <2>2. BlockView' = BlockView
    BY <1>0, <2>1, LookedUpProps
  <2>3. InvocationView = View(clone, BlockView) /\ InvocationView' = View(Put(clone, BlockView, k, v), BlockView)
    BY <1>0, <2>1, <2>2
  <2>4. InvocationView' = [InvocationView EXCEPT ![k] = v]
    BY <1>0, <2>3, PutProps
  <2> QED BY <1>i, <2>1, <2>2, <2>4 DEF Item
<1>9. ASSUME NEW k \in Key, NEW v \in Value, InvocationGetOrAdd(k, v)
      PROVE  KV!InvocationWrite \/ UNCHANGED KV!kvVars
  <2>1. /\ level = "invoke" /\ level' = "invoke" /\ db' = db /\ top' = LookedUpBelow(k)
        /\ clone' = GetOrAdd(clone, BlockView, k, v)
    BY <1>9 DEF InvocationGetOrAdd
  <2>2. BlockView' = BlockView
    BY <1>0, <2>1, LookedUpProps
  <2>a. /\ InvocationView = View(clone, BlockView)
        /\ InvocationView' = View(GetOrAdd(clone, BlockView, k, v), BlockView)
    BY <1>0, <2>1, <2>2
  <2>3. InvocationView' = [InvocationView EXCEPT ![k] = v] \/ InvocationView' = InvocationView
    BY <1>0, <2>a, GetOrAddProps
  <2>4. CASE InvocationView' = [InvocationView EXCEPT ![k] = v]
    BY <1>i, <2>1, <2>2, <2>4 DEF Item
  <2>5. CASE InvocationView' = InvocationView
    BY <1>s, <2>1, <2>2, <2>5
  <2> QED BY <2>3, <2>4, <2>5
<1>10. ASSUME NEW k \in Key, NEW v \in Value, InvocationAdd(k, v) PROVE KV!InvocationWrite
  <2>1. /\ level = "invoke" /\ level' = "invoke" /\ db' = db /\ top' = top
        /\ clone' = Add(clone, k, v) /\ View(clone, BlockView)[k] = Null
    BY <1>0, <1>10 DEF InvocationAdd
  <2>2. BlockView' = BlockView
    BY <1>0, <2>1
  <2>3. InvocationView = View(clone, BlockView) /\ InvocationView' = View(Add(clone, k, v), BlockView)
    BY <1>0, <2>1, <2>2
  <2>4. InvocationView' = [InvocationView EXCEPT ![k] = v]
    BY <1>0, <2>1, <2>3, AddProps
  <2> QED BY <1>i, <2>1, <2>2, <2>4 DEF Item
<1>11. ASSUME NEW k \in Key, InvocationDelete(k) PROVE KV!InvocationWrite
  <2>1. /\ level = "invoke" /\ level' = "invoke" /\ db' = db /\ top' = LookedUpBelow(k)
        /\ clone' = Delete(clone, BlockView, k)
    BY <1>11 DEF InvocationDelete
  <2>2. BlockView' = BlockView
    BY <1>0, <2>1, LookedUpProps
  <2>3. InvocationView = View(clone, BlockView) /\ InvocationView' = View(Delete(clone, BlockView, k), BlockView)
    BY <1>0, <2>1, <2>2
  <2>4. InvocationView' = [InvocationView EXCEPT ![k] = Null]
    BY <1>0, <2>3, DeleteProps
  <2> QED BY <1>i, <2>1, <2>2, <2>4 DEF Item
<1>12. CASE InvocationCommit
  <2>1. /\ level = "invoke" /\ level' = "block" /\ db' = db /\ clone' = EmptyCache
        /\ top' = CommitInto(Filtered, top, db, Key)
    BY <1>12 DEF InvocationCommit
  <2>2. Norm(BlockView') = Norm(InvocationView)
    <3>1. Key \intersect RaisingKeys = {}
      BY <1>12 DEF InvocationCommit
    <3>2. Norm(BlockView') = [k \in Key |-> Norm(InvocationView)[k]]
      BY <1>0, <2>1, <3>1, CommitView
    <3> QED BY <3>2 DEF Norm
  <2>3. InvocationView' = BlockView'
    BY <1>0, <1>e, <2>1
  <2>4. KV!CommitInvocation
    BY <2>1, <2>2, <2>3 DEF KV!CommitInvocation, Norm
  <2> QED BY <2>4 DEF KV!Next
<1>13. CASE InvocationCommitRaises
  <2>1. /\ level = "invoke" /\ level' = "block" /\ db' = db /\ clone' = EmptyCache
    BY <1>13 DEF InvocationCommitRaises
  <2>2. PICK bad \in RaisingKeys, kept \in SUBSET Key :
            /\ bad \notin kept /\ kept \intersect RaisingKeys = {}
            /\ top' = CommitInto(Filtered, top, db, kept)
    BY <1>13 DEF InvocationCommitRaises, RaisingKeys
  <2>3. bad \in Uncopied \ kept /\ InvocationView[bad] \in Value /\ InvocationView[bad] \notin Dead[bad]
    BY <2>2, RaisingProps DEF Uncopied, RaisingKeys
  <2>4. Norm(InvocationView)[bad] # Null
    BY <2>3, NullAssumption DEF Norm, Uncopied
  <2>5. Norm(BlockView') =
            [k \in Key |-> IF k \in kept THEN Norm(InvocationView)[k] ELSE Norm(BlockView)[k]]
    BY <1>0, <2>1, <2>2, CommitView
  <2>6. InvocationView' = BlockView'
    BY <1>0, <1>e, <2>1
  <2>7. KV!CommitSome
    BY <2>1, <2>3, <2>4, <2>5, <2>6 DEF KV!CommitSome, Norm
  <2> QED BY <2>7 DEF KV!Next
<1>14. CASE InvocationDiscard
  <2>1. level = "invoke" /\ level' = "block" /\ db' = db /\ clone' = EmptyCache /\ top' = top
    BY <1>14 DEF InvocationDiscard
  <2>2. BlockView' = BlockView /\ InvocationView' = BlockView'
    BY <1>0, <1>e, <2>1
  <2> QED BY <2>1, <2>2 DEF KV!Next, KV!DiscardInvocation, Norm
<1>15. CASE CommitBlock
  <2>1. /\ level = "block" /\ level' = "idle" /\ clone = EmptyCache /\ clone' = EmptyCache
        /\ top' = EmptyCache /\ db' = WriteBatch(DeleteWhere(top, Dead), db)
    BY <1>0, <1>15 DEF CommitBlock
  <2>2. db' \in [Key -> Item]
    BY DEF IInv, TypeOK
  <2>3. BlockView' = db' /\ InvocationView' = db' /\ InvocationView = BlockView
    BY <1>0, <1>e, <2>1, <2>2
  <2>4. Norm(db') = Norm(BlockView)
    BY <2>1, StoredView
  <2>5. KV!CommitBlock
    BY <2>1, <2>3, <2>4 DEF KV!CommitBlock, Norm
  <2> QED BY <2>5 DEF KV!Next
<1>16. CASE AbortBlock
  <2>1. level # "idle" /\ level' = "idle" /\ db' = db /\ top' = EmptyCache /\ clone' = EmptyCache
    BY <1>16 DEF AbortBlock
  <2>2. BlockView' = db /\ InvocationView' = db
    BY <1>0, <1>e, <2>1
  <2>3. level \in {"block", "invoke"}
    BY <2>1 DEF IInv, TypeOK
  <2> QED BY <2>1, <2>2, <2>3 DEF KV!Next, KV!DiscardBlock, Norm
<1>17. CASE UNCHANGED vars
  BY <1>17 DEF vars, KV!kvVars, Norm, BlockView, InvocationView
<1> QED BY <1>1, <1>2, <1>3, <1>4, <1>5, <1>6, <1>7, <1>8, <1>9, <1>10, <1>11, <1>12,
           <1>13, <1>14, <1>15, <1>16, <1>17 DEF Next, KV!Next

LEMMA RefinementInit == Init => KV!Init
<1> SUFFICES ASSUME Init PROVE KV!Init  OBVIOUS
<1>1. db \in [Key -> Item] /\ top = EmptyCache /\ clone = EmptyCache /\ level = "idle"
  BY DEF Init
<1>2. BlockView = db /\ InvocationView = db
  BY <1>1, EmptyTracks DEF BlockView, InvocationView
<1>3. Norm(db) \in [Key -> Item]
  BY <1>1, NormProps
<1> QED BY <1>1, <1>2, <1>3 DEF KV!Init, Item

\* The caches implement nested transactions: block over store, invocation over
\* block, each seeing what is under it and committed or discarded as a whole,
\* but for a commit that a changed contract or asset stops.
THEOREM Refinement == Spec => Transactional
<1>1. Init => KV!Init
  BY RefinementInit
<1>2. Init => NothingIgnored
  BY FixedShapes DEF Init, EmptyCache, NothingIgnored
<1>3. IInv /\ NothingIgnored /\ [Next]_vars => NothingIgnored'
  BY IgnoredStep
<1>4. IInv /\ IInv' /\ NothingIgnored /\ [Next]_vars => [KV!Next]_KV!kvVars
  BY RefinementStep
<1> QED BY <1>1, <1>2, <1>3, <1>4, Invariance, PTL DEF Spec, Transactional, KV!Spec

-----------------------------------------------------------------------------
(* Keys.                                                                   *)

KeysOf(c) == {Contract(c)} \union Rows(c)

LEMMA KeyShapes ==
    /\ \A c \in Hash : Contract(c) \in Key /\ Rows(c) \in SUBSET Key /\ KeysOf(c) \in SUBSET Key
    /\ \A c \in Hash, s \in Suffix : Row(c, s) \in Rows(c) /\ Row(c, s)[2] = s
    /\ \A c, d \in Hash : /\ Contract(c) \notin Rows(d)
                          /\ Contract(c) = Contract(d) => c = d
                          /\ c # d => KeysOf(c) \intersect KeysOf(d) = {}
    /\ \A c \in Hash : \A k \in Key : (\E x : k = Row(c, x)) => k \in Rows(c)
    /\ \A c \in Hash : \A k \in Rows(c) : k = Row(c, k[2]) /\ k[2] \in Suffix
    /\ \A k \in Key : \E c \in Hash : k \in KeysOf(c)
  BY ColumnsAssumption DEF KeysOf, Rows, Row, Contract

LEMMA RowShapes ==
    /\ AllRows \in SUBSET Key
    /\ \A c \in Hash : Contract(c) \notin AllRows
    /\ \A c \in Hash : Rows(c) \in SUBSET AllRows
    /\ \A c \in Hash : Containing(c) \in SUBSET AllRows /\ Rows(c) \subseteq Containing(c)
    /\ \A k \in AllRows : \E c \in Hash : k \in Rows(c) /\ k = Row(c, k[2]) /\ k[2] \in Suffix
<1>1. \A c \in Hash : Rows(c) \in SUBSET AllRows /\ Rows(c) \in SUBSET Key /\ Contract(c) \notin AllRows
  BY KeyShapes DEF AllRows
<1>2. \A c \in Hash : Containing(c) \in SUBSET AllRows /\ Rows(c) \subseteq Containing(c)
  <2> SUFFICES ASSUME NEW c \in Hash, NEW k \in Containing(c) PROVE k \in AllRows
    BY DEF Containing
  <2>1. k \in Rows(c) \/ \E d \in Hash, s \in Suffix : k = Row(d, s)
    BY DEF Containing
  <2> QED  BY <1>1, <2>1, KeyShapes
<1>3. AllRows \in SUBSET Key
  BY <1>1 DEF AllRows
<1>4. \A k \in AllRows : \E c \in Hash : k \in Rows(c) /\ k = Row(c, k[2]) /\ k[2] \in Suffix
  <2> SUFFICES ASSUME NEW k \in AllRows
               PROVE  \E c \in Hash : k \in Rows(c) /\ k = Row(c, k[2]) /\ k[2] \in Suffix
    OBVIOUS
  <2>1. PICK c \in Hash : k \in Rows(c)
    BY DEF AllRows
  <2> QED  BY <2>1, KeyShapes
<1> QED  BY <1>1, <1>2, <1>3, <1>4

-----------------------------------------------------------------------------
(* What one entry becomes, and what is seen then.                          *)

\* What is left of Agrees for a row, whose item may be changed as the item of another one.
Fits(e, i) ==
    /\ e.state = "ADDED" => i = Null
    /\ e.state \in {"NONE", "CHANGED", "DELETED"} => i # Null

Fitting(c, inner) ==
    \A k \in Key : Fits(c[k], inner[k]) /\ (k \notin AllRows => Agrees(c[k], inner[k]))

\* e becomes f over the item i: nothing that is seen changes, and what agreed still does.
Keeps(e, f, i) ==
    /\ f \in Entry
    /\ Seen(f, i) = Seen(e, i)
    /\ Agrees(e, i) => Agrees(f, i)
    /\ Fits(e, i) => Fits(f, i)

\* e becomes f over the item i, under which v is seen then.
Shows(e, f, i, v) ==
    /\ f \in Entry
    /\ Seen(f, i) = v
    /\ Agrees(e, i) => Agrees(f, i)
    /\ Fits(e, i) => Fits(f, i)

LEMMA AgreeingFits ==
    ASSUME NEW e \in Entry, NEW i, Agrees(e, i)
    PROVE  Fits(e, i)
  BY EntryShapes, NullAssumption DEF Agrees, Fits, TrackState

LEMMA LookedUpEntry ==
    ASSUME NEW c \in [Key -> Entry], NEW inner \in [Key -> Item], NEW k \in Key
    PROVE  Keeps(c[k], TryGet(c, inner, k)[k], inner[k]) /\ Keeps(c[k], c[k], inner[k])
<1>1. CASE c[k] = Untracked /\ inner[k] # Null
  <2>1. inner[k] \in Value
    BY <1>1 DEF Item
  <2>2. TryGet(c, inner, k)[k] = Trackable("NONE", inner[k])
    BY <1>1 DEF TryGet
  <2> QED  BY <1>1, <2>1, <2>2, TrackableShape DEF Keeps, Seen, Agrees, Fits, TrackState
<1>2. CASE ~(c[k] = Untracked /\ inner[k] # Null)
  BY <1>2 DEF TryGet, Keeps
<1> QED  BY <1>1, <1>2 DEF Keeps

LEMMA PutEntry ==
    ASSUME NEW c \in [Key -> Entry], NEW inner \in [Key -> Item], NEW k \in Key, NEW v \in Value
    PROVE  Shows(c[k], Put(c, inner, k, v)[k], inner[k], v)
<1> DEFINE s == ChangedState(c, inner, k)
<1>1. s \in {"ADDED", "CHANGED"}
  BY DEF ChangedState
<1>2. Fits(c[k], inner[k]) =>
        (s = "ADDED" => inner[k] = Null) /\ (s = "CHANGED" => inner[k] # Null)
  BY EntryShapes DEF ChangedState, Fits, TrackState
<1>3. Put(c, inner, k, v)[k] = Trackable(s, v)
  BY DEF Put
<1> HIDE DEF s
<1> QED  BY <1>1, <1>2, <1>3, TrackableShape, AgreeingFits DEF Shows, Seen, Agrees, Fits, TrackState

LEMMA AddEntry ==
    ASSUME NEW c \in [Key -> Entry], NEW inner \in [Key -> Item], NEW k \in Key, NEW v \in Value
    PROVE  /\ Add(c, k, v)[k] \in Entry
           /\ Seen(Add(c, k, v)[k], inner[k]) = v
           /\ Seen(c[k], inner[k]) = Null => Shows(c[k], Add(c, k, v)[k], inner[k], v)
<1> DEFINE s == IF c[k] = Untracked THEN "ADDED" ELSE "CHANGED"
<1>1. s \in {"ADDED", "CHANGED"}
  OBVIOUS
<1>2. Fits(c[k], inner[k]) /\ Seen(c[k], inner[k]) = Null =>
        (s = "ADDED" => inner[k] = Null) /\ (s = "CHANGED" => inner[k] # Null)
  BY EntryShapes, FixedShapes, NullAssumption DEF Fits, Seen, TrackState
<1>3. Add(c, k, v)[k] = Trackable(s, v)
  BY DEF Add
<1> HIDE DEF s
<1> QED  BY <1>1, <1>2, <1>3, TrackableShape, AgreeingFits DEF Shows, Seen, Agrees, Fits, TrackState

LEMMA DeleteEntry ==
    ASSUME NEW c \in [Key -> Entry], NEW inner \in [Key -> Item], NEW k \in Key
    PROVE  /\ Delete(c, inner, k)[k] \in Entry
           /\ Seen(Delete(c, inner, k)[k], inner[k]) \in {Null, inner[k]}
           /\ Fits(c[k], inner[k]) => Shows(c[k], Delete(c, inner, k)[k], inner[k], Null)
<1> DEFINE new == c[k].state = "ADDED" \/ (c[k] = Untracked /\ inner[k] = Null)
<1>1. Fits(c[k], inner[k]) => (new <=> inner[k] = Null)
  BY EntryShapes DEF Fits, TrackState
<1>2. Delete(c, inner, k)[k] = IF new THEN Untracked ELSE DeletedEntry
  BY DEF Delete
<1> HIDE DEF new
<1> QED  BY <1>1, <1>2, FixedShapes DEF Shows, Seen, Agrees, Fits

-----------------------------------------------------------------------------
(* Looking up, finding and destroying.                                     *)

\* Two caches over one layer, when every entry of the second keeps what the first shows.
LEMMA KeepsAll ==
    ASSUME NEW c \in [Key -> Entry], NEW inner \in [Key -> Item], NEW d,
           d = [k \in Key |-> d[k]],
           \A k \in Key : Keeps(c[k], d[k], inner[k])
    PROVE  /\ d \in [Key -> Entry]
           /\ View(d, inner) = View(c, inner)
           /\ Tracks(c, inner) => Tracks(d, inner)
           /\ Fitting(c, inner) => Fitting(d, inner)
<1>1. d \in [Key -> Entry]
  BY DEF Keeps
<1>2. \A k \in Key : View(d, inner)[k] = View(c, inner)[k]
  BY <1>1, EntryByEntry DEF Keeps
<1>3. View(d, inner) = View(c, inner)
  <2> DEFINE v == View(d, inner)
             w == View(c, inner)
  <2>1. v \in [Key -> Item] /\ w \in [Key -> Item]
    BY <1>1, ViewType
  <2>2. \A k \in Key : v[k] = w[k]
    BY <1>2
  <2> HIDE DEF v, w
  <2>3. v = w
    BY <2>1, <2>2
  <2> QED  BY <2>3 DEF v, w
<1>4. Tracks(c, inner) => Tracks(d, inner)
  BY <1>1, EntryByEntry DEF Keeps
<1>5. Fitting(c, inner) => Fitting(d, inner)
  BY DEF Keeps, Fitting
<1> QED  BY <1>1, <1>3, <1>4, <1>5

LEMMA LookUpProps ==
    ASSUME NEW c \in [Key -> Entry], NEW t \in [Key -> Entry], db \in [Key -> Item], NEW ks
    PROVE  /\ LookUp(c, t, ks) \in [Key -> Entry]
           /\ View(LookUp(c, t, ks), View(t, db)) = View(c, View(t, db))
           /\ Fitting(c, View(t, db)) => Fitting(LookUp(c, t, ks), View(t, db))
           /\ \A k \in Key : c[k] # Untracked => LookUp(c, t, ks)[k] = c[k]
           /\ \A k \in Key : k \notin ks => LookUp(c, t, ks)[k] = c[k]
<1> DEFINE inner == View(t, db)
           d == LookUp(c, t, ks)
<1>1. inner \in [Key -> Item]
  BY ViewType
<1>2. d = [k \in Key |-> IF k \in ks THEN TryGet(c, inner, k)[k] ELSE c[k]]
  BY DEF LookUp
<1> HIDE DEF inner, d
<1>3. \A k \in Key : Keeps(c[k], d[k], inner[k])
  BY <1>1, <1>2, LookedUpEntry
<1>4. d = [k \in Key |-> d[k]]
  BY <1>2
<1>5. /\ \A k \in Key : c[k] # Untracked => d[k] = c[k]
      /\ \A k \in Key : k \notin ks => d[k] = c[k]
  BY <1>2 DEF TryGet
<1> QED  BY <1>1, <1>3, <1>4, <1>5, KeepsAll DEF inner, d

LEMMA AfterLookupProps ==
    ASSUME NEW t \in [Key -> Entry], db \in [Key -> Item], NEW ks
    PROVE  /\ AfterLookup(t, ks) \in [Key -> Entry]
           /\ View(AfterLookup(t, ks), db) = View(t, db)
           /\ Tracks(t, db) => Tracks(AfterLookup(t, ks), db)
<1> DEFINE d == AfterLookup(t, ks)
<1>1. d = [k \in Key |-> IF k \in ks /\ clone[k] = Untracked THEN TryGet(t, db, k)[k] ELSE t[k]]
  BY DEF AfterLookup
<1> HIDE DEF d
<1>2. \A k \in Key : Keeps(t[k], d[k], db[k])
  BY <1>1, LookedUpEntry
<1>3. d = [k \in Key |-> d[k]]
  BY <1>1
<1> QED  BY <1>2, <1>3, KeepsAll DEF d

\* What Storages.Find yields for a contract: rows with items, and every row of the
\* contract that is seen through the caches is among them.
LEMMA FoundProps ==
    ASSUME NEW c \in [Key -> Entry], NEW t \in [Key -> Entry], db \in [Key -> Item], NEW h \in Hash
    PROVE  /\ \A kv \in Found(c, t, h) : /\ kv = <<kv[1], kv[2]>>
                                         /\ kv[1] \in Containing(h) /\ kv[2] \in Value
           /\ \A k \in Containing(h) : k \in Key /\ k[2] \in Suffix
           /\ \A k \in Rows(h) : LET i == View(c, View(t, db))[k]
                                 IN  i # Null => <<k, i>> \in Found(c, t, h)
<1> DEFINE starts == Rows(h)
           occurs == Containing(h)
           below == FindInternal(db, starts)
           middle == Find(t, below, occurs)
           inner == View(t, db)
<1>1. starts \in SUBSET Key /\ starts \subseteq occurs
  BY KeyShapes DEF Containing
<1>2. \A k \in occurs : k \in Key /\ k[2] \in Suffix
  <2> SUFFICES ASSUME NEW k \in occurs PROVE k \in Key /\ k[2] \in Suffix
    OBVIOUS
  <2>1. PICK d \in Hash, s \in Suffix : k = Row(d, s)
    BY DEF Containing, Rows
  <2> QED  BY <2>1, KeyShapes
<1>3. \A kv \in below : kv = <<kv[1], kv[2]>> /\ kv[1] \in occurs /\ kv[2] \in Value
  BY <1>1 DEF FindInternal, Item
<1>4. \A k \in starts : db[k] # Null => <<k, db[k]>> \in below
  BY DEF FindInternal
<1>5. inner \in [Key -> Item]
  BY ViewType
<1> HIDE DEF below
<1>6. \A kv \in middle : kv = <<kv[1], kv[2]>> /\ kv[1] \in occurs /\ kv[2] \in Value
  BY <1>2, <1>3, EntryShapes DEF Find
<1>7. \A k \in starts : inner[k] # Null => <<k, inner[k]>> \in middle
  <2> SUFFICES ASSUME NEW k \in starts, inner[k] # Null PROVE <<k, inner[k]>> \in middle
    OBVIOUS
  <2>1. k \in Key /\ k \in occurs /\ t[k] \in Entry
    BY <1>1
  <2>2. inner[k] = IF t[k] = Untracked THEN db[k] ELSE t[k].item
    BY <2>1 DEF View
  <2>3. CASE t[k] = Untracked
    BY <1>4, <2>2, <2>3 DEF Find
  <2>4. CASE t[k] # Untracked
    <3>1. t[k].state \in TrackState
      BY <2>1, <2>2, <2>4, EntryShapes, FixedShapes
    <3> QED  BY <2>1, <2>2, <2>4, <3>1 DEF Find
  <2> QED  BY <2>3, <2>4
<1> HIDE DEF middle, inner
<1>8. Found(c, t, h) = Find(c, middle, occurs)
  BY DEF Found, Starting, middle, below
<1>9. \A kv \in Find(c, middle, occurs) : kv = <<kv[1], kv[2]>> /\ kv[1] \in occurs /\ kv[2] \in Value
  BY <1>2, <1>6, EntryShapes DEF Find
<1>10. \A k \in starts : View(c, inner)[k] # Null => <<k, View(c, inner)[k]>> \in Find(c, middle, occurs)
  <2> SUFFICES ASSUME NEW k \in starts, View(c, inner)[k] # Null
               PROVE  <<k, View(c, inner)[k]>> \in Find(c, middle, occurs)
    OBVIOUS
  <2>1. k \in Key /\ k \in occurs /\ c[k] \in Entry
    BY <1>1
  <2>2. View(c, inner)[k] = IF c[k] = Untracked THEN inner[k] ELSE c[k].item
    BY <2>1 DEF View
  <2>3. CASE c[k] = Untracked
    BY <1>7, <2>2, <2>3 DEF Find
  <2>4. CASE c[k] # Untracked
    <3>1. c[k].state \in TrackState
      BY <2>1, <2>2, <2>4, EntryShapes, FixedShapes
    <3> QED  BY <2>1, <2>2, <2>4, <3>1 DEF Find
  <2> QED  BY <2>3, <2>4
<1> QED  BY <1>2, <1>8, <1>9, <1>10 DEF inner

\* Destroying h touches the keys of h only; where the caches are in order, the contract
\* is gone then, and with it all its rows, when it had storage.
LEMMA DestroyProps ==
    ASSUME NEW c \in [Key -> Entry], NEW t \in [Key -> Entry], db \in [Key -> Item], NEW h \in Hash
    PROVE  LET inner == View(t, db)
               before == View(c, inner)
               after == View(Destroyed(c, t, h), inner)
           IN  /\ Destroyed(c, t, h) \in [Key -> Entry]
               /\ \A k \in Key : k \notin KeysOf(h) => after[k] = before[k]
               /\ \A k \in Key : after[k] \in {before[k], Null, inner[k]}
               /\ \A k \in Key : k \notin KeysOf(h) => Destroyed(c, t, h)[k] = c[k]
               /\ Fitting(c, inner) =>
                     /\ Fitting(Destroyed(c, t, h), inner)
                     /\ after[Contract(h)] = Null
                     /\ \A k \in Rows(h) : after[k] = before[k] \/ after[k] = Null
                     /\ HasStorage(before[Contract(h)]) => \A k \in Rows(h) : after[k] = Null
<1> DEFINE inner == View(t, db)
           before == View(c, inner)
           e == LookUp(c, t, {Contract(h)})
           rows == IF HasStorage(before[Contract(h)]) THEN {Row(h, kv[1][2]) : kv \in Found(c, t, h)} ELSE {}
           dels == rows \union {Contract(h)}
           d == Destroyed(c, t, h)
           after == View(d, inner)
<1>1. inner \in [Key -> Item]
  BY ViewType
<1>2. /\ e \in [Key -> Entry] /\ View(e, inner) = before /\ (Fitting(c, inner) => Fitting(e, inner))
      /\ \A k \in Key : k # Contract(h) => e[k] = c[k]
  BY LookUpProps
<1>3. d = [k \in Key |-> IF k \in dels THEN Delete(e, inner, k)[k] ELSE e[k]]
  BY DEF Destroyed, DeleteAll
<1>4. \A k \in Key : k \in dels => k \in KeysOf(h)
  BY KeyShapes DEF KeysOf
<1>5. HasStorage(before[Contract(h)]) => \A k \in Rows(h) : before[k] # Null => k \in dels
  <2> SUFFICES ASSUME HasStorage(before[Contract(h)]), NEW k \in Rows(h), before[k] # Null
               PROVE  k \in dels
    OBVIOUS
  <2>1. <<k, before[k]>> \in Found(c, t, h)
    BY FoundProps
  <2>2. k = Row(h, <<k, before[k]>>[1][2])
    BY KeyShapes
  <2> QED  BY <2>1, <2>2
<1>6. Contract(h) \in dels /\ Contract(h) \in Key /\ Rows(h) \in SUBSET Key
  BY KeyShapes
<1> HIDE DEF inner, before, e, rows, dels, d
<1>7. d \in [Key -> Entry]
  BY <1>1, <1>2, <1>3, DeleteEntry
<1>8. \A k \in Key : k \notin dels => after[k] = before[k]
  <2> SUFFICES ASSUME NEW k \in Key, k \notin dels PROVE after[k] = before[k]
    OBVIOUS
  <2>1. d[k] = e[k]
    BY <1>3
  <2>2. after[k] = Seen(d[k], inner[k]) /\ View(e, inner)[k] = Seen(e[k], inner[k])
    BY <1>1, <1>2, <1>7, EntryByEntry
  <2> QED  BY <1>2, <2>1, <2>2
<1>9. ASSUME Fitting(c, inner)
      PROVE  Fitting(d, inner) /\ \A k \in Key : k \in dels => after[k] = Null
  <2>1. \A k \in Key : Fits(e[k], inner[k]) /\ (k \notin AllRows => Agrees(e[k], inner[k]))
    BY <1>2, <1>9 DEF Fitting
  <2>2. \A k \in Key : /\ Fits(d[k], inner[k]) /\ (k \notin AllRows => Agrees(d[k], inner[k]))
                       /\ k \in dels => Seen(d[k], inner[k]) = Null
    BY <1>1, <1>2, <1>3, <2>1, DeleteEntry DEF Shows
  <2> QED  BY <1>1, <1>7, <2>2, EntryByEntry DEF Fitting
<1>10. Fitting(c, inner) =>
          /\ Fitting(d, inner)
          /\ after[Contract(h)] = Null
          /\ \A k \in Rows(h) : after[k] = before[k] \/ after[k] = Null
          /\ HasStorage(before[Contract(h)]) => \A k \in Rows(h) : after[k] = Null
  BY <1>5, <1>6, <1>8, <1>9
<1>11. \A k \in Key : k \notin KeysOf(h) => after[k] = before[k]
  BY <1>4, <1>8
<1>12. \A k \in Key : after[k] \in {before[k], Null, inner[k]}
  <2> SUFFICES ASSUME NEW k \in Key, k \in dels PROVE after[k] \in {Null, inner[k]}
    BY <1>8
  <2>1. d[k] = Delete(e, inner, k)[k]
    BY <1>3
  <2>2. after[k] = Seen(d[k], inner[k])
    BY <1>1, <1>7, EntryByEntry
  <2> QED  BY <1>1, <1>2, <2>1, <2>2, DeleteEntry
<1>13. \A k \in Key : k \notin KeysOf(h) => d[k] = c[k]
  BY <1>2, <1>3, <1>4 DEF KeysOf
<1> HIDE DEF after
<1> QED  BY <1>7, <1>10, <1>11, <1>12, <1>13 DEF d, inner, before, after

-----------------------------------------------------------------------------
(* The invariant.                                                          *)

Typed ==
    /\ db \in [Key -> Item] /\ top \in [Key -> Entry] /\ clone \in [Key -> Entry]
    /\ level \in {"idle", "block", "invoke"}
    /\ level # "invoke" => clone = EmptyCache
    /\ level = "idle" => top = EmptyCache
    /\ torn \in BOOLEAN

\* The scripts on the stack ran, and a context that a script holds is its own, or that of
\* a contract made in this execution.
Control ==
    /\ ran \subseteq Hash \union {Script}
    /\ created \in [Hash -> Hash \union {Script, Nobody}]
    /\ running \in Seq(ran)
    /\ level = "invoke" => running # << >>
    /\ \A ctx \in contexts : ctx.owner \in Hash => Reached(ctx.owner)

\* In what is seen at some level, every row belongs to a contract with storage.
Owned(f) == \A c \in Hash : (\E k \in Rows(c) : f[k] # Null) => HasStorage(f[Contract(c)])

Orderly ==
    /\ Tracks(top, db) /\ Fitting(clone, BlockView)
    /\ Owned(db) /\ Owned(BlockView) /\ Owned(InvocationView)

\* The clone tracks rows only of contracts that a script may read and write, and a contract
\* of the block disappears only when it ran.
Authorised ==
    /\ \A c \in Hash : \A k \in Rows(c) : clone[k] # Untracked => Reached(c)
    /\ \A c \in Hash : BlockView[Contract(c)] # Null /\ InvocationView[Contract(c)] = Null => c \in ran

\* A contract that is in the database or seen at some level is listed, or is going to be
\* when the block has been stored.
Announced ==
    /\ \A c \in Hash :
          db[Contract(c)] # Null \/ BlockView[Contract(c)] # Null \/ InvocationView[Contract(c)] # Null
          => c \in published \union emitted \union tokens
    /\ level = "idle" => emitted = {}

\* Two rows that hold one item have the same suffix, with a script hash in it.
Twins(pairs) ==
    \A p \in pairs :
        /\ p = <<p[1], p[2]>> /\ p[1] \in AllRows /\ p[2] \in AllRows
        /\ p[1][2] = p[2][2] /\ Mentions[p[1][2]] # {}
        /\ <<p[2], p[1]>> \in pairs

\* In the cache below they are changed rows.
Sharing ==
    /\ Twins(sharing) /\ Twins(shared)
    /\ \A p \in shared : top[p[1]].state \in {"ADDED", "CHANGED"}

\* In the clone they are rows to read.
Held ==
    \A p \in sharing : /\ p[1] \in AllRows /\ clone[p[1]].state \in TrackState
                       /\ p[2] \in AllRows /\ clone[p[2]].state \in TrackState

\* An array of rows, with gaps.
Array(d) ==
    /\ d = [slot |-> d.slot, used |-> d.used]
    /\ d.used \in Nat /\ d.slot \in [AllRows -> 0..d.used]
    /\ \A j, k \in AllRows : d.slot[j] = d.slot[k] /\ d.slot[j] # 0 => j = k

\* The dictionary of the clone has the rows the clone tracks.
Arrayed ==
    /\ Array(dictionary) /\ pops \in Nat
    /\ \A k \in AllRows : dictionary.slot[k] # 0 <=> clone[k] # Untracked

ServicesInvariant ==
    /\ Typed /\ Control /\ Announced /\ Authorised
    /\ ~torn => Orderly

ContractsInvariant ==
    /\ ServicesInvariant /\ Held /\ Arrayed
    /\ ~torn => Sharing

LEMMA ViewTypes ==
    ASSUME Typed
    PROVE  /\ BlockView \in [Key -> Item] /\ InvocationView \in [Key -> Item]
           /\ level # "invoke" => InvocationView = BlockView
           /\ level = "idle" => BlockView = db
<1>1. BlockView \in [Key -> Item]
  BY ViewType DEF Typed, BlockView
<1> QED  BY <1>1, ViewType, EmptyTracks DEF Typed, BlockView, InvocationView

LEMMA EmptyFits == \A inner : Fitting(EmptyCache, inner)
  BY FixedShapes DEF EmptyCache, Fitting, Fits, Agrees

LEMMA ContractsStart == ContractsInit => ContractsInvariant
<1> SUFFICES ASSUME ContractsInit PROVE ContractsInvariant
  OBVIOUS
<1>1. Typed
  BY EmptyTracks, StoresAssumption DEF ContractsInit, Typed
<1>2. BlockView = db /\ InvocationView = db
  BY <1>1, ViewTypes DEF ContractsInit
<1>3. Control
  BY DEF ContractsInit, Control
<1>4. Announced
  BY <1>2 DEF ContractsInit, Announced
<1>5. Authorised
  <2>1. \A k \in Key : clone[k] = Untracked
    BY DEF ContractsInit, EmptyCache
  <2> QED  BY <1>2, <2>1, KeyShapes DEF Authorised
<1>6. Tracks(top, db) /\ Fitting(clone, BlockView)
  BY <1>1, <1>2, EmptyTracks, EmptyFits DEF ContractsInit, Typed
<1>7. Owned(db)
  <2> SUFFICES ASSUME NEW c \in Hash, NEW k \in Rows(c), db[k] # Null PROVE HasStorage(db[Contract(c)])
    BY DEF Owned
  <2>1. PICK s \in Suffix : k = Row(c, s)
    BY DEF Rows
  <2>2. db[Row(c, s)] \in (IF HasStorage(db[Contract(c)]) THEN Value \ {"plain", "storing"} ELSE {}) \union {Null}
    BY DEF ContractsInit
  <2> QED  BY <2>1, <2>2
<1>8. Arrayed
  <2>1. \A k \in AllRows : clone[k] = Untracked /\ dictionary.slot[k] = 0
    BY RowShapes DEF ContractsInit, EmptyCache, EmptyDictionary
  <2>2. Array(EmptyDictionary)
    BY DEF Array, EmptyDictionary
  <2> QED  BY <2>1, <2>2 DEF Arrayed, ContractsInit
<1>9. Sharing /\ Held
  BY DEF ContractsInit, Sharing, Held, Twins
<1> QED  BY <1>1, <1>2, <1>3, <1>4, <1>5, <1>6, <1>7, <1>8, <1>9
         DEF ContractsInvariant, ServicesInvariant, Orderly

-----------------------------------------------------------------------------
(* The services.                                                           *)

\* A step of an execution, which leaves what is seen below it as it is.
Within ==
    /\ level = "invoke" /\ UNCHANGED <<db, level>>
    /\ top' \in [Key -> Entry] /\ clone' \in [Key -> Entry]
    /\ BlockView' = BlockView
    /\ Tracks(top, db) => Tracks(top', db)

StaysInOrder == Fitting(clone, BlockView) => Fitting(clone', BlockView)

\* The clone comes to track only rows of contracts that a script may read and write.
Tracking == \A c \in Hash : \A k \in Rows(c) : clone'[k] # Untracked => clone[k] # Untracked \/ Reached(c)'

\* What the executions' histories only gain.
Gains ==
    /\ UNCHANGED <<torn, published, tokens, shared>>
    /\ ran \subseteq ran' /\ emitted \subseteq emitted'
    /\ \A c \in Hash : created[c] # Nobody => created'[c] # Nobody

\* What every service does to the caches, in terms of who has run and who was made.
Does ==
    /\ Within /\ Gains /\ Tracking
    /\ \A c \in Hash : InvocationView[Contract(c)] # Null /\ InvocationView'[Contract(c)] = Null => c \in ran
    /\ \A c \in Hash : InvocationView'[Contract(c)] # Null =>
          InvocationView[Contract(c)] # Null \/ BlockView[Contract(c)] # Null \/ c \in emitted'
    /\ Orderly => Fitting(clone', BlockView) /\ Owned(InvocationView')

\* It keeps the invariant, when the contexts and the stack are in order, too.
LEMMA DoesKeeps ==
    ASSUME ContractsInvariant, Does, Control'
    PROVE  ServicesInvariant'
<1> USE DEF ContractsInvariant, ServicesInvariant
<1>1. Typed'
  BY DEF Does, Within, Gains, Typed
<1>2. Announced'
  <2> SUFFICES ASSUME NEW c \in Hash,
                      db[Contract(c)] # Null \/ BlockView[Contract(c)] # Null \/ InvocationView'[Contract(c)] # Null
               PROVE  c \in published' \union emitted' \union tokens'
    BY DEF Announced, Does, Within
  <2> QED  BY DEF Announced, Does, Gains
<1>3. Authorised'
  <2>1. \A c \in Hash : Reached(c) => Reached(c)'
    BY DEF Reached, Does, Gains
  <2>2. ASSUME NEW c \in Hash, NEW k \in Rows(c), clone'[k] # Untracked
        PROVE  Reached(c)'
    BY <2>1, <2>2 DEF Authorised, Does, Tracking
  <2>3. ASSUME NEW c \in Hash, BlockView[Contract(c)] # Null, InvocationView'[Contract(c)] = Null
        PROVE  c \in ran'
    BY <2>3 DEF Authorised, Does, Gains
  <2> QED  BY <2>2, <2>3 DEF Authorised, Does, Within
<1>4. ~torn' => Orderly'
  BY DEF Orderly, Does, Within, Gains
<1> QED  BY <1>1, <1>2, <1>3, <1>4

\* Services that only read: they pass what is seen on as it is.
LEMMA ReadDoes ==
    ASSUME ContractsInvariant, Within, Gains, InvocationView' = InvocationView, StaysInOrder, Tracking
    PROVE  Does
  BY DEF ContractsInvariant, ServicesInvariant, Does, StaysInOrder, Orderly

\* What MigrationMovesRows says of one step.
RowsMoved ==
    \A c, d \in Hash :
        /\ Live(c) /\ ~Live(c)' /\ ~Live(d) /\ HasStorage(InvocationView[Contract(d)])'
        => \A s \in Suffix :
              /\ InvocationView[Row(c, s)] # Null => InvocationView'[Row(d, s)] = InvocationView[Row(c, s)]
              /\ InvocationView'[Row(c, s)] = Null

\* What a service does to the tracked keys: what the cache below comes to track, the clone
\* tracks, too, and only rows that are new in it does it cease to track.
Touches ==
    /\ \A k \in Key : top[k] # Untracked => top'[k] = top[k]
    /\ \A k \in Key : top[k] = Untracked /\ top'[k] # Untracked => clone'[k] # Untracked
    /\ \A k \in Key : clone[k] # Untracked /\ clone'[k] = Untracked => BlockView[k] = Null

\* What services do, and do in an orderly state.
Tidy == Within /\ (Orderly => RowsMoved /\ Touches)

\* All services but Contract_Migrate take contracts away or make some, but not both.
LEMMA OneWay ==
    ASSUME \/ \A c \in Hash : InvocationView'[Contract(c)] # Null => InvocationView[Contract(c)] # Null
           \/ \A c \in Hash : InvocationView[Contract(c)] # Null => InvocationView'[Contract(c)] # Null
    PROVE  RowsMoved
<1>1. "storing" # Null
  BY ColumnsAssumption, NullAssumption
<1> QED  BY <1>1 DEF RowsMoved, Live, HasStorage

LEMMA TouchesWhen ==
    ASSUME Typed, NEW ks, \A k \in Key : top'[k] = AfterLookup(top, ks)[k],
           \A k \in Key : BlockView[k] # Null /\ clone'[k] = Untracked => clone[k] = Untracked /\ k \notin ks
    PROVE  Touches
<1>1. ASSUME NEW k \in Key
      PROVE  /\ top[k] # Untracked => top'[k] = top[k]
             /\ top[k] = Untracked /\ top'[k] # Untracked => k \in ks /\ BlockView[k] # Null
  <2>1. top'[k] = IF k \in ks /\ clone[k] = Untracked THEN TryGet(top, db, k)[k] ELSE top[k]
    BY DEF AfterLookup
  <2>2. top[k] = Untracked => BlockView[k] = db[k]
    BY DEF BlockView, View
  <2> QED  BY <2>1, <2>2 DEF TryGet
<1> QED  BY <1>1 DEF Touches

\* Keys looked up through the clone are tracked by it, when there is anything to track.
LEMMA LookUpTouches ==
    ASSUME NEW c \in [Key -> Entry], NEW t \in [Key -> Entry], db \in [Key -> Item], NEW ks, NEW k \in Key,
           View(t, db)[k] # Null, LookUp(c, t, ks)[k] = Untracked
    PROVE  c[k] = Untracked /\ k \notin ks
<1>1. View(t, db)[k] \in Value
  BY ViewType DEF Item
<1>2. LookUp(c, t, ks)[k] = IF k \in ks THEN TryGet(c, View(t, db), k)[k] ELSE c[k]
  BY DEF LookUp
<1>3. Trackable("NONE", View(t, db)[k]) # Untracked
  BY <1>1, TrackableShape DEF TrackState
<1> HIDE DEF LookUp
<1> QED  BY <1>2, <1>3 DEF TryGet

\* A key that a cache in order deletes stays tracked unless there is nothing below.
LEMMA DeleteTouches ==
    ASSUME NEW c \in [Key -> Entry], NEW inner \in [Key -> Item], NEW k \in Key,
           Fits(c[k], inner[k]), inner[k] # Null
    PROVE  Delete(c, inner, k)[k] # Untracked
  BY FixedShapes DEF Delete, Fits

LEMMA LooksAre ==
    ASSUME Typed, level = "invoke", UNCHANGED <<db, level>>, NEW ks,
           top' = AfterLookup(top, ks), clone' = LookUp(clone, top, ks)
    PROVE  /\ Within /\ InvocationView' = InvocationView /\ StaysInOrder /\ Touches
           /\ \A k \in Key : clone[k] # Untracked \/ k \notin ks => clone'[k] = clone[k]
<1>1. /\ top' \in [Key -> Entry] /\ View(top', db) = BlockView
      /\ Tracks(top, db) => Tracks(top', db)
  BY AfterLookupProps DEF Typed, BlockView
<1>2. /\ clone' \in [Key -> Entry] /\ View(clone', BlockView) = InvocationView
      /\ Fitting(clone, BlockView) => Fitting(clone', BlockView)
      /\ \A k \in Key : clone[k] # Untracked \/ k \notin ks => clone'[k] = clone[k]
  BY LookUpProps DEF Typed, BlockView, InvocationView
<1>3. Touches
  <2>1. \A k \in Key : BlockView[k] # Null /\ clone'[k] = Untracked => clone[k] = Untracked /\ k \notin ks
    BY LookUpTouches DEF Typed, BlockView
  <2> QED  BY <2>1, TouchesWhen
<1> QED  BY <1>1, <1>2, <1>3 DEF Within, StaysInOrder, BlockView, InvocationView

LEMMA GetIs ==
    ASSUME Typed, NEW k \in Key, InvocationGet(k)
    PROVE  /\ Within /\ InvocationView' = InvocationView /\ StaysInOrder /\ Touches
           /\ \A j \in Key : j # k => clone'[j] = clone[j]
<1>1. BlockView \in [Key -> Item] /\ db \in [Key -> Item] /\ top \in [Key -> Entry] /\ clone \in [Key -> Entry]
  BY ViewTypes DEF Typed
<1>2. ASSUME NEW c \in [Key -> Entry], NEW inner \in [Key -> Item], NEW d, d = TryGet(c, inner, k)
      PROVE  /\ d \in [Key -> Entry] /\ View(d, inner) = View(c, inner)
             /\ Tracks(c, inner) => Tracks(d, inner)
             /\ Fitting(c, inner) => Fitting(d, inner)
  <2>1. d = [j \in Key |-> IF j = k THEN TryGet(c, inner, k)[k] ELSE c[j]]
    BY <1>2 DEF TryGet
  <2>2. \A j \in Key : Keeps(c[j], d[j], inner[j])
    BY <2>1, LookedUpEntry
  <2>3. d = [j \in Key |-> d[j]]
    BY <2>1
  <2> QED  BY <2>2, <2>3, KeepsAll
<1>3. top' = TryGet(top, db, k) \/ top' = top
  BY DEF InvocationGet, LookedUpBelow
<1>4. top' \in [Key -> Entry] /\ View(top', db) = BlockView /\ (Tracks(top, db) => Tracks(top', db))
  BY <1>1, <1>2, <1>3 DEF BlockView
<1>5. /\ clone' \in [Key -> Entry] /\ View(clone', BlockView) = InvocationView
      /\ Fitting(clone, BlockView) => Fitting(clone', BlockView)
  BY <1>1, <1>2 DEF InvocationGet, InvocationView
<1>6. Touches
  <2>1. \A j \in Key : top'[j] = AfterLookup(top, {k})[j]
    BY <1>1 DEF InvocationGet, LookedUpBelow, AfterLookup, TryGet
  <2>2. BlockView[k] # Null => clone'[k] # Untracked
    <3>1. BlockView[k] # Null => Trackable("NONE", BlockView[k]) # Untracked
      BY <1>1, TrackableShape DEF TrackState, Item
    <3> QED  BY <1>1, <3>1 DEF InvocationGet, TryGet
  <2>3. \A j \in Key : j # k => clone'[j] = clone[j]
    BY <1>1 DEF InvocationGet, TryGet
  <2>4. \A j \in Key : BlockView[j] # Null /\ clone'[j] = Untracked => clone[j] = Untracked /\ j \notin {k}
    BY <2>2, <2>3
  <2> QED  BY <2>1, <2>4, TouchesWhen
<1>7. \A j \in Key : j # k => clone'[j] = clone[j]
  BY <1>1 DEF InvocationGet, TryGet
<1> QED  BY <1>4, <1>5, <1>6, <1>7 DEF InvocationGet, Within, StaysInOrder, BlockView, InvocationView

LEMMA NothingIs ==
    ASSUME Typed, level = "invoke", UNCHANGED vars
    PROVE  Within /\ InvocationView' = InvocationView /\ StaysInOrder /\ Touches
<1>1. Within /\ InvocationView' = InvocationView /\ StaysInOrder
  BY DEF Typed, vars, Within, StaysInOrder, BlockView, InvocationView, View, Tracks, Fitting
<1>2. Touches
  BY DEF vars, Touches
<1> QED  BY <1>1, <1>2

LEMMA GetContextsKeep ==
    ASSUME ContractsInvariant, NEW c, NEW readOnly \in BOOLEAN,
           \/ c \in Hash /\ (AppCall(c) \/ BlockchainGetContract(c) \/ ContractGetStorageContext(c))
           \/ Return \/ StorageGetContext(readOnly)
    PROVE  ServicesInvariant' /\ Tidy
<1> USE DEF ContractsInvariant, ServicesInvariant
<1>0. level = "invoke" /\ (c \in Hash => Contract(c) \in Key /\ Contract(c) \notin AllRows)
  BY KeyShapes, RowShapes DEF AppCall, Return, StorageGetContext, BlockchainGetContract,
     ContractGetStorageContext, Calls
<1>1. Within /\ InvocationView' = InvocationView /\ StaysInOrder /\ Touches /\ Tracking
  <2>1. \/ UNCHANGED vars
        \/ c \in Hash /\ InvocationGet(Contract(c))
    BY DEF AppCall, Return, StorageGetContext, BlockchainGetContract, ContractGetStorageContext
  <2>2. CASE UNCHANGED vars
    BY <1>0, <2>2, NothingIs DEF Tracking, vars
  <2>3. CASE c \in Hash /\ InvocationGet(Contract(c))
    <3>1. /\ Within /\ InvocationView' = InvocationView /\ StaysInOrder /\ Touches
          /\ \A j \in Key : j # Contract(c) => clone'[j] = clone[j]
      BY <1>0, <2>3, GetIs
    <3>2. \A d \in Hash : \A j \in Rows(d) : j \in Key /\ j # Contract(c)
      BY <2>3, KeyShapes
    <3> QED  BY <3>1, <3>2 DEF Tracking
  <2> QED  BY <2>1, <2>2, <2>3
<1>2. Gains
  BY DEF AppCall, Return, StorageGetContext, BlockchainGetContract,
     ContractGetStorageContext, Calls, listing, Gains
<1> SUFFICES ServicesInvariant'
  BY <1>1, OneWay DEF Tidy
<1>3. Does
  BY <1>1, <1>2, ReadDoes
<1>4. Len(running) \in Nat \ {0} /\ Current \in ran /\ running \in Seq(ran)
  BY <1>0 DEF Control, Current
<1>5. CASE c \in Hash /\ AppCall(c)
  <2>1. running \in Seq(ran') /\ c \in ran'
    BY <1>4, <1>5 DEF AppCall
  <2>2. running' \in Seq(ran') /\ running' # << >>
    BY <1>5, <2>1 DEF AppCall
  <2>3. Control'
    BY <1>5, <2>2 DEF AppCall, Control, Reached
  <2> QED  BY <1>3, <2>3, DoesKeeps
<1>6. CASE Return
  <2>0. Len(running) - 1 \in Nat \ {0} /\ running' = SubSeq(running, 1, Len(running) - 1)
    BY <1>4, <1>6 DEF Return
  <2>1. running' \in Seq(ran) /\ running' # << >>
    <3>1. \A m \in Nat \ {0} : m < Len(running) => SubSeq(running, 1, m) \in Seq(ran) /\ Len(SubSeq(running, 1, m)) = m
      BY <1>4
    <3>2. Len(running) - 1 < Len(running)
      BY <1>4
    <3>3. Len(<< >>) = 0
      OBVIOUS
    <3> QED  BY <2>0, <3>1, <3>2, <3>3
  <2>2. Control'
    BY <1>6, <2>1 DEF Return, Control, Reached
  <2> QED  BY <1>3, <2>2, DoesKeeps
<1>7. CASE StorageGetContext(readOnly)
  <2>1. Context(Current, readOnly).owner = Current
    BY DEF Context
  <2>2. Control'
    BY <1>4, <1>7, <2>1 DEF StorageGetContext, Control, Reached
  <2> QED  BY <1>3, <2>2, DoesKeeps
<1>8. CASE c \in Hash /\ BlockchainGetContract(c)
  <2>2. Control'
    BY <1>1, <1>8 DEF BlockchainGetContract, Control, Reached, Within
  <2> QED  BY <1>3, <2>2, DoesKeeps
<1>9. CASE c \in Hash /\ ContractGetStorageContext(c)
  <2>1. Context(c, FALSE).owner = c
    BY DEF Context
  <2>2. created[c] # Nobody
    BY <1>4, <1>9, ColumnsAssumption DEF ContractGetStorageContext, Control
  <2>3. Control'
    BY <1>1, <1>9, <2>1, <2>2 DEF ContractGetStorageContext, Control, Reached, Within
  <2> QED  BY <1>3, <2>3, DoesKeeps
<1> QED  BY <1>5, <1>6, <1>7, <1>8, <1>9

LEMMA EngineKept ==
    ASSUME Control, UNCHANGED <<engine, level>>
    PROVE  Control'
  BY DEF Control, engine, Reached

LEMMA StorageGetKeeps ==
    ASSUME ContractsInvariant, NEW ctx,
           \/ ctx \in contexts /\ \E s \in Suffix : StorageGet(ctx, s)
           \/ StorageFind(ctx) \/ IteratorNext
    PROVE  /\ ServicesInvariant' /\ Tidy /\ Gains /\ InvocationView' = InvocationView /\ Touches
           /\ \A k \in Key : clone[k] # Untracked => clone'[k] = clone[k]
           /\ StorageFind(ctx) \/ IteratorNext => \A k \in AllRows : clone'[k] = clone[k]
<1> USE DEF ContractsInvariant, ServicesInvariant
<1>1. level = "invoke" /\ UNCHANGED <<level, db, engine>>
  BY DEF StorageGet, StorageFind, IteratorNext, Calls, vars
<1>2. /\ Within /\ InvocationView' = InvocationView /\ StaysInOrder /\ Touches /\ Tracking
      /\ \A k \in Key : clone[k] # Untracked => clone'[k] = clone[k]
      /\ StorageFind(ctx) \/ IteratorNext => \A k \in AllRows : clone'[k] = clone[k]
  <2>1. ASSUME NEW ks, Looks(ctx, ks), ctx.owner \in Hash
        PROVE  /\ Within /\ InvocationView' = InvocationView /\ StaysInOrder /\ Touches
               /\ \A k \in Key : clone[k] # Untracked \/ k \notin ks \union {Contract(ctx.owner)} =>
                    clone'[k] = clone[k]
    BY <1>1, <2>1, LooksAre DEF Looks
  <2>2. CASE \E s \in Suffix : ctx \in contexts /\ StorageGet(ctx, s)
    <3>1. PICK s \in Suffix : ctx \in contexts /\ StorageGet(ctx, s)
      BY <2>2
    <3>2. ctx.owner \in Hash /\ Reached(ctx.owner)
      BY <3>1 DEF StorageGet, CheckStorageContext, Control
    <3>3. Reached(ctx.owner)'
      BY <1>1, <3>2 DEF Reached, engine
    <3>4. \A c \in Hash : \A k \in Rows(c) :
             k \in {Row(ctx.owner, s), Contract(ctx.owner)} => c = ctx.owner
      BY <3>1, <3>2, KeyShapes DEF KeysOf
    <3>5. {Row(ctx.owner, s)} \union {Contract(ctx.owner)} = {Row(ctx.owner, s), Contract(ctx.owner)}
      OBVIOUS
    <3>6. /\ Within /\ InvocationView' = InvocationView /\ StaysInOrder /\ Touches
          /\ \A k \in Key : clone[k] # Untracked \/ k \notin {Row(ctx.owner, s), Contract(ctx.owner)} =>
               clone'[k] = clone[k]
      BY <2>1, <3>1, <3>2, <3>5 DEF StorageGet
    <3>7. Tracking
      BY <3>3, <3>4, <3>6, KeyShapes DEF Tracking
    <3>8. (~StorageFind(ctx) /\ ~IteratorNext) \/ \A k \in AllRows : clone'[k] = clone[k]
      <4>1. CASE StorageFind(ctx)
        <5>1. Looks(ctx, {}) /\ {} \union {Contract(ctx.owner)} = {Contract(ctx.owner)}
          BY <4>1 DEF StorageFind
        <5>2. \A k \in Key : k # Contract(ctx.owner) => clone'[k] = clone[k]
          BY <2>1, <3>2, <5>1
        <5> QED  BY <3>2, <5>2, RowShapes
      <4>2. CASE IteratorNext
        BY <4>2 DEF IteratorNext, vars
      <4> QED  BY <4>1, <4>2
    <3> QED  BY <3>6, <3>7, <3>8
  <2>3. CASE StorageFind(ctx)
    <3>1. Looks(ctx, {}) /\ ctx.owner \in Hash
      BY <2>3 DEF StorageFind, CheckStorageContext
    <3>2. {} \union {Contract(ctx.owner)} = {Contract(ctx.owner)}
      OBVIOUS
    <3>3. /\ Within /\ InvocationView' = InvocationView /\ StaysInOrder /\ Touches
          /\ \A k \in Key : clone[k] # Untracked \/ k # Contract(ctx.owner) => clone'[k] = clone[k]
      BY <2>1, <3>1, <3>2
    <3>4. \A k \in AllRows : clone'[k] = clone[k]
      BY <3>1, <3>3, RowShapes
    <3> QED  BY <3>3, <3>4, RowShapes DEF Tracking
  <2>4. CASE IteratorNext
    <3>1. UNCHANGED vars
      BY <2>4 DEF IteratorNext
    <3> QED  BY <1>1, <3>1, NothingIs DEF Tracking, vars
  <2> QED  BY <2>2, <2>3, <2>4
<1>3. Gains
  BY DEF StorageGet, StorageFind, IteratorNext, Calls, listing, engine, Gains
<1>4. Control'
  BY <1>1, EngineKept
<1>5. Tidy
  BY <1>2, OneWay DEF Tidy
<1>6. ServicesInvariant'
  BY <1>2, <1>3, <1>4, ReadDoes, DoesKeeps
<1> QED  BY <1>2, <1>3, <1>5, <1>6

\* A row of a contract with storage is written: by whom, the contexts say.  Others that
\* are there already may change with it.
LEMMA RowDoes ==
    ASSUME ContractsInvariant, Within, Gains, UNCHANGED engine,
           NEW ctx \in contexts, CheckStorageContext(ctx), NEW k \in Rows(ctx.owner),
           \A j \in Key : j \notin AllRows => InvocationView'[j] = InvocationView[j],
           \A j \in AllRows \ {k} : /\ InvocationView'[j] # Null => InvocationView[j] # Null
                                    /\ clone'[j] # Untracked => clone[j] # Untracked,
           Orderly => Fitting(clone', BlockView) /\ Touches
    PROVE  ServicesInvariant' /\ Tidy
<1> USE DEF ContractsInvariant, ServicesInvariant
<1> DEFINE h == ctx.owner
<1>1. h \in Hash /\ HasStorage(InvocationView[Contract(h)])
  BY DEF CheckStorageContext
<1>2. \A c \in Hash : c # h => k \notin Rows(c)
  BY <1>1, KeyShapes DEF KeysOf
<1>3. \A c \in Hash : Contract(c) \in Key /\ Contract(c) \notin AllRows /\ Rows(c) \in SUBSET AllRows
  BY <1>1, KeyShapes, RowShapes
<1>4. Reached(h)
  BY <1>1 DEF Control
<1>5. \A c \in Hash : InvocationView'[Contract(c)] = InvocationView[Contract(c)]
  BY <1>3
<1>6. \A c \in Hash : \A j \in Rows(c) : /\ InvocationView'[j] # Null => c = h \/ InvocationView[j] # Null
                                         /\ clone'[j] # Untracked => c = h \/ clone[j] # Untracked
  <2> SUFFICES ASSUME NEW c \in Hash, NEW j \in Rows(c), c # h
               PROVE  /\ InvocationView'[j] # Null => InvocationView[j] # Null
                      /\ clone'[j] # Untracked => clone[j] # Untracked
    OBVIOUS
  <2>1. j \in AllRows \ {k}
    BY <1>2, <1>3
  <2> QED  BY <2>1
<1>7. Reached(h)'
  BY <1>4 DEF Reached, engine
<1>8. Owned(InvocationView) => Owned(InvocationView')
  BY <1>1, <1>5, <1>6 DEF Owned
<1>9. Does
  <2>1. Tracking
    BY <1>6, <1>7 DEF Tracking
  <2> QED  BY <1>5, <1>8, <2>1 DEF Does, Orderly
<1>10. Control'
  BY EngineKept DEF Within
<1>11. Tidy
  BY <1>5, OneWay DEF Tidy
<1> QED  BY <1>9, <1>10, <1>11, DoesKeeps

\* An entry to read, with another item.
LEMMA NewItem ==
    ASSUME NEW e \in Entry, e.state \in TrackState, NEW v \in Value
    PROVE  /\ [e EXCEPT !.item = v] = Trackable(e.state, v)
           /\ [e EXCEPT !.item = v] \in Entry
           /\ [e EXCEPT !.item = v].state = e.state /\ [e EXCEPT !.item = v].item = v
           /\ e # Untracked /\ [e EXCEPT !.item = v] # Untracked
<1>1. e = Trackable(e.state, e.item)
  BY EntryShapes, FixedShapes DEF Entry, Trackable, TrackState, Untracked, DeletedEntry
<1>2. [e EXCEPT !.item = v] = Trackable(e.state, v)
  BY <1>1 DEF Trackable
<1> QED  BY <1>2, TrackableShape, EntryShapes, FixedShapes DEF TrackState

LEMMA StorageWriteKeeps ==
    ASSUME ContractsInvariant, NEW ctx \in contexts, NEW s \in Suffix,
           (\E v \in RowItem : StoragePut(ctx, s, v)) \/ StorageDelete(ctx, s)
    PROVE  ServicesInvariant' /\ Tidy
<1> USE DEF ContractsInvariant, ServicesInvariant
<1> DEFINE k == Row(ctx.owner, s)
<1>1. k \in AllRows /\ k \in Key /\ k \in Rows(ctx.owner) /\ Contract(ctx.owner) \notin AllRows
  BY KeyShapes, RowShapes DEF StoragePut, StorageDelete, CheckStorageContext
<1>2. BlockView \in [Key -> Item] /\ clone \in [Key -> Entry] /\ top \in [Key -> Entry]
  BY ViewTypes DEF Typed
\* The clone after the write itself, and the other rows that are written with it.
<1> DEFINE Written(ks, d, v, with) ==
          /\ \/ v \in Value /\ d = Put(LookUp(clone, top, ks), BlockView, k, v) /\ with = {j \in Key : <<k, j>> \in sharing}
             \/ d = Delete(LookUp(clone, top, ks), BlockView, k) /\ with = {}
          /\ clone' = [j \in Key |-> IF j \in with THEN [d[j] EXCEPT !.item = v] ELSE d[j]]
          /\ top' = AfterLookup(top, ks \union {k})
          /\ \A j \in AllRows : j \in ks => j = k
<1>3a. PICK ks, d, v, with : Written(ks, d, v, with)
  <2>1. {k} \union {Contract(ctx.owner)} = {k, Contract(ctx.owner)} /\ {Contract(ctx.owner)} \union {k} = {k, Contract(ctx.owner)}
        /\ {k, Contract(ctx.owner)} \union {k} = {k, Contract(ctx.owner)}
    OBVIOUS
  <2>2. CASE StorageDelete(ctx, s)
    <3> DEFINE ks == {k, Contract(ctx.owner)}
               d == Delete(LookUp(clone, top, ks), BlockView, k)
    <3>1. clone' = d /\ top' = AfterLookup(top, ks \union {k})
      BY <2>1, <2>2 DEF StorageDelete
    <3>2. d = [j \in Key |-> IF j \in {} THEN [d[j] EXCEPT !.item = Null] ELSE d[j]]
      BY <1>2 DEF Delete, LookUp
    <3>3. \A j \in AllRows : j \in ks => j = k
      BY <1>1
    <3>4. d = Delete(LookUp(clone, top, ks), BlockView, k)
      OBVIOUS
    <3> HIDE DEF d, ks, k
    <3>5. Written(ks, d, Null, {})
      BY <3>1, <3>2, <3>3, <3>4
    <3> HIDE DEF Written
    <3> QED  BY <3>5
  <2>3. CASE \E v \in RowItem : StoragePut(ctx, s, v)
    <3>1. PICK v \in RowItem : StoragePut(ctx, s, v)
      BY <2>3
    <3> DEFINE ks == {Contract(ctx.owner)}
               d == Put(LookUp(clone, top, ks), BlockView, k, v)
               with == {j \in Key : <<k, j>> \in sharing}
    <3>2. clone' = [j \in Key |-> IF j \in with THEN [d[j] EXCEPT !.item = v] ELSE d[j]]
      <4>1. clone' = [j \in Key |-> IF <<k, j>> \in sharing THEN [d[j] EXCEPT !.item = v] ELSE d[j]]
        BY <3>1 DEF StoragePut
      <4> HIDE DEF d, k
      <4> QED  BY <4>1
    <3>3. top' = AfterLookup(top, ks \union {k}) /\ v \in Value
      BY <2>1, <3>1 DEF StoragePut, RowItem
    <3>4. \A j \in AllRows : j \in ks => j = k
      BY <1>1
    <3>5. d = Put(LookUp(clone, top, ks), BlockView, k, v) /\ with = {j \in Key : <<k, j>> \in sharing}
      OBVIOUS
    <3> HIDE DEF d, ks, with, k
    <3>6. Written(ks, d, v, with)
      BY <3>2, <3>3, <3>4, <3>5
    <3> HIDE DEF Written
    <3> QED  BY <3>6
  <2> HIDE DEF Written
  <2> QED  BY <2>2, <2>3
<1>3. /\ \/ v \in Value /\ d = Put(LookUp(clone, top, ks), BlockView, k, v) /\ with = {j \in Key : <<k, j>> \in sharing}
         \/ d = Delete(LookUp(clone, top, ks), BlockView, k) /\ with = {}
      /\ clone' = [j \in Key |-> IF j \in with THEN [d[j] EXCEPT !.item = v] ELSE d[j]]
      /\ top' = AfterLookup(top, ks \union {k})
      /\ \A j \in AllRows : j \in ks => j = k
  BY <1>3a
<1> HIDE DEF Written
<1> DEFINE e == LookUp(clone, top, ks)
<1>4. /\ e \in [Key -> Entry] /\ View(e, BlockView) = InvocationView
      /\ Fitting(clone, BlockView) => Fitting(e, BlockView)
      /\ \A j \in Key : clone[j] # Untracked \/ j \notin ks => e[j] = clone[j]
  BY <1>2, LookUpProps DEF Typed, BlockView, InvocationView
<1>5. level = "invoke" /\ UNCHANGED <<db, level, engine>> /\ CheckStorageContext(ctx)
  BY DEF StoragePut, StorageDelete, Calls
<1>6. Gains
  BY DEF StoragePut, StorageDelete, Calls, listing, engine, Gains
<1>7. top' \in [Key -> Entry] /\ View(top', db) = BlockView /\ (Tracks(top, db) => Tracks(top', db))
  BY <1>2, AfterLookupProps DEF Typed, StoragePut, StorageDelete, BlockView
<1>8. ASSUME NEW j \in with
      PROVE  j \in AllRows /\ j \in Key /\ clone[j].state \in TrackState /\ clone[j] # Untracked /\ v \in Value
  <2>1. v \in Value /\ j \in Key /\ <<k, j>> \in sharing
    BY <1>3, <1>8
  <2>2. j \in AllRows /\ clone[j].state \in TrackState
    BY <2>1 DEF Held
  <2>3. clone[j] \in Entry
    BY <1>2, <2>1
  <2> QED  BY <2>1, <2>2, <2>3, NewItem
<1> HIDE DEF e, k
<1>9. /\ d = [e EXCEPT ![k] = d[k]]
      /\ d[k] \in Entry
      /\ Fits(e[k], BlockView[k]) => Fits(d[k], BlockView[k])
      /\ with # {} => v \in Value /\ d[k].state \in TrackState /\ d[k].item = v
  <2>1. ASSUME v \in Value, d = Put(e, BlockView, k, v)
        PROVE  /\ d = [e EXCEPT ![k] = d[k]]
               /\ Shows(e[k], d[k], BlockView[k], v)
               /\ d[k].state \in TrackState /\ d[k].item = v
    <3>1. d = [e EXCEPT ![k] = d[k]] /\ d[k] = Trackable(ChangedState(e, BlockView, k), v)
      BY <1>1, <1>4, <2>1 DEF Put
    <3>2. Shows(e[k], d[k], BlockView[k], v)
      BY <1>1, <1>2, <1>4, <2>1, PutEntry
    <3> QED  BY <3>1, <3>2 DEF Trackable, ChangedState, TrackState
  <2>2. ASSUME d = Delete(e, BlockView, k)
        PROVE  /\ d = [e EXCEPT ![k] = d[k]]
               /\ d[k] \in Entry
               /\ Fits(e[k], BlockView[k]) => Shows(e[k], d[k], BlockView[k], Null)
    BY <1>1, <1>2, <1>4, <2>2, DeleteEntry DEF Delete
  <2> QED  BY <1>3, <2>1, <2>2 DEF Shows, e
<1>10. \A j \in Key : /\ d[j] \in Entry
                      /\ j # k => d[j] = e[j]
  BY <1>1, <1>4, <1>9
<1>11. ASSUME NEW j \in Key
       PROVE  /\ clone'[j] \in Entry
              /\ j \notin with => clone'[j] = d[j]
              /\ j \in with => /\ clone'[j] # Untracked /\ d[j] # Untracked
                               /\ clone'[j].state = d[j].state
                               /\ j # k => clone[j] # Untracked /\ clone[j].state \in TrackState
  <2>1. CASE j \notin with
    BY <1>3, <1>10, <2>1
  <2>2. CASE j \in with
    <3>1. clone'[j] = [d[j] EXCEPT !.item = v]
      BY <1>3, <2>2
    <3>2. d[j].state \in TrackState
      BY <1>4, <1>8, <1>9, <1>10, <2>2
    <3> QED  BY <1>8, <1>10, <2>2, <3>1, <3>2, NewItem
  <2> QED  BY <2>1, <2>2
<1>12. clone' \in [Key -> Entry]
  <2>1. clone' = [j \in Key |-> clone'[j]]
    BY <1>3
  <2> QED  BY <1>11, <2>1
<1>13. Fitting(clone, BlockView) => Fitting(clone', BlockView)
  <2> SUFFICES ASSUME Fitting(clone, BlockView), NEW j \in Key
               PROVE  Fits(clone'[j], BlockView[j]) /\ (j \notin AllRows => Agrees(clone'[j], BlockView[j]))
    BY DEF Fitting
  <2>1. Fits(e[j], BlockView[j]) /\ (j \notin AllRows => Agrees(e[j], BlockView[j]))
    BY <1>4 DEF Fitting
  <2>2. Fits(d[j], BlockView[j]) /\ (j \notin AllRows => d[j] = e[j])
    BY <1>1, <1>9, <1>10, <2>1
  <2> QED  BY <1>8, <1>11, <2>1, <2>2 DEF Fits
<1>14. Within
  BY <1>5, <1>7, <1>12 DEF Within, BlockView
<1>15. \A j \in Key : /\ InvocationView'[j] = Seen(clone'[j], BlockView[j])
                      /\ InvocationView[j] = Seen(clone[j], BlockView[j])
                      /\ InvocationView[j] = Seen(e[j], BlockView[j])
  <2>1. InvocationView' = View(clone', BlockView) /\ InvocationView = View(clone, BlockView)
    BY <1>14 DEF Within, InvocationView
  <2> QED  BY <1>2, <1>4, <1>12, <2>1, EntryByEntry
<1>16. \A j \in Key : j \notin AllRows => InvocationView'[j] = InvocationView[j]
  BY <1>1, <1>8, <1>10, <1>11, <1>15
<1>17. \A j \in AllRows \ {k} : /\ InvocationView'[j] # Null => InvocationView[j] # Null
                                /\ clone'[j] # Untracked => clone[j] # Untracked
  <2> SUFFICES ASSUME NEW j \in AllRows \ {k}
               PROVE  /\ InvocationView'[j] # Null => InvocationView[j] # Null
                      /\ clone'[j] # Untracked => clone[j] # Untracked
    OBVIOUS
  <2>1. j \in Key /\ e[j] = clone[j] /\ d[j] = e[j]
    BY <1>3, <1>4, <1>10, RowShapes
  <2>2. CASE j \notin with
    BY <1>11, <1>15, <2>1, <2>2
  <2>3. CASE j \in with
    <3>1. clone[j].item \in Value /\ clone[j] # Untracked
      BY <1>2, <1>8, <2>1, <2>3, EntryShapes
    <3> QED  BY <1>15, <2>1, <3>1, NullAssumption DEF Seen
  <2> QED  BY <2>2, <2>3
<1>18. Orderly => Touches
  <2> SUFFICES ASSUME Orderly, NEW j \in Key, BlockView[j] # Null, clone'[j] = Untracked
               PROVE  clone[j] = Untracked /\ j \notin ks \union {k}
    BY <1>3, TouchesWhen
  <2>0. d[j] = Untracked
    BY <1>11
  <2>1. j # k
    <3> SUFFICES ASSUME j = k PROVE FALSE
      OBVIOUS
    <3>1. d = Delete(e, BlockView, k)
      BY <1>1, <1>3, <1>4, <2>0, FixedShapes, ColumnsAssumption DEF Put, ChangedState, Untracked, Trackable, e
    <3>2. Fits(e[k], BlockView[k])
      BY <1>1, <1>4 DEF Orderly, Fitting
    <3> QED  BY <1>1, <1>2, <1>4, <2>0, <3>1, <3>2, DeleteTouches
  <2>2. e[j] = Untracked
    BY <1>10, <2>0, <2>1
  <2> QED  BY <1>2, <2>1, <2>2, LookUpTouches DEF Typed, BlockView, e
<1> QED  BY <1>1, <1>5, <1>6, <1>13, <1>14, <1>16, <1>17, <1>18, RowDoes DEF Orderly

LEMMA ContractCreateKeeps ==
    ASSUME ContractsInvariant, NEW c \in Hash, NEW state \in StateOf, ContractCreate(c, state)
    PROVE  ServicesInvariant' /\ Tidy
<1> USE DEF ContractsInvariant, ServicesInvariant
<1> DEFINE k == Contract(c)
<1>1. k \in Key /\ state \in Value /\ state # Null
  BY KeyShapes, ColumnsAssumption, NullAssumption DEF StateOf
<1>2. BlockView \in [Key -> Item] /\ clone \in [Key -> Entry] /\ top \in [Key -> Entry]
  BY ViewTypes DEF Typed
<1>3. top' \in [Key -> Entry] /\ View(top', db) = BlockView /\ (Tracks(top, db) => Tracks(top', db))
  BY <1>2, AfterLookupProps DEF Typed, ContractCreate, BlockView
<1>4. level = "invoke" /\ UNCHANGED <<db, level>>
  BY DEF ContractCreate, Calls
<1>5. Current \in ran /\ Current # Nobody
  <2>1. Len(running) \in 1..Len(running)
    BY <1>4 DEF Control
  <2>2. Current \in ran
    BY <2>1 DEF Control, Current
  <2> QED  BY <2>2, ColumnsAssumption DEF Control
<1>6. Gains
  BY <1>5 DEF ContractCreate, Calls, listing, Gains, Control
<1>7. Control'
  BY <1>4, <1>5 DEF ContractCreate, Control, Reached
<1> HIDE DEF k
<1>10. Touches
  <2>1. clone'[k] # Untracked \/ BlockView[k] = Null
    <3>1. BlockView[k] # Null => Trackable("NONE", BlockView[k]) # Untracked
      BY <1>1, <1>2, TrackableShape DEF TrackState, Item
    <3>2. Trackable("ADDED", state) # Untracked /\ Trackable("CHANGED", state) # Untracked
      BY <1>1, TrackableShape DEF TrackState
    <3> QED  BY <1>1, <1>2, <3>1, <3>2 DEF ContractCreate, TryGet, Add, k
  <2>2. \A j \in Key : j # k => clone'[j] = clone[j]
    BY <1>1, <1>2 DEF ContractCreate, TryGet, Add, k
  <2>3. top' = AfterLookup(top, {k})
    BY DEF ContractCreate, k
  <2>4. \A j \in Key : BlockView[j] # Null /\ clone'[j] = Untracked => clone[j] = Untracked /\ j \notin {k}
    BY <2>1, <2>2
  <2> QED  BY <2>3, <2>4, TouchesWhen
<1>11. Tracking
  <2>1. \A j \in Key : j # k => clone'[j] = clone[j]
    BY <1>1, <1>2 DEF ContractCreate, TryGet, Add, k
  <2>2. \A d \in Hash : \A j \in Rows(d) : j \in Key /\ j # k
    BY KeyShapes DEF k
  <2> QED  BY <2>1, <2>2 DEF Tracking
<1>8. CASE Live(c)
  <2>1. clone' = [j \in Key |-> IF j = k THEN TryGet(clone, BlockView, k)[k] ELSE clone[j]]
    BY <1>2, <1>8 DEF ContractCreate, TryGet, k
  <2>2. \A j \in Key : Keeps(clone[j], clone'[j], BlockView[j])
    BY <1>1, <1>2, <2>1, LookedUpEntry
  <2>3. clone' = [j \in Key |-> clone'[j]]
    BY <2>1
  <2>4. /\ clone' \in [Key -> Entry] /\ View(clone', BlockView) = InvocationView
        /\ Fitting(clone, BlockView) => Fitting(clone', BlockView)
    BY <1>2, <2>2, <2>3, KeepsAll DEF InvocationView
  <2>5. Within /\ InvocationView' = InvocationView /\ StaysInOrder
    BY <1>3, <1>4, <2>4 DEF Within, StaysInOrder, BlockView, InvocationView
  <2>6. Tidy
    BY <1>10, <2>5, OneWay DEF Tidy
  <2> QED  BY <1>6, <1>7, <1>11, <2>5, <2>6, ReadDoes, DoesKeeps
<1>9. CASE ~Live(c)
  <2>1. clone' = Add(clone, k, state) /\ InvocationView[k] = Null
    BY <1>9 DEF ContractCreate, Live, k
  <2>2. Seen(clone[k], BlockView[k]) = Null
    BY <1>1, <1>2, <2>1, EntryByEntry DEF InvocationView
  <2>3. Shows(clone[k], clone'[k], BlockView[k], state) /\ clone' = [clone EXCEPT ![k] = clone'[k]]
    BY <1>1, <1>2, <2>1, <2>2, AddEntry DEF Add
  <2>4. clone' \in [Key -> Entry] /\ \A j \in Key \ {k} : clone'[j] = clone[j]
    BY <1>1, <1>2, <2>3 DEF Shows
  <2>5. Fitting(clone, BlockView) => Fitting(clone', BlockView)
    BY <2>3, <2>4 DEF Shows, Fitting
  <2>6. Within
    BY <1>3, <1>4, <2>4 DEF Within, BlockView
  <2>7. InvocationView'[k] = state /\ \A j \in Key \ {k} : InvocationView'[j] = InvocationView[j]
    <3>1. InvocationView' = View(clone', BlockView)
      BY <2>6 DEF Within, InvocationView
    <3>2. InvocationView = View(clone, BlockView)
      BY DEF InvocationView
    <3>3. \A j \in Key : /\ View(clone', BlockView)[j] = Seen(clone'[j], BlockView[j])
                         /\ View(clone, BlockView)[j] = Seen(clone[j], BlockView[j])
      BY <1>2, <2>4, EntryByEntry
    <3> QED  BY <1>1, <2>3, <2>4, <3>1, <3>2, <3>3 DEF Shows
  <2>8. /\ \A d \in Hash : d # c => InvocationView'[Contract(d)] = InvocationView[Contract(d)]
        /\ \A d \in Hash : \A j \in Rows(d) : InvocationView'[j] = InvocationView[j]
    <3>1. \A d \in Hash : (d # c => Contract(d) \in Key \ {k}) /\ \A j \in Rows(d) : j \in Key \ {k}
      BY KeyShapes DEF k
    <3> QED  BY <2>7, <3>1
  <2>9. Owned(InvocationView) => Owned(InvocationView')
    <3>1. Owned(InvocationView) => \A j \in Rows(c) : InvocationView[j] = Null
      BY <1>1, <2>1, ColumnsAssumption, NullAssumption DEF Owned, HasStorage, k
    <3> QED  BY <2>8, <3>1 DEF Owned
  <2>10. c \in emitted'
    BY DEF ContractCreate
  <2>11. Does
    BY <1>1, <1>6, <1>11, <2>1, <2>5, <2>6, <2>7, <2>8, <2>9, <2>10 DEF Does, Orderly, k
  <2>12. \A d \in Hash : InvocationView[Contract(d)] # Null => InvocationView'[Contract(d)] # Null
    BY <1>1, <2>7, <2>8 DEF k
  <2>13. Tidy
    BY <1>10, <2>6, <2>12, OneWay DEF Tidy
  <2> QED  BY <1>7, <2>11, <2>13, DoesKeeps
<1> QED  BY <1>8, <1>9

\* Destroying leaves a key untracked only if it was, and was not looked up.
LEMMA DestroyTouches ==
    ASSUME NEW c \in [Key -> Entry], NEW t \in [Key -> Entry], db \in [Key -> Item], NEW h \in Hash,
           Fitting(c, View(t, db))
    PROVE  \A k \in Key : View(t, db)[k] # Null /\ Destroyed(c, t, h)[k] = Untracked =>
              /\ c[k] = Untracked
              /\ k \notin IF HasStorage(View(c, View(t, db))[Contract(h)]) THEN DestroyedKeys(c, t, h) ELSE {Contract(h)}
<1> DEFINE inner == View(t, db)
           e == LookUp(c, t, {Contract(h)})
           storing == HasStorage(View(c, inner)[Contract(h)])
           dels == (IF storing THEN {Row(h, kv[1][2]) : kv \in Found(c, t, h)} ELSE {}) \union {Contract(h)}
           ks == IF storing THEN DestroyedKeys(c, t, h) ELSE {Contract(h)}
<1>1. Destroyed(c, t, h) = [k \in Key |-> IF k \in dels THEN Delete(e, inner, k)[k] ELSE e[k]]
  BY DEF Destroyed, DeleteAll
<1>2. \A k : k \in dels <=> k \in ks
  BY DEF DestroyedKeys
<1>3. e \in [Key -> Entry] /\ inner \in [Key -> Item] /\ Fitting(e, inner)
  BY ViewType, LookUpProps
<1> HIDE DEF dels, ks, storing
<1> SUFFICES ASSUME NEW k \in Key, inner[k] # Null, Destroyed(c, t, h)[k] = Untracked
             PROVE  c[k] = Untracked /\ k \notin ks
  BY DEF ks, storing
<1>4. k \notin dels
  <2>1. Fits(e[k], inner[k])
    BY <1>3 DEF Fitting
  <2>2. Delete(e, inner, k)[k] # Untracked
    BY <1>3, <2>1, DeleteTouches
  <2> QED  BY <1>1, <2>2
<1>5. e[k] = Untracked
  BY <1>1, <1>4
<1> QED  BY <1>2, <1>4, <1>5, LookUpTouches

LEMMA ContractDestroyKeeps ==
    ASSUME ContractsInvariant, ContractDestroy
    PROVE  ServicesInvariant' /\ Tidy
<1> USE DEF ContractsInvariant, ServicesInvariant
<1>1. level = "invoke" /\ UNCHANGED <<db, level, engine>> /\ Gains
  BY DEF ContractDestroy, Calls, listing, engine, Gains
<1>2. Control'
  BY <1>1, EngineKept
<1>3. CASE Current \notin Hash
  <2>1. UNCHANGED vars
    BY <1>1, <1>3 DEF ContractDestroy, vars
  <2>2. Within /\ InvocationView' = InvocationView /\ StaysInOrder /\ Touches
    BY <1>1, <2>1, NothingIs
  <2>3. Tidy
    BY <2>2, OneWay DEF Tidy
  <2>4. Tracking
    BY <2>1 DEF Tracking, vars
  <2> QED  BY <1>1, <1>2, <2>2, <2>3, <2>4, ReadDoes, DoesKeeps
<1>4. CASE Current \in Hash
  <2>5. PICK h \in Hash : h = Current
    BY <1>4
  <2>1. BlockView \in [Key -> Item] /\ clone \in [Key -> Entry] /\ top \in [Key -> Entry] /\ db \in [Key -> Item]
    BY ViewTypes DEF Typed
  <2>2. top' \in [Key -> Entry] /\ View(top', db) = BlockView /\ (Tracks(top, db) => Tracks(top', db))
    BY <1>4, <2>1, AfterLookupProps DEF ContractDestroy, BlockView
  <2>3. clone' = Destroyed(clone, top, h)
    BY <2>5 DEF ContractDestroy
  <2>4. h \in ran
    <3>1. Len(running) \in 1..Len(running)
      BY <1>1 DEF Control
    <3> QED  BY <2>5, <3>1 DEF Control, Current
  <2>6. /\ clone' \in [Key -> Entry]
        /\ \A k \in Key : k \notin KeysOf(h) => View(clone', BlockView)[k] = InvocationView[k]
        /\ \A k \in Key : View(clone', BlockView)[k] \in {InvocationView[k], Null, BlockView[k]}
        /\ \A k \in Key : k \notin KeysOf(h) => clone'[k] = clone[k]
        /\ Fitting(clone, BlockView) =>
              /\ Fitting(clone', BlockView)
              /\ View(clone', BlockView)[Contract(h)] = Null
              /\ \A k \in Rows(h) : View(clone', BlockView)[k] = InvocationView[k] \/ View(clone', BlockView)[k] = Null
              /\ HasStorage(InvocationView[Contract(h)]) => \A k \in Rows(h) : View(clone', BlockView)[k] = Null
    BY <2>1, <2>3, <2>5, DestroyProps DEF BlockView, InvocationView
  <2>7. Within
    BY <1>1, <2>2, <2>6 DEF Within, BlockView
  <2>8. InvocationView' = View(clone', BlockView)
    BY <2>7 DEF Within, InvocationView
  <2>9. \A c \in Hash : c # h => /\ InvocationView'[Contract(c)] = InvocationView[Contract(c)]
                                 /\ \A k \in Rows(c) : /\ InvocationView'[k] = InvocationView[k]
                                                       /\ clone'[k] = clone[k]
    <3>1. \A c \in Hash : c # h => \A k \in KeysOf(c) : k \in Key /\ k \notin KeysOf(h)
      BY <2>5, KeyShapes
    <3>2. \A c \in Hash : c # h => \A k \in KeysOf(c) : InvocationView'[k] = InvocationView[k] /\ clone'[k] = clone[k]
      BY <2>6, <2>8, <3>1
    <3> QED  BY <3>2 DEF KeysOf
  <2>10. Reached(h)'
    BY <1>1, <2>4 DEF Reached, engine
  <2>11. Orderly => Owned(InvocationView')
    <3> SUFFICES ASSUME Orderly PROVE Owned(InvocationView')
      OBVIOUS
    <3>1. \A k \in Rows(h) : InvocationView'[k] = Null
      <4>1. /\ \A k \in Rows(h) : InvocationView'[k] = InvocationView[k] \/ InvocationView'[k] = Null
            /\ HasStorage(InvocationView[Contract(h)]) => \A k \in Rows(h) : InvocationView'[k] = Null
        BY <2>6, <2>8 DEF Orderly
      <4>2. ~HasStorage(InvocationView[Contract(h)]) => \A k \in Rows(h) : InvocationView[k] = Null
        BY <2>5 DEF Orderly, Owned
      <4> QED  BY <4>1, <4>2
    <3> QED  BY <2>9, <3>1 DEF Orderly, Owned
  <2>12. \A c \in Hash : InvocationView'[Contract(c)] \in {InvocationView[Contract(c)], Null, BlockView[Contract(c)]}
    BY <2>6, <2>8, KeyShapes
  <2>13. Does
    <3>1. Tracking
      BY <2>9, <2>10 DEF Tracking
    <3>2. \A c \in Hash : InvocationView[Contract(c)] # Null /\ InvocationView'[Contract(c)] = Null => c \in ran
      BY <2>4, <2>9
    <3>3. Orderly => Fitting(clone', BlockView)
      BY <2>6 DEF Orderly
    <3>4. \A c \in Hash : InvocationView'[Contract(c)] # Null =>
             InvocationView[Contract(c)] # Null \/ BlockView[Contract(c)] # Null
      BY <2>12
    <3> QED  BY <1>1, <2>7, <2>11, <3>1, <3>2, <3>3, <3>4 DEF Does
  <2>14. Orderly => \A c \in Hash : InvocationView'[Contract(c)] # Null => InvocationView[Contract(c)] # Null
    <3>1. Orderly => InvocationView'[Contract(h)] = Null
      BY <2>6, <2>8 DEF Orderly
    <3> QED  BY <2>9, <3>1
  <2>15. Orderly => Touches
    <3> DEFINE ks == IF HasStorage(InvocationView[Contract(h)]) THEN DestroyedKeys(clone, top, h) ELSE {Contract(h)}
    <3>1. top' = AfterLookup(top, ks)
      BY <2>5 DEF ContractDestroy
    <3> HIDE DEF ks
    <3>2. Fitting(clone, BlockView) =>
             \A k \in Key : BlockView[k] # Null /\ clone'[k] = Untracked => clone[k] = Untracked /\ k \notin ks
      BY <2>1, <2>3, <2>5, DestroyTouches DEF BlockView, InvocationView, ks
    <3> QED  BY <3>1, <3>2, TouchesWhen DEF Orderly
  <2>16. Tidy
    BY <2>7, <2>14, <2>15, OneWay DEF Tidy
  <2> QED  BY <1>2, <2>13, <2>16, DoesKeeps
<1> QED  BY <1>3, <1>4

-----------------------------------------------------------------------------
(* Migrating.                                                              *)

\* The two guards of Add: every suffix comes once.
OneEach(copies) == \A a, b \in copies : a[1][2] = b[1][2] => a = b

LEMMA CopiesAreRows ==
    ASSUME Typed, NEW c \in Hash, NEW state
    PROVE  /\ \A kv \in Copies(c, state) : /\ kv[1] \in Containing(Current) /\ kv[1][2] \in Suffix
                                        /\ kv[2] \in Value /\ Current \in Hash
           /\ Current \in Hash /\ ~Live(c) /\ HasStorage(state) =>
                \A k \in Rows(Current) : InvocationView[k] # Null => <<k, InvocationView[k]>> \in Copies(c, state)
<1>1. CASE ~(Current \in Hash /\ ~Live(c) /\ HasStorage(state))
  BY <1>1 DEF Copies
<1>2. CASE Current \in Hash /\ ~Live(c) /\ HasStorage(state)
  <2>1. Copies(c, state) = Found(clone, top, Current)
    BY <1>2 DEF Copies, Migrated
  <2>2. /\ \A kv \in Found(clone, top, Current) :
              kv[1] \in Containing(Current) /\ kv[1][2] \in Suffix /\ kv[2] \in Value
        /\ \A k \in Rows(Current) : View(clone, BlockView)[k] # Null =>
              <<k, View(clone, BlockView)[k]>> \in Found(clone, top, Current)
    BY <1>2, FoundProps DEF Typed, BlockView
  <2> QED  BY <1>2, <2>1, <2>2 DEF InvocationView
<1> QED  BY <1>1, <1>2

\* The clone with the contract and the copied rows in it.
LEMMA FilledProps ==
    ASSUME Typed, NEW c \in Hash, NEW state \in StateOf, OneEach(Copies(c, state))
    PROVE  LET filled == Filled(c, state)
               after == View(filled, BlockView)
           IN  /\ filled \in [Key -> Entry]
               /\ \A k \in Key : k \notin KeysOf(c) => after[k] = InvocationView[k]
               /\ Live(c) => \A k \in Key : after[k] = InvocationView[k]
               /\ ~Live(c) => after[Contract(c)] = state
               /\ \A kv \in Copies(c, state) : after[Row(c, kv[1][2])] = kv[2]
               /\ \A k \in Rows(c) : after[k] = InvocationView[k] \/ (~Live(c) /\ HasStorage(state))
               /\ Orderly => Fitting(filled, BlockView)
               /\ \A k \in AllRows :
                     \/ filled[k] = clone[k]
                     \/ k \in Rows(c) /\ ~Live(c) /\ filled[k] # Untracked
               /\ \A k \in Key : BlockView[k] # Null /\ filled[k] = Untracked =>
                     clone[k] = Untracked /\ k # Contract(c)
<1> DEFINE copies == Copies(c, state)
           made == Made(c, state)
           filled == Filled(c, state)
           after == View(filled, BlockView)
           k0 == Contract(c)
<1>1. /\ BlockView \in [Key -> Item] /\ clone \in [Key -> Entry]
      /\ k0 \in Key /\ state \in Value /\ state # Null
  BY ViewTypes, KeyShapes, ColumnsAssumption, NullAssumption DEF Typed, StateOf
<1>2. \A k \in Key : InvocationView[k] = Seen(clone[k], BlockView[k])
  BY <1>1, EntryByEntry DEF InvocationView
<1>3. /\ made \in [Key -> Entry]
      /\ \A k \in Key \ {k0} : made[k] = clone[k]
      /\ Live(c) => Keeps(clone[k0], made[k0], BlockView[k0])
      /\ ~Live(c) => Shows(clone[k0], made[k0], BlockView[k0], state)
  <2>1. CASE Live(c)
    <3>1. made = TryGet(clone, BlockView, k0)
      BY <2>1 DEF Made
    <3>2. Keeps(clone[k0], made[k0], BlockView[k0])
      BY <1>1, <3>1, LookedUpEntry
    <3>3. made = [k \in Key |-> made[k]] /\ \A k \in Key \ {k0} : made[k] = clone[k]
      BY <1>1, <3>1 DEF TryGet
    <3>4. \A k \in Key : made[k] \in Entry
      BY <1>1, <3>2, <3>3 DEF Keeps
    <3>5. made \in [Key -> Entry]
      BY <3>3, <3>4
    <3> QED  BY <2>1, <3>2, <3>3, <3>5
  <2>2. CASE ~Live(c)
    <3>1. made = Add(clone, k0, state)
      BY <2>2 DEF Made
    <3>2. Seen(clone[k0], BlockView[k0]) = Null
      BY <1>1, <1>2, <2>2 DEF Live
    <3>3. Shows(clone[k0], made[k0], BlockView[k0], state)
      BY <1>1, <3>1, <3>2, AddEntry
    <3>4. made = [k \in Key |-> made[k]] /\ \A k \in Key \ {k0} : made[k] = clone[k]
      BY <1>1, <3>1 DEF Add
    <3>5. \A k \in Key : made[k] \in Entry
      BY <1>1, <3>3, <3>4 DEF Shows
    <3>6. made \in [Key -> Entry]
      BY <3>4, <3>5
    <3> QED  BY <2>2, <3>3, <3>4, <3>6
  <2> QED  BY <2>1, <2>2
<1>4. \A kv \in copies : kv[1][2] \in Suffix /\ kv[2] \in Value
  BY CopiesAreRows
<1>5. copies # {} => ~Live(c) /\ HasStorage(state)
  BY DEF Copies
<1>6. ASSUME NEW kv \in copies
      PROVE  LET k == Row(c, kv[1][2])
             IN  /\ k \in Rows(c) /\ k \in Key \ {k0}
                 /\ filled[k] = Add(made, k, kv[2])[k]
                 /\ filled[k] \in Entry /\ Seen(filled[k], BlockView[k]) = kv[2]
                 /\ InvocationView[k] = Null => Shows(clone[k], filled[k], BlockView[k], kv[2])
  <2> DEFINE k == Row(c, kv[1][2])
             chosen == CHOOSE x \in copies : k = Row(c, x[1][2])
  <2>1. k \in Rows(c) /\ k \in Key \ {k0}
    BY <1>4, <1>6, KeyShapes
  <2>2. chosen \in copies /\ k = Row(c, chosen[1][2])
    BY <1>6
  <2>3. chosen = kv
    BY <1>6, <2>2 DEF OneEach, Row
  <2>4. filled[k] = Add(made, k, chosen[2])[k]
    BY <1>6, <2>1 DEF Filled
  <2> HIDE DEF chosen, filled, k, copies, made
  <2>5. filled[k] = Add(made, k, kv[2])[k] /\ kv[2] \in Value /\ made[k] = clone[k]
    BY <1>3, <1>4, <1>6, <2>1, <2>3, <2>4
  <2>6. /\ Add(made, k, kv[2])[k] \in Entry
        /\ Seen(Add(made, k, kv[2])[k], BlockView[k]) = kv[2]
        /\ Seen(made[k], BlockView[k]) = Null => Shows(made[k], Add(made, k, kv[2])[k], BlockView[k], kv[2])
    BY <1>1, <1>3, <2>1, <2>5, AddEntry
  <2> QED  BY <1>2, <2>1, <2>5, <2>6 DEF k
<1>7. \A k \in Key : (\A kv \in copies : k # Row(c, kv[1][2])) => filled[k] = made[k]
  BY DEF Filled
<1>8. filled = [k \in Key |-> filled[k]]
  BY DEF Filled
<1> HIDE DEF filled, copies, made
<1>9. \A k \in Key : filled[k] \in Entry
  BY <1>3, <1>6, <1>7
<1>10. filled \in [Key -> Entry]
  BY <1>8, <1>9
<1>11. \A k \in Key : after[k] = Seen(filled[k], BlockView[k])
  BY <1>1, <1>10, EntryByEntry
<1> HIDE DEF after
<1>12. \A k \in Key : k \notin KeysOf(c) => after[k] = InvocationView[k]
  <2> SUFFICES ASSUME NEW k \in Key, k \notin KeysOf(c) PROVE after[k] = InvocationView[k]
    OBVIOUS
  <2>1. k # k0 /\ k \notin Rows(c)
    BY DEF KeysOf
  <2>2. filled[k] = clone[k]
    BY <1>3, <1>6, <1>7, <2>1
  <2> QED  BY <1>2, <1>11, <2>2
<1>13. filled[k0] = made[k0]
  BY <1>1, <1>6, <1>7
<1>14. ~Live(c) => after[k0] = state
  BY <1>1, <1>3, <1>11, <1>13 DEF Shows
<1>15. Live(c) => \A k \in Key : after[k] = InvocationView[k]
  <2> SUFFICES ASSUME Live(c), NEW k \in Key PROVE after[k] = InvocationView[k]
    OBVIOUS
  <2>1. filled[k] = made[k]
    BY <1>5, <1>7
  <2> QED  BY <1>2, <1>3, <1>11, <2>1 DEF Keeps
<1>16. \A kv \in copies : after[Row(c, kv[1][2])] = kv[2]
  BY <1>6, <1>11
<1>17. \A k \in Rows(c) : after[k] = InvocationView[k] \/ (~Live(c) /\ HasStorage(state))
  <2> SUFFICES ASSUME NEW k \in Rows(c), ~(~Live(c) /\ HasStorage(state)) PROVE after[k] = InvocationView[k]
    OBVIOUS
  <2>1. k \in Key \ {k0}
    BY KeyShapes
  <2>2. filled[k] = clone[k]
    BY <1>3, <1>5, <1>7, <2>1
  <2> QED  BY <1>2, <1>11, <2>1, <2>2
<1>18. Orderly => Fitting(filled, BlockView)
  <2> SUFFICES ASSUME Orderly, NEW k \in Key
               PROVE  Fits(filled[k], BlockView[k]) /\ (k \notin AllRows => Agrees(filled[k], BlockView[k]))
    BY DEF Fitting
  <2>1. Fits(clone[k], BlockView[k]) /\ (k \notin AllRows => Agrees(clone[k], BlockView[k]))
    BY DEF Orderly, Fitting
  <2>2. CASE \E kv \in copies : k = Row(c, kv[1][2])
    <3>1. PICK kv \in copies : k = Row(c, kv[1][2])
      BY <2>2
    <3>2. k \in Rows(c) /\ InvocationView[k0] = Null
      BY <1>5, <1>6, <3>1 DEF Live
    <3>3. InvocationView[k] = Null
      BY <3>2, ColumnsAssumption, NullAssumption DEF Orderly, Owned, HasStorage
    <3> QED  BY <1>6, <2>1, <3>1, <3>2, <3>3, RowShapes DEF Shows
  <2>3. CASE \A kv \in copies : k # Row(c, kv[1][2])
    <3>1. filled[k] = made[k]
      BY <1>7, <2>3
    <3> QED  BY <1>3, <2>1, <3>1 DEF Keeps, Shows
  <2> QED  BY <2>2, <2>3
<1>20. \A kv \in copies : filled[Row(c, kv[1][2])] # Untracked
  <2> SUFFICES ASSUME NEW kv \in copies PROVE filled[Row(c, kv[1][2])] # Untracked
    OBVIOUS
  <2> DEFINE k == Row(c, kv[1][2])
  <2>1. filled[k] = Add(made, k, kv[2])[k] /\ k \in Key
    BY <1>6
  <2> HIDE DEF k
  <2>2. \A st \in TrackState : Trackable(st, kv[2]) # Untracked
    BY <1>4, TrackableShape
  <2> QED  BY <1>3, <2>1, <2>2 DEF Add, TrackState, k
<1>21. \A k \in AllRows : \/ filled[k] = clone[k]
                          \/ k \in Rows(c) /\ ~Live(c) /\ filled[k] # Untracked
  <2> SUFFICES ASSUME NEW k \in AllRows
               PROVE  filled[k] = clone[k] \/ (k \in Rows(c) /\ ~Live(c) /\ filled[k] # Untracked)
    OBVIOUS
  <2>1. k \in Key \ {k0}
    BY RowShapes
  <2> QED  BY <1>3, <1>5, <1>6, <1>7, <1>20, <2>1
<1>19. \A k \in Key : BlockView[k] # Null /\ filled[k] = Untracked => clone[k] = Untracked /\ k # k0
  <2> SUFFICES ASSUME NEW k \in Key, BlockView[k] # Null, filled[k] = Untracked
               PROVE  clone[k] = Untracked /\ k # k0
    OBVIOUS
  <2>1. \A kv \in copies : k # Row(c, kv[1][2])
    BY <1>20
  <2>2. made[k] = Untracked
    BY <1>7, <2>1
  <2>3. made[k0] # Untracked \/ BlockView[k0] = Null
    <3>1. BlockView[k0] # Null => Trackable("NONE", BlockView[k0]) # Untracked
      BY <1>1, TrackableShape DEF TrackState, Item
    <3>2. Trackable("ADDED", state) # Untracked /\ Trackable("CHANGED", state) # Untracked
      BY <1>1, TrackableShape DEF TrackState
    <3> QED  BY <1>1, <3>1, <3>2 DEF made, Made, TryGet, Add
  <2> QED  BY <1>3, <2>2, <2>3
<1> QED  BY <1>10, <1>12, <1>14, <1>15, <1>16, <1>17, <1>18, <1>19, <1>21 DEF filled, after, copies

LEMMA ContractMigrateKeeps ==
    ASSUME ContractsInvariant, NEW c \in Hash, NEW state \in StateOf, ContractMigrate(c, state)
    PROVE  /\ ServicesInvariant' /\ Tidy /\ Gains
           /\ \A k \in AllRows : Filled(c, state)[k] = clone[k] \/ Filled(c, state)[k] # Untracked
           /\ Orderly /\ Current \in Hash => \A k \in Rows(Current) : InvocationView'[k] = Null
<1> USE DEF ContractsInvariant, ServicesInvariant
<1>1. level = "invoke" /\ UNCHANGED <<db, level, running, contexts, ran>>
  BY DEF ContractMigrate, Calls
<1>2. PICK from \in ran : from = Current
  <2>1. Len(running) \in 1..Len(running)
    BY <1>1 DEF Control
  <2> QED  BY <2>1 DEF Control, Current
<1>3. from \in Hash \union {Script} /\ from # Nobody
  BY ColumnsAssumption DEF Control
<1>4. /\ created' = IF Live(c) THEN created ELSE [created EXCEPT ![c] = from]
      /\ c \in emitted' /\ emitted \subseteq emitted'
  BY <1>2 DEF ContractMigrate
<1>5. Gains
  BY <1>1, <1>3, <1>4 DEF ContractMigrate, Calls, listing, Gains, Control
<1>6. Control'
  BY <1>1, <1>3, <1>4 DEF Control, Reached
<1>7. ~Live(c) => Reached(c)'
  BY <1>3, <1>4 DEF Reached, Control
<1>8. BlockView \in [Key -> Item] /\ InvocationView \in [Key -> Item] /\ Typed /\ db \in [Key -> Item]
  BY ViewTypes DEF Typed
<1> DEFINE Copied == Copies(c, state)
           New == Made(c, state)
           F == Filled(c, state)
           S == AfterLookup(top, {Contract(c)})
           w == View(F, BlockView)
           v == View(clone', BlockView)
           ks == IF HasStorage(View(F, View(S, db))[Contract(from)]) THEN DestroyedKeys(F, S, from) ELSE {Contract(from)}
<1>9. /\ OneEach(Copied)
      /\ from \in Hash => clone' = Destroyed(F, S, from) /\ top' = AfterLookup(S, ks)
      /\ from \notin Hash => clone' = F /\ top' = S
  <2>1. /\ OneEach(Copies(c, state))
        /\ IF Current \in Hash
           THEN /\ clone' = Destroyed(F, S, Current)
                /\ top' = AfterLookup(S, IF HasStorage(View(F, View(S, db))[Contract(Current)])
                                         THEN DestroyedKeys(F, S, Current) ELSE {Contract(Current)})
           ELSE clone' = F /\ top' = S
    BY DEF ContractMigrate, OneEach
  <2> HIDE DEF F, S
  <2> QED  BY <1>2, <2>1
<1>10. /\ F \in [Key -> Entry]
       /\ \A k \in Key : k \notin KeysOf(c) => w[k] = InvocationView[k]
       /\ Live(c) => \A k \in Key : w[k] = InvocationView[k]
       /\ ~Live(c) => w[Contract(c)] = state
       /\ \A kv \in Copied : w[Row(c, kv[1][2])] = kv[2]
       /\ \A k \in Rows(c) : w[k] = InvocationView[k] \/ (~Live(c) /\ HasStorage(state))
       /\ Orderly => Fitting(F, BlockView)
       /\ \A k \in AllRows : \/ F[k] = clone[k]
                             \/ k \in Rows(c) /\ ~Live(c) /\ F[k] # Untracked
       /\ \A k \in Key : BlockView[k] # Null /\ F[k] = Untracked => clone[k] = Untracked /\ k # Contract(c)
  BY <1>8, <1>9, FilledProps
<1>11. S \in [Key -> Entry] /\ View(S, db) = BlockView /\ (Tracks(top, db) => Tracks(S, db))
  BY <1>8, AfterLookupProps DEF Typed, BlockView
<1>27. \A js : \A k \in Key : AfterLookup(S, js)[k] = AfterLookup(top, {Contract(c)} \union js)[k]
  <2>1. \A t \in [Key -> Entry] : \A k \in Key :
           TryGet(t, db, k)[k] = IF t[k] = Untracked /\ db[k] # Null THEN Trackable("NONE", db[k]) ELSE t[k]
    BY DEF TryGet
  <2>2. top \in [Key -> Entry]
    BY <1>8 DEF Typed
  <2>3. \A t, js : \A k \in Key :
           AfterLookup(t, js)[k] = IF k \in js /\ clone[k] = Untracked THEN TryGet(t, db, k)[k] ELSE t[k]
    BY DEF AfterLookup
  <2>4. \A k \in Key : S[k] = IF k \in {Contract(c)} /\ clone[k] = Untracked THEN TryGet(top, db, k)[k] ELSE top[k]
    BY <2>3
  <2> HIDE DEF S
  <2>5. \A k \in Key : db[k] # Null => Trackable("NONE", db[k]) # Untracked
    BY <1>8, TrackableShape DEF TrackState, Item
  <2> SUFFICES ASSUME NEW js, NEW k \in Key
               PROVE  AfterLookup(S, js)[k] = AfterLookup(top, {Contract(c)} \union js)[k]
    OBVIOUS
  <2>6. AfterLookup(S, js)[k] = IF k \in js /\ clone[k] = Untracked THEN TryGet(S, db, k)[k] ELSE S[k]
    BY <2>3
  <2>7. AfterLookup(top, {Contract(c)} \union js)[k] =
           IF k \in {Contract(c)} \union js /\ clone[k] = Untracked THEN TryGet(top, db, k)[k] ELSE top[k]
    BY <2>3
  <2>8. /\ TryGet(top, db, k)[k] = IF top[k] = Untracked /\ db[k] # Null THEN Trackable("NONE", db[k]) ELSE top[k]
        /\ TryGet(S, db, k)[k] = IF S[k] = Untracked /\ db[k] # Null THEN Trackable("NONE", db[k]) ELSE S[k]
    BY <1>11, <2>1, <2>2
  <2> QED  BY <2>4, <2>5, <2>6, <2>7, <2>8
<1>12. from \in Hash /\ ~Live(c) /\ HasStorage(state) =>
          \A k \in Rows(from) : InvocationView[k] # Null => <<k, InvocationView[k]>> \in Copied
  BY <1>2, <1>8, CopiesAreRows
<1> HIDE DEF Copied, New, F, S
<1>26. Orderly => Touches
  <2> SUFFICES ASSUME Orderly, Fitting(F, BlockView) PROVE Touches
    BY <1>10
  <2>1. CASE from \in Hash
    <3>1. clone' = Destroyed(F, S, from) /\ top' = AfterLookup(S, ks)
      BY <1>9, <2>1
    <3>2. \A k \in Key : BlockView[k] # Null /\ clone'[k] = Untracked => F[k] = Untracked /\ k \notin ks
      BY <1>8, <1>10, <1>11, <2>1, <3>1, DestroyTouches
    <3> HIDE DEF ks
    <3>3. \A k \in Key : top'[k] = AfterLookup(top, {Contract(c)} \union ks)[k]
      BY <1>27, <3>1
    <3>4. \A k \in Key : BlockView[k] # Null /\ clone'[k] = Untracked =>
             clone[k] = Untracked /\ k \notin {Contract(c)} \union ks
      BY <1>10, <3>2
    <3> QED  BY <3>3, <3>4, TouchesWhen
  <2>2. CASE from \notin Hash
    <3>1. clone' = F /\ top' = AfterLookup(top, {Contract(c)})
      BY <1>9, <2>2 DEF S
    <3>2. \A k \in Key : BlockView[k] # Null /\ clone'[k] = Untracked =>
             clone[k] = Untracked /\ k \notin {Contract(c)}
      BY <1>10, <3>1
    <3> QED  BY <3>1, <3>2, TouchesWhen
  <2> QED  BY <2>1, <2>2
<1> HIDE DEF ks
<1>13. top' \in [Key -> Entry] /\ View(top', db) = BlockView /\ (Tracks(top, db) => Tracks(top', db))
  BY <1>8, <1>9, <1>11, AfterLookupProps
<1>14. /\ clone' \in [Key -> Entry]
       /\ \A k \in Key : (from \in Hash /\ k \in KeysOf(from)) \/ (v[k] = w[k] /\ clone'[k] = F[k])
       /\ \A k \in Key : v[k] \in {w[k], Null, BlockView[k]}
       /\ Fitting(F, BlockView) => Fitting(clone', BlockView)
       /\ Fitting(F, BlockView) /\ from \in Hash =>
             /\ v[Contract(from)] = Null
             /\ \A k \in Rows(from) : v[k] = w[k] \/ v[k] = Null
             /\ HasStorage(w[Contract(from)]) => \A k \in Rows(from) : v[k] = Null
  <2>1. CASE from \notin Hash
    BY <1>9, <1>10, <2>1
  <2>2. CASE from \in Hash
    <3>1. clone' = Destroyed(F, S, from) /\ View(S, db) = BlockView
      BY <1>9, <1>11, <2>2
    <3> DEFINE D == Destroyed(F, S, from)
    <3>2. /\ D \in [Key -> Entry]
          /\ \A k \in Key : k \notin KeysOf(from) => View(D, View(S, db))[k] = View(F, View(S, db))[k]
          /\ \A k \in Key : k \notin KeysOf(from) => D[k] = F[k]
          /\ \A k \in Key : View(D, View(S, db))[k] \in {View(F, View(S, db))[k], Null, View(S, db)[k]}
          /\ Fitting(F, View(S, db)) =>
                /\ Fitting(D, View(S, db))
                /\ View(D, View(S, db))[Contract(from)] = Null
                /\ \A k \in Rows(from) : \/ View(D, View(S, db))[k] = View(F, View(S, db))[k]
                                         \/ View(D, View(S, db))[k] = Null
                /\ HasStorage(View(F, View(S, db))[Contract(from)]) =>
                      \A k \in Rows(from) : View(D, View(S, db))[k] = Null
      <4>1. F \in [Key -> Entry] /\ S \in [Key -> Entry] /\ db \in [Key -> Item] /\ from \in Hash
        BY <1>8, <1>10, <1>11, <2>2
      <4> QED  BY <4>1, DestroyProps
    <3> HIDE DEF D
    <3>3. clone' = D
      BY <3>1 DEF D
    <3> QED  BY <2>2, <3>1, <3>2, <3>3
  <2> QED  BY <2>1, <2>2
<1>15. Within
  BY <1>1, <1>13, <1>14 DEF Within, BlockView
<1>16. InvocationView' = v
  BY <1>15 DEF Within, InvocationView
<1> HIDE DEF v, w
\* The keys of c, of the contract that runs, and of the others.
<1>17. \A a \in Hash : /\ Contract(a) \in KeysOf(a) /\ Contract(a) \in Key
                       /\ \A k \in Rows(a) : k \in KeysOf(a) /\ k \in Key
                       /\ a # from \/ from \notin Hash => \A k \in KeysOf(a) : v[k] = w[k]
                       /\ a # c => \A k \in KeysOf(a) : w[k] = InvocationView[k]
  <2>1. \A a, b \in Hash : a # b => \A k \in KeysOf(a) : k \in Key /\ k \notin KeysOf(b)
    BY KeyShapes
  <2>2. \A a \in Hash : Contract(a) \in KeysOf(a) /\ KeysOf(a) \in SUBSET Key /\ Rows(a) \subseteq KeysOf(a)
    BY KeyShapes DEF KeysOf
  <2> QED  BY <1>10, <1>14, <2>1, <2>2
<1>18. Tracking
  <2> SUFFICES ASSUME NEW a \in Hash, NEW k \in Rows(a), clone'[k] # Untracked
               PROVE  clone[k] # Untracked \/ Reached(a)'
    BY DEF Tracking
  <2>1. CASE a = from
    BY <1>1, <2>1 DEF Reached
  <2>2. CASE a # from
    <3>1. k \in AllRows /\ k \in Key /\ (a # c => k \notin Rows(c)) /\ (from \in Hash => k \notin KeysOf(from))
      BY <2>2, KeyShapes, RowShapes DEF KeysOf
    <3> QED  BY <1>7, <1>10, <1>14, <3>1
  <2> QED  BY <2>1, <2>2
<1>19. \A a \in Hash : InvocationView[Contract(a)] # Null /\ v[Contract(a)] = Null => a = from
  <2> SUFFICES ASSUME NEW a \in Hash, InvocationView[Contract(a)] # Null, a # from
               PROVE  v[Contract(a)] # Null
    OBVIOUS
  <2>1. v[Contract(a)] = w[Contract(a)]
    BY <1>17
  <2>2. w[Contract(a)] = InvocationView[Contract(a)]
    BY <1>10, <1>17 DEF Live
  <2> QED  BY <2>1, <2>2
<1>20. \A a \in Hash : v[Contract(a)] # Null =>
          InvocationView[Contract(a)] # Null \/ BlockView[Contract(a)] # Null \/ a \in emitted'
  BY <1>4, <1>14, <1>17
<1>21. Orderly => Owned(w)
  <2> SUFFICES ASSUME Orderly, NEW a \in Hash, NEW k \in Rows(a), w[k] # Null PROVE HasStorage(w[Contract(a)])
    BY DEF Owned
  <2>1. CASE a # c \/ Live(c)
    <3>1. w[k] = InvocationView[k] /\ w[Contract(a)] = InvocationView[Contract(a)]
      BY <1>10, <1>17, <2>1
    <3> QED  BY <3>1 DEF Orderly, Owned
  <2>2. CASE a = c /\ ~Live(c)
    <3>1. InvocationView[k] = Null
      BY <2>2, ColumnsAssumption, NullAssumption DEF Orderly, Owned, Live, HasStorage
    <3> QED  BY <1>10, <2>2, <3>1
  <2> QED  BY <2>1, <2>2
<1>22. Orderly /\ from \in Hash => \A k \in Rows(from) : v[k] = Null
  <2> SUFFICES ASSUME Orderly, from \in Hash, NEW k \in Rows(from) PROVE v[k] = Null
    OBVIOUS
  <2>1. /\ v[k] = w[k] \/ v[k] = Null
        /\ HasStorage(w[Contract(from)]) => v[k] = Null
    BY <1>10, <1>14
  <2>2. ~HasStorage(w[Contract(from)]) => w[k] = Null
    BY <1>21 DEF Owned
  <2> QED  BY <2>1, <2>2
<1>23. Orderly => Owned(v)
  <2> SUFFICES ASSUME Orderly, NEW a \in Hash, NEW k \in Rows(a), v[k] # Null PROVE HasStorage(v[Contract(a)])
    BY DEF Owned
  <2>1. a # from
    BY <1>22
  <2>2. v[k] = w[k] /\ v[Contract(a)] = w[Contract(a)]
    BY <1>17, <2>1
  <2> QED  BY <1>21, <2>2 DEF Owned
<1>24. Does
  <2>1. Orderly => Fitting(clone', BlockView)
    BY <1>10, <1>14
  <2> QED  BY <1>2, <1>5, <1>15, <1>16, <1>18, <1>19, <1>20, <1>23, <2>1 DEF Does
<1>25. Orderly => RowsMoved
  <2> SUFFICES ASSUME Orderly, NEW a \in Hash, NEW d \in Hash,
                      InvocationView[Contract(a)] # Null, v[Contract(a)] = Null,
                      InvocationView[Contract(d)] = Null, HasStorage(v[Contract(d)]),
                      NEW s \in Suffix
               PROVE  /\ InvocationView[Row(a, s)] # Null => v[Row(d, s)] = InvocationView[Row(a, s)]
                      /\ v[Row(a, s)] = Null
    BY <1>16 DEF RowsMoved, Live
  <2>1. a = from /\ d # a
    BY <1>19
  <2>2. v[Contract(d)] = w[Contract(d)] /\ w[Contract(d)] # Null
    BY <1>17, <2>1, ColumnsAssumption, NullAssumption DEF HasStorage
  <2>3. d = c /\ ~Live(c) /\ HasStorage(state)
    BY <1>10, <1>17, <2>2 DEF Live
  <2>4. Row(a, s) \in Rows(a) /\ Row(d, s) \in Rows(d) /\ Row(a, s)[2] = s
    BY KeyShapes
  <2>5. v[Row(a, s)] = Null
    BY <1>22, <2>1, <2>4
  <2>6. ASSUME InvocationView[Row(a, s)] # Null
        PROVE  v[Row(d, s)] = InvocationView[Row(a, s)]
    <3> DEFINE kv == <<Row(a, s), InvocationView[Row(a, s)]>>
    <3>1. kv \in Copied
      BY <1>12, <2>1, <2>3, <2>4, <2>6
    <3>2. kv[1][2] = s /\ kv[2] = InvocationView[Row(a, s)]
      BY <2>4
    <3>3. w[Row(d, s)] = InvocationView[Row(a, s)]
      BY <1>10, <2>3, <3>1, <3>2
    <3>4. v[Row(d, s)] = w[Row(d, s)]
      BY <1>17, <2>1, <2>4
    <3> QED  BY <3>3, <3>4
  <2> QED  BY <2>5, <2>6
<1>28. ServicesInvariant' /\ Tidy
  BY <1>6, <1>15, <1>24, <1>25, <1>26, DoesKeeps DEF Tidy
<1> QED  BY <1>2, <1>5, <1>10, <1>16, <1>22, <1>28 DEF F

-----------------------------------------------------------------------------
(* The dictionary of the clone.                                            *)

LEMMA FiniteRows ==
    /\ IsFiniteSet(AllRows)
    /\ \A K \in SUBSET AllRows : IsFiniteSet(K) /\ Cardinality(K) \in Nat
<1>1. IsFiniteSet(Hash \X Suffix)
  BY FiniteAssumption, FS_Product
<1>2. AllRows \in SUBSET (Hash \X Suffix)
  BY DEF AllRows, Rows, Row
<1>3. IsFiniteSet(AllRows)
  BY <1>1, <1>2, FS_Subset
<1>4. ASSUME NEW K \in SUBSET AllRows PROVE IsFiniteSet(K) /\ Cardinality(K) \in Nat
  <2>1. IsFiniteSet(K)
    BY <1>3, FS_Subset
  <2> QED  BY <2>1, FS_CardinalityType
<1> QED  BY <1>3, <1>4

LEMMA UpTo ==
    ASSUME NEW n \in Nat
    PROVE  IsFiniteSet(1..n) /\ Cardinality(1..n) = n
<1>1. \A a, b \in Int : IsFiniteSet(a..b) /\ Cardinality(a..b) = IF a > b THEN 0 ELSE b - a + 1
  BY FS_Interval
<1>2. 1 \in Int /\ n \in Int
  OBVIOUS
<1>3. IsFiniteSet(1..n) /\ Cardinality(1..n) = IF 1 > n THEN 0 ELSE n - 1 + 1
  BY <1>1, <1>2
<1> QED  BY <1>3

LEMMA PoppedArray ==
    ASSUME NEW d, Array(d), NEW K
    PROVE  /\ Array(Popped(d, K)) /\ Popped(d, K).used = d.used
           /\ \A k \in AllRows : Popped(d, K).slot[k] = IF k \in K THEN 0 ELSE d.slot[k]
<1>1. Popped(d, K) = [slot |-> [k \in AllRows |-> IF k \in K THEN 0 ELSE d.slot[k]], used |-> d.used]
  BY DEF Array, Popped
<1> DEFINE p == Popped(d, K)
<1>2. /\ p.used = d.used /\ p = [slot |-> p.slot, used |-> p.used]
      /\ p.slot = [k \in AllRows |-> IF k \in K THEN 0 ELSE d.slot[k]]
  BY <1>1
<1> HIDE DEF p
<1> QED  BY <1>2 DEF Array, p

LEMMA EnteredArray ==
    ASSUME NEW d, Array(d), NEW new \in SUBSET AllRows,
           NEW order \in Orders(new), NEW m \in Nat, NEW n \in Nat, m <= n
    PROVE  LET e == Enter(d, order, m, n)
               in(k) == k \in new /\ m < order[k] /\ order[k] <= n
           IN  /\ Array(e) /\ e.used = d.used + n - m
               /\ \A k \in AllRows : e.slot[k] = IF in(k) THEN d.used + order[k] - m ELSE d.slot[k]
<1> DEFINE e == Enter(d, order, m, n)
           in(k) == k \in new /\ m < order[k] /\ order[k] <= n
<1>1. /\ order \in [new -> 1..Cardinality(new)] /\ Cardinality(new) \in Nat
      /\ \A j, k \in new : order[j] = order[k] => j = k
  BY FiniteRows DEF Orders
<1>2. /\ e = [slot |-> e.slot, used |-> e.used] /\ e.used = d.used + n - m
      /\ e.slot = [k \in AllRows |-> IF in(k) THEN d.used + order[k] - m ELSE d.slot[k]]
  BY <1>1 DEF Enter
<1>3. /\ d.used \in Nat /\ d.slot \in [AllRows -> 0..d.used]
      /\ \A j, k \in AllRows : d.slot[j] = d.slot[k] /\ d.slot[j] # 0 => j = k
  BY DEF Array
<1>4. \A k \in AllRows : e.slot[k] = IF in(k) THEN d.used + order[k] - m ELSE d.slot[k]
  BY <1>2
<1> HIDE DEF e
<1>5. \A k \in AllRows : in(k) => order[k] \in Nat /\ e.slot[k] > d.used /\ e.slot[k] <= d.used + n - m
  BY <1>1, <1>3, <1>4
<1>6. e.used \in Nat /\ e.used >= d.used
  BY <1>2, <1>3
<1>7. \A k \in AllRows : e.slot[k] \in 0..e.used
  BY <1>1, <1>2, <1>3, <1>4, <1>6
<1>8. ASSUME NEW j \in AllRows, NEW k \in AllRows, e.slot[j] = e.slot[k], e.slot[j] # 0
      PROVE  j = k
  <2>1. CASE in(j) /\ in(k)
    <3>1. d.used + order[j] - m = d.used + order[k] - m /\ order[j] \in Nat /\ order[k] \in Nat
      BY <1>4, <1>5, <1>8, <2>1
    <3>2. order[j] = order[k]
      BY <1>3, <3>1
    <3> QED  BY <1>1, <2>1, <3>2
  <2>2. CASE ~in(j) /\ ~in(k)
    BY <1>3, <1>4, <1>8, <2>2
  <2>3. CASE in(j) /\ ~in(k)
    BY <1>3, <1>4, <1>5, <1>8, <2>3
  <2>4. CASE ~in(j) /\ in(k)
    BY <1>3, <1>4, <1>5, <1>8, <2>4
  <2> QED  BY <2>1, <2>2, <2>3, <2>4
<1>9. Array(e)
  <2>1. e.slot = [k \in AllRows |-> e.slot[k]]
    BY <1>2
  <2>2. e.slot \in [AllRows -> 0..e.used]
    BY <1>7, <2>1
  <2> QED  BY <1>2, <1>6, <1>8, <2>2 DEF Array
<1> QED  BY <1>2, <1>4, <1>9 DEF e

\* Closing the gaps moves no entry up, and keeps their order.
LEMMA CompactArray ==
    ASSUME NEW d, Array(d)
    PROVE  /\ Array(Compact(d)) /\ Compact(d).used = Cardinality(Entered(d))
           /\ \A k \in AllRows : Compact(d).slot[k] # 0 <=> d.slot[k] # 0
           /\ \A k \in AllRows : Compact(d).slot[k] <= d.slot[k]
           /\ \A j, k \in AllRows : d.slot[j] # 0 /\ d.slot[j] < d.slot[k] => Compact(d).slot[j] < Compact(d).slot[k]
<1> DEFINE S(k) == {j \in Entered(d) : d.slot[j] <= d.slot[k]}
           e == Compact(d)
<1>1. /\ d.used \in Nat /\ d.slot \in [AllRows -> 0..d.used]
      /\ \A j, k \in AllRows : d.slot[j] = d.slot[k] /\ d.slot[j] # 0 => j = k
  BY DEF Array
<1>2. Entered(d) \in SUBSET AllRows /\ \A k \in AllRows : k \in Entered(d) <=> d.slot[k] # 0
  BY DEF Entered
<1>3. ASSUME NEW k \in AllRows
      PROVE  /\ IsFiniteSet(S(k)) /\ Cardinality(S(k)) \in Nat
             /\ IsFiniteSet(Entered(d)) /\ Cardinality(Entered(d)) \in Nat
             /\ Cardinality(S(k)) <= Cardinality(Entered(d))
  <2>1. S(k) \in SUBSET Entered(d)
    OBVIOUS
  <2>2. S(k) \in SUBSET AllRows
    BY <1>2, <2>1
  <2> HIDE DEF S
  <2>3. IsFiniteSet(S(k)) /\ Cardinality(S(k)) \in Nat /\ IsFiniteSet(Entered(d)) /\ Cardinality(Entered(d)) \in Nat
    BY <1>2, <2>2, FiniteRows
  <2> QED  BY <2>1, <2>3, FS_Subset
<1>4. /\ e.slot = [k \in AllRows |-> Cardinality(S(k))] /\ e.used = Cardinality(Entered(d))
      /\ e = [slot |-> e.slot, used |-> e.used]
  BY DEF Compact
<1>5. e.used \in Nat
  <2>1. Cardinality(Entered(d)) \in Nat
    BY <1>2, FiniteRows
  <2> QED  BY <1>4, <2>1
<1>6. \A k \in AllRows : e.slot[k] = Cardinality(S(k))
  BY <1>4
<1> HIDE DEF e
<1>7. ASSUME NEW k \in AllRows, d.slot[k] = 0 PROVE e.slot[k] = 0
  <2>1. S(k) = {}
    BY <1>1, <1>2, <1>7
  <2> QED  BY <1>6, <2>1, FS_EmptySet
<1>8. ASSUME NEW k \in AllRows, d.slot[k] # 0 PROVE e.slot[k] # 0
  <2>1. k \in S(k)
    BY <1>1, <1>2, <1>8
  <2> HIDE DEF S
  <2> QED  BY <1>3, <1>6, <2>1, FS_EmptySet
<1>9. ASSUME NEW j \in AllRows, NEW k \in AllRows, d.slot[j] < d.slot[k] PROVE e.slot[j] < e.slot[k]
  <2>1. S(j) \in SUBSET S(k) /\ k \in S(k) /\ k \notin S(j)
    BY <1>1, <1>2, <1>9
  <2> HIDE DEF S
  <2>2. S(j) # S(k) /\ Cardinality(S(j)) <= Cardinality(S(k))
    BY <1>3, <2>1, FS_Subset
  <2>3. Cardinality(S(j)) # Cardinality(S(k))
    BY <1>3, <2>1, <2>2, FS_Subset
  <2> QED  BY <1>3, <1>6, <2>2, <2>3
<1>10. ASSUME NEW k \in AllRows PROVE e.slot[k] <= d.slot[k]
  <2> DEFINE f == [j \in S(k) |-> d.slot[j]]
             T == 1..d.slot[k]
  <2>1. f \in [S(k) -> T] /\ \A a, b \in S(k) : f[a] = f[b] => a = b
    BY <1>1, <1>2
  <2>2. IsFiniteSet(T) /\ Cardinality(T) = d.slot[k]
    <3>1. d.slot[k] \in Nat
      BY <1>1
    <3> QED  BY <3>1, UpTo
  <2> HIDE DEF f, S, T
  <2>3. f \in Injection(S(k), T)
    BY <2>1 DEF Injection, IsInjective
  <2>4. Cardinality(S(k)) <= Cardinality(T)
    BY <2>2, <2>3, FS_Injection
  <2> QED  BY <1>6, <2>2, <2>4
<1> HIDE DEF S
<1>11. \A k \in AllRows : e.slot[k] \in 0..e.used
  BY <1>3, <1>4, <1>5, <1>6
<1>12. ASSUME NEW j \in AllRows, NEW k \in AllRows, e.slot[j] = e.slot[k], e.slot[j] # 0 PROVE j = k
  <2>1. d.slot[j] # 0 /\ d.slot[j] \in Nat /\ d.slot[k] \in Nat /\ e.slot[j] \in Nat /\ e.slot[k] \in Nat
    BY <1>1, <1>7, <1>11, <1>12
  <2>2. ~(d.slot[j] < d.slot[k]) /\ ~(d.slot[k] < d.slot[j])
    BY <1>9, <1>12, <2>1
  <2>3. d.slot[j] = d.slot[k]
    BY <2>1, <2>2
  <2> QED  BY <1>1, <2>1, <2>3
<1>13. Array(e)
  <2>1. e.slot = [k \in AllRows |-> e.slot[k]]
    BY <1>4
  <2>2. e.slot \in [AllRows -> 0..e.used]
    BY <1>11, <2>1
  <2> QED  BY <1>4, <1>5, <1>12, <2>2 DEF Array
<1>14. \A k \in AllRows : e.slot[k] # 0 <=> d.slot[k] # 0
  BY <1>7, <1>8
<1> QED  BY <1>4, <1>9, <1>10, <1>13, <1>14 DEF e

\* An update takes in what it writes and lets go what it pops.
LEMMA AfterArray ==
    ASSUME NEW d, Array(d), NEW writes \in SUBSET AllRows, NEW out, NEW x \in After(d, writes, out)
    PROVE  /\ Array(x)
           /\ \A k \in AllRows : x.slot[k] # 0 <=> (d.slot[k] # 0 \/ k \in writes) /\ k \notin out
<1> DEFINE new == {k \in writes : d.slot[k] = 0}
           all == Cardinality(new)
<1>1. new \in SUBSET AllRows /\ all \in Nat /\ (\A k \in new : d.slot[k] = 0)
  BY FiniteRows
<1>2. /\ d.used \in Nat /\ \A k \in AllRows : d.slot[k] \in Nat
  BY DEF Array
<1>3. \A k \in AllRows : k \in new <=> d.slot[k] = 0 /\ k \in writes
  OBVIOUS
<1>4. PICK order \in Orders(new) :
          \/ x = Popped(Enter(d, order, 0, all), out)
          \/ \E n \in 0..all, gone \in SUBSET out :
                x = Popped(Enter(Compact(Popped(Enter(d, order, 0, n), gone)), order, n, all), out)
  BY DEF After
<1> HIDE DEF new, all
<1>5. \A k \in new : order[k] \in 1..all
  BY DEF Orders, all
<1>6. CASE x = Popped(Enter(d, order, 0, all), out)
  <2> DEFINE e == Enter(d, order, 0, all)
  <2>1. Array(e) /\ \A k \in AllRows : e.slot[k] = IF k \in new /\ 0 < order[k] /\ order[k] <= all
                                                   THEN d.used + order[k] - 0 ELSE d.slot[k]
    BY <1>1, EnteredArray
  <2> HIDE DEF e
  <2>2. \A k \in AllRows : e.slot[k] # 0 <=> d.slot[k] # 0 \/ k \in writes
    BY <1>1, <1>2, <1>3, <1>5, <2>1
  <2>3. Array(x) /\ \A k \in AllRows : x.slot[k] = IF k \in out THEN 0 ELSE e.slot[k]
    BY <1>6, <2>1, PoppedArray DEF e
  <2> QED  BY <2>2, <2>3
<1>7. CASE \E n \in 0..all, gone \in SUBSET out :
              x = Popped(Enter(Compact(Popped(Enter(d, order, 0, n), gone)), order, n, all), out)
  <2>1. PICK n \in 0..all, gone \in SUBSET out :
              x = Popped(Enter(Compact(Popped(Enter(d, order, 0, n), gone)), order, n, all), out)
    BY <1>7
  <2> DEFINE e1 == Enter(d, order, 0, n)
             e2 == Popped(e1, gone)
             e3 == Compact(e2)
             e4 == Enter(e3, order, n, all)
             late == {k \in new : n < order[k]}
  <2>2. n \in Nat /\ 0 <= n /\ n <= all
    BY <1>1, <2>1
  <2>3. Array(e1) /\ \A k \in AllRows : e1.slot[k] = IF k \in new /\ 0 < order[k] /\ order[k] <= n
                                                     THEN d.used + order[k] - 0 ELSE d.slot[k]
    BY <1>1, <2>2, EnteredArray
  <2> HIDE DEF e1
  <2>4. Array(e2) /\ \A k \in AllRows : e2.slot[k] = IF k \in gone THEN 0 ELSE e1.slot[k]
    BY <2>3, PoppedArray
  <2> HIDE DEF e2
  <2>5. Array(e3) /\ \A k \in AllRows : e3.slot[k] # 0 <=> e2.slot[k] # 0
    BY <2>4, CompactArray
  <2> HIDE DEF e3
  <2>6. /\ \A k \in AllRows : e1.slot[k] # 0 <=> d.slot[k] # 0 \/ (k \in new /\ order[k] <= n)
        /\ \A k \in AllRows : e3.slot[k] \in Nat
        /\ e3.used \in Nat
    BY <1>1, <1>2, <1>3, <1>5, <2>2, <2>3, <2>5 DEF Array
  <2>7. Array(e4) /\ \A k \in AllRows : e4.slot[k] = IF k \in new /\ n < order[k] /\ order[k] <= all
                                                     THEN e3.used + order[k] - n ELSE e3.slot[k]
    BY <1>1, <2>2, <2>5, EnteredArray
  <2> HIDE DEF e4
  <2>8. Array(x) /\ \A k \in AllRows : x.slot[k] = IF k \in out THEN 0 ELSE e4.slot[k]
    BY <2>1, <2>7, PoppedArray DEF e1, e2, e3, e4
  <2>9. \A k \in AllRows : e4.slot[k] # 0 <=> (k \in new /\ n < order[k]) \/ e3.slot[k] # 0
    BY <1>5, <1>1, <2>2, <2>6, <2>7
  <2>10. \A k \in AllRows : k \notin out =>
            (e4.slot[k] # 0 <=> (k \in new /\ n < order[k]) \/ d.slot[k] # 0 \/ (k \in new /\ order[k] <= n))
    BY <2>1, <2>4, <2>5, <2>6, <2>9
  <2>11. \A k \in AllRows : k \notin out => (e4.slot[k] # 0 <=> d.slot[k] # 0 \/ k \in new)
    BY <1>1, <1>5, <2>2, <2>10
  <2>12. \A k \in AllRows : k \notin out => (e4.slot[k] # 0 <=> d.slot[k] # 0 \/ k \in writes)
    BY <1>3, <2>11
  <2> QED  BY <2>8, <2>12
<1> QED  BY <1>4, <1>6, <1>7
-----------------------------------------------------------------------------
(* What is followed of a service.                                          *)

\* The dictionary of the clone goes on having the rows that the clone tracks.
LEMMA FollowArrayed ==
    ASSUME Arrayed, NEW mid, NEW joined, Follow(mid, joined),
           \A k \in AllRows : mid[k] = clone[k] \/ mid[k] # Untracked
    PROVE  Arrayed'
<1> DEFINE added == {k \in AllRows : mid[k] # clone[k]}
           lookedUp == Tracked(clone') \ Tracked(mid)
           out == Tracked(mid) \ Tracked(clone')
<1>0. \E d \in After(dictionary, added, {}) : dictionary' \in After(d, lookedUp, out)
  BY Zenon DEF Follow
<1>1. PICK d \in After(dictionary, added, {}) : dictionary' \in After(d, lookedUp, out)
  BY <1>0
<1>2. pops' = pops + Cardinality(out)
  BY DEF Follow
<1>3. added \in SUBSET AllRows /\ lookedUp \in SUBSET AllRows /\ out \in SUBSET AllRows
  BY DEF Tracked
<1> HIDE DEF added, lookedUp, out
<1>4. Array(d) /\ \A k \in AllRows : d.slot[k] # 0 <=> (dictionary.slot[k] # 0 \/ k \in added) /\ k \notin {}
  <2>1. {} \in SUBSET AllRows /\ Array(dictionary)
    BY DEF Arrayed
  <2> QED  BY <1>1, <1>3, <2>1, AfterArray
<1>5. /\ Array(dictionary')
      /\ \A k \in AllRows : dictionary'.slot[k] # 0 <=> (d.slot[k] # 0 \/ k \in lookedUp) /\ k \notin out
  BY <1>1, <1>3, <1>4, AfterArray
<1>6. \A k \in AllRows : dictionary'.slot[k] # 0 <=> clone'[k] # Untracked
  <2> SUFFICES ASSUME NEW k \in AllRows PROVE dictionary'.slot[k] # 0 <=> clone'[k] # Untracked
    OBVIOUS
  <2>1. dictionary.slot[k] # 0 <=> clone[k] # Untracked
    BY DEF Arrayed
  <2>2. d.slot[k] # 0 <=> mid[k] # Untracked
    BY <1>4, <2>1 DEF added
  <2> QED  BY <1>5, <2>2 DEF Tracked, lookedUp, out
<1>7. pops' \in Nat
  BY <1>2, <1>3, FiniteRows DEF Arrayed, out
<1> QED  BY <1>5, <1>6, <1>7 DEF Arrayed

\* Rows that share an item go on doing so.
LEMMA FollowKeeps ==
    ASSUME ContractsInvariant, NEW mid, NEW joined \in SUBSET (AllRows \X AllRows), Follow(mid, joined),
           ServicesInvariant', Tidy, Gains,
           \A k \in AllRows : mid[k] = clone[k] \/ mid[k] # Untracked,
           ~torn => \A p \in joined : clone'[p[1]].state \in TrackState /\ clone'[p[2]].state \in TrackState =>
                       p[1][2] = p[2][2] /\ Mentions[p[1][2]] # {} /\ <<p[2], p[1]>> \in joined
    PROVE  ContractsInvariant'
<1>1. Arrayed'
  BY FollowArrayed DEF ContractsInvariant
<1>2. sharing' = {p \in sharing \union joined : clone'[p[1]].state \in TrackState
                                              /\ clone'[p[2]].state \in TrackState}
  BY DEF Follow
<1>3. \A p \in joined : p = <<p[1], p[2]>> /\ p[1] \in AllRows /\ p[2] \in AllRows
  OBVIOUS
<1>4. Held'
  BY <1>2, <1>3 DEF Held, ContractsInvariant
<1>5. ASSUME ~torn PROVE Sharing'
  <2>1. Sharing /\ Orderly /\ Touches /\ shared' = shared
    BY <1>5 DEF ContractsInvariant, ServicesInvariant, Tidy, Gains
  <2>2. Twins(sharing')
    <3> SUFFICES ASSUME NEW p \in sharing'
                 PROVE  /\ p = <<p[1], p[2]>> /\ p[1] \in AllRows /\ p[2] \in AllRows
                        /\ p[1][2] = p[2][2] /\ Mentions[p[1][2]] # {}
                        /\ <<p[2], p[1]>> \in sharing'
      BY DEF Twins
    <3>1. /\ clone'[p[1]].state \in TrackState /\ clone'[p[2]].state \in TrackState
          /\ p \in sharing \/ p \in joined
      BY <1>2
    <3>2. <<p[2], p[1]>>[1] = p[2] /\ <<p[2], p[1]>>[2] = p[1]
      OBVIOUS
    <3>3. CASE p \in sharing
      <4>1. /\ p = <<p[1], p[2]>> /\ p[1] \in AllRows /\ p[2] \in AllRows
            /\ p[1][2] = p[2][2] /\ Mentions[p[1][2]] # {}
            /\ <<p[2], p[1]>> \in sharing
        BY <2>1, <3>3 DEF Sharing, Twins
      <4> QED  BY <1>2, <3>1, <3>2, <4>1
    <3>4. CASE p \in joined
      <4>1. /\ p = <<p[1], p[2]>> /\ p[1] \in AllRows /\ p[2] \in AllRows
            /\ p[1][2] = p[2][2] /\ Mentions[p[1][2]] # {}
            /\ <<p[2], p[1]>> \in joined
        BY <1>3, <1>5, <3>1, <3>4
      <4> QED  BY <1>2, <3>1, <3>2, <4>1
    <3> QED  BY <3>1, <3>3, <3>4
  <2>3. \A p \in shared : p[1] \in Key /\ top[p[1]].state \in {"ADDED", "CHANGED"}
    BY <2>1, RowShapes DEF Sharing, Twins
  <2>4. \A p \in shared : top'[p[1]] = top[p[1]]
    BY <2>1, <2>3, FixedShapes DEF Touches
  <2>5. Twins(shared)
    BY <2>1 DEF Sharing
  <2> QED  BY <2>1, <2>2, <2>3, <2>4, <2>5 DEF Sharing
<1>6. ~torn' => Sharing'
  BY <1>5 DEF Gains
<1> QED  BY <1>1, <1>4, <1>6 DEF ContractsInvariant

\* Rows that share an item after a migration have one suffix; it mentions the contract that
\* is destroyed, or the item was shared before.
LEMMA JoinedTwins ==
    ASSUME ContractsInvariant, ~torn, NEW c \in Hash, NEW state \in StateOf, ServicesInvariant', Tidy,
           Current \in Hash => \A k \in Rows(Current) : InvocationView'[k] = Null
    PROVE  /\ Joined(c, state) \in SUBSET (AllRows \X AllRows)
           /\ \A p \in Joined(c, state) :
                 clone'[p[1]].state \in TrackState /\ clone'[p[2]].state \in TrackState =>
                       p[1][2] = p[2][2] /\ Mentions[p[1][2]] # {} /\ <<p[2], p[1]>> \in Joined(c, state)
<1>1. Joined(c, state) \in SUBSET (AllRows \X AllRows)
  BY DEF Joined
<1>2. ASSUME NEW p \in Joined(c, state), clone'[p[1]].state \in TrackState, clone'[p[2]].state \in TrackState
      PROVE  p[1][2] = p[2][2] /\ Mentions[p[1][2]] # {} /\ <<p[2], p[1]>> \in Joined(c, state)
  <2>1. PICK k \in Lent(c, state), j \in AllRows :
            /\ j = k \/ <<k, j>> \in sharing
            /\ p \in {<<Row(c, k[2]), j>>, <<j, Row(c, k[2])>>}
    BY <1>2 DEF Joined
  <2> DEFINE r == Row(c, k[2])
  <2>2. k \in Containing(Current) /\ k[2] \in Suffix /\ Current \in Hash
    BY <2>1, CopiesAreRows DEF Lent, ContractsInvariant, ServicesInvariant
  <2>3. r \in AllRows /\ r[2] = k[2]
    BY <2>2, KeyShapes, RowShapes
  <2>4. j[2] = k[2] /\ (j = k \/ Mentions[k[2]] # {})
    <3>1. Twins(sharing)
      BY DEF ContractsInvariant, Sharing
    <3>2. <<k, j>> \in sharing => k[2] = j[2] /\ Mentions[k[2]] # {}
      <4>1. <<k, j>>[1] = k /\ <<k, j>>[2] = j
        OBVIOUS
      <4> QED  BY <3>1, <4>1 DEF Twins
    <3> QED  BY <2>1, <3>2
  <2>5. <<p[2], p[1]>> \in Joined(c, state) /\ p[1][2] = p[2][2] /\ p[1][2] = k[2] /\ (p[1] = j \/ p[2] = j)
    <3>1. <<p[2], p[1]>> \in {<<r, j>>, <<j, r>>} /\ <<p[2], p[1]>> \in AllRows \X AllRows
      BY <2>1, <2>3
    <3>2. <<p[2], p[1]>> \in Joined(c, state)
      <4> HIDE DEF r
      <4> QED  BY <2>1, <3>1 DEF Joined, r
    <3> QED  BY <2>1, <2>3, <2>4, <3>2
  <2>6. clone'[j].state \in TrackState /\ j \in AllRows
    BY <1>2, <2>1, <2>5
  <2>7. Mentions[k[2]] # {}
    <3> SUFFICES ASSUME j = k, Mentions[k[2]] = {} PROVE FALSE
      BY <2>4
    <3>1. k \in Rows(Current)
      <4> SUFFICES ASSUME NEW d \in Hash, NEW s \in Suffix, k = Row(d, s), Current \in Mentions[s] PROVE FALSE
        BY <2>2 DEF Containing
      <4>1. k[2] = s
        BY KeyShapes
      <4> QED  BY <4>1
    <3>2. InvocationView'[k] = Null /\ k \in Key
      BY <2>2, <2>6, <3>1, RowShapes
    <3>3. clone' \in [Key -> Entry] /\ InvocationView' = View(clone', BlockView)
      BY DEF Tidy, Within, InvocationView
    <3>4. InvocationView'[k] = clone'[k].item
      BY <2>6, <3>2, <3>3, FixedShapes DEF View, TrackState
    <3>5. clone'[k] \in Entry
      BY <3>2, <3>3
    <3> QED  BY <2>6, <3>2, <3>4, <3>5, EntryShapes, NullAssumption
  <2> QED  BY <2>5, <2>7
<1> QED  BY <1>1, <1>2

LEMMA ServiceKeeps ==
    ASSUME ContractsInvariant, Service, Follow(clone, {})
    PROVE  ContractsInvariant' /\ Tidy
<1>1. ASSUME NEW c \in Hash, \/ AppCall(c) \/ BlockchainGetContract(c) \/ ContractGetStorageContext(c)
      PROVE  ServicesInvariant' /\ Tidy
  BY <1>1, GetContextsKeep
<1>2. ASSUME NEW readOnly \in BOOLEAN, Return \/ StorageGetContext(readOnly)
      PROVE  ServicesInvariant' /\ Tidy
  BY <1>2, GetContextsKeep
<1>3. ASSUME NEW ctx \in contexts, NEW s \in Suffix, StorageGet(ctx, s)
      PROVE  ServicesInvariant' /\ Tidy
  BY <1>3, StorageGetKeeps
<1>4. ASSUME NEW ctx \in contexts, NEW s \in Suffix, (\E v \in RowItem : StoragePut(ctx, s, v)) \/ StorageDelete(ctx, s)
      PROVE  ServicesInvariant' /\ Tidy
  BY <1>4, StorageWriteKeeps
<1>5. ASSUME NEW c \in Hash, NEW state \in StateOf, ContractCreate(c, state)
      PROVE  ServicesInvariant' /\ Tidy
  BY <1>5, ContractCreateKeeps
<1>6. ASSUME ContractDestroy PROVE ServicesInvariant' /\ Tidy
  BY <1>6, ContractDestroyKeeps
<1>7. ServicesInvariant' /\ Tidy
  <2>1. Return => \E readOnly \in BOOLEAN : Return \/ StorageGetContext(readOnly)
    OBVIOUS
  <2> QED  BY <2>1, <1>1, <1>2, <1>3, <1>4, <1>5, <1>6 DEF Service
<1>8. Gains
  <2>1. ASSUME NEW c \in Hash, NEW state \in StateOf, ContractCreate(c, state)
        PROVE  Gains
    <3>1. level = "invoke" /\ Control
      BY <2>1 DEF ContractCreate, Calls, ContractsInvariant, ServicesInvariant
    <3>2. Current \in ran
      <4>1. Len(running) \in 1..Len(running)
        BY <3>1 DEF Control
      <4> QED  BY <3>1, <4>1 DEF Control, Current
    <3>3. Current # Nobody
      BY <3>1, <3>2, ColumnsAssumption DEF Control
    <3> QED  BY <2>1, <3>1, <3>3 DEF ContractCreate, Calls, listing, Gains, Control
  <2>2. CASE \E c \in Hash, state \in StateOf : ContractCreate(c, state)
    BY <2>1, <2>2
  <2>3. CASE ~\E c \in Hash, state \in StateOf : ContractCreate(c, state)
    BY <2>3 DEF Service, AppCall, Return, StorageGetContext, BlockchainGetContract, ContractGetStorageContext,
       StorageGet, StoragePut, StorageDelete, ContractDestroy, Calls, listing, engine, Gains
  <2> QED  BY <2>2, <2>3
<1> QED  BY <1>7, <1>8, FollowKeeps

LEMMA MigrateKeeps ==
    ASSUME ContractsInvariant, NEW c \in Hash, NEW state \in StateOf, ContractMigrate(c, state),
           Follow(Filled(c, state), Joined(c, state))
    PROVE  ContractsInvariant' /\ Tidy
<1>1. /\ ServicesInvariant' /\ Tidy /\ Gains
      /\ \A k \in AllRows : Filled(c, state)[k] = clone[k] \/ Filled(c, state)[k] # Untracked
      /\ Orderly /\ Current \in Hash => \A k \in Rows(Current) : InvocationView'[k] = Null
  BY ContractMigrateKeeps
<1>2. Joined(c, state) \in SUBSET (AllRows \X AllRows)
  BY DEF Joined
<1>3. ~torn => \A p \in Joined(c, state) :
                  clone'[p[1]].state \in TrackState /\ clone'[p[2]].state \in TrackState =>
                       p[1][2] = p[2][2] /\ Mentions[p[1][2]] # {} /\ <<p[2], p[1]>> \in Joined(c, state)
  BY <1>1, JoinedTwins DEF ContractsInvariant, ServicesInvariant
<1> QED  BY <1>1, <1>2, <1>3, FollowKeeps

\* Find and Next change no row of the clone.
LEMMA IteratorKeeps ==
    ASSUME ContractsInvariant, (\E ctx \in contexts : StorageFind(ctx)) \/ IteratorNext
    PROVE  ContractsInvariant' /\ Tidy /\ InvocationView' = InvocationView /\ BlockView' = BlockView
<1>1. PICK ctx : StorageFind(ctx) \/ IteratorNext
  OBVIOUS
<1>2. /\ ServicesInvariant' /\ Tidy /\ Gains /\ InvocationView' = InvocationView /\ Touches
      /\ \A k \in AllRows : clone'[k] = clone[k]
  BY <1>1, StorageGetKeeps
<1>3. UNCHANGED <<objects, shared, torn>>
  BY <1>1 DEF StorageFind, IteratorNext, Calls, listing
<1>4. Arrayed' /\ Held'
  BY <1>2, <1>3 DEF ContractsInvariant, Arrayed, Held, objects, Array
<1>5. ASSUME ~torn PROVE Sharing'
  <2>1. Sharing
    BY <1>5 DEF ContractsInvariant
  <2>2. \A p \in shared : p[1] \in Key /\ top[p[1]].state \in {"ADDED", "CHANGED"}
    BY <2>1, RowShapes DEF Sharing, Twins
  <2>3. \A p \in shared : top'[p[1]] = top[p[1]]
    BY <1>2, <2>2, FixedShapes DEF Touches
  <2> QED  BY <1>3, <2>1, <2>2, <2>3 DEF Sharing, Twins, objects
<1> QED  BY <1>2, <1>3, <1>4, <1>5 DEF ContractsInvariant, Tidy, Within

-----------------------------------------------------------------------------
(* The block around the executions.                                        *)

\* A set of naturals has a least element.
LEMMA LeastOf ==
    ASSUME NEW T \in SUBSET Nat, T # {}
    PROVE  \E x \in T : \A y \in T : x <= y
<1> DEFINE R == OpToRel(<, Nat)
<1>1. IsWellFoundedOn(R, Nat)
  BY NatLessThanWellFounded
<1>2. \A x, y \in Nat : x < y => <<x, y>> \in R
  BY DEF OpToRel
<1> HIDE DEF R
<1>3. \E x \in T : \A y \in T : ~(<<y, x>> \in R)
  BY <1>1, WFMin
<1>4. PICK x \in T : \A y \in T : ~(<<y, x>> \in R)
  BY <1>3
<1>5. ASSUME NEW y \in T PROVE x <= y
  <2>1. x \in Nat /\ y \in Nat /\ ~(y < x)
    BY <1>2, <1>4
  <2> QED  BY <2>1
<1> QED  BY <1>5

LEMMA ViewsKept ==
    ASSUME UNCHANGED <<db, top, clone>>
    PROVE  BlockView' = BlockView /\ InvocationView' = InvocationView
  BY DEF BlockView, InvocationView, View

\* Where no execution runs, no entry of the clone is there to be shared or authorised.
LEMMA NothingHeld ==
    ASSUME Held, clone = EmptyCache
    PROVE  sharing = {}
<1>1. \A k \in AllRows : clone[k].state = "UNTRACKED"
  BY RowShapes, FixedShapes DEF EmptyCache
<1> QED  BY <1>1 DEF Held, TrackState

LEMMA NothingAuthorised ==
    ASSUME clone = EmptyCache, InvocationView = BlockView
    PROVE  Authorised
<1>1. \A k \in Key : clone[k] = Untracked
  BY DEF EmptyCache
<1> QED  BY <1>1, KeyShapes DEF Authorised

\* Steps that leave the stored items, the caches and what there is to list as they are.
LEMMA QuietKeeps ==
    ASSUME ContractsInvariant, UNCHANGED <<db, top, clone, torn, published, emitted, tokens>>,
           UNCHANGED <<sharing, shared, dictionary, pops>>,
           level' \in {"idle", "block", "invoke"},
           level' # "invoke" => clone = EmptyCache, level' = "idle" => level = "idle",
           Control', Authorised'
    PROVE  ContractsInvariant'
<1> USE DEF ContractsInvariant, ServicesInvariant
<1>1. BlockView' = BlockView /\ InvocationView' = InvocationView
  BY ViewsKept
<1>2. Typed'
  BY DEF Typed
<1>3. Announced'
  BY <1>1 DEF Announced
<1>4. ~torn' => Orderly'
  BY <1>1 DEF Orderly, Tracks, Owned, Fitting
<1>5. Held' /\ Arrayed' /\ (~torn' => Sharing')
  BY DEF Held, Arrayed, Array, Sharing, Twins
<1> QED  BY <1>2, <1>3, <1>4, <1>5

LEMMA OpenInvokeKeep ==
    ASSUME ContractsInvariant, Open \/ Invoke
    PROVE  ContractsInvariant'
<1> USE DEF ContractsInvariant, ServicesInvariant
<1>1. BlockView' = BlockView /\ InvocationView' = InvocationView
  BY ViewsKept DEF Open, OpenSnapshot, Invoke, BeginInvocation
<1>2. level # "invoke" /\ clone = EmptyCache /\ InvocationView = BlockView /\ clone' = clone
  BY ViewTypes DEF Open, OpenSnapshot, Invoke, BeginInvocation, Typed
<1>3. Authorised'
  <2>1. \A k \in Key : clone'[k] = Untracked
    BY <1>2 DEF EmptyCache
  <2> QED  BY <1>1, <1>2, <2>1, KeyShapes DEF Authorised
<1>4. CASE Open
  <2>1. level = "idle" /\ level' = "block" /\ emitted = {} /\ emitted' = {}
    BY <1>4 DEF Open, OpenSnapshot, Announced
  <2>2. Control'
    BY <1>4, <2>1 DEF Open, Control, Reached
  <2> QED  BY <1>2, <1>3, <1>4, <2>1, <2>2, QuietKeeps DEF Open, OpenSnapshot, objects
<1>5. CASE Invoke
  <2>1. level = "block" /\ level' = "invoke"
    BY <1>5 DEF Invoke, BeginInvocation
  <2>2. Control'
    <3>1. <<Script>> \in Seq({Script}) /\ <<Script>> # << >>
      OBVIOUS
    <3> QED  BY <1>5, <3>1 DEF Invoke, Control
  <2> QED  BY <1>3, <1>5, <2>1, <2>2, QuietKeeps DEF Invoke, BeginInvocation, listing, objects
<1> QED  BY <1>4, <1>5

LEMMA PublishKeeps ==
    ASSUME ContractsInvariant, NEW c \in Hash, NEW state \in StateOf, Publish(c, state)
    PROVE  ContractsInvariant'
<1> USE DEF ContractsInvariant, ServicesInvariant
<1> DEFINE k == Contract(c)
<1>1. k \in Key /\ state \in Value /\ state # Null /\ k \notin AllRows
  BY KeyShapes, RowShapes, ColumnsAssumption, NullAssumption DEF StateOf
<1>2. /\ level = "block" /\ UNCHANGED <<db, clone, level>> /\ clone = EmptyCache
      /\ db \in [Key -> Item] /\ top \in [Key -> Entry]
      /\ BlockView = View(top, db) /\ BlockView' = View(top', db)
  BY DEF Publish, BlockGetOrAdd, Typed, BlockView
<1>3. top' = GetOrAdd(top, db, k, state)
  BY DEF Publish, BlockGetOrAdd
<1> HIDE DEF k
<1>4. /\ top' \in [Key -> Entry]
      /\ \A j \in Key : j # k => BlockView'[j] = BlockView[j] /\ top'[j] = top[j]
      /\ BlockView'[k] = BlockView[k] \/ (BlockView[k] = Null /\ BlockView'[k] = state)
      /\ Tracks(top, db) => Tracks(top', db)
  <2>1. CASE BlockView[k] = Null
    <3>1. top' = Put(top, db, k, state)
      BY <1>2, <1>3, <2>1 DEF GetOrAdd
    <3>2. Shows(top[k], top'[k], db[k], state)
      BY <1>1, <1>2, <3>1, PutEntry
    <3>3. top' \in [Key -> Entry] /\ \A j \in Key : j # k => top'[j] = top[j]
      BY <1>1, <1>2, <3>1, <3>2 DEF Put, Shows
    <3> QED  BY <1>1, <1>2, <2>1, <3>2, <3>3, EntryByEntry DEF Shows
  <2>2. CASE BlockView[k] # Null
    <3>1. top' = TryGet(top, db, k)
      BY <1>2, <1>3, <2>2 DEF GetOrAdd
    <3>2. \A j \in Key : Keeps(top[j], top'[j], db[j]) /\ (j # k => top'[j] = top[j])
      <4>1. top' = [j \in Key |-> IF j = k THEN TryGet(top, db, k)[k] ELSE top[j]]
        BY <1>2, <3>1 DEF TryGet
      <4> QED  BY <1>1, <1>2, <4>1, LookedUpEntry
    <3>3. top' = [j \in Key |-> top'[j]]
      BY <1>2, <3>1 DEF TryGet
    <3>4. /\ top' \in [Key -> Entry] /\ View(top', db) = View(top, db)
          /\ Tracks(top, db) => Tracks(top', db)
      BY <1>2, <3>2, <3>3, KeepsAll
    <3> QED  BY <1>2, <3>2, <3>4
  <2> QED  BY <2>1, <2>2
<1>5. Typed'
  BY <1>2, <1>4 DEF Typed, Publish
<1>6. BlockView' \in [Key -> Item] /\ InvocationView' = BlockView' /\ InvocationView = BlockView
  <2>1. BlockView' \in [Key -> Item]
    BY <1>2, <1>4, ViewType
  <2>2. InvocationView' = View(EmptyCache, BlockView')
    BY <1>2 DEF InvocationView
  <2> QED  BY <1>2, <2>1, <2>2, EmptyTracks, ViewTypes
<1>7. Control'
  BY <1>2, EngineKept DEF Publish
<1>8. UNCHANGED <<torn, tokens, emitted, sharing, shared, dictionary, pops>> /\ published' = published \union {c}
  BY DEF Publish, engine, objects
<1>9. \A d \in Hash : d # c => Contract(d) # k
  BY KeyShapes DEF k
<1>10. Announced'
  <2> SUFFICES ASSUME NEW d \in Hash, d # c, db[Contract(d)] # Null \/ BlockView'[Contract(d)] # Null
               PROVE  d \in published \union emitted \union tokens
    BY <1>2, <1>6, <1>8 DEF Announced
  <2>1. BlockView'[Contract(d)] = BlockView[Contract(d)]
    BY <1>4, <1>9, KeyShapes
  <2> QED  BY <2>1 DEF Announced
<1>11. Authorised'
  <2>1. \A j \in Key : clone'[j] = Untracked
    BY <1>2 DEF EmptyCache
  <2> QED  BY <1>6, <2>1, KeyShapes DEF Authorised
<1>12. ~torn' => Orderly'
  <2> SUFFICES ASSUME Orderly PROVE Fitting(clone, BlockView') /\ Owned(BlockView')
    BY <1>2, <1>4, <1>6, <1>8 DEF Orderly
  <2>1. Fitting(clone, BlockView')
    BY <1>2, EmptyFits
  <2>2. \A d \in Hash : \A j \in Rows(d) : j \in Key /\ j # k /\ BlockView'[j] = BlockView[j]
    BY <1>4, KeyShapes DEF k
  <2>3. BlockView[k] = Null => \A j \in Rows(c) : BlockView[j] = Null
    BY ColumnsAssumption, NullAssumption DEF Orderly, Owned, HasStorage, k
  <2>4. \A d \in Hash : d # c => BlockView'[Contract(d)] = BlockView[Contract(d)]
    BY <1>4, <1>9, KeyShapes
  <2>5. Owned(BlockView')
    <3> SUFFICES ASSUME NEW d \in Hash, NEW j \in Rows(d), BlockView'[j] # Null
                 PROVE  HasStorage(BlockView'[Contract(d)])
      BY DEF Owned
    <3>1. BlockView'[Contract(d)] = BlockView[Contract(d)]
      BY <1>4, <2>2, <2>3, <2>4 DEF k
    <3> QED  BY <2>2, <3>1 DEF Orderly, Owned
  <2> QED  BY <2>1, <2>5
<1>13. Held' /\ Arrayed'
  BY <1>2, <1>8 DEF Held, Arrayed, Array
<1>14. ASSUME ~torn PROVE Sharing'
  <2>1. \A p \in shared : p[1] \in AllRows /\ p[1] \in Key /\ p[1] # k
    BY <1>1, <1>14, RowShapes DEF Sharing, Twins
  <2> QED  BY <1>4, <1>8, <1>14, <2>1 DEF Sharing, Twins
<1> QED  BY <1>5, <1>7, <1>8, <1>10, <1>11, <1>12, <1>13, <1>14
\* What committing one entry e of the clone, which does not raise, can show in the cache
\* below: what was seen there, or what e holds.
LEMMA CommittedEntry ==
    ASSUME NEW p \in [Key -> Entry], NEW inner \in [Key -> Item], NEW k \in Key, NEW e \in Entry,
           ~CommitRaises(e, p, inner, k)
    PROVE  /\ CommitEntry(e, p, inner, k) \in Entry
           /\ Seen(CommitEntry(e, p, inner, k), inner[k]) \in {View(p, inner)[k], inner[k], e.item, Null}
<1> DEFINE f == CommitEntry(e, p, inner, k)
<1>0. View(p, inner) \in [Key -> Item] /\ View(p, inner)[k] = Seen(p[k], inner[k])
  BY ViewType, EntryByEntry
<1>1. CASE e.state = "ADDED"
  <2>1. e.item \in Value /\ f = Add(p, k, e.item)[k]
    BY <1>1, EntryShapes DEF CommitEntry, TrackState
  <2> QED  BY <2>1, AddEntry
<1>2. CASE e.state = "CHANGED"
  <2> DEFINE v == AfterFromReplica(k, View(p, inner)[k], e.item)
  <2>1. e.item \in Value /\ f = Put(p, inner, k, v)[k]
    BY <1>2, EntryShapes DEF CommitEntry, TrackState
  <2>2. View(p, inner)[k] \in Value
    BY <1>0, <1>2 DEF CommitRaises, GetAndChangeRaises, Item
  <2>3. v \in Value /\ v \in {e.item, View(p, inner)[k]}
    BY <2>1, <2>2 DEF AfterFromReplica
  <2> HIDE DEF v, f
  <2>4. f \in Entry /\ Seen(f, inner[k]) = v
    BY <2>1, <2>3, PutEntry DEF Shows
  <2> QED  BY <2>3, <2>4 DEF f
<1>3. CASE e.state = "DELETED"
  <2>1. f = Delete(p, inner, k)[k]
    BY <1>3 DEF CommitEntry
  <2> QED  BY <2>1, DeleteEntry
<1>4. CASE e.state \notin {"ADDED", "CHANGED", "DELETED"}
  BY <1>0, <1>4 DEF CommitEntry
<1> QED  BY <1>1, <1>2, <1>3, <1>4

LEMMA FilteredIs ==
    ASSUME Typed
    PROVE  Filtered = clone
  BY ColumnsAssumption DEF Typed, Filtered, DeleteWhere

\* A commit, of all keys or of some, shows nothing that was not there at some level.
LEMMA CommittedSees ==
    ASSUME Typed, NEW ks \in SUBSET Key, ks \intersect RaisingKeys = {},
           NEW q, q = CommitInto(Filtered, top, db, ks)
    PROVE  /\ q \in [Key -> Entry]
           /\ \A k \in Key : View(q, db)[k] # Null =>
                 db[k] # Null \/ BlockView[k] # Null \/ InvocationView[k] # Null
<1>1. /\ db \in [Key -> Item] /\ top \in [Key -> Entry] /\ clone \in [Key -> Entry]
      /\ BlockView \in [Key -> Item] /\ BlockView = View(top, db)
      /\ Filtered = clone
  BY FilteredIs, ViewTypes DEF Typed, BlockView
<1>2. q = [k \in Key |-> IF k \in ks THEN CommitEntry(clone[k], top, db, k) ELSE top[k]]
  BY <1>1 DEF CommitInto
<1>3. \A k \in ks : ~CommitRaises(clone[k], top, db, k)
  BY <1>1 DEF RaisingKeys
<1>4. ASSUME NEW k \in Key
      PROVE  q[k] \in Entry /\ Seen(q[k], db[k]) \in {BlockView[k], db[k], clone[k].item, Null}
  <2>1. CASE k \in ks
    BY <1>1, <1>2, <1>3, <2>1, CommittedEntry
  <2>2. CASE k \notin ks
    BY <1>1, <1>2, <2>2, EntryByEntry
  <2> QED  BY <2>1, <2>2
<1>5. q \in [Key -> Entry]
  <2>1. q = [k \in Key |-> q[k]]
    BY <1>2
  <2> QED  BY <1>4, <2>1
<1>6. \A k \in Key : clone[k].item # Null => InvocationView[k] # Null
  BY <1>1, FixedShapes DEF InvocationView, View
<1>7. \A k \in Key : View(q, db)[k] = Seen(q[k], db[k])
  BY <1>1, <1>5, EntryByEntry
<1> QED  BY <1>4, <1>5, <1>6, <1>7

-----------------------------------------------------------------------------
(* The end of an execution.                                                *)

\* The last writer of an item is one of them.
LEMMA LastIsOne ==
    ASSUME Arrayed, NEW K \in SUBSET AllRows, K # {}
    PROVE  LastOf(K) \in K
<1> DEFINE T == {dictionary.used - dictionary.slot[j] : j \in K}
<1>1. dictionary.used \in Nat /\ \A j \in AllRows : dictionary.slot[j] \in 0..dictionary.used
  BY DEF Arrayed, Array
<1>2. T \in SUBSET Nat /\ T # {}
  BY <1>1
<1>3. PICK x \in T : \A y \in T : x <= y
  BY <1>2, LeastOf
<1>4. PICK k \in K : x = dictionary.used - dictionary.slot[k]
  BY <1>3
<1>5. ASSUME NEW j \in K PROVE dictionary.slot[j] <= dictionary.slot[k]
  <2>1. dictionary.used - dictionary.slot[j] \in T
    OBVIOUS
  <2> HIDE DEF T
  <2>2. dictionary.used - dictionary.slot[k] <= dictionary.used - dictionary.slot[j]
    BY <1>3, <1>4, <2>1
  <2>3. dictionary.slot[j] \in Nat /\ dictionary.slot[k] \in Nat /\ dictionary.used \in Nat
    BY <1>1
  <2> QED  BY <2>2, <2>3
<1> QED  BY <1>5 DEF LastOf

\* A commit that shares items differs from one that does not in the items of rows that
\* stay, and these are items too.
LEMMA CommittedAre ==
    ASSUME Typed, Arrayed, RaisingKeys = {}, NEW q, q = CommitInto(Filtered, top, db, Key)
    PROVE  /\ Committed \in [Key -> Entry]
           /\ \A k \in Key : /\ Committed[k].state = q[k].state
                             /\ Committed[k] = Untracked <=> q[k] = Untracked
                             /\ Committed[k].item = Null <=> q[k].item = Null
                             /\ Committed[k] = q[k] \/ (k \in AllRows /\ Writers(k) # {} /\ q[k].state \in TrackState)
<1>1. q \in [Key -> Entry] /\ Filtered = clone /\ clone \in [Key -> Entry]
  BY CommittedSees, FilteredIs DEF Typed
<1> DEFINE item(k) == Filtered[LastOf(Writers(k))].item
<1>2. \A k \in Key : Committed[k] = IF k \in AllRows /\ Writers(k) # {} /\ q[k].state \in TrackState
                                    THEN [q[k] EXCEPT !.item = item(k)] ELSE q[k]
  BY DEF Committed
<1>3. ASSUME NEW k \in Key, k \in AllRows /\ Writers(k) # {} PROVE item(k) \in Value
  <2>1. LastOf(Writers(k)) \in Writers(k)
    BY <1>3, LastIsOne DEF Writers
  <2>2. LastOf(Writers(k)) \in Key /\ Filtered[LastOf(Writers(k))].state = "CHANGED"
    BY <2>1, RowShapes DEF Writers
  <2> QED  BY <1>1, <2>2, EntryShapes DEF TrackState
<1> HIDE DEF item
<1>4. ASSUME NEW e \in Entry, e.state \in TrackState, NEW v \in Value
      PROVE  [e EXCEPT !.item = v] = Trackable(e.state, v)
  <2>1. e = [state |-> e.state, item |-> e.item]
    BY <1>4 DEF Entry, Untracked, DeletedEntry, Trackable
  <2> QED  BY <2>1 DEF Trackable
<1>5. ASSUME NEW k \in Key
      PROVE  /\ Committed[k] \in Entry
             /\ Committed[k].state = q[k].state
             /\ Committed[k] = Untracked <=> q[k] = Untracked
             /\ Committed[k].item = Null <=> q[k].item = Null
             /\ Committed[k] = q[k] \/ (k \in AllRows /\ Writers(k) # {} /\ q[k].state \in TrackState)
  <2>1. CASE k \in AllRows /\ Writers(k) # {} /\ q[k].state \in TrackState
    <3>1. Committed[k] = Trackable(q[k].state, item(k))
      BY <1>1, <1>2, <1>3, <1>4, <2>1
    <3>2. q[k] # Untracked /\ q[k].item \in Value /\ item(k) \in Value
      BY <1>1, <1>3, <2>1, EntryShapes, FixedShapes DEF TrackState
    <3> QED  BY <2>1, <3>1, <3>2, TrackableShape, NullAssumption
  <2>2. CASE ~(k \in AllRows /\ Writers(k) # {} /\ q[k].state \in TrackState)
    BY <1>1, <1>2, <2>2
  <2> QED  BY <2>1, <2>2
<1>6. Committed = [k \in Key |-> Committed[k]]
  BY DEF Committed
<1>7. Committed \in [Key -> Entry]
  BY <1>5, <1>6
<1> QED  BY <1>5, <1>7

\* A commit that does not raise hands the block the contracts the execution saw, and the
\* rows, if not their items; and rows that share an item are changed rows.
LEMMA CommittedShows ==
    ASSUME Typed, Orderly, Arrayed, Held, Sharing, RaisingKeys = {}
    PROVE  /\ Tracks(Committed, db)
           /\ \A k \in Key : /\ View(Committed, db)[k] = Null <=> InvocationView[k] = Null
                             /\ k \notin AllRows => View(Committed, db)[k] = InvocationView[k]
           /\ Twins(SharedAfterCommit)
           /\ \A p \in SharedAfterCommit : Committed[p[1]].state \in {"ADDED", "CHANGED"}
<1> DEFINE q == CommitInto(Filtered, top, db, Key)
<1>1. /\ db \in [Key -> Item] /\ top \in [Key -> Entry] /\ clone \in [Key -> Entry]
      /\ BlockView \in [Key -> Item] /\ BlockView = View(top, db)
      /\ Filtered = clone /\ Tracks(top, db) /\ Fitting(clone, BlockView)
      /\ \A k \in Key : Agrees(top[k], db[k])
  BY FilteredIs, ViewTypes, EntryByEntry DEF Typed, Orderly, BlockView
<1>2. q \in [Key -> Entry] /\ \A k \in Key : q[k] = CommitEntry(clone[k], top, db, k)
  <2>1. q \in [Key -> Entry]
    BY CommittedSees
  <2> QED  BY <1>1, <2>1 DEF CommitInto
<1> HIDE DEF q
<1>3. \A k \in Key : InvocationView[k] = Seen(clone[k], BlockView[k]) /\ BlockView[k] = Seen(top[k], db[k])
  BY <1>1, EntryByEntry DEF InvocationView
<1>4. \A k \in Key : clone[k].state \notin {"ADDED", "CHANGED", "DELETED"} => q[k] = top[k]
  BY <1>2 DEF CommitEntry
<1>5. \A k \in Key : ~CommitRaises(clone[k], top, db, k)
  BY <1>1 DEF RaisingKeys
<1>6. \A k \in Key : clone[k].state = "CHANGED" => Replica[k] = "copies"
  <2>1. \A k \in Key : clone[k].state = "CHANGED" => Replica[k] # "missing"
    BY <1>5 DEF CommitRaises
  <2>2. \A k \in Key : Replica[k] \in {"copies", "missing"}
    BY KeyShapes, ColumnsAssumption DEF KeysOf
  <2> QED  BY <2>1, <2>2
<1>7. ASSUME NEW k \in Key
      PROVE  /\ Agrees(q[k], db[k])
             /\ Seen(q[k], db[k]) = Null <=> InvocationView[k] = Null
             /\ k \notin AllRows => Seen(q[k], db[k]) = InvocationView[k]
  <2>1. /\ clone[k].state = "ADDED" => BlockView[k] = Null
        /\ clone[k].state = "CHANGED" => BlockView[k] # Null
        /\ clone[k].state = "NONE" => BlockView[k] # Null /\ (k \notin AllRows => clone[k].item = BlockView[k])
    BY <1>1 DEF Fitting, Fits, Agrees
  <2>2. CASE clone[k].state = "NONE" /\ k \in AllRows
    <3>1. q[k] = top[k] /\ Seen(q[k], db[k]) # Null
      BY <1>3, <1>4, <2>1, <2>2
    <3>2. clone[k] # Untracked /\ clone[k].item \in Value
      BY <1>1, <2>2, EntryShapes, FixedShapes DEF TrackState
    <3>3. InvocationView[k] # Null
      BY <1>3, <3>2, NullAssumption DEF Seen
    <3> QED  BY <1>1, <2>2, <3>1, <3>3
  <2>3. CASE ~(clone[k].state = "NONE" /\ k \in AllRows)
    <3>1. Agrees(q[k], db[k]) /\ Seen(q[k], db[k]) = Seen(clone[k], BlockView[k])
      BY <1>1, <1>2, <1>6, <2>1, <2>3, CommitEntryProps
    <3> QED  BY <1>3, <3>1
  <2> QED  BY <2>2, <2>3
\* Rows that share an item in the block's cache and are not deleted, and new ones.
<1>8. ASSUME NEW k \in AllRows, top[k].state \in {"ADDED", "CHANGED"}, clone[k] # DeletedEntry
      PROVE  q[k].state \in {"ADDED", "CHANGED"}
  <2>1. k \in Key
    BY RowShapes
  <2>2. clone[k].state # "ADDED"
    BY <1>5, <1>8, <2>1 DEF CommitRaises, AddRaises, TrackState
  <2>3. clone[k].state # "DELETED"
    BY <1>1, <1>8, <2>1, EntryShapes
  <2>4. CASE clone[k].state = "CHANGED"
    <3>1. q[k] = Put(top, db, k, AfterFromReplica(k, View(top, db)[k], clone[k].item))[k]
      BY <1>2, <2>1, <2>4 DEF CommitEntry
    <3> QED  BY <1>1, <2>1, <3>1 DEF Put, ChangedState, Trackable
  <2> QED  BY <1>4, <1>8, <2>1, <2>2, <2>3, <2>4
<1>9. ASSUME NEW k \in Key, clone[k].state = "ADDED"
      PROVE  q[k].state \in {"ADDED", "CHANGED"}
  <2>1. q[k] = Add(top, k, clone[k].item)[k]
    BY <1>2, <1>9 DEF CommitEntry
  <2> QED  BY <1>1, <2>1 DEF Add, Trackable
<1>10. ASSUME NEW k \in AllRows, Writers(k) # {}, q[k].state \in TrackState
       PROVE  q[k].state \in {"ADDED", "CHANGED"}
  <2>1. PICK j \in AllRows : clone[j].state = "CHANGED" /\ (j = k \/ <<j, k>> \in shared)
    BY <1>1, <1>10 DEF Writers
  <2>2. k \in Key
    BY RowShapes
  <2>3. CASE j = k
    <3>1. q[k] = Put(top, db, k, AfterFromReplica(k, View(top, db)[k], clone[k].item))[k]
      BY <1>2, <2>1, <2>2, <2>3 DEF CommitEntry
    <3> QED  BY <1>1, <2>2, <3>1 DEF Put, ChangedState, Trackable
  <2>4. CASE <<j, k>> \in shared
    <3>1. <<j, k>>[1] = j /\ <<j, k>>[2] = k /\ <<k, j>>[1] = k
      OBVIOUS
    <3>2. <<k, j>> \in shared
      BY <2>4, <3>1 DEF Sharing, Twins
    <3>3. top[k].state \in {"ADDED", "CHANGED"}
      BY <3>1, <3>2 DEF Sharing
    <3>4. clone[k] # DeletedEntry
      <4> SUFFICES ASSUME clone[k] = DeletedEntry PROVE FALSE
        OBVIOUS
      <4>1. q[k] = Delete(top, db, k)[k]
        BY <1>2, <2>2, FixedShapes DEF CommitEntry
      <4>2. q[k] \in {Untracked, DeletedEntry}
        BY <1>1, <2>2, <4>1 DEF Delete
      <4> QED  BY <1>10, <4>2, FixedShapes DEF TrackState
    <3> QED  BY <1>8, <3>3, <3>4
  <2> QED  BY <2>1, <2>3, <2>4
<1>11. /\ Committed \in [Key -> Entry]
       /\ \A k \in Key : /\ Committed[k].state = q[k].state
                         /\ Committed[k] = Untracked <=> q[k] = Untracked
                         /\ Committed[k].item = Null <=> q[k].item = Null
                         /\ Committed[k] = q[k] \/ (k \in AllRows /\ Writers(k) # {} /\ q[k].state \in TrackState)
  BY CommittedAre DEF q
<1>12. ASSUME NEW k \in Key
       PROVE  /\ Agrees(Committed[k], db[k])
              /\ Seen(Committed[k], db[k]) = Null <=> InvocationView[k] = Null
              /\ k \notin AllRows => Seen(Committed[k], db[k]) = InvocationView[k]
  <2>1. Agrees(Committed[k], db[k])
    BY <1>7, <1>10, <1>11 DEF Agrees
  <2>2. Seen(Committed[k], db[k]) = Null <=> Seen(q[k], db[k]) = Null
    BY <1>11 DEF Seen
  <2> QED  BY <1>7, <1>11, <2>1, <2>2
<1>13. Tracks(Committed, db) /\ \A k \in Key : View(Committed, db)[k] = Seen(Committed[k], db[k])
  BY <1>1, <1>11, <1>12, EntryByEntry
<1>14. ASSUME NEW p \in SharedAfterCommit
       PROVE  /\ p = <<p[1], p[2]>> /\ p[1] \in AllRows /\ p[2] \in AllRows
              /\ p[1][2] = p[2][2] /\ Mentions[p[1][2]] # {}
              /\ <<p[2], p[1]>> \in SharedAfterCommit
              /\ Committed[p[1]].state \in {"ADDED", "CHANGED"}
  <2>1. <<p[2], p[1]>>[1] = p[2] /\ <<p[2], p[1]>>[2] = p[1]
    OBVIOUS
  <2>2. CASE p \in shared /\ clone[p[1]] # DeletedEntry /\ clone[p[2]] # DeletedEntry
    <3>1. /\ p = <<p[1], p[2]>> /\ p[1] \in AllRows /\ p[2] \in AllRows
          /\ p[1][2] = p[2][2] /\ Mentions[p[1][2]] # {}
          /\ <<p[2], p[1]>> \in shared /\ top[p[1]].state \in {"ADDED", "CHANGED"}
      BY <2>2 DEF Sharing, Twins
    <3>2. q[p[1]].state \in {"ADDED", "CHANGED"} /\ p[1] \in Key
      BY <1>8, <2>2, <3>1, RowShapes
    <3>3. <<p[2], p[1]>> \in SharedAfterCommit
      BY <2>1, <2>2, <3>1 DEF SharedAfterCommit
    <3> QED  BY <1>11, <3>1, <3>2, <3>3
  <2>3. CASE p \in sharing /\ clone[p[1]].state = "ADDED" /\ clone[p[2]].state = "ADDED"
    <3>1. /\ p = <<p[1], p[2]>> /\ p[1] \in AllRows /\ p[2] \in AllRows
          /\ p[1][2] = p[2][2] /\ Mentions[p[1][2]] # {}
          /\ <<p[2], p[1]>> \in sharing
      BY <2>3 DEF Sharing, Twins
    <3>2. q[p[1]].state \in {"ADDED", "CHANGED"} /\ p[1] \in Key
      BY <1>9, <2>3, <3>1, RowShapes
    <3>3. <<p[2], p[1]>> \in SharedAfterCommit
      BY <2>1, <2>3, <3>1 DEF SharedAfterCommit
    <3> QED  BY <1>11, <3>1, <3>2, <3>3
  <2> QED  BY <2>2, <2>3 DEF SharedAfterCommit
<1> QED  BY <1>12, <1>13, <1>14 DEF Twins
\* However an execution ends, the invariant is kept when the block's caches are.
LEMMA EndKeeps ==
    ASSUME ContractsInvariant, EndExecution, level' = "block", clone' = EmptyCache, db' = db,
           torn' \in BOOLEAN, top' \in [Key -> Entry],
           \A k \in Key : View(top', db)[k] # Null =>
               db[k] # Null \/ BlockView[k] # Null \/ InvocationView[k] # Null,
           emitted' = emitted,
           ~torn' => /\ Orderly /\ Tracks(top', db) /\ Owned(View(top', db))
                     /\ Twins(shared') /\ \A p \in shared' : top'[p[1]].state \in {"ADDED", "CHANGED"}
    PROVE  ContractsInvariant'
<1> USE DEF ContractsInvariant, ServicesInvariant
<1>1. Typed'
  BY EmptyTracks DEF Typed
<1>2. BlockView' = View(top', db) /\ BlockView' \in [Key -> Item]
  BY ViewType DEF BlockView, Typed
<1>3. InvocationView' = BlockView'
  BY <1>2, EmptyTracks DEF InvocationView
<1>4. Control'
  BY DEF EndExecution, Control
<1>5. Announced'
  BY <1>2, <1>3, KeyShapes DEF Announced, EndExecution
<1>6. Authorised'
  <2>1. \A k \in Key : clone'[k] = Untracked
    BY DEF EmptyCache
  <2> QED  BY <1>3, <2>1, KeyShapes DEF Authorised
<1>7. ~torn' => Orderly'
  <2> SUFFICES ASSUME ~torn' PROVE Orderly'
    OBVIOUS
  <2>1. Fitting(EmptyCache, BlockView')
    BY EmptyFits
  <2> QED  BY <1>2, <1>3, <2>1 DEF Orderly
<1>8. Held' /\ (~torn' => Sharing')
  BY DEF EndExecution, Held, Sharing, Twins
<1>9. Arrayed'
  <2>1. \A k \in AllRows : clone'[k] = Untracked /\ dictionary'.slot[k] = 0
    BY RowShapes DEF EmptyCache, EndExecution, EmptyDictionary
  <2>2. Array(EmptyDictionary)
    BY DEF Array, EmptyDictionary
  <2> QED  BY <2>1, <2>2 DEF Arrayed, EndExecution
<1> QED  BY <1>1, <1>4, <1>5, <1>6, <1>7, <1>8, <1>9

\* The keys that are committed before a commit raises.
LEMMA HaltRaisesIs ==
    ASSUME HaltRaises
    PROVE  /\ EndExecution /\ torn' = TRUE /\ clone' = EmptyCache /\ level' = "block" /\ UNCHANGED <<db, emitted, shared>>
           /\ \E ks \in SUBSET Key, bad \in RaisingKeys :
                 /\ ks \intersect RaisingKeys = {} /\ top' = CommitInto(Filtered, top, db, ks)
                 /\ \A k \in ks : Rank[k] < Rank[bad] \/ Rank[k] = Rank[bad]
<1>1. PICK bad \in RaisingKeys :
         LET before == {k \in Key : Rank[k] < Rank[bad]}
             beside == {k \in Key \ RaisingKeys : Rank[k] = Rank[bad]}
         IN  /\ before \intersect RaisingKeys = {}
             /\ \E done \in SUBSET beside :
                   top' = CommitInto(Filtered, top, db, before \union done)
  BY DEF HaltRaises, InvocationCommitRaises
<1> DEFINE before == {k \in Key : Rank[k] < Rank[bad]}
           beside == {k \in Key \ RaisingKeys : Rank[k] = Rank[bad]}
<1>2. PICK done \in SUBSET beside : top' = CommitInto(Filtered, top, db, before \union done)
  BY <1>1
<1>3. /\ before \union done \in SUBSET Key /\ (before \union done) \intersect RaisingKeys = {}
      /\ \A k \in before \union done : Rank[k] < Rank[bad] \/ Rank[k] = Rank[bad]
  BY <1>1
<1> HIDE DEF before, beside
<1>4. /\ EndExecution /\ torn' = TRUE /\ clone' = EmptyCache /\ level' = "block" /\ UNCHANGED <<db, emitted, shared>>
  BY DEF HaltRaises, InvocationCommitRaises
<1> QED  BY <1>2, <1>3, <1>4

LEMMA HaltFaultKeep ==
    ASSUME ContractsInvariant, Halt \/ HaltRaises \/ Fault
    PROVE  ContractsInvariant'
<1> USE DEF ContractsInvariant, ServicesInvariant
<1>1. BlockView = View(top, db) /\ BlockView \in [Key -> Item] /\ top \in [Key -> Entry]
  BY ViewTypes DEF BlockView, Typed
<1>2. CASE Halt
  <2>1. /\ EndExecution /\ torn' = torn /\ clone' = EmptyCache /\ level' = "block" /\ db' = db /\ emitted' = emitted
        /\ RaisingKeys = {} /\ top' = Committed /\ shared' = SharedAfterCommit
    BY <1>2 DEF Halt
  <2> DEFINE q == CommitInto(Filtered, top, db, Key)
  <2>2. /\ q \in [Key -> Entry]
        /\ \A k \in Key : View(q, db)[k] # Null =>
              db[k] # Null \/ BlockView[k] # Null \/ InvocationView[k] # Null
    BY <2>1, CommittedSees
  <2>3. /\ top' \in [Key -> Entry]
        /\ \A k \in Key : /\ top'[k] = Untracked <=> q[k] = Untracked
                          /\ top'[k].item = Null <=> q[k].item = Null
    BY <2>1, CommittedAre
  <2> HIDE DEF q
  <2>4. \A k \in Key : View(top', db)[k] # Null =>
              db[k] # Null \/ BlockView[k] # Null \/ InvocationView[k] # Null
    BY <2>2, <2>3 DEF View
  <2>5. ASSUME ~torn
        PROVE  /\ Orderly /\ Tracks(top', db) /\ Owned(View(top', db))
               /\ Twins(shared') /\ \A p \in shared' : top'[p[1]].state \in {"ADDED", "CHANGED"}
    <3>1. /\ Tracks(top', db)
          /\ \A k \in Key : /\ View(top', db)[k] = Null <=> InvocationView[k] = Null
                            /\ k \notin AllRows => View(top', db)[k] = InvocationView[k]
          /\ Twins(shared') /\ \A p \in shared' : top'[p[1]].state \in {"ADDED", "CHANGED"}
      BY <2>1, <2>5, CommittedShows
    <3>2. \A c \in Hash : Contract(c) \in Key /\ Contract(c) \notin AllRows /\ Rows(c) \in SUBSET Key
      BY KeyShapes, RowShapes
    <3>3. Owned(View(top', db))
      BY <2>5, <3>1, <3>2 DEF Orderly, Owned
    <3> QED  BY <2>5, <3>1, <3>3
  <2> QED  BY <2>1, <2>3, <2>4, <2>5, EndKeeps DEF Typed
<1>3. CASE HaltRaises
  <2>1. /\ EndExecution /\ torn' = TRUE /\ clone' = EmptyCache /\ level' = "block" /\ UNCHANGED <<db, emitted, shared>>
        /\ \E ks \in SUBSET Key : ks \intersect RaisingKeys = {} /\ top' = CommitInto(Filtered, top, db, ks)
    BY <1>3, HaltRaisesIs
  <2>2. /\ top' \in [Key -> Entry]
        /\ \A k \in Key : View(top', db)[k] # Null =>
              db[k] # Null \/ BlockView[k] # Null \/ InvocationView[k] # Null
    BY <2>1, CommittedSees
  <2> QED  BY <2>1, <2>2, EndKeeps
<1>4. CASE Fault
  <2>1. /\ EndExecution /\ torn' = torn /\ clone' = EmptyCache /\ level' = "block"
        /\ db' = db /\ top' = top /\ emitted' = emitted /\ shared' = shared
    BY <1>4 DEF Fault, InvocationDiscard
  <2> QED  BY <1>1, <2>1, EndKeeps DEF Orderly, Typed, Sharing
<1> QED  BY <1>2, <1>3, <1>4

LEMMA CloseKeeps ==
    ASSUME ContractsInvariant, Close
    PROVE  ContractsInvariant'
<1> USE DEF ContractsInvariant, ServicesInvariant
<1>1. /\ level = "block" /\ level' = "idle" /\ top' = EmptyCache /\ clone = EmptyCache /\ clone' = clone
      /\ db \in [Key -> Item] /\ top \in [Key -> Entry]
      /\ db' = WriteBatch(DeleteWhere(top, Dead), db)
  BY DEF Close, WriteNewContracts, CommitBlock, Typed
<1>2. DeleteWhere(top, Dead) = top
  BY <1>1, ColumnsAssumption DEF DeleteWhere
<1>3. db' = [k \in Key |-> IF top[k].state \in {"ADDED", "CHANGED", "DELETED"} THEN top[k].item ELSE db[k]]
  BY <1>1, <1>2 DEF WriteBatch
<1>4. \A k \in Key : top[k].item \in Item
  BY <1>1, EntryShapes, FixedShapes DEF Item
<1>5. db' \in [Key -> Item]
  BY <1>1, <1>3, <1>4
<1>6. \A k \in Key : db'[k] # Null => db[k] # Null \/ BlockView[k] # Null
  BY <1>3, FixedShapes DEF BlockView, View
<1>7. BlockView' = db' /\ InvocationView' = db'
  <2>1. View(EmptyCache, db') = db'
    BY <1>5, EmptyTracks
  <2> QED  BY <1>1, <2>1 DEF BlockView, InvocationView
<1>8. Typed'
  BY <1>1, <1>5, EmptyTracks DEF Typed, Close
<1>9. Control'
  BY <1>1 DEF Control, Close, Reached
<1>10. Authorised'
  <2>1. \A k \in Key : clone'[k] = Untracked
    BY <1>1 DEF EmptyCache
  <2> QED  BY <1>7, <2>1, KeyShapes DEF Authorised
<1>11. Announced'
  <2> SUFFICES ASSUME NEW c \in Hash, db'[Contract(c)] # Null PROVE c \in published' \union tokens'
    BY <1>7 DEF Announced, Close, WriteNewContracts
  <2>1. c \in published \union emitted \union tokens
    BY <1>6, KeyShapes DEF Announced
  <2> QED  BY <2>1 DEF Close, WriteNewContracts
<1>12. ~torn' => Orderly'
  <2> SUFFICES ASSUME Orderly PROVE Orderly'
    BY DEF Close
  <2>1. \A k \in Key : db'[k] = BlockView[k]
    <3>1. \A k \in Key : /\ top[k].state = "NONE" => top[k].item = db[k]
                         /\ BlockView[k] = Seen(top[k], db[k])
      BY <1>1, EntryByEntry DEF Orderly, Tracks, BlockView
    <3> QED  BY <1>1, <1>3, <3>1, EntryShapes DEF Seen, TrackState
  <2>2. Owned(db')
    <3>1. \A c \in Hash : Contract(c) \in Key /\ Rows(c) \in SUBSET Key
      BY KeyShapes
    <3> QED  BY <2>1, <3>1 DEF Orderly, Owned
  <2>3. Tracks(EmptyCache, db')
    BY <1>5, EmptyTracks
  <2>4. Fitting(EmptyCache, BlockView')
    BY EmptyFits
  <2> QED  BY <1>1, <1>7, <2>2, <2>3, <2>4 DEF Orderly
<1>13. Held' /\ Arrayed' /\ (~torn' => Sharing')
  BY <1>1, NothingHeld DEF Close, objects, Held, Arrayed, Array, Sharing, Twins
<1> QED  BY <1>8, <1>9, <1>10, <1>11, <1>12, <1>13

-----------------------------------------------------------------------------
(* Who writes rows.                                                        *)

\* What OnlyOwnersWrite says of one step.
OwnersWrite ==
    \A c \in Hash :
        /\ \A s \in Suffix : ~torn /\ BlockView'[Row(c, s)] # BlockView[Row(c, s)] =>
              \/ Reached(c)
              \/ /\ Mentions[s] # {}
                 /\ \E d \in Hash : Reached(d) /\ <<Row(c, s), Row(d, s)>> \in shared
        /\ BlockView[Contract(c)] # Null /\ BlockView'[Contract(c)] = Null => c \in ran

\* A commit takes a contract out of the block only if that ran.
LEMMA OwnContracts ==
    ASSUME Typed, Authorised, NEW c \in Hash, BlockView[Contract(c)] # Null, NEW q \in [Key -> Entry],
           View(q, db)[Contract(c)] = Null,
           \/ q[Contract(c)] = top[Contract(c)]
           \/ /\ q[Contract(c)] = CommitEntry(clone[Contract(c)], top, db, Contract(c))
              /\ ~CommitRaises(clone[Contract(c)], top, db, Contract(c))
    PROVE  c \in ran
<1> DEFINE k == Contract(c)
<1>1. k \in Key /\ Replica[k] = "missing"
  BY KeyShapes, ColumnsAssumption
<1>2. /\ db \in [Key -> Item] /\ top \in [Key -> Entry] /\ clone \in [Key -> Entry] /\ BlockView \in [Key -> Item]
      /\ BlockView = View(top, db)
  BY ViewTypes DEF Typed, BlockView
<1> HIDE DEF k
<1>3. Seen(q[k], db[k]) = Null /\ Seen(top[k], db[k]) # Null
  BY <1>1, <1>2, EntryByEntry DEF k
<1>4. /\ q[k] = CommitEntry(clone[k], top, db, k)
      /\ ~CommitRaises(clone[k], top, db, k)
  BY <1>3 DEF k
<1>5. clone[k].state # "ADDED"
  <2> SUFFICES ASSUME clone[k].state = "ADDED" PROVE FALSE
    OBVIOUS
  <2>1. clone[k].item \in Value /\ q[k] = Add(top, k, clone[k].item)[k]
    BY <1>1, <1>2, <1>4, EntryShapes DEF CommitEntry, TrackState
  <2>2. Seen(q[k], db[k]) = clone[k].item
    BY <1>1, <1>2, <2>1, AddEntry
  <2> QED  BY <1>3, <2>1, <2>2, NullAssumption
<1>6. clone[k].state # "CHANGED"
  BY <1>1, <1>4 DEF CommitRaises
<1>7. clone[k].state = "DELETED"
  BY <1>3, <1>4, <1>5, <1>6 DEF CommitEntry
<1>8. InvocationView[k] = Null
  BY <1>1, <1>2, <1>7, EntryShapes, FixedShapes DEF InvocationView, View
<1> QED  BY <1>8 DEF Authorised, k

LEMMA HaltOwns ==
    ASSUME ContractsInvariant, Halt
    PROVE  OwnersWrite
<1> USE DEF ContractsInvariant, ServicesInvariant
<1>1. db' = db /\ RaisingKeys = {} /\ top' = Committed
  BY DEF Halt
<1>2. /\ db \in [Key -> Item] /\ top \in [Key -> Entry] /\ clone \in [Key -> Entry]
      /\ BlockView = View(top, db) /\ Filtered = clone /\ BlockView' = View(top', db)
  BY <1>1, FilteredIs DEF Typed, BlockView
<1> DEFINE q == CommitInto(Filtered, top, db, Key)
<1>3. /\ top' \in [Key -> Entry]
      /\ \A k \in Key : top'[k] = q[k] \/ (k \in AllRows /\ Writers(k) # {} /\ q[k].state \in TrackState)
  BY <1>1, CommittedAre
<1>4. \A k \in Key : q[k] = CommitEntry(clone[k], top, db, k)
  BY <1>2 DEF CommitInto
<1> HIDE DEF q
<1>5. \A k \in Key : ~CommitRaises(clone[k], top, db, k)
  BY <1>1, <1>2 DEF RaisingKeys
<1>6. ASSUME NEW c \in Hash, BlockView[Contract(c)] # Null, BlockView'[Contract(c)] = Null
      PROVE  c \in ran
  <2>1. Contract(c) \in Key /\ Contract(c) \notin AllRows
    BY KeyShapes, RowShapes
  <2>2. /\ top'[Contract(c)] = CommitEntry(clone[Contract(c)], top, db, Contract(c))
        /\ ~CommitRaises(clone[Contract(c)], top, db, Contract(c))
    BY <1>3, <1>4, <1>5, <2>1
  <2> QED  BY <1>2, <1>3, <1>6, <2>2, OwnContracts
<1>7. ASSUME ~torn, NEW c \in Hash, NEW s \in Suffix, BlockView'[Row(c, s)] # BlockView[Row(c, s)], ~Reached(c)
      PROVE  Mentions[s] # {} /\ \E d \in Hash : Reached(d) /\ <<Row(c, s), Row(d, s)>> \in shared
  <2> DEFINE k == Row(c, s)
  <2>1. k \in Rows(c) /\ k \in AllRows /\ k \in Key /\ k[2] = s
    BY KeyShapes, RowShapes
  <2> HIDE DEF k
  <2>2. clone[k] = Untracked
    BY <1>7, <2>1 DEF Authorised
  <2>3. q[k] = top[k]
    BY <1>4, <2>1, <2>2, FixedShapes DEF CommitEntry
  <2>4. top'[k] # top[k]
    <3> SUFFICES ASSUME top'[k] = top[k] PROVE FALSE
      OBVIOUS
    <3>1. BlockView'[k] = BlockView[k]
      BY <1>2, <2>1 DEF View
    <3> QED  BY <1>7, <3>1 DEF k
  <2>5. PICK j \in AllRows : clone[j].state = "CHANGED" /\ (j = k \/ <<j, k>> \in shared)
    BY <1>2, <1>3, <2>1, <2>3, <2>4 DEF Writers
  <2>6. <<j, k>> \in shared /\ clone[j] # Untracked
    BY <2>2, <2>5, FixedShapes
  <2>7. <<j, k>>[1] = j /\ <<j, k>>[2] = k
    OBVIOUS
  <2>8. j[2] = s /\ Mentions[s] # {} /\ <<k, j>> \in shared
    BY <1>7, <2>1, <2>6, <2>7 DEF Sharing, Twins
  <2>9. PICK d \in Hash : j \in Rows(d) /\ j = Row(d, j[2])
    BY <2>5, RowShapes
  <2>10. Reached(d)
    BY <2>6, <2>9 DEF Authorised
  <2> QED  BY <2>8, <2>9, <2>10 DEF k
<1> QED  BY <1>6, <1>7 DEF OwnersWrite

LEMMA HaltRaisesOwns ==
    ASSUME ContractsInvariant, HaltRaises
    PROVE  OwnersWrite
<1> USE DEF ContractsInvariant, ServicesInvariant
<1>1. PICK ks \in SUBSET Key, bad \in RaisingKeys :
         /\ ks \intersect RaisingKeys = {} /\ top' = CommitInto(Filtered, top, db, ks)
         /\ \A k \in ks : Rank[k] < Rank[bad] \/ Rank[k] = Rank[bad]
  BY HaltRaisesIs
<1>2. /\ db \in [Key -> Item] /\ top \in [Key -> Entry] /\ clone \in [Key -> Entry] /\ BlockView \in [Key -> Item]
      /\ BlockView = View(top, db) /\ Filtered = clone /\ BlockView' = View(top', db)
  BY HaltRaisesIs, FilteredIs, ViewTypes DEF Typed, BlockView
<1>3. top' \in [Key -> Entry]
  BY <1>1, CommittedSees
<1>4. \A k \in Key : top'[k] = IF k \in ks THEN CommitEntry(clone[k], top, db, k) ELSE top[k]
  BY <1>1, <1>2 DEF CommitInto
<1>5. ASSUME NEW c \in Hash, BlockView[Contract(c)] # Null, BlockView'[Contract(c)] = Null
      PROVE  c \in ran
  <2>1. Contract(c) \in Key
    BY KeyShapes
  <2>2. Contract(c) \in ks => ~CommitRaises(clone[Contract(c)], top, db, Contract(c))
    BY <1>1, <1>2, <2>1 DEF RaisingKeys
  <2> QED  BY <1>2, <1>3, <1>4, <1>5, <2>1, <2>2, OwnContracts
\* Only contracts raise, and rows come after them.
<1>6. ASSUME ~torn, NEW k \in AllRows PROVE BlockView'[k] = BlockView[k]
  <2>1. k \in Key
    BY RowShapes
  <2>2. bad \notin AllRows
    <3> SUFFICES ASSUME bad \in AllRows PROVE FALSE
      OBVIOUS
    <3>1. bad \in Key /\ CommitRaises(clone[bad], top, db, bad)
      BY <1>2 DEF RaisingKeys
    <3>2. Replica[bad] = "copies"
      BY ColumnsAssumption DEF AllRows
    <3>3. /\ clone[bad].state = "ADDED" => BlockView[bad] = Null
          /\ clone[bad].state = "CHANGED" => BlockView[bad] # Null
      BY <1>6, <3>1 DEF Orderly, Fitting, Fits
    <3>4. BlockView[bad] = View(top, db)[bad]
      BY <1>2
    <3>5. clone[bad].state = "ADDED" /\ AddRaises(top, bad)
      BY <3>1, <3>2, <3>3, <3>4 DEF CommitRaises, GetAndChangeRaises
    <3>6. top[bad].item \in Value /\ top[bad] # Untracked
      BY <1>2, <3>1, <3>5, EntryShapes, FixedShapes DEF AddRaises, TrackState
    <3>7. BlockView[bad] = top[bad].item
      BY <1>2, <3>1, <3>6 DEF View
    <3> QED  BY <3>3, <3>5, <3>6, <3>7, NullAssumption
  <2>3. PICK c \in Hash : bad = Contract(c)
    <3>1. bad \in Key
      BY DEF RaisingKeys
    <3>2. PICK c \in Hash : bad \in KeysOf(c)
      BY <3>1, KeyShapes
    <3> QED  BY <2>2, <3>2, RowShapes DEF KeysOf
  <2>4. Rank[bad] < Rank[k] /\ Rank[bad] \in Nat /\ Rank[k] \in Nat
    BY <2>1, <2>3, KeyShapes, ColumnsAssumption, RankAssumption
  <2>5. k \notin ks
    BY <1>1, <2>4
  <2>6. top'[k] = top[k]
    BY <1>4, <2>1, <2>5
  <2> QED  BY <1>2, <2>1, <2>6 DEF View
<1>7. \A c \in Hash, s \in Suffix : Row(c, s) \in AllRows
  BY KeyShapes, RowShapes
<1> QED  BY <1>5, <1>6, <1>7 DEF OwnersWrite

-----------------------------------------------------------------------------
(* The theorems.                                                           *)

LEMMA StandStill ==
    ASSUME ContractsInvariant, UNCHANGED contractVars
    PROVE  ContractsInvariant'
<1>1. UNCHANGED <<db, top, clone, level, torn, published, emitted, tokens, ran, created, contexts, running>>
  BY DEF contractVars, vars, engine, listing
<1>2. UNCHANGED <<sharing, shared, dictionary, pops>>
  BY DEF contractVars, objects
<1>3. Control'
  BY <1>1, EngineKept DEF ContractsInvariant, ServicesInvariant, contractVars
<1>4. Authorised'
  BY <1>1, ViewsKept DEF ContractsInvariant, ServicesInvariant, Authorised, Reached
<1> QED  BY <1>1, <1>2, <1>3, <1>4, QuietKeeps DEF ContractsInvariant, ServicesInvariant, Typed

\* Every step keeps the invariant; and of an execution no step writes what is not its to
\* write, and one that lets a contract take another one's place moves its rows.
LEMMA ContractsStep ==
    ASSUME ContractsInvariant, [ContractsNext]_contractVars
    PROVE  /\ ContractsInvariant'
           /\ level = "invoke" => OwnersWrite
           /\ level = "invoke" /\ level' = "invoke" /\ Orderly => RowsMoved
<1>1. BlockView' = BlockView => OwnersWrite
  BY DEF OwnersWrite
<1>2. CASE Open \/ Close \/ Invoke
  <2>1. level # "invoke"
    BY <1>2 DEF Open, OpenSnapshot, Close, CommitBlock, Invoke, BeginInvocation
  <2> QED  BY <1>2, <2>1, OpenInvokeKeep, CloseKeeps
<1>3. CASE Halt \/ HaltRaises \/ Fault
  <2>1. level' # "invoke"
    BY <1>3 DEF Halt, HaltRaises, InvocationCommitRaises, Fault, InvocationDiscard
  <2>2. Fault => BlockView' = BlockView
    BY DEF Fault, InvocationDiscard, BlockView
  <2>3. OwnersWrite
    BY <1>1, <1>3, <2>2, HaltOwns, HaltRaisesOwns
  <2> QED  BY <1>3, <2>1, <2>3, HaltFaultKeep
<1>4. CASE \E c \in Hash, state \in StateOf : Publish(c, state)
  <2>1. level # "invoke"
    BY <1>4 DEF Publish, BlockGetOrAdd
  <2> QED  BY <1>4, <2>1, PublishKeeps
<1>5. CASE Service /\ Follow(clone, {})
  BY <1>1, <1>5, ServiceKeeps DEF Tidy, Within
<1>6. CASE \E c \in Hash, state \in StateOf :
              ContractMigrate(c, state) /\ Follow(Filled(c, state), Joined(c, state))
  BY <1>1, <1>6, MigrateKeeps DEF Tidy, Within
<1>7. CASE (\E ctx \in contexts : StorageFind(ctx)) \/ IteratorNext
  BY <1>1, <1>7, IteratorKeeps DEF Tidy
<1>8. CASE UNCHANGED contractVars
  <2>1. InvocationView' = InvocationView /\ BlockView' = BlockView
    BY <1>8, ViewsKept DEF contractVars, vars
  <2> QED  BY <1>1, <1>8, <2>1, StandStill, OneWay
<1> QED  BY <1>2, <1>3, <1>4, <1>5, <1>6, <1>7, <1>8 DEF ContractsNext

\* Caches, scripts, contexts, shared items and events stay in the order ContractsInvariant
\* describes.
THEOREM ContractsInvariance == ContractsSpec => []ContractsInvariant
<1>1. ContractsInit => ContractsInvariant
  BY ContractsStart
<1>2. ContractsInvariant /\ [ContractsNext]_contractVars => ContractsInvariant'
  BY ContractsStep
<1> QED  BY <1>1, <1>2, PTL DEF ContractsSpec

\* A step of an execution changes what a contract stores for the block, or takes the
\* contract away, only if that contract ran or was made in it.  Excepted are a row with a
\* script hash in its suffix that holds one item with the same row of such a contract,
\* and rows after a commit that stopped half-way.
THEOREM OnlyOwnersDo == ContractsSpec => OnlyOwnersWrite
<1>1. ContractsInvariant /\ [ContractsNext]_contractVars =>
        [level = "invoke" => \A c \in Hash :
            /\ \A s \in Suffix : ~torn /\ BlockView'[Row(c, s)] # BlockView[Row(c, s)] =>
                  \/ Reached(c)
                  \/ /\ Mentions[s] # {}
                     /\ \E d \in Hash : Reached(d) /\ <<Row(c, s), Row(d, s)>> \in shared
            /\ BlockView[Contract(c)] # Null /\ BlockView'[Contract(c)] = Null => c \in ran]_contractVars
  <2>1. ASSUME ContractsInvariant, [ContractsNext]_contractVars, level = "invoke"
        PROVE  OwnersWrite
    BY <2>1, ContractsStep
  <2> QED  BY <2>1 DEF OwnersWrite
<1> QED  BY <1>1, ContractsInvariance, PTL DEF ContractsSpec, OnlyOwnersWrite

\* As long as no commit has stopped half-way, a row that a contract sees belongs to a
\* contract that exists and has storage.
THEOREM RowsHaveOwners == ContractsSpec => []StorageHasOwner
<1>1. ContractsInvariant => StorageHasOwner
  BY DEF ContractsInvariant, ServicesInvariant, Orderly, Owned, StorageHasOwner
<1> QED  BY <1>1, ContractsInvariance, PTL

\* Every contract in the stored state that a PublishTransaction did not make is found by
\* the REST API, whatever became of the executions that made it.
THEOREM TokensAreListed == ContractsSpec => []TokensListed
<1>1. ContractsInvariant => TokensListed
  <2> SUFFICES ASSUME ContractsInvariant, level = "idle", NEW c \in Hash, db[Contract(c)] # Null, c \notin published
               PROVE  c \in GetTokens /\ RestToken(c).message = ""
    BY DEF TokensListed
  <2>1. c \in tokens
    BY DEF ContractsInvariant, ServicesInvariant, Announced
  <2> QED  BY <2>1 DEF GetTokens, RestToken, GetToken
<1> QED  BY <1>1, ContractsInvariance, PTL

\* As long as no commit has stopped half-way, a contract that disappears in the step in
\* which another appears has handed it every row, and has none left.
THEOREM MigrationMoves == ContractsSpec => MigrationMovesRows
<1>1. ContractsInvariant /\ [ContractsNext]_contractVars =>
        [\A c, d \in Hash :
            /\ level = "invoke" /\ level' = "invoke" /\ ~torn
            /\ Live(c) /\ ~Live(c)' /\ ~Live(d) /\ HasStorage(InvocationView[Contract(d)])'
            => \A s \in Suffix :
                  /\ InvocationView[Row(c, s)] # Null => InvocationView'[Row(d, s)] = InvocationView[Row(c, s)]
                  /\ InvocationView'[Row(c, s)] = Null]_contractVars
  <2>1. ASSUME ContractsInvariant, [ContractsNext]_contractVars, level = "invoke", level' = "invoke", ~torn
        PROVE  RowsMoved
    BY <2>1, ContractsStep DEF ContractsInvariant, ServicesInvariant
  <2> QED  BY <2>1 DEF RowsMoved
<1> QED  BY <1>1, ContractsInvariance, PTL DEF ContractsSpec, MigrationMovesRows

-----------------------------------------------------------------------------
(* How many rows an iterator can pass by in the dictionary of the clone:   *)
(* those that a compaction moves behind its place, one for each gap.       *)

Gaps(d) == d.used - Cardinality(Entered(d))

\* Which of the rows K lie behind a place in the dictionary, and how many can come to.
Behind(K, d, pos) == {k \in K : d.slot[k] <= pos}

Slack(K, d, pos) == Cardinality(Behind(K, d, pos)) + Gaps(d)

\* Rows in different places between two places.
LEMMA Counted ==
    ASSUME NEW S \in SUBSET AllRows, NEW f, NEW a \in Nat, NEW b \in Nat, a <= b,
           \A k \in S : f[k] \in Nat /\ a < f[k] /\ f[k] <= b,
           \A j, k \in S : f[j] = f[k] => j = k
    PROVE  /\ Cardinality(S) \in Nat /\ Cardinality(S) <= b - a
           /\ (\A n \in (a + 1)..b : \E k \in S : f[k] = n) => Cardinality(S) = b - a
<1> DEFINE T == (a + 1)..b
           g == [k \in S |-> f[k]]
<1>1. IsFiniteSet(T) /\ Cardinality(T) = b - a
  <2>1. \A i, j \in Int : IsFiniteSet(i..j) /\ Cardinality(i..j) = IF i > j THEN 0 ELSE j - i + 1
    BY FS_Interval
  <2>2. a + 1 \in Int /\ b \in Int
    OBVIOUS
  <2>3. IsFiniteSet(T) /\ Cardinality(T) = IF a + 1 > b THEN 0 ELSE b - (a + 1) + 1
    BY <2>1, <2>2
  <2> QED  BY <2>3
<1>2. g \in [S -> T] /\ \A j, k \in S : g[j] = g[k] => j = k
  OBVIOUS
<1>3. (\A n \in T : \E k \in S : f[k] = n) => \A n \in T : \E k \in S : g[k] = n
  OBVIOUS
<1>4. Cardinality(S) \in Nat
  BY FiniteRows
<1> HIDE DEF T, g
<1>5. g \in Injection(S, T)
  BY <1>2 DEF Injection, IsInjective
<1>6. Cardinality(S) <= Cardinality(T) /\ (Cardinality(S) = Cardinality(T) <=> g \in Surjection(S, T))
  BY <1>1, <1>5, FS_Injection
<1>7. (\A n \in T : \E k \in S : g[k] = n) => g \in Surjection(S, T)
  BY <1>2 DEF Surjection
<1>8. (\A n \in T : \E k \in S : f[k] = n) => Cardinality(S) = b - a
  BY <1>1, <1>3, <1>6, <1>7
<1> QED  BY <1>1, <1>4, <1>6, <1>8 DEF T

\* Two sets of rows that have none in common.
LEMMA ApartCounted ==
    ASSUME NEW S \in SUBSET AllRows, NEW T \in SUBSET AllRows, S \intersect T = {}
    PROVE  /\ Cardinality(S \union T) = Cardinality(S) + Cardinality(T)
           /\ Cardinality(S) \in Nat /\ Cardinality(T) \in Nat
<1>1. /\ IsFiniteSet(S) /\ IsFiniteSet(T)
      /\ Cardinality(S) \in Nat /\ Cardinality(T) \in Nat
  BY FiniteRows
<1>2. Cardinality(S \union T) = Cardinality(S) + Cardinality(T) - Cardinality(S \intersect T)
  BY <1>1, FS_Union
<1>3. Cardinality(S \intersect T) = 0
  <2>1. Cardinality({}) = 0
    BY FS_EmptySet
  <2> QED  BY <2>1, Zenon
<1> DEFINE i == Cardinality(S \intersect T)
           u == Cardinality(S \union T)
           a == Cardinality(S)
           b == Cardinality(T)
<1>4. a \in Nat /\ b \in Nat /\ i = 0 /\ u = a + b - i
  BY <1>1, <1>2, <1>3
<1> HIDE DEF i, u, a, b
<1>5. u = a + b
  BY <1>4
<1> QED  BY <1>1, <1>5 DEF u, a, b

LEMMA ArrayFacts ==
    ASSUME NEW d, Array(d)
    PROVE  /\ Entered(d) \in SUBSET AllRows /\ Cardinality(Entered(d)) \in Nat
           /\ d.used \in Nat /\ Gaps(d) \in Nat /\ Cardinality(Entered(d)) = d.used - Gaps(d)
           /\ \A k \in AllRows : d.slot[k] \in Nat /\ d.slot[k] <= d.used /\ (k \in Entered(d) <=> d.slot[k] # 0)
           /\ \A j, k \in AllRows : d.slot[j] = d.slot[k] /\ d.slot[j] # 0 => j = k
<1>1. /\ d.used \in Nat
      /\ \A k \in AllRows : d.slot[k] \in Nat /\ d.slot[k] <= d.used /\ (k \in Entered(d) <=> d.slot[k] # 0)
      /\ \A j, k \in AllRows : d.slot[j] = d.slot[k] /\ d.slot[j] # 0 => j = k
      /\ Entered(d) \in SUBSET AllRows
  BY DEF Array, Entered
<1>2. /\ \A k \in Entered(d) : d.slot[k] \in Nat /\ 0 < d.slot[k] /\ d.slot[k] <= d.used
      /\ \A j, k \in Entered(d) : d.slot[j] = d.slot[k] => j = k
  BY <1>1
<1>3. 0 \in Nat /\ 0 <= d.used
  BY <1>1
<1>4. Cardinality(Entered(d)) \in Nat /\ Cardinality(Entered(d)) <= d.used - 0
  <2> DEFINE f == d.slot
             u == d.used
             S == Entered(d)
  <2>1. /\ S \in SUBSET AllRows /\ u \in Nat /\ 0 <= u
        /\ \A k \in S : f[k] \in Nat /\ 0 < f[k] /\ f[k] <= u
        /\ \A j, k \in S : f[j] = f[k] => j = k
    BY <1>1, <1>2, <1>3
  <2> HIDE DEF f, u, S
  <2>2. Cardinality(S) \in Nat /\ Cardinality(S) <= u - 0
    BY <2>1, <1>3, Counted
  <2> QED  BY <2>2 DEF S, u
<1>5. Gaps(d) = d.used - Cardinality(Entered(d))
  BY DEF Gaps
<1> QED  BY <1>1, <1>4, <1>5

\* Rows that come in leave the slack of the others as it is.
LEMMA EnterSlack ==
    ASSUME NEW d, Array(d), NEW new \in SUBSET AllRows, NEW order \in Orders(new),
           NEW m \in Nat, NEW n \in Nat, m <= n, n <= Cardinality(new),
           \A k \in new : m < order[k] => d.slot[k] = 0,
           NEW K \in SUBSET Entered(d), NEW pos \in Nat
    PROVE  LET e == Enter(d, order, m, n)
           IN  /\ Array(e) /\ Slack(K, e, pos) = Slack(K, d, pos)
               /\ \A k \in AllRows : e.slot[k] # 0 <=> d.slot[k] # 0 \/ (k \in new /\ m < order[k] /\ order[k] <= n)
               /\ \A k \in AllRows : d.slot[k] # 0 => e.slot[k] = d.slot[k]
<1> DEFINE e == Enter(d, order, m, n)
           N == {k \in new : m < order[k] /\ order[k] <= n}
           all == Cardinality(new)
<1>1. /\ order \in [new -> 1..all] /\ all \in Nat /\ IsFiniteSet(new)
      /\ \A j, k \in new : order[j] = order[k] => j = k
  BY FiniteRows DEF Orders
<1>2. \A i \in 1..all : \E k \in new : order[k] = i
  <2>1. IsFiniteSet(1..all) /\ Cardinality(1..all) = all
    BY <1>1, UpTo
  <2>2. order \in Injection(new, 1..all)
    BY <1>1 DEF Injection, IsInjective
  <2>3. order \in Surjection(new, 1..all)
    <3> DEFINE T == 1..all
    <3> HIDE DEF T
    <3>1. order \in Injection(new, T) /\ IsFiniteSet(T) /\ Cardinality(new) = Cardinality(T)
      BY <2>1, <2>2 DEF T
    <3>2. order \in Surjection(new, T)
      BY <3>1, FS_Injection
    <3> QED  BY <3>2 DEF T
  <2> QED  BY <2>3 DEF Surjection
<1>3. /\ Array(e) /\ e.used = d.used + n - m
      /\ \A k \in AllRows : e.slot[k] = IF k \in new /\ m < order[k] /\ order[k] <= n THEN d.used + order[k] - m ELSE d.slot[k]
  BY EnteredArray
<1> HIDE DEF e
<1>4. /\ Array(d) /\ d.used \in Nat /\ Entered(d) \in SUBSET AllRows
      /\ \A k \in AllRows : d.slot[k] \in Nat /\ (k \in Entered(d) <=> d.slot[k] # 0)
  BY ArrayFacts
<1>5. N \in SUBSET AllRows /\ Cardinality(N) = n - m
  <2>1. /\ \A k \in N : order[k] \in Nat /\ m < order[k] /\ order[k] <= n
        /\ \A j, k \in N : order[j] = order[k] => j = k
    BY <1>1
  <2>2. \A i \in (m + 1)..n : \E k \in N : order[k] = i
    <3> SUFFICES ASSUME NEW i \in (m + 1)..n PROVE \E k \in N : order[k] = i
      OBVIOUS
    <3>1. i \in 1..all /\ m < i /\ i <= n
      BY <1>1
    <3>2. PICK k \in new : order[k] = i
      BY <1>2, <3>1
    <3> QED  BY <3>1, <3>2
  <2>3. N \in SUBSET AllRows
    OBVIOUS
  <2> HIDE DEF N
  <2> QED  BY <2>1, <2>2, <2>3, Counted
<1>6. \A k \in AllRows : e.slot[k] # 0 <=> d.slot[k] # 0 \/ k \in N
  <2> SUFFICES ASSUME NEW k \in AllRows PROVE e.slot[k] # 0 <=> d.slot[k] # 0 \/ k \in N
    OBVIOUS
  <2>1. CASE k \in N
    <3>1. order[k] \in Nat /\ m < order[k] /\ e.slot[k] = d.used + order[k] - m
      BY <1>1, <1>3, <2>1
    <3> QED  BY <1>4, <2>1, <3>1
  <2>2. CASE k \notin N
    BY <1>3, <2>2
  <2> QED  BY <2>1, <2>2
<1>7. \A k \in AllRows : d.slot[k] # 0 => k \notin N /\ e.slot[k] = d.slot[k]
  BY <1>3
<1>8. Cardinality(Entered(e)) = Cardinality(Entered(d)) + (n - m)
  <2>1. Entered(e) = Entered(d) \union N
    BY <1>5, <1>6, <1>4 DEF Entered
  <2>2. Entered(d) \intersect N = {}
    BY <1>4, <1>7
  <2> HIDE DEF N
  <2> DEFINE E == Entered(d)
  <2>3. E \in SUBSET AllRows /\ E \intersect N = {} /\ N \in SUBSET AllRows
    BY <1>4, <1>5, <2>2
  <2> HIDE DEF E
  <2>4. Cardinality(E \union N) = Cardinality(E) + Cardinality(N)
    BY <2>3, ApartCounted
  <2>5. Cardinality(E \union N) = Cardinality(E) + (n - m)
    BY <1>5, <2>4
  <2> QED  BY <2>1, <2>5 DEF E
<1>9. Behind(K, e, pos) = Behind(K, d, pos)
  BY <1>4, <1>7 DEF Behind
<1>10. Gaps(e) = Gaps(d)
  <2>1. Cardinality(Entered(d)) \in Nat
    BY <1>4, FiniteRows
  <2> QED  BY <1>3, <1>4, <1>8, <2>1 DEF Gaps
<1>11. Slack(K, e, pos) = Slack(K, d, pos)
  BY <1>9, <1>10 DEF Slack
<1> QED  BY <1>3, <1>6, <1>7, <1>11 DEF e

\* Rows that go leave gaps.
LEMMA PopSlack ==
    ASSUME NEW d, Array(d), NEW S, NEW K \in SUBSET Entered(d), K \intersect S = {}, NEW pos \in Nat
    PROVE  LET p == Popped(d, S)
           IN  /\ Array(p) /\ Slack(K, p, pos) = Slack(K, d, pos) + Cardinality(Entered(d) \intersect S)
               /\ \A k \in AllRows : p.slot[k] = IF k \in S THEN 0 ELSE d.slot[k]
<1> DEFINE p == Popped(d, S)
           E == Entered(d)
<1>1. Array(p) /\ p.used = d.used /\ \A k \in AllRows : p.slot[k] = IF k \in S THEN 0 ELSE d.slot[k]
  BY PoppedArray
<1> HIDE DEF p
<1>2. E \in SUBSET AllRows /\ Cardinality(E) \in Nat /\ IsFiniteSet(E) /\ d.used \in Nat
  BY ArrayFacts, FiniteRows
<1>3. Entered(p) = E \ S
  BY <1>1, <1>2 DEF Entered
<1>4. Behind(K, p, pos) = Behind(K, d, pos)
  BY <1>1, <1>2 DEF Behind
<1> HIDE DEF E
<1>5. Cardinality(E \ S) = Cardinality(E) - Cardinality(E \intersect S)
  BY <1>2, FS_Difference
<1>6. Cardinality(E \intersect S) \in Nat
  BY <1>2, FiniteRows
<1>7. Gaps(p) = Gaps(d) + Cardinality(E \intersect S)
  BY <1>1, <1>2, <1>3, <1>5, <1>6 DEF Gaps, E
<1>8. Cardinality(Behind(K, d, pos)) \in Nat /\ Gaps(d) \in Nat
  <2>1. Behind(K, d, pos) \in SUBSET AllRows
    BY <1>2 DEF Behind, E
  <2> QED  BY <2>1, FiniteRows, ArrayFacts
<1> QED  BY <1>1, <1>4, <1>6, <1>7, <1>8 DEF Slack, p, E

\* A compaction moves as many rows behind a place as there were gaps, at most.
LEMMA CompactSlack ==
    ASSUME NEW d, Array(d), NEW K \in SUBSET Entered(d), NEW pos \in Nat
    PROVE  Slack(K, Compact(d), pos) <= Slack(K, d, pos)
<1> DEFINE e == Compact(d)
           E == Entered(d)
           low == {k \in E : d.slot[k] <= pos}
           high == {k \in E : d.slot[k] > pos}
           M == {k \in K : d.slot[k] > pos /\ e.slot[k] <= pos}
<1>1. /\ Array(e) /\ e.used = Cardinality(E)
      /\ \A k \in AllRows : e.slot[k] # 0 <=> d.slot[k] # 0
      /\ \A k \in AllRows : e.slot[k] <= d.slot[k]
  BY CompactArray
<1> HIDE DEF e
<1>2. /\ E \in SUBSET AllRows /\ Cardinality(E) \in Nat /\ d.used \in Nat
      /\ Gaps(d) = d.used - Cardinality(E) /\ Gaps(d) \in Nat
      /\ \A k \in AllRows : d.slot[k] \in Nat /\ d.slot[k] <= d.used /\ (k \in E <=> d.slot[k] # 0)
      /\ \A j, k \in AllRows : d.slot[j] = d.slot[k] /\ d.slot[j] # 0 => j = k
  BY ArrayFacts
<1>3. /\ \A k \in AllRows : e.slot[k] \in Nat /\ (k \in Entered(e) <=> e.slot[k] # 0)
      /\ \A j, k \in AllRows : e.slot[j] = e.slot[k] /\ e.slot[j] # 0 => j = k
      /\ Entered(e) \in SUBSET AllRows
  BY <1>1, ArrayFacts
<1>4. Gaps(e) = 0
  <2>1. Entered(e) = E
    BY <1>1, <1>2, <1>3
  <2> QED  BY <1>1, <1>2, <2>1 DEF Gaps
<1> HIDE DEF E
<1>5. /\ low \in SUBSET AllRows /\ high \in SUBSET AllRows /\ M \in SUBSET AllRows /\ K \in SUBSET AllRows
      /\ low \union high = E /\ low \intersect high = {} /\ low \intersect M = {}
  BY <1>2 DEF E
<1>6. Behind(K, e, pos) \in SUBSET AllRows /\ Behind(K, d, pos) \in SUBSET AllRows
  BY <1>5 DEF Behind
<1>7. Behind(K, e, pos) = Behind(K, d, pos) \union M /\ Behind(K, d, pos) \intersect M = {}
  <2>1. \A k \in K : e.slot[k] <= d.slot[k] /\ e.slot[k] \in Nat /\ d.slot[k] \in Nat
    BY <1>1, <1>2, <1>3, <1>5
  <2> QED  BY <2>1 DEF Behind
<1>8. Cardinality(M) <= Gaps(d) /\ Cardinality(M) \in Nat
  <2>1. CASE pos > d.used
    <3>1. M = {}
      BY <1>2, <1>5, <2>1
    <3>2. Cardinality({}) = 0
      BY FS_EmptySet
    <3> HIDE DEF M
    <3>3. Cardinality(M) = 0
      BY <3>1, <3>2
    <3> QED  BY <1>2, <3>3
  <2>2. CASE pos <= d.used
    <3> DEFINE f == d.slot
               g == e.slot
               L == low \union M
               u == d.used
    <3>1. /\ \A k \in high : f[k] \in Nat /\ pos < f[k] /\ f[k] <= u
          /\ \A j, k \in high : f[j] = f[k] => j = k
      BY <1>2, <1>5
    <3>2. /\ \A k \in L : g[k] \in Nat /\ 0 < g[k] /\ g[k] <= pos
          /\ \A j, k \in L : g[j] = g[k] => j = k
      <4>1. \A k \in L : k \in AllRows /\ d.slot[k] # 0 /\ (d.slot[k] <= pos \/ e.slot[k] <= pos)
        BY <1>2, <1>5 DEF E
      <4>2. \A k \in L : k \in AllRows /\ e.slot[k] # 0 /\ e.slot[k] <= pos /\ e.slot[k] \in Nat
        BY <1>1, <1>2, <1>3, <4>1
      <4> QED  BY <1>3, <4>2
    <3>3. L \in SUBSET AllRows
      BY <1>5
    <3> HIDE DEF f, g, u, low, high, M
    <3>4. Cardinality(high) \in Nat /\ Cardinality(high) <= u - pos
      <4>1. u \in Nat /\ pos <= u
        BY <1>2, <2>2 DEF u
      <4> QED  BY <1>5, <3>1, <4>1, Counted
    <3>5. Cardinality(L) \in Nat /\ Cardinality(L) <= pos - 0
      <4>1. 0 \in Nat /\ 0 <= pos
        OBVIOUS
      <4> HIDE DEF L
      <4> QED  BY <3>2, <3>3, <4>1, Counted
    <3>6. /\ IsFiniteSet(low) /\ IsFiniteSet(high) /\ IsFiniteSet(M)
          /\ Cardinality(low) \in Nat /\ Cardinality(high) \in Nat /\ Cardinality(M) \in Nat
      BY <1>5, FiniteRows
    <3>8. Cardinality(low \union M) = Cardinality(low) + Cardinality(M)
      BY <1>5, ApartCounted
    <3>9. Cardinality(low \union high) = Cardinality(low) + Cardinality(high)
      BY <1>5, ApartCounted
    <3>7. Cardinality(L) = Cardinality(low) + Cardinality(M)
      BY <3>8 DEF L
    <3>11. Cardinality(E) = Cardinality(low) + Cardinality(high)
      BY <1>5, <3>9
    <3> HIDE DEF L
    <3>10. u \in Nat /\ Gaps(d) = u - Cardinality(E)
      BY <1>2 DEF u
    <3> QED  BY <3>4, <3>5, <3>6, <3>7, <3>10, <3>11
  <2> QED  BY <1>2, <2>1, <2>2
<1> HIDE DEF M
<1>9. Cardinality(Behind(K, e, pos)) = Cardinality(Behind(K, d, pos)) + Cardinality(M)
  <2> DEFINE B == Behind(K, d, pos)
  <2>1. B \in SUBSET AllRows /\ M \in SUBSET AllRows /\ B \intersect M = {}
    BY <1>5, <1>6, <1>7
  <2> HIDE DEF B
  <2>2. Cardinality(B \union M) = Cardinality(B) + Cardinality(M)
    BY <2>1, ApartCounted
  <2> QED  BY <1>7, <2>2 DEF B
<1>10. Cardinality(Behind(K, d, pos)) \in Nat
  BY <1>6, FiniteRows
<1>11. Slack(K, e, pos) = Cardinality(Behind(K, d, pos)) + Cardinality(M)
  BY <1>4, <1>8, <1>9, <1>10 DEF Slack
<1> QED  BY <1>2, <1>8, <1>10, <1>11 DEF Slack, e
LEMMA SlackType ==
    ASSUME NEW d, Array(d), NEW K \in SUBSET AllRows, NEW pos
    PROVE  Slack(K, d, pos) \in Nat
<1>1. Behind(K, d, pos) \in SUBSET AllRows /\ Gaps(d) \in Nat
  BY ArrayFacts DEF Behind
<1> QED  BY <1>1, FiniteRows DEF Slack

\* Updates with some rows and pops of others leave the remaining ones no further than
\* they were, and make no more slack than there are rows popped.
LEMMA AfterSlack ==
    ASSUME NEW d, Array(d), NEW writes \in SUBSET AllRows, NEW out \in SUBSET AllRows,
           NEW x \in After(d, writes, out),
           NEW K \in SUBSET Entered(d), K \intersect out = {}, NEW pos \in Nat
    PROVE  /\ Slack(K, x, pos) <= Slack(K, d, pos) + Cardinality(out)
           /\ \A k \in AllRows : d.slot[k] # 0 /\ k \notin out => x.slot[k] <= d.slot[k]
<1> DEFINE new == {k \in writes : d.slot[k] = 0}
           all == Cardinality(new)
<1>1. new \in SUBSET AllRows /\ all \in Nat /\ (\A k \in new : d.slot[k] = 0)
  BY FiniteRows
<1>2. /\ Entered(d) \in SUBSET AllRows
      /\ \A k \in AllRows : d.slot[k] \in Nat /\ (k \in Entered(d) <=> d.slot[k] # 0)
  BY ArrayFacts
<1>3. K \in SUBSET AllRows /\ Slack(K, d, pos) \in Nat /\ \A k \in K : d.slot[k] # 0 /\ k \notin out
  BY <1>2, SlackType
<1>4. PICK order \in Orders(new) :
          \/ x = Popped(Enter(d, order, 0, all), out)
          \/ \E n \in 0..all, gone \in SUBSET out :
                x = Popped(Enter(Compact(Popped(Enter(d, order, 0, n), gone)), order, n, all), out)
  BY DEF After
<1>5. \A k \in new : order[k] \in 1..all
  BY DEF Orders
<1> HIDE DEF new, all
<1>6. IsFiniteSet(out) /\ Cardinality(out) \in Nat
  BY FiniteRows
<1>7. CASE x = Popped(Enter(d, order, 0, all), out)
  <2> DEFINE e == Enter(d, order, 0, all)
  <2>1. /\ Array(e) /\ Slack(K, e, pos) = Slack(K, d, pos)
        /\ \A k \in AllRows : d.slot[k] # 0 => e.slot[k] = d.slot[k]
    <3>1. 0 \in Nat /\ 0 <= all /\ all <= Cardinality(new)
      BY <1>1 DEF all
    <3> QED  BY <1>1, <3>1, EnterSlack
  <2> HIDE DEF e
  <2>2. Entered(e) \in SUBSET AllRows /\ \A k \in AllRows : k \in Entered(e) <=> e.slot[k] # 0
    BY <2>1, ArrayFacts
  <2>3. K \in SUBSET Entered(e)
    BY <1>3, <2>1, <2>2
  <2>4. /\ Slack(K, x, pos) = Slack(K, e, pos) + Cardinality(Entered(e) \intersect out)
        /\ \A k \in AllRows : x.slot[k] = IF k \in out THEN 0 ELSE e.slot[k]
    BY <1>7, <2>1, <2>3, PopSlack DEF e
  <2>5. Cardinality(Entered(e) \intersect out) \in Nat /\ Cardinality(Entered(e) \intersect out) <= Cardinality(out)
    <3>1. Entered(e) \intersect out \in SUBSET out /\ Entered(e) \intersect out \in SUBSET AllRows
      OBVIOUS
    <3> QED  BY <1>6, <3>1, FiniteRows, FS_Subset
  <2>6. Slack(K, x, pos) <= Slack(K, d, pos) + Cardinality(out)
    BY <1>3, <1>6, <2>1, <2>4, <2>5
  <2> QED  BY <1>2, <2>1, <2>4, <2>6
<1>8. CASE \E n \in 0..all, gone \in SUBSET out :
              x = Popped(Enter(Compact(Popped(Enter(d, order, 0, n), gone)), order, n, all), out)
  <2>1. PICK n \in 0..all, gone \in SUBSET out :
              x = Popped(Enter(Compact(Popped(Enter(d, order, 0, n), gone)), order, n, all), out)
    BY <1>8
  <2> DEFINE e1 == Enter(d, order, 0, n)
             e2 == Popped(e1, gone)
             e3 == Compact(e2)
             e4 == Enter(e3, order, n, all)
             G == Entered(e1) \intersect gone
             H == Entered(e4) \intersect out
  <2>2. n \in Nat /\ 0 <= n /\ n <= all
    BY <1>1, <2>1
  <2>3. /\ Array(e1) /\ Slack(K, e1, pos) = Slack(K, d, pos)
        /\ \A k \in AllRows : e1.slot[k] # 0 <=> d.slot[k] # 0 \/ (k \in new /\ 0 < order[k] /\ order[k] <= n)
        /\ \A k \in AllRows : d.slot[k] # 0 => e1.slot[k] = d.slot[k]
    <3>1. 0 \in Nat /\ n <= Cardinality(new)
      BY <2>2 DEF all
    <3> QED  BY <1>1, <2>2, <3>1, EnterSlack
  <2> HIDE DEF e1
  <2>4. Entered(e1) \in SUBSET AllRows /\ \A k \in AllRows : k \in Entered(e1) <=> e1.slot[k] # 0
    BY <2>3, ArrayFacts
  <2>5. K \in SUBSET Entered(e1) /\ K \intersect gone = {}
    BY <1>3, <2>3, <2>4
  <2>6. /\ Array(e2) /\ Slack(K, e2, pos) = Slack(K, e1, pos) + Cardinality(G)
        /\ \A k \in AllRows : e2.slot[k] = IF k \in gone THEN 0 ELSE e1.slot[k]
    <3>1. Array(e1) /\ K \in SUBSET Entered(e1) /\ K \intersect gone = {}
      BY <2>3, <2>5
    <3>2. /\ Array(Popped(e1, gone))
          /\ Slack(K, Popped(e1, gone), pos) = Slack(K, e1, pos) + Cardinality(Entered(e1) \intersect gone)
          /\ \A k \in AllRows : Popped(e1, gone).slot[k] = IF k \in gone THEN 0 ELSE e1.slot[k]
      <4> DEFINE S == gone
      <4>1. Array(e1) /\ K \in SUBSET Entered(e1) /\ K \intersect S = {} /\ pos \in Nat
        BY <3>1
      <4> HIDE DEF S
      <4>2. /\ Array(Popped(e1, S))
            /\ Slack(K, Popped(e1, S), pos) = Slack(K, e1, pos) + Cardinality(Entered(e1) \intersect S)
            /\ \A k \in AllRows : Popped(e1, S).slot[k] = IF k \in S THEN 0 ELSE e1.slot[k]
        BY <4>1, PopSlack
      <4> QED  BY <4>2 DEF S
    <3> QED  BY <3>2
  <2> HIDE DEF e2
  <2>7. K \in SUBSET Entered(e2)
    <3>1. \A k \in AllRows : k \in Entered(e2) <=> e2.slot[k] # 0
      BY <2>6, ArrayFacts
    <3> QED  BY <1>3, <2>4, <2>5, <2>6, <3>1
  <2>8. /\ Array(e3) /\ Slack(K, e3, pos) <= Slack(K, e2, pos)
        /\ \A k \in AllRows : e3.slot[k] # 0 <=> e2.slot[k] # 0
        /\ \A k \in AllRows : e3.slot[k] <= e2.slot[k]
    BY <2>6, <2>7, CompactSlack, CompactArray
  <2> HIDE DEF e3
  <2>9. K \in SUBSET Entered(e3)
    <3>1. \A k \in AllRows : (k \in Entered(e3) <=> e3.slot[k] # 0) /\ (k \in Entered(e2) <=> e2.slot[k] # 0)
      BY <2>6, <2>8, ArrayFacts
    <3> QED  BY <1>3, <2>7, <2>8, <3>1
  <2>10. \A k \in new : n < order[k] => e1.slot[k] = 0 /\ e3.slot[k] = 0
    <3> SUFFICES ASSUME NEW k \in new, n < order[k] PROVE e1.slot[k] = 0 /\ e3.slot[k] = 0
      OBVIOUS
    <3>1. k \in AllRows /\ order[k] \in Nat /\ d.slot[k] = 0
      BY <1>1, <1>5
    <3>2. e1.slot[k] = 0
      BY <2>2, <2>3, <3>1
    <3> QED  BY <2>6, <2>8, <3>1, <3>2
  <2>11. /\ Array(e4) /\ Slack(K, e4, pos) = Slack(K, e3, pos)
         /\ \A k \in AllRows : e4.slot[k] # 0 <=> e3.slot[k] # 0 \/ (k \in new /\ n < order[k] /\ order[k] <= all)
         /\ \A k \in AllRows : e3.slot[k] # 0 => e4.slot[k] = e3.slot[k]
    <3>1. all <= Cardinality(new)
      BY <1>1 DEF all
    <3> QED  BY <1>1, <2>2, <2>8, <2>9, <2>10, <3>1, EnterSlack
  <2> HIDE DEF e4
  <2>12. Entered(e4) \in SUBSET AllRows /\ \A k \in AllRows : k \in Entered(e4) <=> e4.slot[k] # 0
    BY <2>11, ArrayFacts
  <2>13. K \in SUBSET Entered(e4)
    <3>1. \A k \in AllRows : k \in Entered(e3) <=> e3.slot[k] # 0
      BY <2>8, ArrayFacts
    <3> QED  BY <1>3, <2>9, <2>11, <2>12, <3>1
  <2>14. /\ Slack(K, x, pos) = Slack(K, e4, pos) + Cardinality(H)
         /\ \A k \in AllRows : x.slot[k] = IF k \in out THEN 0 ELSE e4.slot[k]
    BY <2>1, <2>11, <2>13, PopSlack DEF e1, e2, e3, e4
  <2>15. G \intersect H = {}
    <3> SUFFICES ASSUME NEW k \in G, k \in H PROVE FALSE
      OBVIOUS
    <3>1. k \in AllRows /\ e1.slot[k] # 0 /\ e2.slot[k] = 0 /\ e3.slot[k] = 0 /\ e4.slot[k] # 0
      BY <2>4, <2>6, <2>8, <2>12
    <3> QED  BY <2>10, <2>11, <3>1
  <2>16. G \in SUBSET AllRows /\ H \in SUBSET AllRows /\ G \union H \in SUBSET out
    BY <2>1, <2>4
  <2> HIDE DEF G, H
  <2>17. /\ Cardinality(G \union H) = Cardinality(G) + Cardinality(H)
         /\ Cardinality(G) \in Nat /\ Cardinality(H) \in Nat
    BY <2>15, <2>16, ApartCounted
  <2>18. Cardinality(G \union H) <= Cardinality(out)
    BY <1>6, <2>16, FS_Subset
  <2>19. /\ Slack(K, e1, pos) \in Nat /\ Slack(K, e2, pos) \in Nat /\ Slack(K, e3, pos) \in Nat
         /\ Slack(K, e4, pos) \in Nat
    BY <1>3, <2>3, <2>6, <2>8, <2>11, SlackType
  <2>20. Slack(K, x, pos) <= Slack(K, d, pos) + Cardinality(out)
    BY <1>3, <1>6, <2>3, <2>6, <2>8, <2>11, <2>14, <2>17, <2>18, <2>19
  <2>21. ASSUME NEW k \in AllRows, d.slot[k] # 0, k \notin out PROVE x.slot[k] <= d.slot[k]
    <3>1. k \notin gone /\ e1.slot[k] = d.slot[k] /\ e1.slot[k] # 0
      BY <2>1, <2>3, <2>21
    <3>2. e2.slot[k] = d.slot[k]
      BY <2>6, <3>1
    <3>3. e3.slot[k] # 0 /\ e3.slot[k] <= d.slot[k]
      BY <2>8, <2>21, <3>2
    <3> QED  BY <2>11, <2>14, <2>21, <3>3
  <2> QED  BY <2>20, <2>21
<1> QED  BY <1>4, <1>7, <1>8

-----------------------------------------------------------------------------
(* Enumerating.                                                            *)

\* Where row k, not listed by the iterator it yet, is still going to be met, in the
\* dictionary of the clone if it is not passed by there.
Awaits(it, t, c, k) ==
    \/ it.phase = "made"
    \/ it.phase = "db" /\ (k \in it.left \/ t[k] # Untracked \/ c[k] # Untracked)
    \/ it.phase = "top" /\ ((t[k] # Untracked /\ k \notin it.visited) \/ c[k] # Untracked)
    \/ it.phase = "clone" /\ c[k] # Untracked

\* How often row k can have been listed before the dictionary of the clone, and what
\* then is to be seen of it.
Counts(it, t, c, b, k) ==
    LET n == it.times[k]
    IN  /\ it.phase = "made" => n = 0
        /\ it.phase = "db" /\ n # 0 => k \notin it.left
        /\ n \in {0, 1} /\ (n # 0 => b[k] # Null)
        /\ n # 0 /\ k \notin it.visited => t[k] = Untracked \/ c[k] # Untracked

\* The iterator it in order, over the stored items d, the caches t and c, and what is
\* seen through the one and through both.
InOrder(it, d, t, c, b, v) ==
    /\ it = [phase |-> it.phase, of |-> it.of, left |-> it.left, size |-> it.size, visited |-> it.visited,
             pos |-> it.pos, times |-> it.times, kept |-> it.kept]
    /\ it.phase \in {"made", "db", "top", "clone", "end"} /\ it.of \in Hash
    /\ it.times \in [AllRows -> Nat] /\ it.pos \in Nat
    /\ it.phase \in {"made", "db", "top"} => it.pos = 0
    /\ it.phase \in {"made", "db"} => it.visited = {}
    /\ it.phase = "db" => \A k \in it.left : k \in Rows(it.of) /\ d[k] # Null
    /\ \A k \in it.kept : k \in Rows(it.of) /\ v[k] # Null
    /\ it.phase # "end" => \A k \in it.kept : it.times[k] # 0 \/ Awaits(it, t, c, k)
    /\ it.phase \in {"made", "db", "top"} => \A k \in AllRows : Counts(it, t, c, b, k)

Missing(it) == {k \in it.kept : it.times[k] = 0}

Passed(it, d, k) == d.slot[k] # 0 /\ d.slot[k] <= it.pos

\* How often a row can have been listed by the dictionary of the clone and before: once
\* more than it was taken out, and a row of the block once more than that.
Listed(n, passed, ps, out, stored) ==
    IF stored
    THEN n <= 1 \/ (n = 2 /\ passed)
    ELSE /\ n <= ps \/ (n = ps + 1 /\ passed)
         /\ out \/ n = 0 \/ (n = 1 /\ passed)

\* What the iterator can miss in the dictionary d of the clone, and how often it can have
\* listed a row, when ps rows were taken out.
Gauged(it, d, ps, out, b) ==
    it.phase \in {"clone", "end"} =>
        /\ it.phase = "clone" => Slack(Missing(it), d, it.pos) <= ps
        /\ it.phase = "end" => Cardinality(Missing(it)) <= ps
        /\ \A k \in AllRows : Listed(it.times[k], Passed(it, d, k), ps, k \in out, b[k] # Null)

\* The one iterator there is; it lives as long as its execution.
Enumerates ==
    /\ level # "invoke" => iter = NoIter /\ dropped = {}
    /\ Gaps(dictionary) <= pops
    /\ ~torn => \A k \in AllRows : k \in dropped => BlockView[k] = Null
    /\ iter # NoIter /\ ~torn => /\ InOrder(iter, db, top, clone, BlockView, InvocationView)
                                 /\ Gauged(iter, dictionary, pops, dropped, BlockView)

\* What a service does to the dictionary, in the terms of an iterator.
LEMMA FollowSlack ==
    ASSUME Arrayed, NEW mid, NEW joined, Follow(mid, joined),
           \A k \in AllRows : mid[k] = clone[k] \/ mid[k] # Untracked,
           NEW K \in SUBSET Entered(dictionary), \A k \in K : clone'[k] # Untracked, NEW pos \in Nat
    PROVE  LET out == Tracked(mid) \ Tracked(clone')
           IN  /\ Slack(K, dictionary', pos) <= Slack(K, dictionary, pos) + Cardinality(out)
               /\ Cardinality(out) \in Nat /\ pops' = pops + Cardinality(out) /\ dropped' = dropped \union out
               /\ \A k \in AllRows : dictionary.slot[k] # 0 /\ clone'[k] # Untracked =>
                                        dictionary'.slot[k] <= dictionary.slot[k]
               /\ \A k \in AllRows : dictionary.slot[k] # 0 /\ clone'[k] = Untracked =>
                                        k \in out /\ Cardinality(out) # 0
<1> DEFINE added == {k \in AllRows : mid[k] # clone[k]}
           lookedUp == Tracked(clone') \ Tracked(mid)
           out == Tracked(mid) \ Tracked(clone')
<1>0. \E d \in After(dictionary, added, {}) : dictionary' \in After(d, lookedUp, out)
  BY Zenon DEF Follow
<1>1. PICK d \in After(dictionary, added, {}) : dictionary' \in After(d, lookedUp, out)
  BY <1>0
<1>2. pops' = pops + Cardinality(out) /\ dropped' = dropped \union out
  BY DEF Follow
<1>3. added \in SUBSET AllRows /\ lookedUp \in SUBSET AllRows /\ out \in SUBSET AllRows
  BY DEF Tracked
<1>4. \A k \in AllRows : k \in out <=> mid[k] # Untracked /\ clone'[k] = Untracked
  BY DEF Tracked
<1> HIDE DEF added, lookedUp, out
<1>5. /\ Array(dictionary) /\ Entered(dictionary) \in SUBSET AllRows
      /\ \A k \in AllRows : (k \in Entered(dictionary) <=> dictionary.slot[k] # 0) /\ dictionary.slot[k] \in Nat
      /\ \A k \in AllRows : dictionary.slot[k] # 0 => clone[k] # Untracked
  BY ArrayFacts DEF Arrayed
<1>6. K \in SUBSET AllRows /\ K \intersect out = {} /\ \A k \in K : dictionary.slot[k] # 0
  BY <1>4, <1>5
<1>7. Array(d) /\ \A k \in AllRows : d.slot[k] # 0 <=> (dictionary.slot[k] # 0 \/ k \in added) /\ k \notin {}
  <2>1. {} \in SUBSET AllRows /\ Array(dictionary)
    BY <1>5
  <2> QED  BY <1>1, <1>3, <2>1, AfterArray
<1>8. /\ Slack(K, d, pos) <= Slack(K, dictionary, pos) + Cardinality({})
      /\ \A k \in AllRows : dictionary.slot[k] # 0 /\ k \notin {} => d.slot[k] <= dictionary.slot[k]
  <2> DEFINE none == {}
  <2>1. none \in SUBSET AllRows /\ K \intersect none = {} /\ Array(dictionary) /\ d \in After(dictionary, added, none)
    BY <1>1, <1>5
  <2> HIDE DEF none
  <2>2. /\ Slack(K, d, pos) <= Slack(K, dictionary, pos) + Cardinality(none)
        /\ \A k \in AllRows : dictionary.slot[k] # 0 /\ k \notin none => d.slot[k] <= dictionary.slot[k]
    BY <1>3, <2>1, AfterSlack
  <2> QED  BY <2>2 DEF none
<1>9. /\ Entered(d) \in SUBSET AllRows
      /\ \A k \in AllRows : (k \in Entered(d) <=> d.slot[k] # 0) /\ d.slot[k] \in Nat
  BY <1>7, ArrayFacts
<1>10. /\ Slack(K, dictionary', pos) <= Slack(K, d, pos) + Cardinality(out)
       /\ \A k \in AllRows : d.slot[k] # 0 /\ k \notin out => dictionary'.slot[k] <= d.slot[k]
  <2> DEFINE x == dictionary'
  <2>1. x \in After(d, lookedUp, out) /\ K \in SUBSET Entered(d)
    BY <1>1, <1>6, <1>7, <1>9
  <2> HIDE DEF x
  <2>2. /\ Slack(K, x, pos) <= Slack(K, d, pos) + Cardinality(out)
        /\ \A k \in AllRows : d.slot[k] # 0 /\ k \notin out => x.slot[k] <= d.slot[k]
    BY <1>3, <1>6, <1>7, <2>1, AfterSlack
  <2> QED  BY <2>2 DEF x
<1>11. Array(dictionary')
  BY FollowArrayed DEF Arrayed
<1>12. /\ Slack(K, dictionary, pos) \in Nat /\ Slack(K, d, pos) \in Nat /\ Slack(K, dictionary', pos) \in Nat
       /\ Cardinality(out) \in Nat /\ IsFiniteSet(out)
  BY <1>3, <1>5, <1>6, <1>7, <1>11, SlackType, FiniteRows
<1>13. Slack(K, dictionary', pos) <= Slack(K, dictionary, pos) + Cardinality(out)
  <2>1. Cardinality({}) = 0
    BY FS_EmptySet
  <2>2. Slack(K, d, pos) <= Slack(K, dictionary, pos) + 0
    BY <1>8, <2>1
  <2> QED  BY <1>10, <1>12, <2>2
<1>14. ASSUME NEW k \in AllRows, dictionary.slot[k] # 0, clone'[k] # Untracked
       PROVE  dictionary'.slot[k] <= dictionary.slot[k]
  <2>1. d.slot[k] <= dictionary.slot[k] /\ d.slot[k] # 0 /\ k \notin out
    BY <1>4, <1>7, <1>8, <1>14
  <2>2. dictionary'.slot[k] <= d.slot[k]
    BY <1>10, <2>1
  <2>3. dictionary'.slot[k] \in Nat
    BY <1>11, ArrayFacts
  <2> QED  BY <1>5, <1>9, <2>1, <2>2, <2>3
<1>15. ASSUME NEW k \in AllRows, dictionary.slot[k] # 0, clone'[k] = Untracked
       PROVE  k \in out /\ Cardinality(out) # 0
  <2>1. k \in out
    BY <1>4, <1>5, <1>15
  <2> QED  BY <1>12, <2>1, FS_EmptySet
<1> QED  BY <1>2, <1>12, <1>13, <1>14, <1>15 DEF out

\* There are no more gaps than rows taken out.
LEMMA FollowGaps ==
    ASSUME Arrayed, NEW mid, NEW joined, Follow(mid, joined),
           \A k \in AllRows : mid[k] = clone[k] \/ mid[k] # Untracked,
           Gaps(dictionary) <= pops
    PROVE  Gaps(dictionary') <= pops'
<1> DEFINE none == {}
<1>1. Array(dictionary) /\ Array(dictionary') /\ pops \in Nat
  BY FollowArrayed DEF Arrayed
<1>2. Gaps(dictionary) \in Nat /\ Gaps(dictionary') \in Nat
  BY <1>1, ArrayFacts
<1>3. \A d : Behind(none, d, 0) = {}
  BY DEF Behind
<1>4. Cardinality({}) = 0
  BY FS_EmptySet
<1>5. Slack(none, dictionary, 0) = Gaps(dictionary) /\ Slack(none, dictionary', 0) = Gaps(dictionary')
  BY <1>2, <1>3, <1>4 DEF Slack
<1>6. none \in SUBSET Entered(dictionary) /\ (\A k \in none : clone'[k] # Untracked) /\ 0 \in Nat
  OBVIOUS
<1> HIDE DEF none
<1> DEFINE out == Tracked(mid) \ Tracked(clone')
<1>7. /\ Slack(none, dictionary', 0) <= Slack(none, dictionary, 0) + Cardinality(out)
      /\ Cardinality(out) \in Nat /\ pops' = pops + Cardinality(out)
  BY <1>6, FollowSlack
<1> HIDE DEF out
<1> QED  BY <1>1, <1>2, <1>5, <1>7

\* A service leaves an iterator in order, which keeps of its rows those still there.
LEMMA FollowOrder ==
    ASSUME Typed, Orderly, Within, Touches, NEW it,
           InOrder(it, db, top, clone, BlockView, InvocationView)
    PROVE  InOrder([it EXCEPT !.kept = {k \in @ : InvocationView'[k] # Null}],
                   db', top', clone', BlockView', InvocationView')
<1> DEFINE jt == [it EXCEPT !.kept = {k \in @ : InvocationView'[k] # Null}]
<1>1. /\ jt = [phase |-> it.phase, of |-> it.of, left |-> it.left, size |-> it.size, visited |-> it.visited,
               pos |-> it.pos, times |-> it.times, kept |-> jt.kept]
      /\ jt.kept = {k \in it.kept : InvocationView'[k] # Null}
  <2>1. it = [phase |-> it.phase, of |-> it.of, left |-> it.left, size |-> it.size, visited |-> it.visited,
              pos |-> it.pos, times |-> it.times, kept |-> it.kept]
    BY DEF InOrder
  <2>2. PICK p, o, l, s, w, q, n, m :
           it = [phase |-> p, of |-> o, left |-> l, size |-> s, visited |-> w, pos |-> q, times |-> n, kept |-> m]
    BY <2>1, Zenon
  <2> DEFINE rest == {k \in m : InvocationView'[k] # Null}
  <2>3. it.kept = m
    BY <2>2
  <2>4. jt = [phase |-> p, of |-> o, left |-> l, size |-> s, visited |-> w, pos |-> q, times |-> n, kept |-> rest]
    <3>1. jt = [it EXCEPT !.kept = rest]
      BY <2>3
    <3> HIDE DEF jt, rest
    <3> QED  BY <2>2, <3>1
  <2> HIDE DEF jt, rest
  <2>5. jt.kept = rest
    BY <2>4
  <2> QED  BY <2>2, <2>3, <2>4, <2>5 DEF rest
<1> HIDE DEF jt
<1>2. /\ db' = db /\ BlockView' = BlockView
      /\ \A k \in Key : top[k] # Untracked => top'[k] # Untracked
      /\ \A k \in Key : top[k] = Untracked /\ top'[k] # Untracked => clone'[k] # Untracked
      /\ \A k \in Key : clone[k] # Untracked /\ clone'[k] = Untracked =>
            BlockView[k] = Null /\ InvocationView'[k] = Null
  BY DEF Within, Touches, InvocationView, View
<1>3. /\ jt.phase = it.phase /\ jt.of = it.of /\ jt.left = it.left /\ jt.visited = it.visited
      /\ jt.times = it.times /\ jt.size = it.size /\ jt.pos = it.pos
  BY <1>1
<1>4. \A k \in jt.kept : k \in it.kept /\ k \in Rows(jt.of) /\ k \in Key /\ InvocationView'[k] # Null
  BY <1>1, <1>3, RowShapes DEF InOrder
<1>5. jt.phase # "end" => \A k \in jt.kept : jt.times[k] # 0 \/ Awaits(jt, top', clone', k)
  <2> SUFFICES ASSUME jt.phase # "end", NEW k \in jt.kept, jt.times[k] = 0 PROVE Awaits(jt, top', clone', k)
    OBVIOUS
  <2>1. Awaits(it, top, clone, k)
    BY <1>3, <1>4 DEF InOrder
  <2> QED  BY <1>2, <1>3, <1>4, <2>1 DEF Awaits
<1>6. jt.phase \in {"made", "db", "top"} => \A k \in AllRows : Counts(jt, top', clone', BlockView', k)
  <2> SUFFICES ASSUME jt.phase \in {"made", "db", "top"}, NEW k \in AllRows
               PROVE  Counts(jt, top', clone', BlockView', k)
    OBVIOUS
  <2>1. Counts(it, top, clone, BlockView, k) /\ k \in Key
    BY <1>3, RowShapes DEF InOrder
  <2>2. /\ top'[k] # Untracked => top[k] # Untracked \/ clone'[k] # Untracked
        /\ BlockView[k] # Null /\ clone[k] # Untracked => clone'[k] # Untracked
    BY <1>2, <2>1
  <2> QED  BY <1>2, <1>3, <2>1, <2>2 DEF Counts
<1> QED  BY <1>1, <1>2, <1>3, <1>4, <1>5, <1>6 DEF InOrder, jt

\* And what it can miss, and has listed, within bounds.
LEMMA FollowGauged ==
    ASSUME Arrayed, Arrayed', NEW mid, NEW joined, Follow(mid, joined), BlockView' = BlockView,
           \A k \in AllRows : mid[k] = clone[k] \/ mid[k] # Untracked,
           \A k \in AllRows : mid[k] # Untracked /\ clone'[k] = Untracked => BlockView[k] = Null,
           NEW it, InOrder(it, db, top, clone, BlockView, InvocationView),
           Gauged(it, dictionary, pops, dropped, BlockView), NEW kept \in SUBSET it.kept,
           \A k \in kept : BlockView[k] # Null \/ clone'[k] # Untracked
    PROVE  Gauged([it EXCEPT !.kept = kept], dictionary', pops', dropped', BlockView')
<1> DEFINE jt == [it EXCEPT !.kept = kept]
           out == Tracked(mid) \ Tracked(clone')
<1>1. /\ jt.phase = it.phase /\ jt.of = it.of /\ jt.times = it.times /\ jt.pos = it.pos /\ jt.kept = kept
      /\ it.pos \in Nat /\ it.times \in [AllRows -> Nat] /\ it.kept \in SUBSET AllRows
  BY RowShapes DEF InOrder
<1> HIDE DEF jt
<1>2. /\ Array(dictionary) /\ Array(dictionary') /\ pops \in Nat /\ pops' \in Nat
      /\ \A k \in AllRows : dictionary.slot[k] # 0 <=> clone[k] # Untracked
      /\ \A k \in AllRows : dictionary'.slot[k] # 0 <=> clone'[k] # Untracked
  BY DEF Arrayed
<1>3. /\ \A k \in AllRows : dictionary.slot[k] \in Nat /\ dictionary'.slot[k] \in Nat
      /\ \A k \in AllRows : k \in Entered(dictionary) <=> dictionary.slot[k] # 0
  BY <1>2, ArrayFacts
<1> SUFFICES ASSUME it.phase \in {"clone", "end"}
             PROVE  /\ jt.phase = "clone" => Slack(Missing(jt), dictionary', jt.pos) <= pops'
                    /\ jt.phase = "end" => Cardinality(Missing(jt)) <= pops'
                    /\ \A k \in AllRows : Listed(jt.times[k], Passed(jt, dictionary', k), pops', k \in dropped',
                                                 BlockView'[k] # Null)
  BY <1>1 DEF Gauged, jt
<1>4. Missing(jt) \in SUBSET Missing(it) /\ Missing(it) \in SUBSET AllRows
  BY <1>1 DEF Missing
<1>5. /\ Cardinality(out) \in Nat /\ pops' = pops + Cardinality(out) /\ dropped' = dropped \union out
      /\ \A k \in AllRows : dictionary.slot[k] # 0 /\ clone'[k] # Untracked =>
                               dictionary'.slot[k] <= dictionary.slot[k]
      /\ \A k \in AllRows : dictionary.slot[k] # 0 /\ clone'[k] = Untracked => k \in out /\ Cardinality(out) # 0
  <2> DEFINE none == {}
  <2>1. none \in SUBSET Entered(dictionary) /\ (\A k \in none : clone'[k] # Untracked) /\ 0 \in Nat
    OBVIOUS
  <2> HIDE DEF none
  <2> QED  BY <2>1, FollowSlack
<1>6. jt.phase = "clone" => Slack(Missing(jt), dictionary', jt.pos) <= pops'
  <2> SUFFICES ASSUME it.phase = "clone" PROVE Slack(Missing(jt), dictionary', it.pos) <= pops'
    BY <1>1
  <2> DEFINE K == Missing(jt)
  <2>1. Slack(Missing(it), dictionary, it.pos) <= pops
    BY DEF Gauged
  <2>2. \A k \in K : k \in AllRows /\ dictionary.slot[k] # 0 /\ clone'[k] # Untracked
    <3> SUFFICES ASSUME NEW k \in K PROVE k \in AllRows /\ dictionary.slot[k] # 0 /\ clone'[k] # Untracked
      OBVIOUS
    <3>1. k \in kept /\ k \in it.kept /\ it.times[k] = 0 /\ k \in AllRows
      BY <1>1 DEF Missing
    <3>2. clone[k] # Untracked
      BY <3>1 DEF InOrder, Awaits
    <3>3. clone'[k] # Untracked
      BY <3>1, <3>2
    <3> QED  BY <1>2, <3>1, <3>2, <3>3
  <2>3. K \in SUBSET Entered(dictionary) /\ (\A k \in K : clone'[k] # Untracked)
    BY <1>3, <2>2
  <2>4. Behind(K, dictionary, it.pos) \in SUBSET Behind(Missing(it), dictionary, it.pos)
    BY <1>4 DEF Behind
  <2> HIDE DEF K
  <2>5. Slack(K, dictionary', it.pos) <= Slack(K, dictionary, it.pos) + Cardinality(out)
    BY <1>1, <2>3, FollowSlack
  <2>6. Slack(K, dictionary, it.pos) <= Slack(Missing(it), dictionary, it.pos)
    <3>1. Behind(Missing(it), dictionary, it.pos) \in SUBSET AllRows
      BY <1>4 DEF Behind
    <3>2. /\ IsFiniteSet(Behind(Missing(it), dictionary, it.pos))
          /\ Cardinality(Behind(Missing(it), dictionary, it.pos)) \in Nat
          /\ Cardinality(Behind(K, dictionary, it.pos)) \in Nat
      BY <2>4, <3>1, FiniteRows
    <3>3. Cardinality(Behind(K, dictionary, it.pos)) <= Cardinality(Behind(Missing(it), dictionary, it.pos))
      BY <2>4, <3>2, FS_Subset
    <3>4. Gaps(dictionary) \in Nat
      BY <1>2, ArrayFacts
    <3> QED  BY <3>2, <3>3, <3>4 DEF Slack
  <2>7. /\ Slack(K, dictionary', it.pos) \in Nat /\ Slack(K, dictionary, it.pos) \in Nat
        /\ Slack(Missing(it), dictionary, it.pos) \in Nat
    BY <1>2, <1>4, SlackType DEF K
  <2>8. Slack(K, dictionary', it.pos) <= pops'
    BY <1>2, <1>5, <2>1, <2>5, <2>6, <2>7
  <2> QED  BY <2>8 DEF K
<1>7. jt.phase = "end" => Cardinality(Missing(jt)) <= pops'
  <2> SUFFICES ASSUME it.phase = "end" PROVE Cardinality(Missing(jt)) <= pops'
    BY <1>1
  <2>1. Cardinality(Missing(it)) <= pops
    BY DEF Gauged
  <2>2. /\ IsFiniteSet(Missing(it)) /\ Cardinality(Missing(it)) \in Nat
        /\ Cardinality(Missing(jt)) \in Nat
    BY <1>4, FiniteRows
  <2>3. Cardinality(Missing(jt)) <= Cardinality(Missing(it))
    BY <1>4, <2>2, FS_Subset
  <2> QED  BY <1>2, <1>5, <2>1, <2>2, <2>3
<1>8. ASSUME NEW k \in AllRows
      PROVE  Listed(jt.times[k], Passed(jt, dictionary', k), pops', k \in dropped', BlockView'[k] # Null)
  <2>1. Listed(it.times[k], Passed(it, dictionary, k), pops, k \in dropped, BlockView[k] # Null)
    BY DEF Gauged
  <2>2. it.times[k] \in Nat /\ jt.times[k] = it.times[k] /\ jt.pos = it.pos
    BY <1>1
  <2>3. pops <= pops' /\ (k \in dropped => k \in dropped')
    BY <1>2, <1>5
  <2>4. CASE Passed(it, dictionary, k) /\ clone'[k] # Untracked
    <3>1. dictionary'.slot[k] # 0 /\ dictionary'.slot[k] <= dictionary.slot[k]
      BY <1>2, <1>5, <2>4 DEF Passed
    <3>2. Passed(jt, dictionary', k)
      BY <1>1, <1>3, <2>4, <3>1 DEF Passed
    <3> QED  BY <1>2, <2>1, <2>2, <2>3, <2>4, <3>2 DEF Listed
  <2>5. CASE Passed(it, dictionary, k) /\ clone'[k] = Untracked
    <3>1. k \in out /\ Cardinality(out) # 0
      BY <1>5, <2>5 DEF Passed
    <3>2. pops + 1 <= pops' /\ k \in dropped'
      BY <1>2, <1>5, <3>1
    <3>3. BlockView[k] = Null
      BY <2>5, <3>1 DEF Tracked
    <3> QED  BY <1>2, <2>1, <2>2, <3>2, <3>3 DEF Listed
  <2>6. CASE ~Passed(it, dictionary, k)
    BY <1>2, <2>1, <2>2, <2>3, <2>6 DEF Listed
  <2> QED  BY <2>4, <2>5, <2>6
<1> QED  BY <1>6, <1>7, <1>8

\* The iterator with other fields.
LEMMA IteratorShape ==
    ASSUME NEW it,
           it = [phase |-> it.phase, of |-> it.of, left |-> it.left, size |-> it.size, visited |-> it.visited,
                 pos |-> it.pos, times |-> it.times, kept |-> it.kept],
           NEW p, NEW l, NEW s, NEW w, NEW q
    PROVE  LET with(phase, left, size, visited, pos) ==
                   [phase |-> phase, of |-> it.of, left |-> left, size |-> size, visited |-> visited,
                    pos |-> pos, times |-> it.times, kept |-> it.kept]
           IN  /\ [it EXCEPT !.phase = p, !.left = l] = with(p, l, it.size, it.visited, it.pos)
               /\ [it EXCEPT !.phase = p, !.left = l, !.size = s] = with(p, l, s, it.visited, it.pos)
               /\ [it EXCEPT !.phase = p, !.visited = w, !.size = s] = with(p, it.left, s, w, it.pos)
               /\ [it EXCEPT !.phase = p] = with(p, it.left, it.size, it.visited, it.pos)
               /\ [it EXCEPT !.left = l] = with(it.phase, l, it.size, it.visited, it.pos)
               /\ [it EXCEPT !.visited = w] = with(it.phase, it.left, it.size, w, it.pos)
               /\ [it EXCEPT !.pos = q] = with(it.phase, it.left, it.size, it.visited, q)
<1>1. PICK p0, o0, l0, s0, w0, q0, n0, m0 :
         it = [phase |-> p0, of |-> o0, left |-> l0, size |-> s0, visited |-> w0, pos |-> q0,
               times |-> n0, kept |-> m0]
  BY Zenon
<1>2. /\ it.phase = p0 /\ it.of = o0 /\ it.left = l0 /\ it.size = s0 /\ it.visited = w0 /\ it.pos = q0
      /\ it.times = n0 /\ it.kept = m0
  BY <1>1
<1> DEFINE with(phase, left, size, visited, pos) ==
             [phase |-> phase, of |-> it.of, left |-> left, size |-> size, visited |-> visited,
              pos |-> pos, times |-> it.times, kept |-> it.kept]
<1>3. [it EXCEPT !.phase = p] = with(p, it.left, it.size, it.visited, it.pos)
  BY <1>1, <1>2
<1>4. [with(p, it.left, it.size, it.visited, it.pos) EXCEPT !.left = l] = with(p, l, it.size, it.visited, it.pos)
  OBVIOUS
<1>6. [with(p, l, it.size, it.visited, it.pos) EXCEPT !.size = s] = with(p, l, s, it.visited, it.pos)
  OBVIOUS
<1>7. [with(p, it.left, it.size, it.visited, it.pos) EXCEPT !.visited = w] = with(p, it.left, it.size, w, it.pos)
  OBVIOUS
<1>8. [with(p, it.left, it.size, w, it.pos) EXCEPT !.size = s] = with(p, it.left, s, w, it.pos)
  OBVIOUS
<1>5. /\ [it EXCEPT !.left = l] = with(it.phase, l, it.size, it.visited, it.pos)
      /\ [it EXCEPT !.visited = w] = with(it.phase, it.left, it.size, w, it.pos)
      /\ [it EXCEPT !.pos = q] = with(it.phase, it.left, it.size, it.visited, q)
  BY <1>1, <1>2
<1>9. /\ [it EXCEPT !.phase = p, !.left = l] = [[it EXCEPT !.phase = p] EXCEPT !.left = l]
      /\ [it EXCEPT !.phase = p, !.left = l, !.size = s] = [[[it EXCEPT !.phase = p] EXCEPT !.left = l] EXCEPT !.size = s]
      /\ [it EXCEPT !.phase = p, !.visited = w, !.size = s] = [[[it EXCEPT !.phase = p] EXCEPT !.visited = w] EXCEPT !.size = s]
  OBVIOUS
<1>10. /\ [it EXCEPT !.phase = p, !.left = l] = with(p, l, it.size, it.visited, it.pos)
       /\ [it EXCEPT !.phase = p, !.left = l, !.size = s] = with(p, l, s, it.visited, it.pos)
       /\ [it EXCEPT !.phase = p, !.visited = w, !.size = s] = with(p, it.left, s, w, it.pos)
  BY <1>3, <1>4, <1>6, <1>7, <1>8, <1>9, Zenon
<1> QED  BY <1>3, <1>5, <1>10

\* The iterator between two rows: on to the dictionaries.
LEMMA PassesOn ==
    ASSUME Typed, Arrayed, Gaps(dictionary) <= pops,
           NEW it, InOrder(it, db, top, clone, BlockView, InvocationView),
           Gauged(it, dictionary, pops, dropped, BlockView)
    PROVE  LET jt == InClone(InTop(Started(it)))
           IN  /\ InOrder(jt, db, top, clone, BlockView, InvocationView)
               /\ Gauged(jt, dictionary, pops, dropped, BlockView)
<1> DEFINE Order(x) == /\ InOrder(x, db, top, clone, BlockView, InvocationView)
                       /\ Gauged(x, dictionary, pops, dropped, BlockView)
<1>1. /\ \A k \in Key : top[k] = Untracked => BlockView[k] = db[k]
      /\ \A k \in Key : clone[k] = Untracked => InvocationView[k] = BlockView[k]
      /\ \A k \in Key : top[k] # Untracked => BlockView[k] = top[k].item
      /\ \A k \in Key : top[k] # Untracked /\ top[k].item # Null => top[k].state \in TrackState
  BY EntryShapes, FixedShapes DEF Typed, BlockView, InvocationView, View
<1>2. Order(Started(it))
  <2>1. CASE it.phase = "made"
    <3> DEFINE jt == Started(it)
    <3>1. /\ jt = [phase |-> "db", of |-> it.of, left |-> {kv[1] : kv \in FindInternal(db, Starting(it.of))},
                   size |-> it.size, visited |-> it.visited, pos |-> it.pos, times |-> it.times, kept |-> it.kept]
      <4> DEFINE l == {kv[1] : kv \in FindInternal(db, Starting(it.of))}
      <4>1. jt = [it EXCEPT !.phase = "db", !.left = l]
        BY <2>1 DEF Started
      <4> HIDE DEF jt, l
      <4>2. jt = [phase |-> "db", of |-> it.of, left |-> l, size |-> it.size, visited |-> it.visited,
                  pos |-> it.pos, times |-> it.times, kept |-> it.kept]
        BY <4>1, IteratorShape DEF InOrder
      <4> QED  BY <4>2 DEF l
    <3>2. \A k : k \in {kv[1] : kv \in FindInternal(db, Starting(it.of))} <=> k \in Rows(it.of) /\ db[k] # Null
      <4> DEFINE found == FindInternal(db, Starting(it.of))
      <4>1. \A k : k \in Rows(it.of) /\ db[k] # Null => <<k, db[k]>> \in found /\ <<k, db[k]>>[1] = k
        BY DEF FindInternal, Starting
      <4>2. \A kv \in found : kv[1] \in Rows(it.of) /\ db[kv[1]] # Null
        BY DEF FindInternal, Starting
      <4> HIDE DEF found
      <4>3. \A k : k \in Rows(it.of) /\ db[k] # Null => \E kv \in found : k = kv[1]
        BY <4>1
      <4> QED  BY <4>2, <4>3 DEF found
    <3> HIDE DEF jt
    <3>3. /\ jt.phase = "db" /\ jt.of = it.of /\ jt.visited = {} /\ jt.times = it.times /\ jt.kept = it.kept
          /\ jt.size = it.size /\ jt.pos = it.pos
          /\ \A k : k \in jt.left <=> k \in Rows(it.of) /\ db[k] # Null
      BY <2>1, <3>1, <3>2 DEF InOrder
    <3>4. jt = [phase |-> jt.phase, of |-> jt.of, left |-> jt.left, size |-> jt.size, visited |-> jt.visited,
                pos |-> jt.pos, times |-> jt.times, kept |-> jt.kept]
      BY <3>1
    <3>5. \A k \in jt.kept : Awaits(jt, top, clone, k)
      <4> SUFFICES ASSUME NEW k \in jt.kept PROVE Awaits(jt, top, clone, k)
        OBVIOUS
      <4>1. k \in Rows(it.of) /\ k \in Key /\ InvocationView[k] # Null
        BY <3>3, RowShapes DEF InOrder
      <4>2. k \in jt.left \/ top[k] # Untracked \/ clone[k] # Untracked
        <5>1. top[k] = Untracked /\ clone[k] = Untracked => db[k] # Null
          BY <1>1, <4>1
        <5> QED  BY <3>3, <4>1, <5>1
      <4> QED  BY <3>3, <4>2 DEF Awaits
    <3>6. \A k \in AllRows : Counts(jt, top, clone, BlockView, k)
      <4> SUFFICES ASSUME NEW k \in AllRows PROVE Counts(jt, top, clone, BlockView, k)
        OBVIOUS
      <4>1. it.times[k] = 0
        BY <2>1 DEF InOrder, Counts
      <4> QED  BY <3>3, <4>1 DEF Counts
    <3>7. Gauged(jt, dictionary, pops, dropped, BlockView)
      BY <3>3 DEF Gauged
    <3>8. InOrder(jt, db, top, clone, BlockView, InvocationView)
      BY <2>1, <3>3, <3>4, <3>5, <3>6 DEF InOrder
    <3> QED  BY <3>7, <3>8 DEF jt
  <2> QED  BY <2>1 DEF Started
<1>3. ASSUME NEW x, Order(x) PROVE Order(InTop(x))
  <2>1. CASE x.phase = "db" /\ FromDb(x) = {}
    <3> DEFINE jt == InTop(x)
    <3>1. jt = [phase |-> "top", of |-> x.of, left |-> {}, size |-> Cardinality(Tracked(top)),
                visited |-> x.visited, pos |-> x.pos, times |-> x.times, kept |-> x.kept]
      <4> DEFINE s == Cardinality(Tracked(top))
      <4>1. jt = [x EXCEPT !.phase = "top", !.left = {}, !.size = s]
        BY <2>1 DEF InTop
      <4> HIDE DEF jt, s
      <4>2. jt = [phase |-> "top", of |-> x.of, left |-> {}, size |-> s, visited |-> x.visited,
                  pos |-> x.pos, times |-> x.times, kept |-> x.kept]
        BY <1>3, <4>1, IteratorShape DEF InOrder
      <4> QED  BY <4>2 DEF s
    <3> HIDE DEF jt
    <3>2. /\ jt.phase = "top" /\ jt.of = x.of /\ jt.visited = {} /\ jt.times = x.times /\ jt.kept = x.kept
          /\ jt.pos = x.pos
      BY <1>3, <2>1, <3>1 DEF InOrder
    <3>3. jt = [phase |-> jt.phase, of |-> jt.of, left |-> jt.left, size |-> jt.size, visited |-> jt.visited,
                pos |-> jt.pos, times |-> jt.times, kept |-> jt.kept]
      BY <3>1
    <3>4. \A k \in x.left : top[k] # Untracked \/ clone[k] # Untracked
      BY <2>1 DEF FromDb, Tracked
    <3>5. \A k \in jt.kept : jt.times[k] # 0 \/ Awaits(jt, top, clone, k)
      BY <1>3, <2>1, <3>2, <3>4 DEF InOrder, Awaits
    <3>6. \A k \in AllRows : Counts(jt, top, clone, BlockView, k)
      <4> SUFFICES ASSUME NEW k \in AllRows PROVE Counts(jt, top, clone, BlockView, k)
        OBVIOUS
      <4>1. Counts(x, top, clone, BlockView, k)
        BY <1>3, <2>1 DEF InOrder
      <4>2. x.visited = {}
        BY <1>3, <2>1 DEF InOrder
      <4> QED  BY <2>1, <3>2, <4>1, <4>2 DEF Counts
    <3>7. Gauged(jt, dictionary, pops, dropped, BlockView)
      BY <3>2 DEF Gauged
    <3>8. InOrder(jt, db, top, clone, BlockView, InvocationView)
      BY <1>3, <2>1, <3>2, <3>3, <3>5, <3>6 DEF InOrder
    <3> QED  BY <3>7, <3>8 DEF jt
  <2>2. CASE ~(x.phase = "db" /\ FromDb(x) = {})
    BY <1>3, <2>2 DEF InTop
  <2> QED  BY <2>1, <2>2
<1>4. ASSUME NEW x, Order(x) PROVE Order(InClone(x))
  <2> DEFINE through == x.phase = "top" /\ FromTop(x) = {} /\ x.size = Cardinality(Tracked(top))
  <2>1. CASE through
    <3> DEFINE jt == InClone(x)
    <3>1. jt = [phase |-> "clone", of |-> x.of, left |-> x.left, size |-> Cardinality(Tracked(clone)),
                visited |-> {}, pos |-> x.pos, times |-> x.times, kept |-> x.kept]
      <4> DEFINE s == Cardinality(Tracked(clone))
      <4>1. jt = [x EXCEPT !.phase = "clone", !.visited = {}, !.size = s]
        BY <2>1 DEF InClone
      <4> HIDE DEF jt, s
      <4>2. jt = [phase |-> "clone", of |-> x.of, left |-> x.left, size |-> s, visited |-> {},
                  pos |-> x.pos, times |-> x.times, kept |-> x.kept]
        BY <1>4, <4>1, IteratorShape DEF InOrder
      <4> QED  BY <4>2 DEF s
    <3> HIDE DEF jt
    <3>2. /\ jt.phase = "clone" /\ jt.of = x.of /\ jt.visited = {} /\ jt.times = x.times /\ jt.kept = x.kept
          /\ jt.pos = x.pos
      BY <3>1
    <3>3. jt = [phase |-> jt.phase, of |-> jt.of, left |-> jt.left, size |-> jt.size, visited |-> jt.visited,
                pos |-> jt.pos, times |-> jt.times, kept |-> jt.kept]
      BY <3>1
    <3>4. ASSUME NEW k \in x.kept, x.times[k] = 0 PROVE clone[k] # Untracked
      <4>1. k \in Rows(x.of) /\ k \in Key /\ k \in Containing(x.of) /\ InvocationView[k] # Null
        BY <1>4, <3>4, RowShapes DEF InOrder
      <4>2. (top[k] # Untracked /\ k \notin x.visited) \/ clone[k] # Untracked
        BY <1>4, <2>1, <3>4 DEF InOrder, Awaits
      <4>3. clone[k] = Untracked /\ top[k] # Untracked => top[k].state \in TrackState
        BY <1>1, <4>1
      <4> QED  BY <2>1, <4>1, <4>2, <4>3 DEF FromTop
    <3>5. \A k \in jt.kept : jt.times[k] # 0 \/ Awaits(jt, top, clone, k)
      BY <3>2, <3>4 DEF Awaits
    <3>6. InOrder(jt, db, top, clone, BlockView, InvocationView)
      BY <1>4, <3>2, <3>3, <3>5 DEF InOrder
    <3>7. ASSUME NEW k \in AllRows
          PROVE  Listed(jt.times[k], Passed(jt, dictionary, k), pops, k \in dropped, BlockView[k] # Null)
      <4>1. Counts(x, top, clone, BlockView, k)
        BY <1>4, <2>1 DEF InOrder
      <4>2. jt.times[k] \in {0, 1} /\ (jt.times[k] # 0 => BlockView[k] # Null)
        BY <3>2, <4>1 DEF Counts
      <4> QED  BY <4>2 DEF Listed, Arrayed
    <3>8. Slack(Missing(jt), dictionary, jt.pos) <= pops
      <4>1. jt.pos = 0
        BY <1>4, <2>1, <3>2 DEF InOrder
      <4>2. \A k \in Missing(jt) : k \in AllRows /\ clone[k] # Untracked
        BY <1>4, <3>2, <3>4, RowShapes DEF Missing, InOrder
      <4>3. \A k \in Missing(jt) : dictionary.slot[k] \in Nat /\ dictionary.slot[k] # 0
        BY <4>2, ArrayFacts DEF Arrayed
      <4>4. Behind(Missing(jt), dictionary, 0) = {}
        BY <4>3 DEF Behind
      <4>5. Cardinality({}) = 0 /\ Gaps(dictionary) \in Nat
        BY FS_EmptySet, ArrayFacts DEF Arrayed
      <4> QED  BY <4>1, <4>4, <4>5 DEF Slack
    <3>9. Gauged(jt, dictionary, pops, dropped, BlockView)
      BY <3>2, <3>7, <3>8 DEF Gauged
    <3> QED  BY <3>6, <3>9 DEF jt
  <2>2. CASE ~through
    BY <1>4, <2>2 DEF InClone
  <2> QED  BY <2>1, <2>2
<1>5. Order(InTop(Started(it)))
  BY <1>2, <1>3
<1> QED  BY <1>4, <1>5

\* The iterator with row k listed once more.
LEMMA YieldsShape ==
    ASSUME NEW it,
           it = [phase |-> it.phase, of |-> it.of, left |-> it.left, size |-> it.size, visited |-> it.visited,
                 pos |-> it.pos, times |-> it.times, kept |-> it.kept],
           NEW k \in AllRows, it.times \in [AllRows -> Nat]
    PROVE  LET jt == Yields(it, k)
           IN  /\ jt = [phase |-> jt.phase, of |-> jt.of, left |-> jt.left, size |-> jt.size, visited |-> jt.visited,
                        pos |-> jt.pos, times |-> jt.times, kept |-> jt.kept]
               /\ jt.phase = it.phase /\ jt.of = it.of /\ jt.left = it.left /\ jt.size = it.size
               /\ jt.visited = it.visited /\ jt.pos = it.pos /\ jt.kept = it.kept
               /\ jt.times \in [AllRows -> Nat] /\ jt.times[k] = it.times[k] + 1
               /\ \A j \in AllRows : j # k => jt.times[j] = it.times[j]
<1> DEFINE jt == Yields(it, k)
           more == [it.times EXCEPT ![k] = @ + 1]
<1>1. PICK p0, o0, l0, s0, w0, q0, n0, m0 :
         it = [phase |-> p0, of |-> o0, left |-> l0, size |-> s0, visited |-> w0, pos |-> q0,
               times |-> n0, kept |-> m0]
  BY Zenon
<1>2. jt = [it EXCEPT !.times = more]
  BY DEF Yields
<1>3. /\ more \in [AllRows -> Nat] /\ more[k] = it.times[k] + 1
      /\ \A j \in AllRows : j # k => more[j] = it.times[j]
  OBVIOUS
<1> HIDE DEF jt, more
<1>4. jt = [phase |-> p0, of |-> o0, left |-> l0, size |-> s0, visited |-> w0, pos |-> q0,
            times |-> more, kept |-> m0]
  BY <1>1, <1>2
<1>5. /\ jt.phase = p0 /\ jt.of = o0 /\ jt.left = l0 /\ jt.size = s0 /\ jt.visited = w0 /\ jt.pos = q0
      /\ jt.times = more /\ jt.kept = m0
  BY <1>4
<1>6. /\ it.phase = p0 /\ it.of = o0 /\ it.left = l0 /\ it.size = s0 /\ it.visited = w0 /\ it.pos = q0
      /\ it.kept = m0
  BY <1>1
<1> QED  BY <1>3, <1>4, <1>5, <1>6 DEF jt

\* One more row, of the database or of the cache below.
LEMMA YieldsStored ==
    ASSUME Typed, NEW it, InOrder(it, db, top, clone, BlockView, InvocationView), NEW jt, NEW k,
           \/ it.phase = "db" /\ k \in FromDb(it) /\ jt = Yields([it EXCEPT !.left = @ \ {k}], k)
           \/ it.phase = "top" /\ k \in FromTop(it) /\ jt = Yields([it EXCEPT !.visited = @ \union {k}], k)
    PROVE  /\ InOrder(jt, db, top, clone, BlockView, InvocationView)
           /\ Gauged(jt, dictionary, pops, dropped, BlockView)
<1>1. /\ \A j \in Key : top[j] = Untracked => BlockView[j] = db[j]
      /\ \A j \in Key : top[j] # Untracked => BlockView[j] = top[j].item
      /\ \A j \in Key : top[j].state \in TrackState => top[j] # Untracked /\ top[j].item # Null
  BY EntryShapes, FixedShapes, NullAssumption DEF Typed, BlockView, View, TrackState
<1>2. /\ it = [phase |-> it.phase, of |-> it.of, left |-> it.left, size |-> it.size, visited |-> it.visited,
               pos |-> it.pos, times |-> it.times, kept |-> it.kept]
      /\ it.times \in [AllRows -> Nat] /\ it.of \in Hash /\ it.pos = 0
      /\ it.phase = "db" => it.visited = {}
      /\ Containing(it.of) \in SUBSET AllRows
      /\ \A j \in AllRows : Counts(it, top, clone, BlockView, j)
  BY RowShapes DEF InOrder
<1>3. /\ k \in AllRows /\ k \in Key /\ clone[k] = Untracked
      /\ it.phase = "db" => k \in it.left /\ db[k] # Null /\ top[k] = Untracked
      /\ it.phase = "top" => k \notin it.visited /\ top[k] # Untracked /\ top[k].item # Null
  BY <1>1, <1>2, RowShapes DEF FromDb, FromTop, Tracked, InOrder
<1>4. it.times[k] = 0 /\ BlockView[k] # Null
  <2>1. Counts(it, top, clone, BlockView, k)
    BY <1>2, <1>3
  <2> QED  BY <1>1, <1>3, <2>1 DEF Counts
<1>5. /\ jt = [phase |-> jt.phase, of |-> jt.of, left |-> jt.left, size |-> jt.size, visited |-> jt.visited,
               pos |-> jt.pos, times |-> jt.times, kept |-> jt.kept]
      /\ jt.phase = it.phase /\ jt.of = it.of /\ jt.pos = 0 /\ jt.kept = it.kept
      /\ jt.times \in [AllRows -> Nat] /\ jt.times[k] = it.times[k] + 1
      /\ \A j \in AllRows : j # k => jt.times[j] = it.times[j]
      /\ it.phase = "db" => jt.left = it.left \ {k} /\ jt.visited = it.visited
      /\ it.phase = "top" => jt.visited = it.visited \union {k}
  <2>0. k \in AllRows /\ it.times \in [AllRows -> Nat]
    BY <1>2, <1>3
  <2> DEFINE left == it.left \ {k}
             visited == it.visited \union {k}
             x == [it EXCEPT !.left = left]
             y == [it EXCEPT !.visited = visited]
  <2>1. /\ x = [phase |-> it.phase, of |-> it.of, left |-> left, size |-> it.size, visited |-> it.visited,
                pos |-> it.pos, times |-> it.times, kept |-> it.kept]
        /\ y = [phase |-> it.phase, of |-> it.of, left |-> it.left, size |-> it.size, visited |-> visited,
                pos |-> it.pos, times |-> it.times, kept |-> it.kept]
    BY <1>2, IteratorShape
  <2>2. (it.phase = "db" /\ jt = Yields(x, k)) \/ (it.phase = "top" /\ jt = Yields(y, k))
    OBVIOUS
  <2> HIDE DEF x, y, left, visited
  <2>3. /\ x.phase = it.phase /\ x.of = it.of /\ x.left = left /\ x.size = it.size /\ x.visited = it.visited
        /\ x.pos = it.pos /\ x.times = it.times /\ x.kept = it.kept
        /\ y.phase = it.phase /\ y.of = it.of /\ y.left = it.left /\ y.size = it.size /\ y.visited = visited
        /\ y.pos = it.pos /\ y.times = it.times /\ y.kept = it.kept
    BY <2>1
  <2>4. CASE it.phase = "db" /\ jt = Yields(x, k)
    <3>1. x = [phase |-> x.phase, of |-> x.of, left |-> x.left, size |-> x.size, visited |-> x.visited,
               pos |-> x.pos, times |-> x.times, kept |-> x.kept]
      BY <2>1, <2>3
    <3>2. x.times \in [AllRows -> Nat]
      BY <1>2, <2>3
    <3>3. /\ jt = [phase |-> jt.phase, of |-> jt.of, left |-> jt.left, size |-> jt.size, visited |-> jt.visited,
                   pos |-> jt.pos, times |-> jt.times, kept |-> jt.kept]
          /\ jt.phase = x.phase /\ jt.of = x.of /\ jt.left = x.left /\ jt.visited = x.visited
          /\ jt.pos = x.pos /\ jt.kept = x.kept
          /\ jt.times \in [AllRows -> Nat] /\ jt.times[k] = x.times[k] + 1
          /\ \A j \in AllRows : j # k => jt.times[j] = x.times[j]
      BY <2>0, <2>4, <3>1, <3>2, YieldsShape
    <3> QED  BY <1>2, <2>3, <2>4, <3>3 DEF left
  <2>5. CASE it.phase = "top" /\ jt = Yields(y, k)
    <3>1. y = [phase |-> y.phase, of |-> y.of, left |-> y.left, size |-> y.size, visited |-> y.visited,
               pos |-> y.pos, times |-> y.times, kept |-> y.kept]
      BY <2>1, <2>3
    <3>2. y.times \in [AllRows -> Nat]
      BY <1>2, <2>3
    <3>3. /\ jt = [phase |-> jt.phase, of |-> jt.of, left |-> jt.left, size |-> jt.size, visited |-> jt.visited,
                   pos |-> jt.pos, times |-> jt.times, kept |-> jt.kept]
          /\ jt.phase = y.phase /\ jt.of = y.of /\ jt.left = y.left /\ jt.visited = y.visited
          /\ jt.pos = y.pos /\ jt.kept = y.kept
          /\ jt.times \in [AllRows -> Nat] /\ jt.times[k] = y.times[k] + 1
          /\ \A j \in AllRows : j # k => jt.times[j] = y.times[j]
      BY <2>0, <2>5, <3>1, <3>2, YieldsShape
    <3> QED  BY <1>2, <2>3, <2>5, <3>3 DEF visited
  <2> QED  BY <2>2, <2>4, <2>5
<1>6. ASSUME NEW j \in AllRows PROVE Counts(jt, top, clone, BlockView, j)
  <2>1. Counts(it, top, clone, BlockView, j)
    BY <1>2
  <2>2. CASE j = k
    BY <1>3, <1>4, <1>5, <2>2 DEF Counts
  <2>3. CASE j # k
    BY <1>2, <1>5, <2>1, <2>3 DEF Counts
  <2> QED  BY <2>2, <2>3
<1>7. ASSUME NEW j \in it.kept PROVE jt.times[j] # 0 \/ Awaits(jt, top, clone, j)
  <2>1. j \in AllRows /\ (it.times[j] # 0 \/ Awaits(it, top, clone, j))
    BY RowShapes DEF InOrder
  <2>2. CASE j = k
    BY <1>4, <1>5, <2>2
  <2>3. CASE j # k
    BY <1>5, <2>1, <2>3 DEF Awaits
  <2> QED  BY <2>2, <2>3
<1>8. jt.phase = "db" => \A j \in jt.left : j \in Rows(jt.of) /\ db[j] # Null
  BY <1>5 DEF InOrder
<1>9. /\ \A j \in jt.kept : j \in Rows(jt.of) /\ InvocationView[j] # Null
      /\ jt.phase \in {"db", "top"} /\ jt.of \in Hash
      /\ jt.phase = "db" => jt.visited = {}
  BY <1>2, <1>5 DEF InOrder
<1>10. InOrder(jt, db, top, clone, BlockView, InvocationView)
  BY <1>5, <1>6, <1>7, <1>8, <1>9 DEF InOrder
<1>11. Gauged(jt, dictionary, pops, dropped, BlockView)
  BY <1>9 DEF Gauged
<1> QED  BY <1>10, <1>11

\* One more row of the dictionary of the clone.
LEMMA YieldsOwn ==
    ASSUME Typed, Arrayed, NEW it, InOrder(it, db, top, clone, BlockView, InvocationView),
           Gauged(it, dictionary, pops, dropped, BlockView), it.phase = "clone",
           NEW k \in FromClone(it), NEW jt, jt = Yields([it EXCEPT !.pos = dictionary.slot[k]], k)
    PROVE  /\ InOrder(jt, db, top, clone, BlockView, InvocationView)
           /\ Gauged(jt, dictionary, pops, dropped, BlockView)
<1>1. /\ it = [phase |-> it.phase, of |-> it.of, left |-> it.left, size |-> it.size, visited |-> it.visited,
               pos |-> it.pos, times |-> it.times, kept |-> it.kept]
      /\ it.times \in [AllRows -> Nat] /\ it.of \in Hash /\ it.pos \in Nat
      /\ Containing(it.of) \in SUBSET AllRows /\ Rows(it.of) \subseteq Containing(it.of)
  BY RowShapes DEF InOrder
<1>2. /\ Array(dictionary) /\ pops \in Nat
      /\ \A j \in AllRows : dictionary.slot[j] # 0 <=> clone[j] # Untracked
      /\ \A j \in AllRows : dictionary.slot[j] \in Nat
      /\ \A i, j \in AllRows : dictionary.slot[i] = dictionary.slot[j] /\ dictionary.slot[i] # 0 => i = j
      /\ \A j \in Key : clone[j] # Untracked /\ InvocationView[j] # Null => clone[j].state \in TrackState
  <2>1. \A j \in Key : clone[j] # Untracked /\ InvocationView[j] # Null => clone[j].state \in TrackState
    BY EntryShapes, FixedShapes DEF Typed, InvocationView, View
  <2> QED  BY <2>1, ArrayFacts DEF Arrayed
<1>3. /\ k \in AllRows /\ dictionary.slot[k] > it.pos
      /\ \A j \in Containing(it.of) : clone[j].state \in TrackState /\ dictionary.slot[j] > it.pos =>
            dictionary.slot[k] <= dictionary.slot[j]
  BY <1>1 DEF FromClone, NextOf
<1>4. /\ jt = [phase |-> jt.phase, of |-> jt.of, left |-> jt.left, size |-> jt.size, visited |-> jt.visited,
               pos |-> jt.pos, times |-> jt.times, kept |-> jt.kept]
      /\ jt.phase = "clone" /\ jt.of = it.of /\ jt.pos = dictionary.slot[k] /\ jt.kept = it.kept
      /\ jt.times \in [AllRows -> Nat] /\ jt.times[k] = it.times[k] + 1
      /\ \A j \in AllRows : j # k => jt.times[j] = it.times[j]
  <2> DEFINE pos == dictionary.slot[k]
             x == [it EXCEPT !.pos = pos]
  <2>1. x = [phase |-> it.phase, of |-> it.of, left |-> it.left, size |-> it.size, visited |-> it.visited,
             pos |-> pos, times |-> it.times, kept |-> it.kept]
    BY <1>1, IteratorShape
  <2>2. jt = Yields(x, k)
    OBVIOUS
  <2> HIDE DEF x, pos
  <2>3. /\ x.phase = "clone" /\ x.of = it.of /\ x.left = it.left /\ x.size = it.size /\ x.visited = it.visited
        /\ x.pos = pos /\ x.times = it.times /\ x.kept = it.kept
    BY <2>1
  <2>4. x = [phase |-> x.phase, of |-> x.of, left |-> x.left, size |-> x.size, visited |-> x.visited,
             pos |-> x.pos, times |-> x.times, kept |-> x.kept]
    BY <2>1, <2>3
  <2>5. x.times \in [AllRows -> Nat]
    BY <1>1, <2>3
  <2> QED  BY <1>1, <1>3, <2>2, <2>3, <2>4, <2>5, YieldsShape DEF pos
<1>5. \A j \in it.kept : j \in Rows(it.of) /\ j \in AllRows /\ j \in Key /\ InvocationView[j] # Null
  BY RowShapes DEF InOrder
<1>6. ASSUME NEW j \in it.kept PROVE jt.times[j] # 0 \/ Awaits(jt, top, clone, j)
  <2>1. j \in AllRows /\ (it.times[j] # 0 \/ Awaits(it, top, clone, j))
    BY <1>5 DEF InOrder
  <2>2. it.times[j] # 0 => jt.times[j] # 0
    BY <1>1, <1>4, <2>1
  <2> QED  BY <1>4, <2>1, <2>2 DEF Awaits
<1>7. InOrder(jt, db, top, clone, BlockView, InvocationView)
  BY <1>1, <1>2, <1>3, <1>4, <1>5, <1>6 DEF InOrder
<1>8. ASSUME NEW j \in AllRows
      PROVE  Listed(jt.times[j], Passed(jt, dictionary, j), pops, j \in dropped, BlockView[j] # Null)
  <2>1. Listed(it.times[j], Passed(it, dictionary, j), pops, j \in dropped, BlockView[j] # Null)
    BY DEF Gauged
  <2>2. it.times[j] \in Nat
    BY <1>1
  <2>3. CASE j = k
    <3>1. ~Passed(it, dictionary, j) /\ Passed(jt, dictionary, j) /\ jt.times[j] = it.times[j] + 1
      BY <1>1, <1>2, <1>3, <1>4, <2>3 DEF Passed
    <3> QED  BY <1>2, <2>1, <2>2, <3>1 DEF Listed
  <2>4. CASE j # k
    <3>1. jt.times[j] = it.times[j] /\ (Passed(it, dictionary, j) => Passed(jt, dictionary, j))
      BY <1>1, <1>2, <1>3, <1>4, <2>4 DEF Passed
    <3> QED  BY <2>1, <2>2, <3>1 DEF Listed
  <2> QED  BY <2>3, <2>4
<1>9. Slack(Missing(jt), dictionary, jt.pos) <= pops
  <2>1. Slack(Missing(it), dictionary, it.pos) <= pops
    BY DEF Gauged
  <2>2. ASSUME NEW j \in Missing(jt) PROVE j \in Missing(it) /\ j # k
    <3>1. j \in it.kept /\ j \in AllRows /\ jt.times[j] = 0
      BY <1>4, <1>5 DEF Missing
    <3>2. j # k
      BY <1>1, <1>4, <3>1
    <3> QED  BY <1>4, <3>1, <3>2 DEF Missing
  <2>3. ASSUME NEW j \in Behind(Missing(jt), dictionary, jt.pos) PROVE j \in Behind(Missing(it), dictionary, it.pos)
    <3>1. j \in Missing(it) /\ j # k /\ dictionary.slot[j] <= dictionary.slot[k]
      BY <1>4, <2>2 DEF Behind
    <3>2. j \in it.kept /\ it.times[j] = 0 /\ j \in AllRows /\ j \in Key /\ j \in Containing(it.of)
      BY <1>1, <1>5, <3>1 DEF Missing
    <3>3. clone[j].state \in TrackState
      BY <1>2, <1>5, <3>2 DEF InOrder, Awaits
    <3>4. dictionary.slot[j] <= it.pos
      BY <1>1, <1>2, <1>3, <3>1, <3>2, <3>3
    <3> QED  BY <3>1, <3>4 DEF Behind
  <2> DEFINE B == Behind(Missing(jt), dictionary, jt.pos)
             C == Behind(Missing(it), dictionary, it.pos)
  <2>4. B \in SUBSET C /\ C \in SUBSET AllRows
    BY <1>5, <2>3 DEF Behind, Missing
  <2>5. Slack(Missing(jt), dictionary, jt.pos) = Cardinality(B) + Gaps(dictionary)
    BY DEF Slack
  <2>6. Slack(Missing(it), dictionary, it.pos) = Cardinality(C) + Gaps(dictionary)
    BY DEF Slack
  <2> HIDE DEF B, C
  <2>7. IsFiniteSet(C) /\ Cardinality(C) \in Nat /\ Cardinality(B) \in Nat /\ Gaps(dictionary) \in Nat
    BY <1>2, <2>4, FiniteRows, ArrayFacts
  <2>8. Cardinality(B) <= Cardinality(C)
    BY <2>4, <2>7, FS_Subset
  <2> QED  BY <1>2, <2>1, <2>5, <2>6, <2>7, <2>8
<1>10. Gauged(jt, dictionary, pops, dropped, BlockView)
  BY <1>4, <1>8, <1>9 DEF Gauged
<1> QED  BY <1>7, <1>10

\* The end: all that was not listed was passed by.
LEMMA Ends ==
    ASSUME Typed, Arrayed, NEW it, InOrder(it, db, top, clone, BlockView, InvocationView),
           Gauged(it, dictionary, pops, dropped, BlockView), it.phase = "clone",
           FromClone(it) = {}, NEW jt, jt = [it EXCEPT !.phase = "end"]
    PROVE  /\ InOrder(jt, db, top, clone, BlockView, InvocationView)
           /\ Gauged(jt, dictionary, pops, dropped, BlockView)
<1>1. jt = [phase |-> "end", of |-> it.of, left |-> it.left, size |-> it.size, visited |-> it.visited,
            pos |-> it.pos, times |-> it.times, kept |-> it.kept]
  BY IteratorShape DEF InOrder
<1>2. /\ jt.phase = "end" /\ jt.of = it.of /\ jt.times = it.times /\ jt.kept = it.kept /\ jt.pos = it.pos
      /\ jt = [phase |-> jt.phase, of |-> jt.of, left |-> jt.left, size |-> jt.size, visited |-> jt.visited,
               pos |-> jt.pos, times |-> jt.times, kept |-> jt.kept]
  BY <1>1
<1>3. InOrder(jt, db, top, clone, BlockView, InvocationView)
  BY <1>2 DEF InOrder
<1>4. /\ Array(dictionary) /\ pops \in Nat
      /\ \A j \in AllRows : dictionary.slot[j] # 0 <=> clone[j] # Untracked
      /\ \A j \in AllRows : dictionary.slot[j] \in Nat
      /\ \A j \in Key : clone[j] # Untracked /\ InvocationView[j] # Null => clone[j].state \in TrackState
      /\ it.pos \in Nat
  <2>1. \A j \in Key : clone[j] # Untracked /\ InvocationView[j] # Null => clone[j].state \in TrackState
    BY EntryShapes, FixedShapes DEF Typed, InvocationView, View
  <2> QED  BY <2>1, ArrayFacts DEF Arrayed, InOrder
<1> DEFINE K == {j \in Containing(it.of) : clone[j].state \in TrackState}
           ahead == {j \in K : dictionary.slot[j] > it.pos}
<1>5. K \in SUBSET AllRows
  BY RowShapes DEF InOrder
<1>6. ahead = {}
  <2> SUFFICES ASSUME ahead # {} PROVE FALSE
    OBVIOUS
  <2> DEFINE T == {dictionary.slot[j] : j \in ahead}
  <2>1. T \in SUBSET Nat /\ T # {}
    BY <1>4, <1>5
  <2>2. \E x \in T : \A y \in T : x <= y
    <3> HIDE DEF T
    <3> QED  BY <2>1, LeastOf
  <2>3. PICK k \in ahead : \A y \in T : dictionary.slot[k] <= y
    BY <2>2
  <2>4. \A j \in ahead : dictionary.slot[k] <= dictionary.slot[j]
    BY <2>3
  <2>5. FromClone(it) = {i \in ahead : \A j \in ahead : dictionary.slot[i] <= dictionary.slot[j]}
    BY DEF FromClone, NextOf
  <2> QED  BY <2>3, <2>4, <2>5
<1>7. ASSUME NEW j \in Missing(it) PROVE j \in AllRows /\ dictionary.slot[j] <= it.pos
  <2>1. j \in it.kept /\ it.times[j] = 0 /\ j \in Rows(it.of) /\ InvocationView[j] # Null
    BY DEF Missing, InOrder
  <2>2. j \in Containing(it.of) /\ j \in AllRows /\ j \in Key
    BY <2>1, RowShapes DEF InOrder
  <2>3. clone[j].state \in TrackState
    BY <1>4, <2>1, <2>2 DEF InOrder, Awaits
  <2> QED  BY <1>4, <1>6, <2>2, <2>3
<1>8. Missing(jt) = Missing(it) /\ Behind(Missing(it), dictionary, it.pos) = Missing(it) /\ Missing(it) \in SUBSET AllRows
  BY <1>2, <1>7 DEF Missing, Behind
<1>9. Cardinality(Missing(jt)) <= pops
  <2>1. Cardinality(Missing(it)) + Gaps(dictionary) <= pops
    BY <1>8 DEF Gauged, Slack
  <2>2. Cardinality(Missing(it)) \in Nat /\ Gaps(dictionary) \in Nat
    BY <1>4, <1>8, FiniteRows, ArrayFacts
  <2> QED  BY <1>4, <1>8, <2>1, <2>2
<1>10. \A j \in AllRows : Listed(jt.times[j], Passed(jt, dictionary, j), pops, j \in dropped, BlockView[j] # Null)
  BY <1>2 DEF Gauged, Passed
<1>11. Gauged(jt, dictionary, pops, dropped, BlockView)
  BY <1>2, <1>9, <1>10 DEF Gauged
<1> QED  BY <1>3, <1>11

\* What every step does to the iterator.
LEMMA EnumerationStep ==
    ASSUME ContractsInvariant, Enumerates, [ContractsNext]_contractVars
    PROVE  Enumerates'
<1>0. ContractsInvariant'
  BY ContractsStep
<1>1. ASSUME UNCHANGED <<iter, dictionary, pops, dropped>>, level # "invoke"
      PROVE  Enumerates'
  <2>1. iter' = NoIter /\ dropped' = {} /\ Gaps(dictionary') <= pops'
    BY <1>1 DEF Enumerates
  <2> QED  BY <2>1 DEF Enumerates
<1>2. CASE Open \/ Close \/ (\E c \in Hash, state \in StateOf : Publish(c, state))
  <2>1. level # "invoke" /\ UNCHANGED <<iter, dictionary, pops, dropped>>
    BY <1>2 DEF Open, OpenSnapshot, Close, CommitBlock, Publish, BlockGetOrAdd, objects
  <2> QED  BY <1>1, <2>1
<1>3. CASE Invoke
  <2>1. level # "invoke" /\ iter' = NoIter /\ UNCHANGED <<dictionary, pops, dropped>>
    BY <1>3 DEF Invoke, BeginInvocation, objects
  <2> QED  BY <2>1 DEF Enumerates
<1>4. CASE Halt \/ HaltRaises \/ Fault
  <2>1. iter' = NoIter /\ dropped' = {} /\ pops' = 0 /\ dictionary' = EmptyDictionary
    BY <1>4 DEF Halt, HaltRaises, Fault, EndExecution
  <2>2. Gaps(EmptyDictionary) = 0
    <3>1. Entered(EmptyDictionary) = {} /\ EmptyDictionary.used = 0
      BY DEF Entered, EmptyDictionary
    <3>2. Cardinality({}) = 0
      BY FS_EmptySet
    <3> QED  BY <3>1, <3>2 DEF Gaps
  <2>3. Gaps(dictionary') <= pops'
    BY <2>1, <2>2
  <2> QED  BY <2>1, <2>3 DEF Enumerates
\* A service, which a migration is too.
<1>5. ASSUME NEW mid, NEW joined, Follow(mid, joined), Tidy, torn' = torn,
             \A k \in AllRows : mid[k] = clone[k] \/ mid[k] # Untracked,
             ~torn => \A k \in AllRows : mid[k] # Untracked /\ clone'[k] = Untracked => BlockView[k] = Null
      PROVE  Enumerates'
  <2>1. level = "invoke" /\ level' = "invoke" /\ BlockView' = BlockView /\ Within
    BY <1>5 DEF Tidy, Within
  <2>2. Arrayed /\ Arrayed' /\ Typed /\ (~torn => Orderly)
    BY <1>0 DEF ContractsInvariant, ServicesInvariant
  <2>3. Gaps(dictionary') <= pops'
    BY <1>5, <2>2, FollowGaps DEF Enumerates
  <2>4. dropped' = dropped \union (Tracked(mid) \ Tracked(clone'))
    BY <1>5 DEF Follow
  <2>5. ~torn => \A k \in AllRows : k \in dropped' => BlockView[k] = Null
    BY <1>5, <2>4 DEF Enumerates, Tracked
  <2>6. ASSUME iter' # NoIter, ~torn
        PROVE  /\ InOrder(iter', db', top', clone', BlockView', InvocationView')
               /\ Gauged(iter', dictionary', pops', dropped', BlockView')
    <3>1. Orderly /\ Touches
      BY <1>5, <2>2, <2>6 DEF Tidy
    <3>2. iter # NoIter /\ iter' = [iter EXCEPT !.kept = {k \in @ : InvocationView'[k] # Null}]
      BY <1>5, <2>6 DEF Follow
    <3>3. InOrder(iter, db, top, clone, BlockView, InvocationView) /\ Gauged(iter, dictionary, pops, dropped, BlockView)
      BY <2>6, <3>2 DEF Enumerates
    <3>4. InOrder(iter', db', top', clone', BlockView', InvocationView')
      BY <2>1, <2>2, <3>1, <3>2, <3>3, FollowOrder
    <3> DEFINE kept == {k \in iter.kept : InvocationView'[k] # Null}
    <3>5. iter' = [iter EXCEPT !.kept = kept] /\ kept \in SUBSET iter.kept
      BY <3>2
    <3>6. \A k \in kept : BlockView[k] # Null \/ clone'[k] # Untracked
      <4>1. \A k \in iter.kept : k \in Key
        BY <3>3, RowShapes DEF InOrder
      <4>2. \A k \in Key : clone'[k] = Untracked => InvocationView'[k] = BlockView'[k]
        BY DEF InvocationView, View
      <4> QED  BY <2>1, <4>1, <4>2
    <3> HIDE DEF kept
    <3>7. Gauged([iter EXCEPT !.kept = kept], dictionary', pops', dropped', BlockView')
      BY <1>5, <2>1, <2>2, <2>6, <3>3, <3>5, <3>6, FollowGauged
    <3> QED  BY <3>4, <3>5, <3>7
  <2> QED  BY <1>5, <2>1, <2>3, <2>5, <2>6 DEF Enumerates
<1>6. CASE Service /\ Follow(clone, {})
  <2>1. Tidy
    BY <1>6, ServiceKeeps
  <2>2. torn' = torn
    <3>1. \A what : Calls(what) => torn' = torn
      BY DEF Calls, listing
    <3>2. Service => (\E what : Calls(what)) \/ Return
      BY ZenonT(60)
         DEF Service, AppCall, StorageGetContext, BlockchainGetContract,
             ContractGetStorageContext, StorageGet, StoragePut, StorageDelete, ContractCreate, ContractDestroy
    <3> QED  BY <1>6, <3>1, <3>2 DEF Return, listing
  <2>3. ~torn => \A k \in AllRows : clone[k] # Untracked /\ clone'[k] = Untracked => BlockView[k] = Null
    BY <2>1, RowShapes DEF Tidy, Touches, ContractsInvariant, ServicesInvariant
  <2> QED  BY <1>5, <1>6, <2>1, <2>2, <2>3
<1>7. ASSUME NEW c \in Hash, NEW state \in StateOf, ContractMigrate(c, state),
             Follow(Filled(c, state), Joined(c, state))
      PROVE  Enumerates'
  <2>1. Tidy /\ torn' = torn /\ \A k \in AllRows : Filled(c, state)[k] = clone[k] \/ Filled(c, state)[k] # Untracked
    BY <1>7, MigrateKeeps, ContractMigrateKeeps DEF Gains
  <2>2. ASSUME ~torn, NEW k \in AllRows, Filled(c, state)[k] # Untracked, clone'[k] = Untracked
        PROVE  BlockView[k] = Null
    <3>1. Orderly /\ Touches /\ Typed
      BY <2>1, <2>2 DEF Tidy, ContractsInvariant, ServicesInvariant
    <3>2. CASE clone[k] # Untracked
      BY <2>2, <3>1, <3>2, RowShapes DEF Touches
    <3>3. CASE clone[k] = Untracked
      <4>1. k \in Rows(c) /\ ~Live(c)
        <5>1. OneEach(Copies(c, state))
          BY <1>7 DEF ContractMigrate, OneEach
        <5> QED  BY <2>2, <3>1, <3>3, <5>1, FilledProps
      <4>2. InvocationView[k] = Null
        <5>1. Owned(InvocationView) /\ InvocationView[Contract(c)] = Null
          BY <3>1, <4>1 DEF Orderly, Live
        <5>2. ~HasStorage(Null)
          BY ColumnsAssumption, NullAssumption DEF HasStorage
        <5> QED  BY <4>1, <5>1, <5>2 DEF Owned
      <4>3. InvocationView[k] = BlockView[k]
        BY <3>3, RowShapes DEF InvocationView, View
      <4> QED  BY <4>2, <4>3
    <3> QED  BY <3>2, <3>3
  <2> QED  BY <1>5, <1>7, <2>1, <2>2
<1>8. CASE (\E ctx \in contexts : StorageFind(ctx)) \/ IteratorNext
  <2>1. Tidy /\ BlockView' = BlockView /\ InvocationView' = InvocationView
    BY <1>8, IteratorKeeps
  <2>2. level = "invoke" /\ level' = "invoke" /\ UNCHANGED <<torn, dictionary, pops, dropped>>
    BY <1>8, <2>1 DEF Tidy, Within, StorageFind, IteratorNext, Calls, listing, objects
  <2>3. Typed /\ Arrayed
    BY DEF ContractsInvariant, ServicesInvariant
  <2> SUFFICES ASSUME ~torn
               PROVE  /\ InOrder(iter', db', top', clone', BlockView', InvocationView')
                      /\ Gauged(iter', dictionary', pops', dropped', BlockView')
    BY <2>1, <2>2 DEF Enumerates
  <2>4. ASSUME NEW ctx \in contexts, StorageFind(ctx)
        PROVE  /\ InOrder(iter', db', top', clone', BlockView', InvocationView')
               /\ Gauged(iter', dictionary', pops', dropped', BlockView')
    <3>1. /\ iter' = [phase |-> "made", of |-> ctx.owner, left |-> {}, size |-> 0, visited |-> {}, pos |-> 0,
                      times |-> [k \in AllRows |-> 0], kept |-> LiveRows(ctx.owner)]
          /\ ctx.owner \in Hash
      BY <2>4 DEF StorageFind, CheckStorageContext
    <3>2. /\ iter' = [phase |-> iter'.phase, of |-> iter'.of, left |-> iter'.left, size |-> iter'.size,
                      visited |-> iter'.visited, pos |-> iter'.pos, times |-> iter'.times, kept |-> iter'.kept]
          /\ iter'.phase = "made" /\ iter'.of \in Hash /\ iter'.times = [k \in AllRows |-> 0]
          /\ iter'.visited = {} /\ iter'.pos = 0
          /\ \A k \in iter'.kept : k \in Rows(iter'.of) /\ InvocationView[k] # Null
      BY <3>1 DEF LiveRows, Starting
    <3>3. \A k \in AllRows : Counts(iter', top', clone', BlockView', k)
      BY <3>2 DEF Counts
    <3>4. \A k \in iter'.kept : Awaits(iter', top', clone', k)
      BY <3>2 DEF Awaits
    <3>5. InOrder(iter', db', top', clone', BlockView', InvocationView')
      BY <2>1, <3>2, <3>3, <3>4 DEF InOrder
    <3> QED  BY <3>2, <3>5 DEF Gauged
  <2>5. CASE IteratorNext
    <3>1. UNCHANGED <<db, top, clone>> /\ iter # NoIter
      BY <2>5 DEF IteratorNext, vars, NoIter
    <3>2. InOrder(iter, db, top, clone, BlockView, InvocationView) /\ Gauged(iter, dictionary, pops, dropped, BlockView)
      BY <3>1 DEF Enumerates
    <3> DEFINE it == InClone(InTop(Started(iter)))
    <3>3. InOrder(it, db, top, clone, BlockView, InvocationView) /\ Gauged(it, dictionary, pops, dropped, BlockView)
      BY <2>3, <3>2, PassesOn DEF Enumerates
    <3>4. \/ it.phase = "db" /\ \E k \in FromDb(it) : iter' = Yields([it EXCEPT !.left = @ \ {k}], k)
          \/ it.phase = "top" /\ \E k \in FromTop(it) : iter' = Yields([it EXCEPT !.visited = @ \union {k}], k)
          \/ it.phase = "clone" /\ \E k \in FromClone(it) : iter' = Yields([it EXCEPT !.pos = dictionary.slot[k]], k)
          \/ it.phase = "clone" /\ FromClone(it) = {} /\ iter' = [it EXCEPT !.phase = "end"]
      BY <2>5 DEF IteratorNext
    <3> HIDE DEF it
    <3>5. InOrder(iter', db, top, clone, BlockView, InvocationView) /\ Gauged(iter', dictionary, pops, dropped, BlockView)
      BY <2>3, <3>3, <3>4, YieldsStored, YieldsOwn, Ends
    <3> QED  BY <2>1, <2>2, <3>1, <3>5
  <2> QED  BY <1>8, <2>4, <2>5
<1>9. CASE UNCHANGED contractVars
  <2>1. UNCHANGED <<db, top, clone, level, iter, torn, dictionary, pops, dropped>>
    BY <1>9 DEF contractVars, vars, listing, objects
  <2>2. BlockView' = BlockView /\ InvocationView' = InvocationView
    BY <2>1, ViewsKept
  <2> QED  BY <2>1, <2>2 DEF Enumerates
<1> QED  BY <1>2, <1>3, <1>4, <1>6, <1>7, <1>8, <1>9 DEF ContractsNext

\* What the parts of an iterator in order come to.
LEMMA ListedAll ==
    ASSUME ContractsInvariant, Enumerates
    PROVE  ListsAllButPopped
<1> SUFFICES ASSUME iter # NoIter, ~torn
             PROVE  /\ iter.phase = "end" => Cardinality({k \in iter.kept : iter.times[k] = 0}) <= pops
                    /\ \A k \in AllRows :
                          IF k \in dropped THEN iter.times[k] <= 1 + pops
                          ELSE iter.times[k] > 1 => iter.times[k] = 2 /\ clone[k] # Untracked
  BY DEF ListsAllButPopped
<1>1. InOrder(iter, db, top, clone, BlockView, InvocationView) /\ Gauged(iter, dictionary, pops, dropped, BlockView)
  BY DEF Enumerates
<1>2. pops \in Nat /\ \A k \in AllRows : dictionary.slot[k] # 0 <=> clone[k] # Untracked
  BY DEF ContractsInvariant, Arrayed
<1>3. iter.phase = "end" => Cardinality({k \in iter.kept : iter.times[k] = 0}) <= pops
  BY <1>1 DEF Gauged, Missing
<1>4. ASSUME NEW k \in AllRows
      PROVE  IF k \in dropped THEN iter.times[k] <= 1 + pops
             ELSE iter.times[k] > 1 => iter.times[k] = 2 /\ clone[k] # Untracked
  <2>1. iter.times[k] \in Nat /\ iter.phase \in {"made", "db", "top", "clone", "end"}
    BY <1>1 DEF InOrder
  <2>2. CASE iter.phase \in {"made", "db", "top"}
    <3>1. iter.times[k] \in {0, 1}
      BY <1>1, <2>2 DEF InOrder, Counts
    <3> QED  BY <1>2, <3>1
  <2>3. CASE iter.phase \in {"clone", "end"}
    <3>1. Listed(iter.times[k], Passed(iter, dictionary, k), pops, k \in dropped, BlockView[k] # Null)
      BY <1>1, <2>3 DEF Gauged
    <3>2. k \in dropped => BlockView[k] = Null
      BY DEF Enumerates
    <3> QED  BY <1>2, <2>1, <3>1, <3>2 DEF Listed, Passed
  <2> QED  BY <2>1, <2>2, <2>3
<1> QED  BY <1>3, <1>4

\* As long as no commit has stopped half-way: an enumeration that comes to its end misses
\* no more of the rows that were there all the while than the execution has deleted of
\* its own, and lists a row it has not deleted twice at most, and then one it touched.
THEOREM EveryRowListed == ContractsSpec => []ListsAllButPopped
<1>1. ContractsInit => Enumerates
  <2>1. ASSUME ContractsInit PROVE Enumerates
    <3>1. level = "idle" /\ iter = NoIter /\ dropped = {} /\ pops = 0 /\ dictionary = EmptyDictionary
      BY <2>1 DEF ContractsInit
    <3>2. Entered(EmptyDictionary) = {} /\ EmptyDictionary.used = 0
      BY DEF Entered, EmptyDictionary
    <3>3. Cardinality({}) = 0
      BY FS_EmptySet
    <3>4. Gaps(dictionary) <= pops
      BY <3>1, <3>2, <3>3 DEF Gaps
    <3> QED  BY <3>1, <3>4 DEF Enumerates
  <2> QED  BY <2>1
<1>2. ContractsInvariant /\ Enumerates /\ [ContractsNext]_contractVars => Enumerates'
  BY EnumerationStep
<1>3. ContractsInvariant /\ Enumerates => ListsAllButPopped
  BY ListedAll
<1> QED  BY <1>1, <1>2, <1>3, ContractsInvariance, PTL DEF ContractsSpec
=============================================================================
