------------------------------ MODULE KVStore ------------------------------
(***************************************************************************)
(* What the layered caches promise: a key-value store with one transaction *)
(* per block and, inside it, one transaction per contract invocation.  An  *)
(* invocation sees the block's uncommitted changes and its own; committing *)
(* it makes its view the block's view, discarding it leaves no trace.      *)
(***************************************************************************)
CONSTANTS
    Key, Value, Null,
    Fragile  \* keys whose items can stop a commit half-way

VARIABLES
    level,      \* "idle", "block" (a block is being persisted) or "invoke"
    stored,     \* committed content
    block,      \* content as the block sees it
    invocation  \* content as the running invocation sees it

kvVars == <<level, stored, block, invocation>>

Init ==
    /\ level = "idle"
    /\ stored \in [Key -> Value \union {Null}]
    /\ block = stored
    /\ invocation = stored

Begin ==
    /\ level = "idle"
    /\ level' = "block"
    /\ UNCHANGED <<stored, block, invocation>>

\* A write by the block itself is visible to whatever runs on top of it.
BlockWrite ==
    /\ level = "block"
    /\ \E k \in Key, v \in Value \union {Null} : block' = [block EXCEPT ![k] = v]
    /\ invocation' = block'
    /\ UNCHANGED <<level, stored>>

BeginInvocation ==
    /\ level = "block"
    /\ level' = "invoke"
    /\ UNCHANGED <<stored, block, invocation>>

InvocationWrite ==
    /\ level = "invoke"
    /\ \E k \in Key, v \in Value \union {Null} :
          invocation' = [invocation EXCEPT ![k] = v]
    /\ UNCHANGED <<level, stored, block>>

CommitInvocation ==
    /\ level = "invoke"
    /\ level' = "block"
    /\ block' = invocation
    /\ UNCHANGED <<stored, invocation>>

\* The commit stops at an item of a fragile key: some keys have been passed on.
CommitSome ==
    /\ level = "invoke"
    /\ level' = "block"
    /\ \E kept \in SUBSET Key :
          /\ \E k \in Fragile \ kept : invocation[k] # Null
          /\ block' = [k \in Key |-> IF k \in kept THEN invocation[k] ELSE block[k]]
    /\ invocation' = block'
    /\ UNCHANGED stored

DiscardInvocation ==
    /\ level = "invoke"
    /\ level' = "block"
    /\ invocation' = block
    /\ UNCHANGED <<stored, block>>

CommitBlock ==
    /\ level = "block"
    /\ level' = "idle"
    /\ stored' = block
    /\ UNCHANGED <<block, invocation>>

DiscardBlock ==
    /\ level \in {"block", "invoke"}
    /\ level' = "idle"
    /\ block' = stored
    /\ invocation' = stored
    /\ UNCHANGED stored

Next ==
    \/ Begin \/ BlockWrite \/ BeginInvocation
    \/ InvocationWrite \/ CommitInvocation \/ CommitSome \/ DiscardInvocation
    \/ CommitBlock \/ DiscardBlock

Spec == Init /\ [][Next]_kvVars
=============================================================================
