---------------------------- MODULE HeaderIndex ----------------------------
(***************************************************************************)
(* The header index of neo/Core/Blockchain.py: how headers and blocks grow *)
(* it, what of it is written to the database, and how a start of the node  *)
(* rebuilds it from there.                                                 *)
(*                                                                         *)
(* There is one chain, so the hash of the header at height h is modelled   *)
(* by h itself: the index is right when it holds h for height h.           *)
(***************************************************************************)
EXTENDS Integers, FiniteSets, SequencesExt

CONSTANTS
    ListSize,   \* headers in a stored list: 2000 in the code
    MaxBatch,   \* headers in one message: up to 2000 from a peer, 1 on an import
    MaxHeight   \* bound: the height of the chain

ASSUME HeaderAssumption ==
    ListSize \in Nat \ {0} /\ MaxBatch \in Nat \ {0} /\ MaxHeight \in Nat

Height == 0..MaxHeight

VARIABLES
    rows,           \* DATA_Block: "none", a "header" row or a "block" row
    lists,          \* the IX_HeaderHashList rows, in key order, joined
    currentHeader,  \* the height in SYS_CurrentHeader, 0 when absent
    currentBlock,   \* the height in SYS_CurrentBlock
    index,          \* _header_index; the hash for height h is index[h + 1]
    stored,         \* _stored_header_count
    height,         \* _current_block_height
    running         \* the process is up

disk == <<rows, lists, currentHeader, currentBlock>>
memory == <<index, stored, height>>
vars == <<disk, memory, running>>

HeaderHeight == Len(index) - 1

Genesis == <<0>>

Run(first, last) == [i \in 1..(last - first + 1) |-> first + i - 1]

-----------------------------------------------------------------------------
(* OnAddHeader.                                                            *)

\* The lists the loop writes at header b when `count` headers are in lists.
ListsToWrite(b, count) ==
    IF b - ListSize >= count THEN (b - count) \div ListSize ELSE 0

\* Mutant: the slice written starts one header early.
SliceEarly(idx, from, upTo) ==
    [i \in 1..(upTo - from) |-> IF from + i <= Len(idx) + 1 THEN idx[IF from + i > 1 THEN from + i - 1 ELSE 1] ELSE -1]

\* _header_index[from:upTo], with an empty hash (-1) where a list is too short.
Slice(idx, from, upTo) ==
    [i \in 1..(upTo - from) |-> IF from + i <= Len(idx) THEN idx[from + i] ELSE -1]

OnAddHeader(b, idx, count) ==
    LET upTo == count + ListSize * ListsToWrite(b, count)
    IN  /\ lists' = lists \o Slice(idx, count, upTo)
        /\ stored' = upTo
        /\ currentHeader' = b

-----------------------------------------------------------------------------
(* Growing the index.                                                      *)

\* AddHeaders of the run first..last takes those not in the index yet, unless
\* a header is missing before the first.
Takes(first, last) == first <= Len(index) /\ last >= Len(index)

\* ProcessNewHeaders: only the last header taken gets to the database.
AddHeadersTo(first, last) ==
    IF Takes(first, last)
    THEN LET idx == index \o Run(IF first > Len(index) THEN first ELSE Len(index), last)
         IN  index' = idx /\ OnAddHeader(last, idx, stored)
    ELSE UNCHANGED <<index, stored, lists, currentHeader>>

\* A message of headers, of the chain the peers agree on.
AddHeaders(first, last) ==
    /\ running
    /\ last - first < MaxBatch
    /\ Takes(first, last)
    /\ AddHeadersTo(first, last)
    /\ rows' = [rows EXCEPT ![last] = IF @ = "none" THEN "header" ELSE @]
    /\ UNCHANGED <<currentBlock, height, running>>

\* Ledger.add_block of the next block: AddHeader, then Persist.
AddBlock ==
    /\ running
    /\ height < MaxHeight
    /\ AddHeadersTo(height + 1, height + 1)
    /\ rows' = [rows EXCEPT ![height + 1] = "block"]
    /\ currentBlock' = height + 1
    /\ height' = height + 1
    /\ UNCHANGED running

-----------------------------------------------------------------------------
(* Stopping, at any moment, and starting.                                  *)

Stop ==
    /\ running
    /\ running' = FALSE
    /\ index' = <<>> /\ stored' = 0 /\ height' = 0
    /\ UNCHANGED disk

\* The members of a finite set of naturals in ascending order.
Ascending(S) ==
    [i \in 1..Cardinality(S) |-> CHOOSE n \in S : Cardinality({m \in S : m <= n}) = i]

\* The lists read back but for the hash of the genesis block, with which the
\* index begins in any case.
IndexFromLists ==
    LET kept == Ascending({i \in 1..Len(lists) : lists[i] # 0})
    IN  Genesis \o [i \in DOMAIN kept |-> lists[kept[i]]]

\* Every DATA_Block row, by height: rows of blocks and of headers alike.
IndexFromRows ==
    Genesis \o Ascending({h \in Height \ {0} : rows[h] # "none"})

\* Mutant: two headers after the lists are not looked for either.
NeedsWalkLate(count) == currentHeader > count + 1

NeedsWalk(count) == currentHeader > count

\* The walk from the current header back along PrevHash meets the header `to`;
\* it ends in an exception at a header without a row.
WalkReaches(to) ==
    currentHeader > to /\ \A h \in (to + 1)..currentHeader : rows[h] # "none"

\* AddHeaders, as Takes says, of the headers behind the last of `base`.
WalkGoesOn(base) == Last(base) < Len(base) /\ currentHeader >= Len(base)

StartFromLists ==
    LET base == IndexFromLists
        idx == base \o Run(Len(base), currentHeader)
    IN  /\ Len(lists) > 0
        /\ IF NeedsWalk(Len(lists)) /\ WalkReaches(Last(base)) /\ WalkGoesOn(base)
           THEN index' = idx /\ OnAddHeader(currentHeader, idx, Len(lists))
           ELSE index' = base /\ stored' = Len(lists) /\ UNCHANGED <<lists, currentHeader>>

\* The header of the last row is taken for the current one.
StartFromRows ==
    /\ Len(lists) = 0
    /\ index' = IndexFromRows
    /\ OnAddHeader(Last(IndexFromRows), IndexFromRows, 0)

Start ==
    /\ ~running
    /\ running' = TRUE
    /\ height' = currentBlock
    /\ StartFromLists \/ StartFromRows
    /\ UNCHANGED <<rows, currentBlock>>

Init ==
    /\ rows = [h \in Height |-> IF h = 0 THEN "block" ELSE "none"]
    /\ lists = <<>> /\ currentHeader = 0 /\ currentBlock = 0
    /\ index = Genesis /\ stored = 0 /\ height = 0
    /\ running = TRUE

Next ==
    \/ \E first, last \in Height : AddHeaders(first, last)
    \/ AddBlock
    \/ Stop
    \/ Start

Spec == Init /\ [][Next]_vars

-----------------------------------------------------------------------------
(* Properties.                                                             *)

Right(s) == \A i \in 1..Len(s) : s[i] = i - 1

\* No height up to the current header, nor below a row, is without a row: what
\* a start of the node needs, and a message of many headers leaves undone. A row
\* may be above the current header, after a start that a gap sent astray.
RowsComplete ==
    /\ \A h \in 0..currentHeader : rows[h] # "none"
    /\ \A h \in Height : rows[h] # "none" => \A g \in 0..h : rows[g] # "none"

\* The index holds the hash of header h for height h, and so do the stored
\* lists the next start will read.
IndexRight == Right(index) /\ Right(lists)

\* No step puts a wrong hash into the index or the lists, be it headers in
\* messages of many, blocks, stops or starts, once a list is stored or when
\* every header has its row: a start that cannot walk back to the last list
\* falls short of the current header, but never skips one.
IndexKeptRight ==
    [][(lists # <<>> \/ RowsComplete) /\ IndexRight => IndexRight']_vars

\* A start that finds every row, and lists that are right, is back at the current
\* header, or at the one before it, which is all that comparing a height with a
\* count can cost.
StartLosesAtMostOne ==
    [][Start /\ RowsComplete /\ IndexRight => HeaderHeight' >= currentHeader - 1]_vars

\* GetBlockHash(h), for the height of a block that was persisted, is the hash
\* of that block.
BlockHashRight ==
    running => \A h \in 0..height : h < Len(index) => index[h + 1] = h
=============================================================================
