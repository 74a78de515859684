----------------------------- MODULE SyncManager -----------------------------
(***************************************************************************)
(* neo/Network/syncmanager.py: the service loop that asks peers for        *)
(* headers and blocks, the task that persists what arrived, the handlers   *)
(* that run whenever a peer's message comes in, and the timeouts.          *)
(*                                                                         *)
(* asyncio switches tasks only where something is really waited for: a     *)
(* step is the code between two such places.  The ledger is two heights    *)
(* (HeaderIndex and BlockPersist look inside it) and all peers follow one  *)
(* chain, so a block or a header is its height.                            *)
(***************************************************************************)
EXTENDS Integers, Sequences, FiniteSetsExt, Functions

CONSTANTS
    Node,         \* the peers
    NodeHeight,   \* per peer, its best_height
    HeadersMax,   \* headers in one message: 2000
    LookAhead,    \* HEADER_MAX_LOOK_AHEAD: 6000
    CacheSize,    \* BLOCK_MAX_CACHE_SIZE: 500
    RequestLimit, \* BLOCK_NETWORK_REQ_LIMIT: 500
    Null,
    Faults,       \* which of FaultKinds happen
    MaxFaults     \* bound: how many of them

FaultKinds ==
    {"lose",        \* a peer does not answer, or only in part
     "slow",        \* an answer comes after its timeout
     "disconnect",  \* a peer goes away
     "push",        \* a peer sends a block nobody asked it for
     "fail"}        \* TryPersist fails

TopHeight == Max(Range(NodeHeight))
Height == 0..TopHeight

ASSUME SyncAssumption ==
    /\ NodeHeight \in [Node -> Nat]
    /\ HeadersMax \in Nat \ {0} /\ LookAhead \in Nat \ {0}
    /\ CacheSize \in Nat \ {0} /\ RequestLimit \in Nat \ {0}
    /\ Faults \subseteq FaultKinds /\ MaxFaults \in Nat
    /\ Null \notin Nat

VARIABLES
    headerHeight, blockHeight,  \* the ledger's
    headerRequest,  \* Null, or what is known of the request
    headerCache,    \* runs of headers received, not yet in the ledger
    blockRequests,  \* per height, Null or what is known of the request
    blockCache,     \* heights of the blocks received, in order of arrival
    loop,           \* where the service loop is
    adding,         \* the run of headers in ledger.add_headers, or Null
    persistTask,    \* is_persisting_blocks
    inHand,         \* the block in ledger.add_block, or Null
    connected,      \* nodemgr.nodes
    queue,          \* per peer, its messages on their way to this node
    faults          \* how many faults have happened

ledger == <<headerHeight, blockHeight>>
headerVars == <<headerRequest, headerCache, adding>>
blockVars == <<blockRequests, blockCache>>
taskVars == <<persistTask, inHand>>
netVars == <<connected, queue, faults>>
vars == <<ledger, headerVars, blockVars, taskVars, loop, netVars>>

-----------------------------------------------------------------------------
(* Requests.  Of the flights of a RequestInfo only the asked nodes and the *)
(* most recent one matter, of its start time whether it is too long ago.   *)

RequestInfo(h, n) ==
    [height |-> h, asked |-> {n}, last |-> n, late |-> FALSE, failed |-> {}]

\* mark_failed_node, then add_new_flight.
Retried(r, n) ==
    [r EXCEPT !.asked = @ \union {n}, !.last = n, !.late = FALSE,
              !.failed = @ \union {r.last}]

Requested == {h \in Height : blockRequests[h] # Null}
TimedOut == {h \in Requested : blockRequests[h].late}

\* get_next_node takes the heaviest node that has the height; weights follow
\* speed and time, so it may be any.
Candidates(h) == {n \in connected : h <= NodeHeight[n]}

\* get_node_with_min_failed_time, for a retry of the heights hs: it asks
\* get_next_node, which gives it the same node again and again, and so ends
\* with that node whatever failed before.
RetryCandidates(hs) == {n \in connected : \A h \in hs : h <= NodeHeight[n]}

\* A peer answers getheaders with the headers that follow.
HeadersAnswer(n, first) ==
    LET last == Min({NodeHeight[n], first + HeadersMax - 1})
    IN  IF first <= last THEN <<[kind |-> "headers", first |-> first, last |-> last]>> ELSE <<>>

\* And getdata with the blocks, one message each, in the order asked for.
BlocksAnswer(hs) ==
    [i \in 1..Cardinality(hs) |->
        [kind |-> "block", index |-> CHOOSE h \in hs : Cardinality({g \in hs : g <= h}) = i]]

Send(n, answer) == queue' = [queue EXCEPT ![n] = @ \o answer]

Min2(a, b) == IF a < b THEN a ELSE b
Max2(a, b) == IF a > b THEN a ELSE b

-----------------------------------------------------------------------------
(* The service loop: check_timeout.                                        *)

HeaderLate == headerRequest # Null /\ headerRequest.late

CheckHeaderTimeout ==
    /\ loop = "header timeout"
    /\ loop' = "block timeout"
    /\ \/ ~HeaderLate /\ UNCHANGED <<headerRequest, queue>>
       \/ /\ HeaderLate
          /\ \/ /\ \/ headerRequest.height <= headerHeight
                   \/ RetryCandidates({headerRequest.height}) = {}
                /\ headerRequest' = Null
                /\ UNCHANGED queue
             \/ /\ headerRequest.height > headerHeight
                /\ \E n \in RetryCandidates({headerRequest.height}) :
                      /\ headerRequest' = Retried(headerRequest, n)
                      /\ Send(n, HeadersAnswer(n, headerRequest.height))
    /\ UNCHANGED <<ledger, headerCache, adding, blockVars, taskVars, connected, faults>>

\* The last block of the cache, or the ledger's.
BestStored ==
    IF blockCache = <<>> THEN blockHeight ELSE Max2(blockHeight, blockCache[Len(blockCache)])

\* Mutant: a request for a block that came in otherwise is kept.
NeverStale(h) == FALSE

\* A request that timed out although the block came in.
Stale(h) == h <= BestStored

CheckBlockTimeout ==
    /\ loop = "block timeout"
    /\ loop' = "sync headers"
    /\ LET gone == {h \in TimedOut : Stale(h)}
           again == TimedOut \ gone
       IN  \/ /\ again = {} \/ RetryCandidates(again) = {}
              /\ blockRequests' =
                    [h \in Height |->
                        CASE h \in gone -> Null
                          [] h \in again -> [blockRequests[h] EXCEPT
                                                !.failed = @ \union {blockRequests[h].last}]
                          [] OTHER -> blockRequests[h]]
              /\ UNCHANGED queue
           \/ /\ again # {}
              /\ \E n \in RetryCandidates(again) :
                    /\ blockRequests' =
                          [h \in Height |->
                              CASE h \in gone -> Null
                                [] h \in again -> Retried(blockRequests[h], n)
                                [] OTHER -> blockRequests[h]]
                    /\ Send(n, BlocksAnswer(again))
    /\ UNCHANGED <<ledger, headerVars, blockCache, taskVars, connected, faults>>

-----------------------------------------------------------------------------
(* The service loop: sync.                                                 *)

SyncHeader ==
    /\ loop = "sync headers"
    /\ loop' = "sync blocks"
    /\ LET first == headerHeight + 1
           wanted == headerRequest = Null /\ headerHeight - blockHeight < LookAhead
       IN  \/ /\ ~wanted \/ Candidates(first) = {}
              /\ UNCHANGED <<headerRequest, queue>>
           \/ /\ wanted
              /\ \E n \in Candidates(first) :
                    /\ headerRequest' = RequestInfo(first, n)
                    /\ Send(n, HeadersAnswer(n, first))
    /\ UNCHANGED <<ledger, headerCache, adding, blockVars, taskVars, connected, faults>>

BestNodeHeight == Max({NodeHeight[n] : n \in connected})

\* How many of the next blocks to ask for.
BlocksToFetch ==
    Min2(headerHeight - BestStored, Min2(CacheSize - Len(blockCache), RequestLimit))

\* The blocks to ask for, when there is a peer and nothing is asked for yet.
ToRequest ==
    IF Requested # {} \/ connected = {} THEN {}
    ELSE {h \in (BestStored + 1)..(BestStored + BlocksToFetch) :
              h \notin Range(blockCache) /\ h <= BestNodeHeight}

SyncBlock ==
    /\ loop = "sync blocks"
    /\ loop' = "persist headers"
    /\ \/ ToRequest = {} /\ UNCHANGED <<blockRequests, queue>>
       \/ /\ ToRequest # {}
          /\ \E n \in Candidates(BestNodeHeight) :
                /\ blockRequests' = [h \in Height |->
                      IF h \in ToRequest THEN RequestInfo(h, n) ELSE blockRequests[h]]
                /\ Send(n, BlocksAnswer(ToRequest))
    /\ UNCHANGED <<ledger, headerVars, blockCache, taskVars, connected, faults>>

\* persist_headers leaves the request alone when nothing has come in.
PersistNoHeaders ==
    /\ loop = "persist headers"
    /\ headerCache = <<>>
    /\ loop' = "spawn"
    /\ UNCHANGED <<ledger, headerVars, blockVars, taskVars, netVars>>

PopHeaders ==
    /\ loop \in {"persist headers", "added"}
    /\ headerCache # <<>>
    /\ adding' = Head(headerCache)
    /\ headerCache' = Tail(headerCache)
    /\ loop' = "adding"
    /\ UNCHANGED <<ledger, headerRequest, blockVars, taskVars, netVars>>

\* Blockchain.AddHeaders skips known headers and stops at a gap.
HeightWith(run) ==
    IF run.first <= headerHeight + 1 THEN Max2(headerHeight, run.last) ELSE headerHeight

\* ledger.add_headers waits at every header and takes them all at the end.
AddHeaders ==
    /\ loop = "adding"
    /\ headerHeight' = HeightWith(adding)
    /\ adding' = Null
    /\ loop' = "added"
    /\ UNCHANGED <<blockHeight, headerRequest, headerCache, blockVars, taskVars, netVars>>

HeadersPersisted ==
    /\ loop = "added"
    /\ headerCache = <<>>
    /\ headerRequest' = Null
    /\ loop' = "spawn"
    /\ UNCHANGED <<ledger, headerCache, adding, blockVars, taskVars, netVars>>

Spawn ==
    /\ loop = "spawn"
    /\ persistTask' = TRUE
    /\ loop' = "header timeout"
    /\ UNCHANGED <<ledger, headerVars, blockVars, inHand, netVars>>

-----------------------------------------------------------------------------
(* The persist task.                                                       *)

HeaderOf(h) == HeightWith([first |-> h, last |-> h])

\* Ledger.add_block: AddHeader, then TryPersist, which refuses at once a block
\* that is not the next and otherwise waits inside Persist.
PersistBlock ==
    /\ persistTask
    /\ inHand = Null
    /\ blockCache # <<>>
    /\ LET h == Head(blockCache)
       IN  /\ headerHeight' = HeaderOf(h)
           /\ inHand' = IF h = blockHeight + 1 THEN h ELSE Null
    /\ blockCache' = Tail(blockCache)
    /\ UNCHANGED <<blockHeight, headerVars, blockRequests, persistTask, loop, netVars>>

BlockPersisted ==
    /\ inHand # Null
    /\ blockHeight' = inHand
    /\ inHand' = Null
    /\ UNCHANGED <<headerHeight, headerVars, blockVars, persistTask, loop, netVars>>

PersistTaskEnds ==
    /\ persistTask
    /\ inHand = Null
    /\ blockCache = <<>>
    /\ persistTask' = FALSE
    /\ UNCHANGED <<ledger, headerVars, blockVars, inHand, loop, netVars>>

-----------------------------------------------------------------------------
(* The handlers.                                                           *)

OnHeadersReceived(run) ==
    /\ headerCache' =
          IF /\ headerRequest # Null
             /\ run.first = headerRequest.height
             /\ run.first > headerHeight
          THEN Append(headerCache, run) ELSE headerCache
    /\ UNCHANGED <<headerRequest, blockVars>>

\* The request is answered by a node that was asked, or the block is the next.
Takes(n, h) ==
    \/ blockRequests[h] # Null /\ n \in blockRequests[h].asked
    \/ h = blockHeight + 1

OnBlockReceived(n, h) ==
    /\ IF h > headerHeight + 1 \/ h <= blockHeight
       THEN UNCHANGED blockVars
       ELSE /\ blockRequests' = [blockRequests EXCEPT ![h] = Null]
            /\ blockCache' = IF Takes(n, h) /\ h \notin Range(blockCache)
                             THEN Append(blockCache, h) ELSE blockCache
    /\ UNCHANGED <<headerRequest, headerCache>>

\* One turn of the loop of NeoNode.run.  The other messages (addresses, inventories,
\* pings, requests for what the relay cache holds) change nothing that is kept here.
Deliver(n) ==
    /\ queue[n] # <<>>
    /\ queue' = [queue EXCEPT ![n] = Tail(@)]
    /\ LET m == Head(queue[n])
       IN  \/ m.kind = "headers" /\ OnHeadersReceived(m)
           \/ m.kind = "block" /\ OnBlockReceived(n, m.index)
    /\ UNCHANGED <<ledger, adding, taskVars, loop, connected, faults>>

-----------------------------------------------------------------------------
(* Time passes.                                                            *)

HeadersUnderWay(r) ==
    \E i \in DOMAIN queue[r.last] :
        queue[r.last][i].kind = "headers" /\ queue[r.last][i].first = r.height

BlockUnderWay(r) ==
    \E i \in DOMAIN queue[r.last] :
        queue[r.last][i].kind = "block" /\ queue[r.last][i].index = r.height

\* Five seconds have passed and no answer will come any more.
HeaderTimeout ==
    /\ headerRequest # Null /\ ~headerRequest.late
    /\ ~HeadersUnderWay(headerRequest)
    /\ headerRequest' = [headerRequest EXCEPT !.late = TRUE]
    /\ UNCHANGED <<ledger, headerCache, adding, blockVars, taskVars, loop, netVars>>

BlockTimeout(h) ==
    /\ blockRequests[h] # Null /\ ~blockRequests[h].late
    /\ ~BlockUnderWay(blockRequests[h])
    /\ blockRequests' = [blockRequests EXCEPT ![h].late = TRUE]
    /\ UNCHANGED <<ledger, headerVars, blockCache, taskVars, loop, netVars>>

-----------------------------------------------------------------------------
(* Faults.                                                                 *)

Fault(kind) ==
    /\ kind \in Faults
    /\ faults < MaxFaults
    /\ faults' = faults + 1

Lose(n) ==
    /\ Fault("lose")
    /\ queue[n] # <<>>
    /\ queue' = [queue EXCEPT ![n] = Tail(@)]
    /\ UNCHANGED <<ledger, headerVars, blockVars, taskVars, loop, connected>>

\* Blocks asked for together were asked for at the same time.
Slow ==
    /\ Fault("slow")
    /\ \/ /\ headerRequest # Null /\ ~headerRequest.late
          /\ headerRequest' = [headerRequest EXCEPT !.late = TRUE]
          /\ UNCHANGED blockRequests
       \/ /\ Requested # TimedOut
          /\ blockRequests' = [h \in Height |->
                IF h \in Requested THEN [blockRequests[h] EXCEPT !.late = TRUE] ELSE Null]
          /\ UNCHANGED headerRequest
    /\ UNCHANGED <<ledger, headerCache, adding, blockCache, taskVars, loop, connected, queue>>

Disconnect(n) ==
    /\ Fault("disconnect")
    /\ n \in connected
    /\ connected' = connected \ {n}
    /\ queue' = [queue EXCEPT ![n] = <<>>]
    /\ UNCHANGED <<ledger, headerVars, blockVars, taskVars, loop>>

\* The node manager fills its pool again.
Connect(n) ==
    /\ n \notin connected
    /\ connected' = connected \union {n}
    /\ UNCHANGED <<ledger, headerVars, blockVars, taskVars, loop, queue, faults>>

Push(n, h) ==
    /\ Fault("push")
    /\ n \in connected /\ h \in 1..NodeHeight[n]
    /\ Send(n, BlocksAnswer({h}))
    /\ UNCHANGED <<ledger, headerVars, blockVars, taskVars, loop, connected>>

PersistFails ==
    /\ Fault("fail")
    /\ inHand # Null
    /\ inHand' = Null
    /\ UNCHANGED <<ledger, headerVars, blockVars, persistTask, loop, connected, queue>>

-----------------------------------------------------------------------------
Init ==
    /\ headerHeight = 0 /\ blockHeight = 0
    /\ headerRequest = Null /\ headerCache = <<>> /\ adding = Null
    /\ blockRequests = [h \in Height |-> Null] /\ blockCache = <<>>
    /\ persistTask = FALSE /\ inHand = Null
    /\ loop = "header timeout"
    /\ connected = Node /\ queue = [n \in Node |-> <<>>] /\ faults = 0

Service ==
    \/ CheckHeaderTimeout \/ CheckBlockTimeout \/ SyncHeader \/ SyncBlock
    \/ PersistNoHeaders \/ PopHeaders \/ AddHeaders \/ HeadersPersisted \/ Spawn

Persisting == PersistBlock \/ BlockPersisted \/ PersistTaskEnds

Next ==
    \/ Service
    \/ Persisting
    \/ \E n \in Node : Deliver(n)
    \/ HeaderTimeout
    \/ \E h \in Height : BlockTimeout(h)
    \/ \E n \in Node : Lose(n)
    \/ Slow
    \/ \E n \in Node : Disconnect(n)
    \/ \E n \in Node : Connect(n)
    \/ \E n \in Node, h \in Height : Push(n, h)
    \/ PersistFails

Spec == Init /\ [][Next]_vars

\* The event loop runs every task that can run, the clock advances, peers send
\* what is not lost, and the node manager keeps its pool filled.
Fairness ==
    /\ WF_vars(Service)
    /\ WF_vars(Persisting)
    /\ \A n \in Node : WF_vars(Deliver(n)) /\ WF_vars(Connect(n))
    /\ WF_vars(HeaderTimeout)
    /\ \A h \in Height : WF_vars(BlockTimeout(h))

FairSpec == Spec /\ Fairness

-----------------------------------------------------------------------------
(* Properties.                                                             *)

\* The ledger reaches the best height of the peers in the end, whatever is
\* lost, late, pushed, refused or disconnected finitely often.
ChainSynced == <>[](blockHeight = TopHeight)
=============================================================================
