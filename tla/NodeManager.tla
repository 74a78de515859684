----------------------------- MODULE NodeManager -----------------------------
(***************************************************************************)
(* neo/Network/nodemanager.py with the connections of node.py and          *)
(* protocol.py: which addresses are known, dialled, connected or given up, *)
(* and how a peer that fails, errs, is slow or stalls is replaced.  The    *)
(* health check of syncmanager.py and `config maxpeers` act on the same    *)
(* pool.                                                                   *)
(*                                                                         *)
(* Everything runs on one event loop.  A step is the code between two      *)
(* waits; what a call leaves to a task or a callback is a step of its own, *)
(* kept in `due` until it runs.                                            *)
(***************************************************************************)
EXTENDS Integers, Sequences, FiniteSetsExt, SequencesExt, Bags

CONSTANTS
    Address,       \* host:port of the nodes that can be dialled
    Guest,         \* host:port of nodes that dial us
    Seeds,         \* SEED_LIST, in order
    Conn,          \* connections that may exist at a time: a bound
    MaxClients,    \* CONNECTED_PEER_MAX: 10
    MinClients,    \* CONNECTED_PEER_MIN: 4
    ErrorLimit,    \* MAX_ERROR_COUNT: 5
    TimeoutLimit,  \* MAX_TIMEOUT_COUNT: 15
    PoolErrors,    \* MAX_NODE_POOL_ERROR: 2
    StallLimit,    \* checks without a new block: 3
    Null,
    Faults,        \* which of FaultKinds happen
    MaxFaults      \* bound: how many of them

FaultKinds ==
    {"down",       \* an address stops answering
     "drop",       \* a peer that answers closes a connection, or never finishes it
     "error", "timeout", "stall", "guest",
     "configure"}  \* config maxpeers

\* A NeoNode, see Connections.
Neonode ==
    [addr : Address \union Guest, check : BOOLEAN, stage : {"handshake", "connected", "closed"},
     due : SUBSET {"eof", "lost", "run", "task"}, errors : Nat, timeouts : Nat]

ASSUME NodeManagerAssumption ==
    /\ Null \notin Neonode
    /\ Seeds \in Seq(Address) /\ Guest \intersect Address = {}
    /\ MaxClients \in Nat \ {0} /\ MinClients \in Nat \ {0}
    /\ {ErrorLimit, TimeoutLimit, PoolErrors, StallLimit} \subseteq Nat
    /\ Faults \subseteq FaultKinds /\ MaxFaults \in Nat

VARIABLES
    pool,        \* the manager's lists, see Pool
    nodes,       \* the connections in use, in the order they came
    conn,        \* per connection, Null or its NeoNode
    maxClients,
    stalls,      \* error_counter of block_health
    phase,       \* "up", "stopping", "down"
    alive,       \* the addresses that answer
    faults       \* how many faults have happened

vars == <<pool, nodes, conn, maxClients, stalls, phase, alive, faults>>

\* queued: addresses being connected, `attempts` what is in the connection
\* queue or in _connect_to_node, errors: MAX_NODE_POOL_ERROR_COUNT.
Init ==
    /\ pool = [known |-> Seeds, bad |-> <<>>, queued |-> {}, attempts |-> EmptyBag, errors |-> 0]
    /\ nodes = <<>> /\ conn = [c \in Conn |-> Null]
    /\ maxClients = MaxClients /\ stalls = 0 /\ phase = "up" /\ faults = 0
    /\ alive \in SUBSET Address

Fault(kind) == kind \in Faults /\ faults < MaxFaults /\ faults' = faults + 1

-----------------------------------------------------------------------------
(* The lists.                                                              *)

ConnectedAddresses == {conn[c].addr : c \in ToSet(nodes)}
InUse(p) == Len(nodes) + Cardinality(p.queued)

\* Mutant: connections under way are not counted as taken spots.
OpenSpotsOfNodes == maxClients - Len(nodes)

OpenSpots == maxClients - InUse(pool)

One(a, check) == SetToBag({[addr |-> a, check |-> check]})

QueueForConnection(p, a) ==
    IF InUse(p) < maxClients /\ a \notin p.queued \union ConnectedAddresses
    THEN [p EXCEPT !.queued = @ \union {a}, !.attempts = @ (+) One(a, FALSE)]
    ELSE p

QueueForCheck(p, a) == [p EXCEPT !.attempts = @ (+) One(a, TRUE)]

\* A known address is taken off the list and queued.
PopKnown(p) == QueueForConnection([p EXCEPT !.known = Tail(@)], Head(p.known))

MarkBad(p, a) == [p EXCEPT !.bad = IF a \in ToSet(@) THEN @ ELSE Append(@, a)]

\* quality_check_result with healthy = False.
Unhealthy(p, a) == MarkBad([p EXCEPT !.known = RemoveFirst(@, a)], a)

\* Mutant: the addresses that failed are not tried again.
NoRecycling(p) == [p EXCEPT !.errors = 0]

\* Every address is tried again, also those that failed.
Recycle(p) == [p EXCEPT !.known = p.bad, !.bad = <<>>, !.errors = 0]

\* One spot of check_open_spots_and_queue_nodes; s.done after its break.
FillSpot(s, i) ==
    CASE s.done -> s
      [] ~s.done /\ s.pool.known # <<>> -> [s EXCEPT !.pool = PopKnown(@)]
      [] ~s.done /\ s.pool.known = <<>> /\ Len(nodes) >= MinClients -> s
      [] OTHER -> IF s.pool.errors # PoolErrors
                  THEN [pool |-> [s.pool EXCEPT !.errors = @ + 1], done |-> TRUE]
                  ELSE [s EXCEPT !.pool = Recycle(@)]

CheckOpenSpots ==
    /\ phase = "up"
    /\ OpenSpots > 0
    /\ pool' = FoldLeft(FillSpot, [pool |-> pool, done |-> FALSE], [i \in 1..OpenSpots |-> i]).pool
    /\ UNCHANGED <<nodes, conn, maxClients, stalls, phase, alive, faults>>

\* A peer's addr message.  Bound: an address is passed on by another peer, and
\* not while as many attempts as connections are under way.
OnAddrReceived(a) ==
    /\ \E c \in Conn : conn[c] # Null /\ conn[c].stage = "connected" /\ conn[c].addr # a
    /\ BagCardinality(pool.attempts) < Cardinality(Conn)
    /\ a \notin ToSet(pool.bad) \union pool.queued \union ToSet(pool.known)
    /\ a \notin ConnectedAddresses
    /\ LET p == [pool EXCEPT !.known = Append(@, a)]
       IN  pool' = IF InUse(p) < maxClients THEN QueueForConnection(p, a) ELSE QueueForCheck(p, a)
    /\ UNCHANGED <<nodes, conn, maxClients, stalls, phase, alive, faults>>

-----------------------------------------------------------------------------
(* Connections.  due: what is still to call disconnect on the node, "eof"  *)
(* and "lost" being the transport's callbacks, "run" the end of its main   *)
(* loop and "task" a disconnect that another part of the program asked for.*)

Opened(a, check) ==
    [addr |-> a, check |-> check, stage |-> "handshake", due |-> {}, errors |-> 0, timeouts |-> 0]

Live(c) == conn[c] # Null /\ conn[c].stage # "closed"

Attempted(x) == [pool EXCEPT !.attempts = @ (-) SetToBag({x})]

Connect(x) ==
    /\ BagIn(x, pool.attempts)
    /\ x.addr \in alive
    /\ \E c \in Conn :
          /\ conn[c] = Null /\ \A d \in Conn : conn[d] = Null => c <= d
          /\ conn' = [conn EXCEPT ![c] = Opened(x.addr, x.check)]
    /\ pool' = Attempted(x)
    /\ UNCHANGED <<nodes, maxClients, stalls, phase, alive, faults>>

\* Mutant: an address that cannot be connected keeps its spot.
FailedKeepingSpot(p, x) ==
    [p EXCEPT !.attempts = @ (-) SetToBag({x}), !.known = RemoveFirst(@, x.addr),
              !.bad = Append(@, x.addr)]

\* The end of _connect_to_node when it raised: bad_addresses may list an
\* address twice.
Failed(p, x) ==
    [p EXCEPT !.attempts = @ (-) SetToBag({x}), !.queued = @ \ {x.addr},
              !.known = RemoveFirst(@, x.addr), !.bad = Append(@, x.addr)]

ConnectFails(x) ==
    /\ BagIn(x, pool.attempts)
    /\ x.addr \notin alive /\ UNCHANGED faults
    /\ pool' = Failed(pool, x)
    /\ UNCHANGED <<nodes, conn, maxClients, stalls, phase, alive>>

\* The server takes whoever calls, however many nodes there are.
Accept(g) ==
    /\ Fault("guest") /\ phase # "down"
    /\ \A c \in Conn : conn[c] # Null => conn[c].addr # g
    /\ \E c \in Conn :
          /\ conn[c] = Null /\ \A d \in Conn : conn[d] = Null => c <= d
          /\ conn' = [conn EXCEPT ![c] = Opened(g, FALSE)]
    /\ UNCHANGED <<pool, nodes, maxClients, stalls, phase, alive>>

\* disconnect ends the handshake, takes the node out of the lists and closes
\* the transport, which later calls connection_lost.
Disconnected(n) ==
    IF n.stage = "closed" THEN n
    ELSE [n EXCEPT !.stage = "closed",
                   !.due = @ \union (IF n.stage = "connected" THEN {"lost", "run"} ELSE {"lost"})]

NextStage(n) == IF n.stage = "closed" /\ n.due = {} THEN Null ELSE n

Dequeued(p, n) == [p EXCEPT !.queued = @ \ {n.addr}]

\* Mutant: add_connected_node also when the manager shuts down.
AddWhenever(c) == Append(nodes, c)

AddConnectedNode(c) == IF phase = "up" THEN Append(nodes, c) ELSE nodes

HandshakeDone(c) ==
    /\ conn[c] # Null
    /\ conn[c].stage = "handshake"
    /\ conn[c].addr \in alive \union Guest
    /\ IF conn[c].check
       THEN conn' = [conn EXCEPT ![c] = Disconnected(@)] /\ UNCHANGED nodes
       ELSE conn' = [conn EXCEPT ![c].stage = "connected"] /\ nodes' = AddConnectedNode(c)
    /\ pool' = Dequeued(pool, conn[c])
    /\ UNCHANGED <<maxClients, stalls, phase, alive, faults>>

\* The peer is filtered, says nothing for 3 seconds or sends something else.
HandshakeFails(c) ==
    /\ conn[c] # Null
    /\ conn[c].stage = "handshake"
    /\ \/ conn[c].addr \notin alive \union Guest /\ UNCHANGED faults
       \/ conn[c].addr \in alive \union Guest /\ Fault("drop")
    /\ conn' = [conn EXCEPT ![c] = Disconnected(@)]
    /\ pool' = Dequeued(pool, conn[c])
    /\ UNCHANGED <<nodes, maxClients, stalls, phase, alive>>

\* The other side closes: eof_received calls connection_lost.
PeerCloses(c) ==
    /\ Live(c)
    /\ "eof" \notin conn[c].due
    /\ \/ conn[c].addr \notin alive \union Guest /\ UNCHANGED faults
       \/ conn[c].addr \in alive \union Guest /\ Fault("drop")
    /\ conn' = [conn EXCEPT ![c].due = @ \union {"eof"}]
    /\ UNCHANGED <<pool, nodes, maxClients, stalls, phase, alive>>

\* connection_lost gives up the address of a connection made for a check, also
\* when the check went well.
Disconnect(c, d) ==
    /\ conn[c] # Null
    /\ d \in conn[c].due
    /\ LET n == Disconnected([conn[c] EXCEPT !.due = @ \ {d}])
           p == Dequeued(pool, n)
       IN  /\ conn' = [conn EXCEPT ![c] = NextStage(n)]
           /\ pool' = IF n.check /\ d \in {"eof", "lost"} THEN Unhealthy(p, n.addr) ELSE p
    /\ nodes' = RemoveFirst(nodes, c)
    /\ UNCHANGED <<maxClients, stalls, phase, alive, faults>>

-----------------------------------------------------------------------------
(* Peers that do not serve.                                                *)

\* replace_node: the disconnect is a task, so the node still has its spot when
\* the next address is queued.
Replacement(p, c) ==
    LET q == MarkBad(p, conn[c].addr) IN IF q.known = <<>> THEN q ELSE PopKnown(q)

Leave(n) == [n EXCEPT !.due = @ \union {"task"}]

Counted(c, n, over) ==
    IF over THEN conn' = [conn EXCEPT ![c] = Leave(n)] /\ pool' = Replacement(pool, c)
    ELSE conn' = [conn EXCEPT ![c] = n] /\ UNCHANGED pool

AddNodeErrorCount(c) ==
    /\ c \in ToSet(nodes) /\ Fault("error")
    /\ LET n == [conn[c] EXCEPT !.errors = @ + 1] IN Counted(c, n, n.errors > ErrorLimit)
    /\ UNCHANGED <<nodes, maxClients, stalls, phase, alive>>

AddNodeTimeoutCount(c) ==
    /\ c \in ToSet(nodes) /\ Fault("timeout")
    /\ LET n == [conn[c] EXCEPT !.timeouts = @ + 1] IN Counted(c, n, n.timeouts > TimeoutLimit)
    /\ UNCHANGED <<nodes, maxClients, stalls, phase, alive>>

Stalled(count) == count = StallLimit

\* block_health.  Above StallLimit + 1 the counter makes no difference.
BlockHealth(advanced) ==
    /\ phase = "up"
    /\ IF advanced
       THEN stalls' = 0 /\ UNCHANGED <<pool, conn, faults>>
       ELSE /\ stalls' = Min({stalls + 1, StallLimit + 1})
            /\ IF Stalled(stalls + 1)
               THEN /\ Fault("stall")
                    /\ pool' = FoldLeft(Replacement, pool, nodes)
                    /\ conn' = [c \in Conn |-> IF c \in ToSet(nodes) THEN Leave(conn[c]) ELSE conn[c]]
               ELSE UNCHANGED <<pool, conn, faults>>
    /\ UNCHANGED <<nodes, maxClients, phase, alive>>

\* The last n nodes in the list are disconnected at once.
ConfigMaxpeers(n) ==
    /\ phase = "up" /\ n # maxClients /\ Fault("configure")
    /\ maxClients' = n
    /\ LET kept == Min({n, Len(nodes)})
           gone == {nodes[i] : i \in kept + 1..Len(nodes)}
       IN  /\ nodes' = SubSeq(nodes, 1, kept)
           /\ conn' = [c \in Conn |-> IF c \in gone THEN Disconnected(conn[c]) ELSE conn[c]]
           /\ pool' = [pool EXCEPT !.queued = @ \ {conn[c].addr : c \in gone}]
    /\ UNCHANGED <<stalls, phase, alive>>

-----------------------------------------------------------------------------
(* Shutdown: the tasks are cancelled, then the nodes disconnected.  An     *)
(* attempt that is dialling fails by that; one that was still in the       *)
(* connection queue, or has not begun, never runs.                         *)

Shutdown ==
    /\ phase = "up"
    /\ phase' = "stopping"
    /\ \E dialling \in SUBSET BagToSet(pool.attempts) :
          pool' = [FoldLeft(Failed, pool, SetToSeq(dialling)) EXCEPT !.attempts = EmptyBag]
    /\ UNCHANGED <<nodes, conn, maxClients, stalls, alive, faults>>

DisconnectAll ==
    /\ phase = "stopping"
    /\ phase' = "down"
    /\ conn' = [c \in Conn |-> IF c \in ToSet(nodes) THEN Leave(conn[c]) ELSE conn[c]]
    /\ UNCHANGED <<pool, nodes, maxClients, stalls, alive, faults>>

-----------------------------------------------------------------------------
(* The network.                                                            *)

GoDown(a) ==
    /\ a \in alive /\ Fault("down")
    /\ alive' = alive \ {a}
    /\ UNCHANGED <<pool, nodes, conn, maxClients, stalls, phase>>

-----------------------------------------------------------------------------

PossibleAttempt == [addr : Address \union Guest, check : BOOLEAN]

Next ==
    \/ CheckOpenSpots
    \/ \E a \in Address : OnAddrReceived(a) \/ GoDown(a)
    \/ \E x \in PossibleAttempt : Connect(x) \/ ConnectFails(x)
    \/ \E g \in Guest : Accept(g)
    \/ \E c \in Conn :
          \/ HandshakeDone(c) \/ HandshakeFails(c) \/ PeerCloses(c)
          \/ \E d \in {"eof", "lost", "run", "task"} : Disconnect(c, d)
          \/ AddNodeErrorCount(c) \/ AddNodeTimeoutCount(c)
    \/ \E advanced \in BOOLEAN : BlockHealth(advanced)
    \/ \E n \in 1..MaxClients : ConfigMaxpeers(n)
    \/ Shutdown \/ DisconnectAll

Spec == Init /\ [][Next]_vars

\* The loop checks the pool every ten seconds, an attempt ends within three, a
\* handshake within six; callbacks and tasks run; a peer that is gone is
\* noticed; a shutdown goes on.
Fairness ==
    /\ WF_vars(CheckOpenSpots)
    /\ \A x \in PossibleAttempt : WF_vars(Connect(x) \/ ConnectFails(x))
    /\ \A c \in Conn :
          /\ WF_vars(HandshakeDone(c) \/ HandshakeFails(c))
          /\ WF_vars(conn[c] # Null /\ conn[c].addr \notin alive \union Guest /\ PeerCloses(c))
          /\ \A d \in {"eof", "lost", "run", "task"} : WF_vars(Disconnect(c, d))
    /\ WF_vars(DisconnectAll)

FairSpec == Spec /\ Fairness

-----------------------------------------------------------------------------
(* Properties.                                                             *)

TypeOK ==
    /\ pool.known \in Seq(Address \union Guest) /\ pool.bad \in Seq(Address \union Guest)
    /\ pool.queued \subseteq Address \union Guest
    /\ IsABag(pool.attempts) /\ BagToSet(pool.attempts) \subseteq PossibleAttempt
    /\ pool.errors \in 0..PoolErrors
    /\ nodes \in Seq(Conn) /\ IsInjective(nodes)
    /\ conn \in [Conn -> Neonode \union {Null}]
    /\ \A c \in ToSet(nodes) : conn[c] # Null /\ conn[c].stage = "connected" /\ ~conn[c].check
    /\ maxClients \in 1..MaxClients /\ stalls \in 0..StallLimit + 1
    /\ phase \in {"up", "stopping", "down"} /\ alive \subseteq Address /\ faults \in 0..MaxFaults

Remembered == ToSet(pool.known) \union ToSet(pool.bad) \union pool.queued \union ConnectedAddresses

\* No address is lost while the pool is filled: one leaves known_addresses and
\* bad_addresses only for another list or a connection.  It may be lost only
\* where a node is replaced and every spot is taken by then: replace_node takes
\* the next address off the list, and queue_for_connection drops it
\* (nodemanager.py:184-192, 284).
Replacing == BlockHealth(FALSE) \/ \E c \in Conn : AddNodeErrorCount(c) \/ AddNodeTimeoutCount(c)

AddressesKept ==
    [][\A a \in ToSet(pool.known) \union ToSet(pool.bad) :
          a \in Remembered' \/ (Replacing /\ InUse(pool)' >= maxClients)]_vars

\* An address under way is still to be dialled, or a handshake with it goes on.
SpotsBacked ==
    phase = "up" => \A a \in pool.queued :
        \/ BagIn([addr |-> a, check |-> FALSE], pool.attempts)
        \/ \E c \in Conn : conn[c] # Null /\ conn[c].addr = a /\ conn[c].stage = "handshake"

\* Each node that is left has been told to disconnect.
NodesLeave == phase = "down" => \A c \in ToSet(nodes) : "task" \in conn[c].due

\* Every spot that is taken is given back, by something that is under way, however the
\* dialling, the handshakes, the transport's callbacks and a shutdown come together: the
\* spot of an address by its attempt or its handshake, whose end frees it
\* (nodemanager.py:146-158, 284-291, 328-357), and after a shutdown the spot of a node by
\* its disconnect, as none comes into use after that (nodemanager.py:146-148, 371-377).
SpotsGivenBack == SpotsBacked /\ NodesLeave

\* Once the network is quiet, the manager gets as many nodes as it needs, or
\* all it remembers that answer: no such address is left aside for ever on any
\* of the lists (nodemanager.py:113-145).
Enough == Min({MinClients, maxClients, Cardinality(alive \intersect Remembered)})
PoolFilled == <>[](phase = "up") => <>[](Len(nodes) >= Enough)

\* After a shutdown no node is left in use, also none whose handshake ended
\* meanwhile (nodemanager.py:146-148, 371-377).
ShutdownComplete == (phase = "down") ~> [](nodes = <<>>)
=============================================================================
