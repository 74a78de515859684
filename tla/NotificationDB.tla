--------------------------- MODULE NotificationDB ---------------------------
(***************************************************************************)
(* The notification database (neo/Implementations/Notifications/           *)
(* NotificationDB.py).  Events are collected in memory and written when    *)
(* the block they came with has been persisted: first, event by event, a   *)
(* batch with the rows of both addresses, at the end a batch per contract  *)
(* and one for the block.  The program may be stopped between batches.     *)
(*                                                                         *)
(* A row is <<key, event>>; a key is an address, contract or block with a  *)
(* number.  An event is a record: id, contract, tx, from, to and block.    *)
(***************************************************************************)
EXTENDS Integers, Sequences, FiniteSets

CONSTANTS Address, Contract

VARIABLES
    pending,        \* _events_to_write
    writing,        \* 0, or the place on_persist_completed has come to
    byAddr,         \* rows under PREFIX_ADDR
    addrCount,      \* rows under PREFIX_ADDR that hold a count; 0: none
    byContract,     \* rows under PREFIX_CONTRACT
    contractCount,
    byBlock,        \* rows under PREFIX_BLOCK
    skipped,        \* on_persist_completed was not called for a block (history)
    filed           \* events whose writing was finished (history)

dbRows == <<byAddr, addrCount, byContract, contractCount, byBlock, filed>>
dbVars == <<pending, writing, skipped, dbRows>>

\* An event that was handed on twice is written twice, under two ids.
Put(rows, key, ev) == {r \in rows : r[1] # key} \cup {<<key, ev>>}

NotificationInit ==
    /\ pending = << >> /\ writing = 0 /\ skipped = FALSE /\ filed = {}
    /\ byAddr = {} /\ byContract = {} /\ byBlock = {}
    /\ addrCount = [a \in Address |-> 0]
    /\ contractCount = [c \in Contract |-> 0]

\* on_smart_contract_event for events that ShouldPersist.
OnSmartContractEvents(evs) == pending' = pending \o evs

\* on_persist_completed starts with evs collected; without events it does nothing.
OnPersistCompleted(evs) == writing' = IF pending \o evs = << >> THEN 0 ELSE 1

\* The first number of an address is b'\x00', or b'x\00', which reads 120, when the
\* address first sends.
FirstFrom == 120
NumberTo(a) == addrCount[a]
\* Mutant: the count of an address that sends is not read.
NumberFromFirst(a) == FirstFrom

NumberFrom(a) == IF addrCount[a] = 0 THEN FirstFrom ELSE addrCount[a]

\* The batch of one event: its rows and the counts of both addresses.
WriteAddresses ==
    /\ writing \in 1 .. Len(pending)
    /\ LET ev == pending[writing]
           both == ev.to # ev.from
           withTo == Put(byAddr, <<ev.to, NumberTo(ev.to)>>, ev)
           countTo == [addrCount EXCEPT ![ev.to] = NumberTo(ev.to) + 1]
       IN /\ byAddr' = IF both THEN Put(withTo, <<ev.from, NumberFrom(ev.from)>>, ev) ELSE withTo
          /\ addrCount' = IF both THEN [countTo EXCEPT ![ev.from] = NumberFrom(ev.from) + 1] ELSE countTo
    /\ writing' = writing + 1
    /\ UNCHANGED <<pending, skipped, byContract, contractCount, byBlock, filed>>

\* The batch per contract.  The count is read from the database, which does not
\* have the batch yet: events of one contract in one block share a key.
WriteContracts ==
    /\ writing = Len(pending) + 1
    /\ LET Here == {pending[i].contract : i \in DOMAIN pending}
           Latest(c) == CHOOSE i \in DOMAIN pending :
                          /\ pending[i].contract = c
                          /\ \A j \in DOMAIN pending : pending[j].contract = c => j <= i
           Key(c) == <<c, contractCount[c]>>
       IN /\ byContract' = {r \in byContract : \A c \in Here : r[1] # Key(c)}
                           \cup {<<Key(c), pending[Latest(c)]>> : c \in Here}
          /\ contractCount' = [c \in Contract |-> contractCount[c] + (IF c \in Here THEN 1 ELSE 0)]
    /\ writing' = writing + 1
    /\ UNCHANGED <<pending, skipped, byAddr, addrCount, byBlock, filed>>

\* The batch of the block, under the number the first event carries; then the
\* collected events are dropped.
WriteBlock ==
    /\ pending # << >> /\ writing = Len(pending) + 2
    /\ byBlock' = LET Key(i) == <<pending[1].block, i - 1>>
                  IN {r \in byBlock : \A i \in DOMAIN pending : r[1] # Key(i)}
                     \cup {<<Key(i), pending[i]>> : i \in DOMAIN pending}
    /\ filed' = filed \cup {[ev |-> pending[i], late |-> skipped] : i \in DOMAIN pending}
    /\ pending' = << >> /\ writing' = 0 /\ skipped' = FALSE
    /\ UNCHANGED <<byAddr, addrCount, byContract, contractCount>>

WriteNotifications == WriteAddresses \/ WriteContracts \/ WriteBlock

\* The program stops: what was collected is lost.
LoseEvents ==
    /\ pending' = << >> /\ writing' = 0 /\ skipped' = FALSE
    /\ UNCHANGED dbRows
=============================================================================
