----------------------------- MODULE Invocation -----------------------------
(***************************************************************************)
(* The life of an invocation: its transaction is signed by several wallets *)
(* (SignatureContext), verified for the memory pool and executed when its  *)
(* block is persisted (VM), and the events it raised are handed to the     *)
(* notification database (NotificationDB).  neo/Core/Blockchain.py,        *)
(* neo/Network/ledger.py, neo/SmartContract/StateReader.py and Helper.py.  *)
(*                                                                         *)
(* The program is one event loop: an execution is not interrupted, but     *)
(* Persist waits after each invocation, and the pool may verify a          *)
(* transaction then.                                                       *)
(***************************************************************************)
EXTENDS VM, NotificationDB, SignatureContext

CONSTANTS
    Entry,      \* the script of an invocation
    Witness,    \* the verification script of an input
    Notices,    \* Notices[n]: the event that notice n of Runtime.Notify makes
    Plans       \* what is to happen: see Plan and left

\* A plan: the program run, and how many invocations, blocks and so on there may be.
Plan ==
    [signing : BOOLEAN, emitOnError : BOOLEAN, program : Program, pools : Nat, tests : Nat,
     invocations : Nat, blocks : Nat, raises : Nat, stops : Nat]

ASSUME InvocationAssumption ==
    /\ Plans \subseteq Plan
    /\ Entry \in Script \ Deployed /\ Witness \in Script \ Deployed
    /\ Deployed \subseteq Contract /\ Script \subseteq Contract /\ Contract \subseteq Address
    /\ \A n \in DOMAIN Notices : Notices[n].kind \in {"transfer", "refund", "mint", "other"}

VARIABLES
    left,       \* the program run and how much of each kind may still happen
    height,     \* Blockchain.Height
    block,      \* Null, or what Persist holds: invocations left, to_dispatch, and
                \* whether it has waited
    purpose,    \* what the engine was made for: "none", "block", "pool", "test"
    nextId      \* events made so far

vars == <<vmVars, dbVars, sigVars, left, height, block, purpose, nextId>>
vmOnly == <<pending, writing, skipped, dbRows, sigVars, height, block, nextId>>

Init ==
    /\ NoExecution /\ NotificationInit /\ SigningInit
    /\ left \in Plans
    /\ height = 0 /\ block = Null /\ purpose = "none" /\ nextId = 1

Spend(what) == left[what] > 0 /\ left' = [left EXCEPT ![what] = @ - 1]

\* The event loop is free to run something else: no engine runs, and nothing is
\* being filed.
LoopFree == purpose = "none" /\ writing = 0 /\ left.signing = FALSE

(***************************************************************************)
(* Events.                                                                 *)
(***************************************************************************)
\* The transaction an engine was made for, as its block and its place there; <<0, 0>>
\* is one of the memory pool.
TxRun == IF purpose = "block" THEN <<height + 1, block.invocations>> ELSE <<0, 0>>

\* NotifyEvent: a refund or a mint comes from the contract itself.
EventOf(note, id) ==
    LET notice == Notices[note.notice]
    IN [id |-> id, contract |-> note.by, to |-> notice.to, block |-> height + 1,
        tx |-> TxRun,
        from |-> IF notice.kind = "transfer" THEN notice.from ELSE note.by]

\* ShouldPersist and the test of on_smart_contract_event.
Stores(note) == Notices[note.notice].kind \in {"transfer", "refund", "mint"}

\* events_to_dispatch, of which only what will be stored is kept: Runtime_Notify adds
\* an event at once when events of failed executions are wanted, ExecutionCompleted
\* adds all of them after a success.
EventsToDispatch ==
    LET stored == IF testMode THEN << >> ELSE SelectSeq(notes, Stores)
        made == (IF left.emitOnError THEN stored ELSE << >>)
                \o (IF vmState = "HALT" THEN stored ELSE << >>)
    IN [i \in DOMAIN made |-> EventOf(made[i], nextId + i - 1)]

(***************************************************************************)
(* Signing.                                                                *)
(***************************************************************************)
CollectSignatures ==
    /\ left.signing /\ Signing
    /\ UNCHANGED <<vmVars, dbVars, left, height, block, purpose, nextId>>

\* A transaction was relayed: from here it is in the pools of the network.
LeaveSigning ==
    /\ left.signing /\ relayed # {}
    /\ left' = [left EXCEPT !.signing = FALSE]
    /\ papers' = {} /\ relayed' = {}
    /\ UNCHANGED <<vmVars, dbVars, height, block, purpose, nextId>>

(***************************************************************************)
(* Executions.                                                             *)
(***************************************************************************)
\* VerifyWitnesses: the verification script below the invocation script.
VerifyForPool ==
    /\ LoopFree /\ (block # Null => block.waits)
    /\ Spend("pools")
    /\ Load(left.program, <<Witness, Entry>>, FALSE)
    /\ purpose' = "pool"
    /\ UNCHANGED vmOnly

\* test_invoke.  The transaction it makes, its witnesses and the fee it asks for are
\* not looked at here; the engine is, and the end of its execution is
\* ExecutionCompleted below, whether it succeeds, fails or raises.
TestInvoke ==
    /\ LoopFree /\ (block # Null => block.waits)
    /\ Spend("tests")
    /\ Load(left.program, <<Entry>>, TRUE)
    /\ purpose' = "test"
    /\ UNCHANGED vmOnly

RunInvocation ==
    /\ LoopFree /\ block # Null
    /\ block.invocations > 0
    /\ Load(left.program, <<Entry>>, FALSE)
    /\ purpose' = "block"
    /\ UNCHANGED <<left, vmOnly>>

Execute == ExecuteNext /\ UNCHANGED <<left, purpose, vmOnly>>

\* ExecutionCompleted: the events of an invocation wait for the end of its block,
\* those of a verification are emitted at once.
ExecutionCompleted ==
    /\ purpose # "none" /\ ~Running
    /\ \/ /\ purpose = "block"
          /\ block' = [block EXCEPT !.invocations = @ - 1, !.waits = TRUE,
                                    !.dispatch = @ \o EventsToDispatch]
          /\ UNCHANGED pending
       \/ /\ purpose \in {"pool", "test"}
          /\ OnSmartContractEvents(EventsToDispatch)
          /\ UNCHANGED block
    /\ nextId' = nextId + Len(EventsToDispatch)
    /\ Unload /\ purpose' = "none"
    /\ UNCHANGED <<writing, skipped, dbRows, sigVars, left, height>>

(***************************************************************************)
(* Blocks.                                                                 *)
(***************************************************************************)
BeginBlock ==
    /\ LoopFree /\ block = Null
    /\ Spend("blocks")
    /\ \E n \in 0 .. left.invocations :
           block' = [invocations |-> n, dispatch |-> << >>, waits |-> FALSE]
    /\ UNCHANGED <<vmVars, dbVars, sigVars, height, purpose, nextId>>

\* The block is committed, its events are emitted, and add_block calls
\* OnPersistCompleted.
EndBlock ==
    /\ LoopFree /\ block # Null
    /\ block.invocations = 0
    /\ height' = height + 1 /\ block' = Null
    /\ OnSmartContractEvents(block.dispatch)
    /\ OnPersistCompleted(block.dispatch)
    /\ UNCHANGED <<vmVars, skipped, dbRows, sigVars, left, purpose, nextId>>

\* A listener raises an exception: the events after it are not emitted, TryPersist
\* returns False although the block is there, and OnPersistCompleted is not called.
ListenerRaises ==
    /\ LoopFree /\ block # Null
    /\ block.invocations = 0 /\ Spend("raises")
    /\ height' = height + 1 /\ block' = Null
    /\ \E n \in 0 .. Len(block.dispatch) : OnSmartContractEvents(SubSeq(block.dispatch, 1, n))
    /\ skipped' = TRUE
    /\ UNCHANGED <<vmVars, writing, dbRows, sigVars, purpose, nextId>>

\* Persist raises before the block is committed; the block is tried again.
PersistRaises ==
    /\ LoopFree /\ block # Null
    /\ Spend("raises")
    /\ block' = Null
    /\ UNCHANGED <<vmVars, dbVars, sigVars, height, purpose, nextId>>

File ==
    /\ WriteNotifications
    /\ UNCHANGED <<vmVars, sigVars, left, height, block, purpose, nextId>>

\* The program stops, at any point, and is started again.
Stop ==
    /\ left.signing = FALSE /\ Spend("stops")
    /\ LoseEvents /\ Unload
    /\ purpose' = "none" /\ block' = Null
    /\ UNCHANGED <<sigVars, height, nextId>>

Next ==
    \/ CollectSignatures \/ LeaveSigning
    \/ VerifyForPool \/ TestInvoke \/ RunInvocation \/ Execute \/ ExecutionCompleted
    \/ BeginBlock \/ EndBlock \/ ListenerRaises \/ PersistRaises \/ File \/ Stop

Spec == Init /\ [][Next]_vars

\* An engine executes until it stops.  WF_vars(Execute), with its ENABLED written
\* out: a running engine can always take a step.
FairSpec == Spec /\ ([]<>(~Running) \/ []<><<Execute>>_vars)
=============================================================================
