------------------------------ MODULE Interop -------------------------------
(***************************************************************************)
(* The services a contract calls while it runs, apart from its storage     *)
(* (module Contracts): neo/SmartContract/StateReader.py, StateMachine.py   *)
(* and the prices of ApplicationEngine.py, with the instructions that make *)
(* and change collections.                                                 *)
(*                                                                         *)
(* A script keeps what it is given: the arguments of a call are items it   *)
(* has, or literals of its own.  A service that returns False or raises    *)
(* ends the execution; both are Fault.  The gas that is left bounds the    *)
(* number of calls.                                                        *)
(*                                                                         *)
(* A service is a pair <<class, method>> that is registered in a space of  *)
(* names; <<"Header", "Hash">> is Neo.Header.GetHash.                      *)
(***************************************************************************)
EXTENDS Enumerators

CONSTANTS
    Null,
    Blocks,         \* Blocks[h]: the fields of header h, with Transactions
    Transactions,   \* the fields of transaction id, with its height
    Deployed,       \* Deployed[c]: the fields of a contract, or Null
    Balance,        \* Balance[a]: what account a has of each asset, or Null
    Witnesses,      \* the accounts whose witnesses the container has
    AccountOf,      \* AccountOf[k]: the account of public key k
    SecondsPerBlock, MaxItemSize, MaxArraySize,
    Plans           \* the scripts: their space of names, services, instructions,
                    \* literals, keys and terms; what they start with, in which
                    \* views, with how much gas and how many calls

VARIABLES
    story,      \* the script that runs
    gas, calls, \* what is left of its gas, and of the calls looked at
    view,       \* what the node knows: height, headers, rows, persisting, container
    state,      \* the heap, the rows of accounts and of assets
    held,       \* the items the script has
    vmState

vars == <<story, gas, calls, view, state, held, vmState>>

plan == Plans[story]

Height == DOMAIN Blocks

Answer(s, item) == [state |-> s, item |-> item]
Fault == [fault |-> TRUE]

\* A heap and an item, or what failed, as the answer of a service.
Made(s, made) ==
    IF made = Failed THEN Fault ELSE Answer([s EXCEPT !.heap = made.heap], made.item)

PushObject(s, object) == Made(s, New(s.heap, object))
PushBoolean(s, b) == PushObject(s, BooleanOf(b))

\* StackItem.FromInterface of something with fields, or of None.
Object(kind, fields) == [kind |-> kind, fields |-> fields]
Nothing == [kind |-> "Nothing"]

PushAll(s, kind, records) ==
    LET n == Len(records)
        heap == s.heap \o [i \in 1..n |-> Object(kind, records[i])]
    IN  IF n > MaxArraySize THEN Fault
        ELSE PushObject([s EXCEPT !.heap = heap],
                        ArrayOf("Array", [i \in 1..n |-> Ref(Len(s.heap) + i)]))

\* What is read as a string, and its length.
Readable(heap, x) == IsNamed(x) \/ IsNumber(heap, x)
Size(heap, x) == IF IsNamed(x) THEN x.size ELSE Len(GetByteArray(heap, x))
Names(x, size) == IsNamed(x) /\ x.size = size

-----------------------------------------------------------------------------
(* Names and prices.                                                       *)

SystemServices ==
    ({"Runtime"} \X {"Platform", "GetTrigger", "CheckWitness", "GetTime", "Serialize", "Deserialize"})
    \cup ({"Blockchain"} \X {"GetHeight", "GetHeader", "GetBlock", "GetTransaction",
                             "GetTransactionHeight", "GetContract"})
    \cup ({"Header"} \X {"Index", "Hash", "PrevHash", "Timestamp"})
    \cup ({"Block"} \X {"TransactionCount", "Transactions", "GetTransaction"})
    \cup {<<"Transaction", "Hash">>}

HeaderFields == {"Index", "Hash", "PrevHash", "Timestamp", "Version", "MerkleRoot",
                 "ConsensusData", "NextConsensus"}
TransactionFields == {"Hash", "Type", "Attributes", "Inputs", "Outputs", "References"}
AttributeFields == {"Usage", "Data"}
InputFields == {"PrevHash", "PrevIndex"}
OutputFields == {"AssetId", "Value", "ScriptHash"}
AssetFields == {"AssetId", "AssetType", "Amount", "Available", "Precision", "Owner", "Admin", "Issuer"}
ContractFields == {"Script", "Payable"}

NeoServices ==
    (SystemServices \ {<<"Runtime", "Platform">>})
    \cup ({"Blockchain"} \X {"GetAccount", "GetValidators", "GetAsset"})
    \cup ({"Header"} \X HeaderFields)
    \cup ({"Transaction"} \X (TransactionFields \cup {"UnspentCoins", "Witnesses", "Script"}))
    \cup {<<"Witness", "VerificationScript">>} \cup ({"Attribute"} \X AttributeFields)
    \cup ({"Input"} \X InputFields) \cup ({"Output"} \X OutputFields)
    \cup ({"Account"} \X {"ScriptHash", "Votes", "GetBalance", "IsStandard"})
    \cup ({"Asset"} \X (AssetFields \cup {"Create", "Renew"}))
    \cup ({"Contract"} \X ContractFields)
    \cup ({"Enumerator", "Iterator"} \X {"Create", "Next", "Value", "Concat"})
    \cup ({"Iterator"} \X {"Key", "Keys", "Values"})

\* "AntShares.Transaction.GetOutpus" is what the outputs are called there.
OldServices ==
    {<<"Runtime", "CheckWitness">>}
    \cup ({"Blockchain"} \X {"GetHeight", "GetHeader", "GetBlock", "GetTransaction", "GetAccount",
                             "GetValidators", "GetAsset", "GetContract"})
    \cup ({"Header"} \X (HeaderFields \ {"Index"}))
    \cup ({"Block"} \X {"TransactionCount", "Transactions", "GetTransaction"})
    \cup ({"Transaction"} \X TransactionFields)
    \cup ({"Attribute"} \X AttributeFields) \cup ({"Input"} \X InputFields)
    \cup ({"Output"} \X OutputFields)
    \cup ({"Account"} \X {"ScriptHash", "Votes", "GetBalance"})
    \cup ({"Asset"} \X (AssetFields \cup {"Create", "Renew"}))
    \cup {<<"Contract", "Script">>}

Registered == [System |-> SystemServices, Neo |-> NeoServices, AntShares |-> OldServices]

\* In thousandths of gas.  Neo.Asset.Renew has no price of its own and is not
\* asked for its years: AntShares.Asset.Renew is tested for twice.
Price(space, service, args) ==
    LET method == service[2]
    IN CASE service = <<"Asset", "Create">>      -> 5000000
         [] service = <<"Asset", "Renew">>       ->
                IF space = "AntShares" THEN args[2].int * 5000000 ELSE 1
         [] service = <<"Block", "GetTransaction">> -> 1
         [] method \in {"CheckWitness", "GetBlock", "References", "UnspentCoins", "Witnesses"} -> 200
         [] method = "GetTransaction"            -> IF space = "System" THEN 200 ELSE 100
         [] method = "GetValidators"             -> IF space = "AntShares" THEN 200 ELSE 100
         [] method \in {"GetHeader", "GetTransactionHeight", "GetContract", "GetAccount", "GetAsset",
                        "IsStandard", "VerificationScript"} -> 100
         [] OTHER -> 1

-----------------------------------------------------------------------------
(* The chain.                                                              *)

\* The header of a height in the index; of those ahead of the height only the
\* newest is sure to have a row.
GetHeaderBy(v, h) ==
    IF h \in 0..(v.headers - 1) /\ (h <= v.height \/ h = v.headers - 1)
    THEN Object("Header", Blocks[h].header) ELSE Nothing

\* A block with the rows of all its transactions.
GetBlockAt(v, h) ==
    IF h \in Height /\ {Blocks[h].txs[i] : i \in DOMAIN Blocks[h].txs} \subseteq v.rows
    THEN Object("Block", Blocks[h].header @@ [txs |-> Blocks[h].txs]) ELSE Nothing

GetBlockByHeight(v, h) ==
    IF v.height < h \/ v.headers <= h THEN Nothing ELSE GetBlockAt(v, h)

HeightOf(hash) == Min({h \in Height : Blocks[h].header.Hash = hash})

\* A height is read without a sign: -1 asks for 255.
HeightNamed(heap, x) == Unsigned(GetByteArray(heap, x))


\* By a hash it raises: a UInt256 has no length.
Blockchain_GetHeader(v, s, x) ==
    CASE ~Readable(s.heap, x) \/ Names(x, 32) -> Fault
      [] Names(x, 20) \/ Names(x, 33)         -> PushObject(s, Nothing)
      [] OTHER -> PushObject(s, IF Size(s.heap, x) > 5 THEN Nothing
                                ELSE GetHeaderBy(v, HeightNamed(s.heap, x)))

Blockchain_GetBlock(v, s, x) ==
    CASE ~Readable(s.heap, x)         -> Fault
      [] Names(x, 32)                 ->
            PushObject(s, IF \E h \in Height : Blocks[h].header.Hash = x
                          THEN GetBlockAt(v, HeightOf(x)) ELSE Nothing)
      [] Names(x, 20) \/ Names(x, 33) -> PushObject(s, Nothing)
      [] OTHER -> PushObject(s, IF Size(s.heap, x) > 5 THEN Nothing
                                ELSE GetBlockByHeight(v, HeightNamed(s.heap, x)))

\* The row of a transaction is there as soon as Persist has come to it.
TransactionRow(v, x) == {id \in v.rows : Transactions[id].fields.Hash = x}

TransactionObject(id) == Object("Transaction", Transactions[id].fields @@ [id |-> id])

Blockchain_GetTransaction(v, s, x) ==
    IF ~Names(x, 32) THEN Fault
    ELSE PushObject(s, IF TransactionRow(v, x) = {} THEN Nothing
                       ELSE TransactionObject(CHOOSE id \in TransactionRow(v, x) : TRUE))

Blockchain_GetTransactionHeight(v, s, x) ==
    IF ~Names(x, 32) THEN Fault
    ELSE Answer(s, Int32(IF TransactionRow(v, x) = {} THEN -1
                         ELSE Transactions[CHOOSE id \in TransactionRow(v, x) : TRUE].height))

Blockchain_GetContract(s, x) ==
    CASE ~Names(x, 20)                                    -> Fault
      [] Names(x, 20) /\ Deployed[x.what] = Null          -> Answer(s, Bytes(<<>>))
      [] Names(x, 20) /\ Deployed[x.what] # Null          ->
            PushObject(s, Object("Contract", Deployed[x.what]))

\* An account that has no row gets one.
Blockchain_GetAccount(s, x) ==
    IF ~Names(x, 20) THEN Fault
    ELSE PushObject([s EXCEPT !.accounts = @ \cup {x.what}], [kind |-> "Account", of |-> x.what])

\* Mutant: the time follows the newest header.
TimeOfTheLastHeader(v, s) ==
    IF v.persisting THEN Answer(s, Blocks[v.height + 1].header.Timestamp)
    ELSE Answer(s, Int32(Blocks[v.headers - 1].header.Timestamp.int + SecondsPerBlock))

\* Without the header of the height False is asked for its time.
Runtime_GetCurrentTime(v, s) ==
    CASE v.persisting -> Answer(s, Blocks[v.height + 1].header.Timestamp)
      [] ~v.persisting /\ v.headers <= v.height -> Fault
      [] ~v.persisting /\ v.headers > v.height ->
            Answer(s, Int32(Blocks[v.height].header.Timestamp.int + SecondsPerBlock))

CheckWitnessHash(v, account) == v.container # Null /\ account \in Witnesses

\* A hash, or a public key that decodes.
Runtime_CheckWitness(v, s, x) ==
    CASE Names(x, 20) -> PushBoolean(s, CheckWitnessHash(v, x.what))
      [] Names(x, 33) /\ x.what \in DOMAIN AccountOf ->
            PushBoolean(s, CheckWitnessHash(v, AccountOf[x.what]))
      [] OTHER -> Fault

Serialized(s, data) ==
    IF data = Raises \/ Len(data) > MaxItemSize THEN Fault ELSE Answer(s, Bytes(data))

Runtime_Serialize(s, x) == Serialized(s, Serialize(s.heap, x, 10))

Deserialized(s, read) ==
    IF read.r.bad THEN Fault ELSE Answer([s EXCEPT !.heap = read.heap], read.item)

Runtime_Deserialize(s, x) ==
    IF ~IsNumber(s.heap, x) THEN Fault
    ELSE Deserialized(s, DeserializeStackItem(ReaderOf(GetByteArray(s.heap, x)), s.heap))

-----------------------------------------------------------------------------
(* Reading what one has.                                                   *)

\* The interfaces a class of services accepts: a Block is a BlockBase too.
Accepts(class) == IF class = "Header" THEN {"Header", "Block"} ELSE {class}

\* Fields that are lists of interfaces.
Elements == [Attributes |-> "Attribute", Inputs |-> "Input", Outputs |-> "Output",
             References |-> "Output", Witnesses |-> "Witness", Votes |-> "PublicKey"]

\* Accounts and assets are read from their rows.
Fields(s, x) ==
    LET object == s.heap[x.ref]
    IN CASE object.kind = "Account" ->
                [ScriptHash |-> Named(20, object.of),
                 Votes |-> IF Balance[object.of] = Null THEN <<>> ELSE Balance[object.of].votes]
         [] object.kind = "Asset" -> s.assets[object.of]
         [] OTHER -> object.fields

\* InvocationTransaction_GetScript: other transactions have no such field.
Getter(s, class, field, x) ==
    CASE Kind(s.heap, x) \notin Accepts(class)  -> Fault
      [] OTHER ->
            IF field \notin DOMAIN Fields(s, x) THEN Fault
            ELSE IF field \in DOMAIN Elements THEN PushAll(s, Elements[field], Fields(s, x)[field])
            ELSE IF field = "Payable" THEN PushBoolean(s, Fields(s, x)[field])
            ELSE Answer(s, Fields(s, x)[field])

IsBlock(s, x) == Kind(s.heap, x) = "Block"

Block_GetTransactionCount(s, x) ==
    IF IsBlock(s, x) THEN Answer(s, Int32(Len(Fields(s, x).txs))) ELSE Fault

Block_GetTransactions(s, x) ==
    IF ~IsBlock(s, x) THEN Fault
    ELSE PushAll(s, "Transaction", [i \in DOMAIN Fields(s, x).txs |->
                                      TransactionObject(Fields(s, x).txs[i]).fields])

Block_GetTransaction(s, x, y) ==
    CASE ~IsBlock(s, x) \/ ~IsNumber(s.heap, y) -> Fault
      [] OTHER -> IF GetBigInteger(s.heap, y) + 1 \notin DOMAIN Fields(s, x).txs THEN Fault
                  ELSE PushObject(s, TransactionObject(Fields(s, x).txs[GetBigInteger(s.heap, y) + 1]))

\* The coins of a block are written with its batch, after its scripts have run.
Transaction_GetUnspentCoins(v, s, x) ==
    CASE Kind(s.heap, x) # "Transaction" -> Fault
      [] OTHER -> LET tx == Transactions[Fields(s, x).id]
                  IN PushAll(s, "Output", IF tx.height <= v.height THEN tx.unspent ELSE <<>>)

Account_GetBalance(s, x, asset) ==
    CASE Kind(s.heap, x) # "Account" \/ ~Names(asset, 32) -> Fault
      [] OTHER -> LET row == Balance[s.heap[x.ref].of]
                  IN Answer(s, Int32(IF row = Null \/ asset.what \notin DOMAIN row.of THEN 0
                                     ELSE row.of[asset.what]))

-----------------------------------------------------------------------------
(* Assets.                                                                 *)

Share == 144
Invoice == 152
Creatable == {8, Share, Invoice, 96}
NegativeSatoshi == -1
Years(n) == n * 2000000

TermsHold(v, terms) ==
    /\ terms.type \in Creatable
    /\ terms.nameSize <= 1024
    /\ terms.amount # 0 /\ terms.amount >= NegativeSatoshi
    /\ terms.type = Invoice => terms.amount = NegativeSatoshi
    /\ terms.precision <= 8
    /\ terms.type = Share => terms.precision = 0
    /\ terms.amount # NegativeSatoshi => terms.amount % 10^(8 - terms.precision) = 0
    /\ terms.owner \in DOMAIN AccountOf
    /\ CheckWitnessHash(v, AccountOf[terms.owner])

AssetOf(v, terms) ==
    [AssetId |-> Named(32, v.container), AssetType |-> Int32(terms.type),
     Amount |-> Int32(terms.amount), Available |-> Int32(0), Precision |-> Int32(terms.precision),
     Owner |-> Named(33, terms.owner), Admin |-> Named(20, terms.admin),
     Issuer |-> Named(20, terms.issuer), expiration |-> v.height + 1 + Years(1)]

\* The asset is named by the transaction: the second one a transaction makes is
\* the first.
Asset_Create(v, s, terms) ==
    IF ~TermsHold(v, terms) THEN Fault
    ELSE PushObject(IF v.container \in DOMAIN s.assets THEN s
                    ELSE [s EXCEPT !.assets = @ @@ (v.container :> AssetOf(v, terms))],
                    [kind |-> "Asset", of |-> v.container])

Asset_Renew(v, s, x, years) ==
    CASE Kind(s.heap, x) # "Asset" -> Fault
      [] OTHER ->
            LET asset == s.heap[x.ref].of
                until == Max({s.assets[asset].expiration, v.height + 1})
                         + Years(GetBigInteger(s.heap, years))
            IN  Answer([s EXCEPT !.assets[asset].expiration = until], Int32(until))

-----------------------------------------------------------------------------
(* Invoke.                                                                 *)

Enumerator_Next(s, x) ==
    LET n == IF Kind(s.heap, x) \in AllEnumerators THEN NextOf(s.heap, x.ref) ELSE [more |-> "raises"]
    IN  IF n.more = "raises" THEN Fault ELSE PushBoolean([s EXCEPT !.heap = n.heap], n.more = "yes")

Enumerator_Value(s, x) ==
    LET value == IF Kind(s.heap, x) \in AllEnumerators THEN ValueOf(s.heap, x.ref, "value") ELSE Raised
    IN  IF value = Raised THEN Fault ELSE Answer(s, value)

Iterator_Key(s, x) ==
    LET key == IF Kind(s.heap, x) \in Iterators THEN ValueOf(s.heap, x.ref, "key") ELSE Raised
    IN  IF key = Raised THEN Fault ELSE Answer(s, key)

InvokeEnumerator(s, class, method, a) ==
    CASE method = "Next"   -> Enumerator_Next(s, a[1])
      [] method = "Value"  -> Enumerator_Value(s, a[1])
      [] method = "Key"    -> Iterator_Key(s, a[1])
      [] method = "Keys"   -> Made(s, Iterator_Keys(s.heap, a[1]))
      [] method = "Values" -> Made(s, Iterator_Values(s.heap, a[1]))
      [] method = "Create" -> Made(s, IF class = "Iterator" THEN Iterator_Create(s.heap, a[1])
                                      ELSE Enumerator_Create(s.heap, a[1]))
      [] method = "Concat" -> Made(s, IF class = "Iterator" THEN Iterator_Concat(s.heap, a[1], a[2])
                                      ELSE Enumerator_Concat(s.heap, a[1], a[2]))

InvokeBlockchain(v, s, method, a) ==
    CASE method = "GetHeight"            -> Answer(s, Int32(v.height))
      [] method = "GetHeader"            -> Blockchain_GetHeader(v, s, a[1])
      [] method = "GetBlock"             -> Blockchain_GetBlock(v, s, a[1])
      [] method = "GetTransaction"       -> Blockchain_GetTransaction(v, s, a[1])
      [] method = "GetTransactionHeight" -> Blockchain_GetTransactionHeight(v, s, a[1])
      [] method = "GetContract"          -> Blockchain_GetContract(s, a[1])
      [] method = "GetAccount"           -> Blockchain_GetAccount(s, a[1])
      [] OTHER                           -> Fault  \* GetValidators and GetAsset raise

InvokeRuntime(v, s, method, a) ==
    CASE method = "Platform"     -> Answer(s, Bytes(<<78, 69, 79>>))
      [] method = "GetTrigger"   -> Answer(s, Int32(16))
      [] method = "CheckWitness" -> Runtime_CheckWitness(v, s, a[1])
      [] method = "GetTime"      -> Runtime_GetCurrentTime(v, s)
      [] method = "Serialize"    -> Runtime_Serialize(s, a[1])
      [] method = "Deserialize"  -> Runtime_Deserialize(s, a[1])

\* A name that is not registered is refused; IsStandard always is.
Invoke(v, s, service, a) ==
    LET class == service[1]  method == service[2]
    IN CASE service \notin Registered[plan.space] \/ method = "IsStandard" -> Fault
         [] class = "Runtime"                      -> InvokeRuntime(v, s, method, a)
         [] class = "Blockchain"                   -> InvokeBlockchain(v, s, method, a)
         [] class \in {"Enumerator", "Iterator"}   -> InvokeEnumerator(s, class, method, a)
         [] service = <<"Block", "TransactionCount">> -> Block_GetTransactionCount(s, a[1])
         [] service = <<"Block", "Transactions">>  -> Block_GetTransactions(s, a[1])
         [] service = <<"Block", "GetTransaction">> -> Block_GetTransaction(s, a[1], a[2])
         [] method = "UnspentCoins"                -> Transaction_GetUnspentCoins(v, s, a[1])
         [] method = "GetBalance"                  -> Account_GetBalance(s, a[1], a[2])
         [] service = <<"Asset", "Create">>        -> Asset_Create(v, s, a[1])
         [] service = <<"Asset", "Renew">>         -> Asset_Renew(v, s, a[1], a[2])
         [] OTHER                                  -> Getter(s, class, method, a[1])

Items == held \cup plan.literals
Keys == plan.keys \cup plan.literals

Arguments(service) ==
    CASE service[2] \in {"Platform", "GetTrigger", "GetTime", "GetHeight", "GetValidators", "IsStandard"} ->
            {<<>>}
      [] service = <<"Asset", "Create">> -> {<<terms>> : terms \in plan.terms}
      [] service = <<"Asset", "Renew">> -> {<<x, Int32(n)>> : x \in held, n \in 1..2}
      [] service[2] \in {"Concat", "GetBalance"} \/ service = <<"Block", "GetTransaction">> ->
            held \X Items
      [] OTHER -> {<<x>> : x \in Items}

-----------------------------------------------------------------------------
(* Collections: the instructions.                                          *)

\* NEWARRAY and NEWSTRUCT of a number.
NewArray(s, kind, n) ==
    LET heap == s.heap \o [i \in 1..n |-> BooleanOf(FALSE)]
    IN  IF n > MaxArraySize THEN Fault
        ELSE PushObject([s EXCEPT !.heap = heap],
                        ArrayOf(kind, [i \in 1..n |-> Ref(Len(s.heap) + i)]))

\* What is put into a collection: structs are cloned.
Stored(s, x) ==
    IF Kind(s.heap, x) # "Struct" THEN Answer(s, x)
    ELSE LET c == Clone(s.heap, x, 10) IN Answer([s EXCEPT !.heap = c.heap], c.item)

AppendTo(s, x, y) ==
    LET c == Stored(s, y)
    IN  IF Kind(s.heap, x) \notin Arrays THEN Fault
        ELSE IF Len(s.heap[x.ref].items) = MaxArraySize THEN Fault
        ELSE Answer([c.state EXCEPT !.heap[x.ref].items = Append(@, c.item)], x)

Index(s, x, key) ==
    IF IsNumber(s.heap, key) /\ GetBigInteger(s.heap, key) + 1 \in DOMAIN s.heap[x.ref].items
    THEN GetBigInteger(s.heap, key) + 1 ELSE 0

SetItem(s, x, key, y) ==
    LET c == Stored(s, y)
        full == /\ Kind(s.heap, x) = "Map" /\ Len(s.heap[x.ref].keys) = MaxArraySize
                /\ Found(s.heap, s.heap[x.ref].keys, key) = {}
    IN CASE Kind(s.heap, key) \in Collections -> Fault
         [] Kind(s.heap, key) \notin Collections /\ Kind(s.heap, x) \in Arrays ->
                IF Index(s, x, key) = 0 THEN Fault
                ELSE Answer([c.state EXCEPT !.heap[x.ref].items[Index(s, x, key)] = c.item], x)
         [] Kind(s.heap, key) \notin Collections /\ Kind(s.heap, x) = "Map" ->
                IF full THEN Fault
                ELSE Answer([c.state EXCEPT !.heap[x.ref] = Put(c.state.heap, @, key, c.item)], x)
         [] OTHER -> Fault

\* What is taken out is shared, a struct too.
PickItem(s, x, key) ==
    CASE Kind(s.heap, key) \in Collections -> Fault
      [] Kind(s.heap, key) \notin Collections /\ Kind(s.heap, x) \in Arrays ->
            IF Index(s, x, key) = 0 THEN Fault ELSE Answer(s, s.heap[x.ref].items[Index(s, x, key)])
      [] Kind(s.heap, key) \notin Collections /\ Kind(s.heap, x) = "Map" ->
            LET at == Found(s.heap, s.heap[x.ref].keys, key)
            IN  IF at = {} THEN Fault ELSE Answer(s, s.heap[x.ref].values[Min(at)])
      [] OTHER -> Fault

Equal(s, x, y) ==
    LET answer == Equals(s.heap, x, y, 10)
    IN  IF answer = "raises" THEN Fault ELSE PushBoolean(s, answer = "yes")

-----------------------------------------------------------------------------
(* The execution.                                                          *)

EmptyState == [heap |-> <<>>, accounts |-> {}, assets |-> <<>>]

Init ==
    /\ story \in DOMAIN Plans
    /\ gas = plan.gas /\ calls = plan.calls
    /\ view \in plan.views
    /\ state = [EmptyState EXCEPT !.heap = plan.heap]
    /\ held = plan.has
    /\ vmState = "NONE"

\* The gas is paid before the call; what a failed execution had is dropped.  The
\* number of calls is bounded.
Do(price, outcome) ==
    /\ vmState = "NONE" /\ calls > 0
    /\ IF price > gas \/ outcome = Fault
       THEN /\ vmState' = "FAULT" /\ held' = {} /\ state' = EmptyState
            /\ gas' = 0 /\ calls' = 0
       ELSE /\ state' = outcome.state /\ held' = held \cup {outcome.item}
            /\ gas' = gas - price /\ calls' = calls - 1
            /\ UNCHANGED vmState
    /\ UNCHANGED <<story, view>>

Call(service) ==
    \E args \in Arguments(service) :
        Do(Price(plan.space, service, args), Invoke(view, state, service, args))

Uses(instruction) == instruction \in plan.instructions

NEWARRAY == Uses("NEWARRAY") /\ \E n \in 0..1 : Do(1, NewArray(state, "Array", n))
NEWSTRUCT == Uses("NEWSTRUCT") /\ \E n \in 0..1 : Do(1, NewArray(state, "Struct", n))
NEWMAP == Uses("NEWMAP") /\ Do(1, PushObject(state, MapOf(<<>>, <<>>)))
APPEND == Uses("APPEND") /\ \E x \in held, y \in Items : Do(1, AppendTo(state, x, y))
SETITEM == Uses("SETITEM") /\ \E x \in held, k \in Keys, y \in Items : Do(1, SetItem(state, x, k, y))
PICKITEM == Uses("PICKITEM") /\ \E x \in held, k \in Keys : Do(1, PickItem(state, x, k))
EQUAL == Uses("EQUAL") /\ \E x \in held, y \in Items : Do(1, Equal(state, x, y))

SysCall == \E service \in plan.services : Call(service)

Next == SysCall \/ NEWARRAY \/ NEWSTRUCT \/ NEWMAP \/ APPEND \/ SETITEM \/ PICKITEM \/ EQUAL

Spec == Init /\ [][Next]_vars

-----------------------------------------------------------------------------
(* Properties.                                                             *)

\* What an item is, whatever its place in the heap.
RECURSIVE Tree(_, _)
Tree(heap, x) ==
    LET object == heap[x.ref]
        trees(items) == [i \in DOMAIN items |-> Tree(heap, items[i])]
    IN CASE ~IsRef(x)                  -> x
         [] Kind(heap, x) \in Arrays   -> <<object.kind, trees(object.items)>>
         [] Kind(heap, x) = "Map"      -> <<"Map", trees(object.keys), trees(object.values)>>
         [] Kind(heap, x) = "Boolean"  -> <<"Boolean", object.value>>

SameAs(heap, x, data, read) ==
    /\ ~read.r.bad /\ read.r.p = Len(data) + 1
    /\ Tree(read.heap, read.item) = Tree(heap, x)

SameTree(heap, x, data) ==
    data # Raises => SameAs(heap, x, data, DeserializeStackItem(ReaderOf(data), heap))

\* Whatever a contract builds out of arrays, structs, maps, numbers and
\* strings, Runtime.Deserialize makes of what Runtime.Serialize wrote the same
\* thing again, with the keys of maps that Python's dictionaries tell apart, and
\* nothing is left over.
SerializedSame ==
    \A x \in held : SameTree(state.heap, x, Serialize(state.heap, x, 10))

\* Whatever an enumerator is made of, and whoever else reads the same sources,
\* Enumerator.Next and Value hand out what is left of them one after the other,
\* the first source before the second, each entry once; and "no more" is said
\* when nothing is left, not before.
ListedInOrder ==
    \A x \in held : Kind(state.heap, x) \in AllEnumerators => HandsTheHead(state.heap, x.ref)

\* What is on the chain at the height: what another node with the same blocks
\* must agree on.
OnChain(v, x) ==
    /\ \A h \in Height : Blocks[h].header.Hash = x => h <= v.height
    /\ \A id \in DOMAIN Transactions : Transactions[id].fields.Hash = x => Transactions[id].height <= v.height
    /\ IsNumber(state.heap, x) => HeightNamed(state.heap, x) <= v.height

AsksAhead(service, args) ==
    service[1] = "Blockchain" /\ \E i \in DOMAIN args : ~OnChain(view, args[i])

\* Two nodes that run the same script at the same height get the same answer
\* from every service, however far their headers are ahead and whatever rows an
\* interrupted Persist has left, unless the script asks for what is not on the
\* chain yet.
NodesAgree ==
    \A service \in plan.services : \A args \in Arguments(service) :
        AsksAhead(service, args) \/
        \A other \in plan.views :
            (other.height = view.height /\ other.persisting = view.persisting)
            => Invoke(other, state, service, args) = Invoke(view, state, service, args)
=============================================================================
