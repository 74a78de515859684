-------------------------- MODULE MCSerialization ---------------------------
(***************************************************************************)
(* Objects for Serialization: of every class one or two that fill all of   *)
(* its fields, and those with the values that its writer or its reader     *)
(* treats in a way of its own.                                             *)
(***************************************************************************)
EXTENDS Serialization

Data(n, k)  == [i \in 1..n |-> 128 + ((7 * k + i) % 100)]
Hash(k)     == Data(32, k)
Account(k)  == Data(20, k)
Encoded(k)    == <<2 + (k % 2)>> \o Data(32, k)
HexText(n)  == [i \in 1..n |-> 48]
Name        == <<78, 101, 111>>
Num(n, w)   == LittleEndian(n, w)
MinusOne(w) == [i \in 1..w |-> 255]

MCAccount(votes, balances) ==
    [StateVersion |-> <<0>>, ScriptHash |-> Account(1), IsFrozen |-> <<1>>,
     Votes |-> votes, Balances |-> balances]

Balance(k) == [asset |-> Hash(k), amount |-> Num(70000, 8)]

MCAsset(owner, admin) ==
    [StateVersion |-> <<0>>, AssetId |-> Hash(1), AssetType |-> <<96>>, Name |-> Name,
     Amount |-> MinusOne(8), Available |-> Num(5, 8), Precision |-> <<8>>, Fee |-> Num(1, 8),
     FeeAddress |-> Account(2), Owner |-> owner, Admin |-> admin, Issuer |-> Account(4),
     Expiration |-> Num(4000, 4), IsFrozen |-> <<0>>]

MCContract ==
    [StateVersion |-> <<0>>, Script |-> Data(4, 1), ParameterList |-> <<7, 16>>,
     ReturnType |-> <<5>>, ContractProperties |-> <<1>>, Name |-> Name, CodeVersion |-> <<49>>,
     Author |-> <<65>>, Email |-> <<>>, Description |-> Data(260, 2)]

MCSpent ==
    [StateVersion |-> <<0>>, TransactionHash |-> Hash(3), TransactionHeight |-> Num(300, 4),
     Items |-> <<[index |-> Num(1, 2), height |-> Num(2, 4)], [index |-> Num(2, 2),
                  height |-> Num(70000, 4)]>>]

Attribute(usage, data) == [Usage |-> <<usage>>, Data |-> data]
Input(k)  == [PrevHash |-> Hash(k), PrevIndex |-> Num(k, 2)]
Output(k) == [AssetId |-> Hash(k), Value |-> Num(9, 8), ScriptHash |-> Account(k)]
Script(k) == [InvocationScript |-> Data(3, k), VerificationScript |-> Data(2, k)]

Base(type, version) ==
    [Type |-> <<type>>, Version |-> <<version>>, Attributes |-> <<>>, inputs |-> <<Input(1)>>,
     outputs |-> <<Output(2), Output(3)>>, scripts |-> <<Script(1)>>]

Miner == [[Base(MinerTransaction, 0) EXCEPT !.inputs = <<>>] EXCEPT !.scripts = <<>>]
         @@ ("Nonce" :> Num(1113941606, 4))
Contract(attributes) == [Base(ContractTransaction, 0) EXCEPT !.Attributes = attributes]
Publish(version, storage) ==
    Base(PublishTransaction, version) @@
    [Script |-> Data(4, 1), ParameterList |-> <<>>, ReturnType |-> <<255>>,
     NeedStorage |-> <<storage>>, Name |-> Name, CodeVersion |-> <<50>>, Author |-> <<>>,
     Email |-> <<>>, Description |-> <<>>]
Invocation(version, gas) ==
    Base(InvocationTransaction, version) @@ [Script |-> Data(5, 2), Gas |-> Num(gas, 8)]
Register ==
    Base(RegisterTransaction, 0) @@
    [AssetType |-> <<96>>, Name |-> Name, Amount |-> MinusOne(8), Precision |-> <<3>>,
     Owner |-> Encoded(1), Admin |-> Account(5)]
Descriptor(type, field) ==
    [Type |-> <<type>>, Key |-> IF type = 64 THEN Account(1) ELSE Encoded(2), Field |-> field,
     Value |-> <<1>>]
Votes      == <<86, 111, 116, 101, 115>>
Registered == <<82, 101, 103, 105, 115, 116, 101, 114, 101, 100>>

Transactions ==
    {Miner, Contract(<<>>),
     Contract(<<Attribute(161, Hash(4)), Attribute(32, Account(6)), Attribute(144, Name)>>),
     Contract(<<Attribute(129, Name), Attribute(240, <<98, 101, 101, 102>>)>>),
     Contract(<<Attribute(3, <<3>> \o Hash(5))>>),
     Contract(<<Attribute(48, HexText(32))>>),
     Base(IssueTransaction, 1),
     Base(ClaimTransaction, 0) @@ [Claims |-> <<Input(2), Input(3)>>],
     Base(EnrollmentTransaction, 0) @@ [PublicKey |-> Encoded(1)],
     Register, Publish(0, 0), Publish(1, 1), Invocation(0, 0), Invocation(1, 3),
     Base(StateTransaction, 0) @@
        [Descriptors |-> <<Descriptor(64, Votes), Descriptor(72, Registered)>>],
     Base(StateTransaction, 0) @@
        [Descriptors |-> <<Descriptor(64, Registered), Descriptor(72, Registered)>>]}

BlockTransactions == <<Miner, Contract(<<>>), Invocation(1, 3)>>

MCBlock(n) ==
    LET transactions == SubSeq(BlockTransactions, 1, n)
    IN [Version |-> Num(0, 4), PrevHash |-> Hash(7),
        MerkleRoot |-> ComputeRoot([i \in 1..n |-> TransactionHash(transactions[i])]),
        Timestamp |-> Num(1500000, 4), Index |-> Num(70000, 4), ConsensusData |-> Num(77, 8),
        NextConsensus |-> Account(7), InvocationScript |-> Data(6, 1),
        VerificationScript |-> Data(4, 3), Transactions |-> transactions]

WithoutTransactions(b) == [f \in DOMAIN b \ {"Transactions"} |-> b[f]]
WithoutWitness(b) ==
    [f \in DOMAIN b \ {"Transactions", "InvocationScript", "VerificationScript"} |-> b[f]]

Address(ip) ==
    [timestamp |-> Num(1500000, 4), services |-> Num(1, 8), address |-> ip, port |-> <<40, 85>>]

Version(agent) ==
    [version |-> Num(0, 4), services |-> Num(1, 8), timestamp |-> Num(1500000, 4),
     port |-> Num(10333, 2), nonce |-> Num(5, 4), user_agent |-> agent,
     start_height |-> Num(300, 4), relay |-> <<1>>]

MCMessage(payload) ==
    [magic |-> Num(7630401, 4), command |-> <<112, 105, 110, 103>>, payload |-> payload]

Encrypted == [PrivateKey |-> Data(32, 3), passphrase |-> <<99, 97, 116>>]

(* All the points of the curve. *)
MCPoints ==
    {p \in [x : 0..(CurveP - 1), y : 0..(CurveP - 1)] : ~IsZero(p) /\ IsOnCurve(p)}

To(w, r, objects) == {[w |-> w, r |-> r, o |-> o] : o \in objects}
Same(class, objects) == To(class, class, objects)

MCConsignment ==
    Same("AccountState",
         {MCAccount(<<>>, <<>>), MCAccount(<<>>, <<Balance(1), Balance(2)>>),
          MCAccount(<<[key |-> Encoded(1)]>>, <<Balance(1)>>)}) \cup
    Same("AssetState", {MCAsset(Encoded(1), Account(3)), MCAsset(<<0>>, HexText(20))}) \cup
    Same("UnspentCoinState",
         {[StateVersion |-> <<0>>, Items |-> <<[state |-> <<1>>], [state |-> <<3>>]>>]}) \cup
    Same("SpentCoinState", {MCSpent}) \cup
    Same("StorageItem", {[StateVersion |-> <<0>>, Value |-> Data(4, 1)],
                         [StateVersion |-> <<0>>, Value |-> HexText(4)]}) \cup
    Same("ValidatorState",
         {[StateVersion |-> <<0>>, PublicKey |-> Encoded(2), Registered |-> <<1>>,
           Votes |-> Num(3, 8)]}) \cup
    Same("ContractState", {MCContract}) \cup
    Same("Transaction", Transactions) \cup
    Same("TransactionState",
         {[StateVersion |-> <<0>>, BlockIndex |-> Num(3, 4)] @@ Invocation(1, 3)}) \cup
    Same("Header", {WithoutTransactions(MCBlock(1))}) \cup
    Same("Block", {MCBlock(1), MCBlock(2), MCBlock(3)}) \cup
    To("Block", "Import", {MCBlock(2), [MCBlock(2) EXCEPT !.MerkleRoot = Hash(9)]}) \cup
    Same("Row", {MCBlock(3)}) \cup
    To("Row", "RowHeader", {MCBlock(2)}) \cup
    To("Header", "network.Header", {WithoutTransactions(MCBlock(2))}) \cup
    To("network.Header", "Header",
       {WithoutWitness(MCBlock(2)) @@ [InvocationScript |-> <<>>, VerificationScript |-> <<>>]}) \cup
    To("Block", "network.Block", {MCBlock(2)}) \cup
    Same("HeadersPayload",
         {[headers |-> <<>>], [headers |-> <<WithoutWitness(MCBlock(1)),
                                             WithoutWitness(MCBlock(2))>>]}) \cup
    Same("AddrPayload",
         {[addresses |-> <<Address(<<10, 0, 0, 1>>), Address(<<201, 7, 0, 9>>)>>],
          [addresses |-> <<Address(<<10, 1, 2, 0>>)>>]}) \cup
    Same("InventoryPayload",
         {[type |-> <<2>>, hashes |-> <<[hash |-> Hash(1)], [hash |-> Hash(2)]>>],
          [type |-> <<1>>, hashes |-> <<[hash |-> HexText(32)]>>]}) \cup
    Same("PingPayload",
         {[current_height |-> Num(300, 4), timestamp |-> Num(9, 4), nonce |-> Num(101, 4)]}) \cup
    Same("VersionPayload",
         {Version(<<47, 78, 69, 79, 58, 50, 47>>), Version(<<98, 101, 101, 102>>)}) \cup
    Same("GetBlocksPayload", {[hash_start |-> <<[hash |-> Hash(1)]>>, hash_stop |-> Zeros(32)]}) \cup
    Same("Contract", {[PublicKeyHash |-> Account(1), ParameterList |-> <<0>>, Script |-> Data(3, 2)]}) \cup
    Same("WIF", {[PrivateKey |-> Data(32, k)] : k \in 1..2}) \cup
    Same("NEP2", {Encrypted}) \cup
    To("NEP2", "NEP2Mistaken", {Encrypted}) \cup
    Same("Address", {[ScriptHash |-> Account(3)]}) \cup
    Same("Point", {[point |-> p] : p \in MCPoints}) \cup
    Same("LongPoint", {[point |-> Point(3, 10)]}) \cup
    Same("AppCall",
         {[hash |-> Account(1), operation |-> Name, args |-> args] :
            args \in {<<>>, <<Data(3, 1), Data(76, 2), <<>>>>, <<Data(75, 1), Data(256, 2)>>,
                     <<HexText(4)>>}}) \cup
    Same("SysCall", {[api |-> Name, args |-> <<Data(2, 1), Data(255, 2)>>]}) \cup
    Same("Signature", {[key |-> Encoded(1)]}) \cup
    Same("MultiSig",
         {[m |-> 2, keys |-> keys] :
            keys \in {<<<<2, 0>>, <<3, 3>>, <<2, 9>>>>, <<<<2, 9>>, <<2, 0>>>>,
                      <<<<3, 9>>, <<2, 9>>>>}}) \cup
    Same("Message", {MCMessage(<<>>), MCMessage(Data(9, 4)), MCMessage(HexText(4))})

MCStored == {BlockTransactions[i] : i \in 1..3}

(* Bytes are cut only on the routes whose reader writes what it read.      *)
MCCutAllowed ==
    {c \in MCConsignment : c.w = c.r \/ c.r = "Import"}

MCTypoAllowed == {c \in MCConsignment : c.r \in Texts \cup Points}
=============================================================================
