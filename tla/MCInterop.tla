----------------------------- MODULE MCInterop ------------------------------
(* A chain of three blocks and the header of one more, and four scripts: one *)
(* builds collections, one enumerates them, one looks at the chain, one makes *)
(* assets.                                                                   *)
EXTENDS Interop

CONSTANTS alice, bob, aliceKey, badKey, neo, txA, txB, txC, txD

Id(what) == Named(32, what)

Header(h) ==
    [Index |-> Int32(h), Hash |-> Id(<<"block", h>>), PrevHash |-> Id(<<"block", h - 1>>),
     Timestamp |-> Int32(100 + 20 * h), Version |-> Int32(0), MerkleRoot |-> Id(<<"root", h>>),
     ConsensusData |-> Int32(7), NextConsensus |-> Named(20, bob)]

MCBlocks == [h \in 0..3 |-> [header |-> Header(h),
                             txs |-> CASE h = 1 -> <<txA, txB>> [] h = 2 -> <<txC, txD>> [] OTHER -> <<>>]]

Output(owner) == [AssetId |-> Id(neo), Value |-> Int32(5), ScriptHash |-> Named(20, owner)]

Plain(id) ==
    [Hash |-> Id(id), Type |-> Int32(128), Attributes |-> <<>>, Inputs |-> <<>>,
     Outputs |-> <<>>, References |-> <<>>, Witnesses |-> <<>>]

MCTransactions ==
    txA :> [height |-> 1, unspent |-> <<Output(bob)>>,
            fields |-> [Plain(txA) EXCEPT !.Outputs = <<Output(alice), Output(bob)>>,
                           !.Witnesses = <<[VerificationScript |-> Bytes(<<81>>)]>>]]
    @@ txB :> [height |-> 1, unspent |-> <<>>,
               fields |-> [Plain(txB) EXCEPT !.Inputs = <<[PrevHash |-> Id(txA), PrevIndex |-> Int32(0)]>>,
                              !.References = <<Output(alice)>>,
                              !.Attributes = <<[Usage |-> Int32(32), Data |-> Named(20, alice)]>>]]
    @@ txC :> [height |-> 2, unspent |-> <<Output(bob)>>,
               fields |-> Plain(txC) @@ [Script |-> Bytes(<<81>>)]]
    @@ txD :> [height |-> 2, unspent |-> <<>>,
               fields |-> [Plain(txD) EXCEPT !.Outputs = <<Output(bob), Output(bob), Output(bob), Output(bob)>>]]

MCDeployed == bob :> [Script |-> Bytes(<<82>>), Payable |-> TRUE] @@ alice :> Null
MCBalance == alice :> [of |-> (neo :> 5), votes |-> <<[point |-> Named(33, aliceKey)]>>] @@ bob :> Null
MCAccountOf == aliceKey :> alice

\* Block 1 is the height, block 2 runs the script or will: a node may have its
\* header and one more, and rows of it.
View(headers, rows, persisting) ==
    [height |-> 1, headers |-> headers, rows |-> {txA, txB} \cup rows, persisting |-> persisting,
     container |-> txC]

TestViews == {View(h, rows, FALSE) : h \in {2, 4}, rows \in {{}, {txC, txD}}}
BlockViews == {View(3, {txC}, TRUE), View(4, {txC, txD}, TRUE)}

Idle == [space |-> "Neo", services |-> {}, instructions |-> {}, literals |-> {}, keys |-> {},
         terms |-> {}, heap |-> <<>>, has |-> {}, views |-> {View(3, {txC}, TRUE)},
         gas |-> 10, calls |-> 0]

\* An array, a map, and a struct with a Boolean in it.
ThreeCollections ==
    <<ArrayOf("Array", <<>>), MapOf(<<>>, <<>>), ArrayOf("Struct", <<Ref(4)>>), BooleanOf(TRUE)>>

\* <<0, 31>> and <<1, 0>> are one key to a dictionary.
BuildItems ==
    [Idle EXCEPT !.instructions = {"APPEND", "SETITEM"},
        !.literals = {Int32(-256), Bytes(<<0, 31>>), Bytes(<<1, 0>>)},
        !.heap = ThreeCollections, !.has = {Ref(i) : i \in 1..4}, !.keys = {Ref(4)}, !.calls = 3]

MakeItems ==
    [Idle EXCEPT !.services = {<<"Runtime", "Serialize">>, <<"Runtime", "Deserialize">>},
        !.instructions = {"NEWARRAY", "NEWSTRUCT", "NEWMAP", "APPEND", "PICKITEM", "EQUAL"},
        !.literals = {Int32(0), Bytes(<<>>)}, !.gas = 4, !.calls = 4]

\* An array of two, a map of one, and an enumerator of each.
Lists ==
    <<ArrayOf("Array", <<Int32(5), Bytes(<<6>>)>>), MapOf(<<Bytes(<<1>>)>>, <<Int32(7)>>),
      [kind |-> "Generator", over |-> 1, pos |-> 0, size |-> 2, done |-> FALSE],
      [kind |-> "Enumerator", generator |-> 3, key |-> None, value |-> None],
      [kind |-> "Generator", over |-> 2, pos |-> 0, size |-> 1, done |-> FALSE],
      [kind |-> "Enumerator", generator |-> 5, key |-> None, value |-> None]>>

\* One way of concatenating at a time.
ListItems(class, times) ==
    [Idle EXCEPT !.services = {<<"Enumerator", "Next">>, <<class, "Concat">>},
        !.heap = Lists, !.has = {Ref(4), Ref(6)}, !.calls = times]

ListChanging ==
    [Idle EXCEPT !.services = ({"Enumerator", "Iterator"} \X {"Create", "Next", "Value"})
                              \cup ({"Iterator"} \X {"Key", "Keys", "Values"}),
        !.instructions = {"APPEND", "SETITEM"}, !.literals = {Bytes(<<2>>)},
        !.heap = Lists, !.has = {Ref(1), Ref(2), Ref(4), Ref(6)}, !.calls = 3]

ReadChain ==
    [Idle EXCEPT !.services = ({"Blockchain"} \X {"GetHeight", "GetHeader", "GetBlock", "GetTransaction",
                                                  "GetTransactionHeight", "GetContract", "GetAccount"})
                              \cup ({"Runtime"} \X {"GetTime", "CheckWitness", "Platform"})
                              \cup ({"Header"} \X HeaderFields),
        !.literals = {Int32(-1), Int32(1), Bytes(<<2>>), Id(txA), Id(txC), Id(<<"block", 1>>),
                      Named(20, alice), Named(33, aliceKey), Named(33, badKey)},
        !.gas = 203, !.calls = 3]

\* What the script was given before: a block, a transaction, an account, a contract.
Given ==
    <<GetBlockAt(View(3, {txC}, TRUE), 1), TransactionObject(txB),
      [kind |-> "Account", of |-> alice], Object("Contract", MCDeployed[bob])>>

ReadObjects ==
    [Idle EXCEPT !.services = {s \in NeoServices : s[1] \in
            {"Block", "Transaction", "Witness", "Attribute", "Input", "Output", "Account", "Contract"}},
        !.instructions = {"PICKITEM"}, !.literals = {Int32(0), Id(neo)},
        !.heap = Given, !.has = {Ref(i) : i \in 1..4}, !.gas = 402, !.calls = 3]

Terms(type, amount, precision, owner) ==
    [type |-> type, nameSize |-> 4, amount |-> amount, precision |-> precision, owner |-> owner,
     admin |-> bob, issuer |-> bob]

MakeAssets ==
    [Idle EXCEPT !.services = {"Asset"} \X (AssetFields \cup {"Create", "Renew"}),
        !.space = "AntShares",
        !.terms = {Terms(96, 100, 6, aliceKey), Terms(8, -1, 8, aliceKey), Terms(Share, 5, 0, aliceKey),
                   Terms(Invoice, 100, 8, aliceKey), Terms(96, 100, 9, aliceKey), Terms(1, 100, 8, aliceKey),
                   Terms(96, 0, 8, aliceKey), Terms(96, 100, 8, badKey)},
        !.gas = 20000002, !.calls = 4]

MCPlans ==
    [items |-> BuildItems, makes |-> MakeItems, lists |-> ListItems("Enumerator", 4),
     chains |-> ListItems("Iterator", 3), changes |-> ListChanging,
     reads |-> ReadObjects, assets |-> MakeAssets, block |-> [ReadChain EXCEPT !.views = BlockViews],
     test |-> [ReadChain EXCEPT !.views = TestViews, !.space = "System"]]
=============================================================================
