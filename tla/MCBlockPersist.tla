--------------------------- MODULE MCBlockPersist ---------------------------
(* A chain of four blocks for JsonRpc over BlockPersist: outputs that change hands, are  *)
(* spent in the block that made them, are claimed, and pay for invocations. *)
EXTENDS JsonRpc

CONSTANTS alice, bob, neo, gas

Output(asset, owner, value) == [asset |-> asset, owner |-> owner, value |-> value]

\* A transaction with no contract and nothing to claim.
Plain(id, inputs, outputs) ==
    [id |-> id, kind |-> "contract", halts |-> FALSE, fee |-> 0,
     inputs |-> inputs, claims |-> {}, outputs |-> outputs]

Claim(id, claims, outputs) ==
    [Plain(id, {}, outputs) EXCEPT !.kind = "claim", !.claims = claims]

Invocation(id, inputs, outputs, halts) ==
    [Plain(id, inputs, outputs) EXCEPT !.kind = "invocation", !.halts = halts, !.fee = 1]

Genesis == <<Plain("g", {}, <<Output(neo, alice, 2), Output(gas, alice, 1)>>)>>

\* alice gives one share to bob: the coin <<"g", 1>> becomes claimable.
Block1 == <<Plain("a", {<<"g", 1>>}, <<Output(neo, bob, 1), Output(neo, alice, 1)>>)>>

\* The coin is claimed, the gas pays an invocation, the genesis row goes; the
\* invocation's change is spent again in the same block.
Block2 == <<Claim("b", {<<"g", 1>>}, <<Output(gas, alice, 1)>>),
            Invocation("c", {<<"g", 2>>}, <<Output(gas, bob, 1)>>, TRUE),
            Plain("d", {<<"c", 1>>, <<"a", 2>>}, <<Output(gas, alice, 1), Output(neo, bob, 1)>>)>>

\* One invocation faults; bob returns his shares, alice claims the coin spent
\* in block 2.
Block3 == <<Invocation("e", {<<"b", 1>>}, <<Output(gas, bob, 1)>>, FALSE),
            Plain("f", {<<"a", 1>>, <<"d", 2>>}, <<Output(neo, alice, 2)>>),
            Claim("h", {<<"a", 2>>}, <<Output(gas, alice, 1)>>)>>

FourBlocks == [h \in 0..3 |->
    CASE h = 0 -> Genesis [] h = 1 -> Block1 [] h = 2 -> Block2 [] h = 3 -> Block3]
=============================================================================
