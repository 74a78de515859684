---------------------------- MODULE MCInvocation ----------------------------
(* Programs and plans for Invocation: each plan is a small story of its own, *)
(* with the instructions that its scripts are written in.                    *)
EXTENDS RestApi

CONSTANTS main, wit, lib, dyn, alice, bob, multi

Integer == {-1, 0, 1, 2}
Prices == [call |-> 2, hash |-> 2, sign |-> 3]
Party == {main, wit, lib, dyn, alice, bob}
Notified == <<[kind |-> "transfer", from |-> alice, to |-> bob],
              [kind |-> "refund", from |-> Null, to |-> bob],
              [kind |-> "transfer", from |-> bob, to |-> bob],
              [kind |-> "other", from |-> Null, to |-> Null]>>

I(op) == [op |-> op, n |-> 0, to |-> Unread, rv |-> 0, pc |-> 0]
N(op, n) == [I(op) EXCEPT !.n = n]
To(op, s) == [I(op) EXCEPT !.to = s]
Iso(op, n, s, rv, pc) == [op |-> op, n |-> n, to |-> s, rv |-> rv, pc |-> pc]
Lengths(m, l, d) == (main :> m) @@ (wit :> 2) @@ (lib :> l) @@ (dyn :> d)
ProgramOf(code0, lengths, start) == [code |-> code0, length |-> lengths, start |-> start]
NoProgram == ProgramOf({}, Lengths(0, 0, 0), << >>)

Idle == [signing |-> FALSE, emitOnError |-> FALSE, program |-> NoProgram, pools |-> 0, tests |-> 0,
         invocations |-> 0, blocks |-> 0, raises |-> 0, stops |-> 0]

Once(program) == [Idle EXCEPT !.program = program, !.invocations = 1, !.blocks = 1]

Flow == ProgramOf({N("PUSH", 1), N("JMP", 0), N("JMPIF", 2), N("CALL", 1), I("RET"), I("NOP"), I("THROWIFNOT")},
                Lengths(5, 0, 0), << >>)
Isolation == ProgramOf({N("PUSH", 1), Iso("CALL_I", 3, Unread, 1, 1), Iso("CALL_E", 0, lib, 1, 1),
                      Iso("CALL_ED", 0, Unread, 0, 1),
                      Iso("CALL_ET", 0, dyn, 1, 1), Iso("CALL_EDT", 0, Unread, 1, 1),
                      To("APPCALL", lib), I("TAILCALL"), I("DROP")},
                     Lengths(5, 2, 2), <<N("PUSH", 1), N("PUSH", 0)>>)
Stacks == ProgramOf({N("PUSH", 2), I("DUP"), I("TUCK"), I("NIP"), I("SWAP"), I("OVER"), I("ROT"), I("XDROP"),
                   I("XTUCK"), I("XSWAP"), I("PICK"), I("ROLL"), I("TOALTSTACK"), I("FROMALTSTACK"),
                   I("DUPFROMALTSTACK"), I("DEPTH")}, Lengths(6, 0, 0), <<N("PUSH", 1), N("PUSH", 0)>>)
Numbers == ProgramOf({N("PUSH", 1), I("XDROP"), I("SIZE"), I("SUBSTR"), I("AND"), I("EQUAL"), I("NOT"),
                    I("ADD"), I("BOOLAND"), I("WITHIN"), I("HASH"), I("CHECKSIG"), I("VERIFY"),
                    I("CHECKMULTISIG"), I("NEWMAP")}, Lengths(6, 0, 0),
                   <<N("PUSH", 1), N("PUSH", 1), N("PUSH", 1)>>)
Strings == ProgramOf({N("PUSH", 1), I("CAT"), I("INVERT"), I("INC"), I("ROT"), I("VERIFY")}, Lengths(6, 0, 0),
                   <<N("PUSH", 1), N("PUSH", 1), N("PUSH", 1)>>)
\* Two checks of one signature each, and what is left of the gas.
Signatures == ProgramOf({N("PUSH", 1), I("CHECKMULTISIG"), I("NOT"), I("DROP"), I("RET")}, Lengths(11, 0, 0),
                      [i \in 1 .. 6 |-> N("PUSH", 1)])
Collections == ProgramOf({N("PUSH", 0), I("DUP"), I("PACK"), I("UNPACK"), I("PICKITEM"), I("SETITEM"),
                        I("NEWARRAY"), I("NEWSTRUCT"), I("NEWMAP"), I("APPEND"), I("REVERSE"), I("REMOVE"),
                        I("ARRAYSIZE"), I("HASKEY"), I("KEYS"), I("VALUES"), I("SYSCALL")},
                       Lengths(7, 0, 0), <<N("PUSH", 2), I("NEWARRAY"), I("DUP")>>)
Maps == [Collections EXCEPT !.start = <<I("NEWMAP"), I("DUP"), I("DUP"), N("PUSH", 0)>>, !.length = Lengths(8, 0, 0)]
Pushes == <<N("PUSH", 1), N("PUSH", 1)>>
Transfers == ProgramOf({N("NOTIFY", 1), N("NOTIFY", 2), I("THROW")}, Lengths(4, 0, 0), Pushes)
Others == ProgramOf({N("NOTIFY", 1), N("NOTIFY", 3), N("NOTIFY", 4)}, Lengths(4, 0, 0), Pushes)

EventPlans ==
    {[Once(Transfers) EXCEPT !.emitOnError = TRUE, !.pools = 1, !.tests = 1],
     [Once(Transfers) EXCEPT !.invocations = 2, !.raises = 1, !.blocks = 2],
     [Once(Transfers) EXCEPT !.pools = 1, !.raises = 1, !.stops = 1, !.blocks = 2],
     [Once(Others) EXCEPT !.invocations = 2, !.blocks = 2],
     [Once(Others) EXCEPT !.stops = 1]}
SignPlans == {[Idle EXCEPT !.signing = TRUE]}
MultiHashes == {{Multi}, {Multi, 1}, {1, 2}}

AllPlans ==
    {Once(p) : p \in {Flow, Isolation, Stacks, Numbers, Strings, Signatures, Collections, Maps}}
    \cup {[Idle EXCEPT !.program = p, !.tests = 1] : p \in {Flow, Isolation}}
    \cup EventPlans \cup SignPlans
=============================================================================
