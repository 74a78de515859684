------------------------------ MODULE MCWallet ------------------------------
(* Small instances of Wallet. *)
EXTENDS Wallet
CONSTANTS own, watched, joint, other, neo, gas, token

TwoNeoAndGas == <<[asset |-> neo, value |-> 4, to |-> own],
                  [asset |-> gas, value |-> 4, to |-> own]>>

\* A payment to the wallet, and its shares and its gas spent by another copy.
PayAndSweep ==
    <<[kind |-> "pay", ins |-> {}, claims |-> {}, made |-> 1,
       outs |-> <<[asset |-> gas, value |-> 1, to |-> own],
                [asset |-> gas, value |-> 1, to |-> watched]>>],
      [kind |-> "sweep", ins |-> {<<1, 1>>}, claims |-> {}, made |-> 1,
       outs |-> <<[asset |-> neo, value |-> 4, to |-> other]>>]>>

Gains == <<2, 1>>

Steps(b, o, r, s, e, x) ==
    [blocks |-> b, opens |-> o, rebuilds |-> r, sends |-> s, edits |-> e, stops |-> x]

\* Two transactions in a session; one and a stop anywhere; one, a rebuild and
\* a stop; every block, a rebuild and a stop.
Sending == {Steps(3, 1, 0, 2, 0, 0), Steps(3, 2, 0, 1, 0, 1), Steps(2, 2, 1, 1, 0, 1),
               Steps(3, 2, 1, 0, 0, 1)}

\* Addresses that come and go: with a stop, in two sessions, and with a rebuild.
Editing == {Steps(1, 2, 0, 0, 3, 1), Steps(2, 2, 0, 0, 3, 0), Steps(2, 2, 1, 0, 2, 0)}
AllSmall == Sending \cup Editing

Edits == [keys |-> {own, watched}, joints |-> {joint}, watched |-> {own, watched},
          deleted |-> {own, watched, joint}, tokens |-> {token}]
=============================================================================
