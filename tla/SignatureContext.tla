-------------------------- MODULE SignatureContext --------------------------
(***************************************************************************)
(* Collecting signatures for a transaction (neo/SmartContract/             *)
(* ContractParameterContext.py and the commands that use it).  A wallet    *)
(* makes a context for the transaction, signs what it can and either       *)
(* relays the transaction or prints the context as JSON, which any wallet  *)
(* may take up, several at once and the same one twice.                    *)
(*                                                                         *)
(* The transaction is verified by the script hashes of its inputs: a       *)
(* multi-signature contract of all Signers that takes M of them, and the   *)
(* standard contracts of some wallets.  A signer is the rank of its key.   *)
(***************************************************************************)
EXTENDS Integers, Sequences, FiniteSets, SequencesExt, FiniteSetsExt

CONSTANTS
    Signers,    \* the key ranks of the multi-signature contract
    M,          \* how many of them have to sign
    Hashes,     \* the sets of script hashes a transaction may have
    Multi,      \* the script hash of the multi-signature contract
    Null

ASSUME SignersAssumption ==
    /\ Signers \subseteq Nat \ {0} /\ IsFiniteSet(Signers)
    /\ M \in 1 .. Cardinality(Signers)
    /\ Multi \notin Signers /\ Null \notin Signers
    /\ \A signed \in SUBSET Signers : signed # Null
    /\ Hashes \subseteq SUBSET (Signers \cup {Multi})

VARIABLES
    papers,     \* the JSON contexts that have been printed
    relayed     \* the transactions relayed: their script hashes and witnesses

sigVars == <<papers, relayed>>

\* Keys as CompareTo orders them, the highest first.
Place(S, k) == Cardinality({j \in S : j >= k})
Descending(S) == [i \in 1 .. Cardinality(S) |-> CHOOSE k \in S : Place(S, k) = i]

\* The keys of the contract in the order of its script (CreateMultiSigRedeemScript).
Points == Reverse(Descending(Signers))

(***************************************************************************)
(* A context: items[h] is Absent, or has the signatures collected          *)
(* (Null when there are none to collect or all are there) and the values   *)
(* of the parameters.  A standard contract is known by its owner.          *)
(***************************************************************************)
Absent == [signatures |-> Null, values |-> << >>]

NewItem(h) == [signatures |-> Null, values |-> [i \in 1 .. IF h = Multi THEN M ELSE 1 |-> Null]]

CreateItem(items, h) == IF items[h] = Absent THEN [items EXCEPT ![h] = NewItem(h)] ELSE items

\* Mutant: the lowest first.
InKeyOrderAscending(signed) == Reverse(Descending(signed))

\* The multi-signature branch of AddSignature, once enough have signed: the values
\* are put in the order of the keys, the highest first.
InKeyOrder(signed) == Descending(signed)

AddMulti(items, w) ==
    LET made == CreateItem(items, Multi)
        item == made[Multi]
        signed == (IF item.signatures = Null THEN {} ELSE item.signatures) \cup {w}
    IN IF \E i \in DOMAIN item.values : item.values[i] # Null
       THEN made
       ELSE [made EXCEPT ![Multi] =
                IF Cardinality(signed) = M
                THEN [signatures |-> Null, values |-> InKeyOrder(signed)]
                ELSE [item EXCEPT !.signatures = signed]]

AddStandard(items, w) == [CreateItem(items, w) EXCEPT ![w].values[1] = w]

\* Wallet.Sign: every contract of the transaction this wallet has the key of.
Sign(items, w) ==
    LET first == IF Multi \in DOMAIN items /\ w \in Signers THEN AddMulti(items, w) ELSE items
    IN IF w \in DOMAIN items THEN AddStandard(first, w) ELSE first

\* Completed, for a context made with isMultiSig; without it a value that is missing
\* becomes 0.
Completed(items, isMultiSig) ==
    \A h \in DOMAIN items :
        /\ items[h] # Absent
        /\ isMultiSig => \A i \in DOMAIN items[h].values : items[h].values[i] # Null

\* GetScripts: the values pushed, the first one last.
GetScripts(items) == [h \in DOMAIN items |-> Reverse(items[h].values)]

\* ToJson and FromJson: the values of the parameters are not in the JSON.
Printed(items) ==
    [h \in DOMAIN items |->
        IF items[h] = Absent THEN Absent
        ELSE [items[h] EXCEPT !.values = [i \in DOMAIN items[h].values |-> Null]]]

(***************************************************************************)
(* The wallets.                                                            *)
(***************************************************************************)
SigningInit == papers = {} /\ relayed = {}

\* The end of process_transaction and of parse_and_sign.
RelayOrPrint(items, isMultiSig) ==
    IF Completed(items, isMultiSig)
    THEN relayed' = relayed \cup {GetScripts(items)} /\ UNCHANGED papers
    ELSE papers' = papers \cup {Printed(items)} /\ UNCHANGED relayed

\* process_transaction: from the multi-signature address, or from the own one.
ProcessTransaction(w) ==
    \E hashes \in Hashes :
        /\ Multi \in hashes \/ w \in hashes
        /\ RelayOrPrint(Sign([h \in hashes |-> Absent], w), Multi \in hashes)

\* parse_and_sign; isMultiSig is True by default.
ParseAndSign(w) == \E items \in papers : RelayOrPrint(Sign(items, w), TRUE)

Signing == \E w \in Signers : ProcessTransaction(w) \/ ParseAndSign(w)

(***************************************************************************)
(* Properties.                                                             *)
(***************************************************************************)
\* CHECKMULTISIG: signatures and keys are taken from the top, each signature is
\* looked for among the keys that are left.
CheckMultisigAccepts(pushed) ==
    LET sigs == Reverse(pushed)
        keys == Reverse(Points)
        found[j \in 0 .. Len(keys)] ==
            IF j = 0 THEN 0
            ELSE LET i == found[j - 1]
                 IN IF i < Len(sigs) /\ sigs[i + 1] = keys[j] THEN i + 1 ELSE i
    IN found[Len(keys)] = Len(sigs)

\* In whatever order the wallets sign, a transaction that is relayed passes
\* verification, and one that is still being passed on lacks a signature: M different
\* signers of the same paper are always enough for the multi-signature contract.
RelayedVerifies ==
    /\ \A scripts \in relayed : \A h \in DOMAIN scripts :
           IF h = Multi THEN Len(scripts[h]) = M /\ CheckMultisigAccepts(scripts[h])
           ELSE scripts[h] = <<h>>
    /\ \A items \in papers :
           DOMAIN items = {Multi} => Cardinality(items[Multi].signatures) < M
=============================================================================
