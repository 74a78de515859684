--------------------------- MODULE Serialization ----------------------------
(***************************************************************************)
(* Objects on their way through the node.  A route names the class that    *)
(* writes an object and the one that reads it: a row of the database goes  *)
(* from a class to itself, a block's row is read as a block or as a        *)
(* header, and a header from a peer is read by neo/Network, written again  *)
(* and read by neo/Core (Ledger.add_headers).  What arrives may be cut     *)
(* short (a chain file that ends early, a raw transaction given to the     *)
(* node).  Every step takes its stream from the pool.  Keys, addresses and *)
(* scripts travel the same way, as texts that may be mistyped.             *)
(***************************************************************************)
EXTENDS Formats, Keys

CONSTANTS
    Consignment,  \* the records [w, r, o]: writer, reader, object
    CutAllowed,   \* the consignments that may be cut
    TypoAllowed   \* those that are typed by a user, of whom one byte may be wrong

VARIABLES
    load,         \* the consignment under way
    phase,        \* "built", "written", "read", "again" or "hashed"
    wire,         \* the bytes that were written and, after a cut, arrive
    damage,       \* "none", "cut" or "mistyped"
    copy,         \* the reader, when it has finished
    hashed,       \* the bytes GetHashData gave for what was read
    pool          \* the pool of streams

vars == <<load, phase, wire, damage, copy, hashed, pool>>

WriterOf(class) ==
    CASE class = "AccountState"         -> AccountState_Serialize
      [] class = "AssetState"           -> AssetState_Serialize
      [] class = "UnspentCoinState"     -> UnspentCoinState_Serialize
      [] class = "SpentCoinState"       -> SpentCoinState_Serialize
      [] class = "StorageItem"          -> StorageItem_Serialize
      [] class = "ValidatorState"       -> ValidatorState_Serialize
      [] class = "ContractState"        -> ContractState_Serialize
      [] class = "Transaction"          -> Transaction_Serialize
      [] class = "TransactionState"     -> TransactionState_Serialize
      [] class = "Header"               -> Header_Serialize
      [] class \in {"Block", "Import"}  -> Block_Serialize
      [] class = "Row"                  -> Block_Trim
      [] class = "RowHeader"            -> Header_Serialize
      [] class = "network.Header"       -> network_Header_serialize
      [] class = "network.Block"        -> network_Block_serialize
      [] class = "HeadersPayload"       -> HeadersPayload_serialize
      [] class = "AddrPayload"          -> AddrPayload_serialize
      [] class = "InventoryPayload"     -> InventoryPayload_serialize
      [] class = "PingPayload"          -> PingPayload_serialize
      [] class = "VersionPayload"       -> VersionPayload_serialize
      [] class = "GetBlocksPayload"     -> GetBlocksPayload_serialize
      [] class = "Message"              -> Message_serialize
      [] class = "Contract"             -> Contract_Serialize

ReaderLayout(class) ==
    CASE class = "AccountState"         -> AccountState_Deserialize
      [] class = "AssetState"           -> AssetState_Deserialize
      [] class = "UnspentCoinState"     -> UnspentCoinState_Deserialize
      [] class = "SpentCoinState"       -> SpentCoinState_Deserialize
      [] class = "StorageItem"          -> StorageItem_Deserialize
      [] class = "ValidatorState"       -> ValidatorState_Deserialize
      [] class = "ContractState"        -> ContractState_Deserialize
      [] class = "Transaction"          -> Transaction_DeserializeFrom
      [] class = "TransactionState"     -> TransactionState_Deserialize
      [] class = "Header"               -> Header_Deserialize
      [] class = "Block"                -> Block_Deserialize
      [] class = "Import"               -> Block_DeserializeForImport
      [] class = "Row"                  -> Block_FromTrimmedData
      [] class = "RowHeader"            -> Header_FromTrimmedData
      [] class = "network.Header"       -> network_Header_deserialize
      [] class = "network.Block"        -> network_Block_deserialize
      [] class = "HeadersPayload"       -> HeadersPayload_deserialize
      [] class = "AddrPayload"          -> AddrPayload_deserialize
      [] class = "InventoryPayload"     -> InventoryPayload_deserialize
      [] class = "PingPayload"          -> PingPayload_deserialize
      [] class = "VersionPayload"       -> VersionPayload_deserialize
      [] class = "GetBlocksPayload"     -> GetBlocksPayload_deserialize_from_bytes
      [] class = "Message"              -> Message_deserialize
      [] class = "Contract"             -> Contract_Deserialize

Transactional == {"Transaction", "TransactionState"}
Blocklike     == {"Header", "Block", "Import", "Row", "RowHeader", "network.Header",
                  "network.Block"}

(* What GetHashData writes: the part that is hashed and signed. *)
UnsignedOf(class, o) ==
    CASE class \in Transactional          -> WriteLayout(Transaction_SerializeUnsigned, o)
      [] class \in Blocklike \ {"network.Header", "network.Block"}
                                          -> WriteLayout(BlockBase_SerializeUnsigned, o)
      [] class \in {"network.Header", "network.Block"}
                                          -> WriteLayout(network_BlockBase_unsigned, o)

-----------------------------------------------------------------------------
(* Keys, addresses and scripts. *)

Texts   == {"WIF", "NEP2", "NEP2Mistaken", "Address"}
Points  == {"Point", "LongPoint"}
Scripts == {"AppCall", "SysCall", "Signature", "MultiSig"}

BytesOf(class, o) ==
    CASE class = "WIF"       -> Export(o.PrivateKey)
      [] class = "NEP2"      -> ExportNEP2(o.PrivateKey, o.passphrase)
      [] class = "Address"   -> scripthash_to_address(o.ScriptHash)
      [] class = "Point"     -> EncodePoint(o.point, TRUE)
      [] class = "LongPoint" -> EncodePoint(o.point, FALSE)
      [] class = "AppCall"   -> EmitAppCallWithOperationAndArgs(o.hash, o.operation, o.args)
      [] class = "SysCall"   -> EmitSysCallWithArguments(o.api, o.args)
      [] class = "Signature" -> CreateSignatureRedeemScript(o.key)
      [] class = "MultiSig"  -> CreateMultiSigRedeemScript(o.m, o.keys)
      [] OTHER               -> WriteLayout(WriterOf(class), o)

Got(r, f) == IF r.bad THEN r ELSE [r EXCEPT !.o = f :> r.v]

Values(items) == [i \in DOMAIN items |-> items[i].v]

AllBytes(items) == \A i \in DOMAIN items : items[i].k = "bytes"

(* The stack a script leaves to the contract it calls, the interop service *)
(* it asks for or the check of signatures it ends in.                      *)
TakeStack(class, q) ==
    LET stack == q.v
        calls(op) == stack # <<>> /\ stack[1].k = "op" /\ stack[1].v[1] = op
    IN CASE q.bad -> q
         [] ~q.bad /\ class = "AppCall" /\ calls(APPCALL) /\ Len(stack) = 3 ->
              [q EXCEPT !.o = [hash |-> Tail(stack[1].v), operation |-> stack[2].v,
                               args |-> Values(stack[3].v)]]
         [] ~q.bad /\ class = "SysCall" /\ calls(SYSCALL) /\ AllBytes(Tail(stack)) ->
              [q EXCEPT !.o = [api |-> Tail(stack[1].v), args |-> Values(Tail(stack))]]
         [] ~q.bad /\ class = "Signature" /\ calls(CHECKSIG) /\ Len(stack) = 2 ->
              [q EXCEPT !.o = [key |-> stack[2].v]]
         [] ~q.bad /\ class = "MultiSig" /\ calls(CHECKMULTISIG) /\ Len(stack) > 2 ->
              [q EXCEPT !.o = [m    |-> Last(stack).v,
                               keys |-> Reverse(Values(SubSeq(stack, 3, Len(stack) - 1)))]]
         [] OTHER -> Raise(q)

ReadScript(class, r) == TakeStack(class, RunScript(r, <<>>))

ReadAs(c, r) ==
    CASE c.r = "WIF"          -> Got(PrivateKeyFromWIF(r), "PrivateKey")
      [] c.r = "NEP2"         -> Got(PrivateKeyFromNEP2(r, c.o.passphrase), "PrivateKey")
      [] c.r = "NEP2Mistaken" -> Got(PrivateKeyFromNEP2(r, c.o.passphrase \o <<33>>), "PrivateKey")
      [] c.r = "Address"      -> Got(AddrStrToScriptHash(r), "ScriptHash")
      [] c.r \in Points       ->
            IF DecodeChecked(r.s) = NoPoint THEN Raise(r) ELSE Got(Give(r, DecodeChecked(r.s)), "point")
      [] c.r \in Scripts      -> ReadScript(c.r, r)
      [] OTHER                -> ReadLayout(ReaderLayout(c.r), r)

-----------------------------------------------------------------------------
(* Size: what each class says its length is. *)

VarSize(n)      == IF n < 253 THEN 1 ELSE IF n <= 65535 THEN 3 ELSE 5
BytesSize(b)    == VarSize(Len(b)) + Len(b)
ListSize(s, Of(_)) ==
    FoldLeft(LAMBDA sum, x : sum + Of(x), VarSize(Len(s)), s)

PointSize(p)       == IF p = <<0>> THEN 1 ELSE 33
WitnessSize(w)     == BytesSize(w.InvocationScript) + BytesSize(w.VerificationScript)
OutputSize(output) == 8 + 20 + 32
ReferenceSize(ref) == 32 + 2
DescriptorSize(d)  == 1 + BytesSize(d.Key) + BytesSize(d.Field) + BytesSize(d.Value)

AttributeSize(a) ==
    CASE a.Usage[1] \in HashUsage \cup ECDHUsage -> 1 + 32
      [] a.Usage[1] = ScriptUsage                -> 1 + 20
      [] a.Usage[1] = DescriptionUrlUsage        -> 1 + 1 + Len(a.Data)
      [] OTHER                                   -> 1 + BytesSize(a.Data)

ClaimSize(tx)      == ListSize(tx.Claims, ReferenceSize)
EnrollmentSize(tx) == PointSize(tx.PublicKey)
InvocationSize(tx) == BytesSize(tx.Script) + (IF tx.Version[1] >= 1 THEN 8 ELSE 0)
MinerSize(tx)      == 4
(* The byte that says whether storage is needed is not counted. *)
PublishSize(tx)    == BytesSize(tx.Script) + BytesSize(tx.ParameterList) + 1 +
                      BytesSize(tx.Name) + BytesSize(tx.CodeVersion) + BytesSize(tx.Author) +
                      BytesSize(tx.Email) + BytesSize(tx.Description)
RegisterSize(tx)   == 2 * 1 + BytesSize(tx.Name) + 8 + PointSize(tx.Owner) + 20
StateSize(tx)      == ListSize(tx.Descriptors, DescriptorSize)

TransactionSize(tx) ==
    1 + 1 + ListSize(tx.Attributes, AttributeSize) + ListSize(tx.inputs, ReferenceSize) +
    ListSize(tx.outputs, OutputSize) + ListSize(tx.scripts, WitnessSize) +
    (CASE tx.Type[1] = ClaimTransaction      -> ClaimSize(tx)
       [] tx.Type[1] = EnrollmentTransaction -> EnrollmentSize(tx)
       [] tx.Type[1] = InvocationTransaction -> InvocationSize(tx)
       [] tx.Type[1] = MinerTransaction      -> MinerSize(tx)
       [] tx.Type[1] = PublishTransaction    -> PublishSize(tx)
       [] tx.Type[1] = RegisterTransaction   -> RegisterSize(tx)
       [] tx.Type[1] = StateTransaction      -> StateSize(tx)
       [] OTHER                              -> 0)

AccountSize(o)     == 1 + 20 + 1 + VarSize(Len(o.Votes)) + VarSize(Len(o.Balances)) +
                      Len(o.Balances) * (32 + 8)
AssetSize(o)       == 1 + 32 + 1 + BytesSize(o.Name) + 8 + 8 + 1 + 1 + 8 + 20 +
                      PointSize(o.Owner) + 20 + 20 + 4 + 1
UnspentCoinSize(o) == 1 + VarSize(Len(o.Items)) + Len(o.Items)
StorageItemSize(o) == 1 + BytesSize(o.Value)
ValidatorSize(o)   == 1 + PointSize(o.PublicKey) + 1 + 8
ContractSize(o)    == 1 + BytesSize(o.Script) + BytesSize(o.ParameterList) + 1 + 1 +
                      BytesSize(o.Name) + BytesSize(o.CodeVersion) + BytesSize(o.Author) +
                      BytesSize(o.Email) + BytesSize(o.Description)
BlockBaseSize(o)   == 4 + 32 + 32 + 4 + 4 + 8 + 20 + 1 + WitnessSize(o)
HeaderSize(o)      == BlockBaseSize(o) + 1
BlockSize(o)       == BlockBaseSize(o) + ListSize(o.Transactions, TransactionSize)
PingSize(o)        == 4 + 4 + 4
VersionSize(o)     == 4 + 8 + 4 + 2 + 4 + BytesSize(o.user_agent) + 4 + 1
MessageSize(o)     == 4 + 12 + 4 + 4 + Len(o.payload)

(* The classes whose size is asked for.  SpentCoinState has no Size of its *)
(* own and TransactionState's gives nothing; an account with votes cannot  *)
(* say its size.                                                           *)
Sized(class, o) ==
    CASE class = "AccountState" -> o.Votes = <<>>
      [] OTHER -> class \in {"AssetState", "UnspentCoinState", "StorageItem", "ValidatorState",
                             "ContractState", "Transaction", "Header", "Block",
                             "PingPayload", "VersionPayload", "Message"}

SizeOf(class, o) ==
    CASE class = "AccountState"     -> AccountSize(o)
      [] class = "AssetState"       -> AssetSize(o)
      [] class = "UnspentCoinState" -> UnspentCoinSize(o)
      [] class = "StorageItem"      -> StorageItemSize(o)
      [] class = "ValidatorState"   -> ValidatorSize(o)
      [] class = "ContractState"    -> ContractSize(o)
      [] class = "Transaction"      -> TransactionSize(o)
      [] class = "Header"           -> HeaderSize(o)
      [] class = "Block"            -> BlockSize(o)
      [] class = "PingPayload"      -> PingSize(o)
      [] class = "VersionPayload"   -> VersionSize(o)
      [] class = "Message"          -> MessageSize(o)

-----------------------------------------------------------------------------
Init ==
    /\ load \in Consignment
    /\ phase = "built"
    /\ wire = <<>>
    /\ damage = "none"
    /\ copy = ReaderOf(<<>>)
    /\ hashed = <<>>
    /\ pool = [total |-> 0, free |-> <<>>]

(* Helper.ToArray, StateBase.ToByteArray, Block.Trim, to_array: a stream   *)
(* of the pool is written from its start and its whole contents taken.     *)
ToArray(bytes) ==
    LET got == GetStream(pool, <<>>)
        all == Overwrite(got.content, bytes)
    IN [bytes |-> all, pool |-> ReleaseStream(got.pool, all)]

Write ==
    /\ phase = "built"
    /\ LET bytes   == BytesOf(load.w, load.o)
           written == IF load.w \in Texts \cup Points THEN [bytes |-> bytes, pool |-> pool]
                      ELSE ToArray(bytes)
       IN /\ wire' = written.bytes
          /\ pool' = written.pool
    /\ phase' = "written"
    /\ UNCHANGED <<load, damage, copy, hashed>>

(* The bytes end early. *)
Cut ==
    /\ phase = "written"
    /\ damage = "none"
    /\ load \in CutAllowed
    /\ \E n \in 1..(Len(wire) - 1) : wire' = SubSeq(wire, 1, n)
    /\ damage' = "cut"
    /\ UNCHANGED <<load, phase, copy, hashed, pool>>

(* A user types one byte wrong. *)
Mistype ==
    /\ phase = "written"
    /\ damage = "none"
    /\ load \in TypoAllowed
    /\ \E i \in 1..Len(wire), d \in {1, 128} : wire' = [wire EXCEPT ![i] = (@ + d) % 256]
    /\ damage' = "mistyped"
    /\ UNCHANGED <<load, phase, copy, hashed, pool>>

(* The deserializers that give their stream back when they raise. *)
GivesBack == {"network.Block", "InventoryPayload", "Header", "Block"}

(* DeserializeFromDB, DeserializeFromBufer, FromTrimmedData,               *)
(* AsSerializableWithType, deserialize_from_bytes.  The import of a chain  *)
(* file has a stream of its own.                                           *)
Read ==
    /\ phase = "written"
    /\ LET got  == GetStream(pool, wire)
           done == ReadAs(load, ReaderOf(got.content))
       IN /\ copy' = done
          /\ pool' = IF load.r \in {"Import"} \cup Texts \cup Points \cup Scripts THEN pool
                     ELSE IF done.bad /\ load.r \notin GivesBack THEN got.pool
                     ELSE ReleaseStream(got.pool, got.content)
    /\ phase' = "read"
    /\ UNCHANGED <<load, wire, damage, hashed>>

(* What was read is written by its own class. *)
WriteAgain ==
    /\ phase = "read"
    /\ load.r \notin Texts \cup Points \cup Scripts
    /\ ~copy.bad
    /\ LET written == ToArray(WriteLayout(WriterOf(load.r), copy.o))
       IN /\ wire' = written.bytes
          /\ pool' = written.pool
    /\ phase' = "again"
    /\ UNCHANGED <<load, damage, copy, hashed>>

(* Helper.GetHashData of what was read. *)
GetHashData ==
    /\ phase = "again"
    /\ load.r \in Transactional \cup Blocklike
    /\ LET written == ToArray(UnsignedOf(load.r, copy.o))
       IN /\ hashed' = written.bytes
          /\ pool' = written.pool
    /\ phase' = "hashed"
    /\ UNCHANGED <<load, wire, damage, copy>>

Next == Write \/ Cut \/ Mistype \/ Read \/ WriteAgain \/ GetHashData

Spec == Init /\ [][Next]_vars

-----------------------------------------------------------------------------
(* Properties. *)

(* The fields a network class does not keep, and those a header read from  *)
(* a block's row has no room for.                                          *)
NotKept(class) ==
    CASE class \in {"network.Header", "network.Block"} ->
            {"InvocationScript", "VerificationScript", "Transactions"}
      [] class = "RowHeader" -> {"Transactions"}
      [] class = "NEP2" -> {"passphrase"}
      [] OTHER -> {}

RECURSIVE Halves(_, _)
(* A field that WriteBytes takes for hexadecimal text and halves. *)
Halves(layout, o) ==
    \E i \in 1..Len(layout) :
        LET step == layout[i]
        IN \/ /\ step.m \in {"WriteUInt", "write_uint", "WriteBytes", "write_bytes",
                             "write_var_string"}
              /\ o[step.f] # <<>>
              /\ IsHexText(o[step.f])
           \/ /\ step.m = "WriteArray"
              /\ \E j \in 1..Len(o[step.f]) : Halves(step.x, o[step.f][j])
           \/ /\ step.m = "Choose"
              /\ Halves(ChosenToWrite(step.x, o), o)

(* The objects their writer and reader do not carry over: a field taken    *)
(* for hexadecimal text, an attribute with a public key (zeros are put     *)
(* before it and its last bytes are lost), a descriptor that is refused    *)
(* (the transaction is read without it), an address that ends in zero, and *)
(* the payload that is never read.                                         *)
Spoiled(c) ==
    \/ /\ c.w \notin Texts \cup Points \cup Scripts
       /\ Halves(WriterOf(c.w), c.o)
    \/ c.w = "AppCall" /\ \E i \in DOMAIN c.o.args : c.o.args[i] # <<>> /\ IsHexText(c.o.args[i])
    \/ c.r = "NEP2Mistaken"
    \/ /\ c.w = "MultiSig"
       /\ LET x(i) == DecodeFromHex(c.o.keys[i]).x IN \E i, j \in DOMAIN c.o.keys : i < j /\ x(i) >= x(j)
    \/ /\ c.w \in Transactional
       /\ \/ \E i \in 1..Len(c.o.Attributes) : c.o.Attributes[i].Usage[1] \in ECDHUsage
          \/ /\ c.o.Type[1] = StateTransaction
             /\ \E i \in 1..Len(c.o.Descriptors) :
                    DescriptorRefused(c.o.Descriptors[i])
    \/ /\ c.w = "AddrPayload"
       /\ \E i \in 1..Len(c.o.addresses) : c.o.addresses[i].address[4] = 0
    \/ c.w = "GetBlocksPayload"

(* A transaction that publishes a contract under version one leaves a byte *)
(* out of its size.                                                        *)
LeftOut(class, o) ==
    IF class = "Transaction" /\ o.Type[1] = PublishTransaction /\ o.Version[1] >= 1 THEN 1 ELSE 0

(* What is written and arrives whole is read without an exception, nothing *)
(* of it is passed over, and every field the reader keeps has the value it *)
(* was written with: the calls of each Serialize and of the Deserialize on *)
(* the other side, which may be that of another class, agree.  The size an *)
(* object gives, on which its fee and the limits of its transaction        *)
(* depend, is the number of bytes it writes.  And the hash of a            *)
(* transaction or a block, taken from what was read, is the one it was     *)
(* sent under: what is hashed is the same bytes, whichever stream of the   *)
(* pool they were written to and whatever it held before.                  *)
RoundTrip ==
    /\ phase = "read" /\ damage = "none" /\ ~Spoiled(load) =>
        /\ ~copy.bad
        /\ copy.marks = {}
        /\ DOMAIN load.o \ DOMAIN copy.o \subseteq NotKept(load.r)
        /\ \A f \in DOMAIN load.o \cap DOMAIN copy.o : copy.o[f] = load.o[f]
    /\ phase = "written" /\ damage = "none" /\ Sized(load.w, load.o) /\ ~Halves(WriterOf(load.w), load.o) =>
        Len(wire) = SizeOf(load.w, load.o) + LeftOut(load.w, load.o)
    /\ phase = "hashed" /\ damage = "none" /\ ~Spoiled(load) =>
        hashed = UnsignedOf(load.w, load.o)

(* What was damaged does not pass for something else.  Bytes that end      *)
(* early are refused or are what the object with nothing in its last       *)
(* arrays and strings writes: a count that is missing is read as zero and  *)
(* no value is made up.  The code's own exceptions are the marks: an       *)
(* object of an array that is passed over, a public key or the data of an  *)
(* attribute that is read short.  A key, an encrypted key or an address    *)
(* with one byte mistyped or cut short is refused, and so is a mistaken    *)
(* passphrase: the checksum of each covers all that is read from it, and   *)
(* the address in an encrypted key tells whether the right key came out.   *)
DamageShows ==
    /\ phase \in {"again", "hashed"} /\ damage = "cut" /\ copy.marks = {} /\ ~Spoiled(load) =>
        \E n \in 0..Len(wire) : wire = copy.s \o Zeros(n)
    /\ phase = "read" /\ load.w \in Texts /\ (damage # "none" \/ load.r = "NEP2Mistaken") =>
        copy.bad

(* The members of a multi-signature contract may be listed in any order:   *)
(* its script, hence its address, is the same, but for members whose       *)
(* public keys have the same abscissa.                                     *)
MembersInAnyOrder ==
    phase = "written" /\ load.w = "MultiSig" /\ damage = "none" =>
        LET keys == load.o.keys
        IN \A other \in Permutations(DOMAIN keys) :
              (\A i, j \in DOMAIN keys : i # j => Tail(keys[i]) # Tail(keys[j])) =>
                CreateMultiSigRedeemScript(load.o.m, [i \in DOMAIN keys |-> keys[other[i]]]) = wire

(* Whatever was typed, a public key that is accepted is a point of the     *)
(* curve, and such points form a group under the addition of the code,     *)
(* with the doubling of a point, a point and its negative and Infinity     *)
(* told apart.                                                             *)
PointsAdd ==
    phase = "read" /\ load.r \in Points /\ ~copy.bad =>
        LET p == copy.o.point
            on == {q \in [x : 0..(CurveP - 1), y : 0..(CurveP - 1)] : IsOnCurve(q)}
        IN /\ IsOnCurve(p)
           /\ PointEq(PointAdd(p, PointNeg(p)), Infinity)
           /\ \A q \in on :
                /\ IsOnCurve(PointAdd(p, q))
                /\ PointEq(PointAdd(p, q), PointAdd(q, p))
                /\ ~IsZero(q) => PointEq(PointSub(PointAdd(p, q), q), p)
                /\ \A r \in on : PointEq(PointAdd(PointAdd(p, q), r), PointAdd(p, PointAdd(q, r)))
=============================================================================
