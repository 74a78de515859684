------------------------------ MODULE Formats -------------------------------
(***************************************************************************)
(* What the node writes and what it reads back: the rows of its database,  *)
(* transactions, blocks and headers, and the payloads it exchanges with    *)
(* its peers.  Each class has a Serialize and a Deserialize of its own and *)
(* nothing but the order of their calls keeps the two together; here each  *)
(* is a layout, the sequence of calls it makes on a writer or a reader     *)
(* (Streams), read from that method.  A step of a layout is                *)
(*   m  the call        f  the field       x  its argument                 *)
(* and WriteLayout and ReadLayout below run a layout.  An object is a      *)
(* record of its fields.                                                   *)
(***************************************************************************)
EXTENDS Streams, MerkleTree, TLC

CONSTANT Stored   \* the transactions the database can look up by hash

MaxLength == 1000000        \* stands for sys.maxsize

F(m, f)     == [m |-> m, f |-> f, x |-> 0]
FX(m, f, x) == [m |-> m, f |-> f, x |-> x]

(* A field that is not kept: a constant byte written, a byte read.         *)
Constant(b)  == FX("Constant", "", b)
Refuse(name) == FX("Refuse", "", name)

-----------------------------------------------------------------------------
(* neo/Core/State: the rows of the database. *)

StateBase_Serialize   == <<F("WriteNumber", "StateVersion")>>
StateBase_Deserialize == <<FX("ReadByte", "StateVersion", 1), Refuse("StateVersion")>>

AccountState_Serialize ==
    StateBase_Serialize \o
    <<F("WriteUInt", "ScriptHash"), F("WriteNumber", "IsFrozen"),
      FX("WriteArray", "Votes", <<F("WriteBytes", "key")>>),
      FX("WriteArray", "Balances", <<F("WriteUInt", "asset"), F("WriteNumber", "amount")>>)>>

AccountState_Deserialize ==
    StateBase_Deserialize \o
    <<FX("ReadUInt", "ScriptHash", 20), F("ReadBool", "IsFrozen"),
      FX("ReadList", "Votes", <<FX("ReadBytes", "key", 33)>>),
      FX("ReadList", "Balances", <<FX("ReadUInt", "asset", 32), FX("ReadNumber", "amount", 8)>>)>>

(* FeeMode is written as zero and read away. *)
AssetState_Serialize ==
    StateBase_Serialize \o
    <<F("WriteUInt", "AssetId"), F("WriteNumber", "AssetType"), F("WriteVarString", "Name"),
      F("WriteNumber", "Amount"), F("WriteNumber", "Available"), F("WriteNumber", "Precision"),
      Constant(0), F("WriteNumber", "Fee"), F("WriteUInt", "FeeAddress"),
      F("WritePoint", "Owner"), F("WriteUInt", "Admin"), F("WriteUInt", "Issuer"),
      F("WriteNumber", "Expiration"), F("WriteNumber", "IsFrozen")>>

\* Mutant: the fee mode is written but not read.
AssetState_DeserializeNoFeeMode ==
    StateBase_Deserialize \o
    <<FX("ReadUInt", "AssetId", 32), FX("ReadByte", "AssetType", 1),
      FX("ReadVarString", "Name", MaxLength), FX("ReadNumber", "Amount", 8),
      FX("ReadNumber", "Available", 8), FX("ReadByte", "Precision", 1),
      FX("ReadNumber", "Fee", 8), FX("ReadUInt", "FeeAddress", 20),
      F("ReadPoint", "Owner"), FX("ReadUInt", "Admin", 20), FX("ReadUInt", "Issuer", 20),
      FX("ReadNumber", "Expiration", 4), F("ReadBool", "IsFrozen")>>

AssetState_Deserialize ==
    StateBase_Deserialize \o
    <<FX("ReadUInt", "AssetId", 32), FX("ReadByte", "AssetType", 1),
      FX("ReadVarString", "Name", MaxLength), FX("ReadNumber", "Amount", 8),
      FX("ReadNumber", "Available", 8), FX("ReadByte", "Precision", 1),
      FX("ReadByte", "-", 1), FX("ReadNumber", "Fee", 8), FX("ReadUInt", "FeeAddress", 20),
      F("ReadPoint", "Owner"), FX("ReadUInt", "Admin", 20), FX("ReadUInt", "Issuer", 20),
      FX("ReadNumber", "Expiration", 4), F("ReadBool", "IsFrozen")>>

UnspentCoinState_Serialize ==
    StateBase_Serialize \o <<FX("WriteArray", "Items", <<F("WriteNumber", "state")>>)>>

UnspentCoinState_Deserialize ==
    StateBase_Deserialize \o <<FX("ReadList", "Items", <<FX("ReadByte", "state", 1)>>)>>

SpentCoinState_Serialize ==
    StateBase_Serialize \o
    <<F("WriteUInt", "TransactionHash"), F("WriteNumber", "TransactionHeight"),
      FX("WriteArray", "Items", <<F("WriteNumber", "index"), F("WriteNumber", "height")>>)>>

SpentCoinState_Deserialize ==
    StateBase_Deserialize \o
    <<FX("ReadUInt", "TransactionHash", 32), FX("ReadNumber", "TransactionHeight", 4),
      FX("ReadList", "Items", <<FX("ReadNumber", "index", 2), FX("ReadNumber", "height", 4)>>)>>

StorageItem_Serialize   == StateBase_Serialize \o <<F("WriteVarBytes", "Value")>>
StorageItem_Deserialize == StateBase_Deserialize \o <<FX("ReadVarBytes", "Value", MaxLength)>>

ValidatorState_Serialize ==
    StateBase_Serialize \o
    <<F("WritePoint", "PublicKey"), F("WriteNumber", "Registered"), F("WriteNumber", "Votes")>>

ValidatorState_Deserialize ==
    StateBase_Deserialize \o
    <<F("ReadPoint", "PublicKey"), F("ReadBool", "Registered"), FX("ReadNumber", "Votes", 8)>>

FunctionCode_Serialize ==
    <<F("WriteVarBytes", "Script"), F("WriteVarBytes", "ParameterList"),
      F("WriteNumber", "ReturnType")>>

FunctionCode_Deserialize ==
    <<FX("ReadVarBytes", "Script", MaxLength), FX("ReadVarBytes", "ParameterList", MaxLength),
      FX("ReadByte", "ReturnType", 1)>>

ContractState_Serialize ==
    StateBase_Serialize \o FunctionCode_Serialize \o
    <<F("WriteNumber", "ContractProperties"), F("WriteVarString", "Name"),
      F("WriteVarString", "CodeVersion"), F("WriteVarString", "Author"),
      F("WriteVarString", "Email"), F("WriteVarString", "Description")>>

ContractState_Deserialize ==
    StateBase_Deserialize \o FunctionCode_Deserialize \o
    <<FX("ReadNumber", "ContractProperties", 1), FX("ReadVarString", "Name", 252),
      FX("ReadVarString", "CodeVersion", 252), FX("ReadVarString", "Author", 252),
      FX("ReadVarString", "Email", 252), FX("ReadVarString", "Description", 65536)>>

StateDescriptor_Serialize ==
    <<F("WriteNumber", "Type"), F("WriteVarBytes", "Key"), F("WriteVarString", "Field"),
      F("WriteVarBytes", "Value")>>

StateDescriptor_Deserialize ==
    <<FX("ReadByte", "Type", 1), Refuse("StateType"), FX("ReadVarBytes", "Key", 100),
      FX("ReadVarString", "Field", 32), FX("ReadVarBytes", "Value", 65535),
      Refuse("StateDescriptor")>>

-----------------------------------------------------------------------------
(* Transactions.  TransactionInput has the layout of CoinReference. *)

TransactionOutput_Serialize ==
    <<F("WriteUInt", "AssetId"), F("WriteNumber", "Value"), F("WriteUInt", "ScriptHash")>>

TransactionOutput_Deserialize ==
    <<FX("ReadUInt", "AssetId", 32), FX("ReadNumber", "Value", 8), FX("ReadUInt", "ScriptHash", 20)>>

CoinReference_Serialize   == <<F("WriteUInt", "PrevHash"), F("WriteNumber", "PrevIndex")>>
CoinReference_Deserialize == <<FX("ReadUInt", "PrevHash", 32), FX("ReadNumber", "PrevIndex", 2)>>

Witness_Serialize ==
    <<F("WriteVarBytes", "InvocationScript"), F("WriteVarBytes", "VerificationScript")>>

Witness_Deserialize ==
    <<FX("ReadVarBytes", "InvocationScript", MaxLength),
      FX("ReadVarBytes", "VerificationScript", MaxLength)>>

(* The contracts of a wallet. *)
Contract_Serialize ==
    <<F("WriteUInt", "PublicKeyHash"), F("WriteVarBytes", "ParameterList"),
      F("WriteVarBytes", "Script")>>

(* The script's bytes are read as far as there are any. *)
Contract_Deserialize ==
    <<FX("ReadUInt", "PublicKeyHash", 20), FX("ReadVarBytes", "ParameterList", MaxLength),
      F("ReadScriptBytes", "Script")>>

(* TransactionAttributeUsage. *)
HashUsage == {0, 48} \cup 161..175
ECDHUsage == {2, 3}
ScriptUsage == 32
DescriptionUrlUsage == 129
TextUsage == {144} \cup 240..255

(* The public key is written without its first byte. *)
AttributeData_Serialize(usage) ==
    CASE usage \in HashUsage \cup {ScriptUsage}              -> <<F("WriteBytes", "Data")>>
      [] usage \in ECDHUsage                                 -> <<F("WriteTail", "Data")>>
      [] usage \in TextUsage \cup {DescriptionUrlUsage}      -> <<F("WriteVarString", "Data")>>
      [] OTHER                                               -> <<>>

(* bytearray(usage) is usage zero bytes, put before the public key. *)
AttributeData_Deserialize(usage) ==
    CASE usage \in HashUsage          -> <<FX("ReadBytes", "Data", 32)>>
      [] usage \in ECDHUsage          -> <<FX("ReadBytesAfterZeros", "Data", usage)>>
      [] usage = ScriptUsage          -> <<FX("ReadBytes", "Data", 20)>>
      [] usage = DescriptionUrlUsage  -> <<F("ReadShortBytes", "Data")>>
      [] usage \in TextUsage          -> <<FX("ReadVarBytes", "Data", 65535)>>
      [] OTHER                        -> <<>>

TransactionAttribute_Serialize   == <<F("WriteNumber", "Usage"), FX("Choose", "", "Data")>>
TransactionAttribute_Deserialize == <<FX("ReadByte", "Usage", 1), FX("Choose", "", "Data")>>

(* TransactionType. *)
MinerTransaction      == 0
IssueTransaction      == 1
ClaimTransaction      == 2
EnrollmentTransaction == 32
RegisterTransaction   == 64
ContractTransaction   == 128
StateTransaction      == 144
PublishTransaction    == 208
InvocationTransaction == 209

(* Version is one byte; what comes with version one and later. *)
ClaimTransaction_Serialize   == <<FX("WriteArray", "Claims", CoinReference_Serialize)>>
ClaimTransaction_Deserialize ==
    <<Refuse("VersionNotZero"), FX("ReadList", "Claims", CoinReference_Deserialize),
      Refuse("NoClaims")>>

EnrollmentTransaction_Serialize   == <<F("WritePoint", "PublicKey")>>
EnrollmentTransaction_Deserialize == <<Refuse("VersionNotZero"), F("ReadPoint", "PublicKey")>>

InvocationTransaction_Serialize ==
    <<F("WriteVarBytes", "Script"), FX("Choose", "", "Gas")>>

InvocationTransaction_Deserialize ==
    <<Refuse("VersionAboveOne"), FX("ReadVarBytes", "Script", MaxLength), Refuse("NoScript"),
      FX("Choose", "", "Gas"), Refuse("NegativeGas")>>

IssueTransaction_Deserialize == <<Refuse("VersionAboveOne")>>

(* The nonce is turned into hexadecimal text, which WriteBytes undoes. *)
MinerTransaction_Serialize   == <<F("WriteNumber", "Nonce")>>
MinerTransaction_Deserialize == <<FX("ReadNumber", "Nonce", 4)>>

PublishTransaction_Serialize ==
    FunctionCode_Serialize \o
    <<FX("Choose", "", "NeedStorage"), F("WriteVarString", "Name"),
      F("WriteVarString", "CodeVersion"), F("WriteVarString", "Author"),
      F("WriteVarString", "Email"), F("WriteVarString", "Description")>>

PublishTransaction_Deserialize ==
    FunctionCode_Deserialize \o
    <<FX("Choose", "", "NeedStorage"), FX("ReadVarString", "Name", MaxLength),
      FX("ReadVarString", "CodeVersion", MaxLength), FX("ReadVarString", "Author", MaxLength),
      FX("ReadVarString", "Email", MaxLength), FX("ReadVarString", "Description", MaxLength)>>

RegisterTransaction_Serialize ==
    <<F("WriteNumber", "AssetType"), F("WriteVarString", "Name"), F("WriteNumber", "Amount"),
      F("WriteNumber", "Precision"), F("WritePoint", "Owner"), F("WriteUInt", "Admin")>>

RegisterTransaction_Deserialize ==
    <<FX("ReadByte", "AssetType", 1), FX("ReadVarString", "Name", MaxLength),
      FX("ReadNumber", "Amount", 8), FX("ReadByte", "Precision", 1), F("ReadPoint", "Owner"),
      FX("ReadUInt", "Admin", 20)>>

StateTransaction_Serialize   == <<FX("WriteArray", "Descriptors", StateDescriptor_Serialize)>>
StateTransaction_Deserialize ==
    <<FX("ReadSerializableArray", "Descriptors", <<StateDescriptor_Deserialize, MaxLength>>)>>

ExclusiveData_Serialize(type) ==
    CASE type = MinerTransaction      -> MinerTransaction_Serialize
      [] type = ClaimTransaction      -> ClaimTransaction_Serialize
      [] type = EnrollmentTransaction -> EnrollmentTransaction_Serialize
      [] type = RegisterTransaction   -> RegisterTransaction_Serialize
      [] type = StateTransaction      -> StateTransaction_Serialize
      [] type = PublishTransaction    -> PublishTransaction_Serialize
      [] type = InvocationTransaction -> InvocationTransaction_Serialize
      [] OTHER                        -> <<>>

(* DeserializeFrom: a type it does not know is a transaction without data  *)
(* of its own.                                                             *)
ExclusiveData_Deserialize(type) ==
    CASE type = MinerTransaction      -> MinerTransaction_Deserialize
      [] type = IssueTransaction      -> IssueTransaction_Deserialize
      [] type = ClaimTransaction      -> ClaimTransaction_Deserialize
      [] type = EnrollmentTransaction -> EnrollmentTransaction_Deserialize
      [] type = RegisterTransaction   -> RegisterTransaction_Deserialize
      [] type = StateTransaction      -> StateTransaction_Deserialize
      [] type = PublishTransaction    -> PublishTransaction_Deserialize
      [] type = InvocationTransaction -> InvocationTransaction_Deserialize
      [] OTHER                        -> <<>>

Transaction_SerializeUnsigned ==
    <<F("WriteNumber", "Type"), F("WriteNumber", "Version"), FX("Choose", "", "Exclusive"),
      FX("WriteArray", "Attributes", TransactionAttribute_Serialize),
      FX("WriteArray", "inputs", CoinReference_Serialize),
      FX("WriteArray", "outputs", TransactionOutput_Serialize)>>

Transaction_Serialize ==
    Transaction_SerializeUnsigned \o <<FX("WriteArray", "scripts", Witness_Serialize)>>

DeserializeUnsignedWithoutType ==
    <<FX("ReadByte", "Version", 1), FX("Choose", "", "Exclusive"),
      FX("ReadSerializableArray", "Attributes", <<TransactionAttribute_Deserialize, 16>>),
      FX("ReadSerializableArray", "inputs", <<CoinReference_Deserialize, MaxLength>>),
      FX("ReadSerializableArray", "outputs", <<TransactionOutput_Deserialize, MaxLength>>)>>

Transaction_DeserializeFrom ==
    <<FX("ReadByte", "Type", 1)>> \o DeserializeUnsignedWithoutType \o
    <<FX("ReadList", "scripts", Witness_Deserialize), Refuse("MinerInputs")>>

TransactionState_Serialize ==
    StateBase_Serialize \o <<F("WriteNumber", "BlockIndex")>> \o Transaction_Serialize

TransactionState_Deserialize ==
    StateBase_Deserialize \o <<FX("ReadNumber", "BlockIndex", 4)>> \o Transaction_DeserializeFrom

-----------------------------------------------------------------------------
(* Blocks and headers; the witness is kept as two fields of the block. *)

BlockBase_SerializeUnsigned ==
    <<F("WriteNumber", "Version"), F("WriteUInt", "PrevHash"), F("WriteUInt", "MerkleRoot"),
      F("WriteNumber", "Timestamp"), F("WriteNumber", "Index"),
      F("WriteNumber", "ConsensusData"), F("WriteUInt", "NextConsensus")>>

BlockBase_DeserializeUnsigned ==
    <<FX("ReadNumber", "Version", 4), FX("ReadUInt", "PrevHash", 32),
      FX("ReadUInt", "MerkleRoot", 32), FX("ReadNumber", "Timestamp", 4),
      FX("ReadNumber", "Index", 4), FX("ReadNumber", "ConsensusData", 8),
      FX("ReadUInt", "NextConsensus", 20)>>

BlockBase_Serialize   == BlockBase_SerializeUnsigned \o <<Constant(1)>> \o Witness_Serialize
BlockBase_Deserialize ==
    BlockBase_DeserializeUnsigned \o <<FX("Expect", "", 1)>> \o Witness_Deserialize

Header_Serialize   == BlockBase_Serialize \o <<Constant(0)>>
Header_Deserialize == BlockBase_Deserialize \o <<FX("Expect", "", 0)>>

Block_Serialize == BlockBase_Serialize \o <<FX("WriteArray", "Transactions", Transaction_Serialize)>>

Block_DeserializeForImport ==
    BlockBase_Deserialize \o
    <<FX("ReadList", "Transactions", Transaction_DeserializeFrom), Refuse("NoTransactions")>>

Block_Deserialize == Block_DeserializeForImport \o <<Refuse("MerkleRoot")>>

(* The row of a block: its header and the hashes of its transactions. *)
Block_Trim == BlockBase_Serialize \o <<F("WriteTransactionHashes", "Transactions")>>

Block_FromTrimmedData ==
    BlockBase_DeserializeUnsigned \o <<FX("ReadByte", "-", 1)>> \o Witness_Deserialize \o
    <<F("ReadTransactionHashes", "Transactions"), Refuse("NoTransactions")>>

(* The row of a block read as a header: the hashes are left unread. *)
Header_FromTrimmedData ==
    BlockBase_DeserializeUnsigned \o <<FX("ReadByte", "-", 1)>> \o Witness_Deserialize

-----------------------------------------------------------------------------
(* neo/Network: the fields go by the names they have in neo/Core. *)

network_BlockBase_unsigned ==
    <<F("WriteNumber", "Version"), F("write_uint", "PrevHash"), F("write_uint", "MerkleRoot"),
      F("WriteNumber", "Timestamp"), F("WriteNumber", "Index"),
      F("WriteNumber", "ConsensusData"), F("write_uint", "NextConsensus")>>

(* The witness is never kept; an empty one is written. *)
network_BlockBase_serialize ==
    network_BlockBase_unsigned \o <<Constant(1), Constant(0), Constant(0)>>

network_BlockBase_deserialize ==
    <<FX("ReadNumber", "Version", 4), FX("read_uint", "PrevHash", 32),
      FX("read_uint", "MerkleRoot", 32), FX("ReadNumber", "Timestamp", 4),
      FX("ReadNumber", "Index", 4), FX("ReadNumber", "ConsensusData", 8),
      FX("read_uint", "NextConsensus", 20), FX("Expect", "", 1),
      FX("read_var_bytes", "-", MaxLength), FX("read_var_bytes", "-", MaxLength)>>

network_Header_serialize   == network_BlockBase_serialize \o <<Constant(0)>>
network_Header_deserialize == network_BlockBase_deserialize \o <<FX("Expect", "", 0)>>

(* The transactions are counted and not read; none is ever written. *)
network_Block_serialize   == network_BlockBase_serialize \o <<Constant(0)>>
network_Block_deserialize == network_BlockBase_deserialize \o <<FX("read_var_int", "-", MaxLength)>>

HeadersPayload_serialize   == <<FX("WriteArray", "headers", network_Header_serialize)>>
HeadersPayload_deserialize == <<FX("read_list", "headers", network_Header_deserialize)>>

(* Twelve zeros follow the four octets; the last four bytes of what is     *)
(* left without the zeros at the end are read.                             *)
NetworkAddress_serialize ==
    <<F("WriteNumber", "timestamp"), F("WriteNumber", "services"), F("write_octets", "address"),
      F("WriteNumber", "port")>>

NetworkAddress_deserialize ==
    <<FX("ReadNumber", "timestamp", 4), FX("ReadNumber", "services", 8),
      F("read_octets", "address"), FX("ReadNumber", "port", 2)>>

AddrPayload_serialize   == <<FX("WriteArray", "addresses", NetworkAddress_serialize)>>
AddrPayload_deserialize == <<FX("read_list", "addresses", NetworkAddress_deserialize)>>

InventoryPayload_serialize ==
    <<F("WriteNumber", "type"), FX("WriteArray", "hashes", <<F("write_uint", "hash")>>)>>

InventoryPayload_deserialize ==
    <<FX("ReadNumber", "type", 1), Refuse("InventoryType"),
      FX("read_list", "hashes", <<FX("read_uint", "hash", 32)>>)>>

PingPayload_serialize ==
    <<F("WriteNumber", "current_height"), F("WriteNumber", "timestamp"), F("WriteNumber", "nonce")>>

PingPayload_deserialize ==
    <<FX("ReadNumber", "current_height", 4), FX("ReadNumber", "timestamp", 4),
      FX("ReadNumber", "nonce", 4)>>

VersionPayload_serialize ==
    <<F("WriteNumber", "version"), F("WriteNumber", "services"), F("WriteNumber", "timestamp"),
      F("WriteNumber", "port"), F("WriteNumber", "nonce"), F("write_var_string", "user_agent"),
      F("WriteNumber", "start_height"), F("WriteNumber", "relay")>>

VersionPayload_deserialize ==
    <<FX("ReadNumber", "version", 4), FX("ReadNumber", "services", 8),
      FX("ReadNumber", "timestamp", 4), FX("ReadNumber", "port", 2), FX("ReadNumber", "nonce", 4),
      FX("read_var_string", "user_agent", MaxLength), FX("ReadNumber", "start_height", 4),
      F("ReadBool", "relay")>>

(* Only ever written: reading starts by making the payload without the     *)
(* hash it requires, and raises.                                           *)
GetBlocksPayload_serialize ==
    <<FX("WriteArray", "hash_start", <<F("write_uint", "hash")>>), F("write_uint", "hash_stop")>>

GetBlocksPayload_deserialize_from_bytes == <<Refuse("Always")>>

Message_serialize ==
    <<F("WriteNumber", "magic"), FX("write_fixed_string", "command", 12),
      F("WritePayloadLength", "payload"), F("WriteChecksum", "payload"), F("write_bytes", "payload")>>

Message_deserialize ==
    <<FX("ReadNumber", "magic", 4), FX("read_fixed_string", "command", 12),
      FX("ReadNumber", "payload_length", 4), Refuse("PayloadLength"),
      FX("ReadNumber", "checksum", 4), F("ReadPayload", "payload"), Refuse("Checksum")>>

-----------------------------------------------------------------------------
(* Running a layout. *)

ChosenToWrite(name, o) ==
    CASE name = "Data"        -> AttributeData_Serialize(o.Usage[1])
      [] name = "Exclusive"   -> ExclusiveData_Serialize(o.Type[1])
      [] name = "Gas"         -> IF o.Version[1] >= 1 THEN <<F("WriteNumber", "Gas")>> ELSE <<>>
      [] name = "NeedStorage" -> IF o.Version[1] >= 1
                                 THEN <<F("WriteNumber", "NeedStorage")>> ELSE <<>>

ChosenToRead(name, o) ==
    CASE name = "Data"        -> AttributeData_Deserialize(o.Usage[1])
      [] name = "Exclusive"   -> ExclusiveData_Deserialize(o.Type[1])
      [] name = "Gas"         -> IF o.Version[1] >= 1 THEN <<FX("ReadNumber", "Gas", 8)>>
                                 ELSE <<FX("Set", "Gas", Zeros(8))>>
      [] name = "NeedStorage" -> IF o.Version[1] >= 1 THEN <<F("ReadBool", "NeedStorage")>>
                                 ELSE <<FX("Set", "NeedStorage", <<0>>)>>

FirstBytes(b, n) == SubSeq(b, 1, IF Len(b) < n THEN Len(b) ELSE n)

RECURSIVE WriteLayout(_, _), WriteStep(_, _)

WriteStep(step, o) ==
    CASE step.m = "Constant"           -> WriteNumber(<<step.x>>)
      [] step.m = "WriteNumber"        -> WriteNumber(o[step.f])
      [] step.m = "WriteUInt"          -> WriteUInt(o[step.f])
      [] step.m = "write_uint"         -> write_bytes(o[step.f])
      [] step.m = "WriteBytes"         -> WriteBytes(o[step.f])
      [] step.m = "write_bytes"        -> write_bytes(o[step.f])
      [] step.m = "WriteTail"          -> WriteBytes(FirstBytes(Tail(o[step.f]), 32))
      [] step.m = "WriteVarBytes"      -> WriteVarBytes(o[step.f])
      [] step.m = "WriteVarString"     -> WriteVarString(o[step.f])
      [] step.m = "write_var_string"   -> write_var_string(o[step.f])
      [] step.m = "write_fixed_string" -> write_fixed_string(o[step.f], step.x)
      [] step.m = "write_octets"       -> write_bytes(o[step.f] \o Zeros(12))
      [] step.m = "WritePoint"         -> WritePoint(o[step.f])
      [] step.m = "WritePayloadLength" -> LittleEndian(Len(o[step.f]), 4)
      [] step.m = "WriteChecksum"      -> SubSeq(Hash256(o[step.f]), 1, 4)
      [] step.m = "Choose"             -> WriteLayout(ChosenToWrite(step.x, o), o)
      [] step.m = "WriteTransactionHashes" ->
            WriteHashes([i \in 1..Len(o[step.f]) |->
                Hash256(WriteLayout(Transaction_SerializeUnsigned, o[step.f][i]))])
      [] step.m = "WriteArray"         ->
            WriteVarInt(Len(o[step.f])) \o
            FlattenSeq([i \in 1..Len(o[step.f]) |-> WriteLayout(step.x, o[step.f][i])])

WriteLayout(layout, o) == FlattenSeq([i \in 1..Len(layout) |-> WriteStep(layout[i], o)])

TransactionHash(tx) == Hash256(WriteLayout(Transaction_SerializeUnsigned, tx))

DescriptorRefused(d) ==
    IF d.Type[1] = 64 THEN Len(d.Key) # 20 \/ d.Field # <<86, 111, 116, 101, 115>>
    ELSE Len(d.Key) # 33 \/ d.Field # <<82, 101, 103, 105, 115, 116, 101, 114, 101, 100>>

(* What makes a Deserialize raise on its own account. *)
Refused(name, o) ==
    CASE name = "StateVersion"    -> o.StateVersion # <<0>>
      [] name = "StateType"       -> o.Type[1] \notin {64, 72}
      [] name = "StateDescriptor" -> DescriptorRefused(o)
      [] name = "VersionNotZero"  -> o.Version # <<0>>
      [] name = "VersionAboveOne" -> o.Version[1] > 1
      [] name = "NoClaims"        -> o.Claims = <<>>
      [] name = "NoScript"        -> o.Script = <<>>
      [] name = "NegativeGas"     -> o.Gas[8] >= 128
      [] name = "MinerInputs"     -> o.Type[1] = MinerTransaction /\ o.inputs # <<>>
      [] name = "NoTransactions"  -> o.Transactions = <<>>
      [] name = "MerkleRoot"      ->
            o.MerkleRoot # ComputeRoot([i \in 1..Len(o.Transactions) |->
                                            TransactionHash(o.Transactions[i])])
      [] name = "InventoryType"   -> o.type[1] \notin {1, 2, 224}
      [] name = "PayloadLength"   -> FromLittleEndian(o.payload_length) > 33554432
      [] name = "Checksum"        -> o.checksum # SubSeq(Hash256(o.payload), 1, 4)
      [] name = "Always"          -> TRUE

RECURSIVE ReadLayout(_, _), ReadStep(_, _), ReadItems(_, _, _, _, _)

(* n more objects of a layout after those in items.  An array of the       *)
(* BinaryReader passes over an object that raises, wherever that leaves    *)
(* the stream; a loop of a Deserialize raises with it.                     *)
ReadItems(layout, n, r, items, passOver) ==
    IF n = 0 THEN Give(r, items)
    ELSE LET read == ReadLayout(layout, [r EXCEPT !.o = <<>>])
             q    == [read EXCEPT !.o = r.o]
         IN IF ~read.bad THEN ReadItems(layout, n - 1, q, Append(items, read.o), passOver)
            ELSE IF passOver
            THEN ReadItems(layout, n - 1, Mark([q EXCEPT !.bad = FALSE], "passed over"),
                           items, passOver)
            ELSE q

(* What has been read is compared, passed over or kept in its field. *)
Take(step, q) ==
    CASE step.m = "Expect" -> IF q.bad \/ q.v # <<step.x>> THEN Raise(q) ELSE q
      [] OTHER             -> IF q.bad \/ step.f = "-" THEN q
                              ELSE [q EXCEPT !.o = (step.f :> q.v) @@ @]

ReadStep(step, r) ==
    LET counted(q, layout, passOver) ==
            IF q.bad THEN q ELSE ReadItems(layout, q.v, q, <<>>, passOver)
        atMost(q, n) ==
            LET b == ReadBytes(q, n) IN IF Len(b.v) < n THEN Mark(b, "short data") ELSE b
        transactions(q) ==
            IF \E h \in ToSet(q.v) : \A tx \in Stored : TransactionHash(tx) # h THEN Raise(q)
            ELSE Give(q, [i \in 1..Len(q.v) |->
                            CHOOSE tx \in Stored : TransactionHash(tx) = q.v[i]])
        read == CASE step.m \in {"ReadByte", "Expect"} -> SafeReadBytes(r, 1)
               [] step.m = "ReadNumber"         -> ReadNumber(r, step.x)
               [] step.m = "ReadBool"           -> ReadBool(r)
               [] step.m = "ReadBytes"          -> ReadBytes(r, step.x)
               [] step.m = "ReadUInt"           -> ReadUInt(r, step.x)
               [] step.m = "read_uint"          -> read_uint(r, step.x)
               [] step.m = "ReadVarBytes"       -> ReadVarBytes(r, step.x)
               [] step.m = "ReadVarString"      -> ReadVarString(r, step.x)
               [] step.m = "read_var_bytes"     -> read_var_bytes(r, step.x)
               [] step.m = "read_var_string"    -> read_var_string(r, step.x)
               [] step.m = "read_var_int"       -> read_var_int(r, step.x)
               [] step.m = "read_fixed_string"  -> read_fixed_string(r, step.x)
               [] step.m = "ReadPoint"          -> decode_from_reader(r)
               [] step.m = "ReadBytesAfterZeros" ->
                    LET b == ReadBytes(r, 32) IN Give(b, Zeros(step.x) \o b.v)
               [] step.m = "ReadShortBytes"     ->
                    Then(SafeReadBytes(r, 1), LAMBDA n : atMost(n, n.v[1]))
               [] step.m = "ReadScriptBytes"    ->
                    Then(ReadVarInt(r, MaxLength), LAMBDA n : atMost(n, n.v))
               [] step.m = "read_octets"        ->
                    LET a == read_fixed_string(r, 16)
                    IN IF a.bad \/ Len(a.v) <= 4 THEN a
                       ELSE Give(a, SubSeq(a.v, Len(a.v) - 3, Len(a.v)))
               [] step.m = "ReadPayload"        ->
                    read_bytes(r, FromLittleEndian(r.o.payload_length))
               [] step.m = "ReadList"           ->
                    counted(ReadVarInt(r, MaxLength), step.x, FALSE)
               [] step.m = "read_list"          ->
                    counted(read_var_int(r, MaxLength), step.x, FALSE)
               [] step.m = "ReadSerializableArray" ->
                    counted(ReadVarInt(r, step.x[2]), step.x[1], TRUE)
               [] step.m = "ReadTransactionHashes" ->
                    Then(ReadHashes(r, MaxLength), transactions)
               [] step.m = "Set"                -> Give(r, step.x)
    IN CASE step.m = "Refuse" -> IF Refused(step.x, r.o) THEN Raise(r) ELSE r
         [] step.m = "Choose" -> ReadLayout(ChosenToRead(step.x, r.o), r)
         [] OTHER             -> Take(step, read)

ReadLayout(layout, r) ==
    FoldLeft(LAMBDA q, step : IF q.bad THEN q ELSE ReadStep(step, q), r, layout)
=============================================================================
