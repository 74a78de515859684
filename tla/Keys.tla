-------------------------------- MODULE Keys --------------------------------
(***************************************************************************)
(* Keys, addresses and the scripts of the node's own contracts             *)
(* (neo/Core/KeyPair.py, neo/Core/Helper.py, neo/Core/Cryptography/        *)
(* Helper.py, neo/SmartContract/Contract.py).  The private key and its     *)
(* texts are sequences of bytes.  Base 58, the ciphers and the public key  *)
(* of a private one come from libraries and are external.                  *)
(***************************************************************************)
EXTENDS Curve, ScriptBuilder, MerkleTree, Bitwise

(* Base 58, one text for every sequence of bytes: here of the same length, *)
(* so that the lengths asked of a text are those of its bytes.             *)
b58encode(b) == [i \in 1..Len(b) |-> 255 - b[i]]
b58decode(t) == [i \in 1..Len(t) |-> 255 - t[i]]

(* scrypt: 64 bytes from a passphrase and a salt. *)
scrypt(passphrase, salt) == Hash256(passphrase \o salt) \o Hash256(<<1>> \o passphrase \o salt)

(* AES: a permutation of the blocks for every key. *)
AES(key, block)   == [i \in 1..Len(block) |-> (block[i] + key[1 + (i % 2)] + i) % 256]
UnAES(key, block) == [i \in 1..Len(block) |-> (block[i] + 512 - key[1 + (i % 2)] - i) % 256]

(* The public key of a private one, encoded. *)
PublicKeyOf(privateKey) == <<2>> \o Hash256(privateKey)

Hash160(b) == SubSeq(Hash256(b), 1, 20)

XorBytes(a, b) == [i \in 1..Len(a) |-> a[i] ^^ b[i]]

Checksum(b) == SubSeq(Hash256(b), 1, 4)

(* Bytes lo to hi, counted from zero and hi not included, as far as there. *)
Slice(b, lo, hi) == SubSeq(b, lo + 1, IF hi < Len(b) THEN hi ELSE Len(b))

ADDRESS_VERSION == 23
NEP_HEADER == <<1, 66, 224>>

-----------------------------------------------------------------------------
(* Addresses. *)

scripthash_to_address(scriptHash) ==
    LET b == <<ADDRESS_VERSION>> \o scriptHash IN b58encode(b \o Checksum(b))

AddrStrToScriptHash(r) ==
    LET data == b58decode(r.s)
    IN IF \/ Len(data) # 25
          \/ data[1] # ADDRESS_VERSION
          \/ Checksum(Slice(data, 0, 21)) # Slice(data, 21, 25)
       THEN Raise(r)
       ELSE Give(r, Slice(data, 1, 21))

GetAddress(privateKey) ==
    scripthash_to_address(Hash160(<<33>> \o PublicKeyOf(privateKey) \o <<CHECKSIG>>))

-----------------------------------------------------------------------------
(* Private keys. *)

Export(privateKey) ==
    LET b == <<128>> \o privateKey \o <<1>> IN b58encode(b \o Checksum(b))

PrivateKeyFromWIF(r) ==
    LET data == b58decode(r.s)
    IN IF \/ Len(data) # 38 \/ data[1] # 128 \/ data[34] # 1
          \/ Checksum(Slice(data, 0, 34)) # Slice(data, 34, 38)
       THEN Raise(r)
       ELSE Give(r, Slice(data, 1, 33))

ExportNEP2(privateKey, passphrase) ==
    LET addressHash == Checksum(GetAddress(privateKey))
        derived     == scrypt(passphrase, addressHash)
        encrypted   == AES(Slice(derived, 32, 64), XorBytes(privateKey, Slice(derived, 0, 32)))
        assembled   == NEP_HEADER \o addressHash \o encrypted
    IN b58encode(assembled \o Checksum(assembled))

(* The header is not looked at. *)
PrivateKeyFromNEP2(r, passphrase) ==
    LET whole       == b58decode(r.s)
        decoded     == Slice(whole, 0, 39)
        addressHash == Slice(decoded, 3, 7)
        derived     == scrypt(passphrase, addressHash)
        privateKey  == XorBytes(UnAES(Slice(derived, 32, 64), Slice(decoded, 7, 39)),
                                Slice(derived, 0, 32))
    IN IF \/ Len(whole) # 43
          \/ Checksum(decoded) # Slice(whole, 39, 43)
          \/ Checksum(GetAddress(privateKey)) # addressHash
       THEN Raise(r)
       ELSE Give(r, privateKey)

-----------------------------------------------------------------------------
(* Contracts. *)

CreateSignatureRedeemScript(publicKey) == PushBytes(publicKey) \o <<CHECKSIG>>

\* Mutant: the members are left as they are listed.
SortedAsListed(points) == points

(* sort(): stable, by the order of the points. *)
Sorted(points) ==
    LET before(j, i) == \/ PointLess(points[j], points[i])
                        \/ j < i /\ ~PointLess(points[i], points[j])
        place(i) == 1 + Cardinality({j \in DOMAIN points : before(j, i)})
    IN [n \in DOMAIN points |-> points[CHOOSE i \in DOMAIN points : place(i) = n]]

(* CreateMultiSigContract decodes the keys first; <<>> when it raises. *)
CreateMultiSigRedeemScript(m, publicKeys) ==
    LET points == [i \in DOMAIN publicKeys |-> DecodeChecked(publicKeys[i])]
    IN IF m < 1 \/ m > Len(publicKeys) \/ \E i \in DOMAIN points : points[i] = NoPoint THEN <<>>
       ELSE PushInt(m) \o
            FlattenSeq([i \in DOMAIN points |-> PushBytes(EncodePoint(Sorted(points)[i], TRUE))]) \o
            PushInt(Len(publicKeys)) \o <<CHECKMULTISIG>>
=============================================================================
