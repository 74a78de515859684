------------------------------ MODULE Streams -------------------------------
(***************************************************************************)
(* The binary readers and writers of the node and the pool of streams they *)
(* work on.  There are two pairs: neo/Core/IO (names in CamelCase) and     *)
(* neo/Network/core/io (names in snake_case); they differ in what happens  *)
(* at the end of a stream and in which writes try to undo hexadecimal text *)
(* first.                                                                  *)
(*                                                                         *)
(* A byte is a number below 256, a stream a sequence of bytes.  A number   *)
(* of a format is kept as its bytes, the least significant first, so that  *)
(* no width is lost.  A reader is a record:                                *)
(*   s     the stream               p     where the next read starts       *)
(*   v     what the last read gave  bad   a read has raised                *)
(*   o     the fields read so far   marks what was lost without raising    *)
(* Encodings of text, and lengths above MaxVarInt, are left out.           *)
(***************************************************************************)
EXTENDS Naturals, Sequences, SequencesExt, TLC

(* The numbers that are computed with are below 2^31. *)
LittleEndian(n, w) == [i \in 1..w |-> IF i > 4 THEN 0 ELSE (n \div 256^(i - 1)) % 256]

(* A number of 2^26 and more counts as 2^26: every limit is below it. *)
FromLittleEndian(b) ==
    IF \E i \in 4..Len(b) : b[i] > (IF i = 4 THEN 3 ELSE 0) THEN 2^26
    ELSE FoldRight(LAMBDA x, sum : x + 256 * sum, SubSeq(b, 1, IF Len(b) < 4 THEN Len(b) ELSE 4), 0)

Zeros(n) == [i \in 1..n |-> 0]

-----------------------------------------------------------------------------
(* Writing. *)

HexDigit == (48..57) \cup (65..70) \cup (97..102)

HexValue(c) == IF c <= 57 THEN c - 48 ELSE IF c <= 70 THEN c - 55 ELSE c - 87

(* binascii.unhexlify succeeds: an even number of hexadecimal digits. *)
IsHexText(b) == Len(b) % 2 = 0 /\ \A i \in 1..Len(b) : b[i] \in HexDigit

(* WriteBytes(value): bytes that happen to be hexadecimal text are written *)
(* as the bytes the text stands for.                                       *)
WriteBytes(b) ==
    IF IsHexText(b)
    THEN [i \in 1..(Len(b) \div 2) |-> 16 * HexValue(b[2 * i - 1]) + HexValue(b[2 * i])]
    ELSE b

write_bytes(b) == WriteBytes(b)

(* WriteByte and the struct.pack writers: unhex is False. *)
WriteNumber(b) == b

WriteVarInt(n) ==
    IF n < 253 THEN <<n>>
    ELSE IF n <= 65535 THEN <<253>> \o LittleEndian(n, 2)
    ELSE <<254>> \o LittleEndian(n, 4)

WriteVarBytes(b) == WriteVarInt(Len(b)) \o b

(* The value is turned into hexadecimal text and back: itself. *)
WriteVarString(b) == WriteVarInt(Len(b)) \o b

(* The length is that of the text, whatever write_bytes makes of it. *)
write_var_string(b) == WriteVarInt(Len(b)) \o write_bytes(b)

write_fixed_string(b, n) == write_bytes(b) \o Zeros(n - Len(b))

(* WriteUInt160 and WriteUInt256 give the data to WriteBytes. *)
WriteUInt(b) == WriteBytes(b)

WriteHashes(hashes) ==
    WriteVarInt(Len(hashes)) \o FlattenSeq([i \in 1..Len(hashes) |-> WriteBytes(hashes[i])])

-----------------------------------------------------------------------------
(* Reading. *)

ReaderOf(s) == [s |-> s, p |-> 1, v |-> <<>>, bad |-> FALSE, o |-> <<>>, marks |-> {}]

Raise(r) == [r EXCEPT !.bad = TRUE]

Mark(r, m) == [r EXCEPT !.marks = @ \cup {m}]

Give(r, v) == [r EXCEPT !.v = v]

(* An exception ends what follows it. *)
Then(q, Rest(_)) == IF q.bad THEN q ELSE Rest(q)

(* What was read has to be n bytes. *)
Whole(q, n) == IF Len(q.v) < n THEN Raise(q) ELSE q

(* ReadBytes: as many bytes as there are, up to n. *)
ReadBytes(r, n) ==
    LET left == Len(r.s) + 1 - r.p
        m    == IF n < left THEN n ELSE left
    IN [r EXCEPT !.v = SubSeq(r.s, r.p, r.p + m - 1), !.p = @ + m]

(* SafeReadBytes and ReadByte raise ValueError when bytes are missing; the *)
(* ones that were there are consumed.                                      *)
SafeReadBytes(r, n) == Whole(ReadBytes(r, n), n)

(* struct.unpack raises unless it gets exactly the width. *)
ReadNumber(r, w) == Whole(ReadBytes(r, w), w)

ReadBool(r) ==
    Then(ReadNumber(r, 1), LAMBDA q : Give(q, IF q.v = <<0>> THEN <<0>> ELSE <<1>>))

(* The number after its first byte. *)
VarIntRest(q, max) ==
    LET width == 253 :> 2 @@ 254 :> 4 @@ 255 :> 8
        AtMost(n, value) == IF value > max THEN Raise(n) ELSE Give(n, value)
    IN Then(IF q.v[1] \in DOMAIN width THEN ReadNumber(q, width[q.v[1]]) ELSE q,
            LAMBDA n : AtMost(n, FromLittleEndian(n.v)))

(* At the end of the stream the number is zero. *)
ReadVarInt(r, max) ==
    LET q == SafeReadBytes(r, 1) IN IF q.bad THEN Give(r, 0) ELSE VarIntRest(q, max)

(* The network's reader raises there. *)
read_var_int(r, max) ==
    Then(SafeReadBytes(r, 1), LAMBDA q : VarIntRest(q, max))

\* Mutant: as many bytes as there are.
ReadVarBytesOfAnyLength(r, max) ==
    Then(ReadVarInt(r, max), LAMBDA q : ReadBytes(q, q.v))

ReadVarBytes(r, max) ==
    Then(ReadVarInt(r, max), LAMBDA q : SafeReadBytes(q, q.v))

ReadVarString(r, max) ==
    Then(ReadVarInt(r, max), LAMBDA q : ReadNumber(q, q.v))

read_bytes(r, n) == SafeReadBytes(r, n)

read_var_bytes(r, max) ==
    Then(read_var_int(r, max), LAMBDA q : read_bytes(q, q.v))

read_var_string(r, max) ==
    Then(read_var_int(r, max), LAMBDA q : ReadNumber(q, q.v))

(* What is left of b without the zeros at its end. *)
StripZeros(b) ==
    SubSeq(b, 1, CHOOSE n \in 0..Len(b) : /\ n = 0 \/ b[n] # 0
                                         /\ \A i \in (n + 1)..Len(b) : b[i] = 0)

read_fixed_string(r, n) ==
    Then(read_bytes(r, n), LAMBDA q : Give(q, StripZeros(q.v)))

(* The constructor of UInt160 and UInt256 refuses data of another length. *)
UIntOf(r, n) == IF Len(r.v) # n THEN Raise(r) ELSE r

ReadUInt(r, n) == UIntOf(ReadBytes(r, n), n)

(* The network's constructor first undoes hexadecimal text. *)
read_uint(r, n) ==
    Then(read_bytes(r, n), LAMBDA q : UIntOf(Give(q, write_bytes(q.v)), n))

(* ReadHashes: each hash is what ReadBytes(32) gives, of any length. *)
RECURSIVE HashesFrom(_, _, _)
HashesFrom(r, n, hashes) ==
    IF n = 0 THEN Give(r, hashes)
    ELSE LET q == ReadBytes(r, 32) IN HashesFrom(q, n - 1, Append(hashes, q.v))

ReadHashes(r, max) ==
    Then(ReadVarInt(r, max), LAMBDA q : HashesFrom(q, q.v, <<>>))

(* A point of the curve as its compressed encoding, <<0>> being Infinity;  *)
(* every abscissa is taken to be one of a point.  Fewer than 32 bytes are  *)
(* read as a smaller number.                                               *)
decode_from_reader(r) ==
    LET q == SafeReadBytes(r, 1)
        x == ReadBytes(q, 32)
    IN IF q.bad \/ q.v = <<0>> THEN Give([r EXCEPT !.p = q.p], <<0>>)
       ELSE IF q.v[1] \notin {2, 3} THEN Raise(q)
       ELSE IF Len(x.v) < 32
            THEN Mark(Give(x, q.v \o Zeros(32 - Len(x.v)) \o x.v), "short point")
            ELSE Give(x, q.v \o x.v)

(* ECPoint.Serialize: one zero byte for Infinity; else the encoding, which *)
(* encode_point gives as hexadecimal text.                                 *)
WritePoint(b) == b

-----------------------------------------------------------------------------
(* The pool of streams.  A pool is [total |-> streams made so far,         *)
(* free |-> the contents of those available].                              *)

(* The contents the stream starts with; a reader passes its data, a writer *)
(* none.                                                                   *)
GetStream(pool, data) ==
    IF pool.free = <<>>
    THEN [pool |-> [pool EXCEPT !.total = @ + 1], content |-> data]
    ELSE [pool    |-> [pool EXCEPT !.free = Front(@)],
          content |-> IF data = <<>> THEN Last(pool.free) ELSE data]

\* Mutant: a stream keeps what was written to it.
ReleaseStreamUntouched(pool, content) == [pool EXCEPT !.free = Append(@, content)]

(* Cleanup: truncated before it is available again. *)
ReleaseStream(pool, content) == [pool EXCEPT !.free = Append(@, <<>>)]

(* Bytes written from the start of a stream. *)
Overwrite(content, b) == b \o SubSeq(content, Len(b) + 1, Len(content))
=============================================================================
