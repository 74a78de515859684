----------------------------- MODULE StackItems -----------------------------
(***************************************************************************)
(* The items on the stacks of the virtual machine, with the bytes they are *)
(* made of: neo/VM/InteropService.py and neo/Core/BigInteger.py.           *)
(*                                                                         *)
(* An item is a byte string, an integer or a reference to an object of the *)
(* heap.  Arrays, structs, maps and interfaces have an identity, and so    *)
(* have Booleans: as keys of a map they are told apart by it.              *)
(* Integers are below 2^23, strings that are read as numbers as short.     *)
(***************************************************************************)
EXTENDS Integers, FiniteSetsExt, Streams

Bytes(b) == [bytes |-> b]
Int32(n) == [int |-> n]
Ref(id) == [ref |-> id]

\* A hash, address or key: 20, 32 or 33 bytes that are kept as what they name.
Named(size, what) == [size |-> size, what |-> what]

\* What StackItem.New(None) leaves on a stack; whatever uses it raises.
None == [none |-> TRUE]

IsBytes(x) == "bytes" \in DOMAIN x
IsInt(x) == "int" \in DOMAIN x
IsRef(x) == "ref" \in DOMAIN x
IsNamed(x) == "size" \in DOMAIN x

Kind(heap, x) ==
    CASE IsBytes(x) \/ IsNamed(x) -> "ByteArray"
      [] IsInt(x)                 -> "Integer"
      [] IsRef(x)                 -> heap[x.ref].kind
      [] OTHER                    -> "None"

Arrays == {"Array", "Struct"}
Collections == Arrays \cup {"Map"}

ArrayOf(kind, items) == [kind |-> kind, items |-> items]
MapOf(keys, values) == [kind |-> "Map", keys |-> keys, values |-> values]
BooleanOf(b) == [kind |-> "Boolean", value |-> b]

\* An object put on the heap, and the item that refers to it.
New(heap, object) == [heap |-> Append(heap, object), item |-> Ref(Len(heap) + 1)]

-----------------------------------------------------------------------------
(* BigInteger. *)

BitLength(n) ==
    LET m == IF n < 0 THEN -n ELSE n IN Min({k \in 0..24 : m < 2^k})

TwosComplement(n, width) == [i \in 1..width |-> (n \div 256^(i - 1)) % 256]

\* The last byte that is not 0xff; the one in front of all has them all.
LastUnlike255(data) == Max({1} \cup {i \in DOMAIN data : data[i] # 255})

\* data has one byte more than the number is wide.
Shortened(n, data) ==
    LET width == Len(data) - 1
    IN  IF n > 0 THEN SubSeq(data, 1, IF n < 2^(8 * width - 1) THEN width ELSE width + 1)
        ELSE SubSeq(data, 1, IF data[LastUnlike255(data)] < 128 THEN width + 1 ELSE width)

\* A negative number loses the byte in front when the next one down that is
\* not 0xff has the sign already.
ToByteArray(n) ==
    IF n = 0 THEN <<0>> ELSE Shortened(n, TwosComplement(n, (BitLength(n) + 7) \div 8 + 1))

\* Without a sign.  Longer strings than three bytes are as large as can be,
\* unless zeros follow.
Unsigned(b) ==
    IF \E i \in 4..Len(b) : b[i] # 0 THEN 2^24
    ELSE FoldRight(LAMBDA x, sum : x + 256 * sum, SubSeq(b, 1, Min({3, Len(b)})), 0)

\* With the sign in the last byte.
FromBytes(b) ==
    Unsigned(b) - (IF b # <<>> /\ Last(b) >= 128 THEN 256^Min({3, Len(b)}) ELSE 0)

-----------------------------------------------------------------------------
(* What an item reads as.  Raises stands for an exception. *)

Raises == <<-1>>

GetByteArray(heap, x) ==
    CASE IsBytes(x)                  -> x.bytes
      [] IsInt(x)                    -> ToByteArray(x.int)
      [] Kind(heap, x) = "Boolean"   -> IF heap[x.ref].value THEN <<1>> ELSE <<>>
      [] OTHER                       -> Raises

IsNumber(heap, x) == IsBytes(x) \/ IsInt(x) \/ Kind(heap, x) = "Boolean"

GetBigInteger(heap, x) == IF IsInt(x) THEN x.int ELSE FromBytes(GetByteArray(heap, x))

\* StackItem.__hash__ of the bytes, id() of everything else.  Longer strings
\* than five bytes do not collide here.
Hash(heap, x) ==
    IF IsBytes(x) \/ IsInt(x)
    THEN LET b == GetByteArray(heap, x)
         IN  IF Len(b) > 5 THEN <<"long", b>> ELSE <<"bytes", FoldLeft(LAMBDA sum, c : 31 * sum + c, 17, b)>>
    ELSE IF IsRef(x) THEN <<"id", x.ref>> ELSE <<"named", x>>

\* The key a dictionary finds: the hash is all that __eq__ compares.
Found(heap, keys, key) == {i \in DOMAIN keys : Hash(heap, keys[i]) = Hash(heap, key)}

\* Map.SetItem: the key that was there stays, with the new value.
Put(heap, map, key, value) ==
    IF Found(heap, map.keys, key) = {}
    THEN MapOf(Append(map.keys, key), Append(map.values, value))
    ELSE [map EXCEPT !.values[Min(Found(heap, map.keys, key))] = value]

-----------------------------------------------------------------------------
(* EQUAL.  Inside lists and dictionaries Python compares with __eq__, which *)
(* for strings and integers is equality of hashes.  `deep` calls are left   *)
(* before the interpreter gives up: an item that contains itself raises.    *)

RECURSIVE Equals(_, _, _, _)

Eq(heap, x, y, deep) ==
    IF x = y \/ Hash(heap, x) = Hash(heap, y) THEN "yes"
    ELSE IF IsRef(x) THEN Equals(heap, x, y, deep) ELSE "no"

\* The answer of the first pair that is not equal.
EqPairs(heap, xs, ys, deep) ==
    LET unlike == {i \in DOMAIN xs : Eq(heap, xs[i], ys[i], deep) # "yes"}
    IN IF unlike = {} THEN "yes" ELSE Eq(heap, xs[Min(unlike)], ys[Min(unlike)], deep)

EqualMaps(heap, m, n, deep) ==
    IF \/ Len(m.keys) # Len(n.keys)
       \/ \E i \in DOMAIN m.keys : Found(heap, n.keys, m.keys[i]) = {}
    THEN "no"
    ELSE EqPairs(heap, m.values,
                 [i \in DOMAIN m.keys |-> n.values[Min(Found(heap, n.keys, m.keys[i]))]], deep)

\* What an interface holds is compared by Python: these by value, or they are one object
\* in the snapshot.  The others are equal to themselves only, as if fetched anew each time.
Comparable == {"Header", "Block", "Input", "Output", "Account", "Contract", "Asset", "Nothing"}

EqualObjects(heap, x, y, deep) ==
    IF deep = 0 THEN "raises"
    ELSE IF Kind(heap, x) # Kind(heap, y) THEN "no"
    ELSE IF Kind(heap, x) = "Map" THEN EqualMaps(heap, heap[x.ref], heap[y.ref], deep - 1)
    ELSE IF Kind(heap, x) \in Arrays
         THEN IF Len(heap[x.ref].items) # Len(heap[y.ref].items) THEN "no"
              ELSE EqPairs(heap, heap[x.ref].items, heap[y.ref].items, deep - 1)
    ELSE IF Kind(heap, x) \in Comparable /\ heap[x.ref] = heap[y.ref] THEN "yes"
    ELSE "no"

EqualBytes(heap, x, y) ==
    IF GetByteArray(heap, x) = GetByteArray(heap, y) THEN "yes" ELSE "no"

\* A string is unlike what has no bytes; an integer or a Boolean asks for the
\* bytes of the other, which raises.
Equals(heap, x, y, deep) ==
    CASE x = None                        -> "raises"
      [] y = None                        -> "no"
      [] x = y                           -> "yes"
      [] IsNamed(x) \/ IsNamed(y)        -> "no"
      [] IsNumber(heap, x) /\ IsNumber(heap, y) -> EqualBytes(heap, x, y)
      [] IsNumber(heap, x) /\ ~IsBytes(x) -> "raises"
      [] IsBytes(x)                      -> "no"
      [] OTHER                           -> EqualObjects(heap, x, y, deep)

RECURSIVE Clone(_, _, _)

CloneItems(heap, items, deep) ==
    FoldLeft(LAMBDA acc, x :
                LET c == IF Kind(acc.heap, x) = "Struct" THEN Clone(acc.heap, x, deep)
                         ELSE [heap |-> acc.heap, item |-> x]
                IN [heap |-> c.heap, items |-> Append(acc.items, c.item)],
             [heap |-> heap, items |-> <<>>], items)

\* Struct.Clone: structs inside are cloned, everything else is shared.  A
\* struct cannot be inside itself: what is put in is cloned before.
Clone(heap, x, deep) ==
    LET c == IF deep = 0 THEN [heap |-> heap, items |-> <<>>]
             ELSE CloneItems(heap, heap[x.ref].items, deep - 1)
    IN New(c.heap, ArrayOf("Struct", c.items))

-----------------------------------------------------------------------------
(* StackItem.Serialize and DeserializeStackItem. *)

TypeByte == [ByteArray |-> 0, Boolean |-> 1, Integer |-> 2,
             Array |-> 128, Struct |-> 129, Map |-> 130]

Joined(parts) == IF \E i \in DOMAIN parts : parts[i] = Raises THEN Raises ELSE FlattenSeq(parts)

RECURSIVE Serialize(_, _, _)

SerializeAll(heap, items, deep) ==
    Joined([i \in DOMAIN items |-> Serialize(heap, items[i], deep)])

Pairs(map) ==
    [i \in 1..(2 * Len(map.keys)) |->
        IF i % 2 = 1 THEN map.keys[(i + 1) \div 2] ELSE map.values[i \div 2]]

\* Mutant: the count of a map is that of keys and values.
SerializeMapTwice(heap, map, deep) ==
    Joined(<<WriteVarInt(2 * Len(map.keys)), SerializeAll(heap, Pairs(map), deep)>>)

SerializeMap(heap, map, deep) ==
    Joined(<<WriteVarInt(Len(map.keys)), SerializeAll(heap, Pairs(map), deep)>>)

\* An interface raises, and so does an item that contains itself.
Serialize(heap, x, deep) ==
    LET kind == Kind(heap, x)
    IN CASE deep = 0 \/ kind \notin DOMAIN TypeByte \/ IsNamed(x) -> Raises
         [] kind \in {"ByteArray", "Integer"} ->
                <<TypeByte[kind]>> \o WriteVarBytes(GetByteArray(heap, x))
         [] kind = "Boolean" -> <<1, IF heap[x.ref].value THEN 1 ELSE 0>>
         [] kind \in Arrays ->
                Joined(<< <<TypeByte[kind]>>, WriteVarInt(Len(heap[x.ref].items)),
                          SerializeAll(heap, heap[x.ref].items, deep - 1)>>)
         [] kind = "Map" ->
                Joined(<< <<TypeByte[kind]>>, SerializeMap(heap, heap[x.ref], deep - 1)>>)

\* A reader with the heap it fills and the item it has read last.
State(r, heap, item) == [r |-> r, heap |-> heap, item |-> item]
Added(r, made) == State(r, made.heap, made.item)

RECURSIVE DeserializeStackItem(_, _)

WithNext(acc, s) == [s |-> s, items |-> Append(acc.items, s.item)]

\* Items one after the other, until n are read or one cannot be.
DeserializeAll(s, items, n) ==
    FoldLeft(LAMBDA acc, i : IF acc.s.r.bad THEN acc ELSE WithNext(acc, DeserializeStackItem(acc.s.r, acc.s.heap)),
             [s |-> s, items |-> items], [i \in 1..n |-> i])

MapFrom(heap, items) ==
    FoldLeft(LAMBDA map, i : Put(heap, map, items[2 * i - 1], items[2 * i]),
             MapOf(<<>>, <<>>), [i \in 1..(Len(items) \div 2) |-> i])

ReadBoolean(v) == v # <<0>>

\* What follows the type byte of a string, an integer, a Boolean.
Text(r, heap) == State(r, heap, Bytes(r.v))
Number(r, heap) == State(r, heap, Int32(FromBytes(r.v)))
Truth(r, heap) == Added(r, New(heap, BooleanOf(ReadBoolean(r.v))))

\* A collection of `count` items, of which the reader s has read all it can.
Filled(t, heap, count, all) ==
    CASE count.bad \/ all.s.r.bad -> State(Raise(t), heap, None)
      [] t.v = <<128>> -> Added(all.s.r, New(all.s.heap, ArrayOf("Array", all.items)))
      [] t.v = <<129>> -> Added(all.s.r, New(all.s.heap, ArrayOf("Struct", all.items)))
      [] t.v = <<130>> -> Added(all.s.r, New(all.s.heap, MapFrom(all.s.heap, all.items)))

FillFrom(t, heap, count) ==
    Filled(t, heap, count,
           DeserializeAll(State(count, heap, None), <<>>, IF t.v = <<130>> THEN 2 * count.v ELSE count.v))

\* The type byte has been read.
DeserializeTyped(t, heap) ==
    CASE t.bad \/ t.v[1] \notin {0, 1, 2, 128, 129, 130} -> State(Raise(t), heap, None)
      [] t.v = <<0>> -> Text(ReadVarBytes(t, 2^26), heap)
      [] t.v = <<2>> -> Number(ReadVarBytes(t, 2^26), heap)
      [] t.v = <<1>> -> Truth(SafeReadBytes(t, 1), heap)
      [] OTHER -> FillFrom(t, heap, ReadVarInt(t, 2^26))

DeserializeStackItem(r, heap) == DeserializeTyped(ReadNumber(r, 1), heap)
=============================================================================
