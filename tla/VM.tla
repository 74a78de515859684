--------------------------------- MODULE VM ---------------------------------
(***************************************************************************)
(* The virtual machine (neo/VM/ExecutionEngine.py and the stacks of        *)
(* RandomAccessStack.py, ExecutionContext.py, InteropService.py) with the  *)
(* metering ApplicationEngine.py adds: one step is one ExecuteNext.        *)
(*                                                                         *)
(* A script is not fixed in advance: an address holds Unread until it is   *)
(* first reached, any instruction of the program's code is then found      *)
(* there and stays there.  Data is kept as far as control depends on it:   *)
(* an item is a small integer (a byte string or a Boolean is the integer   *)
(* it reads as) or a reference to an array, struct or map of the heap.     *)
(* What a numeric, string or cryptographic instruction computes is any     *)
(* value of Values, or a fault where the code bounds the result.           *)
(***************************************************************************)
EXTENDS Integers, Sequences, FiniteSets, SequencesExt

CONSTANTS
    MaxStackSize,       \* ExecutionEngine.maxStackSize (2048)
    MaxInvocationStack, \* maxInvocationStackSize (1024)
    MaxArraySize,       \* maxArraySize (1024)
    GasAmount,          \* gas_amount in units of ratio (10000 and what was paid)
    IntMax,             \* int_MaxValue (2147483647)
    MaxFreeOps,         \* max_free_ops of a test invocation (500000)
    Costs,              \* prices of calls, hashes and signature checks (10, 10, 100)
    Values,             \* the integers a computation may yield
    Script,             \* script hashes
    Deployed,           \* which of them are contracts of the snapshot
    DynamicInvoke,      \* which of those HasDynamicInvoke
    Unread              \* an address not reached yet

ASSUME VMAssumption ==
    /\ {MaxStackSize, MaxInvocationStack, MaxArraySize, GasAmount, MaxFreeOps} \subseteq Nat
    /\ IntMax \in Nat /\ IntMax > MaxStackSize
    /\ Costs \in [{"call", "hash", "sign"} -> Nat \ {0}]
    /\ {0, 1} \subseteq Values /\ Values \subseteq Int
    /\ DynamicInvoke \subseteq Deployed /\ Deployed \subseteq Script

VARIABLES
    code,       \* the instructions the scripts are written in
    script,     \* script[s][a]: the instruction at address a of script s
    testMode,   \* ApplicationEngine.testMode
    vmState,    \* VMState: "NONE" while it runs, then "HALT" or "FAULT"
    frames,     \* InvocationStack, the running context last
    result,     \* ResultStack
    heap,       \* the arrays, structs and maps, and the Python lists they hold
    counted,    \* _stackitem_count
    strict,     \* _is_stackitem_count_strict
    gas,        \* gas_consumed, where it is compared: not in a test invocation
    ops,        \* ops_processed, where it is compared: in a test invocation
    notes,      \* StateReader.notifications: what Runtime.Notify was given
    recounted,  \* whether the items were ever counted anew (history)
    multisigs   \* CHECKMULTISIG instructions executed (history)

machine == <<frames, result, heap, counted, strict, recounted, multisigs>>
vmVars == <<code, script, testMode, vmState, gas, ops, notes, machine>>

Running == vmState = "NONE"

(***************************************************************************)
(* Items and stacks (RandomAccessStack).  The top of a stack is the end of *)
(* the sequence.  CALL_EDT can leave a stack whose _size is larger than    *)
(* its list; the difference is Holes on top, and reaching one is an        *)
(* IndexError.  Size is the length of the list, and Real the list.         *)
(***************************************************************************)
Num(n) == <<"int", n>>
Ref(o) == <<"obj", o>>
Hole == <<"hole", 0>>
Truth(b) == Num(IF b THEN 1 ELSE 0)

IsNum(x) == x[1] = "int"
Size(s) == Cardinality({i \in DOMAIN s : s[i] # Hole})
Real(s) == SubSeq(s, 1, Size(s))
Holes(s) == SubSeq(s, Size(s) + 1, Len(s))

Push(s, xs) == Real(s) \o Real(xs) \o Holes(s) \o Holes(xs)
Reach(s, i) == i < Len(s) /\ s[Len(s) - i] # Hole
Peek(s, i) == s[Len(s) - i]
Less(s, n) == SubSeq(s, 1, Len(s) - n)
Without(s, i) == RemoveAt(s, Len(s) - i)
Upper(s, n) == SubSeq(s, Len(s) - n + 1, Len(s))

\* CopyTo(stack, count) when one item more is asked for than the stack holds:
\* the slice starts at -1, so only the last item is copied.
ShortCopy(s, n) ==
    LET copied == IF s = << >> THEN << >> ELSE <<s[Len(s)]>>
    IN Push(copied, [i \in 1 .. n - Len(copied) |-> Hole])

(***************************************************************************)
(* Arrays, structs and maps.  Two of them may hold the same Python list    *)
(* (Array(item), Struct(item)), so the lists are kept apart.  A map holds  *)
(* its keys in one list and their values, in the same order, in another.   *)
(***************************************************************************)
KindIn(h, x) == IF x[1] = "obj" THEN h.objs[x[2]].kind ELSE x[1]
ListIn(h, x) == h.lists[h.objs[x[2]].list]
KeysIn(h, x) == h.lists[h.objs[x[2]].keys]

IsArray(x) == KindIn(heap, x) \in {"array", "struct"}
IsMap(x) == KindIn(heap, x) = "map"
Items(x) == ListIn(heap, x)
Truthy(x) == ~IsNum(x) \/ x[2] # 0

NewArray(h, kind, items) ==
    [objs |-> Append(h.objs, [kind |-> kind, list |-> Len(h.lists) + 1, keys |-> 0]),
     lists |-> Append(h.lists, items)]

NewMap(h) ==
    [objs |-> Append(h.objs, [kind |-> "map", list |-> Len(h.lists) + 1,
                              keys |-> Len(h.lists) + 2]),
     lists |-> h.lists \o << << >>, << >> >>]

\* The other kind of array over the list of x.
Converted(h, kind, x) ==
    [h EXCEPT !.objs = Append(@, [kind |-> kind, list |-> h.objs[x[2]].list, keys |-> 0])]

Newest(h) == Ref(Len(h.objs))
SetList(h, x, items) == [h EXCEPT !.lists[h.objs[x[2]].list] = items]

\* Struct.Clone: the structs in a struct are cloned as well (one level deep here).
\* Copied is the heap and the items so far, after one item more.
Copied(acc, y) ==
    LET h == NewArray(acc.heap, "struct", ListIn(acc.heap, y))
    IN IF KindIn(acc.heap, y) = "struct"
       THEN [heap |-> h, items |-> Append(acc.items, Newest(h))]
       ELSE [heap |-> acc.heap, items |-> Append(acc.items, y)]

Clone(h, x) ==
    LET all == FoldLeft(Copied, [heap |-> h, items |-> << >>], ListIn(h, x))
    IN NewArray(all.heap, "struct", all.items)

\* What SETITEM, APPEND and VALUES store for a value.
Stored(h, x) ==
    IF KindIn(h, x) = "struct"
    THEN LET h2 == Clone(h, x) IN [heap |-> h2, item |-> Newest(h2)]
    ELSE [heap |-> h, item |-> x]

StoredToo(acc, x) ==
    LET put == Stored(acc.heap, x)
    IN [heap |-> put.heap, items |-> Append(acc.items, put.item)]

(***************************************************************************)
(* The number of items (GetItemCount): the primitive items of the stacks   *)
(* and of the collections reached from them.  Collections that are equal   *)
(* are taken for one, and a collection itself counts for nothing.          *)
(***************************************************************************)
Primitives(s) == Cardinality({i \in DOMAIN s : IsNum(s[i])})

OnStacks(fs) ==
    SumFunctionOnSet([k \in DOMAIN fs |-> Primitives(fs[k].eval) + Primitives(fs[k].alt)], DOMAIN fs)

RefsOf(s) == {s[i][2] : i \in {j \in DOMAIN s : s[j][1] = "obj"}}

\* The collections reached through at most n others.
Reached(fs, h) ==
    LET within[n \in 0 .. Len(h.objs)] ==
            IF n = 0 THEN UNION {RefsOf(fs[k].eval) \cup RefsOf(fs[k].alt) : k \in DOMAIN fs}
            ELSE within[n - 1] \cup UNION {RefsOf(ListIn(h, Ref(o))) : o \in within[n - 1]}
    IN within[Len(h.objs)]

\* Equals of arrays, structs and maps: compared n levels deep.
SamePairs(h) ==
    LET Obj == DOMAIN h.objs
        Same(x, y, known) == x = y \/ (x[1] = "obj" /\ y[1] = "obj" /\ <<x[2], y[2]>> \in known)
        Alike(a, b, known) ==
            LET s == ListIn(h, Ref(a))
                t == ListIn(h, Ref(b))
            IN /\ h.objs[a].kind = h.objs[b].kind
               /\ Len(s) = Len(t)
               /\ IF h.objs[a].kind = "map"
                  THEN \A i \in DOMAIN s : \E j \in DOMAIN t :
                           /\ KeysIn(h, Ref(a))[i] = KeysIn(h, Ref(b))[j]
                           /\ Same(s[i], t[j], known)
                  ELSE \A i \in DOMAIN s : Same(s[i], t[i], known)
        same[n \in 0 .. Len(h.objs)] ==
            IF n = 0 THEN Obj \X Obj
            ELSE {p \in same[n - 1] : p[1] = p[2] \/ Alike(p[1], p[2], same[n - 1])}
    IN same[Len(h.objs)]

GetItemCount(fs, h) ==
    LET same == SamePairs(h)
        there == Reached(fs, h)
        firsts == {o \in there : \A p \in there : p < o => <<p, o>> \notin same}
    IN OnStacks(fs) + MapThenSumSet(LAMBDA o : Primitives(ListIn(h, Ref(o))), firsts)

\* The primitive items a script really holds: every list once.
Held(fs, h) ==
    OnStacks(fs) +
    SumFunctionOnSet([l \in DOMAIN h.lists |-> Primitives(h.lists[l])],
                     {l \in DOMAIN h.lists : \E o \in Reached(fs, h) : h.objs[o].list = l})

\* CheckStackSize(strict, count) with the stacks and the heap as they are at the
\* call.
CheckStackSize(isStrict, n, fs, h) ==
    LET sum == IF counted + n < 0 \/ counted + n > IntMax THEN IntMax ELSE counted + n
        real == GetItemCount(fs, h)
    IN IF sum <= MaxStackSize \/ (strict /\ isStrict)
       THEN counted' = sum /\ strict' = (strict /\ isStrict) /\ UNCHANGED recounted
       ELSE counted' = real /\ strict' = (real <= MaxStackSize) /\ recounted' = TRUE

Fits == counted' <= MaxStackSize
Uncounted == UNCHANGED <<counted, strict, recounted>>

(***************************************************************************)
(* Contexts.  An instruction is a record: op, n (a literal, a jump target  *)
(* or a number of signatures), to (the script called, Unread when its hash *)
(* is popped), rv and pc (the results and parameters of an isolated call). *)
(* CALL_ED and CALL_EDT always pop the hash.  A program is the code its    *)
(* scripts are written in, how long each of them is and how the entry      *)
(* script begins.  owed is history: what the caller of an isolated call    *)
(* keeps on its stack and how many results it asked for; rv -1 asks for    *)
(* everything.                                                             *)
(***************************************************************************)
\* The opcodes, one for those that do the same here: PUSH is every one that pushes a
\* constant, JMPIF is JMPIFNOT too (for the others see Popped), and the system call that
\* notifies is told from the rest.
Opcode ==
    {"PUSH",
     "NOP", "JMP", "JMPIF", "CALL", "RET", "APPCALL", "SYSCALL", "NOTIFY", "TAILCALL",
     "DUPFROMALTSTACK", "TOALTSTACK", "FROMALTSTACK", "XDROP", "XSWAP", "XTUCK", "DEPTH", "DROP",
     "DUP", "NIP", "OVER", "PICK", "ROLL", "ROT", "SWAP", "TUCK",
     "CAT", "SUBSTR", "SIZE", "INVERT", "AND", "EQUAL",
     "INC", "NOT", "ADD", "BOOLAND", "WITHIN", "HASH", "CHECKSIG", "VERIFY", "CHECKMULTISIG",
     "ARRAYSIZE", "PACK", "UNPACK", "PICKITEM", "SETITEM", "NEWARRAY", "NEWSTRUCT", "NEWMAP",
     "APPEND", "REVERSE", "REMOVE", "HASKEY", "KEYS", "VALUES",
     "CALL_I", "CALL_E", "CALL_ED", "CALL_ET", "CALL_EDT", "THROW", "THROWIFNOT"}

Instruction ==
    {ins \in [op : Opcode, n : Int, to : Script \cup {Unread}, rv : Nat, pc : Nat] :
        ins.op \in {"CALL_ED", "CALL_EDT"} => ins.to = Unread}

Program == [code : SUBSET Instruction, length : [Script -> Nat], start : Seq(Instruction)]

Anything == [rv |-> -1, kept |-> << >>]

Context(s, ip, rv, eval, owed) ==
    [script |-> s, ip |-> ip, rv |-> rv, eval |-> eval, alt |-> << >>, owed |-> owed]

Cur == frames[Len(frames)]
E == Cur.eval
A == Cur.alt
Below == SubSeq(frames, 1, Len(frames) - 1)
AtEnd == Cur.ip \notin DOMAIN script[Cur.script]

\* MoveNext with the stacks an instruction leaves.
Moved(eval, alt) ==
    [frames EXCEPT ![Len(frames)] = [Cur EXCEPT !.eval = eval, !.alt = alt, !.ip = @ + 1]]

\* The instruction at hand: past the end of the script it is RET.
Return == [op |-> "RET", n |-> 0, to |-> Unread, rv |-> 0, pc |-> 0]

Written == script[Cur.script][Cur.ip]

Fetched == IF AtEnd THEN {Return} ELSE IF Written = Unread THEN code ELSE {Written}

Fetch(ins) == script' = IF AtEnd THEN script ELSE [script EXCEPT ![Cur.script][Cur.ip] = ins]

\* Mutant: only the instructions listed with a price cost anything.
PriceOfListed(ins) ==
    CASE AtEnd -> 0
      [] ins.op \in {"APPCALL", "TAILCALL"} -> Costs["call"]
      [] ins.op = "HASH" -> Costs["hash"]
      [] ins.op \in {"CHECKSIG", "VERIFY", "CHECKMULTISIG"} -> Costs["sign"]
      [] OTHER -> 0

\* GetPrice: what is pushed is free, and so is the RET past the end.  The system call
\* executed here, Runtime.Notify, is registered with a price of 1 (GetPriceForSysCall).
Price(ins) ==
    LET top == Peek(E, 0)
        n == IF E = << >> THEN 0 ELSE IF IsArray(top) THEN Len(Items(top)) ELSE top[2]
    IN CASE AtEnd \/ ins.op \in {"PUSH", "NOP"} -> 0
         [] ins.op \in {"APPCALL", "TAILCALL"} -> Costs["call"]
         [] ins.op = "HASH" -> Costs["hash"]
         [] ins.op \in {"CHECKSIG", "VERIFY"} -> Costs["sign"]
         [] ins.op = "CHECKMULTISIG" -> IF n \in Nat \ {0} THEN Costs["sign"] * n ELSE 1
         [] OTHER -> 1

\* CheckDynamicInvoke: a script that is no contract may call what it likes.
DynamicAllowed(ins) ==
    \/ ins.op \notin {"APPCALL", "TAILCALL", "CALL_ED", "CALL_EDT"}
    \/ ins.to # Unread
    \/ Cur.script \notin Deployed
    \/ Cur.script \in DynamicInvoke

\* Mutant: the gas consumed is not compared with what was paid.
PreExecuteUnpaid(ins) == AtEnd \/ ((testMode => ops' <= MaxFreeOps) /\ DynamicAllowed(ins))

\* PreExecuteInstruction, with gas' and ops' counted already.
PreExecute(ins) ==
    \/ AtEnd
    \/ /\ IF testMode THEN ops' <= MaxFreeOps ELSE gas' <= GasAmount
       /\ DynamicAllowed(ins)

\* The instruction was executed, although PreExecuteInstruction may have refused it.
Ran(ins, ok) == vmState' = IF ok /\ PreExecute(ins) THEN "NONE" ELSE "FAULT"

\* It raised or returned False (VM_FAULT_and_report, which also logs why); the stacks of a faulted execution are not used again.
Fault == vmState' = "FAULT" /\ UNCHANGED machine

(***************************************************************************)
(* Pushing and moving items.                                               *)
(***************************************************************************)
Pushed(ins) == IF ins.op = "DEPTH" THEN Num(Len(E)) ELSE Num(ins.n)

PushValue(ins) ==
    /\ ins.op \in {"PUSH", "DEPTH"}
    /\ frames' = Moved(Push(E, <<Pushed(ins)>>), A)
    /\ CheckStackSize(TRUE, 1, frames', heap)
    /\ Ran(ins, Fits)
    /\ UNCHANGED <<result, heap, multisigs>>

Nop(ins) ==
    /\ ins.op = "NOP"
    /\ frames' = Moved(E, A)
    /\ Ran(ins, TRUE)
    /\ Uncounted /\ UNCHANGED <<result, heap, multisigs>>

\* Instructions on fixed places: how deep they reach, what they leave, and how
\* they count it.
Depths == [DUP |-> 0, OVER |-> 1, TUCK |-> 0, NIP |-> 1, DROP |-> 0, ROT |-> 2, SWAP |-> 1]

Shuffled(op) ==
    CASE op = "DUP"  -> Push(E, <<Peek(E, 0)>>)
      [] op = "OVER" -> Push(E, <<Peek(E, 1)>>)
      [] op = "TUCK" -> InsertAt(E, Len(E) - 1, Peek(E, 0))
      [] op = "NIP"  -> Without(E, 1)
      [] op = "DROP" -> Less(E, 1)
      [] op = "ROT"  -> Push(Without(E, 2), <<Peek(E, 2)>>)
      [] op = "SWAP" -> Push(Without(E, 1), <<Peek(E, 1)>>)

CanShuffle(ins) == Reach(E, Depths[ins.op]) /\ (ins.op = "TUCK" => Len(E) >= 2)

\* Mutant: what TUCK adds is not counted.
ShuffleUncounted(ins) ==
    /\ ins.op \in DOMAIN Depths /\ CanShuffle(ins)
    /\ frames' = Moved(Shuffled(ins.op), A)
    /\ \/ ins.op \in {"DUP", "OVER"} /\ CheckStackSize(TRUE, 1, frames', heap) /\ Ran(ins, Fits)
       \/ ins.op \in {"NIP", "DROP"} /\ CheckStackSize(FALSE, -1, frames', heap) /\ Ran(ins, TRUE)
       \/ ins.op \in {"ROT", "SWAP", "TUCK"} /\ Uncounted /\ Ran(ins, TRUE)
    /\ UNCHANGED <<result, heap, multisigs>>

Shuffle(ins) ==
    /\ ins.op \in DOMAIN Depths /\ CanShuffle(ins)
    /\ frames' = Moved(Shuffled(ins.op), A)
    /\ \/ ins.op \in {"DUP", "OVER", "TUCK"} /\ CheckStackSize(TRUE, 1, frames', heap) /\ Ran(ins, Fits)
       \/ ins.op \in {"NIP", "DROP"} /\ CheckStackSize(FALSE, -1, frames', heap) /\ Ran(ins, TRUE)
       \/ ins.op \in {"ROT", "SWAP"} /\ Uncounted /\ Ran(ins, TRUE)
    /\ UNCHANGED <<result, heap, multisigs>>

\* The alternative stack.
AltStack(ins) ==
    /\ \/ /\ ins.op = "DUPFROMALTSTACK" /\ A # << >>
          /\ frames' = Moved(Push(E, <<Peek(A, 0)>>), A)
          /\ CheckStackSize(TRUE, 1, frames', heap)
          /\ Ran(ins, Fits)
       \/ /\ ins.op = "TOALTSTACK" /\ Reach(E, 0)
          /\ frames' = Moved(Less(E, 1), Append(A, Peek(E, 0)))
          /\ Uncounted /\ Ran(ins, TRUE)
       \/ /\ ins.op = "FROMALTSTACK" /\ A # << >>
          /\ frames' = Moved(Push(E, <<Peek(A, 0)>>), Less(A, 1))
          /\ Uncounted /\ Ran(ins, TRUE)
    /\ UNCHANGED <<result, heap, multisigs>>

\* Instructions that pop the place they work on.
IndexOps == {"XDROP", "XSWAP", "XTUCK", "PICK", "ROLL"}

CanIndex(ins) ==
    /\ Reach(E, 0) /\ IsNum(Peek(E, 0))
    /\ LET n == Peek(E, 0)[2]
           s == Less(E, 1)
       IN /\ n >= 0
          /\ CASE ins.op \in {"XDROP", "PICK"} -> Reach(s, n)
               [] ins.op \in {"XSWAP", "ROLL"} -> n = 0 \/ Reach(s, n)
               [] ins.op = "XTUCK" -> n > 0 /\ n <= Len(s)

Index(ins) ==
    /\ ins.op \in IndexOps /\ CanIndex(ins)
    /\ LET n == Peek(E, 0)[2]
           s == Less(E, 1)
           after == CASE ins.op = "XDROP" -> Without(s, n)
                      [] ins.op = "PICK"  -> Push(s, <<Peek(s, n)>>)
                      [] ins.op = "XTUCK" -> InsertAt(s, Len(s) - n + 1, Peek(s, 0))
                      [] ins.op = "ROLL"  -> IF n = 0 THEN s ELSE Push(Without(s, n), <<Peek(s, n)>>)
                      [] ins.op = "XSWAP" ->
                             IF n = 0 THEN s
                             ELSE [s EXCEPT ![Len(s) - n] = Peek(s, 0), ![Len(s)] = Peek(s, n)]
       IN frames' = Moved(after, A)
    /\ \/ ins.op = "XDROP" /\ CheckStackSize(FALSE, -2, frames', heap)
       \/ ins.op \in {"XSWAP", "ROLL"} /\ CheckStackSize(TRUE, -1, frames', heap)
       \/ ins.op \in {"XTUCK", "PICK"} /\ Uncounted
    /\ Ran(ins, TRUE)
    /\ UNCHANGED <<result, heap, multisigs>>

(***************************************************************************)
(* Computing.  Popped is how many operands an instruction takes.  CAT      *)
(* stands for LEFT and RIGHT too, AND for OR and XOR, INC for DEC, SIGN,   *)
(* NEGATE, ABS and NZ, ADD for the other operations and comparisons of two *)
(* numbers, BOOLAND for BOOLOR, HASH for the four hashes.                  *)
(***************************************************************************)
Popped == [SIZE |-> 1, INVERT |-> 1, INC |-> 1, NOT |-> 1, HASH |-> 1,
           CAT |-> 2, AND |-> 2, EQUAL |-> 2, ADD |-> 2, BOOLAND |-> 2, CHECKSIG |-> 2,
           SUBSTR |-> 3, WITHIN |-> 3, VERIFY |-> 3]

\* These take collections too, and count loosely.
TakesAnything == {"NOT", "EQUAL", "BOOLAND"}

CanCompute(ins) ==
    LET n == Popped[ins.op]
    IN /\ \A i \in 0 .. n - 1 : Reach(E, i)
       /\ ins.op \notin TakesAnything => \A i \in 0 .. n - 1 : IsNum(Peek(E, i))

\* The operands are replaced by one result; it is one the limits of the code allow.
Replace(ins, results) ==
    /\ CanCompute(ins)
    /\ \E v \in results : frames' = Moved(Append(Less(E, Popped[ins.op]), Num(v)), A)
    /\ IF Popped[ins.op] = 1 /\ ins.op # "NOT"
       THEN Uncounted
       ELSE CheckStackSize(ins.op \notin TakesAnything, 1 - Popped[ins.op], frames', heap)
    /\ Ran(ins, TRUE)
    /\ UNCHANGED <<result, heap, multisigs>>

Splice(ins) == ins.op \in {"SIZE", "CAT", "SUBSTR"} /\ Replace(ins, Values \cap Nat)
Bits(ins) ==
    \/ ins.op \in {"INVERT", "AND"} /\ Replace(ins, Values)
    \/ ins.op = "EQUAL" /\ Replace(ins, {0, 1})
Numeric(ins) ==
    \/ ins.op \in {"INC", "ADD"} /\ Replace(ins, Values)
    \/ ins.op \in {"NOT", "BOOLAND", "WITHIN"} /\ Replace(ins, {0, 1})
Crypto(ins) ==
    \/ ins.op = "HASH" /\ Replace(ins, Values)
    \/ ins.op \in {"CHECKSIG", "VERIFY"} /\ Replace(ins, {0, 1})

\* CheckBigInteger, CheckShift or CheckMaxItemSize refuses it, a count is negative,
\* there is no container to check a signature of, or a number is compared with a
\* collection.
ExceedLimit(ins) ==
    /\ ins.op \in DOMAIN Popped /\ CanCompute(ins)
    /\ \/ ins.op \in {"CAT", "SUBSTR", "INC", "ADD", "CHECKSIG"}
       \/ ins.op = "EQUAL" /\ IsNum(Peek(E, 1)) /\ ~IsNum(Peek(E, 0))
    /\ Fault

\* CHECKMULTISIG takes keys, then signatures, each as an array or as a number and
\* that many items; the two are counted in one here.  Taken(s) is what one of the two leaves and holds.
Taken(s) ==
    LET top == Peek(s, 0)
        n == IF IsArray(top) THEN Len(Items(top)) ELSE top[2]
    IN [n |-> n, loose |-> IsArray(top), rest |-> Less(s, IF IsArray(top) THEN 1 ELSE n + 1)]

CanTake(s) ==
    /\ Reach(s, 0)
    /\ LET top == Peek(s, 0)
       IN \/ IsArray(top) /\ Items(top) # << >> /\ RefsOf(Items(top)) = {}
          \/ /\ IsNum(top) /\ top[2] >= 1 /\ top[2] < Len(s)
             /\ \A i \in 0 .. top[2] : IsNum(Peek(s, i))

CanCheckMultisig(ins) ==
    CanTake(E) /\ CanTake(Taken(E).rest) /\ Taken(Taken(E).rest).n <= Taken(E).n

CheckMultisig(ins) ==
    /\ ins.op = "CHECKMULTISIG" /\ CanCheckMultisig(ins)
    /\ LET keys == Taken(E)
           sigs == Taken(keys.rest)
           loose == keys.loose \/ sigs.loose
       IN /\ \E ok \in BOOLEAN : frames' = Moved(Append(sigs.rest, Truth(ok)), A)
          /\ CheckStackSize(~loose, Len(sigs.rest) - Len(E), Append(Below, [Cur EXCEPT !.eval = sigs.rest]), heap)
          /\ multisigs' = multisigs + 1
    /\ Ran(ins, TRUE)
    /\ UNCHANGED <<result, heap>>

(***************************************************************************)
(* Control.                                                                *)
(***************************************************************************)
\* An address execution may be moved to: also the one just past the end.
Target(a) == a \in DOMAIN script[Cur.script] \/ a - 1 \in DOMAIN script[Cur.script]

CanJump(ins) == Target(ins.n) /\ (ins.op = "JMPIF" => Reach(E, 0))

\* JMP and JMPIF (JMPIFNOT is JMPIF with the outcomes swapped).
Jump(ins) ==
    /\ ins.op \in {"JMP", "JMPIF"} /\ CanJump(ins)
    /\ IF ins.op = "JMP"
       THEN frames' = Append(Below, [Cur EXCEPT !.ip = ins.n]) /\ Uncounted
       ELSE /\ frames' = Append(Below, [Cur EXCEPT !.eval = Less(E, 1),
                                        !.ip = IF Truthy(Peek(E, 0)) THEN ins.n ELSE @ + 1])
            /\ CheckStackSize(FALSE, -1, frames, heap)
    /\ Ran(ins, TRUE)
    /\ UNCHANGED <<result, heap, multisigs>>

\* THROWIFNOT with a true item; THROW and a false one fault.
ThrowIfNot(ins) ==
    /\ ins.op = "THROWIFNOT" /\ Reach(E, 0) /\ Truthy(Peek(E, 0))
    /\ frames' = Moved(Less(E, 1), A)
    /\ CheckStackSize(FALSE, -1, frames', heap)
    /\ Ran(ins, TRUE)
    /\ UNCHANGED <<result, heap, multisigs>>

\* What a context hands back when it is popped.
Results == IF Cur.rv = -1 THEN Len(E) ELSE Cur.rv

CanReturn(ins) == Results <= Len(E)

\* RET: to the caller, or, from the entry script, to the result stack.  HALT is
\* assigned after PreExecuteInstruction may have assigned FAULT.
Ret(ins) ==
    /\ ins.op = "RET" /\ CanReturn(ins)
    /\ IF Below = << >>
       THEN result' = Push(result, Upper(E, Results)) /\ frames' = << >>
       ELSE /\ frames' = [Below EXCEPT ![Len(Below)].eval = Push(@, Upper(E, Results)),
                                       ![Len(Below)].alt = IF Cur.rv = -1 THEN @ \o A ELSE @]
            /\ UNCHANGED result
    /\ CheckStackSize(FALSE, 0, frames', heap)
    /\ IF Below = << >> THEN vmState' = "HALT" ELSE Ran(ins, TRUE)
    /\ UNCHANGED <<heap, multisigs>>

\* CALL: the same script, and the whole evaluation stack.
CanCall(ins) == Len(frames) < MaxInvocationStack /\ Target(ins.n)

Call(ins) ==
    /\ ins.op = "CALL" /\ CanCall(ins)
    /\ frames' = Append(Moved(<< >>, A), Context(Cur.script, ins.n, -1, E, Anything))
    /\ Ran(ins, TRUE)
    /\ Uncounted /\ UNCHANGED <<result, heap, multisigs>>

\* The script an instruction names, or the hash it pops: any script, or none.
Callees(ins) == IF ins.to = Unread THEN Script ELSE {ins.to}
AfterHash(ins) == IF ins.to = Unread THEN Less(E, 1) ELSE E
HashPopped(ins) == ins.to = Unread => Reach(E, 0) /\ IsNum(Peek(E, 0))

\* APPCALL and TAILCALL: another script gets the whole evaluation stack;
\* TAILCALL removes the context that calls.
CanAppCall(ins) ==
    /\ ins.op = "APPCALL" => Len(frames) < MaxInvocationStack
    /\ HashPopped(ins)

AppCall(ins) ==
    /\ ins.op \in {"APPCALL", "TAILCALL"} /\ CanAppCall(ins)
    /\ \E s \in Callees(ins) \cap Deployed :
           LET new == Context(s, 0, -1, AfterHash(ins), IF ins.op = "APPCALL" THEN Anything
                                                          ELSE [Cur.owed EXCEPT !.rv = -1])
           IN frames' = Append(IF ins.op = "APPCALL" THEN Moved(<< >>, A) ELSE Below, new)
    /\ CheckStackSize(FALSE, 0, frames', heap)
    /\ Ran(ins, TRUE)
    /\ UNCHANGED <<result, heap, multisigs>>

\* Isolated calls: the callee gets pc parameters and returns rv results.
\* CALL_I stays in the script, CALL_E and CALL_ED call a contract, CALL_ET and
\* CALL_EDT do so in place of the context that calls.
Isolated == {"CALL_I", "CALL_E", "CALL_ED", "CALL_ET", "CALL_EDT"}
Replaces(ins) == ins.op \in {"CALL_ET", "CALL_EDT"}

\* Mutant: a tail call may promise another number of results than its caller does.
CanCallIsolatedAnyCount(ins) ==
    /\ ins.pc <= Len(E)
    /\ ~Replaces(ins) => Len(frames) < MaxInvocationStack
    /\ ins.op = "CALL_I" => Target(ins.n)
    /\ HashPopped(ins)
    /\ ~Replaces(ins) => ins.pc = 0 \/ (Reach(E, 0) /\ ins.pc <= Len(AfterHash(ins)))

CanCallIsolated(ins) ==
    /\ ins.pc <= Len(E)
    /\ IF Replaces(ins) THEN ins.rv = Cur.rv ELSE Len(frames) < MaxInvocationStack
    /\ ins.op = "CALL_I" => Target(ins.n)
    /\ HashPopped(ins)
    \* The parameters are popped one by one; the hash may have been one of them.
    /\ ~Replaces(ins) => \/ ins.pc = 0
                         \/ Reach(E, 0) /\ ins.pc <= Len(AfterHash(ins))

CallIsolated(ins) ==
    /\ ins.op \in Isolated /\ CanCallIsolated(ins)
    /\ LET s == IF ins.op = "CALL_I" THEN E ELSE AfterHash(ins)
           given == IF ins.pc <= Len(s) THEN Upper(s, ins.pc) ELSE ShortCopy(s, ins.pc)
           kept == Less(s, ins.pc)
       IN \E to \in IF ins.op = "CALL_I" THEN {Cur.script} ELSE Callees(ins) \cap Deployed :
              frames' = IF Replaces(ins)
                        THEN Append(Below, Context(to, 0, ins.rv, given, Cur.owed))
                        ELSE Append(Moved(kept, A),
                                    Context(to, IF ins.op = "CALL_I" THEN ins.n ELSE 0,
                                            ins.rv, given, [rv |-> ins.rv, kept |-> kept]))
    /\ IF ins.op \in {"CALL_ED", "CALL_EDT"}
       THEN CheckStackSize(TRUE, -1, Moved(AfterHash(ins), A), heap)
       ELSE Uncounted
    /\ Ran(ins, TRUE)
    /\ UNCHANGED <<result, heap, multisigs>>

\* The hash popped is the hash of no contract.
NoSuchContract(ins) ==
    /\ ins.op \in {"APPCALL", "TAILCALL"} \cup (Isolated \ {"CALL_I"})
    /\ ins.to = Unread \/ ins.to \notin Deployed
    /\ Fault

(***************************************************************************)
(* Collections.                                                            *)
(***************************************************************************)
Top(i) == Peek(E, i)
Pops(n) == \A i \in 0 .. n - 1 : Reach(E, i)
InRange(key, list) == key[2] >= 0 /\ key[2] < Len(list)
HasKey(m, key) == key \in ToSet(KeysIn(heap, m))
PlaceOf(m, key) == CHOOSE i \in DOMAIN KeysIn(heap, m) : KeysIn(heap, m)[i] = key

\* The stack after n items were popped and xs pushed.
Left(n, xs) == Moved(Less(E, n) \o xs, A)

CanPack == Pops(1) /\ IsNum(Top(0)) /\ Top(0)[2] \in 0 .. MaxArraySize /\ Pops(Top(0)[2] + 1)

Pack(ins) ==
    /\ ins.op = "PACK" /\ CanPack
    /\ heap' = NewArray(heap, "array", Reverse(Upper(Less(E, 1), Top(0)[2])))
    /\ frames' = Left(Top(0)[2] + 1, <<Newest(heap')>>)
    /\ Ran(ins, TRUE)
    /\ Uncounted /\ UNCHANGED <<result, multisigs>>

\* UNPACK reverses the list of the array itself before it pushes what is in it.
Unpack(ins) ==
    /\ ins.op = "UNPACK" /\ Pops(1) /\ IsArray(Top(0))
    /\ LET items == Reverse(Items(Top(0)))
       IN /\ heap' = SetList(heap, Top(0), items)
          /\ frames' = Left(1, items \o <<Num(Len(items))>>)
          /\ CheckStackSize(FALSE, Len(items), frames', heap')
    /\ Ran(ins, Fits)
    /\ UNCHANGED <<result, multisigs>>

CanPick ==
    /\ Pops(2) /\ IsNum(Top(0))
    /\ \/ IsArray(Top(1)) /\ InRange(Top(0), Items(Top(1)))
       \/ IsMap(Top(1)) /\ HasKey(Top(1), Top(0))

PickItem(ins) ==
    /\ ins.op = "PICKITEM" /\ CanPick
    /\ LET i == IF IsMap(Top(1)) THEN PlaceOf(Top(1), Top(0)) ELSE Top(0)[2] + 1
       IN frames' = Left(2, <<Items(Top(1))[i]>>)
    /\ CheckStackSize(FALSE, -1, frames', heap)
    /\ Ran(ins, Fits)
    /\ UNCHANGED <<result, heap, multisigs>>

CanSet ==
    /\ Pops(3) /\ IsNum(Top(1))
    /\ \/ IsArray(Top(2)) /\ InRange(Top(1), Items(Top(2)))
       \/ IsMap(Top(2)) /\ (HasKey(Top(2), Top(1)) \/ Len(Items(Top(2))) < MaxArraySize)

SetItem(ins) ==
    /\ ins.op = "SETITEM" /\ CanSet
    /\ LET put == Stored(heap, Top(0))
           items == Items(Top(2))
           new == IsMap(Top(2)) /\ ~HasKey(Top(2), Top(1))
           i == IF IsMap(Top(2)) THEN PlaceOf(Top(2), Top(1)) ELSE Top(1)[2] + 1
       IN heap' = IF new
                  THEN [SetList(put.heap, Top(2), Append(items, put.item)) EXCEPT
                           !.lists[heap.objs[Top(2)[2]].keys] = Append(@, Top(1))]
                  ELSE SetList(put.heap, Top(2), [items EXCEPT ![i] = put.item])
    /\ frames' = Left(3, << >>)
    /\ CheckStackSize(FALSE, IntMax, frames', heap')
    /\ Ran(ins, Fits)
    /\ UNCHANGED <<result, multisigs>>

\* NEWARRAY and NEWSTRUCT of a number make a list of that many False; of the other
\* kind of array they make one over the same list; of their own kind, nothing.
NewKind == [NEWARRAY |-> "array", NEWSTRUCT |-> "struct"]

CanNew ==
    /\ Pops(1)
    /\ \/ IsArray(Top(0))
       \/ IsNum(Top(0)) /\ Top(0)[2] \in 0 .. MaxArraySize

NewCollection(ins) ==
    /\ ins.op \in DOMAIN NewKind /\ CanNew
    /\ LET kind == NewKind[ins.op]
           n == Top(0)[2]
       IN \/ /\ IsNum(Top(0))
             /\ heap' = NewArray(heap, kind, [i \in 1 .. n |-> Num(0)])
             /\ frames' = Left(1, <<Newest(heap')>>)
             /\ CheckStackSize(TRUE, n, frames', heap')
             /\ Ran(ins, Fits)
          \/ /\ ~IsNum(Top(0))
             /\ heap' = IF KindIn(heap, Top(0)) = kind THEN heap ELSE Converted(heap, kind, Top(0))
             /\ frames' = Left(1, <<IF heap' = heap THEN Top(0) ELSE Newest(heap')>>)
             /\ Uncounted
             /\ Ran(ins, TRUE)
    /\ UNCHANGED <<result, multisigs>>

NewMapItem(ins) ==
    /\ ins.op = "NEWMAP"
    /\ heap' = NewMap(heap)
    /\ frames' = Moved(Push(E, <<Newest(heap')>>), A)
    /\ CheckStackSize(TRUE, 1, frames', heap')
    /\ Ran(ins, Fits)
    /\ UNCHANGED <<result, multisigs>>

CanAppend == Pops(2) /\ IsArray(Top(1)) /\ Len(Items(Top(1))) < MaxArraySize

AppendItem(ins) ==
    /\ ins.op = "APPEND" /\ CanAppend
    /\ LET put == Stored(heap, Top(0))
       IN heap' = SetList(put.heap, Top(1), Append(Items(Top(1)), put.item))
    /\ frames' = Left(2, << >>)
    /\ CheckStackSize(FALSE, IntMax, frames', heap')
    /\ Ran(ins, Fits)
    /\ UNCHANGED <<result, multisigs>>

ReverseItems(ins) ==
    /\ ins.op = "REVERSE" /\ Pops(1) /\ IsArray(Top(0))
    /\ heap' = SetList(heap, Top(0), Reverse(Items(Top(0))))
    /\ frames' = Left(1, << >>)
    /\ CheckStackSize(FALSE, -1, frames', heap)
    /\ Ran(ins, TRUE)
    /\ UNCHANGED <<result, multisigs>>

\* REMOVE of a key a map does not have does nothing.
CanRemove ==
    /\ Pops(2) /\ IsNum(Top(0))
    /\ \/ IsMap(Top(1))
       \/ IsArray(Top(1)) /\ InRange(Top(0), Items(Top(1)))

RemoveItem(ins) ==
    /\ ins.op = "REMOVE" /\ CanRemove
    /\ LET c == Top(1)
           i == IF IsMap(c) THEN PlaceOf(c, Top(0)) ELSE Top(0)[2] + 1
       IN heap' = IF IsMap(c)
                  THEN IF HasKey(c, Top(0))
                       THEN [SetList(heap, c, RemoveAt(Items(c), i)) EXCEPT
                                !.lists[heap.objs[c[2]].keys] = RemoveAt(@, i)]
                       ELSE heap
                  ELSE SetList(heap, c, RemoveAt(Items(c), i))
    /\ frames' = Left(2, << >>)
    /\ CheckStackSize(FALSE, -2, frames', heap)
    /\ Ran(ins, TRUE)
    /\ UNCHANGED <<result, multisigs>>

\* ARRAYSIZE: the number of items, or of bytes.
ArraySize(ins) ==
    /\ ins.op = "ARRAYSIZE" /\ Pops(1)
    /\ frames' = Left(1, <<IF IsNum(Top(0)) THEN Truth(Truthy(Top(0))) ELSE Num(Len(Items(Top(0))))>>)
    /\ CheckStackSize(IsNum(Top(0)), 0, frames', heap)
    /\ Ran(ins, TRUE)
    /\ UNCHANGED <<result, heap, multisigs>>

\* HASKEY, KEYS and VALUES look at a collection.
CanLook(ins) ==
    IF ins.op = "HASKEY"
    THEN Pops(2) /\ IsNum(Top(0)) /\ ~IsNum(Top(1)) /\ (IsArray(Top(1)) => Top(0)[2] >= 0)
    ELSE Pops(1) /\ IsMap(Top(0))

Look(ins) ==
    /\ ins.op \in {"HASKEY", "KEYS", "VALUES"} /\ CanLook(ins)
    /\ \/ /\ ins.op = "HASKEY"
          /\ frames' = Left(2, <<Truth(IF IsMap(Top(1)) THEN HasKey(Top(1), Top(0))
                                       ELSE Top(0)[2] < Len(Items(Top(1))))>>)
          /\ CheckStackSize(FALSE, -1, frames', heap)
          /\ Ran(ins, TRUE) /\ UNCHANGED heap
       \/ /\ ins.op = "KEYS"
          /\ heap' = NewArray(heap, "array", KeysIn(heap, Top(0)))
          /\ frames' = Left(1, <<Newest(heap')>>)
          /\ CheckStackSize(FALSE, Len(Items(Top(0))), frames', heap')
          /\ Ran(ins, Fits)
       \/ /\ ins.op = "VALUES"
          /\ LET all == FoldLeft(StoredToo, [heap |-> heap, items |-> << >>], Items(Top(0)))
             IN heap' = NewArray(all.heap, "array", all.items)
          /\ frames' = Left(1, <<Newest(heap')>>)
          /\ CheckStackSize(FALSE, IntMax, frames', heap')
          /\ Ran(ins, Fits)
    /\ UNCHANGED <<result, multisigs>>

(***************************************************************************)
(* System calls: Runtime.Notify, which pops what it reports (the notice n),*)
(* and those that push one value.  After each the items are counted anew.  *)
(***************************************************************************)
Syscall(ins) ==
    /\ \/ /\ ins.op = "NOTIFY" /\ Pops(1)
          /\ frames' = Moved(Less(E, 1), A)
          /\ notes' = Append(notes, [notice |-> ins.n, by |-> Cur.script])
       \/ /\ ins.op = "SYSCALL"
          /\ frames' = Moved(Push(E, <<Num(ins.n)>>), A)
          /\ UNCHANGED notes
    /\ CheckStackSize(FALSE, IntMax, frames', heap)
    /\ Ran(ins, Fits)
    /\ UNCHANGED <<result, heap, multisigs>>

(***************************************************************************)
(* ExecuteNext.                                                            *)
(***************************************************************************)
\* The conditions an instruction puts on the stacks.
CanRun(ins) ==
    CASE ins.op \in {"PUSH", "DEPTH", "NOP", "NEWMAP", "SYSCALL"} -> TRUE
      [] ins.op \in DOMAIN Depths -> CanShuffle(ins)
      [] ins.op \in {"DUPFROMALTSTACK", "FROMALTSTACK"} -> A # << >>
      [] ins.op = "TOALTSTACK" -> Reach(E, 0)
      [] ins.op \in IndexOps -> CanIndex(ins)
      [] ins.op \in DOMAIN Popped -> CanCompute(ins)
      [] ins.op = "CHECKMULTISIG" -> CanCheckMultisig(ins)
      [] ins.op \in {"JMP", "JMPIF"} -> CanJump(ins)
      [] ins.op = "THROWIFNOT" -> Reach(E, 0) /\ Truthy(Peek(E, 0))
      [] ins.op = "RET" -> CanReturn(ins)
      [] ins.op = "CALL" -> CanCall(ins)
      [] ins.op \in {"APPCALL", "TAILCALL"} -> CanAppCall(ins)
      [] ins.op \in Isolated -> CanCallIsolated(ins)
      [] ins.op = "PACK" -> CanPack
      [] ins.op \in {"UNPACK", "REVERSE"} -> Pops(1) /\ IsArray(Top(0))
      [] ins.op = "PICKITEM" -> CanPick
      [] ins.op = "SETITEM" -> CanSet
      [] ins.op \in DOMAIN NewKind -> CanNew
      [] ins.op = "APPEND" -> CanAppend
      [] ins.op = "REMOVE" -> CanRemove
      [] ins.op \in {"HASKEY", "KEYS", "VALUES"} -> CanLook(ins)
      [] ins.op \in {"ARRAYSIZE", "NOTIFY"} -> Pops(1)
      [] OTHER -> FALSE

\* An exception or a refusal: VM_FAULT_and_report, THROW, an unknown opcode.
Raise(ins) == ~CanRun(ins) /\ Fault

WithoutService(ins) ==
    \/ PushValue(ins) \/ Nop(ins) \/ Shuffle(ins) \/ AltStack(ins) \/ Index(ins)
    \/ Splice(ins) \/ Bits(ins) \/ Numeric(ins) \/ Crypto(ins) \/ ExceedLimit(ins) \/ CheckMultisig(ins)
    \/ Jump(ins) \/ ThrowIfNot(ins) \/ Ret(ins) \/ Call(ins) \/ AppCall(ins)
    \/ CallIsolated(ins) \/ NoSuchContract(ins)
    \/ Pack(ins) \/ Unpack(ins) \/ PickItem(ins) \/ SetItem(ins) \/ NewCollection(ins)
    \/ NewMapItem(ins) \/ AppendItem(ins) \/ ReverseItems(ins) \/ RemoveItem(ins)
    \/ ArraySize(ins) \/ Look(ins) \/ Raise(ins)

ExecuteNext ==
    /\ Running
    /\ \E ins \in Fetched :
           /\ Fetch(ins)
           /\ gas' = IF testMode THEN gas ELSE gas + Price(ins)
           /\ ops' = IF testMode THEN ops + 1 ELSE ops
           /\ \/ Syscall(ins)
              \/ WithoutService(ins) /\ UNCHANGED notes
    /\ UNCHANGED <<code, testMode>>

\* No engine: what a dropped one leaves behind is not looked at.
NoExecution ==
    /\ code = {} /\ script = [s \in Script |-> << >>] /\ testMode = FALSE
    /\ vmState = "BREAK" /\ frames = << >> /\ result = << >>
    /\ heap = [objs |-> << >>, lists |-> << >>]
    /\ counted = 0 /\ strict = TRUE /\ gas = 0 /\ ops = 0 /\ notes = << >>
    /\ recounted = FALSE /\ multisigs = 0

Unload ==
    /\ code' = {} /\ script' = [s \in Script |-> << >>] /\ testMode' = FALSE
    /\ vmState' = "BREAK" /\ frames' = << >> /\ result' = << >>
    /\ heap' = [objs |-> << >>, lists |-> << >>]
    /\ counted' = 0 /\ strict' = TRUE /\ gas' = 0 /\ ops' = 0 /\ notes' = << >>
    /\ recounted' = FALSE /\ multisigs' = 0

\* A new engine with the scripts of loaded on its invocation stack, the first one
\* at the bottom.  The first instructions of the last one are given.
Load(program, loaded, isTest) ==
    LET top == loaded[Len(loaded)]
    IN /\ code' = program.code /\ testMode' = isTest
       /\ script' = [s \in Script |->
                        [a \in 0 .. program.length[s] - 1 |->
                            IF s = top /\ a < Len(program.start) THEN program.start[a + 1] ELSE Unread]]
       /\ vmState' = "NONE" /\ result' = << >>
       /\ frames' = [i \in DOMAIN loaded |-> Context(loaded[i], 0, -1, << >>, Anything)]
       /\ heap' = [objs |-> << >>, lists |-> << >>]
       /\ counted' = 0 /\ strict' = TRUE /\ gas' = 0 /\ ops' = 0 /\ notes' = << >>
       /\ recounted' = FALSE /\ multisigs' = 0

(***************************************************************************)
(* Properties.                                                             *)
(***************************************************************************)
\* An isolated call gives its caller what it asked for and nothing else: when the
\* callee, or whatever contract a tail call has put in its place, returns, the
\* caller's stack is what it kept with exactly as many results on top.  TAILCALL is
\* excepted: it replaces an isolated context by one that returns everything.
ReturnsAsAsked ==
    [][LET n == Len(frames)
       IN n > 1 /\ Running /\ Len(frames') = n - 1 /\ Cur.owed.rv >= 0
          => /\ Len(frames'[n - 1].eval) = Len(Cur.owed.kept) + Cur.owed.rv
             /\ IsPrefix(Real(Cur.owed.kept), frames'[n - 1].eval)]_vmVars

\* The count the stack limit is checked against covers what a script holds, except
\* for the result of each CHECKMULTISIG, as long as the items were not counted anew
\* (that count leaves the collections themselves out).
CountCovers ==
    Running /\ ~recounted => Held(frames, heap) <= counted + multisigs

\* A script that halts was paid for: only the RET that ends it may go over the limit,
\* because HALT is assigned after the metering assigned FAULT.
HaltsPaid == vmState = "HALT" /\ ~testMode => gas <= GasAmount + 1

\* Every execution ends, by the gas or by the number of free operations.
Terminates == Running ~> ~Running
=============================================================================
