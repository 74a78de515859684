--------------------------- MODULE ScriptBuilder ----------------------------
(***************************************************************************)
(* The scripts the node writes (neo/VM/ScriptBuilder.py) and what the      *)
(* virtual machine takes them for (neo/VM/Instruction.py and the pushes    *)
(* and PACK of ExecutionEngine.py).  A script is a sequence of bytes, an   *)
(* opcode its byte.  Each operator below returns what is added to the      *)
(* stream; NoScript stands for an exception.                               *)
(***************************************************************************)
EXTENDS Streams

PUSH0     == 0
PUSHDATA1 == 76
PUSHDATA2 == 77
PUSHDATA4 == 78
PUSHM1    == 79
PUSH1     == 81
PUSH16    == 96
APPCALL   == 103
SYSCALL   == 104
TAILCALL  == 105
CHECKSIG  == 172
CHECKMULTISIG == 174
PACK      == 193

(* The bytes after their length. *)
PushBytes(b) ==
    IF Len(b) <= 75 THEN <<Len(b)>> \o b
    ELSE IF Len(b) < 256 THEN <<PUSHDATA1, Len(b)>> \o b
    ELSE IF Len(b) < 65536 THEN <<PUSHDATA2>> \o LittleEndian(Len(b), 2) \o b
    ELSE <<PUSHDATA4>> \o LittleEndian(Len(b), 4) \o b

(* push(data) of anything but a bytearray: hexadecimal text is undone. *)
PushData(b) == PushBytes(WriteBytes(b))

(* push(number): a number above 16 must be a BigInteger and is pushed as   *)
(* its bytes; an int has none and raises.  The ones asked for here do not. *)
PushInt(n) ==
    IF n = -1 THEN <<PUSHM1>>
    ELSE IF n = 0 THEN <<PUSH0>>
    ELSE <<PUSH1 - 1 + n>>

EmitAppCall(scriptHash, useTailCall) ==
    <<IF useTailCall THEN TAILCALL ELSE APPCALL>> \o scriptHash

(* args.reverse(), a push for each, their number and PACK; the operation   *)
(* is turned into hexadecimal text, which push undoes.                     *)
EmitAppCallWithOperationAndArgs(scriptHash, operation, args) ==
    FlattenSeq([i \in 1..Len(args) |-> PushData(args[Len(args) + 1 - i])]) \o
    PushInt(Len(args)) \o <<PACK>> \o PushBytes(operation) \o EmitAppCall(scriptHash, FALSE)

EmitSysCall(api) == <<SYSCALL, Len(api)>> \o api

(* The arguments are turned into hexadecimal text and pushed. *)
EmitSysCallWithArguments(api, args) ==
    FlattenSeq([i \in 1..Len(args) |-> PushBytes(args[Len(args) + 1 - i])]) \o EmitSysCall(api)

-----------------------------------------------------------------------------
(* Reading a script. *)

(* How many bytes after an opcode hold the length of its operand, and the  *)
(* length of the operand of the others.                                    *)
OperandSizePrefix(op) ==
    CASE op \in {PUSHDATA1, SYSCALL} -> 1
      [] op = PUSHDATA2 -> 2
      [] op = PUSHDATA4 -> 4
      [] OTHER -> 0

OperandSize(op) ==
    IF op \in 1..75 THEN op ELSE IF op \in {APPCALL, TAILCALL} THEN 20 ELSE 0

(* FromScriptAndIP: v is then the opcode with its operand. *)
ReadInstruction(r) ==
    LET op     == r.s[r.p]
        q      == [r EXCEPT !.p = @ + 1]
        prefix == OperandSizePrefix(op)
        size   == IF prefix = 0 THEN Give(q, LittleEndian(OperandSize(op), 1))
                  ELSE ReadNumber(q, prefix)
    IN Then(Then(size, LAMBDA n : SafeReadBytes(n, FromLittleEndian(n.v))),
            LAMBDA body : Give(body, [op |-> op, operand |-> body.v]))

(* An item of the stack is the bytes pushed, a number pushed by its opcode *)
(* or an array.                                                            *)
Bytes(b)   == [k |-> "bytes", v |-> b]
Integer(n) == [k |-> "int", v |-> n]
Array(s)   == [k |-> "array", v |-> s]

(* The stack after an instruction, its top first; an instruction that is   *)
(* not known here leaves its mark.                                         *)
AfterInstruction(stack, i) ==
    IF i.op = PUSH0 THEN <<Bytes(<<>>)>> \o stack
    ELSE IF i.op <= PUSHDATA4 THEN <<Bytes(i.operand)>> \o stack
    ELSE IF i.op = PUSHM1 THEN <<Integer(-1)>> \o stack
    ELSE IF i.op \in PUSH1..PUSH16 THEN <<Integer(i.op - PUSH1 + 1)>> \o stack
    ELSE IF i.op = PACK
    THEN LET n == IF stack[1].k = "int" THEN stack[1].v ELSE 0
         IN <<Array(SubSeq(stack, 2, n + 1))>> \o SubSeq(stack, n + 2, Len(stack))
    ELSE <<[k |-> "op", v |-> <<i.op>> \o i.operand]>> \o stack

RECURSIVE RunScript(_, _)
RunScript(r, stack) ==
    LET after(q) == IF q.bad THEN Give(q, stack) ELSE RunScript(q, AfterInstruction(stack, q.v))
    IN IF r.bad \/ r.p > Len(r.s) THEN Give(r, stack) ELSE after(ReadInstruction(r))
=============================================================================
