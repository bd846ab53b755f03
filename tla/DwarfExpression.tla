--------------------------- MODULE DwarfExpression ---------------------------
(***************************************************************************)
(* The operations of DwarfExpression::evaluate                             *)
(* (src/dwarfexpr/dwarf_expression.cpp) on the expression stack, and the   *)
(* providers of dwarf2line.cpp they read registers and memory through.     *)
(*                                                                         *)
(* An operation is [opcode, op1, op2, off].  Opcodes that the code treats  *)
(* alike share a name: "const" stands for addr, lit0-31 and the const      *)
(* family, "reg" for reg0-31 and "breg" for breg0-31 (op1 of "reg" and op2 *)
(* of "breg" hold the register the opcode encodes).  A stack is a sequence *)
(* of words, the top first.                                                *)
(***************************************************************************)
EXTENDS Words, Sequences

BinaryOps == {"and", "div", "minus", "mod", "mul", "or", "plus", "shl", "shr", "shra", "xor"}
UnaryOps == {"abs", "neg", "not", "plus_uconst"}
CompareOps == {"le", "ge", "eq", "lt", "gt", "ne"}
ShuffleOps == {"dup", "drop", "pick", "over", "swap", "rot"}
StackOps == {"const", "nop", "breg", "bregx", "deref", "deref_size"}
            \cup ShuffleOps \cup UnaryOps \cup BinaryOps \cup CompareOps
RegisterOps == {"reg", "regx"}
JumpOps == {"skip", "bra"}
\* "piece" stands for the operations that are not implemented, "illegal" for
\* bytes that are no opcode.
Opcodes == StackOps \cup RegisterOps \cup JumpOps
           \cup {"fbreg", "call_frame_cfa", "stack_value", "piece", "illegal"}

Operations == [opcode : Opcodes, op1 : Word, op2 : Word, off : Nat]

ErrorCode == {"kNone", "kMemoryInvalid", "kRegisterInvalid", "kFrameBaseInvalid",
              "kIllegalState", "kIllegalOp", "kIllegalOpd", "kStackIndexInvalid",
              "kCfaInvalid", "kNotImplemented", "kAddressInvalid"}

\* What an operation does: a new stack, an error code, or undefined behaviour.
Ok(s) == [stk |-> s, code |-> "kNone"]
Bad(code) == [stk |-> <<>>, code |-> code]
Undefined == [stk |-> <<>>, code |-> "undefined"]

Push(v, s) == <<v>> \o s
Pop(n, s) == SubSeq(s, n + 1, Len(s))

(***************************************************************************)
(* Providers.  ctx.regs maps the registers of the crash context to words;  *)
(* ctx.stackBase and ctx.stackMemory are the saved stack memory, in bytes. *)
(***************************************************************************)
HasRegister(ctx, r) == r \in DOMAIN ctx.regs

\* memory_provider: the test is made with wrapping 64-bit sums.
MemoryProvided(ctx, addr, size) ==
  LET end == Wrap(ctx.stackBase + Len(ctx.stackMemory))
  IN  ctx.stackBase <= addr /\ addr < end /\ Wrap(addr + size) <= end

\* The bytes lie inside the saved memory.
InMemory(ctx, addr, size) ==
  ctx.stackBase <= addr /\ addr + size <= ctx.stackBase + Len(ctx.stackMemory)

ByteAt(ctx, addr) == ctx.stackMemory[addr - ctx.stackBase + 1]

\* size bytes at addr, little endian and zero extended to a word.
ReadBytes(ctx, addr, size) ==
  MapThenSumSet(LAMBDA k : ByteAt(ctx, addr + k) * 2 ^ (k * ByteBits), 0 .. (size - 1))

(***************************************************************************)
(* Stack operations, one operator per group of cases of the switch.        *)
(***************************************************************************)
\* The index is an operand of one byte: `idx + 1` does not wrap.
Pick(idx, s) ==
  IF Len(s) < idx + 1 THEN Bad("kStackIndexInvalid") ELSE Ok(Push(s[idx + 1], s))

\* Mutant: the top is pushed twice.
Rot_Doubles(s) ==
  IF Len(s) < 3 THEN Bad("kStackIndexInvalid")
  ELSE Ok(<<s[2], s[1], s[1]>> \o Pop(3, s))

Rot(s) ==
  IF Len(s) < 3 THEN Bad("kStackIndexInvalid")
  ELSE Ok(<<s[2], s[3], s[1]>> \o Pop(3, s))

Shuffle(op, s) ==
  CASE op.opcode = "dup"  -> IF s = <<>> THEN Bad("kStackIndexInvalid") ELSE Ok(Push(s[1], s))
    [] op.opcode = "drop" -> IF s = <<>> THEN Bad("kStackIndexInvalid") ELSE Ok(Pop(1, s))
    [] op.opcode = "pick" -> Pick(op.op1, s)
    [] op.opcode = "over" -> IF Len(s) < 2 THEN Bad("kStackIndexInvalid") ELSE Ok(Push(s[2], s))
    [] op.opcode = "swap" -> IF Len(s) < 2 THEN Bad("kStackIndexInvalid")
                             ELSE Ok(<<s[2], s[1]>> \o Pop(2, s))
    [] op.opcode = "rot"  -> Rot(s)

\* A provider that grants bytes it does not have is read out of bounds.
Fetch(ctx, addr, size, s) ==
  IF ~MemoryProvided(ctx, addr, size) THEN Bad("kMemoryInvalid")
  ELSE IF ~InMemory(ctx, addr, size) THEN Undefined
  ELSE Ok(Push(ReadBytes(ctx, addr, size), Pop(1, s)))

\* A word that was read as the largest signed number counts as a failed read.
Deref(ctx, s) ==
  IF s = <<>> THEN Bad("kStackIndexInvalid")
  ELSE LET fetched == Fetch(ctx, s[1], WordBytes, s)
       IN  IF fetched.code = "kNone" /\ fetched.stk[1] = MaxSigned THEN Bad("kMemoryInvalid")
           ELSE fetched

DerefSize(ctx, size, s) ==
  IF s = <<>> THEN Bad("kStackIndexInvalid")
  ELSE IF size > WordBytes \/ size = 0 THEN Bad("kIllegalOpd")
  ELSE Fetch(ctx, s[1], size, s)

\* breg adds its operand to its register; bregx adds the register's number,
\* which is its first operand, instead of the offset.
BaseRegister(ctx, reg, s) ==
  IF ~HasRegister(ctx, reg.number) THEN Bad("kRegisterInvalid")
  ELSE Ok(Push(Wrap(ctx.regs[reg.number] + reg.offset), s))

Unary(op, s) ==
  IF s = <<>> THEN Bad("kStackIndexInvalid")
  ELSE Ok(Push(CASE op.opcode = "abs" -> Wrap(Magnitude(Signed(s[1])))
                 [] op.opcode = "neg" -> Wrap(-s[1])
                 [] op.opcode = "not" -> BitNot(s[1])
                 [] op.opcode = "plus_uconst" -> Wrap(s[1] + op.op1),
               Pop(1, s)))

\* The processor traps on a division by zero, and on the one quotient that is
\* no signed word.
DivisionTraps(a, b) == b = 0 \/ (Signed(b) = -1 /\ Signed(a) = -MaxSigned - 1)

BinaryValue(opcode, a, b) ==
  CASE opcode = "and"   -> BitAnd(a, b)
    [] opcode = "or"    -> BitOr(a, b)
    [] opcode = "xor"   -> BitXor(a, b)
    [] opcode = "plus"  -> Wrap(a + b)
    [] opcode = "minus" -> Wrap(a - b)
    [] opcode = "mul"   -> Wrap(Signed(a) * Signed(b))
    [] opcode = "div"   -> Wrap(Quotient(Signed(a), Signed(b)))
    [] opcode = "mod"   -> Wrap(Remainder(Signed(a), Signed(b)))
    [] opcode = "shl"   -> ShiftLeft(a, b)
    [] opcode \in {"shr", "shra"} -> ShiftRight(a, b)

\* Mutant: the size of the stack is not tested.
Binary_Unchecked(op, s) ==
  IF Len(s) < 2 THEN Undefined
  ELSE IF op.opcode \in {"div", "mod"} /\ DivisionTraps(s[2], s[1]) THEN Undefined
  ELSE Ok(Push(BinaryValue(op.opcode, s[2], s[1]), Pop(2, s)))

Binary(op, s) ==
  IF Len(s) < 2 THEN Bad("kStackIndexInvalid")
  ELSE IF op.opcode \in {"div", "mod"} /\ DivisionTraps(s[2], s[1]) THEN Undefined
  ELSE Ok(Push(BinaryValue(op.opcode, s[2], s[1]), Pop(2, s)))

Holds(opcode, a, b) ==
  CASE opcode = "le" -> a <= b
    [] opcode = "ge" -> a >= b
    [] opcode = "eq" -> a = b
    [] opcode = "lt" -> a < b
    [] opcode = "gt" -> a > b
    [] opcode = "ne" -> a # b

\* The comparisons take two entries without testing that there are two.
Compare(op, s) ==
  IF Len(s) < 2 THEN Undefined
  ELSE Ok(Push(IF Holds(op.opcode, Signed(s[2]), Signed(s[1])) THEN 1 ELSE 0, Pop(2, s)))

\* One operation of StackOps.
Apply(ctx, op, s) ==
  CASE op.opcode = "const"      -> Ok(Push(op.op1, s))
    [] op.opcode = "nop"        -> Ok(s)
    [] op.opcode = "breg"       -> BaseRegister(ctx, [number |-> op.op2, offset |-> op.op1], s)
    [] op.opcode = "bregx"      -> BaseRegister(ctx, [number |-> op.op1, offset |-> op.op1], s)
    [] op.opcode = "deref"      -> Deref(ctx, s)
    [] op.opcode = "deref_size" -> DerefSize(ctx, op.op1, s)
    [] op.opcode \in UnaryOps   -> Unary(op, s)
    [] op.opcode \in BinaryOps  -> Binary(op, s)
    [] op.opcode \in CompareOps -> Compare(op, s)
    [] op.opcode \in ShuffleOps -> Shuffle(op, s)

(***************************************************************************)
(* Jumps: op1 is a signed distance from the offset of the jump itself.     *)
(***************************************************************************)
JumpTarget(op) == Wrap(op.off + op.op1)

\* findOpIndexByOffset: the first operation at an offset, 0 for none.
FindOpIndexByOffset(ops, off) ==
  LET hits == {k \in 1 .. Len(ops) : ops[k].off = off}
  IN  IF hits = {} THEN 0 ELSE Min(hits)

\* Mutant: the operation behind the target is skipped too.
AfterJump_SkipsTwo(ops, i) ==
  LET k == FindOpIndexByOffset(ops, JumpTarget(ops[i]))
  IN  IF k = 0 THEN i + 1 ELSE k + 2

\* The operation after a jump: the loop increments the index it was set to.
AfterJump(ops, i) ==
  LET k == FindOpIndexByOffset(ops, JumpTarget(ops[i]))
  IN  IF k = 0 THEN i + 1 ELSE k + 1

\* The register a reg or regx operation names: regx takes it from the first
\* operation of the expression, whatever that is.
RegisterNumber(ops, i) ==
  IF ops[i].opcode = "regx" THEN ops[1].op1 ELSE ops[i].op1
=============================================================================
