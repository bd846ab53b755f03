----------------------------- MODULE VarLocation -----------------------------
(***************************************************************************)
(* Locations of variables: their loading from the section, and their       *)
(* evaluation by DwarfLocation::evalValue, DwarfExpression::evaluate and   *)
(* DwarfFrames::GetCfa, which call one another.                            *)
(*                                                                         *)
(* A job is what evaluation starts from, [kind, loc, stk, pc, ctx]:        *)
(*   "var"   DwarfVar::evalValue: the location list loc at pc;             *)
(*   "test"  evaluate on the first expression of loc, with the stack stk   *)
(*           of the caller (the unit tests only);                          *)
(*   "cfa"   GetCfa at pc (dwarf2line --frames).                           *)
(* A location is what the section holds of an attribute, [form, entries]:  *)
(* the form is "expression", "list" or one that is not supported; "none"   *)
(* when there is no attribute.  An entry is [there, resolved, low, high,   *)
(* ops]: whether libdwarf reads it, whether its addresses are available,   *)
(* and its operations, "unreadable" among them.                            *)
(* ctx is the context: the providers of DwarfExpression, the CU's bounds   *)
(* cuLow and cuHigh, the location frameBase, and what .eh_frame and        *)
(* .debug_frame have for the pcs of the job: an FDE [there, low, high,     *)
(* rows] with rows [start, rule, reg, offset, ops, other].                 *)
(*                                                                         *)
(* acts is the call stack; its activations are those of evaluate ("expr")  *)
(* and of GetCfa ("cfa").  hasCfa tells whether the context passed to one  *)
(* has a cfa provider: main binds a copy of the context into the provider  *)
(* while the provider of the copy is still null (dwarf2line.cpp:255-265).  *)
(***************************************************************************)
EXTENDS DwarfExpression, SequencesExt

CONSTANTS
  Jobs,      \* the jobs above
  MaxCalls,  \* activations the call stack of the process can hold
  MaxStack   \* words an expression stack can hold

ASSUME CallsAssumption == MaxCalls \in Nat /\ MaxCalls >= 6

VARIABLES job, acts, ret

vars == <<job, acts, ret>>

Context == job.ctx

(***************************************************************************)
(* Results.                                                                *)
(***************************************************************************)
Result(type, value, code) == [type |-> type, value |-> value, code |-> code]

NoResult   == Result("none", 0, "kNone")
Address(v) == Result("address", v, "kNone")
Value(v)   == Result("value", v, "kNone")
Error(code) == Result("invalid", 0, code)
Trap       == Result("undefined", 0, "kNone")  \* undefined behaviour of an operation
StackLost  == Result("lost", 0, "kNone")       \* undefined behaviour of the local stack
Exhausted  == Result("exhausted", 0, "kNone")  \* out of call stack
Full       == Result("full", 0, "kNone")       \* out of memory for the expression stack

Valid(r) == r.type \in {"address", "value"}

(***************************************************************************)
(* Loading.                                                                *)
(***************************************************************************)
\* loadExprFromLoclist leaves out an operation that cannot be read.
LoadedOps(ops) == SelectSeq(ops, LAMBDA op : op.opcode # "unreadable")

\* The bounds of an entry stay 0 while its addresses are not available.
LowAddr(e) == IF e.resolved THEN e.low ELSE 0
HighAddr(e) == IF e.resolved THEN e.high ELSE 0

\* DwarfLocation::load.
IsLoaded(loc) == loc.form \in {"expression", "list"}

\* The entries it keeps: those that can be read, of an expression the first.
Kept(loc) ==
  {k \in DOMAIN loc.entries : IsLoaded(loc) /\ loc.entries[k].there /\ (loc.form = "expression" => k = 1)}

\* The expression of the k-th entry.
Expression(loc, k) == LoadedOps(loc.entries[k].ops)

(***************************************************************************)
(* DwarfLocation::evalValue: the entries whose expression may be evaluated;*)
(* the first of them is.                                                   *)
(***************************************************************************)
Unlimited(e) == LowAddr(e) = 0 /\ (HighAddr(e) = 0 \/ HighAddr(e) = MaxUnsigned)

\* The low end is relative to the low address of the CU, the high end to its
\* high address.
InEntry(e, pc) ==
  Wrap(LowAddr(e) + Context.cuLow) <= pc /\ pc < Wrap(HighAddr(e) + Context.cuHigh)

Fitting(loc, pc) == {k \in Kept(loc) : Unlimited(loc.entries[k]) \/ InEntry(loc.entries[k], pc)}

(***************************************************************************)
(* DwarfFrames.  GetAllFde looks into .debug_frame only when .eh_frame     *)
(* cannot be read; it returns its argument, so it never fails.             *)
(***************************************************************************)
NoFde == [there |-> FALSE, low |-> 0, high |-> 0, rows |-> <<>>]

Fde == IF Context.eh.there THEN Context.eh ELSE IF Context.debug.there THEN Context.debug ELSE NoFde

\* The row of the FDE that covers p, and its rule.
Covered(pc) == Fde.low <= pc /\ pc < Fde.high

RowIndex(p) == Max({k \in DOMAIN Fde.rows : Fde.rows[k].start <= p})

RowAt(p) == Fde.rows[RowIndex(p)]

\* Where the row after the one at p starts; the end of the FDE for the last.
SubsequentPc(p) ==
  IF RowIndex(p) < Len(Fde.rows) THEN Fde.rows[RowIndex(p) + 1].start
  ELSE Fde.high

\* GetReg for the CFA's column when its rule is a register plus an offset.
CfaOfRegister(row) ==
  IF HasRegister(Context, row.reg) THEN Wrap(Context.regs[row.reg] + row.offset) ELSE MaxUnsigned

(***************************************************************************)
(* The call stack.                                                         *)
(***************************************************************************)
Top == acts[Len(acts)]
Below == SubSeq(acts, 1, Len(acts) - 1)
Op == Top.ops[Top.i]

\* own: the stack is the caller's.  Without one evaluate uses a stack that it
\* has already destroyed.
Activation(kind, ops, stk, own, pc, hasCfa) ==
  [kind |-> kind, ops |-> ops, i |-> 1, stk |-> stk, own |-> own, pc |-> pc, hasCfa |-> hasCfa,
   p |-> Fde.low, cfa |-> MaxUnsigned, column |-> "cfa"]

Evaluate(ops, pc, hasCfa) == Activation("expr", ops, <<>>, FALSE, pc, hasCfa)

GetCfa(pc, hasCfa) == Activation("cfa", <<>>, <<>>, FALSE, pc, hasCfa)

Call(a) == IF Len(acts) = MaxCalls
           THEN acts' = <<>> /\ ret' = Exhausted
           ELSE acts' = Append(acts, a) /\ ret' = NoResult

\* The running activation returns r to the one below it.
Return(r) == acts' = Below /\ ret' = r

\* The process dies, or nothing can be said of it any more.
Die(r) == acts' = <<>> /\ ret' = r

\* evaluate goes on at operation i with stack s.
Goto(i, s) ==
  IF Len(s) > MaxStack THEN Die(Full)
  ELSE /\ acts' = [acts EXCEPT ![Len(acts)].i = i, ![Len(acts)].stk = s]
       /\ ret' = NoResult

\* GetCfa goes on with a column at p, having read cfa.
GotoRow(p, cfa, column) ==
  /\ acts' = [acts EXCEPT ![Len(acts)].p = p, ![Len(acts)].cfa = cfa, ![Len(acts)].column = column]
  /\ ret' = NoResult

Running(kind) == acts # <<>> /\ Top.kind = kind /\ ret = NoResult
Returned(kind) == acts # <<>> /\ Top.kind = kind /\ ret # NoResult

AtOp(opcodes) == Running("expr") /\ Top.i <= Len(Top.ops) /\ Op.opcode \in opcodes

-----------------------------------------------------------------------------
(***************************************************************************)
(* What libdwarf and the crash context give: words and lists of words; an  *)
(* FDE whose rows start at its low end; and, as MaxStack has to bound      *)
(* loops only, expressions that without them fit an expression stack.      *)
(***************************************************************************)
IsSequence(s) == s \in Seq({s[k] : k \in DOMAIN s})

IsExpression(ops, room) == ops \in Seq(Operations) /\ Len(ops) <= room

WellFormedLocation(loc, room) ==
  /\ IsSequence(loc.entries)
  /\ \A k \in Kept(loc) : IsExpression(Expression(loc, k), room)

WellFormedFde(fde, room) ==
  /\ fde.low \in Word /\ fde.high \in Word
  /\ IsSequence(fde.rows)
  /\ fde.low < fde.high => fde.rows # <<>> /\ fde.rows[1].start = fde.low
  /\ \A k \in DOMAIN fde.rows : LET row == fde.rows[k] IN
       /\ row.start \in Word /\ row.offset \in Word
       /\ IsExpression(LoadedOps(row.ops), room) /\ IsExpression(LoadedOps(row.other), room)

WellFormedJob(j) ==
  LET ctx == j.ctx
      room == MaxStack - Len(j.stk)
  IN  /\ j.kind \in {"var", "test", "cfa"}
      /\ j.pc \in Word /\ j.stk \in Seq(Word) /\ Len(j.stk) <= MaxStack
      /\ WellFormedLocation(j.loc, room) /\ WellFormedLocation(ctx.frameBase, room)
      /\ j.kind = "test" => 1 \in Kept(j.loc)
      /\ WellFormedFde(ctx.eh, room) /\ WellFormedFde(ctx.debug, room)
      /\ \A r \in DOMAIN ctx.regs : ctx.regs[r] \in Word
      /\ ctx.stackBase \in Word /\ ctx.stackMemory \in Seq(0 .. (2 ^ ByteBits - 1))

ASSUME JobsAssumption == MaxStack \in Nat /\ \A j \in Jobs : WellFormedJob(j)

-----------------------------------------------------------------------------
Init ==
  /\ job \in Jobs
  /\ \/ job.kind = "cfa" /\ acts = <<GetCfa(job.pc, TRUE)>>
     \/ job.kind = "test" /\ acts = <<Activation("expr", Expression(job.loc, 1), job.stk, TRUE, job.pc, TRUE)>>
     \/ /\ job.kind = "var"
        /\ LET fit == Fitting(job.loc, job.pc) IN
           acts = IF fit = {} THEN <<>> ELSE <<Evaluate(Expression(job.loc, Min(fit)), job.pc, TRUE)>>
  /\ ret = IF acts = <<>> THEN Error("kAddressInvalid") ELSE NoResult

(***************************************************************************)
(* DwarfExpression::evaluate, one operation per step.                      *)
(***************************************************************************)
\* Operations that touch the stack, registers and memory only.
StackOp == /\ AtOp(StackOps)
           /\ LET outcome == Apply(Context, Op, Top.stk) IN
              CASE outcome.code = "kNone"     -> Goto(Top.i + 1, outcome.stk)
                [] outcome.code = "undefined" -> Die(Trap)
                [] OTHER                      -> Return(Error(outcome.code))
           /\ UNCHANGED job

\* reg and regx end the evaluation with the value of the register.
RegisterOp == /\ AtOp(RegisterOps)
              /\ LET reg == RegisterNumber(Top.ops, Top.i) IN
                 IF HasRegister(Context, reg) THEN Return(Value(Context.regs[reg]))
                 ELSE Return(Error("kRegisterInvalid"))
              /\ UNCHANGED job

Skip == /\ AtOp({"skip"})
        /\ Goto(AfterJump(Top.ops, Top.i), Top.stk)
        /\ UNCHANGED job

\* bra pops the condition, and jumps whatever it is.
Bra == /\ AtOp({"bra"})
       /\ IF Top.stk = <<>> THEN Return(Error("kStackIndexInvalid"))
          ELSE Goto(AfterJump(Top.ops, Top.i), Pop(1, Top.stk))
       /\ UNCHANGED job

\* fbreg evaluates the location of the frame base at the same pc, in the same
\* context; there may be none.
FbReg == /\ AtOp({"fbreg"})
         /\ LET fit == Fitting(Context.frameBase, Top.pc) IN
            IF fit # {}
            THEN Call(Evaluate(Expression(Context.frameBase, Min(fit)), Top.pc, Top.hasCfa))
            ELSE Return(Error("kFrameBaseInvalid"))
         /\ UNCHANGED job

FbRegReturns == /\ Returned("expr") /\ Op.opcode = "fbreg"
                /\ IF Valid(ret) THEN Goto(Top.i + 1, Push(Wrap(ret.value + Op.op1), Top.stk))
                   ELSE Return(Error("kFrameBaseInvalid"))
                /\ UNCHANGED job

\* Mutant: the provider's copy of the context has a provider too.
CallFrameCfa_Bound == /\ AtOp({"call_frame_cfa"})
                      /\ IF Top.hasCfa THEN Call(GetCfa(Top.pc, TRUE))
                         ELSE Return(Error("kCfaInvalid"))
                      /\ UNCHANGED job

CallFrameCfa == /\ AtOp({"call_frame_cfa"})
                /\ IF Top.hasCfa THEN Call(GetCfa(Top.pc, FALSE))
                   ELSE Return(Error("kCfaInvalid"))
                /\ UNCHANGED job

\* The CFA is pushed, the value that stands for an error included.
CallFrameCfaReturns == /\ Returned("expr") /\ Op.opcode = "call_frame_cfa"
                       /\ Goto(Top.i + 1, Push(ret.value, Top.stk))
                       /\ UNCHANGED job

StackValue == /\ AtOp({"stack_value"})
              /\ IF Top.stk = <<>> THEN Return(Error("kStackIndexInvalid"))
                 ELSE Return(Value(Top.stk[1]))
              /\ UNCHANGED job

BadOp == /\ AtOp({"piece", "illegal"})
         /\ Return(Error(IF Op.opcode = "piece" THEN "kNotImplemented" ELSE "kIllegalOp"))
         /\ UNCHANGED job

NoOps == /\ Running("expr")
         /\ Top.ops = <<>>
         /\ Return(Error("kIllegalState"))
         /\ UNCHANGED job

\* The end of the expression: the top of the stack is an address.
EndOfOps == /\ Running("expr")
            /\ Top.ops # <<>> /\ Top.i > Len(Top.ops)
            /\ IF Top.stk = <<>> THEN Return(Error("kStackIndexInvalid"))
               ELSE Return(Address(Top.stk[1]))
            /\ UNCHANGED job

\* The next statement of evaluate reads or writes its stack.
Touching ==
  \/ Running("expr") /\ Top.ops # <<>> /\ Top.i > Len(Top.ops)
  \/ AtOp((StackOps \ {"nop"}) \cup RegisterOps \cup {"bra", "stack_value"})
  \/ Returned("expr") /\ (Op.opcode = "fbreg" => Valid(ret))

\* local_stack is destroyed at the end of the block that declares it: its
\* first use may find what it held, as in the other actions, or anything.
LoseStack == /\ Touching /\ ~Top.own
             /\ Die(StackLost)
             /\ UNCHANGED job

(***************************************************************************)
(* DwarfFrames::GetCfa, one row of the FDE per step.                       *)
(***************************************************************************)
\* Where the loop moves p within its row: to the last address; libdwarf does
\* not say where the last row ends, and p may stay.
Moves(p) == {SubsequentPc(p) - 1} \cup (IF SubsequentPc(p) = Fde.high THEN {p} ELSE {})

\* Mutant: a row that gives the error value is tried at the same address.
AfterRow_Stuck(v) ==
  IF v = MaxUnsigned THEN GotoRow(Top.p, v, "cfa")
  ELSE \E p \in Moves(Top.p) : GotoRow(SubsequentPc(p), v, "cfa")

\* The row at p gave the CFA v.  After the error value the same row is tried
\* at the next address.  Else p moves; the rules of the other columns are
\* evaluated where the row starts at p; and the next row follows.
AfterRow(v) ==
  IF v = MaxUnsigned THEN GotoRow(Top.p + 1, v, "cfa")
  ELSE \E p \in Moves(Top.p) :
         IF RowAt(p).start = p /\ RowAt(p).other # <<>> THEN GotoRow(p, v, "other")
         ELSE GotoRow(SubsequentPc(p), v, "cfa")

InRow(column) ==
  Covered(Top.pc) /\ Top.p < Fde.high /\ Top.column = column

\* The row of the CFA: libdwarf may not give it ("unreadable"); "undefined" is a
\* rule without a value, an expression that cannot be read among them.
CfaColumn == /\ Running("cfa") /\ InRow("cfa")
             /\ LET row == RowAt(Top.p) IN
                \/ row.rule = "register"   /\ AfterRow(CfaOfRegister(row))
                \/ row.rule = "undefined"  /\ AfterRow(MaxUnsigned)
                \/ row.rule = "unreadable" /\ GotoRow(Top.p + 1, Top.cfa, "cfa")
                \/ row.rule = "expression" /\ Call(Evaluate(LoadedOps(row.ops), Top.p, Top.hasCfa))
             /\ UNCHANGED job

\* EvalExpr: an invalid result counts as the error value.
CfaColumnReturns == /\ Returned("cfa") /\ InRow("cfa")
                    /\ AfterRow(IF Valid(ret) THEN ret.value ELSE MaxUnsigned)
                    /\ UNCHANGED job

\* The value of another column is printed only.
OtherColumn == /\ Running("cfa") /\ InRow("other")
               /\ Call(Evaluate(LoadedOps(RowAt(Top.p).other), Top.p, Top.hasCfa))
               /\ UNCHANGED job

OtherColumnReturns == /\ Returned("cfa") /\ InRow("other")
                      /\ GotoRow(SubsequentPc(Top.p), Top.cfa, "cfa")
                      /\ UNCHANGED job

\* No FDE covers the pc, or every row has been read.
CfaEnds == /\ Running("cfa")
           /\ ~Covered(Top.pc) \/ Top.p >= Fde.high
           /\ Return(Address(Top.cfa))
           /\ UNCHANGED job

Next == \/ StackOp \/ RegisterOp \/ Skip \/ Bra \/ FbReg \/ FbRegReturns
        \/ CallFrameCfa \/ CallFrameCfaReturns \/ StackValue \/ BadOp \/ NoOps \/ EndOfOps
        \/ LoseStack
        \/ CfaColumn \/ CfaColumnReturns \/ OtherColumn \/ OtherColumnReturns \/ CfaEnds

Spec == Init /\ [][Next]_vars /\ WF_vars(Next)

-----------------------------------------------------------------------------
Done == acts = <<>>

\* Every expression that the evaluation of the job may run.
Expressions ==
  {Expression(job.loc, k) : k \in Kept(job.loc)}
    \cup {Expression(Context.frameBase, k) : k \in Kept(Context.frameBase)}
    \cup {LoadedOps(Fde.rows[k].ops) : k \in DOMAIN Fde.rows}
    \cup {LoadedOps(Fde.rows[k].other) : k \in DOMAIN Fde.rows}

Opcode(exprs) == {op.opcode : op \in UNION {ToSet(e) : e \in exprs}}

\* A frame base that is not defined by itself (DWARF has no meaning for fbreg
\* in DW_AT_frame_base).
Uses(ops, opcode) == \E i \in 1 .. Len(ops) : ops[i].opcode = opcode

FrameBaseGrounded == \A k \in Kept(Context.frameBase) : ~Uses(Expression(Context.frameBase, k), "fbreg")

\* A jump moves forward when the operation it continues at lies behind it.
ForwardJumps(ops) ==
  \A k \in DOMAIN ops : ops[k].opcode \in JumpOps => AfterJump(ops, k) > k

\* Type invariant of the call stack and of the result; MaxStack is no limit to
\* expressions without jumps.
TypeOK ==
  /\ Len(acts) <= MaxCalls
  /\ \A k \in DOMAIN acts :
       /\ acts[k].stk \in Seq(Word) /\ Len(acts[k].stk) <= MaxStack
       /\ acts[k].i \in 1 .. (Len(acts[k].ops) + 1)
       /\ acts[k].pc \in Word /\ acts[k].cfa \in Word /\ acts[k].p \in Word
       /\ acts[k].column \in {"cfa", "other"}
  /\ ret.value \in Word /\ ret.code \in ErrorCode
  /\ Opcode(Expressions) \cap JumpOps = {} => ret # Full

\* The mutual recursion of evaluate, evalValue and GetCfa is bounded: at most
\* the CFA, a row's expression, the frame base, the CFA, a row's expression
\* and the frame base again.  There the cfa provider is missing
\* (dwarf2line.cpp:262-265), which is all that keeps a frame base that is the
\* CFA and a CFA rule that uses the frame base from recurring forever.
NestingBounded ==
  FrameBaseGrounded => Len(acts) <= (IF job.kind = "cfa" THEN 6 ELSE 5) /\ ret # Exhausted

\* Apart from comparisons and divisions no operation pops an empty stack,
\* traps or reads outside the saved memory, whatever the expressions: every
\* pop is preceded by a test of the stack, and the memory provider grants no
\* byte that it does not have, provided the saved memory ends at least a word
\* below the end of the address space (dwarf_expression.cpp:275-574,
\* dwarf2line.cpp:81-91).  Overflow and large shifts are not undefined here:
\* Words gives them the outcome of the processor.  The stack itself is defined
\* where the caller lends it and no frame base or CFA is evaluated, as these
\* have a local_stack that is gone; dwarf2line lends none (lines 85-88).
OperationsDefined ==
  /\ /\ Opcode(Expressions) \cap (CompareOps \cup {"div", "mod"}) = {}
     /\ Context.stackBase + Len(Context.stackMemory) + WordBytes <= MaxUnsigned
     => ret # Trap
  /\ job.kind = "test" /\ Opcode(Expressions) \cap {"fbreg", "call_frame_cfa"} = {}
     => ret # StackLost

\* swap, rot and nop lose no entry and invent none; dup, over and pick add
\* one entry, a copy of one that is there (lines 275-362).
ShufflesPermute ==
  [][AtOp({"swap", "rot", "nop", "dup", "over", "pick"}) /\ Len(acts') = Len(acts)
     => LET before == Top.stk
            after  == acts'[Len(acts)].stk
            copies == IF Op.opcode \in {"dup", "over", "pick"} THEN 1 ELSE 0
            count(s, v) == Cardinality({k \in DOMAIN s : s[k] = v})
        IN  /\ Len(after) = Len(before) + copies
            /\ ToSet(after) = ToSet(before)
            /\ \A v \in ToSet(before) : count(after, v) >= count(before, v)]_vars

\* Evaluation ends when no expression jumps backwards and the frame base is
\* grounded: neither the loops nor the mutual recursion run forever.
EvaluationEnds ==
  FrameBaseGrounded /\ (\A e \in Expressions : ForwardJumps(e)) ~> Done

\* What the comment at lines 644 and 660 says of skip and bra: they continue
\* at the operation that lies at the offset of the jump plus its operand.
JumpLandsOnTarget ==
  [][AtOp(JumpOps) /\ Len(acts') = Len(acts) /\ FindOpIndexByOffset(Top.ops, JumpTarget(Op)) # 0
     => acts'[Len(acts)].i = FindOpIndexByOffset(Top.ops, JumpTarget(Op))]_vars

\* What the comment at lines 435-436 says of call_frame_cfa: it pushes the
\* CFA at the pc, which the row that covers the pc gives.
CfaIsThatOfPc ==
  /\ Done /\ ret.type = "address" /\ Covered(job.pc) /\ job.kind = "var"
  /\ \A k \in Kept(job.loc) :
       Len(Expression(job.loc, k)) = 1 /\ Expression(job.loc, k)[1].opcode = "call_frame_cfa"
  /\ \A k \in DOMAIN Fde.rows : Fde.rows[k].rule = "register"
  => ret.value = CfaOfRegister(RowAt(job.pc))

\* What the comment at dwarf_location.cpp:141 says of a range: both its ends
\* are relative to the low address of the CU.
RangeBaseIsLowPc ==
  [][AtOp({"fbreg"}) /\ Len(acts') = Len(acts) + 1
     => \E k \in Kept(Context.frameBase) :
          LET e == Context.frameBase.entries[k] IN
          /\ acts'[Len(acts')].ops = Expression(Context.frameBase, k)
          /\ Unlimited(e) \/ Top.pc \in (Context.cuLow + e.low) .. (Context.cuLow + e.high - 1)]_vars
=============================================================================
