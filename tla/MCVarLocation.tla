---------------------------- MODULE MCVarLocation ----------------------------
(***************************************************************************)
(* Words of four bits and bytes of two.  The jobs are                      *)
(*   - programs of at most two operations out of Alphabet, run on stacks a *)
(*     unit test could pass, and reads at every address with six           *)
(*     placements of the saved memory;                                     *)
(*   - programs of three operations with jumps;                            *)
(*   - variables whose location uses the frame base and the CFA, over      *)
(*     combinations of location lists, FDEs and pcs.                       *)
(***************************************************************************)
EXTENDS VarLocation

O(opcode, op1, op2) == [opcode |-> opcode, op1 |-> op1, op2 |-> op2]

\* A program whose operation k lies at offset 2 * (k - 1).
Program(s) ==
  [k \in DOMAIN s |-> [opcode |-> s[k].opcode, op1 |-> s[k].op1, op2 |-> s[k].op2, off |-> 2 * (k - 1)]]

Plain(opcodes) == {O(x, 0, 0) : x \in opcodes}

Alphabet ==
  Plain({"dup", "drop", "over", "swap", "rot", "nop", "deref", "abs", "neg", "not", "fbreg",
         "call_frame_cfa", "stack_value", "piece", "illegal"} \cup BinaryOps \cup CompareOps)
    \cup {O("const", v, 0) : v \in {0, 5, 15}}
    \cup {O("pick", n, 0) : n \in {0, 1, 3}}
    \cup {O("deref_size", n, 0) : n \in 0 .. 3}
    \cup {O("plus_uconst", 3, 0), O("breg", 1, 0), O("breg", 15, 9), O("bregx", 1, 0),
          O("reg", 1, 0), O("regx", 0, 0), O("regx", 9, 0)}

Stacks == {<<>>, <<0>>, <<5, 7>>, <<15, 8>>, <<1, 6, 5>>}

\* The operations that may come first of two.
First == {a \in Alphabet : a.opcode \in {"const", "dup", "drop", "over", "rot", "pick", "deref", "deref_size",
                                        "not", "minus", "breg", "fbreg", "call_frame_cfa", "nop"}}

Entry(low, high, s) == [there |-> TRUE, resolved |-> TRUE, low |-> low, high |-> high, ops |-> Program(s)]

\* libdwarf gives an expression no bounds.
ExprLoc(ops) ==
  [form |-> "expression",
   entries |-> <<[there |-> TRUE, resolved |-> TRUE, low |-> 0, high |-> MaxUnsigned, ops |-> ops]>>]
List(entries) == [form |-> "list", entries |-> entries]
Absent == [form |-> "none", entries |-> <<>>]

\* Registers 0 and 1; the memory of the frame is <<2, 1, 3, 1>>, at base.
Ctx(base, frameBase, fde) ==
  [regs |-> (0 :> 6 @@ 1 :> 9), stackBase |-> base, stackMemory |-> <<2, 1, 3, 1>>,
   frameBase |-> frameBase, cuLow |-> 1, cuHigh |-> 4, eh |-> fde, debug |-> NoFde]

Job(kind, ops, stk, pc, ctx) == [kind |-> kind, loc |-> ExprLoc(ops), stk |-> stk, pc |-> pc, ctx |-> ctx]

RegBase == List(<<Entry(0, 15, <<O("reg", 0, 0)>>)>>)

OneRow == [there |-> TRUE, low |-> 2, high |-> 4,
           rows |-> <<[start |-> 2, rule |-> "register", reg |-> 0, offset |-> 1, ops |-> <<>>, other |-> <<>>]>>]

OperationJobs ==
  {Job("test", Program(s), stk, 2, Ctx(5, RegBase, OneRow)) :
     s \in {<<>>} \cup {<<a>> : a \in Alphabet}, stk \in Stacks}
  \cup
  {Job("test", Program(<<a, b>>), stk, 2, Ctx(5, RegBase, OneRow)) :
     a \in First, b \in Alphabet, stk \in {<<5, 7>>, <<1, 6, 5>>}}
  \cup
  {Job("test", Program(<<O("const", a, 0), b>>), <<>>, 2, Ctx(base, Absent, NoFde)) :
     a \in Word, b \in {O("deref", 0, 0), O("deref_size", 1, 0), O("deref_size", 2, 0)},
     base \in {0, 5, 9, 11, 12, 14}}

JumpAlphabet ==
  {O("skip", d, 0) : d \in {1, 2, 4, 14}} \cup {O("bra", d, 0) : d \in {2, 4, 14}}
    \cup {O("const", 1, 0), O("dup", 0, 0), O("nop", 0, 0)}

JumpJobs ==
  {Job("test", Program(<<a, b, c>>), <<>>, 2, Ctx(5, Absent, NoFde)) :
     a \in JumpAlphabet, b \in JumpAlphabet, c \in JumpAlphabet}

Row(start, rule, reg, s, other) ==
  [start |-> start, rule |-> rule, reg |-> reg, offset |-> start, ops |-> Program(s), other |-> Program(other)]

FbReg0 == <<O("fbreg", 1, 0)>>
Cfa0 == <<O("call_frame_cfa", 0, 0)>>

Rows(start) ==
  {Row(start, rule, 0, <<>>, <<>>) : rule \in {"undefined", "unreadable"}}
    \cup {Row(start, "register", r, <<>>, other) : r \in {0, 1, 9}, other \in {<<>>, FbReg0}}
    \cup {Row(start, "expression", 0, s, other) : s \in {FbReg0, Cfa0, <<O("breg", 2, 1)>>}, other \in {<<>>, Cfa0}}

SecondRows ==
  {Row(3, "register", 0, <<>>, FbReg0), Row(4, "register", 1, <<>>, Cfa0), Row(3, "register", 9, <<>>, <<>>),
   Row(4, "undefined", 0, <<>>, <<>>), Row(4, "expression", 0, FbReg0, <<>>)}

FdeOf(rows) == [there |-> TRUE, low |-> 2, high |-> 6, rows |-> rows]

Fdes == {NoFde} \cup {FdeOf(<<r>>) : r \in Rows(2)} \cup {FdeOf(<<r, s>>) : r \in Rows(2), s \in SecondRows}

FrameBases ==
  {Absent, ExprLoc(Program(Cfa0)), ExprLoc(Program(FbReg0)), ExprLoc(<<>>), RegBase,
   List(<<Entry(1, 2, <<O("reg", 1, 0)>>)>>),
   List(<<Entry(1, 3, Cfa0), Entry(4, 5, <<O("breg", 1, 1)>>)>>)}

\* Attributes that load in part or not at all: an entry that cannot be read or has
\* no addresses in front of one at every pc, operations that cannot be read.
Partial ==
  {[form |-> form, entries |-> <<[Entry(1, 3, <<O("reg", 0, 0)>>) EXCEPT !.there = there, !.resolved = resolved],
                                 Entry(0, 15, <<O("unreadable", 0, 0), O("breg", 2, 1), O("unreadable", 0, 0)>>)>>] :
     form \in {"expression", "list", "other"}, there, resolved \in BOOLEAN}

VariableJobs ==
  {Job("var", Program(s), <<>>, pc, Ctx(5, frameBase, fde)) :
     s \in {FbReg0, Cfa0}, pc \in {2, 4},
     frameBase \in FrameBases, fde \in Fdes}
  \cup
  {Job("cfa", <<>>, <<>>, pc, Ctx(5, frameBase, fde)) : pc \in {2, 4}, frameBase \in FrameBases, fde \in Fdes}
  \cup
  {[kind |-> "var", loc |-> List(<<Entry(1, 2, <<O("reg", 0, 0)>>), Entry(3, 5, FbReg0)>>), stk |-> <<>>, pc |-> pc,
    ctx |-> Ctx(5, RegBase, NoFde)] : pc \in Word}
  \cup
  {[kind |-> "var", loc |-> loc, stk |-> <<>>, pc |-> pc, ctx |-> Ctx(5, frameBase, OneRow)] :
     loc \in Partial \cup {ExprLoc(Program(FbReg0))}, frameBase \in Partial, pc \in {2, 4, 9}}
  \cup
  {[Job("cfa", <<>>, <<>>, pc, Ctx(5, RegBase, eh)) EXCEPT !.ctx.debug = debug] :
     pc \in {2, 4}, eh \in {NoFde, OneRow}, debug \in {NoFde, OneRow, FdeOf(<<Row(2, "register", 1, <<>>, <<>>)>>)}}

AllJobs == OperationJobs \cup JumpJobs \cup VariableJobs

MCJobs == AllJobs
==============================================================================
