-------------------------- MODULE VarLocation_proof --------------------------
(***************************************************************************)
(* The safety properties of VarLocation, for every width of words, every list *)
(* of jobs that libdwarf and the crash context can give, and every bound.  *)
(*                                                                         *)
(* NestingBounded: when the frame base is not defined by fbreg, evaluate,  *)
(* evalValue and GetCfa never stand more than six deep, nor does the       *)
(* evaluation run out of call stack.  Every activation has a rank, the number *)
(* of calls that may stand above it.  The context in the cfa provider has no *)
(* provider itself, so the chain cfa - expression - frame base can be gone *)
(* through twice at most.                                                  *)
(*                                                                         *)
(* TypeOK, OperationsDefined and ShufflesPermute: TInv says that activations *)
(* are frames of words, that one which waits for another stands at one of its *)
(* operations, that an expression without jumps has pushed at most one word *)
(* per operation, that GetCfa does not leave its FDE, and which results were *)
(* possible.  What the operations do to one stack is in DwarfExpression_proof. *)
(***************************************************************************)
EXTENDS VarLocation, DwarfExpression_proof

(***************************************************************************)
(* How deep the call stack gets.                                           *)
(***************************************************************************)

Bound == IF job.kind = "cfa" THEN 6 ELSE 5

Rank(a) ==
  IF a.kind = "cfa" THEN (IF a.hasCfa THEN 5 ELSE 2)
  ELSE (IF a.hasCfa THEN 3 ELSE 0) + (IF Uses(a.ops, "fbreg") THEN 1 ELSE 0)

IsActivation(a) ==
  /\ DOMAIN a = {"kind", "ops", "i", "stk", "own", "pc", "hasCfa", "p", "cfa", "column"}
  /\ a.kind \in {"expr", "cfa"} /\ a.i \in Nat \ {0} /\ a.hasCfa \in BOOLEAN

\* A call stack on which every activation leaves room for those above it, in b.
Fits(s, b) ==
  /\ s \in Seq({s[k] : k \in DOMAIN s})
  /\ \A k \in 1 .. Len(s) : IsActivation(s[k]) /\ k + Rank(s[k]) <= b

\* ret is meaningful as a record only by its type.
Inv == FrameBaseGrounded => Fits(acts, Bound) /\ ret.type # "exhausted"

IInv == Inv /\ job \in Jobs

-----------------------------------------------------------------------------
LEMMA RankRange ==
  ASSUME NEW a, a.hasCfa \in BOOLEAN
  PROVE  /\ Rank(a) \in 0 .. 5
         /\ a.kind = "cfa" => Rank(a) = (IF a.hasCfa THEN 5 ELSE 2)
         /\ a.kind = "expr" => Rank(a) \in (IF a.hasCfa THEN {3, 4} ELSE {0, 1})
         /\ a.kind = "expr" /\ ~Uses(a.ops, "fbreg") => Rank(a) = (IF a.hasCfa THEN 3 ELSE 0)
         /\ a.kind = "expr" /\ Uses(a.ops, "fbreg") => Rank(a) = (IF a.hasCfa THEN 4 ELSE 1)
BY DEF Rank

LEMMA RankOfActivation ==
  ASSUME NEW a, IsActivation(a)
  PROVE  Rank(a) \in 0 .. 5
BY RankRange DEF IsActivation

LEMMA SeqItself ==
  ASSUME NEW V, NEW s \in Seq(V)
  PROVE  s \in Seq({s[k] : k \in DOMAIN s})
OBVIOUS

LEMMA FitsEmpty ==
  ASSUME NEW b
  PROVE  Fits(<<>>, b)
BY DEF Fits

LEMMA FitsPush ==
  ASSUME NEW s, NEW b \in Nat, Fits(s, b), NEW a, IsActivation(a), Len(s) + 1 + Rank(a) <= b
  PROVE  Fits(Append(s, a), b)
<1> DEFINE V == {s[k] : k \in DOMAIN s} \cup {a}
<1>1. s \in Seq(V)
  BY DEF Fits
<1>2. a \in V
  OBVIOUS
<1> HIDE DEF V
<1>3. Append(s, a) \in Seq(V)
  BY <1>1, <1>2
<1>4. Append(s, a) \in Seq({Append(s, a)[k] : k \in DOMAIN Append(s, a)})
  BY <1>3, SeqItself
<1>5. ASSUME NEW k \in 1 .. Len(Append(s, a))
      PROVE  IsActivation(Append(s, a)[k]) /\ k + Rank(Append(s, a)[k]) <= b
  <2>1. CASE k \in 1 .. Len(s)
    <3>1. Append(s, a)[k] = s[k]
      BY <1>1, <1>2, <2>1
    <3> QED
      BY <3>1, <2>1 DEF Fits
  <2>2. CASE k = Len(s) + 1
    <3>1. Append(s, a)[k] = a
      BY <1>1, <1>2, <2>2
    <3> QED
      BY <3>1, <2>2
  <2> QED
    BY <1>1, <1>2, <2>1, <2>2
<1> QED
  BY <1>4, <1>5 DEF Fits

LEMMA FitsOne ==
  ASSUME NEW b \in Nat, NEW a, IsActivation(a), 1 + Rank(a) <= b
  PROVE  Fits(<<a>>, b)
<1>1. /\ <<a>> \in Seq({a}) /\ Len(<<a>>) = 1 /\ <<a>>[1] = a
  OBVIOUS
<1>2. <<a>> \in Seq({<<a>>[k] : k \in DOMAIN <<a>>})
  BY <1>1, SeqItself
<1>3. \A k \in 1 .. Len(<<a>>) : k = 1
  BY <1>1
<1>4. \A k \in 1 .. Len(<<a>>) : IsActivation(<<a>>[k]) /\ k + Rank(<<a>>[k]) <= b
  BY <1>1, <1>3
<1> QED
  BY <1>2, <1>4 DEF Fits

LEMMA FitsPop ==
  ASSUME NEW s, NEW b, Fits(s, b), s # <<>>
  PROVE  Fits(SubSeq(s, 1, Len(s) - 1), b)
<1> DEFINE V == {s[k] : k \in DOMAIN s}
           t == SubSeq(s, 1, Len(s) - 1)
<1>1. s \in Seq(V)
  BY DEF Fits
<1> HIDE DEF V
<1>2. Len(s) \in Nat \ {0}
  BY <1>1
<1>3. /\ t \in Seq(V) /\ Len(t) = Len(s) - 1
      /\ \A k \in 1 .. Len(t) : t[k] = s[k]
  <2>1. PICK n \in Nat : n = Len(s) - 1
    BY <1>2
  <2>2. \A k \in 1 .. n : s[k] \in V
    BY <1>1, <2>1
  <2>3. /\ SubSeq(s, 1, n) \in Seq(V)
        /\ Len(SubSeq(s, 1, n)) = IF 1 <= n THEN n - 1 + 1 ELSE 0
        /\ \A k \in 1 .. n - 1 + 1 : SubSeq(s, 1, n)[k] = s[1 + k - 1]
    <3>1. 1 \in Int /\ n \in Int
      OBVIOUS
    <3> QED
      BY <2>2, <3>1, SubSeqProperties
  <2> QED
    BY <2>1, <2>3
<1> HIDE DEF t
<1>4. t \in Seq({t[k] : k \in DOMAIN t})
  BY <1>3, SeqItself
<1>5. Fits(t, b)
  BY <1>2, <1>3, <1>4 DEF Fits
<1> QED
  BY <1>5 DEF t

LEMMA FitsReplace ==
  ASSUME NEW s, NEW b, Fits(s, b), s # <<>>, NEW a, IsActivation(a), Rank(a) = Rank(s[Len(s)])
  PROVE  Fits([s EXCEPT ![Len(s)] = a], b)
<1> DEFINE V == {s[k] : k \in DOMAIN s} \cup {a}
           t == [s EXCEPT ![Len(s)] = a]
<1>1. s \in Seq(V)
  BY DEF Fits
<1>2. a \in V
  OBVIOUS
<1> HIDE DEF V
<1>3. Len(s) \in Nat \ {0}
  BY <1>1
<1>4. /\ t \in Seq(V) /\ Len(t) = Len(s) /\ t[Len(s)] = a
      /\ \A k \in 1 .. Len(s) : k # Len(s) => t[k] = s[k]
  BY <1>1, <1>2, <1>3
<1> HIDE DEF t
<1>5. t \in Seq({t[k] : k \in DOMAIN t})
  BY <1>4, SeqItself
<1>6. \A k \in 1 .. Len(s) : IsActivation(t[k]) /\ k + Rank(t[k]) <= b
  BY <1>3, <1>4 DEF Fits
<1>7. Fits(t, b)
  BY <1>4, <1>5, <1>6 DEF Fits
<1> QED
  BY <1>7 DEF t

LEMMA MinInside ==
  ASSUME NEW T, T \subseteq Nat, T # {}
  PROVE  Min(T) \in T
<1>1. PICK x \in T : \A y \in T : ~ (<<y, x>> \in OpToRel(<, Nat))
  BY WFMin, NatLessThanWellFounded, Zenon
<1>2. \A y \in T : ~(y < x)
  <2> TAKE y \in T
  <2>1. <<y, x>> \in Nat \X Nat
    OBVIOUS
  <2> QED
    BY <1>1, <2>1 DEF OpToRel
<1>3. \A y \in T : x =< y
  BY <1>2
<1> QED
  BY <1>3 DEF Min

LEMMA JumpForward ==
  ASSUME NEW ops, NEW i \in Nat \ {0}
  PROVE  AfterJump(ops, i) \in Nat \ {0}
<1> DEFINE hits(off) == {k \in 1 .. Len(ops) : ops[k].off = off}
<1>1. ASSUME NEW off, hits(off) # {}
      PROVE  Min(hits(off)) \in Nat
  <2>1. hits(off) \subseteq Nat
    OBVIOUS
  <2> QED
    BY <1>1, <2>1, MinInside
<1>2. ASSUME NEW off
      PROVE  FindOpIndexByOffset(ops, off) \in Nat
  BY <1>1 DEF FindOpIndexByOffset
<1>3. FindOpIndexByOffset(ops, JumpTarget(ops[i])) \in Nat
  BY <1>2
<1> QED
  BY <1>3 DEF AfterJump

-----------------------------------------------------------------------------
(***************************************************************************)
(* What calls, returns and steps within an activation do to the stack.     *)
(***************************************************************************)
Safe == Fits(acts, Bound) /\ ret.type # "exhausted"

LEMMA TopFacts ==
  ASSUME Fits(acts, Bound), acts # <<>>
  PROVE  /\ Len(acts) \in Nat \ {0}
         /\ IsActivation(Top) /\ Len(acts) + Rank(Top) <= Bound
<1>1. acts \in Seq({acts[k] : k \in DOMAIN acts})
  BY DEF Fits
<1>2. Len(acts) \in Nat \ {0}
  BY <1>1
<1> QED
  BY <1>2 DEF Fits, Top

LEMMA Results ==
  /\ \A v : Address(v).type # "exhausted" /\ Value(v).type # "exhausted" /\ Error(v).type # "exhausted"
  /\ NoResult.type # "exhausted" /\ Trap.type # "exhausted" /\ StackLost.type # "exhausted"
  /\ Full.type # "exhausted"
BY DEF Address, Value, Error, NoResult, Trap, StackLost, Full, Result

LEMMA Calls ==
  ASSUME Fits(acts, Bound), acts # <<>>, NEW a, IsActivation(a), Rank(a) < Rank(Top), Call(a)
  PROVE  Fits(acts', Bound) /\ ret'.type # "exhausted"
<1>1. Len(acts) \in Nat \ {0} /\ IsActivation(Top) /\ Len(acts) + Rank(Top) <= Bound
  BY TopFacts
<1>2. Rank(a) \in 0 .. 5 /\ Rank(Top) \in 0 .. 5
  BY <1>1, RankRange DEF IsActivation
<1>3. Bound \in Nat /\ Bound <= 6
  BY DEF Bound
<1>4. Len(acts) + 1 + Rank(a) <= Bound
  BY <1>1, <1>2, <1>3
<1>5. Len(acts) # MaxCalls
  BY <1>1, <1>2, <1>3, <1>4, CallsAssumption
<1>6. acts' = Append(acts, a) /\ ret' = NoResult
  BY <1>5 DEF Call
<1> QED
  BY <1>3, <1>4, <1>6, FitsPush, Results

LEMMA Returns ==
  ASSUME Fits(acts, Bound), acts # <<>>, NEW r, r.type # "exhausted", Return(r)
  PROVE  Fits(acts', Bound) /\ ret'.type # "exhausted"
BY FitsPop DEF Return, Below

LEMMA Dies ==
  ASSUME NEW r, r.type # "exhausted", Die(r)
  PROVE  Fits(acts', Bound) /\ ret'.type # "exhausted"
BY FitsEmpty DEF Die

\* The fields of an activation that a step changes do not count for its rank.
LEMMA MovedOn ==
  ASSUME NEW t, IsActivation(t), NEW i \in Nat \ {0}, NEW s
  PROVE  IsActivation([t EXCEPT !.i = i, !.stk = s]) /\ Rank([t EXCEPT !.i = i, !.stk = s]) = Rank(t)
<1> DEFINE a == [t EXCEPT !.i = i, !.stk = s]
<1>1. /\ DOMAIN a = DOMAIN t
      /\ a.kind = t.kind /\ a.ops = t.ops /\ a.hasCfa = t.hasCfa /\ a.i = i
  BY DEF IsActivation
<1> HIDE DEF a
<1>5. IsActivation(a)
  BY <1>1 DEF IsActivation
<1>7. Rank(a) = Rank(t)
  BY <1>1, Zenon DEF Rank
<1> QED
  BY <1>5, <1>7 DEF a

LEMMA Gotos ==
  ASSUME Fits(acts, Bound), acts # <<>>, NEW i \in Nat \ {0}, NEW s, Goto(i, s)
  PROVE  Fits(acts', Bound) /\ ret'.type # "exhausted"
<1>1. CASE Die(Full)
  BY <1>1, Dies, Results
<1>2. CASE /\ acts' = [acts EXCEPT ![Len(acts)].i = i, ![Len(acts)].stk = s]
           /\ ret' = NoResult
  <2> DEFINE a == [Top EXCEPT !.i = i, !.stk = s]
  <2>1. Len(acts) \in Nat \ {0} /\ IsActivation(Top)
    BY TopFacts
  <2>3. IsActivation(a) /\ Rank(a) = Rank(Top)
    BY <2>1, MovedOn, Zenon
  <2>4. acts' = [acts EXCEPT ![Len(acts)] = a]
    <3>1. acts \in Seq({acts[k] : k \in DOMAIN acts})
      BY DEF Fits
    <3> QED
      BY <1>2, <2>1, <3>1 DEF Top
  <2>5. Fits([acts EXCEPT ![Len(acts)] = a], Bound)
    <3> HIDE DEF a
    <3> QED
      BY <2>3, FitsReplace DEF Top
  <2> QED
    BY <1>2, <2>4, <2>5, Results
<1> QED
  BY <1>1, <1>2 DEF Goto

LEMMA Rows ==
  ASSUME Fits(acts, Bound), acts # <<>>, NEW q, NEW v, NEW column, GotoRow(q, v, column)
  PROVE  Fits(acts', Bound) /\ ret'.type # "exhausted"
<1> DEFINE a == [Top EXCEPT !.p = q, !.cfa = v, !.column = column]
<1>1. Len(acts) \in Nat \ {0} /\ IsActivation(Top)
  BY TopFacts
<1>3. IsActivation(a) /\ Rank(a) = Rank(Top)
  <2>1. IsActivation(Top)
    BY <1>1
  <2> HIDE DEF Top
  <2>2. /\ DOMAIN a = DOMAIN Top
        /\ a.kind = Top.kind /\ a.ops = Top.ops /\ a.hasCfa = Top.hasCfa /\ a.i = Top.i
    BY <2>1 DEF IsActivation
  <2> HIDE DEF a
  <2>3. IsActivation(a)
    BY <2>1, <2>2 DEF IsActivation
  <2>4. Rank(a) = Rank(Top)
    BY <2>2, Zenon DEF Rank
  <2> QED
    BY <2>3, <2>4
<1>4. acts' = [acts EXCEPT ![Len(acts)] = a]
  <2>1. acts \in Seq({acts[k] : k \in DOMAIN acts})
    BY DEF Fits
  <2> QED
    BY <1>1, <2>1 DEF Top, GotoRow
<1>5. Fits([acts EXCEPT ![Len(acts)] = a], Bound)
  <2> HIDE DEF a
  <2> QED
    BY <1>3, FitsReplace DEF Top
<1> QED
  BY <1>4, <1>5, Results DEF GotoRow

\* The ranks of the activations that are called.
LEMMA NewActivations ==
  ASSUME NEW ops, NEW q, NEW h \in BOOLEAN
  PROVE  /\ IsActivation(Evaluate(ops, q, h)) /\ Evaluate(ops, q, h).kind = "expr"
         /\ Rank(Evaluate(ops, q, h)) <= (IF h THEN 4 ELSE 1)
         /\ ~Uses(ops, "fbreg") => Rank(Evaluate(ops, q, h)) = (IF h THEN 3 ELSE 0)
         /\ IsActivation(GetCfa(q, h)) /\ Rank(GetCfa(q, h)) = (IF h THEN 5 ELSE 2)
BY DEF Evaluate, GetCfa, Activation, IsActivation, Rank

-----------------------------------------------------------------------------
LEMMA ExprTop ==
  ASSUME Safe, Running("expr") \/ Returned("expr")
  PROVE  /\ acts # <<>> /\ Top.kind = "expr" /\ IsActivation(Top)
         /\ Top.i \in Nat \ {0} /\ Top.i + 1 \in Nat \ {0} /\ Top.hasCfa \in BOOLEAN
<1>1. acts # <<>> /\ Top.kind = "expr"
  BY DEF Running, Returned
<1>2. IsActivation(Top)
  BY <1>1, TopFacts DEF Safe
<1> QED
  BY <1>1, <1>2 DEF IsActivation

LEMMA StackOpKeeps ==
  ASSUME Safe, StackOp
  PROVE  Fits(acts', Bound) /\ ret'.type # "exhausted"
<1> DEFINE outcome == Apply(Context, Op, Top.stk)
<1>1. Running("expr")
  BY DEF StackOp, AtOp
<1>2. acts # <<>> /\ Top.i + 1 \in Nat \ {0} /\ Fits(acts, Bound)
  BY <1>1, ExprTop DEF Safe
<1>3. \/ Goto(Top.i + 1, outcome.stk)
      \/ Die(Trap)
      \/ Return(Error(outcome.code))
  <2> HIDE DEF outcome
  <2> QED
    BY Zenon DEF StackOp, outcome
<1> HIDE DEF outcome
<1>4. CASE Goto(Top.i + 1, outcome.stk)
  BY <1>2, <1>4, Gotos
<1>5. CASE Die(Trap)
  BY <1>5, Dies, Results
<1>6. CASE Return(Error(outcome.code))
  BY <1>2, <1>6, Returns, Results
<1> QED
  BY <1>3, <1>4, <1>5, <1>6

LEMMA RegisterOpKeeps ==
  ASSUME Safe, RegisterOp
  PROVE  Fits(acts', Bound) /\ ret'.type # "exhausted"
<1> DEFINE reg == RegisterNumber(Top.ops, Top.i)
<1>1. acts # <<>> /\ Fits(acts, Bound)
  BY ExprTop DEF Safe, RegisterOp, AtOp
<1>2. Return(Value(Context.regs[reg])) \/ Return(Error("kRegisterInvalid"))
  BY DEF RegisterOp
<1> QED
  BY <1>1, <1>2, Returns, Results

LEMMA JumpKeeps ==
  ASSUME Safe, Skip \/ Bra
  PROVE  Fits(acts', Bound) /\ ret'.type # "exhausted"
<1>1. acts # <<>> /\ Fits(acts, Bound) /\ Top.i \in Nat \ {0}
  BY ExprTop DEF Safe, Skip, Bra, AtOp
<1>2. AfterJump(Top.ops, Top.i) \in Nat \ {0}
  BY <1>1, JumpForward
<1>3. \/ Goto(AfterJump(Top.ops, Top.i), Top.stk)
      \/ Goto(AfterJump(Top.ops, Top.i), Pop(1, Top.stk))
      \/ Return(Error("kStackIndexInvalid"))
  BY DEF Skip, Bra
<1> QED
  BY <1>1, <1>2, <1>3, Gotos, Returns, Results

LEMMA FittingKept ==
  ASSUME NEW loc, NEW pc, Fitting(loc, pc) # {}, loc.entries \in Seq({loc.entries[k] : k \in DOMAIN loc.entries})
  PROVE  Min(Fitting(loc, pc)) \in Kept(loc)
<1>1. Fitting(loc, pc) \subseteq Kept(loc)
  BY DEF Fitting
<1>2. Kept(loc) \subseteq DOMAIN loc.entries
  BY DEF Kept
<1>3. DOMAIN loc.entries \subseteq Nat
  OBVIOUS
<1>4. Min(Fitting(loc, pc)) \in Fitting(loc, pc)
  BY <1>1, <1>2, <1>3, MinInside
<1> QED
  BY <1>1, <1>4

LEMMA FbRegKeeps ==
  ASSUME Safe, FrameBaseGrounded, job \in Jobs, FbReg
  PROVE  Fits(acts', Bound) /\ ret'.type # "exhausted"
<1> DEFINE fit == Fitting(Context.frameBase, Top.pc)
           base == Expression(Context.frameBase, Min(fit))
<1>1. /\ acts # <<>> /\ Fits(acts, Bound) /\ Top.kind = "expr" /\ IsActivation(Top)
      /\ Top.i \in Nat \ {0} /\ Top.hasCfa \in BOOLEAN
  BY ExprTop DEF Safe, FbReg, AtOp
<1>2. Top.i <= Len(Top.ops) /\ Top.ops[Top.i].opcode = "fbreg"
  BY DEF FbReg, AtOp, Op
<1>3. Uses(Top.ops, "fbreg")
  BY <1>1, <1>2 DEF Uses
<1>4. Rank(Top) = (IF Top.hasCfa THEN 4 ELSE 1)
  BY <1>1, <1>3, RankRange
<1>5. CASE fit # {} /\ Call(Evaluate(base, Top.pc, Top.hasCfa))
  <2>1. Min(fit) \in Kept(Context.frameBase)
    BY <1>5, FittingKept, JobsAssumption DEF Context, WellFormedJob, WellFormedLocation, IsSequence
  <2>2. ~Uses(base, "fbreg")
    BY <2>1 DEF FrameBaseGrounded
  <2> HIDE DEF base
  <2>3. /\ IsActivation(Evaluate(base, Top.pc, Top.hasCfa))
        /\ Rank(Evaluate(base, Top.pc, Top.hasCfa)) = (IF Top.hasCfa THEN 3 ELSE 0)
    BY <1>1, <2>2, NewActivations
  <2>4. Rank(Evaluate(base, Top.pc, Top.hasCfa)) < Rank(Top)
    BY <1>1, <1>4, <2>3
  <2> QED
    BY <1>1, <1>5, <2>3, <2>4, Calls
<1>6. CASE Return(Error("kFrameBaseInvalid"))
  BY <1>1, <1>6, Returns, Results
<1> QED
  BY <1>5, <1>6 DEF FbReg

LEMMA FbRegReturnsKeeps ==
  ASSUME Safe, FbRegReturns
  PROVE  Fits(acts', Bound) /\ ret'.type # "exhausted"
<1>1. acts # <<>> /\ Fits(acts, Bound) /\ Top.i + 1 \in Nat \ {0}
  BY ExprTop DEF Safe, FbRegReturns
<1>2. \/ Goto(Top.i + 1, Push(Wrap(ret.value + Op.op1), Top.stk))
      \/ Return(Error("kFrameBaseInvalid"))
  BY DEF FbRegReturns
<1> QED
  BY <1>1, <1>2, Gotos, Returns, Results

LEMMA CallFrameCfaKeeps ==
  ASSUME Safe, CallFrameCfa
  PROVE  Fits(acts', Bound) /\ ret'.type # "exhausted"
<1>1. /\ acts # <<>> /\ Fits(acts, Bound) /\ Top.kind = "expr" /\ Top.hasCfa \in BOOLEAN
  BY ExprTop DEF Safe, CallFrameCfa, AtOp
<1>2. CASE Top.hasCfa /\ Call(GetCfa(Top.pc, FALSE))
  <2> DEFINE a == GetCfa(Top.pc, FALSE)
  <2>1. IsActivation(a) /\ Rank(a) = 2 /\ Call(a)
    BY <1>2, NewActivations
  <2> HIDE DEF a
  <2>2. Top.kind = "expr" => Rank(Top) \in (IF Top.hasCfa THEN {3, 4} ELSE {0, 1})
    BY <1>1, RankRange
  <2>3. Rank(Top) \in {3, 4}
    BY <1>1, <1>2, <2>2
  <2>4. Rank(a) < Rank(Top)
    BY <2>1, <2>3
  <2> QED
    BY <1>1, <2>1, <2>4, Calls
<1>3. CASE Return(Error("kCfaInvalid"))
  BY <1>1, <1>3, Returns, Results
<1> QED
  BY <1>2, <1>3 DEF CallFrameCfa

LEMMA CallFrameCfaReturnsKeeps ==
  ASSUME Safe, CallFrameCfaReturns
  PROVE  Fits(acts', Bound) /\ ret'.type # "exhausted"
<1>1. acts # <<>> /\ Fits(acts, Bound) /\ Top.i + 1 \in Nat \ {0}
  BY ExprTop DEF Safe, CallFrameCfaReturns
<1>2. Goto(Top.i + 1, Push(ret.value, Top.stk))
  BY DEF CallFrameCfaReturns
<1> QED
  BY <1>1, <1>2, Gotos

LEMMA EndingKeeps ==
  ASSUME Safe, StackValue \/ BadOp \/ NoOps \/ EndOfOps
  PROVE  Fits(acts', Bound) /\ ret'.type # "exhausted"
<1>1. acts # <<>> /\ Fits(acts, Bound)
  BY ExprTop DEF Safe, StackValue, BadOp, NoOps, EndOfOps, AtOp
<1>2. \/ \E c : Return(Error(c))
      \/ \E v : Return(Value(v)) \/ Return(Address(v))
  BY Zenon DEF StackValue, BadOp, NoOps, EndOfOps
<1> QED
  BY <1>1, <1>2, Returns, Results

-----------------------------------------------------------------------------
LEMMA CfaTop ==
  ASSUME Safe, Running("cfa") \/ Returned("cfa")
  PROVE  /\ acts # <<>> /\ Top.kind = "cfa" /\ Fits(acts, Bound)
         /\ Top.hasCfa \in BOOLEAN /\ Rank(Top) = (IF Top.hasCfa THEN 5 ELSE 2)
<1>1. acts # <<>> /\ Top.kind = "cfa" /\ Fits(acts, Bound)
  BY DEF Running, Returned, Safe
<1>2. IsActivation(Top)
  BY <1>1, TopFacts
<1> QED
  BY <1>1, <1>2, RankRange DEF IsActivation

LEMMA AfterRowKeeps ==
  ASSUME Fits(acts, Bound), acts # <<>>, NEW v, AfterRow(v)
  PROVE  Fits(acts', Bound) /\ ret'.type # "exhausted"
<1>1. \E q, column : GotoRow(q, v, column)
  BY Zenon DEF AfterRow
<1> QED
  BY <1>1, Rows

\* The expression of a row is evaluated.
LEMMA RowCalls ==
  ASSUME Safe, Running("cfa"), NEW ops, NEW q, Call(Evaluate(ops, q, Top.hasCfa))
  PROVE  Fits(acts', Bound) /\ ret'.type # "exhausted"
<1>1. /\ acts # <<>> /\ Fits(acts, Bound)
      /\ Top.hasCfa \in BOOLEAN /\ Rank(Top) = (IF Top.hasCfa THEN 5 ELSE 2)
  BY CfaTop
<1>2. /\ IsActivation(Evaluate(ops, q, Top.hasCfa))
      /\ Rank(Evaluate(ops, q, Top.hasCfa)) <= (IF Top.hasCfa THEN 4 ELSE 1)
      /\ Rank(Evaluate(ops, q, Top.hasCfa)) \in 0 .. 5
  BY <1>1, NewActivations, RankRange DEF IsActivation
<1>3. Rank(Evaluate(ops, q, Top.hasCfa)) < Rank(Top)
  BY <1>1, <1>2
<1> QED
  BY <1>1, <1>2, <1>3, Calls

LEMMA CfaColumnKeeps ==
  ASSUME Safe, CfaColumn
  PROVE  Fits(acts', Bound) /\ ret'.type # "exhausted"
<1>1. Running("cfa")
  BY DEF CfaColumn
<1>2. acts # <<>> /\ Fits(acts, Bound)
  BY <1>1, CfaTop
<1>3. \/ \E v : AfterRow(v)
      \/ GotoRow(Top.p + 1, Top.cfa, "cfa")
      \/ \E ops : Call(Evaluate(ops, Top.p, Top.hasCfa))
  BY Zenon DEF CfaColumn
<1> QED
  BY <1>1, <1>2, <1>3, AfterRowKeeps, Rows, RowCalls

LEMMA OtherColumnKeeps ==
  ASSUME Safe, CfaColumnReturns \/ OtherColumn \/ OtherColumnReturns \/ CfaEnds
  PROVE  Fits(acts', Bound) /\ ret'.type # "exhausted"
<1>1. Running("cfa") \/ Returned("cfa")
  BY DEF CfaColumnReturns, OtherColumn, OtherColumnReturns, CfaEnds
<1>2. acts # <<>> /\ Fits(acts, Bound)
  BY <1>1, CfaTop
<1>3. CASE CfaColumnReturns
  BY <1>2, <1>3, AfterRowKeeps DEF CfaColumnReturns
<1>4. CASE OtherColumn
  BY <1>4, RowCalls DEF OtherColumn
<1>5. CASE OtherColumnReturns
  BY <1>2, <1>5, Rows DEF OtherColumnReturns
<1>6. CASE CfaEnds
  BY <1>2, <1>6, Returns, Results DEF CfaEnds
<1> QED
  BY <1>3, <1>4, <1>5, <1>6

-----------------------------------------------------------------------------
LEMMA InitInv ==
  ASSUME Init
  PROVE  Inv
<1> SUFFICES ASSUME FrameBaseGrounded
             PROVE  Fits(acts, Bound) /\ ret.type # "exhausted"
  BY DEF Inv
<1>1. ret.type # "exhausted"
  BY Results DEF Init
<1>3. CASE job.kind = "cfa" /\ acts = <<GetCfa(job.pc, TRUE)>>
  <2> DEFINE a == GetCfa(job.pc, TRUE)
  <2>1. IsActivation(a) /\ Rank(a) = 5 /\ acts = <<a>>
    BY <1>3, NewActivations
  <2> HIDE DEF a
  <2>2. Bound = 6
    BY <1>3 DEF Bound
  <2>3. Fits(<<a>>, 6)
    BY <2>1, FitsOne
  <2> QED
    BY <1>1, <2>1, <2>2, <2>3
<1>4. CASE job.kind = "test"
  <2> DEFINE a == Activation("expr", Expression(job.loc, 1), job.stk, TRUE, job.pc, TRUE)
  <2>1. acts = <<a>> /\ Bound = 5
    BY <1>4 DEF Init, Bound
  <2>2. IsActivation(a) /\ Rank(a) <= 4
    BY DEF Activation, IsActivation, Rank
  <2> HIDE DEF a
  <2>3. Rank(a) \in 0 .. 5
    BY <2>2, RankOfActivation
  <2>4. Fits(<<a>>, 5)
    BY <2>2, <2>3, FitsOne
  <2> QED
    BY <1>1, <2>1, <2>4
<1>5. CASE job.kind = "var"
  <2> DEFINE a == Evaluate(Expression(job.loc, Min(Fitting(job.loc, job.pc))), job.pc, TRUE)
  <2>1. (acts = <<>> \/ acts = <<a>>) /\ Bound = 5
    BY <1>5 DEF Init, Bound
  <2>2. IsActivation(a) /\ Rank(a) <= 4
    BY NewActivations
  <2> HIDE DEF a
  <2>3. Rank(a) \in 0 .. 5
    BY <2>2, RankOfActivation
  <2>4. Fits(<<a>>, 5)
    BY <2>2, <2>3, FitsOne
  <2> QED
    BY <1>1, <2>1, <2>4, FitsEmpty
<1> QED
  BY <1>3, <1>4, <1>5 DEF Init

LEMMA NextInv ==
  ASSUME Inv, job \in Jobs, [Next]_vars
  PROVE  Inv' /\ job' \in Jobs
<1>1. job' = job
  BY DEF Next, vars, StackOp, RegisterOp, Skip, Bra, FbReg, FbRegReturns, CallFrameCfa, CallFrameCfaReturns,
         StackValue, BadOp, NoOps, EndOfOps, LoseStack, CfaColumn, CfaColumnReturns, OtherColumn,
         OtherColumnReturns, CfaEnds
<1>2. FrameBaseGrounded' = FrameBaseGrounded /\ Bound' = Bound
  BY <1>1 DEF FrameBaseGrounded, Context, Bound
<1>3. ASSUME FrameBaseGrounded
      PROVE  Fits(acts', Bound) /\ ret'.type # "exhausted"
  <2>1. Safe
    BY <1>3 DEF Inv, Safe
  <2>2. CASE StackOp
    BY <2>1, <2>2, StackOpKeeps
  <2>3. CASE RegisterOp
    BY <2>1, <2>3, RegisterOpKeeps
  <2>4. CASE Skip \/ Bra
    BY <2>1, <2>4, JumpKeeps
  <2>5. CASE FbReg
    BY <1>3, <2>1, <2>5, FbRegKeeps
  <2>6. CASE FbRegReturns
    BY <2>1, <2>6, FbRegReturnsKeeps
  <2>7. CASE CallFrameCfa
    BY <2>1, <2>7, CallFrameCfaKeeps
  <2>8. CASE CallFrameCfaReturns
    BY <2>1, <2>8, CallFrameCfaReturnsKeeps
  <2>9. CASE StackValue \/ BadOp \/ NoOps \/ EndOfOps
    BY <2>1, <2>9, EndingKeeps
  <2>10. CASE LoseStack
    BY <2>10, Dies, Results DEF LoseStack
  <2>11. CASE CfaColumn
    BY <2>1, <2>11, CfaColumnKeeps
  <2>12. CASE CfaColumnReturns \/ OtherColumn \/ OtherColumnReturns \/ CfaEnds
    BY <2>1, <2>12, OtherColumnKeeps
  <2>13. CASE UNCHANGED vars
    BY <2>1, <2>13 DEF Safe, vars
  <2> QED
    BY <2>2, <2>3, <2>4, <2>5, <2>6, <2>7, <2>8, <2>9, <2>10, <2>11, <2>12, <2>13 DEF Next
<1>4. Fits(acts', Bound') /\ ret'.type # "exhausted" <=> (Fits(acts, Bound) /\ ret.type # "exhausted")'
  OBVIOUS
<1> QED
  BY <1>1, <1>2, <1>3, <1>4 DEF Inv

\* The recursion of evaluate, evalValue and GetCfa is bounded, whatever the
\* expressions, location lists and rows are, if the frame base is not defined
\* by itself: the deepest chain is the CFA, the expression of a row, the frame
\* base and, in the copy of the context without a provider, these once more.
THEOREM Nesting == Spec => []NestingBounded
<1>1. Init => IInv
  BY InitInv DEF Init, IInv
<1>2. IInv /\ [Next]_vars => IInv'
  BY NextInv DEF IInv
<1>3. IInv => NestingBounded
  <2> SUFFICES ASSUME IInv, FrameBaseGrounded
               PROVE  Len(acts) <= (IF job.kind = "cfa" THEN 6 ELSE 5) /\ ret # Exhausted
    BY DEF NestingBounded
  <2>1. Fits(acts, Bound) /\ ret.type # "exhausted"
    BY DEF Inv, IInv
  <2>2. ret # Exhausted
    BY <2>1 DEF Exhausted, Result
  <2>3. Bound \in {5, 6}
    BY DEF Bound
  <2>4. CASE acts = <<>>
    BY <2>2, <2>4
  <2>5. CASE acts # <<>>
    <3>1. Len(acts) \in Nat /\ IsActivation(Top) /\ Len(acts) + Rank(Top) <= Bound
      BY <2>1, <2>5, TopFacts
    <3>2. Rank(Top) \in 0 .. 5
      BY <3>1, RankOfActivation
    <3> QED
      BY <2>2, <2>3, <3>1, <3>2 DEF Bound
  <2> QED
    BY <2>4, <2>5
<1> QED
  BY <1>1, <1>2, <1>3, PTL DEF Spec

-----------------------------------------------------------------------------
(***************************************************************************)
(* Types.                                                                  *)
(***************************************************************************)
\* No expression of the job jumps; none compares or divides, and the saved
\* memory ends a word below the end of the address space.
Straight == Opcode(Expressions) \cap JumpOps = {}

Defined ==
  /\ Opcode(Expressions) \cap (CompareOps \cup {"div", "mod"}) = {}
  /\ Context.stackBase + Len(Context.stackMemory) + WordBytes <= MaxUnsigned

Records ==
  [kind : {"expr", "cfa"}, ops : Expressions \cup {<<>>}, i : Nat \ {0}, stk : Seq(Word), own : BOOLEAN,
   pc : Word, hasCfa : BOOLEAN, p : Word, cfa : Word, column : {"cfa", "other"}]

\* Without jumps, operation i finds at most i - 1 words more than the job
\* began with; the row of a covered p is found from the low end of the FDE.
Frame(a) ==
  /\ a.i <= Len(a.ops) + 1
  /\ Len(a.stk) <= MaxStack
  /\ Straight => Len(a.stk) + 1 <= Len(job.stk) + a.i
  /\ a.kind = "cfa" /\ Covered(a.pc) => Fde.low <= a.p

Frames == {a \in Records : Frame(a)}

\* An activation that called another did so in one of its operations.
Waiting(a) == a.kind = "expr" => a.i <= Len(a.ops)

\* The call stack s while r is the result of the activation that returned last.
TypedStack(s, r) ==
  /\ s \in Seq(Frames) /\ Len(s) <= MaxCalls
  /\ \A k \in 1 .. Len(s) : k < Len(s) \/ r # NoResult => Waiting(s[k])

TypedResult(r) ==
  /\ r.value \in Word /\ r.code \in ErrorCode
  /\ Straight => r.type # "full"
  /\ Defined => r.type # "undefined"

TInv == job \in Jobs /\ TypedStack(acts, ret) /\ TypedResult(ret)

-----------------------------------------------------------------------------
\* The greatest element of an interval's part.
LEMMA MaxInside ==
  ASSUME NEW n \in Nat, NEW S, S \subseteq 1 .. n, S # {}
  PROVE  Max(S) \in S /\ \A y \in S : y <= Max(S)
<1> DEFINE T == {k \in Nat : n - k \in S}
<1>1. ASSUME NEW x \in S PROVE x \in Nat /\ n - x \in T
  <2>1. x \in Nat /\ n - x \in Nat /\ n - (n - x) = x
    OBVIOUS
  <2> QED
    BY <2>1
<1>2. T \subseteq Nat /\ T # {}
  BY <1>1
<1>3. PICK m \in T : \A y \in T : m <= y
  <2> HIDE DEF T
  <2> QED
    BY <1>2, LeastNumber
<1>4. n - m \in S /\ m \in Nat /\ \A y \in S : n - m >= y
  <2>1. n - m \in S /\ m \in Nat
    OBVIOUS
  <2>2. ASSUME NEW y \in S PROVE n - m >= y
    <3>1. y \in Nat /\ m <= n - y
      BY <1>1, <1>3
    <3> QED
      BY <2>1, <3>1
  <2> QED
    BY <2>1, <2>2
<1>5. Max(S) \in S /\ \A y \in S : Max(S) >= y
  BY <1>4 DEF Max
<1>6. S \subseteq Nat
  OBVIOUS
<1> QED
  BY <1>5, <1>6

\* What the assumption about the jobs says of the running one.
LEMMA JobFacts ==
  ASSUME job \in Jobs
  PROVE  /\ WellFormedJob(job) /\ MaxStack \in Nat
         /\ job.kind \in {"var", "test", "cfa"} /\ job.pc \in Word
         /\ job.stk \in Seq(Word) /\ Len(job.stk) \in Nat /\ Len(job.stk) <= MaxStack
         /\ WellFormedFde(Fde, MaxStack - Len(job.stk))
         /\ WordContext(Context)
<1>1. WellFormedJob(job) /\ MaxStack \in Nat
  BY JobsAssumption
<1>2. job.stk \in Seq(Word)
  BY <1>1 DEF WellFormedJob
<1>3. Len(job.stk) \in Nat
  BY <1>2
<1>4. WellFormedFde(NoFde, MaxStack - Len(job.stk))
  <2>1. NoFde.rows = <<>> /\ NoFde.low = 0 /\ NoFde.high = 0
    BY DEF NoFde
  <2>2. \A k \in DOMAIN NoFde.rows : FALSE
    BY <2>1
  <2>3. IsSequence(NoFde.rows)
    BY <2>1 DEF IsSequence
  <2> QED
    BY <2>1, <2>2, <2>3, WordFacts DEF WellFormedFde
<1>5. WellFormedFde(Fde, MaxStack - Len(job.stk))
  BY <1>1, <1>4 DEF WellFormedJob, Fde, Context
<1>6. WordContext(Context)
  BY <1>1 DEF WellFormedJob, WordContext, Context
<1>7. job.kind \in {"var", "test", "cfa"} /\ job.pc \in Word /\ Len(job.stk) <= MaxStack
  BY <1>1 DEF WellFormedJob
<1> QED
  BY <1>1, <1>2, <1>3, <1>5, <1>6, <1>7

\* The expressions of the job are lists of operations that fit the stack.
LEMMA ExpressionFacts ==
  ASSUME job \in Jobs, NEW e \in Expressions
  PROVE  /\ e \in Seq(Operations) /\ Len(e) \in Nat /\ Len(job.stk) + Len(e) <= MaxStack
         /\ \A k \in 1 .. Len(e) : e[k] \in Operations /\ e[k].opcode \in Opcode(Expressions)
<1> DEFINE room == MaxStack - Len(job.stk)
<1>1. IsExpression(e, room)
  <2>1. WellFormedLocation(job.loc, room) /\ WellFormedLocation(Context.frameBase, room)
    BY JobFacts DEF WellFormedJob, Context
  <2>2. WellFormedFde(Fde, room)
    BY JobFacts
  <2> HIDE DEF room
  <2>3. CASE \E k \in Kept(job.loc) : e = Expression(job.loc, k)
    BY <2>1, <2>3 DEF WellFormedLocation
  <2>4. CASE \E k \in Kept(Context.frameBase) : e = Expression(Context.frameBase, k)
    BY <2>1, <2>4 DEF WellFormedLocation
  <2>5. CASE \E k \in DOMAIN Fde.rows : e = LoadedOps(Fde.rows[k].ops) \/ e = LoadedOps(Fde.rows[k].other)
    BY <2>2, <2>5, Zenon DEF WellFormedFde
  <2> QED
    BY <2>3, <2>4, <2>5, Zenon DEF Expressions
<1>2. e \in Seq(Operations) /\ Len(e) <= room
  BY <1>1 DEF IsExpression
<1>3. Len(e) \in Nat
  <2> HIDE DEF Operations
  <2> QED
    BY <1>2
<1>4. Len(job.stk) + Len(e) <= MaxStack
  BY <1>2, <1>3, JobFacts
<1>5. ASSUME NEW k \in 1 .. Len(e) PROVE e[k] \in Operations /\ e[k].opcode \in Opcode(Expressions)
  <2>1. e[k] \in Operations /\ k \in DOMAIN e
    <3> HIDE DEF Operations
    <3> QED
      BY <1>2
  <2>2. e[k] \in ToSet(e)
    BY <2>1 DEF ToSet
  <2>3. e[k] \in UNION {ToSet(x) : x \in Expressions}
    BY <2>2
  <2> QED
    BY <2>1, <2>3 DEF Opcode
<1> QED
  BY <1>2, <1>3, <1>4, <1>5

\* The running activation is a frame; its fields, one by one.
LEMMA TopFrame ==
  ASSUME TInv, acts # <<>>
  PROVE  /\ Len(acts) \in Nat \ {0} /\ acts \in Seq(Frames) /\ Len(acts) <= MaxCalls
         /\ Top \in Records /\ Frame(Top)
         /\ ret # NoResult => Waiting(Top)
<1>1. acts \in Seq(Frames) /\ Len(acts) <= MaxCalls
  BY DEF TInv, TypedStack
<1>2. Len(acts) \in Nat \ {0}
  BY <1>1
<1>3. Top \in Frames
  <2> HIDE DEF Frames
  <2> QED
    BY <1>1, <1>2 DEF Top
<1>4. ret # NoResult => Waiting(Top)
  BY <1>2 DEF TInv, TypedStack, Top
<1> QED
  BY <1>1, <1>2, <1>3, <1>4 DEF Frames

LEMMA FrameFields ==
  ASSUME NEW a \in Records
  PROVE  /\ a.kind \in {"expr", "cfa"} /\ a.ops \in Expressions \cup {<<>>} /\ a.i \in Nat \ {0}
         /\ a.stk \in Seq(Word) /\ a.own \in BOOLEAN /\ a.pc \in Word /\ a.hasCfa \in BOOLEAN
         /\ a.p \in Word /\ a.cfa \in Word /\ a.column \in {"cfa", "other"}
<1> HIDE DEF Word, Expressions
<1> QED
  BY DEF Records

\* The operation that an expression has come to.
LEMMA CurrentOp ==
  ASSUME TInv, acts # <<>>, Top.kind = "expr", Waiting(Top)
  PROVE  /\ Top.ops \in Expressions /\ Op \in Operations /\ Op.opcode \in Opcode(Expressions)
         /\ Top.i \in 1 .. Len(Top.ops) /\ Top.i + 1 \in Nat \ {0} /\ Top.i + 1 <= Len(Top.ops) + 1
         /\ Top.stk \in Seq(Word) /\ Len(Top.stk) \in Nat
         /\ Straight => Len(Top.stk) + 1 <= MaxStack
<1>1. Top \in Records /\ Frame(Top) /\ job \in Jobs
  BY TopFrame DEF TInv
<1>2. Top.i \in Nat \ {0} /\ Top.ops \in Expressions \cup {<<>>} /\ Top.i <= Len(Top.ops) /\ Top.stk \in Seq(Word)
  BY <1>1, FrameFields DEF Waiting
<1>3. Top.ops \in Expressions
  <2>1. Top.ops = <<>> => Len(Top.ops) = 0
    OBVIOUS
  <2> QED
    BY <1>2, <2>1
<1>4. PICK e \in Expressions : e = Top.ops
  BY <1>3
<1>5. /\ Len(e) \in Nat /\ Len(job.stk) + Len(e) <= MaxStack
      /\ \A k \in 1 .. Len(e) : e[k] \in Operations /\ e[k].opcode \in Opcode(Expressions)
  BY <1>1, ExpressionFacts
<1>6. Top.i \in 1 .. Len(e)
  BY <1>2, <1>4, <1>5
<1>7. Op \in Operations /\ Op.opcode \in Opcode(Expressions)
  BY <1>4, <1>5, <1>6 DEF Op
<1>8. Len(Top.stk) \in Nat
  BY <1>2
<1>9. Straight => Len(Top.stk) + 1 <= MaxStack
  <2>1. Straight => Len(Top.stk) + 1 <= Len(job.stk) + Top.i
    BY <1>1 DEF Frame
  <2>2. Len(job.stk) \in Nat /\ MaxStack \in Nat
    BY <1>1, JobFacts
  <2>3. PICK i \in Nat, n \in Nat : i = Top.i /\ n = Len(Top.stk)
    BY <1>2, <1>8
  <2>4. i <= Len(e) /\ (Straight => n + 1 <= Len(job.stk) + i)
    BY <1>2, <1>4, <2>1, <2>3
  <2>5. Straight => n + 1 <= MaxStack
    BY <1>5, <2>2, <2>4
  <2> QED
    BY <2>3, <2>5
<1> QED
  BY <1>2, <1>3, <1>4, <1>5, <1>6, <1>7, <1>8, <1>9

-----------------------------------------------------------------------------
\* The results that activations return are typed.
LEMMA TypedResults ==
  /\ \A v \in Word : TypedResult(Address(v)) /\ TypedResult(Value(v))
  /\ \A c \in ErrorCode : TypedResult(Error(c))
  /\ TypedResult(NoResult) /\ TypedResult(StackLost) /\ TypedResult(Exhausted)
  /\ ~Defined => TypedResult(Trap)
  /\ ~Straight => TypedResult(Full)
<1>1. 0 \in Word /\ "kNone" \in ErrorCode
  BY WordFacts, ErrorCodes
<1> QED
  BY <1>1 DEF TypedResult, Address, Value, Error, NoResult, StackLost, Exhausted, Trap, Full, Result

\* Typed call stacks: empty, of one activation, and after each of the steps a
\* call stack can take.
LEMMA EmptyStack ==
  ASSUME NEW r
  PROVE  TypedStack(<<>>, r)
BY CallsAssumption DEF TypedStack

LEMMA OneFrame ==
  ASSUME NEW a \in Frames
  PROVE  TypedStack(<<a>>, NoResult)
<1>1. <<a>> \in Seq(Frames) /\ Len(<<a>>) = 1
  <2> HIDE DEF Frames
  <2> QED
    OBVIOUS
<1> QED
  BY <1>1, CallsAssumption DEF TypedStack

LEMMA TypedDies ==
  ASSUME NEW r, TypedResult(r), Die(r)
  PROVE  TypedStack(acts', ret') /\ TypedResult(ret')
BY EmptyStack DEF Die

LEMMA TypedCalls ==
  ASSUME TInv, acts # <<>>, Waiting(Top), NEW a \in Frames, Call(a)
  PROVE  TypedStack(acts', ret') /\ TypedResult(ret')
<1>1. CASE Len(acts) = MaxCalls
  BY <1>1, EmptyStack, TypedResults DEF Call
<1>2. CASE Len(acts) # MaxCalls
  <2>1. acts' = Append(acts, a) /\ ret' = NoResult
    BY <1>2 DEF Call
  <2>2. Len(acts) \in Nat \ {0} /\ acts \in Seq(Frames) /\ Len(acts) <= MaxCalls
    BY TopFrame
  <2>3. /\ Append(acts, a) \in Seq(Frames) /\ Len(Append(acts, a)) = Len(acts) + 1
        /\ \A k \in 1 .. Len(acts) : Append(acts, a)[k] = acts[k]
    <3> HIDE DEF Frames
    <3> QED
      BY <2>2
  <2>4. \A k \in 1 .. Len(acts) : Waiting(acts[k])
    BY <2>2 DEF TInv, TypedStack, Top
  <2>5. \A k \in 1 .. (Len(acts) + 1) : k < Len(acts) + 1 => Waiting(Append(acts, a)[k])
    BY <2>2, <2>3, <2>4
  <2>6. Len(acts) + 1 <= MaxCalls
    BY <1>2, <2>2, CallsAssumption
  <2>7. TypedStack(Append(acts, a), NoResult)
    BY <2>3, <2>5, <2>6 DEF TypedStack
  <2> QED
    BY <2>1, <2>7, TypedResults
<1> QED
  BY <1>1, <1>2

LEMMA TypedReturns ==
  ASSUME TInv, acts # <<>>, NEW r, TypedResult(r), Return(r)
  PROVE  TypedStack(acts', ret') /\ TypedResult(ret')
<1>1. Len(acts) \in Nat \ {0} /\ acts \in Seq(Frames) /\ Len(acts) <= MaxCalls
  BY TopFrame
<1>2. PICK n \in Nat : n = Len(acts) - 1
  BY <1>1
<1>3. /\ SubSeq(acts, 1, n) \in Seq(Frames) /\ Len(SubSeq(acts, 1, n)) = n
      /\ \A k \in 1 .. n : SubSeq(acts, 1, n)[k] = acts[k]
  <2> HIDE DEF Frames
  <2>1. \A k \in 1 .. n : acts[k] \in Frames
    BY <1>1, <1>2
  <2>2. /\ SubSeq(acts, 1, n) \in Seq(Frames)
        /\ Len(SubSeq(acts, 1, n)) = IF 1 <= n THEN n - 1 + 1 ELSE 0
        /\ \A k \in 1 .. n - 1 + 1 : SubSeq(acts, 1, n)[k] = acts[1 + k - 1]
    <3>1. 1 \in Int /\ n \in Int
      OBVIOUS
    <3> QED
      BY <2>1, <3>1, SubSeqProperties
  <2> QED
    BY <2>2
<1>4. \A k \in 1 .. n : Waiting(acts[k])
  BY <1>1, <1>2 DEF TInv, TypedStack
<1>5. n <= MaxCalls
  BY <1>1, <1>2, CallsAssumption
<1>6. TypedStack(SubSeq(acts, 1, n), r)
  BY <1>3, <1>4, <1>5 DEF TypedStack
<1> QED
  BY <1>2, <1>6 DEF Return, Below

LEMMA TypedReplaces ==
  ASSUME TInv, acts # <<>>, NEW a \in Frames
  PROVE  TypedStack([acts EXCEPT ![Len(acts)] = a], NoResult)
<1> DEFINE t == [acts EXCEPT ![Len(acts)] = a]
<1>1. Len(acts) \in Nat \ {0} /\ acts \in Seq(Frames) /\ Len(acts) <= MaxCalls
  BY TopFrame
<1>2. /\ t \in Seq(Frames) /\ Len(t) = Len(acts)
      /\ \A k \in 1 .. Len(acts) : k # Len(acts) => t[k] = acts[k]
  <2> HIDE DEF Frames
  <2> QED
    BY <1>1
<1> HIDE DEF t
<1>3. \A k \in 1 .. Len(acts) : k < Len(acts) => Waiting(acts[k])
  BY DEF TInv, TypedStack
<1>4. \A k \in 1 .. Len(acts) : k < Len(acts) => k # Len(acts)
  BY <1>1
<1>5. TypedStack(t, NoResult)
  BY <1>1, <1>2, <1>3, <1>4 DEF TypedStack
<1> QED
  BY <1>5 DEF t

\* The running expression goes on at an operation, or at its end.
LEMMA TypedGoto ==
  ASSUME TInv, acts # <<>>, Top.kind = "expr",
         NEW i \in Nat \ {0}, i <= Len(Top.ops) + 1, NEW s \in Seq(Word),
         Straight => Len(s) + 1 <= Len(job.stk) + i /\ Len(s) <= MaxStack,
         Goto(i, s)
  PROVE  TypedStack(acts', ret') /\ TypedResult(ret')
<1>1. Len(s) \in Nat /\ MaxStack \in Nat
  BY JobFacts DEF TInv
<1>2. CASE Len(s) > MaxStack
  <2>1. Die(Full) /\ ~Straight
    BY <1>1, <1>2 DEF Goto
  <2> QED
    BY <2>1, TypedDies, TypedResults
<1>3. CASE ~(Len(s) > MaxStack)
  <2> DEFINE a == [Top EXCEPT !.i = i, !.stk = s]
  <2>1. Top \in Records /\ Frame(Top) /\ Len(acts) \in Nat \ {0} /\ acts \in Seq(Frames)
    BY TopFrame
  <2>2. a \in Records /\ a.i = i /\ a.stk = s /\ a.ops = Top.ops /\ a.kind = "expr"
    <3> HIDE DEF Word, Expressions
    <3> QED
      BY <2>1 DEF Records
  <2>3. acts' = [acts EXCEPT ![Len(acts)].i = i, ![Len(acts)].stk = s] /\ ret' = NoResult
    BY <1>3 DEF Goto
  <2>4. acts' = [acts EXCEPT ![Len(acts)] = a]
    <3> HIDE DEF Frames
    <3> QED
      BY <2>1, <2>3 DEF Top
  <2> HIDE DEF a
  <2>5. a \in Frames
    <3>1. Len(s) <= MaxStack
      BY <1>1, <1>3
    <3> QED
      BY <2>2, <3>1 DEF Frame, Frames
  <2>6. TypedStack([acts EXCEPT ![Len(acts)] = a], NoResult)
    BY <2>5, TypedReplaces
  <2> QED
    BY <2>3, <2>4, <2>6, TypedResults
<1> QED
  BY <1>2, <1>3

\* On to the next operation, with at most one word more.
LEMMA TypedNext ==
  ASSUME TInv, acts # <<>>, Top.kind = "expr", Waiting(Top),
         NEW s \in Seq(Word), Len(s) <= Len(Top.stk) + 1, Goto(Top.i + 1, s)
  PROVE  TypedStack(acts', ret') /\ TypedResult(ret')
<1>1. /\ Top.i \in 1 .. Len(Top.ops) /\ Top.i + 1 \in Nat \ {0} /\ Top.i + 1 <= Len(Top.ops) + 1
      /\ Top.stk \in Seq(Word) /\ Len(Top.stk) \in Nat
      /\ Straight => Len(Top.stk) + 1 <= MaxStack
  BY CurrentOp
<1>2. Len(s) \in Nat /\ Len(job.stk) \in Nat /\ MaxStack \in Nat
  BY JobFacts DEF TInv
<1>3. Straight => Len(Top.stk) + 1 <= Len(job.stk) + Top.i
  BY TopFrame DEF Frame
<1>4. Straight => Len(s) + 1 <= Len(job.stk) + (Top.i + 1) /\ Len(s) <= MaxStack
  <2>1. PICK i \in Nat, n \in Nat, m \in Nat, b \in Nat :
          i = Top.i /\ n = Len(Top.stk) /\ m = Len(s) /\ b = Len(job.stk)
    <3>1. Top.i \in Nat
      BY <1>1
    <3> QED
      BY <1>1, <1>2, <3>1
  <2>2. Straight => n + 1 <= b + i /\ n + 1 <= MaxStack
    BY <1>1, <1>3, <2>1
  <2>3. m <= n + 1
    BY <2>1
  <2>4. Straight => m + 1 <= b + (i + 1) /\ m <= MaxStack
    BY <1>2, <2>2, <2>3
  <2> QED
    BY <2>1, <2>4
<1> QED
  BY <1>1, <1>4, TypedGoto

\* On to another row, or the other column of the same row.
LEMMA TypedRow ==
  ASSUME TInv, acts # <<>>, Top.kind = "cfa", NEW q \in Word, NEW v \in Word, NEW column \in {"cfa", "other"},
         Fde.low <= q, GotoRow(q, v, column)
  PROVE  TypedStack(acts', ret') /\ TypedResult(ret')
<1> DEFINE a == [Top EXCEPT !.p = q, !.cfa = v, !.column = column]
<1>1. Top \in Records /\ Frame(Top) /\ Len(acts) \in Nat \ {0} /\ acts \in Seq(Frames)
  BY TopFrame
<1>2. a \in Records /\ a.i = Top.i /\ a.stk = Top.stk /\ a.ops = Top.ops /\ a.p = q
  <2> HIDE DEF Word, Expressions
  <2> QED
    BY <1>1 DEF Records
<1>3. /\ acts' = [acts EXCEPT ![Len(acts)].p = q, ![Len(acts)].cfa = v, ![Len(acts)].column = column]
      /\ ret' = NoResult
  BY DEF GotoRow
<1>4. acts' = [acts EXCEPT ![Len(acts)] = a]
  <2> HIDE DEF Frames
  <2> QED
    BY <1>1, <1>3 DEF Top
<1> HIDE DEF a
<1>5. a \in Frames
  BY <1>1, <1>2 DEF Frame, Frames
<1>6. TypedStack([acts EXCEPT ![Len(acts)] = a], NoResult)
  BY <1>5, TypedReplaces
<1> QED
  BY <1>3, <1>4, <1>6, TypedResults

\* An activation begins as a frame.
LEMMA NewFrame ==
  ASSUME job \in Jobs, NEW kind \in {"expr", "cfa"}, NEW ops \in Expressions \cup {<<>>},
         NEW stk \in {job.stk, <<>>}, NEW own \in BOOLEAN, NEW q \in Word, NEW h \in BOOLEAN
  PROVE  Activation(kind, ops, stk, own, q, h) \in Frames
<1> DEFINE a == Activation(kind, ops, stk, own, q, h)
<1>1. Fde.low \in Word /\ Fde.low <= Fde.low /\ MaxUnsigned \in Word
  <2>1. PICK low \in Word : low = Fde.low
    BY JobFacts DEF WellFormedFde
  <2>2. low \in Nat /\ low <= low
    BY WordFacts
  <2> QED
    BY <2>1, <2>2, WordFacts
<1>2. /\ stk \in Seq(Word) /\ Len(stk) \in Nat /\ Len(job.stk) \in Nat /\ Len(stk) <= Len(job.stk)
      /\ Len(job.stk) <= MaxStack /\ MaxStack \in Nat /\ Len(ops) \in Nat
  <2>1. job.stk \in Seq(Word) /\ Len(job.stk) \in Nat /\ Len(job.stk) <= MaxStack /\ MaxStack \in Nat
    BY JobFacts
  <2>2. stk \in Seq(Word) /\ Len(stk) \in Nat /\ Len(stk) <= Len(job.stk)
    <3>1. <<>> \in Seq(Word) /\ Len(<<>>) = 0
      OBVIOUS
    <3>2. PICK n \in Nat : n = Len(job.stk)
      BY <2>1
    <3>3. n <= n /\ 0 <= n
      OBVIOUS
    <3>4. stk = <<>> \/ stk = job.stk
      OBVIOUS
    <3> QED
      BY <2>1, <3>1, <3>2, <3>3, <3>4
  <2>3. Len(ops) \in Nat
    <3>1. ops \in Expressions => Len(ops) \in Nat
      BY ExpressionFacts
    <3>2. ops = <<>> => Len(ops) \in Nat
      OBVIOUS
    <3> QED
      BY <3>1, <3>2
  <2> QED
    BY <2>1, <2>2, <2>3
<1>3. a \in Records
  <2> HIDE DEF Word, Expressions
  <2> QED
    BY <1>1, <1>2 DEF Activation, Records
<1>4. a.i = 1 /\ a.ops = ops /\ a.stk = stk /\ a.p = Fde.low
  BY DEF Activation
<1> HIDE DEF a
<1>5. Frame(a)
  BY <1>1, <1>2, <1>4 DEF Frame
<1> QED
  BY <1>3, <1>5 DEF a, Frames

\* The calls of GetCfa and of evaluate.
LEMMA NewFrames ==
  ASSUME job \in Jobs, NEW q \in Word, NEW h \in BOOLEAN
  PROVE  GetCfa(q, h) \in Frames /\ \A e \in Expressions : Evaluate(e, q, h) \in Frames
BY NewFrame DEF GetCfa, Evaluate

\* The first entry that fits is one that was kept.
LEMMA FittingExpression ==
  ASSUME job \in Jobs, NEW loc \in {job.loc, Context.frameBase}, NEW q, Fitting(loc, q) # {}
  PROVE  Expression(loc, Min(Fitting(loc, q))) \in Expressions
<1> DEFINE V == {loc.entries[k] : k \in DOMAIN loc.entries}
           k == Min(Fitting(loc, q))
<1>1. loc.entries \in Seq(V)
  BY JobFacts DEF WellFormedJob, WellFormedLocation, IsSequence, Context
<1> HIDE DEF V
<1>2. DOMAIN loc.entries \subseteq Nat
  BY <1>1
<1>3. Fitting(loc, q) \subseteq Kept(loc) /\ Kept(loc) \subseteq Nat
  BY <1>2 DEF Fitting, Kept
<1>4. k \in Kept(loc)
  BY <1>3, MinInside
<1> HIDE DEF k
<1>5. Expression(loc, k) \in Expressions
  BY <1>4 DEF Expressions
<1> QED
  BY <1>5 DEF k

-----------------------------------------------------------------------------
\* The expression that runs, or that is returned to.
LEMMA ExprRuns ==
  ASSUME TInv, Running("expr") \/ Returned("expr")
  PROVE  /\ acts # <<>> /\ Top.kind = "expr" /\ Top.stk \in Seq(Word)
         /\ Top.pc \in Word /\ Top.hasCfa \in BOOLEAN
         /\ Returned("expr") => Waiting(Top)
<1>1. acts # <<>> /\ Top.kind = "expr"
  BY DEF Running, Returned
<1>2. Top \in Records
  BY <1>1, TopFrame
<1>3. Returned("expr") => Waiting(Top)
  BY <1>1, TopFrame DEF Returned
<1> QED
  BY <1>1, <1>2, <1>3, FrameFields

\* One lemma per action or group of actions: it keeps the call stack typed and
\* returns a typed result.
LEMMA StackOpTyped ==
  ASSUME TInv, StackOp
  PROVE  TypedStack(acts', ret') /\ TypedResult(ret')
<1> DEFINE outcome == Apply(Context, Op, Top.stk)
<1>1. Running("expr") /\ Waiting(Top) /\ Op.opcode \in StackOps
  BY DEF StackOp, AtOp, Waiting
<1>2. acts # <<>> /\ Top.kind = "expr" /\ Top.stk \in Seq(Word)
  BY <1>1, ExprRuns
<1>3. Op \in Operations /\ Op.opcode \in Opcode(Expressions) /\ WordContext(Context)
  BY <1>1, <1>2, CurrentOp, JobFacts DEF TInv
<1>4. /\ Outcome(outcome, Top.stk)
      /\ MemoryBelowTop(Context) /\ Op.opcode \notin CompareOps \cup {"div", "mod"} => outcome.code # "undefined"
  BY <1>1, <1>2, <1>3, ApplyOutcome
<1>5. outcome.code = "undefined" => ~Defined
  <2> HIDE DEF outcome
  <2> QED
    BY <1>3, <1>4 DEF Defined, MemoryBelowTop
<1>6. \/ Goto(Top.i + 1, outcome.stk)
      \/ outcome.code = "undefined" /\ Die(Trap)
      \/ outcome.code # "undefined" /\ Return(Error(outcome.code))
  <2> HIDE DEF outcome
  <2> QED
    BY Zenon DEF StackOp, outcome
<1> HIDE DEF outcome
<1>7. CASE Goto(Top.i + 1, outcome.stk)
  BY <1>1, <1>2, <1>4, <1>7, TypedNext DEF Outcome
<1>8. CASE outcome.code = "undefined" /\ Die(Trap)
  BY <1>5, <1>8, TypedDies, TypedResults
<1>9. CASE outcome.code # "undefined" /\ Return(Error(outcome.code))
  <2>1. outcome.code \in ErrorCode
    BY <1>4, <1>9 DEF Outcome
  <2> QED
    BY <1>2, <1>9, <2>1, TypedReturns, TypedResults
<1> QED
  BY <1>6, <1>7, <1>8, <1>9

LEMMA RegisterOpTyped ==
  ASSUME TInv, RegisterOp
  PROVE  TypedStack(acts', ret') /\ TypedResult(ret')
<1> DEFINE reg == RegisterNumber(Top.ops, Top.i)
<1>1. acts # <<>>
  BY DEF RegisterOp, AtOp, Running
<1>2. CASE HasRegister(Context, reg) /\ Return(Value(Context.regs[reg]))
  <2>1. Context.regs[reg] \in Word
    BY <1>2, JobFacts DEF TInv, WordContext, HasRegister
  <2> HIDE DEF reg
  <2> QED
    BY <1>1, <1>2, <2>1, TypedReturns, TypedResults
<1>3. CASE Return(Error("kRegisterInvalid"))
  BY <1>1, <1>3, ErrorCodes, TypedReturns, TypedResults
<1> QED
  BY <1>2, <1>3 DEF RegisterOp

\* A jump continues at an operation or at the end.
LEMMA JumpInside ==
  ASSUME NEW ops, NEW n \in Nat, Len(ops) = n, NEW i \in 1 .. n
  PROVE  AfterJump(ops, i) \in Nat \ {0} /\ AfterJump(ops, i) <= n + 1
<1> DEFINE hits(off) == {k \in 1 .. Len(ops) : ops[k].off = off}
<1>1. ASSUME NEW off PROVE FindOpIndexByOffset(ops, off) \in 0 .. n
  <2>1. CASE hits(off) = {}
    BY <2>1 DEF FindOpIndexByOffset
  <2>2. CASE hits(off) # {}
    <3>1. hits(off) \subseteq Nat /\ hits(off) \subseteq 1 .. n
      OBVIOUS
    <3>2. FindOpIndexByOffset(ops, off) = Min(hits(off))
      BY <2>2 DEF FindOpIndexByOffset
    <3> HIDE DEF hits
    <3>3. Min(hits(off)) \in 1 .. n
      BY <2>2, <3>1, MinInside
    <3> QED
      BY <3>2, <3>3
  <2> QED
    BY <2>1, <2>2
<1>2. FindOpIndexByOffset(ops, JumpTarget(ops[i])) \in 0 .. n
  BY <1>1
<1> QED
  BY <1>2 DEF AfterJump

LEMMA JumpTyped ==
  ASSUME TInv, Skip \/ Bra
  PROVE  TypedStack(acts', ret') /\ TypedResult(ret')
<1>1. Running("expr") /\ Waiting(Top) /\ Op.opcode \in JumpOps
  BY DEF Skip, Bra, AtOp, Waiting, JumpOps
<1>2. acts # <<>> /\ Top.kind = "expr" /\ Top.stk \in Seq(Word)
  BY <1>1, ExprRuns
<1>3. Top.i \in 1 .. Len(Top.ops) /\ Op.opcode \in Opcode(Expressions) /\ Top.ops \in Expressions
  BY <1>1, <1>2, CurrentOp
<1>4. ~Straight
  BY <1>1, <1>3 DEF Straight
<1> DEFINE i == AfterJump(Top.ops, Top.i)
<1>5. i \in Nat \ {0} /\ i <= Len(Top.ops) + 1
  <2>1. Len(Top.ops) \in Nat
    BY <1>3, ExpressionFacts DEF TInv
  <2> QED
    BY <1>3, <2>1, JumpInside
<1>6. CASE Goto(i, Top.stk)
  <2> HIDE DEF i
  <2> QED
    BY <1>2, <1>4, <1>5, <1>6, TypedGoto
<1>7. CASE Top.stk # <<>> /\ Goto(i, Pop(1, Top.stk))
  <2>1. 1 <= Len(Top.stk)
    BY <1>2, <1>7
  <2>2. Pop(1, Top.stk) \in Seq(Word)
    BY <1>2, <2>1, PopWord
  <2> HIDE DEF i
  <2> QED
    BY <1>2, <1>4, <1>5, <1>7, <2>2, TypedGoto
<1>8. CASE Return(Error("kStackIndexInvalid"))
  BY <1>2, <1>8, ErrorCodes, TypedReturns, TypedResults
<1> QED
  BY <1>6, <1>7, <1>8 DEF Skip, Bra

LEMMA FbRegTyped ==
  ASSUME TInv, FbReg
  PROVE  TypedStack(acts', ret') /\ TypedResult(ret')
<1>1. Running("expr") /\ Waiting(Top)
  BY DEF FbReg, AtOp, Waiting
<1>2. acts # <<>> /\ Top.pc \in Word /\ Top.hasCfa \in BOOLEAN
  BY <1>1, ExprRuns
<1> DEFINE fit == Fitting(Context.frameBase, Top.pc)
           e == Expression(Context.frameBase, Min(fit))
<1>3. CASE fit # {} /\ Call(Evaluate(e, Top.pc, Top.hasCfa))
  <2>1. e \in Expressions
    BY <1>3, FittingExpression DEF TInv
  <2> HIDE DEF e
  <2>2. Evaluate(e, Top.pc, Top.hasCfa) \in Frames
    BY <1>2, <2>1, NewFrames DEF TInv
  <2> QED
    BY <1>1, <1>2, <1>3, <2>2, TypedCalls
<1>4. CASE Return(Error("kFrameBaseInvalid"))
  <2>1. "kFrameBaseInvalid" \in ErrorCode
    BY DEF ErrorCode
  <2> QED
    BY <1>2, <1>4, <2>1, TypedReturns, TypedResults
<1> QED
  BY <1>3, <1>4 DEF FbReg

LEMMA PushedTyped ==
  ASSUME TInv, Returned("expr"), NEW v \in Word, Goto(Top.i + 1, Push(v, Top.stk))
  PROVE  TypedStack(acts', ret') /\ TypedResult(ret')
<1>1. acts # <<>> /\ Top.kind = "expr" /\ Top.stk \in Seq(Word) /\ Waiting(Top)
  BY ExprRuns
<1>2. Len(Top.stk) \in Nat
  BY <1>1
<1>3. Push(v, Top.stk) \in Seq(Word) /\ Len(Push(v, Top.stk)) <= Len(Top.stk) + 1
  BY <1>1, <1>2, PushWord
<1> QED
  BY <1>1, <1>3, TypedNext

LEMMA ReturnedTyped ==
  ASSUME TInv, FbRegReturns \/ CallFrameCfaReturns
  PROVE  TypedStack(acts', ret') /\ TypedResult(ret')
<1>1. Returned("expr")
  BY DEF FbRegReturns, CallFrameCfaReturns
<1>2. acts # <<>> /\ Top.kind = "expr" /\ Waiting(Top)
  BY <1>1, ExprRuns
<1>3. Op.op1 \in Word /\ ret.value \in Word
  <2>1. Op \in Operations
    BY <1>2, CurrentOp
  <2>2. Op.op1 \in Word
    <3> HIDE DEF Word
    <3> QED
      BY <2>1 DEF Operations
  <2> QED
    BY <2>2 DEF TInv, TypedResult
<1> DEFINE v == Wrap(ret.value + Op.op1)
<1>4. v \in Word
  <2>1. ret.value + Op.op1 \in Int
    BY <1>3, SignedInt
  <2> QED
    BY <2>1, Wraps
<1> HIDE DEF v
<1>5. CASE Goto(Top.i + 1, Push(v, Top.stk))
  BY <1>1, <1>4, <1>5, PushedTyped
<1>6. CASE Goto(Top.i + 1, Push(ret.value, Top.stk))
  BY <1>1, <1>3, <1>6, PushedTyped
<1>7. CASE Return(Error("kFrameBaseInvalid"))
  <2>1. "kFrameBaseInvalid" \in ErrorCode
    BY DEF ErrorCode
  <2> QED
    BY <1>2, <1>7, <2>1, TypedReturns, TypedResults
<1> QED
  BY <1>5, <1>6, <1>7 DEF FbRegReturns, CallFrameCfaReturns, v

LEMMA CallFrameCfaTyped ==
  ASSUME TInv, CallFrameCfa
  PROVE  TypedStack(acts', ret') /\ TypedResult(ret')
<1>1. Running("expr") /\ Waiting(Top)
  BY DEF CallFrameCfa, AtOp, Waiting
<1>2. acts # <<>> /\ Top.kind = "expr" /\ Top.pc \in Word
  BY <1>1, ExprRuns
<1>3. CASE Call(GetCfa(Top.pc, FALSE))
  <2>1. Top.ops \in Expressions
    BY <1>1, <1>2, CurrentOp
  <2>2. GetCfa(Top.pc, FALSE) \in Frames
    BY <1>2, <2>1, NewFrames DEF TInv
  <2> QED
    BY <1>1, <1>2, <1>3, <2>2, TypedCalls
<1>4. CASE Return(Error("kCfaInvalid"))
  <2>1. "kCfaInvalid" \in ErrorCode
    BY DEF ErrorCode
  <2> QED
    BY <1>2, <1>4, <2>1, TypedReturns, TypedResults
<1> QED
  BY <1>3, <1>4 DEF CallFrameCfa

LEMMA EndingTyped ==
  ASSUME TInv, StackValue \/ BadOp \/ NoOps \/ EndOfOps
  PROVE  TypedStack(acts', ret') /\ TypedResult(ret')
<1>1. Running("expr")
  BY DEF StackValue, BadOp, NoOps, EndOfOps, AtOp
<1>2. acts # <<>> /\ Top.stk \in Seq(Word)
  BY <1>1, ExprRuns
<1>3. \/ \E c \in ErrorCode : Return(Error(c))
      \/ Top.stk # <<>> /\ (Return(Value(Top.stk[1])) \/ Return(Address(Top.stk[1])))
  BY DEF StackValue, BadOp, NoOps, EndOfOps, ErrorCode
<1>4. Top.stk # <<>> => Top.stk[1] \in Word
  <2>1. Top.stk # <<>> => 1 \in 1 .. Len(Top.stk)
    BY <1>2
  <2> QED
    BY <1>2, <2>1, EntryWord
<1> QED
  BY <1>2, <1>3, <1>4, TypedReturns, TypedResults

-----------------------------------------------------------------------------
\* What the assumption about the jobs says of the FDE.
LEMMA FdeFacts ==
  ASSUME job \in Jobs
  PROVE  /\ Fde.low \in Word /\ Fde.high \in Word
         /\ Fde.low < Fde.high => 1 \in DOMAIN Fde.rows /\ Fde.rows[1].start = Fde.low
         /\ \E n \in Nat : Len(Fde.rows) = n /\ DOMAIN Fde.rows = 1 .. n
         /\ \A k \in DOMAIN Fde.rows : Fde.rows[k].start \in Word /\ Fde.rows[k].offset \in Word
<1>1. WellFormedFde(Fde, MaxStack - Len(job.stk))
  BY JobFacts
<1> DEFINE V == {Fde.rows[k] : k \in DOMAIN Fde.rows}
<1>2. Fde.rows \in Seq(V)
  BY <1>1 DEF WellFormedFde, IsSequence
<1> HIDE DEF V
<1>3. /\ \E n \in Nat : Len(Fde.rows) = n /\ DOMAIN Fde.rows = 1 .. n
      /\ Fde.rows # <<>> => 1 \in DOMAIN Fde.rows
  BY <1>2
<1> QED
  BY <1>1, <1>3 DEF WellFormedFde

\* p is an address at or behind the low end of the FDE.
Inside(p) == p \in Word /\ Fde.low <= p

LEMMA WordBelow ==
  ASSUME NEW h \in Word, NEW x \in Nat, x <= h
  PROVE  x \in Word
<1>1. h \in Nat /\ h < 2 ^ W /\ 2 ^ W \in Nat
  BY WordFacts
<1>2. x < 2 ^ W
  <2>1. PICK n \in Nat : n = 2 ^ W
    BY <1>1
  <2> QED
    BY <1>1, <2>1
<1> QED
  BY <1>2, WordFacts

\* A row is found for p; the row after it starts behind p.
LEMMA RowFacts ==
  ASSUME job \in Jobs, NEW q \in Word, Covered(q), NEW p, Inside(p)
  PROVE  /\ RowIndex(p) \in DOMAIN Fde.rows
         /\ Inside(SubsequentPc(p)) /\ \A x \in Moves(p) : Inside(x)
<1>1. PICK low \in Word, high \in Word : low = Fde.low /\ high = Fde.high
  BY FdeFacts
<1>2. low \in Nat /\ high \in Nat /\ p \in Nat /\ low <= p /\ q \in Nat
  BY <1>1, WordFacts DEF Inside
<1>3. low < high
  BY <1>1, <1>2 DEF Covered
<1>4. PICK n \in Nat : Len(Fde.rows) = n /\ DOMAIN Fde.rows = 1 .. n
  BY FdeFacts
<1> DEFINE S == {k \in DOMAIN Fde.rows : Fde.rows[k].start <= p}
<1>5. 1 \in S
  BY <1>1, <1>2, <1>3, FdeFacts
<1>6. RowIndex(p) = Max(S) /\ S \subseteq 1 .. n
  BY <1>4 DEF RowIndex
<1>7. RowIndex(p) \in S /\ \A k \in S : k <= RowIndex(p)
  <2> HIDE DEF S
  <2> QED
    BY <1>5, <1>6, MaxInside
<1>8. PICK r \in 1 .. n : r = RowIndex(p)
  BY <1>4, <1>7
<1>9. /\ SubsequentPc(p) \in Word
      /\ r < n => SubsequentPc(p) > p
      /\ ~(r < n) => SubsequentPc(p) = high
  <2>1. CASE r < n
    <3>1. r + 1 \in DOMAIN Fde.rows /\ ~(r + 1 <= r)
      BY <1>4, <1>8, <2>1
    <3>2. r + 1 \notin S
      BY <1>7, <1>8, <3>1
    <3>3. PICK start \in Word : start = Fde.rows[r + 1].start
      BY <3>1, FdeFacts
    <3>4. start > p
      <4>1. start \in Nat
        BY WordFacts
      <4> QED
        BY <1>2, <3>1, <3>2, <3>3, <4>1
    <3>5. SubsequentPc(p) = start
      BY <1>4, <1>8, <2>1, <3>3 DEF SubsequentPc
    <3> QED
      BY <2>1, <3>4, <3>5
  <2>2. CASE ~(r < n)
    <3>1. SubsequentPc(p) = high
      BY <1>1, <1>4, <1>8, <2>2 DEF SubsequentPc
    <3> QED
      BY <2>2, <3>1
  <2> QED
    BY <2>1, <2>2
<1> HIDE DEF S
<1>10. PICK next \in Word : next = SubsequentPc(p)
  BY <1>9
<1>11. next \in Nat /\ low < next
  BY <1>2, <1>3, <1>9, <1>10, WordFacts
<1>12. Inside(next)
  BY <1>1, <1>2, <1>11 DEF Inside
<1>13. Inside(next - 1)
  <2>1. next - 1 \in Nat /\ next - 1 <= next /\ low <= next - 1
    BY <1>2, <1>11
  <2>2. next - 1 \in Word
    BY <2>1, WordBelow
  <2> QED
    BY <1>1, <2>1, <2>2 DEF Inside
<1> QED
  BY <1>4, <1>8, <1>10, <1>12, <1>13 DEF Moves

LEMMA CfaRuns ==
  ASSUME TInv, Running("cfa") \/ Returned("cfa")
  PROVE  /\ acts # <<>> /\ Top.kind = "cfa" /\ Waiting(Top)
         /\ Top.pc \in Word /\ Top.hasCfa \in BOOLEAN /\ Top.p \in Word /\ Top.cfa \in Word
         /\ Covered(Top.pc) => Inside(Top.p)
<1>1. acts # <<>> /\ Top.kind = "cfa"
  BY DEF Running, Returned
<1>2. Top \in Records /\ Frame(Top)
  BY <1>1, TopFrame
<1>3. Waiting(Top)
  BY <1>1 DEF Waiting
<1>4. Covered(Top.pc) => Inside(Top.p)
  BY <1>1, <1>2, FrameFields DEF Frame, Inside
<1> QED
  BY <1>1, <1>2, <1>3, <1>4, FrameFields

LEMMA MovedTyped ==
  ASSUME TInv, acts # <<>>, Top.kind = "cfa", NEW q, Inside(q), NEW v \in Word, NEW column \in {"cfa", "other"},
         GotoRow(q, v, column)
  PROVE  TypedStack(acts', ret') /\ TypedResult(ret')
BY TypedRow DEF Inside

\* The address after p, which lies before the end of the FDE.
LEMMA NextAddress ==
  ASSUME job \in Jobs, NEW p, Inside(p), p < Fde.high
  PROVE  Inside(p + 1)
<1>1. PICK low \in Word, high \in Word : low = Fde.low /\ high = Fde.high
  BY FdeFacts
<1>2. low \in Nat /\ high \in Nat /\ p \in Nat /\ low <= p /\ p < high
  BY <1>1, WordFacts DEF Inside
<1>3. p + 1 \in Nat /\ p + 1 <= high /\ low <= p + 1
  BY <1>2
<1>4. p + 1 \in Word
  BY <1>3, WordBelow
<1> QED
  BY <1>1, <1>3, <1>4 DEF Inside

LEMMA AfterRowTyped ==
  ASSUME TInv, Running("cfa") \/ Returned("cfa"), Covered(Top.pc), Top.p < Fde.high, NEW v \in Word, AfterRow(v)
  PROVE  TypedStack(acts', ret') /\ TypedResult(ret')
<1>1. /\ acts # <<>> /\ Top.kind = "cfa" /\ Top.pc \in Word /\ Inside(Top.p) /\ job \in Jobs
  BY CfaRuns DEF TInv
<1>2. \A x \in Moves(Top.p) : Inside(x) /\ Inside(SubsequentPc(x))
  BY <1>1, RowFacts
<1>3. Inside(Top.p + 1)
  BY <1>1, NextAddress
<1>4. CASE GotoRow(Top.p + 1, v, "cfa")
  BY <1>1, <1>3, <1>4, MovedTyped
<1>5. CASE \E p \in Moves(Top.p) : GotoRow(p, v, "other")
  BY <1>1, <1>2, <1>5, MovedTyped
<1>6. CASE \E p \in Moves(Top.p) : GotoRow(SubsequentPc(p), v, "cfa")
  BY <1>1, <1>2, <1>6, MovedTyped
<1> QED
  BY <1>4, <1>5, <1>6, Zenon DEF AfterRow

\* The expression of a row is evaluated.
LEMMA RowCallTyped ==
  ASSUME TInv, Running("cfa"), Covered(Top.pc), NEW ops,
         ops \in {LoadedOps(RowAt(Top.p).ops), LoadedOps(RowAt(Top.p).other)},
         Call(Evaluate(ops, Top.p, Top.hasCfa))
  PROVE  TypedStack(acts', ret') /\ TypedResult(ret')
<1>1. /\ acts # <<>> /\ Top.pc \in Word /\ Inside(Top.p) /\ job \in Jobs /\ Waiting(Top)
      /\ Top.p \in Word /\ Top.hasCfa \in BOOLEAN
  BY CfaRuns DEF TInv
<1>2. RowIndex(Top.p) \in DOMAIN Fde.rows
  BY <1>1, RowFacts
<1>3. ops \in Expressions
  BY <1>2 DEF RowAt, Expressions
<1>4. Evaluate(ops, Top.p, Top.hasCfa) \in Frames
  BY <1>1, <1>3, NewFrames
<1> QED
  BY <1>1, <1>4, TypedCalls

LEMMA CfaColumnTyped ==
  ASSUME TInv, CfaColumn
  PROVE  TypedStack(acts', ret') /\ TypedResult(ret')
<1>1. Running("cfa") /\ Covered(Top.pc) /\ Top.p < Fde.high
  BY DEF CfaColumn, InRow
<1>2. /\ acts # <<>> /\ Top.kind = "cfa" /\ Top.pc \in Word /\ Inside(Top.p) /\ job \in Jobs /\ Top.cfa \in Word
  BY <1>1, CfaRuns DEF TInv
<1> DEFINE row == RowAt(Top.p)
<1>3. CfaOfRegister(row) \in Word /\ MaxUnsigned \in Word
  <2>1. RowIndex(Top.p) \in DOMAIN Fde.rows
    BY <1>1, <1>2, RowFacts
  <2>2. row.offset \in Word
    BY <1>2, <2>1, FdeFacts DEF RowAt
  <2> HIDE DEF row
  <2>3. CASE HasRegister(Context, row.reg)
    <3>1. Context.regs[row.reg] \in Word
      BY <1>2, <2>3, JobFacts DEF WordContext, HasRegister
    <3>2. Context.regs[row.reg] + row.offset \in Int
      BY <2>2, <3>1, SignedInt
    <3> QED
      BY <2>3, <3>2, Wraps, WordFacts DEF CfaOfRegister
  <2>4. CASE ~HasRegister(Context, row.reg)
    BY <2>4, WordFacts DEF CfaOfRegister
  <2> QED
    BY <2>3, <2>4, WordFacts
<1>4. CASE AfterRow(CfaOfRegister(row)) \/ AfterRow(MaxUnsigned)
  <2> HIDE DEF row
  <2> QED
    BY <1>1, <1>3, <1>4, AfterRowTyped
<1>5. CASE GotoRow(Top.p + 1, Top.cfa, "cfa")
  <2>1. Inside(Top.p + 1)
    BY <1>1, <1>2, NextAddress
  <2> QED
    BY <1>2, <1>5, <2>1, MovedTyped
<1>6. CASE Call(Evaluate(LoadedOps(row.ops), Top.p, Top.hasCfa))
  BY <1>1, <1>6, RowCallTyped
<1> QED
  BY <1>4, <1>5, <1>6, Zenon DEF CfaColumn

LEMMA ColumnsTyped ==
  ASSUME TInv, CfaColumnReturns \/ OtherColumn \/ OtherColumnReturns \/ CfaEnds
  PROVE  TypedStack(acts', ret') /\ TypedResult(ret')
<1>1. Running("cfa") \/ Returned("cfa")
  BY DEF CfaColumnReturns, OtherColumn, OtherColumnReturns, CfaEnds
<1>2. /\ acts # <<>> /\ Top.kind = "cfa" /\ Top.pc \in Word /\ job \in Jobs /\ Top.cfa \in Word
      /\ Covered(Top.pc) => Inside(Top.p)
  BY <1>1, CfaRuns DEF TInv
<1>3. CASE CfaColumnReturns
  <2>1. Covered(Top.pc) /\ Top.p < Fde.high
    BY <1>3 DEF CfaColumnReturns, InRow
  <2>2. ret.value \in Word /\ MaxUnsigned \in Word
    BY WordFacts DEF TInv, TypedResult
  <2>3. PICK v \in Word : AfterRow(v)
    BY <1>3, <2>2 DEF CfaColumnReturns
  <2> QED
    BY <1>1, <2>1, <2>3, AfterRowTyped
<1>4. CASE OtherColumn
  BY <1>4, RowCallTyped DEF OtherColumn, InRow
<1>5. CASE OtherColumnReturns
  <2>1. Covered(Top.pc) /\ GotoRow(SubsequentPc(Top.p), Top.cfa, "cfa")
    BY <1>5 DEF OtherColumnReturns, InRow
  <2>2. Inside(SubsequentPc(Top.p))
    BY <1>2, <2>1, RowFacts
  <2> QED
    BY <1>2, <2>1, <2>2, MovedTyped
<1>6. CASE CfaEnds
  BY <1>2, <1>6, TypedReturns, TypedResults DEF CfaEnds
<1> QED
  BY <1>3, <1>4, <1>5, <1>6

-----------------------------------------------------------------------------
\* The invariant holds at first and is kept by every step.
LEMMA InitTyped ==
  ASSUME Init
  PROVE  TInv
<1>1. job \in Jobs
  BY DEF Init
<1>2. job.pc \in Word
  BY <1>1, JobFacts
<1>3. CASE job.kind = "cfa" /\ acts = <<GetCfa(job.pc, TRUE)>>
  <2>1. GetCfa(job.pc, TRUE) \in Frames
    BY <1>1, <1>2, NewFrames
  <2>2. acts # <<>>
    BY <1>3
  <2>3. ret = NoResult
    BY <2>2 DEF Init
  <2> QED
    BY <1>1, <1>3, <2>1, <2>3, OneFrame, TypedResults DEF TInv
<1>4. CASE /\ job.kind = "test"
           /\ acts = <<Activation("expr", Expression(job.loc, 1), job.stk, TRUE, job.pc, TRUE)>>
  <2> DEFINE a == Activation("expr", Expression(job.loc, 1), job.stk, TRUE, job.pc, TRUE)
  <2>1. Expression(job.loc, 1) \in Expressions
    BY <1>1, <1>4, JobFacts DEF WellFormedJob, Expressions
  <2>2. a \in Frames
    BY <1>1, <1>2, <2>1, NewFrame
  <2> HIDE DEF a
  <2>3. acts = <<a>>
    BY <1>4 DEF a
  <2>4. acts # <<>>
    BY <2>3
  <2>5. ret = NoResult
    BY <2>4 DEF Init
  <2> QED
    BY <1>1, <2>2, <2>3, <2>5, OneFrame, TypedResults DEF TInv
<1>5. CASE /\ job.kind = "var"
           /\ LET fit == Fitting(job.loc, job.pc) IN
              acts = IF fit = {} THEN <<>> ELSE <<Evaluate(Expression(job.loc, Min(fit)), job.pc, TRUE)>>
  <2> DEFINE fit == Fitting(job.loc, job.pc)
             a == Evaluate(Expression(job.loc, Min(fit)), job.pc, TRUE)
  <2>1. CASE fit = {}
    <3>1. acts = <<>>
      BY <1>5, <2>1
    <3>2. ret = Error("kAddressInvalid") /\ "kAddressInvalid" \in ErrorCode
      BY <3>1 DEF Init, ErrorCode
    <3> QED
      BY <1>1, <3>1, <3>2, EmptyStack, TypedResults DEF TInv
  <2>2. CASE fit # {}
    <3>1. Expression(job.loc, Min(fit)) \in Expressions
      BY <1>1, <2>2, FittingExpression
    <3>2. a \in Frames
      BY <1>1, <1>2, <3>1, NewFrames
    <3>3. acts = <<a>>
      BY <1>5, <2>2
    <3> HIDE DEF a
    <3>4. acts # <<>>
      BY <3>3
    <3>5. ret = NoResult
      BY <3>4 DEF Init
    <3> QED
      BY <1>1, <3>2, <3>3, <3>5, OneFrame, TypedResults DEF TInv
  <2> QED
    BY <2>1, <2>2
<1> QED
  BY <1>3, <1>4, <1>5, Zenon DEF Init

LEMMA NextTyped ==
  ASSUME TInv, [Next]_vars
  PROVE  TInv'
<1>1. job' = job
  BY DEF Next, vars, StackOp, RegisterOp, Skip, Bra, FbReg, FbRegReturns, CallFrameCfa, CallFrameCfaReturns,
         StackValue, BadOp, NoOps, EndOfOps, LoseStack, CfaColumn, CfaColumnReturns, OtherColumn,
         OtherColumnReturns, CfaEnds
<1>2. TypedStack(acts', ret') /\ TypedResult(ret')
  <2>1. CASE StackOp
    BY <2>1, StackOpTyped
  <2>2. CASE RegisterOp
    BY <2>2, RegisterOpTyped
  <2>3. CASE Skip \/ Bra
    BY <2>3, JumpTyped
  <2>4. CASE FbReg
    BY <2>4, FbRegTyped
  <2>5. CASE FbRegReturns \/ CallFrameCfaReturns
    BY <2>5, ReturnedTyped
  <2>6. CASE CallFrameCfa
    BY <2>6, CallFrameCfaTyped
  <2>7. CASE StackValue \/ BadOp \/ NoOps \/ EndOfOps
    BY <2>7, EndingTyped
  <2>8. CASE LoseStack
    BY <2>8, TypedDies, TypedResults DEF LoseStack
  <2>9. CASE CfaColumn
    BY <2>9, CfaColumnTyped
  <2>10. CASE CfaColumnReturns \/ OtherColumn \/ OtherColumnReturns \/ CfaEnds
    BY <2>10, ColumnsTyped
  <2>11. CASE UNCHANGED vars
    BY <2>11 DEF vars, TInv
  <2> QED
    BY <2>1, <2>2, <2>3, <2>4, <2>5, <2>6, <2>7, <2>8, <2>9, <2>10, <2>11 DEF Next
<1>3. Expressions' = Expressions /\ Context' = Context /\ Fde' = Fde
  BY <1>1 DEF Expressions, Context, Fde
<1>4. Straight' = Straight /\ Defined' = Defined /\ Frames' = Frames
  BY <1>1, <1>3 DEF Straight, Defined, Frames, Frame, Records, Covered
<1>5. TInv' <=> job' \in Jobs /\ TypedStack(acts', ret') /\ TypedResult(ret')
  BY <1>4 DEF TInv, TypedStack, TypedResult, NoResult, Waiting
<1> QED
  BY <1>1, <1>2, <1>5 DEF TInv

\* TypeOK: stacks, program counters and results of evaluate, evalValue and
\* GetCfa are words, an operation index stays within its expression or just
\* behind it, and without jumps the expression stack cannot grow over its bound.
THEOREM TypeCorrect == Spec => []TypeOK
<1>1. Init => TInv
  BY InitTyped
<1>2. TInv /\ [Next]_vars => TInv'
  BY NextTyped
<1>3. TInv => TypeOK
  <2> SUFFICES ASSUME TInv PROVE TypeOK
    OBVIOUS
  <2>1. acts \in Seq(Frames) /\ Len(acts) <= MaxCalls
    BY DEF TInv, TypedStack
  <2>2. ASSUME NEW k \in DOMAIN acts
        PROVE  /\ acts[k].stk \in Seq(Word) /\ Len(acts[k].stk) <= MaxStack
               /\ acts[k].i \in 1 .. (Len(acts[k].ops) + 1)
               /\ acts[k].pc \in Word /\ acts[k].cfa \in Word /\ acts[k].p \in Word
               /\ acts[k].column \in {"cfa", "other"}
    <3>1. acts[k] \in Frames
      <4> HIDE DEF Frames
      <4> QED
        BY <2>1
    <3>2. acts[k] \in Records /\ Frame(acts[k])
      BY <3>1 DEF Frames
    <3>3. PICK a \in Records : a = acts[k] /\ Frame(a)
      BY <3>2
    <3>4. Len(a.ops) \in Nat
      <4>1. a.ops \in Expressions => Len(a.ops) \in Nat
        BY ExpressionFacts DEF TInv
      <4>2. a.ops = <<>> => Len(a.ops) \in Nat
        OBVIOUS
      <4> QED
        BY <4>1, <4>2, FrameFields
    <3>5. a.i \in Nat \ {0} /\ a.i <= Len(a.ops) + 1
      BY <3>3, FrameFields DEF Frame
    <3>6. a.i \in 1 .. (Len(a.ops) + 1)
      BY <3>4, <3>5
    <3> QED
      BY <3>3, <3>6, FrameFields DEF Frame
  <2>3. ret.value \in Word /\ ret.code \in ErrorCode
    BY DEF TInv, TypedResult
  <2>4. Opcode(Expressions) \cap JumpOps = {} => ret # Full
    BY DEF TInv, TypedResult, Straight, Full, Result
  <2> QED
    BY <2>1, <2>2, <2>3, <2>4 DEF TypeOK
<1> QED
  BY <1>1, <1>2, <1>3, PTL DEF Spec

(***************************************************************************)
(* A stack that the caller lends stays his.                                *)
(***************************************************************************)
Nested == {"fbreg", "call_frame_cfa"}

Alone == job.kind = "test" /\ Opcode(Expressions) \cap Nested = {}

Lent ==
  Alone => /\ ret.type # "lost"
           /\ acts # <<>> => Len(acts) = 1 /\ acts[1].own /\ acts[1].kind = "expr"

LEMMA LentResults ==
  /\ \A v : Address(v).type # "lost" /\ Value(v).type # "lost" /\ Error(v).type # "lost"
  /\ NoResult.type # "lost" /\ Trap.type # "lost" /\ Full.type # "lost"
BY DEF Address, Value, Error, NoResult, Trap, Full, Result

LEMMA InitLent ==
  ASSUME Init
  PROVE  Lent
<1> SUFFICES ASSUME Alone
             PROVE  /\ ret.type # "lost"
                    /\ acts # <<>> => Len(acts) = 1 /\ acts[1].own /\ acts[1].kind = "expr"
  BY DEF Lent
<1> DEFINE a == Activation("expr", Expression(job.loc, 1), job.stk, TRUE, job.pc, TRUE)
<1>1. acts = <<a>>
  BY DEF Init, Alone
<1>2. ret.type # "lost"
  BY LentResults DEF Init
<1>3. a.own /\ a.kind = "expr"
  BY DEF Activation
<1> HIDE DEF a
<1> QED
  BY <1>1, <1>2, <1>3

\* A step of an expression that calls nothing ends it or moves it on.
LEMMA ExprLent ==
  ASSUME TInv, acts # <<>>, Len(acts) = 1, acts[1].own, acts[1].kind = "expr",
         \/ \E r : (Return(r) \/ Die(r)) /\ r.type # "lost"
         \/ \E i, s : Goto(i, s)
  PROVE  /\ ret'.type # "lost"
         /\ acts' # <<>> => Len(acts') = 1 /\ acts'[1].own /\ acts'[1].kind = "expr"
<1>1. acts \in Seq(Frames) /\ acts[1] \in Records
  BY TopFrame DEF Top
<1>2. ASSUME NEW r, Return(r), r.type # "lost" PROVE acts' = <<>> /\ ret'.type # "lost"
  <2>1. Len(acts) - 1 = 0
    OBVIOUS
  <2>2. SubSeq(acts, 1, 0) = <<>>
    <3> HIDE DEF Frames
    <3> QED
      BY <1>1
  <2> QED
    BY <1>2, <2>1, <2>2 DEF Return, Below
<1>3. ASSUME NEW r, Die(r), r.type # "lost" PROVE acts' = <<>> /\ ret'.type # "lost"
  BY <1>3 DEF Die
<1>4. ASSUME NEW i, NEW s, acts' = [acts EXCEPT ![Len(acts)].i = i, ![Len(acts)].stk = s]
      PROVE  Len(acts') = 1 /\ acts'[1].own /\ acts'[1].kind = "expr"
  <2> DEFINE a == [acts[1] EXCEPT !.i = i, !.stk = s]
  <2>1. a.own = acts[1].own /\ a.kind = acts[1].kind
    <3> HIDE DEF Word, Expressions
    <3> QED
      BY <1>1 DEF Records
  <2>2. 1 \in DOMAIN acts
    <3> HIDE DEF Frames
    <3> QED
      BY <1>1
  <2>3. acts'[1] = a
    <3> HIDE DEF Frames
    <3> QED
      BY <1>4, <2>2
  <2>4. Len(acts') = 1
    <3> HIDE DEF Frames
    <3> QED
      BY <1>1, <1>4
  <2> QED
    BY <2>1, <2>3, <2>4
<1>5. ASSUME NEW i, NEW s, Goto(i, s)
      PROVE  /\ ret'.type # "lost"
             /\ acts' # <<>> => Len(acts') = 1 /\ acts'[1].own /\ acts'[1].kind = "expr"
  <2>1. CASE Die(Full)
    BY <2>1, <1>3, LentResults
  <2>2. CASE ret' = NoResult /\ acts' = [acts EXCEPT ![Len(acts)].i = i, ![Len(acts)].stk = s]
    <3>1. Len(acts') = 1 /\ acts'[1].own /\ acts'[1].kind = "expr"
      BY <1>4, <2>2, Zenon
    <3>2. ret'.type # "lost"
      BY <2>2, LentResults
    <3> QED
      BY <3>1, <3>2, Zenon
  <2> QED
    BY <1>5, <2>1, <2>2, Zenon DEF Goto
<1> QED
  BY <1>2, <1>3, <1>5, Zenon

LEMMA NextLent ==
  ASSUME TInv, Lent, [Next]_vars
  PROVE  Lent'
<1>1. job' = job
  BY DEF Next, vars, StackOp, RegisterOp, Skip, Bra, FbReg, FbRegReturns, CallFrameCfa, CallFrameCfaReturns,
         StackValue, BadOp, NoOps, EndOfOps, LoseStack, CfaColumn, CfaColumnReturns, OtherColumn,
         OtherColumnReturns, CfaEnds
<1>2. Alone' <=> Alone
  BY <1>1 DEF Alone, Expressions, Context, Fde
<1> SUFFICES ASSUME Alone
             PROVE  /\ ret'.type # "lost"
                    /\ acts' # <<>> => Len(acts') = 1 /\ acts'[1].own /\ acts'[1].kind = "expr"
  BY <1>2 DEF Lent
<1>3. CASE UNCHANGED vars
  BY <1>3 DEF Lent, vars
<1>4. CASE Next
  <2>1. acts # <<>>
    BY <1>4 DEF Next, StackOp, RegisterOp, Skip, Bra, FbReg, FbRegReturns, CallFrameCfa, CallFrameCfaReturns,
         StackValue, BadOp, NoOps, EndOfOps, LoseStack, Touching, CfaColumn, CfaColumnReturns, OtherColumn,
         OtherColumnReturns, CfaEnds, AtOp, Running, Returned
  <2>2. Len(acts) = 1 /\ acts[1].own /\ acts[1].kind = "expr" /\ Top = acts[1]
    BY <2>1 DEF Lent, Top
  <2>3. ~CfaColumn /\ ~CfaColumnReturns /\ ~OtherColumn /\ ~OtherColumnReturns /\ ~CfaEnds /\ ~LoseStack
    BY <2>2 DEF CfaColumn, CfaColumnReturns, OtherColumn, OtherColumnReturns, CfaEnds, LoseStack, Running, Returned
  <2>4. ~FbReg /\ ~CallFrameCfa
    <3>1. Waiting(Top) => Op.opcode \notin Nested
      BY <2>1, <2>2, CurrentOp DEF Alone
    <3> QED
      BY <3>1 DEF FbReg, CallFrameCfa, AtOp, Waiting, Nested
  <2>5. \/ \E r : (Return(r) \/ Die(r)) /\ r.type # "lost"
        \/ \E i, s : Goto(i, s)
    <3>1. CASE StackOp
      BY <3>1, LentResults, Zenon DEF StackOp
    <3>2. CASE RegisterOp
      BY <3>2, LentResults, Zenon DEF RegisterOp
    <3>3. CASE Skip \/ Bra
      BY <3>3, LentResults, Zenon DEF Skip, Bra
    <3>4. CASE FbRegReturns \/ CallFrameCfaReturns
      BY <3>4, LentResults, Zenon DEF FbRegReturns, CallFrameCfaReturns
    <3>5. CASE StackValue \/ BadOp \/ NoOps \/ EndOfOps
      BY <3>5, LentResults, Zenon DEF StackValue, BadOp, NoOps, EndOfOps
    <3> QED
      BY <1>4, <2>3, <2>4, <3>1, <3>2, <3>3, <3>4, <3>5 DEF Next
  <2> QED
    BY <2>1, <2>2, <2>5, ExprLent
<1> QED
  BY <1>3, <1>4

\* The operations of evaluate are undefined only in expressions that compare or
\* divide, or when the saved stack memory ends within a word of the end of the
\* address space; its stack only where it is not the caller's, or where a frame
\* base or a CFA is evaluated, whose local_stack is gone (lines 85-88).
THEOREM DefinedOutcome == Spec => []OperationsDefined
<1>1. Init => TInv /\ Lent
  BY InitTyped, InitLent
<1>2. TInv /\ Lent /\ [Next]_vars => (TInv /\ Lent)'
  BY NextTyped, NextLent
<1>3. TInv /\ Lent => OperationsDefined
  BY DEF TInv, TypedResult, Defined, Lent, Alone, Nested, OperationsDefined, Trap, StackLost, Result
<1> QED
  BY <1>1, <1>2, <1>3, PTL DEF Spec

\* The only step that comes from such an operation and keeps the call stack
\* as it is.
LEMMA ShuffleStep ==
  ASSUME TInv, Next, AtOp(KeepOps), Len(acts') = Len(acts)
  PROVE  /\ Apply(Context, Op, Top.stk).code = "kNone"
         /\ acts'[Len(acts)].stk = Apply(Context, Op, Top.stk).stk
<1> DEFINE outcome == Apply(Context, Op, Top.stk)
<1>1. /\ acts # <<>> /\ Top.kind = "expr" /\ ret = NoResult
      /\ Top.i <= Len(Top.ops) /\ Op.opcode \in KeepOps
  BY DEF AtOp, Running
<1>2. Len(acts) \in Nat \ {0} /\ acts \in Seq(Frames) /\ Top \in Records
  BY <1>1, TopFrame
<1>3. Top.i \in 1 .. Len(Top.ops) /\ Top.ops \in Expressions
  BY <1>1, CurrentOp DEF Waiting
<1>4. ~Die(Trap) /\ ~Die(StackLost) /\ ~Die(Full)
  <2>1. Len(<<>>) # Len(acts)
    BY <1>2
  <2> QED
    BY <2>1 DEF Die
<1>5. ASSUME NEW r PROVE ~Return(r)
  <2>1. PICK n \in Nat : n = Len(acts) - 1
    BY <1>2
  <2>2. Len(SubSeq(acts, 1, n)) = n
    <3>1. \A k \in 1 .. n : acts[k] \in Frames
      <4> HIDE DEF Frames
      <4> QED
        BY <1>2, <2>1
    <3>2. 1 \in Int /\ n \in Int
      OBVIOUS
    <3>3. Len(SubSeq(acts, 1, n)) = IF 1 <= n THEN n - 1 + 1 ELSE 0
      <4> HIDE DEF Frames
      <4> QED
        BY <3>1, <3>2, SubSeqProperties
    <3> QED
      BY <3>3
  <2> QED
    BY <1>2, <2>1, <2>2 DEF Return, Below
<1>6. StackOp
  <2>1. Top.ops # <<>> /\ ~(Top.i > Len(Top.ops))
    <3>1. Len(Top.ops) \in Nat
      BY <1>3, ExpressionFacts DEF TInv
    <3>2. Top.ops = <<>> => Len(Top.ops) = 0
      OBVIOUS
    <3> QED
      BY <1>1, <1>3, <3>1, <3>2
  <2>2. ~RegisterOp /\ ~Skip /\ ~Bra /\ ~FbReg /\ ~CallFrameCfa /\ ~StackValue /\ ~BadOp
    BY <1>1 DEF RegisterOp, Skip, Bra, FbReg, CallFrameCfa, StackValue, BadOp, AtOp, KeepOps, RegisterOps
  <2>3. ~FbRegReturns /\ ~CallFrameCfaReturns /\ ~CfaColumnReturns /\ ~OtherColumnReturns
    BY <1>1 DEF FbRegReturns, CallFrameCfaReturns, CfaColumnReturns, OtherColumnReturns, Returned
  <2>4. ~CfaColumn /\ ~OtherColumn /\ ~CfaEnds
    BY <1>1 DEF CfaColumn, OtherColumn, CfaEnds, Running
  <2>5. ~NoOps /\ ~EndOfOps /\ ~LoseStack
    BY <1>4, <2>1 DEF NoOps, EndOfOps, LoseStack
  <2> QED
    BY <2>2, <2>3, <2>4, <2>5 DEF Next
<1>7. outcome.code = "kNone" /\ Goto(Top.i + 1, outcome.stk)
  <2>1. \/ outcome.code = "kNone" /\ Goto(Top.i + 1, outcome.stk)
        \/ Die(Trap) \/ Return(Error(outcome.code))
    <3> HIDE DEF outcome
    <3> QED
      BY <1>6, Zenon DEF StackOp, outcome
  <2> HIDE DEF outcome
  <2> QED
    BY <1>4, <1>5, <2>1
<1>8. acts'[Len(acts)].stk = outcome.stk
  <2>1. acts' = [acts EXCEPT ![Len(acts)].i = Top.i + 1, ![Len(acts)].stk = outcome.stk]
    <3> HIDE DEF outcome
    <3> QED
      BY <1>4, <1>7 DEF Goto
  <2>2. Len(acts) \in DOMAIN acts /\ acts[Len(acts)] \in Records
    <3> HIDE DEF Frames
    <3> QED
      BY <1>2 DEF Top
  <2>3. "stk" \in DOMAIN acts[Len(acts)]
    <3> HIDE DEF Word, Expressions
    <3> QED
      BY <2>2 DEF Records
  <2> HIDE DEF outcome
  <2> QED
    BY <2>1, <2>2, <2>3
<1> QED
  BY <1>7, <1>8

\* ShufflesPermute: while an activation goes on after a shuffle, a nop or a
\* copy, its stack has the entries it had and no others, each at least as
\* often, and one more exactly after a copy; for every expression, stack and
\* operand of evaluate, whatever happens around the operation.
THEOREM StackKept == Spec => ShufflesPermute
<1> DEFINE Shuffled ==
      AtOp({"swap", "rot", "nop", "dup", "over", "pick"}) /\ Len(acts') = Len(acts)
      => LET before == Top.stk
             after  == acts'[Len(acts)].stk
             copies == IF Op.opcode \in {"dup", "over", "pick"} THEN 1 ELSE 0
             count(s, v) == Cardinality({k \in DOMAIN s : s[k] = v})
         IN  /\ Len(after) = Len(before) + copies
             /\ ToSet(after) = ToSet(before)
             /\ \A v \in ToSet(before) : count(after, v) >= count(before, v)
<1>1. Init => TInv
  BY InitTyped
<1>2. TInv /\ [Next]_vars => TInv'
  BY NextTyped
<1>3. TInv /\ [Next]_vars => [Shuffled]_vars
  <2> SUFFICES ASSUME TInv, Next, AtOp(KeepOps), Len(acts') = Len(acts)
               PROVE  LET before == Top.stk
                          after  == acts'[Len(acts)].stk
                      IN  /\ Len(after) = Len(before) + (IF Op.opcode \in CopyOps THEN 1 ELSE 0)
                          /\ Keeps(before, after)
    BY DEF KeepOps, CopyOps, Keeps, Count
  <2>1. Running("expr") /\ Waiting(Top) /\ Op.opcode \in KeepOps
    BY DEF AtOp, Waiting
  <2>2. acts # <<>> /\ Top.kind = "expr" /\ Top.stk \in Seq(Word)
    BY <2>1, ExprRuns
  <2>3. Op.op1 \in Word
    <3>1. Op \in Operations
      BY <2>1, <2>2, CurrentOp
    <3> HIDE DEF Word
    <3> QED
      BY <3>1 DEF Operations
  <2>4. Apply(Context, Op, Top.stk).code = "kNone"
    BY ShuffleStep
  <2>5. acts'[Len(acts)].stk = Apply(Context, Op, Top.stk).stk
    BY ShuffleStep
  <2>6. /\ Keeps(Top.stk, Apply(Context, Op, Top.stk).stk)
        /\ Len(Apply(Context, Op, Top.stk).stk) = Len(Top.stk) + (IF Op.opcode \in CopyOps THEN 1 ELSE 0)
    <3>1. PICK op : op = Op
      OBVIOUS
    <3>2. PICK s \in Seq(Word) : s = Top.stk
      BY <2>2
    <3>3. op.opcode \in KeepOps /\ op.op1 \in Word /\ Apply(Context, op, s).code = "kNone"
      BY <2>1, <2>3, <2>4, <3>1, <3>2
    <3>4. /\ Keeps(s, Apply(Context, op, s).stk)
          /\ Len(Apply(Context, op, s).stk) = Len(s) + (IF op.opcode \in CopyOps THEN 1 ELSE 0)
      BY <3>3, OpKeeps
    <3> QED
      BY <3>1, <3>2, <3>4
  <2> QED
    BY <2>5, <2>6
<1> QED
  BY <1>1, <1>2, <1>3, PTL DEF Spec, ShufflesPermute
=============================================================================
