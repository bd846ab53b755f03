--------------------------- MODULE ReportOwners_proof ---------------------------
(***************************************************************************)
(* HandlesLive, SingleOwner and ReportLeaks of Report, for every job and   *)
(* every scene: whatever calls of libdwarf fail and whatever the context   *)
(* file holds, main, walkDIE and getFunctionName work on open handles      *)
(* only, every variable, type and location on the heap has one owner, and  *)
(* an address leaves nothing behind but the location of its frame base and *)
(* the handles of the walk.                                                *)
(*                                                                         *)
(* The handle that walkDIE deallocates as it moves to a sibling is in no   *)
(* other activation because it was reached as a sibling, and the current   *)
(* DIEs of the activations below lie in front of the DIE with which the    *)
(* running one was called.                                                 *)
(*                                                                         *)
(* Two vectors never hold the same variable, and neither holds one twice,  *)
(* because a DIE has one tag and the walk only moves forward: the          *)
(* variables it has collected lie behind it.  The types of a variable form *)
(* a chain whose front the running loads hold and whose rest is linked.    *)
(***************************************************************************)
EXTENDS CrashScene, SequenceTheorems, FiniteSetTheorems, TLAPS

\* Handles of the walk, in a unit of n DIEs.
Handles(n) == Nat \X Roles \X (1 .. n) \X Nat

Activations(n) == [die: Handles(n), cur: Handles(n), level: Int]

\* An activation a on handles that are open, among those in l: it was called
\* with the function or a first child, and stands there or at a later sibling.
OnOpen(a, l) ==
  /\ a.die \in l /\ a.cur \in l
  /\ Role(a.die) \in {"func", "child"}
  /\ a.cur = a.die \/ Role(a.cur) = "sibling"
  /\ DieOf(a.die) <= DieOf(a.cur)

\* The activations w of walkDIE descend in the order of the offsets.
WalkOK(w, l, n) ==
  /\ w \in Seq(Activations(n))
  /\ \A i \in 1 .. Len(w) : OnOpen(w[i], l)
  /\ \A i, j \in 1 .. Len(w) : i < j => DieOf(w[i].cur) < DieOf(w[j].die)

InWalk == {"visit", "child", "sibling", "load", "type", "typed", "location", "drop"}

N == Len(Unit.die)

WalkInv ==
  /\ pc \in InWalk => Len(walk) > 0
  /\ pc \notin InWalk \cup {"undefined"} => walk = <<>>
  /\ WalkOK(walk, live, N)

RefsInv ==
  /\ refs \in Seq(1 .. N)
  /\ pc # "name" => refs = <<>>
  /\ \A i \in 1 .. Len(refs) : Ref(refs[i]) \in live

ListInv ==
  /\ params \in Seq(Handles(N)) /\ locals \in Seq(Handles(N))
  /\ \A i \in 1 .. Len(params) : Role(params[i]) = "var"
  /\ \A i \in 1 .. Len(locals) : Role(locals[i]) = "var"

PlaceInv ==
  /\ job \in Jobs
  /\ at \in Nat
  /\ Reporting => Cu \in live /\ Func \in live /\ func \in 1 .. N

Inv == PlaceInv /\ WalkInv /\ RefsInv /\ ListInv

-----------------------------------------------------------------------------
LEMMA UnitShape ==
  ASSUME job \in Jobs
  PROVE  /\ N \in Nat
         /\ \A d \in 1 .. N : Unit.last[d] \in 1 .. N /\ d <= Unit.last[d]
         /\ \A d \in 1 .. N : Unit.parent[d] \in 0 .. N
<1>1. WellFormedUnit(Unit)
  BY ReportAssumption DEF Unit
<1>2. Shape(Unit)
  BY <1>1 DEF WellFormedUnit
<1>3. N \in Nat
  <2> DEFINE D == [tag: {"cu", "function", "parameter", "variable", "other"},
                   names: SUBSET {"linkage", "MIPS", "HP", "name"}, spec: Dies(Unit) \cup {NoDie},
                   type: 0 .. Len(Unit.types),
                   loc: [form: {"none", "block", "exprloc", "data", "sec_offset", "loclistx", "other"},
                         result: {"invalid", "value", "address"}, addr: Unsigned]]
  <2>1. Unit.die \in Seq(D)
    BY <1>1 DEF WellFormedUnit
  <2> HIDE DEF D
  <2> QED
    BY <2>1 DEF N
<1>4. \A d \in 1 .. N : Unit.last[d] \in 1 .. N /\ d <= Unit.last[d]
  BY <1>2 DEF Shape, Dies, Size, N
<1>5. \A d \in 1 .. N : Unit.parent[d] \in 0 .. N
  BY <1>2 DEF Shape, Dies, Size, N
<1> QED
  BY <1>3, <1>4, <1>5

\* What DW_AT_specification names is a DIE.
LEMMA SpecShape ==
  ASSUME job \in Jobs, NEW d \in 1 .. N
  PROVE  Unit.die[d].spec # NoDie => Unit.die[d].spec \in 1 .. N
<1> DEFINE Loc == [form: {"none", "block", "exprloc", "data", "sec_offset", "loclistx", "other"},
                   result: {"invalid", "value", "address"}, addr: Unsigned]
           S == Dies(Unit) \cup {NoDie}
           T == 0 .. Len(Unit.types)
           Names == SUBSET {"linkage", "MIPS", "HP", "name"}
           Tags == {"cu", "function", "parameter", "variable", "other"}
           D == [tag: Tags, names: Names, spec: S, type: T, loc: Loc]
<1>1. WellFormedUnit(Unit)
  BY ReportAssumption DEF Unit
<1>2. Unit.die \in Seq(D)
  BY <1>1 DEF WellFormedUnit
<1>3. Unit.die[d] \in D
  <2> HIDE DEF D
  <2> QED
    BY <1>2 DEF N
<1>4. Unit.die[d].spec \in S
  <2> HIDE DEF Loc, S, T, Names, Tags
  <2> QED
    BY <1>3
<1>5. N \in Nat
  BY UnitShape
<1> QED
  BY <1>4, <1>5 DEF Dies, Size, N

-----------------------------------------------------------------------------
(***************************************************************************)
(* What the steps of walkDIE do to its activations.                        *)
(***************************************************************************)
LEMMA HandleShape ==
  ASSUME NEW n \in Nat, NEW h \in Handles(n)
  PROVE  DieOf(h) \in 1 .. n
  BY DEF Handles, DieOf

LEMMA ObjectShape ==
  ASSUME at \in Nat, NEW n \in Nat, NEW r \in Roles, NEW d \in 1 .. n
  PROVE  Object(r, d, 0) \in Handles(n) /\ Role(Object(r, d, 0)) = r /\ DieOf(Object(r, d, 0)) = d
<1> DEFINE D == 1 .. n
<1>1. d \in D
  OBVIOUS
<1> HIDE DEF D
<1>2. <<at, r, d, 0>> \in Nat \X Roles \X D \X Nat
  BY <1>1
<1>3. Object(r, d, 0) \in Handles(n)
  BY <1>2 DEF Object, Handles, D
<1> QED
  BY <1>3 DEF Object, Role, DieOf

LEMMA RoleShape == {"func", "child", "sibling"} \subseteq Roles
  BY DEF Roles

LEMMA ActivationShape ==
  ASSUME NEW n \in Nat, NEW w \in Seq(Activations(n)), NEW i \in 1 .. Len(w)
  PROVE  DieOf(w[i].cur) \in 1 .. n /\ DieOf(w[i].die) \in 1 .. n
<1> DEFINE H == Handles(n)
<1>1. w[i] \in Activations(n)
  OBVIOUS
<1>2. w[i].cur \in H /\ w[i].die \in H
  <2> HIDE DEF H
  <2>1. Activations(n) = [die: H, cur: H, level: Int]
    BY DEF Activations, H
  <2> QED
    BY <1>1, <2>1
<1> QED
  BY <1>2, HandleShape

\* Handles that are not deallocated leave the walk as it is.
LEMMA WalkKept ==
  ASSUME NEW w, NEW l, NEW n \in Nat, NEW m, WalkOK(w, l, n),
         \A h \in l : Role(h) \in {"func", "child", "sibling"} => h \in m
  PROVE  WalkOK(w, m, n)
  BY DEF WalkOK, OnOpen

LEMMA WalkPopped ==
  ASSUME NEW w, NEW l, NEW n \in Nat, WalkOK(w, l, n), Len(w) > 0
  PROVE  WalkOK(Front(w), l, n) /\ Len(Front(w)) = Len(w) - 1
<1> DEFINE A == Activations(n)
           x == Front(w)
<1>1. w \in Seq(A) /\ \A i \in 1 .. Len(w) : OnOpen(w[i], l)
  BY DEF WalkOK
<1>2. \A i, j \in 1 .. Len(w) : i < j => DieOf(w[i].cur) < DieOf(w[j].die)
  BY DEF WalkOK
<1>3. /\ x \in Seq(A) /\ Len(x) = Len(w) - 1 /\ Len(w) \in Nat
      /\ \A i \in 1 .. Len(x) : i \in 1 .. Len(w) /\ x[i] = w[i]
  <2> HIDE DEF A
  <2>1. Len(w) \in Nat /\ \A i \in 1 .. (Len(w) - 1) : w[i] \in A
    BY <1>1
  <2>2. /\ x \in Seq(A) /\ Len(x) = IF 1 <= Len(w) - 1 THEN (Len(w) - 1) - 1 + 1 ELSE 0
        /\ \A i \in 1 .. ((Len(w) - 1) - 1 + 1) : x[i] = w[1 + i - 1]
    BY <2>1, SubSeqProperties DEF Front
  <2> HIDE DEF x
  <2>3. Len(x) = Len(w) - 1
    <3>1. PICK k \in Nat : k = Len(w) /\ k > 0
      BY <2>1
    <3> QED
      BY <2>2, <3>1
  <2>4. \A i \in 1 .. (Len(w) - 1) : x[i] = w[i]
    <3> TAKE i \in 1 .. (Len(w) - 1)
    <3>1. i \in 1 .. ((Len(w) - 1) - 1 + 1) /\ 1 + i - 1 = i
      BY <2>1
    <3> QED
      BY <2>2, <3>1
  <2> QED
    BY <2>1, <2>2, <2>3, <2>4
<1> HIDE DEF x
<1>4. \A i \in 1 .. Len(x) : OnOpen(x[i], l)
  BY <1>1, <1>3
<1>5. \A i, j \in 1 .. Len(x) : i < j => DieOf(x[i].cur) < DieOf(x[j].die)
  BY <1>2, <1>3
<1>6. WalkOK(x, l, n)
  BY <1>3, <1>4, <1>5 DEF WalkOK
<1> QED
  BY <1>3, <1>6 DEF x

\* A first child is entered; levels do not matter.
LEMMA WalkPushed ==
  ASSUME NEW w, NEW l, NEW n \in Nat, WalkOK(w, l, n), Len(w) > 0,
         NEW h \in Handles(n), Role(h) = "child", DieOf(w[Len(w)].cur) < DieOf(h),
         NEW v \in Int, NEW u \in Int
  PROVE  LET x == Append([w EXCEPT ![Len(w)].level = u], [die |-> h, cur |-> h, level |-> v])
         IN  WalkOK(x, l \cup {h}, n) /\ Len(x) > 0
<1> DEFINE top == [die |-> h, cur |-> h, level |-> v]
           y == [w EXCEPT ![Len(w)].level = u]
           x == Append(y, top)
           k == Len(w)
<1>1. w \in Seq(Activations(n)) /\ k \in Nat /\ k > 0
  BY DEF WalkOK
<1>2. /\ \A i \in 1 .. k : w[i] \in Activations(n)
      /\ top \in Activations(n)
  <2> DEFINE H == Handles(n)
  <2>1. Activations(n) = [die: H, cur: H, level: Int]
    BY DEF Activations
  <2> HIDE DEF H
  <2>2. h \in H
    BY DEF H
  <2>3. top \in Activations(n)
    BY <2>1, <2>2
  <2> QED
    BY <1>1, <2>3
<1>3. [w[k] EXCEPT !.level = u] \in Activations(n)
  BY <1>1, <1>2 DEF Activations
<1>4. y \in Seq(Activations(n)) /\ Len(y) = k
  BY <1>1, <1>3
<1>5. x \in Seq(Activations(n)) /\ Len(x) = k + 1
  BY <1>4, <1>2
<1>6. \A i \in 1 .. k : x[i].die = w[i].die /\ x[i].cur = w[i].cur
  <2> TAKE i \in 1 .. k
  <2>1. x[i] = y[i]
    BY <1>4, <1>2
  <2>2. CASE i = k
    BY <2>1, <2>2, <1>1, <1>2 DEF Activations
  <2>3. CASE i # k
    BY <2>1, <2>3, <1>1
  <2> QED
    BY <2>2, <2>3
<1>7. x[k + 1] = top
  <2> HIDE DEF y, top
  <2> QED
    BY <1>4, <1>2
<1>8. \A i \in 1 .. k : OnOpen(w[i], l)
  BY DEF WalkOK
<1>9. \A i \in 1 .. (k + 1) : OnOpen(x[i], l \cup {h})
  <2> TAKE i \in 1 .. (k + 1)
  <2>1. CASE i \in 1 .. k
    BY <2>1, <1>6, <1>8 DEF OnOpen
  <2>2. CASE i = k + 1
    BY <2>2, <1>7, <1>1 DEF OnOpen, Handles, DieOf
  <2> QED
    BY <2>1, <2>2, <1>1
<1>10. \A i \in 1 .. k : DieOf(w[i].cur) < DieOf(h)
  <2> TAKE i \in 1 .. k
  <2>1. /\ DieOf(w[i].cur) \in Int /\ DieOf(w[k].die) \in Int /\ DieOf(w[k].cur) \in Int
        /\ DieOf(h) \in Int
    BY <1>1, ActivationShape, HandleShape
  <2>2. DieOf(w[k].die) <= DieOf(w[k].cur)
    BY <1>1, <1>8 DEF OnOpen
  <2>3. CASE i < k
    <3>1. DieOf(w[i].cur) < DieOf(w[k].die)
      BY <2>3, <1>1 DEF WalkOK
    <3> QED
      BY <3>1, <2>1, <2>2
  <2>4. CASE i = k
    BY <2>4
  <2> QED
    BY <2>3, <2>4, <1>1
<1>11. \A i, j \in 1 .. (k + 1) : i < j => DieOf(x[i].cur) < DieOf(x[j].die)
  <2> SUFFICES ASSUME NEW i \in 1 .. (k + 1), NEW j \in 1 .. (k + 1), i < j
               PROVE  DieOf(x[i].cur) < DieOf(x[j].die)
    OBVIOUS
  <2>1. i \in 1 .. k
    BY <1>1
  <2>2. CASE j \in 1 .. k
    BY <2>1, <2>2, <1>6 DEF WalkOK
  <2>3. CASE j = k + 1
    BY <2>1, <2>3, <1>6, <1>7, <1>10
  <2> QED
    BY <2>2, <2>3, <1>1
<1>12. x \in Seq(Activations(n)) /\ Len(x) = k + 1 /\ k + 1 > 0
  BY <1>1, <1>5
<1> HIDE DEF x
<1>13. WalkOK(x, l \cup {h}, n) /\ Len(x) > 0
  BY <1>9, <1>11, <1>12 DEF WalkOK
<1> QED
  BY <1>13 DEF x

\* The walk moves to a sibling: the handle it deallocates is of no activation.
LEMMA WalkMoved ==
  ASSUME NEW w, NEW l, NEW n \in Nat, WalkOK(w, l, n), Len(w) > 0,
         NEW h \in Handles(n), Role(h) = "sibling", DieOf(w[Len(w)].cur) < DieOf(h),
         NEW gone, gone \subseteq {w[Len(w)].cur},
         w[Len(w)].cur = w[Len(w)].die => gone = {}
  PROVE  LET x == [w EXCEPT ![Len(w)].cur = h]
         IN  /\ WalkOK(x, (l \cup {h}) \ gone, n) /\ Len(x) = Len(w)
             /\ \A o \in gone : Role(o) = "sibling"
<1> DEFINE x == [w EXCEPT ![Len(w)].cur = h]
           k == Len(w)
           m == (l \cup {h}) \ gone
<1>1. w \in Seq(Activations(n)) /\ k \in Nat /\ k > 0
  BY DEF WalkOK
<1>2. \A i \in 1 .. k : w[i] \in Activations(n)
  BY <1>1
<1>3. [w[k] EXCEPT !.cur = h] \in Activations(n)
  BY <1>1, <1>2 DEF Activations
<1>4. x \in Seq(Activations(n)) /\ Len(x) = k
  BY <1>1, <1>3
<1>5. /\ \A i \in 1 .. (k - 1) : x[i] = w[i]
      /\ x[k].die = w[k].die /\ x[k].cur = h
  BY <1>1, <1>2 DEF Activations
<1>6. \A i \in 1 .. k : OnOpen(w[i], l)
  BY DEF WalkOK
<1>7. /\ \A o \in gone : Role(o) = "sibling"
      /\ \A i \in 1 .. k : DieOf(w[i].cur) \in Int /\ DieOf(w[i].die) \in Int
      /\ DieOf(h) \in Int
  <2>1. OnOpen(w[k], l)
    BY <1>1, <1>6
  <2>2. \A o \in gone : Role(o) = "sibling"
    BY <2>1 DEF OnOpen
  <2> QED
    BY <2>2, <1>1, ActivationShape, HandleShape
<1>8. DieOf(w[k].die) <= DieOf(w[k].cur)
  BY <1>1, <1>6 DEF OnOpen
<1>9. \A i \in 1 .. (k - 1) : DieOf(w[i].cur) < DieOf(w[k].cur)
  <2> TAKE i \in 1 .. (k - 1)
  <2>1. DieOf(w[i].cur) < DieOf(w[k].die)
    BY <1>1 DEF WalkOK
  <2> QED
    BY <2>1, <1>7, <1>8, <1>1, SMTT(40)
<1>10. \A i \in 1 .. k : w[i].die \in m
  <2> TAKE i \in 1 .. k
  <2>1. w[i].die \in l /\ Role(w[i].die) \in {"func", "child"}
    BY <1>6 DEF OnOpen
  <2> QED
    BY <2>1, <1>7
<1>11. \A i \in 1 .. (k - 1) : w[i].cur \in m
  <2> TAKE i \in 1 .. (k - 1)
  <2>1. w[i].cur \in l
    BY <1>1, <1>6 DEF OnOpen
  <2>2. w[i].cur # w[k].cur
    BY <1>9, <1>7, <1>1, SMTT(40)
  <2> QED
    BY <2>1, <2>2
<1>12. h \in m
  BY <1>7, <1>1
<1>13. \A i \in 1 .. k : OnOpen(x[i], m)
  <2> TAKE i \in 1 .. k
  <2>1. CASE i \in 1 .. (k - 1)
    BY <2>1, <1>1, <1>5, <1>6, <1>10, <1>11 DEF OnOpen
  <2>2. CASE i = k
    <3>1. OnOpen(w[k], l)
      BY <1>1, <1>6
    <3>2. DieOf(w[k].die) <= DieOf(h)
      BY <1>1, <1>7, <1>8
    <3> QED
      BY <2>2, <3>1, <3>2, <1>1, <1>5, <1>10, <1>12 DEF OnOpen
  <2> QED
    BY <2>1, <2>2, <1>1
<1>14. \A i, j \in 1 .. k : i < j => DieOf(x[i].cur) < DieOf(x[j].die)
  <2> SUFFICES ASSUME NEW i \in 1 .. k, NEW j \in 1 .. k, i < j
               PROVE  DieOf(x[i].cur) < DieOf(x[j].die)
    OBVIOUS
  <2>1. i \in 1 .. (k - 1)
    BY <1>1
  <2>2. x[j].die = w[j].die
    BY <1>1, <1>5
  <2> QED
    BY <2>1, <2>2, <1>5 DEF WalkOK
<1> HIDE DEF x
<1>15. WalkOK(x, m, n)
  BY <1>4, <1>13, <1>14 DEF WalkOK
<1> QED
  BY <1>4, <1>7, <1>15 DEF x

-----------------------------------------------------------------------------
\* A step that leaves the walk where it is, and the name.
LEMMA Preserved ==
  ASSUME Inv, UNCHANGED <<job, at, func, refs, walk>>,
         \A h \in live : Role(h) \in {"cu", "func", "child", "sibling"} => h \in live',
         pc # "name",
         pc' \in InWalk => pc \in InWalk,
         pc' \in InWalk \cup {"undefined"} \/ pc \notin InWalk \cup {"undefined"},
         Reporting' => Reporting
  PROVE  PlaceInv' /\ WalkInv' /\ RefsInv'
<1>1. Cu' = Cu /\ Func' = Func /\ N' = N
  BY DEF Cu, Func, Object, N, Unit
<1>2. Role(Cu) = "cu" /\ Role(Func) = "func"
  BY DEF Cu, Func, Object, Role
<1>3. PlaceInv'
  BY <1>1, <1>2 DEF Inv, PlaceInv
<1>4. N \in Nat
  BY UnitShape DEF Inv, PlaceInv
<1>5. WalkOK(walk, live', N)
  BY <1>4, WalkKept DEF Inv, WalkInv
<1>6. WalkInv'
  BY <1>1, <1>5 DEF Inv, WalkInv
<1>7. RefsInv'
  BY <1>1 DEF Inv, RefsInv
<1> QED
  BY <1>3, <1>6, <1>7

LEMMA ListKept ==
  ASSUME Inv, UNCHANGED <<job, params, locals>>
  PROVE  ListInv'
  BY DEF Inv, ListInv, N, Unit

\* The DIE under the walk.
LEMMA CurShape ==
  ASSUME Inv, pc \in InWalk
  PROVE  /\ Len(walk) > 0 /\ Here = walk[Len(walk)] /\ CurDie = DieOf(walk[Len(walk)].cur)
         /\ CurDie \in 1 .. N
         /\ at \in Nat
<1>1. Len(walk) > 0 /\ walk \in Seq(Activations(N))
  BY DEF Inv, WalkInv, WalkOK
<1>2. N \in Nat
  BY UnitShape DEF Inv, PlaceInv
<1>3. Len(walk) \in 1 .. Len(walk)
  BY <1>1
<1>4. DieOf(walk[Len(walk)].cur) \in 1 .. N
  BY <1>1, <1>2, <1>3, ActivationShape
<1> QED
  BY <1>1, <1>4 DEF Here, CurDie, Last, Inv, PlaceInv

-----------------------------------------------------------------------------
LEMMA InitInv == SceneInit => Inv
<1> SUFFICES ASSUME SceneInit PROVE Inv
  OBVIOUS
<1>1. /\ job \in Jobs /\ pc = "args" /\ at = 0 /\ refs = <<>> /\ walk = <<>>
      /\ params = <<>> /\ locals = <<>>
  BY DEF SceneInit, Init
<1>2. WalkOK(<<>>, live, N)
  BY DEF WalkOK
<1> QED
  BY <1>1, <1>2 DEF Inv, PlaceInv, WalkInv, RefsInv, ListInv, InWalk, Reporting

(***************************************************************************)
(* The steps of main before and behind the walk.                           *)
(***************************************************************************)
LEMMA QuietStep ==
  ASSUME Inv,
         ParseOption \/ ParseAddress \/ Help \/ EndOfArgs \/ Open \/ LoadContext
           \/ EndOfAddresses \/ EndOfVars
  PROVE  Inv'
<1>1. UNCHANGED <<job, at, func, refs, walk, live, params, locals>>
  BY DEF ParseOption, ParseAddress, Help, EndOfArgs, Open, LoadContext, EndOfAddresses, EndOfVars,
         UnchangedReport, cmd, place, naming, lists
<1>2. \/ pc \in {"args", "open", "context", "search"}
           /\ pc' \in {"args", "open", "context", "search", "exit", "aborted", "undefined"}
      \/ pc = "print" /\ pc' = "finish"
  BY DEF ParseOption, ParseAddress, Help, EndOfArgs, Open, LoadContext, EndOfAddresses, EndOfVars, Parsing
<1>3. PlaceInv' /\ WalkInv' /\ RefsInv'
  BY <1>1, <1>2, Preserved DEF InWalk, Reporting
<1> QED
  BY <1>1, <1>3, ListKept DEF Inv

\* Printing bytes the frame does not have leaves everything as it is.
LEMMA Outside ==
  ASSUME PrintOutside
  PROVE  /\ UNCHANGED <<job, at, func, refs, walk, types, live, heap, linked, params, locals>>
         /\ pc = "print" /\ pc' = "undefined"
BY DEF PrintOutside, UnchangedReport, cmd, place, naming, loading, lists

LEMMA OutsideStep ==
  ASSUME Inv, PrintOutside
  PROVE  Inv'
<1>1. /\ UNCHANGED <<job, at, func, refs, walk, live, params, locals>>
      /\ pc = "print" /\ pc' = "undefined"
  BY Outside
<1>2. PlaceInv' /\ WalkInv' /\ RefsInv'
  BY <1>1, Preserved DEF InWalk, Reporting
<1> QED
  BY <1>1, <1>2, ListKept DEF Inv

LEMMA SearchStep ==
  ASSUME Inv, Search
  PROVE  Inv'
<1>1. /\ pc = "search" /\ at' = at + 1 /\ at \in Nat /\ job \in Jobs
      /\ UNCHANGED <<job, refs, walk, params, locals>>
      /\ pc' \in {"search", "name", "sizes"}
      /\ live \subseteq live'
  BY DEF Search, Inv, PlaceInv, cmd, lists
<1>2. Reporting' => Cu' \in live' /\ Func' \in live' /\ func' \in 1 .. N
  <2> SUFFICES ASSUME Reporting' PROVE Cu' \in live' /\ Func' \in live' /\ func' \in 1 .. N
    OBVIOUS
  <2>1. func' # NoDie
    BY <1>1 DEF Search, Reporting
  <2> QED
    BY <1>1, <2>1 DEF Search, Cu, Func, Object, Functions, Dies, Size, N, NoDie
<1>3. N' = N
  BY <1>1 DEF N, Unit
<1>4. PlaceInv'
  BY <1>1, <1>2, <1>3 DEF PlaceInv
<1>5. walk = <<>> /\ refs = <<>>
  BY <1>1 DEF Inv, WalkInv, RefsInv, InWalk
<1>6. WalkOK(<<>>, live', N)
  BY DEF WalkOK
<1>7. WalkInv' /\ RefsInv'
  BY <1>1, <1>3, <1>5, <1>6 DEF WalkInv, RefsInv, InWalk
<1> QED
  BY <1>1, <1>4, <1>7, ListKept DEF Inv

\* The DIEs that getFunctionName has opened are no DIEs of the search.
LEMMA NameStep ==
  ASSUME Inv, NameOf
  PROVE  Inv'
<1>1. /\ pc = "name" /\ pc' \in {"name", "sizes"}
      /\ UNCHANGED <<job, at, func, walk, params, locals>>
  BY DEF NameOf, cmd, place, lists
<1>2. Cu \in live /\ Func \in live /\ func \in 1 .. N /\ walk = <<>> /\ refs \in Seq(1 .. N)
      /\ job \in Jobs /\ at \in Nat
  BY <1>1 DEF Inv, PlaceInv, WalkInv, RefsInv, Reporting, InWalk
<1> DEFINE Gone == {Ref(d) : d \in ToSet(refs)}
<1>3. \/ refs' = <<>> /\ live' = live \ Gone /\ pc' = "sizes"
      \/ \E spec \in 1 .. N : refs' = Append(refs, spec) /\ live' = live \cup {Ref(spec)} /\ pc' = "name"
  <2> SUFFICES ASSUME ~(refs' = <<>> /\ live' = live \ Gone /\ pc' = "sizes")
               PROVE  \E spec \in 1 .. N : refs' = Append(refs, spec) /\ live' = live \cup {Ref(spec)}
                                        /\ pc' = "name"
    OBVIOUS
  <2>1. /\ Call(Unit.die[NamedDie].spec # NoDie, TRUE)
        /\ refs' = Append(refs, Unit.die[NamedDie].spec)
        /\ live' = live \cup {Ref(Unit.die[NamedDie].spec)}
        /\ pc' = "name"
    BY <1>1 DEF NameOf
  <2>2. Unit.die[NamedDie].spec # NoDie
    BY <2>1 DEF Call
  <2>3. NamedDie \in 1 .. N
    <3>1. CASE refs = <<>>
      BY <3>1, <1>2 DEF NamedDie
    <3>2. CASE refs # <<>>
      <4>1. refs \in Seq(1 .. N) /\ NamedDie = refs[Len(refs)]
        BY <3>2, <1>2 DEF NamedDie, Last
      <4>2. Len(refs) \in Nat /\ Len(refs) > 0
        BY <3>2, <4>1
      <4>3. Len(refs) \in 1 .. Len(refs)
        BY <4>2
      <4> DEFINE D == 1 .. N
      <4> HIDE DEF D
      <4>4. \A r \in Seq(D) : \A i \in 1 .. Len(r) : r[i] \in D
        OBVIOUS
      <4> QED
        BY <4>1, <4>3, <4>4 DEF D
    <3> QED
      BY <3>1, <3>2
  <2>4. Unit.die[NamedDie].spec \in 1 .. N
    BY <2>2, <2>3, <1>2, SpecShape
  <2> QED
    BY <2>1, <2>4
<1>4. Cu' = Cu /\ Func' = Func /\ N' = N
  BY <1>1 DEF Cu, Func, Object, N, Unit
<1>5. Cu \in live' /\ Func \in live'
  BY <1>2, <1>3 DEF Cu, Func, Ref, Object
<1>6. PlaceInv'
  BY <1>1, <1>2, <1>4, <1>5 DEF PlaceInv
<1>7. WalkInv'
  <2>1. WalkOK(<<>>, live', N)
    BY DEF WalkOK
  <2> QED
    BY <1>1, <1>2, <1>4, <2>1 DEF WalkInv, InWalk
<1>8. RefsInv'
  <2>1. CASE refs' = <<>> /\ pc' = "sizes"
    BY <2>1 DEF RefsInv
  <2>2. ASSUME NEW spec \in 1 .. N, refs' = Append(refs, spec), live' = live \cup {Ref(spec)},
               pc' = "name"
        PROVE  RefsInv'
    <3>1. /\ Append(refs, spec) \in Seq(1 .. N)
          /\ Len(Append(refs, spec)) = Len(refs) + 1
          /\ \A i \in 1 .. Len(refs) : Append(refs, spec)[i] = refs[i]
          /\ Append(refs, spec)[Len(refs) + 1] = spec
          /\ Len(refs) \in Nat
      BY <1>2
    <3>2. \A i \in 1 .. Len(refs) : Ref(refs[i]) \in live
      BY DEF Inv, RefsInv
    <3> QED
      BY <2>2, <3>1, <3>2, <1>1, <1>4 DEF RefsInv, Ref, Object
  <2> QED
    BY <1>3, <2>1, <2>2
<1> QED
  BY <1>1, <1>6, <1>7, <1>8, ListKept DEF Inv

LEMMA SizesStep ==
  ASSUME Inv, Sizes
  PROVE  Inv'
<1>1. /\ pc = "sizes" /\ UNCHANGED <<job, at, func, refs, live, params, locals>>
      /\ \/ pc' \in {"search", "finish"} /\ walk' = walk
         \/ pc' = "visit" /\ walk' = <<[die |-> Func, cur |-> Func, level |-> 0]>>
  BY DEF Sizes, cmd, place, naming, lists
<1>2. /\ Cu \in live /\ Func \in live /\ func \in 1 .. N /\ walk = <<>> /\ refs = <<>>
      /\ job \in Jobs /\ at \in Nat
  BY <1>1 DEF Inv, PlaceInv, WalkInv, RefsInv, Reporting, InWalk
<1>3. Cu' = Cu /\ Func' = Func /\ N' = N
  BY <1>1 DEF Cu, Func, Object, N, Unit
<1>4. PlaceInv' /\ RefsInv'
  BY <1>1, <1>2, <1>3 DEF PlaceInv, RefsInv
<1>5. WalkOK(<<>>, live, N)
  BY DEF WalkOK
<1>6. WalkOK(<<[die |-> Func, cur |-> Func, level |-> 0]>>, live, N)
  <2> DEFINE a == [die |-> Func, cur |-> Func, level |-> 0]
  <2>2. N \in Nat
    BY <1>2, UnitShape
  <2>1. /\ Func \in Handles(N) /\ Role(Func) = "func" /\ DieOf(Func) = func
    BY <1>2, <2>2, ObjectShape, RoleShape DEF Func
  <2>3. a \in Activations(N)
    <3> DEFINE H == Handles(N)
    <3> HIDE DEF H
    <3>1. [die |-> Func, cur |-> Func, level |-> 0] \in [die: H, cur: H, level: Int]
      BY <2>1 DEF H
    <3> QED
      BY <3>1 DEF Activations, H
  <2>4. OnOpen(a, live)
    BY <1>2, <2>1, <2>2 DEF OnOpen
  <2> HIDE DEF a
  <2>5. /\ <<a>> \in Seq(Activations(N)) /\ Len(<<a>>) = 1 /\ <<a>>[1] = a
    BY <2>3
  <2>6. WalkOK(<<a>>, live, N)
    BY <2>4, <2>5 DEF WalkOK
  <2> QED
    BY <2>6 DEF a
<1>7. WalkInv'
  <2>1. CASE pc' \in {"search", "finish"} /\ walk' = walk
    BY <2>1, <1>1, <1>2, <1>3, <1>5 DEF WalkInv, InWalk
  <2>2. CASE pc' = "visit" /\ walk' = <<[die |-> Func, cur |-> Func, level |-> 0]>>
    <3>1. Len(walk') > 0
      BY <2>2
    <3> QED
      BY <2>2, <3>1, <1>1, <1>3, <1>6 DEF WalkInv, InWalk
  <2> QED
    BY <1>1, <2>1, <2>2
<1> QED
  BY <1>1, <1>4, <1>7, ListKept DEF Inv

\* The handles of an address are released when the walk is over.
LEMMA FinishStep ==
  ASSUME Inv, Finish
  PROVE  Inv'
<1>1. /\ pc = "finish" /\ pc' = "search"
      /\ UNCHANGED <<job, at, func, refs, walk, params, locals>>
  BY DEF Finish, cmd, place, naming, lists
<1>2. walk = <<>> /\ refs = <<>> /\ job \in Jobs /\ at \in Nat
  BY <1>1 DEF Inv, PlaceInv, WalkInv, RefsInv, InWalk
<1>3. PlaceInv' /\ RefsInv'
  BY <1>1, <1>2 DEF PlaceInv, RefsInv, Reporting
<1>4. WalkOK(<<>>, live', N')
  BY DEF WalkOK
<1>5. WalkInv'
  BY <1>1, <1>2, <1>4 DEF WalkInv, InWalk
<1> QED
  BY <1>1, <1>3, <1>5, ListKept DEF Inv

(***************************************************************************)
(* The steps of the walk.                                                  *)
(***************************************************************************)
\* An activation returns.
LEMMA LeaveStep ==
  ASSUME Inv, Leave, pc \in {"child", "sibling"},
         UNCHANGED <<job, at, func, refs, live, params, locals>>
  PROVE  Inv'
<1>1. /\ Cu \in live /\ Func \in live /\ func \in 1 .. N /\ refs = <<>>
      /\ job \in Jobs /\ at \in Nat
  BY DEF Inv, PlaceInv, RefsInv, Reporting
<1>2. Cu' = Cu /\ Func' = Func /\ N' = N
  BY DEF Cu, Func, Object, N, Unit
<1>3. N \in Nat
  BY <1>1, UnitShape
<1>4. WalkOK(walk, live, N) /\ Len(walk) > 0
  BY DEF Inv, WalkInv, InWalk
<1>5. /\ walk' = Front(walk)
      /\ \/ Len(walk) = 1 /\ pc' = "print"
         \/ Len(walk) # 1 /\ pc' = "sibling"
  BY DEF Leave
<1>6. WalkOK(walk', live, N) /\ Len(walk') = Len(walk) - 1
  BY <1>3, <1>4, <1>5, WalkPopped
<1>7. pc' = "print" => walk' = <<>>
  <2>1. walk' \in Seq(Activations(N))
    BY <1>6 DEF WalkOK
  <2>2. pc' = "print" => Len(walk') = 0
    BY <1>5, <1>6
  <2> QED
    BY <2>1, <2>2
<1>8. pc' = "sibling" => Len(walk') > 0
  <2>1. walk \in Seq(Activations(N))
    BY <1>4 DEF WalkOK
  <2>2. PICK k \in Nat : k = Len(walk)
    BY <2>1
  <2> QED
    BY <2>2, <1>4, <1>5, <1>6
<1>9. pc' \in {"print", "sibling"}
  BY <1>5
<1>10. WalkInv'
  BY <1>2, <1>6, <1>7, <1>8, <1>9 DEF WalkInv, InWalk
<1>11. PlaceInv' /\ RefsInv'
  BY <1>1, <1>2, <1>9 DEF PlaceInv, RefsInv
<1> QED
  BY <1>10, <1>11, ListKept DEF Inv

LEMMA ChildStep ==
  ASSUME Inv, Child
  PROVE  Inv'
<1>1. pc = "child" /\ UNCHANGED <<job, at, func, refs, params, locals>>
  BY DEF Child, cmd, place, naming, lists
<1>2. CASE Leave /\ UNCHANGED live
  BY <1>1, <1>2, LeaveStep
<1>3. CASE pc' = "sibling" /\ UNCHANGED <<walk, live>>
  <2>1. PlaceInv' /\ WalkInv' /\ RefsInv'
    BY <1>1, <1>3, Preserved DEF InWalk, Reporting
  <2> QED
    BY <1>1, <2>1, ListKept DEF Inv
<1>4. ASSUME HasChild(Unit, CurDie),
             NEW h, h = Object("child", FirstChild(CurDie), 0),
             live' = live \cup {h}, Descend(h)
      PROVE  Inv'
  <2>1. /\ Len(walk) > 0 /\ Here = walk[Len(walk)] /\ CurDie = DieOf(walk[Len(walk)].cur)
        /\ CurDie \in 1 .. N /\ at \in Nat
    BY <1>1, CurShape DEF InWalk
  <2>2. job \in Jobs /\ WalkOK(walk, live, N)
    BY DEF Inv, PlaceInv, WalkInv
  <2>3. N \in Nat
    BY <2>2, UnitShape
  <2>4. CurDie + 1 \in 1 .. N
    <3>1. CurDie < Unit.last[CurDie]
      BY <1>4 DEF HasChild
    <3>2. Unit.last[CurDie] \in 1 .. N
      BY <2>1, <2>2, UnitShape
    <3> QED
      BY <2>1, <2>3, <3>1, <3>2
  <2>5. /\ h \in Handles(N) /\ Role(h) = "child"
        /\ DieOf(walk[Len(walk)].cur) < DieOf(h)
    BY <1>4, <2>1, <2>3, <2>4, ObjectShape, RoleShape DEF FirstChild
  <2>6. Cu' = Cu /\ Func' = Func /\ N' = N
    BY <1>1 DEF Cu, Func, Object, N, Unit
  <2>7. PlaceInv' /\ RefsInv'
    <3>1. pc' \in {"visit", "sibling"}
      BY <1>4 DEF Descend
    <3> QED
      BY <1>1, <1>4, <2>6, <3>1 DEF Inv, PlaceInv, RefsInv, Reporting
  <2>8. WalkInv'
    <3>1. CASE pc' = "sibling" /\ walk' = walk
      <4>1. WalkOK(walk, live', N)
        BY <1>4, <2>2, <2>3, WalkKept
      <4> QED
        BY <3>1, <4>1, <2>1, <2>6 DEF WalkInv, InWalk
    <3>2. CASE /\ pc' = "visit"
               /\ walk' = Append([walk EXCEPT ![Len(walk)].level = @ + 1],
                                 [die |-> h, cur |-> h, level |-> Here.level + 1])
      <4>1. Here.level + 1 \in Int
        <5>1. walk \in Seq(Activations(N)) /\ Len(walk) \in Nat
          BY <2>2 DEF WalkOK
        <5>2. Here \in Activations(N)
          BY <2>1, <5>1
        <5>3. Here.level \in Int
          <6> DEFINE H == Handles(N)
          <6>1. Here \in [die: H, cur: H, level: Int]
            BY <5>2 DEF Activations
          <6> HIDE DEF H
          <6> QED
            BY <6>1
        <5> QED
          BY <5>3
      <4>2. walk' = Append([walk EXCEPT ![Len(walk)].level = Here.level + 1],
                           [die |-> h, cur |-> h, level |-> Here.level + 1])
        <5>1. walk \in Seq(Activations(N))
          BY <2>2 DEF WalkOK
        <5>2. [walk EXCEPT ![Len(walk)].level = @ + 1] = [walk EXCEPT ![Len(walk)].level = Here.level + 1]
          BY <2>1
        <5> QED
          BY <3>2, <5>2
      <4>3. WalkOK(walk', live \cup {h}, N) /\ Len(walk') > 0
        BY <2>1, <2>2, <2>3, <2>5, <4>1, <4>2, WalkPushed
      <4> QED
        BY <3>2, <4>3, <1>4, <2>6 DEF WalkInv, InWalk
    <3> QED
      BY <1>4, <3>1, <3>2 DEF Descend
  <2> QED
    BY <1>1, <2>7, <2>8, ListKept DEF Inv
<1>5. \/ Leave /\ UNCHANGED live
      \/ pc' = "sibling" /\ UNCHANGED <<walk, live>>
      \/ HasChild(Unit, CurDie) /\ LET h == Object("child", FirstChild(CurDie), 0)
                                   IN  live' = live \cup {h} /\ Descend(h)
  BY DEF Child
<1> QED
  BY <1>2, <1>3, <1>4, <1>5

LEMMA SiblingStep ==
  ASSUME Inv, NextSibling
  PROVE  Inv'
<1>1. pc = "sibling" /\ UNCHANGED <<job, at, func, refs, params, locals>>
  BY DEF NextSibling, cmd, place, naming, lists
<1>2. CASE Leave /\ UNCHANGED live
  BY <1>1, <1>2, LeaveStep
<1>3. ASSUME HasSibling(Unit, CurDie), NEW h, h = Object("sibling", Sibling(Unit, CurDie), 0), MoveTo(h)
      PROVE  Inv'
  <2>1. /\ Len(walk) > 0 /\ Here = walk[Len(walk)] /\ CurDie = DieOf(walk[Len(walk)].cur)
        /\ CurDie \in 1 .. N /\ at \in Nat
    BY <1>1, CurShape DEF InWalk
  <2>2. job \in Jobs /\ WalkOK(walk, live, N)
    BY DEF Inv, PlaceInv, WalkInv
  <2>3. N \in Nat
    BY <2>2, UnitShape
  <2>4. Unit.last[CurDie] + 1 \in 1 .. N /\ CurDie < Unit.last[CurDie] + 1
    <3>1. /\ Unit.parent[CurDie] # NoDie
          /\ Unit.last[CurDie] < Unit.last[Unit.parent[CurDie]]
      BY <1>3 DEF HasSibling
    <3>2. /\ Unit.last[CurDie] \in 1 .. N /\ CurDie <= Unit.last[CurDie]
          /\ Unit.parent[CurDie] \in 0 .. N
      BY <2>1, <2>2, UnitShape
    <3>3. Unit.last[Unit.parent[CurDie]] \in 1 .. N
      <4>1. Unit.parent[CurDie] \in 1 .. N
        BY <2>3, <3>1, <3>2 DEF NoDie
      <4> QED
        BY <2>2, <4>1, UnitShape
    <3> QED
      BY <2>1, <2>3, <3>1, <3>2, <3>3
  <2>5. /\ h \in Handles(N) /\ Role(h) = "sibling"
        /\ DieOf(walk[Len(walk)].cur) < DieOf(h)
    BY <1>3, <2>1, <2>3, <2>4, ObjectShape, RoleShape DEF Sibling
  <2> DEFINE gone == IF Here.cur # Here.die THEN {Here.cur} ELSE {}
  <2>6. /\ walk' = [walk EXCEPT ![Len(walk)].cur = h]
        /\ live' = (live \cup {h}) \ gone
        /\ pc' = "visit"
    BY <1>3 DEF MoveTo
  <2>7. /\ gone \subseteq {walk[Len(walk)].cur}
        /\ walk[Len(walk)].cur = walk[Len(walk)].die => gone = {}
    BY <2>1
  <2> HIDE DEF gone
  <2>8. /\ WalkOK(walk', live', N) /\ Len(walk') = Len(walk)
        /\ \A o \in gone : Role(o) = "sibling"
    BY <2>1, <2>2, <2>3, <2>5, <2>6, <2>7, WalkMoved
  <2>9. Cu' = Cu /\ Func' = Func /\ N' = N
    BY <1>1 DEF Cu, Func, Object, N, Unit
  <2>10. WalkInv'
    BY <2>1, <2>6, <2>8, <2>9 DEF WalkInv, InWalk
  <2>11. Role(Cu) = "cu" /\ Role(Func) = "func"
    BY DEF Cu, Func, Object, Role
  <2>12. PlaceInv' /\ RefsInv'
    BY <1>1, <2>6, <2>8, <2>9, <2>11 DEF Inv, PlaceInv, RefsInv, Reporting
  <2> QED
    BY <1>1, <2>10, <2>12, ListKept DEF Inv
<1>4. \/ Leave /\ UNCHANGED live
      \/ HasSibling(Unit, CurDie) /\ MoveTo(Object("sibling", Sibling(Unit, CurDie), 0))
  BY DEF NextSibling
<1> QED
  BY <1>2, <1>3, <1>4

(***************************************************************************)
(* The loading of a variable, and its destruction: what is deallocated     *)
(* belongs to a DwarfVar or a DwarfType.                                   *)
(***************************************************************************)
LEMMA TypeRole == \A k : Role(Type(k)) = "type"
  BY DEF Type, Object, Role

LEMMA ChainRole == \A k : \A o \in Chain(k) : Role(o) = "type"
  BY TypeRole DEF Chain

LEMMA LoadStep ==
  ASSUME Inv,
         Visit \/ LoadVar \/ LoadType \/ TypeReturns \/ DropVar
  PROVE  Inv'
<1>1. UNCHANGED <<job, at, func, refs, walk, params, locals>>
  BY DEF Visit, LoadVar, LoadType, TypeReturns, DropVar, cmd, place, naming, lists
<1>2. pc \in InWalk /\ pc' \in InWalk \cup {"undefined"}
  BY DEF Visit, LoadVar, LoadType, TypeReturns, DropVar, InWalk
<1>3. \A h \in live : Role(h) \in {"cu", "func", "child", "sibling"} => h \in live'
  <2>1. CASE Visit
    BY <2>1 DEF Visit
  <2>2. CASE LoadVar
    BY <2>2 DEF LoadVar, TagLoad
  <2>3. CASE LoadType
    BY <2>3 DEF LoadType, TagLoad
  <2>4. CASE TypeReturns
    <3>1. live' = live \/ live' = live \ Chain(Len(types))
      BY <2>4 DEF TypeReturns, TypeFails
    <3> QED
      BY <3>1, ChainRole
  <2>5. CASE DropVar
    <3>1. Role(Var) = "var"
      BY DEF Var, Object, Role
    <3> QED
      BY <2>5, <3>1 DEF DropVar
  <2> QED
    BY <2>1, <2>2, <2>3, <2>4, <2>5
<1>4. PlaceInv' /\ WalkInv' /\ RefsInv'
  BY <1>1, <1>2, <1>3, Preserved DEF InWalk, Reporting
<1> QED
  BY <1>1, <1>4, ListKept DEF Inv

\* The variable goes into a list.
LEMMA LocationStep ==
  ASSUME Inv, LoadLocation
  PROVE  Inv'
<1>1. /\ pc = "location" /\ pc' = "child"
      /\ UNCHANGED <<job, at, func, refs, walk, live>>
      /\ \/ params' = Append(params, Var) /\ locals' = locals
         \/ locals' = Append(locals, Var) /\ params' = params
  BY DEF LoadLocation, cmd, place, naming
<1>2. PlaceInv' /\ WalkInv' /\ RefsInv'
  BY <1>1, Preserved DEF InWalk, Reporting
<1>3. /\ CurDie \in 1 .. N /\ at \in Nat /\ N \in Nat
  BY <1>1, CurShape, UnitShape DEF InWalk, Inv, PlaceInv
<1>4. Var \in Handles(N) /\ Role(Var) = "var"
  <2>1. "var" \in Roles
    BY DEF Roles
  <2> QED
    BY <1>3, <2>1, ObjectShape DEF Var
<1>5. \A list \in Seq(Handles(N)) :
        (\A i \in 1 .. Len(list) : Role(list[i]) = "var") =>
          /\ Append(list, Var) \in Seq(Handles(N))
          /\ \A i \in 1 .. Len(Append(list, Var)) : Role(Append(list, Var)[i]) = "var"
  <2> DEFINE H == Handles(N)
             v == Var
  <2>1. v \in H /\ Role(v) = "var"
    BY <1>4
  <2> HIDE DEF H, v
  <2>2. \A list \in Seq(H) :
          (\A i \in 1 .. Len(list) : Role(list[i]) = "var") =>
            /\ Append(list, v) \in Seq(H)
            /\ \A i \in 1 .. Len(Append(list, v)) : Role(Append(list, v)[i]) = "var"
    <3> SUFFICES ASSUME NEW list \in Seq(H), \A i \in 1 .. Len(list) : Role(list[i]) = "var"
                 PROVE  /\ Append(list, v) \in Seq(H)
                        /\ \A i \in 1 .. Len(Append(list, v)) : Role(Append(list, v)[i]) = "var"
      OBVIOUS
    <3>1. /\ Append(list, v) \in Seq(H) /\ Len(Append(list, v)) = Len(list) + 1 /\ Len(list) \in Nat
          /\ \A i \in 1 .. Len(list) : Append(list, v)[i] = list[i]
          /\ Append(list, v)[Len(list) + 1] = v
      BY <2>1
    <3> QED
      BY <2>1, <3>1
  <2> QED
    BY <2>2 DEF H, v
<1>6. N' = N
  BY <1>1 DEF N, Unit
<1>7. ListInv'
  BY <1>1, <1>5, <1>6 DEF Inv, ListInv
<1> QED
  BY <1>2, <1>7 DEF Inv

LEMMA OwnedRole ==
  ASSUME NEW v, Role(v) = "var"
  PROVE  \A o \in Owned(v) : Role(o) \in {"var", "type", "location"}
  BY DEF Owned, Role

LEMMA ListTail ==
  ASSUME NEW n, NEW list \in Seq(Handles(n)), list # <<>>,
         \A i \in 1 .. Len(list) : Role(list[i]) = "var"
  PROVE  /\ Role(Head(list)) = "var"
         /\ Tail(list) \in Seq(Handles(n))
         /\ \A i \in 1 .. Len(Tail(list)) : Role(Tail(list)[i]) = "var"
<1> DEFINE H == Handles(n)
<1> HIDE DEF H
<1>1. list \in Seq(H)
  BY DEF H
<1>2. /\ Tail(list) \in Seq(H) /\ Len(Tail(list)) = Len(list) - 1
      /\ \A i \in 1 .. Len(Tail(list)) : Tail(list)[i] = list[i + 1]
  BY <1>1, HeadTailProperties
<1>3. Len(list) \in Nat /\ Len(list) > 0 /\ Head(list) = list[1]
  BY <1>1
<1>4. \A i \in 1 .. Len(Tail(list)) : i + 1 \in 1 .. Len(list)
  BY <1>2, <1>3
<1> QED
  BY <1>2, <1>3, <1>4 DEF H

LEMMA PrintStep ==
  ASSUME Inv, PrintParam \/ PrintLocal
  PROVE  Inv'
<1>1. pc = "print" /\ UNCHANGED <<job, at, func, refs, walk, pc>>
  BY DEF PrintParam, PrintLocal, PrintVar, cmd, place, naming
<1>2. \E v : /\ Role(v) = "var" /\ live' = live \ Owned(v)
  <2>1. CASE PrintParam
    <3>1. Role(Head(params)) = "var"
      BY <2>1, ListTail DEF PrintParam, Inv, ListInv
    <3> QED
      BY <2>1, <3>1 DEF PrintParam, PrintVar
  <2>2. CASE PrintLocal
    <3>1. Role(Head(locals)) = "var"
      BY <2>2, ListTail DEF PrintLocal, Inv, ListInv
    <3> QED
      BY <2>2, <3>1 DEF PrintLocal, PrintVar
  <2> QED
    BY <2>1, <2>2
<1>3. \A h \in live : Role(h) \in {"cu", "func", "child", "sibling"} => h \in live'
  BY <1>2, OwnedRole
<1>4. PlaceInv' /\ WalkInv' /\ RefsInv'
  BY <1>1, <1>3, Preserved DEF InWalk, Reporting
<1>5. N' = N
  BY <1>1 DEF N, Unit
<1>6. ListInv'
  <2>1. CASE PrintParam
    <3>1. params # <<>> /\ params' = Tail(params) /\ locals' = locals
      BY <2>1 DEF PrintParam
    <3> QED
      BY <3>1, <1>5, ListTail DEF Inv, ListInv
  <2>2. CASE PrintLocal
    <3>1. locals # <<>> /\ locals' = Tail(locals) /\ params' = params
      BY <2>2 DEF PrintLocal
    <3> QED
      BY <3>1, <1>5, ListTail DEF Inv, ListInv
  <2> QED
    BY <2>1, <2>2
<1> QED
  BY <1>4, <1>6 DEF Inv

-----------------------------------------------------------------------------
LEMMA Stutter ==
  ASSUME Inv, UNCHANGED vars
  PROVE  Inv'
<1>1. UNCHANGED <<job, pc, at, func, refs, walk, live, params, locals>>
  BY DEF vars, cmd, place, naming, lists
<1>2. Cu' = Cu /\ Func' = Func /\ N' = N
  BY <1>1 DEF Cu, Func, Object, N, Unit
<1>3. PlaceInv'
  BY <1>1, <1>2 DEF Inv, PlaceInv, Reporting
<1>4. WalkInv'
  BY <1>1, <1>2 DEF Inv, WalkInv
<1>5. RefsInv'
  BY <1>1, <1>2 DEF Inv, RefsInv, Ref, Object
<1> QED
  BY <1>1, <1>3, <1>4, <1>5, ListKept DEF Inv

LEMMA NextInv ==
  ASSUME Inv, [SceneNext]_sceneVars
  PROVE  Inv'
<1>1. CASE UNCHANGED sceneVars
  BY <1>1, Stutter DEF sceneVars
<1>2. CASE File
  BY <1>2, Stutter DEF File
<1>3. CASE Serve
  BY <1>3, QuietStep DEF Serve
<1>4. CASE Abort
  <2>1. /\ UNCHANGED <<job, at, func, refs, walk, live, params, locals>>
        /\ pc = "context" /\ pc' = "aborted"
    BY <1>4 DEF Abort, cmd, place, naming, lists
  <2>2. PlaceInv' /\ WalkInv' /\ RefsInv'
    BY <2>1, Preserved DEF InWalk, Reporting
  <2> QED
    BY <2>1, <2>2, ListKept DEF Inv
<1>5. CASE Main
  <2>1. Step
    BY <1>5 DEF Main
  <2>2. \/ ParseOption \/ ParseAddress \/ Help \/ EndOfArgs \/ Open \/ EndOfAddresses \/ EndOfVars
        \/ Search \/ NameOf \/ Sizes \/ Finish
        \/ Child \/ NextSibling
        \/ Visit \/ LoadVar \/ LoadType \/ TypeReturns \/ DropVar
        \/ LoadLocation \/ PrintParam \/ PrintLocal \/ PrintOutside
    BY <2>1 DEF Step
  <2> QED
    BY <2>2, QuietStep, OutsideStep, SearchStep, NameStep, SizesStep, FinishStep, ChildStep, SiblingStep,
       LoadStep, LocationStep, PrintStep
<1> QED
  BY <1>1, <1>2, <1>3, <1>4, <1>5 DEF SceneNext

LEMMA InvHandles == Inv => HandlesLive
<1> SUFFICES ASSUME Inv PROVE HandlesLive
  OBVIOUS
<1>1. Reporting => {Cu, Func} \subseteq live
  BY DEF Inv, PlaceInv
<1>2. \A i \in DOMAIN walk : {walk[i].die, walk[i].cur} \subseteq live
  <2>1. walk \in Seq(Activations(N)) /\ \A i \in 1 .. Len(walk) : OnOpen(walk[i], live)
    BY DEF Inv, WalkInv, WalkOK
  <2>2. DOMAIN walk = 1 .. Len(walk)
    BY <2>1
  <2> QED
    BY <2>1, <2>2 DEF OnOpen
<1>3. {Ref(d) : d \in ToSet(refs)} \subseteq live
  <2>1. DOMAIN refs = 1 .. Len(refs)
    BY DEF Inv, RefsInv
  <2> QED
    BY <2>1 DEF Inv, RefsInv, ToSet
<1> QED
  BY <1>1, <1>2, <1>3 DEF HandlesLive

\* No handle that has been deallocated is used by the report: HandlesLive holds
\* of dwarf2line with a context file of any content.
THEOREM ReportHandles == SceneSpec => []HandlesLive
<1>1. Inv /\ [SceneNext]_sceneVars => Inv'
  BY NextInv
<1> QED
  BY <1>1, InitInv, InvHandles, PTL DEF SceneSpec

-----------------------------------------------------------------------------
(***************************************************************************)
(* The objects of the address in work.                                     *)
(***************************************************************************)
VarAt(d) == Object("var", d, 0)
TypeAt(d, k) == Object("type", d, k)
LocationAt(d) == Object("location", d, 0)

NTypes == Len(Unit.types)

Elements(l) == {l[i] : i \in 1 .. Len(l)}

Vectors == Elements(params) \cup Elements(locals)

Loading == {"load", "type", "typed", "location", "drop"}

Typing == {"type", "typed", "location"}

\* The objects on the heap are those of this address, and of frame bases.
OnHeap(o) ==
  \/ Role(o) = "frame base"
  \/ \E d \in 1 .. N : o = VarAt(d) \/ o = LocationAt(d) \/ \E k \in 1 .. NTypes : o = TypeAt(d, k)

Linked(o) == \E d \in 1 .. N, k \in 1 .. NTypes : o = TypeAt(d, k) /\ TypeAt(d, k + 1) \in heap

HeapShape ==
  /\ \A o \in heap : OnHeap(o)
  /\ linked \subseteq heap
  /\ \A o \in linked : Linked(o)

\* A list l of variables of the address a, on the heap h: in the order of their
\* offsets, in a unit of n DIEs.
ListOrder(l, h, a, n) ==
  /\ \A i \in 1 .. Len(l) : /\ l[i] \in h /\ DieOf(l[i]) \in 1 .. n
                            /\ l[i] = <<a, "var", DieOf(l[i]), 0>>
  /\ \A i, j \in 1 .. Len(l) : i < j => DieOf(l[i]) < DieOf(l[j])

\* A DIE is in the list of its kind.
Lists ==
  /\ ListOrder(params, heap, at, N) /\ ListOrder(locals, heap, at, N)
  /\ \A i \in 1 .. Len(params) : Unit.die[DieOf(params[i])].tag = "parameter"
  /\ \A i \in 1 .. Len(locals) : Unit.die[DieOf(locals[i])].tag # "parameter"
  /\ pc \notin InWalk \cup {"print", "undefined"} => params = <<>> /\ locals = <<>>

\* The variables in the lists lie behind the walk.
Behind ==
  \A v \in Vectors :
    /\ pc \in {"visit"} \cup Loading => DieOf(v) < CurDie
    /\ pc = "child" => DieOf(v) <= CurDie
    /\ pc = "sibling" => DieOf(v) <= Unit.last[CurDie]

\* An activation of the walk stands among the children of the DIE the one that
\* called it stands at.
WalkNested ==
  \A i \in 1 .. (Len(walk) - 1) : Unit.parent[DieOf(walk[i + 1].cur)] = DieOf(walk[i].cur)

\* Every variable is in a list or is being loaded, and what belongs to it is
\* on the heap no longer than it is.
Belonging ==
  /\ pc \in Loading => Var \in heap
  /\ \A d \in 1 .. N :
       /\ VarAt(d) \in heap => VarAt(d) \in Vectors \/ (pc \in Loading /\ d = CurDie)
       /\ LocationAt(d) \in heap => VarAt(d) \in Vectors
       /\ \A k \in 1 .. NTypes : TypeAt(d, k) \in heap =>
            IF VarAt(d) \in Vectors THEN \A j \in 1 .. (k - 1) : TypeAt(d, j) \in linked
            ELSE pc \in Typing /\ d = CurDie

\* The types of the variable that is being loaded: the loads that are running
\* hold the first ones, each of the others hangs from the one before.
Top == IF pc = "location" THEN 1 ELSE Len(types)

Running ==
  /\ types \in Seq(1 .. NTypes)
  /\ \A j \in 1 .. Len(types) : types[j] + j <= NTypes + 1
  /\ pc \in {"type", "typed"} => Len(types) > 0
  /\ pc \in Typing =>
       /\ \A j \in 1 .. Top : Type(j) \in heap
       /\ \A k \in 1 .. NTypes : Type(k) \in heap => \A j \in Top .. (k - 1) : Type(j) \in linked
       /\ \A j \in 1 .. NTypes : Type(j) \in linked => Top <= j /\ (pc = "location" \/ (pc = "typed" /\ ret))
       /\ pc = "location" => Len(types) = 0

OwnInv ==
  /\ HeapShape /\ Lists
  /\ pc # "undefined" => Behind /\ WalkNested /\ Belonging /\ Running

(***************************************************************************)
(* The handles that are open.                                              *)
(***************************************************************************)
OpenHandle(h) ==
  \/ Role(h) = "child"
  \/ Role(h) = "sibling" /\ (\/ job.libFails \/ ~HasSibling(Unit, DieOf(h))
                             \/ \E i \in 1 .. Len(walk) : h = walk[i].cur)
  \/ Role(h) \in {"cu", "func"} /\ (\/ job.libFails \/ pc = "undefined"
                                    \/ Reporting /\ h \in {Cu, Func})
  \/ Role(h) \in {"var", "type"} /\ h \in heap
  \/ pc = "name" /\ \E i \in 1 .. Len(refs) : h = Ref(refs[i])

OpenInv == \A h \in live : OpenHandle(h)

-----------------------------------------------------------------------------
\* Objects of different roles, DIEs or positions differ.
LEMMA Objects ==
  /\ \A d : Role(VarAt(d)) = "var" /\ DieOf(VarAt(d)) = d
  /\ \A d : Role(LocationAt(d)) = "location" /\ DieOf(LocationAt(d)) = d
  /\ \A d, k : Role(TypeAt(d, k)) = "type" /\ DieOf(TypeAt(d, k)) = d
  /\ \A d, k, j : TypeAt(d, k) = TypeAt(d, j) => k = j
  /\ Var = VarAt(CurDie) /\ Object("location", CurDie, 0) = LocationAt(CurDie)
  /\ \A k : Type(k) = TypeAt(CurDie, k)
BY DEF VarAt, LocationAt, TypeAt, Object, Role, DieOf, Var, Type

\* Nothing of the unit or of the names of objects changes within an address.
LEMMA Same ==
  ASSUME UNCHANGED <<job, at>>
  PROVE  /\ Unit' = Unit /\ N' = N /\ NTypes' = NTypes
         /\ \A d : VarAt(d)' = VarAt(d) /\ LocationAt(d)' = LocationAt(d)
         /\ \A d, k : TypeAt(d, k)' = TypeAt(d, k)
BY DEF Unit, N, NTypes, VarAt, LocationAt, TypeAt, Object

LEMMA SameObjects ==
  ASSUME UNCHANGED <<job, at>>
  PROVE  /\ \A o : OnHeap(o) => OnHeap(o)'
         /\ heap \subseteq heap' => \A o : Linked(o) => Linked(o)'
<1>1. ASSUME NEW o, OnHeap(o) PROVE OnHeap(o)'
  <2>1. CASE Role(o) = "frame base"
    BY <2>1 DEF OnHeap
  <2>2. ASSUME NEW d \in 1 .. N, o = VarAt(d) PROVE OnHeap(o)'
    BY <2>2, Same DEF OnHeap
  <2>3. ASSUME NEW d \in 1 .. N, o = LocationAt(d) PROVE OnHeap(o)'
    BY <2>3, Same DEF OnHeap
  <2>4. ASSUME NEW d \in 1 .. N, NEW k \in 1 .. NTypes, o = TypeAt(d, k) PROVE OnHeap(o)'
    BY <2>4, Same DEF OnHeap
  <2> QED
    BY <1>1, <2>1, <2>2, <2>3, <2>4 DEF OnHeap
<1>2. ASSUME heap \subseteq heap', NEW o, Linked(o) PROVE Linked(o)'
  <2>1. PICK d \in 1 .. N, k \in 1 .. NTypes : o = TypeAt(d, k) /\ TypeAt(d, k + 1) \in heap
    BY <1>2, Zenon DEF Linked
  <2>2. o = TypeAt(d, k)' /\ TypeAt(d, k + 1)' \in heap'
    BY <1>2, <2>1, Same
  <2> QED
    BY <2>1, <2>2, Same DEF Linked
<1> QED
  BY <1>1, <1>2

\* Subtrees nest: the children of a DIE lie in its subtree, and the sibling of
\* a DIE has its parent.
LEMMA SubtreeShape ==
  ASSUME job \in Jobs, NEW d \in 1 .. N, Unit.parent[d] # NoDie
  PROVE  /\ Unit.parent[d] \in 1 .. N /\ Unit.parent[d] < d
         /\ d <= Unit.last[Unit.parent[d]] /\ Unit.last[d] <= Unit.last[Unit.parent[d]]
<1>1. Shape(Unit) /\ N = Size(Unit) /\ N \in Nat
  BY ReportAssumption, UnitShape DEF Unit, WellFormedUnit, N, Size
<1>2. Unit.parent[d] \in 0 .. N /\ Unit.parent[d] < d /\ d <= Unit.last[Unit.parent[d]]
  BY <1>1 DEF Shape, Dies
<1>3. Unit.parent[d] \in 1 .. N
  BY <1>1, <1>2 DEF NoDie
<1>4. Unit.last[d] <= Unit.last[Unit.parent[d]]
  BY <1>1, <1>2, <1>3 DEF Shape, Dies
<1> QED
  BY <1>2, <1>3, <1>4

LEMMA FirstChildShape ==
  ASSUME job \in Jobs, NEW d \in 1 .. N, HasChild(Unit, d)
  PROVE  FirstChild(d) \in 1 .. N /\ Unit.parent[FirstChild(d)] = d /\ FirstChild(d) = d + 1
<1>1. Shape(Unit) /\ N = Size(Unit) /\ N \in Nat
  BY ReportAssumption, UnitShape DEF Unit, WellFormedUnit, N, Size
<1>2. Unit.last[d] \in 1 .. N /\ d < Unit.last[d]
  BY UnitShape DEF HasChild
<1>3. d + 1 \in 1 .. N /\ d + 1 <= Unit.last[d]
  BY <1>1, <1>2
<1>4. Unit.parent[d + 1] # NoDie /\ d <= Unit.parent[d + 1]
  BY <1>1, <1>3 DEF Shape, Dies
<1>5. Unit.parent[d + 1] < d + 1 /\ Unit.parent[d + 1] \in 0 .. N
  BY <1>1, <1>3 DEF Shape, Dies
<1> QED
  BY <1>1, <1>3, <1>4, <1>5 DEF FirstChild

LEMMA NextSiblingShape ==
  ASSUME job \in Jobs, NEW d \in 1 .. N, HasSibling(Unit, d)
  PROVE  /\ Sibling(Unit, d) \in 1 .. N /\ Sibling(Unit, d) = Unit.last[d] + 1
         /\ Unit.parent[Sibling(Unit, d)] = Unit.parent[d]
<1> DEFINE s == Unit.last[d] + 1
           p == Unit.parent[d]
           q == Unit.parent[s]
<1>1. Shape(Unit) /\ N = Size(Unit) /\ N \in Nat
  BY ReportAssumption, UnitShape DEF Unit, WellFormedUnit, N, Size
<1>2. p # NoDie /\ Unit.last[d] < Unit.last[p]
  BY DEF HasSibling
<1>3. p \in 1 .. N /\ p < d /\ d <= Unit.last[p] /\ Unit.last[p] \in 1 .. N
  BY <1>2, SubtreeShape, UnitShape
<1>4. Unit.last[d] \in 1 .. N /\ d <= Unit.last[d]
  BY UnitShape
<1>5. s \in 1 .. N /\ d < s /\ s <= Unit.last[p] /\ p < s
  BY <1>1, <1>2, <1>3, <1>4
<1>6. q # NoDie /\ p <= q
  BY <1>1, <1>3, <1>5 DEF Shape, Dies
<1>7. q \in 1 .. N /\ q < s /\ s <= Unit.last[q] /\ Unit.last[s] <= Unit.last[q] /\ Unit.last[q] \in 1 .. N
  BY <1>5, <1>6, SubtreeShape, UnitShape
<1>8. q < d
  <2>1. SUFFICES ASSUME d <= q PROVE FALSE
    BY <1>1, <1>7
  <2>2. CASE q = d
    BY <1>1, <1>4, <1>5, <1>7, <2>2
  <2>3. CASE d < q
    <3>1. q <= Unit.last[d]
      BY <1>1, <1>4, <1>5, <1>7
    <3>2. Unit.last[q] <= Unit.last[d]
      BY <1>1, <1>7, <2>3, <3>1 DEF Shape, Dies
    <3> QED
      BY <1>1, <1>4, <1>5, <1>7, <3>2
  <2> QED
    BY <1>1, <1>7, <2>1, <2>2, <2>3
<1>9. d <= Unit.last[q]
  BY <1>1, <1>4, <1>5, <1>7
<1>10. q <= p
  BY <1>1, <1>7, <1>8, <1>9 DEF Shape, Dies
<1>11. q = p
  BY <1>1, <1>3, <1>6, <1>7, <1>10
<1> QED
  BY <1>5, <1>11 DEF Sibling

LEMMA TypesShape ==
  ASSUME job \in Jobs
  PROVE  /\ NTypes \in Nat
         /\ \A d \in 1 .. N : Unit.die[d].type \in 0 .. NTypes
         /\ \A k \in 1 .. NTypes : Unit.types[k].base \in 0 .. NTypes /\ Unit.types[k].base < k
<1> DEFINE Loc == [form: {"none", "block", "exprloc", "data", "sec_offset", "loclistx", "other"},
                   result: {"invalid", "value", "address"}, addr: Unsigned]
           S == Dies(Unit) \cup {NoDie}
           T == 0 .. NTypes
           Names == SUBSET {"linkage", "MIPS", "HP", "name"}
           Tags == {"cu", "function", "parameter", "variable", "other"}
           D == [tag: Tags, names: Names, spec: S, type: T, loc: Loc]
           TypeTags == {"base", "enumeration", "structure", "class", "typedef", "const", "pointer", "other"}
           A == Attribute
           K == [tag: TypeTags, base: T, bits: A, bytes: A]
<1>1. WellFormedUnit(Unit)
  BY ReportAssumption DEF Unit
<1>2. Unit.die \in Seq(D) /\ Unit.types \in Seq(K)
  BY <1>1 DEF WellFormedUnit, NTypes
<1>3. NTypes \in Nat
  <2> HIDE DEF K
  <2> QED
    BY <1>2 DEF NTypes
<1>4. ASSUME NEW d \in 1 .. N PROVE Unit.die[d].type \in T
  <2>1. Unit.die[d] \in D
    <3> HIDE DEF D
    <3> QED
      BY <1>2 DEF N
  <2> HIDE DEF Loc, S, T, Names, Tags
  <2> QED
    BY <2>1
<1>5. ASSUME NEW k \in 1 .. NTypes PROVE Unit.types[k].base \in T /\ Unit.types[k].base < k
  <2>1. Unit.types[k] \in K
    <3> HIDE DEF K
    <3> QED
      BY <1>2 DEF NTypes
  <2>2. Unit.types[k].base \in T
    <3> HIDE DEF T, TypeTags, A
    <3> QED
      BY <2>1
  <2> QED
    BY <1>1, <2>2 DEF WellFormedUnit, NTypes
<1> QED
  BY <1>3, <1>4, <1>5

(***************************************************************************)
(* Before the walk and behind the printing nothing but frame bases is on   *)
(* the heap.                                                               *)
(***************************************************************************)
LEMMA Empty == \A i \in 1 .. Len(<<>>) : FALSE
OBVIOUS

LEMMA NoPairs == \A n : n = 1 => \A i \in 1 .. (n - 1) : FALSE
OBVIOUS

LEMMA LastIndex == \A k \in Nat : k > 0 /\ k # 1 => k - 1 \in 1 .. (k - 1) /\ k - 1 \in 1 .. k /\ (k - 1) + 1 = k
OBVIOUS

LEMMA RestHeap ==
  ASSUME Inv, OwnInv, pc # "undefined", pc \notin InWalk, params = <<>>, locals = <<>>
  PROVE  /\ Vectors = {} /\ linked = {}
         /\ \A o \in heap : Role(o) = "frame base"
<1>1. Vectors = {}
  BY Empty DEF Vectors, Elements
<1>2. Belonging /\ HeapShape
  BY DEF OwnInv
<1>3. pc \notin Loading /\ pc \notin Typing
  BY DEF Loading, Typing, InWalk
<1>4. \A o \in heap : Role(o) = "frame base"
  <2> SUFFICES ASSUME NEW o \in heap, Role(o) # "frame base" PROVE FALSE
    OBVIOUS
  <2>1. PICK d \in 1 .. N : o = VarAt(d) \/ o = LocationAt(d) \/ \E k \in 1 .. NTypes : o = TypeAt(d, k)
    BY <1>2 DEF HeapShape, OnHeap
  <2> QED
    BY <1>1, <1>2, <1>3, <2>1 DEF Belonging
<1>5. linked = {}
  <2> SUFFICES ASSUME NEW o \in linked PROVE FALSE
    OBVIOUS
  <2>1. o \in heap
    BY <1>2 DEF HeapShape
  <2>2. Role(o) = "type"
    <3>1. PICK d \in 1 .. N, k \in 1 .. NTypes : o = TypeAt(d, k) /\ TypeAt(d, k + 1) \in heap
      BY <1>2, Zenon DEF HeapShape, Linked
    <3> QED
      BY <3>1, Objects
  <2> QED
    BY <1>4, <2>1, <2>2
<1> QED
  BY <1>1, <1>4, <1>5

\* A heap of frame bases, and empty vectors.
AtRest ==
  /\ params = <<>> /\ locals = <<>> /\ linked = {}
  /\ \A o \in heap : Role(o) = "frame base"
  /\ WalkNested /\ Running /\ pc \notin Loading

LEMMA AtRestInv == AtRest => OwnInv
<1> SUFFICES ASSUME AtRest PROVE OwnInv
  OBVIOUS
<1>1. Vectors = {}
  BY Empty DEF Vectors, Elements, AtRest
<1>2. HeapShape
  BY DEF HeapShape, OnHeap, AtRest
<1>3. Lists
  <2>1. ListOrder(<<>>, heap, at, N)
    BY Empty DEF ListOrder
  <2> QED
    BY <2>1, Empty DEF Lists, AtRest
<1>4. Behind
  BY <1>1 DEF Behind
<1>5. Belonging
  <2>1. \A d : VarAt(d) \notin heap /\ LocationAt(d) \notin heap
    BY Objects DEF AtRest
  <2>2. \A d, k : TypeAt(d, k) \notin heap
    BY Objects DEF AtRest
  <2> QED
    BY <2>1, <2>2 DEF Belonging, AtRest
<1> QED
  BY <1>2, <1>3, <1>4, <1>5 DEF OwnInv, AtRest

LEMMA RestStep ==
  ASSUME Inv, OwnInv, pc # "undefined", pc \notin InWalk, params = <<>>, locals = <<>>,
         UNCHANGED <<job, types, linked, params, locals>>,
         \A o \in heap' : o \in heap \/ Role(o) = "frame base",
         walk' = walk \/ (Len(walk') = 1),
         pc' \notin Loading
  PROVE  OwnInv'
<1>1. linked = {} /\ \A o \in heap : Role(o) = "frame base"
  BY RestHeap
<1>2. Running /\ WalkNested
  BY DEF OwnInv
<1>3. NTypes' = NTypes /\ Unit' = Unit
  BY DEF NTypes, Unit
<1>4. Running'
  BY <1>2, <1>3 DEF Running, Typing, Loading
<1>5. WalkNested'
  <2>1. CASE walk' = walk
    BY <1>2, <1>3, <2>1 DEF WalkNested
  <2>2. CASE Len(walk') = 1
    BY <2>2, NoPairs DEF WalkNested
  <2> QED
    BY <2>1, <2>2
<1>6. AtRest'
  BY <1>1, <1>4, <1>5 DEF AtRest
<1> QED
  BY <1>6, AtRestInv, PTL


(***************************************************************************)
(* The steps of the walk.                                                  *)
(***************************************************************************)
\* The activations of the walk, and the DIE under it.
LEMMA WalkShape ==
  ASSUME Inv, pc \in InWalk
  PROVE  /\ job \in Jobs /\ N \in Nat /\ Len(walk) \in Nat /\ Len(walk) > 0
         /\ walk \in Seq(Activations(N))
         /\ CurDie = DieOf(walk[Len(walk)].cur) /\ CurDie \in 1 .. N
         /\ \A i \in 1 .. Len(walk) : DieOf(walk[i].cur) \in 1 .. N
<1>1. job \in Jobs /\ walk \in Seq(Activations(N))
  BY DEF Inv, PlaceInv, WalkInv, WalkOK
<1>2. N \in Nat
  BY <1>1, UnitShape
<1>3. Len(walk) \in Nat
  BY <1>1
<1> QED
  BY <1>1, <1>2, <1>3, CurShape, ActivationShape

\* Nothing is loaded or deleted as the walk moves.
LEMMA WalkStep ==
  ASSUME Inv, OwnInv, pc \in {"visit", "child", "sibling"}, pc' \in {"visit", "child", "sibling", "print"},
         UNCHANGED <<job, at, heap, linked, types, params, locals>>, WalkNested', Behind'
  PROVE  OwnInv'
<1>1. /\ HeapShape /\ Lists /\ Belonging /\ Running
      /\ pc \notin Loading /\ pc \notin Typing /\ pc' \notin Loading /\ pc' \notin Typing
      /\ pc' \notin {"type", "typed"} /\ pc' \in InWalk \cup {"print", "undefined"}
  BY DEF OwnInv, Loading, Typing, InWalk
<1>2. Unit' = Unit /\ N' = N /\ NTypes' = NTypes /\ Vectors' = Vectors
  BY DEF Unit, N, NTypes, Vectors
<1>3. HeapShape'
  BY <1>1, SameObjects DEF HeapShape
<1>4. Lists'
  BY <1>1, <1>2 DEF Lists, ListOrder
<1>5. Belonging'
  BY <1>1, <1>2 DEF Belonging, VarAt, LocationAt, TypeAt, Object
<1>6. Running'
  BY <1>1, <1>2 DEF Running
<1> QED
  BY <1>3, <1>4, <1>5, <1>6 DEF OwnInv


\* The handles an activation stands at, as the walk returns, descends and moves.
LEMMA FrontCurs ==
  ASSUME NEW w, NEW n \in Nat, w \in Seq(Activations(n)), Len(w) > 0
  PROVE  /\ Front(w) \in Seq(Activations(n)) /\ Len(Front(w)) = Len(w) - 1
         /\ \A i \in 1 .. (Len(w) - 1) : Front(w)[i] = w[i]
<1> DEFINE A == Activations(n)
           x == Front(w)
<1> HIDE DEF A
<1>1. Len(w) \in Nat /\ \A i \in 1 .. (Len(w) - 1) : w[i] \in A
  BY DEF A
<1>2. /\ x \in Seq(A) /\ Len(x) = IF 1 <= Len(w) - 1 THEN (Len(w) - 1) - 1 + 1 ELSE 0
      /\ \A i \in 1 .. ((Len(w) - 1) - 1 + 1) : x[i] = w[1 + i - 1]
  BY <1>1, SubSeqProperties DEF Front
<1> HIDE DEF x
<1>3. Len(x) = Len(w) - 1
  <2>1. PICK k \in Nat : k = Len(w) /\ k > 0
    BY <1>1
  <2> QED
    BY <1>2, <2>1
<1>4. \A i \in 1 .. (Len(w) - 1) : x[i] = w[i]
  <2> TAKE i \in 1 .. (Len(w) - 1)
  <2>1. i \in 1 .. ((Len(w) - 1) - 1 + 1) /\ 1 + i - 1 = i
    BY <1>1
  <2> QED
    BY <1>2, <2>1
<1> QED
  BY <1>2, <1>3, <1>4 DEF x, A

LEMMA PushedCurs ==
  ASSUME NEW w, NEW n \in Nat, w \in Seq(Activations(n)), Len(w) > 0, NEW u, NEW h, NEW v
  PROVE  LET x == Append([w EXCEPT ![Len(w)].level = u], [die |-> h, cur |-> h, level |-> v])
         IN  /\ Len(x) = Len(w) + 1 /\ x[Len(w) + 1].cur = h
             /\ \A i \in 1 .. Len(w) : x[i].cur = w[i].cur
<1> DEFINE k == Len(w)
           top == [die |-> h, cur |-> h, level |-> v]
           B == {[w EXCEPT ![k].level = u][i] : i \in 1 .. k} \cup {top}
           y == [w EXCEPT ![k].level = u]
           x == Append(y, top)
<1>1. k \in Nat /\ k > 0 /\ \A i \in 1 .. k : w[i] \in Activations(n)
  OBVIOUS
<1>2. w = [i \in 1 .. k |-> w[i]]
  OBVIOUS
<1>3. DOMAIN y = 1 .. k /\ y = [i \in 1 .. k |-> y[i]]
  BY <1>2
<1>4. y \in [1 .. k -> B]
  BY <1>3
<1>5. y[k].cur = w[k].cur
  BY <1>1, <1>2 DEF Activations
<1>6. \A i \in 1 .. (k - 1) : y[i] = w[i]
  BY <1>1, <1>2
<1>7. top \in B /\ top.cur = h
  OBVIOUS
<1> HIDE DEF y, top, B
<1>8. y \in Seq(B) /\ Len(y) = k
  BY <1>1, <1>4
<1>9. Len(x) = k + 1 /\ x[k + 1] = top /\ \A i \in 1 .. k : x[i] = y[i]
  BY <1>7, <1>8
<1>10. \A i \in 1 .. k : x[i].cur = w[i].cur
  <2> TAKE i \in 1 .. k
  <2>1. CASE i = k
    BY <2>1, <1>1, <1>5, <1>9
  <2>2. CASE i # k
    BY <2>2, <1>1, <1>6, <1>9
  <2> QED
    BY <2>1, <2>2
<1> QED
  BY <1>7, <1>9, <1>10 DEF x, y, top

LEMMA MovedCurs ==
  ASSUME NEW w, NEW n \in Nat, w \in Seq(Activations(n)), Len(w) > 0, NEW h
  PROVE  LET x == [w EXCEPT ![Len(w)].cur = h]
         IN  /\ Len(x) = Len(w) /\ x[Len(w)].cur = h
             /\ \A i \in 1 .. (Len(w) - 1) : x[i] = w[i]
<1>1. Len(w) \in Nat /\ \A i \in 1 .. Len(w) : w[i] \in Activations(n)
  OBVIOUS
<1> QED
  BY <1>1 DEF Activations


\* The DIEs of the vectors.
LEMMA VectorDies ==
  ASSUME OwnInv
  PROVE  \A v \in Vectors : DieOf(v) \in 1 .. N /\ v = VarAt(DieOf(v)) /\ v \in heap
BY DEF OwnInv, Lists, ListOrder, Vectors, Elements, VarAt, Object

LEMMA LeaveOwns ==
  ASSUME Inv, OwnInv, Leave, pc \in {"child", "sibling"},
         UNCHANGED <<job, at, heap, linked, types, params, locals>>
  PROVE  OwnInv'
<1> DEFINE k == Len(walk)
<1>1. /\ job \in Jobs /\ N \in Nat /\ k \in Nat /\ k > 0 /\ walk \in Seq(Activations(N))
      /\ CurDie = DieOf(walk[k].cur) /\ CurDie \in 1 .. N
      /\ \A i \in 1 .. k : DieOf(walk[i].cur) \in 1 .. N
  BY WalkShape DEF InWalk
<1>2. walk' = Front(walk) /\ pc' = IF k = 1 THEN "print" ELSE "sibling"
  BY DEF Leave
<1>3. Len(walk') = k - 1 /\ \A i \in 1 .. (k - 1) : walk'[i] = walk[i]
  BY <1>1, <1>2, FrontCurs
<1>4. Unit' = Unit /\ Vectors' = Vectors
  BY DEF Unit, Vectors
<1>5. WalkNested /\ Behind
  BY DEF OwnInv
<1>6. WalkNested'
  <2> SUFFICES ASSUME NEW i \in 1 .. ((k - 1) - 1)
               PROVE  Unit.parent[DieOf(walk'[i + 1].cur)] = DieOf(walk'[i].cur)
    BY <1>3, <1>4 DEF WalkNested
  <2>1. i \in 1 .. (k - 1) /\ i + 1 \in 1 .. (k - 1)
    BY <1>1
  <2> QED
    BY <1>3, <1>5, <2>1 DEF WalkNested
<1>7. Behind'
  <2>1. CASE k = 1
    BY <1>2, <2>1 DEF Behind, Loading
  <2>2. CASE k # 1
    <3> DEFINE p == DieOf(walk[k - 1].cur)
    <3>1. k - 1 \in 1 .. (k - 1) /\ k - 1 \in 1 .. k /\ (k - 1) + 1 = k
      BY <1>1, <2>2, LastIndex
    <3>2. Unit.parent[CurDie] = p /\ p \in 1 .. N
      BY <1>1, <1>5, <3>1 DEF WalkNested
    <3>3. CurDie' = p
      BY <1>3, <3>1 DEF CurDie, Here, Last
    <3>4. p # NoDie
      BY <3>2, <1>1 DEF NoDie
    <3>5. CurDie <= Unit.last[p] /\ Unit.last[CurDie] <= Unit.last[p]
      BY <1>1, <3>2, <3>4, SubtreeShape
    <3>6. Unit.last[p] \in 1 .. N /\ Unit.last[CurDie] \in 1 .. N
      BY <1>1, <3>2, UnitShape
    <3>7. \A v \in Vectors : DieOf(v) <= Unit.last[p]
      <4> TAKE v \in Vectors
      <4>1. DieOf(v) \in 1 .. N
        BY VectorDies
      <4>2. DieOf(v) <= CurDie \/ DieOf(v) <= Unit.last[CurDie]
        BY <1>5 DEF Behind
      <4> QED
        BY <1>1, <3>5, <3>6, <4>1, <4>2
    <3> QED
      BY <1>2, <1>4, <2>2, <3>3, <3>7 DEF Behind, Loading
  <2> QED
    BY <2>1, <2>2
<1> QED
  BY <1>2, <1>6, <1>7, WalkStep

LEMMA ChildOwns ==
  ASSUME Inv, OwnInv, Child
  PROVE  OwnInv'
<1> DEFINE k == Len(walk)
<1>1. pc = "child" /\ UNCHANGED <<job, at, heap, linked, types, params, locals>>
  BY DEF Child, cmd, place, loading, lists
<1>2. CASE Leave
  BY <1>1, <1>2, LeaveOwns
<1>3. /\ job \in Jobs /\ N \in Nat /\ k \in Nat /\ k > 0 /\ walk \in Seq(Activations(N))
      /\ CurDie = DieOf(walk[k].cur) /\ CurDie \in 1 .. N
      /\ \A i \in 1 .. k : DieOf(walk[i].cur) \in 1 .. N
  BY <1>1, WalkShape DEF InWalk
<1>4. Unit' = Unit /\ Vectors' = Vectors
  BY <1>1 DEF Unit, Vectors
<1>5. WalkNested /\ Behind
  BY <1>1 DEF OwnInv
<1>6. CurDie <= Unit.last[CurDie] /\ Unit.last[CurDie] \in 1 .. N
  BY <1>3, UnitShape
<1>7. CASE pc' = "sibling" /\ walk' = walk
  <2>1. WalkNested'
    BY <1>4, <1>5, <1>7 DEF WalkNested
  <2>2. CurDie' = CurDie
    BY <1>7 DEF CurDie, Here
  <2>3. \A v \in Vectors : DieOf(v) <= Unit.last[CurDie]
    <3> TAKE v \in Vectors
    <3>1. DieOf(v) \in 1 .. N /\ DieOf(v) <= CurDie
      BY <1>1, <1>5, VectorDies DEF Behind
    <3> QED
      BY <1>3, <1>6, <3>1
  <2>4. Behind'
    BY <1>4, <1>7, <2>2, <2>3 DEF Behind, Loading
  <2> QED
    BY <1>1, <1>7, <2>1, <2>4, WalkStep
<1>8. ASSUME HasChild(Unit, CurDie), NEW h, h = Object("child", FirstChild(CurDie), 0),
             pc' = "visit",
             walk' = Append([walk EXCEPT ![k].level = @ + 1],
                            [die |-> h, cur |-> h, level |-> Here.level + 1])
      PROVE  OwnInv'
  <2>1. walk' = Append([walk EXCEPT ![k].level = walk[k].level + 1],
                       [die |-> h, cur |-> h, level |-> Here.level + 1])
    BY <1>3, <1>8
  <2>2. Len(walk') = k + 1 /\ walk'[k + 1].cur = h /\ \A i \in 1 .. k : walk'[i].cur = walk[i].cur
    BY <1>3, <2>1, PushedCurs
  <2>3. DieOf(h) = CurDie + 1 /\ Unit.parent[DieOf(h)] = CurDie
    BY <1>3, <1>8, FirstChildShape DEF Object, DieOf
  <2>4. CurDie' = DieOf(h)
    BY <2>2 DEF CurDie, Here, Last
  <2>5. WalkNested'
    <3> SUFFICES ASSUME NEW i \in 1 .. ((k + 1) - 1)
                 PROVE  Unit.parent[DieOf(walk'[i + 1].cur)] = DieOf(walk'[i].cur)
      BY <1>4, <2>2 DEF WalkNested
    <3>1. i \in 1 .. k
      BY <1>3
    <3>2. CASE i = k
      BY <1>3, <2>2, <2>3, <3>1, <3>2
    <3>3. CASE i # k
      <4>1. i \in 1 .. (k - 1) /\ i + 1 \in 1 .. k
        BY <1>3, <3>1, <3>3
      <4> QED
        BY <1>5, <2>2, <3>1, <4>1 DEF WalkNested
    <3> QED
      BY <3>2, <3>3
  <2>6. \A v \in Vectors : DieOf(v) < CurDie + 1
    <3> TAKE v \in Vectors
    <3>1. DieOf(v) \in 1 .. N /\ DieOf(v) <= CurDie
      BY <1>1, <1>5, VectorDies DEF Behind
    <3> QED
      BY <1>3, <3>1
  <2>7. Behind'
    BY <1>4, <1>8, <2>3, <2>4, <2>6 DEF Behind, Loading
  <2> QED
    BY <1>1, <1>8, <2>5, <2>7, WalkStep
<1>9. \/ Leave
      \/ pc' = "sibling" /\ walk' = walk
      \/ HasChild(Unit, CurDie) /\ Descend(Object("child", FirstChild(CurDie), 0))
  BY DEF Child
<1> QED
  BY <1>2, <1>7, <1>8, <1>9 DEF Descend

LEMMA SiblingOwns ==
  ASSUME Inv, OwnInv, NextSibling
  PROVE  OwnInv'
<1> DEFINE k == Len(walk)
<1>1. pc = "sibling" /\ UNCHANGED <<job, at, heap, linked, types, params, locals>>
  BY DEF NextSibling, cmd, place, loading, lists
<1>2. CASE Leave
  BY <1>1, <1>2, LeaveOwns
<1>3. /\ job \in Jobs /\ N \in Nat /\ k \in Nat /\ k > 0 /\ walk \in Seq(Activations(N))
      /\ CurDie = DieOf(walk[k].cur) /\ CurDie \in 1 .. N
      /\ \A i \in 1 .. k : DieOf(walk[i].cur) \in 1 .. N
  BY <1>1, WalkShape DEF InWalk
<1>4. Unit' = Unit /\ Vectors' = Vectors
  BY <1>1 DEF Unit, Vectors
<1>5. WalkNested /\ Behind
  BY <1>1 DEF OwnInv
<1>6. ASSUME HasSibling(Unit, CurDie), NEW h, h = Object("sibling", Sibling(Unit, CurDie), 0), MoveTo(h)
      PROVE  OwnInv'
  <2>1. walk' = [walk EXCEPT ![k].cur = h] /\ pc' = "visit"
    BY <1>6 DEF MoveTo
  <2>2. Len(walk') = k /\ walk'[k].cur = h /\ \A i \in 1 .. (k - 1) : walk'[i] = walk[i]
    BY <1>3, <2>1, MovedCurs
  <2>3. DieOf(h) = Unit.last[CurDie] + 1 /\ Unit.parent[DieOf(h)] = Unit.parent[CurDie]
    BY <1>3, <1>6, NextSiblingShape DEF Object, DieOf
  <2>4. CurDie' = DieOf(h)
    BY <2>2 DEF CurDie, Here, Last
  <2>5. WalkNested'
    <3> SUFFICES ASSUME NEW i \in 1 .. (k - 1)
                 PROVE  Unit.parent[DieOf(walk'[i + 1].cur)] = DieOf(walk'[i].cur)
      BY <1>4, <2>2 DEF WalkNested
    <3>1. Unit.parent[DieOf(walk[i + 1].cur)] = DieOf(walk[i].cur)
      BY <1>5 DEF WalkNested
    <3>2. CASE i + 1 = k
      BY <1>3, <2>2, <2>3, <3>1, <3>2
    <3>3. CASE i + 1 # k
      <4>1. i + 1 \in 1 .. (k - 1)
        BY <1>3, <3>3
      <4> QED
        BY <2>2, <3>1, <4>1
    <3> QED
      BY <3>2, <3>3
  <2>6. \A v \in Vectors : DieOf(v) < Unit.last[CurDie] + 1
    <3> TAKE v \in Vectors
    <3>1. DieOf(v) \in 1 .. N /\ DieOf(v) <= Unit.last[CurDie]
      BY <1>1, <1>5, VectorDies DEF Behind
    <3>2. Unit.last[CurDie] \in 1 .. N
      BY <1>3, UnitShape
    <3> QED
      BY <1>3, <3>1, <3>2
  <2>7. Behind'
    BY <1>4, <2>1, <2>3, <2>4, <2>6 DEF Behind, Loading
  <2> QED
    BY <1>1, <2>1, <2>5, <2>7, WalkStep
<1>7. \/ Leave
      \/ HasSibling(Unit, CurDie) /\ MoveTo(Object("sibling", Sibling(Unit, CurDie), 0))
  BY DEF NextSibling
<1> QED
  BY <1>2, <1>6, <1>7


(***************************************************************************)
(* The steps of the loading of a variable.                                 *)
(***************************************************************************)
\* What such a step leaves as it is, and what is always known.
LEMMA LoadFacts ==
  ASSUME Inv, OwnInv, pc \in InWalk, UNCHANGED <<job, at, walk>>
  PROVE  /\ job \in Jobs /\ N \in Nat /\ NTypes \in Nat /\ CurDie \in 1 .. N
         /\ HeapShape /\ Lists /\ Behind /\ WalkNested /\ Belonging /\ Running
         /\ Unit' = Unit /\ N' = N /\ NTypes' = NTypes /\ CurDie' = CurDie /\ WalkNested'
<1>1. job \in Jobs /\ N \in Nat /\ CurDie \in 1 .. N
  BY WalkShape
<1>2. NTypes \in Nat
  BY <1>1, TypesShape
<1>3. HeapShape /\ Lists /\ Behind /\ WalkNested /\ Belonging /\ Running
  BY DEF OwnInv, InWalk
<1>4. Unit' = Unit /\ N' = N /\ NTypes' = NTypes /\ CurDie' = CurDie
  BY DEF Unit, N, NTypes, CurDie, Here
<1>5. WalkNested'
  BY <1>3, <1>4 DEF WalkNested
<1> QED
  BY <1>1, <1>2, <1>3, <1>4, <1>5

\* The lists do not change while what they hold is on the heap.
LEMMA ListsKept ==
  ASSUME Lists, UNCHANGED <<job, at, params, locals>>, \A v \in Vectors : v \in heap',
         pc' \in InWalk \cup {"print", "undefined"}
  PROVE  Lists'
<1>1. N' = N /\ Unit' = Unit
  BY DEF N, Unit
<1>2. /\ \A i \in 1 .. Len(params) : params[i] \in heap'
      /\ \A i \in 1 .. Len(locals) : locals[i] \in heap'
  BY DEF Vectors, Elements
<1>3. ListOrder(params, heap', at, N) /\ ListOrder(locals, heap', at, N)
  BY <1>2 DEF Lists, ListOrder
<1> QED
  BY <1>1, <1>3 DEF Lists

LEMMA ListsGrow ==
  ASSUME Lists, UNCHANGED <<job, at, params, locals>>, heap \subseteq heap', pc' \in InWalk \cup {"print", "undefined"}
  PROVE  Lists'
<1>1. \A v \in Vectors : v \in heap
  BY DEF Lists, ListOrder, Vectors, Elements
<1> QED
  BY <1>1, ListsKept

\* What is linked does not change as the heap grows.
LEMMA HeapGrow ==
  ASSUME HeapShape, UNCHANGED <<job, at, linked>>, heap \subseteq heap',
         \A o \in heap' : o \in heap \/ OnHeap(o)
  PROVE  HeapShape'
BY SameObjects DEF HeapShape

LEMMA VisitOwns ==
  ASSUME Inv, OwnInv, Visit
  PROVE  OwnInv'
<1>1. pc = "visit" /\ UNCHANGED <<job, at, walk, linked, types, params, locals>>
  BY DEF Visit, cmd, place, loading, lists
<1>2. /\ job \in Jobs /\ N \in Nat /\ NTypes \in Nat /\ CurDie \in 1 .. N
      /\ HeapShape /\ Lists /\ Behind /\ WalkNested /\ Belonging /\ Running
      /\ Unit' = Unit /\ N' = N /\ NTypes' = NTypes /\ CurDie' = CurDie /\ WalkNested'
  BY <1>1, LoadFacts DEF InWalk
<1>3. Vectors' = Vectors
  BY <1>1 DEF Vectors
<1>4. CASE pc' = "child" /\ heap' = heap
  <2>1. \A v \in Vectors : DieOf(v) <= CurDie
    <3> TAKE v \in Vectors
    <3>1. DieOf(v) \in 1 .. N /\ DieOf(v) < CurDie
      BY <1>1, <1>2, VectorDies DEF Behind
    <3> QED
      BY <1>2, <3>1
  <2>2. Behind'
    BY <1>2, <1>3, <1>4, <2>1 DEF Behind, Loading
  <2> QED
    BY <1>1, <1>2, <1>4, <2>2, WalkStep
<1>5. CASE pc' = "load" /\ heap' = heap \cup {Var}
  <2>1. heap \subseteq heap' /\ \A o \in heap' : o \in heap \/ o = VarAt(CurDie)
    BY <1>5, Objects
  <2>2. HeapShape'
    BY <1>1, <1>2, <2>1, HeapGrow DEF OnHeap
  <2>3. Lists'
    BY <1>1, <1>2, <1>5, <2>1, ListsGrow DEF InWalk
  <2>4. Behind'
    BY <1>1, <1>2, <1>3, <1>5 DEF Behind, Loading
  <2>5. Running'
    BY <1>1, <1>2, <1>5 DEF Running, Typing
  <2>6. Belonging'
    <3>1. Var' = Var /\ Var \in heap'
      BY <1>1, <1>2, <1>5 DEF Var, Object
    <3>2. pc \notin Loading /\ pc \notin Typing /\ pc' \in Loading
      BY <1>1, <1>5 DEF Loading, Typing
    <3>3. \A d : VarAt(d)' = VarAt(d) /\ LocationAt(d)' = LocationAt(d)
      BY <1>1, Same
    <3>4. \A d, k : TypeAt(d, k)' = TypeAt(d, k)
      BY <1>1, Same
    <3>5. ASSUME NEW d \in 1 .. N, VarAt(d) \in heap' PROVE VarAt(d) \in Vectors \/ d = CurDie
      BY <1>2, <2>1, <3>2, <3>5, Objects DEF Belonging
    <3>6. ASSUME NEW d \in 1 .. N, LocationAt(d) \in heap' PROVE VarAt(d) \in Vectors
      BY <1>2, <2>1, <3>2, <3>6, Objects DEF Belonging
    <3>7. ASSUME NEW d \in 1 .. N, NEW k \in 1 .. NTypes, TypeAt(d, k) \in heap'
          PROVE  VarAt(d) \in Vectors /\ \A j \in 1 .. (k - 1) : TypeAt(d, j) \in linked
      BY <1>2, <2>1, <3>2, <3>7, Objects DEF Belonging
    <3> QED
      BY <1>1, <1>2, <1>3, <3>1, <3>2, <3>3, <3>4, <3>5, <3>6, <3>7 DEF Belonging
  <2> QED
    BY <1>2, <2>2, <2>3, <2>4, <2>5, <2>6 DEF OwnInv
<1> QED
  BY <1>4, <1>5 DEF Visit


\* Belonging and Running behind a step that leaves the walk where it is.
LEMMA BelongingNext ==
  ASSUME UNCHANGED <<job, at, walk>>,
         pc' \in Loading => Var \in heap',
         \A d \in 1 .. N : VarAt(d) \in heap' => VarAt(d) \in Vectors' \/ (pc' \in Loading /\ d = CurDie),
         \A d \in 1 .. N : LocationAt(d) \in heap' => VarAt(d) \in Vectors',
         \A d \in 1 .. N : \A k \in 1 .. NTypes : TypeAt(d, k) \in heap' =>
            IF VarAt(d) \in Vectors' THEN \A j \in 1 .. (k - 1) : TypeAt(d, j) \in linked'
            ELSE pc' \in Typing /\ d = CurDie
  PROVE  Belonging'
<1>1. N' = N /\ NTypes' = NTypes /\ CurDie' = CurDie /\ Var' = Var
  BY DEF N, NTypes, Unit, CurDie, Here, Var, Object
<1>2. \A d : VarAt(d)' = VarAt(d) /\ LocationAt(d)' = LocationAt(d)
  BY Same
<1>3. \A d, k : TypeAt(d, k)' = TypeAt(d, k)
  BY Same
<1> QED
  BY <1>1, <1>2, <1>3 DEF Belonging

LEMMA RunningNext ==
  ASSUME UNCHANGED <<job, at, walk>>,
         types' \in Seq(1 .. NTypes),
         \A j \in 1 .. Len(types') : types'[j] + j <= NTypes + 1,
         pc' \in {"type", "typed"} => Len(types') > 0,
         NEW t, t = IF pc' = "location" THEN 1 ELSE Len(types'),
         pc' \in Typing =>
           /\ \A j \in 1 .. t : Type(j) \in heap'
           /\ \A k \in 1 .. NTypes : Type(k) \in heap' => \A j \in t .. (k - 1) : Type(j) \in linked'
           /\ \A j \in 1 .. NTypes : Type(j) \in linked' => t <= j /\ (pc' = "location" \/ (pc' = "typed" /\ ret'))
           /\ pc' = "location" => Len(types') = 0
  PROVE  Running'
<1>1. NTypes' = NTypes
  BY DEF NTypes, Unit
<1>2. \A k : Type(k)' = Type(k)
  BY DEF Type, Object, CurDie, Here
<1>3. Top' = t
  BY DEF Top
<1> QED
  BY <1>1, <1>2, <1>3 DEF Running

\* What is loaded is not in a vector yet.
LEMMA NotListed ==
  ASSUME Inv, OwnInv, pc \in Loading
  PROVE  VarAt(CurDie) \notin Vectors
<1>1. pc \in InWalk /\ pc # "undefined"
  BY DEF Loading, InWalk
<1>2. CurDie \in 1 .. N /\ N \in Nat
  BY <1>1, WalkShape
<1>3. \A v \in Vectors : DieOf(v) < CurDie
  BY <1>1 DEF OwnInv, Behind
<1> QED
  BY <1>2, <1>3, Objects

LEMMA LoadVarOwns ==
  ASSUME Inv, OwnInv, LoadVar
  PROVE  OwnInv'
<1>1. pc = "load" /\ pc \in Loading /\ pc \notin Typing /\ UNCHANGED <<job, at, walk, linked, params, locals>>
  BY DEF LoadVar, cmd, place, lists, Loading, Typing
<1>2. /\ job \in Jobs /\ N \in Nat /\ NTypes \in Nat /\ CurDie \in 1 .. N
      /\ HeapShape /\ Lists /\ Behind /\ WalkNested /\ Belonging /\ Running
      /\ Unit' = Unit /\ N' = N /\ NTypes' = NTypes /\ CurDie' = CurDie /\ WalkNested'
  BY <1>1, LoadFacts DEF InWalk
<1>3. Vectors' = Vectors /\ VarAt(CurDie) \notin Vectors
  BY <1>1, NotListed DEF Vectors
<1>4. pc' \in {"type", "drop"}
  BY DEF LoadVar
<1>5. Behind'
  BY <1>1, <1>2, <1>3, <1>4 DEF Behind, Loading
<1>6. pc' \in Loading /\ pc' \in InWalk
  BY <1>4 DEF Loading, InWalk
<1>7. ASSUME NEW k \in 1 .. NTypes, NEW d \in 1 .. N, TypeAt(d, k) \in heap
      PROVE  VarAt(d) \in Vectors /\ \A j \in 1 .. (k - 1) : TypeAt(d, j) \in linked
  BY <1>1, <1>2, <1>7 DEF Belonging
<1>8. CASE pc' = "drop" /\ UNCHANGED <<heap, types>>
  <2>1. HeapShape'
    BY <1>1, <1>2, <1>8, HeapGrow
  <2>2. Lists'
    BY <1>1, <1>2, <1>6, <1>8, ListsGrow
  <2>3. Running'
    BY <1>2, <1>8 DEF Running, Typing
  <2>4. Belonging'
    <3>1. pc' \notin Typing
      BY <1>8 DEF Typing
    <3> QED
      BY <1>1, <1>2, <1>3, <1>6, <1>7, <1>8, <3>1, BelongingNext DEF Belonging
  <2> QED
    BY <1>2, <1>5, <2>1, <2>2, <2>3, <2>4 DEF OwnInv
<1>9. ASSUME NEW t, t = Unit.die[CurDie].type, t # NoType,
             heap' = heap \cup {Type(1)}, types' = <<t>>, pc' = "type"
      PROVE  OwnInv'
  <2>1. t \in 1 .. NTypes /\ 1 \in 1 .. NTypes
    BY <1>2, <1>9, TypesShape DEF NoType
  <2>2. heap \subseteq heap' /\ \A o \in heap' : o \in heap \/ o = TypeAt(CurDie, 1)
    BY <1>9, Objects
  <2>3. HeapShape'
    BY <1>1, <1>2, <2>1, <2>2, HeapGrow DEF OnHeap
  <2>4. Lists'
    BY <1>1, <1>2, <1>6, <2>2, ListsGrow
  <2>5. \A k \in 1 .. NTypes : Type(k) \in heap' => k = 1
    <3> SUFFICES ASSUME NEW k \in 1 .. NTypes, Type(k) \in heap', k # 1 PROVE FALSE
      OBVIOUS
    <3>1. TypeAt(CurDie, k) \in heap
      BY <2>2, Objects
    <3> QED
      BY <1>2, <1>3, <1>7, <3>1
  <2>6. \A k \in 1 .. NTypes : Type(k) \notin linked
    <3> SUFFICES ASSUME NEW k \in 1 .. NTypes, Type(k) \in linked PROVE FALSE
      OBVIOUS
    <3>1. TypeAt(CurDie, k) \in heap
      BY <1>2, Objects DEF HeapShape
    <3> QED
      BY <1>2, <1>3, <1>7, <3>1
  <2>7. Running'
    <3>1. types' \in Seq(1 .. NTypes) /\ Len(types') = 1 /\ types'[1] = t
      BY <1>9, <2>1
    <3>2. \A j \in 1 .. Len(types') : types'[j] + j <= NTypes + 1
      BY <1>2, <2>1, <3>1
    <3>3. \A j \in 1 .. 1 : Type(j) \in heap'
      BY <1>9
    <3>4. \A k \in 1 .. NTypes : Type(k) \in heap' => \A j \in 1 .. (k - 1) : Type(j) \in linked'
      BY <2>5
    <3> QED
      BY <1>1, <1>9, <2>6, <3>1, <3>2, <3>3, <3>4, RunningNext
  <2>8. Belonging'
    <3>1. pc' \in Typing
      BY <1>9 DEF Typing
    <3>2. Var \in heap'
      BY <1>1, <1>2, <1>9 DEF Belonging
    <3>3. \A d \in 1 .. N : VarAt(d) \in heap' => VarAt(d) \in Vectors \/ d = CurDie
      BY <1>2, <2>2, Objects DEF Belonging
    <3>4. \A d \in 1 .. N : LocationAt(d) \in heap' => VarAt(d) \in Vectors
      BY <1>2, <2>2, Objects DEF Belonging
    <3>5. ASSUME NEW d \in 1 .. N, NEW k \in 1 .. NTypes, TypeAt(d, k) \in heap'
          PROVE  IF VarAt(d) \in Vectors THEN \A j \in 1 .. (k - 1) : TypeAt(d, j) \in linked
                 ELSE d = CurDie
      BY <1>3, <1>7, <2>2, <3>5, Objects
    <3> QED
      BY <1>1, <1>3, <1>6, <3>1, <3>2, <3>3, <3>4, <3>5, BelongingNext
  <2> QED
    BY <1>2, <1>5, <2>3, <2>4, <2>7, <2>8 DEF OwnInv
<1> QED
  BY <1>8, <1>9 DEF LoadVar, Call


\* The types of the variable that is being loaded.
LEMMA TypesOnHeap ==
  ASSUME Inv, OwnInv, pc \in {"type", "typed"}
  PROVE  /\ Len(types) \in 1 .. NTypes /\ types \in Seq(1 .. NTypes) /\ NTypes \in Nat
         /\ types[Len(types)] + Len(types) <= NTypes + 1 /\ types[Len(types)] \in 1 .. NTypes
         /\ \A j \in 1 .. Len(types) : Type(j) \in heap
         /\ \A k \in 1 .. NTypes : Type(k) \in heap => \A j \in Len(types) .. (k - 1) : Type(j) \in linked
         /\ \A j \in 1 .. NTypes : Type(j) \in linked => Len(types) <= j /\ pc = "typed" /\ ret
<1>1. Running /\ pc \in Typing /\ Top = Len(types) /\ pc # "location" /\ pc \in InWalk
  BY DEF OwnInv, Typing, Top, InWalk
<1>2. types \in Seq(1 .. NTypes) /\ Len(types) > 0
  BY <1>1 DEF Running
<1>3. NTypes \in Nat
  BY <1>1, WalkShape, TypesShape
<1>4. Len(types) \in Nat /\ Len(types) \in 1 .. Len(types)
  BY <1>2
<1>5. types[Len(types)] + Len(types) <= NTypes + 1 /\ types[Len(types)] \in 1 .. NTypes
  <2> DEFINE T == 1 .. NTypes
  <2>1. types[Len(types)] \in T
    <3> HIDE DEF T
    <3>1. types \in Seq(T)
      BY <1>2 DEF T
    <3> QED
      BY <3>1, <1>4
  <2> QED
    BY <1>1, <1>4, <2>1 DEF Running
<1>6. Len(types) \in 1 .. NTypes
  BY <1>3, <1>4, <1>5
<1> QED
  BY <1>1, <1>2, <1>3, <1>5, <1>6 DEF Running

LEMMA TypeShape ==
  ASSUME job \in Jobs
  PROVE  \A k \in 1 .. NTypes : Unit.types[k].base # NoType => Unit.types[k].base \in 1 .. NTypes
<1>1. NTypes \in Nat /\ \A k \in 1 .. NTypes : Unit.types[k].base \in 0 .. NTypes
  BY TypesShape
<1> QED
  BY <1>1 DEF NoType

LEMMA AppendType ==
  ASSUME NEW n \in Nat, NEW s \in Seq(1 .. n), NEW b \in 1 .. n,
         \A j \in 1 .. Len(s) : s[j] + j <= n + 1, b + (Len(s) + 1) <= n + 1
  PROVE  /\ Append(s, b) \in Seq(1 .. n) /\ Len(Append(s, b)) = Len(s) + 1
         /\ \A j \in 1 .. (Len(s) + 1) : Append(s, b)[j] + j <= n + 1
<1> DEFINE T == 1 .. n
<1>1. /\ Append(s, b) \in Seq(T) /\ Len(Append(s, b)) = Len(s) + 1 /\ Len(s) \in Nat
      /\ \A j \in 1 .. Len(s) : Append(s, b)[j] = s[j]
      /\ Append(s, b)[Len(s) + 1] = b
  <2> HIDE DEF T
  <2>1. s \in Seq(T) /\ b \in T
    BY DEF T
  <2> QED
    BY <2>1
<1>2. \A j \in 1 .. (Len(s) + 1) : Append(s, b)[j] + j <= n + 1
  <2> TAKE j \in 1 .. (Len(s) + 1)
  <2>1. CASE j = Len(s) + 1
    BY <1>1, <2>1
  <2>2. CASE j \in 1 .. Len(s)
    BY <1>1, <2>2
  <2> QED
    BY <1>1, <2>1, <2>2
<1> QED
  BY <1>1, <1>2

LEMMA FrontTypes ==
  ASSUME NEW n \in Nat, NEW s \in Seq(1 .. n), Len(s) > 0,
         \A j \in 1 .. Len(s) : s[j] + j <= n + 1
  PROVE  /\ Front(s) \in Seq(1 .. n) /\ Len(Front(s)) = Len(s) - 1
         /\ \A j \in 1 .. (Len(s) - 1) : Front(s)[j] + j <= n + 1
<1> DEFINE T == 1 .. n
           x == Front(s)
<1>1. s \in Seq(T) /\ Len(s) \in Nat
  OBVIOUS
<1> HIDE DEF T
<1>2. \A i \in 1 .. (Len(s) - 1) : s[i] \in T
  BY <1>1
<1>3. /\ x \in Seq(T) /\ Len(x) = IF 1 <= Len(s) - 1 THEN (Len(s) - 1) - 1 + 1 ELSE 0
      /\ \A i \in 1 .. ((Len(s) - 1) - 1 + 1) : x[i] = s[1 + i - 1]
  BY <1>1, <1>2, SubSeqProperties DEF Front
<1> HIDE DEF x
<1>4. Len(x) = Len(s) - 1
  <2>1. PICK k \in Nat : k = Len(s) /\ k > 0
    BY <1>1
  <2> QED
    BY <1>3, <2>1
<1>5. \A i \in 1 .. (Len(s) - 1) : x[i] = s[i]
  <2> TAKE i \in 1 .. (Len(s) - 1)
  <2>1. i \in 1 .. ((Len(s) - 1) - 1 + 1) /\ 1 + i - 1 = i
    BY <1>1
  <2> QED
    BY <1>3, <2>1
<1>6. \A i \in 1 .. (Len(s) - 1) : x[i] + i <= n + 1
  <2> TAKE i \in 1 .. (Len(s) - 1)
  <2>1. i \in 1 .. Len(s)
    BY <1>1
  <2> QED
    BY <1>5, <2>1
<1> QED
  BY <1>3, <1>4, <1>6 DEF x, T

LEMMA LoadTypeOwns ==
  ASSUME Inv, OwnInv, LoadType
  PROVE  OwnInv'
<1> DEFINE k == Len(types)
           b == Unit.types[Last(types)].base
<1>1. pc = "type" /\ pc \in Loading /\ pc \in Typing /\ UNCHANGED <<job, at, walk, linked, params, locals>>
  BY DEF LoadType, cmd, place, lists, Loading, Typing
<1>2. /\ job \in Jobs /\ N \in Nat /\ NTypes \in Nat /\ CurDie \in 1 .. N
      /\ HeapShape /\ Lists /\ Behind /\ WalkNested /\ Belonging /\ Running
      /\ Unit' = Unit /\ N' = N /\ NTypes' = NTypes /\ CurDie' = CurDie /\ WalkNested'
  BY <1>1, LoadFacts DEF InWalk
<1>3. Vectors' = Vectors /\ VarAt(CurDie) \notin Vectors
  BY <1>1, NotListed DEF Vectors
<1>4. /\ k \in 1 .. NTypes /\ types \in Seq(1 .. NTypes) /\ Last(types) \in 1 .. NTypes
      /\ Last(types) + k <= NTypes + 1
      /\ \A j \in 1 .. k : Type(j) \in heap
      /\ \A m \in 1 .. NTypes : Type(m) \in heap => \A j \in k .. (m - 1) : Type(j) \in linked
      /\ \A j \in 1 .. NTypes : Type(j) \notin linked
  BY <1>1, TypesOnHeap DEF Last
<1>5. \A j \in 1 .. k : types[j] + j <= NTypes + 1
  BY <1>2 DEF Running
<1>6. ASSUME pc' = "typed", UNCHANGED <<heap, types>> PROVE OwnInv'
  <2>1. HeapShape'
    BY <1>1, <1>2, <1>6, HeapGrow
  <2>2. Lists'
    BY <1>1, <1>2, <1>6, ListsGrow DEF InWalk
  <2>3. Behind'
    BY <1>1, <1>2, <1>3, <1>6 DEF Behind, Loading
  <2>4. Running'
    BY <1>1, <1>4, <1>5, <1>6, RunningNext
  <2>5. Belonging'
    <3>1. pc' \in Loading /\ pc' \in Typing
      BY <1>6 DEF Loading, Typing
    <3> QED
      BY <1>1, <1>2, <1>3, <1>6, <3>1, BelongingNext DEF Belonging
  <2> QED
    BY <1>2, <2>1, <2>2, <2>3, <2>4, <2>5 DEF OwnInv
<1>7. ASSUME b # NoType, heap' = heap \cup {Type(k + 1)}, types' = Append(types, b), pc' = pc
      PROVE  OwnInv'
  <2>1. b \in 1 .. NTypes /\ b < Last(types)
    BY <1>2, <1>4, <1>7, TypesShape, TypeShape
  <2>2. k + 1 \in 1 .. NTypes /\ b + (k + 1) <= NTypes + 1
    BY <1>2, <1>4, <2>1
  <2>3. heap \subseteq heap' /\ \A o \in heap' : o \in heap \/ o = TypeAt(CurDie, k + 1)
    BY <1>7, Objects
  <2>4. HeapShape'
    BY <1>1, <1>2, <2>2, <2>3, HeapGrow DEF OnHeap
  <2>5. Lists'
    BY <1>1, <1>2, <1>7, <2>3, ListsGrow DEF InWalk
  <2>6. Behind'
    BY <1>1, <1>2, <1>3, <1>7 DEF Behind, Loading
  <2>7. \A m \in 1 .. NTypes : Type(m) \in heap' => \A j \in (k + 1) .. (m - 1) : Type(j) \in linked
    <3> SUFFICES ASSUME NEW m \in 1 .. NTypes, Type(m) \in heap', NEW j \in (k + 1) .. (m - 1)
                 PROVE  Type(j) \in linked
      OBVIOUS
    <3>1. m # k + 1
      BY <1>4
    <3>2. Type(m) \in heap
      BY <2>3, <3>1, Objects
    <3>3. j \in k .. (m - 1)
      BY <1>4
    <3> QED
      BY <1>4, <3>2, <3>3
  <2>8. Running'
    <3>1. /\ types' \in Seq(1 .. NTypes) /\ Len(types') = k + 1
          /\ \A j \in 1 .. (k + 1) : types'[j] + j <= NTypes + 1
      BY <1>2, <1>4, <1>5, <1>7, <2>1, <2>2, AppendType
    <3>2. \A j \in 1 .. (k + 1) : Type(j) \in heap'
      BY <1>4, <1>7
    <3> QED
      BY <1>1, <1>4, <1>7, <2>2, <2>7, <3>1, <3>2, RunningNext
  <2>9. Belonging'
    <3>1. pc' \in Typing /\ pc' \in Loading
      BY <1>1, <1>7
    <3>2. Var \in heap'
      BY <1>1, <1>2, <1>7 DEF Belonging
    <3>3. \A d \in 1 .. N : VarAt(d) \in heap' => VarAt(d) \in Vectors \/ d = CurDie
      BY <1>2, <2>3, Objects DEF Belonging
    <3>4. \A d \in 1 .. N : LocationAt(d) \in heap' => VarAt(d) \in Vectors
      BY <1>2, <2>3, Objects DEF Belonging
    <3>5. ASSUME NEW d \in 1 .. N, NEW m \in 1 .. NTypes, TypeAt(d, m) \in heap'
          PROVE  IF VarAt(d) \in Vectors THEN \A j \in 1 .. (m - 1) : TypeAt(d, j) \in linked
                 ELSE d = CurDie
      <4>1. CASE d = CurDie
        BY <1>3, <4>1
      <4>2. CASE d # CurDie
        <5>1. TypeAt(d, m) \in heap
          BY <2>3, <3>5, <4>2, Objects
        <5> QED
          BY <1>2, <4>2, <5>1 DEF Belonging
      <4> QED
        BY <4>1, <4>2
    <3> QED
      BY <1>1, <1>3, <3>1, <3>2, <3>3, <3>4, <3>5, BelongingNext
  <2> QED
    BY <1>2, <2>4, <2>5, <2>6, <2>8, <2>9 DEF OwnInv
<1>8. \/ pc' = "typed" /\ UNCHANGED <<heap, types>>
      \/ b # NoType /\ heap' = heap \cup {Type(k + 1)} /\ types' = Append(types, b) /\ pc' = pc
  BY DEF LoadType, Call, LeafTypes, WrappingTypes
<1> QED
  BY <1>6, <1>7, <1>8


LEMMA TypeReturnsOwns ==
  ASSUME Inv, OwnInv, TypeReturns
  PROVE  OwnInv'
<1> DEFINE k == Len(types)
<1>1. /\ pc = "typed" /\ pc \in Loading /\ pc \in Typing
      /\ UNCHANGED <<job, at, walk, params, locals, ret>> /\ types' = Front(types)
  BY DEF TypeReturns, cmd, place, lists, Loading, Typing
<1>2. /\ job \in Jobs /\ N \in Nat /\ NTypes \in Nat /\ CurDie \in 1 .. N
      /\ HeapShape /\ Lists /\ Behind /\ WalkNested /\ Belonging /\ Running
      /\ Unit' = Unit /\ N' = N /\ NTypes' = NTypes /\ CurDie' = CurDie /\ WalkNested'
  BY <1>1, LoadFacts DEF InWalk
<1>3. Vectors' = Vectors /\ VarAt(CurDie) \notin Vectors
  BY <1>1, NotListed DEF Vectors
<1>4. /\ k \in 1 .. NTypes /\ types \in Seq(1 .. NTypes)
      /\ \A j \in 1 .. k : Type(j) \in heap
      /\ \A m \in 1 .. NTypes : Type(m) \in heap => \A j \in k .. (m - 1) : Type(j) \in linked
      /\ \A j \in 1 .. NTypes : Type(j) \in linked => k <= j /\ ret
  BY <1>1, TypesOnHeap
<1>5. \A j \in 1 .. k : types[j] + j <= NTypes + 1
  BY <1>2 DEF Running
<1>6. /\ types' \in Seq(1 .. NTypes) /\ Len(types') = k - 1
      /\ \A j \in 1 .. (k - 1) : types'[j] + j <= NTypes + 1
  <2>1. Len(types) > 0
    BY <1>4
  <2>2. /\ Front(types) \in Seq(1 .. NTypes) /\ Len(Front(types)) = Len(types) - 1
        /\ \A j \in 1 .. (Len(types) - 1) : Front(types)[j] + j <= NTypes + 1
    BY <1>2, <1>4, <1>5, <2>1, FrontTypes
  <2> QED
    BY <1>1, <2>2
<1>7. pc' \in {"typed", "location", "drop"} /\ pc' \in Loading /\ pc' \in InWalk
  BY DEF TypeReturns, Loading, InWalk
<1>8. Behind'
  BY <1>1, <1>2, <1>3, <1>7 DEF Behind, Loading
<1>9. Var \in heap /\ Var = VarAt(CurDie)
  BY <1>1, <1>2, Objects DEF Belonging
<1>10. ASSUME ret, heap' = heap,
              linked' = IF k > 1 THEN linked \cup {Type(k - 1)} ELSE linked,
              pc' = IF k > 1 THEN "typed" ELSE "location"
       PROVE  OwnInv'
  <2>1. linked \subseteq linked' /\ \A o \in linked' : o \in linked \/ (k > 1 /\ o = TypeAt(CurDie, k - 1))
    BY <1>10, Objects
  <2>2. k > 1 => k - 1 \in 1 .. NTypes /\ (k - 1) + 1 = k /\ k - 1 \in 1 .. k
    BY <1>2, <1>4
  <2>3. k > 1 => Linked(TypeAt(CurDie, k - 1)) /\ TypeAt(CurDie, k - 1) \in heap
    <3> SUFFICES ASSUME k > 1 PROVE Linked(TypeAt(CurDie, k - 1)) /\ TypeAt(CurDie, k - 1) \in heap
      OBVIOUS
    <3>1. TypeAt(CurDie, k) \in heap /\ TypeAt(CurDie, k - 1) \in heap
      BY <1>4, <2>2, Objects
    <3> QED
      BY <1>2, <2>2, <3>1 DEF Linked
  <2>4. HeapShape'
    BY <1>1, <1>2, <1>10, <2>1, <2>3, SameObjects DEF HeapShape
  <2>5. Lists'
    BY <1>1, <1>2, <1>7, <1>10, ListsGrow
  <2>6. Running'
    <3> DEFINE t == IF pc' = "location" THEN 1 ELSE k - 1
    <3>1. t \in 1 .. k /\ t <= k
      BY <1>4, <1>10
    <3>2. \A j \in 1 .. t : Type(j) \in heap'
      BY <1>4, <1>10, <3>1
    <3>3. ASSUME NEW m \in 1 .. NTypes, Type(m) \in heap', NEW j \in t .. (m - 1)
          PROVE  Type(j) \in linked'
      <4>1. CASE j \in k .. (m - 1)
        BY <1>4, <1>10, <2>1, <3>3, <4>1
      <4>2. CASE j \notin k .. (m - 1)
        <5>1. j = k - 1 /\ k > 1
          BY <1>4, <1>10, <3>1, <3>3, <4>2
        <5> QED
          BY <1>10, <5>1
      <4> QED
        BY <4>1, <4>2
    <3>4. ASSUME NEW j \in 1 .. NTypes, Type(j) \in linked'
          PROVE  t <= j
      <4>1. CASE Type(j) \in linked
        BY <1>4, <3>1, <4>1
      <4>2. CASE Type(j) \notin linked
        BY <1>10, <2>1, <3>4, <4>2, Objects
      <4> QED
        BY <4>1, <4>2
    <3>5. pc' \in {"type", "typed"} => Len(types') > 0
      BY <1>4, <1>6, <1>10
    <3>6. t = IF pc' = "location" THEN 1 ELSE Len(types')
      BY <1>6
    <3>7. /\ pc' = "location" \/ (pc' = "typed" /\ ret')
          /\ pc' = "location" => Len(types') = 0
      BY <1>1, <1>4, <1>6, <1>10
    <3> HIDE DEF t
    <3> QED
      BY <1>1, <1>6, <3>2, <3>3, <3>4, <3>5, <3>6, <3>7, RunningNext
  <2>7. Belonging'
    <3>1. pc' \in Typing
      BY <1>10 DEF Typing
    <3>2. ASSUME NEW d \in 1 .. N, NEW m \in 1 .. NTypes, TypeAt(d, m) \in heap'
          PROVE  IF VarAt(d) \in Vectors THEN \A j \in 1 .. (m - 1) : TypeAt(d, j) \in linked'
                 ELSE d = CurDie
      BY <1>2, <1>10, <2>1, <3>2 DEF Belonging
    <3>3. \A d \in 1 .. N : VarAt(d) \in heap' => VarAt(d) \in Vectors' \/ (pc' \in Loading /\ d = CurDie)
      BY <1>2, <1>3, <1>7, <1>10 DEF Belonging
    <3>4. \A d \in 1 .. N : LocationAt(d) \in heap' => VarAt(d) \in Vectors'
      BY <1>2, <1>3, <1>10 DEF Belonging
    <3> QED
      BY <1>1, <1>3, <1>9, <1>10, <3>1, <3>2, <3>3, <3>4, BelongingNext
  <2> QED
    BY <1>2, <1>8, <2>4, <2>5, <2>6, <2>7 DEF OwnInv
<1>11. ASSUME ~ret, TypeFails, pc' = IF k > 1 THEN "typed" ELSE "drop"
       PROVE  OwnInv'
  <2>1. \A j \in 1 .. NTypes : Type(j) \notin linked
    BY <1>4, <1>11
  <2>2. \A m \in 1 .. NTypes : Type(m) \in heap => m <= k
    <3> SUFFICES ASSUME NEW m \in 1 .. NTypes, Type(m) \in heap, k < m PROVE FALSE
      BY <1>4
    <3>1. k \in k .. (m - 1)
      BY <1>4
    <3> QED
      BY <1>4, <2>1, <3>1
  <2>3. /\ Type(k) \in Chain(k)
        /\ \A o \in Chain(k) : \E j \in k .. NTypes : o = Type(j)
    <3>1. k \in k .. NTypes /\ \A i \in k .. (k - 1) : FALSE
      BY <1>4
    <3> QED
      BY <3>1 DEF Chain, NTypes
  <2> HIDE DEF k
  <2>4. /\ heap' \subseteq heap /\ linked' \subseteq linked
        /\ \A d \in 1 .. N : \A m \in 1 .. NTypes : TypeAt(d, m) \in heap' => d # CurDie \/ m < k
        /\ \A o \in heap : o \in heap' \/ \E j \in k .. NTypes : o = Type(j)
        /\ \A o \in linked : o \in linked' \/ \E j \in k .. NTypes : o = Type(j)
    <3>1. heap' = heap \ Chain(k) /\ linked' = linked \ Chain(k)
      BY <1>11 DEF TypeFails, k
    <3>2. ASSUME NEW m \in 1 .. NTypes, Type(m) \in heap' PROVE m < k
      <4>1. m <= k
        BY <2>2, <3>1, <3>2
      <4>2. m # k
        BY <2>3, <3>1, <3>2
      <4> QED
        BY <1>4, <4>1, <4>2 DEF k
    <3> QED
      BY <2>3, <3>1, <3>2, Objects
  <2>5. \A o \in linked : o \in linked'
    <3> SUFFICES ASSUME NEW o \in linked, o \notin linked' PROVE FALSE
      OBVIOUS
    <3>1. PICK j \in k .. NTypes : o = Type(j)
      BY <2>4
    <3>2. j \in 1 .. NTypes
      BY <1>4 DEF k
    <3> QED
      BY <2>1, <3>1, <3>2
  <2>6. HeapShape'
    <3>1. \A o \in heap' : OnHeap(o)'
      BY <1>1, <1>2, <2>4, SameObjects DEF HeapShape
    <3>2. linked' \subseteq heap'
      <4> SUFFICES ASSUME NEW o \in linked', o \notin heap' PROVE FALSE
        OBVIOUS
      <4>1. o \in linked /\ o \in heap
        BY <1>2, <2>4 DEF HeapShape
      <4>2. PICK j \in k .. NTypes : o = Type(j)
        BY <2>4, <4>1
      <4>3. j \in 1 .. NTypes
        BY <1>4 DEF k
      <4> QED
        BY <2>1, <4>1, <4>2, <4>3
    <3>3. ASSUME NEW o \in linked' PROVE Linked(o)'
      <4>1. o \in linked /\ Linked(o)
        BY <1>2, <2>4 DEF HeapShape
      <4>2. PICK d \in 1 .. N, m \in 1 .. NTypes : o = TypeAt(d, m) /\ TypeAt(d, m + 1) \in heap
        BY <4>1, Zenon DEF Linked
      <4>3. d # CurDie
        BY <2>1, <4>1, <4>2, Objects
      <4>4. TypeAt(d, m + 1) \in heap'
        BY <2>4, <4>2, <4>3, Objects
      <4>5. o = TypeAt(d, m)' /\ TypeAt(d, m + 1)' \in heap'
        BY <1>1, <4>2, <4>4, Same
      <4> QED
        BY <1>2, <4>5 DEF Linked
    <3> QED
      BY <3>1, <3>2, <3>3 DEF HeapShape
  <2>7. \A d : VarAt(d) \in heap => VarAt(d) \in heap'
    BY <2>4, Objects
  <2>8. Lists'
    <3>1. \A v \in Vectors : v \in heap'
      BY <2>7, VectorDies
    <3> QED
      BY <1>1, <1>2, <1>7, <3>1, ListsKept
  <2>9. Running'
    <3>1. CASE k > 1
      <4> DEFINE t == k - 1
      <4>1. t \in 1 .. k /\ t < k /\ t > 0
        BY <1>4, <3>1 DEF k
      <4>2. \A j \in 1 .. t : Type(j) \in heap'
        <5> TAKE j \in 1 .. t
        <5>1. j \in 1 .. k /\ j \notin k .. NTypes
          BY <1>4, <4>1 DEF k
        <5>2. Type(j) \in heap
          BY <1>4, <5>1 DEF k
        <5> QED
          BY <2>4, <5>1, <5>2, Objects
      <4>3. \A m \in 1 .. NTypes : Type(m) \in heap' => \A j \in t .. (m - 1) : Type(j) \in linked'
        <5> SUFFICES ASSUME NEW m \in 1 .. NTypes, Type(m) \in heap', NEW j \in t .. (m - 1) PROVE FALSE
          OBVIOUS
        <5>1. m < k
          BY <1>2, <2>4, Objects
        <5> QED
          BY <1>4, <4>1, <5>1 DEF k
      <4>4. \A j \in 1 .. NTypes : Type(j) \notin linked'
        BY <2>1, <2>4
      <4>5. pc' = "typed" /\ Len(types') = t
        BY <1>6, <1>11, <3>1 DEF k
      <4>6. \A j \in 1 .. Len(types') : types'[j] + j <= NTypes + 1
        BY <1>6, <4>5 DEF k
      <4> HIDE DEF t
      <4> QED
        BY <1>1, <1>6, <4>1, <4>2, <4>3, <4>4, <4>5, <4>6, RunningNext
    <3>2. CASE ~(k > 1)
      <4>1. pc' = "drop" /\ pc' \notin Typing
        BY <1>11, <3>2 DEF Typing, k
      <4>2. \A j \in 1 .. Len(types') : types'[j] + j <= NTypes + 1
        BY <1>6 DEF k
      <4> QED
        BY <1>1, <1>6, <4>1, <4>2, RunningNext
    <3> QED
      BY <3>1, <3>2
  <2>10. Belonging'
    <3>1. Var \in heap'
      BY <1>9, <2>7
    <3>2. ASSUME NEW d \in 1 .. N, NEW m \in 1 .. NTypes, TypeAt(d, m) \in heap'
          PROVE  IF VarAt(d) \in Vectors THEN \A j \in 1 .. (m - 1) : TypeAt(d, j) \in linked'
                 ELSE pc' \in Typing /\ d = CurDie
      <4>1. CASE VarAt(d) \in Vectors
        BY <1>2, <2>4, <2>5, <3>2, <4>1 DEF Belonging
      <4>2. CASE VarAt(d) \notin Vectors
        <5>1. d = CurDie
          BY <1>2, <2>4, <3>2, <4>2 DEF Belonging
        <5>2. m < k
          BY <2>4, <3>2, <5>1
        <5>3. k > 1
          BY <1>4, <5>2 DEF k
        <5> QED
          BY <1>11, <4>2, <5>1, <5>3 DEF Typing, k
      <4> QED
        BY <4>1, <4>2
    <3>3. \A d \in 1 .. N : VarAt(d) \in heap' => VarAt(d) \in Vectors' \/ (pc' \in Loading /\ d = CurDie)
      BY <1>2, <1>3, <1>7, <2>4 DEF Belonging
    <3>4. \A d \in 1 .. N : LocationAt(d) \in heap' => VarAt(d) \in Vectors'
      BY <1>2, <1>3, <2>4 DEF Belonging
    <3> QED
      BY <1>1, <1>3, <3>1, <3>2, <3>3, <3>4, BelongingNext
  <2> QED
    BY <1>2, <1>8, <2>6, <2>8, <2>9, <2>10 DEF OwnInv
<1> QED
  BY <1>10, <1>11 DEF TypeReturns


\* A variable v of the address a, on the heap h; one behind all of a list l; and
\* a list m that holds v besides what l holds.
VarOn(v, h, a, n) == v = <<a, "var", DieOf(v), 0>> /\ DieOf(v) \in 1 .. n /\ v \in h

AllBefore(l, v) == \A i \in 1 .. Len(l) : DieOf(l[i]) < DieOf(v)

OneMore(l, v, m) ==
  /\ \A i \in 1 .. Len(m) : m[i] = v \/ \E j \in 1 .. Len(l) : m[i] = l[j]
  /\ Elements(m) = Elements(l) \cup {v}

LEMMA AppendOrder ==
  ASSUME NEW n \in Nat, NEW S, NEW l \in Seq(S), NEW h, NEW a, ListOrder(l, h, a, n),
         NEW v \in S, VarOn(v, h, a, n), AllBefore(l, v)
  PROVE  ListOrder(Append(l, v), h, a, n) /\ OneMore(l, v, Append(l, v))
<1> DEFINE x == Append(l, v)
           k == Len(l)
<1>1. /\ k \in Nat /\ Len(x) = k + 1 /\ x[k + 1] = v
      /\ \A i \in 1 .. k : x[i] = l[i]
  OBVIOUS
<1>2. /\ v = <<a, "var", DieOf(v), 0>> /\ DieOf(v) \in 1 .. n /\ v \in h
      /\ \A i \in 1 .. k : DieOf(l[i]) < DieOf(v)
  BY DEF VarOn, AllBefore
<1> HIDE DEF x
<1>3. \A i \in 1 .. (k + 1) : i \in 1 .. k \/ i = k + 1
  BY <1>1
<1>4. \A i \in 1 .. k : i \in 1 .. (k + 1)
  BY <1>1
<1>5. k + 1 \in 1 .. (k + 1)
  BY <1>1
<1>6. \A i \in 1 .. Len(x) : /\ x[i] \in h /\ DieOf(x[i]) \in 1 .. n
                             /\ x[i] = <<a, "var", DieOf(x[i]), 0>>
  <2> TAKE i \in 1 .. Len(x)
  <2>1. CASE i \in 1 .. k
    BY <1>1, <2>1 DEF ListOrder
  <2>2. CASE i = k + 1
    BY <1>1, <1>2, <2>2
  <2> QED
    BY <1>1, <1>3, <2>1, <2>2
<1>7. \A i, j \in 1 .. Len(x) : i < j => DieOf(x[i]) < DieOf(x[j])
  <2> SUFFICES ASSUME NEW i \in 1 .. Len(x), NEW j \in 1 .. Len(x), i < j
               PROVE  DieOf(x[i]) < DieOf(x[j])
    OBVIOUS
  <2>1. i \in 1 .. k
    BY <1>1
  <2>2. CASE j \in 1 .. k
    BY <1>1, <2>1, <2>2 DEF ListOrder
  <2>3. CASE j = k + 1
    BY <1>1, <1>2, <2>1, <2>3
  <2> QED
    BY <1>1, <1>3, <2>2, <2>3
<1>8. \A i \in 1 .. Len(x) : x[i] = v \/ \E j \in 1 .. Len(l) : x[i] = l[j]
  BY <1>1, <1>3
<1>9. Elements(x) = Elements(l) \cup {v}
  BY <1>1, <1>3, <1>4, <1>5 DEF Elements
<1> QED
  BY <1>6, <1>7, <1>8, <1>9 DEF ListOrder, OneMore, x

LEMMA TailOrder ==
  ASSUME NEW n \in Nat, NEW S, NEW l \in Seq(S), l # <<>>, NEW h, NEW a, ListOrder(l, h, a, n),
         NEW m, \A i \in 1 .. Len(l) : l[i] \in m \/ l[i] = Head(l)
  PROVE  /\ ListOrder(Tail(l), m, a, n)
         /\ \A i \in 1 .. Len(Tail(l)) : \E j \in 1 .. Len(l) : Tail(l)[i] = l[j]
         /\ Elements(Tail(l)) = Elements(l) \ {Head(l)}
         /\ Head(l) \in Elements(l)
<1> DEFINE x == Tail(l)
           k == Len(l)
<1>1. /\ x \in Seq(S) /\ Len(x) = Len(l) - 1
      /\ \A i \in 1 .. Len(x) : x[i] = l[i + 1]
  BY HeadTailProperties
<1>2. k \in Nat /\ k > 0 /\ Head(l) = l[1]
  OBVIOUS
<1> HIDE DEF x
<1>3. Len(x) = k - 1 /\ 1 \in 1 .. k /\ \A i \in 1 .. (k - 1) : i + 1 \in 1 .. k /\ 1 < i + 1
  BY <1>1, <1>2
<1>4. \A i \in 1 .. k : DieOf(l[i]) \in 1 .. n
  BY DEF ListOrder
<1>5. \A i \in 1 .. (k - 1) : x[i] = l[i + 1] /\ x[i] # Head(l)
  <2> TAKE i \in 1 .. (k - 1)
  <2>1. DieOf(l[1]) < DieOf(l[i + 1])
    BY <1>3 DEF ListOrder
  <2> QED
    BY <1>1, <1>2, <1>3, <1>4, <2>1
<1>6. \A i \in 1 .. Len(x) : /\ x[i] \in m /\ DieOf(x[i]) \in 1 .. n
                             /\ x[i] = <<a, "var", DieOf(x[i]), 0>>
  BY <1>3, <1>5 DEF ListOrder
<1>7. \A i, j \in 1 .. Len(x) : i < j => DieOf(x[i]) < DieOf(x[j])
  <2> SUFFICES ASSUME NEW i \in 1 .. (k - 1), NEW j \in 1 .. (k - 1), i < j
               PROVE  DieOf(x[i]) < DieOf(x[j])
    BY <1>3
  <2>1. i + 1 \in 1 .. k /\ j + 1 \in 1 .. k /\ i + 1 < j + 1
    BY <1>2
  <2>2. DieOf(l[i + 1]) < DieOf(l[j + 1])
    BY <2>1 DEF ListOrder
  <2> QED
    BY <1>5, <2>2
<1>8. \A i \in 1 .. Len(x) : \E j \in 1 .. Len(l) : x[i] = l[j]
  BY <1>3, <1>5
<1>9. Elements(x) = Elements(l) \ {Head(l)} /\ Head(l) \in Elements(l)
  <2>1. ASSUME NEW i \in 1 .. k, l[i] # Head(l) PROVE \E j \in 1 .. (k - 1) : l[i] = x[j]
    <3>1. i - 1 \in 1 .. (k - 1) /\ (i - 1) + 1 = i
      BY <1>2, <2>1
    <3> QED
      BY <1>5, <3>1
  <2> QED
    BY <1>2, <1>3, <1>5, <2>1 DEF Elements
<1> QED
  BY <1>3, <1>6, <1>7, <1>8, <1>9 DEF ListOrder, x


LEMMA LocationOwns ==
  ASSUME Inv, OwnInv, LoadLocation
  PROVE  OwnInv'
<1>1. /\ pc = "location" /\ pc \in Loading /\ pc \in Typing /\ pc' = "child"
      /\ pc' \notin Loading /\ pc' \notin Typing
      /\ UNCHANGED <<job, at, walk, types, linked>>
  BY DEF LoadLocation, cmd, place, loading, Loading, Typing
<1>2. /\ job \in Jobs /\ N \in Nat /\ NTypes \in Nat /\ CurDie \in 1 .. N
      /\ HeapShape /\ Lists /\ Behind /\ WalkNested /\ Belonging /\ Running
      /\ Unit' = Unit /\ N' = N /\ NTypes' = NTypes /\ CurDie' = CurDie /\ WalkNested'
  BY <1>1, LoadFacts DEF InWalk
<1>3. /\ heap \subseteq heap' /\ \A o \in heap' : o \in heap \/ o = LocationAt(CurDie)
      /\ Var = VarAt(CurDie) /\ Var = <<at, "var", CurDie, 0>> /\ Var \in heap /\ DieOf(Var) = CurDie
  BY <1>1, <1>2, Objects DEF LoadLocation, Belonging, LocationAt, Var, Object, DieOf
<1>4. \A v \in Vectors : DieOf(v) < CurDie
  BY <1>1, <1>2 DEF Behind
<1>5. /\ params \in Seq(Handles(N)) /\ locals \in Seq(Handles(N))
      /\ ListOrder(params, heap, at, N) /\ ListOrder(locals, heap, at, N)
      /\ \A i \in 1 .. Len(params) : Unit.die[DieOf(params[i])].tag = "parameter"
      /\ \A i \in 1 .. Len(locals) : Unit.die[DieOf(locals[i])].tag # "parameter"
  BY <1>2 DEF Inv, ListInv, Lists
<1>6. Var \in Handles(N)
  BY <1>2, ObjectShape DEF Var, Inv, PlaceInv, Roles
<1>7. Lists' /\ Vectors' = Vectors \cup {Var}
  <2>1. ListOrder(params, heap', at, N) /\ ListOrder(locals, heap', at, N)
    BY <1>3, <1>5 DEF ListOrder
  <2>2. /\ \A i \in 1 .. Len(params) : DieOf(params[i]) < DieOf(Var)
        /\ \A i \in 1 .. Len(locals) : DieOf(locals[i]) < DieOf(Var)
    BY <1>3, <1>4 DEF Vectors, Elements
  <2>3. CASE Unit.die[CurDie].tag = "parameter" /\ params' = Append(params, Var) /\ locals' = locals
    <3>1. /\ ListOrder(params', heap', at, N)
          /\ \A i \in 1 .. Len(params') : params'[i] = Var \/ \E j \in 1 .. Len(params) : params'[i] = params[j]
          /\ Elements(params') = Elements(params) \cup {Var}
      <4> DEFINE H == Handles(N)
      <4> HIDE DEF H
      <4>1. /\ N \in Nat /\ params \in Seq(H) /\ ListOrder(params, heap', at, N)
            /\ Var \in H /\ VarOn(Var, heap', at, N) /\ AllBefore(params, Var)
        BY <1>2, <1>3, <1>5, <1>6, <2>1, <2>2 DEF H, VarOn, AllBefore
      <4>2. ListOrder(Append(params, Var), heap', at, N) /\ OneMore(params, Var, Append(params, Var))
        BY <4>1, AppendOrder
      <4> QED
        BY <2>3, <4>2 DEF OneMore
    <3>2. \A i \in 1 .. Len(params') : Unit.die[DieOf(params'[i])].tag = "parameter"
      BY <1>3, <1>5, <2>3, <3>1
    <3>3. Lists'
      BY <1>1, <1>2, <1>5, <2>1, <2>3, <3>1, <3>2 DEF Lists, InWalk
    <3>4. Vectors' = Vectors \cup {Var}
      BY <2>3, <3>1 DEF Vectors
    <3> QED
      BY <3>3, <3>4
  <2>4. CASE Unit.die[CurDie].tag # "parameter" /\ locals' = Append(locals, Var) /\ params' = params
    <3>1. /\ ListOrder(locals', heap', at, N)
          /\ \A i \in 1 .. Len(locals') : locals'[i] = Var \/ \E j \in 1 .. Len(locals) : locals'[i] = locals[j]
          /\ Elements(locals') = Elements(locals) \cup {Var}
      <4> DEFINE H == Handles(N)
      <4> HIDE DEF H
      <4>1. /\ N \in Nat /\ locals \in Seq(H) /\ ListOrder(locals, heap', at, N)
            /\ Var \in H /\ VarOn(Var, heap', at, N) /\ AllBefore(locals, Var)
        BY <1>2, <1>3, <1>5, <1>6, <2>1, <2>2 DEF H, VarOn, AllBefore
      <4>2. ListOrder(Append(locals, Var), heap', at, N) /\ OneMore(locals, Var, Append(locals, Var))
        BY <4>1, AppendOrder
      <4> QED
        BY <2>4, <4>2 DEF OneMore
    <3>2. \A i \in 1 .. Len(locals') : Unit.die[DieOf(locals'[i])].tag # "parameter"
      BY <1>3, <1>5, <2>4, <3>1
    <3>3. Lists'
      BY <1>1, <1>2, <1>5, <2>1, <2>4, <3>1, <3>2 DEF Lists, InWalk
    <3>4. Vectors' = Vectors \cup {Var}
      BY <2>4, <3>1 DEF Vectors
    <3> QED
      BY <3>3, <3>4
  <2> QED
    BY <2>3, <2>4 DEF LoadLocation
<1>8. HeapShape'
  BY <1>1, <1>2, <1>3, HeapGrow DEF OnHeap
<1>9. Behind'
  <2>1. \A v \in Vectors' : DieOf(v) <= CurDie
    <3> SUFFICES ASSUME NEW v \in Vectors PROVE DieOf(v) <= CurDie
      BY <1>2, <1>3, <1>7
    <3>1. DieOf(v) \in 1 .. N
      BY VectorDies
    <3> QED
      BY <1>2, <1>4, <3>1
  <2> QED
    BY <1>1, <1>2, <2>1 DEF Behind
<1>10. Running'
  BY <1>1, <1>2 DEF Running
<1>11. Belonging'
  <2>1. \A d \in 1 .. N : VarAt(d) \in heap' => VarAt(d) \in Vectors'
    BY <1>2, <1>3, <1>7, Objects DEF Belonging
  <2>2. ASSUME NEW d \in 1 .. N, LocationAt(d) \in heap' PROVE VarAt(d) \in Vectors'
    <3>1. CASE LocationAt(d) \in heap
      BY <1>2, <1>7, <3>1 DEF Belonging
    <3>2. CASE LocationAt(d) = LocationAt(CurDie)
      <4>1. d = CurDie
        BY <3>2, Objects
      <4> QED
        BY <1>3, <1>7, <4>1
    <3> QED
      BY <1>3, <2>2, <3>1, <3>2
  <2>3. ASSUME NEW d \in 1 .. N, NEW k \in 1 .. NTypes, TypeAt(d, k) \in heap'
        PROVE  VarAt(d) \in Vectors' /\ \A j \in 1 .. (k - 1) : TypeAt(d, j) \in linked'
    <3>1. TypeAt(d, k) \in heap
      BY <1>3, <2>3, Objects
    <3>2. CASE VarAt(d) \in Vectors
      BY <1>1, <1>2, <1>7, <3>1, <3>2 DEF Belonging
    <3>3. CASE VarAt(d) \notin Vectors
      <4>1. d = CurDie
        BY <1>2, <3>1, <3>3 DEF Belonging
      <4>2. \A j \in 1 .. (k - 1) : Type(j) \in linked
        BY <1>1, <1>2, <3>1, <4>1, Objects DEF Running, Top
      <4> QED
        BY <1>1, <1>3, <1>7, <4>1, <4>2, Objects
    <3> QED
      BY <3>2, <3>3
  <2> QED
    BY <1>1, <2>1, <2>2, <2>3, BelongingNext
<1> QED
  BY <1>2, <1>7, <1>8, <1>9, <1>10, <1>11 DEF OwnInv

LEMMA DropOwns ==
  ASSUME Inv, OwnInv, DropVar
  PROVE  OwnInv'
<1>1. /\ pc = "drop" /\ pc \in Loading /\ pc \notin Typing
      /\ UNCHANGED <<job, at, walk, types, linked, params, locals>>
  BY DEF DropVar, cmd, place, loading, lists, Loading, Typing
<1>2. /\ job \in Jobs /\ N \in Nat /\ NTypes \in Nat /\ CurDie \in 1 .. N
      /\ HeapShape /\ Lists /\ Behind /\ WalkNested /\ Belonging /\ Running
      /\ Unit' = Unit /\ N' = N /\ NTypes' = NTypes /\ CurDie' = CurDie /\ WalkNested'
  BY <1>1, LoadFacts DEF InWalk
<1>3. Vectors' = Vectors /\ VarAt(CurDie) \notin Vectors /\ Var = VarAt(CurDie)
  BY <1>1, NotListed, Objects DEF Vectors
<1>4. CASE pc' = "undefined" /\ heap' = heap
  <2>1. HeapShape'
    BY <1>1, <1>2, <1>4, HeapGrow
  <2>2. Lists'
    BY <1>1, <1>2, <1>4, ListsGrow
  <2> QED
    BY <1>4, <2>1, <2>2 DEF OwnInv
<1>5. CASE pc' = "child" /\ heap' = heap \ {Var}
  <2>1. pc' \notin Loading /\ pc' \notin Typing /\ pc' \in InWalk
    BY <1>5 DEF Loading, Typing, InWalk
  <2>2. Lists'
    <3>1. \A v \in Vectors : v \in heap'
      BY <1>3, <1>5, VectorDies
    <3> QED
      BY <1>1, <1>2, <2>1, <3>1, ListsKept
  <2>3. \A d, k : /\ TypeAt(d, k) \in heap <=> TypeAt(d, k) \in heap'
                  /\ LocationAt(d) \in heap <=> LocationAt(d) \in heap'
    BY <1>3, <1>5, Objects
  <2>4. HeapShape'
    <3>1. \A o \in heap' : OnHeap(o)'
      BY <1>1, <1>2, <1>5, SameObjects DEF HeapShape
    <3>2. ASSUME NEW o \in linked' PROVE o \in heap' /\ Linked(o)'
      <4>1. o \in linked /\ o \in heap /\ Linked(o)
        BY <1>1, <1>2, <3>2 DEF HeapShape
      <4>2. PICK d \in 1 .. N, m \in 1 .. NTypes : o = TypeAt(d, m) /\ TypeAt(d, m + 1) \in heap
        BY <4>1, Zenon DEF Linked
      <4>3. o \in heap' /\ TypeAt(d, m + 1) \in heap'
        BY <2>3, <4>1, <4>2
      <4>4. o = TypeAt(d, m)' /\ TypeAt(d, m + 1)' \in heap'
        BY <1>1, <4>2, <4>3, Same
      <4> QED
        BY <1>2, <4>3, <4>4 DEF Linked
    <3> QED
      BY <3>1, <3>2 DEF HeapShape
  <2>5. Behind'
    <3>1. \A v \in Vectors : DieOf(v) <= CurDie
      <4> TAKE v \in Vectors
      <4>1. DieOf(v) \in 1 .. N /\ DieOf(v) < CurDie
        BY <1>1, <1>2, VectorDies DEF Behind
      <4> QED
        BY <1>2, <4>1
    <3> QED
      BY <1>2, <1>3, <1>5, <2>1, <3>1 DEF Behind
  <2>6. Running'
    BY <1>1, <1>2, <1>5, <2>1 DEF Running
  <2>7. Belonging'
    <3>1. \A d \in 1 .. N : VarAt(d) \in heap' => VarAt(d) \in Vectors'
      BY <1>2, <1>3, <1>5 DEF Belonging
    <3>2. \A d \in 1 .. N : LocationAt(d) \in heap' => VarAt(d) \in Vectors'
      BY <1>2, <1>3, <2>3 DEF Belonging
    <3>3. ASSUME NEW d \in 1 .. N, NEW k \in 1 .. NTypes, TypeAt(d, k) \in heap'
          PROVE  VarAt(d) \in Vectors' /\ \A j \in 1 .. (k - 1) : TypeAt(d, j) \in linked'
      <4>1. TypeAt(d, k) \in heap
        BY <2>3, <3>3
      <4> QED
        BY <1>1, <1>2, <1>3, <4>1 DEF Belonging
    <3> QED
      BY <1>1, <2>1, <3>1, <3>2, <3>3, BelongingNext
  <2> QED
    BY <1>2, <2>2, <2>4, <2>5, <2>6, <2>7 DEF OwnInv
<1> QED
  BY <1>4, <1>5 DEF DropVar


(***************************************************************************)
(* The variables are printed and deleted.                                  *)
(***************************************************************************)
\* The destructor of a variable deletes what is of its DIE, and no more.
LEMMA OwnedShape ==
  ASSUME NEW d, NEW v, v = VarAt(d)
  PROVE  /\ VarAt(d) \in Owned(v) /\ LocationAt(d) \in Owned(v)
         /\ \A k \in 1 .. NTypes : (\A j \in 1 .. (k - 1) : TypeAt(d, j) \in linked) => TypeAt(d, k) \in Owned(v)
         /\ \A o \in Owned(v) : DieOf(o) = d
<1>1. v[1] = at /\ v[3] = d
  BY DEF VarAt, Object
<1>2. \A k : TypeAt(d, k) = <<v[1], "type", v[3], k>>
  BY <1>1 DEF TypeAt, Object
<1>3. LocationAt(d) = <<v[1], "location", v[3], 0>>
  BY <1>1 DEF LocationAt, Object
<1>4. VarAt(d) \in Owned(v) /\ LocationAt(d) \in Owned(v)
  BY <1>3 DEF Owned
<1>5. ASSUME NEW k \in 1 .. NTypes, \A j \in 1 .. (k - 1) : TypeAt(d, j) \in linked
      PROVE  TypeAt(d, k) \in Owned(v)
  BY <1>2, <1>5 DEF Owned, NTypes
<1>6. ASSUME NEW o \in Owned(v) PROVE DieOf(o) = d
  <2>1. o = v \/ o = LocationAt(d) \/ \E k : o = TypeAt(d, k)
    BY <1>2, <1>3 DEF Owned
  <2> QED
    BY <2>1, Objects
<1> QED
  BY <1>4, <1>5, <1>6

LEMMA VarPrinted ==
  ASSUME Inv, OwnInv, pc = "print", pc' = "print", UNCHANGED <<job, at, walk, types>>,
         NEW d \in 1 .. N, NEW v, v = VarAt(d),
         heap' = heap \ Owned(v), linked' = linked \ Owned(v), Vectors' = Vectors \ {v}, Lists'
  PROVE  OwnInv'
<1>1. /\ pc \notin Loading /\ pc \notin Typing /\ pc' \notin Loading /\ pc' \notin Typing
      /\ HeapShape /\ Lists /\ WalkNested /\ Belonging /\ Running
      /\ Unit' = Unit /\ N' = N /\ NTypes' = NTypes
  BY DEF OwnInv, Loading, Typing, Unit, N, NTypes
<1>2. /\ VarAt(d) \notin heap' /\ LocationAt(d) \notin heap'
      /\ \A k \in 1 .. NTypes : TypeAt(d, k) \notin heap'
  <2>1. VarAt(d) \notin heap' /\ LocationAt(d) \notin heap'
    BY OwnedShape
  <2>2. ASSUME NEW k \in 1 .. NTypes, TypeAt(d, k) \in heap' PROVE FALSE
    <3>1. TypeAt(d, k) \in heap
      BY <2>2
    <3>2. VarAt(d) \in Vectors
      BY <1>1, <3>1 DEF Belonging
    <3>3. \A j \in 1 .. (k - 1) : TypeAt(d, j) \in linked
      BY <1>1, <3>1, <3>2 DEF Belonging
    <3>4. TypeAt(d, k) \in Owned(v)
      BY <3>3, OwnedShape
    <3> QED
      BY <2>2, <3>4
  <2> QED
    BY <2>1, <2>2
<1>3. \A o : DieOf(o) # d => (o \in heap' <=> o \in heap) /\ (o \in linked' <=> o \in linked)
  BY OwnedShape
<1>4. \A o : o \in heap' => o \in heap
  OBVIOUS
<1>5. \A o : o \in linked' => o \in linked
  OBVIOUS
<1>6. HeapShape'
  <2>1. \A o \in heap' : OnHeap(o)'
    BY <1>1, <1>4, SameObjects DEF HeapShape
  <2>2. ASSUME NEW o \in linked' PROVE o \in heap' /\ Linked(o)'
    <3>1. o \in linked /\ o \in heap /\ Linked(o)
      BY <1>1, <1>5 DEF HeapShape
    <3>2. PICK e \in 1 .. N, k \in 1 .. NTypes : o = TypeAt(e, k) /\ TypeAt(e, k + 1) \in heap
      BY <3>1, Zenon DEF Linked
    <3>3. o \in heap'
      BY <2>2, <3>1
    <3>4. e # d
      BY <1>2, <3>2, <3>3
    <3>5. TypeAt(e, k + 1) \in heap'
      BY <1>3, <3>2, <3>4, Objects
    <3>6. o = TypeAt(e, k)' /\ TypeAt(e, k + 1)' \in heap'
      BY <3>2, <3>5, Same
    <3> QED
      BY <1>1, <3>3, <3>6 DEF Linked
  <2> QED
    BY <2>1, <2>2 DEF HeapShape
<1>7. WalkNested'
  BY <1>1 DEF WalkNested
<1>8. Running'
  BY <1>1 DEF Running
<1>9. Behind'
  BY DEF Behind, Loading
<1>10. Belonging'
  <2>1. ASSUME NEW e \in 1 .. N, e # d PROVE VarAt(e) \in Vectors' <=> VarAt(e) \in Vectors
    BY <2>1, Objects
  <2>2. ASSUME NEW e \in 1 .. N, VarAt(e) \in heap' PROVE VarAt(e) \in Vectors'
    <3>1. e # d
      BY <1>2, <2>2
    <3> QED
      BY <1>1, <1>4, <2>1, <2>2, <3>1 DEF Belonging
  <2>3. ASSUME NEW e \in 1 .. N, LocationAt(e) \in heap' PROVE VarAt(e) \in Vectors'
    <3>1. e # d
      BY <1>2, <2>3
    <3> QED
      BY <1>1, <1>4, <2>1, <2>3, <3>1 DEF Belonging
  <2>4. ASSUME NEW e \in 1 .. N, NEW k \in 1 .. NTypes, TypeAt(e, k) \in heap'
        PROVE  VarAt(e) \in Vectors' /\ \A j \in 1 .. (k - 1) : TypeAt(e, j) \in linked'
    <3>1. e # d
      BY <1>2, <2>4
    <3>2. TypeAt(e, k) \in heap
      BY <1>4, <2>4
    <3>3. VarAt(e) \in Vectors /\ \A j \in 1 .. (k - 1) : TypeAt(e, j) \in linked
      BY <1>1, <3>2 DEF Belonging
    <3> QED
      BY <1>3, <2>1, <3>1, <3>3, Objects
  <2> QED
    BY <1>1, <2>2, <2>3, <2>4, BelongingNext
<1> QED
  BY <1>6, <1>7, <1>8, <1>9, <1>10 DEF OwnInv

LEMMA PrintOwns ==
  ASSUME Inv, OwnInv, PrintParam \/ PrintLocal
  PROVE  OwnInv'
<1> DEFINE H == Handles(N)
<1> HIDE DEF H
<1>1. pc = "print" /\ pc' = "print" /\ UNCHANGED <<job, at, walk, types>>
  BY DEF PrintParam, PrintLocal, PrintVar, cmd, place
<1>2. /\ params \in Seq(H) /\ locals \in Seq(H) /\ N \in Nat /\ Unit' = Unit /\ N' = N
      /\ ListOrder(params, heap, at, N) /\ ListOrder(locals, heap, at, N)
      /\ \A i \in 1 .. Len(params) : Unit.die[DieOf(params[i])].tag = "parameter"
      /\ \A i \in 1 .. Len(locals) : Unit.die[DieOf(locals[i])].tag # "parameter"
  BY <1>1, UnitShape DEF Inv, ListInv, PlaceInv, OwnInv, Lists, H, N, Unit
<1>3. \A v \in Vectors : DieOf(v) \in 1 .. N /\ v = VarAt(DieOf(v)) /\ v \in heap
  BY VectorDies
<1>4. ASSUME NEW v \in Vectors, NEW w \in Vectors, v # w PROVE w \notin Owned(v)
  <2>1. DieOf(w) # DieOf(v)
    BY <1>3, <1>4
  <2> QED
    BY <1>3, <2>1, OwnedShape
<1>5. /\ \A i \in 1 .. Len(params) : params[i] \in Elements(params)
      /\ \A i \in 1 .. Len(locals) : locals[i] \in Elements(locals)
  BY DEF Elements
<1>6. CASE PrintParam
  <2> DEFINE v == Head(params)
  <2>1. /\ params # <<>> /\ params' = Tail(params) /\ locals' = locals
        /\ heap' = heap \ Owned(v) /\ linked' = linked \ Owned(v)
    BY <1>6 DEF PrintParam, PrintVar
  <2>2. v \in Elements(params) /\ Unit.die[DieOf(v)].tag = "parameter"
    <3>1. v = params[1] /\ 1 \in 1 .. Len(params)
      BY <1>2, <2>1
    <3> QED
      BY <1>2, <1>5, <3>1
  <2>3. v \in Vectors /\ v \notin Elements(locals)
    BY <1>2, <2>2 DEF Vectors, Elements
  <2> HIDE DEF v
  <2>4. \A w \in Vectors : w \in heap' \/ w = v
    BY <1>3, <1>4, <2>1, <2>3
  <2>5. \A i \in 1 .. Len(params) : params[i] \in heap' \/ params[i] = v
    BY <1>5, <2>4 DEF Vectors
  <2>6. /\ ListOrder(Tail(params), heap', at, N)
        /\ \A i \in 1 .. Len(Tail(params)) : \E j \in 1 .. Len(params) : Tail(params)[i] = params[j]
        /\ Elements(Tail(params)) = Elements(params) \ {v}
    <3>1. params \in Seq(H) /\ params # <<>> /\ ListOrder(params, heap, at, N) /\ N \in Nat
      BY <1>2, <2>1
    <3>2. \A i \in 1 .. Len(params) : params[i] \in heap' \/ params[i] = Head(params)
      BY <2>5 DEF v
    <3> QED
      BY <3>1, <3>2, TailOrder DEF v
  <2>7. ListOrder(locals, heap', at, N)
    <3>1. \A i \in 1 .. Len(locals) : locals[i] \in heap'
      BY <1>5, <2>3, <2>4 DEF Vectors
    <3> QED
      BY <1>2, <3>1 DEF ListOrder
  <2>8. Lists'
    <3>1. \A i \in 1 .. Len(params') : Unit.die[DieOf(params'[i])].tag = "parameter"
      BY <1>2, <2>1, <2>6
    <3> QED
      BY <1>1, <1>2, <2>1, <2>6, <2>7, <3>1 DEF Lists
  <2>9. Vectors' = Vectors \ {v}
    BY <2>1, <2>3, <2>6 DEF Vectors
  <2>10. DieOf(v) \in 1 .. N /\ v = VarAt(DieOf(v))
    BY <1>3, <2>3
  <2> QED
    BY <1>1, <2>1, <2>8, <2>9, <2>10, VarPrinted
<1>7. CASE PrintLocal
  <2> DEFINE v == Head(locals)
  <2>1. /\ params = <<>> /\ locals # <<>> /\ locals' = Tail(locals) /\ params' = params
        /\ heap' = heap \ Owned(v) /\ linked' = linked \ Owned(v)
    BY <1>7 DEF PrintLocal, PrintVar
  <2>2. v \in Elements(locals)
    <3>1. v = locals[1] /\ 1 \in 1 .. Len(locals)
      BY <1>2, <2>1
    <3> QED
      BY <1>5, <3>1
  <2>3. v \in Vectors /\ Elements(params) = {}
    BY <2>1, <2>2, Empty DEF Vectors, Elements
  <2> HIDE DEF v
  <2>4. \A w \in Vectors : w \in heap' \/ w = v
    BY <1>3, <1>4, <2>1, <2>3
  <2>5. \A i \in 1 .. Len(locals) : locals[i] \in heap' \/ locals[i] = v
    BY <1>5, <2>4 DEF Vectors
  <2>6. /\ ListOrder(Tail(locals), heap', at, N)
        /\ \A i \in 1 .. Len(Tail(locals)) : \E j \in 1 .. Len(locals) : Tail(locals)[i] = locals[j]
        /\ Elements(Tail(locals)) = Elements(locals) \ {v}
    <3>1. locals \in Seq(H) /\ locals # <<>> /\ ListOrder(locals, heap, at, N) /\ N \in Nat
      BY <1>2, <2>1
    <3>2. \A i \in 1 .. Len(locals) : locals[i] \in heap' \/ locals[i] = Head(locals)
      BY <2>5 DEF v
    <3> QED
      BY <3>1, <3>2, TailOrder DEF v
  <2>7. ListOrder(params, heap', at, N)
    BY <2>1, Empty DEF ListOrder
  <2>8. Lists'
    <3>1. \A i \in 1 .. Len(locals') : Unit.die[DieOf(locals'[i])].tag # "parameter"
      BY <1>2, <2>1, <2>6
    <3> QED
      BY <1>1, <1>2, <2>1, <2>6, <2>7, <3>1 DEF Lists
  <2>9. Vectors' = Vectors \ {v}
    BY <2>1, <2>3, <2>6 DEF Vectors
  <2>10. DieOf(v) \in 1 .. N /\ v = VarAt(DieOf(v))
    BY <1>3, <2>3
  <2> QED
    BY <1>1, <2>1, <2>8, <2>9, <2>10, VarPrinted
<1> QED
  BY <1>6, <1>7


(***************************************************************************)
(* The steps of main before and behind the walk.                           *)
(***************************************************************************)
LEMMA QuietOwns ==
  ASSUME Inv, OwnInv,
         ParseOption \/ ParseAddress \/ Help \/ EndOfArgs \/ Open \/ LoadContext
           \/ Search \/ EndOfAddresses \/ NameOf \/ Sizes \/ EndOfVars \/ Finish
  PROVE  OwnInv'
<1>1. UNCHANGED <<job, types, linked, params, locals>>
  BY DEF ParseOption, ParseAddress, Help, EndOfArgs, Open, LoadContext, Search, EndOfAddresses, NameOf,
         Sizes, EndOfVars, Finish, UnchangedReport, cmd, loading, lists
<1>2. /\ pc \in {"args", "open", "context", "search", "name", "sizes", "print", "finish"}
      /\ pc' \notin Loading
  BY DEF ParseOption, ParseAddress, Help, EndOfArgs, Open, LoadContext, Search, EndOfAddresses, NameOf,
         Sizes, EndOfVars, Finish, Parsing, Loading
<1>3. params = <<>> /\ locals = <<>>
  <2>1. CASE EndOfVars
    BY <2>1 DEF EndOfVars
  <2>2. CASE ~EndOfVars
    <3>1. pc \in {"args", "open", "context", "search", "name", "sizes", "finish"}
      BY <2>2 DEF ParseOption, ParseAddress, Help, EndOfArgs, Open, LoadContext, Search, EndOfAddresses,
                  NameOf, Sizes, Finish, Parsing
    <3> QED
      BY <3>1 DEF OwnInv, Lists, InWalk
  <2> QED
    BY <2>1, <2>2
<1>4. \A o \in heap' : o \in heap \/ Role(o) = "frame base"
  <2>1. Role(Object("frame base", func, 0)) = "frame base"
    BY DEF Object, Role
  <2>2. heap' \subseteq heap \cup {Object("frame base", func, 0)}
    BY DEF ParseOption, ParseAddress, Help, EndOfArgs, Open, LoadContext, Search, EndOfAddresses, NameOf,
           Sizes, EndOfVars, Finish, UnchangedReport
  <2> QED
    BY <2>1, <2>2
<1>5. walk' = walk \/ Len(walk') = 1
  <2>1. CASE Sizes
    <3> DEFINE a == [die |-> Func, cur |-> Func, level |-> 0]
    <3> HIDE DEF a
    <3>1. walk' = walk \/ walk' = <<a>>
      BY <2>1 DEF Sizes, a
    <3> QED
      BY <3>1
  <2>2. CASE ~Sizes
    BY <2>2 DEF ParseOption, ParseAddress, Help, EndOfArgs, Open, LoadContext, Search, EndOfAddresses,
                NameOf, EndOfVars, Finish, UnchangedReport
  <2> QED
    BY <2>1, <2>2
<1>6. pc # "undefined" /\ pc \notin InWalk
  BY <1>2 DEF InWalk
<1> QED
  BY <1>1, <1>2, <1>3, <1>4, <1>5, <1>6, RestStep

LEMMA OutsideOwns ==
  ASSUME Inv, OwnInv, PrintOutside
  PROVE  OwnInv'
<1>1. UNCHANGED <<job, at, linked, params, locals, heap>> /\ pc' = "undefined"
  BY Outside
<1>2. HeapShape' /\ Lists'
  BY <1>1, HeapGrow, ListsGrow DEF OwnInv
<1> QED
  BY <1>1, <1>2 DEF OwnInv

LEMMA AbortOwns ==
  ASSUME Inv, OwnInv, Abort
  PROVE  OwnInv'
<1>1. /\ UNCHANGED <<job, types, linked, params, locals, heap, walk>>
      /\ pc = "context" /\ pc' = "aborted"
  BY DEF Abort, cmd, loading, lists
<1>2. pc # "undefined" /\ pc \notin InWalk /\ pc' \notin Loading /\ params = <<>> /\ locals = <<>>
  BY <1>1 DEF InWalk, Loading, OwnInv, Lists
<1> QED
  BY <1>1, <1>2, RestStep

LEMMA StutterOwns ==
  ASSUME Inv, OwnInv, UNCHANGED vars
  PROVE  OwnInv'
<1>1. UNCHANGED <<job, pc, at, walk, types, ret, linked, params, locals, heap>>
  BY DEF vars, cmd, place, loading, lists
<1>2. /\ Unit' = Unit /\ N' = N /\ NTypes' = NTypes /\ CurDie' = CurDie /\ Vectors' = Vectors
      /\ Top' = Top
  BY <1>1 DEF Unit, N, NTypes, CurDie, Here, Vectors, Top
<1>3. HeapShape => HeapShape'
  BY <1>1, SameObjects DEF HeapShape
<1>4. Lists => Lists'
  BY <1>1, <1>2 DEF Lists
<1>5. Behind => Behind'
  BY <1>1, <1>2 DEF Behind
<1>6. WalkNested => WalkNested'
  BY <1>1, <1>2 DEF WalkNested
<1>7. Belonging => Belonging'
  <2>1. /\ \A d : VarAt(d)' = VarAt(d) /\ LocationAt(d)' = LocationAt(d)
        /\ \A d, k : TypeAt(d, k)' = TypeAt(d, k)
        /\ Var' = Var
    BY <1>1, <1>2, Same DEF Var, Object
  <2> QED
    BY <1>1, <1>2, <2>1 DEF Belonging
<1>8. Running => Running'
  <2>1. \A k : Type(k)' = Type(k)
    BY <1>1, <1>2 DEF Type, Object
  <2> QED
    BY <1>1, <1>2, <2>1 DEF Running
<1> QED
  BY <1>1, <1>3, <1>4, <1>5, <1>6, <1>7, <1>8 DEF OwnInv

LEMMA InitOwns == SceneInit => OwnInv
<1> SUFFICES ASSUME SceneInit PROVE OwnInv
  OBVIOUS
<1>1. /\ pc = "args" /\ walk = <<>> /\ params = <<>> /\ locals = <<>> /\ types = <<>>
      /\ linked = {} /\ heap = {}
  BY DEF SceneInit, Init
<1>2. WalkNested
  BY <1>1 DEF WalkNested
<1>3. Running
  BY <1>1 DEF Running, Typing
<1>4. AtRest
  BY <1>1, <1>2, <1>3 DEF AtRest, Loading
<1> QED
  BY <1>4, AtRestInv

LEMMA NextOwns ==
  ASSUME Inv, OwnInv, [SceneNext]_sceneVars
  PROVE  OwnInv'
<1>1. CASE UNCHANGED vars
  BY <1>1, StutterOwns
<1>2. CASE Serve
  BY <1>2, QuietOwns DEF Serve
<1>3. CASE Abort
  BY <1>3, AbortOwns
<1>4. CASE Step
  <2>1. \/ ParseOption \/ ParseAddress \/ Help \/ EndOfArgs \/ Open \/ Search \/ EndOfAddresses
        \/ NameOf \/ Sizes \/ EndOfVars \/ Finish
        \/ Visit \/ Child \/ NextSibling
        \/ LoadVar \/ LoadType \/ TypeReturns \/ LoadLocation \/ DropVar
        \/ PrintParam \/ PrintLocal \/ PrintOutside
    BY <1>4 DEF Step
  <2> QED
    BY <2>1, QuietOwns, OutsideOwns, VisitOwns, ChildOwns, SiblingOwns, LoadVarOwns, LoadTypeOwns, TypeReturnsOwns,
       LocationOwns, DropOwns, PrintOwns
<1> QED
  BY <1>1, <1>2, <1>3, <1>4 DEF SceneNext, Main, File, sceneVars


-----------------------------------------------------------------------------
(***************************************************************************)
(* SingleOwner follows.                                                    *)
(***************************************************************************)
LEMMA VectorSet ==
  ASSUME Inv
  PROVE  ToSet(params) \cup ToSet(locals) = Vectors /\ DOMAIN params = 1 .. Len(params) /\ DOMAIN locals = 1 .. Len(locals)
<1>1. DOMAIN params = 1 .. Len(params) /\ DOMAIN locals = 1 .. Len(locals)
  BY DEF Inv, ListInv
<1> QED
  BY <1>1 DEF ToSet, Vectors, Elements

LEMMA One == \A x : IsFiniteSet({x}) /\ Cardinality({x}) = 1
BY FS_Singleton

\* A list names a variable once.
LEMMA Once ==
  ASSUME NEW l, NEW h, NEW a, NEW n \in Nat, ListOrder(l, h, a, n), Len(l) \in Nat, NEW i \in 1 .. Len(l)
  PROVE  {j \in 1 .. Len(l) : l[j] = l[i]} = {i}
<1> SUFFICES ASSUME NEW j \in 1 .. Len(l), l[j] = l[i], j # i PROVE FALSE
  OBVIOUS
<1>1. i < j \/ j < i
  OBVIOUS
<1>2. DieOf(l[i]) \in 1 .. n /\ DieOf(l[j]) \in 1 .. n
  BY DEF ListOrder
<1> QED
  BY <1>1, <1>2 DEF ListOrder

\* The owner of a variable is its vector, or the load that is running.
LEMMA VarOwner ==
  ASSUME Inv, OwnInv, pc # "undefined", NEW d \in 1 .. N, VarAt(d) \in heap
  PROVE  \E x : Owners(VarAt(d)) = {x}
<1> DEFINE o == VarAt(d)
           inParams == {i \in 1 .. Len(params) : params[i] = o}
           inLocals == {i \in 1 .. Len(locals) : locals[i] = o}
           loads == pc \in Loading /\ d = CurDie
<1>1. /\ o[1] = at /\ Role(o) = "var" /\ DieOf(o) = d
  BY DEF VarAt, Object, Role, DieOf
<1>2. DOMAIN params = 1 .. Len(params) /\ DOMAIN locals = 1 .. Len(locals) /\ Len(params) \in Nat /\ Len(locals) \in Nat
  BY VectorSet DEF Inv, ListInv
<1>3. Owners(o) = {<<"params", i>> : i \in inParams} \cup {<<"locals", i>> : i \in inLocals}
                    \cup (IF loads THEN {"load"} ELSE {})
  BY <1>1, <1>2 DEF Owners, Loading
<1>4. N \in Nat /\ Lists /\ Belonging
  BY UnitShape DEF Inv, PlaceInv, OwnInv
<1>5. o \in Vectors \/ loads
  BY <1>4 DEF Belonging
<1>6. loads => o \notin Vectors
  BY NotListed
<1>7. ASSUME NEW i \in 1 .. Len(params), params[i] = o PROVE \E x : Owners(o) = {x}
  <2>1. inParams = {i}
    BY <1>2, <1>4, <1>7, Once DEF Lists
  <2>2. inLocals = {}
    BY <1>4, <1>7 DEF Lists
  <2>3. ~loads
    BY <1>6, <1>7 DEF Vectors, Elements
  <2> HIDE DEF o, inParams, inLocals, loads
  <2>4. Owners(o) = {<<"params", i>>}
    BY <1>3, <2>1, <2>2, <2>3
  <2> QED
    BY <2>4
<1>8. ASSUME NEW i \in 1 .. Len(locals), locals[i] = o PROVE \E x : Owners(o) = {x}
  <2>1. inLocals = {i}
    BY <1>2, <1>4, <1>8, Once DEF Lists
  <2>2. inParams = {}
    BY <1>4, <1>8 DEF Lists
  <2>3. ~loads
    BY <1>6, <1>8 DEF Vectors, Elements
  <2> HIDE DEF o, inParams, inLocals, loads
  <2>4. Owners(o) = {<<"locals", i>>}
    BY <1>3, <2>1, <2>2, <2>3
  <2> QED
    BY <2>4
<1>9. CASE o \notin Vectors
  <2>1. inParams = {} /\ inLocals = {}
    BY <1>9 DEF Vectors, Elements
  <2>2. loads
    BY <1>5, <1>9
  <2> HIDE DEF o, inParams, inLocals, loads
  <2>3. Owners(o) = {"load"}
    BY <1>3, <2>1, <2>2
  <2> QED
    BY <2>3, Zenon DEF o
<1>10. CASE o \in Vectors
  BY <1>7, <1>8, <1>10 DEF Vectors, Elements
<1> QED
  BY <1>9, <1>10

\* The owner of a type is the variable or the type that points to it, or the
\* load that has made it.
LEMMA TypeOwner ==
  ASSUME Inv, OwnInv, pc # "undefined", NEW d \in 1 .. N, NEW k \in 1 .. NTypes, TypeAt(d, k) \in heap
  PROVE  \E x : Owners(TypeAt(d, k)) = {x}
<1> DEFINE o == TypeAt(d, k)
           listed == VarAt(d) \in Vectors
           hangs == k > 1 /\ TypeAt(d, k - 1) \in linked
           loads == pc \in Loading /\ d = CurDie /\ (k <= Len(types) \/ (pc = "location" /\ k = 1))
<1>1. /\ o[1] = at /\ Role(o) = "type" /\ DieOf(o) = d /\ o[4] = k
  BY DEF TypeAt, Object, Role, DieOf
<1>2. /\ <<o[1], "var", DieOf(o), 0>> = VarAt(d)
      /\ <<o[1], "type", DieOf(o), o[4] - 1>> = TypeAt(d, k - 1)
  BY <1>1 DEF VarAt, TypeAt, Object
<1> HIDE DEF o
<1>3. Owners(o) = (IF k = 1 /\ listed THEN {"var"} ELSE {}) \cup (IF hangs THEN {"base"} ELSE {})
                    \cup (IF loads THEN {"load"} ELSE {})
  BY <1>1, <1>2, VectorSet DEF Owners, Loading
<1>4. /\ N \in Nat /\ NTypes \in Nat /\ Lists /\ Belonging /\ Running /\ HeapShape /\ Len(types) \in Nat
  BY UnitShape, TypesShape DEF Inv, PlaceInv, OwnInv, Running
<1>5. CASE listed
  <2>1. ~loads
    BY <1>5, NotListed
  <2>2. \A j \in 1 .. (k - 1) : TypeAt(d, j) \in linked
    BY <1>4, <1>5 DEF Belonging
  <2>3. k = 1 \/ hangs
    BY <2>2
  <2>4. k = 1 => ~hangs
    OBVIOUS
  <2> HIDE DEF listed, hangs, loads
  <2>5. Owners(o) = {"var"} \/ Owners(o) = {"base"}
    BY <1>3, <1>5, <2>1, <2>3, <2>4
  <2> QED
    BY <2>5, Zenon DEF o
<1>6. CASE ~listed
  <2>1. pc \in Typing /\ d = CurDie /\ pc \in Loading
    BY <1>4, <1>6 DEF Belonging, Typing, Loading
  <2>2. /\ \A m \in 1 .. NTypes : Type(m) \in heap => \A j \in Top .. (m - 1) : Type(j) \in linked
        /\ \A j \in 1 .. NTypes : Type(j) \in linked => Top <= j
        /\ Type(k) \in heap
    BY <1>4, <2>1, Objects DEF Running
  <2>3. Top \in Nat /\ Top > 0
    BY <1>4, <2>1 DEF Top, Running, Typing
  <2>4. CASE k <= Top
    <3>1. ~hangs
      <4>1. k > 1 => k - 1 \in 1 .. NTypes /\ ~(Top <= k - 1)
        BY <1>4, <2>3, <2>4
      <4> QED
        BY <2>1, <2>2, <4>1, Objects
    <3>2. loads
      BY <1>4, <2>1, <2>3, <2>4 DEF Top
    <3> HIDE DEF listed, hangs, loads
    <3>3. Owners(o) = {"load"}
      BY <1>3, <1>6, <3>1, <3>2
    <3> QED
      BY <3>3, Zenon DEF o
  <2>5. CASE ~(k <= Top)
    <3>1. hangs
      <4>1. k > 1 /\ k - 1 \in Top .. (k - 1)
        BY <1>4, <2>3, <2>5
      <4> QED
        BY <2>1, <2>2, <4>1, Objects
    <3>2. ~loads
      <4>1. CASE pc = "location"
        <5>1. Len(types) = 0
          BY <2>1, <4>1, <1>4 DEF Running
        <5> QED
          BY <4>1, <2>5, <5>1 DEF Top
      <4>2. CASE pc # "location"
        BY <4>2, <2>5 DEF Top
      <4> QED
        BY <4>1, <4>2
    <3> HIDE DEF listed, hangs, loads
    <3>3. Owners(o) = {"base"}
      BY <1>3, <1>6, <3>1, <3>2
    <3> QED
      BY <3>3, Zenon DEF o
  <2> QED
    BY <2>4, <2>5
<1> QED
  BY <1>5, <1>6 DEF o


LEMMA OwnersOne ==
  ASSUME Inv, OwnInv, pc # "undefined", NEW o \in heap
  PROVE  \E x : Owners(o) = {x}
<1>1. HeapShape /\ Belonging
  BY DEF OwnInv
<1>2. CASE Role(o) = "frame base"
  <2>1. Owners(o) = {"main"}
    BY <1>2 DEF Owners
  <2> QED
    BY <2>1, Zenon
<1>3. ASSUME NEW d \in 1 .. N, o = LocationAt(d) PROVE \E x : Owners(o) = {x}
  <2>1. Role(o) = "location" /\ <<o[1], "var", DieOf(o), 0>> = VarAt(d)
    BY <1>3 DEF LocationAt, VarAt, Object, Role, DieOf
  <2>2. VarAt(d) \in Vectors
    BY <1>1, <1>3 DEF Belonging
  <2>3. Owners(o) = {"var"}
    BY <2>1, <2>2, VectorSet DEF Owners
  <2> QED
    BY <2>3, Zenon
<1>4. ASSUME NEW d \in 1 .. N, o = VarAt(d) PROVE \E x : Owners(o) = {x}
  BY <1>4, VarOwner
<1>5. ASSUME NEW d \in 1 .. N, NEW k \in 1 .. NTypes, o = TypeAt(d, k) PROVE \E x : Owners(o) = {x}
  BY <1>5, TypeOwner
<1>6. OnHeap(o)
  BY <1>1 DEF HeapShape
<1> QED
  BY <1>2, <1>3, <1>4, <1>5, <1>6 DEF OnHeap

LEMMA OwnSingle == Inv /\ OwnInv => SingleOwner
<1> SUFFICES ASSUME Inv, OwnInv PROVE SingleOwner
  OBVIOUS
<1>1. pc # "undefined" => \A o \in heap : Cardinality(Owners(o)) = 1
  BY OwnersOne, One
<1>2. ToSet(params) \cup ToSet(locals) \cup linked \subseteq heap
  BY VectorSet, VectorDies DEF OwnInv, HeapShape
<1>3. ASSUME NEW o \in linked PROVE <<o[1], "type", DieOf(o), o[4] + 1>> \in heap
  <2>1. PICK d \in 1 .. N, k \in 1 .. NTypes : o = TypeAt(d, k) /\ TypeAt(d, k + 1) \in heap
    BY Zenon DEF OwnInv, HeapShape, Linked
  <2> QED
    BY <2>1 DEF TypeAt, Object, DieOf
<1> QED
  BY <1>1, <1>2, <1>3 DEF SingleOwner

Ownership == Inv /\ OwnInv

\* Every variable, type and location of the report has one owner, which deletes
\* it: SingleOwner holds of dwarf2line with a context file of any content,
\* whichever calls of libdwarf fail.
THEOREM ReportOwners == SceneSpec => []SingleOwner
<1>1. SceneInit => Ownership
  BY InitInv, InitOwns DEF Ownership
<1>2. Ownership /\ [SceneNext]_sceneVars => Ownership'
  BY NextInv, NextOwns DEF Ownership
<1>3. Ownership => SingleOwner
  BY OwnSingle DEF Ownership
<1> QED
  BY <1>1, <1>2, <1>3, PTL DEF SceneSpec


-----------------------------------------------------------------------------
(***************************************************************************)
(* ReportLeaks: why each handle is open.                                   *)
(***************************************************************************)
LEMMA SameHandles ==
  ASSUME UNCHANGED <<job, at, func>>
  PROVE  Unit' = Unit /\ Cu' = Cu /\ Func' = Func /\ \A d : Ref(d)' = Ref(d)
BY DEF Unit, Cu, Func, Object, Ref

\* A handle stays open for the same reason as the walk stays where it is.
LEMMA OpenSame ==
  ASSUME UNCHANGED <<job, at, func, walk>>, NEW h, OpenHandle(h), pc # "name", pc # "undefined",
         Role(h) \in {"var", "type"} => h \in heap',
         Reporting => Reporting' \/ job.libFails \/ pc' = "undefined" \/ h \notin {Cu, Func}
  PROVE  OpenHandle(h)'
<1>1. Unit' = Unit /\ Cu' = Cu /\ Func' = Func
  BY SameHandles
<1>2. CASE Role(h) = "child"
  BY <1>2 DEF OpenHandle
<1>3. CASE Role(h) = "sibling"
  <2>1. \/ job.libFails \/ ~HasSibling(Unit, DieOf(h))
        \/ \E i \in 1 .. Len(walk) : h = walk[i].cur
    BY <1>3 DEF OpenHandle
  <2> QED
    BY <1>1, <1>3, <2>1 DEF OpenHandle
<1>4. CASE Role(h) \in {"cu", "func"}
  <2>1. job.libFails \/ (Reporting /\ h \in {Cu, Func})
    BY <1>4 DEF OpenHandle
  <2> QED
    BY <1>1, <1>4, <2>1 DEF OpenHandle
<1>5. CASE Role(h) \in {"var", "type"}
  BY <1>5 DEF OpenHandle
<1> QED
  BY <1>2, <1>3, <1>4, <1>5 DEF OpenHandle

\* The steps of main apart from the search and the name; the loading and the
\* deletion of a variable.
LEMMA QuietOpen ==
  ASSUME Inv, OpenInv,
         ParseOption \/ ParseAddress \/ Help \/ EndOfArgs \/ Open \/ LoadContext
           \/ EndOfAddresses \/ EndOfVars \/ Sizes \/ Visit \/ LoadLocation
  PROVE  OpenInv'
<1>1. /\ UNCHANGED <<job, at, func, live>> /\ (IF Sizes THEN walk = <<>> ELSE walk' = walk)
      /\ heap \subseteq heap'
  BY DEF ParseOption, ParseAddress, Help, EndOfArgs, Open, LoadContext, EndOfAddresses, EndOfVars, Sizes,
         Visit, LoadLocation, UnchangedReport, cmd, place, Inv, WalkInv, InWalk
<1>2. pc \notin {"name", "undefined"} /\ (Reporting => Reporting' \/ Sizes)
  BY DEF ParseOption, ParseAddress, Help, EndOfArgs, Open, LoadContext, EndOfAddresses, EndOfVars, Sizes,
         Visit, LoadLocation, Parsing, Reporting
<1>3. CASE ~Sizes
  BY <1>1, <1>2, <1>3, OpenSame DEF OpenInv, OpenHandle
<1>4. CASE Sizes
  <2> SUFFICES ASSUME NEW h \in live PROVE OpenHandle(h)'
    BY <1>1, <1>4 DEF OpenInv
  <2>1. Unit' = Unit /\ Cu' = Cu /\ Func' = Func
    BY <1>1, <1>4, SameHandles
  <2>2. OpenHandle(h) /\ ~(\E i \in 1 .. Len(walk) : h = walk[i].cur)
    BY <1>1, <1>2, <1>4, Empty DEF OpenInv
  <2>3. Reporting' \/ job.libFails
    BY <1>4 DEF Sizes, Call, Reporting
  <2> QED
    BY <1>1, <1>2, <1>4, <2>1, <2>2, <2>3 DEF OpenHandle
<1> QED
  BY <1>3, <1>4

LEMMA OutsideOpen ==
  ASSUME OpenInv, PrintOutside
  PROVE  OpenInv'
<1>1. UNCHANGED <<job, at, func, walk, live, heap>> /\ pc = "print" /\ pc' = "undefined"
  BY Outside
<1> SUFFICES ASSUME NEW h \in live PROVE OpenHandle(h)'
  BY <1>1 DEF OpenInv
<1>2. OpenHandle(h) /\ (Role(h) \in {"var", "type"} => h \in heap')
  BY <1>1 DEF OpenInv, OpenHandle
<1> QED
  BY <1>1, <1>2, OpenSame

LEMMA SearchOpen ==
  ASSUME Inv, OpenInv, Search
  PROVE  OpenInv'
<1>1. /\ pc = "search" /\ job' = job /\ heap' = heap /\ walk = <<>> /\ walk' = walk
      /\ ~Reporting
  BY DEF Search, cmd, Inv, WalkInv, InWalk, Reporting
<1>2. Unit' = Unit
  BY <1>1 DEF Unit
<1>3. ASSUME NEW h \in live PROVE OpenHandle(h)'
  <2>1. OpenHandle(h)
    BY DEF OpenInv
  <2> QED
    BY <1>1, <1>2, <2>1, Empty DEF OpenHandle
<1>4. ASSUME func' # NoDie PROVE OpenHandle(Cu)' /\ OpenHandle(Func)'
  <2>1. Reporting'
    BY <1>4 DEF Search, Reporting
  <2>2. Role(Cu') = "cu" /\ Role(Func') = "func"
    BY DEF Cu, Func, Object, Role
  <2> QED
    BY <2>1, <2>2 DEF OpenHandle
<1>5. live' = live \/ (func' # NoDie /\ live' = live \cup {Cu', Func'})
  BY DEF Search, Cu, Func, Object
<1> QED
  BY <1>3, <1>4, <1>5 DEF OpenInv


LEMMA AppendSeq ==
  ASSUME NEW S, NEW s \in Seq(S), NEW e
  PROVE  /\ Len(s) \in Nat /\ Len(Append(s, e)) = Len(s) + 1 /\ Append(s, e)[Len(s) + 1] = e
         /\ \A i \in 1 .. Len(s) : Append(s, e)[i] = s[i]
<1> DEFINE T == S \cup {e}
<1>1. s \in Seq(T) /\ e \in T
  OBVIOUS
<1> HIDE DEF T
<1> QED
  BY <1>1

\* The DIEs that getFunctionName has opened are closed as it returns.
LEMMA NameOpen ==
  ASSUME Inv, OpenInv, NameOf
  PROVE  OpenInv'
<1> DEFINE Gone == {Ref(d) : d \in ToSet(refs)}
<1>1. /\ pc = "name" /\ UNCHANGED <<job, at, func, walk, heap>> /\ Reporting' /\ walk = <<>>
      /\ refs \in Seq(1 .. N)
  BY DEF NameOf, cmd, place, Reporting, Inv, WalkInv, RefsInv, InWalk
<1>2. Unit' = Unit /\ Cu' = Cu /\ Func' = Func /\ \A d : Ref(d)' = Ref(d)
  BY <1>1, SameHandles
<1>3. \A i \in 1 .. Len(refs) : Ref(refs[i]) \in Gone
  <2>1. DOMAIN refs = 1 .. Len(refs)
    BY <1>1
  <2> QED
    BY <2>1 DEF ToSet
<1> HIDE DEF Gone
<1>4. ASSUME NEW h \in live, ~(\E i \in 1 .. Len(refs) : h = Ref(refs[i])) PROVE OpenHandle(h)'
  <2>1. OpenHandle(h)
    BY DEF OpenInv
  <2>2. ~(\E i \in 1 .. Len(walk) : h = walk[i].cur)
    BY <1>1, Empty
  <2> QED
    BY <1>1, <1>2, <1>4, <2>1, <2>2 DEF OpenHandle
<1>5. CASE live' = live \ Gone
  BY <1>3, <1>4, <1>5 DEF OpenInv
<1>6. ASSUME NEW spec, refs' = Append(refs, spec), live' = live \cup {Ref(spec)}, pc' = "name"
      PROVE  OpenInv'
  <2>1. /\ Len(refs') = Len(refs) + 1 /\ refs'[Len(refs) + 1] = spec /\ Len(refs) \in Nat
        /\ \A i \in 1 .. Len(refs) : refs'[i] = refs[i]
    BY <1>1, <1>6, AppendSeq
  <2>2. 1 .. Len(refs) \subseteq 1 .. Len(refs') /\ Len(refs) + 1 \in 1 .. Len(refs')
    BY <2>1
  <2>3. ASSUME NEW h \in live' PROVE OpenHandle(h)'
    <3>1. CASE \E i \in 1 .. Len(refs') : h = Ref(refs'[i])
      BY <1>2, <1>6, <3>1 DEF OpenHandle
    <3>2. CASE ~(\E i \in 1 .. Len(refs') : h = Ref(refs'[i]))
      <4>1. h \in live /\ ~(\E i \in 1 .. Len(refs) : h = Ref(refs[i]))
        BY <1>6, <2>1, <2>2, <2>3, <3>2
      <4> QED
        BY <1>4, <4>1
    <3> QED
      BY <3>1, <3>2
  <2> QED
    BY <2>3 DEF OpenInv
<1>7. \/ live' = live \ Gone
      \/ \E spec : refs' = Append(refs, spec) /\ live' = live \cup {Ref(spec)} /\ pc' = "name"
  BY <1>1 DEF NameOf, Gone
<1> QED
  BY <1>5, <1>6, <1>7

LEMMA FinishOpen ==
  ASSUME Inv, OpenInv, Finish
  PROVE  OpenInv'
<1>1. /\ pc = "finish" /\ UNCHANGED <<job, at, func, walk, heap>> /\ live' = live \ {Cu, Func}
  BY DEF Finish, cmd, place
<1> SUFFICES ASSUME NEW h \in live' PROVE OpenHandle(h)'
  BY DEF OpenInv
<1>2. OpenHandle(h) /\ h \notin {Cu, Func}
  BY <1>1 DEF OpenInv
<1>3. Role(h) \in {"var", "type"} => h \in heap'
  BY <1>1, <1>2 DEF OpenHandle
<1> QED
  BY <1>1, <1>2, <1>3, OpenSame

\* What is opened for a variable or a type has just been made; what is deleted
\* closes its handle.
LEMMA LoadOpen ==
  ASSUME Inv, OwnInv, OpenInv, LoadVar \/ LoadType \/ TypeReturns \/ DropVar \/ PrintParam \/ PrintLocal
  PROVE  OpenInv'
<1>1. /\ UNCHANGED <<job, at, func, walk>> /\ pc \notin {"name", "undefined"}
      /\ Reporting => Reporting' \/ pc' = "undefined"
  BY DEF LoadVar, LoadType, TypeReturns, DropVar, PrintParam, PrintLocal, PrintVar, cmd, place, Reporting
<1>2. ASSUME NEW h \in live, h \in heap => h \in heap' PROVE OpenHandle(h)'
  <2>1. OpenHandle(h)
    BY DEF OpenInv
  <2>2. Role(h) \in {"var", "type"} => h \in heap'
    BY <1>1, <1>2, <2>1 DEF OpenHandle
  <2> QED
    BY <1>1, <2>1, <2>2, OpenSame
<1>3. ASSUME NEW o, o \in heap, heap \subseteq heap', live' \subseteq live \cup {o}, Role(o) \in {"var", "type"}
      PROVE  OpenInv'
  <2>1. OpenHandle(o)'
    BY <1>3 DEF OpenHandle
  <2> QED
    BY <1>2, <1>3, <2>1 DEF OpenInv
<1>4. ASSUME NEW gone, heap' = heap \ gone, live' = live \ gone
      PROVE  OpenInv'
  BY <1>2, <1>4 DEF OpenInv
<1>5. CASE LoadVar
  <2>1. Var \in heap /\ Role(Var) = "var"
    BY <1>5, Objects DEF LoadVar, OwnInv, Belonging, Loading
  <2>2. heap \subseteq heap' /\ live' \subseteq live \cup {Var}
    BY <1>5 DEF LoadVar, TagLoad
  <2> QED
    BY <1>3, <2>1, <2>2
<1>6. CASE LoadType
  <2>1. pc = "type"
    BY <1>6 DEF LoadType
  <2>2. Len(types) \in 1 .. NTypes /\ \A j \in 1 .. Len(types) : Type(j) \in heap
    BY <2>1, TypesOnHeap
  <2>3. Type(Len(types)) \in heap /\ Role(Type(Len(types))) = "type"
    <3>1. Len(types) \in 1 .. Len(types)
      BY <2>2
    <3> QED
      BY <2>2, <3>1, TypeRole
  <2>4. heap \subseteq heap' /\ live' \subseteq live \cup {Type(Len(types))}
    BY <1>6 DEF LoadType, TagLoad
  <2> QED
    BY <1>3, <2>3, <2>4
<1>7. CASE TypeReturns
  <2>1. \E gone : heap' = heap \ gone /\ live' = live \ gone
    <3>1. CASE ret
      <4>1. heap' = heap \ {} /\ live' = live \ {}
        BY <1>7, <3>1 DEF TypeReturns
      <4> QED
        BY <4>1
    <3>2. CASE ~ret
      BY <1>7, <3>2 DEF TypeReturns, TypeFails
    <3> QED
      BY <3>1, <3>2
  <2> QED
    BY <1>4, <2>1
<1>8. CASE DropVar
  <2>1. \E gone : heap' = heap \ gone /\ live' = live \ gone
    <3>1. CASE UNCHANGED <<heap, live>>
      <4>1. heap' = heap \ {} /\ live' = live \ {}
        BY <3>1
      <4> QED
        BY <4>1
    <3>2. CASE ~UNCHANGED <<heap, live>>
      BY <1>8, <3>2 DEF DropVar
    <3> QED
      BY <3>1, <3>2
  <2> QED
    BY <1>4, <2>1
<1>9. CASE PrintParam \/ PrintLocal
  BY <1>4, <1>9 DEF PrintParam, PrintLocal, PrintVar
<1> QED
  BY <1>5, <1>6, <1>7, <1>8, <1>9


\* An activation returns: the DIE it stands at has no sibling, or a call failed.
LEMMA LeaveOpen ==
  ASSUME Inv, OpenInv, Leave, pc \in {"child", "sibling"}, job.libFails \/ ~HasSibling(Unit, CurDie),
         UNCHANGED <<job, at, func, live, heap>>
  PROVE  OpenInv'
<1> DEFINE k == Len(walk)
<1>1. /\ N \in Nat /\ k \in Nat /\ k > 0 /\ walk \in Seq(Activations(N)) /\ CurDie = DieOf(walk[k].cur)
  BY WalkShape DEF InWalk
<1>2. Len(walk') = k - 1 /\ \A i \in 1 .. (k - 1) : walk'[i] = walk[i]
  BY <1>1, FrontCurs DEF Leave
<1>3. Unit' = Unit /\ Cu' = Cu /\ Func' = Func /\ Reporting'
  BY SameHandles DEF Leave, Reporting
<1>4. ASSUME NEW h \in live PROVE OpenHandle(h)'
  <2>1. OpenHandle(h)
    BY DEF OpenInv
  <2>2. CASE Role(h) = "sibling"
    <3>1. CASE job.libFails \/ ~HasSibling(Unit, DieOf(h))
      BY <1>3, <2>2, <3>1 DEF OpenHandle
    <3>2. ASSUME NEW i \in 1 .. k, h = walk[i].cur PROVE OpenHandle(h)'
      <4>1. CASE i = k
        BY <1>1, <1>3, <2>2, <3>2, <4>1 DEF OpenHandle
      <4>2. CASE i # k
        <5>1. i \in 1 .. (k - 1)
          BY <1>1, <4>2
        <5> QED
          BY <1>2, <2>2, <3>2, <5>1 DEF OpenHandle
      <4> QED
        BY <4>1, <4>2
    <3> QED
      BY <2>1, <2>2, <3>1, <3>2 DEF OpenHandle
  <2>3. CASE Role(h) # "sibling"
    BY <1>3, <2>1, <2>3 DEF OpenHandle
  <2> QED
    BY <2>2, <2>3
<1> QED
  BY <1>4 DEF OpenInv

LEMMA ChildOpen ==
  ASSUME Inv, OpenInv, Child
  PROVE  OpenInv'
<1> DEFINE k == Len(walk)
<1>1. pc = "child" /\ UNCHANGED <<job, at, func, heap>>
  BY DEF Child, cmd, place
<1>2. CASE job.libFails /\ Leave /\ UNCHANGED live
  BY <1>1, <1>2, LeaveOpen
<1>3. /\ N \in Nat /\ k \in Nat /\ k > 0 /\ walk \in Seq(Activations(N))
  BY <1>1, WalkShape DEF InWalk
<1>4. Unit' = Unit /\ Cu' = Cu /\ Func' = Func
  BY <1>1, SameHandles
<1>5. ASSUME NEW h \in live, pc' \in {"visit", "sibling"},
             Len(walk') >= k, \A i \in 1 .. k : walk'[i].cur = walk[i].cur, Len(walk') \in Nat
      PROVE  OpenHandle(h)'
  <2>1. OpenHandle(h) /\ Reporting'
    BY <1>5 DEF OpenInv, Reporting
  <2>2. \A i \in 1 .. k : i \in 1 .. Len(walk')
    BY <1>3, <1>5
  <2>3. CASE Role(h) = "sibling"
    BY <1>1, <1>4, <1>5, <2>1, <2>2, <2>3 DEF OpenHandle
  <2>4. CASE Role(h) # "sibling"
    BY <1>1, <1>4, <2>1, <2>4 DEF OpenHandle
  <2> QED
    BY <2>3, <2>4
<1>6. CASE pc' = "sibling" /\ UNCHANGED <<walk, live>>
  BY <1>3, <1>5, <1>6 DEF OpenInv
<1>7. ASSUME NEW h, h = Object("child", FirstChild(CurDie), 0), live' = live \cup {h}, Descend(h)
      PROVE  OpenInv'
  <2>1. Role(h) = "child"
    BY <1>7 DEF Object, Role
  <2>2. pc' \in {"visit", "sibling"}
    BY <1>7 DEF Descend
  <2>3. Len(walk') \in Nat /\ Len(walk') >= k /\ \A i \in 1 .. k : walk'[i].cur = walk[i].cur
    <3>1. CASE walk' = walk
      BY <1>3, <3>1
    <3>2. CASE walk' # walk
      <4>1. walk' = Append([walk EXCEPT ![k].level = walk[k].level + 1],
                           [die |-> h, cur |-> h, level |-> Here.level + 1])
        BY <1>3, <1>7, <3>2 DEF Descend
      <4>2. Len(walk') = k + 1 /\ \A i \in 1 .. k : walk'[i].cur = walk[i].cur
        BY <1>3, <4>1, PushedCurs
      <4> QED
        BY <1>3, <4>2
    <3> QED
      BY <3>1, <3>2
  <2>4. OpenHandle(h)'
    BY <2>1 DEF OpenHandle
  <2> QED
    BY <1>5, <1>7, <2>2, <2>3, <2>4 DEF OpenInv
<1> QED
  BY <1>2, <1>6, <1>7 DEF Child

LEMMA SiblingOpen ==
  ASSUME Inv, OpenInv, NextSibling
  PROVE  OpenInv'
<1> DEFINE k == Len(walk)
<1>1. pc = "sibling" /\ UNCHANGED <<job, at, func, heap>>
  BY DEF NextSibling, cmd, place
<1>2. CASE (job.libFails \/ ~HasSibling(Unit, CurDie)) /\ Leave /\ UNCHANGED live
  BY <1>1, <1>2, LeaveOpen
<1>3. /\ N \in Nat /\ k \in Nat /\ k > 0 /\ walk \in Seq(Activations(N)) /\ Here = walk[k]
  BY <1>1, WalkShape, CurShape DEF InWalk
<1>4. Unit' = Unit /\ Cu' = Cu /\ Func' = Func
  BY <1>1, SameHandles
<1>5. ASSUME NEW h, h = Object("sibling", Sibling(Unit, CurDie), 0), MoveTo(h)
      PROVE  OpenInv'
  <2>1. /\ walk' = [walk EXCEPT ![k].cur = h] /\ Role(h) = "sibling"
        /\ live' = (live \cup {h}) \ (IF Here.cur # Here.die THEN {Here.cur} ELSE {})
        /\ Reporting'
    BY <1>5 DEF MoveTo, Object, Role, Reporting
  <2>2. Len(walk') = k /\ walk'[k].cur = h /\ \A i \in 1 .. (k - 1) : walk'[i] = walk[i]
    BY <1>3, <2>1, MovedCurs
  <2>3. OpenHandle(h)'
    BY <1>3, <2>1, <2>2 DEF OpenHandle
  <2>4. ASSUME NEW g \in live, g \in live' PROVE OpenHandle(g)'
    <3>1. OpenHandle(g)
      BY DEF OpenInv
    <3>2. CASE Role(g) = "sibling"
      <4>1. CASE job.libFails \/ ~HasSibling(Unit, DieOf(g))
        BY <1>1, <1>4, <3>2, <4>1 DEF OpenHandle
      <4>2. ASSUME NEW i \in 1 .. k, g = walk[i].cur PROVE OpenHandle(g)'
        <5>1. CASE i = k /\ g # h
          <6>1. OnOpen(walk[k], live)
            BY <1>3 DEF Inv, WalkInv, WalkOK
          <6>2. Here.cur # Here.die
            BY <1>3, <3>2, <4>2, <5>1, <6>1 DEF OnOpen
          <6> QED
            BY <1>3, <2>1, <2>4, <4>2, <5>1, <6>2
        <5>2. CASE i # k
          <6>1. i \in 1 .. (k - 1) /\ i \in 1 .. Len(walk')
            BY <1>3, <2>2, <5>2
          <6> QED
            BY <2>2, <3>2, <4>2, <6>1 DEF OpenHandle
        <5> QED
          BY <2>3, <5>1, <5>2
      <4>3. \/ job.libFails \/ ~HasSibling(Unit, DieOf(g))
            \/ \E i \in 1 .. k : g = walk[i].cur
        BY <1>1, <1>3, <3>1, <3>2 DEF OpenHandle
      <4> QED
        BY <4>1, <4>2, <4>3
    <3>3. CASE Role(g) # "sibling"
      BY <1>1, <1>4, <2>1, <3>1, <3>3 DEF OpenHandle
    <3> QED
      BY <3>2, <3>3
  <2> QED
    BY <2>1, <2>3, <2>4 DEF OpenInv
<1> QED
  BY <1>2, <1>5 DEF NextSibling

LEMMA StutterOpen ==
  ASSUME Inv, OpenInv, UNCHANGED vars
  PROVE  OpenInv'
<1>1. UNCHANGED <<job, pc, at, func, refs, walk, live, heap>>
  BY DEF vars, cmd, place, naming
<1>2. Unit' = Unit /\ Cu' = Cu /\ Func' = Func /\ \A d : Ref(d)' = Ref(d)
  BY <1>1, SameHandles
<1>3. Reporting' <=> Reporting
  BY <1>1 DEF Reporting
<1> QED
  BY <1>1, <1>2, <1>3 DEF OpenInv, OpenHandle

LEMMA NextOpen ==
  ASSUME Inv, OwnInv, OpenInv, [SceneNext]_sceneVars
  PROVE  OpenInv'
<1>1. CASE UNCHANGED vars
  BY <1>1, StutterOpen
<1>2. CASE Serve
  BY <1>2, QuietOpen DEF Serve
<1>3. CASE Abort
  <2>1. /\ UNCHANGED <<job, at, func, walk, heap, live>>
        /\ pc = "context" /\ pc' = "aborted" /\ ~Reporting
    BY <1>3 DEF Abort, cmd, place, Reporting
  <2> QED
    BY <2>1, OpenSame DEF OpenInv, OpenHandle
<1>4. CASE Step
  <2>1. \/ ParseOption \/ ParseAddress \/ Help \/ EndOfArgs \/ Open \/ EndOfAddresses
        \/ EndOfVars \/ Sizes \/ Visit \/ LoadLocation
        \/ Search \/ NameOf \/ Finish \/ Child \/ NextSibling
        \/ LoadVar \/ LoadType \/ TypeReturns \/ DropVar \/ PrintParam \/ PrintLocal \/ PrintOutside
    BY <1>4 DEF Step
  <2> QED
    BY <2>1, QuietOpen, OutsideOpen, SearchOpen, NameOpen, FinishOpen, ChildOpen, SiblingOpen, LoadOpen
<1> QED
  BY <1>1, <1>2, <1>3, <1>4 DEF SceneNext, Main, File, sceneVars

LEMMA OpenLeaks == Inv /\ OwnInv /\ OpenInv => ReportLeaks
<1> SUFFICES ASSUME Inv, OwnInv, OpenInv, pc \in {"search", "exit"}
             PROVE  /\ \A o \in heap : Role(o) = "frame base"
                    /\ \A h \in live :
                         /\ Role(h) \in {"child", "sibling", "cu", "func"}
                         /\ Role(h) \in {"cu", "func"} => job.libFails
                         /\ Role(h) = "sibling" => job.libFails \/ ~HasSibling(Unit, DieOf(h))
  BY DEF ReportLeaks
<1>1. /\ pc # "undefined" /\ pc # "name" /\ pc \notin InWalk /\ walk = <<>> /\ ~Reporting
      /\ params = <<>> /\ locals = <<>>
  BY DEF InWalk, Reporting, OwnInv, Lists, Inv, WalkInv
<1>2. \A o \in heap : Role(o) = "frame base"
  BY <1>1, RestHeap
<1>3. ASSUME NEW h \in live
      PROVE  /\ Role(h) \in {"child", "sibling", "cu", "func"}
             /\ Role(h) \in {"cu", "func"} => job.libFails
             /\ Role(h) = "sibling" => job.libFails \/ ~HasSibling(Unit, DieOf(h))
  <2>1. OpenHandle(h)
    BY DEF OpenInv
  <2>2. ~(\E i \in 1 .. Len(walk) : h = walk[i].cur)
    BY <1>1, Empty
  <2> QED
    BY <1>1, <1>2, <2>1, <2>2 DEF OpenHandle
<1> QED
  BY <1>2, <1>3

Accounts == Inv /\ OwnInv /\ OpenInv

\* No variable, type or reference leaks, whichever calls of libdwarf fail: an
\* address leaves nothing behind but its frame base and the handles that
\* ReportLeaks lists.
THEOREM LeaksKnown == SceneSpec => []ReportLeaks
<1>1. SceneInit => Accounts
  <2>1. SceneInit => OpenInv
    BY DEF SceneInit, Init, OpenInv
  <2> QED
    BY <2>1, InitInv, InitOwns DEF Accounts
<1>2. Accounts /\ [SceneNext]_sceneVars => Accounts'
  BY NextInv, NextOwns, NextOpen DEF Accounts
<1>3. Accounts => ReportLeaks
  BY OpenLeaks DEF Accounts
<1> QED
  BY <1>1, <1>2, <1>3, PTL DEF SceneSpec

=============================================================================
