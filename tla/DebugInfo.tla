------------------------------ MODULE DebugInfo ------------------------------
(***************************************************************************)
(* The .debug_info section as the searcher reads it through libdwarf, and  *)
(* the pure decisions the searcher takes on one DIE.                       *)
(*                                                                         *)
(* DIEs are numbered 1 .. n in the order of their offsets, which is the    *)
(* preorder of the tree: a DIE comes before its children, and the subtree  *)
(* of d is the interval d .. last[d].  A section `info` has                *)
(*   last, parent  the shape; the parent of the root of a CU is 0          *)
(*   die           the attributes of each DIE:                             *)
(*     tag         "cu" (compile, partial or type unit), "subprogram"      *)
(*                 (also inlined_subroutine) or "other"                    *)
(*     pc          DW_AT_low_pc and DW_AT_high_pc, or NoPc                 *)
(*     ranges      DW_AT_ranges of a CU root with its base, or NoRanges    *)
(***************************************************************************)
EXTENDS Integers, Sequences

NoDie == 0

\* DW_AT_low_pc and DW_AT_high_pc: `form` is the class of the high_pc form.
\* A missing attribute is the whole pair missing: getLowAndHighPc wants both.
NoPc == [low |-> 0, high |-> 0, form |-> "absent"]

\* No DW_AT_ranges on the DIE.
NoRanges == [present |-> FALSE, entries |-> <<>>, base |-> 0, basePresent |-> FALSE]

PcAttributes == [low: Nat, high: Nat, form: {"address", "constant", "absent"}]

RangeLists ==
  [present: BOOLEAN, base: Nat, basePresent: BOOLEAN,
   entries: Seq([type: {"entry", "selection", "end", "unknown"}, addr1: Nat, addr2: Nat])]

(***************************************************************************)
(* Shape and WellFormed are what libdwarf guarantees of a section it could *)
(* parse: subtrees nest, and only the roots of CUs carry a CU tag.         *)
(***************************************************************************)
Size(info) == Len(info.die)

Dies(info) == 1 .. Size(info)

Shape(info) ==
  /\ info.last \in [Dies(info) -> Dies(info)]
  /\ info.parent \in [Dies(info) -> 0 .. Size(info)]
  /\ \A d \in Dies(info) :
       /\ d <= info.last[d]
       /\ info.parent[d] < d
       /\ info.parent[d] # NoDie => d <= info.last[info.parent[d]]
  /\ \A a, d \in Dies(info) :
       a < d /\ d <= info.last[a] =>
         info.parent[d] # NoDie /\ a <= info.parent[d] /\ info.last[d] <= info.last[a]

WellFormed(info) ==
  /\ info.die \in Seq([tag: {"cu", "subprogram", "other"}, pc: PcAttributes,
                       ranges: RangeLists])
  /\ Shape(info)
  /\ \A d \in Dies(info) : info.die[d].tag = "cu" <=> info.parent[d] = NoDie

HasChild(info, d) == d < info.last[d]

FirstChild(d) == d + 1

\* The root of a CU is alone at its level; the siblings of any other DIE
\* follow it inside the subtree of the parent.
HasSibling(info, d) ==
  info.parent[d] # NoDie /\ info.last[d] < info.last[info.parent[d]]

Sibling(info, d) == info.last[d] + 1

\* The DIE the activation of searchInDieTree that looks at d was called with.
InDie(info, d) ==
  IF info.parent[d] = NoDie THEN d ELSE FirstChild(info.parent[d])

(***************************************************************************)
(* Result codes: the four of libdwarf's DW_DLV_ family the code uses and   *)
(* the three the searcher adds.                                            *)
(***************************************************************************)
Code == {"OK", "NO_ENTRY", "ERROR", "NOT_THIS_CU", "IN_THIS_CU", "FOUND_SUBPROG"}

\* getLowAndHighPc: a constant-class high_pc is an offset from low_pc.
HavePcRange(pc) == pc.form # "absent"

HighPc(pc) == IF pc.form = "constant" THEN pc.low + pc.high ELSE pc.high

\* Mutant: high_pc taken for the last address of the range.
InPcRange_Closed(pc, target) == pc.low <= target /\ target <= HighPc(pc)

InPcRange(pc, target) == pc.low <= target /\ target < HighPc(pc)

\* matchFuncDie: a subprogram without low and high pc is NO_ENTRY, one that
\* lies elsewhere is OK.
MatchFuncDie(info, d, target) ==
  IF ~HavePcRange(info.die[d].pc) THEN "NO_ENTRY"
  ELSE IF InPcRange(info.die[d].pc, target) THEN "FOUND_SUBPROG" ELSE "OK"

\* One entry of the range list contains the target.  The base that is added
\* is reset for every entry, so an address selection entry selects nothing.
EntryMatches(e, base, target) ==
  e.type = "entry" /\ e.addr1 + base <= target /\ target < e.addr2 + base

\* matchCUDie.  What low_pc and high_pc say of the target is overwritten by
\* the look-up of DW_AT_ranges; with a range list, and no entry that matches,
\* the result is that of the last failing entry or of getRnglistsBase.
MatchCUDie(info, d, target) ==
  LET r == info.die[d].ranges IN
  IF ~r.present THEN "NO_ENTRY"
  ELSE IF \E k \in 1 .. Len(r.entries) : EntryMatches(r.entries[k], r.base, target)
    THEN "IN_THIS_CU"
  ELSE IF \E k \in 1 .. Len(r.entries) : r.entries[k].type = "unknown"
    THEN "ERROR"
  ELSE IF r.basePresent THEN "OK" ELSE "NO_ENTRY"

\* searchInDie, with the nesting level the context has reached.
SearchInDie(info, d, inLevel, target) ==
  CASE info.die[d].tag = "subprogram" -> MatchFuncDie(info, d, target)
    [] info.die[d].tag = "cu"         -> IF inLevel # 0 THEN "NOT_THIS_CU"
                                     ELSE MatchCUDie(info, d, target)
    [] OTHER                      -> "OK"
=============================================================================
