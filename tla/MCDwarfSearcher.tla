--------------------------- MODULE MCDwarfSearcher ---------------------------
(***************************************************************************)
(* Small sections for DwarfSearcher: every forest of MaxDies DIEs whose    *)
(* subprograms and CU range lists are drawn from the few below.            *)
(***************************************************************************)
EXTENDS DwarfSearcher, MCShapes

CONSTANT MaxDies

MCPcs == {0, 1}

\* [0, 1), [0, 2) and no range at all; the middle one in both forms.
SubPcs == {[low |-> 0, high |-> 1, form |-> "address"],
           [low |-> 1, high |-> 1, form |-> "constant"],
           NoPc}

Entry(type, a1, a2) == [type |-> type, addr1 |-> a1, addr2 |-> a2]

\* No DW_AT_ranges; a list that matches target 0, and leaves 1 to the base that
\* is present; one that matches target 1 behind its base, and that ends in an
\* entry of a type libdwarf does not name for target 0.
CuRanges ==
  {NoRanges,
   [present |-> TRUE, base |-> 0, basePresent |-> TRUE,
    entries |-> <<Entry("selection", 0, 7), Entry("entry", 0, 1), Entry("end", 0, 0)>>],
   [present |-> TRUE, base |-> 1, basePresent |-> FALSE,
    entries |-> <<Entry("unknown", 0, 0), Entry("entry", 0, 1)>>]}

Forms(root) ==
  IF root
  THEN {[tag |-> "cu", pc |-> NoPc, ranges |-> r] : r \in CuRanges}
  ELSE {[tag |-> "other", pc |-> NoPc, ranges |-> NoRanges]}
       \cup {[tag |-> "subprogram", pc |-> r, ranges |-> NoRanges] : r \in SubPcs}

AllSections(n) ==
  UNION {{[parent |-> s.parent, last |-> s.last, die |-> form] :
            form \in {f \in [1 .. n -> Forms(TRUE) \cup Forms(FALSE)] :
                        \A d \in 1 .. n : f[d] \in Forms(s.parent[d] = NoDie)}} :
         s \in Shapes(n)}

\* Two CUs of three DIEs each, both searched for target 0: flat and nested.
LargerLasts == {<<3, 2, 3, 6, 5, 6>>, <<3, 3, 3, 6, 6, 6>>}

LargerForms == [tag: {"subprogram"}, pc: {NoPc, [low |-> 0, high |-> 1, form |-> "address"]},
                ranges: {NoRanges}]

CuForms == [tag: {"cu"}, pc: {NoPc}, ranges: {r \in CuRanges : r.present}]

LargerSections ==
  {[parent |-> [d \in 1 .. 6 |-> ParentOf(last, d)], last |-> last, die |-> form] :
     last \in LargerLasts,
     form \in {f \in [1 .. 6 -> LargerForms \cup CuForms] :
                 \A d \in 1 .. 6 : f[d] \in IF d \in {1, 4} THEN CuForms ELSE LargerForms}}

Sections == AllSections(MaxDies) \cup LargerSections

\* TLC evaluates Sections once.
MCInfos == Sections
=============================================================================
