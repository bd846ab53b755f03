------------------------------ MODULE Variables ------------------------------
(***************************************************************************)
(* What the report of an address reads of a CU, and the pure decisions of  *)
(* the classes that read it: names of functions, types of variables and    *)
(* their sizes, and the bytes of a variable that are printed.              *)
(*                                                                         *)
(* A unit has the shape of a section of one CU (DebugInfo: last, parent),  *)
(*   die    of each DIE: tag, "cu", "function", "parameter", "variable"    *)
(*          (also DW_TAG_constant) or "other"; names, the attributes of    *)
(*          NameOrder it has; spec, the DIE of DW_AT_specification or      *)
(*          NoDie; type, the index of its type or 0; loc, its location;    *)
(*   types  the type DIEs: tag, base (the type of DW_AT_type or 0), and    *)
(*          bits and bytes, the attributes of its size.                    *)
(* A location has the form of its attribute and what evaluating it gives   *)
(* (VarLocation): nothing, a value or the address addr.  WellFormedUnit    *)
(* says besides that what a DIE refers to has been emitted before it.      *)
(***************************************************************************)
EXTENDS DebugInfo

CONSTANT MaxSize   \* MAX_SIZE, MAX_DWARF_UNSIGNED: the largest word (2^64 - 1); a size that is not known

ValueBytes == 8    \* sizeof(Dwarf_Signed), and the size of any pointer

ASSUME MaxSizeAssumption == MaxSize \in Nat /\ MaxSize > ValueBytes

\* Dwarf_Unsigned, Dwarf_Addr, uint64_t, size_t; their sums wrap.
Unsigned == 0 .. MaxSize

Wrapped(n) == n % (MaxSize + 1)

Attribute == [class: {"absent", "constant", "other"}, value: Unsigned]

WellFormedUnit(unit) ==
  /\ Shape(unit)
  /\ \A d \in Dies(unit) : unit.parent[d] = NoDie <=> d = 1
  /\ unit.die \in Seq([tag: {"cu", "function", "parameter", "variable", "other"},
                       names: SUBSET {"linkage", "MIPS", "HP", "name"}, spec: Dies(unit) \cup {NoDie},
                       type: 0 .. Len(unit.types),
                       loc: [form: {"none", "block", "exprloc", "data", "sec_offset", "loclistx", "other"},
                             result: {"invalid", "value", "address"}, addr: Unsigned]])
  /\ \A d \in Dies(unit) : unit.die[d].spec < d
  /\ unit.types \in Seq([tag: {"base", "enumeration", "structure", "class", "typedef", "const", "pointer",
                               "other"},
                         base: 0 .. Len(unit.types), bits: Attribute, bytes: Attribute])
  /\ \A k \in 1 .. Len(unit.types) : unit.types[k].base < k

NoType == 0         \* MAX_DWARF_OFF: no DW_AT_type, or one whose form is no reference

\* getAttrNumb: the value of a constant, signed or not; the default for a form
\* of another class.
Numeric(attr, default) == IF attr.class = "constant" THEN attr.value ELSE default

\* getAttrValue: the default when the DIE lacks the attribute.
AttrValue(attr, default) == IF attr.class = "absent" THEN default ELSE Numeric(attr, default)

(***************************************************************************)
(* getFunctionName: the first of these attributes.  Only when there is     *)
(* none the DIE that DW_AT_specification names is asked.                   *)
(***************************************************************************)
NameOrder == <<"linkage", "MIPS", "HP", "name">>

\* Mutant: the plain name is preferred to the linkage names.
FirstName_Plain(seen) ==
  IF "name" \in seen THEN "name"
  ELSE NameOrder[CHOOSE k \in 1 .. 4 :
                   NameOrder[k] \in seen /\ \A j \in 1 .. (k - 1) : NameOrder[j] \notin seen]

FirstName(seen) ==
  NameOrder[CHOOSE k \in 1 .. 4 :
              NameOrder[k] \in seen /\ \A j \in 1 .. (k - 1) : NameOrder[j] \notin seen]

(***************************************************************************)
(* DwarfType.                                                              *)
(***************************************************************************)
LeafTypes == {"base", "enumeration", "structure", "class"}
WrappingTypes == {"typedef", "const", "pointer"}

\* size_ after load: of a wrapping type it is overwritten.
SizeField(type) ==
  LET bits  == AttrValue(type.bits, MaxSize)
      bytes == AttrValue(type.bytes, MaxSize)
  IN  IF type.tag \in WrappingTypes THEN ValueBytes
      ELSE IF bits # MaxSize THEN bits \div 8 ELSE bytes

\* Mutant: size_ of a typedef is its size.
TypeSize_Field(unit, t) == SizeField(unit.types[t])

\* DwarfType::size; of no type it is not known.  Bases have the smaller index.
TypeSize(unit, t) ==
  LET size[k \in 0 .. Len(unit.types)] ==
        IF k = 0 THEN MaxSize
        ELSE IF unit.types[k].tag = "typedef" THEN size[unit.types[k].base]
        ELSE SizeField(unit.types[k])
  IN  size[t]

(***************************************************************************)
(* DwarfLocation::load, for the forms of DW_AT_location: an expression or  *)
(* a location list; any other form is not supported.                       *)
(***************************************************************************)
ExpressionForms == {"block", "exprloc"}
ListForms == {"data", "sec_offset", "loclistx"}

HasLocation(loc) == loc.form \in ExpressionForms \cup ListForms

(***************************************************************************)
(* DwarfVar::evalValue.  A value has a kind, the bytes that are looked at, *)
(* the bytes that are there, and the address of those in the memory of the *)
(* frame, 0 for others.                                                    *)
(***************************************************************************)
Printed(kind, reads, granted) == [kind |-> kind, reads |-> reads, granted |-> granted, addr |-> 0]

Smaller(a, b) == IF a <= b THEN a ELSE b

\* formatValue on a buffer of `granted` bytes.
FormatValue(unit, t, granted) ==
  LET size == TypeSize(unit, t) IN
  IF unit.types[t].tag = "pointer" THEN Printed("pointer", ValueBytes, granted)
  ELSE IF size = MaxSize THEN Printed("unknown type", 0, granted)
  ELSE Printed("bytes", Smaller(granted, size), granted)

\* The memory provider's test, in sums that wrap, for what lies in the stack
\* memory of the frame.
Granted(frame, addr, size) ==
  LET end == Wrapped(frame.base + Len(frame.stack)) IN
  frame.base <= addr /\ addr < end /\ Wrapped(addr + size) <= end

\* evalValueAtLoc.  A null address or a type of unknown size leave the buffer
\* null.
ValueAt(unit, t, addr, frame) ==
  LET size == TypeSize(unit, t) IN
  IF addr = 0 \/ size = MaxSize THEN Printed("null", 0, 0)
  ELSE IF Granted(frame, addr, size) THEN [FormatValue(unit, t, size) EXCEPT !.addr = addr]
  ELSE Printed("unknown", 0, 0)

EvalValue(unit, t, located, loc, frame) ==
  CASE ~located \/ loc.result = "invalid" -> Printed("unknown", 0, 0)
    [] located /\ loc.result = "value"    -> FormatValue(unit, t, ValueBytes)
    [] located /\ loc.result = "address"  -> ValueAt(unit, t, loc.addr, frame)

-----------------------------------------------------------------------------
(***************************************************************************)
(* What the code should compute, by other means.                           *)
(***************************************************************************)
\* The bytes lie in the stack memory of the frame.
InStack(frame, addr, size) ==
  frame.base <= addr /\ addr + size <= frame.base + Len(frame.stack)

\* The type chain of t loads: it is made of wrapping types and ends in a leaf.
Loads(unit, t) ==
  LET ok[k \in 0 .. Len(unit.types)] ==
        k # 0 /\ \/ unit.types[k].tag \in LeafTypes
                 \/ unit.types[k].tag \in WrappingTypes /\ ok[unit.types[k].base]
  IN  ok[t]

\* A const stands among the typedefs in front of the type proper.
BehindConst(unit, t) ==
  LET const[k \in 0 .. Len(unit.types)] ==
        k # 0 /\ \/ unit.types[k].tag = "const"
                 \/ unit.types[k].tag = "typedef" /\ const[unit.types[k].base]
  IN  const[t]

\* The bytes a variable of type t occupies.
Storage(unit, t) ==
  LET bytes[k \in 0 .. Len(unit.types)] ==
        IF k = 0 THEN MaxSize
        ELSE IF unit.types[k].tag \in {"typedef", "const"} THEN bytes[unit.types[k].base]
        ELSE IF unit.types[k].tag = "pointer" THEN ValueBytes
        ELSE AttrValue(unit.types[k].bytes, MaxSize)
  IN  bytes[t]

\* No type has more bits than its bytes hold.
BitsFit(unit) ==
  \A k \in 1 .. Len(unit.types) :
    LET bits == AttrValue(unit.types[k].bits, MaxSize) IN
    bits = MaxSize \/ bits \div 8 <= AttrValue(unit.types[k].bytes, MaxSize)

\* The DIEs a level starting at d has: d and the siblings behind it.
Level(unit, d) ==
  {x \in Dies(unit) : x >= d /\ unit.parent[x] = unit.parent[d]}

\* The DIEs the walk of main from a function visits: the function and its later
\* siblings, and the children of the first of these that has any.
Walked(unit, func) ==
  LET bearing == {x \in Level(unit, func) : HasChild(unit, x)} IN
  Level(unit, func)
    \cup {c \in Dies(unit) : \E x \in bearing : /\ unit.parent[c] = x
                                              /\ \A y \in bearing : x <= y}

\* The DIE that gives func its name: the first on the chain of specifications
\* that has one; NoDie if there is none.
NamedBy(unit, func) ==
  LET chain[k \in 0 .. Size(unit)] ==   \* the k-th DIE of the chain
        IF k = 0 THEN func
        ELSE IF chain[k - 1] = NoDie THEN NoDie ELSE unit.die[chain[k - 1]].spec
      named == {k \in 0 .. Size(unit) : chain[k] # NoDie /\ unit.die[chain[k]].names # {}}
  IN  IF named = {} THEN NoDie ELSE chain[CHOOSE k \in named : \A j \in named : k <= j]
=============================================================================
