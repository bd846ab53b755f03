-------------------------- MODULE ReportValues_proof --------------------------
(***************************************************************************)
(* ReadsOwnStorage, NamePrinted, OnlyKnownUndefined, ValuesFromText and    *)
(* VariablesOfWalk, for every job and every scene: what the report prints, *)
(* where it takes it from, where it stops being defined, and which         *)
(* variables it lists; and the type invariant of the whole program.        *)
(*                                                                         *)
(* The definitions of Variables they speak of are recursive along a chain  *)
(* of types or of specifications, whose index shrinks; Recursion says that *)
(* such a function exists, so that each has its rule (SizeRule, LoadsRule, *)
(* ...), and Along is the induction over its index.  The states of a load  *)
(* and of a search for a name are a way along the same chain.              *)
(*                                                                         *)
(* Values with an address are printed from the frame that is served, which *)
(* is the first of the context that ContextFile_proof follows from the     *)
(* text through the file.                                                  *)
(*                                                                         *)
(* The walk knows three places: above the first DIE with children, among   *)
(* these children, and beyond (Standing).  What it has passed that is to   *)
(* be collected is in a list (Gathered), and what it is loading has all it *)
(* has been asked for (Promising).                                         *)
(***************************************************************************)
EXTENDS ReportOwners_proof, ContextFile_proof

-----------------------------------------------------------------------------
(***************************************************************************)
(* What Variables defines along the chain of a type.                       *)
(***************************************************************************)
LEMMA TypeFields ==
  ASSUME job \in Jobs, NEW k \in 1 .. NTypes
  PROVE  /\ AttrValue(Unit.types[k].bits, MaxSize) \in Nat
         /\ AttrValue(Unit.types[k].bytes, MaxSize) \in Nat
<1> DEFINE T == 0 .. NTypes
           TypeTags == {"base", "enumeration", "structure", "class", "typedef", "const", "pointer", "other"}
           A == Attribute
           K == [tag: TypeTags, base: T, bits: A, bytes: A]
<1>1. WellFormedUnit(Unit)
  BY ReportAssumption DEF Unit
<1>2. Unit.types \in Seq(K)
  BY <1>1 DEF WellFormedUnit, NTypes
<1>3. Unit.types[k] \in K
  <2> HIDE DEF K
  <2> QED
    BY <1>2 DEF NTypes
<1>4. Unit.types[k].bits \in A /\ Unit.types[k].bytes \in A
  <2> HIDE DEF T, TypeTags, A
  <2> QED
    BY <1>3
<1>5. ASSUME NEW x \in A PROVE AttrValue(x, MaxSize) \in Nat
  BY MaxSizeAssumption DEF Attribute, AttrValue, Numeric, Unsigned
<1> HIDE DEF A
<1> QED
  BY <1>4, <1>5

Bases == [k \in 1 .. NTypes |-> Unit.types[k].base]

LEMMA BasesBack ==
  ASSUME job \in Jobs
  PROVE  /\ NTypes \in Nat
         /\ \A k \in 1 .. NTypes : Bases[k] = Unit.types[k].base /\ Bases[k] \in 0 .. NTypes /\ Bases[k] < k
BY TypesShape DEF Bases

LEMMA LoadsRule ==
  ASSUME job \in Jobs, NEW t \in 0 .. NTypes
  PROVE  Loads(Unit, t) <=> /\ t # 0
                            /\ \/ Unit.types[t].tag \in LeafTypes
                               \/ Unit.types[t].tag \in WrappingTypes /\ Loads(Unit, Unit.types[t].base)
<1> DEFINE Value(f, k) == k # 0 /\ \/ Unit.types[k].tag \in LeafTypes
                                   \/ Unit.types[k].tag \in WrappingTypes /\ f[Unit.types[k].base]
           F == [k \in 1 .. NTypes |-> [v \in BOOLEAN |->
                   \/ Unit.types[k].tag \in LeafTypes
                   \/ Unit.types[k].tag \in WrappingTypes /\ v]]
           ok == CHOOSE f : f = [k \in 0 .. NTypes |-> Value(f, k)]
<1>1. NTypes \in Nat /\ \A k \in 1 .. NTypes : Bases[k] \in 0 .. NTypes /\ Bases[k] < k
  BY BasesBack
<1>2. \A k \in 1 .. NTypes : \A v \in BOOLEAN : F[k][v] \in BOOLEAN
  OBVIOUS
<1>3. PICK f \in [0 .. NTypes -> BOOLEAN] : Computes(f, NTypes, Bases, FALSE, F)
  <2> HIDE DEF F
  <2> QED
    BY <1>1, <1>2, Recursion
<1>4. ASSUME NEW k \in 0 .. NTypes PROVE f[k] <=> Value(f, k)
  <2>1. CASE k = 0
    BY <1>3, <2>1 DEF Computes
  <2>2. CASE k # 0
    <3>1. k \in 1 .. NTypes
      BY <1>1, <2>2
    <3>2. Bases[k] \in 0 .. NTypes /\ Bases[k] = Unit.types[k].base /\ f[Bases[k]] \in BOOLEAN
      BY <1>1, <1>3, <3>1 DEF Bases
    <3>3. f[k] = F[k][f[Bases[k]]]
      BY <1>3, <3>1 DEF Computes
    <3>4. F[k][f[Bases[k]]] <=> Value(f, k)
      BY <2>2, <3>1, <3>2
    <3> HIDE DEF F, Value
    <3> QED
      BY <3>3, <3>4
  <2> QED
    BY <2>1, <2>2
<1>5. f = [k \in 0 .. NTypes |-> Value(f, k)]
  BY <1>3, <1>4
<1>6. ok = [k \in 0 .. NTypes |-> Value(ok, k)]
  BY <1>5
<1>7. \A k : Loads(Unit, k) = ok[k]
  BY DEF Loads, NTypes
<1> HIDE DEF ok
<1> QED
  BY <1>6, <1>7

LEMMA ConstRule ==
  ASSUME job \in Jobs, NEW t \in 0 .. NTypes
  PROVE  BehindConst(Unit, t) <=> /\ t # 0
                                  /\ \/ Unit.types[t].tag = "const"
                                     \/ /\ Unit.types[t].tag = "typedef"
                                        /\ BehindConst(Unit, Unit.types[t].base)
<1> DEFINE Value(f, k) == k # 0 /\ \/ Unit.types[k].tag = "const"
                                   \/ Unit.types[k].tag = "typedef" /\ f[Unit.types[k].base]
           F == [k \in 1 .. NTypes |-> [v \in BOOLEAN |->
                   \/ Unit.types[k].tag = "const"
                   \/ Unit.types[k].tag = "typedef" /\ v]]
           const == CHOOSE f : f = [k \in 0 .. NTypes |-> Value(f, k)]
<1>1. NTypes \in Nat /\ \A k \in 1 .. NTypes : Bases[k] \in 0 .. NTypes /\ Bases[k] < k
  BY BasesBack
<1>2. \A k \in 1 .. NTypes : \A v \in BOOLEAN : F[k][v] \in BOOLEAN
  OBVIOUS
<1>3. PICK f \in [0 .. NTypes -> BOOLEAN] : Computes(f, NTypes, Bases, FALSE, F)
  <2> HIDE DEF F
  <2> QED
    BY <1>1, <1>2, Recursion
<1>4. ASSUME NEW k \in 0 .. NTypes PROVE f[k] <=> Value(f, k)
  <2>1. CASE k = 0
    BY <1>3, <2>1 DEF Computes
  <2>2. CASE k # 0
    <3>1. k \in 1 .. NTypes
      BY <1>1, <2>2
    <3>2. Bases[k] \in 0 .. NTypes /\ Bases[k] = Unit.types[k].base /\ f[Bases[k]] \in BOOLEAN
      BY <1>1, <1>3, <3>1 DEF Bases
    <3>3. f[k] = F[k][f[Bases[k]]]
      BY <1>3, <3>1 DEF Computes
    <3>4. F[k][f[Bases[k]]] <=> Value(f, k)
      BY <2>2, <3>1, <3>2
    <3> HIDE DEF F, Value
    <3> QED
      BY <3>3, <3>4
  <2> QED
    BY <2>1, <2>2
<1>5. f = [k \in 0 .. NTypes |-> Value(f, k)]
  BY <1>3, <1>4
<1>6. const = [k \in 0 .. NTypes |-> Value(const, k)]
  BY <1>5
<1>7. \A k : BehindConst(Unit, k) = const[k]
  BY DEF BehindConst, NTypes
<1> HIDE DEF const
<1> QED
  BY <1>6, <1>7

LEMMA SizeRule ==
  ASSUME job \in Jobs, NEW t \in 0 .. NTypes
  PROVE  TypeSize(Unit, t) =
           IF t = 0 THEN MaxSize
           ELSE IF Unit.types[t].tag = "typedef" THEN TypeSize(Unit, Unit.types[t].base)
           ELSE SizeField(Unit.types[t])
<1> DEFINE Value(f, k) == IF k = 0 THEN MaxSize
                          ELSE IF Unit.types[k].tag = "typedef" THEN f[Unit.types[k].base]
                          ELSE SizeField(Unit.types[k])
           F == [k \in 1 .. NTypes |-> [v \in Nat |->
                   IF Unit.types[k].tag = "typedef" THEN v ELSE SizeField(Unit.types[k])]]
           size == CHOOSE f : f = [k \in 0 .. NTypes |-> Value(f, k)]
<1>1. NTypes \in Nat /\ \A k \in 1 .. NTypes : Bases[k] \in 0 .. NTypes /\ Bases[k] < k
  BY BasesBack
<1>2. \A k \in 1 .. NTypes : \A v \in Nat : F[k][v] \in Nat
  <2>1. ASSUME NEW k \in 1 .. NTypes PROVE SizeField(Unit.types[k]) \in Nat
    BY TypeFields DEF SizeField, ValueBytes
  <2> QED
    BY <2>1
<1>3. PICK f \in [0 .. NTypes -> Nat] : Computes(f, NTypes, Bases, MaxSize, F)
  <2>1. MaxSize \in Nat
    BY MaxSizeAssumption
  <2> HIDE DEF F
  <2> QED
    BY <1>1, <1>2, <2>1, Recursion
<1>4. ASSUME NEW k \in 0 .. NTypes PROVE f[k] = Value(f, k)
  <2>1. CASE k = 0
    BY <1>3, <2>1 DEF Computes
  <2>2. CASE k # 0
    <3>1. k \in 1 .. NTypes
      BY <1>1, <2>2
    <3>2. Bases[k] \in 0 .. NTypes /\ Bases[k] = Unit.types[k].base /\ f[Bases[k]] \in Nat
      BY <1>1, <1>3, <3>1 DEF Bases
    <3>3. f[k] = F[k][f[Bases[k]]]
      BY <1>3, <3>1 DEF Computes
    <3>4. F[k][f[Bases[k]]] = Value(f, k)
      BY <2>2, <3>1, <3>2
    <3> HIDE DEF F, Value
    <3> QED
      BY <3>3, <3>4
  <2> QED
    BY <2>1, <2>2
<1>5. f = [k \in 0 .. NTypes |-> Value(f, k)]
  BY <1>3, <1>4
<1>6. size = [k \in 0 .. NTypes |-> Value(size, k)]
  BY <1>5
<1>7. \A k : TypeSize(Unit, k) = size[k]
  BY DEF TypeSize, NTypes
<1> HIDE DEF size
<1> QED
  BY <1>6, <1>7

LEMMA StorageRule ==
  ASSUME job \in Jobs, NEW t \in 0 .. NTypes
  PROVE  Storage(Unit, t) =
           IF t = 0 THEN MaxSize
           ELSE IF Unit.types[t].tag \in {"typedef", "const"} THEN Storage(Unit, Unit.types[t].base)
           ELSE IF Unit.types[t].tag = "pointer" THEN ValueBytes
           ELSE AttrValue(Unit.types[t].bytes, MaxSize)
<1> DEFINE Value(f, k) == IF k = 0 THEN MaxSize
                          ELSE IF Unit.types[k].tag \in {"typedef", "const"} THEN f[Unit.types[k].base]
                          ELSE IF Unit.types[k].tag = "pointer" THEN ValueBytes
                          ELSE AttrValue(Unit.types[k].bytes, MaxSize)
           F == [k \in 1 .. NTypes |-> [v \in Nat |->
                   IF Unit.types[k].tag \in {"typedef", "const"} THEN v
                   ELSE IF Unit.types[k].tag = "pointer" THEN ValueBytes
                   ELSE AttrValue(Unit.types[k].bytes, MaxSize)]]
           bytes == CHOOSE f : f = [k \in 0 .. NTypes |-> Value(f, k)]
<1>1. NTypes \in Nat /\ \A k \in 1 .. NTypes : Bases[k] \in 0 .. NTypes /\ Bases[k] < k
  BY BasesBack
<1>2. \A k \in 1 .. NTypes : \A v \in Nat : F[k][v] \in Nat
  BY TypeFields DEF ValueBytes
<1>3. PICK f \in [0 .. NTypes -> Nat] : Computes(f, NTypes, Bases, MaxSize, F)
  <2>1. MaxSize \in Nat
    BY MaxSizeAssumption
  <2> HIDE DEF F
  <2> QED
    BY <1>1, <1>2, <2>1, Recursion
<1>4. ASSUME NEW k \in 0 .. NTypes PROVE f[k] = Value(f, k)
  <2>1. CASE k = 0
    BY <1>3, <2>1 DEF Computes
  <2>2. CASE k # 0
    <3>1. k \in 1 .. NTypes
      BY <1>1, <2>2
    <3>2. Bases[k] \in 0 .. NTypes /\ Bases[k] = Unit.types[k].base /\ f[Bases[k]] \in Nat
      BY <1>1, <1>3, <3>1 DEF Bases
    <3>3. f[k] = F[k][f[Bases[k]]]
      BY <1>3, <3>1 DEF Computes
    <3>4. F[k][f[Bases[k]]] = Value(f, k)
      BY <2>2, <3>1, <3>2
    <3> HIDE DEF F, Value
    <3> QED
      BY <3>3, <3>4
  <2> QED
    BY <2>1, <2>2
<1>5. f = [k \in 0 .. NTypes |-> Value(f, k)]
  BY <1>3, <1>4
<1>6. bytes = [k \in 0 .. NTypes |-> Value(bytes, k)]
  BY <1>5
<1>7. \A k : Storage(Unit, k) = bytes[k]
  BY DEF Storage, NTypes
<1> HIDE DEF bytes
<1> QED
  BY <1>6, <1>7

-----------------------------------------------------------------------------
(***************************************************************************)
(* The bytes that are printed.                                             *)
(***************************************************************************)
LEMMA Eighth == \A n \in Nat : n \div 8 \in Nat
OBVIOUS

LEMMA SizeNumbers ==
  ASSUME job \in Jobs, NEW t \in 0 .. NTypes
  PROVE  TypeSize(Unit, t) \in Nat /\ Storage(Unit, t) \in Nat
<1> DEFINE S == {k \in 0 .. NTypes : TypeSize(Unit, k) \in Nat /\ Storage(Unit, k) \in Nat}
<1>1. /\ NTypes \in Nat
      /\ \A k \in 1 .. NTypes : Bases[k] = Unit.types[k].base /\ Bases[k] \in 0 .. NTypes /\ Bases[k] < k
  BY BasesBack
<1>2. 0 \in S
  BY <1>1, SizeRule, StorageRule, MaxSizeAssumption
<1>3. ASSUME NEW k \in 1 .. NTypes, Bases[k] \in S PROVE k \in S
  <2>1. k \in 0 .. NTypes /\ k # 0
    BY <1>1
  <2>2. TypeSize(Unit, Unit.types[k].base) \in Nat /\ Storage(Unit, Unit.types[k].base) \in Nat
    BY <1>1, <1>3
  <2>3. SizeField(Unit.types[k]) \in Nat
    BY TypeFields, Eighth DEF SizeField, ValueBytes
  <2>4. TypeSize(Unit, k) \in Nat
    BY <2>1, <2>2, <2>3, SizeRule
  <2>5. Storage(Unit, k) \in Nat
    BY <2>1, <2>2, StorageRule, TypeFields DEF ValueBytes
  <2> QED
    BY <2>1, <2>4, <2>5
<1> HIDE DEF S
<1>4. t \in S
  BY <1>1, <1>2, <1>3, Along
<1> QED
  BY <1>4 DEF S

\* The size of a type is that of the storage, unless a const stands before it.
LEMMA SizeFits ==
  ASSUME job \in Jobs, BitsFit(Unit), NEW t \in 0 .. NTypes
  PROVE  TypeSize(Unit, t) <= Storage(Unit, t) \/ BehindConst(Unit, t)
<1> DEFINE S == {k \in 0 .. NTypes : TypeSize(Unit, k) <= Storage(Unit, k) \/ BehindConst(Unit, k)}
<1>1. /\ NTypes \in Nat
      /\ \A k \in 1 .. NTypes : Bases[k] = Unit.types[k].base /\ Bases[k] \in 0 .. NTypes /\ Bases[k] < k
  BY BasesBack
<1>2. 0 \in S
  BY <1>1, SizeRule, StorageRule, MaxSizeAssumption
<1>3. ASSUME NEW k \in 1 .. NTypes, Bases[k] \in S PROVE k \in S
  <2> DEFINE b == Unit.types[k].base
             tag == Unit.types[k].tag
  <2>1. k \in 0 .. NTypes /\ k # 0
    BY <1>1
  <2>2. TypeSize(Unit, b) <= Storage(Unit, b) \/ BehindConst(Unit, b)
    BY <1>1, <1>3
  <2>3. CASE tag = "typedef"
    <3>1. TypeSize(Unit, k) = TypeSize(Unit, b) /\ Storage(Unit, k) = Storage(Unit, b)
      BY <2>1, <2>3, SizeRule, StorageRule
    <3>2. BehindConst(Unit, b) => BehindConst(Unit, k)
      BY <2>1, <2>3, ConstRule
    <3> QED
      BY <2>1, <2>2, <3>1, <3>2
  <2>4. CASE tag = "const"
    <3>1. BehindConst(Unit, k)
      BY <2>1, <2>4, ConstRule
    <3> QED
      BY <2>1, <3>1
  <2>5. CASE tag = "pointer"
    <3>1. TypeSize(Unit, k) = ValueBytes /\ Storage(Unit, k) = ValueBytes
      BY <2>1, <2>5, SizeRule, StorageRule DEF SizeField, WrappingTypes
    <3> QED
      BY <2>1, <3>1 DEF ValueBytes
  <2>6. CASE tag \notin {"typedef", "const", "pointer"}
    <3> DEFINE bits == AttrValue(Unit.types[k].bits, MaxSize)
               bytes == AttrValue(Unit.types[k].bytes, MaxSize)
    <3>1. TypeSize(Unit, k) = IF bits # MaxSize THEN bits \div 8 ELSE bytes
      BY <2>1, <2>6, SizeRule DEF SizeField, WrappingTypes
    <3>2. Storage(Unit, k) = bytes /\ bytes \in Nat
      BY <2>1, <2>6, StorageRule, TypeFields
    <3>3. bits = MaxSize \/ bits \div 8 <= bytes
      BY DEF BitsFit, NTypes
    <3> HIDE DEF bits, bytes
    <3> QED
      BY <2>1, <3>1, <3>2, <3>3
  <2> QED
    BY <2>3, <2>4, <2>5, <2>6
<1> HIDE DEF S
<1>4. t \in S
  BY <1>1, <1>2, <1>3, Along
<1> QED
  BY <1>4 DEF S

\* A value v of type t looks at bytes that are there, and that are its own.
Fits(v, t) ==
  /\ v.reads <= v.granted
  /\ v.reads <= Storage(Unit, t) \/ BehindConst(Unit, t)

LEMMA FormatFits ==
  ASSUME job \in Jobs, BitsFit(Unit), NEW t \in 0 .. NTypes, NEW granted \in {ValueBytes, TypeSize(Unit, t)},
         granted = TypeSize(Unit, t) => TypeSize(Unit, t) # MaxSize /\ t # 0
  PROVE  Fits(FormatValue(Unit, t, granted), t)
<1> DEFINE v == FormatValue(Unit, t, granted)
<1>1. TypeSize(Unit, t) \in Nat /\ Storage(Unit, t) \in Nat /\ granted \in Nat
  BY SizeNumbers DEF ValueBytes
<1>2. TypeSize(Unit, t) <= Storage(Unit, t) \/ BehindConst(Unit, t)
  BY SizeFits
<1>3. CASE Unit.types[t].tag = "pointer"
  <2>1. v.reads = ValueBytes /\ v.granted = granted
    BY <1>3 DEF FormatValue, Printed
  <2>2. TypeSize(Unit, t) = ValueBytes \/ (t = 0 /\ Storage(Unit, t) = MaxSize)
    BY <1>3, SizeRule, StorageRule DEF SizeField, WrappingTypes
  <2>3. granted = ValueBytes
    BY <2>2
  <2> QED
    BY <1>1, <1>2, <2>1, <2>2, <2>3, MaxSizeAssumption DEF Fits, ValueBytes
<1>4. CASE Unit.types[t].tag # "pointer" /\ TypeSize(Unit, t) = MaxSize
  <2>1. v.reads = 0 /\ v.granted = granted
    BY <1>4 DEF FormatValue, Printed
  <2> QED
    BY <1>1, <2>1 DEF Fits
<1>5. CASE Unit.types[t].tag # "pointer" /\ TypeSize(Unit, t) # MaxSize
  <2>1. v.reads = Smaller(granted, TypeSize(Unit, t)) /\ v.granted = granted
    BY <1>5 DEF FormatValue, Printed
  <2>2. v.reads <= granted /\ v.reads <= TypeSize(Unit, t) /\ v.reads \in Nat
    BY <1>1, <2>1 DEF Smaller
  <2> QED
    BY <1>1, <1>2, <2>1, <2>2 DEF Fits
<1> QED
  BY <1>3, <1>4, <1>5

LEMMA DieFields ==
  ASSUME job \in Jobs, NEW d \in 1 .. N
  PROVE  /\ Unit.die[d].type \in 0 .. NTypes
         /\ Unit.die[d].loc.result \in {"invalid", "value", "address"} /\ Unit.die[d].loc.addr \in Nat
<1> DEFINE L == [form: {"none", "block", "exprloc", "data", "sec_offset", "loclistx", "other"},
                 result: {"invalid", "value", "address"}, addr: Unsigned]
           S == Dies(Unit) \cup {NoDie}
           T == 0 .. NTypes
           Names == SUBSET {"linkage", "MIPS", "HP", "name"}
           Tags == {"cu", "function", "parameter", "variable", "other"}
           D == [tag: Tags, names: Names, spec: S, type: T, loc: L]
<1>1. WellFormedUnit(Unit)
  BY ReportAssumption DEF Unit
<1>2. Unit.die \in Seq(D)
  BY <1>1 DEF WellFormedUnit, NTypes
<1>3. Unit.die[d] \in D
  <2> HIDE DEF D
  <2> QED
    BY <1>2 DEF N
<1>4. Unit.die[d].loc \in L
  <2> HIDE DEF L, S, T, Names, Tags
  <2> QED
    BY <1>3
<1>5. Unsigned \subseteq Nat
  BY MaxSizeAssumption DEF Unsigned
<1> HIDE DEF D
<1> QED
  BY <1>4, <1>5, TypesShape

LEMMA ValueFits ==
  ASSUME job \in Jobs, BitsFit(Unit), NEW d \in 1 .. N, NEW v, DieOf(v) = d
  PROVE  Fits(ValueOf(v), Unit.die[d].type)
<1> DEFINE t == Unit.die[d].type
           loc == Unit.die[d].loc
           located == <<v[1], "location", v[3], 0>> \in heap
           frame == CHOOSE f \in context : TRUE
           size == TypeSize(Unit, t)
<1>1. t \in 0 .. NTypes /\ loc.result \in {"invalid", "value", "address"}
  BY DieFields
<1>2. size \in Nat /\ Storage(Unit, t) \in Nat /\ TypeSize(Unit, 0) = MaxSize
  BY <1>1, SizeNumbers, SizeRule, TypesShape
<1>3. ASSUME NEW kind, NEW x, x = Printed(kind, 0, 0) PROVE Fits(x, t)
  BY <1>2, <1>3 DEF Printed, Fits
<1>4. CASE context = {}
  <2>1. ValueOf(v) = Printed("..", 0, 0)
    BY <1>4 DEF ValueOf
  <2> QED
    BY <1>3, <2>1
<1>5. CASE context # {}
  <2>1. ValueOf(v) = EvalValue(Unit, t, located, loc, frame)
    BY <1>5 DEF ValueOf
  <2>2. CASE ~located \/ loc.result = "invalid"
    <3>1. ValueOf(v) = Printed("unknown", 0, 0)
      BY <2>1, <2>2 DEF EvalValue
    <3> QED
      BY <1>3, <3>1
  <2>3. CASE located /\ loc.result = "value"
    <3>1. ValueOf(v) = FormatValue(Unit, t, ValueBytes)
      BY <2>1, <2>3 DEF EvalValue
    <3>2. ValueBytes # MaxSize
      BY MaxSizeAssumption DEF ValueBytes
    <3>3. ValueBytes = size => size # MaxSize /\ t # 0
      BY <1>2, <3>2
    <3> QED
      BY <1>1, <3>1, <3>3, FormatFits
  <2>4. CASE located /\ loc.result = "address"
    <3>1. ValueOf(v) = ValueAt(Unit, t, loc.addr, frame)
      BY <2>1, <2>4 DEF EvalValue
    <3>2. CASE loc.addr = 0 \/ size = MaxSize
      <4>1. ValueOf(v) = Printed("null", 0, 0)
        BY <3>1, <3>2 DEF ValueAt
      <4> QED
        BY <1>3, <4>1
    <3>3. CASE ~(loc.addr = 0 \/ size = MaxSize) /\ Granted(frame, loc.addr, size)
      <4> DEFINE w == FormatValue(Unit, t, size)
      <4>1. ValueOf(v) = [w EXCEPT !.addr = loc.addr]
        BY <3>1, <3>3 DEF ValueAt
      <4>2. Fits(w, t)
        BY <1>1, <1>2, <3>3, FormatFits
      <4>3. ValueOf(v).reads = w.reads /\ ValueOf(v).granted = w.granted
        BY <4>1 DEF FormatValue, Printed
      <4> QED
        BY <4>2, <4>3 DEF Fits
    <3>4. CASE ~(loc.addr = 0 \/ size = MaxSize) /\ ~Granted(frame, loc.addr, size)
      <4>1. ValueOf(v) = Printed("unknown", 0, 0)
        BY <3>1, <3>4 DEF ValueAt
      <4> QED
        BY <1>3, <4>1
    <3> QED
      BY <3>2, <3>3, <3>4
  <2> QED
    BY <1>1, <2>2, <2>3, <2>4
<1> QED
  BY <1>4, <1>5

-----------------------------------------------------------------------------
(***************************************************************************)
(* The values of an address, as they are printed.                          *)
(***************************************************************************)
ValuesInv ==
  /\ \E S : values \in Seq(S)
  /\ \A i \in 1 .. Len(values) :
       Fits(values[i].value, Unit.die[DieOf(values[i].var)].type)

LEMMA FitsKept ==
  ASSUME UNCHANGED job, NEW x, NEW t
  PROVE  Fits(x, t)' <=> Fits(x, t)
BY DEF Fits, Unit

LEMMA JobKept ==
  ASSUME [SceneNext]_sceneVars
  PROVE  job' = job
BY DEF SceneNext, Main, File, Serve, Abort, Step, sceneVars, vars, cmd, place,
       ParseOption, ParseAddress, Help, EndOfArgs, Open, LoadContext, Search, EndOfAddresses, NameOf, Sizes,
       Visit, Child, NextSibling, LoadVar, LoadType, TypeReturns, LoadLocation, DropVar,
       PrintParam, PrintLocal, PrintVar, PrintOutside, EndOfVars, Finish

LEMMA AppendedSeq ==
  ASSUME NEW S, NEW s \in Seq(S), NEW e
  PROVE  Append(s, e) \in Seq(S \cup {e})
<1>1. s \in Seq(S \cup {e})
  OBVIOUS
<1> QED
  BY <1>1

LEMMA PrintValues ==
  ASSUME Inv, BitsFit(Unit), ValuesInv, UNCHANGED job, NEW v \in Handles(N), PrintVar(v)
  PROVE  ValuesInv'
<1> DEFINE e == [var |-> v, value |-> ValueOf(v)]
<1>1. values' = Append(values, e)
  BY DEF PrintVar
<1>2. job \in Jobs /\ N \in Nat
  BY UnitShape DEF Inv, PlaceInv
<1>3. DieOf(v) \in 1 .. N
  BY <1>2, HandleShape
<1>4. Fits(e.value, Unit.die[DieOf(e.var)].type)
  BY <1>2, <1>3, ValueFits
<1>5. Unit' = Unit
  BY DEF Unit
<1>6. PICK S : values \in Seq(S)
  BY DEF ValuesInv
<1> HIDE DEF e
<1>7. /\ Len(values) \in Nat /\ Len(Append(values, e)) = Len(values) + 1
      /\ Append(values, e)[Len(values) + 1] = e
      /\ \A i \in 1 .. Len(values) : Append(values, e)[i] = values[i]
  BY <1>6, AppendSeq
<1>8. \E T : values' \in Seq(T)
  BY <1>1, <1>6, AppendedSeq
<1>9. ASSUME NEW i \in 1 .. Len(values')
      PROVE  Fits(values[i].value, Unit.die[DieOf(values[i].var)].type)'
  <2>1. CASE i = Len(values) + 1
    BY <1>1, <1>4, <1>5, <1>7, <2>1, FitsKept
  <2>2. CASE i # Len(values) + 1
    <3>1. i \in 1 .. Len(values) /\ values'[i] = values[i]
      BY <1>1, <1>7, <2>2
    <3> QED
      BY <1>5, <3>1, FitsKept DEF ValuesInv
  <2> QED
    BY <2>1, <2>2
<1> QED
  BY <1>8, <1>9 DEF ValuesInv

LEMMA NextValues ==
  ASSUME Inv, BitsFit(Unit), ValuesInv, [SceneNext]_sceneVars
  PROVE  ValuesInv'
<1>1. job' = job /\ Unit' = Unit
  BY JobKept DEF Unit
<1>2. CASE values' = values
  BY <1>1, <1>2, FitsKept DEF ValuesInv
<1>3. CASE values' = <<>>
  <2>1. values' \in Seq({}) /\ \A i \in 1 .. Len(values') : FALSE
    BY <1>3
  <2> QED
    BY <2>1 DEF ValuesInv
<1>4. CASE PrintParam
  <2>1. Head(params) \in Handles(N) /\ PrintVar(Head(params))
    BY <1>4 DEF PrintParam, Inv, ListInv
  <2> QED
    BY <1>1, <2>1, PrintValues
<1>5. CASE PrintLocal
  <2>1. Head(locals) \in Handles(N) /\ PrintVar(Head(locals))
    BY <1>5 DEF PrintLocal, Inv, ListInv
  <2> QED
    BY <1>1, <2>1, PrintValues
<1>6. values' = values \/ values' = <<>> \/ PrintParam \/ PrintLocal
  BY DEF SceneNext, Main, File, Serve, Abort, Step, sceneVars, vars, UnchangedReport,
         ParseOption, ParseAddress, Help, EndOfArgs, Open, LoadContext, Search, EndOfAddresses, NameOf, Sizes,
         Visit, Child, NextSibling, LoadVar, LoadType, TypeReturns, LoadLocation, DropVar, PrintOutside, EndOfVars, Finish
<1> QED
  BY <1>2, <1>3, <1>4, <1>5, <1>6

LEMMA ValuesOwn == ValuesInv => ReadsOwnStorage
<1> SUFFICES ASSUME ValuesInv PROVE ReadsOwnStorage
  OBVIOUS
<1>1. PICK S : values \in Seq(S)
  BY DEF ValuesInv
<1>2. DOMAIN values = 1 .. Len(values)
  BY <1>1
<1> QED
  BY <1>2 DEF ValuesInv, Fits, ReadsOwnStorage

Values == Inv /\ ValuesInv

\* Printing a value looks at no byte that was not granted, and at no byte of
\* another variable unless a const stands before the type - in debug
\* information whose types have no more bits than bytes.
THEOREM OwnStorageRead ==
  ASSUME \A j \in Jobs : BitsFit(j.unit)
  PROVE  SceneSpec => []ReadsOwnStorage
<1>1. SceneInit => Values
  <2>1. ASSUME values = <<>> PROVE ValuesInv
    <3>1. values \in Seq({}) /\ \A i \in 1 .. Len(values) : FALSE
      BY <2>1
    <3> QED
      BY <3>1 DEF ValuesInv
  <2> QED
    BY <2>1, InitInv DEF SceneInit, Init, Values
<1>2. Values /\ [SceneNext]_sceneVars => Values'
  <2> SUFFICES ASSUME Values, [SceneNext]_sceneVars PROVE Values'
    OBVIOUS
  <2>1. BitsFit(Unit)
    BY DEF Values, Inv, PlaceInv, Unit
  <2> QED
    BY <2>1, NextInv, NextValues DEF Values
<1>3. Values => ReadsOwnStorage
  BY ValuesOwn DEF Values
<1> QED
  BY <1>1, <1>2, <1>3, PTL DEF SceneSpec
-----------------------------------------------------------------------------
(***************************************************************************)
(* The types of a variable that does not load.                             *)
(***************************************************************************)
CurType == Unit.die[CurDie].type

\* The loads that are running follow the chain of the variable's type.
FollowsChain ==
  /\ types[1] = CurType
  /\ \A i \in 1 .. (Len(types) - 1) : /\ Unit.types[types[i]].tag \in WrappingTypes
                                      /\ types[i + 1] = Unit.types[types[i]].base

NotLoaded == job.libFails \/ "name" \notin Unit.die[CurDie].names \/ ~Loads(Unit, CurType)

LoadInv ==
  /\ pc \in {"type", "typed"} => FollowsChain
  /\ pc = "typed" => ret \/ job.libFails \/ ~Loads(Unit, types[Len(types)])
  /\ pc = "drop" => NotLoaded
  /\ OnlyKnownUndefined

\* The variable that is printed next runs up to the end of the address space.
RunsOver ==
  /\ params \o locals # <<>>
  /\ LET value == ValueOf(Head(params \o locals)) IN value.addr + value.reads > MaxSize

Known ==
  pc = "undefined" =>
    \/ arg = Len(job.argv) /\ Word \in Valued
    \/ walk # <<>> /\ (job.libFails \/ "name" \notin Unit.die[CurDie].names
                        \/ ~Loads(Unit, Unit.die[CurDie].type))
    \/ RunsOver

LEMMA LoadQuiet ==
  ASSUME LoadInv, pc' \notin {"type", "typed", "drop", "undefined"}
  PROVE  LoadInv'
BY DEF LoadInv, OnlyKnownUndefined

LEMMA LoadStutters ==
  ASSUME LoadInv, UNCHANGED <<job, arg, pc, walk, types, ret, params, locals, heap, context>>
  PROVE  LoadInv'
<1>1. Unit' = Unit /\ CurDie' = CurDie /\ CurType' = CurType /\ Word' = Word
  BY DEF Unit, CurDie, CurType, Here, Word
<1>2. FollowsChain' <=> FollowsChain
  BY <1>1 DEF FollowsChain
<1>3. NotLoaded' <=> NotLoaded
  BY <1>1 DEF NotLoaded
<1>4. RunsOver' <=> RunsOver
  BY <1>1 DEF RunsOver, ValueOf
<1>5. OnlyKnownUndefined <=> Known
  BY DEF OnlyKnownUndefined, Known, RunsOver
<1>6. OnlyKnownUndefined' <=> Known'
  BY DEF OnlyKnownUndefined, Known, RunsOver
<1>7. Known' <=> Known
  BY <1>1, <1>4 DEF Known
<1> QED
  BY <1>1, <1>2, <1>3, <1>5, <1>6, <1>7 DEF LoadInv

LEMMA OptionLoad ==
  ASSUME LoadInv, ParseOption
  PROVE  LoadInv'
<1>1. CASE pc' = "undefined"
  <2>1. arg = Len(job.argv) /\ Word \in Valued /\ UNCHANGED <<arg, job>>
    BY <1>1 DEF ParseOption, Parsing
  <2> QED
    BY <1>1, <2>1 DEF LoadInv, OnlyKnownUndefined, Word
<1>2. CASE pc' # "undefined"
  <2>1. pc' = "args"
    BY <1>2 DEF ParseOption, Parsing
  <2> QED
    BY <2>1, LoadQuiet
<1> QED
  BY <1>1, <1>2

LEMMA DropLoad ==
  ASSUME Inv, LoadInv, DropVar
  PROVE  LoadInv'
<1>1. /\ pc = "drop" /\ pc' \in {"undefined", "child"} /\ UNCHANGED <<job, arg, walk>>
  BY DEF DropVar, cmd
<1>2. CASE pc' = "undefined"
  <2>1. NotLoaded
    BY <1>1 DEF LoadInv
  <2>2. walk # <<>>
    BY <1>1, WalkShape, Empty DEF Inv, WalkInv, InWalk
  <2>3. Unit' = Unit /\ CurDie' = CurDie
    BY <1>1 DEF Unit, CurDie, Here
  <2> QED
    BY <1>1, <1>2, <2>1, <2>2, <2>3 DEF LoadInv, OnlyKnownUndefined, NotLoaded, CurType
<1>3. CASE pc' = "child"
  BY <1>3, LoadQuiet
<1> QED
  BY <1>1, <1>2, <1>3

LEMMA NoTypeLoads ==
  ASSUME job \in Jobs
  PROVE  ~Loads(Unit, NoType)
BY LoadsRule, TypesShape DEF NoType

LEMMA VarLoad ==
  ASSUME Inv, LoadInv, LoadVar
  PROVE  LoadInv'
<1>1. pc = "load" /\ UNCHANGED <<job, walk>> /\ job \in Jobs
  BY DEF LoadVar, cmd, Inv, PlaceInv
<1>2. Unit' = Unit /\ CurDie' = CurDie /\ CurType' = CurType
  BY <1>1 DEF Unit, CurDie, CurType, Here
<1>3. CASE pc' = "type"
  <2>1. types' = <<CurType>>
    BY <1>3 DEF LoadVar, CurType
  <2>2. Len(types') = 1 /\ types'[1] = CurType
    BY <2>1
  <2>3. FollowsChain'
    BY <1>2, <2>2, NoPairs DEF FollowsChain
  <2> QED
    BY <1>3, <2>3 DEF LoadInv, OnlyKnownUndefined
<1>4. CASE pc' = "drop"
  <2>1. job.libFails \/ "name" \notin Unit.die[CurDie].names \/ CurType = NoType
    BY <1>4 DEF LoadVar, TagLoad, Call, CurType
  <2>2. NotLoaded
    BY <1>1, <2>1, NoTypeLoads DEF NotLoaded
  <2>3. NotLoaded'
    BY <1>1, <1>2, <2>2 DEF NotLoaded
  <2> QED
    BY <1>4, <2>3 DEF LoadInv, OnlyKnownUndefined
<1> QED
  BY <1>3, <1>4 DEF LoadVar

LEMMA TypeLoad ==
  ASSUME Inv, OwnInv, LoadInv, LoadType
  PROVE  LoadInv'
<1> DEFINE k == Len(types)
           t == types[k]
           base == Unit.types[t].base
<1>1. pc = "type" /\ UNCHANGED <<job, walk>> /\ job \in Jobs /\ FollowsChain
  BY DEF LoadType, cmd, Inv, PlaceInv, LoadInv
<1>2. Unit' = Unit /\ CurDie' = CurDie /\ CurType' = CurType
  BY <1>1 DEF Unit, CurDie, CurType, Here
<1>3. k \in 1 .. NTypes /\ types \in Seq(1 .. NTypes) /\ NTypes \in Nat /\ Last(types) = t /\ t \in 1 .. NTypes
  BY <1>1, TypesOnHeap DEF Last
<1>4. CASE pc' = "type"
  <2>1. types' = Append(types, base) /\ Unit.types[t].tag \in WrappingTypes
    BY <1>1, <1>3, <1>4 DEF LoadType
  <2>2. /\ Len(types') = k + 1 /\ types'[k + 1] = base
        /\ \A i \in 1 .. k : types'[i] = types[i]
    BY <1>3, <2>1, AppendSeq
  <2>3. types'[1] = CurType
    BY <1>1, <1>3, <2>2 DEF FollowsChain
  <2>4. ASSUME NEW i \in 1 .. k
        PROVE  /\ Unit.types[types'[i]].tag \in WrappingTypes
               /\ types'[i + 1] = Unit.types[types'[i]].base
    <3>1. CASE i = k
      BY <2>1, <2>2, <3>1
    <3>2. CASE i # k
      <4>1. i \in 1 .. (k - 1) /\ i + 1 \in 1 .. k
        BY <1>3, <3>2
      <4> QED
        BY <1>1, <2>2, <4>1 DEF FollowsChain
    <3> QED
      BY <3>1, <3>2
  <2>5. Len(types') - 1 = k
    BY <1>3, <2>2
  <2>6. FollowsChain'
    BY <1>2, <2>3, <2>4, <2>5 DEF FollowsChain
  <2> QED
    BY <1>4, <2>6 DEF LoadInv, OnlyKnownUndefined
<1>5. CASE pc' = "typed"
  <2>1. types' = types
    BY <1>1, <1>5 DEF LoadType
  <2>2. \/ ret' \/ job.libFails
        \/ /\ Unit.types[t].tag \notin LeafTypes
           /\ Unit.types[t].tag \in WrappingTypes => base = NoType
    BY <1>1, <1>3, <1>5 DEF LoadType, TagLoad, Call
  <2>3. t \in 0 .. NTypes
    BY <1>3
  <2>4. ret' \/ job.libFails \/ ~Loads(Unit, t)
    BY <1>1, <2>2, <2>3, LoadsRule, NoTypeLoads
  <2>5. FollowsChain' /\ (ret' \/ job.libFails \/ ~Loads(Unit, types[Len(types)]))
    BY <1>1, <1>2, <2>1, <2>4 DEF FollowsChain
  <2> QED
    BY <1>1, <1>2, <1>5, <2>1, <2>5 DEF LoadInv, OnlyKnownUndefined
<1> QED
  BY <1>1, <1>4, <1>5 DEF LoadType

LEMMA FrontIs ==
  ASSUME NEW S, NEW s \in Seq(S), Len(s) > 0
  PROVE  Len(Front(s)) = Len(s) - 1 /\ \A i \in 1 .. (Len(s) - 1) : Front(s)[i] = s[i]
<1> DEFINE x == Front(s)
<1>1. Len(s) \in Nat /\ \A i \in 1 .. (Len(s) - 1) : s[i] \in S
  OBVIOUS
<1>2. /\ Len(x) = IF 1 <= Len(s) - 1 THEN (Len(s) - 1) - 1 + 1 ELSE 0
      /\ \A i \in 1 .. ((Len(s) - 1) - 1 + 1) : x[i] = s[1 + i - 1]
  BY <1>1, SubSeqProperties DEF Front
<1> HIDE DEF x
<1>3. PICK n \in Nat : n = Len(s) /\ n > 0
  BY <1>1
<1>4. Len(x) = n - 1
  BY <1>2, <1>3
<1>5. ASSUME NEW i \in 1 .. (n - 1) PROVE x[i] = s[i]
  <2>1. i \in 1 .. ((n - 1) - 1 + 1) /\ 1 + i - 1 = i
    BY <1>3
  <2> QED
    BY <1>2, <1>3, <2>1
<1> QED
  BY <1>3, <1>4, <1>5 DEF x

LEMMA ReturnLoad ==
  ASSUME Inv, OwnInv, LoadInv, TypeReturns
  PROVE  LoadInv'
<1> DEFINE k == Len(types)
<1>1. /\ pc = "typed" /\ UNCHANGED <<job, walk, ret>> /\ job \in Jobs
      /\ FollowsChain /\ (ret \/ job.libFails \/ ~Loads(Unit, types[k]))
  BY DEF TypeReturns, cmd, Inv, PlaceInv, LoadInv
<1>2. Unit' = Unit /\ CurDie' = CurDie /\ CurType' = CurType
  BY <1>1 DEF Unit, CurDie, CurType, Here
<1>3. k \in 1 .. NTypes /\ types \in Seq(1 .. NTypes) /\ NTypes \in Nat
  BY <1>1, TypesOnHeap
<1>4. CASE k > 1
  <2>1. pc' = "typed" /\ types' = Front(types)
    BY <1>4 DEF TypeReturns
  <2>2. Len(types') = k - 1 /\ \A i \in 1 .. (k - 1) : types'[i] = types[i]
    BY <1>3, <2>1, FrontIs
  <2>3. 1 \in 1 .. (k - 1) /\ k - 1 \in 1 .. (k - 1) /\ k - 1 \in 1 .. k /\ (k - 1) + 1 = k
        /\ \A i \in 1 .. (k - 1 - 1) : i \in 1 .. (k - 1) /\ i + 1 \in 1 .. (k - 1)
    BY <1>3, <1>4
  <2>4. FollowsChain'
    BY <1>1, <1>2, <2>2, <2>3 DEF FollowsChain
  <2> DEFINE t == types[k - 1]
  <2>5. Unit.types[t].tag \in WrappingTypes /\ types[k] = Unit.types[t].base
    BY <1>1, <2>3 DEF FollowsChain
  <2>6. t \in 0 .. NTypes
    BY <1>3, <2>3
  <2>7. Loads(Unit, t) => Loads(Unit, types[k])
    <3>1. Unit.types[t].tag \notin LeafTypes
      BY <2>5 DEF LeafTypes, WrappingTypes
    <3> QED
      BY <1>1, <2>5, <2>6, <3>1, LoadsRule
  <2>8. types'[Len(types')] = t
    BY <2>2, <2>3
  <2> QED
    BY <1>1, <1>2, <2>1, <2>4, <2>7, <2>8 DEF LoadInv, OnlyKnownUndefined
<1>5. CASE k = 1
  <2>1. types[k] = CurType
    BY <1>1, <1>5 DEF FollowsChain
  <2>2. pc' = (IF ret THEN "location" ELSE "drop")
    BY <1>3, <1>5 DEF TypeReturns
  <2>3. CASE ret
    BY <2>2, <2>3, LoadQuiet
  <2>4. CASE ~ret
    <3>1. NotLoaded
      BY <1>1, <2>1, <2>4 DEF NotLoaded
    <3>2. NotLoaded'
      BY <1>1, <1>2, <3>1 DEF NotLoaded
    <3> QED
      BY <2>2, <2>4, <3>2 DEF LoadInv, OnlyKnownUndefined
  <2> QED
    BY <2>3, <2>4
<1>6. k > 1 \/ k = 1
  <2> HIDE DEF k
  <2> QED
    BY <1>3
<1> QED
  BY <1>4, <1>5, <1>6

-----------------------------------------------------------------------------
(***************************************************************************)
(* What the memory provider grants.                                        *)
(***************************************************************************)
LEMMA FormatAddress ==
  ASSUME NEW unit, NEW t, NEW granted
  PROVE  FormatValue(unit, t, granted).addr = 0
<1> DEFINE w == FormatValue(unit, t, granted)
<1>1. \E kind, reads : w = Printed(kind, reads, granted)
  BY DEF FormatValue
<1> HIDE DEF w
<1> QED
  BY <1>1 DEF Printed, w

\* Formatting a value looks at the bytes that were granted.
LEMMA FormatReads ==
  ASSUME job \in Jobs, NEW t \in 0 .. NTypes, TypeSize(Unit, t) # MaxSize
  PROVE  LET w == FormatValue(Unit, t, TypeSize(Unit, t)) IN
         w.reads = TypeSize(Unit, t) /\ w.granted = TypeSize(Unit, t)
<1> DEFINE size == TypeSize(Unit, t)
           w == FormatValue(Unit, t, size)
<1>2. CASE Unit.types[t].tag = "pointer"
  <2>1. w.reads = ValueBytes /\ w.granted = size
    BY <1>2 DEF FormatValue, Printed
  <2>2. size = ValueBytes
    BY <1>2, SizeRule DEF SizeField, WrappingTypes
  <2> QED
    BY <2>1, <2>2
<1>3. CASE Unit.types[t].tag # "pointer"
  <2>1. w.reads = Smaller(size, size) /\ w.granted = size
    BY <1>3 DEF FormatValue, Printed
  <2> HIDE DEF size, w
  <2>2. Smaller(size, size) = size
    BY DEF Smaller
  <2>3. w.reads = size /\ w.granted = size
    BY <2>1, <2>2
  <2> QED
    BY <2>3 DEF size, w
<1> QED
  BY <1>2, <1>3

LEMMA WrapBelow ==
  ASSUME NEW n \in Nat
  PROVE  Wrapped(n) \in Nat /\ Wrapped(n) <= n /\ (n <= MaxSize => Wrapped(n) = n)
<1>1. \A m \in Nat : n % (m + 1) \in Nat /\ n % (m + 1) <= n /\ (n <= m => n % (m + 1) = n)
  OBVIOUS
<1> QED
  BY <1>1, MaxSizeAssumption DEF Wrapped

\* Bytes that do not run up to the end of the address space are granted only
\* inside the stack memory.
LEMMA GrantedInside ==
  ASSUME NEW f, f.base \in Nat, f.stack \in Seq(0 .. 255), NEW addr \in Nat, NEW size \in Nat,
         Granted(f, addr, size)
  PROVE  /\ f.base <= addr /\ addr < f.base + Len(f.stack)
         /\ InStack(f, addr, size) \/ addr + size > MaxSize
<1> DEFINE b == f.base
           n == Len(f.stack)
<1>1. b \in Nat /\ n \in Nat
  OBVIOUS
<1>2. b <= addr /\ addr < Wrapped(b + n) /\ Wrapped(addr + size) <= Wrapped(b + n)
  BY DEF Granted
<1> HIDE DEF b, n
<1>3. b + n \in Nat /\ addr + size \in Nat
  BY <1>1
<1>4. /\ Wrapped(b + n) \in Nat /\ Wrapped(b + n) <= b + n
      /\ Wrapped(addr + size) \in Nat /\ (addr + size <= MaxSize => Wrapped(addr + size) = addr + size)
  BY <1>3, WrapBelow
<1>5. addr < b + n /\ (addr + size <= b + n \/ addr + size > MaxSize)
  BY <1>1, <1>2, <1>3, <1>4, MaxSizeAssumption
<1> QED
  BY <1>2, <1>5 DEF b, n, InStack

\* A value that has an address was read there, in the frame that is served.
LEMMA ValueGranted ==
  ASSUME job \in Jobs, NEW d \in 1 .. N, NEW v, DieOf(v) = d, ValueOf(v).addr # 0
  PROVE  /\ context # {}
         /\ Granted(CHOOSE f \in context : TRUE, ValueOf(v).addr, ValueOf(v).granted)
         /\ ValueOf(v).addr \in Nat /\ ValueOf(v).granted \in Nat /\ ValueOf(v).reads = ValueOf(v).granted
<1> DEFINE t == Unit.die[d].type
           loc == Unit.die[d].loc
           located == <<v[1], "location", v[3], 0>> \in heap
           frame == CHOOSE f \in context : TRUE
           size == TypeSize(Unit, t)
           x == ValueOf(v)
<1>1. t \in 0 .. NTypes /\ loc.result \in {"invalid", "value", "address"} /\ loc.addr \in Nat
  BY DieFields
<1>2. size \in Nat
  BY <1>1, SizeNumbers
<1>3. context # {}
  <2>1. context = {} => x = Printed("..", 0, 0)
    BY DEF ValueOf
  <2> QED
    BY <2>1 DEF Printed
<1>4. x = EvalValue(Unit, t, located, loc, frame)
  BY <1>3 DEF ValueOf
<1>5. located /\ loc.result = "address"
  <2>1. CASE ~located \/ loc.result = "invalid"
    <3>1. x = Printed("unknown", 0, 0)
      BY <1>4, <2>1 DEF EvalValue
    <3> QED
      BY <3>1 DEF Printed
  <2>2. CASE located /\ loc.result = "value"
    <3>1. x = FormatValue(Unit, t, ValueBytes)
      BY <1>4, <2>2 DEF EvalValue
    <3> QED
      BY <3>1, FormatAddress
  <2> QED
    BY <1>1, <2>1, <2>2
<1>6. x = ValueAt(Unit, t, loc.addr, frame)
  BY <1>4, <1>5 DEF EvalValue
<1>7. ~(loc.addr = 0 \/ size = MaxSize)
  <2>1. loc.addr = 0 \/ size = MaxSize => x = Printed("null", 0, 0)
    BY <1>6 DEF ValueAt
  <2> QED
    BY <2>1 DEF Printed
<1>8. Granted(frame, loc.addr, size)
  <2>1. ~Granted(frame, loc.addr, size) => x = Printed("unknown", 0, 0)
    BY <1>6, <1>7 DEF ValueAt
  <2> QED
    BY <2>1 DEF Printed
<1>9. x.addr = loc.addr /\ x.granted = size /\ x.reads = size
  <2> DEFINE w == FormatValue(Unit, t, size)
  <2>1. x = [w EXCEPT !.addr = loc.addr]
    BY <1>6, <1>7, <1>8 DEF ValueAt
  <2>2. w.reads = size /\ w.granted = size
    BY <1>1, <1>7, FormatReads
  <2>3. x.reads = w.reads /\ x.granted = w.granted /\ x.addr = loc.addr
    BY <2>1 DEF FormatValue, Printed
  <2> QED
    BY <2>2, <2>3
<1> HIDE DEF x, size, loc, frame
<1>10. /\ Granted(frame, x.addr, x.granted)
       /\ x.addr \in Nat /\ x.granted \in Nat /\ x.reads = x.granted
  BY <1>1, <1>2, <1>8, <1>9
<1> QED
  BY <1>3, <1>10 DEF x, frame

\* The frames that are served, whatever the file was.
Served == context \in SUBSET ServedFrames

LEMMA ServedKept ==
  ASSUME Served, [SceneNext]_sceneVars
  PROVE  Served'
<1>1. context' = context \/ context' = {} \/ context' \in SUBSET ServedFrames
  BY DEF SceneNext, Main, File, Serve, LoadContext, Abort, Step, sceneVars, vars, cmd, UnchangedReport,
         ParseOption, ParseAddress, Help, EndOfArgs, Open, Search, EndOfAddresses, NameOf, Sizes,
         Visit, Child, NextSibling, LoadVar, LoadType, TypeReturns, LoadLocation, DropVar,
         PrintParam, PrintLocal, PrintVar, PrintOutside, EndOfVars, Finish
<1> QED
  BY <1>1 DEF Served

\* Bytes the frame does not have are granted only up to the end of the address
\* space.
LEMMA OutsideLoad ==
  ASSUME Inv, Served, PrintOutside
  PROVE  LoadInv'
<1> DEFINE l == params \o locals
           v == Head(l)
           x == ValueOf(v)
           frame == CHOOSE f \in context : TRUE
<1>1. /\ pc' = "undefined" /\ UNCHANGED <<job, params, locals, heap, context>>
      /\ l # <<>> /\ x.addr # 0 /\ \A f \in context : ~InStack(f, x.addr, x.reads)
  BY DEF PrintOutside, cmd, UnchangedReport, lists
<1>2. v \in Handles(N)
  <2>1. l \in Seq(Handles(N))
    BY DEF Inv, ListInv
  <2> HIDE DEF l
  <2> QED
    BY <1>1, <2>1
<1>3. job \in Jobs /\ DieOf(v) \in 1 .. N
  BY <1>2, UnitShape, HandleShape DEF Inv, PlaceInv
<1>4. /\ context # {} /\ Granted(frame, x.addr, x.granted)
      /\ x.addr \in Nat /\ x.granted \in Nat /\ x.reads = x.granted
  BY <1>1, <1>3, ValueGranted
<1>5. frame \in context
  BY <1>4
<1>6. frame.base \in Nat /\ frame.stack \in Seq(0 .. 255)
  BY <1>5 DEF Served, ServedFrames
<1>7. x.addr + x.reads > MaxSize
  <2> HIDE DEF x, frame
  <2> QED
    BY <1>1, <1>4, <1>5, <1>6, GrantedInside
<1>8. RunsOver'
  BY <1>1, <1>7 DEF RunsOver, ValueOf, Unit
<1>9. OnlyKnownUndefined'
  BY <1>8 DEF OnlyKnownUndefined, RunsOver
<1> QED
  BY <1>1, <1>9 DEF LoadInv

-----------------------------------------------------------------------------
(***************************************************************************)
(* The name of a function.                                                 *)
(***************************************************************************)
\* The DIEs on the way from f along the specifications in s.
OnWay(f, s, i) == IF i = 0 THEN f ELSE s[i]

\* None of them has a name but the last, which is to be looked at.
Nameless(f, s) ==
  \A i \in 1 .. Len(s) : /\ Unit.die[OnWay(f, s, i - 1)].names = {}
                         /\ s[i] = Unit.die[OnWay(f, s, i - 1)].spec

LEMMA SpecBack ==
  ASSUME job \in Jobs, NEW d \in 1 .. N
  PROVE  Unit.die[d].spec \in 0 .. N /\ Unit.die[d].spec < d
<1>1. WellFormedUnit(Unit)
  BY ReportAssumption DEF Unit
<1>2. Unit.die[d].spec < d
  BY <1>1 DEF WellFormedUnit, Dies, Size, N
<1>3. Unit.die[d].spec = 0 \/ Unit.die[d].spec \in 1 .. N
  BY SpecShape DEF NoDie
<1> QED
  BY <1>2, <1>3, UnitShape

\* It gets shorter with every step.
LEMMA WayShort ==
  ASSUME job \in Jobs, NEW f \in 1 .. N, NEW s \in Seq(1 .. N), Nameless(f, s)
  PROVE  Len(s) < N /\ Len(s) \in Nat
<1> DEFINE m == Len(s)
           S == {i \in 0 .. m : OnWay(f, s, i) + i <= f}
           back == [i \in 1 .. m |-> i - 1]
<1>1. m \in Nat /\ N \in Nat /\ \A i \in 1 .. m : s[i] \in 1 .. N
  BY UnitShape
<1> HIDE DEF m
<1>2. 0 \in S
  BY <1>1 DEF OnWay
<1>3. ASSUME NEW i \in 1 .. m, i - 1 \in S PROVE i \in S
  <2> DEFINE d == OnWay(f, s, i - 1)
  <2>1. d \in 1 .. N
    BY <1>1 DEF OnWay
  <2>2. s[i] = Unit.die[d].spec
    BY DEF Nameless, m
  <2>3. s[i] < d /\ d + (i - 1) <= f
    BY <1>3, <2>1, <2>2, SpecBack
  <2>4. OnWay(f, s, i) = s[i] /\ s[i] \in 1 .. N
    BY <1>1 DEF OnWay
  <2> HIDE DEF d
  <2>5. s[i] + i <= f
    BY <1>1, <2>1, <2>3, <2>4
  <2> QED
    BY <1>1, <2>4, <2>5
<1>4. m \in S
  <2>1. \A i \in 1 .. m : back[i] \in 0 .. m /\ back[i] < i
    BY <1>1
  <2>2. \A i \in 1 .. m : back[i] \in S => i \in S
    BY <1>3
  <2> HIDE DEF S, back
  <2>3. \A i \in 0 .. m : i \in S
    BY <1>1, <1>2, <2>1, <2>2, Along
  <2> QED
    BY <1>1, <2>3
<1>5. OnWay(f, s, m) \in 1 .. N /\ OnWay(f, s, m) + m <= f
  BY <1>1, <1>4 DEF OnWay
<1>6. m < N
  BY <1>1, <1>5
<1> QED
  BY <1>1, <1>6 DEF m

NextSpec(d) == IF d = NoDie THEN NoDie ELSE Unit.die[d].spec

\* The chain of NamedBy.
LEMMA ChainRule ==
  ASSUME job \in Jobs, NEW f \in 1 .. N
  PROVE  \E c : /\ c[0] = f
                /\ \A k \in 1 .. N : c[k] = NextSpec(c[k - 1])
                /\ LET named == {k \in 0 .. N : c[k] # NoDie /\ Unit.die[c[k]].names # {}} IN
                   NamedBy(Unit, f) = IF named = {} THEN NoDie
                                      ELSE c[CHOOSE k \in named : \A j \in named : k <= j]
<1> DEFINE Value(g, k) == IF k = 0 THEN f
                          ELSE IF g[k - 1] = NoDie THEN NoDie ELSE Unit.die[g[k - 1]].spec
           F == [k \in 1 .. N |-> [d \in 0 .. N |-> NextSpec(d)]]
           back == [k \in 1 .. N |-> k - 1]
           chain == CHOOSE g : g = [k \in 0 .. N |-> Value(g, k)]
<1>1. N \in Nat /\ f \in 0 .. N /\ \A k \in 1 .. N : back[k] \in 0 .. N /\ back[k] < k
  BY UnitShape
<1>2. \A k \in 1 .. N : \A d \in 0 .. N : F[k][d] \in 0 .. N
  <2>1. ASSUME NEW d \in 0 .. N PROVE NextSpec(d) \in 0 .. N
    <3>1. CASE d = 0
      BY <1>1, <3>1 DEF NextSpec, NoDie
    <3>2. CASE d # 0
      <4>1. d \in 1 .. N
        BY <1>1, <3>2
      <4> QED
        BY <3>2, <4>1, SpecBack DEF NextSpec, NoDie
    <3> QED
      BY <3>1, <3>2
  <2> QED
    BY <2>1
<1>3. PICK g \in [0 .. N -> 0 .. N] : Computes(g, N, back, f, F)
  <2> DEFINE V == 0 .. N
  <2>1. f \in V /\ \A k \in 1 .. N : \A d \in V : F[k][d] \in V
    BY <1>1, <1>2
  <2> HIDE DEF F, back
  <2>2. \A k \in 1 .. N : back[k] \in 0 .. N /\ back[k] < k
    BY <1>1
  <2>3. \E g \in [0 .. N -> V] : Computes(g, N, back, f, F)
    <3> HIDE DEF V
    <3> QED
      BY <1>1, <2>1, <2>2, Recursion
  <2> QED
    BY <2>3
<1>4. ASSUME NEW k \in 0 .. N PROVE g[k] = Value(g, k)
  <2>1. CASE k = 0
    BY <1>3, <2>1 DEF Computes
  <2>2. CASE k # 0
    <3>1. k \in 1 .. N /\ k - 1 \in 0 .. N
      BY <1>1, <2>2
    <3>2. back[k] = k - 1 /\ g[k - 1] \in 0 .. N
      BY <1>3, <3>1
    <3>3. g[k] = F[k][g[back[k]]]
      BY <1>3, <3>1 DEF Computes
    <3>4. F[k][g[back[k]]] = NextSpec(g[k - 1])
      BY <3>1, <3>2
    <3> QED
      BY <2>2, <3>3, <3>4 DEF NextSpec
  <2> QED
    BY <2>1, <2>2
<1>5. g = [k \in 0 .. N |-> Value(g, k)]
  BY <1>3, <1>4
<1>6. chain = [k \in 0 .. N |-> Value(chain, k)]
  BY <1>5
<1>7. NamedBy(Unit, f) = LET named == {k \in 0 .. N : chain[k] # NoDie /\ Unit.die[chain[k]].names # {}} IN
                         IF named = {} THEN NoDie
                         ELSE chain[CHOOSE k \in named : \A j \in named : k <= j]
  BY DEF NamedBy, Size, N
<1> HIDE DEF chain
<1>8. chain[0] = f
  BY <1>1, <1>6
<1>9. ASSUME NEW k \in 1 .. N PROVE chain[k] = NextSpec(chain[k - 1])
  <2>1. k \in 0 .. N /\ k # 0
    BY <1>1
  <2> QED
    BY <1>6, <2>1 DEF NextSpec
<1> QED
  BY <1>7, <1>8, <1>9

\* The last of the way gives the name, or nothing does.
LEMMA NamedRule ==
  ASSUME job \in Jobs, NEW f \in 1 .. N, NEW s \in Seq(1 .. N), Nameless(f, s),
         NEW d, d = OnWay(f, s, Len(s))
  PROVE  /\ Unit.die[d].names # {} => NamedBy(Unit, f) = d
         /\ Unit.die[d].names = {} /\ Unit.die[d].spec = NoDie => NamedBy(Unit, f) = NoDie
<1> DEFINE m == Len(s)
<1>1. m \in Nat /\ N \in Nat /\ m < N /\ \A i \in 1 .. m : s[i] \in 1 .. N
  BY UnitShape, WayShort
<1>2. PICK c : /\ c[0] = f
               /\ \A k \in 1 .. N : c[k] = NextSpec(c[k - 1])
               /\ LET named == {k \in 0 .. N : c[k] # NoDie /\ Unit.die[c[k]].names # {}} IN
                  NamedBy(Unit, f) = IF named = {} THEN NoDie
                                     ELSE c[CHOOSE k \in named : \A j \in named : k <= j]
  BY ChainRule
<1> DEFINE named == {k \in 0 .. N : c[k] # NoDie /\ Unit.die[c[k]].names # {}}
<1>3. d = OnWay(f, s, m)
  OBVIOUS
<1>4. \A i \in 1 .. m : /\ Unit.die[OnWay(f, s, i - 1)].names = {}
                        /\ s[i] = Unit.die[OnWay(f, s, i - 1)].spec
  BY DEF Nameless
<1> HIDE DEF m
<1>5. ASSUME NEW i \in 0 .. m PROVE OnWay(f, s, i) \in 1 .. N
  BY <1>1 DEF OnWay
<1>6. ASSUME NEW i \in 0 .. m PROVE c[i] = OnWay(f, s, i)
  <2> DEFINE S == {j \in 0 .. m : c[j] = OnWay(f, s, j)}
             back == [j \in 1 .. m |-> j - 1]
  <2>1. 0 \in S
    BY <1>1, <1>2 DEF OnWay
  <2>2. \A j \in 1 .. m : back[j] \in 0 .. m /\ back[j] < j
    BY <1>1
  <2>3. ASSUME NEW j \in 1 .. m, back[j] \in S PROVE j \in S
    <3>1. j - 1 \in 0 .. m /\ c[j - 1] = OnWay(f, s, j - 1) /\ j \in 0 .. m /\ j \in 1 .. N
      BY <1>1, <2>3
    <3>2. c[j - 1] # NoDie
      BY <1>5, <3>1 DEF NoDie
    <3>3. c[j] = s[j]
      BY <1>2, <1>4, <3>1, <3>2 DEF NextSpec
    <3> QED
      BY <3>1, <3>3 DEF OnWay
  <2> HIDE DEF S, back
  <2>4. \A j \in 0 .. m : j \in S
    BY <1>1, <2>1, <2>2, <2>3, Along
  <2> QED
    BY <2>4 DEF S
<1>7. ASSUME NEW i \in 0 .. m, i # m PROVE i \notin named
  <2>1. i + 1 \in 1 .. m /\ (i + 1) - 1 = i
    BY <1>1, <1>7
  <2> QED
    BY <1>4, <1>6, <2>1
<1>8. ASSUME Unit.die[d].names # {} PROVE NamedBy(Unit, f) = d
  <2>1. m \in named
    <3>1. m \in 0 .. m /\ m \in 0 .. N
      BY <1>1
    <3>2. c[m] = d /\ d # NoDie
      BY <1>3, <1>5, <1>6, <3>1 DEF NoDie
    <3> QED
      BY <1>8, <3>1, <3>2
  <2>2. ASSUME NEW j \in named PROVE m <= j
    <3>1. j \in 0 .. N
      OBVIOUS
    <3> HIDE DEF named
    <3>2. j \notin 0 .. m \/ j = m
      BY <1>7
    <3> QED
      BY <1>1, <3>1, <3>2
  <2>3. ASSUME NEW k \in named, \A j \in named : k <= j PROVE k = m
    <3>1. k \in Nat
      BY <1>1
    <3> HIDE DEF named
    <3>2. k <= m /\ m <= k
      BY <2>1, <2>2, <2>3
    <3> QED
      BY <1>1, <3>1, <3>2
  <2>4. NamedBy(Unit, f) = IF named = {} THEN NoDie
                           ELSE c[CHOOSE k \in named : \A j \in named : k <= j]
    BY <1>2
  <2> HIDE DEF named
  <2>5. (CHOOSE k \in named : \A j \in named : k <= j) = m
    BY <2>1, <2>2, <2>3
  <2>6. m \in 0 .. m
    BY <1>1
  <2> QED
    BY <1>3, <1>6, <2>1, <2>4, <2>5, <2>6
<1>9. ASSUME Unit.die[d].names = {}, Unit.die[d].spec = NoDie PROVE NamedBy(Unit, f) = NoDie
  <2> DEFINE S == {j \in 0 .. N : j <= m \/ c[j] = NoDie}
             back == [j \in 1 .. N |-> j - 1]
  <2>1. 0 \in S
    BY <1>1
  <2>2. \A j \in 1 .. N : back[j] \in 0 .. N /\ back[j] < j
    BY <1>1
  <2>3. ASSUME NEW j \in 1 .. N, back[j] \in S PROVE j \in S
    <3>1. j - 1 <= m \/ c[j - 1] = NoDie
      BY <2>3
    <3>2. CASE c[j - 1] = NoDie
      BY <1>1, <1>2, <3>2 DEF NextSpec
    <3>3. CASE j - 1 = m
      <4>1. c[j - 1] = d
        BY <1>1, <1>3, <1>6, <3>3
      <4>2. c[j] = NoDie
        BY <1>2, <1>9, <4>1 DEF NextSpec
      <4> QED
        BY <1>1, <4>2
    <3>4. CASE j <= m
      BY <1>1, <3>4
    <3> QED
      BY <1>1, <3>1, <3>2, <3>3, <3>4
  <2> HIDE DEF S, back
  <2>4. \A j \in 0 .. N : j \in S
    BY <1>1, <2>1, <2>2, <2>3, Along
  <2>5. ASSUME NEW j \in named PROVE FALSE
    <3>1. j \in 0 .. N /\ c[j] # NoDie /\ Unit.die[c[j]].names # {}
      OBVIOUS
    <3>2. j <= m
      BY <2>4, <3>1 DEF S
    <3>3. j = m
      BY <1>1, <1>7, <3>1, <3>2
    <3>4. c[j] = d
      BY <1>1, <1>3, <1>6, <3>3
    <3> QED
      BY <1>9, <3>1, <3>4
  <2>6. named = {}
    BY <2>5
  <2> QED
    BY <1>2, <2>6
<1> QED
  BY <1>8, <1>9

\* The four attributes that can name a function, by preference.
LEMMA FirstNames ==
  ASSUME NEW seen, seen \subseteq {"linkage", "MIPS", "HP", "name"}, seen # {}
  PROVE  FirstName(seen) \in seen /\ (seen # {"name"} => FirstName(seen) # "name")
<1> DEFINE First(k) == NameOrder[k] \in seen /\ \A j \in 1 .. (k - 1) : NameOrder[j] \notin seen
<1>1. /\ NameOrder[1] = "linkage" /\ NameOrder[2] = "MIPS" /\ NameOrder[3] = "HP" /\ NameOrder[4] = "name"
  BY DEF NameOrder
<1>2. \E k \in 1 .. 4 : First(k)
  <2>1. CASE NameOrder[1] \in seen
    BY <2>1
  <2>2. CASE NameOrder[1] \notin seen /\ NameOrder[2] \in seen
    <3>1. First(2)
      BY <2>2
    <3> QED
      BY <3>1
  <2>3. CASE NameOrder[1] \notin seen /\ NameOrder[2] \notin seen /\ NameOrder[3] \in seen
    <3>1. First(3)
      BY <2>3
    <3> QED
      BY <3>1
  <2>4. CASE NameOrder[1] \notin seen /\ NameOrder[2] \notin seen /\ NameOrder[3] \notin seen
    <3>1. NameOrder[4] \in seen
      BY <1>1, <2>4
    <3>2. First(4)
      BY <2>4, <3>1
    <3> QED
      BY <3>2
  <2> QED
    BY <2>1, <2>2, <2>3, <2>4
<1>3. PICK k \in 1 .. 4 : First(k) /\ FirstName(seen) = NameOrder[k]
  BY <1>2 DEF FirstName
<1>4. ASSUME seen # {"name"}, NameOrder[k] = "name" PROVE FALSE
  <2>1. k = 4
    BY <1>1, <1>4
  <2>2. NameOrder[1] \notin seen /\ NameOrder[2] \notin seen /\ NameOrder[3] \notin seen
    BY <1>3, <2>1
  <2> QED
    BY <1>1, <1>3, <1>4, <2>1, <2>2
<1> QED
  BY <1>3, <1>4

LEMMA NamesShape ==
  ASSUME job \in Jobs, NEW d \in 1 .. N
  PROVE  Unit.die[d].names \subseteq {"linkage", "MIPS", "HP", "name"}
<1> DEFINE L == [form: {"none", "block", "exprloc", "data", "sec_offset", "loclistx", "other"},
                 result: {"invalid", "value", "address"}, addr: Unsigned]
           S == Dies(Unit) \cup {NoDie}
           T == 0 .. Len(Unit.types)
           Names == SUBSET {"linkage", "MIPS", "HP", "name"}
           Tags == {"cu", "function", "parameter", "variable", "other"}
           D == [tag: Tags, names: Names, spec: S, type: T, loc: L]
<1>1. WellFormedUnit(Unit)
  BY ReportAssumption DEF Unit
<1>2. Unit.die \in Seq(D)
  BY <1>1 DEF WellFormedUnit
<1>3. Unit.die[d] \in D
  <2> HIDE DEF D
  <2> QED
    BY <1>2 DEF N
<1>4. Unit.die[d].names \in Names
  <2> HIDE DEF L, S, T, Names, Tags
  <2> QED
    BY <1>3
<1> HIDE DEF D
<1> QED
  BY <1>4

\* What the search for a name has found so far, and in the end.
NameInv ==
  /\ pc = "name" => name = NoName /\ (~job.libFails => Nameless(func, refs))
  /\ NamePrinted

LEMMA NameQuiet ==
  ASSUME NameInv, pc' \notin {"name", "sizes"}
  PROVE  NameInv'
BY DEF NameInv, NamePrinted

LEMMA NameStutters ==
  ASSUME NameInv, UNCHANGED <<job, pc, opts, func, refs, name>>
  PROVE  NameInv'
<1>1. Unit' = Unit
  BY DEF Unit
<1>2. Nameless(func, refs)' <=> Nameless(func, refs)
  BY <1>1 DEF Nameless, OnWay
<1>3. NamePrinted'
  BY <1>1 DEF NameInv, NamePrinted
<1> QED
  BY <1>1, <1>2, <1>3 DEF NameInv

LEMMA SearchNames ==
  ASSUME Inv, NameInv, Search
  PROVE  NameInv'
<1>1. /\ pc = "search" /\ UNCHANGED <<opts, refs, job>> /\ name' = NoName
      /\ pc' = "name" \/ pc' = "search" \/ (pc' = "sizes" /\ "functions" \notin opts)
  BY DEF Search, cmd
<1>2. refs = <<>>
  BY <1>1 DEF Inv, RefsInv
<1>3. Nameless(func, refs)'
  BY <1>1, <1>2, Empty DEF Nameless
<1> QED
  BY <1>1, <1>3 DEF NameInv, NamePrinted

LEMMA NameNames ==
  ASSUME Inv, NameInv, NameOf
  PROVE  NameInv'
<1> DEFINE d == NamedDie
           m == Len(refs)
<1>1. /\ pc = "name" /\ UNCHANGED <<job, opts, func>> /\ job \in Jobs /\ func \in 1 .. N
      /\ refs \in Seq(1 .. N) /\ name = NoName /\ Unit' = Unit
  <2>1. pc = "name" /\ UNCHANGED <<job, opts, func>>
    BY DEF NameOf, cmd, place
  <2>2. Reporting
    BY <2>1 DEF Reporting
  <2> QED
    BY <2>1, <2>2 DEF Inv, PlaceInv, RefsInv, NameInv, Unit
<1>2. CASE job.libFails
  <2>1. UNCHANGED name \/ pc' = "sizes"
    BY DEF NameOf
  <2>2. pc' \in {"name", "sizes"} /\ (pc' = "name" => UNCHANGED name)
    BY <1>1 DEF NameOf
  <2> QED
    BY <1>1, <1>2, <2>2 DEF NameInv, NamePrinted
<1>3. CASE ~job.libFails
  <2>1. Nameless(func, refs)
    BY <1>1, <1>3 DEF NameInv
  <2>2. d = OnWay(func, refs, m) /\ d \in 1 .. N /\ m \in Nat
    <3> DEFINE D == 1 .. N
    <3>1. refs \in Seq(D) /\ func \in D
      BY <1>1
    <3> HIDE DEF D
    <3>2. d \in D /\ m \in Nat /\ d = OnWay(func, refs, m)
      BY <3>1 DEF NamedDie, OnWay, Last
    <3> QED
      BY <3>2 DEF D
  <2> DEFINE names == Unit.die[d].names
             spec == Unit.die[d].spec
  <2>3. /\ names # {} => NamedBy(Unit, func) = d
        /\ names = {} /\ spec = NoDie => NamedBy(Unit, func) = NoDie
    BY <1>1, <2>1, <2>2, NamedRule
  <2> HIDE DEF d
  <2>4. CASE names # {}
    <3>1. pc' = "sizes" /\ name' = <<FirstName(names), d>>
      BY <1>3, <2>4 DEF NameOf, Call, d
    <3>2. FirstName(names) \in names /\ (names # {"name"} => FirstName(names) # "name")
      BY <1>1, <2>2, <2>4, NamesShape, FirstNames
    <3>3. d # NoDie
      BY <2>2 DEF NoDie
    <3>4. NamedBy(Unit', func') = d
      BY <1>1, <2>3, <2>4
    <3>5. NamePrinted'
      BY <1>1, <3>1, <3>2, <3>3, <3>4 DEF NamePrinted
    <3> QED
      BY <3>1, <3>5 DEF NameInv
  <2>5. CASE names = {} /\ spec # NoDie
    <3>1. pc' = "name" /\ refs' = Append(refs, spec) /\ name' = name
      BY <1>1, <1>3, <2>5 DEF NameOf, Call, d
    <3>2. /\ Len(refs') = m + 1 /\ refs'[m + 1] = spec
          /\ \A i \in 1 .. m : refs'[i] = refs[i]
      BY <1>1, <3>1, AppendSeq
    <3>3. \A i \in 0 .. m : OnWay(func', refs', i) = OnWay(func, refs, i)
      BY <1>1, <2>2, <3>2 DEF OnWay
    <3>4. ASSUME NEW i \in 1 .. (m + 1)
          PROVE  /\ Unit.die[OnWay(func', refs', i - 1)].names = {}
                 /\ refs'[i] = Unit.die[OnWay(func', refs', i - 1)].spec
      <4>1. CASE i = m + 1
        <5>1. i - 1 = m /\ m \in 0 .. m
          BY <2>2, <4>1
        <5> QED
          BY <2>2, <2>5, <3>2, <3>3, <4>1, <5>1
      <4>2. CASE i # m + 1
        <5>1. i \in 1 .. m /\ i - 1 \in 0 .. m
          BY <2>2, <4>2
        <5> QED
          BY <2>1, <3>2, <3>3, <5>1 DEF Nameless
      <4> QED
        BY <4>1, <4>2
    <3>5. Nameless(func, refs)'
      BY <1>1, <3>2, <3>4 DEF Nameless
    <3> QED
      BY <1>1, <3>1, <3>5 DEF NameInv, NamePrinted
  <2>6. CASE names = {} /\ spec = NoDie
    <3>1. pc' = "sizes" /\ name' = NoName
      BY <1>1, <1>3, <2>6 DEF NameOf, Call, d
    <3>2. NamedBy(Unit', func') = NoDie
      BY <1>1, <2>3, <2>6
    <3>3. NamePrinted'
      BY <3>1, <3>2 DEF NamePrinted
    <3> QED
      BY <3>1, <3>3 DEF NameInv
  <2> QED
    BY <2>4, <2>5, <2>6
<1> QED
  BY <1>2, <1>3

-----------------------------------------------------------------------------
LEMMA NextLoad ==
  ASSUME Inv, OwnInv, Served, LoadInv, [SceneNext]_sceneVars
  PROVE  LoadInv'
<1>1. CASE UNCHANGED vars
  BY <1>1, LoadStutters DEF vars, cmd, loading, lists
<1>2. CASE Serve \/ Abort
  BY <1>2, LoadQuiet DEF Serve, LoadContext, Abort
<1>3. CASE Step
  <2>1. CASE ParseOption \/ DropVar \/ LoadVar \/ LoadType \/ TypeReturns \/ PrintOutside
    BY <2>1, OptionLoad, DropLoad, VarLoad, TypeLoad, ReturnLoad, OutsideLoad
  <2>2. CASE \/ ParseAddress \/ Help \/ EndOfArgs \/ Open \/ Search \/ EndOfAddresses \/ NameOf \/ Sizes
             \/ EndOfVars \/ Finish \/ Visit \/ LoadLocation \/ PrintParam \/ PrintLocal
    <3>1. pc' \notin {"type", "typed", "drop", "undefined"}
      BY <2>2 DEF ParseAddress, Parsing, Help, EndOfArgs, Open, Search, EndOfAddresses, NameOf, Sizes,
                  PrintOutside, EndOfVars, Finish, Visit, LoadLocation, PrintParam, PrintLocal, PrintVar
    <3> QED
      BY <3>1, LoadQuiet
  <2>3. CASE Child \/ NextSibling
    <3>1. pc' \notin {"type", "typed", "drop", "undefined"}
      BY <2>3 DEF Child, NextSibling, Leave, Descend, MoveTo
    <3> QED
      BY <3>1, LoadQuiet
  <2> QED
    BY <1>3, <2>1, <2>2, <2>3 DEF Step
<1> QED
  BY <1>1, <1>2, <1>3 DEF SceneNext, Main, File, sceneVars

LEMMA NextName ==
  ASSUME Inv, NameInv, [SceneNext]_sceneVars
  PROVE  NameInv'
<1>1. CASE UNCHANGED vars
  BY <1>1, NameStutters DEF vars, cmd, place, naming
<1>2. CASE Serve \/ Abort
  BY <1>2, NameQuiet DEF Serve, LoadContext, Abort
<1>3. CASE Step
  <2>1. CASE Search \/ NameOf
    BY <2>1, SearchNames, NameNames
  <2>2. CASE \/ ParseOption \/ ParseAddress \/ Help \/ EndOfArgs \/ Open \/ EndOfAddresses \/ Sizes
             \/ EndOfVars \/ Finish \/ Visit \/ LoadLocation \/ PrintParam \/ PrintLocal \/ PrintOutside
             \/ DropVar \/ LoadVar \/ LoadType \/ TypeReturns
    <3>1. pc' \notin {"name", "sizes"}
      BY <2>2 DEF ParseOption, ParseAddress, Parsing, Help, EndOfArgs, Open, EndOfAddresses, Sizes,
                  PrintOutside, EndOfVars, Finish, Visit, LoadLocation, PrintParam, PrintLocal, PrintVar,
                  DropVar, LoadVar, LoadType, TypeReturns
    <3> QED
      BY <3>1, NameQuiet
  <2>3. CASE Child \/ NextSibling
    <3>1. pc' \notin {"name", "sizes"}
      BY <2>3 DEF Child, NextSibling, Leave, Descend, MoveTo
    <3> QED
      BY <3>1, NameQuiet
  <2> QED
    BY <1>3, <2>1, <2>2, <2>3 DEF Step
<1> QED
  BY <1>1, <1>2, <1>3 DEF SceneNext, Main, File, sceneVars

Answers == Ownership /\ Served /\ LoadInv /\ NameInv

LEMMA AnswersKept ==
  ASSUME Answers, [SceneNext]_sceneVars
  PROVE  Answers'
BY NextInv, NextOwns, ServedKept, NextLoad, NextName DEF Answers, Ownership

LEMMA AnswersInit == SceneInit => Answers
<1> SUFFICES ASSUME SceneInit PROVE Answers
  OBVIOUS
<1>1. pc = "args" /\ context = {}
  BY DEF SceneInit, Init
<1> QED
  BY <1>1, InitInv, InitOwns
  DEF Answers, Ownership, Served, LoadInv, OnlyKnownUndefined, NameInv, NamePrinted

\* Of the operations that may be undefined the program comes only to a missing
\* value of an option, to the deletion of a variable that did not load - where
\* libdwarf does not fail one without a name, or with a type that is not
\* supported - and to a variable whose bytes run up to the end of the address
\* space; nothing else is printed from bytes the frame does not have.
THEOREM KnownUndefined == SceneSpec => []OnlyKnownUndefined
<1>1. Answers => OnlyKnownUndefined
  BY DEF Answers, LoadInv
<1>2. Answers /\ [SceneNext]_sceneVars => Answers'
  BY AnswersKept
<1> QED
  BY <1>1, <1>2, AnswersInit, PTL DEF SceneSpec

\* However long the chain of specifications is, the name that is printed is
\* that of the first DIE on it that has one.
THEOREM FirstNamePrinted == SceneSpec => []NamePrinted
<1>1. Answers => NamePrinted
  BY DEF Answers, NameInv
<1>2. Answers /\ [SceneNext]_sceneVars => Answers'
  BY AnswersKept
<1> QED
  BY <1>1, <1>2, AnswersInit, PTL DEF SceneSpec

-----------------------------------------------------------------------------
(***************************************************************************)
(* The context file, and the values that are printed from it.              *)
(***************************************************************************)
\* A value x with an address lies in the memory of the frame that is served.
FromFrame(x) ==
  x.addr # 0 =>
    /\ stage = "loaded" /\ ctx # <<>> /\ ctx[1].frames # <<>>
    /\ Granted(ctx[1].frames[1], x.addr, x.granted)
    /\ x.addr \in Nat /\ x.granted \in Nat /\ x.reads = x.granted

BeforeServing == {"args", "open", "context"}

MemoryInv == context # {} => stage = "loaded" /\ context = Memory

SceneInv ==
  /\ ReaderInv
  /\ pc \in BeforeServing => context = {} /\ values = <<>>
  /\ MemoryInv
  /\ \E S : values \in Seq(S)
  /\ \A i \in 1 .. Len(values) : FromFrame(values[i].value)

LEMMA NoMemory ==
  ASSUME NEW addr \in Nat, NEW size \in Nat
  PROVE  ~Granted([base |-> 0, stack |-> <<>>], addr, size)
<1> DEFINE f == [base |-> 0, stack |-> <<>>]
<1>1. f.base = 0 /\ Len(f.stack) = 0
  OBVIOUS
<1> HIDE DEF f
<1>2. f.base + Len(f.stack) = 0
  BY <1>1
<1>3. Wrapped(0) = 0
  BY WrapBelow, MaxSizeAssumption
<1>4. ~(addr < Wrapped(f.base + Len(f.stack)))
  BY <1>2, <1>3
<1> QED
  BY <1>4 DEF Granted, f

\* The frame that is served is the first of the context, or has no memory.
LEMMA ServedFrame ==
  ASSUME context # {}, context = Memory
  PROVE  LET m == CHOOSE f \in context : TRUE IN
         \/ ctx # <<>> /\ ctx[1].frames # <<>>
              /\ m = [base |-> ctx[1].frames[1].base, stack |-> ctx[1].frames[1].stack]
         \/ m = [base |-> 0, stack |-> <<>>]
<1> DEFINE m == CHOOSE f \in context : TRUE
<1>1. m \in context
  OBVIOUS
<1> HIDE DEF m
<1>2. PICK f \in (IF FirstThreadFrame = {} THEN {[base |-> 0, stack |-> <<>>]} ELSE FirstThreadFrame) :
        m = [base |-> f.base, stack |-> f.stack]
  BY <1>1 DEF Memory
<1>3. CASE FirstThreadFrame = {}
  BY <1>2, <1>3 DEF m
<1>4. CASE FirstThreadFrame # {}
  <2>1. f \in FirstThreadFrame
    BY <1>2, <1>4
  <2>2. ctx # <<>> /\ ctx[1].frames # <<>> /\ f = ctx[1].frames[1]
    BY <2>1 DEF FirstThreadFrame
  <2> QED
    BY <1>2, <2>2 DEF m
<1> QED
  BY <1>3, <1>4

LEMMA ValueFromFrame ==
  ASSUME job \in Jobs, MemoryInv, NEW d \in 1 .. N, NEW v, DieOf(v) = d
  PROVE  FromFrame(ValueOf(v))
<1> DEFINE frame == CHOOSE f \in context : TRUE
           x == ValueOf(v)
<1> SUFFICES ASSUME x.addr # 0 PROVE FromFrame(x)
  BY DEF FromFrame
<1>1. /\ context # {} /\ Granted(frame, x.addr, x.granted)
      /\ x.addr \in Nat /\ x.granted \in Nat /\ x.reads = x.granted
  BY ValueGranted
<1>2. stage = "loaded" /\ context = Memory
  BY <1>1 DEF MemoryInv
<1>3. \/ /\ ctx # <<>> /\ ctx[1].frames # <<>>
         /\ frame = [base |-> ctx[1].frames[1].base, stack |-> ctx[1].frames[1].stack]
      \/ frame = [base |-> 0, stack |-> <<>>]
  BY <1>1, <1>2, ServedFrame
<1> HIDE DEF x
<1>4. frame # [base |-> 0, stack |-> <<>>]
  BY <1>1, NoMemory
<1>5. Granted(ctx[1].frames[1], x.addr, x.granted)
  <2> DEFINE b == ctx[1].frames[1].base
             k == ctx[1].frames[1].stack
  <2>1. frame = [base |-> b, stack |-> k]
    BY <1>3, <1>4
  <2> HIDE DEF b, k, frame
  <2>2. frame.base = b /\ frame.stack = k
    BY <2>1
  <2>3. frame.base = ctx[1].frames[1].base /\ frame.stack = ctx[1].frames[1].stack
    BY <2>2 DEF b, k
  <2> QED
    BY <1>1, <2>3 DEF Granted
<1>6. ctx # <<>> /\ ctx[1].frames # <<>>
  BY <1>3, <1>4
<1> QED
  BY <1>1, <1>2, <1>5, <1>6 DEF FromFrame

LEMMA FileKept ==
  ASSUME UNCHANGED fileVars
  PROVE  Memory' = Memory /\ \A x : FromFrame(x)' <=> FromFrame(x)
<1>1. stage' = stage /\ ctx' = ctx
  BY DEF fileVars, reading
<1> QED
  BY <1>1 DEF FromFrame, Memory, FirstThreadFrame

\* What a step of main does with the values, and with the frame that is served.
LEMMA MainKeeps ==
  ASSUME Step
  PROVE  /\ pc' \in BeforeServing => pc \in BeforeServing /\ values' = values /\ context' = context
         /\ values' = values \/ values' = <<>> \/ PrintParam \/ PrintLocal
         /\ context' = context \/ context' = {}
BY DEF Step, cmd, UnchangedReport, BeforeServing, Parsing,
       ParseOption, ParseAddress, Help, EndOfArgs, Open, Search, EndOfAddresses, NameOf, Sizes,
       Visit, Child, NextSibling, Leave, Descend, MoveTo, LoadVar, LoadType, TypeReturns, LoadLocation, DropVar,
       PrintParam, PrintLocal, PrintVar, PrintOutside, EndOfVars, Finish

LEMMA PrintFromFrame ==
  ASSUME Inv, SceneInv, UNCHANGED <<fileVars, context>>, NEW v \in Handles(N), PrintVar(v), pc' \notin BeforeServing
  PROVE  SceneInv'
<1> DEFINE e == [var |-> v, value |-> ValueOf(v)]
           l == values
<1>1. values' = Append(l, e)
  BY DEF PrintVar
<1>2. job \in Jobs /\ N \in Nat
  BY UnitShape DEF Inv, PlaceInv
<1>3. DieOf(v) \in 1 .. N
  BY <1>2, HandleShape
<1>4. FromFrame(e.value)
  BY <1>2, <1>3, ValueFromFrame DEF SceneInv
<1>5. ReaderInv'
  BY ReaderStutter DEF SceneInv
<1>6. PICK S : l \in Seq(S)
  BY DEF SceneInv
<1>7. \A i \in 1 .. Len(l) : FromFrame(l[i].value)
  BY DEF SceneInv
<1> HIDE DEF e, l
<1>8. /\ Len(l) \in Nat /\ Len(Append(l, e)) = Len(l) + 1
      /\ Append(l, e)[Len(l) + 1] = e
      /\ \A i \in 1 .. Len(l) : Append(l, e)[i] = l[i]
  BY <1>6, AppendSeq
<1>9. \E T : values' \in Seq(T)
  BY <1>1, <1>6, AppendedSeq
<1>10. ASSUME NEW i \in 1 .. Len(values') PROVE FromFrame(values'[i].value)
  <2>1. CASE i = Len(l) + 1
    BY <1>1, <1>4, <1>8, <2>1
  <2>2. CASE i # Len(l) + 1
    <3>1. i \in 1 .. Len(l) /\ values'[i] = l[i]
      BY <1>1, <1>8, <2>2
    <3> QED
      BY <1>7, <3>1
  <2> QED
    BY <2>1, <2>2
<1>11. Memory' = Memory /\ \A x : FromFrame(x)' <=> FromFrame(x)
  BY FileKept
<1>12. \A i \in 1 .. Len(values') : FromFrame(values[i].value)'
  <2>1. stage' = stage /\ ctx' = ctx
    BY DEF fileVars, reading
  <2> QED
    BY <1>10, <2>1 DEF FromFrame
<1>13. MemoryInv'
  <2>1. stage' = stage
    BY DEF fileVars
  <2> QED
    BY <1>11, <2>1 DEF MemoryInv, SceneInv
<1> QED
  BY <1>5, <1>9, <1>12, <1>13 DEF SceneInv

LEMMA NextScene ==
  ASSUME Inv, SceneInv, [SceneNext]_sceneVars
  PROVE  SceneInv'
<1>1. CASE UNCHANGED sceneVars \/ Main
  <2>1. UNCHANGED fileVars
    BY <1>1 DEF sceneVars, Main
  <2>2. /\ pc' \in BeforeServing => pc \in BeforeServing /\ values' = values /\ context' = context
        /\ values' = values \/ values' = <<>> \/ PrintParam \/ PrintLocal
        /\ context' = context \/ context' = {}
    <3>1. CASE Main
      BY <3>1, MainKeeps DEF Main
    <3>2. CASE UNCHANGED sceneVars
      BY <3>2 DEF sceneVars, vars, cmd
    <3> QED
      BY <1>1, <3>1, <3>2
  <2>3. ReaderInv'
    BY <2>1, ReaderStutter DEF SceneInv
  <2>4. Memory' = Memory /\ stage' = stage /\ ctx' = ctx
    BY <2>1, FileKept DEF fileVars, reading
  <2>5. MemoryInv'
    BY <2>2, <2>4 DEF MemoryInv, SceneInv
  <2>6. CASE values' = values
    <3>1. \A i \in 1 .. Len(values') : FromFrame(values[i].value)'
      BY <2>4, <2>6 DEF FromFrame, SceneInv
    <3>2. \E S : values' \in Seq(S)
      BY <2>6 DEF SceneInv
    <3>3. pc' \in BeforeServing => context' = {} /\ values' = <<>>
      BY <2>2 DEF SceneInv
    <3> QED
      BY <2>3, <2>5, <3>1, <3>2, <3>3 DEF SceneInv
  <2>7. CASE values' = <<>>
    <3>1. values' \in Seq({}) /\ \A i \in 1 .. Len(values') : FALSE
      BY <2>7
    <3>3. pc' \in BeforeServing => context' = {} /\ values' = <<>>
      BY <2>2, <2>7 DEF SceneInv
    <3> QED
      BY <2>3, <2>5, <3>1, <3>3 DEF SceneInv
  <2>8. CASE PrintParam
    <3>1. Head(params) \in Handles(N) /\ PrintVar(Head(params))
      BY <2>8 DEF PrintParam, Inv, ListInv
    <3>2. pc' \notin BeforeServing /\ context' = context
      BY <2>8 DEF PrintParam, PrintVar, cmd, BeforeServing
    <3> QED
      BY <2>1, <3>1, <3>2, PrintFromFrame
  <2>9. CASE PrintLocal
    <3>1. Head(locals) \in Handles(N) /\ PrintVar(Head(locals))
      BY <2>9 DEF PrintLocal, Inv, ListInv
    <3>2. pc' \notin BeforeServing /\ context' = context
      BY <2>9 DEF PrintLocal, PrintVar, cmd, BeforeServing
    <3> QED
      BY <2>1, <3>1, <3>2, PrintFromFrame
  <2> QED
    BY <2>2, <2>6, <2>7, <2>8, <2>9
<1>2. CASE File
  <2>1. pc = "context" /\ FileNext /\ UNCHANGED vars
    BY <1>2 DEF File
  <2>2. ReaderInv'
    BY <2>1, ReaderStep DEF SceneInv
  <2>3. context = {} /\ values = <<>> /\ context' = {} /\ values' = <<>>
    BY <2>1 DEF SceneInv, BeforeServing, vars, cmd
  <2>4. values' \in Seq({}) /\ \A i \in 1 .. Len(values') : FALSE
    BY <2>3
  <2> QED
    BY <2>2, <2>3, <2>4 DEF SceneInv, MemoryInv
<1>3. CASE Serve \/ Abort
  <2>1. UNCHANGED fileVars /\ pc = "context" /\ pc' \notin BeforeServing /\ values' = values
    BY <1>3 DEF Serve, LoadContext, Abort, UnchangedReport, BeforeServing
  <2>2. ReaderInv'
    BY <2>1, ReaderStutter DEF SceneInv
  <2>3. values' = <<>>
    BY <2>1 DEF SceneInv, BeforeServing
  <2>4. values' \in Seq({}) /\ \A i \in 1 .. Len(values') : FALSE
    BY <2>3
  <2>5. Memory' = Memory /\ stage' = stage
    BY <2>1, FileKept DEF fileVars
  <2>6. MemoryInv'
    <3>1. CASE Serve
      BY <2>5, <3>1 DEF Serve, MemoryInv
    <3>2. CASE Abort
      BY <2>5, <3>2 DEF Abort, cmd, MemoryInv, SceneInv
    <3> QED
      BY <1>3, <3>1, <3>2
  <2> QED
    BY <2>1, <2>2, <2>4, <2>6 DEF SceneInv
<1> QED
  BY <1>1, <1>2, <1>3 DEF SceneNext

\* Where the bytes of a frame at base b, n of them, are looked at.
LEMMA BytesAt ==
  ASSUME NEW b \in Nat, NEW n \in Nat, NEW m \in Nat, NEW addr \in Nat, NEW granted \in Nat, NEW reads \in Nat,
         reads <= granted, b <= addr, addr < b + n, addr + granted <= b + n, m <= n,
         NEW a \in addr .. (addr + reads - 1)
  PROVE  /\ a < b + m => a - b + 1 \in 1 .. m
         /\ ~(a < b + m) => a - b + 1 \in (m + 1) .. n
  OBVIOUS

LEMMA ValuesShown == SceneInv => ValuesFromText
<1> SUFFICES ASSUME SceneInv, ~cut, NEW i \in DOMAIN values, values[i].value.addr # 0,
                    values[i].value.addr + values[i].value.reads <= MaxSize
             PROVE  LET v == values[i].value
                        shown == scene.threads[1].frames[1] IN
                    /\ scene.threads[1].frames # <<>>
                    /\ \A f \in context : \A a \in v.addr .. (v.addr + v.reads - 1) :
                         IF a < shown.base + Len(shown.stack)
                         THEN f.stack[a - f.base + 1] = shown.stack[a - shown.base + 1]
                         ELSE f.stack[a - f.base + 1] \in MoreWords(shown)
  BY DEF ValuesFromText
<1> DEFINE v == values[i].value
           g == ctx[1].frames[1]
           s == scene.threads[1].frames[1]
           b == g.base
           n == Len(g.stack)
           c == s.base
           m == Len(s.stack)
<1>1. i \in 1 .. Len(values)
  <2>1. PICK S : values \in Seq(S)
    BY DEF SceneInv
  <2> QED
    BY <2>1
<1>2. /\ stage = "loaded" /\ ctx # <<>> /\ ctx[1].frames # <<>>
      /\ Granted(g, v.addr, v.granted)
      /\ v.addr \in Nat /\ v.granted \in Nat /\ v.reads = v.granted
  BY <1>1 DEF SceneInv, FromFrame
<1>3. Len(ctx) > 0 /\ Len(ctx[1].frames) > 0
  <2>1. ctx \in Seq(LoadedThreads) /\ Len(ctx) \in Nat
    BY <1>2, LoadedAt DEF SceneInv
  <2>2. Len(ctx) > 0 /\ 1 \in 1 .. Len(ctx)
    BY <1>2, <2>1
  <2>3. ctx[1] \in LoadedThreads
    BY <2>1, <2>2
  <2>4. ctx[1].frames \in Seq(LoadedFrames)
    BY <2>3, LoadedThreadType
  <2>5. Len(ctx[1].frames) > 0
    <3> DEFINE fs == ctx[1].frames
    <3>1. fs \in Seq(LoadedFrames) /\ fs # <<>>
      BY <1>2, <2>4
    <3> HIDE DEF fs
    <3>2. Len(fs) > 0
      BY <3>1
    <3> QED
      BY <3>2 DEF fs
  <2> QED
    BY <2>2, <2>5
<1>4. /\ scene.threads[1].frames # <<>>
      /\ b \in Nat /\ g.stack \in Seq(0 .. 255) /\ c \in Nat /\ s.stack \in Seq(0 .. 255)
      /\ n > 0 => b = c
      /\ m <= n
      /\ \A j \in 1 .. m : g.stack[j] = s.stack[j]
      /\ \A j \in (m + 1) .. n : g.stack[j] \in MoreWords(s)
  BY <1>2, <1>3, FirstFrameShown DEF SceneInv
<1>5. b <= v.addr /\ v.addr < b + n /\ v.addr + v.granted <= b + n
  <2> DEFINE addr == v.addr
             size == v.granted
  <2>1. g.base \in Nat /\ g.stack \in Seq(0 .. 255) /\ addr \in Nat /\ size \in Nat /\ Granted(g, addr, size)
    BY <1>2, <1>4
  <2>2. ~(addr + size > MaxSize)
    BY <1>2, MaxSizeAssumption
  <2> HIDE DEF g, addr, size
  <2>3. g.base <= addr /\ addr < g.base + Len(g.stack) /\ addr + size <= g.base + Len(g.stack)
    BY <2>1, <2>2, GrantedInside DEF InStack
  <2> QED
    BY <2>3 DEF addr, size
<1>6. n \in Nat /\ m \in Nat
  <2>1. \A q \in Seq(0 .. 255) : Len(q) \in Nat
    OBVIOUS
  <2> HIDE DEF g, s
  <2>2. g.stack \in Seq(0 .. 255) /\ s.stack \in Seq(0 .. 255)
    BY <1>4
  <2> QED
    BY <2>1, <2>2
<1>7. b = c
  <2>1. n > 0
    BY <1>2, <1>4, <1>5, <1>6
  <2> QED
    BY <1>4, <2>1
<1>8. ASSUME NEW f \in context PROVE f.base = b /\ f.stack = g.stack
  <2>1. context = Memory
    BY <1>8 DEF SceneInv, MemoryInv
  <2>2. FirstThreadFrame = {g}
    BY <1>2 DEF FirstThreadFrame
  <2>3. f = [base |-> g.base, stack |-> g.stack]
    BY <2>1, <2>2 DEF Memory
  <2> QED
    BY <2>3
<1>9. ASSUME NEW f \in context, NEW a \in v.addr .. (v.addr + v.reads - 1)
      PROVE  IF a < s.base + Len(s.stack)
             THEN f.stack[a - f.base + 1] = s.stack[a - s.base + 1]
             ELSE f.stack[a - f.base + 1] \in MoreWords(s)
  <2> DEFINE addr == v.addr
             reads == v.reads
             granted == v.granted
             k == a - b + 1
  <2>1. /\ b \in Nat /\ n \in Nat /\ m \in Nat /\ addr \in Nat /\ granted \in Nat /\ reads \in Nat
        /\ reads <= granted /\ b <= addr /\ addr < b + n /\ addr + granted <= b + n /\ m <= n
    BY <1>2, <1>4, <1>5, <1>6
  <2>2. a \in addr .. (addr + reads - 1)
    BY <1>9
  <2>3. f.base = b /\ f.stack = g.stack
    BY <1>8
  <2> HIDE DEF addr, reads, granted, b, n, m
  <2>4. /\ a < b + m => a - b + 1 \in 1 .. m
        /\ ~(a < b + m) => a - b + 1 \in (m + 1) .. n
    BY <2>1, <2>2, BytesAt
  <2> HIDE DEF g, s
  <2>5. IF a < b + m THEN g.stack[k] = s.stack[k] ELSE g.stack[k] \in MoreWords(s)
    BY <1>4, <2>4
  <2>6. f.stack[a - f.base + 1] = g.stack[k] /\ s.stack[a - s.base + 1] = s.stack[k] /\ s.base + Len(s.stack) = b + m
    BY <1>7, <2>3 DEF m, c
  <2> HIDE DEF k
  <2> QED
    BY <2>5, <2>6
<1> QED
  BY <1>4, <1>9

Scene == Inv /\ SceneInv

LEMMA SceneStarts == SceneInit => Scene
<1> SUFFICES ASSUME SceneInit PROVE Scene
  OBVIOUS
<1>1. ReaderInv
  BY ReaderInit DEF SceneInit
<1>2. context = {} /\ values = <<>>
  BY DEF SceneInit, Init
<1>3. values \in Seq({}) /\ \A i \in 1 .. Len(values) : FALSE
  BY <1>2
<1> QED
  BY <1>1, <1>2, <1>3, InitInv DEF Scene, SceneInv, MemoryInv

LEMMA SceneGoesOn ==
  ASSUME Scene, [SceneNext]_sceneVars
  PROVE  Scene'
BY NextInv, NextScene DEF Scene

\* The bytes a value is printed from are those the text shows at its address,
\* or words that were taken for bytes behind a short row - whatever the jobs
\* and the scenes are, and whichever calls fail, unless the bytes run up to the
\* end of the address space.
THEOREM PrintedFromText == SceneSpec => []ValuesFromText
<1>1. Scene => ValuesFromText
  BY ValuesShown DEF Scene
<1>2. Scene /\ [SceneNext]_sceneVars => Scene'
  BY SceneGoesOn
<1> QED
  BY <1>1, <1>2, SceneStarts, PTL DEF SceneSpec

\* On the way of dwarf2line the file is written and read as ContextFile says:
\* its theorems hold of the whole program.
THEOREM SceneFile == SceneSpec => [](ParsedAsPrinted /\ InStepUntilCut /\ PrefixIntact)
<1>1. Scene => ParsedAsPrinted /\ InStepUntilCut /\ PrefixIntact
  BY ParsedHolds, InStepHolds, PrefixHolds DEF Scene, SceneInv, ReaderInv
<1>2. Scene /\ [SceneNext]_sceneVars => Scene'
  BY SceneGoesOn
<1> QED
  BY <1>1, <1>2, SceneStarts, PTL DEF SceneSpec

-----------------------------------------------------------------------------
(***************************************************************************)
(* The type invariant of Report.                                           *)
(***************************************************************************)
AllFlags == {"input", "eval", "locals", "params", "frames", "functions", "demangle", "debug"}

CommandInv ==
  /\ arg \in Nat /\ addresses \in Nat /\ at \in 0 .. addresses
  /\ context \in SUBSET ServedFrames /\ Cardinality(context) <= 1
  /\ opts \subseteq AllFlags /\ ret \in BOOLEAN
  /\ func \in 1 .. N \cup {NoDie}

ObjectsInv == \A o \in live \cup heap : IsObject(o)

TypesInv == types \in Seq(1 .. NTypes)

LevelsInv == \A i \in 1 .. Len(walk) : walk[i].level \in 0 .. MaxLevel

Shapes == CommandInv /\ ObjectsInv /\ TypesInv /\ LevelsInv

\* What none of the steps but those named here change.
LEMMA CommandSame ==
  ASSUME Step
  PROVE  \/ UNCHANGED <<job, arg, addresses, context, opts, at, func, ret>>
         \/ ParseOption \/ ParseAddress \/ EndOfAddresses \/ Search \/ LoadType
BY DEF Step, cmd, place, loading, UnchangedReport, Help, EndOfArgs, Open, NameOf, Sizes, Visit, Child, NextSibling,
       LoadVar, TypeReturns, LoadLocation, DropVar, PrintParam, PrintLocal, PrintVar, PrintOutside, EndOfVars, Finish

LEMMA OptionFlags ==
  ASSUME NEW w \in DOMAIN FlagsOf
  PROVE  FlagsOf[w] \subseteq AllFlags
BY DEF FlagsOf, AllFlags

LEMMA CommandKept ==
  ASSUME Inv, CommandInv, [SceneNext]_sceneVars
  PROVE  CommandInv'
<1>1. ASSUME UNCHANGED <<job, arg, addresses, context, opts, at, func, ret>> PROVE CommandInv'
  BY <1>1 DEF CommandInv, N, Unit
<1>2. CASE ParseOption
  <2>1. /\ UNCHANGED <<job, addresses, context, at, func, ret>>
        /\ arg' = arg \/ arg' = arg + 1 \/ arg' = arg + 2
        /\ opts' = opts \/ (opts' = opts \cup FlagsOf[Word] /\ Word \in DOMAIN FlagsOf)
    BY <1>2 DEF ParseOption, UnchangedReport, place, loading
  <2>2. opts' \subseteq AllFlags
    BY <2>1, OptionFlags DEF CommandInv
  <2>3. arg' \in Nat
    BY <2>1 DEF CommandInv
  <2> QED
    BY <2>1, <2>2, <2>3 DEF CommandInv, N, Unit
<1>3. CASE ParseAddress
  <2>1. /\ UNCHANGED <<job, opts, context, at, func, ret>>
        /\ arg' = arg \/ arg' = arg + 1
        /\ addresses' = addresses \/ addresses' = addresses + 1
    BY <1>3 DEF ParseAddress, UnchangedReport, place, loading
  <2>2. arg' \in Nat /\ addresses' \in Nat /\ at \in 0 .. addresses'
    BY <2>1 DEF CommandInv
  <2> QED
    BY <2>1, <2>2 DEF CommandInv, N, Unit
<1>4. CASE EndOfAddresses
  <2>1. UNCHANGED <<job, arg, opts, addresses, at, func, ret>> /\ context' = {}
    BY <1>4 DEF EndOfAddresses, UnchangedReport, place, loading
  <2>2. Cardinality({}) <= 1
    BY FS_EmptySet
  <2> QED
    BY <2>1, <2>2 DEF CommandInv, N, Unit
<1>5. CASE Search
  <2>1. UNCHANGED <<job, arg, opts, addresses, context, ret>> /\ at' = at + 1 /\ at < addresses
        /\ func' \in Functions(Unit) \cup {NoDie}
    BY <1>5 DEF Search, cmd, loading
  <2>2. func' \in 1 .. N \cup {NoDie}
    BY <2>1 DEF Functions, Dies, Size, N
  <2>3. at' \in 0 .. addresses
    BY <2>1 DEF CommandInv
  <2> QED
    BY <2>1, <2>2, <2>3 DEF CommandInv, N, Unit
<1>6. CASE LoadType
  <2>1. UNCHANGED <<job, arg, opts, addresses, context, at, func>>
    BY <1>6 DEF LoadType, cmd, place
  <2>2. ret' \in BOOLEAN
    BY <1>6 DEF LoadType, CommandInv
  <2> QED
    BY <2>1, <2>2 DEF CommandInv, N, Unit
<1>7. CASE Serve
  <2>1. /\ context' \in SUBSET ServedFrames /\ Cardinality(context') <= 1
        /\ UNCHANGED <<job, arg, opts, addresses, at, func, ret>>
    BY <1>7 DEF Serve, LoadContext, UnchangedReport, place, loading
  <2> QED
    BY <2>1 DEF CommandInv, N, Unit
<1>8. CASE Abort \/ UNCHANGED vars
  BY <1>1, <1>8 DEF Abort, vars, cmd, place, loading
<1>9. CASE Step
  BY <1>1, <1>2, <1>3, <1>4, <1>5, <1>6, <1>9, CommandSame
<1> QED
  BY <1>7, <1>8, <1>9 DEF SceneNext, Main, File, sceneVars

-----------------------------------------------------------------------------
LEMMA IsObjectSame ==
  ASSUME UNCHANGED job
  PROVE  \A o : IsObject(o) => IsObject(o)'
BY DEF IsObject, Unit, Role, DieOf

LEMMA Made ==
  ASSUME job \in Jobs, NEW a \in Nat, NEW r \in Roles, NEW d \in 1 .. N, NEW k \in 0 .. NTypes
  PROVE  IsObject(<<a, r, d, k>>)
BY DEF IsObject, Role, DieOf, Dies, Size, N, NTypes

\* What is on the heap is an object, if frame bases are.
LEMMA HeapObjects ==
  ASSUME job \in Jobs, at \in Nat
  PROVE  \A o : OnHeap(o) /\ Role(o) # "frame base" => IsObject(o)
<1>1. NTypes \in Nat /\ 0 \in 0 .. NTypes /\ \A k \in 1 .. NTypes : k \in 0 .. NTypes
  BY TypesShape
<1>2. {"var", "location", "type"} \subseteq Roles
  BY DEF Roles
<1>3. ASSUME NEW d \in 1 .. N PROVE IsObject(VarAt(d)) /\ IsObject(LocationAt(d))
  BY <1>1, <1>2, Made DEF VarAt, LocationAt, Object
<1>4. ASSUME NEW d \in 1 .. N, NEW k \in 1 .. NTypes PROVE IsObject(TypeAt(d, k))
  BY <1>1, <1>2, Made DEF TypeAt, Object
<1> QED
  BY <1>3, <1>4, Zenon DEF OnHeap

\* A frame base is made by Sizes only.
LEMMA NewFrameBase ==
  ASSUME Step
  PROVE  \A o \in heap' : \/ o \in heap
                          \/ Role(o) # "frame base"
                          \/ pc = "sizes" /\ Sizes /\ o = Object("frame base", func, 0)
<1>1. CASE heap' \subseteq heap
  BY <1>1
<1>2. CASE Sizes
  BY <1>2 DEF Sizes
<1>3. CASE Visit \/ LoadVar \/ LoadType \/ LoadLocation
  <2>1. \A o \in heap' : o \in heap \/ o \in {Var, Object("location", CurDie, 0)} \/ \E k : o = Type(k)
    BY <1>3 DEF Visit, LoadVar, LoadType, LoadLocation
  <2>2. Role(Var) # "frame base" /\ Role(Object("location", CurDie, 0)) # "frame base"
        /\ \A k : Role(Type(k)) # "frame base"
    BY DEF Var, Object, Type, Role
  <2> QED
    BY <2>1, <2>2
<1> QED
  BY <1>1, <1>2, <1>3
     DEF Step, UnchangedReport, ParseOption, ParseAddress, Help, EndOfArgs, Open, Search, EndOfAddresses, NameOf,
         Child, NextSibling, TypeReturns, TypeFails, DropVar, PrintParam, PrintLocal, PrintVar, PrintOutside, EndOfVars, Finish

\* The handles a step opens.
LEMMA Opened ==
  ASSUME Inv, OwnInv, Step
  PROVE  \A o \in live' :
           \/ o \in live
           \/ \E r \in Roles, d \in 1 .. N, k \in 0 .. NTypes : o = <<at', r, d, k>>
<1> DEFINE New(o) == \E r \in Roles, d \in 1 .. N, k \in 0 .. NTypes : o = <<at', r, d, k>>
<1>1. job \in Jobs /\ N \in Nat /\ NTypes \in Nat /\ 0 \in 0 .. NTypes
  <2>1. job \in Jobs
    BY DEF Inv, PlaceInv
  <2>2. N \in Nat /\ NTypes \in Nat
    BY <2>1, UnitShape, TypesShape
  <2> QED
    BY <2>1, <2>2
<1>2. {"cu", "func", "child", "sibling", "ref", "var", "type"} \subseteq Roles
  BY DEF Roles
<1>3. CASE live' \subseteq live
  BY <1>3
<1>4. CASE Search
  <2>1. CASE func' = NoDie
    BY <1>4, <2>1 DEF Search
  <2>2. CASE func' # NoDie
    <3>1. live' = live \cup {<<at', "cu", 1, 0>>, <<at', "func", func', 0>>} /\ func' \in Functions(Unit)
      BY <1>4, <2>2 DEF Search
    <3>2. func' \in 1 .. N
      BY <3>1 DEF Functions, Dies, Size, N
    <3>3. 1 \in 1 .. N
      BY <1>1, <3>2
    <3>4. New(<<at', "cu", 1, 0>>) /\ New(<<at', "func", func', 0>>)
      BY <1>1, <1>2, <3>2, <3>3
    <3> HIDE DEF New
    <3>5. \A o \in live' : o \in live \/ New(o)
      BY <3>1, <3>4
    <3> QED
      BY <3>5 DEF New
  <2> QED
    BY <2>1, <2>2
<1>5. CASE NameOf
  <2>1. at' = at
    BY <1>5 DEF NameOf, place
  <2>2. ASSUME NEW o \in live', o \notin live PROVE New(o)
    <3>1. pc = "name" /\ refs' = Append(refs, Unit.die[NamedDie].spec) /\ o = Ref(Unit.die[NamedDie].spec)
      BY <1>5, <2>2 DEF NameOf
    <3>2. refs' \in Seq(1 .. N) /\ refs \in Seq(1 .. N)
      <4>1. Inv'
        BY <1>5, NameStep
      <4>2. N' = N
        BY <1>5 DEF NameOf, cmd, N, Unit
      <4> QED
        BY <4>1, <4>2 DEF Inv, RefsInv
    <3>3. Unit.die[NamedDie].spec \in 1 .. N
      <4> DEFINE D == 1 .. N
                 d == Unit.die[NamedDie].spec
      <4>1. Append(refs, d) \in Seq(D) /\ refs \in Seq(D)
        BY <3>1, <3>2
      <4> HIDE DEF D, d
      <4>2. Len(refs) \in Nat /\ Len(Append(refs, d)) = Len(refs) + 1 /\ Append(refs, d)[Len(refs) + 1] = d
        BY <4>1
      <4>3. Len(refs) + 1 \in 1 .. Len(Append(refs, d))
        BY <4>2
      <4>4. \A s \in Seq(D) : \A i \in 1 .. Len(s) : s[i] \in D
        OBVIOUS
      <4>5. d \in D
        BY <4>1, <4>2, <4>3, <4>4
      <4> QED
        BY <4>5 DEF D, d
    <3> QED
      BY <1>1, <1>2, <2>1, <3>1, <3>3 DEF Ref, Object
  <2> QED
    BY <2>2
<1>6. CASE Child
  <2>1. pc = "child" /\ at' = at
    BY <1>6 DEF Child, place
  <2>2. CurDie \in 1 .. N
    BY <2>1, WalkShape DEF InWalk
  <2>3. ASSUME NEW o \in live', o \notin live PROVE New(o)
    <3>1. HasChild(Unit, CurDie) /\ o = Object("child", FirstChild(CurDie), 0)
      BY <1>6, <2>3 DEF Child
    <3>2. FirstChild(CurDie) \in 1 .. N
      BY <1>1, <2>2, <3>1, FirstChildShape
    <3> QED
      BY <1>1, <1>2, <2>1, <3>1, <3>2 DEF Object
  <2> QED
    BY <2>3
<1>7. CASE NextSibling
  <2>1. pc = "sibling" /\ at' = at
    BY <1>7 DEF NextSibling, place
  <2>2. CurDie \in 1 .. N
    BY <2>1, WalkShape DEF InWalk
  <2>3. ASSUME NEW o \in live', o \notin live PROVE New(o)
    <3>1. HasSibling(Unit, CurDie) /\ o = Object("sibling", Sibling(Unit, CurDie), 0)
      BY <1>7, <2>3 DEF NextSibling, MoveTo
    <3>2. Sibling(Unit, CurDie) \in 1 .. N
      BY <1>1, <2>2, <3>1, NextSiblingShape
    <3> QED
      BY <1>1, <1>2, <2>1, <3>1, <3>2 DEF Object
  <2> QED
    BY <2>3
<1>8. CASE LoadVar
  <2>1. pc = "load" /\ at' = at
    BY <1>8 DEF LoadVar, place
  <2>2. CurDie \in 1 .. N
    BY <2>1, WalkShape DEF InWalk
  <2>3. \A o \in live' : o \in live \/ o = Var
    BY <1>8 DEF LoadVar, TagLoad
  <2>4. New(Var)
    BY <1>1, <1>2, <2>1, <2>2 DEF Var, Object
  <2> HIDE DEF New
  <2>5. \A o \in live' : o \in live \/ New(o)
    BY <2>3, <2>4
  <2> QED
    BY <2>5 DEF New
<1>9. CASE LoadType
  <2>1. pc = "type" /\ at' = at
    BY <1>9 DEF LoadType, place
  <2>2. CurDie \in 1 .. N
    BY <2>1, WalkShape DEF InWalk
  <2>3. Running /\ Len(types) > 0
    BY <2>1 DEF OwnInv, Running
  <2>4. Len(types) \in 0 .. NTypes
    <3>1. Len(types) \in Nat /\ Len(types) \in 1 .. Len(types)
      <4>1. types \in Seq(1 .. NTypes)
        BY <2>3 DEF Running
      <4>2. Len(types) \in Nat /\ Len(types) > 0
        BY <2>3, <4>1
      <4> QED
        BY <4>2
    <3>2. types[Len(types)] \in 1 .. NTypes /\ types[Len(types)] + Len(types) <= NTypes + 1
      <4>1. types \in Seq(1 .. NTypes) /\ \A j \in 1 .. Len(types) : types[j] + j <= NTypes + 1
        BY <2>3 DEF Running
      <4> HIDE DEF New
      <4> QED
        BY <1>1, <3>1, <4>1
    <3> QED
      BY <1>1, <3>1, <3>2
  <2>5. \A o \in live' : o \in live \/ o = Type(Len(types))
    BY <1>9 DEF LoadType, TagLoad
  <2>6. New(Type(Len(types)))
    BY <1>2, <2>1, <2>2, <2>4 DEF Type, Object
  <2> HIDE DEF New
  <2>7. \A o \in live' : o \in live \/ New(o)
    BY <2>5, <2>6
  <2> QED
    BY <2>7 DEF New
<1> QED
  BY <1>3, <1>4, <1>5, <1>6, <1>7, <1>8, <1>9
     DEF Step, UnchangedReport, ParseOption, ParseAddress, Help, EndOfArgs, Open, EndOfAddresses, Sizes, Visit,
         TypeReturns, TypeFails, LoadLocation, DropVar, PrintParam, PrintLocal, PrintVar, PrintOutside, EndOfVars, Finish

LEMMA OnHeapBack ==
  ASSUME UNCHANGED <<job, at>>, NEW o, OnHeap(o)'
  PROVE  OnHeap(o)
<1>1. N' = N /\ NTypes' = NTypes
  BY Same
<1>2. CASE Role(o)' = "frame base"
  BY <1>2 DEF OnHeap, Role
<1>3. ASSUME NEW d \in 1 .. N, o = VarAt(d)' \/ o = LocationAt(d)' PROVE OnHeap(o)
  BY <1>3, Same DEF OnHeap
<1>4. ASSUME NEW d \in 1 .. N, NEW k \in 1 .. NTypes, o = TypeAt(d, k)' PROVE OnHeap(o)
  BY <1>4, Same DEF OnHeap
<1> QED
  BY <1>1, <1>2, <1>3, <1>4 DEF OnHeap

LEMMA ObjectsKept ==
  ASSUME Inv, OwnInv, CommandInv, ObjectsInv, [SceneNext]_sceneVars
  PROVE  ObjectsInv'
<1>1. UNCHANGED job
  BY DEF SceneNext, sceneVars, vars, cmd, Main, File, Serve, Abort, LoadContext, UnchangedReport,
         Step, ParseOption, ParseAddress, Help, EndOfArgs, Open, Search, EndOfAddresses, NameOf, Sizes,
         Visit, Child, NextSibling, LoadVar, LoadType, TypeReturns, LoadLocation, DropVar,
         PrintParam, PrintLocal, PrintVar, PrintOutside, EndOfVars, Finish
<1>2. CASE Serve \/ Abort \/ UNCHANGED vars
  <2>1. UNCHANGED <<live, heap>>
    BY <1>2 DEF Serve, Abort, LoadContext, UnchangedReport, vars
  <2> QED
    BY <1>1, <2>1, IsObjectSame DEF ObjectsInv
<1>3. CASE Step
  <2>1. job \in Jobs /\ at \in Nat /\ at' \in Nat
    BY NextInv DEF Inv, PlaceInv
  <2>2. \A o \in live' : IsObject(o)
    <3> SUFFICES ASSUME NEW o \in live' PROVE IsObject(o)
      OBVIOUS
    <3>1. CASE o \in live
      BY <3>1 DEF ObjectsInv
    <3>2. ASSUME NEW r \in Roles, NEW d \in 1 .. N, NEW k \in 0 .. NTypes, o = <<at', r, d, k>> PROVE IsObject(o)
      BY <2>1, <3>2, Made
    <3> QED
      BY <1>3, <3>1, <3>2, Opened
  <2>3. \A o \in heap' : IsObject(o)
    <3> SUFFICES ASSUME NEW o \in heap', o \notin heap PROVE IsObject(o)
      BY DEF ObjectsInv
    <3>1. CASE pc = "sizes" /\ o = Object("frame base", func, 0)
      <4>1. func \in 1 .. N
        BY <3>1 DEF Inv, PlaceInv, Reporting
      <4>2. 0 \in 0 .. NTypes /\ "frame base" \in Roles
        BY <2>1, TypesShape DEF Roles
      <4> QED
        BY <2>1, <3>1, <4>1, <4>2, Made DEF Object
    <3>2. CASE Role(o) # "frame base"
      <4>1. OwnInv'
        BY NextOwns
      <4>2. OnHeap(o)'
        BY <4>1 DEF OwnInv, HeapShape
      <4>3. at' = at
        <5>1. ~Search
          BY DEF Search
        <5> QED
          BY <1>3, <5>1 DEF Step, place, UnchangedReport, ParseOption, ParseAddress, Help, EndOfArgs, Open,
               EndOfAddresses, NameOf, Sizes, Visit, Child, NextSibling, LoadVar, LoadType, TypeReturns, LoadLocation,
               DropVar, PrintParam, PrintLocal, PrintVar, PrintOutside, EndOfVars, Finish
      <4>4. OnHeap(o)
        BY <1>1, <4>2, <4>3, OnHeapBack
      <4> QED
        BY <2>1, <3>2, <4>4, HeapObjects
    <3> QED
      BY <1>3, <3>1, <3>2, NewFrameBase
  <2> QED
    BY <1>1, <2>2, <2>3, IsObjectSame DEF ObjectsInv
<1> QED
  BY <1>2, <1>3 DEF SceneNext, Main, File, sceneVars

LEMMA TypesKept ==
  ASSUME Inv, OwnInv, TypesInv, [SceneNext]_sceneVars
  PROVE  TypesInv'
<1>1. OwnInv'
  BY NextOwns
<1>2. CASE pc' # "undefined"
  BY <1>1, <1>2 DEF OwnInv, Running, TypesInv
<1>3. CASE pc' = "undefined"
  <2>1. UNCHANGED <<job, types>>
    BY <1>3 DEF SceneNext, sceneVars, vars, cmd, loading, Main, File, Serve, Abort, LoadContext, UnchangedReport,
         Step, Parsing, ParseOption, ParseAddress, Help, EndOfArgs, Open, Search, EndOfAddresses, NameOf, Sizes,
         Visit, Child, NextSibling, LoadVar, LoadType, TypeReturns, LoadLocation, DropVar,
         PrintParam, PrintLocal, PrintVar, PrintOutside, EndOfVars, Finish
  <2> QED
    BY <2>1 DEF TypesInv, NTypes, Unit
<1> QED
  BY <1>2, <1>3

-----------------------------------------------------------------------------
LEMMA MovedLevels ==
  ASSUME NEW w, NEW n \in Nat, w \in Seq(Activations(n)), Len(w) > 0, NEW h
  PROVE  LET x == [w EXCEPT ![Len(w)].cur = h]
         IN  Len(x) = Len(w) /\ \A i \in 1 .. Len(w) : x[i].level = w[i].level
<1>1. Len(w) \in Nat /\ \A i \in 1 .. Len(w) : w[i] \in Activations(n)
  OBVIOUS
<1> QED
  BY <1>1 DEF Activations

LEMMA PushedLevels ==
  ASSUME NEW w, NEW n \in Nat, w \in Seq(Activations(n)), Len(w) > 0, NEW u, NEW h, NEW v
  PROVE  LET x == Append([w EXCEPT ![Len(w)].level = u], [die |-> h, cur |-> h, level |-> v])
         IN  /\ Len(x) = Len(w) + 1 /\ x[Len(w) + 1].level = v /\ x[Len(w)].level = u
             /\ \A i \in 1 .. (Len(w) - 1) : x[i].level = w[i].level
<1> DEFINE k == Len(w)
           top == [die |-> h, cur |-> h, level |-> v]
           B == {[w EXCEPT ![k].level = u][i] : i \in 1 .. k} \cup {top}
           y == [w EXCEPT ![k].level = u]
           x == Append(y, top)
<1>1. k \in Nat /\ k > 0 /\ \A i \in 1 .. k : w[i] \in Activations(n)
  OBVIOUS
<1>2. w = [i \in 1 .. k |-> w[i]]
  OBVIOUS
<1>3. DOMAIN y = 1 .. k /\ y = [i \in 1 .. k |-> y[i]]
  BY <1>2
<1>4. y \in [1 .. k -> B]
  BY <1>3
<1>5. y[k].level = u
  BY <1>1, <1>2 DEF Activations
<1>6. \A i \in 1 .. (k - 1) : y[i] = w[i]
  BY <1>1, <1>2
<1>7. top \in B /\ top.level = v
  OBVIOUS
<1> HIDE DEF y, top, B
<1>8. y \in Seq(B) /\ Len(y) = k
  BY <1>1, <1>4
<1>9. Len(x) = k + 1 /\ x[k + 1] = top /\ \A i \in 1 .. k : x[i] = y[i]
  BY <1>7, <1>8
<1>10. k \in 1 .. k /\ \A i \in 1 .. (k - 1) : i \in 1 .. k
  BY <1>1
<1>11. x[k].level = u /\ \A i \in 1 .. (k - 1) : x[i].level = w[i].level
  BY <1>5, <1>6, <1>9, <1>10
<1> QED
  BY <1>7, <1>9, <1>11 DEF x, y, top

LEMMA LevelsKept ==
  ASSUME Inv, LevelsInv, [SceneNext]_sceneVars
  PROVE  LevelsInv'
<1>1. CASE UNCHANGED walk
  BY <1>1 DEF LevelsInv
<1>2. CASE Sizes
  <2>1. CASE walk' = walk
    BY <2>1 DEF LevelsInv
  <2>2. CASE walk' = <<[die |-> Func, cur |-> Func, level |-> 0]>>
    <3>1. Len(walk') = 1 /\ walk'[1].level = 0
      BY <2>2
    <3>2. \A i \in 1 .. 1 : i = 1
      OBVIOUS
    <3> QED
      BY <3>1, <3>2 DEF LevelsInv, MaxLevel
  <2> QED
    BY <1>2, <2>1, <2>2 DEF Sizes
<1> DEFINE A == Activations(N)
           k == Len(walk)
<1>3. ASSUME pc \in InWalk
      PROVE  /\ N \in Nat /\ walk \in Seq(A) /\ k \in Nat /\ k > 0 /\ Here = walk[k]
             /\ k \in 1 .. k /\ \A i \in 1 .. (k - 1) : i \in 1 .. k
  <2>1. N \in Nat /\ walk \in Seq(A) /\ k \in Nat /\ k > 0
    BY <1>3, WalkShape
  <2>2. Here = walk[k]
    BY <1>3, CurShape
  <2> QED
    BY <2>1, <2>2
<1> HIDE DEF A
<1>4. ASSUME pc \in InWalk, Leave PROVE LevelsInv'
  <2>1. Len(Front(walk)) = k - 1 /\ \A i \in 1 .. (k - 1) : Front(walk)[i] = walk[i]
    BY <1>3, <1>4, FrontCurs DEF A
  <2> QED
    BY <1>3, <1>4, <2>1 DEF LevelsInv, Leave
<1>5. ASSUME pc \in InWalk, NEW h, Descend(h) PROVE LevelsInv'
  <2>1. CASE walk' = walk
    BY <2>1 DEF LevelsInv
  <2>2. CASE /\ Here.level < MaxLevel
             /\ walk' = Append([walk EXCEPT ![Len(walk)].level = @ + 1],
                               [die |-> h, cur |-> h, level |-> Here.level + 1])
    <3> DEFINE u == walk[Len(walk)].level + 1
               v == Here.level + 1
               x == Append([walk EXCEPT ![Len(walk)].level = u], [die |-> h, cur |-> h, level |-> v])
    <3>1. Len(x) = k + 1 /\ x[k + 1].level = v /\ x[k].level = u
          /\ \A i \in 1 .. (k - 1) : x[i].level = walk[i].level
      <4>1. N \in Nat /\ walk \in Seq(Activations(N)) /\ Len(walk) > 0
        BY <1>3, <1>5 DEF A
      <4> HIDE DEF u, v
      <4> QED
        BY <4>1, PushedLevels
    <3>2. walk[k].level \in 0 .. 1
      BY <1>3, <1>5 DEF LevelsInv, MaxLevel
    <3>3. u = v /\ u \in 0 .. 1
      BY <1>3, <1>5, <2>2, <3>2 DEF MaxLevel
    <3>4. walk' = x
      BY <2>2
    <3> HIDE DEF x, u, v
    <3>5. ASSUME NEW i \in 1 .. Len(walk') PROVE walk'[i].level \in 0 .. 1
      <4>1. i = k + 1 \/ i = k \/ i \in 1 .. (k - 1)
        BY <1>3, <1>5, <3>1, <3>4
      <4>2. \A j \in 1 .. (k - 1) : walk[j].level \in 0 .. 1
        BY <1>3, <1>5 DEF LevelsInv, MaxLevel
      <4> QED
        BY <3>1, <3>3, <3>4, <4>1, <4>2
    <3> QED
      BY <3>5 DEF LevelsInv, MaxLevel
  <2> QED
    BY <1>5, <2>1, <2>2 DEF Descend
<1>6. ASSUME pc \in InWalk, NEW h, MoveTo(h) PROVE LevelsInv'
  <2>1. walk' = [walk EXCEPT ![Len(walk)].cur = h]
    BY <1>6 DEF MoveTo
  <2>2. /\ Len([walk EXCEPT ![Len(walk)].cur = h]) = Len(walk)
        /\ \A i \in 1 .. Len(walk) : [walk EXCEPT ![Len(walk)].cur = h][i].level = walk[i].level
    <3>1. N \in Nat /\ walk \in Seq(Activations(N)) /\ Len(walk) > 0
      BY <1>3, <1>6 DEF A
    <3> QED
      BY <3>1, MovedLevels
  <2> QED
    BY <2>1, <2>2 DEF LevelsInv
<1>7. CASE Child
  <2>1. pc \in InWalk
    BY <1>7 DEF Child, InWalk
  <2>2. walk' = walk \/ Leave \/ \E h : Descend(h)
    BY <1>7 DEF Child
  <2> QED
    BY <1>1, <1>4, <1>5, <2>1, <2>2
<1>8. CASE NextSibling
  <2>1. pc \in InWalk
    BY <1>8 DEF NextSibling, InWalk
  <2>2. Leave \/ \E h : MoveTo(h)
    BY <1>8 DEF NextSibling
  <2> QED
    BY <1>4, <1>6, <2>1, <2>2
<1>9. UNCHANGED walk \/ Sizes \/ Child \/ NextSibling
  BY DEF SceneNext, sceneVars, vars, Main, File, Serve, Abort, LoadContext, UnchangedReport,
         Step, ParseOption, ParseAddress, Help, EndOfArgs, Open, Search, EndOfAddresses, NameOf,
         Visit, LoadVar, LoadType, TypeReturns, LoadLocation, DropVar,
         PrintParam, PrintLocal, PrintVar, PrintOutside, EndOfVars, Finish
<1> QED
  BY <1>1, <1>2, <1>7, <1>8, <1>9

-----------------------------------------------------------------------------
LEMMA InitShapes == SceneInit => Shapes
<1> SUFFICES ASSUME SceneInit PROVE Shapes
  OBVIOUS
<1>1. /\ arg = 1 /\ addresses = 0 /\ at = 0 /\ context = {} /\ opts = {} /\ ret = FALSE /\ func = NoDie
      /\ walk = <<>> /\ types = <<>> /\ live = {} /\ heap = {}
  BY DEF SceneInit, Init
<1>2. CommandInv
  <2>1. Cardinality({}) <= 1
    BY FS_EmptySet
  <2>2. context \in SUBSET ServedFrames /\ Cardinality(context) <= 1
    BY <1>1, <2>1
  <2>3. arg \in Nat /\ addresses \in Nat /\ at \in 0 .. addresses
    BY <1>1
  <2>4. opts \subseteq AllFlags /\ ret \in BOOLEAN /\ func \in 1 .. N \cup {NoDie}
    BY <1>1
  <2> QED
    BY <2>2, <2>3, <2>4 DEF CommandInv
<1>3. TypesInv
  BY <1>1 DEF TypesInv
<1>4. LevelsInv
  BY <1>1 DEF LevelsInv
<1> QED
  BY <1>1, <1>2, <1>3, <1>4 DEF Shapes, ObjectsInv

LEMMA ReportTypes ==
  ASSUME Inv, OwnInv, Shapes
  PROVE  TypeOK
<1>1. job \in Jobs /\ Dies(Unit) = 1 .. N /\ NTypes = Len(Unit.types)
  BY DEF Inv, PlaceInv, Dies, Size, N, NTypes
<1>2. /\ arg \in Nat /\ addresses \in Nat /\ at \in 0 .. addresses
      /\ context \in SUBSET ServedFrames /\ Cardinality(context) <= 1
      /\ opts \subseteq AllFlags /\ func \in 1 .. N \cup {NoDie} /\ ret \in BOOLEAN
  BY DEF Shapes, CommandInv
<1>3. refs \in Seq(1 .. N) /\ types \in Seq(1 .. NTypes)
  BY DEF Inv, RefsInv, Shapes, TypesInv
<1>4. \A o \in live \cup heap : IsObject(o)
  BY DEF Shapes, ObjectsInv
<1>5. \A o \in linked \cup ToSet(params) \cup ToSet(locals) : IsObject(o)
  <2>1. linked \subseteq heap
    BY DEF OwnInv, HeapShape
  <2>2. ASSUME NEW l, l = params \/ l = locals PROVE \A o \in ToSet(l) : o \in heap
    <3>1. l \in Seq(Handles(N)) /\ \A i \in 1 .. Len(l) : l[i] \in heap
      BY <2>2 DEF Inv, ListInv, OwnInv, Lists, ListOrder
    <3>2. DOMAIN l = 1 .. Len(l)
      BY <3>1
    <3> QED
      BY <3>1, <3>2 DEF ToSet
  <2> QED
    BY <1>4, <2>1, <2>2
<1>6. \A i \in DOMAIN walk : IsObject(walk[i].die) /\ IsObject(walk[i].cur) /\ walk[i].level \in 0 .. MaxLevel
  <2>1. walk \in Seq(Activations(N)) /\ \A i \in 1 .. Len(walk) : walk[i].die \in live /\ walk[i].cur \in live
    BY DEF Inv, WalkInv, WalkOK, OnOpen
  <2>2. DOMAIN walk = 1 .. Len(walk)
    BY <2>1
  <2> QED
    BY <1>4, <2>1, <2>2 DEF Shapes, LevelsInv
<1> QED
  BY <1>1, <1>2, <1>3, <1>4, <1>5, <1>6 DEF TypeOK, AllFlags

Shaped == Inv /\ OwnInv /\ SceneInv /\ Shapes

LEMMA ShapedGoesOn ==
  ASSUME Shaped, [SceneNext]_sceneVars
  PROVE  Shaped'
<1>1. Inv' /\ OwnInv' /\ SceneInv'
  BY NextInv, NextOwns, NextScene DEF Shaped
<1>2. Shapes'
  BY CommandKept, ObjectsKept, TypesKept, LevelsKept DEF Shaped, Shapes
<1> QED
  BY <1>1, <1>2 DEF Shaped

\* Every variable of the report and of the context file has its type: what is
\* open, allocated, listed or walked is an object of an address and a DIE, and
\* no level of the walk is above the last.
THEOREM SceneTypes == SceneSpec => []SceneTypeOK
<1>1. SceneInit => Shaped
  BY InitInv, InitOwns, SceneStarts, InitShapes DEF Shaped, Scene
<1>2. Shaped => SceneTypeOK
  BY ReportTypes, TypeHolds DEF Shaped, SceneInv, SceneTypeOK
<1>3. Shaped /\ [SceneNext]_sceneVars => Shaped'
  BY ShapedGoesOn
<1> QED
  BY <1>1, <1>2, <1>3, PTL DEF SceneSpec

-----------------------------------------------------------------------------
(***************************************************************************)
(* The variables a walk collects.                                          *)
(***************************************************************************)
Bearing == {x \in Level(Unit, func) : HasChild(Unit, x)}

Outer == DieOf(walk[1].cur)

\* The walk is at the level of the function until it meets the first DIE there
\* that has children, then among these, and then at the level of the function
\* again, from where it goes down no more.
Standing ==
  /\ Outer \in Level(Unit, func)
  /\ \/ /\ Len(walk) = 1 /\ walk[1].level = 0
        /\ \A x \in Bearing : IF pc = "sibling" THEN Outer < x ELSE Outer <= x
     \/ /\ Len(walk) = 1 /\ walk[1].level = MaxLevel
        /\ \E x \in Bearing : IF pc = "sibling" THEN x <= Outer ELSE x < Outer
     \/ /\ Len(walk) = 2 /\ walk[1].level = MaxLevel /\ walk[2].level = MaxLevel
        /\ Outer \in Bearing /\ \A x \in Bearing : Outer <= x

\* The walk is past the DIE d.
Passed(d) ==
  /\ pc \in {"visit"} \cup Loading => d < CurDie
  /\ pc = "child" => d <= CurDie
  /\ pc = "sibling" => d <= Unit.last[CurDie]

Gathered ==
  /\ values = <<>>
  /\ \A v \in Vectors : DieOf(v) \in Collectable
  /\ \A d \in Collectable : Passed(d) => VarAt(d) \in Vectors

\* What has been found out of the variable that is loading.
Promising ==
  /\ pc \in Loading => Unit.die[CurDie].tag \in VariableTags
  /\ pc \in Typing => "name" \in Unit.die[CurDie].names
  /\ pc = "typed" /\ ret => Loads(Unit, types[Len(types)])
  /\ pc = "location" => Loads(Unit, CurType)

\* Three lists, one behind the other, are in the order of the pairs R and hold S.
Ascends(s, R) == \A i, j \in 1 .. Len(s) : i < j => <<s[i], s[j]>> \in R

Precedes(s, t, R) == \A x \in Elements(s), y \in Elements(t) : <<x, y>> \in R

InOrder(a, b, c, S, R) ==
  /\ Ascends(a, R) /\ Ascends(b, R) /\ Ascends(c, R)
  /\ Precedes(a, b, R) /\ Precedes(a, c, R) /\ Precedes(b, c, R)
  /\ Elements(a) \cup Elements(b) \cup Elements(c) = S

Order == {p \in (1 .. N) \X (1 .. N) : Listed(p[1], p[2])}

Reported == [i \in DOMAIN values |-> DieOf(values[i].var)]

GatherInv ==
  ~job.libFails =>
    /\ pc \in {"name", "sizes"} => values = <<>>
    /\ pc \in InWalk => Standing /\ Gathered /\ Promising
    /\ pc \in {"print", "finish"} /\ opts \cap {"locals", "params"} # {} =>
         InOrder(Reported, DiesOf(params), DiesOf(locals), Collectable, Order)

-----------------------------------------------------------------------------
LEMMA JoinedOrder ==
  ASSUME NEW U, NEW s \in Seq(U), NEW t \in Seq(U), NEW R,
         Ascends(s, R), Ascends(t, R), Precedes(s, t, R)
  PROVE  /\ s \o t \in Seq(U) /\ Ascends(s \o t, R)
         /\ Elements(s \o t) = Elements(s) \cup Elements(t)
<1> DEFINE x == s \o t
           m == Len(s)
           n == Len(t)
<1>1. m \in Nat /\ n \in Nat
  OBVIOUS
<1>2. /\ x \in Seq(U) /\ Len(x) = m + n
      /\ \A i \in 1 .. (m + n) : x[i] = IF i <= m THEN s[i] ELSE t[i - m]
  BY ConcatProperties
<1> HIDE DEF x, m, n
<1>3. ASSUME NEW i \in 1 .. m PROVE i \in 1 .. (m + n) /\ x[i] = s[i]
  BY <1>1, <1>2
<1>4. ASSUME NEW i \in 1 .. n PROVE m + i \in 1 .. (m + n) /\ x[m + i] = t[i]
  <2>1. m + i \in 1 .. (m + n) /\ ~(m + i <= m) /\ (m + i) - m = i
    BY <1>1
  <2> QED
    BY <1>2, <2>1
<1>5. \A i \in 1 .. (m + n) : i \in 1 .. m \/ \E k \in 1 .. n : i = m + k
  <2> SUFFICES ASSUME NEW i \in 1 .. (m + n), ~(i <= m) PROVE \E k \in 1 .. n : i = m + k
    BY <1>1
  <2>1. i - m \in 1 .. n /\ i = m + (i - m)
    BY <1>1
  <2> QED
    BY <2>1
<1>6. Elements(x) = Elements(s) \cup Elements(t)
  <2>1. ASSUME NEW e \in Elements(x) PROVE e \in Elements(s) \cup Elements(t)
    <3>1. PICK i \in 1 .. (m + n) : e = x[i]
      BY <1>2 DEF Elements
    <3>2. CASE i \in 1 .. m
      BY <1>3, <3>1, <3>2 DEF Elements, m
    <3>3. ASSUME NEW k \in 1 .. n, i = m + k PROVE e \in Elements(t)
      BY <1>4, <3>1, <3>3 DEF Elements, n
    <3> QED
      BY <1>5, <3>2, <3>3
  <2>2. ASSUME NEW e \in Elements(s) PROVE e \in Elements(x)
    BY <1>2, <1>3 DEF Elements, m
  <2>3. ASSUME NEW e \in Elements(t) PROVE e \in Elements(x)
    BY <1>2, <1>4 DEF Elements, n
  <2> QED
    BY <2>1, <2>2, <2>3
<1>7. ASSUME NEW i \in 1 .. (m + n), NEW j \in 1 .. (m + n), i < j PROVE <<x[i], x[j]>> \in R
  <2>1. CASE i \in 1 .. m /\ j \in 1 .. m
    BY <1>3, <1>7, <2>1 DEF Ascends, m
  <2>2. ASSUME i \in 1 .. m, NEW k \in 1 .. n, j = m + k PROVE <<x[i], x[j]>> \in R
    <3>1. s[i] \in Elements(s) /\ t[k] \in Elements(t)
      BY <2>2 DEF Elements, m, n
    <3> QED
      BY <1>3, <1>4, <2>2, <3>1 DEF Precedes
  <2>3. ASSUME NEW k \in 1 .. n, i = m + k, j \in 1 .. m PROVE FALSE
    BY <1>1, <1>7, <2>3
  <2>4. ASSUME NEW k \in 1 .. n, i = m + k, NEW l \in 1 .. n, j = m + l PROVE <<x[i], x[j]>> \in R
    <3>1. k < l
      BY <1>1, <1>7, <2>4
    <3> QED
      BY <1>4, <2>4, <3>1 DEF Ascends, n
  <2> QED
    BY <1>5, <2>1, <2>2, <2>3, <2>4
<1>8. Ascends(x, R)
  BY <1>2, <1>7 DEF Ascends
<1> QED
  BY <1>2, <1>6, <1>8 DEF x

LEMMA AllInOrder ==
  ASSUME NEW U, NEW a \in Seq(U), NEW b \in Seq(U), NEW c \in Seq(U), NEW S, NEW R, InOrder(a, b, c, S, R)
  PROVE  LET all == a \o b \o c IN
         /\ ToSet(all) = S
         /\ \A i, j \in DOMAIN all : i < j => <<all[i], all[j]>> \in R
<1> DEFINE d == a \o b
<1>1. d \in Seq(U) /\ Ascends(d, R) /\ Elements(d) = Elements(a) \cup Elements(b)
  BY JoinedOrder DEF InOrder
<1> HIDE DEF d
<1>2. Precedes(d, c, R) /\ Ascends(c, R)
  BY <1>1 DEF InOrder, Precedes
<1> DEFINE e == d \o c
<1>3. e \in Seq(U) /\ Ascends(e, R) /\ Elements(e) = Elements(d) \cup Elements(c)
  BY <1>1, <1>2, JoinedOrder
<1> HIDE DEF e
<1>4. DOMAIN e = 1 .. Len(e)
  BY <1>3
<1>5. ToSet(e) = S
  BY <1>1, <1>3, <1>4 DEF ToSet, Elements, InOrder
<1>6. \A i, j \in DOMAIN e : i < j => <<e[i], e[j]>> \in R
  BY <1>3, <1>4 DEF Ascends
<1> QED
  BY <1>5, <1>6 DEF e, d

\* The head of a list moves to the end of the one in front.
LEMMA HeadMoves ==
  ASSUME NEW U, NEW a \in Seq(U), NEW b \in Seq(U), b # <<>>, NEW R,
         Ascends(a, R), Ascends(b, R), Precedes(a, b, R)
  PROVE  LET x == Append(a, Head(b)) IN
         /\ Ascends(x, R) /\ Ascends(Tail(b), R) /\ Precedes(x, Tail(b), R)
         /\ Elements(x) = Elements(a) \cup {Head(b)}
         /\ Elements(b) = {Head(b)} \cup Elements(Tail(b))
<1> DEFINE h == Head(b)
           x == Append(a, h)
           y == Tail(b)
           m == Len(a)
           n == Len(b)
<1>1. m \in Nat /\ n \in Nat /\ n > 0 /\ h = b[1] /\ h \in U
  OBVIOUS
<1>2. Len(y) = n - 1 /\ \A i \in 1 .. (n - 1) : y[i] = b[i + 1]
  BY HeadTailProperties
<1>3. Len(x) = m + 1 /\ x[m + 1] = h /\ \A i \in 1 .. m : x[i] = a[i]
  <2> HIDE DEF h
  <2> QED
    BY <1>1, AppendSeq
<1> HIDE DEF x, y, h, m, n
<1>4. \A i \in 1 .. (m + 1) : i \in 1 .. m \/ i = m + 1
  BY <1>1
<1>5. m + 1 \in 1 .. (m + 1) /\ \A i \in 1 .. m : i \in 1 .. (m + 1)
  BY <1>1
<1>6. 1 \in 1 .. n /\ \A i \in 1 .. (n - 1) : i + 1 \in 1 .. n /\ 1 < i + 1
  BY <1>1
<1>7. \A i \in 1 .. n : i = 1 \/ \E k \in 1 .. (n - 1) : i = k + 1
  <2> SUFFICES ASSUME NEW i \in 1 .. n, i # 1 PROVE \E k \in 1 .. (n - 1) : i = k + 1
    OBVIOUS
  <2>1. i - 1 \in 1 .. (n - 1) /\ i = (i - 1) + 1
    BY <1>1
  <2> QED
    BY <2>1
<1>8. Elements(x) = Elements(a) \cup {h}
  BY <1>3, <1>4, <1>5 DEF Elements, m
<1>9. Elements(b) = {h} \cup Elements(y)
  <2>1. \A e \in Elements(b) : e \in {h} \cup Elements(y)
    <3> TAKE e \in Elements(b)
    <3>1. PICK i \in 1 .. n : e = b[i]
      BY DEF Elements, n
    <3>2. ASSUME NEW k \in 1 .. (n - 1), i = k + 1 PROVE e \in Elements(y)
      BY <1>2, <3>1, <3>2 DEF Elements
    <3> QED
      BY <1>1, <1>7, <3>1, <3>2
  <2>2. h \in Elements(b)
    BY <1>1, <1>6 DEF Elements, n
  <2>3. \A e \in Elements(y) : e \in Elements(b)
    BY <1>2, <1>6 DEF Elements, n
  <2> QED
    BY <2>1, <2>2, <2>3
<1>10. \A e \in Elements(a) : <<e, h>> \in R
  BY <1>9 DEF Precedes
<1>11. \A e \in Elements(y) : <<h, e>> \in R
  <2> TAKE e \in Elements(y)
  <2>1. PICK i \in 1 .. (n - 1) : e = b[i + 1]
    BY <1>2 DEF Elements
  <2> QED
    BY <1>1, <1>6, <2>1 DEF Ascends, n
<1>12. Ascends(x, R)
  <2> SUFFICES ASSUME NEW i \in 1 .. (m + 1), NEW j \in 1 .. (m + 1), i < j PROVE <<x[i], x[j]>> \in R
    BY <1>3 DEF Ascends
  <2>1. i \in 1 .. m
    BY <1>1
  <2>2. CASE j \in 1 .. m
    BY <1>3, <2>1, <2>2 DEF Ascends, m
  <2>3. CASE j = m + 1
    <3>1. a[i] \in Elements(a)
      BY <2>1 DEF Elements, m
    <3> QED
      BY <1>3, <1>10, <2>1, <2>3, <3>1
  <2> QED
    BY <1>4, <2>2, <2>3
<1>13. Ascends(y, R)
  <2> SUFFICES ASSUME NEW i \in 1 .. (n - 1), NEW j \in 1 .. (n - 1), i < j PROVE <<y[i], y[j]>> \in R
    BY <1>2 DEF Ascends
  <2>1. i + 1 < j + 1
    BY <1>1
  <2> QED
    BY <1>2, <1>6, <2>1 DEF Ascends, n
<1>14. Precedes(x, y, R)
  BY <1>8, <1>9, <1>11 DEF Precedes
<1> QED
  BY <1>8, <1>9, <1>12, <1>13, <1>14 DEF x, y, h

LEMMA FirstMoves ==
  ASSUME NEW U, NEW a \in Seq(U), NEW b \in Seq(U), NEW c \in Seq(U), NEW S, NEW R,
         InOrder(a, b, c, S, R), b # <<>>
  PROVE  InOrder(Append(a, Head(b)), Tail(b), c, S, R)
<1> DEFINE h == Head(b)
           x == Append(a, h)
           y == Tail(b)
<1>1. /\ Ascends(x, R) /\ Ascends(y, R) /\ Precedes(x, y, R)
      /\ Elements(x) = Elements(a) \cup {h} /\ Elements(b) = {h} \cup Elements(y)
  BY HeadMoves DEF InOrder
<1> HIDE DEF h, x, y
<1>2. InOrder(x, y, c, S, R)
  BY <1>1 DEF InOrder, Precedes
<1> QED
  BY <1>2 DEF h, x, y

LEMMA NoElements == Elements(<<>>) = {} /\ \A R : Ascends(<<>>, R)
<1> DEFINE e == <<>>
<1>1. Len(e) = 0
  OBVIOUS
<1> HIDE DEF e
<1>2. Elements(e) = {} /\ \A R : Ascends(e, R)
  BY <1>1 DEF Elements, Ascends
<1> QED
  BY <1>2 DEF e

LEMMA LastMoves ==
  ASSUME NEW U, NEW a \in Seq(U), NEW b, NEW c \in Seq(U), NEW S, NEW R,
         InOrder(a, b, c, S, R), b = <<>>, c # <<>>
  PROVE  InOrder(Append(a, Head(c)), b, Tail(c), S, R)
<1> DEFINE h == Head(c)
           x == Append(a, h)
           y == Tail(c)
<1>1. /\ Ascends(x, R) /\ Ascends(y, R) /\ Precedes(x, y, R)
      /\ Elements(x) = Elements(a) \cup {h} /\ Elements(c) = {h} \cup Elements(y)
  BY HeadMoves DEF InOrder
<1>2. Elements(b) = {} /\ Ascends(b, R)
  BY NoElements
<1> HIDE DEF h, x, y
<1>3. InOrder(x, b, y, S, R)
  BY <1>1, <1>2 DEF InOrder, Precedes
<1> QED
  BY <1>3 DEF h, x, y

-----------------------------------------------------------------------------
LEMMA TreeShape ==
  ASSUME job \in Jobs
  PROVE  /\ N \in Nat
         /\ \A d \in 1 .. N : /\ Unit.last[d] \in 1 .. N /\ d <= Unit.last[d]
                              /\ Unit.parent[d] \in 0 .. N /\ Unit.parent[d] < d
                              /\ Unit.parent[d] = NoDie <=> d = 1
         /\ \A a, d \in 1 .. N : a < d /\ d <= Unit.last[a] => a <= Unit.parent[d]
<1>1. WellFormedUnit(Unit) /\ N = Size(Unit) /\ Dies(Unit) = 1 .. N
  BY ReportAssumption DEF Unit, N, Size, Dies
<1>2. Shape(Unit) /\ \A d \in 1 .. N : Unit.parent[d] = NoDie <=> d = 1
  BY <1>1 DEF WellFormedUnit
<1>3. /\ \A d \in 1 .. N : Unit.last[d] \in 1 .. N /\ Unit.parent[d] \in 0 .. N
      /\ \A d \in 1 .. N : d <= Unit.last[d] /\ Unit.parent[d] < d
      /\ \A a, d \in 1 .. N : a < d /\ d <= Unit.last[a] => a <= Unit.parent[d]
  BY <1>1, <1>2 DEF Shape
<1>4. N \in Nat
  BY UnitShape
<1> QED
  BY <1>2, <1>3, <1>4

\* The siblings of a DIE lie outside its subtree.
LEMMA LevelGap ==
  ASSUME job \in Jobs, NEW c \in 1 .. N, NEW x \in 1 .. N, Unit.parent[x] = Unit.parent[c], c < x
  PROVE  Unit.last[c] < x
<1>1. ~(x <= Unit.last[c])
  <2> SUFFICES ASSUME x <= Unit.last[c] PROVE FALSE
    OBVIOUS
  <2>1. c <= Unit.parent[c] /\ Unit.parent[c] < c /\ Unit.parent[c] \in 0 .. N /\ c \in Nat
    BY TreeShape
  <2> QED
    BY <2>1
<1>2. Unit.last[c] \in 1 .. N /\ N \in Nat
  BY TreeShape
<1> QED
  BY <1>1, <1>2

LEMMA LevelIs ==
  ASSUME job \in Jobs, func \in 1 .. N
  PROVE  /\ \A x : x \in Level(Unit, func) <=> x \in 1 .. N /\ func <= x /\ Unit.parent[x] = Unit.parent[func]
         /\ \A x : x \in Bearing <=> x \in Level(Unit, func) /\ x < Unit.last[x]
         /\ func \in Level(Unit, func)
<1>1. Dies(Unit) = 1 .. N
  BY DEF Dies, Size, N
<1>2. \A x : x \in Level(Unit, func) <=> x \in 1 .. N /\ func <= x /\ Unit.parent[x] = Unit.parent[func]
  BY <1>1, UnitShape DEF Level
<1>3. \A x : x \in Bearing <=> x \in Level(Unit, func) /\ x < Unit.last[x]
  BY DEF Bearing, HasChild
<1>4. func \in Level(Unit, func)
  BY <1>2, UnitShape
<1> QED
  BY <1>2, <1>3, <1>4

\* The walk is due to visit the DIEs at the level of the function, and the
\* children of the first of them that has any.
LEMMA WalkedIs ==
  ASSUME job \in Jobs
  PROVE  \A d : d \in Walked(Unit, func) <=>
                  \/ d \in Level(Unit, func)
                  \/ d \in 1 .. N /\ \E x \in Bearing : Unit.parent[d] = x /\ \A y \in Bearing : x <= y
<1>1. Dies(Unit) = 1 .. N
  BY DEF Dies, Size, N
<1> QED
  BY <1>1 DEF Walked, Bearing

LEMMA WalkedBehind ==
  ASSUME job \in Jobs, func \in 1 .. N, NEW d \in Walked(Unit, func)
  PROVE  d \in 1 .. N /\ func <= d
<1>1. CASE d \in Level(Unit, func)
  BY <1>1, LevelIs
<1>2. ASSUME d \in 1 .. N, NEW x \in Bearing, Unit.parent[d] = x PROVE func <= d
  <2>1. x \in 1 .. N /\ func <= x
    BY LevelIs
  <2>2. x < d /\ N \in Nat
    BY <1>2, TreeShape
  <2> QED
    BY <1>2, <2>1, <2>2
<1> QED
  BY <1>1, <1>2, WalkedIs

\* Nothing is walked below a DIE at the level of the function that comes
\* behind one with children.
LEMMA BelowLater ==
  ASSUME job \in Jobs, func \in 1 .. N, NEW c \in Level(Unit, func), NEW x \in Bearing, x < c,
         NEW d \in 1 .. N, c < d, d <= Unit.last[c]
  PROVE  d \notin Walked(Unit, func)
<1>1. c \in 1 .. N /\ x \in 1 .. N /\ func <= x /\ Unit.parent[c] = Unit.parent[func]
  BY LevelIs
<1>2. N \in Nat /\ c <= Unit.parent[d] /\ Unit.parent[c] < c /\ Unit.parent[c] \in 0 .. N /\ Unit.parent[d] \in 0 .. N
  BY <1>1, TreeShape
<1>3. d \notin Level(Unit, func)
  BY <1>1, <1>2, LevelIs
<1>4. ASSUME NEW y \in Bearing, Unit.parent[d] = y, y <= x PROVE FALSE
  BY <1>1, <1>2, <1>4
<1> QED
  BY <1>3, <1>4, WalkedIs

\* Nor below the children of one that has some.
LEMMA BelowChild ==
  ASSUME job \in Jobs, func \in 1 .. N, NEW c \in 1 .. N, NEW x \in Bearing, Unit.parent[c] = x,
         NEW d \in 1 .. N, c < d, d <= Unit.last[c]
  PROVE  d \notin Walked(Unit, func)
<1>1. x \in 1 .. N /\ Unit.parent[x] = Unit.parent[func]
  BY LevelIs
<1>2. /\ N \in Nat /\ c <= Unit.parent[d] /\ x < c /\ Unit.parent[x] < x
      /\ Unit.parent[x] \in 0 .. N /\ Unit.parent[d] \in 0 .. N
  BY <1>1, TreeShape
<1>3. d \notin Level(Unit, func)
  BY <1>1, <1>2, LevelIs
<1>4. ASSUME NEW y \in Bearing, Unit.parent[d] = y, y <= x PROVE FALSE
  BY <1>1, <1>2, <1>4
<1> QED
  BY <1>3, <1>4, WalkedIs

\* Nothing is walked behind the last DIE at the level of the function.
LEMMA NoneBeyond ==
  ASSUME job \in Jobs, func \in 1 .. N, NEW c \in Level(Unit, func), ~HasSibling(Unit, c),
         NEW d \in Walked(Unit, func)
  PROVE  d <= Unit.last[c]
<1>1. /\ c \in 1 .. N /\ Unit.parent[c] = Unit.parent[func] /\ N \in Nat
      /\ Unit.last[c] \in 1 .. N /\ c <= Unit.last[c]
  BY LevelIs, TreeShape
<1>2. ASSUME NEW y \in Level(Unit, func) PROVE Unit.last[y] <= Unit.last[c]
  <2>1. y \in 1 .. N /\ Unit.parent[y] = Unit.parent[c]
    BY <1>1, LevelIs
  <2>2. CASE Unit.parent[c] = NoDie
    BY <1>1, <2>1, <2>2, TreeShape
  <2>3. CASE Unit.parent[c] # NoDie
    <3>1. Unit.last[y] <= Unit.last[Unit.parent[c]] /\ Unit.parent[c] \in 1 .. N
      BY <2>1, <2>3, SubtreeShape
    <3>2. ~(Unit.last[c] < Unit.last[Unit.parent[c]])
      BY <2>3 DEF HasSibling
    <3>3. Unit.last[Unit.parent[c]] \in 1 .. N /\ Unit.last[y] \in 1 .. N
      BY <2>1, <3>1, TreeShape
    <3> QED
      BY <1>1, <3>1, <3>2, <3>3
  <2> QED
    BY <2>2, <2>3
<1>3. CASE d \in Level(Unit, func)
  <2>1. d \in 1 .. N /\ d <= Unit.last[d] /\ Unit.last[d] \in 1 .. N
    BY <1>3, LevelIs, TreeShape
  <2> QED
    BY <1>1, <1>2, <1>3, <2>1
<1>4. ASSUME d \in 1 .. N, NEW x \in Bearing, Unit.parent[d] = x PROVE d <= Unit.last[c]
  <2>1. x \in Level(Unit, func) /\ x \in 1 .. N
    BY LevelIs
  <2>2. Unit.parent[d] # NoDie
    BY <1>4, <2>1 DEF NoDie
  <2>3. d <= Unit.last[x] /\ Unit.last[x] \in 1 .. N
    BY <1>4, <2>1, <2>2, SubtreeShape, TreeShape
  <2> QED
    BY <1>1, <1>2, <1>4, <2>1, <2>3
<1> QED
  BY <1>3, <1>4, WalkedIs

LEMMA ChildrenEnd ==
  ASSUME job \in Jobs, NEW c \in 1 .. N, NEW x \in 1 .. N, Unit.parent[c] = x, ~HasSibling(Unit, c)
  PROVE  Unit.last[x] <= Unit.last[c]
<1>1. Unit.parent[c] # NoDie
  BY DEF NoDie
<1>2. ~(Unit.last[c] < Unit.last[x])
  BY <1>1 DEF HasSibling
<1>3. Unit.last[c] \in 1 .. N /\ Unit.last[x] \in 1 .. N /\ N \in Nat
  BY TreeShape
<1> QED
  BY <1>2, <1>3

-----------------------------------------------------------------------------
(***************************************************************************)
(* The steps of an address keep what is to be collected, and those of a    *)
(* load the place of the walk.                                             *)
(***************************************************************************)
LEMMA UnitSame ==
  ASSUME UNCHANGED <<job, func>>
  PROVE  /\ Unit' = Unit /\ N' = N /\ Bearing' = Bearing
         /\ Level(Unit, func)' = Level(Unit, func)
         /\ Walked(Unit, func)' = Walked(Unit, func)
         /\ Collectable' = Collectable /\ Order' = Order
<1>1. Unit' = Unit /\ N' = N
  BY DEF Unit, N
<1>2. Level(Unit, func)' = Level(Unit, func) /\ Walked(Unit, func)' = Walked(Unit, func)
  BY <1>1 DEF Level, Walked, HasChild, Dies, Size
<1>3. Bearing' = Bearing
  BY <1>1, <1>2 DEF Bearing, HasChild
<1>4. Collectable' = Collectable
  BY <1>1, <1>2 DEF Collectable
<1>5. Order' = Order
  BY <1>1 DEF Order, Listed
<1> QED
  BY <1>1, <1>2, <1>3, <1>4, <1>5

\* The DIE under the walk is one of those it is due to visit.
LEMMA Where ==
  ASSUME Inv, OwnInv, Standing, pc \in InWalk
  PROVE  /\ job \in Jobs /\ func \in 1 .. N /\ N \in Nat
         /\ Outer \in 1 .. N /\ CurDie \in 1 .. N /\ CurDie \in Walked(Unit, func)
         /\ Len(walk) = 1 => CurDie = Outer /\ Here = walk[1]
         /\ Len(walk) = 2 => Unit.parent[CurDie] = Outer /\ Here = walk[2]
<1>1. /\ job \in Jobs /\ N \in Nat /\ CurDie \in 1 .. N
      /\ CurDie = DieOf(walk[Len(walk)].cur)
  BY WalkShape
<1>2. func \in 1 .. N
  BY DEF Inv, PlaceInv, Reporting, InWalk
<1>3. Outer \in Level(Unit, func) /\ Outer \in 1 .. N
  BY <1>1, <1>2, LevelIs DEF Standing
<1>4. WalkNested
  BY DEF OwnInv, InWalk
<1>5. Len(walk) = 1 => CurDie = Outer /\ Here = walk[1]
  BY <1>1 DEF Outer, Here, Last
<1>6. ASSUME Len(walk) = 2 PROVE Unit.parent[CurDie] = Outer /\ Here = walk[2]
  <2>1. 1 \in 1 .. (Len(walk) - 1) /\ 1 + 1 = Len(walk)
    BY <1>6
  <2>2. Unit.parent[DieOf(walk[1 + 1].cur)] = DieOf(walk[1].cur)
    BY <1>4, <2>1 DEF WalkNested
  <2>3. Unit.parent[CurDie] = Outer
    BY <1>1, <2>1, <2>2 DEF Outer
  <2>4. Here = walk[2]
    BY <1>6 DEF Here, Last
  <2> QED
    BY <2>3, <2>4
<1>7. CurDie \in Walked(Unit, func)
  <2>1. CASE Len(walk) = 1
    BY <1>1, <1>3, <1>5, <2>1, WalkedIs
  <2>2. CASE Len(walk) = 2
    <3>1. Outer \in Bearing /\ \A x \in Bearing : Outer <= x
      BY <2>2 DEF Standing
    <3> QED
      BY <1>1, <1>6, <2>2, <3>1, WalkedIs
  <2> QED
    BY <2>1, <2>2 DEF Standing
<1> QED
  BY <1>1, <1>2, <1>3, <1>5, <1>6, <1>7

LEMMA StandStays ==
  ASSUME Standing, UNCHANGED <<job, func, walk>>, pc # "sibling", pc' # "sibling"
  PROVE  Standing'
<1>1. /\ Outer' = Outer /\ Bearing' = Bearing
      /\ Level(Unit, func)' = Level(Unit, func)
  BY UnitSame DEF Outer
<1> QED
  BY <1>1 DEF Standing

\* A step of a load gathers nothing, and what it lets the walk pass is not to be
\* collected.
LEMMA GatherStays ==
  ASSUME Gathered, UNCHANGED <<job, at, func, params, locals, values>>,
         \A d \in Collectable : Passed(d)' => Passed(d) \/ VarAt(d) \in Vectors
  PROVE  Gathered'
<1>1. Vectors' = Vectors /\ Collectable' = Collectable /\ \A d : VarAt(d)' = VarAt(d)
  BY UnitSame, Same DEF Vectors
<1> QED
  BY <1>1 DEF Gathered

LEMMA QuietPass ==
  ASSUME UNCHANGED walk, pc \in {"visit"} \cup Loading, pc' \in {"visit"} \cup Loading
  PROVE  \A d : Passed(d)' => Passed(d)
<1>1. CurDie' = CurDie
  BY DEF CurDie, Here
<1> QED
  BY <1>1 DEF Passed, Loading

LEMMA ChildPass ==
  ASSUME Inv, pc \in InWalk, UNCHANGED walk, pc \in {"visit"} \cup Loading, pc' = "child"
  PROVE  \A d \in 1 .. N : Passed(d)' => Passed(d) \/ d = CurDie
<1>1. CurDie' = CurDie
  BY DEF CurDie, Here
<1>2. CurDie \in 1 .. N /\ N \in Nat
  BY WalkShape
<1> SUFFICES ASSUME NEW d \in 1 .. N, Passed(d)', d # CurDie PROVE Passed(d)
  OBVIOUS
<1>3. d <= CurDie
  BY <1>1 DEF Passed
<1>4. d < CurDie
  BY <1>2, <1>3
<1> QED
  BY <1>4 DEF Passed, Loading

LEMMA CollectableIs ==
  ASSUME job \in Jobs, func \in 1 .. N, NEW d \in Collectable
  PROVE  /\ d \in 1 .. N /\ func <= d /\ d \in Walked(Unit, func)
         /\ Unit.die[d].tag \in VariableTags /\ "name" \in Unit.die[d].names
         /\ Loads(Unit, Unit.die[d].type)
BY WalkedBehind DEF Collectable

-----------------------------------------------------------------------------
(***************************************************************************)
(* Without errors of libdwarf a load goes on where it can.                 *)
(***************************************************************************)
\* What is true of the walk while it is on its way.
OnItsWay == Inv /\ OwnInv /\ LoadInv /\ GatherInv /\ ~job.libFails /\ pc \in InWalk

LEMMA WayGives ==
  ASSUME OnItsWay
  PROVE  Inv /\ OwnInv /\ LoadInv /\ ~job.libFails /\ Standing /\ Gathered /\ Promising
BY DEF OnItsWay, GatherInv

LEMMA WayOn ==
  ASSUME OnItsWay, UNCHANGED job, pc' \in InWalk, Standing', Gathered', Promising'
  PROVE  GatherInv'
BY DEF GatherInv, InWalk

LEMMA WayQuiet ==
  ASSUME OnItsWay, UNCHANGED <<job, at, func, walk, params, locals, values>>,
         pc \in {"visit"} \cup Loading, pc' \in Loading, Promising'
  PROVE  GatherInv'
<1>1. Standing /\ Gathered
  BY WayGives
<1>2. pc' \in InWalk /\ pc # "sibling" /\ pc' # "sibling"
  BY DEF InWalk, Loading
<1>3. Standing'
  BY <1>1, <1>2, StandStays
<1>4. Gathered'
  BY <1>1, QuietPass, GatherStays
<1> QED
  BY <1>2, <1>3, <1>4, WayOn

LEMMA WayPast ==
  ASSUME OnItsWay, UNCHANGED <<job, at, func, walk, params, locals, values>>,
         pc \in {"visit"} \cup Loading, pc' = "child", CurDie \notin Collectable
  PROVE  GatherInv'
<1>1. Standing /\ Gathered /\ Inv /\ OwnInv /\ pc \in InWalk
  BY WayGives DEF OnItsWay
<1>2. pc' \in InWalk /\ pc # "sibling" /\ pc' # "sibling"
  BY DEF InWalk, Loading
<1>3. Standing'
  BY <1>1, <1>2, StandStays
<1>4. job \in Jobs /\ func \in 1 .. N
  BY <1>1, Where
<1>5. \A d \in Collectable : Passed(d)' => Passed(d)
  BY <1>1, <1>4, ChildPass, CollectableIs
<1>6. Gathered'
  BY <1>1, <1>5, GatherStays
<1>7. Promising'
  BY DEF Promising, Loading, Typing
<1> QED
  BY <1>2, <1>3, <1>6, <1>7, WayOn

LEMMA VisitGathers ==
  ASSUME OnItsWay, Visit
  PROVE  GatherInv'
<1>1. /\ UNCHANGED <<job, at, func, walk, params, locals, values>> /\ pc = "visit"
      /\ ~job.libFails
  BY DEF Visit, cmd, place, lists, OnItsWay
<1>2. \/ pc' = "load" /\ Unit.die[CurDie].tag \in VariableTags
      \/ pc' = "child" /\ Unit.die[CurDie].tag \notin VariableTags
  BY <1>1 DEF Visit, Call
<1>3. CASE pc' = "load" /\ Unit.die[CurDie].tag \in VariableTags
  <2>1. Unit' = Unit /\ CurDie' = CurDie
    BY <1>1 DEF Unit, CurDie, Here
  <2>2. Promising'
    BY <1>3, <2>1 DEF Promising, Typing
  <2> QED
    BY <1>1, <1>3, <2>2, WayQuiet DEF Loading
<1>4. CASE pc' = "child" /\ Unit.die[CurDie].tag \notin VariableTags
  <2>1. CurDie \notin Collectable
    BY <1>4 DEF Collectable
  <2> QED
    BY <1>1, <1>4, <2>1, WayPast
<1> QED
  BY <1>2, <1>3, <1>4

LEMMA LoadVarGathers ==
  ASSUME OnItsWay, LoadVar
  PROVE  GatherInv'
<1>1. /\ UNCHANGED <<job, at, func, walk, params, locals, values>> /\ pc = "load"
      /\ ~job.libFails
  BY DEF LoadVar, cmd, place, lists, OnItsWay
<1>2. Unit' = Unit /\ CurDie' = CurDie
  BY <1>1 DEF Unit, CurDie, Here
<1>3. Unit.die[CurDie].tag \in VariableTags
  BY <1>1, WayGives DEF Promising, Loading
<1>4. \/ pc' = "type" /\ "name" \in Unit.die[CurDie].names
      \/ pc' = "drop"
  BY <1>1 DEF LoadVar, TagLoad, Call
<1>5. Promising'
  BY <1>2, <1>3, <1>4 DEF Promising, Typing
<1> QED
  BY <1>1, <1>4, <1>5, WayQuiet DEF Loading

LEMMA LoadTypeGathers ==
  ASSUME OnItsWay, LoadType
  PROVE  GatherInv'
<1> DEFINE k == Len(types)
           t == types[k]
<1>1. /\ UNCHANGED <<job, at, func, walk, params, locals, values>> /\ pc = "type"
      /\ ~job.libFails /\ Inv /\ OwnInv /\ job \in Jobs
  BY DEF LoadType, cmd, place, lists, OnItsWay, Inv, PlaceInv
<1>2. Unit' = Unit /\ CurDie' = CurDie
  BY <1>1 DEF Unit, CurDie, Here
<1>3. Unit.die[CurDie].tag \in VariableTags /\ "name" \in Unit.die[CurDie].names
  BY <1>1, WayGives DEF Promising, Loading, Typing
<1>4. k \in 1 .. NTypes /\ types \in Seq(1 .. NTypes) /\ NTypes \in Nat /\ Last(types) = t /\ t \in 1 .. NTypes
  BY <1>1, TypesOnHeap DEF Last
<1>5. \/ pc' = "type"
      \/ /\ pc' = "typed" /\ types' = types
         /\ ret' => Unit.types[t].tag \in LeafTypes
  BY <1>1, <1>4 DEF LoadType, TagLoad, Call
<1>6. pc' = "typed" /\ ret' => Loads(Unit, t)
  <2>1. t \in 0 .. NTypes
    BY <1>4
  <2>2. Unit.types[t].tag \in LeafTypes => Loads(Unit, t)
    BY <1>1, <1>4, <2>1, LoadsRule
  <2> QED
    BY <1>5, <2>2
<1>7. pc' = "typed" /\ ret' => Loads(Unit, types[Len(types)])'
  BY <1>2, <1>5, <1>6
<1>8. Promising'
  BY <1>2, <1>3, <1>5, <1>7 DEF Promising, Typing
<1> QED
  BY <1>1, <1>5, <1>8, WayQuiet DEF Loading

LEMMA TypeReturnsGathers ==
  ASSUME OnItsWay, TypeReturns
  PROVE  GatherInv'
<1> DEFINE k == Len(types)
           t == types[k]
<1>1. /\ UNCHANGED <<job, at, func, walk, params, locals, values, ret>> /\ pc = "typed"
      /\ ~job.libFails /\ Inv /\ OwnInv /\ job \in Jobs
  BY DEF TypeReturns, cmd, place, lists, OnItsWay, Inv, PlaceInv
<1>2. Unit' = Unit /\ CurDie' = CurDie /\ CurType' = CurType
  BY <1>1 DEF Unit, CurDie, CurType, Here
<1>3. /\ Unit.die[CurDie].tag \in VariableTags /\ "name" \in Unit.die[CurDie].names
      /\ ret => Loads(Unit, t)
  BY <1>1, WayGives DEF Promising, Loading, Typing
<1>4. k \in 1 .. NTypes /\ types \in Seq(1 .. NTypes) /\ NTypes \in Nat
  BY <1>1, TypesOnHeap
<1>5. FollowsChain
  BY <1>1, WayGives DEF LoadInv
<1>6. CASE k > 1
  <2>1. pc' = "typed" /\ types' = Front(types)
    BY <1>6 DEF TypeReturns
  <2>2. Len(types') = k - 1 /\ \A i \in 1 .. (k - 1) : types'[i] = types[i]
    BY <1>4, <2>1, FrontIs
  <2>3. k - 1 \in 1 .. (k - 1) /\ k - 1 \in 1 .. k /\ (k - 1) + 1 = k
    BY <1>4, <1>6
  <2> DEFINE s == types[k - 1]
  <2>4. Unit.types[s].tag \in WrappingTypes /\ t = Unit.types[s].base /\ s \in 1 .. NTypes /\ s \in 0 .. NTypes
    BY <1>4, <1>5, <2>3 DEF FollowsChain
  <2>5. ret => Loads(Unit, s)
    BY <1>1, <1>3, <2>4, LoadsRule
  <2>6. types'[Len(types')] = s
    BY <2>2, <2>3
  <2>7. ret' => Loads(Unit, types[Len(types)])'
    BY <1>1, <1>2, <2>5, <2>6
  <2>8. Promising'
    BY <1>2, <1>3, <2>1, <2>7 DEF Promising, Typing
  <2> QED
    BY <1>1, <2>1, <2>8, WayQuiet DEF Loading
<1>7. CASE k = 1
  <2>1. t = CurType
    BY <1>5, <1>7 DEF FollowsChain
  <2>2. pc' = (IF ret THEN "location" ELSE "drop")
    BY <1>4, <1>7 DEF TypeReturns
  <2>3. ret => Loads(Unit, CurType)'
    BY <1>2, <1>3, <2>1
  <2>4. Promising'
    BY <1>2, <1>3, <2>2, <2>3 DEF Promising, Typing
  <2> QED
    BY <1>1, <2>2, <2>4, WayQuiet DEF Loading
<1>8. k > 1 \/ k = 1
  <2> HIDE DEF k
  <2> QED
    BY <1>4
<1> QED
  BY <1>6, <1>7, <1>8

LEMMA DropGathers ==
  ASSUME OnItsWay, DropVar
  PROVE  GatherInv'
<1>1. /\ UNCHANGED <<job, at, func, walk, params, locals, values>> /\ pc = "drop"
      /\ ~job.libFails /\ pc' \in {"undefined", "child"}
  BY DEF DropVar, cmd, place, lists, OnItsWay
<1>2. CASE pc' = "undefined"
  BY <1>2 DEF GatherInv, InWalk
<1>3. CASE pc' = "child"
  <2>1. NotLoaded
    BY <1>1, WayGives DEF LoadInv
  <2>2. CurDie \notin Collectable
    BY <1>1, <2>1 DEF NotLoaded, Collectable, CurType
  <2> QED
    BY <1>1, <1>3, <2>2, WayPast DEF Loading
<1> QED
  BY <1>1, <1>2, <1>3

-----------------------------------------------------------------------------
(***************************************************************************)
(* The steps of the walk, without errors of libdwarf.                      *)
(***************************************************************************)
LEMMA AppendElements ==
  ASSUME NEW S, NEW s \in Seq(S), NEW e
  PROVE  Elements(Append(s, e)) = Elements(s) \cup {e}
<1> DEFINE x == Append(s, e)
           k == Len(s)
<1>1. k \in Nat /\ Len(x) = k + 1 /\ x[k + 1] = e /\ \A i \in 1 .. k : x[i] = s[i]
  BY AppendSeq
<1> HIDE DEF x, k
<1>2. \A i \in 1 .. (k + 1) : i \in 1 .. k \/ i = k + 1
  BY <1>1
<1>3. k + 1 \in 1 .. (k + 1) /\ \A i \in 1 .. k : i \in 1 .. (k + 1)
  BY <1>1
<1>4. Elements(x) = Elements(s) \cup {e}
  BY <1>1, <1>2, <1>3 DEF Elements, k
<1> QED
  BY <1>4 DEF x

LEMMA LocationGathers ==
  ASSUME OnItsWay, LoadLocation
  PROVE  GatherInv'
<1>1. /\ UNCHANGED <<job, at, func, walk, values>> /\ pc = "location" /\ pc' = "child"
      /\ pc \in InWalk /\ pc' \in InWalk
  BY DEF LoadLocation, cmd, place, InWalk
<1>2. Inv /\ OwnInv /\ Standing /\ Gathered /\ Promising /\ ~job.libFails
  BY WayGives
<1>3. job \in Jobs /\ func \in 1 .. N /\ N \in Nat /\ CurDie \in 1 .. N /\ CurDie \in Walked(Unit, func)
  BY <1>1, <1>2, Where
<1>4. CurDie \in Collectable
  BY <1>1, <1>2, <1>3 DEF Collectable, Promising, Loading, Typing, CurType
<1>5. Vectors' = Vectors \cup {Var}
  <2>1. \/ params' = Append(params, Var) /\ locals' = locals
        \/ locals' = Append(locals, Var) /\ params' = params
    BY DEF LoadLocation
  <2>2. params \in Seq(Handles(N)) /\ locals \in Seq(Handles(N))
    BY <1>2 DEF Inv, ListInv
  <2>3. /\ Elements(Append(params, Var)) = Elements(params) \cup {Var}
        /\ Elements(Append(locals, Var)) = Elements(locals) \cup {Var}
    BY <2>2, AppendElements
  <2> QED
    BY <2>1, <2>3 DEF Vectors
<1>6. Collectable' = Collectable /\ \A d : VarAt(d)' = VarAt(d)
  BY <1>1, UnitSame, Same
<1>7. \A v \in Vectors' : DieOf(v) \in Collectable
  BY <1>2, <1>4, <1>5, Objects DEF Gathered
<1>8. ASSUME NEW d \in Collectable, Passed(d)' PROVE VarAt(d) \in Vectors'
  <2>1. d \in 1 .. N
    BY <1>3, CollectableIs
  <2>2. Passed(d) \/ d = CurDie
    BY <1>1, <1>2, <1>8, <2>1, ChildPass DEF Loading
  <2> QED
    BY <1>2, <1>5, <2>2, Objects DEF Gathered
<1>9. Gathered'
  BY <1>1, <1>2, <1>6, <1>7, <1>8 DEF Gathered
<1>10. Standing'
  BY <1>1, <1>2, StandStays
<1>11. Promising'
  BY <1>1 DEF Promising, Loading, Typing
<1> QED
  BY <1>1, <1>9, <1>10, <1>11, WayOn

\* What a step of the walk has to show.
LEMMA WayWalks ==
  ASSUME OnItsWay, UNCHANGED <<job, at, func, params, locals, values>>,
         pc' \in {"visit", "sibling"}, Standing',
         \A d \in Collectable : Passed(d)' => Passed(d)
  PROVE  GatherInv'
<1>1. Gathered'
  BY WayGives, GatherStays
<1>2. Promising'
  BY DEF Promising, Loading, Typing
<1> QED
  BY <1>1, <1>2, WayOn DEF InWalk

\* Three places of the walk.
Above == Len(walk) = 1 /\ walk[1].level = 0
Within == Len(walk) = 2 /\ walk[1].level = MaxLevel /\ walk[2].level = MaxLevel
Beyond == Len(walk) = 1 /\ walk[1].level = MaxLevel

LEMMA DownGathers ==
  ASSUME OnItsWay, Child, HasChild(Unit, CurDie), Here.level < MaxLevel, NEW h,
         h = Object("child", FirstChild(CurDie), 0), Descend(h)
  PROVE  GatherInv'
<1>1. UNCHANGED <<job, at, func, params, locals, values>> /\ pc = "child" /\ pc \in InWalk
  BY DEF Child, cmd, place, lists, InWalk
<1>2. Inv /\ OwnInv /\ Standing
  BY WayGives
<1>3. /\ job \in Jobs /\ func \in 1 .. N /\ N \in Nat /\ CurDie \in 1 .. N
      /\ Len(walk) = 1 => CurDie = Outer /\ Here = walk[1]
      /\ Len(walk) = 2 => Here = walk[2]
  BY <1>1, <1>2, Where
<1>4. Above /\ Here = walk[1] /\ CurDie = Outer /\ \A x \in Bearing : Outer <= x
  BY <1>1, <1>2, <1>3 DEF Standing, Above, MaxLevel
<1>5. walk \in Seq(Activations(N)) /\ Len(walk) = 1 /\ Len(walk) > 0 /\ N \in Nat
  BY <1>1, <1>2, <1>4, WalkShape DEF Above
<1>6. /\ walk' = Append([walk EXCEPT ![Len(walk)].level = @ + 1], [die |-> h, cur |-> h, level |-> Here.level + 1])
      /\ pc' = "visit"
  BY DEF Descend
<1>7. walk' = Append([walk EXCEPT ![Len(walk)].level = walk[Len(walk)].level + 1],
                     [die |-> h, cur |-> h, level |-> Here.level + 1])
  <2>1. Len(walk) \in DOMAIN walk
    BY <1>5
  <2> QED
    BY <1>6, <2>1
<1>8. /\ Len(walk') = Len(walk) + 1 /\ walk'[Len(walk) + 1].cur = h
      /\ \A i \in 1 .. Len(walk) : walk'[i].cur = walk[i].cur
      /\ walk'[Len(walk) + 1].level = Here.level + 1 /\ walk'[Len(walk)].level = walk[Len(walk)].level + 1
  <2> DEFINE u == walk[Len(walk)].level + 1
             v == Here.level + 1
  <2>1. walk \in Seq(Activations(N)) /\ Len(walk) > 0 /\ N \in Nat
    BY <1>5
  <2>2. walk' = Append([walk EXCEPT ![Len(walk)].level = u], [die |-> h, cur |-> h, level |-> v])
    BY <1>7
  <2> HIDE DEF u, v
  <2>3. /\ Len(walk') = Len(walk) + 1 /\ walk'[Len(walk) + 1].cur = h
        /\ \A i \in 1 .. Len(walk) : walk'[i].cur = walk[i].cur
    BY <2>1, <2>2, PushedCurs
  <2>4. walk'[Len(walk) + 1].level = v /\ walk'[Len(walk)].level = u
    BY <2>1, <2>2, PushedLevels
  <2> QED
    BY <2>3, <2>4 DEF u, v
<1>9. /\ Len(walk') = 2 /\ walk'[2].cur = h /\ walk'[1].cur = walk[1].cur
       /\ walk'[1].level = MaxLevel /\ walk'[2].level = MaxLevel
  BY <1>4, <1>5, <1>8 DEF Above, MaxLevel
<1>10. DieOf(h) = CurDie + 1
  BY <1>3, FirstChildShape DEF Object, DieOf
<1>11. CurDie' = CurDie + 1
  BY <1>9, <1>10 DEF CurDie, Here, Last
<1>12. Outer' = Outer
  BY <1>9 DEF Outer
<1>13. Outer \in Bearing /\ Outer \in Level(Unit, func)
  BY <1>2, <1>4 DEF Standing, Bearing
<1>14. Bearing' = Bearing /\ Level(Unit, func)' = Level(Unit, func)
  BY <1>1, UnitSame
<1>15. Standing'
  BY <1>4, <1>9, <1>12, <1>13, <1>14 DEF Standing
<1>16. ASSUME NEW d \in Collectable, Passed(d)' PROVE Passed(d)
  <2>1. d \in 1 .. N
    BY <1>3, CollectableIs
  <2>2. d < CurDie + 1
    BY <1>6, <1>11, <1>16 DEF Passed
  <2>3. d <= CurDie
    BY <1>3, <2>1, <2>2
  <2> QED
    BY <1>1, <2>3 DEF Passed, Loading
<1> QED
  BY <1>1, <1>6, <1>15, <1>16, WayWalks

\* The walk does not go down: there is nothing below to collect.
LEMMA PastGathers ==
  ASSUME OnItsWay, Child, pc' = "sibling", UNCHANGED walk, HasChild(Unit, CurDie) => ~(Here.level < MaxLevel)
  PROVE  GatherInv'
<1>1. UNCHANGED <<job, at, func, params, locals, values>> /\ pc = "child" /\ pc \in InWalk
  BY DEF Child, cmd, place, lists, InWalk
<1>2. Inv /\ OwnInv /\ Standing
  BY WayGives
<1>3. /\ job \in Jobs /\ func \in 1 .. N /\ N \in Nat /\ CurDie \in 1 .. N /\ Outer \in 1 .. N
      /\ Len(walk) = 1 => CurDie = Outer /\ Here = walk[1]
      /\ Len(walk) = 2 => Unit.parent[CurDie] = Outer /\ Here = walk[2]
  BY <1>1, <1>2, Where
<1>4. \A x \in Bearing : x \in 1 .. N
  BY <1>3, LevelIs
<1>5. Outer' = Outer /\ CurDie' = CurDie /\ Bearing' = Bearing /\ Level(Unit, func)' = Level(Unit, func) /\ Unit' = Unit
  BY <1>1, UnitSame DEF Outer, CurDie, Here
<1>6. Unit.last[CurDie] \in 1 .. N /\ CurDie <= Unit.last[CurDie]
  BY <1>3, TreeShape
<1>7. /\ Outer \in Level(Unit, func)
      /\ \/ Above /\ \A x \in Bearing : Outer <= x
         \/ Beyond /\ \E x \in Bearing : x < Outer
         \/ Within /\ Outer \in Bearing /\ \A x \in Bearing : Outer <= x
  BY <1>1, <1>2 DEF Standing, Above, Beyond, Within
<1>8. Above => Outer \notin Bearing
  BY <1>3 DEF Above, Bearing, MaxLevel
<1>9. Standing'
  <2>1. CASE Above /\ \A x \in Bearing : Outer <= x
    <3>1. ASSUME NEW x \in Bearing PROVE Outer < x
      <4>1. Outer <= x /\ x \in 1 .. N /\ x # Outer
        BY <1>4, <1>8, <2>1
      <4> QED
        BY <1>3, <4>1
    <3> QED
      BY <1>5, <1>7, <2>1, <3>1 DEF Standing, Above
  <2>2. CASE Beyond /\ \E x \in Bearing : x < Outer
    <3>1. \E x \in Bearing : x <= Outer
      BY <1>3, <1>4, <2>2
    <3> QED
      BY <1>5, <1>7, <2>2, <3>1 DEF Standing, Beyond
  <2>3. CASE Within /\ Outer \in Bearing /\ \A x \in Bearing : Outer <= x
    BY <1>5, <1>7, <2>3 DEF Standing, Within
  <2> QED
    BY <1>7, <2>1, <2>2, <2>3
<1>10. ASSUME NEW d \in Collectable, Passed(d)' PROVE Passed(d)
  <2>1. d \in 1 .. N /\ d \in Walked(Unit, func)
    BY <1>3, CollectableIs
  <2>2. d <= Unit.last[CurDie]
    BY <1>5, <1>10 DEF Passed
  <2>3. CurDie < d => FALSE
    <3> SUFFICES ASSUME CurDie < d PROVE FALSE
      OBVIOUS
    <3>1. HasChild(Unit, CurDie)
      BY <1>3, <1>6, <2>1, <2>2 DEF HasChild
    <3>2. CASE Beyond /\ \E x \in Bearing : x < Outer
      BY <1>3, <1>7, <2>1, <2>2, <3>2, BelowLater DEF Beyond
    <3>3. CASE Within /\ Outer \in Bearing
      BY <1>3, <2>1, <2>2, <3>3, BelowChild DEF Within
    <3>4. CASE Above
      BY <1>3, <3>1, <3>4 DEF Above, MaxLevel
    <3> QED
      BY <1>7, <3>2, <3>3, <3>4
  <2>4. d <= CurDie
    BY <1>3, <2>1, <2>3
  <2> QED
    BY <1>1, <2>4 DEF Passed, Loading
<1> QED
  BY <1>1, <1>9, <1>10, WayWalks

LEMMA ChildGathers ==
  ASSUME OnItsWay, Child
  PROVE  GatherInv'
<1> DEFINE h == Object("child", FirstChild(CurDie), 0)
<1>1. ~job.libFails
  BY WayGives
<1>2. \/ HasChild(Unit, CurDie) /\ Descend(h)
      \/ ~HasChild(Unit, CurDie) /\ pc' = "sibling" /\ UNCHANGED walk
  BY <1>1 DEF Child
<1> HIDE DEF h
<1>3. CASE HasChild(Unit, CurDie) /\ Descend(h)
  <2>1. CASE Here.level < MaxLevel
    BY <1>3, <2>1, DownGathers DEF h
  <2>2. CASE ~(Here.level < MaxLevel)
    <3>1. pc' = "sibling" /\ UNCHANGED walk
      BY <1>3, <2>2 DEF Descend
    <3> QED
      BY <2>2, <3>1, PastGathers
  <2> QED
    BY <2>1, <2>2
<1>4. CASE ~HasChild(Unit, CurDie) /\ pc' = "sibling" /\ UNCHANGED walk
  BY <1>4, PastGathers
<1> QED
  BY <1>2, <1>3, <1>4

LEMMA OverGathers ==
  ASSUME OnItsWay, NextSibling, HasSibling(Unit, CurDie), NEW h,
         h = Object("sibling", Sibling(Unit, CurDie), 0), MoveTo(h)
  PROVE  GatherInv'
<1> DEFINE k == Len(walk)
           s == Sibling(Unit, CurDie)
<1>1. UNCHANGED <<job, at, func, params, locals, values>> /\ pc = "sibling" /\ pc \in InWalk
  BY DEF NextSibling, cmd, place, lists, InWalk
<1>2. Inv /\ OwnInv /\ Standing
  BY WayGives
<1>3. /\ job \in Jobs /\ func \in 1 .. N /\ N \in Nat /\ CurDie \in 1 .. N /\ Outer \in 1 .. N
      /\ k = 1 => CurDie = Outer
  BY <1>1, <1>2, Where
<1>4. walk \in Seq(Activations(N)) /\ k \in Nat /\ k > 0
  BY <1>1, <1>2, WalkShape
<1>5. walk' = [walk EXCEPT ![k].cur = h] /\ pc' = "visit"
  BY DEF MoveTo
<1>6. Len(walk') = k /\ walk'[k].cur = h /\ \A i \in 1 .. (k - 1) : walk'[i] = walk[i]
  BY <1>4, <1>5, MovedCurs
<1>7. \A i \in 1 .. k : walk'[i].level = walk[i].level
  BY <1>4, <1>5, MovedLevels
<1>8. s \in 1 .. N /\ s = Unit.last[CurDie] + 1 /\ Unit.parent[s] = Unit.parent[CurDie]
  BY <1>3, NextSiblingShape
<1>9. DieOf(h) = s
  BY DEF Object, DieOf
<1>10. CurDie' = s
  BY <1>6, <1>9 DEF CurDie, Here, Last
<1>11. Unit.last[CurDie] \in 1 .. N /\ CurDie <= Unit.last[CurDie]
  BY <1>3, TreeShape
<1> HIDE DEF s
<1>12. Bearing' = Bearing /\ Level(Unit, func)' = Level(Unit, func)
  BY <1>1, UnitSame
<1>13. /\ Outer \in Level(Unit, func)
       /\ \/ Above /\ \A x \in Bearing : Outer < x
          \/ Beyond /\ \E x \in Bearing : x <= Outer
          \/ Within /\ Outer \in Bearing /\ \A x \in Bearing : Outer <= x
  BY <1>1, <1>2 DEF Standing, Above, Beyond, Within
<1>14. k = 1 => Outer' = s /\ s \in Level(Unit, func) /\ Outer < s
  <2> SUFFICES ASSUME k = 1 PROVE Outer' = s /\ s \in Level(Unit, func) /\ Outer < s
    OBVIOUS
  <2>1. Outer' = s
    BY <1>6, <1>9 DEF Outer
  <2>2. func <= Outer /\ Unit.parent[Outer] = Unit.parent[func] /\ CurDie = Outer
    BY <1>3, <1>13, LevelIs
  <2>3. Outer < s /\ func <= s /\ Unit.parent[s] = Unit.parent[func]
    BY <1>3, <1>8, <1>11, <2>2
  <2>4. s \in Level(Unit, func)
    BY <1>3, <1>8, <2>3, LevelIs
  <2> QED
    BY <2>1, <2>3, <2>4
<1>15. ASSUME Above /\ \A x \in Bearing : Outer < x PROVE Standing'
  <2>1. k = 1
    BY <1>15 DEF Above
  <2>2. ASSUME NEW x \in Bearing PROVE s <= x
    <3>1. x \in 1 .. N /\ Unit.parent[x] = Unit.parent[Outer] /\ Outer < x
      BY <1>3, <1>13, <1>15, LevelIs
    <3>2. Unit.last[Outer] < x
      BY <1>3, <3>1, LevelGap
    <3> QED
      BY <1>3, <1>8, <1>11, <2>1, <3>1, <3>2
  <2>3. Len(walk') = 1 /\ walk'[1].level = 0
    BY <1>6, <1>7, <1>15, <2>1 DEF Above
  <2> QED
    BY <1>5, <1>12, <1>14, <2>1, <2>2, <2>3 DEF Standing
<1>16. ASSUME Beyond /\ \E x \in Bearing : x <= Outer PROVE Standing'
  <2>1. k = 1
    BY <1>16 DEF Beyond
  <2>2. PICK x \in Bearing : x <= Outer
    BY <1>16
  <2>3. x < s
    <3>1. x \in 1 .. N
      BY <1>3, LevelIs
    <3> QED
      BY <1>3, <1>8, <1>14, <2>1, <2>2, <3>1
  <2>4. Len(walk') = 1 /\ walk'[1].level = MaxLevel
    BY <1>6, <1>7, <1>16, <2>1 DEF Beyond
  <2> QED
    BY <1>5, <1>12, <1>14, <2>1, <2>3, <2>4 DEF Standing
<1>17. ASSUME Within /\ Outer \in Bearing /\ \A x \in Bearing : Outer <= x PROVE Standing'
  <2>1. k = 2
    BY <1>17 DEF Within
  <2>2. 1 \in 1 .. (k - 1) /\ 1 \in 1 .. k /\ 2 \in 1 .. k
    BY <2>1
  <2>3. Outer' = Outer
    BY <1>6, <2>2 DEF Outer
  <2>4. Len(walk') = 2 /\ walk'[1].level = MaxLevel /\ walk'[2].level = MaxLevel
    BY <1>6, <1>7, <1>17, <2>1, <2>2 DEF Within
  <2> QED
    BY <1>12, <1>13, <1>17, <2>3, <2>4 DEF Standing
<1>18. Standing'
  BY <1>13, <1>15, <1>16, <1>17
<1>19. ASSUME NEW d \in Collectable, Passed(d)' PROVE Passed(d)
  <2>1. d \in 1 .. N
    BY <1>3, CollectableIs
  <2>2. d < s
    BY <1>5, <1>10, <1>19 DEF Passed
  <2>3. d <= Unit.last[CurDie]
    BY <1>3, <1>8, <1>11, <2>1, <2>2
  <2> QED
    BY <1>1, <2>3 DEF Passed, Loading
<1> QED
  BY <1>1, <1>5, <1>18, <1>19, WayWalks

LEMMA UpGathers ==
  ASSUME OnItsWay, NextSibling, ~HasSibling(Unit, CurDie), Leave, Len(walk) = 2
  PROVE  GatherInv'
<1>1. UNCHANGED <<job, at, func, params, locals, values>> /\ pc = "sibling" /\ pc \in InWalk
  BY DEF NextSibling, cmd, place, lists, InWalk
<1>2. Inv /\ OwnInv /\ Standing
  BY WayGives
<1>3. /\ job \in Jobs /\ func \in 1 .. N /\ N \in Nat /\ CurDie \in 1 .. N /\ Outer \in 1 .. N
      /\ Unit.parent[CurDie] = Outer
  BY <1>1, <1>2, Where
<1>4. walk \in Seq(Activations(N)) /\ Len(walk) > 0
  BY <1>1, <1>2, WalkShape
<1>5. walk' = Front(walk) /\ pc' = "sibling"
  BY DEF Leave
<1>6. Len(walk') = 1 /\ walk'[1] = walk[1]
  <2>1. Len(walk') = Len(walk) - 1 /\ \A i \in 1 .. (Len(walk) - 1) : walk'[i] = walk[i]
    BY <1>3, <1>4, <1>5, FrontCurs
  <2> QED
    BY <2>1
<1>7. Outer' = Outer /\ CurDie' = Outer
  BY <1>6 DEF Outer, CurDie, Here, Last
<1>8. Outer \in Level(Unit, func) /\ Outer \in Bearing /\ walk[1].level = MaxLevel
  BY <1>2 DEF Standing
<1>9. Bearing' = Bearing /\ Level(Unit, func)' = Level(Unit, func) /\ Unit' = Unit
  BY <1>1, UnitSame
<1>10. \E x \in Bearing : x <= Outer
  BY <1>3, <1>8
<1>11. Standing'
  BY <1>5, <1>6, <1>7, <1>8, <1>9, <1>10 DEF Standing
<1>12. ASSUME NEW d \in Collectable, Passed(d)' PROVE Passed(d)
  <2>1. d \in 1 .. N
    BY <1>3, CollectableIs
  <2>2. d <= Unit.last[Outer]
    BY <1>5, <1>7, <1>9, <1>12 DEF Passed
  <2>3. Unit.last[Outer] <= Unit.last[CurDie]
    BY <1>3, ChildrenEnd
  <2>4. Unit.last[Outer] \in 1 .. N /\ Unit.last[CurDie] \in 1 .. N
    BY <1>3, TreeShape
  <2>5. d <= Unit.last[CurDie]
    BY <1>3, <2>1, <2>2, <2>3, <2>4
  <2> QED
    BY <1>1, <2>5 DEF Passed, Loading
<1> QED
  BY <1>1, <1>5, <1>11, <1>12, WayWalks

-----------------------------------------------------------------------------
(***************************************************************************)
(* The lists, from the end of the walk to the last variable.               *)
(***************************************************************************)
LEMMA ListDies ==
  ASSUME NEW S, NEW l \in Seq(S)
  PROVE  /\ DiesOf(l) \in Seq({DieOf(v) : v \in S}) /\ Len(DiesOf(l)) = Len(l)
         /\ \A i \in 1 .. Len(l) : DiesOf(l)[i] = DieOf(l[i])
<1> DEFINE U == {DieOf(v) : v \in S}
           x == DiesOf(l)
<1>1. Len(l) \in Nat /\ DOMAIN l = 1 .. Len(l) /\ \A i \in 1 .. Len(l) : l[i] \in S
  OBVIOUS
<1>2. x = [i \in 1 .. Len(l) |-> DieOf(l[i])]
  BY <1>1 DEF DiesOf
<1>3. \A i \in 1 .. Len(l) : DieOf(l[i]) \in U
  BY <1>1
<1> HIDE DEF U, x
<1>4. x \in [1 .. Len(l) -> U]
  BY <1>2, <1>3
<1>5. x \in Seq(U) /\ Len(x) = Len(l)
  BY <1>1, <1>4
<1> QED
  BY <1>2, <1>5 DEF x, U

\* The head of a list of variables is that of their DIEs.
LEMMA HeadDies ==
  ASSUME NEW S, NEW l \in Seq(S), l # <<>>
  PROVE  DiesOf(l) # <<>> /\ Head(DiesOf(l)) = DieOf(Head(l)) /\ DiesOf(Tail(l)) = Tail(DiesOf(l))
<1> DEFINE U == {DieOf(v) : v \in S}
           x == DiesOf(l)
           y == DiesOf(Tail(l))
           n == Len(l)
<1>1. n \in Nat /\ n > 0 /\ Head(l) = l[1]
  OBVIOUS
<1>2. x \in Seq(U) /\ Len(x) = n /\ \A i \in 1 .. n : x[i] = DieOf(l[i])
  BY ListDies
<1>3. Tail(l) \in Seq(S) /\ Len(Tail(l)) = n - 1 /\ \A i \in 1 .. (n - 1) : Tail(l)[i] = l[i + 1]
  BY HeadTailProperties
<1>4. y \in Seq(U) /\ Len(y) = n - 1 /\ \A i \in 1 .. (n - 1) : y[i] = DieOf(Tail(l)[i])
  BY <1>3, ListDies
<1> HIDE DEF U, x, y, n
<1>5. x # <<>> /\ Head(x) = x[1]
  BY <1>1, <1>2
<1>6. Tail(x) \in Seq(U) /\ Len(Tail(x)) = n - 1 /\ \A i \in 1 .. (n - 1) : Tail(x)[i] = x[i + 1]
  BY <1>2, <1>5, HeadTailProperties
<1>7. 1 \in 1 .. n /\ \A i \in 1 .. (n - 1) : i + 1 \in 1 .. n
  BY <1>1
<1>8. \A i \in 1 .. (n - 1) : y[i] = Tail(x)[i]
  BY <1>2, <1>3, <1>4, <1>6, <1>7
<1>9. y = Tail(x)
  BY <1>4, <1>6, <1>8, SeqEqual
<1>10. Head(x) = DieOf(Head(l))
  BY <1>1, <1>2, <1>5, <1>7
<1> QED
  BY <1>5, <1>9, <1>10 DEF x, y

LEMMA ListsInOrder ==
  ASSUME Inv, OwnInv, values = <<>>, {DieOf(v) : v \in Vectors} = Collectable
  PROVE  InOrder(Reported, DiesOf(params), DiesOf(locals), Collectable, Order)
<1> DEFINE H == Handles(N)
           a == Reported
           b == DiesOf(params)
           c == DiesOf(locals)
           m == Len(params)
           n == Len(locals)
<1>1. /\ params \in Seq(H) /\ locals \in Seq(H)
      /\ ListOrder(params, heap, at, N) /\ ListOrder(locals, heap, at, N)
      /\ \A i \in 1 .. m : Unit.die[DieOf(params[i])].tag = "parameter"
      /\ \A i \in 1 .. n : Unit.die[DieOf(locals[i])].tag # "parameter"
  BY DEF Inv, ListInv, OwnInv, Lists
<1>2. Len(b) = m /\ \A i \in 1 .. m : b[i] = DieOf(params[i])
  BY <1>1, ListDies
<1>3. Len(c) = n /\ \A i \in 1 .. n : c[i] = DieOf(locals[i])
  BY <1>1, ListDies
<1>4. a = <<>>
  BY DEF Reported
<1> HIDE DEF a, b, c, m, n, H
<1>5. Elements(b) \cup Elements(c) = Collectable
  <2>1. Elements(b) = {DieOf(v) : v \in Elements(params)}
    BY <1>2 DEF Elements, m
  <2>2. Elements(c) = {DieOf(v) : v \in Elements(locals)}
    BY <1>3 DEF Elements, n
  <2> QED
    BY <2>1, <2>2 DEF Vectors
<1>6. /\ \A i \in 1 .. m : b[i] \in 1 .. N /\ Unit.die[b[i]].tag = "parameter"
      /\ \A i, j \in 1 .. m : i < j => b[i] < b[j]
  BY <1>1, <1>2 DEF ListOrder, m
<1>7. /\ \A i \in 1 .. n : c[i] \in 1 .. N /\ Unit.die[c[i]].tag # "parameter"
      /\ \A i, j \in 1 .. n : i < j => c[i] < c[j]
  BY <1>1, <1>3 DEF ListOrder, n
<1>8. \A i \in 1 .. n : Unit.die[c[i]].tag = "variable"
  <2> TAKE i \in 1 .. n
  <2>1. c[i] \in Collectable
    BY <1>3, <1>5 DEF Elements
  <2> QED
    BY <1>7, <2>1 DEF Collectable, VariableTags
<1>9. \A d, e \in 1 .. N : Listed(d, e) => <<d, e>> \in Order
  BY DEF Order
<1>10. Ascends(b, Order)
  BY <1>2, <1>6, <1>9 DEF Ascends, Listed
<1>11. Ascends(c, Order)
  BY <1>3, <1>7, <1>8, <1>9 DEF Ascends, Listed
<1>12. Precedes(b, c, Order)
  <2> SUFFICES ASSUME NEW i \in 1 .. m, NEW j \in 1 .. n PROVE <<b[i], c[j]>> \in Order
    BY <1>2, <1>3 DEF Precedes, Elements
  <2> QED
    BY <1>6, <1>7, <1>9 DEF Listed
<1>13. Ascends(a, Order) /\ Elements(a) = {}
  BY <1>4, NoElements
<1> QED
  BY <1>5, <1>10, <1>11, <1>12, <1>13 DEF InOrder, Precedes, a, b, c

LEMMA EndGathers ==
  ASSUME OnItsWay, NextSibling, ~HasSibling(Unit, CurDie), Leave, Len(walk) = 1
  PROVE  GatherInv'
<1>1. /\ UNCHANGED <<job, at, func, params, locals, values>> /\ pc = "sibling" /\ pc \in InWalk
      /\ pc' = "print"
  BY DEF NextSibling, cmd, place, lists, InWalk, Leave
<1>2. Inv /\ OwnInv /\ Standing /\ Gathered
  BY WayGives
<1>3. /\ job \in Jobs /\ func \in 1 .. N /\ CurDie = Outer
  BY <1>1, <1>2, Where
<1>4. Outer \in Level(Unit, func)
  BY <1>2 DEF Standing
<1>5. ASSUME NEW d \in Collectable PROVE VarAt(d) \in Vectors
  <2>1. d \in Walked(Unit, func)
    BY <1>3, CollectableIs
  <2>2. d <= Unit.last[CurDie]
    BY <1>3, <1>4, <2>1, NoneBeyond
  <2>3. Passed(d)
    BY <1>1, <2>2 DEF Passed, Loading
  <2> QED
    BY <1>2, <2>3 DEF Gathered
<1>6. {DieOf(v) : v \in Vectors} = Collectable
  BY <1>2, <1>5, Objects DEF Gathered
<1>7. InOrder(Reported, DiesOf(params), DiesOf(locals), Collectable, Order)
  BY <1>2, <1>6, ListsInOrder DEF Gathered
<1>8. Reported' = Reported /\ params' = params /\ locals' = locals
  BY <1>1 DEF Reported
<1>9. Collectable' = Collectable /\ Order' = Order
  BY <1>1, UnitSame
<1> DEFINE C == Collectable
           R == Order
<1>10. C' = C /\ R' = R
  BY <1>9
<1>11. InOrder(Reported', DiesOf(params'), DiesOf(locals'), C, R)
  BY <1>7, <1>8
<1>12. pc' \notin InWalk /\ pc' \notin {"name", "sizes"}
  BY <1>1 DEF InWalk
<1> HIDE DEF C, R
<1> SUFFICES InOrder(Reported', DiesOf(params'), DiesOf(locals'), C', R')
  BY <1>12 DEF GatherInv, InOrder, Ascends, Precedes, Elements, DiesOf, C, R
<1> QED
  BY <1>10, <1>11

LEMMA SiblingGathers ==
  ASSUME OnItsWay, NextSibling
  PROVE  GatherInv'
<1> DEFINE h == Object("sibling", Sibling(Unit, CurDie), 0)
<1>1. ~job.libFails /\ Standing
  BY WayGives
<1>2. \/ HasSibling(Unit, CurDie) /\ MoveTo(h)
      \/ ~HasSibling(Unit, CurDie) /\ Leave
  BY <1>1 DEF NextSibling
<1>3. Len(walk) = 1 \/ Len(walk) = 2
  BY <1>1 DEF Standing
<1> QED
  BY <1>2, <1>3, OverGathers, UpGathers, EndGathers

LEMMA ReportedDies ==
  ASSUME Inv, SceneInv
  PROVE  \E U : Reported \in Seq(U) /\ DiesOf(params) \in Seq(U) /\ DiesOf(locals) \in Seq(U)
<1> DEFINE H == Handles(N)
           a == Reported
           b == DiesOf(params)
           c == DiesOf(locals)
           V == {DieOf(values[i].var) : i \in 1 .. Len(values)}
           D == {DieOf(v) : v \in H}
           U == V \cup D
<1>1. params \in Seq(H) /\ locals \in Seq(H)
  BY DEF Inv, ListInv
<1>2. b \in Seq(D) /\ c \in Seq(D)
  BY <1>1, ListDies
<1>3. DOMAIN values = 1 .. Len(values) /\ Len(values) \in Nat
  BY DEF SceneInv
<1>4. a = [i \in 1 .. Len(values) |-> DieOf(values[i].var)]
  BY <1>3 DEF Reported
<1>5. a \in Seq(V)
  BY <1>3, <1>4
<1> HIDE DEF a, b, c, V, D
<1>6. a \in Seq(U) /\ b \in Seq(U) /\ c \in Seq(U)
  BY <1>2, <1>5
<1> QED
  BY <1>6 DEF a, b, c

\* A list is printed from its head on: nothing is lost, nothing changes places.
LEMMA PrintGathers ==
  ASSUME Inv, GatherInv, SceneInv, PrintParam \/ PrintLocal
  PROVE  GatherInv'
<1> DEFINE H == Handles(N)
           b == DiesOf(params)
           c == DiesOf(locals)
           R == Order
           C == Collectable
<1>1. /\ UNCHANGED <<job, func, opts, pc>> /\ pc = "print"
  BY DEF PrintParam, PrintLocal, PrintVar, cmd, place
<1>2. C' = C /\ R' = R
  BY <1>1, UnitSame
<1>3. params \in Seq(H) /\ locals \in Seq(H)
  BY DEF Inv, ListInv
<1> SUFFICES ASSUME ~job.libFails, opts \cap {"locals", "params"} # {}
             PROVE  InOrder(Reported', DiesOf(params'), DiesOf(locals'), C, R)
  BY <1>1, <1>2 DEF GatherInv, InWalk, InOrder, Ascends, Precedes, Elements, DiesOf
<1>4. InOrder(Reported, b, c, C, R)
  BY <1>1 DEF GatherInv
<1>5. PICK S : values \in Seq(S)
  BY DEF SceneInv
<1>6. ASSUME NEW v, PrintVar(v) PROVE Reported' = Append(Reported, DieOf(v))
  <2> DEFINE e == [var |-> v, value |-> ValueOf(v)]
             n == Len(values)
  <2>1. values' = Append(values, e) /\ e.var = v
    BY <1>6 DEF PrintVar
  <2> HIDE DEF e
  <2>2. n \in Nat /\ Len(values') = n + 1 /\ values'[n + 1] = e /\ \A i \in 1 .. n : values'[i] = values[i]
    BY <1>5, <2>1, AppendSeq
  <2>3. \E T : values' \in Seq(T)
    BY <1>5, <2>1, AppendedSeq
  <2>4. DOMAIN values = 1 .. n /\ DOMAIN values' = 1 .. (n + 1)
    BY <1>5, <2>2, <2>3
  <2> HIDE DEF n
  <2>5. Reported = [i \in 1 .. n |-> DieOf(values[i].var)] /\ Reported' = [i \in 1 .. (n + 1) |-> DieOf(values'[i].var)]
    BY <2>4 DEF Reported
  <2> DEFINE U == {DieOf(values[i].var) : i \in 1 .. n}
             x == Reported
             y == Reported'
             f == DieOf(v)
  <2>6. /\ x \in Seq(U) /\ Len(x) = n /\ \A i \in 1 .. n : x[i] = DieOf(values[i].var)
    BY <2>2, <2>5
  <2>7. \A i \in 1 .. n : i \in 1 .. (n + 1)
    BY <2>2
  <2>8. \A i \in 1 .. (n + 1) : i \in 1 .. n \/ i = n + 1
    BY <2>2
  <2>9. y = [i \in 1 .. (n + 1) |-> IF i = n + 1 THEN f ELSE x[i]]
    BY <2>1, <2>2, <2>5, <2>6, <2>7, <2>8
  <2> HIDE DEF U, x, y, f
  <2>10. y = Append(x, f)
    BY <2>2, <2>6, <2>9
  <2> QED
    BY <2>10 DEF x, y, f
<1>7. \E U : Reported \in Seq(U) /\ b \in Seq(U) /\ c \in Seq(U)
  BY ReportedDies
<1>8. PICK U : Reported \in Seq(U) /\ b \in Seq(U) /\ c \in Seq(U)
  BY <1>7
<1>9. CASE PrintParam
  <2>1. params # <<>> /\ params' = Tail(params) /\ locals' = locals /\ PrintVar(Head(params))
    BY <1>9 DEF PrintParam
  <2>2. b # <<>> /\ Head(b) = DieOf(Head(params)) /\ DiesOf(params') = Tail(b)
    BY <1>3, <2>1, HeadDies
  <2>3. Reported' = Append(Reported, Head(b))
    BY <1>6, <2>1, <2>2
  <2>4. InOrder(Append(Reported, Head(b)), Tail(b), c, C, R)
    <3> HIDE DEF b, c, C, R
    <3> QED
      BY <1>4, <1>8, <2>2, FirstMoves
  <2> QED
    BY <2>1, <2>2, <2>3, <2>4
<1>10. CASE PrintLocal
  <2>1. params = <<>> /\ locals # <<>> /\ locals' = Tail(locals) /\ params' = params /\ PrintVar(Head(locals))
    BY <1>10 DEF PrintLocal
  <2>2. c # <<>> /\ Head(c) = DieOf(Head(locals)) /\ DiesOf(locals') = Tail(c)
    BY <1>3, <2>1, HeadDies
  <2>3. Reported' = Append(Reported, Head(c))
    BY <1>6, <2>1, <2>2
  <2>4. b = <<>>
    BY <2>1 DEF DiesOf
  <2>5. InOrder(Append(Reported, Head(c)), b, Tail(c), C, R)
    <3> HIDE DEF b, c, C, R
    <3> QED
      BY <1>4, <1>8, <2>2, <2>4, LastMoves
  <2> QED
    BY <2>1, <2>2, <2>3, <2>5
<1> QED
  BY <1>9, <1>10

-----------------------------------------------------------------------------
(***************************************************************************)
(* The other steps of an address.                                          *)
(***************************************************************************)
LEMMA SizesGathers ==
  ASSUME Inv, OwnInv, GatherInv, Sizes
  PROVE  GatherInv'
<1>1. UNCHANGED <<job, at, func, opts, params, locals, values>> /\ pc = "sizes"
  BY DEF Sizes, cmd, place, lists
<1>2. job \in Jobs /\ func \in 1 .. N
  BY <1>1 DEF Inv, PlaceInv, Reporting
<1>3. \/ pc' = "search"
      \/ pc' = "finish" /\ opts \cap {"locals", "params"} = {}
      \/ pc' = "visit" /\ walk' = <<[die |-> Func, cur |-> Func, level |-> 0]>>
  BY DEF Sizes
<1>4. CASE pc' = "search" \/ (pc' = "finish" /\ opts \cap {"locals", "params"} = {})
  BY <1>1, <1>4 DEF GatherInv, InWalk
<1>5. ASSUME ~job.libFails, pc' = "visit", walk' = <<[die |-> Func, cur |-> Func, level |-> 0]>>
      PROVE  GatherInv'
  <2>1. values = <<>>
    BY <1>1, <1>5 DEF GatherInv
  <2>2. params = <<>> /\ locals = <<>>
    BY <1>1 DEF OwnInv, Lists, InWalk
  <2>3. Vectors' = {}
    BY <1>1, <2>2, Empty DEF Vectors, Elements
  <2>4. Len(walk') = 1 /\ walk'[1].level = 0 /\ walk'[1].cur = Func
    BY <1>5
  <2>5. DieOf(Func) = func
    BY DEF Func, Object, DieOf
  <2>6. Outer' = func /\ CurDie' = func
    BY <2>4, <2>5 DEF Outer, CurDie, Here, Last
  <2>7. Bearing' = Bearing /\ Level(Unit, func)' = Level(Unit, func) /\ Collectable' = Collectable
    BY <1>1, UnitSame
  <2>8. func \in Level(Unit, func) /\ \A x \in Bearing : func <= x
    BY <1>2, LevelIs
  <2>9. Standing'
    BY <1>5, <2>4, <2>6, <2>7, <2>8 DEF Standing
  <2>10. ASSUME NEW d \in Collectable, Passed(d)' PROVE FALSE
    <3>1. d \in 1 .. N /\ func <= d
      BY <1>2, CollectableIs
    <3>2. d < func
      BY <1>5, <2>6, <2>10 DEF Passed
    <3> QED
      BY <1>2, <3>1, <3>2, UnitShape
  <2>11. Gathered'
    BY <1>1, <2>1, <2>3, <2>7, <2>10 DEF Gathered
  <2>12. Promising'
    BY <1>5 DEF Promising, Loading, Typing
  <2> QED
    BY <1>5, <2>9, <2>11, <2>12 DEF GatherInv
<1>6. CASE job.libFails
  BY <1>1, <1>6 DEF GatherInv
<1> QED
  BY <1>3, <1>4, <1>5, <1>6

LEMMA SameGathers ==
  ASSUME GatherInv, UNCHANGED <<job, at, func, opts, pc, walk, types, ret, params, locals, values>>
  PROVE  GatherInv'
<1>1. /\ Unit' = Unit /\ Bearing' = Bearing /\ Level(Unit, func)' = Level(Unit, func)
      /\ Collectable' = Collectable /\ Order' = Order
  BY UnitSame
<1>2. /\ Outer' = Outer /\ CurDie' = CurDie /\ Vectors' = Vectors /\ Reported' = Reported
      /\ \A d : VarAt(d)' = VarAt(d)
  BY Same DEF Outer, CurDie, Here, Vectors, Reported
<1>3. Standing => Standing'
  BY <1>1, <1>2 DEF Standing
<1>4. \A d : Passed(d)' <=> Passed(d)
  BY <1>1, <1>2 DEF Passed
<1>5. Gathered => Gathered'
  BY <1>1, <1>2, <1>4 DEF Gathered
<1>6. Promising => Promising'
  BY <1>1, <1>2 DEF Promising, CurType
<1> DEFINE C == Collectable
           R == Order
<1>7. C' = C /\ R' = R
  BY <1>1
<1>8. InOrder(Reported, DiesOf(params), DiesOf(locals), C, R)
        => InOrder(Reported', DiesOf(params'), DiesOf(locals'), C', R')
  <2> HIDE DEF C, R
  <2> QED
    BY <1>2, <1>7
<1> HIDE DEF C, R
<1> QED
  BY <1>3, <1>5, <1>6, <1>8
     DEF GatherInv, InOrder, Ascends, Precedes, Elements, DiesOf, C, R

LEMMA LastVarGathers ==
  ASSUME GatherInv, EndOfVars
  PROVE  GatherInv'
<1>1. UNCHANGED <<job, func, opts, params, locals, values>> /\ pc = "print" /\ pc' = "finish"
  BY DEF EndOfVars, UnchangedReport, cmd, place, lists
<1>2. Collectable' = Collectable /\ Order' = Order
  BY <1>1, UnitSame
<1>3. Reported' = Reported
  BY <1>1 DEF Reported
<1>4. pc' \notin InWalk /\ pc' \notin {"name", "sizes"}
  BY <1>1 DEF InWalk
<1> DEFINE C == Collectable
           R == Order
<1>5. C' = C /\ R' = R
  BY <1>2
<1> SUFFICES ASSUME ~job.libFails, opts \cap {"locals", "params"} # {}
             PROVE  InOrder(Reported', DiesOf(params'), DiesOf(locals'), C', R')
  BY <1>1, <1>4 DEF GatherInv, InOrder, Ascends, Precedes, Elements, DiesOf, C, R
<1>6. InOrder(Reported, DiesOf(params), DiesOf(locals), C, R)
  BY <1>1 DEF GatherInv, C, R
<1> HIDE DEF C, R
<1> QED
  BY <1>1, <1>3, <1>5, <1>6

LEMMA WalkGathers ==
  ASSUME Inv, OwnInv, LoadInv, GatherInv,
         \/ Visit \/ Child \/ NextSibling \/ LoadVar \/ LoadType \/ TypeReturns \/ LoadLocation \/ DropVar
  PROVE  GatherInv'
<1>1. pc \in InWalk /\ job' = job
  BY DEF Visit, Child, NextSibling, LoadVar, LoadType, TypeReturns, LoadLocation, DropVar, InWalk, cmd
<1>2. CASE job.libFails
  BY <1>1, <1>2 DEF GatherInv
<1>3. CASE ~job.libFails
  <2>1. OnItsWay
    BY <1>1, <1>3 DEF OnItsWay
  <2> QED
    BY <2>1, VisitGathers, ChildGathers, SiblingGathers, LoadVarGathers, LoadTypeGathers,
       TypeReturnsGathers, LocationGathers, DropGathers
<1> QED
  BY <1>2, <1>3

LEMMA OutsideGathers ==
  ASSUME pc' \notin InWalk \cup {"name", "sizes", "print", "finish"}
  PROVE  GatherInv'
BY DEF GatherInv

LEMMA NextGather ==
  ASSUME Inv, OwnInv, LoadInv, SceneInv, GatherInv, [SceneNext]_sceneVars
  PROVE  GatherInv'
<1>1. CASE UNCHANGED vars
  BY <1>1, SameGathers DEF vars, cmd, place, loading, lists
<1>2. CASE Serve \/ Abort
  <2>1. pc' \in {"search", "aborted"}
    BY <1>2 DEF Serve, LoadContext, Abort
  <2> QED
    BY <2>1, OutsideGathers DEF InWalk
<1>3. CASE Step
  <2>1. CASE \/ Visit \/ Child \/ NextSibling \/ LoadVar \/ LoadType \/ TypeReturns \/ LoadLocation \/ DropVar
    BY <2>1, WalkGathers
  <2>2. CASE PrintParam \/ PrintLocal
    BY <2>2, PrintGathers
  <2>3. CASE Sizes \/ EndOfVars
    BY <2>3, SizesGathers, LastVarGathers
  <2>4. CASE Search
    <3>1. pc' \in {"search", "name", "sizes"} /\ values' = <<>>
      BY <2>4 DEF Search
    <3> QED
      BY <3>1 DEF GatherInv, InWalk
  <2>5. CASE NameOf
    <3>1. pc = "name" /\ pc' \in {"name", "sizes"} /\ values' = values /\ job' = job
      BY <2>5 DEF NameOf, cmd
    <3> QED
      BY <3>1 DEF GatherInv, InWalk
  <2>6. CASE ParseOption \/ ParseAddress \/ Help \/ EndOfArgs \/ Open \/ EndOfAddresses \/ PrintOutside \/ Finish
    <3>1. pc' \in {"args", "undefined", "aborted", "exit", "open", "context", "search"}
      BY <2>6 DEF ParseOption, ParseAddress, Parsing, Help, EndOfArgs, Open, EndOfAddresses, PrintOutside, Finish
    <3> QED
      BY <3>1, OutsideGathers DEF InWalk
  <2> QED
    BY <1>3, <2>1, <2>2, <2>3, <2>4, <2>5, <2>6 DEF Step
<1> QED
  BY <1>1, <1>2, <1>3 DEF SceneNext, Main, File, sceneVars

LEMMA GatheredAll == Inv /\ SceneInv /\ GatherInv => VariablesOfWalk
<1> DEFINE a == Reported
           b == DiesOf(params)
           c == DiesOf(locals)
           all == a \o b \o c
           R == Order
<1> SUFFICES ASSUME Inv, SceneInv, GatherInv, ~job.libFails, pc \in {"print", "finish"},
                    opts \cap {"locals", "params"} # {}
             PROVE  ToSet(all) = Collectable /\ \A i, j \in DOMAIN all : i < j => Listed(all[i], all[j])
  BY DEF VariablesOfWalk, Reported
<1>1. InOrder(a, b, c, Collectable, R)
  BY DEF GatherInv
<1>2. \E U : a \in Seq(U) /\ b \in Seq(U) /\ c \in Seq(U)
  BY ReportedDies
<1>3. PICK U : a \in Seq(U) /\ b \in Seq(U) /\ c \in Seq(U)
  BY <1>2
<1>4. ToSet(all) = Collectable /\ \A i, j \in DOMAIN all : i < j => <<all[i], all[j]>> \in R
  <2> HIDE DEF a, b, c, R
  <2> QED
    BY <1>1, <1>3, AllInOrder
<1>5. \A d, e : <<d, e>> \in R => Listed(d, e)
  BY DEF Order
<1> QED
  <2> HIDE DEF R, all
  <2> QED
    BY <1>4, <1>5

Walks == Ownership /\ Served /\ LoadInv /\ SceneInv /\ GatherInv

LEMMA WalkStarts == SceneInit => Walks
<1> SUFFICES ASSUME SceneInit PROVE Walks
  OBVIOUS
<1>1. pc = "args"
  BY DEF SceneInit, Init
<1>2. GatherInv
  BY <1>1 DEF GatherInv, InWalk
<1> QED
  BY <1>2, SceneStarts, AnswersInit DEF Walks, Scene, Answers

LEMMA WalkGoesOn ==
  ASSUME Walks, [SceneNext]_sceneVars
  PROVE  Walks'
BY NextInv, NextOwns, ServedKept, NextLoad, NextScene, NextGather DEF Walks, Ownership

\* Where libdwarf does not fail, the report of an address lists every variable
\* with a name and a type that loads among the DIEs the walk is due to visit,
\* each once and none besides, parameters first and in the order of their
\* offsets, whichever of them have been printed - although the level of walkDIE
\* stays raised behind the first DIE with children (dwarf_utils.cpp:474-520).
THEOREM WalkCollects == SceneSpec => []VariablesOfWalk
<1>1. Walks => VariablesOfWalk
  BY GatheredAll DEF Walks, Ownership
<1>2. Walks /\ [SceneNext]_sceneVars => Walks'
  BY WalkGoesOn
<1> QED
  BY <1>1, <1>2, WalkStarts, PTL DEF SceneSpec
=============================================================================
