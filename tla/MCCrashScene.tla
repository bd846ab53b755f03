----------------------------- MODULE MCCrashScene -----------------------------
(***************************************************************************)
(* Incidents for CrashScene.  Jobs: every tree of five DIEs whose          *)
(* functions, parameters and variables stand anywhere; one variable of     *)
(* each type and location; names behind specifications; command lines;     *)
(* failing library calls.  Scenes: no, one and two threads, with registers *)
(* and stack or without, full and short rows, limits, cut files.           *)
(***************************************************************************)
EXTENDS CrashScene, MCShapes

Constant(n) == [class |-> "constant", value |-> n]
NoAttr == [class |-> "absent", value |-> 0]
TypeDie(tag, base, bits, bytes) == [tag |-> tag, base |-> base, bits |-> bits, bytes |-> bytes]
Wrap(tag, base) == TypeDie(tag, base, NoAttr, NoAttr)

\* int, a bit field, a declared structure, a structure of 16 bytes; then chains
\* of them, some of which do not load; last a structure with which the sums of
\* the memory provider wrap.
Types ==
  <<TypeDie("base", 0, NoAttr, Constant(4)), TypeDie("base", 0, Constant(12), Constant(2)),
    TypeDie("structure", 0, NoAttr, NoAttr), TypeDie("class", 0, NoAttr, Constant(16)),
    TypeDie("enumeration", 0, NoAttr, [class |-> "other", value |-> 4]),
    TypeDie("other", 1, NoAttr, Constant(12)),
    Wrap("typedef", 1), Wrap("const", 1), Wrap("pointer", 3), Wrap("pointer", 0),
    Wrap("typedef", 7), Wrap("typedef", 8), Wrap("typedef", 6), Wrap("const", 13), Wrap("typedef", 3),
    TypeDie("structure", 0, NoAttr, Constant(MaxSize - 13))>>

Die(tag, names, type, loc) == [tag |-> tag, names |-> names, spec |-> NoDie, type |-> type, loc |-> loc]
Loc(form, result, addr) == [form |-> form, result |-> result, addr |-> addr]

NoLoc == Loc("none", "invalid", 0)
Root == Die("cu", {"name"}, 0, NoLoc)
Function == Die("function", {"name"}, 0, Loc("exprloc", "address", 0))
Parameter == Die("parameter", {"name"}, 7, Loc("exprloc", "address", 16))
Variable == Die("variable", {"name"}, 1, NoLoc)
Nameless == Die("variable", {}, 1, NoLoc)
Block == Die("other", {}, 0, NoLoc)

UnitOf(shape, die) == [last |-> shape.last, parent |-> shape.parent, die |-> die, types |-> Types]

Units(n, forms) ==
  {UnitOf(s, <<Root>> \o f) : s \in {s \in Shapes(n) : s.last[1] = n}, f \in [1 .. (n - 1) -> forms]}

Job(argv, unit, fails) == [argv |-> argv, unit |-> unit, libFails |-> fails]

ShowAll == <<"-e", "word", "-c", "word", "hex">>

ShowTree == <<"-e", "word", "-l", "-p", "hex">>

TreeJobs ==
  {Job(ShowTree, u, FALSE) : u \in Units(5, {Function, Parameter, Variable, Block})}

\* One function with one variable.
Locations ==
  {NoLoc, Loc("other", "value", 0), Loc("exprloc", "value", 0), Loc("loclistx", "invalid", 0)}
    \cup {Loc("sec_offset", "address", a) : a \in {0, 8, 16, 30, 36, 38, 40, MaxSize - 13}}

VariableUnit(die) == UnitOf([last |-> <<3, 3, 3>>, parent |-> <<0, 1, 2>>], <<Root, Function, die>>)

VariableJobs ==
  {Job(ShowAll, VariableUnit(Die("variable", {"name"}, t, loc)), FALSE) :
     t \in 0 .. Len(Types), loc \in Locations}
    \cup {Job(ShowAll, VariableUnit(Die(tag, names, 1, NoLoc)), FALSE) :
            tag \in {"parameter", "variable"}, names \in {{}, {"linkage"}, {"name", "linkage"}}}

\* Three functions, each with names and a specification among the earlier ones.
NameSets == {{}, {"name"}, {"HP", "name"}, {"MIPS", "HP"}, {"linkage", "name"}}

NamedUnits ==
  {UnitOf([last |-> <<4, 2, 3, 4>>, parent |-> <<0, 1, 1, 1>>],
          <<Root>> \o [k \in 1 .. 3 |-> [Function EXCEPT !.names = names[k], !.spec = spec[k]]]) :
     names \in [1 .. 3 -> NameSets], spec \in {0} \X {0, 2} \X {0, 2, 3}}

NameJobs ==
  {Job(<<"-e", "word", "-f", "hex">>, u, FALSE) : u \in NamedUnits}
    \cup {Job(<<"-e", "word", "-f", "hex">>, u, TRUE) : u \in {u \in NamedUnits : u.die[4].spec = 3}}

FailingJobs ==
  {Job(ShowTree, u, TRUE) : u \in Units(4, {Function, [Parameter EXCEPT !.type = 11], Variable})}

CommandLines ==
  {<<>>, <<"-h">>, <<"-e">>, <<"-e", "word">>, <<"hex", "-e", "word">>, <<"-l", "-c">>, <<"-v", "word">>,
   <<"-e", "-l", "hex">>, <<"-e", "word", "-F", "-C", "hex", "hex">>, <<"-e", "word", "-l", "hex", "hex">>,
   <<"-e", "word", "-p", "-f", "hex", "hex">>}

CommandJobs ==
  {Job(argv, UnitOf([last |-> <<4, 3, 3, 4>>, parent |-> <<0, 1, 2, 1>>],
                    <<Root, Function, Parameter, Function>>), fails) :
     argv \in CommandLines, fails \in BOOLEAN}

AllJobs == TreeJobs \cup VariableJobs \cup NameJobs \cup FailingJobs \cup CommandJobs

-----------------------------------------------------------------------------

\* TLC evaluates AllJobs once.
MCJobs == AllJobs

MCRowBytes == 4
MCUnset == {0, 1, Huge}

Frame(num, fn, regs, base, stack, tail) ==
  [num |-> num, func |-> fn, regs |-> regs, base |-> base, stack |-> stack, tail |-> tail]
Thread(tid, crashed, frames) == [tid |-> tid, crashed |-> crashed, frames |-> frames]
Scene(crashes, limit, mayCut) == [threads |-> crashes, limit |-> limit, mayCut |-> mayCut]

Bytes(n, from) == [k \in 1 .. n |-> from + k]

\* The frame that VariableJobs look into: 24 bytes at 16.
Innermost == Frame(0, <<"f">>, <<7, 9, 11>>, 16, Bytes(24, 100), <<>>)
Caller == Frame(1, <<"main">>, <<8>>, 40, Bytes(4, 200), <<>>)
NoStack == Frame(1, <<"start">>, <<>>, 0, <<>>, <<>>)
\* Its end wraps when its stack has 24 bytes, and so do requests near the end of
\* one of 20.
High(n) == Frame(0, <<"f">>, <<7>>, MaxSize - 23, Bytes(n, 100), <<>>)
\* 22 bytes: the last row is short.
Short(tail) == Frame(0, <<"f">>, <<7, 9>>, 16, Bytes(22, 100), tail)

PlainScene == Scene(<<Thread(1, TRUE, <<Innermost>>)>>, -1, FALSE)

Tails == {<<>>, <<NotHex>>, <<7>>, <<NotHex, 7>>, <<7, 0, 11>>, <<300>>, <<7, 0, 300>>}

TestScenes ==
  {Scene(<<>>, -1, TRUE), Scene(<<Thread(1, FALSE, <<>>)>>, -1, TRUE),
   Scene(<<Thread(1, FALSE, <<>>), Thread(2, TRUE, <<Innermost>>)>>, -1, FALSE),
   Scene(<<Thread(1, FALSE, <<Innermost>>)>>, -1, TRUE),
   Scene(<<Thread(1, FALSE, <<Caller, NoStack>>), Thread(2, TRUE, <<NoStack>>)>>, -1, TRUE)}
    \cup {Scene(<<Thread(1, FALSE, <<Caller, NoStack, Innermost>>), Thread(2, TRUE, <<Short(<<7>>), Caller>>)>>,
                limit, FALSE) : limit \in {-1, 0, 1, 2, 3}}
    \cup {Scene(<<Thread(1, TRUE, <<High(n)>>)>>, -1, FALSE) : n \in {20, 24}}
    \cup {Scene(<<Thread(1, TRUE, <<Short(tail), Caller>>)>>, -1, FALSE) : tail \in Tails}

MCScenes == {PlainScene} \cup TestScenes

\* What shows the memory of a frame: an int at 38 and one at 36; near the end of
\* the address space an int, and 16 bytes that run over that end.
SceneJobs ==
  {j \in VariableJobs : /\ j.unit.die[3].type \in {1, 4}
                        /\ j.unit.die[3].loc.addr \in {36, 38, MaxSize - 13}}

AllIncidents ==
  {[job |-> j, scene |-> PlainScene] : j \in AllJobs}
    \cup {[job |-> j, scene |-> s] : j \in SceneJobs, s \in TestScenes}

\* TLC evaluates AllIncidents once.
MCIncidents == AllIncidents

\* The hypothesis of the theorem about ReadsOwnStorage.
ASSUME MCTypesFit == \A j \in Jobs : BitsFit(j.unit)
=============================================================================
