-------------------------------- MODULE Report --------------------------------
(***************************************************************************)
(* main of dwarf2line, apart from the search itself (DwarfSearcher), the   *)
(* line (LineTable) and the evaluation of locations (VarLocation): the     *)
(* options, and for every address that is found the name of the function,  *)
(* the walk over its DIEs, the loading of the variables the walk meets,    *)
(* their values, and the release of everything on the way.                 *)
(*                                                                         *)
(* A job is one call of the program, [argv, unit, libFails]: the words of  *)
(* its command line, the CU every address lies in, and whether calls of    *)
(* libdwarf may fail.  A word is an option, "hex" (a number) or "word".    *)
(*                                                                         *)
(* Objects are named <<address, role, die, k>>, by the address of the      *)
(* command line at which they were made and by where they came from.       *)
(* live holds the open DIE handles: those the searcher handed out ("cu",   *)
(* "func"), those of the walk ("child", "sibling"), those of names ("ref") *)
(* and those that a DwarfVar or DwarfType owns, which have its name        *)
(* ("var", "type").  heap holds the objects made with new: "var", the k-th *)
(* "type" of the chain of its variable, "location", and "frame base".      *)
(***************************************************************************)
EXTENDS Variables, SequencesExt, FiniteSets

CONSTANT Jobs    \* the jobs above

ASSUME ReportAssumption ==
  \A j \in Jobs : /\ WellFormedUnit(j.unit)
                  /\ j.argv \in Seq({"-e", "-c", "-F", "-l", "-p", "-f", "-C", "-v", "-h", "hex", "word"})
                  /\ j.libFails \in BOOLEAN

\* The stack memory of a frame, as it is served to the evaluation of values.
ServedFrames == [base: Nat, stack: Seq(0 .. 255)]

VARIABLES
  job,
  pc,        \* the statement of main, of walkDIE or of DwarfVar::load to run next
  arg,       \* argv[i] of the loop over the command line
  opts,      \* the flags that are set
  addresses, \* how many addresses the command line has
  context,   \* the frame gDwarfContext serves; empty while that is null
  at,        \* the number of the address in work
  func,      \* the function found for it
  refs,      \* activations of getFunctionName, each with the DIE it looks at
  name,      \* the name that was printed: attribute and DIE, or NoName
  walk,      \* activations of walkDIE: handles die and cur, and cur_lv
  types,     \* activations of DwarfType::load, each with its type
  ret,       \* what the last of them returned
  linked,    \* types whose base_type_ is set
  params, locals,   \* the vectors of that name, as objects
  live, heap,
  values     \* what was printed of variables of this address

cmd == <<job, arg, opts, addresses, context>>
place == <<at, func>>
naming == <<refs, name>>
loading == <<types, ret, linked>>
lists == <<params, locals>>
vars == <<cmd, pc, place, naming, walk, loading, lists, live, heap, values>>

Unit == job.unit
NoName == <<"none", NoDie>>

Object(role, d, k) == <<at, role, d, k>>
Role(o) == o[2]
DieOf(o) == o[3]

Cu == Object("cu", 1, 0)
Func == Object("func", func, 0)

Here == Last(walk)              \* the running activation of walkDIE
CurDie == DieOf(Here.cur)
Var == Object("var", CurDie, 0)          \* the DwarfVar of the DIE under the walk
Type(k) == Object("type", CurDie, k)     \* the k-th type of its chain

VariableTags == {"parameter", "variable"}

Functions(unit) == {d \in Dies(unit) : unit.die[d].tag = "function"}

\* A call of libdwarf whose success is `there` in a section without errors.
Call(there, ok) == ok \in (IF job.libFails THEN {there, FALSE} ELSE {there})

Init ==
  /\ job \in Jobs
  /\ pc = "args" /\ arg = 1 /\ opts = {} /\ addresses = 0 /\ context = {}
  /\ at = 0 /\ func = NoDie /\ refs = <<>> /\ name = NoName
  /\ walk = <<>> /\ types = <<>> /\ ret = FALSE /\ linked = {}
  /\ params = <<>> /\ locals = <<>> /\ live = {} /\ heap = {} /\ values = <<>>

-----------------------------------------------------------------------------
(***************************************************************************)
(* The command line.                                                       *)
(***************************************************************************)
FlagsOf ==
  [w \in {"-e", "-c", "-F", "-l", "-p", "-f", "-C", "-v"} |->
     CASE w = "-e" -> {"input"}
       [] w = "-c" -> {"eval", "locals", "params"}
       [] w = "-F" -> {"frames"}
       [] w = "-l" -> {"locals"}
       [] w = "-p" -> {"params"}
       [] w = "-f" -> {"functions"}
       [] w = "-C" -> {"demangle"}
       [] w = "-v" -> {"debug"}]

\* The options with a value: without one the null pointer behind the last
\* argument is assigned to a string.
Valued == {"-e", "-c"}

Parsing == pc = "args" /\ arg <= Len(job.argv)
Word == job.argv[arg]
UnchangedReport == UNCHANGED <<place, naming, walk, loading, lists, live, heap, values>>

ParseOption ==
  /\ Parsing /\ Word \in DOMAIN FlagsOf
  /\ IF Word \in Valued /\ arg = Len(job.argv)
     THEN pc' = "undefined" /\ UNCHANGED <<arg, opts>>
     ELSE /\ opts' = opts \cup FlagsOf[Word]
          /\ arg' = arg + (IF Word \in Valued THEN 2 ELSE 1)
          /\ UNCHANGED pc
  /\ UNCHANGED <<job, addresses, context>> /\ UnchangedReport

\* Anything that is no option is an address; std::stoul throws on other words.
ParseAddress ==
  /\ Parsing /\ Word \in {"hex", "word"}
  /\ IF Word = "hex" THEN addresses' = addresses + 1 /\ arg' = arg + 1 /\ UNCHANGED pc
     ELSE pc' = "aborted" /\ UNCHANGED <<arg, addresses>>
  /\ UNCHANGED <<job, opts, context>> /\ UnchangedReport

Help ==
  /\ Parsing /\ Word = "-h"
  /\ pc' = "exit"
  /\ UNCHANGED cmd /\ UnchangedReport

EndOfArgs ==
  /\ pc = "args" /\ arg > Len(job.argv)
  /\ pc' = IF "input" \in opts /\ addresses > 0 THEN "open" ELSE "exit"
  /\ UNCHANGED cmd /\ UnchangedReport

\* dwarf_init_path, then the context file: what does not load is left out.
Open ==
  /\ pc = "open"
  /\ \E ok \in BOOLEAN :
       /\ Call(TRUE, ok)
       /\ pc' = IF ~ok THEN "exit" ELSE IF "eval" \in opts THEN "context" ELSE "search"
  /\ UNCHANGED cmd /\ UnchangedReport

\* The file is not loaded, or serves the first frame of its first thread.
LoadContext ==
  /\ pc = "context"
  /\ context' \in SUBSET ServedFrames /\ Cardinality(context') <= 1
  /\ pc' = "search"
  /\ UNCHANGED <<job, arg, opts, addresses>> /\ UnchangedReport

-----------------------------------------------------------------------------
(***************************************************************************)
(* One address.                                                            *)
(***************************************************************************)
\* searchFunction hands out the handles of a CU and of a function in it.
Search ==
  /\ pc = "search" /\ at < addresses
  /\ at' = at + 1
  /\ func' \in Functions(Unit) \cup {NoDie}
  /\ IF func' = NoDie THEN pc' = "search" /\ UNCHANGED live
     ELSE /\ live' = live \cup {<<at', "cu", 1, 0>>, <<at', "func", func', 0>>}
          /\ pc' = IF "functions" \in opts THEN "name" ELSE "sizes"
  /\ name' = NoName /\ values' = <<>>
  /\ UNCHANGED <<cmd, refs, walk, loading, lists, heap>>

EndOfAddresses ==
  /\ pc = "search" /\ at = addresses
  /\ pc' = "exit" /\ context' = {}
  /\ UNCHANGED <<job, arg, opts, addresses>> /\ UnchangedReport

(***************************************************************************)
(* getFunctionName.  refs holds the DIEs of its activations, the function  *)
(* first; each but the first has opened its DIE and frees it as it returns.*)
(***************************************************************************)
NamedDie == IF refs = <<>> THEN func ELSE Last(refs)

Ref(d) == Object("ref", d, 0)

NameOf ==
  /\ pc = "name"
  /\ \E seen \in SUBSET Unit.die[NamedDie].names :
       LET spec == Unit.die[NamedDie].spec IN
       /\ job.libFails \/ seen = Unit.die[NamedDie].names
       /\ IF seen # {}
          THEN \E ok \in BOOLEAN :   \* the string of the attribute
                 /\ Call(TRUE, ok) /\ (FirstName(seen) = "name" => ok)
                 /\ name' = IF ok THEN <<FirstName(seen), NamedDie>> ELSE NoName
                 /\ refs' = <<>> /\ live' = live \ {Ref(d) : d \in ToSet(refs)}
                 /\ pc' = "sizes"
          ELSE \E ok \in BOOLEAN :   \* the DIE of the specification
                 /\ Call(spec # NoDie, ok)
                 /\ UNCHANGED name
                 /\ IF ok THEN /\ refs' = Append(refs, spec) /\ live' = live \cup {Ref(spec)}
                               /\ UNCHANGED pc
                    ELSE /\ refs' = <<>> /\ live' = live \ {Ref(d) : d \in ToSet(refs)}
                         /\ pc' = "sizes"
  /\ UNCHANGED <<cmd, place, walk, loading, lists, heap, values>>

\* The address size and version of the DIE: without them the loop continues,
\* and the handles stay open.  Then the frame base is loaded, and the walk over
\* the DIEs of the function begins.
Sizes ==
  /\ pc = "sizes"
  /\ \E ok, based \in BOOLEAN :
       /\ Call(TRUE, ok) /\ Call(HasLocation(Unit.die[func].loc), based)
       /\ heap' = IF ok /\ based THEN heap \cup {Object("frame base", func, 0)} ELSE heap
       /\ IF ~ok THEN pc' = "search" /\ UNCHANGED walk
          ELSE IF opts \cap {"locals", "params"} = {} THEN pc' = "finish" /\ UNCHANGED walk
          ELSE pc' = "visit" /\ walk' = <<[die |-> Func, cur |-> Func, level |-> 0]>>
  /\ UNCHANGED <<cmd, place, naming, loading, lists, live, values>>

-----------------------------------------------------------------------------
(***************************************************************************)
(* walkDIE, called with cur_lv 0.                                          *)
(***************************************************************************)
MaxLevel == 1

\* The lambda of main: a variable, constant or parameter is loaded.
Visit ==
  /\ pc = "visit"
  /\ \E ok \in BOOLEAN :
       /\ Call(Unit.die[CurDie].tag \in VariableTags, ok)
       /\ IF ok THEN heap' = heap \cup {Var} /\ pc' = "load"
          ELSE pc' = "child" /\ UNCHANGED heap
  /\ UNCHANGED <<cmd, place, naming, walk, loading, lists, live, values>>

\* Mutant: the loop is not left without a sibling.
Leave_NoBreak ==
  /\ UNCHANGED walk
  /\ pc' = "sibling"

\* The running activation returns; the one below goes on behind its child.
Leave ==
  /\ walk' = Front(walk)
  /\ pc' = IF Len(walk) = 1 THEN "print" ELSE "sibling"

\* Mutant: the level is raised for the call only.
Descend_NoDrift(h) ==
  IF Here.level < MaxLevel
  THEN /\ walk' = Append(walk, [die |-> h, cur |-> h, level |-> Here.level + 1])
       /\ pc' = "visit"
  ELSE pc' = "sibling" /\ UNCHANGED walk

\* Mutant: the limit is a level too low.
Descend_TooDeep(h) ==
  IF Here.level <= MaxLevel
  THEN /\ walk' = Append([walk EXCEPT ![Len(walk)].level = @ + 1],
                         [die |-> h, cur |-> h, level |-> Here.level + 1])
       /\ pc' = "visit"
  ELSE pc' = "sibling" /\ UNCHANGED walk

\* The child h of the current DIE: its level is walked while the limit allows;
\* cur_lv is raised on the way down, and stays raised.
Descend(h) ==
  IF Here.level < MaxLevel
  THEN /\ walk' = Append([walk EXCEPT ![Len(walk)].level = @ + 1],
                         [die |-> h, cur |-> h, level |-> Here.level + 1])
       /\ pc' = "visit"
  ELSE pc' = "sibling" /\ UNCHANGED walk

Child ==
  /\ pc = "child"
  /\ \/ job.libFails /\ Leave /\ UNCHANGED live
     \/ /\ HasChild(Unit, CurDie)
        /\ LET h == Object("child", FirstChild(CurDie), 0) IN
           live' = live \cup {h} /\ Descend(h)
     \/ ~HasChild(Unit, CurDie) /\ pc' = "sibling" /\ UNCHANGED <<walk, live>>
  /\ UNCHANGED <<cmd, place, naming, loading, lists, heap, values>>

\* Mutant: the DIE the walk was called with is deallocated like its siblings.
MoveTo_FreesFirst(h) ==
  /\ walk' = [walk EXCEPT ![Len(walk)].cur = h]
  /\ live' = (live \cup {h}) \ {Here.cur}
  /\ pc' = "visit"

\* The walk moves to the sibling h; the DIE it leaves is deallocated unless it
\* is the one the activation was called with.
MoveTo(h) ==
  /\ walk' = [walk EXCEPT ![Len(walk)].cur = h]
  /\ live' = (live \cup {h}) \ (IF Here.cur # Here.die THEN {Here.cur} ELSE {})
  /\ pc' = "visit"

NextSibling ==
  /\ pc = "sibling"
  /\ \/ job.libFails /\ Leave /\ UNCHANGED live
     \/ HasSibling(Unit, CurDie) /\ MoveTo(Object("sibling", Sibling(Unit, CurDie), 0))
     \/ ~HasSibling(Unit, CurDie) /\ Leave /\ UNCHANGED live
  /\ UNCHANGED <<cmd, place, naming, loading, lists, heap, values>>

-----------------------------------------------------------------------------
(***************************************************************************)
(* DwarfVar::load and DwarfType::load.                                     *)
(***************************************************************************)
\* The k-th type and those it leads to through base_type_.
Chain(k) ==
  {Type(j) : j \in {j \in k .. Len(Unit.types) : \A i \in k .. (j - 1) : Type(i) \in linked}}

\* DwarfTag::load of the object o: its DIE is opened; a tag that cannot be read
\* fails the load, and the DIE stays with o.
TagLoad(o, opened, ok) ==
  /\ Call(TRUE, opened)
  /\ ok => opened
  /\ live' = IF opened THEN live \cup {o} ELSE live

\* The DIE of the variable (DwarfTag::load), its name, and a DwarfType for the
\* DIE of DW_AT_type.
LoadVar ==
  /\ pc = "load"
  /\ \E opened, ok \in BOOLEAN :
       /\ TagLoad(Var, opened, ok)
       /\ Call(opened /\ "name" \in Unit.die[CurDie].names /\ Unit.die[CurDie].type # NoType, ok)
       /\ IF ok
          THEN /\ heap' = heap \cup {Type(1)} /\ types' = <<Unit.die[CurDie].type>>
               /\ pc' = "type"
          ELSE pc' = "drop" /\ UNCHANGED <<heap, types>>
  /\ UNCHANGED <<cmd, place, naming, walk, ret, linked, lists, values>>

\* DwarfType::load of the last type: a leaf loads, a wrapping type needs that its
\* base loads, any other tag is not supported.
LoadType ==
  /\ pc = "type"
  /\ LET type == Unit.types[Last(types)]
         k == Len(types) IN
     \E opened, ok \in BOOLEAN :
       /\ TagLoad(Type(k), opened, ok)
       /\ Call(opened /\ (type.tag \in LeafTypes \/ (type.tag \in WrappingTypes /\ type.base # NoType)), ok)
       /\ IF ok /\ type.tag \in WrappingTypes
          THEN /\ heap' = heap \cup {Type(k + 1)} /\ types' = Append(types, type.base)
               /\ UNCHANGED <<pc, ret>>
          ELSE pc' = "typed" /\ ret' = ok /\ UNCHANGED <<heap, types>>
  /\ UNCHANGED <<cmd, place, naming, walk, linked, lists, values>>

\* Mutant: a base that does not load is not deleted.
TypeFails_Kept ==
  UNCHANGED <<heap, live, linked>>

\* The caller deletes the type whose load failed.
TypeFails ==
  /\ heap' = heap \ Chain(Len(types)) /\ live' = live \ Chain(Len(types))
  /\ linked' = linked \ Chain(Len(types))

\* The load of the last type returns to that of the type it is the base of, or
\* to DwarfVar::loadType.
TypeReturns ==
  /\ pc = "typed"
  /\ types' = Front(types)
  /\ IF ret
     THEN /\ linked' = IF Len(types) > 1 THEN linked \cup {Type(Len(types) - 1)} ELSE linked
          /\ UNCHANGED <<heap, live>>
     ELSE TypeFails
  /\ pc' = IF Len(types) > 1 THEN "typed" ELSE IF ret THEN "location" ELSE "drop"
  /\ UNCHANGED <<cmd, place, naming, walk, ret, lists, values>>

\* Mutant: a variable without a location is dropped.
LoadLocation_Required ==
  /\ pc = "location"
  /\ pc' = IF HasLocation(Unit.die[CurDie].loc) THEN "child" ELSE "drop"
  /\ UNCHANGED <<cmd, place, naming, walk, loading, lists, live, heap, values>>

\* The location may be missing: the variable is loaded all the same, and goes
\* into the list of its kind.
LoadLocation ==
  /\ pc = "location"
  /\ \E ok \in BOOLEAN :
       /\ Call(HasLocation(Unit.die[CurDie].loc), ok)
       /\ heap' = IF ok THEN heap \cup {Object("location", CurDie, 0)} ELSE heap
  /\ IF Unit.die[CurDie].tag = "parameter"
     THEN params' = Append(params, Var) /\ UNCHANGED locals
     ELSE locals' = Append(locals, Var) /\ UNCHANGED params
  /\ pc' = "child"
  /\ UNCHANGED <<cmd, place, naming, walk, loading, live, values>>

\* The variable did not load and is deleted.  Its type_ is null; nothing has
\* set its location_, which the destructor tests and deletes.
DropVar ==
  /\ pc = "drop"
  /\ \/ pc' = "undefined" /\ UNCHANGED <<heap, live>>
     \/ pc' = "child" /\ heap' = heap \ {Var} /\ live' = live \ {Var}
  /\ UNCHANGED <<cmd, place, naming, walk, loading, lists, values>>

-----------------------------------------------------------------------------
(***************************************************************************)
(* print_var, and the destructor of the variable that was printed.         *)
(***************************************************************************)
\* Mutant: the destructor forgets the location.
Owned_NoLocation(v) ==
  LET type(k) == <<v[1], "type", v[3], k>> IN
  {v} \cup {type(j) : j \in {j \in 1 .. Len(Unit.types) : \A i \in 1 .. (j - 1) : type(i) \in linked}}

\* A DwarfVar v, its types from the first on, and its location.
Owned(v) ==
  LET type(k) == <<v[1], "type", v[3], k>> IN
  {v, <<v[1], "location", v[3], 0>>}
    \cup {type(j) : j \in {j \in 1 .. Len(Unit.types) : \A i \in 1 .. (j - 1) : type(i) \in linked}}

ValueOf(v) ==
  LET die == Unit.die[DieOf(v)] IN
  IF context = {} THEN Printed("..", 0, 0)
  ELSE EvalValue(Unit, die.type, <<v[1], "location", v[3], 0>> \in heap, die.loc,
                 CHOOSE f \in context : TRUE)

PrintVar(v) ==
  /\ values' = Append(values, [var |-> v, value |-> ValueOf(v)])
  /\ heap' = heap \ Owned(v) /\ live' = live \ Owned(v) /\ linked' = linked \ Owned(v)
  /\ UNCHANGED <<cmd, pc, place, naming, walk, types, ret>>

PrintParam ==
  pc = "print" /\ params # <<>> /\ PrintVar(Head(params)) /\ params' = Tail(params) /\ UNCHANGED locals

PrintLocal ==
  /\ pc = "print" /\ params = <<>> /\ locals # <<>>
  /\ PrintVar(Head(locals)) /\ locals' = Tail(locals) /\ UNCHANGED params

\* The memory provider has granted bytes that the frame does not have: reading
\* them may do anything, besides giving some bytes as in PrintVar.
PrintOutside ==
  /\ pc = "print" /\ params \o locals # <<>>
  /\ LET value == ValueOf(Head(params \o locals)) IN
     value.addr # 0 /\ \A f \in context : ~InStack(f, value.addr, value.reads)
  /\ pc' = "undefined"
  /\ UNCHANGED cmd /\ UnchangedReport

EndOfVars ==
  /\ pc = "print" /\ params = <<>> /\ locals = <<>>
  /\ pc' = "finish"
  /\ UNCHANGED cmd /\ UnchangedReport

\* The frame information is printed, and the handles of the search are released.
Finish ==
  /\ pc = "finish"
  /\ live' = live \ {Cu, Func}
  /\ pc' = "search"
  /\ UNCHANGED <<cmd, place, naming, walk, loading, lists, heap, values>>

\* All but the reading of the context file.
Step == \/ ParseOption \/ ParseAddress \/ Help \/ EndOfArgs \/ Open
        \/ Search \/ EndOfAddresses \/ NameOf \/ Sizes
        \/ Visit \/ Child \/ NextSibling
        \/ LoadVar \/ LoadType \/ TypeReturns \/ LoadLocation \/ DropVar
        \/ PrintParam \/ PrintLocal \/ PrintOutside \/ EndOfVars \/ Finish

Next == Step \/ LoadContext

Spec == Init /\ [][Next]_vars /\ WF_vars(Next)
-----------------------------------------------------------------------------
Roles == {"cu", "func", "child", "sibling", "ref", "var", "type", "location", "frame base"}

IsObject(o) ==
  /\ o = <<o[1], o[2], o[3], o[4]>>
  /\ o[1] \in Nat /\ Role(o) \in Roles /\ DieOf(o) \in Dies(Unit) /\ o[4] \in 0 .. Len(Unit.types)

\* Type invariant.
TypeOK ==
  /\ job \in Jobs /\ arg \in Nat /\ addresses \in Nat /\ at \in 0 .. addresses
  /\ context \in SUBSET ServedFrames /\ Cardinality(context) <= 1
  /\ opts \subseteq {"input", "eval", "locals", "params", "frames", "functions", "demangle", "debug"}
  /\ func \in Dies(Unit) \cup {NoDie} /\ refs \in Seq(Dies(Unit))
  /\ types \in Seq(1 .. Len(Unit.types)) /\ ret \in BOOLEAN
  /\ \A o \in live \cup heap \cup linked \cup ToSet(params) \cup ToSet(locals) : IsObject(o)
  /\ \A i \in DOMAIN walk :
       IsObject(walk[i].die) /\ IsObject(walk[i].cur) /\ walk[i].level \in 0 .. MaxLevel

\* The handle main, walkDIE and getFunctionName work with is open until they
\* are done with it: those of the CU and of the function until the end of the
\* address, the current DIE of every activation of the walk and the DIE each
\* was called with, and the DIEs the search for a name is in
\* (dwarf_utils.cpp:302, :514, dwarf2line.cpp:323).
Reporting == pc \notin {"args", "open", "context", "search", "exit", "aborted", "undefined"}

HandlesLive ==
  /\ Reporting => {Cu, Func} \subseteq live
  /\ \A i \in DOMAIN walk : {walk[i].die, walk[i].cur} \subseteq live
  /\ pc = "name" => {Ref(d) : d \in ToSet(refs)} \subseteq live

\* A type, a location or a variable on the heap has exactly one owner that will
\* delete it: a vector, the load that is running, the variable or the type
\* that points to it - as long as the program runs on; nobody points to what is
\* gone
\* (dwarf_vars.h:23-34, dwarf_types.h:24-28).
Owners(o) ==
  LET vectors == ToSet(params) \cup ToSet(locals)
      var == <<o[1], "var", DieOf(o), 0>>
      loads == pc \in {"load", "type", "typed", "location", "drop"} /\ at = o[1] /\ DieOf(o) = CurDie
  IN
  CASE Role(o) = "var"      -> {<<"params", i>> : i \in {i \in DOMAIN params : params[i] = o}}
                                 \cup {<<"locals", i>> : i \in {i \in DOMAIN locals : locals[i] = o}}
                                 \cup (IF loads THEN {"load"} ELSE {})
    [] Role(o) = "type"     -> (IF o[4] = 1 /\ var \in vectors THEN {"var"} ELSE {})
                                 \cup (IF o[4] > 1 /\ <<o[1], "type", DieOf(o), o[4] - 1>> \in linked
                                       THEN {"base"} ELSE {})
                                 \cup (IF loads /\ (o[4] <= Len(types) \/ (pc = "location" /\ o[4] = 1))
                                       THEN {"load"} ELSE {})
    [] Role(o) = "location" -> IF var \in vectors THEN {"var"} ELSE {}
    [] OTHER                -> {"main"}

SingleOwner ==
  /\ pc # "undefined" => \A o \in heap : Cardinality(Owners(o)) = 1
  /\ ToSet(params) \cup ToSet(locals) \cup linked \subseteq heap
  /\ \A o \in linked : <<o[1], "type", DieOf(o), o[4] + 1>> \in heap

\* What an address leaves behind: the location of the frame base, and of the
\* handles those of first children, of last siblings, and after an early
\* `continue` those of the search.  No variable, type or reference leaks,
\* whichever calls fail.
ReportLeaks ==
  pc \in {"search", "exit"} =>
    /\ \A o \in heap : Role(o) = "frame base"
    /\ \A h \in live :
         /\ Role(h) \in {"child", "sibling", "cu", "func"}
         /\ Role(h) \in {"cu", "func"} => job.libFails
         /\ Role(h) = "sibling" => job.libFails \/ ~HasSibling(Unit, DieOf(h))

\* The variables that are collected are, in the order of their offsets and each
\* in the list of its kind, those that load among the DIEs the walk reaches:
\* the function and its later siblings, and the children of the first of these
\* that has any - no matter how levels are counted on the way
\* (dwarf_utils.cpp:474-520).
Collectable ==
  {d \in Walked(Unit, func) : /\ Unit.die[d].tag \in VariableTags
                              /\ "name" \in Unit.die[d].names /\ Loads(Unit, Unit.die[d].type)}

\* Parameters come first.
Listed(c, d) ==
  IF Unit.die[c].tag = Unit.die[d].tag THEN c < d ELSE Unit.die[c].tag = "parameter"

DiesOf(list) == [i \in DOMAIN list |-> DieOf(list[i])]

VariablesOfWalk ==
  LET reported == [i \in DOMAIN values |-> DieOf(values[i].var)]
      all == reported \o DiesOf(params) \o DiesOf(locals)
  IN  ~job.libFails /\ pc \in {"print", "finish"} /\ opts \cap {"locals", "params"} # {} =>
        /\ ToSet(all) = Collectable
        /\ \A i, j \in DOMAIN all : i < j => Listed(all[i], all[j])

\* Outside the evaluation of locations (VarLocation) the program runs into
\* undefined behaviour only for an option whose value is missing; behind a variable that did not load, whose location_ was never set;
\* and for a variable whose bytes run up to the end of the address space, which
\* is the only way to be granted bytes the frame does not have
\* (dwarf2line.cpp:84, :127-135, :290, dwarf_vars.h:30).  The offset of a
\* variable, which stays unset if dwarf_dieoffset fails (:281), is not modelled.
OnlyKnownUndefined ==
  pc = "undefined" =>
    \/ arg = Len(job.argv) /\ Word \in Valued
    \/ walk # <<>> /\ (job.libFails \/ "name" \notin Unit.die[CurDie].names
                        \/ ~Loads(Unit, Unit.die[CurDie].type))
    \/ /\ params \o locals # <<>>
       /\ LET value == ValueOf(Head(params \o locals)) IN value.addr + value.reads > MaxSize

\* The name that is printed is that of the first DIE on the chain of
\* specifications that has one, and its linkage name if it has one of those
\* (dwarf_utils.cpp:253-310).
NamePrinted ==
  pc = "sizes" /\ "functions" \in opts /\ ~job.libFails =>
    LET d == NamedBy(Unit, func) IN
    IF d = NoDie THEN name = NoName
    ELSE /\ name[2] = d /\ name[1] \in Unit.die[d].names
         /\ Unit.die[d].names # {"name"} => name[1] # "name"

\* The bytes that are looked at were granted, and unless a const stands before
\* its type they belong to the variable (dwarf_types.cpp:46, :107-123,
\* dwarf_vars.cpp:76-121).
ReadsOwnStorage ==
  \A i \in DOMAIN values :
    LET v == values[i].value
        type == Unit.die[DieOf(values[i].var)].type
    IN  /\ v.reads <= v.granted
        /\ v.reads <= Storage(Unit, type) \/ BehindConst(Unit, type)

\* The report ends: no specification refers back, the walk moves forward.
ReportEnds == <>(pc \in {"exit", "aborted", "undefined"})

\* What the usage text says of --locals and --params (dwarf2line.cpp:32-33):
\* what is listed are variables of the function, DIEs below it.
OnlyOwnVariables ==
  \A v \in ToSet(params) \cup ToSet(locals) : func < DieOf(v) /\ DieOf(v) <= Unit.last[func]
=============================================================================
