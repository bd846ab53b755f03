# dwarfexpr in TLA+

`dwarfexpr` restores the scene of a crash from DWARF debug information: for an
address it finds the function, the source line, and the values of parameters
and locals, given the registers and the stack memory of the crashed thread.
This directory holds TLA+ modules of its core, TLC configurations that check
them on small instances, and TLAPS proofs about them. Paths below are relative
to the repository.

## The system

```
 minidump_stackwalk text --> tools/minidump_convertor.py --> context file
                                                               |
   addresses                                                   v
      |                                          load_dwarf_context_file
      v                                                        |
 main (dwarf2line.cpp) --> DwarfSearcher --> cu_die, func_die  |
      |-> getFileNameAndLineNumber (line)                      |
      |-> walkDIE --> DwarfVar --> DwarfType                   v
      |                  |-> DwarfLocation.evalValue      registers, memory
      |                          |-> DwarfExpression.evaluate <-- providers
      |                                 |-> frame base: DwarfLocation
      |                                 |-> cfa: DwarfFrames.GetCfa --> evaluate ...
 Minidump (library): reads a .dmp directly, used by tests/minidump_dump
```

Everything runs in one thread. What makes the code hard to test is elsewhere:
iterators and handles that outlive the call that made them, recursion between
three classes through `std::function` providers, library calls that may fail at
any depth, tables whose order is assumed, and words that wrap.

| Component | State | Operations | Hard behaviour | What makes it correct |
|---|---|---|---|---|
| `DwarfSearcher` | libdwarf's CU iterator (kept across lookups), the `DwarfCUContext` (CU and function handles, `in_level`), the recursion | `searchFunction`, `searchInDieTree`, `searchInDie`, `matchCUDie`, `matchFuncDie` | handles change owner on normal, found and error returns; early returns skip siblings; the iterator is not rewound | no handle is used after its deallocation; an answer covers the address; the answer is the one the section determines; a lookup ends |
| Line lookup (`dwarf_utils.cpp:378`) | previous row and its string | one scan | rows are assumed to ascend; failing accessors; strings freed on the way | nearest row at or below the pc; strings are neither used after being freed nor lost |
| `DwarfExpression` | operand stack, operation index | one per opcode, jumps | stack underflow, division, wrap-around, jumps, a stack whose storage has ended | defined behaviour; shuffles preserve entries; it ends |
| `DwarfLocation` | list of ranges | `load`, `evalValue` | forms of the attribute, entries that cannot be read, base addresses of ranges | the entry that covers the pc |
| `DwarfFrames` | FDE list | `GetAllFde`, `GetCfa`, `GetReg`, `EvalExpr` | row walk, failing rows, recursion into expressions | the CFA of the row that covers the pc; the recursion is bounded |
| `main` of dwarf2line | options, addresses, handles, vectors of variables | parsing of options, loop over addresses, providers | an option without its value, `continue` before clean-up, wrapping range test | addresses are independent, handles released |
| `walkDIE`, `DwarfVar`, `DwarfType` | recursion with a level counter, loaded members | collect variables, load a chain of types, print a value, destroy | level counted per sibling, destructor after a failed load, calls that fail in the middle of a load | the variables of the walk and no others; one owner of every object; no byte is printed that is not the variable's |
| `getFunctionName` | recursion over specifications | one | references opened on the way down | the name is that of the first DIE that has one |
| Context file and convertor | block state machine; file position | parse text, write, read | blocks that end unexpectedly, short rows, a file that lost its end | what the text shows arrives; the reader stays in step with the file as far as it goes |
| `Minidump` | stream with sticky error bits, lists, context map | `Read`, streams, `GetMemory`, `GetThread`, `GetContext`, registers, `ReadString` | short reads, order of streams, duplicate contexts, flags that contradict sizes, surrogates | one owner of every context; the crash context is that of the exception; a complete file loads completely; every byte that is handed out for a request that does not wrap lies in its range |
| other attribute helpers, tag names, demangling | none | single calls | - | - |

The hazards, each at its line, are listed in `PROJECT.json`.

## Modules

**`DebugInfo`** is the section as libdwarf presents it and the decisions the
searcher takes on one DIE. DIEs are numbered in preorder, so a subtree is an
interval `d .. last[d]`. `WellFormed` is what libdwarf guarantees of a section
it could parse. `MatchFuncDie`, `MatchCUDie` and `SearchInDie` are the functions
of those names in `dwarf_searcher.cpp`; `MatchCUDie` ends with the result of the
`DW_AT_ranges` lookup even when low and high pc have matched (line 47).

**`DwarfSearcher`** is `searchFunction` and `searchInDieTree`, one libdwarf call
per step, under the loop of `main`. Activation records are not stored: `cur`
determines them (the activation at `cur` was called with the first DIE of that
level by the one that looks at the parent). `live` is the set of DIE handles
opened by the running lookup. `CuCallFails` and `CallFails` are a library call
that returns an error; `GiveUp` is the early `continue` of `main`.

**`AddressLookup`** is the abstract specification: a lookup is answered in one
step by a function of the section, the address and the place of the iterator.
It says, without a traversal, which functions are candidates (and which are
hidden behind a first child without a pc range). `DwarfSearcher` implements it:
`ImplementsLookup` is `AL!Spec` under a mapping that shows the iterator where the
lookup found it until the lookup is over.

**`LineTable`** is the scan of `getFileNameAndLineNumber`, a row per step, with
failing accessors and the strings it holds; `end` marks an `end_sequence` row,
which the code does not tell from the others.

**`Words`** is machine arithmetic at width `W`. **`DwarfExpression`** has the
operations of `evaluate` on a stack as operators, and the register and memory
providers of `main`. **`VarLocation`** is the mutual recursion of
`DwarfLocation::evalValue`, `DwarfExpression::evaluate` and `DwarfFrames::GetCfa`
as an explicit call stack, an operation or a row per step, over what `load` left
of the section: `Kept` are the entries of a location list that can be read, of an
expression the first (their addresses need not be resolved: the bounds of such an
entry stay 0), `LoadedOps` an expression without the operations that cannot be
read, `LowAddr` and `HighAddr` the ends of an entry as the code
computes them, `Fde` the one from `.eh_frame` if there is any, else that from
`.debug_frame`. `hasCfa` records that the context copied into the cfa provider
was copied before the provider was set (`dwarf2line.cpp:255-265`). `LoseStack` is
the undefined behaviour of `local_stack`, whose address is used after its block
(`dwarf_expression.cpp:85-88`), in every evaluation whose caller lends no stack, so in
every one of dwarf2line: its first use finds its old contents or anything.
The other undefined behaviour is the result `Trap`; overflow and large shifts get
the outcome of the processor. `Exhausted` and `Full` stand for a call stack and an
expression stack at their bounds.

**`Variables`** has the pure decisions of a report: which name attribute counts
(`FirstName`), the size of a type (`SizeField`, `TypeSize`), which location forms
load, and what of a variable is printed (`EvalValue`, `FormatValue`); `Granted` is
the test of the memory provider, whose two sums wrap at `MaxSize`
(`dwarf2line.cpp:83-84`), the largest word and the mark of an unknown size; and beside
them, by other means, what they should compute: `Loads`, `Storage`, `Walked`,
`NamedBy`. **`Report`** is `main` of dwarf2line, a statement or a library call per
step: the options, for every address the function's name, the frame base, the
walk, the loading of the variables it meets, the printing and the release. Its
`walk` is the recursion of `walkDIE` (the handle it was called with, the one it
stands at, `cur_lv`), `refs` that of `getFunctionName`, `types` that of
`DwarfType::load`. `live` holds the open DIE handles, the ones variables and types
own included, `heap` what was made with `new`. `PrintOutside` is the read of bytes
that the wrap of `Granted` let pass and the frame does not have. The search is one step here
(`Search`, any function of the CU); `DwarfSearcher` has its steps.

**`ContextFile`** is the way of the registers and the stack from the text of
`minidump_stackwalk` to `DwarfContext`: `parse_minidump_txt_file` with its block
state, a line per step; `Write`; `Cut`, the loss of the file's end; and
`load_dwarf_context_file`, a header per step. A line has a kind and values, a file
is a sequence of fields. A read behind the end of the file leaves what the
variable held: zero in a vector's new element, anything (`Unset`) in a local.
**`CrashScene`** composes the two: `main` loads the file (`Serve`), and the memory
provider serves the first frame of its first thread. The convertor has ended
before `main` opens the file and `main` ends its reading before it goes on, so
the steps of `ContextFile` are taken at that place of `main`.

**`Minidump`** is `Minidump::Read`, a stream of the directory or a context of a
list per step, and the calls a user of the object makes afterwards, the
destructor included. A file is described by what selects a path: the sizes in
bytes, how many of the reads of a stream the file has bytes for, which CPU a
context's size and its flags name. `sick` is the error state of the one
`ifstream`: after a short read every seek fails. Contexts and raw contexts are
named by the directory entry and item they were read from, so `heap`, `raws` and
`contexts` say who owns what. A context of any size but that of amd64, PPC64 and
the old ARM64 is the end of the program (`minidump.cpp:606`). **`Layout`** has the
structures of the breakpad headers the reader uses, with the sizes, alignments and
offsets a 64-bit compiler gives them: the sizes tell contexts apart, and the flags
name the structure, so the offset, a register is taken from. **`Utf16`** is the
conversion of names.

The `MC*` modules give the instances (`MCShapes` the trees of DIEs that
`MCDwarfSearcher` and `MCCrashScene` share). The mutated forms of definitions
(`Return_FreesFound` and so on) are what the properties are tested against: each
property is violated when the named definition is replaced by one of them.

## Runs

| Run | Shows | Bounds, and why they are enough |
|---|---|---|
| `searcher` | `HandlesLive`, `OnlySiblingsLeak`, `AnswerSound`, `InLevelCoversDepth`, `ImplementsLookup`, `LookupEnds`, any number of lookups in a row, every library call may fail | every forest of four DIEs, so one to four CUs, depth up to three below the root, siblings with and without children, and two-CU sections of six DIEs with declarations in first and later places; two pcs on the two sides of each range bound; three kinds of range list (absent, with a base change, ending in an unknown entry) |
| `searcher_independent` | finding: the second address of a command line is searched from the CU behind the first answer | as above, without library failures |
| `line_table` | `NearestRow`, `StopsAtFirstAbove`, `UndefinedWithoutFirstRow`, `PrevAllocated`, `OneStringLeaks`, `ScanEnds` | every table of at most four rows over four addresses, sorted or not, each row readable or failing in one of three calls: the scan keeps one previous row, so four rows hold every relation of kept, current and later row |
| `line_table_sequences` | finding: with two sequences out of address order the scan answers from the wrong one | two sequences of two rows |
| `var_location` | `NestingBounded`, `OperationsDefined`, `ShufflesPermute`, `EvaluationEnds` | words of 4 bits, bytes of 2: signed and unsigned extremes, wrap-around and multi-byte reads occur; programs of two operations on stacks of up to three entries (no operation looks deeper than `pick 3`), three operations with jumps; location attributes of every form, with entries and operations that cannot be read, entries without a resolved address, no entry at all; FDEs of one and two rows with register, expression, undefined and unreadable rules, in either section; `MaxCalls` 7 exceeds the nesting of 6 that is proved, `MaxStack` 6 exceeds what programs without loops reach |
| `var_location_jump` | finding: `skip` and `bra` go on one operation behind the target | as above |
| `var_location_cfa` | finding: the CFA is that of the last row, not of the row at the pc | as above |
| `var_location_range` | finding: a range ends relative to the high address of the CU | as above |
| `crash_scene` | `HandlesLive`, `SingleOwner`, `ReportLeaks`, `VariablesOfWalk`, `OnlyKnownUndefined`, `NamePrinted`, `ReadsOwnStorage`, `ParsedAsPrinted`, `InStepUntilCut`, `PrefixIntact`, `ValuesFromText`, `ReportEnds` | every tree of five DIEs with functions, parameters, variables and other DIEs anywhere below the root: two levels are all the walk goes down, so a walk meets siblings before and behind a DIE with children, and what lies too deep; every tree of four with library calls that fail anywhere; each of 16 types (chains of up to three wrapping types, bit fields, declarations, tags that are not supported, a size near the end of the address space) at each of 12 locations, in the frame, across its end and outside, and near the end of the address space, with a stack there too, so that `addr + size` wraps (`MaxSize` 1023: larger than every address and size that is meant not to wrap); three functions with every kind of name and specifications among them; command lines with every option, values that are missing, no and two addresses. Texts of none, one and two threads, of frames with and without registers and stack, last rows that are full, short, and short with words behind them that are numbers, bytes or not; every limit up to one above the threads; files cut at every field. Rows have 4 bytes (`RowBytes`) so that a stack has several; `Unset` has 0, 1 and a size that cannot be allocated (`Huge`, 999, more than anything in a file) |
| `report_variables` | finding: variables behind the function in its CU are listed as its own | as above |
| `minidump` | `ContextsOwned`, `OnlyShadowedLeak`, `CrashContextIsExceptions`, `HealthyListsWhole`, `CompleteFileLoads`, `MemoryAnswer`, `RegisterOfThread` | every directory of two streams in every state of repair (sizes exact, padded, wrong or tiny, reads cut at every place, contexts of each kind and with flags that contradict their size), every order of four good streams, lists of four where three are allowed (`MaxItems`), files that do not open; then any sequence of requests, registers and names. Two lists or a list and an exception are what a hazard here needs; addresses are below 8, so requests wrap and touch both ends of ranges, and the file is 4 or 20 bytes long, so that reads of memory fit it or not. Names have words at both ends of every length of their encoding, and pairs of them |
| `minidump_contexts` | finding: a thread with an x86, ARM or new ARM64 context ends the program | as above |

What the passing runs say, in short. Handles of DIEs are handled soundly on
every path, errors included, but DIEs the search reaches as siblings are never
freed. The
traversal answers with the first visible candidate of the first CU that stops
it; `in_level` drifts upwards but never below the depth, so the test that uses it
stays sound. On sorted tables the line scan is right; on a table without a
readable first row it assigns a null pointer to a string. The recursion of
locations is bounded only because the cfa provider of the bound context is
empty. Apart from comparisons and divisions no operation pops an empty stack or
reads outside the saved memory, if that memory ends a word below the top of the
address space. The stack itself is another matter: an evaluation to which no stack
was lent uses one whose storage has ended, and dwarf2line never lends one. The report frees every variable, type
and reference whichever call fails, and leaks one location per address and the
first children and last siblings of the walk. The walk reaches the function, its
later siblings and the children of the first of these that has any, no matter how
the levels are counted; so what is listed is not always the function's. Given the values of locations, what `main` itself does is undefined in
three cases: a variable whose load failed is deleted with a location that was never
set, an option lacks its value, or the bytes of a variable run up to the end of the
address space, where the provider's sum wraps. (Offsets that stay unset when
`dwarf_dieoffset` fails are not modelled, see below.) A
`const` before a type of fewer than eight bytes has more bytes printed than the
variable has. Everything a text shows arrives in the convertor, but behind a short
row words of its characters may be taken for bytes of the stack. A file that lost
its end is read in step up to there; the rest of the context is made up.
A minidump whose parts are all there is loaded completely in
whatever order its streams come, and stays readable; one read that comes up short
makes everything behind it unreadable, but never lets an entry be seen that the
file does not hold while the stream is readable. The object leaks the contexts
of threads that have another one, and nothing is deleted twice.

## Fairness

One thread runs, no call blocks, and every loop step is enabled until its loop
is left: `Spec` assumes weak fairness of the steps of a lookup (`DwarfSearcher`),
of the scan (`LineTable`), of evaluation (`VarLocation`) and of the whole of
dwarf2line with its file (`CrashScene`). Nothing is assumed of `main` in
`DwarfSearcher`: it may take no further address (`Query` is not fair).
`Minidump` is checked for safety only and assumes no fairness.

`CHECK_DEADLOCK FALSE` is set for `LineTable` and `VarLocation`, calls that
return, for `CrashScene`, a program that ends, and for `Minidump`, whose object is
destroyed in the end; the searcher is checked for deadlock, as `main` may always
take another address.

## Proofs

`DwarfSearcher_proof` proves, for every set of well-formed sections, every set of
pcs, and failing or non-failing library calls:

* `TypeCorrect`, `NoUseAfterFree` (`HandlesLive`), `SoundAnswers` (`AnswerSound`)
  and `OnlySiblings` (`OnlySiblingsLeak`).
* The assumptions are `InfosAssumption` (sections are well formed),
  `PcsAssumption` and `LibAssumption` of `DwarfSearcher`.
* `LevelCoversDepth` (`InLevelCoversDepth`): the invariant is `LevelInv`,
  `in_level` is not below the number of DIEs above `cur` (`Depth`); `AboveRoot`
  and `AboveParent` count these for a root and for a child.
* `HandlesLive` is not inductive alone. `Inv` adds that the handles on the path
  from the root to `cur` are those of the DIEs whose subtree contains `cur`, that
  the path lies in the CU whose root is `cuDie` and whose last DIE is `cursor`,
  and that `funcDie` is set exactly while `FOUND_SUBPROG` is handed up. The
  lemmas `PathRoot`, `PathDown`, `PathAcross`, `PathUp` say how the path changes
  when the traversal enters a CU, descends, moves to a sibling and returns; they
  rest on `Nesting`, `ChildShape`, `SiblingShape` and `NextRoot`, facts about
  intervals.
* `OnlySiblings` needs `LeakInv` besides: while the traversal runs, every open
  handle of a root or first child still has an owner who will free it.

It also proves under the same assumptions `LookupImplemented`: `DwarfSearcher` refines `AddressLookup`. Initial states map to initial states, and
`StepMaps` says that every step is a step of the abstract lookup or leaves what
is mapped unchanged: `Query`, `Found` and `NotFound` answer, all the others
stutter. That the answer is the promised one needs the invariant `Progress`, how far the
search has come: no CU between the start of the lookup and the iterator stops
it (`BetweenCus`, `FirstCu`), the CU's own DIE did not keep it out (`Entered`), the
candidates of the CU lie at or behind the DIE that is looked at and no level of its
path is hidden (`Unseen`), and each result code says what was found (`Returned`).
`OpenDown`, `OpenAcross` and `OpenUp` carry hiddenness along the traversal.
This is the safety part of `ImplementsLookup`; that an abstract lookup is answered
at all stays with TLC.

`LineTable_proof` proves for every set of tables, sorted or not: the type
invariant; that the answer is the row before the first later row that is above
the pc or unreadable (`FirstAbove`), and so the nearest row of a sorted table
(`Nearest`); when the null pointer is assigned (`UndefinedResult`); and the
ownership of strings (`Strings`); that at most the string of the row that ended
the scan is lost (`LostString`). Its `Inv` ties the loop index, the kept row and
the allocated strings together, and says that the rows up to the kept one were
readable and not above the pc.

`Minidump_proof` proves every invariant of the run `minidump`, for every set of
files and every set of requests: the type invariant, `Owned` (`ContextsOwned`),
`Leaks` (`OnlyShadowedLeak`), `ListsWhole` (`HealthyListsWhole`), `CrashContext`
(`CrashContextIsExceptions`), `RegistersOwn` (`RegisterOfThread`), `MemoryAnswered`
(`MemoryAnswer`) and `FileLoaded` (`CompleteFileLoads`). `ContextsOwned` is not
inductive alone: that an object is new when it is allocated needs `ObjectInv`
(every object that is known lies behind the place where the reader stands), which
needs `PlaceInv` (where that is); `OwnerInv` adds that only contexts that were
read stay on the heap and that the id of each is in the map, from which `GoneInv`
follows at the destructor. `CrashInv` says of `CrashContextIsExceptions` what
holds while the directory is still being read.

The answers rest on three more invariants. `NumberedInv` (a list is numbered from
1, whatever was cut off it) and `KeyInv` (a context stands at the id of the thread
it was read for) give `RegisterOfThread`. `LoadInv` says of a complete file what has
been loaded of it wherever the reader stands: the lists of the streams that were
passed, the contexts of the items behind the place, and that the stream was not
lost on the way. At the end of the directory that is `CompleteFileLoads`; before,
it is what keeps the stream readable when memory or a name is asked for, which
`MemoryAnswer` needs: `Grants` compares the sums of `GetMemory`, which wrap, with the
range a request lies in.

That a name comes back as it is in the file (`NameInv`) needs the conversion
`UTF16ToUTF8` for every text. `Converted` proves that whenever it gives bytes, these,
decoded as UTF-8, are the code points of the text, decoded as UTF-16, though
the code takes a quarter of the low surrogates for low surrogates only: the others
make it give the text up, which `PlainConverted` excludes for texts without
surrogates. The conversion and the two decoders are recursive functions: `Recursion`
gives such a function its values, and `Along` proves what holds at the end
and is handed from each place to the one before by looking at the least place
where it does not hold. `EncodedTaken` is the arithmetic of the encodings of one
to four bytes, and `Prefixed` says that they do not run into one another.

The assumptions on a file say what a file is: its directory entries have sequences
of items, one of an exception (`FilesAssumption`); counts are numbers, the addresses
of a range are words of the address space, and the words of a name are words of 16
bits (`ItemsAssumption`). `LayoutAssumption` has no parameter: it is a fact about the
structures of `Layout`, whose offsets are computed by recursion, which TLC evaluates
and the provers cannot.

`ReportOwners_proof` proves `ReportHandles` (`HandlesLive` of `Report`) for every job
and every scene: any unit that is well formed (`ReportAssumption`), any command
line, library calls that fail or do not, and any context file
(`ContextFileAssumption`, `CrashSceneAssumption`). Its `Inv` says of the walk that
the activations descend in the order of the offsets (`WalkInv`): the current DIE
of an activation lies in front of the DIE with which the next one was called. A
DIE that was reached as a sibling is therefore the current one of a single
activation, which is why it may be deallocated as the walk moves on.
`RefsInv` says that the references of `getFunctionName` are open, `ListInv` that
the vectors hold variables, so that deleting one closes no handle of the walk,
and `PlaceInv` when the handles of the search are there.

On that it proves `ReportOwners` (`SingleOwner`) and `LeaksKnown` (`ReportLeaks`). `OwnInv` says what is on the heap and to whom it
belongs: the vectors hold variables in the order of their DIEs, each in the list of
its tag (`Lists`), all behind the place where the walk stands (`Behind`), which is
why the walk never makes a variable that is already held; that the walk only moves
forward needs `WalkNested`. Types and locations are there no longer than their
variable (`Belonging`), and of the variable that is loading the running calls of
`DwarfType::load` hold the first types while each of the others hangs from the one
before (`Running`). `OpenInv` gives every open handle a reason to be open.

`ReportValues_proof` builds on that and proves `OwnStorageRead`
(`ReadsOwnStorage`), `KnownUndefined` (`OnlyKnownUndefined`) and
`FirstNamePrinted` (`NamePrinted`). These properties speak of recursive functions
along chains of types and of specifications, whose index shrinks. `Recursion` (of
`ContextFile_proof`, on which this module builds too) says that a function defined that way exists, by induction on its last index with
the step given as a function of functions, so that each definition has its rule
(`LoadsRule`, `SizeRule`, `StorageRule`, `ConstRule`, `ChainRule`); `Along` is the
induction over such a chain, with the property as a set of indices. `SizeFits`, that a
type's size is at most its storage unless it stands behind a `const`, is that
induction; it needs the premise of `OwnStorageRead`, `BitsFit`: no type of the unit
claims more bits than its bytes hold, which a compiler never emits and TLC evaluates
for the instance (`MCTypesFit`). For the other two, `LoadInv` says that the
running loads are a beginning of the chain of the variable's type, all of whose
types wrap another, so that the failure of one is the failure of the chain; and
`NameInv` that the references of `getFunctionName` are a beginning of the chain of
specifications without a name. That `KnownUndefined` names every way to be granted
bytes that the frame does not have is `GrantedInside`: where the end of the request is a
word, no wrapped sum passes the test of a stack it leaves. The one assumption on
words is `MaxSizeAssumption`: the largest one is more than the eight bytes of a value.

`ContextFile_proof` proves the type invariant of `ContextFile` (`FileTypes`) and its
three properties, for every set of scenes: `TextParsed` (`ParsedAsPrinted`),
`ReaderInStep` (`InStepUntilCut`) and `ContextBeginsWithFile` (`PrefixIntact`). None
is inductive, as each speaks of the end of a pass over a text or a file. Their
invariant `ReaderInv` says where in the pass the program stands. While the
convertor parses (`ParsingText`), the threads it has are those of the dump up to
the last one, frame, register or row, and the text that is left is what
minidump_stackwalk prints behind that (`TextBehind`, `RestFrames`, `RestRegisters`,
`RestRows`); the block it believes itself in is the one the text is in. That a row's
words become the bytes of the stack, and nothing but the words of a short row's
characters can be taken for more, is `Shown`. The file is the fields of what was
parsed, up to the limit (`Full`), or the beginning of that. While the reader reads
(`Reader`), the fields of what it has read (`ReadPart`) are those in front of `pos`
(`Copied`), and the fields from `pos` on are those of what it has still to read
(`InSync`), until `pos` is behind the end of the file: from there only the loops'
counters (`Counted`) are known. Texts and files are concatenations of what every
line or thread adds (`FlattenSeq`), so most lemmas are about the head and the tail
of such a concatenation (`RestThreads`, `ThreadsAhead`) and about the last part of
one that grows (`Added`).

The assumptions on a scene (`ContextFileAssumption`): its numbers are numbers, a
stack does not lie at address 0, and what the dump holds is smaller than `Huge`, the
size no allocation of the reader succeeds for; the convertor held all of it in memory.

From that and the steps of `main` `ReportValues_proof` proves `PrintedFromText`
(`ValuesFromText`, of values whose bytes end below the end of the address space) and, as `main` loads the file between two of its own steps,
`SceneFile`: the three properties hold in the whole program. `SceneInv` says that the
frame that is served is the first one of the loaded context (`MemoryInv`) and that each
value with an address was granted by the test on its memory (`FromFrame`), which puts
it there unless its bytes run up to the end of the address space (`GrantedInside`); where the text's bytes are
in that frame is `ReaderInv` again, in its last place.

It also proves `SceneTypes` (`SceneTypeOK`), the type invariant of the whole program.
`Shapes` adds to the invariants above what they say nothing of: the command line
(`CommandInv`), that a handle is opened and memory allocated only for a DIE of the
unit (`ObjectsInv`; that a type is, needs `Running`, by which the chain of a
variable's types is no longer than the table), and that the level of an activation,
which stays raised after a child, never exceeds `MaxLevel` (`LevelsInv`).

Last it proves `WalkCollects` (`VariablesOfWalk`): where libdwarf does not fail, the
report lists what `Walked` says the walk is due to visit and what loads of that, in
every tree and with no bound on its depth. `walkDIE` raises its level once for the first DIE with
children and never lowers it; `Standing` turns this into a place: the walk is above
the first of the DIEs at the function's level that has children (level 0), among
these children (two activations), or beyond (level 1, where it goes down no more).
That the walk misses nothing is `Gathered`: a DIE to be collected that it has
passed (`Passed`, which at each statement compares offsets with the current DIE or the
end of its subtree) is in a list; the steps that pass a whole subtree (`BelowLater`,
`BelowChild`) pass nothing that is `Walked`, and when no sibling is left nothing is
ahead (`ChildrenEnd`, `NoneBeyond`). That a load ends in the list exactly if the
variable is `Collectable` is `Promising` one way and `LoadInv` the other. Behind the walk `InOrder`
holds of what is printed and the two lists, and printing moves a head from one
list to the end of the one in front (`FirstMoves`, `LastMoves`). TLC agrees that
`GatherInv`, which collects these, is an invariant on the instance of `crash_scene`.

`VarLocation_proof` proves `Nesting` (`NestingBounded`) for every job, whatever its
expressions, locations and rows are, and for every width. An activation has a
rank: the number of calls that may stand above it. That of `GetCfa` is 5 with a
cfa provider and 2 without, that of `evaluate` 3 or 0, and one more if its
expression uses `fbreg`; the invariant is that depth and rank of every activation
are at most 6 together (5 unless the job is `GetCfa` itself), and every call is of
an activation of a smaller rank. The premise that a frame base is not defined by `fbreg` is
needed, and that the provider's copy of the context has no provider is what makes
the ranks fall.

`DwarfExpression_proof` says what one operation does to one stack, for every width
of words and bytes, every stack, operand and context: `ApplyOutcome` (a stack of
words, at most one entry longer, or an error code; undefined behaviour only in
comparisons, divisions and reads of memory that ends within a word of the end of the
address space) and `OpKeeps` (shuffles and copies keep the entries). The bitwise
operations and reads from memory are sums over the bits or bytes of a word, which the
library defines by a recursive function over the subsets of a set; `SumExists`,
`SumTakes` and `SumBelow` show, each by a least counterexample, that the sum exists,
that the order of its terms does not matter, and that it is below the bound its
terms are spaced by, from which `BitAndWord` and its like and `BytesWord` follow.

On that `VarLocation_proof` proves `TypeCorrect` (`TypeOK`), `DefinedOutcome`
(`OperationsDefined`) and the action property `StackKept` (`ShufflesPermute`). `TypeOK`
is not inductive: that a return goes on inside the expression it left needs
`Waiting` (an activation that has called stands at one of its operations); that the
stack of an expression without jumps stays in its bound needs the count in `Frame`
(no more entries than the job began with and operations behind it); that `GetCfa`
finds a row needs its position to be at or above the low end of the FDE. `TInv`
collects these, and what results are possible; TLC agrees that it is an invariant
on the instance of `var_location`. `ShuffleStep` says that the only step from such an
operation which keeps the call stack's depth is the one `OpKeeps` speaks of. The
second half of `OperationsDefined`, that a lent stack is never lost, is the invariant
`Lent`: an evaluation that meets neither a frame base nor the CFA has one activation,
which owns its stack. Of the evaluations of dwarf2line, to which nobody lends a stack,
it says nothing: there `local_stack` may be anything.

The assumptions of these proofs: `WidthAssumption` and `PowerAssumption` of `Words`
(the laws of powers of two up to the width, which the provers do not know and TLC
evaluates), `CallsAssumption` (a call stack that can hold six activations), and
`JobsAssumption` (what libdwarf and the crash context hand out: words and lists of
words, FDEs whose first row starts at their low end, and expressions that fit
`MaxStack` one entry per operation, as this bound of the model stands for loops).

Only model-checked: liveness (`LookupEnds`, `ScanEnds`, `EvaluationEnds`,
`ReportEnds`, and the fair part of `ImplementsLookup`), which needs fairness and
ENABLED. Every safety invariant that the passing runs check is a theorem as well.

## Not modelled

* Reads of variables that stay uninitialised because the failure of the call that
  should set them is ignored: the offset of a variable when `dwarf_dieoffset` fails
  (`dwarf2line.cpp:281`) and its like. In the model these calls succeed, and
  `OnlyKnownUndefined` says nothing of them.
* `getRnglistsBase` and the other getters of attributes that `Variables`,
  `DebugInfo` and `VarLocation` do not name; `getDeclFile`, `dumpDIE`; the tables of
  tag and attribute names; demangling: stateless wrappers of one library call or
  of a table.
* Wording and layout of what is printed, and the `Dump*` functions of `Minidump`.
* Of the columns of a row in `GetCfa` other than the CFA only the expressions they
  evaluate are steps: their values are printed and nothing else.
* Of the breakpad headers the exception codes, and the structures of CPUs and
  streams that are not read.
* The test programs under `tests`, which were read as evidence of what the
  library is expected to do.
* libdwarf and minidump_stackwalk: modelled from how the code uses them, as the
  contents of a section, of a table and of a text.
* `regx` reads the operand of the first operation of its expression
  (`dwarf_expression.cpp:118`), and a value read from memory may equal the mark of a
  failed read (`dwarf_expression.cpp:380`): the model has both, no property is
  about them, as no statement of the repository excludes them.
