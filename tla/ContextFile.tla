----------------------------- MODULE ContextFile -----------------------------
(***************************************************************************)
(* The way of the crashed threads into dwarf2line: minidump_convertor.py   *)
(* parses what minidump_stackwalk prints and writes the context file;      *)
(* load_dwarf_context_file reads it, possibly a part of it only.           *)
(*                                                                         *)
(* A scene is [threads, limit, mayCut]: the threads of the minidump, the   *)
(* convertor's option --limit and whether the file may lose its end on the *)
(* way.  A thread is [tid, crashed, frames], a frame [num, func, regs,     *)
(* base, stack, tail]; tail are the words of the characters behind a row   *)
(* of fewer than RowBytes bytes, as numbers, NotHex for those that are     *)
(* none.                                                                   *)
(***************************************************************************)
EXTENDS Integers, SequencesExt

CONSTANTS
  Scenes,    \* the scenes above
  RowBytes,  \* bytes of a row of the stack dump (16)
  Huge,      \* a size nothing can be allocated for
  Unset      \* what an uninitialised uint32_t may hold, Huge among it

NotHex == -1

Numbers == Seq(Nat)
Frames == [num: Nat, func: Seq(STRING), regs: Numbers, base: Nat, stack: Seq(0 .. 255), tail: Seq(Nat \cup {NotHex})]

\* What the minidump holds has found room in the convertor, which rounds a stack
\* up to whole rows at most; a stack does not lie at address 0.
Storable(frame) ==
  /\ Len(frame.regs) < Huge /\ Len(frame.stack) + RowBytes < Huge
  /\ frame.stack # <<>> => frame.base > 0

ASSUME ContextFileAssumption ==
  /\ RowBytes \in Nat \ {0} /\ Huge \in Nat
  /\ {0, Huge} \subseteq Unset /\ Unset \subseteq Nat
  /\ \A s \in Scenes :
       /\ s.limit \in Nat \cup {-1} /\ s.mayCut \in BOOLEAN
       /\ s.threads \in Seq([tid: Nat, crashed: BOOLEAN, frames: Seq(Frames)])
       /\ \A t \in ToSet(s.threads) :
            Len(t.frames) < Huge /\ \A f \in ToSet(t.frames) : Storable(f)

VARIABLES
  scene,
  stage,    \* "parse", "written", then the reader's "thread", "frame", "registers", "stack",
            \* and at last "loaded", "rejected" or "aborted"
  text,     \* the lines that are still to be parsed
  block,    \* what the convertor takes the next line for
  threads,  \* the threads it has parsed
  refused,  \* it has ended with a ValueError
  file,     \* the fields of the context file
  cut,      \* its end has been lost
  pos,      \* the field the reader reads next
  ctx,      \* the DwarfContext
  left      \* threads, and frames of the last thread, that remain to be read

parsing == <<text, block, threads, refused>>
reading == <<pos, ctx, left>>
fileVars == <<scene, stage, parsing, file, cut, reading>>

(***************************************************************************)
(* What minidump_stackwalk prints of a thread.                             *)
(***************************************************************************)
Line(kind, value, more) == [kind |-> kind, value |-> value, more |-> more]

Other == Line("other", 0, <<>>)   \* "Found by", "Possible instruction pointers", modules, blank lines

\* Registers stand in pairs.
RegisterLines(regs) ==
  [k \in 1 .. ((Len(regs) + 1) \div 2) |->
     Line("registers", 0, SubSeq(regs, 2 * k - 1, IF 2 * k <= Len(regs) THEN 2 * k ELSE Len(regs)))]

\* A row: the address, bytes, and the words of the characters behind it (more than
\* 17 words of a line are not looked at, so those of a full row do not matter).
Rows(frame) ==
  LET size == Len(frame.stack)
      count == (size + RowBytes - 1) \div RowBytes IN
  [k \in 1 .. count |->
     LET from == RowBytes * (k - 1) IN
     Line("row", frame.base + from,
          SubSeq(frame.stack, from + 1, IF k < count THEN from + RowBytes ELSE size)
            \o (IF k * RowBytes <= size THEN <<>> ELSE frame.tail))]

FrameLines(frame) ==
  <<Line("frame", frame.num, frame.func)>> \o RegisterLines(frame.regs) \o <<Other, Other>>
    \o (IF frame.stack = <<>> THEN <<>>
        ELSE <<Line("contents", 0, <<>>)>> \o Rows(frame) \o <<Other, Other>>)

ThreadLines(thread) ==
  <<Line("thread", thread.tid, thread.crashed)>>
    \o FlattenSeq([k \in DOMAIN thread.frames |-> FrameLines(thread.frames[k])]) \o <<Other>>

Text(source) ==
  <<Other>> \o FlattenSeq([k \in DOMAIN source |-> ThreadLines(source[k])]) \o <<Other>>

-----------------------------------------------------------------------------
FileInit ==
  /\ scene \in Scenes
  /\ stage = "parse"
  /\ text = Text(scene.threads) /\ block = "Info" /\ threads = <<>> /\ refused = FALSE
  /\ file = <<>> /\ cut = FALSE
  /\ pos = 1 /\ ctx = <<>> /\ left = <<0, 0>>

(***************************************************************************)
(* parse_minidump_txt_file, a line per step.                               *)
(***************************************************************************)
This == Head(text)

AtLine(kinds) == stage = "parse" /\ ~refused /\ text # <<>> /\ This.kind \in kinds

LastThread == Len(threads)
LastFrame == Len(threads[LastThread].frames)

\* The line is done with, and the next one is taken for what the new block says.
Take(nextBlock) == text' = Tail(text) /\ block' = nextBlock

Rest == UNCHANGED <<scene, stage, file, cut, reading>>

ThreadLine ==
  /\ AtLine({"thread"})
  /\ threads' = Append(threads, [tid |-> This.value, crashed |-> This.more, frames |-> <<>>])
  /\ Take("Thread")
  /\ UNCHANGED refused /\ Rest

FrameLine ==
  /\ AtLine({"frame"}) /\ block = "Thread"
  /\ threads' = [threads EXCEPT ![LastThread].frames =
                   Append(@, [num |-> This.value, func |-> This.more, regs |-> <<>>,
                              base |-> 0, stack |-> <<>>])]
  /\ Take("Register")
  /\ UNCHANGED refused /\ Rest

ContentsLine ==
  /\ AtLine({"contents"}) /\ block = "Thread"
  /\ Take("Stack")
  /\ UNCHANGED <<threads, refused>> /\ Rest

\* What means nothing in its block.
SkippedLine ==
  /\ \/ AtLine({"frame", "registers", "contents", "row", "other"}) /\ block = "Info"
     \/ AtLine({"registers", "row", "other"}) /\ block = "Thread"
  /\ Take(block)
  /\ UNCHANGED <<threads, refused>> /\ Rest

\* The words behind the odd ones of "name = value name = value".
RegisterLine ==
  /\ AtLine({"registers"}) /\ block = "Register"
  /\ threads' = [threads EXCEPT ![LastThread].frames[LastFrame].regs = @ \o This.more]
  /\ Take("Register")
  /\ UNCHANGED refused /\ Rest

\* Mutant: the registers end only where the next thread begins.
EndOfRegisters_Never ==
  /\ AtLine({"frame", "contents", "row", "other"}) /\ block = "Register"
  /\ Take("Register")
  /\ UNCHANGED <<threads, refused>> /\ Rest

\* The first line without "=" ends the registers and is lost, whatever it is.
EndOfRegisters ==
  /\ AtLine({"frame", "contents", "row", "other"}) /\ block = "Register"
  /\ Take("Thread")
  /\ UNCHANGED <<threads, refused>> /\ Rest

RowWords(row) == SubSeq(row.more, 1, IF Len(row.more) < RowBytes THEN Len(row.more) ELSE RowBytes)

\* The words that are numbers.
Hex(words) == FlattenSeq([k \in DOMAIN words |-> IF words[k] = NotHex THEN <<>> ELSE <<words[k]>>])

\* Other words are left out; one that is no byte raises a ValueError, before the
\* output is opened.  The first row gives the base.
StackRow ==
  /\ AtLine({"row"}) /\ block = "Stack"
  /\ LET bytes == Hex(RowWords(This)) IN
     IF \E b \in ToSet(bytes) : b > 255
     THEN refused' = TRUE /\ stage' = "written" /\ UNCHANGED <<text, block, threads>>
     ELSE /\ threads' = [threads EXCEPT
               ![LastThread].frames[LastFrame].base = IF @ = 0 THEN This.value ELSE @,
               ![LastThread].frames[LastFrame].stack = @ \o bytes]
          /\ Take("Stack")
          /\ UNCHANGED <<refused, stage>>
  /\ UNCHANGED <<scene, file, cut, reading>>

\* A line that does not begin with an address.
EndOfStack ==
  /\ AtLine({"registers", "contents", "other"}) /\ block = "Stack"
  /\ Take("Thread")
  /\ UNCHANGED <<threads, refused>> /\ Rest

-----------------------------------------------------------------------------
(***************************************************************************)
(* The context file.                                                       *)
(***************************************************************************)
Field(kind, value) == [kind |-> kind, value |-> value]

\* The length of a name is abstracted to 1.
FrameFields(f) ==
  <<Field("num", f.num), Field("func size", 1), Field("func", f.func), Field("regs size", Len(f.regs))>>
    \o [k \in DOMAIN f.regs |-> Field("reg", f.regs[k])]
    \o <<Field("base", f.base), Field("stack size", Len(f.stack)), Field("stack", f.stack)>>

ThreadFields(t) ==
  <<Field("tid", t.tid), Field("crashed", t.crashed), Field("frames size", Len(t.frames))>>
    \o FlattenSeq([k \in DOMAIN t.frames |-> FrameFields(t.frames[k])])

\* The threads that are written under the limit.
Written == IF scene.limit # -1 /\ scene.limit < Len(threads) THEN SubSeq(threads, 1, scene.limit) ELSE threads

Write ==
  /\ stage = "parse" /\ ~refused /\ text = <<>>
  /\ file' = <<Field("header", Len(Written))>>
               \o FlattenSeq([k \in DOMAIN Written |-> ThreadFields(Written[k])])
  /\ stage' = "written"
  /\ UNCHANGED <<scene, parsing, cut, reading>>

\* The end of the file is lost on the way to dwarf2line.
Cut ==
  /\ stage = "written" /\ scene.mayCut /\ ~cut
  /\ \E n \in 0 .. (Len(file) - 1) : file' = SubSeq(file, 1, n)
  /\ cut' = TRUE
  /\ UNCHANGED <<scene, stage, parsing, reading>>

(***************************************************************************)
(* load_dwarf_context_file.  No read is tested.  The first that finds the  *)
(* file too short leaves any value in its variable; later ones leave it as *)
(* it was, zero in a vector's new element and anything in a local.         *)
(***************************************************************************)
There(p) == p <= Len(file)

Member(p) == IF There(p) THEN {file[p].value} ELSE IF p = Len(file) + 1 THEN Unset ELSE {0}

Local(p) == IF There(p) THEN {file[p].value} ELSE Unset

\* A file that is missing or shorter than its header is rejected.
ReadHeader ==
  /\ stage = "written"
  /\ IF ~There(1) THEN stage' = "rejected" /\ UNCHANGED reading
     ELSE /\ left' = <<file[1].value, 0>> /\ pos' = 2 /\ ctx' = <<>>
          /\ stage' = "thread"
  /\ UNCHANGED <<scene, parsing, file, cut>>

AfterThread(frames) == IF frames = 0 THEN "thread" ELSE "frame"

\* The next header of a thread, or of a frame, or the end.
ReadThread ==
  /\ stage = "thread"
  /\ IF left[1] = 0 THEN stage' = "loaded" /\ UNCHANGED reading
     ELSE \E tid \in Member(pos), crashed \in Member(pos + 1), frames \in Member(pos + 2) :
            IF frames = Huge THEN stage' = "aborted" /\ UNCHANGED reading
            ELSE /\ ctx' = Append(ctx, [tid |-> tid, crashed |-> crashed, size |-> frames, frames |-> <<>>])
                 /\ left' = <<left[1] - 1, frames>>
                 /\ pos' = pos + 3
                 /\ stage' = AfterThread(frames)
  /\ UNCHANGED <<scene, parsing, file, cut>>

CtxFrames == ctx[Len(ctx)].frames

\* The number and the name of a frame.  The name is not terminated in the buffer
\* it is assigned from: what follows it in memory may become part of it.
Overrun(func) == func \o <<"and more">>

ReadFrame ==
  /\ stage = "frame"
  /\ \E num \in Member(pos), size \in Local(pos + 1) :
       IF size = Huge THEN stage' = "aborted" /\ UNCHANGED reading
       ELSE \E func \in (IF There(pos + 2) THEN {file[pos + 2].value, Overrun(file[pos + 2].value)}
                         ELSE {Overrun(<<>>)}) :
              /\ ctx' = [ctx EXCEPT ![Len(ctx)].frames =
                           Append(@, [num |-> num, func |-> func, regs |-> <<>>, base |-> 0, stack |-> <<>>])]
              /\ pos' = pos + 3 /\ stage' = "registers"
              /\ UNCHANGED left
  /\ UNCHANGED <<scene, parsing, file, cut>>

\* Mutant: resize, in place of reserve, in front of emplace_back.
Registers_Resized(p, size) ==
  [k \in 1 .. size |-> 0] \o [k \in 1 .. size |-> IF There(p + k) THEN file[p + k].value ELSE Huge]

\* Of what is not in the file a register keeps nothing but its place.
Registers(p, size) ==
  [k \in 1 .. size |-> IF There(p + k) THEN file[p + k].value ELSE Huge]

ReadRegisters ==
  /\ stage = "registers"
  /\ \E size \in Local(pos) :
       IF size = Huge THEN stage' = "aborted" /\ UNCHANGED reading
       ELSE /\ ctx' = [ctx EXCEPT ![Len(ctx)].frames[Len(CtxFrames)].regs = Registers(pos, size)]
            /\ pos' = pos + 1 + size /\ stage' = "stack"
            /\ UNCHANGED left
  /\ UNCHANGED <<scene, parsing, file, cut>>

\* Mutant: the reader skips the stack of no bytes.
StackEnd_NoEmpty(p, size) == IF size = 0 THEN p + 2 ELSE p + 3

StackEnd(p, size) == p + 3

ReadStack ==
  /\ stage = "stack"
  /\ \E base \in Member(pos), size \in Local(pos + 1) :
       IF size = Huge THEN stage' = "aborted" /\ UNCHANGED reading
       ELSE /\ ctx' = [ctx EXCEPT
                 ![Len(ctx)].frames[Len(CtxFrames)].base = base,
                 ![Len(ctx)].frames[Len(CtxFrames)].stack =
                    IF There(pos + 2) THEN file[pos + 2].value ELSE [k \in 1 .. size |-> 0]]
            /\ pos' = StackEnd(pos, size)
            /\ left' = <<left[1], left[2] - 1>>
            /\ stage' = IF left[2] = 1 THEN "thread" ELSE "frame"
  /\ UNCHANGED <<scene, parsing, file, cut>>

Convert == \/ ThreadLine \/ FrameLine \/ ContentsLine \/ SkippedLine \/ RegisterLine
           \/ EndOfRegisters \/ StackRow \/ EndOfStack \/ Write \/ Cut

LoadFile == ReadHeader \/ ReadThread \/ ReadFrame \/ ReadRegisters \/ ReadStack

FileNext == Convert \/ LoadFile

FileSpec == FileInit /\ [][FileNext]_fileVars /\ WF_fileVars(FileNext)
-----------------------------------------------------------------------------
\* Type invariant.
FileTypeOK ==
  /\ scene \in Scenes
  /\ stage \in {"parse", "written", "thread", "frame", "registers", "stack", "loaded", "rejected", "aborted"}
  /\ cut \in BOOLEAN /\ block \in {"Info", "Thread", "Register", "Stack"}
  /\ refused \in BOOLEAN /\ pos \in Nat \ {0} /\ left \in Nat \X Nat
  /\ stage = "frame" => ctx # <<>> /\ left[2] > 0
  /\ stage \in {"registers", "stack"} => ctx # <<>> /\ CtxFrames # <<>> /\ left[2] > 0

\* What the minidump's text says of a thread arrives in the convertor: once the
\* text is parsed there is every thread with every frame, the registers in
\* their order and the bytes of the stack at their places.  Behind the bytes
\* there may be more, words of a short row's characters; such a word, and
\* nothing else, makes the convertor fail (minidump_convertor.py:33-73).
MoreWords(f) == IF Len(f.stack) % RowBytes = 0 THEN {} ELSE ToSet(f.tail)

ParsedAsPrinted ==
  /\ refused => \E t \in ToSet(scene.threads) : \E f \in ToSet(t.frames) : \E w \in MoreWords(f) : w > 255
  /\ stage = "written" /\ ~refused =>
       /\ Len(threads) = Len(scene.threads)
       /\ \A i \in DOMAIN threads :
            LET parsed == threads[i]
                source == scene.threads[i] IN
            /\ parsed.tid = source.tid /\ parsed.crashed = source.crashed
            /\ Len(parsed.frames) = Len(source.frames)
            /\ \A k \in DOMAIN parsed.frames :
                 LET p == parsed.frames[k]
                     f == source.frames[k] IN
                 /\ p.num = f.num /\ p.func = f.func /\ p.regs = f.regs
                 /\ f.stack # <<>> => p.base = f.base
                 /\ IsPrefix(f.stack, p.stack)
                 /\ \A j \in (Len(f.stack) + 1) .. Len(p.stack) : p.stack[j] \in MoreWords(f)

\* As long as the file is long enough the reader meets the fields it expects,
\* and it gives up only when the file was cut or was never written
\* (dwarf_context.cpp:25-66, minidump_convertor.py:97-130).
Expected ==
  CASE stage = "written"   -> "header"
    [] stage = "thread"    -> "tid"
    [] stage = "frame"     -> "num"
    [] stage = "registers" -> "regs size"
    [] stage = "stack"     -> "base"
    [] OTHER               -> "none"

InStepUntilCut ==
  /\ Expected # "none" /\ There(pos) => file[pos].kind = Expected \/ (stage = "thread" /\ left[1] = 0)
  /\ stage = "loaded" /\ ~cut => pos = Len(file) + 1
  /\ stage \in {"rejected", "aborted"} => cut \/ refused

\* A context that is loaded holds everything that is in the file, the counts
\* included: written again, it begins with the file, names apart, which may
\* have grown - even when the end of the file is lost and what follows is made
\* up (dwarf_context.cpp:33-66).
Again ==
  <<Field("header", Len(ctx))>>
    \o FlattenSeq([i \in DOMAIN ctx |->
         ThreadFields([tid |-> ctx[i].tid, crashed |-> ctx[i].crashed, frames |-> ctx[i].frames])])

PrefixIntact ==
  stage = "loaded" =>
    LET again == Again IN
    /\ \A i \in DOMAIN ctx : Len(ctx[i].frames) = ctx[i].size
    /\ Len(file) <= Len(again)
    /\ \A p \in DOMAIN file :
         /\ again[p].kind = file[p].kind
         /\ \/ again[p].value = file[p].value
            \/ file[p].kind = "func" /\ again[p].value = Overrun(file[p].value)
=============================================================================
