------------------------------ MODULE Minidump ------------------------------
(***************************************************************************)
(* minidump::Minidump (src/minidump/minidump.cpp): Read goes through the   *)
(* stream directory, one stream or one context per step, and the caller    *)
(* then asks for memory and strings.  Every read goes through one ifstream *)
(* whose error bits nobody clears: after a read that came up short, every  *)
(* seek fails.                                                             *)
(*                                                                         *)
(* A file is [head, dirs, len].  head says how far opening it gets (Heads),*)
(* len is its length, and dirs is the stream directory, with entries       *)
(*   type   a list of Lists, "exception", "system", or "other"             *)
(*   size   data_size; Size tells whether it is that of the contents       *)
(*   avail  how many of the reads of the stream the file has bytes for     *)
(*   items  the contents: threads [id, ctx], modules [name], memory ranges *)
(*          [start, size, rva]; one [id, ctx] for an exception             *)
(* The location ctx of a raw context is [size, cpu, avail]: data_size, the *)
(* CPU of the context's flags, the reads that come whole (0 when there is  *)
(* no byte at all).  A module's name is the string [bytes, avail, words]   *)
(* at its location: its length field, the reads that come whole, and the   *)
(* words that the second of them gives.                                    *)
(***************************************************************************)
EXTENDS Layout, Utf16, FiniteSets

CONSTANTS Files, Requests,
          MaxItems,   \* the most items of a list (10000)
          AddrSpace   \* number of addresses (2^64)

Heads == {"missing", "short", "badHeader", "tooMany", "shortDirs", "ok"}

ASSUME FilesAssumption ==
  \A f \in Files :
    /\ Len(f.dirs) \in Nat /\ DOMAIN f.dirs = 1 .. Len(f.dirs) /\ f.len \in Nat
    /\ \A d \in DOMAIN f.dirs : LET items == f.dirs[d].items IN
         /\ Len(items) \in Nat /\ DOMAIN items = 1 .. Len(items) /\ f.dirs[d].avail \in Nat
         /\ f.dirs[d].type = "exception" => Len(items) = 1
\* Counts are numbers, the addresses of a memory range are words, and the words of
\* a name are words of 16 bits.
ASSUME ItemsAssumption ==
  \A f \in Files : \A d \in DOMAIN f.dirs : \A i \in DOMAIN f.dirs[d].items :
    LET type == f.dirs[d].type
        item == f.dirs[d].items[i]
    IN  /\ type \in {"thread", "exception"} => item.ctx.avail \in Nat
        /\ type = "memory" => {item.start, item.size} \subseteq 0 .. (AddrSpace - 1) /\ item.rva \in Nat
        /\ type = "module" => /\ {item.name.bytes, item.name.avail} \subseteq Nat
                              /\ item.name.words \in Texts
ASSUME MaxItemsAssumption == MaxItems \in Nat
ASSUME AddrAssumption == AddrSpace \in Nat \ {0}
ASSUME RequestsAssumption ==
  Requests \subseteq [addr: 0 .. (AddrSpace - 1), size: 0 .. (AddrSpace - 1)]

Lists == {"thread", "module", "memory"}

VARIABLES
  file,
  at,         \* "closed", "streams", "contexts" (within a stream), "ready",
              \* "crashed", "gone" (destroyed)
  k, j,       \* the directory entry and the item that are read
  sick,       \* failbit or badbit of *stream_
  lists,      \* threads_, modules_, memories_
  excId,      \* exception_.thread_id
  system,     \* system_info_ has been read
  contexts,   \* contexts_: thread id -> MinidumpContext
  heap, raws, \* MinidumpContexts, and raw contexts, that are allocated
  reply       \* what the last call of the caller returned

vars == <<file, at, k, j, sick, lists, excId, system, contexts, heap, raws, reply>>

Dir == file.dirs[k]

\* Whether data_size is that of the contents.
Size == SizeClass(Dir.type, Dir.size, Len(Dir.items))

\* An object is named by the directory entry and the item it was read from.
Here == <<k, j>>

LocationOf(o) == file.dirs[o[1]].items[o[2]].ctx

\* The raw context that data_size selects.
Raw(loc) == Selected(loc.size)

\* What a call of the caller was about, and what it gave: request and offset of
\* memory, the module and the text of a name; the thread, the context of the
\* register, and offset, where that lies.
Reply(call, ok) ==
  [call |-> call, ok |-> ok, request |-> [addr |-> 0, size |-> 0], offset |-> 0,
   id |-> 0, thread |-> 0, object |-> <<0, 0>>, register |-> "none", text |-> <<>>]

\* What resize leaves in an entry that is not read.
Zero(type) ==
  CASE type = "thread" -> [id |-> 0, ctx |-> [size |-> 0, cpu |-> "none", avail |-> 0]]
    [] type = "module" -> [name |-> [bytes |-> 1, avail |-> 0, words |-> <<>>]]
    [] type = "memory" -> [start |-> 0, size |-> 0, rva |-> 0]

Init == /\ file \in Files
        /\ at = "closed"
        /\ k = 1 /\ j = 1
        /\ sick = FALSE
        /\ lists = [t \in Lists |-> <<>>]
        /\ excId = 0
        /\ system = FALSE
        /\ contexts = [id \in {} |-> <<0, 0>>]
        /\ heap = {} /\ raws = {}
        /\ reply = Reply("none", TRUE)

(***************************************************************************)
(* Read.                                                                   *)
(***************************************************************************)
OpenFails == /\ at = "closed"
             /\ file.head # "ok"
             /\ sick' = (file.head \in {"missing", "short", "shortDirs"})
             /\ reply' = Reply("read", FALSE)
             /\ at' = "ready"
             /\ UNCHANGED <<file, k, j, lists, excId, system, contexts, heap, raws>>

OpenRead == /\ at = "closed"
            /\ file.head = "ok"
            /\ at' = "streams"
            /\ UNCHANGED <<file, k, j, sick, lists, excId, system, contexts, heap, raws, reply>>

AtStream(types) == at = "streams" /\ k <= Len(file.dirs) /\ Dir.type \in types

NextStream == k' = k + 1 /\ j' = 1 /\ at' = "streams"

\* The reads of a list before its items: the count, and the padding.
Lead == IF Size = "padded" THEN 2 ELSE 1

\* Mutant: the list is resized before its size is checked.
ListRefused_Resized ==
  /\ AtStream(Lists)
  /\ lists' = IF lists[Dir.type] = <<>> /\ ~sick
              THEN [lists EXCEPT ![Dir.type] = [i \in DOMAIN Dir.items |-> Zero(Dir.type)]]
              ELSE lists
  /\ \/ /\ lists[Dir.type] # <<>> \/ sick \/ Size = "tiny"
        /\ sick' = sick
     \/ /\ lists[Dir.type] = <<>> /\ ~sick /\ Size # "tiny"
        /\ Dir.avail < Lead \/ Size = "wrong" \/ Len(Dir.items) > MaxItems
        /\ sick' = (Dir.avail < Lead)
  /\ NextStream
  /\ UNCHANGED <<file, excId, system, contexts, heap, raws, reply>>

\* Mutant: a list is refused when another one has been read.
ListRefused_AnyList ==
  /\ AtStream(Lists)
  /\ \/ /\ (\E t \in Lists : lists[t] # <<>>) \/ sick \/ Size = "tiny"
        /\ sick' = sick
     \/ /\ lists[Dir.type] = <<>> /\ ~sick /\ Size # "tiny"
        /\ Dir.avail < Lead \/ Size = "wrong" \/ Len(Dir.items) > MaxItems
        /\ sick' = (Dir.avail < Lead)
  /\ NextStream
  /\ UNCHANGED <<file, lists, excId, system, contexts, heap, raws, reply>>

\* ReadStream returns false before it touches the list: there is one already,
\* the seek fails, the size is wrong, count and padding come up short, or there are
\* too many items.
ListRefused ==
  /\ AtStream(Lists)
  /\ \/ /\ lists[Dir.type] # <<>> \/ sick \/ Size = "tiny"
        /\ sick' = sick
     \/ /\ lists[Dir.type] = <<>> /\ ~sick /\ Size # "tiny"
        /\ Dir.avail < Lead \/ Size = "wrong" \/ Len(Dir.items) > MaxItems
        /\ sick' = (Dir.avail < Lead)
  /\ NextStream
  /\ UNCHANGED <<file, lists, excId, system, contexts, heap, raws, reply>>

ListAccepted ==
  /\ AtStream(Lists)
  /\ lists[Dir.type] = <<>> /\ ~sick /\ Size \in {"exact", "padded"}
  /\ Dir.avail >= Lead /\ Len(Dir.items) <= MaxItems

\* Mutant: the contexts of a list that was cut are read.
ListCut_GoesOn ==
  /\ ListAccepted
  /\ LET whole == Dir.avail - Lead IN
     /\ whole < Len(Dir.items)
     /\ lists' = [lists EXCEPT ![Dir.type] =
                    [i \in DOMAIN Dir.items |-> IF i <= whole THEN Dir.items[i] ELSE Zero(Dir.type)]]
  /\ sick' = TRUE
  /\ IF Dir.type = "thread" THEN at' = "contexts" /\ UNCHANGED <<k, j>> ELSE NextStream
  /\ UNCHANGED <<file, excId, system, contexts, heap, raws, reply>>

\* An item comes up short: the list keeps its length.  Of the item that was
\* cut the fields that matter are there or not.
ListCut ==
  /\ ListAccepted
  /\ LET whole == Dir.avail - Lead IN
     /\ whole < Len(Dir.items)
     /\ \E cut \in {Zero(Dir.type), Dir.items[whole + 1]} :
          lists' = [lists EXCEPT ![Dir.type] =
                      [i \in DOMAIN Dir.items |-> IF i <= whole THEN Dir.items[i]
                                                  ELSE IF i = whole + 1 THEN cut
                                                  ELSE Zero(Dir.type)]]
  /\ sick' = TRUE
  /\ NextStream
  /\ UNCHANGED <<file, excId, system, contexts, heap, raws, reply>>

\* The whole list is read; ReadThreadListStream goes on to the contexts.
ListRead ==
  /\ ListAccepted
  /\ Dir.avail - Lead >= Len(Dir.items)
  /\ lists' = [lists EXCEPT ![Dir.type] = Dir.items]
  /\ IF Dir.type = "thread" /\ Len(Dir.items) > 0
     THEN at' = "contexts" /\ UNCHANGED <<k, j>>
     ELSE NextStream
  /\ UNCHANGED <<file, sick, excId, system, contexts, heap, raws, reply>>

\* ReadStreamSingle returns false; a short read may have filled the thread id.
SingleFails ==
  /\ AtStream({"exception", "system"})
  /\ \/ /\ sick \/ Size # "exact"
        /\ UNCHANGED <<sick, excId>>
     \/ /\ ~sick /\ Size = "exact" /\ Dir.avail = 0
        /\ sick' = TRUE
        /\ excId' \in {excId} \cup (IF Dir.type = "exception" THEN {Dir.items[1].id} ELSE {})
  /\ NextStream
  /\ UNCHANGED <<file, lists, system, contexts, heap, raws, reply>>

ExceptionRead ==
  /\ AtStream({"exception"})
  /\ ~sick /\ Size = "exact" /\ Dir.avail > 0
  /\ excId' = Dir.items[1].id
  /\ at' = "contexts"
  /\ UNCHANGED <<file, k, j, sick, lists, system, contexts, heap, raws, reply>>

SystemInfoRead ==
  /\ AtStream({"system"})
  /\ ~sick /\ Size = "exact" /\ Dir.avail > 0
  /\ system' = TRUE
  /\ NextStream
  /\ UNCHANGED <<file, sick, lists, excId, contexts, heap, raws, reply>>

SkipStream ==
  /\ AtStream({"other"})
  /\ NextStream
  /\ UNCHANGED <<file, sick, lists, excId, system, contexts, heap, raws, reply>>

\* Read returns true whatever became of the streams.
ReadReturns ==
  /\ at = "streams" /\ k > Len(file.dirs)
  /\ reply' = Reply("read", TRUE)
  /\ at' = "ready"
  /\ UNCHANGED <<file, k, j, sick, lists, excId, system, contexts, heap, raws>>

(***************************************************************************)
(* MinidumpContext::Read, and what its callers do with the outcome.  The   *)
(* stream is never sick here: a short read ends the stream's loop.         *)
(***************************************************************************)
Loc == Dir.items[j].ctx

\* Any other size is that of x86, ARM or the new ARM64 context, and others:
\* the flags are read to the address they hold, which is null.
ContextCrashes ==
  /\ at = "contexts"
  /\ Raw(Loc) = "other" /\ Loc.avail > 0
  /\ at' = "crashed"
  /\ UNCHANGED <<file, k, j, sick, lists, excId, system, contexts, heap, raws, reply>>

Readable ==
  \/ Raw(Loc) = "amd64" /\ Loc.avail >= 1
  \/ Raw(Loc) = "arm64old" /\ Loc.avail >= 2 /\ Loc.cpu = "arm64old"

\* A read comes up short.
Short ==
  \/ Loc.avail = 0 /\ Raw(Loc) # "ppc64"
  \/ Raw(Loc) = "arm64old" /\ Loc.avail = 1 /\ Loc.cpu = "arm64old"

Refused ==
  \/ Raw(Loc) = "ppc64"
  \/ Raw(Loc) = "arm64old" /\ Loc.avail >= 1 /\ Loc.cpu # "arm64old"

\* Mutant: the thread list replaces a context that is there.
Stored_Replaces(o) ==
  [id \in DOMAIN contexts \cup {Dir.items[j].id} |-> IF id = Dir.items[j].id THEN o ELSE contexts[id]]

\* insert keeps a context that is there, the exception's replaces it.
Stored(o) ==
  [id \in DOMAIN contexts \cup {Dir.items[j].id} |->
     IF id \notin DOMAIN contexts \/ (Dir.type = "exception" /\ id = Dir.items[j].id)
     THEN o ELSE contexts[id]]

\* Mutant: the context is freed when the map has one already, and when it
\* replaces one.
ContextRead_Frees ==
  /\ at = "contexts"
  /\ Readable
  /\ heap' = IF Dir.items[j].id \in DOMAIN contexts THEN heap ELSE heap \cup {Here}
  /\ raws' = IF Dir.items[j].id \in DOMAIN contexts THEN raws ELSE raws \cup {Here}
  /\ contexts' = Stored(Here)
  /\ IF Dir.type = "thread" /\ j < Len(Dir.items)
     THEN j' = j + 1 /\ UNCHANGED <<k, at>>
     ELSE NextStream
  /\ UNCHANGED <<file, sick, lists, excId, system, reply>>

ContextRead ==
  /\ at = "contexts"
  /\ Readable
  /\ heap' = heap \cup {Here}
  /\ raws' = raws \cup {Here}
  /\ contexts' = Stored(Here)
  /\ IF Dir.type = "thread" /\ j < Len(Dir.items)
     THEN j' = j + 1 /\ UNCHANGED <<k, at>>
     ELSE NextStream
  /\ UNCHANGED <<file, sick, lists, excId, system, reply>>

\* Mutant: the context that could not be read is not deleted.
ContextFails_Kept ==
  /\ at = "contexts"
  /\ Short \/ Refused
  /\ sick' = Short
  /\ heap' = heap \cup {Here}
  /\ raws' = IF Short /\ Raw(Loc) = "amd64" THEN raws \cup {Here} ELSE raws
  /\ NextStream
  /\ UNCHANGED <<file, lists, excId, system, contexts, reply>>

\* The MinidumpContext is deleted, and the remaining threads get none.  The
\* raw amd64 context of a short read stays: the flags that would tell the
\* destructor of it were not set yet.
ContextFails ==
  /\ at = "contexts"
  /\ Short \/ Refused
  /\ sick' = Short
  /\ raws' = IF Short /\ Raw(Loc) = "amd64" THEN raws \cup {Here} ELSE raws
  /\ NextStream
  /\ UNCHANGED <<file, lists, excId, system, contexts, heap, reply>>

(***************************************************************************)
(* The caller.                                                             *)
(***************************************************************************)
\* Mutant: only the first address is tested.
Covers_FirstAddress(m, r) ==
  LET end == (m.start + m.size) % AddrSpace
  IN  m.start <= r.addr /\ r.addr < end

\* The range m grants the request r, in wrapping 64-bit sums.
Covers(m, r) ==
  LET end == (m.start + m.size) % AddrSpace
  IN  m.start <= r.addr /\ r.addr < end /\ (r.addr + r.size) % AddrSpace <= end

Granting(r) == {i \in DOMAIN lists["memory"] : Covers(lists["memory"][i], r)}

\* The first range that grants the request is read.  When that fails the loop
\* goes on to the next one, on a stream that is sick by then.
GetMemory(r) ==
  /\ at = "ready"
  /\ \/ /\ Granting(r) = {} \/ sick
        /\ reply' = [Reply("memory", FALSE) EXCEPT !.request = r]
        /\ UNCHANGED sick
     \/ /\ Granting(r) # {} /\ ~sick
        /\ LET m == lists["memory"][CHOOSE i \in Granting(r) : \A n \in Granting(r) : i <= n]
               offset == m.rva + (r.addr - m.start)
               whole == r.size = 0 \/ offset + r.size <= file.len
           IN  /\ reply' = [Reply("memory", whole) EXCEPT !.request = r, !.offset = offset]
               /\ sick' = ~whole
  /\ UNCHANGED <<file, at, k, j, lists, excId, system, contexts, heap, raws>>

MaxWords == 4096   \* the most words of a string

\* ReadString of the name of the i-th module: the length, which must be even and
\* at most MaxWords words, and the words.
ReadString(i) ==
  /\ at = "ready"
  /\ LET name == lists["module"][i].name
         valid == name.bytes % 2 = 0 /\ name.bytes \div 2 <= MaxWords
         needed == IF valid /\ name.bytes > 0 THEN 2 ELSE 1
         ok == ~sick /\ valid /\ name.avail >= needed
         text == IF ok THEN UTF16ToUTF8(name.words) ELSE <<>>
     IN  /\ reply' = [Reply("string", ok) EXCEPT !.object = <<0, i>>, !.text = text]
         /\ sick' = (sick \/ name.avail < needed)
  /\ UNCHANGED <<file, at, k, j, lists, excId, system, contexts, heap, raws>>

\* The CPU that the flags name, after the conversion of an old context.
Cpu(o) == IF Raw(LocationOf(o)) = "arm64old" THEN "arm64" ELSE LocationOf(o).cpu

\* Mutant: the first context of this or a later thread.
GetContext_LowerBound(id) ==
  LET later == {i \in DOMAIN contexts : i >= id} IN
  IF later = {} THEN {} ELSE {contexts[CHOOSE i \in later : \A n \in later : i <= n]}

\* The context of a thread, if there is one.
GetContext(id) == IF id \in DOMAIN contexts THEN {contexts[id]} ELSE {}

\* The thread of the list with that id, the first of them, or 0.
GetThread(id) ==
  LET named == {i \in DOMAIN lists["thread"] : lists["thread"][i].id = id}
  IN  IF named = {} THEN 0 ELSE CHOOSE i \in named : \A n \in named : i <= n

\* GetCrashThread and GetCrashContext, or GetThread and GetContext, and one of the
\* three registers; of a context that was converted the offset is that in the
\* file.
GetRegister(id, register) ==
  /\ at = "ready"
  /\ LET answer == [Reply("register", FALSE) EXCEPT !.id = id, !.thread = GetThread(id)]
         read(o) == [answer EXCEPT
                       !.ok = TRUE, !.object = o, !.register = register,
                       !.offset = IF Raw(LocationOf(o)) = "arm64old"
                                  THEN OldRegisterAt[register] ELSE RegisterAt[Cpu(o)][register]]
     IN  reply' \in IF GetContext(id) = {} THEN {answer}
                    ELSE {IF Cpu(o) \in DOMAIN Structure THEN read(o) ELSE answer : o \in GetContext(id)}
  /\ UNCHANGED <<file, at, k, j, sick, lists, excId, system, contexts, heap, raws>>

\* A second Read finds the file open.
ReadAgain ==
  /\ at = "ready"
  /\ reply' = Reply("read", FALSE)
  /\ UNCHANGED <<file, at, k, j, sick, lists, excId, system, contexts, heap, raws>>

\* The destructor of a MinidumpContext frees the raw context its flags name.
FreesRaw(o) ==
  \/ Raw(LocationOf(o)) = "arm64old"
  \/ LocationOf(o).cpu \in {"x86", "amd64", "arm", "arm64"}

Mapped == {contexts[id] : id \in DOMAIN contexts}

Destroy ==
  /\ at = "ready"
  /\ heap' = heap \ Mapped
  /\ raws' = raws \ {o \in Mapped : FreesRaw(o)}
  /\ at' = "gone"
  /\ UNCHANGED <<file, k, j, sick, lists, excId, system, contexts, reply>>

Read == \/ OpenFails \/ OpenRead
        \/ ListRefused \/ ListCut \/ ListRead
        \/ SingleFails \/ ExceptionRead \/ SystemInfoRead \/ SkipStream
        \/ ContextCrashes \/ ContextRead \/ ContextFails
        \/ ReadReturns

Next == \/ Read
        \/ \E r \in Requests : GetMemory(r)
        \/ \E i \in DOMAIN lists["module"] : ReadString(i)
        \/ \E id \in DOMAIN contexts \cup {excId}, register \in {"ip", "sp", "fp"} :
             GetRegister(id, register)
        \/ ReadAgain \/ Destroy

Spec == Init /\ [][Next]_vars

-----------------------------------------------------------------------------
Entries(type) == {d \in DOMAIN file.dirs : file.dirs[d].type = type}

IdOf(o) == file.dirs[o[1]].items[o[2]].id

\* Type invariant of the reader; contexts are named by items of the file.
TypeOK ==
  /\ at \in {"closed", "streams", "contexts", "ready", "crashed", "gone"}
  /\ k \in Nat \ {0} /\ j \in Nat \ {0}
  /\ {sick, system} \subseteq BOOLEAN
  /\ DOMAIN lists = Lists
  /\ \A o \in Mapped \cup heap \cup raws :
       o[1] \in Entries("thread") \cup Entries("exception") /\ o[2] \in DOMAIN file.dirs[o[1]].items
  /\ at = "contexts" => ~sick /\ k \in DOMAIN file.dirs /\ j \in DOMAIN Dir.items
  /\ reply.ok \in BOOLEAN

\* Ownership of contexts (minidump.cpp:306-313, 373-378 and the destructors):
\* the map holds allocated contexts only, each under one id, so that nothing
\* is used after it was deleted or deleted twice; and a context whose
\* destructor will free a raw context has one.
ContextsOwned ==
  at \in {"streams", "contexts", "ready"} =>
    /\ Mapped \subseteq heap
    /\ \A a, b \in DOMAIN contexts : contexts[a] = contexts[b] => a = b
    /\ \A o \in heap : FreesRaw(o) => o \in raws

\* What the reader leaks: contexts of a thread that has another one, and raw
\* contexts that are not known by their flags - those of amd64 size that came
\* up short or whose flags name no CPU.
OnlyShadowedLeak ==
  at = "gone" =>
    /\ \A o \in heap : IdOf(o) \in DOMAIN contexts /\ contexts[IdOf(o)] # o
    /\ \A o \in raws \ heap :
         Raw(LocationOf(o)) = "amd64" /\ (LocationOf(o).avail = 0 \/ ~FreesRaw(o))

\* The crash context is the one the exception stream gives, wherever that
\* stream lies in the directory: the context of the same thread in the thread
\* list neither replaces it nor keeps it out (minidump.cpp:312, 377).
CrashContextIsExceptions ==
  at = "ready" /\ Cardinality(Entries("exception")) = 1 =>
    \A d \in Entries("exception") :
      <<d, 1>> \in heap => excId \in DOMAIN contexts /\ contexts[excId] = <<d, 1>>

\* As long as no read has come up short, every list is empty or one of the
\* file's lists in full: no entry that resize made up is ever visible on a
\* stream that can still be read (minidump.cpp:257-298).
HealthyListsWhole ==
  ~sick => \A t \in Lists :
    lists[t] # <<>> => \E d \in Entries(t) : lists[t] = file.dirs[d].items

Wraps(r) == r.addr + r.size >= AddrSpace

\* A file of one stream of each kind, all of whose parts are there, with
\* contexts of the two kinds that are read, and long enough for requests that
\* wrap, which are read beyond their range.
Complete ==
  /\ file.head = "ok"
  /\ \A t \in Lists \cup {"exception", "system"} : Cardinality(Entries(t)) <= 1
  /\ \A d \in DOMAIN file.dirs : LET dir == file.dirs[d] IN
       /\ dir.type \in Lists =>
            /\ SizeClass(dir.type, dir.size, Len(dir.items)) \in {"exact", "padded"}
            /\ dir.avail = Len(dir.items) + 2 /\ Len(dir.items) <= MaxItems
       /\ dir.type \in {"exception", "system"} =>
            SizeClass(dir.type, dir.size, Len(dir.items)) = "exact" /\ dir.avail > 0
       /\ dir.type \in {"thread", "exception"} => \A i \in DOMAIN dir.items :
            LET c == dir.items[i].ctx IN
            c.avail >= 2 /\ (Raw(c) = "amd64" \/ (Raw(c) = "arm64old" /\ c.cpu = "arm64old"))
       /\ dir.type = "module" => \A i \in DOMAIN dir.items : dir.items[i].name.avail >= 2
       /\ dir.type = "memory" => \A i \in DOMAIN dir.items :
            LET end == dir.items[i].rva + dir.items[i].size IN
            end <= file.len /\ \A r \in Requests : Wraps(r) => end + r.size <= file.len

\* A complete file is loaded completely, in whatever order its streams come,
\* and stays readable whatever is asked of it.  A name that comes back is the
\* name in the file, and in a complete file names without surrogates of up to
\* 4096 words do come back (minidump.cpp:12-69, 423-452).
CompleteFileLoads ==
  /\ at = "ready" /\ Complete =>
       /\ ~sick
       /\ \A t \in Lists : \A d \in Entries(t) : lists[t] = file.dirs[d].items
       /\ system <=> Entries("system") # {}
       /\ DOMAIN contexts = {i.id : i \in UNION {{file.dirs[d].items[n] : n \in DOMAIN file.dirs[d].items} :
                                             d \in Entries("thread") \cup Entries("exception")}}
  /\ at = "ready" /\ reply.call = "string" =>
       LET name == lists["module"][reply.object[2]].name IN
       /\ reply.text # <<>> => Decoded(reply.text) = CodePoints(name.words)
       /\ Complete /\ name.bytes = 2 * Len(name.words) /\ Len(name.words) \in 1 .. MaxWords
            /\ (\A i \in DOMAIN name.words : name.words[i] \notin Surrogates) => reply.text # <<>>

\* GetMemory answers a request that does not wrap with bytes that the file
\* stores for just these addresses; and it answers it, when one range of a
\* complete file holds all of it (minidump.cpp:513-531).
MemoryAnswer ==
  LET r == reply.request
      held(m) == m.start <= r.addr /\ r.addr + r.size <= m.start + m.size
  IN  at = "ready" /\ reply.call = "memory" /\ ~Wraps(r) =>
        /\ reply.ok => \E i \in DOMAIN lists["memory"] :
             LET m == lists["memory"][i] IN held(m) /\ reply.offset - m.rva = r.addr - m.start
        /\ Complete /\ r.size > 0 /\ (\E i \in DOMAIN lists["memory"] :
               LET m == lists["memory"][i] IN held(m) /\ m.start + m.size < AddrSpace)
           => reply.ok

\* The registers a caller is given for a thread are that thread's: the context
\* is one that is allocated and was read for a thread of this id, as is the
\* MDRawThread that goes with it; the register lies inside the raw context, even
\* one whose flags contradict its size; and the integer registers that the
\* conversion of an old ARM64 context copied come from those of the file
\* (minidump.cpp:71-99, 489-511, 660-724).
RegisterOfThread ==
  LET o == reply.object IN
  at = "ready" /\ reply.call = "register" =>
    /\ reply.thread # 0 => lists["thread"][reply.thread].id = reply.id
    /\ reply.ok =>
         /\ o \in raws /\ IdOf(o) = reply.id
         /\ reply.offset + WordBytes[Cpu(o)] <= LocationOf(o).size
         /\ Raw(LocationOf(o)) = "arm64old" =>
              FieldAt(MDRawContextARM64_Old, reply.offset) = "iregs"

\* What the cases of minidump.cpp:617-651 offer: contexts of x86, ARM and
\* ARM64 are read like those of amd64.
ContextsAreRead == at # "crashed"
=============================================================================
