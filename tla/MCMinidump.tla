------------------------------ MODULE MCMinidump ------------------------------
(***************************************************************************)
(* Small files: every directory of at most two streams of every kind and   *)
(* state of repair, and every order of four good ones.                     *)
(***************************************************************************)
EXTENDS Minidump, SequencesExt

Location(size, cpu, avail) == [size |-> size, cpu |-> cpu, avail |-> avail]

Amd64 == Location(AMD64Bytes, "amd64", 2)
OldArm64 == Location(OldARM64Bytes, "arm64old", 2)
X86 == Location(SizeOf(MDRawContextX86), "x86", 2)

\* The third one has flags that contradict its size.
Locations ==
  {Amd64, Location(AMD64Bytes, "none", 2), Location(AMD64Bytes, "x86", 2), Location(AMD64Bytes, "amd64", 0),
   OldArm64, [OldArm64 EXCEPT !.avail = 1], [OldArm64 EXCEPT !.avail = 0], [OldArm64 EXCEPT !.cpu = "none"],
   Location(PPC64Bytes, "none", 2), X86, [X86 EXCEPT !.avail = 0]}

Thread(id, ctx) == [id |-> id, ctx |-> ctx]

Stream(type, size, avail, items) == [type |-> type, size |-> size, avail |-> avail, items |-> items]

Whole(type, items) == CountBytes + Len(items) * ItemBytes[type]

Good(type, items) == Stream(type, Whole(type, items), Len(items) + 2, items)

\* A stream cut at every read, and with every size.
Damaged(type, items) ==
  {Stream(type, Whole(type, items) + padding, avail, items) : padding \in {0, 4}, avail \in 0 .. (Len(items) + 2)}
    \cup {Stream(type, Whole(type, items) + 8, avail, items) : avail \in {0, 9}}
    \cup {Stream(type, 3, 9, items)}

GoodThreads == Good("thread", <<Thread(1, Amd64), Thread(2, OldArm64)>>)

ThreadStreams ==
  {Good("thread", <<Thread(1, a), Thread(id, Amd64)>>) : a \in Locations, id \in {1, 2}}
    \cup {Good("thread", <<Thread(1, a), Thread(2, X86)>>) : a \in {Amd64, OldArm64}}
    \cup Damaged("thread", <<Thread(1, Amd64), Thread(2, Amd64)>>)
    \cup {Good("thread", <<>>)}

Single(type, items) == Stream(type, SingleBytes[type], 1, items)

ExceptionStreams ==
  {Single("exception", <<Thread(id, ctx)>>) : id \in {1, 3}, ctx \in Locations}
    \cup {[Single("exception", <<Thread(1, Amd64)>>) EXCEPT !.avail = 0],
          [Single("exception", <<Thread(1, Amd64)>>) EXCEPT !.size = @ - 4]}

SystemStreams ==
  {[Single("system", <<>>) EXCEPT !.size = @ + more, !.avail = avail] : more \in {0, 8}, avail \in {0, 1}}

MemRange(start, size, rva) == [start |-> start, size |-> size, rva |-> rva]

\* Two ranges that overlap, and one at the end of the address space.
MemoryStreams == Damaged("memory", <<MemRange(1, 2, 0), MemRange(2, 3, 2), MemRange(6, 1, 5)>>)

\* A name of the words, one of odd length, an empty one, one that is too long.
Name(words, avail) == [name |-> [bytes |-> 2 * Len(words), avail |-> avail, words |-> words]]
Odd == [name |-> [bytes |-> 3, avail |-> 2, words |-> <<65>>]]
Empty == [name |-> [bytes |-> 0, avail |-> 1, words |-> <<>>]]
Endless == [name |-> [bytes |-> 2 * 4097, avail |-> 2, words |-> <<65>>]]

\* Words of one, two and three bytes at both ends of each length, and surrogates:
\* high ones, low ones that are known as such, and low ones that are not.
TestWords == {0, 127, 128, 2047, 2048, 55295, 55296, 56319, 56320, 56575, 56576, 57343, 57344, 65535}

Names == {<<w>> : w \in TestWords} \cup (TestWords \X TestWords) \cup {<<65, 55357, 56320, 65>>}

ModuleStreams == Damaged("module", <<Name(<<65>>, 2), Odd>>)
                   \cup {Good("module", <<Name(<<65>>, avail), Empty>>) : avail \in {0, 1}}

AllStreams == ThreadStreams \cup ExceptionStreams \cup SystemStreams \cup MemoryStreams \cup ModuleStreams
                \cup {Stream("other", 0, 0, <<>>)}

\* Streams in good repair, a few of each kind.
GoodStreams ==
  [thread: {GoodThreads, Good("thread", <<Thread(1, Amd64), Thread(1, Amd64)>>)},
   exception: {Single("exception", <<Thread(id, Amd64)>>) : id \in {1, 3}},
   memory: {[Good("memory", <<MemRange(1, 2, 0), MemRange(2, 3, 2), MemRange(6, 1, 5)>>) EXCEPT !.size = @ + 4]},
   module: {Good("module", <<Name(<<65>>, 2)>>)}]

InOrder(kinds) ==
  {<<streams[kinds[1]], streams[kinds[2]], streams[kinds[3]], streams[kinds[4]]>> : streams \in GoodStreams}

Directories ==
  {<<a>> : a \in AllStreams}
    \cup {<<Good("module", <<Name(words, 2), Endless>>)>> : words \in Names}
    \cup {<<Good(type, [i \in 1 .. 4 |-> CASE type = "memory" -> MemRange(1, 2, 0)
                                         [] type = "module" -> Empty
                                         [] type = "thread" -> Thread(1, Amd64)])>> : type \in Lists}
    \cup (AllStreams \X AllStreams)
    \cup UNION {InOrder(kinds) : kinds \in SetToSeqs({"thread", "exception", "memory", "module"})}

WithMemory(dirs) == \E d \in DOMAIN dirs : dirs[d].type = "memory"

\* The length matters for reads of memory: some come up short, or none.
MCFiles ==
  {[head |-> "ok", dirs |-> dirs, len |-> 20] : dirs \in Directories}
    \cup {[head |-> "ok", dirs |-> dirs, len |-> 4] : dirs \in {dirs \in Directories : WithMemory(dirs)}}
    \cup {[head |-> head, dirs |-> <<>>, len |-> 0] : head \in Heads}

MCRequests == {[addr |-> addr, size |-> size] : addr \in {1, 2, 4, 6}, size \in {1, 3}}
                \cup {[addr |-> addr, size |-> 0] : addr \in {2, 6}}

=============================================================================
