--------------------------- MODULE Minidump_proof ---------------------------
(***************************************************************************)
(* The ownership of contexts, the context of the crashed thread, the state *)
(* of the lists, what a complete file gives, and the answers to requests   *)
(* for memory, names and registers, for every set of files and of requests.*)
(* A name needs the conversion UTF16ToUTF8, for every text: by the least   *)
(* place at which a recursive function is not what it should be.           *)
(***************************************************************************)
EXTENDS Minidump, FiniteSetTheorems, SequenceTheorems, WellFoundedInduction, TLAPS

Named == Mapped \cup heap \cup raws

\* o was read before the place where the reader stands.
Behind(o) == o[1] < k \/ (o[1] = k /\ o[2] < j)

\* The reader's place: which stream a context is read for, and from where.
PlaceInv ==
  /\ file \in Files
  /\ k \in Nat \ {0} /\ j \in Nat \ {0}
  /\ at \in {"closed", "streams"} => j = 1
  /\ at \in {"closed", "contexts"} => ~sick
  /\ at = "contexts" =>
       /\ k \in DOMAIN file.dirs /\ j \in DOMAIN Dir.items
       /\ Dir.type \in {"thread", "exception"}
       /\ Dir.type = "exception" => j = 1 /\ excId = Dir.items[1].id

\* The objects: where they come from, and that none is named twice.
ObjectInv ==
  /\ \A o \in Named :
       /\ o = <<o[1], o[2]>> /\ o[1] \in Nat /\ o[2] \in Nat
       /\ at # "closed" => Behind(o)
       /\ o[1] \in Entries("thread") \cup Entries("exception")
       /\ o[2] \in DOMAIN file.dirs[o[1]].items
  /\ at = "closed" => Named = {}

\* Ownership.
OwnerInv ==
  /\ at # "gone" =>
       /\ Mapped \subseteq heap
       /\ \A o \in heap : FreesRaw(o) => o \in raws
       /\ \A o \in raws \ heap : Raw(LocationOf(o)) = "amd64" /\ LocationOf(o).avail = 0
  /\ \A a, b \in DOMAIN contexts : contexts[a] = contexts[b] => a = b
  /\ \A o \in heap : /\ IdOf(o) \in DOMAIN contexts
                     /\ Raw(LocationOf(o)) \in {"amd64", "arm64old"}

\* After the destructor.
GoneInv ==
  at = "gone" =>
    /\ heap \cap Mapped = {}
    /\ \A o \in raws \ heap :
         Raw(LocationOf(o)) = "amd64" /\ (LocationOf(o).avail = 0 \/ ~FreesRaw(o))

ListInv ==
  /\ lists = [t \in Lists |-> lists[t]]
  /\ HealthyListsWhole

Inv == PlaceInv /\ ObjectInv /\ OwnerInv /\ GoneInv /\ ListInv

\* The actions that allocate, store and free nothing.
Quiet == UNCHANGED <<file, contexts, heap, raws>>

\* A name or a register is asked for: only the answer and the stream's bits change.
Answers == at = "ready" /\ UNCHANGED <<file, at, k, j, lists, excId, system, contexts, heap, raws>>

LEMMA StringAnswers ==
  ASSUME NEW i, ReadString(i)
  PROVE  Answers /\ (sick => sick') /\ sick' \in BOOLEAN /\ reply'.ok \in BOOLEAN
<1> DEFINE name == lists["module"][i].name
           valid == name.bytes % 2 = 0 /\ name.bytes \div 2 <= MaxWords
           needed == IF valid /\ name.bytes > 0 THEN 2 ELSE 1
           ok == ~sick /\ valid /\ name.avail >= needed
           cut == name.avail < needed
           text == IF ok THEN UTF16ToUTF8(name.words) ELSE <<>>
<1>1. Answers
  BY DEF ReadString, Answers
<1>2. sick => sick'
  BY DEF ReadString
<1>3. sick' \in BOOLEAN
  BY Zenon DEF ReadString
<1>4. reply'.ok \in BOOLEAN
  <2>1. reply'.ok = ok
    BY DEF ReadString, Reply
  <2>2. ok \in BOOLEAN
    OBVIOUS
  <2> HIDE DEF ok
  <2> QED
    BY <2>1, <2>2
<1> QED
  BY <1>1, <1>2, <1>3, <1>4

LEMMA RegisterAnswers ==
  ASSUME NEW id, NEW register, GetRegister(id, register)
  PROVE  Answers /\ sick' = sick /\ reply'.ok \in BOOLEAN
<1>1. Answers /\ sick' = sick
  BY DEF GetRegister, Answers
<1> DEFINE answer == [Reply("register", FALSE) EXCEPT !.id = id, !.thread = GetThread(id)]
           offset(o) == IF Raw(LocationOf(o)) = "arm64old"
                        THEN OldRegisterAt[register] ELSE RegisterAt[Cpu(o)][register]
           read(o) == [answer EXCEPT !.ok = TRUE, !.object = o, !.register = register, !.offset = offset(o)]
<1>2. reply' = answer \/ \E o : reply' = read(o)
  BY <1>1, Zenon DEF GetRegister
<1> HIDE DEF offset
<1>3. reply'.ok \in BOOLEAN
  BY <1>2 DEF Reply
<1> QED
  BY <1>1, <1>3

LEMMA InvInit == Init => Inv
  BY DEF Init, Inv, PlaceInv, ObjectInv, OwnerInv, GoneInv, ListInv, HealthyListsWhole, Named, Mapped

LEMMA Cases ==
  [Next]_vars => Quiet \/ ContextRead \/ ContextFails \/ Destroy
  BY StringAnswers, RegisterAnswers
  DEF Next, Read, vars, Quiet, OpenFails, OpenRead, ListRefused, ListCut, ListRead, SingleFails,
      ExceptionRead, SystemInfoRead, SkipStream, ContextCrashes, ReadReturns, GetMemory, Answers,
      ReadAgain

\* The reader moves forward only, and never back to "closed" or out of "gone".
LEMMA Forward ==
  ASSUME PlaceInv, [Next]_vars
  PROVE  /\ file' = file
         /\ k' > k \/ (k' = k /\ j' >= j)
         /\ at' # "closed" \/ at = "closed"
         /\ at = "gone" => at' = "gone" /\ UNCHANGED <<contexts, heap, raws>>
<1>1. CASE UNCHANGED <<file, k, j, contexts, heap, raws>> /\ at # "gone" /\ at' # "closed"
  BY <1>1 DEF PlaceInv
<1>2. CASE NextStream /\ file' = file /\ at \in {"streams", "contexts"}
  BY <1>2 DEF NextStream, PlaceInv
<1>3. CASE ListRead
  BY <1>2, <1>3 DEF ListRead, ListAccepted, AtStream, PlaceInv
<1>4. CASE ContextRead
  BY <1>2, <1>4 DEF ContextRead, PlaceInv
<1>5. CASE Destroy
  BY <1>5 DEF Destroy, PlaceInv
<1>6. CASE UNCHANGED vars
  BY <1>6 DEF vars, PlaceInv
<1>7. CASE ListRefused \/ ListCut \/ SingleFails \/ SystemInfoRead \/ SkipStream \/ ContextFails
  BY <1>2, <1>7 DEF ListRefused, ListCut, ListAccepted, SingleFails, SystemInfoRead, SkipStream, ContextFails, AtStream
<1>8. CASE OpenFails \/ OpenRead \/ ExceptionRead \/ ContextCrashes \/ ReadReturns \/ ReadAgain
  BY <1>1, <1>8 DEF OpenFails, OpenRead, ExceptionRead, ContextCrashes, ReadReturns, ReadAgain, AtStream
<1>9. ASSUME NEW r \in Requests, GetMemory(r)
      PROVE  UNCHANGED <<file, k, j, contexts, heap, raws>> /\ at # "gone" /\ at' # "closed"
  BY <1>9 DEF GetMemory
<1>10. CASE Answers
  BY <1>1, <1>10 DEF Answers
<1> QED
  BY <1>1, <1>3, <1>4, <1>5, <1>6, <1>7, <1>8, <1>9, <1>10, StringAnswers, RegisterAnswers DEF Next, Read

LEMMA PlaceNext ==
  ASSUME PlaceInv, [Next]_vars
  PROVE  PlaceInv'
<1>0. /\ file \in Files
      /\ DOMAIN file.dirs = 1 .. Len(file.dirs) /\ Len(file.dirs) \in Nat
      /\ \A d \in DOMAIN file.dirs :
           /\ Len(file.dirs[d].items) \in Nat
           /\ DOMAIN file.dirs[d].items = 1 .. Len(file.dirs[d].items)
           /\ file.dirs[d].type = "exception" => Len(file.dirs[d].items) = 1
  BY FilesAssumption DEF PlaceInv
<1>1. CASE UNCHANGED <<file, k, j, excId>> /\ at' \notin {"closed", "streams", "contexts"}
  BY <1>1 DEF PlaceInv
<1>2. CASE at = "closed" /\ OpenRead
  BY <1>2 DEF OpenRead, PlaceInv
<1>3. CASE NextStream /\ file' = file
  BY <1>3 DEF NextStream, PlaceInv
<1>4. CASE ListRead
  <2>1. k \in DOMAIN file.dirs
    BY <1>0, <1>4 DEF ListRead, ListAccepted, AtStream, PlaceInv
  <2>2. CASE NextStream
    BY <1>3, <1>4, <2>2 DEF ListRead
  <2>3. CASE ~NextStream
    BY <1>0, <1>4, <2>1, <2>3 DEF ListRead, ListAccepted, AtStream, PlaceInv, Dir, Lists
  <2> QED
    BY <2>2, <2>3
<1>5. CASE ExceptionRead
  <2>1. k \in DOMAIN file.dirs /\ Dir.type = "exception"
    BY <1>0, <1>5 DEF ExceptionRead, AtStream, PlaceInv
  <2> QED
    BY <1>0, <1>5, <2>1 DEF ExceptionRead, AtStream, PlaceInv, Dir
<1>6. CASE ContextRead
  <2>1. CASE NextStream
    BY <1>3, <1>6, <2>1 DEF ContextRead
  <2>2. CASE ~NextStream
    BY <1>0, <1>6, <2>2 DEF ContextRead, PlaceInv, Dir
  <2> QED
    BY <2>1, <2>2
<1>7. CASE UNCHANGED vars
  BY <1>7 DEF vars, PlaceInv, Dir
<1> QED
  BY <1>1, <1>2, <1>3, <1>4, <1>5, <1>6, <1>7, StringAnswers, RegisterAnswers
  DEF Next, Read, vars, Answers, OpenFails, OpenRead, ListRefused, ListCut, SingleFails, SystemInfoRead,
      SkipStream, ContextCrashes, ContextFails, ReadReturns, GetMemory, ReadAgain, Destroy

LEMMA ListNext ==
  ASSUME PlaceInv, ListInv, [Next]_vars
  PROVE  ListInv'
<1>1. CASE UNCHANGED <<file, lists>> /\ (sick => sick')
  BY <1>1 DEF ListInv, HealthyListsWhole, Entries
<1>2. CASE ListCut
  BY <1>2 DEF ListCut, ListInv, HealthyListsWhole
<1>3. CASE ListRead
  <2>1. k \in DOMAIN file.dirs /\ Dir.type \in Lists
    BY <1>3, FilesAssumption DEF ListRead, ListAccepted, AtStream, PlaceInv
  <2>2. lists' = [lists EXCEPT ![Dir.type] = file.dirs[k].items] /\ UNCHANGED <<file, sick>>
    BY <1>3 DEF ListRead, Dir
  <2>3. ASSUME NEW t \in Lists, ~sick', lists'[t] # <<>>
        PROVE  \E d \in Entries(t)' : lists'[t] = file'.dirs[d].items
    <3>1. CASE t = Dir.type
      BY <2>1, <2>2, <3>1 DEF ListInv, Entries, Dir
    <3>2. CASE t # Dir.type
      <4>1. lists'[t] = lists[t]
        BY <2>2, <3>2 DEF ListInv
      <4> QED
        BY <2>2, <2>3, <4>1 DEF ListInv, HealthyListsWhole, Entries
    <3> QED
      BY <3>1, <3>2
  <2>4. lists' = [t \in Lists |-> lists'[t]]
    BY <2>2 DEF ListInv
  <2> QED
    BY <2>3, <2>4 DEF ListInv, HealthyListsWhole
<1>4. CASE ListRefused
  BY <1>1, <1>4 DEF ListRefused
<1>6. ASSUME NEW r \in Requests, GetMemory(r) PROVE UNCHANGED <<file, lists>> /\ (sick => sick')
  <2>1. CASE sick
    BY <1>6, <2>1 DEF GetMemory
  <2>2. CASE ~sick
    BY <1>6, <2>2 DEF GetMemory
  <2> QED
    BY <2>1, <2>2
<1>7. CASE Answers /\ (sick => sick')
  BY <1>1, <1>7 DEF Answers
<1>8. CASE SingleFails \/ ContextFails
  BY <1>1, <1>8 DEF SingleFails, ContextFails, PlaceInv
<1>9. CASE \/ OpenFails \/ OpenRead \/ ExceptionRead \/ SystemInfoRead \/ SkipStream \/ ContextCrashes
           \/ ContextRead \/ ReadReturns \/ ReadAgain \/ Destroy \/ UNCHANGED vars
  <2>1. CASE OpenFails
    BY <1>1, <2>1 DEF OpenFails, PlaceInv
  <2>2. CASE ~OpenFails
    <3>1. UNCHANGED <<file, lists, sick>>
      BY <1>9, <2>2 DEF vars, OpenRead, ExceptionRead, SystemInfoRead,
                  SkipStream, ContextCrashes, ContextRead, ReadReturns, ReadAgain, Destroy
    <3> QED
      BY <1>1, <3>1
  <2> QED
    BY <2>1, <2>2
<1> QED
  BY <1>1, <1>2, <1>3, <1>4, <1>6, <1>7, <1>8, <1>9, StringAnswers, RegisterAnswers DEF Next, Read

\* What is read next has no object yet.
LEMMA Fresh ==
  ASSUME PlaceInv, ObjectInv, at = "contexts"
  PROVE  /\ Here \notin Named
         /\ IdOf(Here) = Dir.items[j].id /\ LocationOf(Here) = Loc
         /\ k \in Entries("thread") \cup Entries("exception")
  BY DEF PlaceInv, ObjectInv, Behind, Here, IdOf, LocationOf, Loc, Dir, Entries

\* The map after Stored: the new object stands at one id, the others stay.
LEMMA StoredMap ==
  ASSUME NEW o,
         contexts' = Stored(o)
  PROVE  /\ DOMAIN contexts' = DOMAIN contexts \cup {Dir.items[j].id}
         /\ \A id \in DOMAIN contexts' :
              \/ id = Dir.items[j].id /\ contexts'[id] = o
              \/ id \in DOMAIN contexts /\ contexts'[id] = contexts[id]
         /\ Mapped' \subseteq Mapped \cup {o}
  BY DEF Stored, Mapped

LEMMA ObjectNext ==
  ASSUME PlaceInv, ObjectInv, [Next]_vars
  PROVE  ObjectInv'
<1>0. /\ file' = file
      /\ k' > k \/ (k' = k /\ j' >= j)
      /\ at' # "closed" \/ at = "closed"
      /\ k \in Nat /\ j \in Nat /\ k' \in Nat /\ j' \in Nat
  BY Forward, PlaceNext DEF PlaceInv
<1>1. ASSUME NEW o \in Named, at # "closed" PROVE Behind(o)'
  BY <1>0, <1>1 DEF ObjectInv, Behind
<1>2. CASE Named' \subseteq Named
  BY <1>0, <1>1, <1>2 DEF ObjectInv, Entries
<1>3. CASE Named' \subseteq Named \cup {Here} /\ at = "contexts" /\ (NextStream \/ (k' = k /\ j' = j + 1))
  <2>1. Here = <<k, j>> /\ Here[1] = k /\ Here[2] = j
    BY DEF Here
  <2>2. ASSUME NEW o, o = Here PROVE Behind(o)'
    BY <1>0, <1>3, <2>1, <2>2 DEF NextStream, Behind
  <2>3. k \in Entries("thread") \cup Entries("exception") /\ j \in DOMAIN file.dirs[k].items
    BY <1>3, Fresh DEF PlaceInv, Dir
  <2>4. ASSUME NEW o \in Named'
        PROVE  /\ o = <<o[1], o[2]>> /\ o[1] \in Nat /\ o[2] \in Nat
               /\ Behind(o)'
               /\ o[1] \in Entries("thread") \cup Entries("exception")
               /\ o[2] \in DOMAIN file.dirs[o[1]].items
    <3>1. CASE o \in Named
      BY <1>1, <1>3, <3>1 DEF ObjectInv
    <3>2. CASE o = Here
      BY <1>0, <2>1, <2>2, <2>3, <3>2
    <3> QED
      BY <1>3, <3>1, <3>2
  <2> QED
    BY <1>0, <1>3, <2>4 DEF ObjectInv, Entries, NextStream
<1>4. CASE Quiet
  BY <1>2, <1>4 DEF Quiet, Named, Mapped
<1>5. CASE ContextRead
  <2>1. Named' \subseteq Named \cup {Here}
    BY <1>5, StoredMap DEF ContextRead, Named
  <2> QED
    BY <1>3, <1>5, <2>1 DEF ContextRead
<1>6. CASE ContextFails
  BY <1>3, <1>6 DEF ContextFails, Named, Mapped
<1>7. CASE Destroy
  BY <1>2, <1>7 DEF Destroy, Named, Mapped
<1> QED
  BY <1>4, <1>5, <1>6, <1>7, Cases

LEMMA OwnerNext ==
  ASSUME PlaceInv, ObjectInv, OwnerInv, GoneInv, [Next]_vars
  PROVE  OwnerInv' /\ GoneInv'
<1>0. /\ file' = file
      /\ at = "gone" => at' = "gone" /\ UNCHANGED <<contexts, heap, raws>>
  BY Forward
<1>1. /\ \A o : (LocationOf(o)' = LocationOf(o)) /\ (IdOf(o)' = IdOf(o))
      /\ \A o : FreesRaw(o)' <=> FreesRaw(o)
  BY <1>0 DEF LocationOf, IdOf, FreesRaw
<1>2. CASE Quiet /\ at' # "gone"
  BY <1>0, <1>1, <1>2 DEF Quiet, OwnerInv, GoneInv, Mapped
<1>3. CASE at = "gone"
  BY <1>0, <1>1, <1>3 DEF OwnerInv, GoneInv, Mapped
<1>4. CASE ContextRead
  <2>1. /\ heap' = heap \cup {Here} /\ raws' = raws \cup {Here} /\ contexts' = Stored(Here)
        /\ at = "contexts" /\ at' # "gone" /\ Readable
    BY <1>4 DEF ContextRead, NextStream
  <2>2. /\ Here \notin Named
        /\ IdOf(Here) = Dir.items[j].id /\ LocationOf(Here) = Loc
    BY <2>1, Fresh
  <2>3. /\ DOMAIN contexts' = DOMAIN contexts \cup {Dir.items[j].id}
        /\ \A id \in DOMAIN contexts' :
             \/ id = Dir.items[j].id /\ contexts'[id] = Here
             \/ id \in DOMAIN contexts /\ contexts'[id] = contexts[id]
        /\ Mapped' \subseteq Mapped \cup {Here}
    BY <2>1, StoredMap
  <2>4. \A a, b \in DOMAIN contexts' : contexts'[a] = contexts'[b] => a = b
    <3>1. \A id \in DOMAIN contexts : contexts[id] # Here
      BY <2>2 DEF Named, Mapped
    <3> QED
      BY <2>3, <3>1 DEF OwnerInv
  <2>5. \A o \in heap' : /\ IdOf(o)' \in DOMAIN contexts'
                         /\ Raw(LocationOf(o)') \in {"amd64", "arm64old"}
    BY <1>1, <2>1, <2>2, <2>3 DEF OwnerInv, Readable
  <2>6. /\ Mapped' \subseteq heap'
        /\ \A o \in heap' : FreesRaw(o)' => o \in raws'
        /\ \A o \in raws' \ heap' : Raw(LocationOf(o)') = "amd64" /\ LocationOf(o)'.avail = 0
    BY <1>1, <2>1, <2>3 DEF OwnerInv
  <2> QED
    BY <2>1, <2>4, <2>5, <2>6 DEF OwnerInv, GoneInv
<1>5. CASE ContextFails
  <2>1. /\ UNCHANGED <<heap, contexts>> /\ raws' \in {raws, raws \cup {Here}}
        /\ Here \in raws' => Here \in raws \/ (Raw(Loc) = "amd64" /\ Loc.avail = 0)
        /\ at = "contexts" /\ at' # "gone"
    BY <1>5 DEF ContextFails, NextStream, Short
  <2>2. LocationOf(Here) = Loc
    BY <2>1, Fresh
  <2> QED
    BY <1>1, <2>1, <2>2 DEF OwnerInv, GoneInv, Mapped
<1>6. CASE Destroy
  <2>1. /\ at = "ready" /\ at' = "gone" /\ contexts' = contexts
        /\ heap' = heap \ Mapped /\ raws' = raws \ {o \in Mapped : FreesRaw(o)}
    BY <1>6 DEF Destroy
  <2>2. Mapped' = Mapped
    BY <2>1 DEF Mapped
  <2>3. ASSUME NEW o \in raws' \ heap'
        PROVE  Raw(LocationOf(o)) = "amd64" /\ (LocationOf(o).avail = 0 \/ ~FreesRaw(o))
    <3>1. CASE o \in heap
      BY <2>1, <2>3, <3>1 DEF OwnerInv, FreesRaw
    <3>2. CASE o \notin heap
      BY <2>1, <2>3, <3>2 DEF OwnerInv
    <3> QED
      BY <3>1, <3>2
  <2> QED
    BY <1>1, <2>1, <2>2, <2>3 DEF OwnerInv, GoneInv
<1> QED
  <2>1. Quiet => at' # "gone" \/ at = "gone" \/ Destroy
    BY StringAnswers, RegisterAnswers
    DEF Next, Read, vars, Answers, OpenFails, OpenRead, ListRefused, ListCut, ListRead, SingleFails,
           ExceptionRead, SystemInfoRead, SkipStream, ContextCrashes, ContextRead, ContextFails,
           ReadReturns, GetMemory, ReadAgain, NextStream
  <2> QED
    BY <1>2, <1>3, <1>4, <1>5, <1>6, <2>1, Cases

LEMMA InvNext == Inv /\ [Next]_vars => Inv'
  BY PlaceNext, ObjectNext, OwnerNext, ListNext DEF Inv

\* The inductive invariant of the reader.
THEOREM Invariance == Spec => []Inv
  BY InvInit, InvNext, PTL DEF Spec

\* Ownership of contexts: every context the map holds is allocated, stands
\* under one id, and has the raw context its destructor frees.
THEOREM Owned == Spec => []ContextsOwned
<1>1. Inv => ContextsOwned
  BY DEF Inv, OwnerInv, ContextsOwned
<1> QED
  BY <1>1, Invariance, PTL

\* The destructor leaves only contexts of threads that have another one, and
\* raw contexts their flags do not name.
THEOREM Leaks == Spec => []OnlyShadowedLeak
<1>1. Inv => OnlyShadowedLeak
  BY DEF Inv, OwnerInv, GoneInv, OnlyShadowedLeak, Mapped
<1> QED
  BY <1>1, Invariance, PTL

\* As long as no read has come up short, each list is empty or read in full.
THEOREM ListsWhole == Spec => []HealthyListsWhole
<1>1. Inv => HealthyListsWhole
  BY DEF Inv, ListInv
<1> QED
  BY <1>1, Invariance, PTL

-----------------------------------------------------------------------------
\* The context of the only exception stream, once read, is the crash context.
CrashInv ==
  at # "gone" =>
    \A d \in Entries("exception") :
      Entries("exception") = {d} /\ <<d, 1>> \in heap =>
        /\ excId = file.dirs[d].items[1].id
        /\ excId \in DOMAIN contexts /\ contexts[excId] = <<d, 1>>

LEMMA CrashNext == Inv /\ CrashInv /\ [Next]_vars => CrashInv'
<1> SUFFICES ASSUME Inv, CrashInv, [Next]_vars PROVE CrashInv'
  OBVIOUS
<1>0. /\ PlaceInv /\ ObjectInv /\ OwnerInv
      /\ file' = file
      /\ Entries("exception")' = Entries("exception")
      /\ at = "gone" => at' = "gone"
  BY Forward DEF Inv, Entries
<1>1. CASE UNCHANGED <<excId, contexts, heap>>
  BY <1>0, <1>1 DEF CrashInv
<1>2. CASE AtStream({"exception", "system"}) /\ UNCHANGED <<contexts, heap>>
  <2>1. CASE k \in Entries("exception")
    <3>1. <<k, 1>> \notin heap
      BY <1>0, <1>2, <2>1 DEF AtStream, PlaceInv, ObjectInv, Named, Behind
    <3> QED
      BY <1>0, <1>2, <2>1, <3>1 DEF CrashInv
  <2>2. CASE k \notin Entries("exception")
    <3>1. Dir.type # "exception"
      BY <1>0, <1>2, <2>2, FilesAssumption DEF AtStream, PlaceInv, Entries, Dir
    <3>2. ASSUME SingleFails PROVE excId' = excId
      BY <3>1, <3>2 DEF SingleFails
    <3>3. ASSUME ~SingleFails PROVE excId' = excId
      <4>1. ~ExceptionRead
        BY <3>1 DEF ExceptionRead, AtStream
      <4> QED
        BY <3>3, <4>1, StringAnswers, RegisterAnswers
        DEF Next, Read, vars, Answers, OpenFails, OpenRead, ListRefused, ListCut, ListRead, SystemInfoRead,
            SkipStream, ContextCrashes, ContextRead, ContextFails, ReadReturns, GetMemory,
            ReadAgain, Destroy
    <3>4. excId' = excId
      BY <3>2, <3>3
    <3> QED
      BY <1>1, <1>2, <3>4
  <2> QED
    BY <2>1, <2>2
<1>3. CASE ContextRead
  <2>1. /\ heap' = heap \cup {Here} /\ contexts' = Stored(Here) /\ excId' = excId
        /\ at = "contexts"
    BY <1>3 DEF ContextRead
  <2>2. Here \notin heap /\ Here = <<k, j>>
    BY <1>0, <2>1, Fresh DEF Named, Here
  <2>3. ASSUME NEW d \in Entries("exception"), Entries("exception") = {d}, <<d, 1>> \in heap'
        PROVE  /\ excId = file.dirs[d].items[1].id
               /\ excId \in DOMAIN contexts' /\ contexts'[excId] = <<d, 1>>
    <3>1. CASE <<d, 1>> = Here
      <4>1. d = k /\ Dir.type = "exception" /\ excId = Dir.items[1].id /\ j = 1
        BY <1>0, <2>1, <2>2, <2>3, <3>1 DEF PlaceInv, Entries, Dir
      <4> QED
        BY <2>1, <3>1, <4>1 DEF Stored, Dir
    <3>2. CASE <<d, 1>> # Here
      <4>1. <<d, 1>> \in heap
        BY <2>1, <2>3, <3>2
      <4>2. /\ excId = file.dirs[d].items[1].id
            /\ excId \in DOMAIN contexts /\ contexts[excId] = <<d, 1>>
        BY <2>1, <2>3, <4>1 DEF CrashInv
      <4>3. Dir.type # "exception"
        BY <1>0, <2>1, <2>2, <2>3, <4>1 DEF PlaceInv, Entries, Dir
      <4> QED
        BY <2>1, <4>2, <4>3 DEF Stored
    <3> QED
      BY <3>1, <3>2
  <2> QED
    BY <1>0, <2>1, <2>3 DEF CrashInv
<1>4. CASE Destroy
  BY <1>4 DEF Destroy, CrashInv
<1>5. CASE SingleFails \/ ExceptionRead
  BY <1>2, <1>5 DEF SingleFails, ExceptionRead, AtStream
<1> QED
  BY <1>1, <1>3, <1>4, <1>5, StringAnswers, RegisterAnswers
  DEF Next, Read, vars, Answers, OpenFails, OpenRead, ListRefused, ListCut, ListRead, SystemInfoRead, SkipStream,
      ContextCrashes, ContextFails, ReadReturns, GetMemory, ReadAgain

\* Wherever the exception stream lies in the directory, its context is the one
\* GetCrashContext returns.
THEOREM CrashContext == Spec => []CrashContextIsExceptions
<1>1. Init => CrashInv
  BY DEF Init, CrashInv
<1>2. Inv /\ CrashInv => CrashContextIsExceptions
  <2> SUFFICES ASSUME CrashInv, at = "ready", Cardinality(Entries("exception")) = 1,
                      PlaceInv,
                      NEW d \in Entries("exception"), <<d, 1>> \in heap
               PROVE  excId \in DOMAIN contexts /\ contexts[excId] = <<d, 1>>
    BY DEF CrashContextIsExceptions, Inv
  <2>1. IsFiniteSet(Entries("exception"))
    <3>1. Len(file.dirs) \in Int /\ Entries("exception") \subseteq 1 .. Len(file.dirs)
      BY FilesAssumption DEF PlaceInv, Entries
    <3>2. IsFiniteSet(1 .. Len(file.dirs))
      BY <3>1, FS_Interval
    <3> QED
      BY <3>1, <3>2, FS_Subset
  <2>2. Entries("exception") = {d}
    BY <2>1, FS_Singleton
  <2> QED
    BY <2>2 DEF CrashInv
<1> QED
  BY <1>1, <1>2, CrashNext, Invariance, PTL DEF Spec

Sane ==
  /\ sick \in BOOLEAN /\ system \in BOOLEAN
  /\ at \in {"closed", "streams", "contexts", "ready", "crashed", "gone"}

\* What GetMemory says of the read: it was not tried, or it was whole or not.
LEMMA MemoryReplies ==
  ASSUME NEW r \in Requests, GetMemory(r)
  PROVE  /\ sick' = sick \/ sick' \in BOOLEAN
         /\ reply'.ok \in BOOLEAN
<1> DEFINE m == lists["memory"][CHOOSE i \in Granting(r) : \A n \in Granting(r) : i <= n]
           offset == m.rva + (r.addr - m.start)
           whole == r.size = 0 \/ offset + r.size <= file.len
<1>1. \/ reply' = [Reply("memory", FALSE) EXCEPT !.request = r] /\ sick' = sick
      \/ /\ reply' = [Reply("memory", whole) EXCEPT !.request = r, !.offset = offset]
         /\ sick' = ~whole
  BY Zenon DEF GetMemory
<1>2. whole \in BOOLEAN
  OBVIOUS
<1> HIDE DEF whole, offset
<1>3. sick' = sick \/ sick' \in BOOLEAN
  BY <1>1
<1>4. reply'.ok = FALSE \/ reply'.ok = whole
  BY <1>1 DEF Reply
<1> QED
  BY <1>2, <1>3, <1>4

LEMMA SaneNext == Sane /\ [Next]_vars => Sane'
<1> SUFFICES ASSUME Sane, [Next]_vars PROVE Sane'
  OBVIOUS
<1>1. at' \in {"closed", "streams", "contexts", "ready", "crashed", "gone"}
  BY StringAnswers, RegisterAnswers
  DEF Sane, Next, Read, vars, Answers, OpenFails, OpenRead, ListRefused, ListCut, ListRead, SingleFails,
         ExceptionRead, SystemInfoRead, SkipStream, ContextCrashes, ContextRead, ContextFails,
         ReadReturns, GetMemory, ReadAgain, Destroy, NextStream
<1>2. system' = system \/ system' = TRUE
  BY StringAnswers, RegisterAnswers
  DEF Next, Read, vars, Answers, OpenFails, OpenRead, ListRefused, ListCut, ListRead, SingleFails,
         ExceptionRead, SystemInfoRead, SkipStream, ContextCrashes, ContextRead, ContextFails,
         ReadReturns, GetMemory, ReadAgain, Destroy
<1>3. sick' \in BOOLEAN
  <2>1. CASE UNCHANGED sick
    BY <2>1 DEF Sane
  <2>2. CASE OpenFails
    BY <2>2 DEF OpenFails
  <2>3. CASE ListRefused
    <3> DEFINE cut == Dir.avail < Lead
    <3>1. sick' = sick \/ sick' = cut
      BY <2>3, Zenon DEF ListRefused
    <3>2. cut \in BOOLEAN
      OBVIOUS
    <3> HIDE DEF cut
    <3> QED
      BY <3>1, <3>2 DEF Sane
  <2>4. CASE ListCut \/ SingleFails
    <3>1. sick' = sick \/ sick' = TRUE
      BY <2>4 DEF ListCut, SingleFails
    <3> QED
      BY <3>1 DEF Sane
  <2>5. CASE ContextFails
    <3>1. sick' = Short
      BY <2>5 DEF ContextFails
    <3>2. Short \in BOOLEAN
      BY DEF Short
    <3> QED
      BY <3>1, <3>2, Zenon
  <2>6. ASSUME NEW r \in Requests, GetMemory(r) PROVE sick' \in BOOLEAN
    BY <2>6, MemoryReplies DEF Sane
  <2> QED
    BY <2>1, <2>2, <2>3, <2>4, <2>5, <2>6, StringAnswers, RegisterAnswers
    DEF Next, Read, vars, OpenRead, ListRead, ExceptionRead, SystemInfoRead, SkipStream,
        ContextCrashes, ContextRead, ReadReturns, ReadAgain, Destroy
<1> QED
  BY <1>1, <1>2, <1>3 DEF Sane

LEMMA ReplyOk == ASSUME NEW call, NEW ok PROVE Reply(call, ok).ok = ok
  BY DEF Reply

Replied == reply.ok \in BOOLEAN

LEMMA RepliedNext == Replied /\ [Next]_vars => Replied'
<1> SUFFICES ASSUME Replied, [Next]_vars PROVE reply'.ok \in BOOLEAN
  BY DEF Replied
<1>1. CASE UNCHANGED reply
  BY <1>1 DEF Replied
<1>2. CASE OpenFails \/ ReadReturns \/ ReadAgain
  <2>1. reply' = Reply("read", FALSE) \/ reply' = Reply("read", TRUE)
    BY <1>2 DEF OpenFails, ReadReturns, ReadAgain
  <2> QED
    BY <2>1, ReplyOk
<1>3. ASSUME NEW r \in Requests, GetMemory(r) PROVE reply'.ok \in BOOLEAN
  BY <1>3, MemoryReplies
<1> QED
  BY <1>1, <1>2, <1>3, StringAnswers, RegisterAnswers
  DEF Next, Read, vars, OpenRead, ListRefused, ListCut, ListRead, SingleFails, ExceptionRead,
      SystemInfoRead, SkipStream, ContextCrashes, ContextRead, ContextFails, Destroy

\* The type invariant of the reader.
THEOREM TypeCorrect == Spec => []TypeOK
<1>1. Init => Sane
  BY DEF Init, Sane
<1>2. Init => Replied
  <2> SUFFICES ASSUME Init PROVE reply.ok \in BOOLEAN
    BY DEF Replied
  <2>1. reply = Reply("none", TRUE)
    BY DEF Init
  <2> QED
    BY <2>1, ReplyOk
<1>3. Inv /\ Sane /\ Replied => TypeOK
  <2> SUFFICES ASSUME Inv, Sane, Replied PROVE TypeOK
    OBVIOUS
  <2>1. {sick, system} \subseteq BOOLEAN
    BY DEF Sane
  <2>2. /\ k \in Nat \ {0} /\ j \in Nat \ {0}
        /\ at = "contexts" => ~sick /\ k \in DOMAIN file.dirs /\ j \in DOMAIN Dir.items
    BY DEF Inv, PlaceInv
  <2>3. DOMAIN lists = Lists
    BY DEF Inv, ListInv, PlaceInv
  <2>4. \A o \in Mapped \cup heap \cup raws :
          o[1] \in Entries("thread") \cup Entries("exception") /\ o[2] \in DOMAIN file.dirs[o[1]].items
    BY DEF Inv, ObjectInv, OwnerInv, Named, Mapped
  <2> QED
    BY <2>1, <2>2, <2>3, <2>4 DEF TypeOK, Sane, Replied
<1> QED
  BY <1>1, <1>2, <1>3, SaneNext, RepliedNext, Invariance, PTL DEF Spec

-----------------------------------------------------------------------------
(***************************************************************************)
(* The registers of a thread.                                              *)
(***************************************************************************)

\* What the answers about registers rest on: a list is numbered from 1, and a
\* context stands at the id of the thread it was read for.
NumberedInv == \A t \in Lists : \E n \in Nat : DOMAIN lists[t] = 1 .. n

KeyInv == \A id \in DOMAIN contexts : IdOf(contexts[id]) = id

\* A set of numbers that is not empty has a least one.
LEMMA HasLeast ==
  ASSUME NEW S \in SUBSET Nat, S # {}
  PROVE  \E i \in S : \A n \in S : i <= n
<1>1. PICK i \in S : \A n \in S : ~ (<<n, i>> \in OpToRel(<, Nat))
  BY WFMin, NatLessThanWellFounded, Zenon
<1>2. ASSUME NEW n \in S PROVE i <= n
  <2>1. <<n, i>> \in Nat \X Nat
    OBVIOUS
  <2>2. ~(n < i)
    BY <1>1, <2>1 DEF OpToRel
  <2> QED
    BY <2>2
<1> QED
  BY <1>2

LEMMA LeastItem ==
  ASSUME NEW S \in SUBSET Nat, S # {}
  PROVE  LET least == CHOOSE i \in S : \A n \in S : i <= n
         IN  least \in S /\ \A n \in S : least <= n
  BY HasLeast

\* The lists after a step: as they were, or one of them has the length of the file's.
LEMMA ListStep ==
  ASSUME ListInv, PlaceInv, [Next]_vars
  PROVE  \/ lists' = lists
         \/ \E t \in Lists : /\ AtStream(Lists) /\ t = Dir.type
                             /\ DOMAIN lists'[t] = DOMAIN Dir.items
                             /\ \A u \in Lists \ {t} : lists'[u] = lists[u]
<1>1. CASE ListCut \/ ListRead
  BY <1>1 DEF ListCut, ListRead, ListAccepted, AtStream, ListInv
<1>2. CASE ~(ListCut \/ ListRead)
  BY <1>2, StringAnswers, RegisterAnswers
  DEF Next, Read, vars, Answers, OpenFails, OpenRead, ListRefused, SingleFails,
         ExceptionRead, SystemInfoRead, SkipStream, ContextCrashes, ContextRead, ContextFails,
         ReadReturns, GetMemory, ReadAgain, Destroy
<1> QED
  BY <1>1, <1>2

\* A list stays numbered.
LEMMA NumberedNext == Inv /\ NumberedInv /\ [Next]_vars => NumberedInv'
<1> SUFFICES ASSUME Inv, NumberedInv, [Next]_vars,
                    NEW t \in Lists
             PROVE  \E n \in Nat : DOMAIN lists'[t] = 1 .. n
  BY DEF NumberedInv
<1>1. CASE lists'[t] = lists[t]
  BY <1>1 DEF NumberedInv
<1>2. CASE AtStream(Lists) /\ DOMAIN lists'[t] = DOMAIN Dir.items
  <2>1. k \in DOMAIN file.dirs
    BY <1>2, FilesAssumption DEF AtStream, Inv, PlaceInv
  <2> QED
    BY <1>2, <2>1, FilesAssumption DEF Inv, PlaceInv, Dir
<1> QED
  BY <1>1, <1>2, ListStep DEF Inv

\* A context stays at the id of its thread.
LEMMA KeyNext == Inv /\ KeyInv /\ [Next]_vars => KeyInv'
<1> SUFFICES ASSUME Inv, KeyInv, [Next]_vars PROVE KeyInv'
  OBVIOUS
<1>1. \A o : IdOf(o)' = IdOf(o)
  BY Forward DEF IdOf, Inv
<1>2. CASE contexts' = contexts
  BY <1>1, <1>2 DEF KeyInv
<1>3. CASE ContextRead
  <2>1. contexts' = Stored(Here) /\ at = "contexts"
    BY <1>3 DEF ContextRead
  <2>2. IdOf(Here) = Dir.items[j].id
    BY <2>1, Fresh DEF Inv
  <2> QED
    BY <1>1, <2>1, <2>2, StoredMap DEF KeyInv
<1> QED
  BY <1>2, <1>3, Cases DEF Quiet, ContextFails, Destroy

\* What GetRegister answers is the thread's.
LEMMA RegisterReplies ==
  ASSUME Inv, NumberedInv, KeyInv,
         NEW id, NEW register \in {"ip", "sp", "fp"},
         GetRegister(id, register)
  PROVE  RegisterOfThread'
<1> DEFINE answer == [Reply("register", FALSE) EXCEPT !.id = id, !.thread = GetThread(id)]
           offset(o) == IF Raw(LocationOf(o)) = "arm64old"
                        THEN OldRegisterAt[register] ELSE RegisterAt[Cpu(o)][register]
           read(o) == [answer EXCEPT !.ok = TRUE, !.object = o, !.register = register, !.offset = offset(o)]
<1>1. /\ at = "ready" /\ UNCHANGED <<file, lists, contexts, heap, raws>>
      /\ \/ reply' = answer
         \/ \E o \in GetContext(id) : Cpu(o) \in DOMAIN Structure /\ reply' = read(o)
  BY Zenon DEF GetRegister
<1>2. GetThread(id) # 0 => lists["thread"][GetThread(id)].id = id
  <2> DEFINE named == {i \in DOMAIN lists["thread"] : lists["thread"][i].id = id}
  <2> SUFFICES ASSUME named # {} PROVE lists["thread"][GetThread(id)].id = id
    BY DEF GetThread
  <2>1. named \subseteq Nat
    BY DEF NumberedInv, Lists
  <2>2. GetThread(id) \in named
    BY <2>1, LeastItem DEF GetThread
  <2> QED
    BY <2>2
<1>3. ASSUME NEW o \in GetContext(id), Cpu(o) \in DOMAIN Structure
      PROVE  /\ o \in raws /\ IdOf(o) = id
             /\ offset(o) + WordBytes[Cpu(o)] <= LocationOf(o).size
             /\ Raw(LocationOf(o)) = "arm64old" =>
                  FieldAt(MDRawContextARM64_Old, offset(o)) = "iregs"
  <2>1. o \in Mapped /\ o \in heap /\ IdOf(o) = id
    BY <1>1, <1>3 DEF GetContext, Mapped, Inv, OwnerInv, KeyInv
  <2>2. Raw(LocationOf(o)) \in {"amd64", "arm64old"}
    BY <2>1 DEF Inv, OwnerInv
  <2>3. CASE Raw(LocationOf(o)) = "amd64"
    <3>1. LocationOf(o).size = AMD64Bytes
      BY <2>3 DEF Raw, Selected
    <3>2. Cpu(o) = LocationOf(o).cpu /\ offset(o) = RegisterAt[Cpu(o)][register]
      BY <2>3 DEF Cpu
    <3>3. LocationOf(o).cpu \in {"x86", "amd64", "arm", "arm64"}
      BY <1>3, <3>2 DEF Structure
    <3>4. o \in raws
      BY <1>1, <2>1, <3>3 DEF FreesRaw, Inv, OwnerInv
    <3> QED
      BY <1>3, <2>1, <2>3, <3>1, <3>2, <3>4, LayoutAssumption
  <2>4. CASE Raw(LocationOf(o)) = "arm64old"
    <3>1. LocationOf(o).size = OldARM64Bytes
      BY <2>4 DEF Raw, Selected
    <3>2. Cpu(o) = "arm64" /\ offset(o) = OldRegisterAt[register]
      BY <2>4 DEF Cpu
    <3>3. o \in raws
      BY <1>1, <2>1, <2>4 DEF FreesRaw, Inv, OwnerInv
    <3> QED
      BY <2>1, <3>1, <3>2, <3>3, LayoutAssumption
  <2> QED
    BY <2>2, <2>3, <2>4
<1> HIDE DEF offset
<1>4. \A o : /\ IdOf(o)' = IdOf(o) /\ LocationOf(o)' = LocationOf(o) /\ Cpu(o)' = Cpu(o)
  BY <1>1 DEF IdOf, LocationOf, Cpu, Raw
<1>5. CASE reply' = answer
  BY <1>1, <1>2, <1>5 DEF RegisterOfThread, Reply
<1>6. ASSUME NEW o \in GetContext(id), Cpu(o) \in DOMAIN Structure, reply' = read(o)
      PROVE  RegisterOfThread'
  <2>1. /\ reply'.ok /\ reply'.object = o /\ reply'.id = id /\ reply'.thread = GetThread(id)
        /\ reply'.offset = offset(o)
    BY <1>6 DEF Reply
  <2>2. o = reply'.object /\ id = reply'.id /\ GetThread(id) = reply'.thread /\ offset(o) = reply'.offset
    BY <2>1
  <2>3. /\ reply'.thread # 0 => lists'["thread"][reply'.thread].id = reply'.id
        /\ o \in raws' /\ IdOf(o)' = reply'.id
        /\ reply'.offset + WordBytes[Cpu(o)'] <= LocationOf(o)'.size
        /\ Raw(LocationOf(o)') = "arm64old" => FieldAt(MDRawContextARM64_Old, reply'.offset) = "iregs"
    <3> HIDE DEF answer, read
    <3> QED
      BY <1>1, <1>2, <1>3, <1>4, <1>6, <2>2
  <2> HIDE DEF answer, read
  <2> QED
    BY <2>2, <2>3, Zenon DEF RegisterOfThread
<1> QED
  BY <1>1, <1>5, <1>6

\* A step keeps what is said of the registers.
LEMMA RegisterNext == Inv /\ NumberedInv /\ KeyInv /\ RegisterOfThread /\ [Next]_vars => RegisterOfThread'
<1> SUFFICES ASSUME Inv, NumberedInv, KeyInv, RegisterOfThread, [Next]_vars PROVE RegisterOfThread'
  OBVIOUS
<1>1. CASE at' # "ready"
  BY <1>1 DEF RegisterOfThread
<1>2. CASE UNCHANGED vars
  BY <1>2 DEF vars, RegisterOfThread, IdOf, LocationOf, Cpu, Raw
<1>3. CASE OpenFails \/ ReadReturns \/ ReadAgain
  BY <1>3 DEF OpenFails, ReadReturns, ReadAgain, RegisterOfThread, Reply
<1>4. ASSUME NEW r \in Requests, GetMemory(r) PROVE reply'.call = "memory"
  BY <1>4 DEF GetMemory, Reply
<1>5. ASSUME NEW i, ReadString(i) PROVE reply'.call = "string"
  BY <1>5 DEF ReadString, Reply
<1>6. CASE OpenRead \/ ListRefused \/ ListCut \/ ListRead \/ SingleFails \/ ExceptionRead \/ SystemInfoRead
             \/ SkipStream \/ ContextCrashes \/ ContextRead \/ ContextFails \/ Destroy
  <2>1. at' # "ready"
    BY <1>6 DEF OpenRead, ListRefused, ListCut, ListRead, ListAccepted, SingleFails, ExceptionRead,
       SystemInfoRead, SkipStream, ContextCrashes, ContextRead, ContextFails, Destroy, AtStream, NextStream
  <2> QED
    BY <1>1, <2>1
<1>7. ASSUME NEW id, NEW register \in {"ip", "sp", "fp"}, GetRegister(id, register) PROVE RegisterOfThread'
  BY <1>7, RegisterReplies
<1> QED
  BY <1>2, <1>3, <1>4, <1>5, <1>6, <1>7 DEF Next, Read, RegisterOfThread

\* The registers that are given for a thread are its own.
THEOREM RegistersOwn == Spec => []RegisterOfThread
<1>1. Init => NumberedInv
  BY DEF Init, NumberedInv
<1>2. Init => KeyInv
  BY DEF Init, KeyInv
<1>3. Init => RegisterOfThread
  BY DEF Init, RegisterOfThread
<1> QED
  BY <1>1, <1>2, <1>3, NumberedNext, KeyNext, RegisterNext, Invariance, PTL DEF Spec

-----------------------------------------------------------------------------
(***************************************************************************)
(* A complete file: what has been loaded of it wherever the reader stands. *)
(***************************************************************************)

\* The stream d has been read, as far as its list goes.
Passed(d) == d < k \/ (d = k /\ at = "contexts")

\* The items of a file that have a context.
ContextItems == UNION {{d} \X DOMAIN file.dirs[d].items : d \in Entries("thread") \cup Entries("exception")}

\* What has been loaded from a complete file.
LoadInv ==
  Complete =>
    /\ ~sick /\ at # "crashed"
    /\ at = "closed" => k = 1
    /\ at \in {"ready", "gone"} => k > Len(file.dirs)
    /\ \A t \in Lists :
         /\ \A d \in Entries(t) : Passed(d) => lists[t] = file.dirs[d].items
         /\ (\A d \in Entries(t) : ~Passed(d)) => lists[t] = <<>>
    /\ system <=> \E d \in Entries("system") : d < k
    /\ DOMAIN contexts = {IdOf(o) : o \in {i \in ContextItems : Behind(i)}}

\* The shape of a file.
LEMMA Shape ==
  ASSUME PlaceInv
  PROVE  /\ Len(file.dirs) \in Nat /\ DOMAIN file.dirs = 1 .. Len(file.dirs) /\ file.len \in Nat
         /\ \A d \in DOMAIN file.dirs :
              /\ Len(file.dirs[d].items) \in Nat
              /\ DOMAIN file.dirs[d].items = 1 .. Len(file.dirs[d].items)
              /\ file.dirs[d].avail \in Nat
              /\ file.dirs[d].type = "exception" => Len(file.dirs[d].items) = 1
<1>1. file \in Files
  BY DEF PlaceInv
<1>2. /\ Len(file.dirs) \in Nat /\ DOMAIN file.dirs = 1 .. Len(file.dirs) /\ file.len \in Nat
  BY <1>1, FilesAssumption
<1>3. ASSUME NEW d \in DOMAIN file.dirs
   PROVE      /\ Len(file.dirs[d].items) \in Nat
              /\ DOMAIN file.dirs[d].items = 1 .. Len(file.dirs[d].items)
              /\ file.dirs[d].avail \in Nat
              /\ file.dirs[d].type = "exception" => Len(file.dirs[d].items) = 1
  BY <1>1, FilesAssumption
<1> QED
  BY <1>2, <1>3

\* A complete file has one stream of each kind at most.
LEMMA Single ==
  ASSUME PlaceInv, Complete, NEW t \in Lists \cup {"exception", "system"},
         NEW a \in Entries(t), NEW b \in Entries(t)
  PROVE  a = b
<1>1. IsFiniteSet(Entries(t))
  <2>1. Entries(t) \subseteq 1 .. Len(file.dirs) /\ Len(file.dirs) \in Int
    BY Shape DEF Entries
  <2>2. IsFiniteSet(1 .. Len(file.dirs))
    BY <2>1, FS_Interval
  <2> QED
    BY <2>1, <2>2, FS_Subset
<1>2. Cardinality(Entries(t)) \in Nat /\ Cardinality(Entries(t)) <= 1
  BY <1>1, FS_CardinalityType DEF Complete
<1>3. Cardinality(Entries(t)) # 0
  BY <1>1, FS_EmptySet
<1>4. PICK x : Entries(t) = {x}
  BY <1>1, <1>2, <1>3, FS_Singleton
<1> QED
  BY <1>4

\* A list of a complete file is accepted and whole.
LEMMA CompleteList ==
  ASSUME PlaceInv, LoadInv, Complete, AtStream(Lists)
  PROVE  /\ k \in DOMAIN file.dirs /\ k \in Entries(Dir.type)
         /\ lists[Dir.type] = <<>> /\ ~sick
         /\ Size \in {"exact", "padded"}
         /\ Dir.avail >= Lead /\ Len(Dir.items) <= MaxItems
         /\ Dir.avail - Lead >= Len(Dir.items)
<1>1. k \in DOMAIN file.dirs /\ k \in Entries(Dir.type) /\ Dir.type \in Lists /\ at = "streams"
  BY Shape DEF AtStream, PlaceInv, Entries, Dir
<1>2. \A d \in Entries(Dir.type) : ~Passed(d)
  BY <1>1, Single DEF Passed, PlaceInv
<1>3. lists[Dir.type] = <<>> /\ ~sick
  BY <1>1, <1>2 DEF LoadInv
<1>4. /\ Size \in {"exact", "padded"}
      /\ Dir.avail = Len(Dir.items) + 2 /\ Len(Dir.items) <= MaxItems
  BY <1>1 DEF Complete, Size, Dir
<1>5. Len(Dir.items) \in Nat /\ Lead \in {1, 2}
  BY <1>1, Shape DEF Dir, Lead
<1>6. Dir.avail >= Lead /\ Dir.avail - Lead >= Len(Dir.items)
  BY <1>4, <1>5
<1> QED
  BY <1>1, <1>3, <1>4, <1>6

\* The other streams, and the contexts.
LEMMA CompleteSingle ==
  ASSUME PlaceInv, LoadInv, Complete, AtStream({"exception", "system"})
  PROVE  k \in DOMAIN file.dirs /\ ~sick /\ Size = "exact" /\ Dir.avail > 0
<1>1. k \in DOMAIN file.dirs
  BY Shape DEF AtStream, PlaceInv
<1> QED
  BY <1>1 DEF AtStream, LoadInv, Complete, Size, Dir

\* A context that is read can be.
LEMMA CompleteContext ==
  ASSUME PlaceInv, Complete, at = "contexts"
  PROVE  /\ Loc.avail >= 2 /\ Loc.avail \in Nat
         /\ Raw(Loc) = "amd64" \/ (Raw(Loc) = "arm64old" /\ Loc.cpu = "arm64old")
<1>1. k \in DOMAIN file.dirs /\ j \in DOMAIN Dir.items /\ Dir.type \in {"thread", "exception"}
  BY DEF PlaceInv
<1>2. Loc.avail \in Nat
  <2>1. file \in Files
    BY DEF PlaceInv
  <2> QED
    BY <1>1, <2>1, ItemsAssumption, AddrAssumption DEF Dir, Loc
<1>3. \A i \in DOMAIN file.dirs[k].items : LET c == file.dirs[k].items[i].ctx IN
        c.avail >= 2 /\ (Raw(c) = "amd64" \/ (Raw(c) = "arm64old" /\ c.cpu = "arm64old"))
  <2>1. file.dirs[k].type \in {"thread", "exception"}
    BY <1>1 DEF Dir
  <2>2. ASSUME NEW d \in DOMAIN file.dirs, file.dirs[d].type \in {"thread", "exception"},
               NEW i \in DOMAIN file.dirs[d].items
        PROVE  LET c == file.dirs[d].items[i].ctx IN
               c.avail >= 2 /\ (Raw(c) = "amd64" \/ (Raw(c) = "arm64old" /\ c.cpu = "arm64old"))
    BY <2>2 DEF Complete
  <2> QED
    BY <1>1, <2>1, <2>2 DEF Dir
<1> QED
  BY <1>1, <1>2, <1>3 DEF Loc, Dir

\* Being complete is the file's.
LEMMA StillComplete == ASSUME file' = file PROVE (Complete' <=> Complete) /\ (\A t : Entries(t)' = Entries(t))
  BY DEF Complete, Entries, Raw

\* A step that reads no list, no context and no system information.
LEMMA LoadStill ==
  ASSUME PlaceInv, LoadInv, Complete, UNCHANGED <<file, k, j, lists, system, contexts>>, ~sick',
         at' # "crashed", at' = "closed" => at = "closed",
         at' \in {"ready", "gone"} => k > Len(file.dirs),
         \A t \in Lists : \A d \in Entries(t) : Passed(d)' <=> Passed(d)
  PROVE  LoadInv'
<1>1. /\ Complete' = Complete /\ \A t : Entries(t)' = Entries(t)
      /\ \A o : (Behind(o)' <=> Behind(o)) /\ IdOf(o)' = IdOf(o)
      /\ ContextItems' = ContextItems
  BY StillComplete DEF Behind, IdOf, ContextItems, Entries
<1>2. DOMAIN contexts = {IdOf(o) : o \in {i \in ContextItems : Behind(i)}}
  BY DEF LoadInv
<1>3. (DOMAIN contexts = {IdOf(o) : o \in {i \in ContextItems : Behind(i)}})'
  BY <1>1, <1>2
<1> QED
  BY <1>1, <1>3 DEF LoadInv

\* A stream is done with, and no context was to be read for it.
LEMMA LoadMoves ==
  ASSUME PlaceInv, LoadInv, Complete, at = "streams", k \in DOMAIN file.dirs,
         NextStream, UNCHANGED <<file, sick, contexts>>,
         Dir.type \in {"thread", "exception"} => Len(Dir.items) = 0,
         system' = (system \/ Dir.type = "system"), system \in BOOLEAN,
         IF Dir.type \in Lists THEN lists' = [lists EXCEPT ![Dir.type] = Dir.items] ELSE lists' = lists,
         DOMAIN lists = Lists
  PROVE  LoadInv'
<1>1. /\ Complete' = Complete /\ \A t : Entries(t)' = Entries(t)
      /\ \A o : IdOf(o)' = IdOf(o)
      /\ ContextItems' = ContextItems
  BY StillComplete DEF IdOf, ContextItems, Entries
<1>2. k' = k + 1 /\ j' = 1 /\ at' = "streams" /\ j = 1 /\ k \in Nat
  BY DEF NextStream, PlaceInv
<1>3. \A d \in DOMAIN file.dirs : d \in Nat /\ (Passed(d)' <=> Passed(d) \/ d = k)
  BY <1>2, Shape DEF Passed
<1>4. \A o \in ContextItems : Behind(o)' <=> Behind(o)
  <2> SUFFICES ASSUME NEW o \in ContextItems PROVE Behind(o)' <=> Behind(o)
    OBVIOUS
  <2>1. /\ o[1] \in Entries("thread") \cup Entries("exception") /\ o[2] \in DOMAIN file.dirs[o[1]].items
    BY DEF ContextItems
  <2>2. o[1] \in Nat /\ o[2] \in Nat /\ o[2] >= 1 /\ o[1] # k
    BY <2>1, Shape, SMTT(60) DEF Entries, Dir
  <2> QED
    BY <1>2, <2>2 DEF Behind
<1>5. DOMAIN contexts' = {IdOf(o)' : o \in {i \in ContextItems' : Behind(i)'}}
  <2>1. DOMAIN contexts = {IdOf(o) : o \in {i \in ContextItems : Behind(i)}}
    BY DEF LoadInv
  <2> QED
    BY <1>1, <1>4, <2>1
<1>6. ASSUME NEW t \in Lists
      PROVE  /\ \A d \in Entries(t) : Passed(d)' => lists'[t] = file.dirs[d].items
             /\ (\A d \in Entries(t) : ~Passed(d)') => lists'[t] = <<>>
  <2>1. CASE t = Dir.type
    <3>1. k \in Entries(t) /\ lists'[t] = file.dirs[k].items
      BY <2>1 DEF Entries, Dir
    <3>2. \A d \in Entries(t) : d = k
      BY <3>1, Single
    <3> QED
      BY <1>3, <3>1, <3>2
  <2>2. CASE t # Dir.type
    <3>1. lists'[t] = lists[t] /\ k \notin Entries(t)
      BY <2>2 DEF Entries, Dir
    <3>2. \A d \in Entries(t) : d \in DOMAIN file.dirs
      BY DEF Entries
    <3> QED
      BY <1>3, <3>1, <3>2 DEF LoadInv
  <2> QED
    BY <2>1, <2>2
<1>7. system' <=> \E d \in Entries("system") : d < k'
  <2>1. system <=> \E d \in Entries("system") : d < k
    BY DEF LoadInv
  <2>2. \A d \in Entries("system") : d < k + 1 <=> d < k \/ d = k
    BY <1>2, <1>3 DEF Entries
  <2>3. Dir.type = "system" <=> k \in Entries("system")
    BY DEF Entries, Dir
  <2> QED
    BY <1>2, <2>1, <2>2, <2>3
<1> QED
  BY <1>1, <1>2, <1>5, <1>6, <1>7 DEF LoadInv

\* The thread list is read, and its contexts come next.
LEMMA LoadThreads ==
  ASSUME PlaceInv, LoadInv, Complete, at = "streams", k \in DOMAIN file.dirs, at' = "contexts",
         UNCHANGED <<file, k, j, sick, system, contexts>>, Dir.type \in Lists,
         lists' = [lists EXCEPT ![Dir.type] = Dir.items], DOMAIN lists = Lists
  PROVE  LoadInv'
<1>1. /\ Complete' = Complete /\ \A t : Entries(t)' = Entries(t)
      /\ \A o : (Behind(o)' <=> Behind(o)) /\ IdOf(o)' = IdOf(o)
      /\ ContextItems' = ContextItems
  BY StillComplete DEF Behind, IdOf, ContextItems, Entries
<1>2. DOMAIN contexts' = {IdOf(o)' : o \in {i \in ContextItems' : Behind(i)'}}
  <2>1. DOMAIN contexts = {IdOf(o) : o \in {i \in ContextItems : Behind(i)}}
    BY DEF LoadInv
  <2> QED
    BY <1>1, <2>1
<1>3. \A d : Passed(d)' <=> Passed(d) \/ d = k
  BY DEF Passed, PlaceInv
<1>4. ASSUME NEW t \in Lists
      PROVE  /\ \A d \in Entries(t) : Passed(d)' => lists'[t] = file.dirs[d].items
             /\ (\A d \in Entries(t) : ~Passed(d)') => lists'[t] = <<>>
  <2>1. CASE t = Dir.type
    <3>1. k \in Entries(t) /\ lists'[t] = file.dirs[k].items
      BY <2>1 DEF Entries, Dir
    <3>2. \A d \in Entries(t) : d = k
      BY <3>1, Single
    <3> QED
      BY <1>3, <3>1, <3>2
  <2>2. CASE t # Dir.type
    <3>1. lists'[t] = lists[t] /\ k \notin Entries(t)
      BY <2>2 DEF Entries, Dir
    <3> QED
      BY <1>3, <3>1 DEF LoadInv
  <2> QED
    BY <2>1, <2>2
<1> QED
  BY <1>1, <1>2, <1>4 DEF LoadInv

\* A context is read.
LEMMA LoadContext ==
  ASSUME PlaceInv, LoadInv, Complete, ContextRead
  PROVE  LoadInv'
<1>1. /\ Complete' = Complete /\ \A t : Entries(t)' = Entries(t)
      /\ \A o : IdOf(o)' = IdOf(o)
      /\ ContextItems' = ContextItems
  BY StillComplete DEF ContextRead, IdOf, ContextItems, Entries
<1>2. /\ at = "contexts" /\ contexts' = Stored(Here) /\ UNCHANGED <<file, sick, lists, system>>
      /\ IF Dir.type = "thread" /\ j < Len(Dir.items)
         THEN j' = j + 1 /\ UNCHANGED <<k, at>> ELSE NextStream
  BY DEF ContextRead
<1>3. /\ k \in DOMAIN file.dirs /\ j \in DOMAIN Dir.items /\ k \in Nat /\ j \in Nat
      /\ k \in Entries("thread") \cup Entries("exception")
      /\ DOMAIN Dir.items = 1 .. Len(Dir.items) /\ Len(Dir.items) \in Nat
      /\ Dir.type = "exception" => j = Len(Dir.items)
      /\ Dir.type \in {"thread", "exception"}
  BY <1>2, Shape DEF PlaceInv, Entries, Dir
<1>4. \A d \in DOMAIN file.dirs : Passed(d)' <=> Passed(d)
  <2>1. \A d \in DOMAIN file.dirs : d \in Nat
    BY Shape DEF PlaceInv
  <2> QED
    BY <1>2, <1>3, <2>1 DEF Passed, NextStream
<1>5. \A o \in ContextItems : Behind(o)' <=> Behind(o) \/ o = Here
  <2> SUFFICES ASSUME NEW o \in ContextItems PROVE Behind(o)' <=> Behind(o) \/ o = Here
    OBVIOUS
  <2>1. /\ o = <<o[1], o[2]>>
        /\ o[1] \in Entries("thread") \cup Entries("exception") /\ o[2] \in DOMAIN file.dirs[o[1]].items
    BY DEF ContextItems
  <2>2. o[1] \in Nat /\ o[2] \in 1 .. Len(file.dirs[o[1]].items) /\ Len(file.dirs[o[1]].items) \in Nat
    BY <2>1, Shape DEF Entries
  <2>3. o = Here <=> o[1] = k /\ o[2] = j
    BY <2>1 DEF Here
  <2>4. o[1] = k => o[2] \in 1 .. Len(Dir.items)
    BY <2>2 DEF Dir
  <2>5. CASE Dir.type = "thread" /\ j < Len(Dir.items)
    BY <1>2, <1>3, <2>2, <2>3, <2>5 DEF Behind
  <2>6. CASE ~(Dir.type = "thread" /\ j < Len(Dir.items))
    <3>1. j = Len(Dir.items) /\ k' = k + 1 /\ j' = 1
      BY <1>2, <1>3, <2>6 DEF NextStream
    <3> QED
      BY <1>3, <2>2, <2>3, <2>4, <3>1 DEF Behind
  <2> QED
    BY <2>5, <2>6
<1>6. DOMAIN contexts' = {IdOf(o)' : o \in {i \in ContextItems' : Behind(i)'}}
  <2>1. DOMAIN contexts = {IdOf(o) : o \in {i \in ContextItems : Behind(i)}}
    BY DEF LoadInv
  <2>2. DOMAIN contexts' = DOMAIN contexts \cup {IdOf(Here)}
    <3>1. DOMAIN contexts' = DOMAIN contexts \cup {Dir.items[j].id}
      BY <1>2 DEF Stored
    <3>2. IdOf(Here) = Dir.items[j].id
      BY DEF IdOf, Here, Dir
    <3> QED
      BY <3>1, <3>2
  <2>3. Here \in ContextItems
    BY <1>3 DEF Here, ContextItems, Dir
  <2> QED
    BY <1>1, <1>5, <2>1, <2>2, <2>3
<1>7. \A t \in Lists : \A d \in Entries(t) : Passed(d)' <=> Passed(d)
  BY <1>4 DEF Entries
<1>8. (\E d \in Entries("system") : d < k') <=> (\E d \in Entries("system") : d < k)
  <2>1. \A d \in Entries("system") : d \in Nat /\ d # k
    BY <1>3, Shape DEF Entries, Dir
  <2> QED
    BY <1>2, <1>3, <2>1 DEF NextStream
<1>9. ~sick' /\ at' \in {"contexts", "streams"}
  BY <1>2 DEF LoadInv, NextStream
<1> QED
  BY <1>1, <1>2, <1>6, <1>7, <1>8, <1>9 DEF LoadInv

-----------------------------------------------------------------------------
(***************************************************************************)
(* The memory that is stored for a request.                                *)
(***************************************************************************)

\* A remainder, of what is below twice the divisor.
LEMMA Remainder ==
  ASSUME NEW x \in Nat, NEW p \in Nat \ {0}, x < p + p
  PROVE  x % p = IF x < p THEN x ELSE x - p
<1>1. CASE x < p
  BY <1>1
<1>2. CASE x >= p
  BY <1>2
<1> QED
  BY <1>1, <1>2

\* The range m holds what the request r asks for.
Holds(m, r) == m.start <= r.addr /\ r.addr + r.size <= m.start + m.size

\* A range of the file grants a request that begins in it, and of those that
\* do not wrap, those that it holds.
LEMMA Grants ==
  ASSUME NEW m, m.start \in 0 .. (AddrSpace - 1), m.size \in 0 .. (AddrSpace - 1), NEW r \in Requests
  PROVE  /\ Covers(m, r) => /\ m.start <= r.addr /\ r.addr < m.start + m.size
                            /\ m.start + m.size < AddrSpace /\ (~Wraps(r) => Holds(m, r))
         /\ ~Wraps(r) /\ r.size > 0 /\ Holds(m, r) /\ m.start + m.size < AddrSpace => Covers(m, r)
<1> DEFINE end == m.start + m.size
           last == r.addr + r.size
<1>1. /\ AddrSpace \in Nat \ {0} /\ m.start \in Nat /\ m.size \in Nat /\ r.addr \in Nat /\ r.size \in Nat
      /\ m.start < AddrSpace /\ m.size < AddrSpace /\ r.addr < AddrSpace /\ r.size < AddrSpace
  <2>1. r \in [addr: 0 .. (AddrSpace - 1), size: 0 .. (AddrSpace - 1)] /\ AddrSpace \in Nat \ {0}
    BY RequestsAssumption, AddrAssumption
  <2> QED
    BY <2>1
<1>2. end \in Nat /\ end < AddrSpace + AddrSpace /\ last \in Nat /\ last < AddrSpace + AddrSpace
  BY <1>1
<1>3. /\ end % AddrSpace = IF end < AddrSpace THEN end ELSE end - AddrSpace
      /\ last % AddrSpace = IF last < AddrSpace THEN last ELSE last - AddrSpace
  BY <1>1, <1>2, Remainder
<1>4. Covers(m, r) <=> m.start <= r.addr /\ r.addr < end % AddrSpace /\ last % AddrSpace <= end % AddrSpace
  BY DEF Covers
<1> QED
  BY <1>1, <1>3, <1>4 DEF Wraps, Holds

\* As long as the stream is healthy, what is in a list is in the file.
LEMMA ItemsOfFile ==
  ASSUME ListInv, ~sick, NEW t \in Lists, NEW i \in DOMAIN lists[t]
  PROVE  \E d \in Entries(t) : lists[t] = file.dirs[d].items /\ i \in DOMAIN file.dirs[d].items
<1>1. lists[t] # <<>>
  OBVIOUS
<1> QED
  BY <1>1 DEF ListInv, HealthyListsWhole

\* A range of the list, while the stream is readable.
LEMMA MemoryItem ==
  ASSUME PlaceInv, ListInv, ~sick, NEW i \in DOMAIN lists["memory"]
  PROVE  LET m == lists["memory"][i] IN
         /\ m.start \in 0 .. (AddrSpace - 1) /\ m.size \in 0 .. (AddrSpace - 1) /\ m.rva \in Nat
         /\ Complete => m.rva + m.size <= file.len
                        /\ \A r \in Requests : Wraps(r) => m.rva + m.size + r.size <= file.len
<1>1. PICK d \in Entries("memory") : lists["memory"] = file.dirs[d].items /\ i \in DOMAIN file.dirs[d].items
  BY ItemsOfFile DEF Lists
<1>2. file \in Files /\ d \in DOMAIN file.dirs /\ file.dirs[d].type = "memory"
  BY <1>1 DEF PlaceInv, Entries
<1> DEFINE m == file.dirs[d].items[i]
<1>3. {m.start, m.size} \subseteq 0 .. (AddrSpace - 1) /\ m.rva \in Nat
  BY <1>1, <1>2, ItemsAssumption, AddrAssumption
<1>4. ASSUME Complete
      PROVE  m.rva + m.size <= file.len /\ \A r \in Requests : Wraps(r) => m.rva + m.size + r.size <= file.len
  BY <1>1, <1>2, <1>4 DEF Complete
<1> QED
  BY <1>1, <1>3, <1>4

\* What GetMemory gives, and that a complete file stays readable.
LEMMA MemoryGiven ==
  ASSUME Inv, NumberedInv, LoadInv, NEW r \in Requests, GetMemory(r)
  PROVE  /\ reply'.call = "memory" /\ reply'.request = r
         /\ at = "ready" /\ UNCHANGED <<file, at, k, j, lists, system, contexts>>
         /\ Complete => ~sick' /\ (Granting(r) # {} => reply'.ok)
         /\ reply'.ok => ~sick /\ \E i \in Granting(r) :
              reply'.offset = lists["memory"][i].rva + (r.addr - lists["memory"][i].start)
<1> DEFINE first == CHOOSE i \in Granting(r) : \A n \in Granting(r) : i <= n
           m == lists["memory"][first]
           offset == m.rva + (r.addr - m.start)
           whole == r.size = 0 \/ offset + r.size <= file.len
<1>1. /\ at = "ready" /\ UNCHANGED <<file, at, k, j, lists, system, contexts>>
      /\ \/ /\ Granting(r) = {} \/ sick
            /\ reply' = [Reply("memory", FALSE) EXCEPT !.request = r]
            /\ sick' = sick
         \/ /\ Granting(r) # {} /\ ~sick
            /\ reply' = [Reply("memory", whole) EXCEPT !.request = r, !.offset = offset]
            /\ sick' = ~whole
  BY Zenon DEF GetMemory
<1>2. CASE Granting(r) # {} /\ ~sick
  <2>1. Granting(r) \in SUBSET Nat
    BY DEF Granting, NumberedInv, Lists
  <2>2. first \in Granting(r)
    BY <1>2, <2>1, LeastItem
  <2>3. first \in DOMAIN lists["memory"] /\ Covers(m, r)
    BY <2>2 DEF Granting
  <2> HIDE DEF first
  <2>4. /\ m.start \in 0 .. (AddrSpace - 1) /\ m.size \in 0 .. (AddrSpace - 1) /\ m.rva \in Nat
        /\ Complete => m.rva + m.size <= file.len /\ (Wraps(r) => m.rva + m.size + r.size <= file.len)
    BY <1>2, <2>3, MemoryItem DEF Inv
  <2> HIDE DEF m
  <2>5. ASSUME Complete PROVE whole
    <3>1. /\ m.start <= r.addr /\ r.addr < m.start + m.size
          /\ ~Wraps(r) => r.addr + r.size <= m.start + m.size
      BY <2>3, <2>4, Grants DEF Holds
    <3>2. r.addr \in Nat /\ r.size \in Nat /\ m.start \in Nat /\ m.size \in Nat /\ file.len \in Nat
      <4>1. r \in [addr: 0 .. (AddrSpace - 1), size: 0 .. (AddrSpace - 1)] /\ AddrSpace \in Nat \ {0}
        BY RequestsAssumption, AddrAssumption
      <4> QED
        BY <4>1, <2>4, Shape DEF Inv
    <3> QED
      BY <2>4, <2>5, <3>1, <3>2
  <2> HIDE DEF whole
  <2>6. /\ reply' = [Reply("memory", whole) EXCEPT !.request = r, !.offset = offset]
        /\ sick' = ~whole
    BY <1>1, <1>2
  <2>7. reply'.call = "memory" /\ reply'.request = r /\ reply'.ok = whole /\ reply'.offset = offset
    BY <2>6 DEF Reply
  <2> QED
    BY <1>1, <1>2, <2>2, <2>5, <2>6, <2>7 DEF m
<1>3. CASE Granting(r) = {} \/ sick
  <2>1. reply' = [Reply("memory", FALSE) EXCEPT !.request = r] /\ sick' = sick
    BY <1>1, <1>3
  <2>2. reply'.call = "memory" /\ reply'.request = r /\ reply'.ok = FALSE
    BY <2>1 DEF Reply
  <2> QED
    BY <1>1, <1>3, <2>1, <2>2 DEF LoadInv
<1> QED
  BY <1>2, <1>3

\* A step keeps what is said of the answers of GetMemory.
LEMMA MemoryNext ==
  Inv /\ NumberedInv /\ LoadInv /\ MemoryAnswer /\ [Next]_vars => MemoryAnswer'
<1> SUFFICES ASSUME Inv, NumberedInv, LoadInv, MemoryAnswer, [Next]_vars PROVE MemoryAnswer'
  OBVIOUS
<1>1. CASE at' # "ready"
  BY <1>1 DEF MemoryAnswer
<1>2. CASE UNCHANGED vars
  BY <1>2 DEF vars, MemoryAnswer, Wraps, Complete, Entries, Raw
<1>3. CASE OpenFails \/ ReadReturns \/ ReadAgain
  BY <1>3 DEF OpenFails, ReadReturns, ReadAgain, MemoryAnswer, Reply
<1>4. ASSUME NEW r \in Requests, GetMemory(r) PROVE MemoryAnswer'
  <2>1. /\ reply'.call = "memory" /\ reply'.request = r
        /\ at = "ready" /\ UNCHANGED <<file, at, k, j, lists, system, contexts>>
        /\ Complete => ~sick' /\ (Granting(r) # {} => reply'.ok)
        /\ reply'.ok => ~sick /\ \E i \in Granting(r) :
             reply'.offset = lists["memory"][i].rva + (r.addr - lists["memory"][i].start)
    BY <1>4, MemoryGiven
  <2>2. r.addr \in Nat /\ r.size \in Nat
    <3>1. r \in [addr: 0 .. (AddrSpace - 1), size: 0 .. (AddrSpace - 1)] /\ AddrSpace \in Nat \ {0}
      BY RequestsAssumption, AddrAssumption
    <3> QED
      BY <3>1
  <2>3. ASSUME ~Wraps(r), reply'.ok
        PROVE  \E i \in DOMAIN lists["memory"] :
                 LET m == lists["memory"][i] IN Holds(m, r) /\ reply'.offset - m.rva = r.addr - m.start
    <3>1. PICK i \in Granting(r) :
            reply'.offset = lists["memory"][i].rva + (r.addr - lists["memory"][i].start)
      BY <2>1, <2>3
    <3> DEFINE m == lists["memory"][i]
    <3>2. i \in DOMAIN lists["memory"] /\ Covers(m, r)
      BY DEF Granting
    <3>3. /\ m.start \in 0 .. (AddrSpace - 1) /\ m.size \in 0 .. (AddrSpace - 1) /\ m.rva \in Nat
      BY <2>1, <2>3, <3>2, MemoryItem DEF Inv
    <3> HIDE DEF m
    <3>4. Holds(m, r)
      BY <1>4, <2>3, <3>2, <3>3, Grants
    <3>5. m.start \in Nat
      BY <3>3, AddrAssumption
    <3>6. reply'.offset - m.rva = r.addr - m.start
      BY <2>2, <3>1, <3>3, <3>5 DEF m
    <3> QED
      BY <3>2, <3>4, <3>6 DEF m
  <2>4. ASSUME Complete, ~Wraps(r), r.size > 0, NEW i \in DOMAIN lists["memory"],
               Holds(lists["memory"][i], r), lists["memory"][i].start + lists["memory"][i].size < AddrSpace
        PROVE  reply'.ok
    <3> DEFINE m == lists["memory"][i]
    <3>1. ~sick
      BY <2>4 DEF LoadInv
    <3>2. m.start \in 0 .. (AddrSpace - 1) /\ m.size \in 0 .. (AddrSpace - 1)
      BY <2>4, <3>1, MemoryItem DEF Inv
    <3>3. Covers(m, r)
      BY <1>4, <2>4, <3>2, Grants
    <3>4. i \in Granting(r)
      BY <2>4, <3>3 DEF Granting
    <3> QED
      BY <2>1, <2>4, <3>4
  <2>5. Complete' <=> Complete
    BY <2>1, StillComplete
  <2>6. Wraps(r)' <=> Wraps(r)
    BY DEF Wraps
  <2> QED
    BY <2>1, <2>3, <2>4, <2>5, <2>6 DEF MemoryAnswer, Holds, Wraps
<1>5. ASSUME NEW i, ReadString(i) PROVE reply'.call = "string"
  BY <1>5 DEF ReadString, Reply
<1>6. CASE OpenRead \/ ListRefused \/ ListCut \/ ListRead \/ SingleFails \/ ExceptionRead \/ SystemInfoRead
             \/ SkipStream \/ ContextCrashes \/ ContextRead \/ ContextFails \/ Destroy
  <2>1. at' # "ready"
    BY <1>6 DEF OpenRead, ListRefused, ListCut, ListRead, ListAccepted, SingleFails, ExceptionRead,
       SystemInfoRead, SkipStream, ContextCrashes, ContextRead, ContextFails, Destroy, AtStream, NextStream
  <2> QED
    BY <1>1, <2>1
<1>7. ASSUME NEW id, NEW register \in {"ip", "sp", "fp"}, GetRegister(id, register) PROVE reply'.call = "register"
  <2> DEFINE answer == [Reply("register", FALSE) EXCEPT !.id = id, !.thread = GetThread(id)]
             offset(o) == IF Raw(LocationOf(o)) = "arm64old"
                          THEN OldRegisterAt[register] ELSE RegisterAt[Cpu(o)][register]
             read(o) == [answer EXCEPT !.ok = TRUE, !.object = o, !.register = register, !.offset = offset(o)]
  <2>1. reply' = answer \/ \E o : reply' = read(o)
    BY <1>7, Zenon DEF GetRegister
  <2> HIDE DEF offset
  <2> QED
    BY <2>1 DEF Reply
<1> QED
  BY <1>2, <1>3, <1>4, <1>5, <1>6, <1>7 DEF Next, Read, MemoryAnswer

\* A name is read: a complete file stays readable.
LEMMA StringGiven ==
  ASSUME Inv, LoadInv, Complete, NEW i \in DOMAIN lists["module"], ReadString(i)
  PROVE  /\ ~sick'
         /\ at = "ready" /\ UNCHANGED <<file, at, k, j, lists, system, contexts>>
<1>1. ~sick
  BY DEF LoadInv
<1>2. PICK d \in Entries("module") : lists["module"] = file.dirs[d].items /\ i \in DOMAIN file.dirs[d].items
  BY <1>1, ItemsOfFile DEF Lists, Inv
<1> DEFINE name == lists["module"][i].name
           valid == name.bytes % 2 = 0 /\ name.bytes \div 2 <= MaxWords
           needed == IF valid /\ name.bytes > 0 THEN 2 ELSE 1
<1>3. name.avail >= 2
  BY <1>2 DEF Complete, Entries
<1>4. name.avail \in Nat
  <2>1. file \in Files /\ d \in DOMAIN file.dirs /\ file.dirs[d].type = "module"
    BY DEF Inv, PlaceInv, Entries
  <2> QED
    BY <1>2, <2>1, ItemsAssumption, AddrAssumption
<1>5. sick' = (sick \/ name.avail < needed) /\ at = "ready" /\ UNCHANGED <<file, at, k, j, lists, system, contexts>>
  BY Zenon DEF ReadString
<1>6. needed \in {1, 2}
  OBVIOUS
<1> HIDE DEF needed, name
<1>7. ~(name.avail < needed)
  BY <1>3, <1>4, <1>6
<1> QED
  BY <1>1, <1>5, <1>7

\* A complete file is loaded on, step by step.
LEMMA LoadNext == Inv /\ Sane /\ LoadInv /\ NumberedInv /\ [Next]_vars => LoadInv'
<1> SUFFICES ASSUME Inv, Sane, LoadInv, NumberedInv, [Next]_vars PROVE LoadInv'
  OBVIOUS
<1> USE DEF Inv
<1>0. file' = file
  BY Forward
<1>1. CASE ~Complete
  BY <1>0, <1>1, StillComplete DEF LoadInv
<1>2. ASSUME Complete, OpenRead \/ OpenFails PROVE LoadInv'
  <2>1. /\ at = "closed" /\ at' = "streams" /\ ~sick
        /\ UNCHANGED <<file, k, j, sick, lists, system, contexts>>
    BY <1>2 DEF OpenRead, OpenFails, Complete, LoadInv
  <2> QED
    BY <1>2, <2>1, LoadStill DEF Passed
<1>3. ASSUME Complete, ListRefused \/ ListCut PROVE FALSE
  <2>1. AtStream(Lists)
    BY <1>3 DEF ListRefused, ListCut, ListAccepted
  <2>2. /\ k \in DOMAIN file.dirs /\ lists[Dir.type] = <<>> /\ ~sick
        /\ Size \in {"exact", "padded"}
        /\ Dir.avail >= Lead /\ Len(Dir.items) <= MaxItems
        /\ Dir.avail - Lead >= Len(Dir.items)
    BY <1>3, <2>1, CompleteList
  <2>3. Len(Dir.items) \in Nat /\ Dir.avail \in Nat /\ Lead \in Nat
    BY <2>2, Shape DEF Dir, Lead
  <2>4. CASE ListRefused
    BY <2>2, <2>3, <2>4, MaxItemsAssumption DEF ListRefused
  <2>5. CASE ListCut
    BY <2>2, <2>3, <2>5 DEF ListCut
  <2> QED
    BY <1>3, <2>4, <2>5
<1>4. ASSUME Complete, ListRead PROVE LoadInv'
  <2>1. AtStream(Lists) /\ at = "streams" /\ Dir.type \in Lists /\ k \in DOMAIN file.dirs
    BY <1>4, CompleteList DEF ListRead, ListAccepted, AtStream
  <2>2. /\ lists' = [lists EXCEPT ![Dir.type] = Dir.items]
        /\ UNCHANGED <<file, sick, system, contexts>>
        /\ IF Dir.type = "thread" /\ Len(Dir.items) > 0
           THEN at' = "contexts" /\ UNCHANGED <<k, j>> ELSE NextStream
    BY <1>4 DEF ListRead
  <2>3. Len(Dir.items) \in Nat
    BY <2>1, Shape DEF Dir
  <2>4. DOMAIN lists = Lists
    BY DEF ListInv
  <2>5. CASE Dir.type = "thread" /\ Len(Dir.items) > 0
    BY <1>4, <2>1, <2>2, <2>4, <2>5, LoadThreads
  <2>6. CASE ~(Dir.type = "thread" /\ Len(Dir.items) > 0)
    <3>1. system' = (system \/ Dir.type = "system") /\ system \in BOOLEAN
      BY <2>1, <2>2 DEF Lists, Sane
    <3>2. Dir.type \in {"thread", "exception"} => Len(Dir.items) = 0
      BY <2>1, <2>3, <2>6 DEF Lists
    <3> QED
      BY <1>4, <2>1, <2>2, <2>4, <2>6, <3>1, <3>2, LoadMoves
  <2> QED
    BY <2>5, <2>6
<1>5. ASSUME Complete, SingleFails PROVE LoadInv'
  <2>1. AtStream({"exception", "system"})
    BY <1>5 DEF SingleFails
  <2>2. k \in DOMAIN file.dirs /\ ~sick /\ Size = "exact" /\ Dir.avail > 0
    BY <1>5, <2>1, CompleteSingle
  <2> QED
    BY <1>5, <2>2 DEF SingleFails
<1>6. ASSUME Complete, ExceptionRead PROVE LoadInv'
  <2>1. /\ AtStream({"exception"}) /\ at' = "contexts" /\ at = "streams" /\ Dir.type = "exception"
        /\ UNCHANGED <<file, k, j, sick, lists, system, contexts>> /\ ~sick
    BY <1>6 DEF ExceptionRead, AtStream
  <2>2. \A t \in Lists : \A d \in Entries(t) : Passed(d)' <=> Passed(d)
    BY <2>1 DEF Passed, Entries, Lists, Dir
  <2> QED
    BY <1>6, <2>1, <2>2, LoadStill
<1>7. ASSUME Complete, SystemInfoRead \/ SkipStream PROVE LoadInv'
  <2>1. /\ at = "streams" /\ k <= Len(file.dirs) /\ NextStream
        /\ UNCHANGED <<file, sick, lists, contexts>>
        /\ Dir.type \in {"system", "other"}
        /\ system' = (system \/ Dir.type = "system")
    BY <1>7 DEF SystemInfoRead, SkipStream, AtStream, Sane
  <2>2. k \in DOMAIN file.dirs
    BY <2>1, Shape DEF PlaceInv
  <2> QED
    BY <1>7, <2>1, <2>2, LoadMoves DEF Lists, Sane, ListInv
<1>8. ASSUME Complete, ContextCrashes \/ ContextFails PROVE FALSE
  <2>1. at = "contexts"
    BY <1>8 DEF ContextCrashes, ContextFails
  <2>2. /\ Loc.avail >= 2 /\ Loc.avail \in Nat
        /\ Raw(Loc) = "amd64" \/ (Raw(Loc) = "arm64old" /\ Loc.cpu = "arm64old")
    BY <1>8, <2>1, CompleteContext
  <2>3. CASE ContextCrashes
    BY <2>2, <2>3 DEF ContextCrashes
  <2>4. CASE ContextFails
    BY <2>2, <2>4 DEF ContextFails, Short, Refused
  <2> QED
    BY <1>8, <2>3, <2>4
<1>9. ASSUME Complete, ContextRead PROVE LoadInv'
  BY <1>9, LoadContext
<1>10. ASSUME Complete, ReadReturns PROVE LoadInv'
  <2>1. /\ at = "streams" /\ at' = "ready" /\ k > Len(file.dirs) /\ ~sick
        /\ UNCHANGED <<file, k, j, sick, lists, system, contexts>>
    BY <1>10 DEF ReadReturns, LoadInv
  <2> QED
    BY <1>10, <2>1, LoadStill DEF Passed
<1>11. ASSUME Complete, at = "ready", at' \in {"ready", "gone"}, ~sick',
              UNCHANGED <<file, k, j, lists, system, contexts>>
       PROVE  LoadInv'
  BY <1>11, LoadStill DEF Passed, LoadInv
<1>12. ASSUME Complete, NEW r \in Requests, GetMemory(r) PROVE LoadInv'
  BY <1>11, <1>12, MemoryGiven
<1>13. ASSUME Complete, NEW i \in DOMAIN lists["module"], ReadString(i) PROVE LoadInv'
  BY <1>11, <1>13, StringGiven
<1>14. ASSUME Complete, NEW id, NEW register, GetRegister(id, register) PROVE LoadInv'
  <2>1. Answers /\ sick' = sick
    BY <1>14, RegisterAnswers
  <2> QED
    BY <1>11, <1>14, <2>1 DEF Answers, LoadInv
<1>15. ASSUME Complete, ReadAgain \/ Destroy PROVE LoadInv'
  <2>1. ~sick
    BY <1>15 DEF LoadInv
  <2>2. at = "ready" /\ at' \in {"ready", "gone"} /\ ~sick' /\ UNCHANGED <<file, k, j, lists, system, contexts>>
    <3>1. CASE ReadAgain
      BY <2>1, <3>1 DEF ReadAgain
    <3>2. CASE Destroy
      BY <2>1, <3>2 DEF Destroy
    <3> QED
      BY <1>15, <3>1, <3>2
  <2> QED
    BY <1>11, <1>15, <2>2
<1>16. ASSUME Complete, UNCHANGED vars PROVE LoadInv'
  BY <1>16, LoadStill DEF vars, Passed, LoadInv
<1> QED
  BY <1>1, <1>2, <1>3, <1>4, <1>5, <1>6, <1>7, <1>8, <1>9, <1>10, <1>12, <1>13, <1>14, <1>15, <1>16
  DEF Next, Read

\* Nothing has been loaded yet.
LEMMA LoadInit == Init => LoadInv
<1> SUFFICES ASSUME Init PROVE LoadInv
  OBVIOUS
<1>1. /\ file \in Files /\ at = "closed" /\ k = 1 /\ j = 1 /\ sick = FALSE /\ system = FALSE
      /\ DOMAIN contexts = {} /\ \A t \in Lists : lists[t] = <<>>
  BY DEF Init
<1>2. \A d \in DOMAIN file.dirs : d \in Nat /\ ~(d < k)
  <2>1. Len(file.dirs) \in Nat /\ DOMAIN file.dirs = 1 .. Len(file.dirs)
    BY <1>1, FilesAssumption
  <2> QED
    BY <1>1, <2>1
<1>3. \A t : Entries(t) \subseteq DOMAIN file.dirs
  BY DEF Entries
<1>4. \A t \in Lists \cup {"system", "exception"} : \A d \in Entries(t) : ~Passed(d)
  BY <1>1, <1>2, <1>3 DEF Passed
<1>5. \A o \in ContextItems : ~Behind(o)
  <2> SUFFICES ASSUME NEW o \in ContextItems, Behind(o) PROVE FALSE
    OBVIOUS
  <2>1. o[1] \in DOMAIN file.dirs /\ o[2] \in DOMAIN file.dirs[o[1]].items
    BY <1>3 DEF ContextItems
  <2>2. o[1] \in Nat /\ ~(o[1] < k)
    BY <1>2, <2>1
  <2>3. o[2] \in Nat \ {0}
    <3>1. DOMAIN file.dirs[o[1]].items = 1 .. Len(file.dirs[o[1]].items) /\ Len(file.dirs[o[1]].items) \in Nat
      BY <1>1, <2>1, FilesAssumption
    <3> QED
      BY <2>1, <3>1
  <2> QED
    BY <1>1, <2>2, <2>3 DEF Behind
<1> QED
  BY <1>1, <1>2, <1>3, <1>4, <1>5 DEF LoadInv

\* The answers of GetMemory: the request that does not wrap gets the bytes
\* stored for its addresses, and in a complete file it gets them.
THEOREM MemoryAnswered == Spec => []MemoryAnswer
<1>1. Init => NumberedInv
  BY DEF Init, NumberedInv
<1>2. Init => Sane
  BY DEF Init, Sane
<1>3. Init => LoadInv
  BY LoadInit
<1>4. Init => MemoryAnswer
  BY DEF Init, MemoryAnswer
<1> QED
  BY <1>1, <1>2, <1>3, <1>4, NumberedNext, SaneNext, LoadNext, MemoryNext, Invariance, PTL DEF Spec

-----------------------------------------------------------------------------
(***************************************************************************)
(* Recursive functions on a finite domain.  The value at x comes from the  *)
(* value at next[x], which has a lower rank.                               *)
(***************************************************************************)
Descends(D, rank, next, n) ==
  /\ rank \in [D -> 0 .. n]
  /\ \A x \in D : rank[x] # 0 => next[x] \in D /\ rank[next[x]] < rank[x]

\* The steps stay in V.
Stays(D, rank, F, V) == \A x \in D : rank[x] # 0 => \A v \in V : F[x][v] \in V

\* f is the function with the value a at rank 0 and the step F.
Follows(f, D, rank, next, a, F) ==
  \A x \in D : f[x] = IF rank[x] = 0 THEN a ELSE F[x][f[next[x]]]

\* There is one, with its values in V.
LEMMA Recursion ==
  ASSUME NEW n \in Nat, NEW D, NEW rank, NEW next, Descends(D, rank, next, n),
         NEW V, NEW a \in V, NEW F, Stays(D, rank, F, V)
  PROVE  \E f \in [D -> V] : Follows(f, D, rank, next, a, F)
<1> DEFINE Is(f, x) == f[x] = IF rank[x] = 0 THEN a ELSE F[x][f[next[x]]]
           Done(m) == \E f \in [D -> V] : \A x \in D : rank[x] <= m => Is(f, x)
           Bad == {m \in 0 .. n : ~Done(m)}
<1>1. SUFFICES ASSUME Bad # {} PROVE FALSE
  <2>1. Done(n)
    BY <1>1
  <2>2. \A x \in D : rank[x] <= n
    BY DEF Descends
  <2> QED
    BY <2>1, <2>2 DEF Follows
<1>2. PICK m \in Bad : \A y \in Bad : m <= y
  <2>1. Bad \in SUBSET Nat
    OBVIOUS
  <2> HIDE DEF Bad
  <2> QED
    BY <1>1, <2>1, HasLeast
<1>3. m \in 0 .. n /\ ~Done(m)
  BY <1>2
<1>4. PICK f \in [D -> V] : m # 0 => \A x \in D : rank[x] <= m - 1 => Is(f, x)
  <2>1. CASE m = 0
    <3>1. [x \in D |-> a] \in [D -> V]
      OBVIOUS
    <3> QED
      BY <2>1, <3>1
  <2>2. CASE m # 0
    <3>1. m - 1 \in 0 .. n /\ ~(m <= m - 1)
      BY <1>3, <2>2
    <3>2. Done(m - 1)
      BY <1>2, <3>1
    <3> QED
      BY <3>2
  <2> QED
    BY <2>1, <2>2
<1> DEFINE h == [x \in D |-> IF rank[x] = 0 THEN a ELSE F[x][f[next[x]]]]
<1>5. h \in [D -> V]
  BY DEF Descends, Stays
<1>6. ASSUME NEW x \in D, rank[x] <= m PROVE Is(h, x)
  <2>1. CASE rank[x] = 0
    BY <2>1
  <2>2. CASE rank[x] # 0
    <3>1. next[x] \in D /\ rank[next[x]] < rank[x] /\ rank[x] \in 0 .. n /\ rank[next[x]] \in 0 .. n
      BY <2>2 DEF Descends
    <3>2. m # 0 /\ rank[next[x]] <= m - 1
      BY <1>3, <1>6, <2>2, <3>1
    <3>3. Is(f, next[x])
      BY <1>4, <3>1, <3>2
    <3>4. h[next[x]] = f[next[x]]
      BY <3>1, <3>3
    <3> QED
      BY <2>2, <3>4
  <2> QED
    BY <2>1, <2>2
<1> HIDE DEF Is, h
<1>7. Done(m)
  BY <1>5, <1>6
<1> QED
  BY <1>3, <1>7

\* What holds at rank 0, and at x if it holds at next[x], holds everywhere.
LEMMA Along ==
  ASSUME NEW n \in Nat, NEW D, NEW rank, NEW next, Descends(D, rank, next, n),
         NEW S, \A x \in D : rank[x] = 0 \/ next[x] \in S => x \in S
  PROVE  \A x \in D : x \in S
<1> DEFINE Bad == {rank[x] : x \in D \ S}
<1>1. SUFFICES ASSUME Bad # {} PROVE FALSE
  BY <1>1
<1>2. PICK m \in Bad : \A y \in Bad : m <= y
  <2>1. Bad \in SUBSET Nat
    BY DEF Descends
  <2> HIDE DEF Bad
  <2> QED
    BY <1>1, <2>1, HasLeast
<1>3. PICK x \in D \ S : rank[x] = m
  BY <1>2
<1>4. rank[x] # 0 /\ next[x] \in D \ S /\ rank[next[x]] < rank[x]
  BY <1>3 DEF Descends
<1>5. rank[x] \in Nat /\ rank[next[x]] \in Nat /\ rank[next[x]] \in Bad
  BY <1>4 DEF Descends
<1> QED
  BY <1>2, <1>3, <1>4, <1>5

\* A step from each number up to n + 1 descends to n + 1.
LEMMA Onwards ==
  ASSUME NEW n \in Nat, NEW next, \A i \in 1 .. n : next[i] \in (i + 1) .. (n + 1)
  PROVE  Descends(1 .. (n + 1), [i \in 1 .. (n + 1) |-> n + 1 - i], next, n)
<1> DEFINE D == 1 .. (n + 1)
           rank == [i \in D |-> n + 1 - i]
<1>1. rank \in [D -> 0 .. n]
  OBVIOUS
<1>2. ASSUME NEW i \in D, rank[i] # 0 PROVE next[i] \in D /\ rank[next[i]] < rank[i]
  <2>1. i \in 1 .. n
    BY <1>2
  <2>2. next[i] \in (i + 1) .. (n + 1)
    BY <2>1
  <2> QED
    BY <2>1, <2>2
<1> QED
  BY <1>1, <1>2 DEF Descends

-----------------------------------------------------------------------------
(***************************************************************************)
(* UTF-8: the bytes of an encoding, decoded one after the other, give its  *)
(* code point, whatever text lies behind it.                               *)
(***************************************************************************)

Byte == 0 .. 255
\* A byte that begins a code point, and the bits of it that a byte carries.
LeadByte(b) == b < 128 \/ b >= 192
Payload(b) == IF b < 128 THEN b ELSE IF b < 192 THEN b % 64
              ELSE IF b < 224 THEN b % 32 ELSE IF b < 240 THEN b % 16 ELSE b % 8

LEMMA PayloadNat == \A b \in Byte : Payload(b) \in Nat
  BY DEF Payload, Byte

\* The code points so far, and one more byte.
Taken(seen, b) ==
  IF LeadByte(b) THEN Append(seen, Payload(b))
  ELSE [seen EXCEPT ![Len(seen)] = @ * 64 + Payload(b)]

\* They stay numbers.
LEMMA TakenNats ==
  ASSUME NEW seen \in Seq(Nat), NEW b \in Byte
  PROVE  Taken(seen, b) \in Seq(Nat)
<1>1. Payload(b) \in Nat
  BY PayloadNat
<1>2. CASE LeadByte(b)
  BY <1>1, <1>2 DEF Taken
<1>3. CASE ~LeadByte(b)
  <2> DEFINE n == Len(seen)
             t == [seen EXCEPT ![n] = @ * 64 + Payload(b)]
  <2>1. n \in Nat /\ DOMAIN seen = 1 .. n
    OBVIOUS
  <2>2. ASSUME NEW i \in 1 .. n PROVE t[i] \in Nat
    <3>1. seen[i] \in Nat
      OBVIOUS
    <3>2. seen[i] * 64 + Payload(b) \in Nat
      BY <1>1, <3>1
    <3> QED
      BY <2>1, <3>1, <3>2
  <2>3. t \in [1 .. n -> Nat]
    BY <2>1, <2>2
  <2>4. t \in Seq(Nat)
    <3> HIDE DEF t
    <3> QED
      BY <2>1, <2>3
  <2> QED
    BY <1>3, <2>4 DEF Taken
<1> QED
  BY <1>2, <1>3

\* The code points that the bytes give one after the other.
LEMMA DecodedValue ==
  ASSUME NEW bytes \in Seq(Byte)
  PROVE  \E upto \in [0 .. Len(bytes) -> Seq(Nat)] :
           /\ Decoded(bytes) = upto[Len(bytes)]
           /\ upto[0] = <<>>
           /\ \A i \in 1 .. Len(bytes) : upto[i] = Taken(upto[i - 1], bytes[i])
<1> DEFINE n == Len(bytes)
           D == 0 .. n
           V == Seq(Nat)
           none == <<>>
           Value(f, i) == IF i = 0 THEN <<>> ELSE Taken(f[i - 1], bytes[i])
           rank == [i \in D |-> i]
           next == [i \in D |-> i - 1]
           F == [i \in D |-> [v \in V |-> Taken(v, bytes[i])]]
           upto == CHOOSE f : f = [i \in D |-> Value(f, i)]
<1>1. n \in Nat /\ \A i \in 1 .. n : bytes[i] \in Byte
  OBVIOUS
<1>2. Descends(D, rank, next, n)
  BY <1>1 DEF Descends
<1>3. Stays(D, rank, F, V)
  <2> SUFFICES ASSUME NEW i \in D, rank[i] # 0, NEW v \in V PROVE F[i][v] \in V
    BY DEF Stays
  <2>1. bytes[i] \in Byte /\ F[i][v] = Taken(v, bytes[i])
    BY <1>1
  <2> QED
    BY <2>1, TakenNats
<1>4. PICK f \in [D -> V] : Follows(f, D, rank, next, none, F)
  <2>1. none \in V
    OBVIOUS
  <2> HIDE DEF n, D, V, none, rank, next, F
  <2> QED
    BY <1>1, <1>2, <1>3, <2>1, Recursion
<1>5. ASSUME NEW i \in D PROVE f[i] = Value(f, i)
  <2>1. CASE i = 0
    BY <1>4, <2>1 DEF Follows
  <2>2. CASE i # 0
    <3>1. i - 1 \in D /\ next[i] = i - 1 /\ rank[i] # 0
      BY <1>1, <2>2
    <3>3. f[i - 1] \in V
      BY <1>4, <3>1
    <3>2. f[i] = F[i][f[i - 1]]
      BY <1>4, <3>1 DEF Follows
    <3> QED
      BY <2>2, <3>1, <3>2, <3>3
  <2> QED
    BY <2>1, <2>2
<1>6. f = [i \in D |-> Value(f, i)]
  BY <1>4, <1>5
<1>7. upto = [i \in D |-> Value(upto, i)]
  BY <1>6
<1>8. Decoded(bytes) = upto[n]
  BY DEF Decoded, Taken, LeadByte, Payload
<1> HIDE DEF upto
<1>9. upto[0] = <<>> /\ \A i \in 1 .. n : upto[i] = Taken(upto[i - 1], bytes[i])
  BY <1>1, <1>7
<1>10. \A i \in D : upto[i] \in Seq(Nat)
  <2> DEFINE S == {i \in D : upto[i] \in Seq(Nat)}
  <2>1. ASSUME NEW i \in D, rank[i] = 0 \/ next[i] \in S PROVE i \in S
    <3>1. CASE i = 0
      <4>1. <<>> \in Seq(Nat)
        OBVIOUS
      <4> QED
        BY <1>9, <3>1, <4>1
    <3>2. CASE i # 0
      <4>1. i \in 1 .. n /\ upto[i - 1] \in Seq(Nat)
        BY <1>1, <2>1, <3>2
      <4> QED
        BY <1>1, <1>9, <4>1, TakenNats
    <3> QED
      BY <3>1, <3>2
  <2>2. \A i \in D : i \in S
    <3> HIDE DEF D, rank, next, S
    <3> QED
      BY <1>1, <1>2, <2>1, Along
  <2> QED
    BY <2>2
<1>11. upto \in [D -> Seq(Nat)]
  BY <1>7, <1>10
<1> QED
  BY <1>8, <1>9, <1>11

\* The code points of Unicode, and the surrogates.
Scalar == {n \in Nat : n < 1114112}

\* An encoding is a lead byte and up to three bytes that are none.
LEMMA EncodedBytes ==
  ASSUME NEW c \in Scalar
  PROVE  /\ Encoded(c) \in Seq(Byte) /\ Len(Encoded(c)) \in 1 .. 4
         /\ LeadByte(Encoded(c)[1])
<1>1. c \in Nat /\ c < 1114112
  BY SMT DEF Scalar
<1>2. \A n \in Nat : Tail6(n) \in Byte
  BY SMT DEF Tail6, Byte
<1>3. c \div 64 \in Nat /\ c \div 4096 \in Nat
  BY <1>1, SMT
<1>4. CASE c < 128
  BY <1>1, <1>4, SMT DEF Encoded, Byte, LeadByte
<1>5. CASE 128 <= c /\ c < 2048
  <2>1. Encoded(c) = <<192 + (c \div 64), Tail6(c)>>
    BY <1>1, <1>5, SMT DEF Encoded
  <2>2. 192 + (c \div 64) \in Byte /\ LeadByte(192 + (c \div 64))
    BY <1>1, <1>5, SMT DEF Byte, LeadByte
  <2> QED
    BY <1>1, <1>2, <2>1, <2>2, SMT
<1>6. CASE 2048 <= c /\ c < 65536
  <2>1. Encoded(c) = <<224 + (c \div 4096), Tail6(c \div 64), Tail6(c)>>
    BY <1>1, <1>6, SMT DEF Encoded
  <2>2. 224 + (c \div 4096) \in Byte /\ LeadByte(224 + (c \div 4096))
    BY <1>1, <1>6, SMT DEF Byte, LeadByte
  <2> QED
    BY <1>1, <1>2, <1>3, <2>1, <2>2, SMT
<1>7. CASE 65536 <= c
  <2>1. Encoded(c) = <<240 + (c \div 262144), Tail6(c \div 4096), Tail6(c \div 64), Tail6(c)>>
    BY <1>1, <1>7, SMT DEF Encoded
  <2>2. 240 + (c \div 262144) \in Byte /\ LeadByte(240 + (c \div 262144))
    BY <1>1, <1>7, SMT DEF Byte, LeadByte
  <2> QED
    BY <1>1, <1>2, <1>3, <2>1, <2>2, SMT
<1> QED
  BY <1>1, <1>4, <1>5, <1>6, <1>7, SMT

\* The bytes of an encoding, taken one after the other, give the code point.
One(x) == <<x>>

More(x, n) == x * 64 + (n % 64)

LEMMA EncodedTaken ==
  ASSUME NEW c \in Scalar, NEW u, u[0] = <<>>,
         \A i \in 1 .. Len(Encoded(c)) : u[i] = Taken(u[i - 1], Encoded(c)[i])
  PROVE  u[Len(Encoded(c))] = <<c>>
<1>1. c \in Nat /\ c < 1114112
  BY SMT DEF Scalar
<1>0. c \in Nat
  BY <1>1, SMT
<1>2. \A b : LeadByte(b) => Taken(<<>>, b) = One(Payload(b))
  BY SMT DEF Taken, One
<1>3. \A x \in Nat : \A b : ~LeadByte(b) => Taken(<<x>>, b) = <<x * 64 + Payload(b)>>
  BY SMT DEF Taken
<1>4. \A x, n \in Nat : Taken(One(x), Tail6(n)) = One(More(x, n))
  <2> SUFFICES ASSUME NEW x \in Nat, NEW n \in Nat PROVE Taken(One(x), Tail6(n)) = One(More(x, n))
    OBVIOUS
  <2>1. ~LeadByte(Tail6(n)) /\ Payload(Tail6(n)) = n % 64
    BY SMT DEF Tail6, LeadByte, Payload
  <2> QED
    BY <1>3, <2>1, SMT DEF One, More
<1>5. c \div 64 \in Nat /\ c \div 4096 \in Nat /\ c \div 262144 \in Nat
  BY <1>1, SMT
<1>6. CASE c < 128
  <2>1. Encoded(c) = <<c>> /\ LeadByte(c) /\ Payload(c) = c
    BY <1>1, <1>6, SMT DEF Encoded, LeadByte, Payload
  <2>2. u[1] = Taken(<<>>, c)
    BY <2>1, SMT
  <2> QED
    BY <1>1, <1>2, <2>1, <2>2, SMT DEF One
<1>7. CASE 128 <= c /\ c < 2048
  <2> DEFINE a == c \div 64
  <2>1. Encoded(c) = <<192 + a, Tail6(c)>>
    BY <1>1, <1>7, SMT DEF Encoded
  <2>2. LeadByte(192 + a) /\ Payload(192 + a) = a
    BY <1>1, <1>7, SMT DEF LeadByte, Payload
  <2>3. c = More(a, c) /\ a \in Nat
    BY <1>1, SMT DEF More
  <2> HIDE DEF a
  <2>4. u[1] = Taken(<<>>, 192 + a) /\ u[2] = Taken(u[1], Tail6(c)) /\ Len(Encoded(c)) = 2
    BY <2>1, SMT
  <2>5. u[1] = One(a)
    BY <1>2, <2>2, <2>3, <2>4, SMT
  <2>6. u[2] = One(c)
    BY <1>0, <1>4, <2>3, <2>4, <2>5, SMT
  <2> QED
    BY <2>4, <2>6, SMT DEF One
<1>8. CASE 2048 <= c /\ c < 65536
  <2> DEFINE a == c \div 4096
             b == c \div 64
  <2>1. Encoded(c) = <<224 + a, Tail6(b), Tail6(c)>>
    BY <1>1, <1>8, SMT DEF Encoded
  <2>2. LeadByte(224 + a) /\ Payload(224 + a) = a
    BY <1>1, <1>8, SMT DEF LeadByte, Payload
  <2>3. b = More(a, b) /\ c = More(b, c) /\ a \in Nat /\ b \in Nat
    BY <1>1, SMT DEF More
  <2> HIDE DEF a, b
  <2>4. /\ u[1] = Taken(<<>>, 224 + a) /\ u[2] = Taken(u[1], Tail6(b)) /\ u[3] = Taken(u[2], Tail6(c))
        /\ Len(Encoded(c)) = 3
    BY <2>1, SMT
  <2>5. u[1] = One(a)
    BY <1>2, <2>2, <2>3, <2>4, SMT
  <2>6. u[2] = One(b)
    BY <1>4, <2>3, <2>4, <2>5, SMT
  <2>7. u[3] = One(c)
    BY <1>0, <1>4, <2>3, <2>4, <2>6, SMT
  <2> QED
    BY <2>4, <2>7, SMT DEF One
<1>9. CASE 65536 <= c
  <2> DEFINE a == c \div 262144
             b == c \div 4096
             d == c \div 64
  <2>1. Encoded(c) = <<240 + a, Tail6(b), Tail6(d), Tail6(c)>>
    BY <1>1, <1>9, SMTT(60) DEF Encoded
  <2>2. LeadByte(240 + a) /\ Payload(240 + a) = a
    BY <1>1, <1>9, SMT DEF LeadByte, Payload
  <2>3. /\ b = More(a, b) /\ d = More(b, d) /\ c = More(d, c)
        /\ a \in Nat /\ b \in Nat /\ d \in Nat
    BY <1>1, SMT DEF More
  <2> HIDE DEF a, b, d
  <2>4. /\ u[1] = Taken(<<>>, 240 + a) /\ u[2] = Taken(u[1], Tail6(b)) /\ u[3] = Taken(u[2], Tail6(d))
        /\ u[4] = Taken(u[3], Tail6(c)) /\ Len(Encoded(c)) = 4
    BY <2>1, SMT
  <2>5. u[1] = One(a)
    BY <1>2, <2>2, <2>3, <2>4, SMT
  <2>6. u[2] = One(b)
    BY <1>4, <2>3, <2>4, <2>5, SMT
  <2>7. u[3] = One(d)
    BY <1>4, <2>3, <2>4, <2>6, SMT
  <2>8. u[4] = One(c)
    BY <1>0, <1>4, <2>3, <2>4, <2>7, SMT
  <2> QED
    BY <2>4, <2>8, SMT DEF One
<1> QED
  BY <1>1, <1>6, <1>7, <1>8, <1>9, SMT

\* One more byte does to a text behind a code point what it does to the text.
LEMMA TakenAfter ==
  ASSUME NEW c \in Nat, NEW seen \in Seq(Nat), NEW b \in Byte, LeadByte(b) \/ Len(seen) >= 1
  PROVE  /\ Taken(<<c>> \o seen, b) = <<c>> \o Taken(seen, b)
         /\ Len(Taken(seen, b)) >= 1
<1> DEFINE n == Len(seen)
           s == <<c>> \o seen
           new == Taken(seen, b)
           p == Payload(b)
<1>1. p \in Nat /\ new \in Seq(Nat) /\ n \in Nat /\ <<c>> \in Seq(Nat) /\ Len(<<c>>) = 1 /\ <<c>>[1] = c
  BY PayloadNat, TakenNats
<1>2. /\ s \in Seq(Nat) /\ Len(s) = n + 1 /\ s[1] = c
      /\ \A i \in 2 .. (n + 1) : s[i] = seen[i - 1]
  BY <1>1, ConcatProperties
<1>3. /\ <<c>> \o new \in Seq(Nat) /\ Len(<<c>> \o new) = Len(new) + 1 /\ (<<c>> \o new)[1] = c
      /\ \A i \in 2 .. (Len(new) + 1) : (<<c>> \o new)[i] = new[i - 1]
  BY <1>1, ConcatProperties
<1> HIDE DEF s, p
<1>4. CASE LeadByte(b)
  <2>1. new = Append(seen, p)
    BY <1>4 DEF Taken, p
  <2>2. /\ Len(new) = n + 1 /\ new[n + 1] = p
        /\ \A i \in 1 .. n : new[i] = seen[i]
    BY <1>1, <2>1, AppendProperties
  <2>3. Taken(s, b) = Append(s, p)
    BY <1>4 DEF Taken, p
  <2>4. /\ Append(s, p) \in Seq(Nat) /\ Len(Append(s, p)) = n + 2 /\ Append(s, p)[n + 2] = p
        /\ \A i \in 1 .. (n + 1) : Append(s, p)[i] = s[i]
    BY <1>1, <1>2, AppendProperties
  <2> HIDE DEF new, n
  <2> DEFINE l == Append(s, p)
             r == <<c>> \o new
  <2>5. l \in Seq(Nat) /\ r \in Seq(Nat) /\ Len(l) = Len(r)
    BY <1>1, <1>3, <2>2, <2>4
  <2>6. ASSUME NEW i \in 1 .. Len(l) PROVE l[i] = r[i]
    BY <1>1, <1>2, <1>3, <2>2, <2>4
  <2> HIDE DEF l, r
  <2>7. l = r
    BY <2>5, <2>6, SeqEqual
  <2>8. Taken(s, b) = <<c>> \o new
    BY <2>3, <2>7 DEF l, r
  <2>9. Len(new) >= 1
    BY <1>1, <2>2
  <2> QED
    BY <2>8, <2>9, Zenon DEF s, new
<1>5. CASE ~LeadByte(b)
  <2>1. n >= 1
    BY <1>1, <1>5
  <2>2. new = [seen EXCEPT ![n] = seen[n] * 64 + p]
    BY <1>1, <1>5, <2>1 DEF Taken, p
  <2>3. seen[n] \in Nat /\ seen[n] * 64 + p \in Nat
    BY <1>1, <2>1
  <2>4. Len(new) = n /\ \A i \in 1 .. n : new[i] = IF i = n THEN seen[n] * 64 + p ELSE seen[i]
    <3> DEFINE e == seen[n] * 64 + p
               t == [seen EXCEPT ![n] = e]
    <3>1. e \in Nat /\ n \in 1 .. Len(seen) /\ new = t
      BY <1>1, <2>1, <2>2, <2>3
    <3> HIDE DEF e
    <3>2. Len(t) = Len(seen) /\ \A i \in 1 .. Len(seen) : t[i] = IF i = n THEN e ELSE seen[i]
      BY <3>1, ExceptSeq
    <3> HIDE DEF t, new
    <3> QED
      BY <3>1, <3>2 DEF e
  <2>5. s[n + 1] = seen[n]
    <3> DEFINE i == n + 1
    <3>1. i \in 2 .. (n + 1) /\ i - 1 = n
      BY <1>1, <2>1
    <3>2. s[i] = seen[i - 1]
      BY <1>2, <3>1
    <3> QED
      BY <3>1, <3>2
  <2> DEFINE l == Taken(s, b)
             r == <<c>> \o new
  <2>6. l = [s EXCEPT ![n + 1] = seen[n] * 64 + p]
    BY <1>1, <1>2, <1>5, <2>1, <2>5 DEF Taken, p
  <2>7. l \in Seq(Nat) /\ Len(l) = n + 1 /\ \A i \in 1 .. (n + 1) : l[i] = IF i = n + 1 THEN seen[n] * 64 + p ELSE s[i]
    BY <1>1, <1>2, <2>1, <2>3, <2>6, ExceptSeq
  <2> HIDE DEF new, n, l
  <2>8. r \in Seq(Nat) /\ Len(l) = Len(r)
    BY <1>1, <1>3, <2>4, <2>7
  <2>9. ASSUME NEW i \in 1 .. Len(l) PROVE l[i] = r[i]
    <3>1. CASE i = 1
      BY <1>1, <1>2, <1>3, <2>1, <2>7, <3>1
    <3>2. CASE i # 1
      <4>1. i \in 2 .. (n + 1) /\ i - 1 \in 1 .. n /\ (i = n + 1 <=> i - 1 = n)
        BY <1>1, <2>7, <3>2
      <4>2. r[i] = new[i - 1] /\ s[i] = seen[i - 1]
        BY <1>2, <1>3, <2>4, <4>1
      <4>3. l[i] = IF i - 1 = n THEN seen[n] * 64 + p ELSE seen[i - 1]
        BY <2>7, <4>1, <4>2
      <4> QED
        BY <2>4, <4>1, <4>2, <4>3
    <3> QED
      BY <3>1, <3>2
  <2> HIDE DEF r
  <2>10. l = r
    BY <2>7, <2>8, <2>9, SeqEqual
  <2>11. Taken(s, b) = <<c>> \o new
    BY <2>10 DEF l, r
  <2>12. Len(new) >= 1
    BY <2>1, <2>4
  <2> QED
    BY <2>11, <2>12, Zenon DEF s, new
<1> QED
  BY <1>4, <1>5

\* A text that begins with an encoding begins with its code point.
LEMMA Prefixed ==
  ASSUME NEW c \in Scalar, NEW bytes \in Seq(Byte), bytes = <<>> \/ LeadByte(bytes[1])
  PROVE  /\ Encoded(c) \o bytes \in Seq(Byte) /\ LeadByte((Encoded(c) \o bytes)[1])
         /\ Decoded(Encoded(c) \o bytes) = <<c>> \o Decoded(bytes)
<1> DEFINE e == Encoded(c)
           all == e \o bytes
           L == Len(e)
           m == Len(bytes)
<1>1. /\ c \in Nat /\ e \in Seq(Byte) /\ L \in 1 .. 4 /\ LeadByte(e[1]) /\ m \in Nat
  BY EncodedBytes, SMT DEF Scalar
<1>2. /\ all \in Seq(Byte) /\ Len(all) = L + m
      /\ \A i \in 1 .. L : all[i] = e[i]
      /\ \A t \in 1 .. m : all[L + t] = bytes[t]
  BY <1>1, ConcatProperties
<1>3. LeadByte(all[1])
  BY <1>1, <1>2
<1> HIDE DEF all, L, m
<1>4. PICK u \in [0 .. (L + m) -> Seq(Nat)] :
        /\ Decoded(all) = u[L + m] /\ u[0] = <<>>
        /\ \A i \in 1 .. (L + m) : u[i] = Taken(u[i - 1], all[i])
  BY <1>2, DecodedValue
<1>5. PICK w \in [0 .. m -> Seq(Nat)] :
        /\ Decoded(bytes) = w[m] /\ w[0] = <<>>
        /\ \A t \in 1 .. m : w[t] = Taken(w[t - 1], bytes[t])
  BY DecodedValue DEF m
<1>6. u[L] = <<c>>
  <2>1. \A i \in 1 .. L : u[i] = Taken(u[i - 1], e[i])
    BY <1>1, <1>2, <1>4
  <2> QED
    BY <1>4, <2>1, EncodedTaken DEF L
<1> DEFINE D == 0 .. m
           rank == [t \in D |-> t]
           next == [t \in D |-> t - 1]
           head == <<c>>
           Agree(t) == u[L + t] = head \o w[t] /\ (t # 0 => Len(w[t]) >= 1)
           S == {t \in D : Agree(t)}
<1>11. u[L] = head /\ \A v \in Seq(Nat) : head \o v = <<c>> \o v
  BY <1>6
<1>12. head \o <<>> = head
  BY <1>1, ConcatEmptySeq
<1> HIDE DEF head
<1>7. Descends(D, rank, next, m)
  BY <1>1 DEF Descends
<1>8. ASSUME NEW t \in D, rank[t] = 0 \/ next[t] \in S PROVE t \in S
  <2>1. CASE t = 0
    <3>1. u[L + t] = u[L]
      BY <1>1, <2>1
    <3>2. head \o w[t] = head
      BY <1>5, <1>12, <2>1
    <3> QED
      BY <1>11, <2>1, <3>1, <3>2
  <2>2. CASE t # 0
    <3>1. t \in 1 .. m /\ t - 1 \in D /\ L + t \in 1 .. (L + m) /\ (L + t) - 1 = L + (t - 1)
      BY <1>1, <2>2
    <3>2. t - 1 \in S
      BY <1>8, <2>2
    <3>3. u[L + t] = Taken(u[L + (t - 1)], bytes[t]) /\ w[t] = Taken(w[t - 1], bytes[t])
      BY <1>2, <1>4, <1>5, <3>1
    <3>8. Agree(t - 1)
      <4> HIDE DEF Agree
      <4> QED
        BY <3>2
    <3>4. u[L + (t - 1)] = head \o w[t - 1] /\ (t - 1 # 0 => Len(w[t - 1]) >= 1)
      BY <3>8
    <3>9. w[t - 1] \in Seq(Nat)
      BY <1>5, <3>1
    <3>10. t \in 1 .. Len(bytes)
      BY <3>1 DEF m
    <3>5. w[t - 1] \in Seq(Nat) /\ bytes[t] \in Byte
      BY <3>9, <3>10
    <3>6. LeadByte(bytes[t]) \/ Len(w[t - 1]) >= 1
      <4>1. CASE t = 1
        <5>1. bytes # <<>>
          BY <3>1, <4>1 DEF m
        <5> QED
          BY <4>1, <5>1
      <4>2. CASE t # 1
        BY <3>1, <3>4, <4>2
      <4> QED
        BY <4>1, <4>2
    <3>7. Taken(head \o w[t - 1], bytes[t]) = head \o Taken(w[t - 1], bytes[t]) /\ Len(Taken(w[t - 1], bytes[t])) >= 1
      BY <1>1, <3>5, <3>6, TakenAfter DEF head
    <3> QED
      BY <3>3, <3>4, <3>7
  <2> QED
    BY <2>1, <2>2
<1>9. \A t \in D : t \in S
  <2> HIDE DEF D, rank, next, S
  <2> QED
    BY <1>1, <1>7, <1>8, Along
<1>10. u[L + m] = head \o w[m]
  <2>1. Agree(m)
    <3> HIDE DEF Agree
    <3> QED
      BY <1>1, <1>9
  <2> QED
    BY <2>1
<1>13. Decoded(all) = head \o Decoded(bytes)
  BY <1>4, <1>5, <1>10
<1> QED
  BY <1>2, <1>3, <1>13 DEF all, head

-----------------------------------------------------------------------------
(***************************************************************************)
(* UTF-16: UTF16ToUTF8 goes through the words as the code points do, unless*)
(* it gives the text up.                                                   *)
(***************************************************************************)

\* The results of the conversion from a word on.
Results == [bytes : Seq(Byte), fails : BOOLEAN]

Done == [bytes |-> <<>>, fails |-> FALSE]
GivenUp == [bytes |-> <<>>, fails |-> TRUE]
Before(c, r) == [r EXCEPT !.bytes = Encoded(c) \o @]

\* A surrogate for which the text is given up.
Alone(words, i) == \/ words[i] \in LowSurrogates
                   \/ words[i] \in HighSurrogates /\ (i = Len(words) \/ words[i + 1] \notin LowSurrogates)

\* The code point at i, and where the next one begins.
PointAt(words, i) == IF words[i] \in HighSurrogates THEN Unichar(words[i], words[i + 1]) ELSE words[i]
After(words, i) == IF words[i] \in HighSurrogates THEN i + 2 ELSE i + 1

\* What they are.
LEMMA ResultKinds ==
  /\ Done \in Results /\ Done.bytes = <<>> /\ Done.fails = FALSE
  /\ GivenUp \in Results /\ GivenUp.fails = TRUE
<1>1. <<>> \in Seq(Byte)
  OBVIOUS
<1> QED
  BY <1>1 DEF Results, Done, GivenUp

\* A code point before a result.
LEMMA BeforeResult ==
  ASSUME NEW c \in Scalar, NEW r \in Results
  PROVE  /\ Before(c, r) \in Results
         /\ Before(c, r).bytes = Encoded(c) \o r.bytes /\ Before(c, r).fails = r.fails
<1>1. Encoded(c) \in Seq(Byte)
  BY EncodedBytes
<1>2. r.bytes \in Seq(Byte) /\ r.fails \in BOOLEAN /\ r = [bytes |-> r.bytes, fails |-> r.fails]
  BY Zenon DEF Results
<1> DEFINE both == Encoded(c) \o r.bytes
<1>3. both \in Seq(Byte)
  BY <1>1, <1>2, ConcatProperties
<1>4. Before(c, r) = [bytes |-> both, fails |-> r.fails]
  <2>1. Before(c, r) = [r EXCEPT !.bytes = both]
    BY DEF Before
  <2> HIDE DEF both
  <2> QED
    BY <1>2, <2>1
<1> HIDE DEF both
<1>5. Before(c, r) \in Results
  BY <1>2, <1>3, <1>4 DEF Results
<1>6. Before(c, r).bytes = both /\ Before(c, r).fails = r.fails
  BY <1>4
<1> QED
  BY <1>5, <1>6 DEF both

\* Where the text is not given up there is a code point, and the next place is further on.
LEMMA PointInRange ==
  ASSUME NEW words \in Texts, NEW i \in 1 .. Len(words), ~Alone(words, i)
  PROVE  /\ PointAt(words, i) \in Scalar
         /\ After(words, i) \in (i + 1) .. (Len(words) + 1)
<1>1. Len(words) \in Nat /\ words[i] \in Word
  BY DEF Texts
<1>2. CASE words[i] \notin HighSurrogates
  <2>1. PointAt(words, i) = words[i] /\ After(words, i) = i + 1
    BY <1>2 DEF PointAt, After
  <2>2. \A w \in Word : w \in Scalar
    BY SMTT(60) DEF Word, Scalar
  <2>3. PointAt(words, i) \in Scalar
    BY <1>1, <2>1, <2>2
  <2>4. i + 1 \in (i + 1) .. (Len(words) + 1)
    BY <1>1
  <2> QED
    BY <2>1, <2>3, <2>4
<1>3. CASE words[i] \in HighSurrogates
  <2>1. i < Len(words) /\ words[i + 1] \in LowSurrogates
    BY <1>1, <1>3 DEF Alone
  <2>2. After(words, i) \in (i + 1) .. (Len(words) + 1)
    BY <1>1, <1>3, <2>1 DEF After
  <2>3. \A h \in HighSurrogates : \A l \in LowSurrogates : Unichar(h, l) \in Scalar
    <3> SUFFICES ASSUME NEW h \in HighSurrogates, NEW l \in LowSurrogates PROVE Unichar(h, l) \in Scalar
      OBVIOUS
    <3>1. h \in Nat /\ 55296 <= h /\ h <= 56319 /\ l \in Nat
      BY SMT DEF HighSurrogates, LowSurrogates
    <3>2. l % 1024 \in Nat /\ l % 1024 <= 1023
      BY <3>1, SMT
    <3>3. (h - 55232) * 1024 \in Nat /\ (h - 55232) * 1024 <= 1113088
      BY <3>1, SMT
    <3> QED
      BY <3>2, <3>3, SMT DEF Unichar, Scalar
  <2>4. PointAt(words, i) = Unichar(words[i], words[i + 1])
    BY <1>3 DEF PointAt
  <2> QED
    BY <1>3, <2>1, <2>2, <2>3, <2>4
<1> QED
  BY <1>2, <1>3

\* What the conversion gives from each word on.
LEMMA ConvertedValue ==
  ASSUME NEW words \in Texts
  PROVE  \E out \in [1 .. (Len(words) + 1) -> Results] :
           /\ UTF16ToUTF8(words) = IF out[1].fails THEN <<>> ELSE out[1].bytes
           /\ out[Len(words) + 1] = Done
           /\ \A i \in 1 .. Len(words) :
                out[i] = IF Alone(words, i) THEN GivenUp
                         ELSE Before(PointAt(words, i), out[After(words, i)])
<1> DEFINE n == Len(words)
           D == 1 .. (n + 1)
           Value(f, i) ==
             IF i > n THEN [bytes |-> <<>>, fails |-> FALSE]
             ELSE IF Alone(words, i) THEN [bytes |-> <<>>, fails |-> TRUE]
             ELSE IF words[i] \in HighSurrogates
             THEN [f[i + 2] EXCEPT !.bytes = Encoded(Unichar(words[i], words[i + 1])) \o @]
             ELSE [f[i + 1] EXCEPT !.bytes = Encoded(words[i]) \o @]
           rank == [i \in D |-> n + 1 - i]
           next == [i \in D |-> IF Alone(words, i) THEN i + 1 ELSE After(words, i)]
           F == [i \in D |-> [v \in Results |-> IF Alone(words, i) THEN GivenUp ELSE Before(PointAt(words, i), v)]]
           out == CHOOSE f : f = [i \in D |-> Value(f, i)]
<1>1. n \in Nat /\ n + 1 \in D
  <2>1. n \in Nat
    BY DEF Texts
  <2> QED
    BY <2>1
<1>2. ASSUME NEW i \in 1 .. n PROVE next[i] \in (i + 1) .. (n + 1) /\ i \in D
  BY <1>1, PointInRange
<1>3. Descends(D, rank, next, n)
  <2> HIDE DEF next
  <2> QED
    BY <1>1, <1>2, Onwards
<1>4. \A f : \A i \in 1 .. n :
        Value(f, i) = IF Alone(words, i) THEN GivenUp ELSE Before(PointAt(words, i), f[After(words, i)])
  <2> SUFFICES ASSUME NEW f, NEW i \in 1 .. n
               PROVE  Value(f, i) = IF Alone(words, i) THEN GivenUp
                                    ELSE Before(PointAt(words, i), f[After(words, i)])
    OBVIOUS
  <2>1. ~(i > n)
    BY <1>1
  <2>2. CASE Alone(words, i)
    BY <2>1, <2>2, Zenon DEF GivenUp
  <2>3. CASE ~Alone(words, i) /\ words[i] \in HighSurrogates
    <3>1. PointAt(words, i) = Unichar(words[i], words[i + 1]) /\ After(words, i) = i + 2
      BY <2>3, Zenon DEF PointAt, After
    <3>2. Value(f, i) = Before(Unichar(words[i], words[i + 1]), f[i + 2])
      BY <2>1, <2>3, Zenon DEF Before
    <3> HIDE DEF Value
    <3> QED
      BY <2>3, <3>1, <3>2, Zenon
  <2>4. CASE ~Alone(words, i) /\ words[i] \notin HighSurrogates
    <3>1. PointAt(words, i) = words[i] /\ After(words, i) = i + 1
      BY <2>4, Zenon DEF PointAt, After
    <3>2. Value(f, i) = Before(words[i], f[i + 1])
      BY <2>1, <2>4, Zenon DEF Before
    <3> HIDE DEF Value
    <3> QED
      BY <2>4, <3>1, <3>2, Zenon
  <2> QED
    BY <2>2, <2>3, <2>4, Zenon
<1>5. \A f : Value(f, n + 1) = Done
  BY <1>1 DEF Done
<1>6. UTF16ToUTF8(words) = IF out[1].fails THEN <<>> ELSE out[1].bytes
  BY DEF UTF16ToUTF8, Alone
<1> HIDE DEF Value
<1>7. Stays(D, rank, F, Results)
  <2> SUFFICES ASSUME NEW i \in D, rank[i] # 0, NEW v \in Results PROVE F[i][v] \in Results
    BY DEF Stays
  <2>1. i \in 1 .. n
    BY <1>1
  <2>2. F[i][v] = IF Alone(words, i) THEN GivenUp ELSE Before(PointAt(words, i), v)
    OBVIOUS
  <2> QED
    BY <2>1, <2>2, ResultKinds, PointInRange, BeforeResult
<1>8. PICK f \in [D -> Results] : Follows(f, D, rank, next, Done, F)
  <2> HIDE DEF n, D, rank, next, F
  <2> QED
    BY <1>1, <1>3, <1>7, ResultKinds, Recursion
<1>9. ASSUME NEW i \in D PROVE f[i] = Value(f, i)
  <2>1. CASE i = n + 1
    <3>1. i \in D /\ rank[i] = 0
      BY <1>1, <2>1
    <3>2. f[i] = Done
      BY <1>8, <3>1 DEF Follows
    <3> QED
      BY <1>5, <2>1, <3>2
  <2>2. CASE i # n + 1
    <3>1. i \in 1 .. n /\ rank[i] # 0
      BY <1>1, <2>2
    <3>2. f[i] = F[i][f[next[i]]]
      BY <1>8, <3>1 DEF Follows
    <3>3. next[i] \in D
      <4>1. next[i] \in (i + 1) .. (n + 1)
        BY <1>2, <3>1
      <4> HIDE DEF next
      <4> QED
        BY <1>1, <3>1, <4>1
    <3>4. f[next[i]] \in Results
      BY <1>8, <3>3
    <3>5. f[i] = IF Alone(words, i) THEN GivenUp ELSE Before(PointAt(words, i), f[next[i]])
      BY <3>2, <3>4
    <3>6. ~Alone(words, i) => next[i] = After(words, i)
      OBVIOUS
    <3> QED
      BY <1>4, <3>1, <3>5, <3>6
  <2> QED
    BY <2>1, <2>2
<1>10. f = [i \in D |-> Value(f, i)]
  BY <1>8, <1>9
<1>11. out = [i \in D |-> Value(out, i)]
  BY <1>10
<1> HIDE DEF out
<1>12. /\ out[n + 1] = Done
       /\ \A i \in 1 .. n : out[i] = IF Alone(words, i) THEN GivenUp
                                     ELSE Before(PointAt(words, i), out[After(words, i)])
  BY <1>1, <1>2, <1>4, <1>5, <1>11
<1> DEFINE S == {i \in D : out[i] \in Results}
<1>13. ASSUME NEW i \in D, rank[i] = 0 \/ next[i] \in S PROVE i \in S
  <2>1. CASE i = n + 1
    BY <1>12, <2>1, ResultKinds
  <2>2. CASE i # n + 1
    <3>1. i \in 1 .. n /\ rank[i] # 0
      BY <1>1, <2>2
    <3>2. next[i] \in S
      BY <1>13, <3>1
    <3>3. ~Alone(words, i) => out[After(words, i)] \in Results
      BY <3>2
    <3> QED
      BY <1>12, <3>1, <3>3, ResultKinds, PointInRange, BeforeResult
  <2> QED
    BY <2>1, <2>2
<1>14. \A i \in D : i \in S
  <2> HIDE DEF D, rank, next, S
  <2> QED
    BY <1>1, <1>3, <1>13, Along
<1>15. out \in [D -> Results]
  BY <1>11, <1>14
<1> QED
  BY <1>6, <1>12, <1>15

LowHalf == 56320 .. 57343
\* The pairs of surrogates of the standard, and their code points.
Paired(words, i) ==
  i < Len(words) /\ words[i] \in 55296 .. 56319 /\ words[i + 1] \in 56320 .. 57343
PairPoint(high, low) == 65536 + (high - 55296) * 1024 + (low - 56320)

\* Where the conversion goes on, it takes the words as the standard does.
LEMMA AsPaired ==
  ASSUME NEW words \in Texts, NEW i \in 1 .. Len(words)
  PROVE  /\ words[i] \in Nat /\ (Paired(words, i) => i < Len(words))
         /\ Paired(words, i) => PairPoint(words[i], words[i + 1]) \in Nat
         /\ ~Alone(words, i) =>
              /\ Paired(words, i) <=> words[i] \in HighSurrogates
              /\ Paired(words, i) => PairPoint(words[i], words[i + 1]) = Unichar(words[i], words[i + 1])
<1>1. Len(words) \in Nat /\ words[i] \in Word
  BY DEF Texts
<1>2. \A h \in HighSurrogates : \A l \in LowHalf : PairPoint(h, l) \in Nat
  BY SMT DEF HighSurrogates, LowHalf, PairPoint
<1>3. \A h \in HighSurrogates : \A l \in LowSurrogates :
        /\ PairPoint(h, l) = Unichar(h, l)
        /\ l \in LowHalf
  <2> SUFFICES ASSUME NEW h \in HighSurrogates, NEW l \in LowSurrogates
               PROVE  PairPoint(h, l) = Unichar(h, l) /\ l \in LowHalf
    OBVIOUS
  <2>1. h \in Nat /\ 55296 <= h /\ l \in Nat /\ 56320 <= l /\ l <= 56575
    BY SMT DEF HighSurrogates, LowSurrogates
  <2>2. l % 1024 = l - 56320
    BY <2>1, SMT
  <2> QED
    BY <2>1, <2>2, SMT DEF Unichar, PairPoint, LowHalf
<1>4. Paired(words, i) <=> i < Len(words) /\ words[i] \in HighSurrogates /\ words[i + 1] \in LowHalf
  BY SMT DEF Paired, HighSurrogates, LowHalf
<1>5. Paired(words, i) => PairPoint(words[i], words[i + 1]) \in Nat
  BY <1>2, <1>4
<1>6. ASSUME ~Alone(words, i), words[i] \in HighSurrogates
      PROVE  Paired(words, i) /\ PairPoint(words[i], words[i + 1]) = Unichar(words[i], words[i + 1])
  <2>1. i < Len(words) /\ words[i + 1] \in LowSurrogates
    BY <1>1, <1>6, SMT DEF Alone
  <2> QED
    BY <1>3, <1>4, <1>6, <2>1
<1>7. ASSUME NEW w \in Word PROVE w \in Nat
  BY Z3T(60) DEF Word
<1> QED
  BY <1>1, <1>4, <1>5, <1>6, <1>7

\* Code points, one more in front.
LEMMA NatSeqs ==
  ASSUME NEW c \in Nat, NEW s \in Seq(Nat)
  PROVE  <<c>> \o s \in Seq(Nat)
<1>1. <<c>> \in Seq(Nat)
  OBVIOUS
<1> QED
  BY <1>1, ConcatProperties

\* The code points from each word on.
LEMMA PointsValue ==
  ASSUME NEW words \in Texts
  PROVE  \E from \in [1 .. (Len(words) + 1) -> Seq(Nat)] :
           /\ CodePoints(words) = from[1]
           /\ from[Len(words) + 1] = <<>>
           /\ \A i \in 1 .. Len(words) : ~Alone(words, i) =>
                from[i] = <<PointAt(words, i)>> \o from[After(words, i)]
<1> DEFINE n == Len(words)
           D == 1 .. (n + 1)
           V == Seq(Nat)
           none == <<>>
           Value(f, i) == IF i > n THEN <<>>
                          ELSE IF Paired(words, i) THEN <<PairPoint(words[i], words[i + 1])>> \o f[i + 2]
                          ELSE <<words[i]>> \o f[i + 1]
           point(i) == IF Paired(words, i) THEN PairPoint(words[i], words[i + 1]) ELSE words[i]
           rank == [i \in D |-> n + 1 - i]
           next == [i \in D |-> IF Paired(words, i) THEN i + 2 ELSE i + 1]
           F == [i \in D |-> [v \in V |-> <<point(i)>> \o v]]
           from == CHOOSE f : f = [i \in D |-> Value(f, i)]
<1>1. n \in Nat /\ n + 1 \in D /\ 1 \in D
  <2>1. n \in Nat
    BY DEF Texts
  <2> QED
    BY <2>1
<1>2. ASSUME NEW i \in 1 .. n PROVE next[i] \in (i + 1) .. (n + 1) /\ i \in D /\ point(i) \in Nat
  <2>1. Paired(words, i) => i < n
    BY AsPaired
  <2>3. words[i] \in Nat
    BY AsPaired
  <2>4. Paired(words, i) => PairPoint(words[i], words[i + 1]) \in Nat
    BY AsPaired
  <2> QED
    BY <1>1, <2>1, <2>3, <2>4
<1>3. Descends(D, rank, next, n)
  <2> HIDE DEF next
  <2> QED
    BY <1>1, <1>2, Onwards
<1>4. \A f : \A i \in 1 .. n : Value(f, i) = <<point(i)>> \o f[next[i]]
  <2> SUFFICES ASSUME NEW f, NEW i \in 1 .. n PROVE Value(f, i) = <<point(i)>> \o f[next[i]]
    OBVIOUS
  <2>1. ~(i > n) /\ i \in D
    BY <1>1
  <2>2. CASE Paired(words, i)
    <3>1. next[i] = i + 2 /\ point(i) = PairPoint(words[i], words[i + 1])
      BY <2>1, <2>2
    <3> HIDE DEF next, point
    <3> QED
      BY <2>1, <2>2, <3>1, Zenon
  <2>3. CASE ~Paired(words, i)
    <3>1. next[i] = i + 1 /\ point(i) = words[i]
      BY <2>1, <2>3
    <3> HIDE DEF next, point
    <3> QED
      BY <2>1, <2>3, <3>1, Zenon
  <2> QED
    BY <2>2, <2>3
<1>5. \A f : Value(f, n + 1) = <<>>
  BY <1>1
<1>6. CodePoints(words) = from[1]
  BY DEF CodePoints, Paired, PairPoint
<1> HIDE DEF Value, point
<1>7. Stays(D, rank, F, V)
  <2> SUFFICES ASSUME NEW i \in D, rank[i] # 0, NEW v \in V PROVE F[i][v] \in V
    BY DEF Stays
  <2>1. i \in 1 .. n
    BY <1>1
  <2>2. F[i][v] = <<point(i)>> \o v
    OBVIOUS
  <2>3. point(i) \in Nat
    BY <1>2, <2>1
  <2> QED
    BY <2>2, <2>3, NatSeqs
<1>8. PICK f \in [D -> V] : Follows(f, D, rank, next, none, F)
  <2>1. none \in V
    OBVIOUS
  <2> HIDE DEF n, D, rank, next, F, V, none
  <2> QED
    BY <1>1, <1>3, <1>7, <2>1, Recursion
<1>9. ASSUME NEW i \in D PROVE f[i] = Value(f, i)
  <2>1. CASE i = n + 1
    <3>1. i \in D /\ rank[i] = 0
      BY <1>1, <2>1
    <3>2. f[i] = <<>>
      BY <1>8, <3>1 DEF Follows
    <3> QED
      BY <1>5, <2>1, <3>2
  <2>2. CASE i # n + 1
    <3>1. i \in 1 .. n /\ rank[i] # 0
      BY <1>1, <2>2
    <3>2. f[i] = F[i][f[next[i]]]
      BY <1>8, <3>1 DEF Follows
    <3>3. next[i] \in D
      <4>1. next[i] \in (i + 1) .. (n + 1)
        BY <1>2, <3>1
      <4> HIDE DEF next
      <4> QED
        BY <1>1, <3>1, <4>1
    <3>4. f[next[i]] \in V
      BY <1>8, <3>3
    <3>5. f[i] = <<point(i)>> \o f[next[i]]
      BY <3>2, <3>4
    <3> HIDE DEF next
    <3> QED
      BY <1>4, <3>1, <3>5
  <2> QED
    BY <2>1, <2>2
<1>10. f = [i \in D |-> Value(f, i)]
  BY <1>8, <1>9
<1>11. from = [i \in D |-> Value(from, i)]
  BY <1>10
<1> HIDE DEF from
<1>12. /\ from[n + 1] = <<>>
       /\ \A i \in 1 .. n : from[i] = <<point(i)>> \o from[next[i]]
  <2> HIDE DEF next
  <2> QED
    BY <1>1, <1>2, <1>4, <1>5, <1>11
<1> DEFINE S == {i \in D : from[i] \in V}
<1>13. ASSUME NEW i \in D, rank[i] = 0 \/ next[i] \in S PROVE i \in S
  <2>1. CASE i = n + 1
    <3>1. <<>> \in V
      OBVIOUS
    <3> QED
      BY <1>12, <2>1, <3>1
  <2>2. CASE i # n + 1
    <3>1. i \in 1 .. n /\ rank[i] # 0
      BY <1>1, <2>2
    <3>2. from[next[i]] \in V
      BY <1>13, <3>1
    <3>3. point(i) \in Nat
      BY <1>2, <3>1
    <3> HIDE DEF next
    <3> QED
      BY <1>12, <3>1, <3>2, <3>3, NatSeqs
  <2> QED
    BY <2>1, <2>2
<1>14. \A i \in D : i \in S
  <2> HIDE DEF D, rank, next, S
  <2> QED
    BY <1>1, <1>3, <1>13, Along
<1>15. from \in [D -> V]
  BY <1>11, <1>14
<1>16. ASSUME NEW i \in 1 .. n, ~Alone(words, i) PROVE from[i] = <<PointAt(words, i)>> \o from[After(words, i)]
  <2>1. point(i) = PointAt(words, i) /\ next[i] = After(words, i)
    <3>1. i \in D
      BY <1>1
    <3>2. CASE Paired(words, i)
      BY <1>16, <3>1, <3>2, AsPaired DEF point, PointAt, After
    <3>3. CASE ~Paired(words, i)
      BY <1>16, <3>1, <3>3, AsPaired DEF point, PointAt, After
    <3> QED
      BY <3>2, <3>3
  <2> HIDE DEF next
  <2> QED
    BY <1>12, <2>1
<1> QED
  BY <1>6, <1>12, <1>15, <1>16

\* No bytes, no code points.
LEMMA NothingDecoded == Decoded(<<>>) = <<>>
<1> DEFINE none == <<>>
<1>1. none \in Seq(Byte) /\ Len(none) = 0
  OBVIOUS
<1> HIDE DEF none
<1>2. \E upto : Decoded(none) = upto[Len(none)] /\ upto[0] = <<>>
  BY <1>1, DecodedValue
<1>3. Decoded(none) = <<>>
  BY <1>1, <1>2
<1> QED
  BY <1>3, Zenon DEF none

\* The conversion of a text, when it gives one, is decoded to its code points.
LEMMA Converted ==
  ASSUME NEW words \in Texts, UTF16ToUTF8(words) # <<>>
  PROVE  Decoded(UTF16ToUTF8(words)) = CodePoints(words)
<1> DEFINE n == Len(words)
           D == 1 .. (n + 1)
           rank == [i \in D |-> n + 1 - i]
           next == [i \in D |-> IF Alone(words, i) THEN i + 1 ELSE After(words, i)]
<1>1. n \in Nat /\ 1 \in D
  <2>1. n \in Nat
    BY DEF Texts
  <2> QED
    BY <2>1
<1>2. PICK out \in [D -> Results] :
        /\ UTF16ToUTF8(words) = IF out[1].fails THEN <<>> ELSE out[1].bytes
        /\ out[n + 1] = Done
        /\ \A i \in 1 .. n : out[i] = IF Alone(words, i) THEN GivenUp
                                      ELSE Before(PointAt(words, i), out[After(words, i)])
  BY ConvertedValue
<1>3. PICK from \in [D -> Seq(Nat)] :
        /\ CodePoints(words) = from[1]
        /\ from[n + 1] = <<>>
        /\ \A i \in 1 .. n : ~Alone(words, i) => from[i] = <<PointAt(words, i)>> \o from[After(words, i)]
  BY PointsValue
<1>4. ASSUME NEW i \in 1 .. n PROVE i \in D /\ next[i] \in (i + 1) .. (n + 1)
  BY <1>1, PointInRange
<1>5. Descends(D, rank, next, n)
  <2> HIDE DEF next
  <2> QED
    BY <1>1, <1>4, Onwards
<1> DEFINE Agrees(i) == ~out[i].fails => /\ Decoded(out[i].bytes) = from[i]
                                         /\ out[i].bytes = <<>> \/ LeadByte(out[i].bytes[1])
           S == {i \in D : Agrees(i)}
<1>6. ASSUME NEW i \in D, rank[i] = 0 \/ next[i] \in S PROVE i \in S
  <2>1. CASE i = n + 1
    <3>1. out[i].bytes = <<>> /\ from[i] = <<>>
      BY <1>2, <1>3, <2>1, ResultKinds
    <3>2. Agrees(i)
      BY <3>1, NothingDecoded
    <3> QED
      BY <3>2
  <2>2. CASE i # n + 1 /\ Alone(words, i)
    <3>1. i \in 1 .. n
      BY <1>1, <2>2
    <3>2. out[i].fails
      BY <1>2, <2>2, <3>1, ResultKinds
    <3> QED
      BY <3>2
  <2>3. CASE i # n + 1 /\ ~Alone(words, i)
    <3> DEFINE a == After(words, i)
               c == PointAt(words, i)
    <3>1. i \in 1 .. n /\ rank[i] # 0 /\ next[i] = a
      BY <1>1, <2>3
    <3>2. next[i] \in S
      BY <1>6, <3>1
    <3>3. a \in D /\ Agrees(a)
      <4> HIDE DEF Agrees, next, a
      <4> QED
        BY <3>1, <3>2
    <3>4. c \in Scalar /\ out[i] = Before(c, out[a]) /\ from[i] = <<c>> \o from[a]
      BY <1>2, <1>3, <2>3, <3>1, PointInRange
    <3>5. out[a] \in Results /\ out[a].bytes \in Seq(Byte)
      BY <1>2, <3>3 DEF Results
    <3> HIDE DEF c, a
    <3>6. out[i].bytes = Encoded(c) \o out[a].bytes /\ out[i].fails = out[a].fails
      <4> DEFINE r == out[a]
      <4>1. out[i] = Before(c, r) /\ c \in Scalar /\ r \in Results
        BY <3>4, <3>5
      <4> HIDE DEF r
      <4>2. Before(c, r).bytes = Encoded(c) \o r.bytes /\ Before(c, r).fails = r.fails
        BY <4>1, BeforeResult
      <4> QED
        BY <4>1, <4>2, Zenon DEF r
    <3>7. ASSUME ~out[i].fails
          PROVE  Decoded(out[i].bytes) = from[i] /\ LeadByte(out[i].bytes[1])
      <4>1. Decoded(out[a].bytes) = from[a] /\ (out[a].bytes = <<>> \/ LeadByte(out[a].bytes[1]))
        BY <3>3, <3>6, <3>7
      <4>2. /\ LeadByte((Encoded(c) \o out[a].bytes)[1])
            /\ Decoded(Encoded(c) \o out[a].bytes) = <<c>> \o Decoded(out[a].bytes)
        BY <3>4, <3>5, <4>1, Prefixed
      <4> QED
        BY <3>4, <3>6, <4>1, <4>2
    <3>8. Agrees(i)
      BY <3>7
    <3> QED
      BY <3>8
  <2> QED
    BY <2>1, <2>2, <2>3
<1>7. \A i \in D : i \in S
  <2> HIDE DEF D, rank, next, S
  <2> QED
    BY <1>1, <1>5, <1>6, Along
<1>8. Agrees(1)
  <2> HIDE DEF Agrees
  <2> QED
    BY <1>1, <1>7
<1>9. ~out[1].fails /\ UTF16ToUTF8(words) = out[1].bytes
  BY <1>2
<1> QED
  BY <1>3, <1>8, <1>9

\* A text without surrogates is not given up.
LEMMA PlainConverted ==
  ASSUME NEW words \in Texts, Len(words) >= 1,
         \A i \in DOMAIN words : words[i] \notin Surrogates
  PROVE  UTF16ToUTF8(words) # <<>>
<1> DEFINE n == Len(words)
           D == 1 .. (n + 1)
           rank == [i \in D |-> n + 1 - i]
           next == [i \in D |-> i + 1]
<1>1. n \in Nat /\ 1 \in D /\ 1 \in 1 .. n /\ DOMAIN words = 1 .. n
  <2>1. n \in Nat /\ DOMAIN words = 1 .. n
    BY DEF Texts
  <2> QED
    BY <2>1
<1>2. PICK out \in [D -> Results] :
        /\ UTF16ToUTF8(words) = IF out[1].fails THEN <<>> ELSE out[1].bytes
        /\ out[n + 1] = Done
        /\ \A i \in 1 .. n : out[i] = IF Alone(words, i) THEN GivenUp
                                      ELSE Before(PointAt(words, i), out[After(words, i)])
  BY ConvertedValue
<1>3. \A w : w \notin Surrogates => w \notin HighSurrogates /\ w \notin LowSurrogates
  BY SMT DEF Surrogates, HighSurrogates, LowSurrogates
<1>4. ASSUME NEW i \in 1 .. n
      PROVE  /\ i \in D /\ i + 1 \in D /\ PointAt(words, i) \in Scalar
             /\ out[i] = Before(PointAt(words, i), out[i + 1]) /\ out[i + 1] \in Results
  <2>1. words[i] \notin HighSurrogates /\ words[i] \notin LowSurrogates
    BY <1>1, <1>3
  <2>2. ~Alone(words, i) /\ After(words, i) = i + 1
    BY <2>1 DEF Alone, After
  <2>3. i \in D /\ i + 1 \in D
    BY <1>1
  <2> QED
    BY <1>2, <2>2, <2>3, PointInRange
<1>5. Descends(D, rank, next, n)
  BY <1>1 DEF Descends
<1> DEFINE S == {i \in D : ~out[i].fails}
<1>6. ASSUME NEW i \in D, rank[i] = 0 \/ next[i] \in S PROVE i \in S
  <2>1. CASE i = n + 1
    BY <1>2, <2>1, ResultKinds
  <2>2. CASE i # n + 1
    <3>1. i \in 1 .. n /\ ~out[i + 1].fails
      BY <1>1, <1>6, <2>2
    <3>2. ~out[i].fails
      BY <1>4, <3>1, BeforeResult
    <3> QED
      BY <3>2
  <2> QED
    BY <2>1, <2>2
<1>7. \A i \in D : i \in S
  <2> HIDE DEF D, rank, next, S
  <2> QED
    BY <1>1, <1>5, <1>6, Along
<1> DEFINE c == PointAt(words, 1)
           rest == out[1 + 1].bytes
<1>8. c \in Scalar /\ rest \in Seq(Byte) /\ UTF16ToUTF8(words) = Encoded(c) \o rest
  <2>1. out[1] = Before(c, out[1 + 1]) /\ c \in Scalar /\ out[1 + 1] \in Results
    BY <1>1, <1>4
  <2>2. ~out[1].fails
    BY <1>1, <1>7
  <2>3. out[1].bytes = Encoded(c) \o rest
    BY <2>1, BeforeResult
  <2>4. rest \in Seq(Byte)
    BY <2>1 DEF Results
  <2> QED
    BY <1>2, <2>1, <2>2, <2>3, <2>4
<1> HIDE DEF c, rest
<1>9. Len(Encoded(c) \o rest) >= 1
  <2>1. Encoded(c) \in Seq(Byte) /\ Len(Encoded(c)) \in 1 .. 4
    BY <1>8, EncodedBytes
  <2>2. Len(Encoded(c) \o rest) = Len(Encoded(c)) + Len(rest) /\ Len(rest) \in Nat
    BY <1>8, <2>1, ConcatProperties
  <2> QED
    BY <2>1, <2>2, SMTT(60)
<1> QED
  BY <1>8, <1>9

-----------------------------------------------------------------------------
(***************************************************************************)
(* The names of the modules.                                               *)
(***************************************************************************)

\* A text that comes back is that of the name in the file, and names without
\* surrogates of a complete file come back.
NameInv ==
  at = "ready" /\ reply.call = "string" =>
    LET name == lists["module"][reply.object[2]].name IN
    /\ reply.text # <<>> => Decoded(reply.text) = CodePoints(name.words)
    /\ Complete /\ name.bytes = 2 * Len(name.words) /\ Len(name.words) \in 1 .. MaxWords
         /\ (\A i \in DOMAIN name.words : name.words[i] \notin Surrogates) => reply.text # <<>>

\* The fields of an answer of ReadString.
LEMMA TextReply ==
  ASSUME NEW ok, NEW o, NEW text
  PROVE  LET answer == [Reply("string", ok) EXCEPT !.object = o, !.text = text] IN
         answer.call = "string" /\ answer.object = o /\ answer.text = text
  BY DEF Reply

\* The answer of ReadString.
LEMMA TextGiven ==
  ASSUME Inv, LoadInv, NEW i \in DOMAIN lists["module"], ReadString(i)
  PROVE  LET name == lists["module"][i].name IN
         /\ at = "ready" /\ UNCHANGED <<file, at, k, j, lists, system, contexts>>
         /\ reply'.call = "string" /\ reply'.object[2] = i
         /\ reply'.text # <<>> => Decoded(reply'.text) = CodePoints(name.words)
         /\ Complete /\ name.bytes = 2 * Len(name.words) /\ Len(name.words) \in 1 .. MaxWords
              /\ (\A n \in DOMAIN name.words : name.words[n] \notin Surrogates) => reply'.text # <<>>
<1> DEFINE name == lists["module"][i].name
           valid == name.bytes % 2 = 0 /\ name.bytes \div 2 <= MaxWords
           needed == IF valid /\ name.bytes > 0 THEN 2 ELSE 1
           ok == ~sick /\ valid /\ name.avail >= needed
           text == IF ok THEN UTF16ToUTF8(name.words) ELSE <<>>
<1>1. /\ at = "ready" /\ UNCHANGED <<file, at, k, j, lists, system, contexts>>
      /\ reply' = [Reply("string", ok) EXCEPT !.object = <<0, i>>, !.text = text]
  BY Zenon DEF ReadString
<1>2. reply'.call = "string" /\ reply'.object[2] = i /\ reply'.text = text
  <2> HIDE DEF ok, text
  <2> DEFINE o == <<0, i>>
  <2>1. reply' = [Reply("string", ok) EXCEPT !.object = o, !.text = text]
    BY <1>1
  <2>2. o[2] = i
    OBVIOUS
  <2> HIDE DEF o
  <2>3. reply'.call = "string" /\ reply'.object = o /\ reply'.text = text
    BY <2>1, TextReply
  <2> QED
    BY <2>2, <2>3
<1>3. ASSUME ~sick
      PROVE  name.words \in Texts /\ name.bytes \in Nat /\ name.avail \in Nat /\ (Complete => name.avail >= 2)
  <2>1. PICK d \in Entries("module") : lists["module"] = file.dirs[d].items /\ i \in DOMAIN file.dirs[d].items
    BY <1>3, ItemsOfFile DEF Lists, Inv
  <2>2. file \in Files /\ d \in DOMAIN file.dirs /\ file.dirs[d].type = "module"
    BY <2>1 DEF Inv, PlaceInv, Entries
  <2>3. name.words \in Texts /\ name.bytes \in Nat /\ name.avail \in Nat
    BY <2>1, <2>2, ItemsAssumption, AddrAssumption
  <2>4. Complete => name.avail >= 2
    BY <2>1, <2>2 DEF Complete
  <2> QED
    BY <2>3, <2>4
<1> HIDE DEF name
<1>4. ASSUME text # <<>> PROVE Decoded(text) = CodePoints(name.words)
  <2>1. ~sick /\ text = UTF16ToUTF8(name.words)
    BY <1>4, Zenon
  <2>2. name.words \in Texts
    BY <1>3, <2>1
  <2> QED
    BY <1>4, <2>1, <2>2, Converted, Zenon
<1>5. ASSUME Complete, name.bytes = 2 * Len(name.words), Len(name.words) \in 1 .. MaxWords,
             \A n \in DOMAIN name.words : name.words[n] \notin Surrogates
      PROVE  text # <<>>
  <2>1. ~sick
    BY <1>5 DEF LoadInv
  <2>2. name.words \in Texts /\ name.bytes \in Nat /\ name.avail \in Nat /\ name.avail >= 2
    BY <1>3, <1>5, <2>1
  <2> DEFINE n == Len(name.words)
  <2>3. n \in Nat /\ n >= 1 /\ n <= MaxWords /\ name.bytes = 2 * n
    <3>1. n \in 1 .. MaxWords /\ name.bytes = 2 * n
      BY <1>5, Zenon
    <3> HIDE DEF n
    <3> QED
      BY <3>1, SMT DEF MaxWords
  <2> HIDE DEF n
  <2>4. valid
    <3>1. name.bytes % 2 = 0 /\ name.bytes \div 2 = n
      BY <2>3, SMT
    <3> QED
      BY <2>3, <3>1, SMT DEF MaxWords
  <2>5. needed \in {1, 2}
    BY Zenon
  <2> HIDE DEF valid, needed
  <2>6. name.avail >= needed
    BY <2>2, <2>5
  <2>7. text = UTF16ToUTF8(name.words)
    BY <2>1, <2>4, <2>6, Zenon
  <2>8. UTF16ToUTF8(name.words) # <<>>
    <3>1. Len(name.words) >= 1
      BY <2>3, Zenon DEF n
    <3> DEFINE words == name.words
    <3>2. words \in Texts /\ Len(words) >= 1 /\ \A m \in DOMAIN words : words[m] \notin Surrogates
      BY <1>5, <2>2, <3>1
    <3> HIDE DEF words
    <3>3. UTF16ToUTF8(words) # <<>>
      BY <3>2, PlainConverted
    <3> QED
      BY <3>3, Zenon DEF words
  <2> QED
    BY <2>7, <2>8, Zenon
<1> HIDE DEF text, ok
<1> QED
  BY <1>1, <1>2, <1>4, <1>5, Zenon DEF name

\* A step keeps what is said of the names.
LEMMA NameNext == Inv /\ NumberedInv /\ LoadInv /\ NameInv /\ [Next]_vars => NameInv'
<1> SUFFICES ASSUME Inv, NumberedInv, LoadInv, NameInv, [Next]_vars PROVE NameInv'
  OBVIOUS
<1>1. CASE at' # "ready"
  BY <1>1, Zenon DEF NameInv
<1>2. CASE UNCHANGED vars
  <2>1. UNCHANGED <<file, at, lists, reply>>
    BY <1>2 DEF vars
  <2>2. Complete' <=> Complete
    BY <2>1, StillComplete
  <2> QED
    BY <2>1, <2>2, Zenon DEF NameInv
<1>3. ASSUME NEW i \in DOMAIN lists["module"], ReadString(i) PROVE NameInv'
  <2> DEFINE name == lists["module"][i].name
  <2>1. /\ UNCHANGED <<file, lists>>
        /\ reply'.object[2] = i
        /\ reply'.text # <<>> => Decoded(reply'.text) = CodePoints(name.words)
        /\ Complete /\ name.bytes = 2 * Len(name.words) /\ Len(name.words) \in 1 .. MaxWords
             /\ (\A n \in DOMAIN name.words : name.words[n] \notin Surrogates) => reply'.text # <<>>
    BY <1>3, TextGiven, Zenon
  <2>2. Complete' <=> Complete
    BY <2>1, StillComplete
  <2>3. lists'["module"][reply'.object[2]].name = name
    BY <2>1, Zenon
  <2> HIDE DEF name
  <2> QED
    BY <2>1, <2>2, <2>3, Zenon DEF NameInv
<1>4. ASSUME reply'.call # "string" PROVE NameInv'
  BY <1>4, Zenon DEF NameInv
<1>5. CASE OpenFails \/ ReadReturns \/ ReadAgain
  BY <1>4, <1>5 DEF OpenFails, ReadReturns, ReadAgain, Reply
<1>6. ASSUME NEW r \in Requests, GetMemory(r) PROVE NameInv'
  BY <1>4, <1>6, MemoryGiven
<1>7. CASE OpenRead \/ ListRefused \/ ListCut \/ ListRead \/ SingleFails \/ ExceptionRead \/ SystemInfoRead
             \/ SkipStream \/ ContextCrashes \/ ContextRead \/ ContextFails \/ Destroy
  <2>1. at' # "ready"
    BY <1>7 DEF OpenRead, ListRefused, ListCut, ListRead, ListAccepted, SingleFails, ExceptionRead,
       SystemInfoRead, SkipStream, ContextCrashes, ContextRead, ContextFails, Destroy, AtStream, NextStream
  <2> QED
    BY <1>1, <2>1
<1>8. ASSUME NEW id, NEW register \in {"ip", "sp", "fp"}, GetRegister(id, register) PROVE NameInv'
  <2> DEFINE answer == [Reply("register", FALSE) EXCEPT !.id = id, !.thread = GetThread(id)]
             offset(o) == IF Raw(LocationOf(o)) = "arm64old"
                          THEN OldRegisterAt[register] ELSE RegisterAt[Cpu(o)][register]
             read(o) == [answer EXCEPT !.ok = TRUE, !.object = o, !.register = register, !.offset = offset(o)]
  <2>1. reply' = answer \/ \E o : reply' = read(o)
    BY <1>8, Zenon DEF GetRegister
  <2> HIDE DEF offset
  <2>2. reply'.call = "register"
    BY <2>1 DEF Reply
  <2> QED
    BY <1>4, <2>2
<1> QED
  BY <1>2, <1>3, <1>5, <1>6, <1>7, <1>8 DEF Next, Read

\* A complete file is loaded completely.
LEMMA Loaded ==
  ASSUME Inv, LoadInv, Complete, at = "ready"
  PROVE  /\ ~sick
         /\ \A t \in Lists : \A d \in Entries(t) : lists[t] = file.dirs[d].items
         /\ system <=> Entries("system") # {}
         /\ DOMAIN contexts = {i.id : i \in UNION {{file.dirs[d].items[n] : n \in DOMAIN file.dirs[d].items} :
                                               d \in Entries("thread") \cup Entries("exception")}}
<1>1. /\ ~sick /\ k > Len(file.dirs)
      /\ \A t \in Lists : \A d \in Entries(t) : Passed(d) => lists[t] = file.dirs[d].items
      /\ system <=> \E d \in Entries("system") : d < k
      /\ DOMAIN contexts = {IdOf(o) : o \in {i \in ContextItems : Behind(i)}}
  BY DEF LoadInv
<1>2. \A d \in DOMAIN file.dirs : d < k
  BY <1>1, Shape DEF Inv, PlaceInv
<1>3. \A t : \A d \in Entries(t) : d < k
  BY <1>2 DEF Entries
<1>4. DOMAIN contexts = {IdOf(o) : o \in ContextItems}
  BY <1>1, <1>3 DEF ContextItems, Behind
<1> DEFINE given == Entries("thread") \cup Entries("exception")
           items == UNION {{file.dirs[d].items[n] : n \in DOMAIN file.dirs[d].items} : d \in given}
<1>5. ASSUME NEW o \in ContextItems PROVE \E i \in items : IdOf(o) = i.id
  <2>1. PICK d \in given : o \in {d} \X DOMAIN file.dirs[d].items
    BY DEF ContextItems
  <2>2. o[1] = d /\ o[2] \in DOMAIN file.dirs[d].items
    BY <2>1
  <2>3. file.dirs[d].items[o[2]] \in items
    BY <2>1, <2>2
  <2> QED
    BY <2>2, <2>3 DEF IdOf
<1>6. ASSUME NEW i \in items PROVE \E o \in ContextItems : IdOf(o) = i.id
  <2>1. PICK d \in given : i \in {file.dirs[d].items[n] : n \in DOMAIN file.dirs[d].items}
    OBVIOUS
  <2>2. PICK n \in DOMAIN file.dirs[d].items : i = file.dirs[d].items[n]
    BY <2>1
  <2>3. <<d, n>> \in ContextItems
    BY <2>1, <2>2 DEF ContextItems
  <2>4. IdOf(<<d, n>>) = i.id
    BY <2>2 DEF IdOf
  <2> QED
    BY <2>3, <2>4
<1>7. {IdOf(o) : o \in ContextItems} = {i.id : i \in items}
  <2> HIDE DEF items
  <2> QED
    BY <1>5, <1>6
<1> QED
  BY <1>1, <1>3, <1>4, <1>7 DEF Passed

\* A complete file is loaded completely and stays readable, and its names come
\* back as they are.
THEOREM FileLoaded == Spec => []CompleteFileLoads
<1>1. Init => NumberedInv
  BY DEF Init, NumberedInv
<1>2. Init => Sane
  BY DEF Init, Sane
<1>3. Init => NameInv
  BY DEF Init, NameInv
<1>4. Inv /\ LoadInv /\ NameInv => CompleteFileLoads
  BY Loaded, Zenon DEF NameInv, CompleteFileLoads
<1> QED
  BY <1>1, <1>2, <1>3, <1>4, LoadInit, NumberedNext, SaneNext, LoadNext, NameNext, Invariance, PTL DEF Spec

=============================================================================
