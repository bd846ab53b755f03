---------------------------- MODULE DwarfSearcher ----------------------------
(***************************************************************************)
(* DwarfSearcher (src/dwarfexpr/dwarf_searcher.cpp) and the loop of        *)
(* dwarf2line's main that calls it, one libdwarf call per step.            *)
(*                                                                         *)
(* searchInDieTree is recursive.  Its activation records are not stored:   *)
(* the DIE `cur` the running activation looks at determines them all,      *)
(* because the activation was called with the first DIE of cur's level     *)
(* (InDie) and its caller is looking at cur's parent.                      *)
(*                                                                         *)
(* A DIE handle is named by its DIE.  A lookup opens a DIE at most once,   *)
(* and the handles of an earlier lookup are never used again, so `live`    *)
(* holds the handles opened by the current lookup and not yet deallocated. *)
(***************************************************************************)
EXTENDS DebugInfo, FiniteSets

CONSTANTS Infos, Pcs, LibMayFail

ASSUME InfosAssumption == \A i \in Infos : WellFormed(i)
ASSUME PcsAssumption == Pcs \subseteq Nat /\ Pcs # {}
ASSUME LibAssumption == LibMayFail \in BOOLEAN

VARIABLES
  info,      \* the section (never changes)
  cursor,    \* libdwarf's CU iterator: the last DIE of the CU it delivered last
  start,     \* cursor when the running lookup began (history, for properties)
  target,    \* ctx.target_pc
  cuDie,     \* ctx.cu_die
  funcDie,   \* ctx.func_die
  inLevel,   \* ctx.in_level
  cur,       \* cur_die of the running activation
  ret,       \* the result code being returned
  at,        \* the control point
  live,      \* open DIE handles of this lookup
  answer     \* what the last lookup returned

search == <<cuDie, funcDie, inLevel, cur, ret>>
vars == <<info, cursor, start, target, search, at, live, answer>>

\* The abstract lookup: it moves the iterator only when it answers.
AL == INSTANCE AddressLookup WITH
        cursor <- IF at \in {"idle", "found"} THEN cursor ELSE start,
        phase  <- IF at \in {"idle", "found"} THEN "idle" ELSE "busy"

(***************************************************************************)
(* Control points:                                                         *)
(*   idle     main is between two addresses                                *)
(*   cu       searchFunction is about to call dwarf_next_cu_header_d       *)
(*   look     searchInDieTree is about to call searchInDie(cur)            *)
(*   child    ... dwarf_child(cur)                                         *)
(*   sibling  ... dwarf_siblingof_b(cur)                                   *)
(*   return   searchInDieTree is about to return ret                       *)
(*   found    searchFunction has returned true, main uses the handles      *)
(***************************************************************************)
Points == {"idle", "cu", "look", "child", "sibling", "return", "found"}

Init == /\ info \in Infos
        /\ cursor = 0
        /\ start = 0
        /\ target = CHOOSE pc \in Pcs : TRUE
        /\ cuDie = NoDie /\ funcDie = NoDie /\ inLevel = 0
        /\ cur = NoDie
        /\ ret = "OK"
        /\ at = "idle"
        /\ live = {}
        /\ answer = AL!None

\* The context's destructor: what the context still owns is deallocated.
CtxDestroyed(handles) == handles \ {cuDie, funcDie}

\* main takes the next address of the command line.
Query == /\ at = "idle"
         /\ target' \in Pcs
         /\ start' = cursor
         /\ live' = {}
         /\ answer' = AL!None
         /\ at' = "cu"
         /\ UNCHANGED <<info, cursor, search>>

\* The iterator delivers the next CU, and the CU's only sibling is its DIE.
NextCu == /\ at = "cu"
          /\ cursor < Size(info)
          /\ cursor' = info.last[cursor + 1]
          /\ cuDie' = cursor + 1
          /\ cur' = cursor + 1
          /\ funcDie' = NoDie
          /\ inLevel' = 0
          /\ live' = live \cup {cursor + 1}
          /\ at' = "look"
          /\ UNCHANGED <<info, start, target, ret, answer>>

\* Mutant: the iterator is not rewound.
LastCu_RunsOn == /\ at = "cu"
                 /\ cursor >= Size(info)
                 /\ cursor' = cursor + 1
                 /\ at' = "idle"
                 /\ answer' = AL!Missed
                 /\ cuDie' = NoDie /\ funcDie' = NoDie
                 /\ UNCHANGED <<info, start, target, inLevel, cur, ret, live>>

\* No CU is left: libdwarf rewinds the iterator, the lookup has missed.
LastCu == /\ at = "cu"
          /\ cursor >= Size(info)
          /\ cursor' = 0
          /\ at' = "idle"
          /\ answer' = AL!Missed
          /\ cuDie' = NoDie /\ funcDie' = NoDie
          /\ UNCHANGED <<info, start, target, inLevel, cur, ret, live>>

\* Mutant: a sibling without pc range ends its level, as a first child does.
Look_SiblingReturns ==
  LET res == SearchInDie(info, cur, inLevel, target) IN
  /\ at = "look"
  /\ funcDie' = IF res = "FOUND_SUBPROG" THEN cur ELSE funcDie
  /\ IF res \in {"OK", "IN_THIS_CU"} THEN ret' = ret /\ at' = "child"
                                      ELSE ret' = res /\ at' = "return"
  /\ UNCHANGED <<info, cursor, start, target, cuDie, inLevel, cur, live, answer>>

Look == LET res == SearchInDie(info, cur, inLevel, target) IN
        /\ at = "look"
        /\ funcDie' = IF res = "FOUND_SUBPROG" THEN cur ELSE funcDie
        /\ \/ /\ \/ res \in {"ERROR", "FOUND_SUBPROG"}
                 \/ res \in {"NO_ENTRY", "NOT_THIS_CU"} /\ cur = InDie(info, cur)
              /\ ret' = res
              /\ at' = "return"
           \/ /\ \/ res \in {"OK", "IN_THIS_CU"}
                 \/ res \in {"NO_ENTRY", "NOT_THIS_CU"} /\ cur # InDie(info, cur)
              /\ ret' = ret
              /\ at' = "child"
        /\ UNCHANGED <<info, cursor, start, target, cuDie, inLevel, cur, live, answer>>

\* Mutant: the level is not counted.
Descend_NoLevel == /\ at = "child"
                   /\ HasChild(info, cur)
                   /\ cur' = FirstChild(cur)
                   /\ live' = live \cup {FirstChild(cur)}
                   /\ at' = "look"
                   /\ UNCHANGED <<info, cursor, start, target, cuDie, funcDie, inLevel, ret, answer>>

Descend == /\ at = "child"
           /\ HasChild(info, cur)
           /\ inLevel' = inLevel + 1
           /\ cur' = FirstChild(cur)
           /\ live' = live \cup {FirstChild(cur)}
           /\ at' = "look"
           /\ UNCHANGED <<info, cursor, start, target, cuDie, funcDie, ret, answer>>

NoChild == /\ at = "child"
           /\ ~HasChild(info, cur)
           /\ at' = "sibling"
           /\ UNCHANGED <<info, cursor, start, target, search, live, answer>>

\* The handle of the DIE that is left behind.  The code tests the variable
\* `child` instead of cur_die; child is null whenever a sibling is reached.
LeftBehind(child) ==
  IF cur # InDie(info, cur) /\ child # cuDie /\ child # funcDie THEN {cur} ELSE {}

\* Mutant: cur_die is not advanced to the sibling.
NextSibling_Stays == /\ at = "sibling"
                     /\ HasSibling(info, cur)
                     /\ live' = live \cup {Sibling(info, cur)}
                     /\ at' = "look"
                     /\ UNCHANGED <<info, cursor, start, target, search, answer>>

NextSibling == /\ at = "sibling"
               /\ HasSibling(info, cur)
               /\ live' = (live \ LeftBehind(NoDie)) \cup {Sibling(info, cur)}
               /\ cur' = Sibling(info, cur)
               /\ at' = "look"
               /\ UNCHANGED <<info, cursor, start, target, cuDie, funcDie, inLevel, ret, answer>>

LastSibling == /\ at = "sibling"
               /\ ~HasSibling(info, cur)
               /\ inLevel' = inLevel - 1
               /\ ret' = "OK"
               /\ at' = "return"
               /\ UNCHANGED <<info, cursor, start, target, cuDie, funcDie, cur, live, answer>>

\* Mutant: the child is freed even when the context refers to it.
Return_FreesFound ==
  /\ at = "return"
  /\ info.parent[cur] # NoDie
  /\ cur' = info.parent[cur]
  /\ live' = live \ {InDie(info, cur)}
  /\ at' = IF ret \in {"FOUND_SUBPROG", "NOT_THIS_CU", "ERROR"}
           THEN "return" ELSE "sibling"
  /\ UNCHANGED <<info, cursor, start, target, cuDie, funcDie, inLevel, ret, answer>>

\* Mutant: an error is returned before the child is freed.
Return_ErrorLeaks ==
  /\ at = "return"
  /\ info.parent[cur] # NoDie
  /\ cur' = info.parent[cur]
  /\ live' = IF ret = "ERROR" THEN live ELSE live \ ({InDie(info, cur)} \ {cuDie, funcDie})
  /\ at' = IF ret \in {"FOUND_SUBPROG", "NOT_THIS_CU", "ERROR"}
           THEN "return" ELSE "sibling"
  /\ UNCHANGED <<info, cursor, start, target, cuDie, funcDie, inLevel, ret, answer>>

\* An activation returns to the one that looks at the parent, which frees
\* the child it passed down unless the context still refers to it.
Return == /\ at = "return"
          /\ info.parent[cur] # NoDie
          /\ cur' = info.parent[cur]
          /\ live' = live \ ({InDie(info, cur)} \ {cuDie, funcDie})
          /\ at' = IF ret \in {"FOUND_SUBPROG", "NOT_THIS_CU", "ERROR"}
                   THEN "return" ELSE "sibling"
          /\ UNCHANGED <<info, cursor, start, target, cuDie, funcDie, inLevel, ret, answer>>

\* The outermost activation returns FOUND_SUBPROG to searchFunction: the
\* handles pass to main, and the context forgets them.
ReturnFound == /\ at = "return"
               /\ info.parent[cur] = NoDie
               /\ ret = "FOUND_SUBPROG"
               /\ answer' = AL!Found(cuDie, funcDie)
               /\ cuDie' = NoDie /\ funcDie' = NoDie
               /\ at' = "found"
               /\ UNCHANGED <<info, cursor, start, target, inLevel, cur, ret, live>>

ReturnMissed == /\ at = "return"
                /\ info.parent[cur] = NoDie
                /\ ret \in {"IN_THIS_CU", "ERROR"}
                /\ live' = CtxDestroyed(live)
                /\ cuDie' = NoDie /\ funcDie' = NoDie
                /\ answer' = IF ret = "ERROR" THEN AL!Failed ELSE AL!Missed
                /\ at' = "idle"
                /\ UNCHANGED <<info, cursor, start, target, inLevel, cur, ret>>

ReturnToNextCu == /\ at = "return"
                  /\ info.parent[cur] = NoDie
                  /\ ret \in {"OK", "NO_ENTRY", "NOT_THIS_CU"}
                  /\ live' = CtxDestroyed(live)
                  /\ cuDie' = NoDie /\ funcDie' = NoDie
                  /\ at' = "cu"
                  /\ UNCHANGED <<info, cursor, start, target, inLevel, cur, ret, answer>>

\* A libdwarf call of searchFunction fails, before or after the iterator has
\* moved: the lookup ends.
CuCallFails == /\ LibMayFail
               /\ at = "cu"
               /\ \/ cursor' = cursor
                  \/ cursor < Size(info) /\ cursor' = info.last[cursor + 1]
               /\ at' = "idle"
               /\ answer' = AL!Failed
               /\ UNCHANGED <<info, start, target, search, live>>

\* A libdwarf call of searchInDieTree fails: the error is returned from level
\* to level.
CallFails == /\ LibMayFail
             /\ at \in {"look", "child", "sibling"}
             /\ at' = "return"
             /\ ret' = "ERROR"
             /\ UNCHANGED <<info, cursor, start, target, cuDie, funcDie, inLevel, cur, live, answer>>

\* main is done with an address it found: the normal end of the loop body.
Release == /\ at = "found"
           /\ live' = live \ {answer.cu, answer.func}
           /\ at' = "idle"
           /\ UNCHANGED <<info, cursor, start, target, search, answer>>

\* main gives an address up (no address size or version) and continues.
GiveUp == /\ at = "found"
          /\ LibMayFail
          /\ at' = "idle"
          /\ UNCHANGED <<info, cursor, start, target, search, live, answer>>

Lookup == \/ NextCu \/ LastCu
          \/ Look \/ Descend \/ NoChild \/ NextSibling \/ LastSibling
          \/ Return \/ ReturnFound \/ ReturnMissed \/ ReturnToNextCu
          \/ CuCallFails \/ CallFails

Next == Query \/ Lookup \/ Release \/ GiveUp

\* main never stops in the middle of a lookup: nothing blocks the thread.
Spec == Init /\ [][Next]_vars /\ WF_vars(Lookup)

-----------------------------------------------------------------------------
Searching == at \in {"look", "child", "sibling", "return"}

\* The DIEs the activations on the recursion stack look at.
OnPath(d) == d <= cur /\ cur <= info.last[d]

IsFirstChild(d) == info.parent[d] # NoDie /\ d = FirstChild(info.parent[d])

\* Type invariant of the searcher's context, result code and handles.
TypeOK ==
  /\ info \in Infos
  /\ cursor \in 0 .. Size(info) /\ start \in 0 .. Size(info)
  /\ target \in Pcs
  /\ {cuDie, funcDie} \subseteq Dies(info) \cup {NoDie}
  /\ cur \in Dies(info) \cup {NoDie}
  /\ inLevel \in Int
  /\ ret \in Code
  /\ at \in Points
  /\ live \subseteq Dies(info)
  /\ answer \in [cu: Dies(info) \cup {NoDie}, func: Dies(info) \cup {NoDie},
                result: {"none", "found", "missed", "failed"}]

\* No DIE handle is used after it was deallocated, and none is deallocated
\* twice (dwarf_searcher.cpp:221-224, 313-317 and the destructor of
\* DwarfCUContext): every handle an activation, the context or main still
\* refers to is open, and so is the first child each caller will free.
HandlesLive ==
  /\ Searching => \A d \in Dies(info) :
       OnPath(d) => d \in live /\ (d # cur => FirstChild(d) \in live)
  /\ cuDie # NoDie => cuDie \in live
  /\ funcDie # NoDie => funcDie \in live
  /\ at = "found" => {answer.cu, answer.func} \subseteq live

\* What a finished lookup leaks: DIEs reached as siblings only.  The first
\* child of every level is freed by the level above and the CU's DIE by the
\* context (lines 221-224, 330), on every path, errors included.
OnlySiblingsLeak ==
  at \in {"idle", "found"} =>
    \A d \in live \ {answer.cu, answer.func} :
      info.parent[d] # NoDie /\ ~IsFirstChild(d)

\* An answer is a subprogram that covers the target, inside the CU that is
\* handed out with it and that the iterator delivered last: main looks the
\* line up in that CU's table and the frame base up in that function.
AnswerSound ==
  at = "found" =>
    LET pc == info.die[answer.func].pc IN
    /\ info.die[answer.cu].tag = "cu"
    /\ info.die[answer.func].tag = "subprogram"
    /\ answer.cu < answer.func /\ answer.func <= info.last[answer.cu]
    /\ cursor = info.last[answer.cu]
    /\ pc.form = "address" => target \in pc.low .. (pc.high - 1)
    /\ pc.form = "constant" => target \in pc.low .. (pc.low + pc.high - 1)
    /\ pc.form # "absent"

\* in_level never falls below the depth of the DIE that is looked at, so that
\* the test "CU DIEs are only at level 0" (lines 167-171) catches a CU DIE
\* below a root even after early returns have left in_level unbalanced.
InLevelCoversDepth ==
  at = "look" =>
    inLevel >= Cardinality({d \in Dies(info) : OnPath(d) /\ d # cur})

\* The searcher implements the abstract lookup: the traversal answers with
\* the first candidate, in preorder, of the first CU that stops it, and
\* leaves the iterator at that CU.
ImplementsLookup == AL!Spec

\* Every lookup comes to an answer (the loops at lines 208 and 283).
LookupEnds == at = "cu" ~> at \in {"idle", "found"}

\* What the usage text promises of several addresses on one command line
\* (dwarf2line.cpp:25): the answer for an address does not depend on the
\* addresses before it.
LookupsIndependent ==
  answer.result # "none" => answer = AL!AnswerFrom(info, 0, target)
=============================================================================
