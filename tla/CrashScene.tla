------------------------------ MODULE CrashScene ------------------------------
(***************************************************************************)
(* From the text of a minidump to the values that are printed: dwarf2line  *)
(* (Report) with the context file of its option -c (ContextFile).          *)
(*                                                                         *)
(* An incident is a job and a scene.  The convertor has ended before main  *)
(* opens the file, and main does not look at the file before: its steps    *)
(* are taken there.                                                        *)
(***************************************************************************)
EXTENDS Report, ContextFile

CONSTANT Incidents   \* [job, scene]

ASSUME CrashSceneAssumption ==
  \A i \in Incidents : i.job \in Jobs /\ i.scene \in Scenes

sceneVars == <<vars, fileVars>>

SceneInit ==
  /\ \E i \in Incidents : job = i.job /\ scene = i.scene
  /\ Init /\ FileInit

Main == Step /\ UNCHANGED fileVars

File == pc = "context" /\ FileNext /\ UNCHANGED vars

\* Mutant: the first frame of the last thread.
FirstThreadFrame_Last ==
  IF ctx # <<>> /\ ctx[Len(ctx)].frames # <<>> THEN {ctx[Len(ctx)].frames[1]} ELSE {}

\* getFirstThreadFrame.
FirstThreadFrame ==
  IF ctx # <<>> /\ ctx[1].frames # <<>> THEN {ctx[1].frames[1]} ELSE {}

\* The memory provider: without a frame it has no memory.
Memory ==
  {[base |-> f.base, stack |-> f.stack] :
     f \in IF FirstThreadFrame = {} THEN {[base |-> 0, stack |-> <<>>]} ELSE FirstThreadFrame}

Serve ==
  /\ stage \in {"loaded", "rejected"}
  /\ context' = IF stage = "loaded" THEN Memory ELSE {}
  /\ LoadContext /\ UNCHANGED fileVars

\* A size nothing can be allocated for ends the program.
Abort ==
  /\ pc = "context" /\ stage = "aborted"
  /\ pc' = "aborted"
  /\ UNCHANGED <<cmd, place, naming, walk, loading, lists, live, heap, values, fileVars>>

SceneNext == Main \/ File \/ Serve \/ Abort

SceneSpec == SceneInit /\ [][SceneNext]_sceneVars /\ WF_sceneVars(SceneNext)
-----------------------------------------------------------------------------
\* Type invariant.
SceneTypeOK == TypeOK /\ FileTypeOK

\* The bytes a value is printed from are those the text shows at its address
\* for the first frame of the first thread - which the convertor does not ask
\* for being the crashed one - unless the file was cut, or behind a short row
\* words of its characters were taken for bytes, or the bytes run up to the end
\* of the address space, where the test of the memory provider wraps
\* (minidump_convertor.py:58-69, dwarf_context.cpp:58-64, dwarf2line.cpp:39-90).
ValuesFromText ==
  ~cut =>
    \A i \in DOMAIN values :
      LET v == values[i].value
          shown == scene.threads[1].frames[1] IN
      v.addr # 0 /\ v.addr + v.reads <= MaxSize =>
        /\ scene.threads[1].frames # <<>>
        /\ \A f \in context : \A a \in v.addr .. (v.addr + v.reads - 1) :
             IF a < shown.base + Len(shown.stack)
             THEN f.stack[a - f.base + 1] = shown.stack[a - shown.base + 1]
             ELSE f.stack[a - f.base + 1] \in MoreWords(shown)
=============================================================================
