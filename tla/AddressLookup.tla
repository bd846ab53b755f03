---------------------------- MODULE AddressLookup ----------------------------
(***************************************************************************)
(* What DwarfSearcher::searchFunction promises, without its traversal: a   *)
(* lookup is asked for a target pc and is answered in one step.  The       *)
(* answer is a function of the section, of the target, and of the place    *)
(* the previous lookup left libdwarf's CU iterator at.                     *)
(***************************************************************************)
EXTENDS DebugInfo

CONSTANTS Infos,      \* the sections a program may be started on
          Pcs,        \* the addresses a user may ask for
          LibMayFail  \* TRUE: a libdwarf call may return DW_DLV_ERROR

VARIABLES info,       \* the section (never changes)
          cursor,     \* last DIE of the last CU the iterator delivered
          target,     \* the pc asked for
          phase,      \* "idle": no lookup runs; "busy": one runs
          answer      \* of the last lookup: None, Found, Missed or Failed

vars == <<info, cursor, target, phase, answer>>

\* searchFunction returns false in both of the last two cases; `result` keeps
\* them apart because only a failing call may turn the one into the other.
None   == [result |-> "none", cu |-> NoDie, func |-> NoDie]
Found(cu, func) == [result |-> "found", cu |-> cu, func |-> func]
Missed == [result |-> "missed", cu |-> NoDie, func |-> NoDie]
Failed == [result |-> "failed", cu |-> NoDie, func |-> NoDie]

CuRoots(i) == {d \in Dies(i) : i.die[d].tag = "cu"}

Subtree(i, d) == (d + 1) .. i.last[d]

\* A subprogram DIE without a pc range: a declaration, an abstract instance,
\* or a function that has DW_AT_ranges only.
Pcless(i, d) == i.die[d].tag = "subprogram" /\ ~HavePcRange(i.die[d].pc)

\* The DIEs the traversal of CU c never looks at: those under a parent whose
\* first child is a subprogram without pc range, that first child excepted.
Hidden(i, c, d) ==
  \E a \in Subtree(i, c) :
    /\ a <= d /\ d <= i.last[a]
    /\ Pcless(i, FirstChild(i.parent[a]))
    /\ d # FirstChild(i.parent[a])

\* The functions of CU c that the traversal can answer with.
Candidates(i, c, pc) ==
  {d \in Subtree(i, c) : /\ i.die[d].tag = "subprogram"
                         /\ HavePcRange(i.die[d].pc) /\ InPcRange(i.die[d].pc, pc)
                         /\ ~Hidden(i, c, d)}

Searched(i, c, pc) == MatchCUDie(i, c, pc) \in {"OK", "IN_THIS_CU"}

\* The CUs at which a lookup that starts at `from` comes to an end.
Stops(i, from, pc) ==
  {c \in CuRoots(i) :
     /\ from < c
     /\ \/ MatchCUDie(i, c, pc) = "ERROR"
        \/ Searched(i, c, pc) /\ Candidates(i, c, pc) # {}}

First(S) == CHOOSE d \in S : \A e \in S : d <= e

\* The answer, and where the iterator is left.
AnswerFrom(i, from, pc) ==
  LET stops == Stops(i, from, pc)
      cu    == First(stops)
  IN  IF stops = {} THEN Missed
      ELSE IF MatchCUDie(i, cu, pc) = "ERROR" THEN Failed
      ELSE Found(cu, First(Candidates(i, cu, pc)))

CursorAfter(i, from, pc) ==
  LET stops == Stops(i, from, pc)
  IN  IF stops = {} THEN 0 ELSE i.last[First(stops)]

-----------------------------------------------------------------------------
Init == /\ info \in Infos
        /\ cursor = 0
        /\ target \in Pcs
        /\ phase = "idle"
        /\ answer = None

Ask == /\ phase = "idle"
       /\ phase' = "busy"
       /\ target' \in Pcs
       /\ answer' = None
       /\ UNCHANGED <<info, cursor>>

Reply == /\ phase = "busy"
         /\ phase' = "idle"
         /\ answer' = AnswerFrom(info, cursor, target)
         /\ cursor' = CursorAfter(info, cursor, target)
         /\ UNCHANGED <<info, target>>

\* A failing library call ends the lookup wherever it is.
Fail == /\ LibMayFail
        /\ phase = "busy"
        /\ phase' = "idle"
        /\ answer' = Failed
        /\ cursor' \in {cursor} \cup {info.last[c] : c \in {d \in CuRoots(info) : cursor < d}}
        /\ UNCHANGED <<info, target>>

Next == Ask \/ Reply \/ Fail

Spec == Init /\ [][Next]_vars /\ WF_vars(Reply \/ Fail)
=============================================================================
