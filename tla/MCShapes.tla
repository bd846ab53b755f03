------------------------------- MODULE MCShapes -------------------------------
(***************************************************************************)
(* Every shape a section of n DIEs can have (DebugInfo).                   *)
(***************************************************************************)
EXTENDS DebugInfo, FiniteSetsExt

\* Preorder forests are the families of nested intervals d .. last[d].
Nested(n) ==
  {last \in [1 .. n -> 1 .. n] :
     \A a, d \in 1 .. n : d <= last[d] /\ (a < d /\ d <= last[a] => last[d] <= last[a])}

Above(last, d) == {a \in 1 .. (d - 1) : d <= last[a]}

ParentOf(last, d) == IF Above(last, d) = {} THEN NoDie ELSE Max(Above(last, d))

Shapes(n) ==
  {[last |-> last, parent |-> [d \in 1 .. n |-> ParentOf(last, d)]] : last \in Nested(n)}
=============================================================================
