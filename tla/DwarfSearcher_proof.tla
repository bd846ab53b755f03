-------------------------- MODULE DwarfSearcher_proof --------------------------
(***************************************************************************)
(* The searcher's type correctness, the ownership of its DIE handles, the  *)
(* soundness of its answers and that it implements AddressLookup, for every *)
(* set of well-formed sections and every set of addresses, with library calls *)
(* that fail or do not.                                                    *)
(***************************************************************************)
EXTENDS DwarfSearcher, FiniteSetTheorems, WellFoundedInduction, TLAPS

(***************************************************************************)
(* The shape of a section.                                                 *)
(***************************************************************************)
\* What WellFormed says of the numbers, without the attributes.
LEMMA Numbers ==
  ASSUME NEW i, WellFormed(i)
  PROVE  /\ Size(i) \in Nat
         /\ Dies(i) \subseteq Nat
         /\ \A d \in Dies(i) : /\ i.last[d] \in Dies(i)
                               /\ d <= i.last[d]
                               /\ i.parent[d] \in Nat
<1>1. Size(i) \in Nat
  BY DEF WellFormed, Shape, Size
<1>2. Dies(i) \subseteq Nat
  BY <1>1 DEF Dies
<1>3. ASSUME NEW d \in Dies(i)
      PROVE  i.last[d] \in Dies(i) /\ d <= i.last[d] /\ i.parent[d] \in 0 .. Size(i)
  BY DEF WellFormed, Shape
<1> QED
  BY <1>1, <1>2, <1>3

\* The parent of a DIE that has one is a DIE, before it and around it.
LEMMA ParentShape ==
  ASSUME NEW i, WellFormed(i), NEW d \in Dies(i), i.parent[d] # NoDie
  PROVE  /\ i.parent[d] \in Dies(i)
         /\ i.parent[d] < d
         /\ d <= i.last[i.parent[d]]
<1>1. Size(i) \in Nat /\ i.parent[d] \in 0 .. Size(i)
  BY DEF WellFormed, Shape, Size
<1> QED
  BY <1>1 DEF WellFormed, Shape, Dies, NoDie

\* Subtrees nest: a DIE inside another's subtree has a parent there, and its
\* own subtree ends no later.
LEMMA Nesting ==
  ASSUME NEW i, WellFormed(i), NEW a \in Dies(i), NEW d \in Dies(i), a < d, d <= i.last[a]
  PROVE  /\ i.parent[d] # NoDie
         /\ a <= i.parent[d]
         /\ i.last[d] <= i.last[a]
BY DEF WellFormed, Shape

\* The first child is a DIE, and d is its parent.
LEMMA ChildShape ==
  ASSUME NEW i, WellFormed(i), NEW d \in Dies(i), HasChild(i, d)
  PROVE  FirstChild(d) \in Dies(i) /\ i.parent[FirstChild(d)] = d
<1>1. d \in Nat /\ i.last[d] \in Dies(i) /\ i.last[d] \in Nat /\ Size(i) \in Nat
  BY Numbers
<1>2. FirstChild(d) \in Dies(i) /\ d < FirstChild(d) /\ FirstChild(d) <= i.last[d]
  BY <1>1 DEF HasChild, FirstChild, Dies
<1>3. i.parent[FirstChild(d)] # NoDie /\ d <= i.parent[FirstChild(d)]
  BY <1>2, Nesting
<1>4. i.parent[FirstChild(d)] < FirstChild(d) /\ i.parent[FirstChild(d)] \in Nat
  BY <1>2, <1>3, ParentShape, Numbers
<1> QED
  BY <1>1, <1>2, <1>3, <1>4 DEF FirstChild

\* The sibling is a DIE below the same parent.
LEMMA SiblingShape ==
  ASSUME NEW i, WellFormed(i), NEW d \in Dies(i), HasSibling(i, d)
  PROVE  /\ Sibling(i, d) \in Dies(i)
         /\ Sibling(i, d) > d
         /\ Sibling(i, d) <= i.last[i.parent[d]]
         /\ i.parent[Sibling(i, d)] = i.parent[d]
<1> DEFINE s == Sibling(i, d)
           p == i.parent[d]
           q == i.parent[s]
<1>1. p \in Dies(i) /\ p < d
  BY ParentShape DEF HasSibling
<1>2. /\ d \in Nat /\ p \in Nat /\ Size(i) \in Nat
      /\ i.last[d] \in Nat /\ i.last[p] \in Nat /\ i.last[p] \in Dies(i)
      /\ d <= i.last[d]
  BY <1>1, Numbers
<1>3. s \in Dies(i) /\ s > d /\ s <= i.last[p] /\ s = i.last[d] + 1 /\ s \in Nat
  BY <1>1, <1>2 DEF HasSibling, Sibling, Dies
<1>4. q # NoDie /\ p <= q
  <2>1. p < s
    BY <1>1, <1>2, <1>3
  <2> QED
    BY <1>1, <1>3, <2>1, Nesting
<1>5. q \in Dies(i) /\ q < s /\ s <= i.last[q] /\ q \in Nat /\ i.last[q] \in Nat
  BY <1>3, <1>4, ParentShape, Numbers
<1>6. q < d
  <2>1. SUFFICES ASSUME d <= q PROVE FALSE
    BY <1>2, <1>5
  <2>2. CASE q = d
    BY <1>2, <1>3, <1>5, <2>2
  <2>3. CASE d < q
    <3>1. q <= i.last[d]
      BY <1>2, <1>3, <1>5
    <3>2. i.last[q] <= i.last[d]
      BY <1>5, <2>3, <3>1, Nesting
    <3> QED
      BY <1>2, <1>3, <1>5, <3>2
  <2> QED
    BY <1>2, <1>5, <2>1, <2>2, <2>3
<1>7. d <= i.last[q]
  BY <1>2, <1>3, <1>5
<1>8. q <= p
  BY <1>5, <1>6, <1>7, Nesting
<1> QED
  BY <1>2, <1>3, <1>4, <1>5, <1>8

\* Where the CU iterator rests: before the section or at the end of a CU.
CuEnd(i, c) ==
  c = 0 \/ \E r \in Dies(i) : i.parent[r] = NoDie /\ c = i.last[r]

\* The DIE behind such a place is the root of a CU.
LEMMA NextRoot ==
  ASSUME NEW i, WellFormed(i), NEW c \in 0 .. Size(i), CuEnd(i, c), c < Size(i)
  PROVE  /\ c + 1 \in Dies(i)
         /\ i.parent[c + 1] = NoDie
         /\ i.last[c + 1] \in Dies(i)
         /\ CuEnd(i, i.last[c + 1])
<1>1. c \in Nat /\ c + 1 \in Dies(i)
  BY Numbers DEF Dies
<1>2. i.parent[c + 1] = NoDie
  <2>1. SUFFICES ASSUME i.parent[c + 1] # NoDie PROVE FALSE
    OBVIOUS
  <2> DEFINE q == i.parent[c + 1]
  <2>2. q \in Dies(i) /\ q < c + 1 /\ c + 1 <= i.last[q] /\ q \in Nat /\ q # 0
    BY <1>1, <2>1, ParentShape, Numbers DEF NoDie
  <2>3. PICK r \in Dies(i) : i.parent[r] = NoDie /\ c = i.last[r]
    <3>1. c # 0
      BY <1>1, <2>2
    <3> QED
      BY <3>1 DEF CuEnd
  <2>4. r \in Nat /\ i.last[q] \in Nat /\ i.last[r] \in Nat /\ r <= i.last[r]
    BY <2>2, Numbers
  <2>5. CASE q < r
    <3>1. r <= i.last[q]
      BY <1>1, <2>2, <2>3, <2>4
    <3> QED
      BY <2>2, <2>3, <2>5, <3>1, Nesting
  <2>6. CASE r < q
    <3>1. q <= i.last[r]
      BY <1>1, <2>2, <2>3
    <3>2. i.last[q] <= i.last[r]
      BY <2>2, <2>3, <2>6, <3>1, Nesting
    <3> QED
      BY <1>1, <2>2, <2>3, <2>4, <3>2
  <2>7. CASE r = q
    BY <1>1, <2>2, <2>3, <2>7
  <2> QED
    BY <2>2, <2>4, <2>5, <2>6, <2>7
<1>3. i.last[c + 1] \in Dies(i)
  BY <1>1, Numbers
<1> QED
  BY <1>1, <1>2, <1>3 DEF CuEnd

(***************************************************************************)
(* The DIEs on the recursion stack.                                        *)
(***************************************************************************)
\* Each DIE on the path to c is open, and so is the first child of each but c.
PathLive(i, handles, c) ==
  \A d \in Dies(i) :
    d <= c /\ c <= i.last[d] => d \in handles /\ (d # c => FirstChild(d) \in handles)

LEMMA PathRoot ==
  ASSUME NEW i, WellFormed(i), NEW handles, NEW c \in Dies(i), i.parent[c] = NoDie, c \in handles
  PROVE  PathLive(i, handles, c)
<1> SUFFICES ASSUME NEW d \in Dies(i), d <= c, c <= i.last[d] PROVE d = c
  BY DEF PathLive
<1>1. ~ d < c
  BY Nesting
<1> QED
  BY <1>1, Numbers

LEMMA PathDown ==
  ASSUME NEW i, WellFormed(i), NEW handles, NEW c \in Dies(i), HasChild(i, c), PathLive(i, handles, c)
  PROVE  PathLive(i, handles \cup {FirstChild(c)}, FirstChild(c))
<1> SUFFICES ASSUME NEW d \in Dies(i), d <= FirstChild(c), FirstChild(c) <= i.last[d], d # FirstChild(c)
             PROVE  d \in handles /\ (d # c => FirstChild(d) \in handles)
  BY DEF PathLive
<1>1. c \in Nat /\ d \in Nat /\ i.last[d] \in Nat
  BY Numbers
<1>2. d <= c /\ c <= i.last[d]
  BY <1>1 DEF FirstChild
<1> QED
  BY <1>2 DEF PathLive

LEMMA PathAcross ==
  ASSUME NEW i, WellFormed(i), NEW handles, NEW c \in Dies(i), HasSibling(i, c), PathLive(i, handles, c)
  PROVE  PathLive(i, handles \cup {Sibling(i, c)}, Sibling(i, c))
<1> DEFINE s == Sibling(i, c)
<1> SUFFICES ASSUME NEW d \in Dies(i), d <= s, s <= i.last[d], d # s
             PROVE  d \in handles /\ FirstChild(d) \in handles
  BY DEF PathLive
<1>1. s \in Dies(i) /\ s > c /\ i.parent[s] = i.parent[c] /\ i.parent[c] # NoDie
  BY SiblingShape DEF HasSibling
<1>2. c \in Nat /\ d \in Nat /\ s \in Nat /\ i.last[d] \in Nat /\ i.parent[c] \in Nat
  BY <1>1, Numbers
<1>3. d <= i.parent[c]
  BY <1>1, <1>2, Nesting
<1>4. i.parent[c] < c
  BY <1>1, ParentShape
<1>5. d < c /\ c <= i.last[d]
  BY <1>1, <1>2, <1>3, <1>4
<1> QED
  BY <1>2, <1>5 DEF PathLive

\* Freeing the first child of the level that is left frees nothing above it.
LEMMA PathUp ==
  ASSUME NEW i, WellFormed(i), NEW handles, NEW c \in Dies(i), i.parent[c] # NoDie,
         PathLive(i, handles, c)
  PROVE  PathLive(i, handles \ {InDie(i, c)}, i.parent[c])
<1> DEFINE p == i.parent[c]
<1> SUFFICES ASSUME NEW d \in Dies(i), d <= p, p <= i.last[d]
             PROVE  /\ d \in handles /\ d # InDie(i, c)
                    /\ d # p => FirstChild(d) \in handles /\ FirstChild(d) # InDie(i, c)
  BY DEF PathLive
<1>1. p \in Dies(i) /\ p < c /\ c <= i.last[p]
  BY ParentShape
<1>2. c \in Nat /\ d \in Nat /\ p \in Nat /\ i.last[d] \in Nat /\ i.last[p] \in Nat
  BY <1>1, Numbers
<1>3. i.last[p] <= i.last[d]
  <2>1. CASE d = p
    BY <1>2, <2>1
  <2>2. CASE d < p
    BY <1>1, <2>2, Nesting
  <2> QED
    BY <1>2, <2>1, <2>2
<1>4. d < c /\ c <= i.last[d]
  BY <1>1, <1>2, <1>3
<1>5. d \in handles /\ FirstChild(d) \in handles
  BY <1>2, <1>4 DEF PathLive
<1> QED
  BY <1>2, <1>5 DEF InDie, FirstChild

(***************************************************************************)
(* The inductive invariant.                                                *)
(***************************************************************************)
\* d is a subprogram of CU c that covers the target.
Covers(c, d) ==
  /\ d \in Dies(info) /\ c < d /\ d <= info.last[c]
  /\ SearchInDie(info, d, 0, target) = "FOUND_SUBPROG"

\* The running search lies inside the CU that the iterator delivered last.
InCu ==
  /\ cur \in Dies(info) /\ cuDie \in Dies(info)
  /\ info.parent[cuDie] = NoDie
  /\ cursor = info.last[cuDie]
  /\ cuDie <= cur /\ cur <= info.last[cuDie]

\* The function is known exactly while FOUND_SUBPROG is being returned.
FuncKnown ==
  /\ funcDie # NoDie =>
       /\ at = "return" /\ ret = "FOUND_SUBPROG"
       /\ funcDie \in live
       /\ Covers(cuDie, funcDie)
  /\ at = "return" /\ ret = "FOUND_SUBPROG" => funcDie # NoDie

\* What main has been handed out.
Answered ==
  /\ {answer.cu, answer.func} \subseteq live
  /\ answer.cu \in Dies(info)
  /\ info.parent[answer.cu] = NoDie
  /\ cursor = info.last[answer.cu]
  /\ Covers(answer.cu, answer.func)

Inv ==
  /\ TypeOK
  /\ CuEnd(info, cursor)
  /\ ~Searching => cuDie = NoDie /\ funcDie = NoDie
  /\ Searching => InCu /\ cuDie \in live /\ PathLive(info, live, cur)
  /\ FuncKnown
  /\ at = "found" => Answered

LEMMA WellFormedInfo == TypeOK => WellFormed(info) /\ target \in Nat
BY InfosAssumption, PcsAssumption DEF TypeOK

\* The result codes of searchInDie.
LEMMA ResultCode ==
  ASSUME NEW i, NEW d, NEW level, NEW pc
  PROVE  /\ SearchInDie(i, d, level, pc) \in Code
         /\ SearchInDie(i, d, level, pc) = "FOUND_SUBPROG" =>
              /\ i.die[d].tag = "subprogram"
              /\ SearchInDie(i, d, 0, pc) = "FOUND_SUBPROG"
BY DEF SearchInDie, MatchFuncDie, MatchCUDie, Code

\* A root has the tag of a CU, so it is no subprogram.
LEMMA RootTag ==
  ASSUME NEW i, WellFormed(i), NEW d \in Dies(i)
  PROVE  i.die[d].tag = "cu" <=> i.parent[d] = NoDie
BY DEF WellFormed, Shape

LEMMA InvInit == Init => Inv
<1> SUFFICES ASSUME Init PROVE Inv
  OBVIOUS
<1>1. info \in Infos /\ Size(info) \in Nat
  BY InfosAssumption, Numbers DEF Init
<1>2. target \in Pcs
  BY PcsAssumption DEF Init
<1>3. TypeOK
  BY <1>1, <1>2 DEF Init, TypeOK, Code, Points, AL!None, AL!NoDie, NoDie
<1> QED
  BY <1>3 DEF Init, Inv, CuEnd, Searching, FuncKnown

LEMMA InvNext == Inv /\ [Next]_vars => Inv'
<1> SUFFICES ASSUME Inv, [Next]_vars PROVE Inv'
  OBVIOUS
<1>0. /\ TypeOK
      /\ WellFormed(info)
      /\ Size(info) \in Nat
      /\ Dies(info) \subseteq Nat /\ NoDie \notin Dies(info)
      /\ Dies(info) \subseteq 0 .. Size(info)
      /\ \A d \in Dies(info) : info.last[d] \in Dies(info) /\ d <= info.last[d]
  BY WellFormedInfo, Numbers DEF Inv, Dies, NoDie
<1>1. CASE Query
  <2>1. TypeOK'
    BY <1>0, <1>1 DEF Query, TypeOK, AL!None, AL!NoDie, NoDie, Points, search
  <2> QED
    BY <1>1, <2>1 DEF Query, Inv, Searching, FuncKnown, CuEnd, Dies, Size, search
<1>2. CASE NextCu
  <2>1. /\ cursor + 1 \in Dies(info)
        /\ info.parent[cursor + 1] = NoDie
        /\ info.last[cursor + 1] \in Dies(info)
        /\ CuEnd(info, info.last[cursor + 1])
    BY <1>0, <1>2, NextRoot DEF NextCu, TypeOK, Inv
  <2>2. TypeOK'
    BY <1>0, <1>2, <2>1 DEF NextCu, TypeOK, Points
  <2>3. InCu'
    BY <1>0, <1>2, <2>1 DEF NextCu, InCu
  <2>4. PathLive(info, live', cursor + 1)
    BY <1>0, <1>2, <2>1, PathRoot DEF NextCu
  <2> QED
    BY <1>2, <2>1, <2>2, <2>3, <2>4 DEF NextCu, Inv, Searching, FuncKnown
<1>3. CASE LastCu
  <2>1. TypeOK'
    BY <1>0, <1>3 DEF LastCu, TypeOK, AL!Missed, AL!NoDie, NoDie, Points
  <2> QED
    BY <1>3, <2>1 DEF LastCu, Inv, Searching, FuncKnown, CuEnd
<1>4. CASE Look
  <2> DEFINE res == SearchInDie(info, cur, inLevel, target)
  <2>1. /\ res \in Code
        /\ res = "FOUND_SUBPROG" =>
             info.die[cur].tag = "subprogram" /\ SearchInDie(info, cur, 0, target) = "FOUND_SUBPROG"
    BY ResultCode
  <2>2. cur \in Dies(info) /\ InCu /\ cur \in live
    BY <1>0, <1>4 DEF Look, Inv, Searching, InCu, PathLive
  <2>3. res = "FOUND_SUBPROG" => Covers(cuDie, cur)
    <3>1. res = "FOUND_SUBPROG" => cur # cuDie
      BY <1>0, <2>1, <2>2, RootTag DEF InCu
    <3> QED
      BY <1>0, <2>1, <2>2, <3>1 DEF InCu, Covers
  <2>4. TypeOK'
    BY <1>0, <1>4, <2>1, <2>2 DEF Look, TypeOK, Points
  <2>5. FuncKnown'
    BY <1>0, <1>4, <2>2, <2>3 DEF Look, Inv, FuncKnown, Covers
  <2> QED
    BY <1>4, <2>2, <2>4, <2>5 DEF Look, Inv, Searching, InCu
<1>5. CASE Descend
  <2>1. cur \in Dies(info) /\ InCu /\ PathLive(info, live, cur)
    BY <1>5 DEF Descend, Inv, Searching, InCu
  <2>2. FirstChild(cur) \in Dies(info) /\ info.parent[FirstChild(cur)] = cur
    BY <1>0, <1>5, <2>1, ChildShape DEF Descend
  <2>3. PathLive(info, live', FirstChild(cur))
    BY <1>0, <1>5, <2>1, PathDown DEF Descend
  <2>4. InCu'
    <3>1. cur < FirstChild(cur) /\ cuDie <= FirstChild(cur)
      BY <1>0, <2>1, <2>2 DEF InCu, FirstChild
    <3>2. FirstChild(cur) <= info.last[cur]
      BY <1>0, <1>5, <2>1 DEF Descend, HasChild, FirstChild, InCu
    <3>3. info.last[cur] <= info.last[cuDie]
      <4>1. CASE cur = cuDie
        BY <1>0, <2>1, <4>1 DEF InCu
      <4>2. CASE cuDie < cur
        BY <1>0, <2>1, <4>2, Nesting DEF InCu
      <4> QED
        BY <1>0, <2>1, <4>1, <4>2 DEF InCu
    <3> QED
      BY <1>0, <1>5, <2>1, <2>2, <3>1, <3>2, <3>3 DEF Descend, InCu
  <2>5. TypeOK'
    BY <1>0, <1>5, <2>2 DEF Descend, TypeOK, Points
  <2> QED
    BY <1>5, <2>1, <2>3, <2>4, <2>5 DEF Descend, Inv, Searching, FuncKnown
<1>6. CASE NoChild
  <2>1. TypeOK'
    BY <1>0, <1>6 DEF NoChild, TypeOK, Points, search
  <2> QED
    BY <1>6, <2>1 DEF NoChild, Inv, Searching, FuncKnown, InCu, search
<1>7. CASE NextSibling
  <2> DEFINE s == Sibling(info, cur)
  <2>1. cur \in Dies(info) /\ InCu /\ PathLive(info, live, cur) /\ funcDie = NoDie
    BY <1>7 DEF NextSibling, Inv, Searching, InCu, FuncKnown
  <2>2. LeftBehind(NoDie) = {}
    BY <2>1 DEF LeftBehind
  <2>3. /\ s \in Dies(info) /\ s > cur
        /\ s <= info.last[info.parent[cur]]
        /\ info.parent[s] = info.parent[cur]
    BY <1>0, <1>7, <2>1, SiblingShape DEF NextSibling
  <2>4. PathLive(info, live', s)
    BY <1>0, <1>7, <2>1, <2>2, PathAcross DEF NextSibling
  <2>5. InCu'
    <3>1. /\ info.parent[cur] # NoDie /\ info.parent[cur] \in Dies(info)
          /\ cuDie # cur
      BY <1>0, <1>7, <2>1, ParentShape DEF NextSibling, HasSibling, InCu
    <3>2. cuDie <= info.parent[cur]
      BY <1>0, <2>1, <3>1, Nesting DEF InCu
    <3>3. info.last[info.parent[cur]] <= info.last[cuDie]
      <4>1. CASE info.parent[cur] = cuDie
        BY <1>0, <3>1, <4>1
      <4>2. CASE cuDie < info.parent[cur]
        <5>1. info.parent[cur] <= info.last[cuDie]
          BY <1>0, <2>1, <3>1, ParentShape DEF InCu
        <5> QED
          BY <1>0, <2>1, <3>1, <4>2, <5>1, Nesting DEF InCu
      <4> QED
        BY <1>0, <2>1, <3>1, <3>2, <4>1, <4>2 DEF InCu
    <3> QED
      BY <1>0, <1>7, <2>1, <2>3, <3>1, <3>3 DEF NextSibling, InCu
  <2>6. TypeOK'
    BY <1>0, <1>7, <2>2, <2>3 DEF NextSibling, TypeOK, Points
  <2> QED
    BY <1>7, <2>1, <2>2, <2>4, <2>5, <2>6 DEF NextSibling, Inv, Searching, FuncKnown
<1>8. CASE LastSibling
  <2>1. TypeOK'
    BY <1>0, <1>8 DEF LastSibling, TypeOK, Points, Code
  <2> QED
    BY <1>8, <2>1 DEF LastSibling, Inv, Searching, FuncKnown, InCu
<1>9. CASE Return
  <2> DEFINE p == info.parent[cur]
  <2>1. cur \in Dies(info) /\ InCu /\ PathLive(info, live, cur) /\ cuDie \in live
    BY <1>9 DEF Return, Inv, Searching, InCu
  <2>2. p \in Dies(info) /\ p < cur
    BY <1>0, <1>9, <2>1, ParentShape DEF Return
  <2>3. PathLive(info, live \ {InDie(info, cur)}, p)
    BY <1>0, <1>9, <2>1, PathUp DEF Return
  <2>4. PathLive(info, live', p)
    BY <1>9, <2>3 DEF Return, PathLive
  <2>5. InCu'
    <3>1. cuDie # cur
      BY <1>9, <2>1 DEF Return, InCu
    <3>2. cuDie <= p
      BY <1>0, <2>1, <3>1, Nesting DEF InCu
    <3> QED
      BY <1>0, <1>9, <2>1, <2>2, <3>2 DEF Return, InCu
  <2>6. TypeOK'
    BY <1>0, <1>9, <2>2 DEF Return, TypeOK, Points
  <2>7. FuncKnown'
    BY <1>9 DEF Return, Inv, FuncKnown, Covers
  <2> QED
    BY <1>9, <2>1, <2>4, <2>5, <2>6, <2>7 DEF Return, Inv, Searching
<1>10. CASE ReturnFound
  <2>1. funcDie # NoDie /\ InCu /\ cuDie \in live /\ funcDie \in live /\ Covers(cuDie, funcDie)
    BY <1>10 DEF ReturnFound, Inv, Searching, FuncKnown
  <2>2. answer' = [result |-> "found", cu |-> cuDie, func |-> funcDie]
    BY <1>10 DEF ReturnFound, AL!Found
  <2>3. TypeOK'
    BY <1>0, <1>10, <2>2 DEF ReturnFound, TypeOK, Points
  <2>4. Answered'
    BY <1>10, <2>1, <2>2 DEF ReturnFound, Answered, InCu, Covers
  <2> QED
    BY <1>10, <2>3, <2>4 DEF ReturnFound, Inv, Searching, FuncKnown
<1>11. CASE ReturnMissed
  <2>1. TypeOK'
    BY <1>0, <1>11 DEF ReturnMissed, CtxDestroyed, TypeOK, AL!Missed, AL!Failed, AL!NoDie, NoDie, Points
  <2> QED
    BY <1>11, <2>1 DEF ReturnMissed, Inv, Searching, FuncKnown
<1>12. CASE ReturnToNextCu
  <2>1. TypeOK'
    BY <1>0, <1>12 DEF ReturnToNextCu, CtxDestroyed, TypeOK, Points
  <2> QED
    BY <1>12, <2>1 DEF ReturnToNextCu, Inv, Searching, FuncKnown
<1>13. CASE CuCallFails
  <2>1. CuEnd(info, cursor') /\ cursor' \in 0 .. Size(info)
    BY <1>0, <1>13, NextRoot DEF CuCallFails, Inv, TypeOK
  <2>2. TypeOK'
    BY <1>0, <1>13, <2>1 DEF CuCallFails, TypeOK, AL!Failed, AL!NoDie, NoDie, Points, search
  <2> QED
    BY <1>13, <2>1, <2>2 DEF CuCallFails, Inv, Searching, FuncKnown, search
<1>14. CASE CallFails
  <2>1. TypeOK'
    BY <1>0, <1>14 DEF CallFails, TypeOK, Points, Code
  <2> QED
    BY <1>14, <2>1 DEF CallFails, Inv, Searching, FuncKnown, InCu
<1>15. CASE Release
  <2>1. TypeOK'
    BY <1>0, <1>15 DEF Release, TypeOK, Points, search
  <2> QED
    BY <1>15, <2>1 DEF Release, Inv, Searching, FuncKnown, search
<1>16. CASE GiveUp
  <2>1. TypeOK'
    BY <1>0, <1>16 DEF GiveUp, TypeOK, Points, search
  <2> QED
    BY <1>16, <2>1 DEF GiveUp, Inv, Searching, FuncKnown, search
<1>17. CASE UNCHANGED vars
  BY <1>17 DEF vars, search, Inv, TypeOK, Searching, InCu, FuncKnown, Answered, Covers
<1> QED
  BY <1>1, <1>2, <1>3, <1>4, <1>5, <1>6, <1>7, <1>8, <1>9, <1>10, <1>11, <1>12, <1>13, <1>14,
     <1>15, <1>16, <1>17
  DEF Next, Lookup

\* The searcher's context, its result codes and its handles keep their types,
\* and the invariant above holds in every reachable state.
THEOREM Invariance == Spec => []Inv
<1>1. Init => Inv
  BY InvInit
<1>2. Inv /\ [Next]_vars => Inv'
  BY InvNext
<1> QED
  BY <1>1, <1>2, PTL DEF Spec

\* The type invariant of DwarfSearcher.
THEOREM TypeCorrect == Spec => []TypeOK
<1>1. Inv => TypeOK
  BY DEF Inv
<1> QED
  BY <1>1, Invariance, PTL

\* No DIE handle is used or deallocated after it was deallocated, for every
\* section and every sequence of addresses, and whichever libdwarf calls fail.
THEOREM NoUseAfterFree == Spec => []HandlesLive
<1>1. ASSUME Inv PROVE HandlesLive
  <2>1. Searching => cur \in Dies(info) /\ PathLive(info, live, cur) /\ cuDie \in live
    BY <1>1 DEF Inv, InCu
  <2>2. cuDie # NoDie => cuDie \in live
    BY <1>1, <2>1 DEF Inv
  <2>3. funcDie # NoDie => funcDie \in live
    BY <1>1 DEF Inv, FuncKnown
  <2>4. at = "found" => {answer.cu, answer.func} \subseteq live
    BY <1>1 DEF Inv, Answered
  <2> QED
    BY <2>1, <2>2, <2>3, <2>4 DEF HandlesLive, OnPath, PathLive
<1> QED
  BY <1>1, Invariance, PTL

\* A subprogram that matchFuncDie accepts covers the target.
LEMMA CoveringPc ==
  ASSUME NEW i, WellFormed(i), NEW d \in Dies(i), NEW t \in Nat,
         SearchInDie(i, d, 0, t) = "FOUND_SUBPROG"
  PROVE  /\ i.die[d].tag = "subprogram"
         /\ i.die[d].pc.form = "address" => t \in i.die[d].pc.low .. (i.die[d].pc.high - 1)
         /\ i.die[d].pc.form = "constant" =>
              t \in i.die[d].pc.low .. (i.die[d].pc.low + i.die[d].pc.high - 1)
         /\ i.die[d].pc.form # "absent"
<1> DEFINE pc == i.die[d].pc
<1>1. i.die[d] \in [tag: {"cu", "subprogram", "other"}, pc: PcAttributes, ranges: RangeLists]
  <2> DEFINE Die == [tag: {"cu", "subprogram", "other"}, pc: PcAttributes, ranges: RangeLists]
  <2>1. i.die \in Seq(Die)
    BY DEF WellFormed, Shape
  <2>2. d \in 1 .. Len(i.die)
    BY DEF Dies, Size
  <2> HIDE DEF Die
  <2>3. i.die[d] \in Die
    BY <2>1, <2>2
  <2> QED
    BY <2>3 DEF Die
<1>2. pc.low \in Nat /\ pc.high \in Nat
  BY <1>1 DEF PcAttributes
<1>3. i.die[d].tag = "subprogram"
  BY ResultCode
<1>4. HavePcRange(pc) /\ InPcRange(pc, t)
  BY <1>3 DEF SearchInDie, MatchFuncDie
<1> QED
  BY <1>2, <1>3, <1>4 DEF HavePcRange, InPcRange, HighPc

\* The function handed out covers the target, and lies in the CU handed out
\* with it, the one the iterator stands at.
THEOREM SoundAnswers == Spec => []AnswerSound
<1>1. ASSUME Inv, at = "found" PROVE AnswerSound
  <2>1. Answered /\ WellFormed(info) /\ target \in Nat
    BY <1>1, WellFormedInfo DEF Inv
  <2>2. info.die[answer.cu].tag = "cu"
    BY <2>1, RootTag DEF Answered
  <2> QED
    BY <2>1, <2>2, CoveringPc DEF Answered, Covers, AnswerSound
<1>2. Inv => AnswerSound
  BY <1>1 DEF AnswerSound
<1> QED
  BY <1>2, Invariance, PTL

(***************************************************************************)
(* What a lookup leaks.                                                    *)
(***************************************************************************)
\* d was not reached as a sibling.
NoSibling(d) == info.parent[d] = NoDie \/ IsFirstChild(d)

\* Someone will still deallocate d: the context, main, or the activation that
\* passed it down.
Owned(d) ==
  \/ d \in {cuDie, funcDie}
  \/ \E q \in Dies(info) : q < cur /\ cur <= info.last[q] /\ d = FirstChild(q)

LeakInv ==
  /\ Searching => \A d \in live : NoSibling(d) => Owned(d)
  /\ at = "cu" => \A d \in live : ~NoSibling(d)
  /\ at \in {"idle", "found"} => \A d \in live \ {answer.cu, answer.func} : ~NoSibling(d)

LEMMA LeakNext == Inv /\ LeakInv /\ [Next]_vars => LeakInv'
<1> SUFFICES ASSUME Inv, LeakInv, [Next]_vars PROVE LeakInv'
  OBVIOUS
<1>0. /\ TypeOK
      /\ WellFormed(info)
      /\ Size(info) \in Nat
      /\ Dies(info) \subseteq Nat /\ NoDie \notin Dies(info)
      /\ live \subseteq Dies(info)
      /\ \A d \in Dies(info) : info.last[d] \in Dies(info) /\ d <= info.last[d]
  BY WellFormedInfo, Numbers DEF Inv, TypeOK, Dies, NoDie
<1>1. CASE Query
  BY <1>1 DEF Query, LeakInv, Searching
<1>2. CASE NextCu
  BY <1>2 DEF NextCu, LeakInv, Searching, Owned, NoSibling, IsFirstChild
<1>3. CASE LastCu
  BY <1>3 DEF LastCu, LeakInv, Searching, NoSibling, IsFirstChild
<1>4. CASE Look
  <2>1. funcDie = NoDie
    BY <1>4 DEF Look, Inv, FuncKnown
  <2>2. \A d \in live : Owned(d) => Owned(d)'
    BY <1>0, <1>4, <2>1 DEF Look, Owned
  <2> QED
    BY <1>4, <2>2 DEF Look, LeakInv, Searching, NoSibling, IsFirstChild
<1>5. CASE Descend
  <2>1. cur \in Dies(info) /\ cur < FirstChild(cur) /\ FirstChild(cur) <= info.last[cur]
    BY <1>0, <1>5 DEF Descend, Inv, Searching, InCu, HasChild, FirstChild
  <2>2. ASSUME NEW q \in Dies(info), q < cur, cur <= info.last[q]
        PROVE  q < FirstChild(cur) /\ FirstChild(cur) <= info.last[q]
    <3>1. info.last[cur] <= info.last[q]
      BY <1>0, <2>1, <2>2, Nesting
    <3> QED
      BY <1>0, <2>1, <2>2, <3>1 DEF FirstChild
  <2>3. \A d \in live : Owned(d) => Owned(d)'
    BY <1>5, <2>2 DEF Descend, Owned
  <2>4. ASSUME NEW d, d = FirstChild(cur) PROVE Owned(d)'
    <3>1. cur < cur' /\ cur' <= info'.last[cur] /\ info' = info /\ d = FirstChild(cur)
      BY <1>5, <2>1, <2>4 DEF Descend
    <3>2. cur \in Dies(info')
      BY <2>1, <3>1
    <3> QED
      BY <3>1, <3>2 DEF Owned
  <2> QED
    <3>1. /\ live' = live \cup {FirstChild(cur)} /\ info' = info
          /\ at = "child" /\ at' = "look"
      BY <1>5 DEF Descend
    <3>2. \A d \in live' : NoSibling(d)' => Owned(d)'
      BY <2>3, <2>4, <3>1 DEF LeakInv, Searching, NoSibling, IsFirstChild
    <3> QED
      BY <3>1, <3>2 DEF LeakInv, Searching
<1>6. CASE NoChild
  BY <1>6 DEF NoChild, LeakInv, Searching, Owned, NoSibling, IsFirstChild, search
<1>7. CASE NextSibling
  <2> DEFINE s == Sibling(info, cur)
             p == info.parent[cur]
  <2>1. cur \in Dies(info) /\ funcDie = NoDie
    BY <1>7 DEF NextSibling, Inv, Searching, InCu, FuncKnown
  <2>2. /\ s \in Dies(info) /\ s > cur /\ s <= info.last[p] /\ info.parent[s] = p
        /\ p \in Dies(info) /\ p < cur /\ p # NoDie
    BY <1>0, <1>7, <2>1, SiblingShape, ParentShape DEF NextSibling, HasSibling
  <2>3. ASSUME NEW q \in Dies(info), q < cur, cur <= info.last[q]
        PROVE  q < s /\ s <= info.last[q]
    <3>1. q <= p
      BY <1>0, <2>1, <2>3, Nesting
    <3>2. info.last[p] <= info.last[q]
      <4>1. CASE q = p
        BY <1>0, <2>2, <4>1
      <4>2. CASE q < p
        <5>1. p <= info.last[q]
          BY <1>0, <2>1, <2>2, <2>3
        <5> QED
          BY <1>0, <2>2, <4>2, <5>1, Nesting
      <4> QED
        BY <1>0, <2>2, <3>1, <4>1, <4>2
    <3> QED
      BY <1>0, <2>1, <2>2, <2>3, <3>2
  <2>4. \A d \in live : Owned(d) => Owned(d)'
    BY <1>7, <2>3 DEF NextSibling, Owned
  <2>5. ~NoSibling(s)
    BY <1>0, <2>1, <2>2 DEF NoSibling, IsFirstChild, FirstChild
  <2>6. info' = info /\ live' \subseteq live \cup {s} /\ at = "sibling" /\ at' = "look"
    BY <1>7 DEF NextSibling
  <2>7. \A d : NoSibling(d)' = NoSibling(d)
    BY <2>6 DEF NoSibling, IsFirstChild
  <2> QED
    BY <2>4, <2>5, <2>6, <2>7 DEF LeakInv, Searching
<1>8. CASE LastSibling
  BY <1>8 DEF LastSibling, LeakInv, Searching, Owned, NoSibling, IsFirstChild
<1>9. CASE Return
  <2> DEFINE p == info.parent[cur]
  <2>1. cur \in Dies(info)
    BY <1>9 DEF Return, Inv, Searching, InCu
  <2>2. p \in Dies(info) /\ p < cur
    BY <1>0, <1>9, <2>1, ParentShape DEF Return
  <2>3. ASSUME NEW d \in live', Owned(d) PROVE Owned(d)'
    <3>1. CASE d \in {cuDie, funcDie}
      BY <1>9, <3>1 DEF Return, Owned
    <3>2. CASE d \notin {cuDie, funcDie}
      <4>1. PICK q \in Dies(info) : q < cur /\ cur <= info.last[q] /\ d = FirstChild(q)
        BY <2>3, <3>2 DEF Owned
      <4>2. q <= p
        BY <1>0, <2>1, <4>1, Nesting
      <4>3. d # FirstChild(p)
        BY <1>9, <2>3, <3>2 DEF Return, InDie
      <4>4. q < p /\ p <= info.last[q]
        BY <1>0, <2>1, <2>2, <4>1, <4>2, <4>3
      <4> QED
        BY <1>9, <4>1, <4>4 DEF Return, Owned
    <3> QED
      BY <3>1, <3>2
  <2>4. info' = info /\ live' \subseteq live /\ at = "return" /\ at' \in {"return", "sibling"}
    BY <1>9 DEF Return
  <2> QED
    BY <2>3, <2>4 DEF LeakInv, Searching, NoSibling, IsFirstChild
<1>10. ASSUME at = "return", info.parent[cur] = NoDie, NEW d \in live, NoSibling(d)
       PROVE  d \in {cuDie, funcDie}
  <2>1. cur \in Dies(info)
    BY <1>10 DEF Inv, Searching, InCu
  <2>2. ~ \E q \in Dies(info) : q < cur /\ cur <= info.last[q]
    BY <1>0, <1>10, <2>1, Nesting
  <2> QED
    BY <1>10, <2>2 DEF LeakInv, Searching, Owned
<1>11. CASE ReturnFound
  <2>1. answer' = [result |-> "found", cu |-> cuDie, func |-> funcDie]
    BY <1>11 DEF ReturnFound, AL!Found
  <2> QED
    BY <1>10, <1>11, <2>1 DEF ReturnFound, LeakInv, Searching, NoSibling, IsFirstChild
<1>12. CASE ReturnMissed
  BY <1>10, <1>12 DEF ReturnMissed, CtxDestroyed, LeakInv, Searching, NoSibling, IsFirstChild
<1>13. CASE ReturnToNextCu
  BY <1>10, <1>13 DEF ReturnToNextCu, CtxDestroyed, LeakInv, Searching, NoSibling, IsFirstChild
<1>14. CASE CuCallFails
  BY <1>14 DEF CuCallFails, LeakInv, Searching, NoSibling, IsFirstChild
<1>15. CASE CallFails
  BY <1>15 DEF CallFails, LeakInv, Searching, Owned, NoSibling, IsFirstChild
<1>16. CASE Release
  BY <1>16 DEF Release, LeakInv, Searching, NoSibling, IsFirstChild
<1>17. CASE GiveUp
  BY <1>17 DEF GiveUp, LeakInv, Searching, NoSibling, IsFirstChild
<1>18. CASE UNCHANGED vars
  BY <1>18 DEF vars, search, LeakInv, Searching, Owned, NoSibling, IsFirstChild
<1> QED
  BY <1>1, <1>2, <1>3, <1>4, <1>5, <1>6, <1>7, <1>8, <1>9, <1>11, <1>12, <1>13, <1>14,
     <1>15, <1>16, <1>17, <1>18
  DEF Next, Lookup

\* A lookup leaks no handle of a CU's DIE and none of a first child, whatever
\* the section and the failures: only DIEs it reached as siblings.
THEOREM OnlySiblings == Spec => []OnlySiblingsLeak
<1>1. Init => LeakInv
  BY DEF Init, LeakInv, Searching
<1>2. Inv /\ LeakInv /\ [Next]_vars => LeakInv'
  BY LeakNext
<1>3. LeakInv => OnlySiblingsLeak
  BY DEF LeakInv, OnlySiblingsLeak, NoSibling
<1> QED
  BY <1>1, <1>2, <1>3, Invariance, PTL DEF Spec

(***************************************************************************)
(* in_level and the depth of the DIE that is looked at.                    *)
(***************************************************************************)
\* The DIEs whose subtree c lies in, but c.
Above(i, c) == {d \in Dies(i) : d <= c /\ c <= i.last[d] /\ d # c}

Depth(i, c) == Cardinality(Above(i, c))

LEMMA AboveRoot ==
  ASSUME NEW i, WellFormed(i), NEW c \in Dies(i), i.parent[c] = NoDie
  PROVE  Depth(i, c) = 0
<1>1. \A d \in Dies(i) : ~ (d < c /\ c <= i.last[d])
  BY Nesting
<1>2. Above(i, c) = {}
  BY <1>1, Numbers DEF Above
<1> QED
  BY <1>2, FS_EmptySet DEF Depth

\* A DIE lies one deeper than its parent.
LEMMA AboveParent ==
  ASSUME NEW i, WellFormed(i), NEW c \in Dies(i), i.parent[c] # NoDie
  PROVE  /\ Depth(i, i.parent[c]) \in Nat
         /\ Depth(i, c) = Depth(i, i.parent[c]) + 1
<1> DEFINE p == i.parent[c]
<1>1. p \in Dies(i) /\ p < c /\ c <= i.last[p]
  BY ParentShape
<1>2. c \in Nat /\ p \in Nat /\ i.last[p] \in Nat /\ Dies(i) \subseteq Nat /\ Size(i) \in Nat
  BY <1>1, Numbers
<1>3. \A d \in Dies(i) : d \in Nat /\ i.last[d] \in Nat
  BY Numbers
<1>4. ASSUME NEW d \in Dies(i)
      PROVE  d \in Above(i, c) <=> d \in Above(i, p) \/ d = p
  <2>1. ASSUME d \in Above(i, c) PROVE d \in Above(i, p) \/ d = p
    <3>1. d < c /\ c <= i.last[d]
      BY <1>2, <1>3, <2>1 DEF Above
    <3>2. d <= p
      BY <3>1, Nesting
    <3>3. p <= i.last[d]
      BY <1>1, <1>2, <1>3, <3>1
    <3> QED
      BY <3>2, <3>3 DEF Above
  <2>2. CASE d = p
    BY <1>1, <1>2, <2>2 DEF Above
  <2>3. ASSUME d \in Above(i, p) PROVE d \in Above(i, c)
    <3>1. d < p /\ p <= i.last[d]
      BY <1>2, <1>3, <2>3 DEF Above
    <3>2. i.last[p] <= i.last[d]
      BY <1>1, <3>1, Nesting
    <3>3. d <= c /\ d # c /\ c <= i.last[d]
      BY <1>1, <1>2, <1>3, <3>1, <3>2
    <3> QED
      BY <3>3 DEF Above
  <2> QED
    BY <2>1, <2>2, <2>3
<1>5. Above(i, c) = Above(i, p) \cup {p}
  <2>1. \A d : d \in Above(i, c) => d \in Dies(i)
    BY DEF Above
  <2>2. \A d : d \in Above(i, p) => d \in Dies(i)
    BY DEF Above
  <2> QED
    BY <1>1, <1>4, <2>1, <2>2
<1>6. p \notin Above(i, p)
  BY DEF Above
<1>7. IsFiniteSet(Above(i, p))
  <2>1. IsFiniteSet(1 .. Size(i))
    BY <1>2, FS_Interval
  <2>2. Above(i, p) \in SUBSET (1 .. Size(i))
    BY DEF Above, Dies
  <2> QED
    BY <2>1, <2>2, FS_Subset
<1>8. Cardinality(Above(i, p)) \in Nat
  BY <1>7, FS_CardinalityType
<1> QED
  BY <1>5, <1>6, <1>7, <1>8, FS_AddElement DEF Depth

\* While an activation is about to return, in_level may have been lowered.
LevelInv ==
  Searching => inLevel >= Depth(info, cur) - (IF at = "return" THEN 1 ELSE 0)

LEMMA LevelNext == Inv /\ LevelInv /\ [Next]_vars => LevelInv'
<1> SUFFICES ASSUME Inv, LevelInv, [Next]_vars, Searching' PROVE LevelInv'
  BY DEF LevelInv
<1>0. /\ WellFormed(info) /\ inLevel \in Int
      /\ Searching => cur \in Dies(info)
      /\ \A d \in Dies(info) : Depth(info, d) \in Nat
  <2>1. WellFormed(info) /\ inLevel \in Int /\ (Searching => cur \in Dies(info))
    BY WellFormedInfo DEF Inv, TypeOK, InCu
  <2>2. \A d \in Dies(info) : Depth(info, d) \in Nat
    <3> TAKE d \in Dies(info)
    <3>1. CASE info.parent[d] = NoDie
      BY <2>1, <3>1, AboveRoot
    <3>2. CASE info.parent[d] # NoDie
      BY <2>1, <3>2, AboveParent
    <3> QED
      BY <3>1, <3>2
  <2> QED
    BY <2>1, <2>2
<1>1. CASE NextCu
  <2>1. cursor + 1 \in Dies(info) /\ info.parent[cursor + 1] = NoDie
    BY <1>0, <1>1, NextRoot DEF NextCu, TypeOK, Inv
  <2>2. Depth(info, cursor + 1) = 0
    BY <1>0, <2>1, AboveRoot
  <2> QED
    BY <1>1, <2>2 DEF NextCu, LevelInv
<1>2. CASE Descend
  <2>1. cur \in Dies(info) /\ Searching
    BY <1>0, <1>2 DEF Descend, Searching
  <2>2. FirstChild(cur) \in Dies(info) /\ info.parent[FirstChild(cur)] = cur /\ cur # NoDie
    BY <1>0, <1>2, <2>1, ChildShape, Numbers DEF Descend, Dies, NoDie
  <2>3. Depth(info, FirstChild(cur)) = Depth(info, cur) + 1
    BY <1>0, <2>2, AboveParent
  <2> QED
    BY <1>0, <1>2, <2>1, <2>3 DEF Descend, LevelInv
<1>3. CASE NextSibling
  <2>1. cur \in Dies(info) /\ Searching
    BY <1>0, <1>3 DEF NextSibling, Searching
  <2>2. /\ info.parent[cur] # NoDie /\ Sibling(info, cur) \in Dies(info)
        /\ info.parent[Sibling(info, cur)] = info.parent[cur]
    BY <1>0, <1>3, <2>1, SiblingShape DEF NextSibling, HasSibling
  <2>3. Depth(info, Sibling(info, cur)) = Depth(info, cur)
    BY <1>0, <2>1, <2>2, AboveParent
  <2> QED
    BY <1>0, <1>3, <2>1, <2>3 DEF NextSibling, LevelInv
<1>4. CASE Return
  <2>1. cur \in Dies(info) /\ Searching
    BY <1>0, <1>4 DEF Return, Searching
  <2>2. /\ Depth(info, info.parent[cur]) \in Nat
        /\ Depth(info, cur) = Depth(info, info.parent[cur]) + 1
    BY <1>0, <1>4, <2>1, AboveParent DEF Return
  <2> QED
    BY <1>0, <1>4, <2>1, <2>2 DEF Return, LevelInv
<1>5. CASE LastSibling
  <2>1. Searching /\ cur \in Dies(info)
    BY <1>0, <1>5 DEF LastSibling, Searching
  <2> QED
    BY <1>0, <1>5, <2>1 DEF LastSibling, LevelInv
<1>6. CASE Look \/ NoChild \/ CallFails
  <2>1. /\ Searching /\ at # "return" /\ UNCHANGED <<info, cur, inLevel>>
    BY <1>6 DEF Look, NoChild, CallFails, Searching, search
  <2> QED
    BY <1>0, <2>1 DEF LevelInv
<1>7. CASE \/ Query \/ LastCu \/ ReturnFound \/ ReturnMissed \/ ReturnToNextCu
           \/ CuCallFails \/ Release \/ GiveUp
  BY <1>7 DEF Query, LastCu, ReturnFound, ReturnMissed, ReturnToNextCu, CuCallFails, Release, GiveUp,
              Searching
<1>8. CASE UNCHANGED vars
  BY <1>8 DEF vars, search, LevelInv, Searching
<1> QED
  BY <1>1, <1>2, <1>3, <1>4, <1>5, <1>6, <1>7, <1>8 DEF Next, Lookup

\* in_level never falls below the depth, so a CU DIE below a root is always
\* noticed.
THEOREM LevelCoversDepth == Spec => []InLevelCoversDepth
<1>1. Init => LevelInv
  BY DEF Init, LevelInv, Searching
<1>2. Inv /\ LevelInv => InLevelCoversDepth
  <2> SUFFICES ASSUME Inv, LevelInv, at = "look"
               PROVE  inLevel >= Depth(info, cur)
    BY DEF InLevelCoversDepth, Depth, Above, OnPath
  <2>1. Depth(info, cur) \in Nat /\ Searching
    <3>1. WellFormed(info) /\ cur \in Dies(info)
      BY WellFormedInfo DEF Inv, InCu, Searching
    <3>2. CASE info.parent[cur] = NoDie
      BY <3>1, <3>2, AboveRoot DEF Searching
    <3>3. CASE info.parent[cur] # NoDie
      BY <3>1, <3>3, AboveParent DEF Searching
    <3> QED
      BY <3>2, <3>3 DEF Searching
  <2> QED
    BY <2>1 DEF LevelInv
<1> QED
  BY <1>1, <1>2, LevelNext, Invariance, PTL DEF Spec

-----------------------------------------------------------------------------
(***************************************************************************)
(* DwarfSearcher implements AddressLookup: initial states map to initial   *)
(* states, and every step of the traversal maps to a step of the abstract  *)
(* lookup or to a stutter.                                                 *)
(*                                                                         *)
(* The invariant says how far the traversal has come: the CUs behind it and in *)
(* front of the lookup's start do not stop it, the DIEs it has left behind in *)
(* the CU it searches are no candidates, and those on its path are not hidden. *)
(***************************************************************************)

(***************************************************************************)
(* Hidden DIEs and candidates.                                             *)
(***************************************************************************)
Pcless(i, d) == i.die[d].tag = "subprogram" /\ ~HavePcRange(i.die[d].pc)

\* No level of the path to d, down to that of d, is one that its first child ends.
Open(i, c, d) ==
  \A a \in (c + 1) .. i.last[c] :
    a <= d /\ d <= i.last[a] => ~Pcless(i, FirstChild(i.parent[a]))

LEMMA HiddenShape ==
  ASSUME NEW i, NEW c, NEW d
  PROVE  AL!Hidden(i, c, d) <=>
           \E a \in (c + 1) .. i.last[c] :
             /\ a <= d /\ d <= i.last[a]
             /\ Pcless(i, FirstChild(i.parent[a])) /\ d # FirstChild(i.parent[a])
BY DEF AL!Hidden, AL!Subtree, AL!Pcless, AL!HavePcRange, AL!FirstChild, Pcless, HavePcRange, FirstChild

LEMMA CandidateShape ==
  ASSUME NEW i, NEW c, NEW pc, NEW d
  PROVE  d \in AL!Candidates(i, c, pc) <=>
           /\ d \in (c + 1) .. i.last[c]
           /\ i.die[d].tag = "subprogram" /\ MatchFuncDie(i, d, pc) = "FOUND_SUBPROG"
           /\ ~AL!Hidden(i, c, d)
<1>1. i.die[d].tag = "subprogram" /\ MatchFuncDie(i, d, pc) = "FOUND_SUBPROG" <=>
        i.die[d].tag = "subprogram" /\ AL!HavePcRange(i.die[d].pc) /\ AL!InPcRange(i.die[d].pc, pc)
  BY DEF MatchFuncDie, HavePcRange, InPcRange, HighPc, AL!HavePcRange, AL!InPcRange, AL!HighPc
<1> QED
  BY <1>1 DEF AL!Candidates, AL!Subtree

LEMMA MatchCode ==
  ASSUME NEW i, NEW c, NEW pc
  PROVE  /\ AL!MatchCUDie(i, c, pc) = MatchCUDie(i, c, pc)
         /\ MatchCUDie(i, c, pc) \in {"OK", "NO_ENTRY", "ERROR", "IN_THIS_CU"}
BY DEF AL!MatchCUDie, MatchCUDie, AL!EntryMatches, EntryMatches

LEMMA RootOf ==
  ASSUME NEW i, WellFormed(i), NEW c
  PROVE  c \in AL!CuRoots(i) <=> c \in Dies(i) /\ i.parent[c] = NoDie
BY RootTag DEF AL!CuRoots, AL!Dies, AL!Size, Dies, Size

LEMMA StopShape ==
  ASSUME NEW i, WellFormed(i), NEW from, NEW pc, NEW c
  PROVE  c \in AL!Stops(i, from, pc) <=>
           /\ c \in Dies(i) /\ i.parent[c] = NoDie /\ from < c
           /\ \/ MatchCUDie(i, c, pc) = "ERROR"
              \/ MatchCUDie(i, c, pc) \in {"OK", "IN_THIS_CU"} /\ AL!Candidates(i, c, pc) # {}
BY RootOf, MatchCode DEF AL!Stops, AL!Searched

\* The least member of a set of numbers.
LEMMA FirstOf ==
  ASSUME NEW S, S \subseteq Nat, NEW x \in S, \A y \in S : x <= y
  PROVE  AL!First(S) = x
<1>1. ASSUME NEW d \in S, \A e \in S : d <= e PROVE d = x
  <2>1. d <= x /\ x <= d
    BY <1>1
  <2>2. d \in Nat /\ x \in Nat
    OBVIOUS
  <2> QED
    BY <2>1, <2>2
<1>2. \E d \in S : \A e \in S : d <= e
  OBVIOUS
<1>3. AL!First(S) \in S /\ \A e \in S : AL!First(S) <= e
  BY <1>2 DEF AL!First
<1> QED
  BY <1>1, <1>3

LEMMA LeastDie ==
  ASSUME NEW S, S \subseteq Nat, S # {}
  PROVE  \E x \in S : \A y \in S : x <= y
<1>1. PICK x \in S : \A y \in S : ~ (<<y, x>> \in OpToRel(<, Nat))
  BY WFMin, NatLessThanWellFounded, Zenon
<1>2. ASSUME NEW y \in S PROVE x <= y
  <2>1. <<y, x>> \in Nat \X Nat
    OBVIOUS
  <2>2. ~(y < x)
    BY <1>1, <2>1 DEF OpToRel
  <2> QED
    BY <2>2
<1> QED
  BY <1>2

\* Behind a first child without pc range its level is hidden.
LEMMA HiddenBehind ==
  ASSUME NEW i, WellFormed(i), NEW c \in Dies(i), NEW f \in Dies(i), c < f, f <= i.last[c],
         f = FirstChild(i.parent[f]), Pcless(i, f),
         NEW d \in Dies(i), f < d, d <= i.last[i.parent[f]]
  PROVE  AL!Hidden(i, c, d)
<1> DEFINE p == i.parent[f]
           A == {a \in Dies(i) : p < a /\ a <= d /\ d <= i.last[a]}
<1>1. p \in Dies(i) /\ p < f /\ c <= p
  BY Nesting, ParentShape
<1>2. c \in Nat /\ f \in Nat /\ d \in Nat /\ p \in Nat /\ i.last[p] \in Nat /\ i.last[c] \in Nat /\ d <= i.last[d]
  BY <1>1, Numbers
<1>3. d \in A
  BY <1>1, <1>2
<1>4. PICK a \in A : \A b \in A : a <= b
  <2>1. A \subseteq Nat
    BY Numbers
  <2> QED
    BY <1>3, <2>1, LeastDie
<1>5. a \in Nat /\ i.last[a] \in Nat /\ a <= i.last[a]
  BY <1>4, Numbers
<1>6. i.parent[a] # NoDie /\ p <= i.parent[a]
  <2>1. a <= i.last[p]
    BY <1>2, <1>4, <1>5
  <2> QED
    BY <1>1, <1>4, <2>1, Nesting
<1>7. i.parent[a] \in Dies(i) /\ i.parent[a] < a /\ a <= i.last[i.parent[a]] /\ i.parent[a] \in Nat /\ i.last[i.parent[a]] \in Nat
  BY <1>4, <1>6, ParentShape, Numbers
<1>8. i.last[a] <= i.last[i.parent[a]]
  BY <1>4, <1>7, Nesting
<1>9. i.parent[a] = p
  <2>1. SUFFICES ASSUME p < i.parent[a] PROVE FALSE
    BY <1>2, <1>6, <1>7
  <2>2. i.parent[a] \in A
    BY <1>2, <1>4, <1>5, <1>7, <1>8, <2>1
  <2> QED
    BY <1>4, <1>5, <1>7, <2>2
<1>10. a \in (c + 1) .. i.last[c]
  <2>1. i.last[p] <= i.last[c]
    <3>1. CASE p = c
      BY <1>2, <3>1
    <3>2. CASE c < p
      <4>1. p <= i.last[c]
        BY <1>1, <1>2
      <4> QED
        BY <1>1, <3>2, <4>1, Nesting
    <3> QED
      BY <1>1, <1>2, <3>1, <3>2
  <2> QED
    BY <1>1, <1>2, <1>4, <1>5, <1>7, <1>9, <2>1
<1> QED
  BY <1>2, <1>4, <1>9, <1>10, HiddenShape

\* A DIE that is not hidden opens its level unless it ends it.
LEMMA OpenFromVisible ==
  ASSUME NEW i, WellFormed(i), NEW c \in Dies(i), NEW d \in Dies(i), ~AL!Hidden(i, c, d),
         ~Pcless(i, d) \/ d # FirstChild(i.parent[d])
  PROVE  Open(i, c, d)
<1> SUFFICES ASSUME NEW a \in (c + 1) .. i.last[c], a <= d, d <= i.last[a], Pcless(i, FirstChild(i.parent[a]))
             PROVE  FALSE
  BY DEF Open
<1>1. d = FirstChild(i.parent[a])
  BY HiddenShape
<1>2. c \in Nat /\ d \in Nat /\ i.last[c] \in Dies(i) /\ i.last[c] \in Nat /\ Size(i) \in Nat
  BY Numbers
<1>3. a \in Dies(i) /\ a \in Nat
  BY <1>2 DEF Dies
<1>4. i.parent[a] # NoDie
  <2>1. c < a /\ a <= i.last[c]
    BY <1>2, <1>3
  <2> QED
    BY <1>3, <2>1, Nesting
<1>5. i.parent[a] < a /\ i.parent[a] \in Nat
  BY <1>3, <1>4, ParentShape, Numbers
<1>6. a = d
  BY <1>1, <1>2, <1>3, <1>5 DEF FirstChild
<1> QED
  BY <1>1, <1>6

\* The path of a child, of a sibling and of the parent.
LEMMA OpenDown ==
  ASSUME NEW i, WellFormed(i), NEW c \in Dies(i), NEW d \in Dies(i), HasChild(i, d), Open(i, c, d)
  PROVE  ~AL!Hidden(i, c, FirstChild(d))
<1> SUFFICES ASSUME NEW a \in (c + 1) .. i.last[c], a <= FirstChild(d), FirstChild(d) <= i.last[a],
                    Pcless(i, FirstChild(i.parent[a])), FirstChild(d) # FirstChild(i.parent[a])
             PROVE  FALSE
  BY HiddenShape
<1>1. FirstChild(d) \in Dies(i) /\ i.parent[FirstChild(d)] = d
  BY ChildShape
<1>2. /\ c \in Nat /\ d \in Nat /\ i.last[c] \in Dies(i) /\ i.last[c] \in Nat /\ Size(i) \in Nat
  BY Numbers
<1>3. a \in Dies(i) /\ a \in Nat /\ i.last[a] \in Nat
  BY <1>2, Numbers DEF Dies
<1>4. a # FirstChild(d)
  BY <1>1
<1>5. a <= d /\ d <= i.last[a]
  BY <1>2, <1>3, <1>4 DEF FirstChild
<1> QED
  BY <1>5 DEF Open

LEMMA OpenAcross ==
  ASSUME NEW i, WellFormed(i), NEW c \in Dies(i), NEW d \in Dies(i), c <= d, d <= i.last[c],
         HasSibling(i, d), i.parent[c] = NoDie, Open(i, c, d)
  PROVE  ~AL!Hidden(i, c, Sibling(i, d))
<1> DEFINE s == Sibling(i, d)
<1> SUFFICES ASSUME NEW a \in (c + 1) .. i.last[c], a <= s, s <= i.last[a],
                    Pcless(i, FirstChild(i.parent[a]))
             PROVE  FALSE
  BY HiddenShape
<1>1. s \in Dies(i) /\ s > d /\ i.parent[s] = i.parent[d] /\ i.parent[d] # NoDie
  BY SiblingShape DEF HasSibling
<1>2. /\ c \in Nat /\ d \in Nat /\ s \in Nat /\ i.last[c] \in Dies(i) /\ i.last[c] \in Nat /\ Size(i) \in Nat
      /\ i.parent[d] \in Nat /\ i.last[d] \in Nat /\ d <= i.last[d]
  BY <1>1, Numbers
<1>3. a \in Dies(i) /\ a \in Nat /\ i.last[a] \in Nat /\ c < a
  BY <1>2, Numbers DEF Dies
<1>4. d # c
  BY <1>1
<1>5. CASE a = s
  <2>1. d \in (c + 1) .. i.last[c]
    BY <1>2, <1>4
  <2> QED
    BY <1>1, <1>2, <1>5, <2>1 DEF Open
<1>6. CASE a < s
  <2>1. a <= i.parent[d]
    BY <1>1, <1>3, <1>6, Nesting
  <2>2. i.parent[d] < d
    BY <1>1, ParentShape
  <2>3. a <= d /\ d <= i.last[a]
    BY <1>1, <1>2, <1>3, <2>1, <2>2
  <2> QED
    BY <2>3 DEF Open
<1> QED
  BY <1>2, <1>3, <1>5, <1>6

LEMMA OpenUp ==
  ASSUME NEW i, WellFormed(i), NEW c \in Dies(i), NEW d \in Dies(i), i.parent[d] # NoDie,
         ~AL!Hidden(i, c, d)
  PROVE  Open(i, c, i.parent[d])
<1> DEFINE p == i.parent[d]
<1> SUFFICES ASSUME NEW a \in (c + 1) .. i.last[c], a <= p, p <= i.last[a],
                    Pcless(i, FirstChild(i.parent[a]))
             PROVE  FALSE
  BY DEF Open
<1>1. p \in Dies(i) /\ p < d /\ d <= i.last[p]
  BY ParentShape
<1>2. /\ c \in Nat /\ d \in Nat /\ p \in Nat /\ i.last[c] \in Dies(i) /\ i.last[c] \in Nat /\ Size(i) \in Nat
      /\ i.last[p] \in Nat
  BY <1>1, Numbers
<1>3. a \in Dies(i) /\ a \in Nat /\ i.last[a] \in Nat /\ c < a /\ a <= i.last[c]
  BY <1>2, Numbers DEF Dies
<1>4. i.parent[a] < a /\ i.parent[a] \in Nat
  <2>1. i.parent[a] # NoDie
    BY <1>3, Nesting
  <2> QED
    BY <1>3, <2>1, ParentShape, Numbers
<1>5. d <= i.last[a]
  <2>1. CASE a = p
    BY <1>1, <2>1
  <2>2. CASE a < p
    <3>1. i.last[p] <= i.last[a]
      BY <1>1, <1>3, <2>2, Nesting
    <3> QED
      BY <1>1, <1>2, <1>3, <3>1
  <2> QED
    BY <1>2, <1>3, <2>1, <2>2
<1>6. a <= d /\ d # FirstChild(i.parent[a])
  BY <1>1, <1>2, <1>3, <1>4 DEF FirstChild
<1> QED
  BY <1>5, <1>6, HiddenShape
(***************************************************************************)
(* How far the traversal has come.                                         *)
(***************************************************************************)
Visible(d) == ~AL!Hidden(info, cuDie, d)

Cands == AL!Candidates(info, cuDie, target)

Stops == AL!Stops(info, start, target)

CuCode == MatchCUDie(info, cuDie, target)

\* Between two CUs: the iterator has moved over whole CUs, none of which stops
\* the lookup.
BetweenCus ==
  /\ start <= cursor
  /\ cursor = start \/ \E r \in AL!CuRoots(info) : start < r /\ cursor = info.last[r]
  /\ \A s \in Stops : cursor < s

\* While a CU is searched: it is the first that can stop the lookup.
FirstCu == start < cuDie /\ \A s \in Stops : cuDie <= s

\* The CU's own DIE did not keep the traversal out of the CU.
Entered ==
  cur # cuDie \/ at \in {"child", "sibling"} \/ (at = "return" /\ ret = "FOUND_SUBPROG") =>
    CuCode \in {"OK", "IN_THIS_CU"}

\* No candidate lies behind the DIE that is looked at, and no level of its
\* path is hidden.
Unseen ==
  /\ at = "look" => Visible(cur) /\ \A d \in Cands : cur <= d
  /\ at = "child" => Open(info, cuDie, cur) /\ \A d \in Cands : cur < d
  /\ at = "sibling" => Open(info, cuDie, cur) /\ \A d \in Cands : info.last[cur] < d

\* What each result code says.
Returned ==
  at = "return" =>
    /\ ret \in {"OK", "NO_ENTRY", "ERROR", "FOUND_SUBPROG"}
    /\ ret = "FOUND_SUBPROG" => funcDie \in Cands /\ \A d \in Cands : funcDie <= d
    /\ ret = "ERROR" => LibMayFail \/ CuCode = "ERROR"
    /\ ret \in {"OK", "NO_ENTRY"} =>
         IF info.parent[cur] = NoDie THEN cuDie \notin Stops
         ELSE Visible(cur) /\ \A d \in Cands : info.last[info.parent[cur]] < d

Progress ==
  /\ at = "cu" => BetweenCus
  /\ Searching => FirstCu /\ Entered /\ Unseen /\ Returned
  /\ at = "look" /\ cur = cuDie => inLevel = 0

LEMMA ProgressInit == Init => Progress
BY DEF Init, Progress, Searching

\* What a state in a CU has of the section's shape.
LEMMA InCuShape ==
  ASSUME Inv, Searching
  PROVE  /\ WellFormed(info) /\ target \in Nat
         /\ cur \in Dies(info) /\ cuDie \in Dies(info) /\ cuDie <= cur /\ cur <= info.last[cuDie]
         /\ cuDie \in Nat /\ cur \in Nat /\ info.last[cuDie] \in Nat /\ info.last[cur] \in Nat
         /\ cur <= info.last[cur]
         /\ info.parent[cuDie] = NoDie /\ cursor = info.last[cuDie]
         /\ info.parent[cur] = NoDie <=> cur = cuDie
         /\ \A d \in Cands : d \in Nat /\ d \in Dies(info) /\ cuDie < d /\ d <= info.last[cuDie]
         /\ start \in Nat
         /\ \A s \in Stops : s \in Dies(info) /\ s \in Nat /\ info.parent[s] = NoDie /\ start < s
<1>1. WellFormed(info) /\ target \in Nat /\ InCu /\ start \in 0 .. Size(info)
  BY WellFormedInfo DEF Inv, TypeOK
<1>2. /\ cur \in Dies(info) /\ cuDie \in Dies(info) /\ cuDie <= cur /\ cur <= info.last[cuDie]
      /\ info.parent[cuDie] = NoDie /\ cursor = info.last[cuDie]
  BY <1>1 DEF InCu
<1>3. /\ cuDie \in Nat /\ cur \in Nat /\ info.last[cuDie] \in Nat /\ info.last[cur] \in Nat
      /\ cur <= info.last[cur] /\ Size(info) \in Nat /\ info.last[cuDie] \in Dies(info)
  BY <1>1, <1>2, Numbers
<1>4. start \in Nat
  BY <1>1, <1>3
<1>5. info.parent[cur] = NoDie <=> cur = cuDie
  <2>1. cuDie < cur => info.parent[cur] # NoDie
    BY <1>1, <1>2, Nesting
  <2> QED
    BY <1>2, <1>3, <2>1
<1>6. ASSUME NEW d \in Cands
      PROVE  d \in Nat /\ d \in Dies(info) /\ cuDie < d /\ d <= info.last[cuDie]
  <2>1. d \in (cuDie + 1) .. info.last[cuDie]
    BY <1>6, CandidateShape DEF Cands
  <2> QED
    BY <1>3, <2>1 DEF Dies
<1>7. ASSUME NEW s \in Stops
      PROVE  s \in Dies(info) /\ s \in Nat /\ info.parent[s] = NoDie /\ start < s
  BY <1>1, <1>7, StopShape, Numbers DEF Stops
<1> QED
  BY <1>1, <1>2, <1>3, <1>4, <1>5, <1>6, <1>7

\* A CU that stops the lookup does so by a candidate or by an error of its own.
LEMMA StopsHere ==
  ASSUME Inv, Searching, FirstCu
  PROVE  cuDie \in Stops <=> CuCode = "ERROR" \/ (CuCode \in {"OK", "IN_THIS_CU"} /\ Cands # {})
<1>1. WellFormed(info) /\ cuDie \in Dies(info) /\ info.parent[cuDie] = NoDie /\ start < cuDie
  BY InCuShape DEF FirstCu
<1>2. cuDie \in AL!Stops(info, start, target) <=>
        \/ MatchCUDie(info, cuDie, target) = "ERROR"
        \/ /\ MatchCUDie(info, cuDie, target) \in {"OK", "IN_THIS_CU"}
           /\ AL!Candidates(info, cuDie, target) # {}
  BY <1>1, StopShape
<1> QED
  BY <1>2 DEF Stops, CuCode, Cands

\* The result of searchInDie: the CU's own DIE is looked at on level 0, and no
\* other DIE has a CU's tag.
LEMMA LookCode ==
  ASSUME Inv, Progress, at = "look"
  PROVE  LET res == SearchInDie(info, cur, inLevel, target) IN
         /\ cur = cuDie => res = CuCode
         /\ cur # cuDie => /\ res \in {"OK", "NO_ENTRY", "FOUND_SUBPROG"}
                           /\ res = "NO_ENTRY" => Pcless(info, cur)
                           /\ Pcless(info, cur) => res = "NO_ENTRY"
         /\ res = "FOUND_SUBPROG" <=> cur \in Cands
<1> DEFINE res == SearchInDie(info, cur, inLevel, target)
<1>0. Searching
  BY DEF Searching
<1>1. info.die[cur].tag = "cu" <=> cur = cuDie
  BY <1>0, InCuShape, RootTag
<1>2. cur = cuDie => res = CuCode
  BY <1>1 DEF Progress, SearchInDie, CuCode
<1>3. cur # cuDie => res = IF info.die[cur].tag = "subprogram" THEN MatchFuncDie(info, cur, target) ELSE "OK"
  BY <1>1 DEF SearchInDie
<1>4. cur # cuDie => /\ res \in {"OK", "NO_ENTRY", "FOUND_SUBPROG"}
                     /\ res = "NO_ENTRY" => Pcless(info, cur)
                     /\ Pcless(info, cur) => res = "NO_ENTRY"
  BY <1>3 DEF MatchFuncDie, Pcless
<1>5. res = "FOUND_SUBPROG" <=> cur \in Cands
  <2>1. CASE cur = cuDie
    <3>1. res # "FOUND_SUBPROG"
      BY <1>2, <2>1, MatchCode DEF CuCode
    <3>2. cur \notin Cands
      BY <1>0, <2>1, InCuShape
    <3> QED
      BY <3>1, <3>2
  <2>2. CASE cur # cuDie
    <3>1. cur \in (cuDie + 1) .. info.last[cuDie]
      BY <1>0, <2>2, InCuShape
    <3>2. Visible(cur)
      BY <1>0 DEF Progress, Unseen
    <3>3. cur \in Cands <=> info.die[cur].tag = "subprogram" /\ MatchFuncDie(info, cur, target) = "FOUND_SUBPROG"
      BY <3>1, <3>2, CandidateShape DEF Cands, Visible
    <3> QED
      BY <1>3, <2>2, <3>3
  <2> QED
    BY <2>1, <2>2
<1> QED
  BY <1>2, <1>4, <1>5

\* The invariant, for a step inside a CU.
LEMMA InsideNext ==
  ASSUME Inv, Progress, Searching, Searching', UNCHANGED <<info, start, target, cuDie>>
  PROVE  /\ Cands' = Cands /\ Stops' = Stops /\ CuCode' = CuCode /\ FirstCu'
         /\ \A d : Visible(d)' = Visible(d)
BY DEF Progress, Cands, Stops, CuCode, FirstCu, Visible

LEMMA LookProgress ==
  ASSUME Inv, Progress, Look
  PROVE  Progress'
<1> DEFINE res == SearchInDie(info, cur, inLevel, target)
<1>0. /\ at = "look" /\ Searching /\ Searching'
      /\ UNCHANGED <<info, start, target, cuDie, cur, inLevel>>
      /\ FirstCu /\ Entered /\ Unseen
  BY DEF Look, Searching, Progress
<1>1. /\ Cands' = Cands /\ Stops' = Stops /\ CuCode' = CuCode /\ FirstCu'
      /\ \A d : Visible(d)' = Visible(d)
  BY <1>0, InsideNext
<1>2. /\ cur = cuDie => res = CuCode
      /\ cur # cuDie => /\ res \in {"OK", "NO_ENTRY", "FOUND_SUBPROG"}
                        /\ res = "NO_ENTRY" => Pcless(info, cur)
                        /\ Pcless(info, cur) => res = "NO_ENTRY"
      /\ res = "FOUND_SUBPROG" <=> cur \in Cands
  BY <1>0, LookCode
<1>3. CuCode \in {"OK", "NO_ENTRY", "ERROR", "IN_THIS_CU"}
  BY MatchCode DEF CuCode
<1>4. Visible(cur) /\ \A d \in Cands : cur <= d
  BY <1>0 DEF Unseen
<1>5. cur # cuDie => CuCode \in {"OK", "IN_THIS_CU"}
  BY <1>0 DEF Entered
<1>6. /\ WellFormed(info) /\ cur \in Dies(info) /\ cuDie \in Dies(info)
      /\ cuDie <= cur /\ cur <= info.last[cuDie] /\ cur \in Nat /\ cuDie \in Nat
      /\ info.parent[cur] = NoDie <=> cur = cuDie
      /\ \A d \in Cands : d \in Nat /\ d \in Dies(info)
  BY <1>0, InCuShape
<1>7. /\ funcDie' = IF res = "FOUND_SUBPROG" THEN cur ELSE funcDie
      /\ \/ /\ \/ res \in {"ERROR", "FOUND_SUBPROG"}
               \/ res \in {"NO_ENTRY", "NOT_THIS_CU"} /\ cur = InDie(info, cur)
            /\ ret' = res
            /\ at' = "return"
         \/ /\ \/ res \in {"OK", "IN_THIS_CU"}
               \/ res \in {"NO_ENTRY", "NOT_THIS_CU"} /\ cur # InDie(info, cur)
            /\ ret' = ret
            /\ at' = "child"
  BY DEF Look
<1> HIDE DEF res
<1>8. InDie(info, cur) = IF cur = cuDie THEN cur ELSE FirstChild(info.parent[cur])
  BY <1>6 DEF InDie
<1>9. CASE at' = "child"
  <2>1. res # "FOUND_SUBPROG" /\ cur \notin Cands
    BY <1>2, <1>7, <1>9
  <2>2. \A d \in Cands : cur < d
    BY <1>4, <1>6, <2>1
  <2>3. ~Pcless(info, cur) \/ cur # FirstChild(info.parent[cur])
    <3>1. CASE cur = cuDie
      <4>1. info.die[cur].tag = "cu"
        BY <1>6, <3>1, RootTag
      <4> QED
        BY <4>1 DEF Pcless
    <3>2. CASE cur # cuDie
      BY <1>2, <1>7, <1>8, <1>9, <3>2
    <3> QED
      BY <3>1, <3>2
  <2>4. Open(info, cuDie, cur)
    BY <1>4, <1>6, <2>3, OpenFromVisible DEF Visible
  <2>5. CuCode \in {"OK", "IN_THIS_CU"}
    BY <1>2, <1>3, <1>5, <1>7, <1>8, <1>9
  <2>6. Entered' /\ Unseen' /\ Returned'
    BY <1>0, <1>1, <1>9, <2>2, <2>4, <2>5 DEF Entered, Unseen, Returned
  <2> QED
    BY <1>1, <1>9, <2>6 DEF Progress, Searching
<1>10. CASE at' = "return"
  <2>1. ret' = res
    BY <1>7, <1>10
  <2>2. res \in {"NO_ENTRY", "ERROR", "FOUND_SUBPROG"}
    BY <1>2, <1>3, <1>7, <1>10
  <2>3. res = "FOUND_SUBPROG" => funcDie' \in Cands /\ \A d \in Cands : funcDie' <= d
    BY <1>2, <1>4, <1>7
  <2>4. res = "ERROR" => CuCode = "ERROR"
    BY <1>2
  <2>5. ASSUME res = "NO_ENTRY", cur = cuDie PROVE cuDie \notin Stops
    BY <1>0, <1>2, <2>5, StopsHere
  <2>6. ASSUME res = "NO_ENTRY", cur # cuDie, NEW d \in Cands PROVE info.last[info.parent[cur]] < d
    <3>1. Pcless(info, cur) /\ cur = FirstChild(info.parent[cur])
      BY <1>2, <1>7, <1>8, <1>10, <2>6
    <3>2. cur < d
      BY <1>2, <1>4, <1>6, <2>6
    <3>3. ~AL!Hidden(info, cuDie, d)
      BY CandidateShape DEF Cands
    <3>4. cuDie < cur
      BY <1>6, <2>6
    <3>5. ~(d <= info.last[info.parent[cur]])
      BY <1>6, <3>1, <3>2, <3>3, <3>4, HiddenBehind
    <3>6. info.last[info.parent[cur]] \in Nat
      BY <1>6, <2>6, ParentShape, Numbers
    <3> QED
      BY <1>6, <3>5, <3>6
  <2>7. Returned'
    BY <1>0, <1>1, <1>4, <1>6, <2>1, <2>2, <2>3, <2>4, <2>5, <2>6 DEF Returned
  <2>8. Entered'
    <3>1. res = "FOUND_SUBPROG" => cur # cuDie
      BY <1>2, <1>3
    <3> QED
      BY <1>0, <1>1, <1>5, <1>10, <2>1, <3>1 DEF Entered
  <2> QED
    BY <1>1, <1>10, <2>7, <2>8 DEF Progress, Searching, Unseen
<1> QED
  BY <1>7, <1>9, <1>10

LEMMA DescendProgress ==
  ASSUME Inv, Progress, Descend
  PROVE  Progress'
<1>0. /\ at = "child" /\ at' = "look" /\ Searching /\ Searching'
      /\ UNCHANGED <<info, start, target, cuDie, funcDie>>
      /\ HasChild(info, cur) /\ cur' = FirstChild(cur)
      /\ FirstCu /\ Entered /\ Unseen
  BY DEF Descend, Searching, Progress
<1>1. /\ Cands' = Cands /\ Stops' = Stops /\ CuCode' = CuCode /\ FirstCu'
      /\ \A d : Visible(d)' = Visible(d)
  BY <1>0, InsideNext
<1>2. /\ WellFormed(info) /\ cur \in Dies(info) /\ cuDie \in Dies(info)
      /\ cuDie <= cur /\ cur \in Nat /\ cuDie \in Nat
      /\ \A d \in Cands : d \in Nat
  BY <1>0, InCuShape
<1>3. ~AL!Hidden(info, cuDie, FirstChild(cur))
  BY <1>0, <1>2, OpenDown DEF Unseen
<1>4. Visible(cur)'
  BY <1>0, <1>3 DEF Visible
<1>5. \A d \in Cands : cur' <= d
  BY <1>0, <1>2 DEF Unseen, FirstChild
<1>6. cur' # cuDie
  BY <1>0, <1>2 DEF FirstChild
<1>7. CuCode \in {"OK", "IN_THIS_CU"}
  BY <1>0 DEF Entered
<1> QED
  BY <1>0, <1>1, <1>4, <1>5, <1>6, <1>7 DEF Progress, Entered, Unseen, Returned

LEMMA NoChildProgress ==
  ASSUME Inv, Progress, NoChild
  PROVE  Progress'
<1>0. /\ at = "child" /\ at' = "sibling" /\ Searching /\ Searching'
      /\ UNCHANGED <<info, start, target, cuDie, funcDie, cur>>
      /\ ~HasChild(info, cur)
      /\ FirstCu /\ Entered /\ Unseen
  BY DEF NoChild, search, Searching, Progress
<1>1. /\ Cands' = Cands /\ Stops' = Stops /\ CuCode' = CuCode /\ FirstCu'
      /\ \A d : Visible(d)' = Visible(d)
  BY <1>0, InsideNext
<1>2. info.last[cur] = cur
  BY <1>0, InCuShape DEF HasChild
<1>3. CuCode \in {"OK", "IN_THIS_CU"}
  BY <1>0 DEF Entered
<1> QED
  BY <1>0, <1>1, <1>2, <1>3 DEF Progress, Entered, Unseen, Returned

LEMMA NextSiblingProgress ==
  ASSUME Inv, Progress, NextSibling
  PROVE  Progress'
<1>0. /\ at = "sibling" /\ at' = "look" /\ Searching /\ Searching'
      /\ UNCHANGED <<info, start, target, cuDie, funcDie>>
      /\ HasSibling(info, cur) /\ cur' = Sibling(info, cur)
      /\ FirstCu /\ Entered /\ Unseen
  BY DEF NextSibling, Searching, Progress
<1>1. /\ Cands' = Cands /\ Stops' = Stops /\ CuCode' = CuCode /\ FirstCu'
      /\ \A d : Visible(d)' = Visible(d)
  BY <1>0, InsideNext
<1>2. /\ WellFormed(info) /\ cur \in Dies(info) /\ cuDie \in Dies(info)
      /\ cuDie <= cur /\ cur <= info.last[cuDie] /\ cur \in Nat /\ cuDie \in Nat
      /\ info.last[cur] \in Nat /\ cur <= info.last[cur]
      /\ info.parent[cuDie] = NoDie
      /\ \A d \in Cands : d \in Nat
  BY <1>0, InCuShape
<1>3. ~AL!Hidden(info, cuDie, Sibling(info, cur))
  BY <1>0, <1>2, OpenAcross DEF Unseen
<1>4. Visible(cur)'
  BY <1>0, <1>3 DEF Visible
<1>5. \A d \in Cands : cur' <= d
  BY <1>0, <1>2 DEF Unseen, Sibling
<1>6. cur' # cuDie
  BY <1>0, <1>2 DEF Sibling
<1>7. CuCode \in {"OK", "IN_THIS_CU"}
  BY <1>0 DEF Entered
<1> QED
  BY <1>0, <1>1, <1>4, <1>5, <1>6, <1>7 DEF Progress, Entered, Unseen, Returned

LEMMA LastSiblingProgress ==
  ASSUME Inv, Progress, LastSibling
  PROVE  Progress'
<1>0. /\ at = "sibling" /\ at' = "return" /\ ret' = "OK" /\ Searching /\ Searching'
      /\ UNCHANGED <<info, start, target, cuDie, funcDie, cur>>
      /\ ~HasSibling(info, cur)
      /\ FirstCu /\ Entered /\ Unseen
  BY DEF LastSibling, Searching, Progress
<1>1. /\ Cands' = Cands /\ Stops' = Stops /\ CuCode' = CuCode /\ FirstCu'
      /\ \A d : Visible(d)' = Visible(d)
  BY <1>0, InsideNext
<1>2. /\ WellFormed(info) /\ cur \in Dies(info) /\ cuDie \in Dies(info)
      /\ cur \in Nat /\ info.last[cur] \in Nat /\ info.last[cuDie] \in Nat
      /\ info.parent[cur] = NoDie <=> cur = cuDie
      /\ \A d \in Cands : d \in Nat /\ d <= info.last[cuDie]
  BY <1>0, InCuShape
<1>3. CuCode \in {"OK", "IN_THIS_CU"}
  BY <1>0 DEF Entered
<1>4. Open(info, cuDie, cur) /\ \A d \in Cands : info.last[cur] < d
  BY <1>0 DEF Unseen
<1>5. ASSUME cur = cuDie PROVE cuDie \notin Stops
  <2>1. \A d \in Cands : FALSE
    BY <1>2, <1>4, <1>5
  <2> QED
    BY <1>0, <1>3, <2>1, StopsHere
<1>6. ASSUME cur # cuDie
      PROVE  Visible(cur) /\ \A d \in Cands : info.last[info.parent[cur]] < d
  <2>1. info.parent[cur] \in Dies(info) /\ info.parent[cur] < cur /\ cur <= info.last[info.parent[cur]]
    BY <1>2, <1>6, ParentShape
  <2>2. info.last[info.parent[cur]] \in Nat
    BY <1>2, <2>1, Numbers
  <2>3. info.last[info.parent[cur]] = info.last[cur]
    <3>1. info.last[cur] <= info.last[info.parent[cur]]
      BY <1>2, <2>1, Nesting
    <3> QED
      BY <1>0, <1>2, <1>6, <2>2, <3>1 DEF HasSibling
  <2>4. Visible(cur)
    BY <1>4, HiddenShape DEF Visible, Open
  <2> QED
    BY <1>4, <2>3, <2>4
<1> QED
  BY <1>0, <1>1, <1>2, <1>3, <1>5, <1>6 DEF Progress, Entered, Unseen, Returned

LEMMA ReturnProgress ==
  ASSUME Inv, Progress, Return
  PROVE  Progress'
<1>0. /\ at = "return" /\ at' \in {"return", "sibling"} /\ Searching /\ Searching'
      /\ UNCHANGED <<info, start, target, cuDie, funcDie, ret>>
      /\ info.parent[cur] # NoDie /\ cur' = info.parent[cur]
      /\ at' = "return" <=> ret \in {"FOUND_SUBPROG", "NOT_THIS_CU", "ERROR"}
      /\ FirstCu /\ Entered /\ Returned
  BY DEF Return, Searching, Progress
<1>1. /\ Cands' = Cands /\ Stops' = Stops /\ CuCode' = CuCode /\ FirstCu'
      /\ \A d : Visible(d)' = Visible(d)
  BY <1>0, InsideNext
<1>2. /\ WellFormed(info) /\ cur \in Dies(info) /\ cuDie \in Dies(info)
      /\ info.parent[cur] = NoDie <=> cur = cuDie
  BY <1>0, InCuShape
<1>3. CuCode \in {"OK", "IN_THIS_CU"}
  BY <1>0, <1>2 DEF Entered
<1>4. CASE ret \in {"OK", "NO_ENTRY"}
  <2>1. Visible(cur) /\ \A d \in Cands : info.last[info.parent[cur]] < d
    BY <1>0, <1>4 DEF Returned
  <2>2. Open(info, cuDie, info.parent[cur])
    BY <1>0, <1>2, <2>1, OpenUp DEF Visible
  <2>3. at' = "sibling"
    BY <1>0, <1>4
  <2> QED
    BY <1>0, <1>1, <1>3, <2>1, <2>2, <2>3 DEF Progress, Entered, Unseen, Returned
<1>5. CASE ret \in {"ERROR", "FOUND_SUBPROG"}
  <2>1. at' = "return"
    BY <1>0, <1>5
  <2> QED
    BY <1>0, <1>1, <1>3, <1>5, <2>1 DEF Progress, Entered, Unseen, Returned
<1> QED
  BY <1>0, <1>4, <1>5 DEF Returned

LEMMA CallFailsProgress ==
  ASSUME Inv, Progress, CallFails
  PROVE  Progress'
<1>0. /\ at' = "return" /\ ret' = "ERROR" /\ LibMayFail /\ Searching /\ Searching'
      /\ UNCHANGED <<info, start, target, cuDie, funcDie, cur>>
      /\ FirstCu /\ Entered
  BY DEF CallFails, Searching, Progress
<1>1. /\ Cands' = Cands /\ Stops' = Stops /\ CuCode' = CuCode /\ FirstCu'
      /\ \A d : Visible(d)' = Visible(d)
  BY <1>0, InsideNext
<1> QED
  BY <1>0, <1>1 DEF Progress, Entered, Unseen, Returned

LEMMA QueryProgress ==
  ASSUME Inv, Query
  PROVE  Progress'
<1>1. /\ at' = "cu" /\ start' = cursor /\ cursor' = cursor /\ info' = info
      /\ target' \in Pcs
  BY DEF Query
<1>2. WellFormed(info) /\ target' \in Nat /\ cursor \in Nat
  <2>1. WellFormed(info) /\ cursor \in 0 .. Size(info)
    BY WellFormedInfo DEF Inv, TypeOK
  <2> QED
    BY <1>1, <2>1, Numbers, PcsAssumption
<1>3. \A s \in AL!Stops(info, cursor, target') : cursor < s
  BY <1>2, StopShape
<1>4. \A s \in Stops' : cursor' < s
  BY <1>1, <1>3 DEF Stops
<1>5. BetweenCus'
  BY <1>1, <1>2, <1>4 DEF BetweenCus
<1> QED
  BY <1>1, <1>5 DEF Progress, Searching

LEMMA NextCuProgress ==
  ASSUME Inv, Progress, NextCu
  PROVE  Progress'
<1>1. /\ at = "cu" /\ at' = "look" /\ cuDie' = cursor + 1 /\ cur' = cursor + 1 /\ inLevel' = 0
      /\ UNCHANGED <<info, start, target>> /\ cursor < Size(info)
      /\ BetweenCus
  BY DEF NextCu, Progress
<1>2. WellFormed(info) /\ cursor \in 0 .. Size(info) /\ CuEnd(info, cursor) /\ start \in 0 .. Size(info)
  BY WellFormedInfo DEF Inv, TypeOK
<1>3. Size(info) \in Nat /\ cursor \in Nat /\ start \in Nat
  BY <1>2, Numbers
<1>4. cursor + 1 \in Dies(info) /\ info.parent[cursor + 1] = NoDie
  BY <1>1, <1>2, NextRoot
<1>5. Stops' = Stops /\ \A s \in Stops : s \in Nat
  <2>1. \A s \in Stops : s \in Nat
    BY <1>2, StopShape, Numbers DEF Stops
  <2> QED
    BY <1>1, <2>1 DEF Stops
<1>6. FirstCu'
  BY <1>1, <1>3, <1>5 DEF FirstCu, BetweenCus
<1>7. \A d \in Cands' : cur' <= d
  <2>1. \A d \in AL!Candidates(info, cursor + 1, target) : d \in (cursor + 1 + 1) .. info.last[cursor + 1]
    BY CandidateShape
  <2>2. info.last[cursor + 1] \in Nat
    BY <1>2, <1>4, Numbers
  <2>3. \A d \in AL!Candidates(info, cursor + 1, target) : cursor + 1 <= d
    BY <1>3, <2>1, <2>2
  <2> QED
    BY <1>1, <2>3 DEF Cands
<1>8. Visible(cur)'
  <2>1. ~AL!Hidden(info, cursor + 1, cursor + 1)
    <3>1. \A a \in (cursor + 1 + 1) .. info.last[cursor + 1] : ~(a <= cursor + 1)
      <4>1. info.last[cursor + 1] \in Nat
        BY <1>2, <1>4, Numbers
      <4> QED
        BY <1>3, <4>1
    <3> QED
      BY <3>1, HiddenShape
  <2> QED
    BY <1>1, <2>1 DEF Visible
<1> QED
  BY <1>1, <1>6, <1>7, <1>8 DEF Progress, Searching, Entered, Unseen, Returned

\* The iterator moves over a CU that does not stop the lookup.
LEMMA NextStop ==
  ASSUME Inv, Searching, FirstCu, cuDie \notin Stops
  PROVE  \A s \in Stops : cursor < s
<1> SUFFICES ASSUME NEW s \in Stops PROVE cursor < s
  OBVIOUS
<1>1. /\ WellFormed(info) /\ cuDie \in Dies(info) /\ cuDie \in Nat /\ info.last[cuDie] \in Nat
      /\ cursor = info.last[cuDie]
      /\ s \in Dies(info) /\ s \in Nat /\ info.parent[s] = NoDie
  BY InCuShape
<1>2. cuDie < s
  BY <1>1 DEF FirstCu
<1>3. ~(s <= info.last[cuDie])
  BY <1>1, <1>2, Nesting
<1> QED
  BY <1>1, <1>3

LEMMA ToNextCuProgress ==
  ASSUME Inv, Progress, ReturnToNextCu
  PROVE  Progress'
<1>1. /\ at = "return" /\ at' = "cu" /\ Searching
      /\ UNCHANGED <<info, start, target, cursor>>
      /\ info.parent[cur] = NoDie
      /\ ret \in {"OK", "NO_ENTRY", "NOT_THIS_CU"}
      /\ FirstCu /\ Returned
  BY DEF ReturnToNextCu, Searching, Progress
<1>2. cuDie \notin Stops
  BY <1>1 DEF Returned
<1>3. /\ WellFormed(info) /\ cuDie \in Dies(info) /\ cuDie \in Nat /\ info.last[cuDie] \in Nat
      /\ cursor = info.last[cuDie] /\ info.parent[cuDie] = NoDie
      /\ start \in Nat /\ cuDie <= info.last[cuDie]
  BY <1>1, InCuShape, Numbers
<1>4. \A s \in Stops : cursor < s
  BY <1>1, <1>2, NextStop
<1>5. cuDie \in AL!CuRoots(info)
  BY <1>3, RootOf
<1>6. BetweenCus
  BY <1>1, <1>3, <1>4, <1>5 DEF BetweenCus, FirstCu
<1>7. Stops' = Stops
  BY <1>1 DEF Stops
<1>8. BetweenCus'
  BY <1>1, <1>6, <1>7 DEF BetweenCus
<1> QED
  BY <1>1, <1>8 DEF Progress, Searching

LEMMA ProgressNext == Inv /\ Progress /\ [Next]_vars => Progress'
<1> SUFFICES ASSUME Inv, Progress, [Next]_vars PROVE Progress'
  OBVIOUS
<1>1. CASE \/ LastCu \/ ReturnFound \/ ReturnMissed \/ CuCallFails \/ Release \/ GiveUp
  <2>1. at' \in {"idle", "found"}
    BY <1>1 DEF LastCu, ReturnFound, ReturnMissed, CuCallFails, Release, GiveUp
  <2> QED
    BY <2>1 DEF Progress, Searching
<1>2. CASE UNCHANGED vars
  BY <1>2 DEF vars, search, Progress, Searching, BetweenCus, FirstCu, Entered, Unseen, Returned,
              Visible, Cands, Stops, CuCode
<1> QED
  BY <1>1, <1>2, QueryProgress, NextCuProgress, LookProgress, DescendProgress, NoChildProgress,
     NextSiblingProgress, LastSiblingProgress, ReturnProgress, CallFailsProgress, ToNextCuProgress
  DEF Next, Lookup

(***************************************************************************)
(* The steps.                                                              *)
(***************************************************************************)
Answering == at \in {"idle", "found"}

LEMMA QueryAsks ==
  ASSUME Inv, Query
  PROVE  AL!Ask
BY DEF Query, search, AL!Ask

\* Steps inside a lookup, and main's use of an answer, are not seen.
LEMMA Unseeable ==
  ASSUME Answering' <=> Answering, Answering => UNCHANGED cursor, ~Answering => UNCHANGED start,
         UNCHANGED <<info, target, answer>>
  PROVE  UNCHANGED AL!vars
BY DEF Answering, AL!vars

\* The answer of a lookup that no CU stops, and of one that c stops.
LEMMA NoStop ==
  ASSUME NEW i, NEW from, NEW pc, AL!Stops(i, from, pc) = {}
  PROVE  AL!AnswerFrom(i, from, pc) = AL!Missed /\ AL!CursorAfter(i, from, pc) = 0
BY DEF AL!AnswerFrom, AL!CursorAfter

LEMMA FirstStop ==
  ASSUME NEW i, NEW from, NEW pc, WellFormed(i),
         NEW c \in AL!Stops(i, from, pc), \A s \in AL!Stops(i, from, pc) : c <= s
  PROVE  /\ AL!CursorAfter(i, from, pc) = i.last[c]
         /\ AL!AnswerFrom(i, from, pc) =
              IF MatchCUDie(i, c, pc) = "ERROR" THEN AL!Failed
              ELSE AL!Found(c, AL!First(AL!Candidates(i, c, pc)))
<1>1. AL!Stops(i, from, pc) \subseteq Nat
  BY StopShape, Numbers
<1>2. AL!First(AL!Stops(i, from, pc)) = c
  BY <1>1, FirstOf
<1> QED
  BY <1>2, MatchCode DEF AL!AnswerFrom, AL!CursorAfter

LEMMA LastCuReplies ==
  ASSUME Inv, Progress, LastCu
  PROVE  AL!Reply
<1>1. /\ at = "cu" /\ at' = "idle" /\ cursor' = 0 /\ answer' = AL!Missed
      /\ UNCHANGED <<info, target>> /\ cursor >= Size(info) /\ BetweenCus
  BY DEF LastCu, Progress
<1>2. WellFormed(info) /\ Size(info) \in Nat /\ cursor \in Nat
  <2>1. WellFormed(info) /\ cursor \in 0 .. Size(info)
    BY WellFormedInfo DEF Inv, TypeOK
  <2> QED
    BY <2>1, Numbers
<1>3. ASSUME NEW s \in Stops PROVE FALSE
  <2>1. s \in Dies(info) /\ cursor < s
    BY <1>1, <1>2, StopShape DEF Stops, BetweenCus
  <2>2. s \in Nat /\ s <= Size(info)
    BY <1>2, <2>1 DEF Dies
  <2> QED
    BY <1>1, <1>2, <2>1, <2>2
<1>4. AL!Stops(info, start, target) = {}
  BY <1>3 DEF Stops
<1>5. AL!AnswerFrom(info, start, target) = AL!Missed /\ AL!CursorAfter(info, start, target) = 0
  BY <1>4, NoStop
<1> QED
  BY <1>1, <1>5 DEF AL!Reply

LEMMA FoundReplies ==
  ASSUME Inv, Progress, ReturnFound
  PROVE  AL!Reply
<1>1. /\ at = "return" /\ at' = "found" /\ UNCHANGED <<info, target, cursor>>
      /\ answer' = AL!Found(cuDie, funcDie) /\ ret = "FOUND_SUBPROG"
      /\ Searching /\ FirstCu /\ Entered /\ Returned
  BY DEF ReturnFound, Searching, Progress
<1>2. WellFormed(info) /\ cursor = info.last[cuDie] /\ \A d \in Cands : d \in Nat
  BY <1>1, InCuShape
<1>3. CuCode \in {"OK", "IN_THIS_CU"}
  BY <1>1 DEF Entered
<1>4. funcDie \in Cands /\ \A d \in Cands : funcDie <= d
  BY <1>1 DEF Returned
<1>5. cuDie \in Stops
  BY <1>1, <1>3, <1>4, StopsHere
<1>6. AL!First(Cands) = funcDie
  BY <1>2, <1>4, FirstOf
<1>7. /\ AL!CursorAfter(info, start, target) = info.last[cuDie]
      /\ AL!AnswerFrom(info, start, target) =
           IF MatchCUDie(info, cuDie, target) = "ERROR" THEN AL!Failed
           ELSE AL!Found(cuDie, AL!First(AL!Candidates(info, cuDie, target)))
  BY <1>1, <1>2, <1>5, FirstStop DEF Stops, FirstCu
<1>8. AL!AnswerFrom(info, start, target) = AL!Found(cuDie, funcDie)
  BY <1>3, <1>6, <1>7 DEF CuCode, Cands
<1> QED
  BY <1>1, <1>2, <1>7, <1>8 DEF AL!Reply

LEMMA MissedAnswers ==
  ASSUME Inv, Progress, ReturnMissed
  PROVE  AL!Reply \/ AL!Fail
<1>1. /\ at = "return" /\ at' = "idle" /\ UNCHANGED <<info, target, cursor>>
      /\ Searching /\ FirstCu /\ Returned
      /\ ret \in {"IN_THIS_CU", "ERROR"}
      /\ answer' = IF ret = "ERROR" THEN AL!Failed ELSE AL!Missed
  BY DEF ReturnMissed, Searching, Progress
<1>2. ret = "ERROR" /\ answer' = AL!Failed /\ (LibMayFail \/ CuCode = "ERROR")
  BY <1>1 DEF Returned
<1>3. WellFormed(info) /\ cursor = info.last[cuDie] /\ cuDie \in Dies(info) /\ info.parent[cuDie] = NoDie
  BY <1>1, InCuShape
<1>4. CASE CuCode = "ERROR"
  <2>1. cuDie \in Stops
    BY <1>1, <1>4, StopsHere
  <2>2. /\ AL!CursorAfter(info, start, target) = info.last[cuDie]
        /\ AL!AnswerFrom(info, start, target) = AL!Failed
    BY <1>1, <1>3, <1>4, <2>1, FirstStop DEF Stops, FirstCu, CuCode
  <2> QED
    BY <1>1, <1>2, <1>3, <2>2 DEF AL!Reply
<1>5. CASE LibMayFail
  <2>1. cuDie \in {d \in AL!CuRoots(info) : start < d}
    BY <1>1, <1>3, RootOf DEF FirstCu
  <2>2. cursor \in {start} \cup {info.last[c] : c \in {d \in AL!CuRoots(info) : start < d}}
    BY <1>3, <2>1
  <2> QED
    BY <1>1, <1>2, <1>5, <2>2 DEF AL!Fail
<1> QED
  BY <1>2, <1>4, <1>5

LEMMA CuCallFailsFails ==
  ASSUME Inv, Progress, CuCallFails
  PROVE  AL!Fail
<1>1. /\ at = "cu" /\ at' = "idle" /\ LibMayFail /\ answer' = AL!Failed
      /\ UNCHANGED <<info, target>>
      /\ \/ cursor' = cursor
         \/ cursor < Size(info) /\ cursor' = info.last[cursor + 1]
      /\ BetweenCus
  BY DEF CuCallFails, Progress
<1>2. WellFormed(info) /\ cursor \in 0 .. Size(info) /\ CuEnd(info, cursor) /\ start \in 0 .. Size(info)
  BY WellFormedInfo DEF Inv, TypeOK
<1> DEFINE reach == {start} \cup {info.last[c] : c \in {d \in AL!CuRoots(info) : start < d}}
<1>3. cursor \in reach
  BY <1>1 DEF BetweenCus
<1>4. ASSUME cursor < Size(info) PROVE info.last[cursor + 1] \in reach
  <2>1. cursor + 1 \in Dies(info) /\ info.parent[cursor + 1] = NoDie
    BY <1>2, <1>4, NextRoot
  <2>2. start < cursor + 1
    <3>1. Size(info) \in Nat /\ cursor \in Nat /\ start \in Nat
      BY <1>2, Numbers
    <3> QED
      BY <1>1, <3>1 DEF BetweenCus
  <2>3. cursor + 1 \in {d \in AL!CuRoots(info) : start < d}
    BY <1>2, <2>1, <2>2, RootOf
  <2> QED
    BY <2>3
<1>5. cursor' \in reach
  BY <1>1, <1>3, <1>4
<1> QED
  BY <1>1, <1>5 DEF AL!Fail

LEMMA StepMaps == Inv /\ Progress /\ [Next]_vars => [AL!Next]_(AL!vars)
<1> SUFFICES ASSUME Inv, Progress, [Next]_vars PROVE AL!Next \/ UNCHANGED AL!vars
  OBVIOUS
<1>1. CASE Query
  BY <1>1, QueryAsks DEF AL!Next
<1>2. CASE LastCu
  BY <1>2, LastCuReplies DEF AL!Next
<1>3. CASE ReturnFound
  BY <1>3, FoundReplies DEF AL!Next
<1>4. CASE ReturnMissed
  BY <1>4, MissedAnswers DEF AL!Next
<1>5. CASE CuCallFails
  BY <1>5, CuCallFailsFails DEF AL!Next
<1>6. CASE \/ NextCu \/ Look \/ Descend \/ NoChild \/ NextSibling \/ LastSibling
           \/ Return \/ ReturnToNextCu \/ CallFails
  <2>1. /\ ~Answering /\ ~Answering'
        /\ UNCHANGED <<info, start, target, answer>>
    BY <1>6 DEF NextCu, Look, Descend, NoChild, NextSibling, LastSibling, Return, ReturnToNextCu,
                CallFails, Answering
  <2> QED
    BY <2>1, Unseeable
<1>7. CASE Release \/ GiveUp
  <2>1. /\ Answering /\ Answering'
        /\ UNCHANGED <<info, cursor, target, answer>>
    BY <1>7 DEF Release, GiveUp, Answering
  <2> QED
    BY <2>1, Unseeable
<1>8. CASE UNCHANGED vars
  BY <1>8 DEF vars, AL!vars
<1> QED
  BY <1>1, <1>2, <1>3, <1>4, <1>5, <1>6, <1>7, <1>8 DEF Next, Lookup

\* The traversal implements the abstract lookup, whichever calls fail: it
\* answers with the first candidate of the first CU that stops it, and leaves
\* the iterator at that CU.
THEOREM LookupImplemented == Spec => AL!Init /\ [][AL!Next]_(AL!vars)
<1>1. Init => AL!Init
  BY PcsAssumption DEF Init, AL!Init
<1>2. Spec => []Progress
  <2>1. Init => Progress
    BY ProgressInit
  <2>2. Inv /\ Progress /\ [Next]_vars => Progress'
    BY ProgressNext
  <2> QED
    BY <2>1, <2>2, Invariance, PTL DEF Spec
<1>3. Inv /\ Progress /\ [Next]_vars => [AL!Next]_(AL!vars)
  BY StepMaps
<1> QED
  BY <1>1, <1>2, <1>3, Invariance, PTL DEF Spec

=============================================================================
