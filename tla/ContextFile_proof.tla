-------------------------- MODULE ContextFile_proof --------------------------
(***************************************************************************)
(* FileTypeOK, ParsedAsPrinted, InStepUntilCut and PrefixIntact of         *)
(* ContextFile, for every set of scenes.                                   *)
(*                                                                         *)
(* The text that is still to be parsed is what minidump_stackwalk prints   *)
(* of the threads, frames, registers and rows behind those the convertor   *)
(* has; the file from pos on holds the fields behind those the reader has  *)
(* - until pos lies behind the end of the file.                            *)
(***************************************************************************)
EXTENDS ContextFile, SequenceTheorems, WellFoundedInduction, TLAPS

-----------------------------------------------------------------------------

(***************************************************************************)
(* Functions that are defined by recursion on a smaller index.             *)
(***************************************************************************)
LEMMA LeastIndex ==
  ASSUME NEW S, S \subseteq Nat, S # {}
  PROVE  \E x \in S : \A y \in S : x <= y
<1>1. PICK x \in S : \A y \in S : ~ (<<y, x>> \in OpToRel(<, Nat))
  BY WFMin, NatLessThanWellFounded, Zenon
<1>2. ASSUME NEW y \in S PROVE x <= y
  <2>1. <<y, x>> \in Nat \X Nat
    OBVIOUS
  <2>2. ~(y < x)
    BY <1>1, <2>1 DEF OpToRel
  <2> QED
    BY <2>2
<1> QED
  BY <1>2

\* A function of 0 .. m whose value at k is F of k and its value at back[k].
Computes(f, m, back, a, F) ==
  /\ f[0] = a
  /\ \A k \in 1 .. m : f[k] = F[k][f[back[k]]]

LEMMA Recursion ==
  ASSUME NEW n \in Nat, NEW V, NEW a \in V,
         NEW back, \A k \in 1 .. n : back[k] \in 0 .. n /\ back[k] < k,
         NEW F, \A k \in 1 .. n : \A v \in V : F[k][v] \in V
  PROVE  \E f \in [0 .. n -> V] : Computes(f, n, back, a, F)
<1> DEFINE Done(m) == \E f \in [0 .. m -> V] : Computes(f, m, back, a, F)
           Bad == {m \in 0 .. n : ~Done(m)}
<1>1. SUFFICES ASSUME Bad # {} PROVE FALSE
  <2>1. n \in 0 .. n
    OBVIOUS
  <2>2. Bad = {} => Done(n)
    BY <2>1
  <2> QED
    BY <1>1, <2>2
<1>2. PICK m \in Bad : \A y \in Bad : m <= y
  <2>1. Bad \subseteq Nat
    OBVIOUS
  <2> HIDE DEF Bad
  <2> QED
    BY <1>1, <2>1, LeastIndex
<1>3. m \in 0 .. n /\ ~Done(m)
  BY <1>2
<1>4. CASE m = 0
  <2> DEFINE f == [k \in 0 .. 0 |-> a]
  <2>1. f \in [0 .. m -> V]
    BY <1>4
  <2>2. Computes(f, m, back, a, F)
    BY <1>4 DEF Computes
  <2> QED
    BY <1>3, <2>1, <2>2
<1>5. CASE m # 0
  <2> DEFINE p == m - 1
  <2>1. p \in 0 .. n /\ p < m /\ p + 1 = m
    BY <1>3, <1>5
  <2>2. Done(p)
    BY <1>2, <2>1
  <2>3. PICK g \in [0 .. p -> V] : Computes(g, p, back, a, F)
    BY <2>2
  <2>4. m \in 1 .. n /\ back[m] \in 0 .. p
    BY <1>3, <1>5, <2>1
  <2> DEFINE f == [k \in 0 .. m |-> IF k = m THEN F[m][g[back[m]]] ELSE g[k]]
  <2>5. \A k \in 0 .. p : f[k] = g[k]
    BY <1>3, <2>1
  <2>6. f[m] = F[m][g[back[m]]]
    BY <1>3
  <2>7. f \in [0 .. m -> V]
    <3>1. g[back[m]] \in V /\ F[m][g[back[m]]] \in V
      BY <2>3, <2>4
    <3>2. \A k \in 0 .. m : k # m => k \in 0 .. p
      BY <1>3, <2>1
    <3> QED
      BY <2>3, <3>1, <3>2
  <2> HIDE DEF f
  <2>8. \A k \in 1 .. m : f[k] = F[k][f[back[k]]]
    <3>1. ASSUME NEW k \in 1 .. m, k # m PROVE f[k] = F[k][f[back[k]]]
      <4>1. k \in 1 .. p /\ k \in 0 .. p /\ back[k] \in 0 .. p
        BY <1>3, <2>1, <3>1
      <4> QED
        BY <2>3, <2>5, <4>1 DEF Computes
    <3>2. f[m] = F[m][f[back[m]]]
      BY <2>4, <2>5, <2>6
    <3> QED
      BY <3>1, <3>2
  <2>9. f[0] = a
    BY <2>1, <2>3, <2>5 DEF Computes
  <2> QED
    BY <1>3, <2>7, <2>8, <2>9 DEF Computes
<1> QED
  BY <1>4, <1>5

\* What holds at 0, and at k if it holds at what comes before k, holds everywhere.
LEMMA Along ==
  ASSUME NEW n \in Nat, NEW back, \A k \in 1 .. n : back[k] \in 0 .. n /\ back[k] < k,
         NEW S, 0 \in S, \A k \in 1 .. n : back[k] \in S => k \in S
  PROVE  \A k \in 0 .. n : k \in S
<1> DEFINE Bad == {k \in 0 .. n : k \notin S}
<1>1. SUFFICES ASSUME Bad # {} PROVE FALSE
  BY <1>1
<1>2. PICK m \in Bad : \A y \in Bad : m <= y
  <2>1. Bad \subseteq Nat
    OBVIOUS
  <2> HIDE DEF Bad
  <2> QED
    BY <1>1, <2>1, LeastIndex
<1>3. m \in 1 .. n
  BY <1>2
<1>4. back[m] \in Bad /\ back[m] < m
  BY <1>2, <1>3
<1> QED
  BY <1>2, <1>3, <1>4

-----------------------------------------------------------------------------
(***************************************************************************)
(* FlattenSeq: the empty sequence, one element more behind or in front.    *)
(***************************************************************************)
\* f[k] is the concatenation of the first k elements of s.
Sums(f, s) ==
  /\ f[0] = <<>>
  /\ \A k \in 1 .. Len(s) : f[k] = f[k - 1] \o s[k]

LEMMA SumsExist ==
  ASSUME NEW S, NEW s \in Seq(Seq(S))
  PROVE  \E f \in [0 .. Len(s) -> Seq(S)] : Sums(f, s)
<1> DEFINE n == Len(s)
           back == [k \in 1 .. n |-> k - 1]
           F == [k \in 1 .. n |-> [v \in Seq(S) |-> v \o s[k]]]
<1>1. n \in Nat /\ \A k \in 1 .. n : s[k] \in Seq(S)
  OBVIOUS
<1>2. \A k \in 1 .. n : back[k] \in 0 .. n /\ back[k] < k
  BY <1>1
<1>3. \A k \in 1 .. n : \A v \in Seq(S) : F[k][v] = v \o s[k] /\ F[k][v] \in Seq(S)
  BY <1>1
<1>4. <<>> \in Seq(S)
  OBVIOUS
<1> HIDE DEF n, F
<1>5. PICK f \in [0 .. n -> Seq(S)] : Computes(f, n, back, <<>>, F)
  BY <1>1, <1>2, <1>3, <1>4, Recursion
<1>6. \A k \in 1 .. n : f[k] = f[k - 1] \o s[k]
  <2> SUFFICES ASSUME NEW k \in 1 .. n PROVE f[k] = f[k - 1] \o s[k]
    OBVIOUS
  <2>1. f[k] = F[k][f[back[k]]] /\ back[k] = k - 1 /\ back[k] \in 0 .. n
    BY <1>2, <1>5 DEF Computes
  <2>2. f[k - 1] \in Seq(S)
    BY <1>5, <2>1
  <2> QED
    BY <1>3, <2>1, <2>2
<1> QED
  BY <1>5, <1>6 DEF Computes, Sums, n

LEMMA FlattenIs ==
  ASSUME NEW S, NEW s \in Seq(Seq(S)), NEW f \in [0 .. Len(s) -> Seq(S)], Sums(f, s)
  PROVE  FlattenSeq(s) = f[Len(s)]
<1> DEFINE n == Len(s)
<1>1. n \in Nat /\ \A k \in 1 .. n : s[k] \in Seq(S)
  OBVIOUS
<1>2. CASE n = 0
  <2>1. s = <<>>
    BY <1>2
  <2> QED
    BY <1>2, <2>1 DEF FlattenSeq, Sums
<1>3. CASE n # 0
  <2> DEFINE Is(g) == g = [i \in 1 .. Len(s) |-> IF i = 1 THEN s[i] ELSE g[i - 1] \o s[i]]
             h == [i \in 1 .. Len(s) |-> f[i]]
             g == CHOOSE x : Is(x)
  <2>1. Is(h)
    <3>1. ASSUME NEW i \in 1 .. n PROVE h[i] = IF i = 1 THEN s[i] ELSE h[i - 1] \o s[i]
      <4>1. f[i] = f[i - 1] \o s[i]
        BY DEF Sums
      <4>2. CASE i = 1
        <5>1. f[i - 1] = <<>>
          BY <4>2 DEF Sums
        <5> QED
          BY <1>1, <4>1, <4>2, <5>1
      <4>3. CASE i # 1
        <5>1. i - 1 \in 1 .. n /\ h[i - 1] = f[i - 1]
          BY <1>1, <4>3
        <5> QED
          BY <4>1, <4>3, <5>1
      <4> QED
        BY <4>2, <4>3
    <3>2. h = [i \in 1 .. n |-> h[i]]
      OBVIOUS
    <3> HIDE DEF h
    <3> QED
      BY <3>1, <3>2
  <2>2. Is(g)
    BY <2>1
  <2>3. FlattenSeq(s) = g[n]
    BY <1>3 DEF FlattenSeq
  <2> HIDE DEF g
  <2>4. \A i \in 1 .. n : g[i] = IF i = 1 THEN s[i] ELSE g[i - 1] \o s[i]
    BY <2>2
  <2> HIDE DEF Is, h, n
  <2> DEFINE Same == {k \in 0 .. n : k = 0 \/ g[k] = f[k]}
             back == [k \in 1 .. n |-> k - 1]
  <2>5. ASSUME NEW k \in 1 .. n, back[k] \in Same PROVE k \in Same
    <3>1. f[k] = f[k - 1] \o s[k] /\ back[k] = k - 1 /\ k - 1 \in 0 .. n
      <4>1. f[k] = f[k - 1] \o s[k]
        BY DEF Sums, n
      <4>2. back[k] = k - 1
        OBVIOUS
      <4>3. k - 1 \in 0 .. n
        BY <1>1
      <4> QED
        BY <4>1, <4>2, <4>3
    <3>2. CASE k = 1
      <4>1. f[k - 1] = <<>>
        BY <3>2 DEF Sums
      <4>2. g[k] = s[k]
        BY <2>4, <3>2
      <4>3. s[k] \in Seq(S)
        BY <1>1
      <4> QED
        BY <3>1, <4>1, <4>2, <4>3
    <3>3. CASE k # 1
      <4>1. k - 1 # 0
        BY <1>1, <3>3
      <4>2. g[k - 1] = f[k - 1]
        BY <2>5, <3>1, <4>1
      <4>3. g[k] = g[k - 1] \o s[k]
        BY <2>4, <3>3
      <4>4. g[k] = f[k]
        BY <3>1, <4>2, <4>3
      <4>5. k \in 0 .. n
        BY <1>1
      <4> QED
        BY <4>4, <4>5
    <3> QED
      BY <3>2, <3>3
  <2>6. \A k \in 1 .. n : back[k] \in 0 .. n /\ back[k] < k
    BY <1>1
  <2>7. 0 \in Same
    BY <1>1
  <2> HIDE DEF Same, back
  <2>8. \A k \in 0 .. n : k \in Same
    BY <1>1, <2>5, <2>6, <2>7, Along
  <2>9. g[n] = f[n]
    BY <1>1, <1>3, <2>8 DEF Same
  <2> QED
    BY <2>3, <2>9 DEF n
<1> QED
  BY <1>2, <1>3

LEMMA FlattenType ==
  ASSUME NEW S, NEW s \in Seq(Seq(S))
  PROVE  FlattenSeq(s) \in Seq(S)
<1>1. PICK f \in [0 .. Len(s) -> Seq(S)] : Sums(f, s)
  BY SumsExist
<1>2. Len(s) \in 0 .. Len(s)
  OBVIOUS
<1> QED
  BY <1>1, <1>2, FlattenIs

LEMMA FlattenEmpty == FlattenSeq(<<>>) = <<>>
  BY DEF FlattenSeq

LEMMA FlattenAppend ==
  ASSUME NEW S, NEW s \in Seq(Seq(S)), NEW x \in Seq(S)
  PROVE  FlattenSeq(Append(s, x)) = FlattenSeq(s) \o x
<1> DEFINE n == Len(s)
           t == Append(s, x)
<1>1. PICK f \in [0 .. n -> Seq(S)] : Sums(f, s)
  BY SumsExist
<1>2. /\ n \in Nat /\ t \in Seq(Seq(S)) /\ Len(t) = n + 1
      /\ t[n + 1] = x /\ \A k \in 1 .. n : t[k] = s[k]
  OBVIOUS
<1>3. FlattenSeq(s) = f[n] /\ f[n] \in Seq(S)
  BY <1>1, <1>2, FlattenIs
<1> DEFINE h == [k \in 0 .. (n + 1) |-> IF k = n + 1 THEN f[n] \o x ELSE f[k]]
<1>4. /\ h \in [0 .. (n + 1) -> Seq(S)]
      /\ h[n + 1] = f[n] \o x
      /\ \A k \in 0 .. n : h[k] = f[k]
  BY <1>1, <1>2, <1>3
<1> HIDE DEF h, t, n
<1>5. Sums(h, t)
  <2>1. h[0] = <<>>
    BY <1>1, <1>2, <1>4 DEF Sums
  <2>2. ASSUME NEW k \in 1 .. (n + 1) PROVE h[k] = h[k - 1] \o t[k]
    <3>1. CASE k = n + 1
      <4>1. k - 1 = n /\ h[n] = f[n]
        BY <1>2, <1>4, <3>1
      <4> QED
        BY <1>2, <1>4, <3>1, <4>1
    <3>2. CASE k # n + 1
      <4>1. k \in 1 .. n /\ k \in 0 .. n /\ k - 1 \in 0 .. n
        BY <1>2, <3>2
      <4>2. f[k] = f[k - 1] \o s[k]
        BY <1>1, <4>1 DEF Sums, n
      <4> QED
        BY <1>2, <1>4, <4>1, <4>2
    <3> QED
      BY <3>1, <3>2
  <2> QED
    BY <1>2, <2>1, <2>2 DEF Sums
<1>6. FlattenSeq(t) = h[n + 1]
  BY <1>2, <1>4, <1>5, FlattenIs
<1> QED
  BY <1>3, <1>4, <1>6 DEF t

LEMMA FlattenFront ==
  ASSUME NEW S, NEW s \in Seq(Seq(S)), NEW x \in Seq(S)
  PROVE  FlattenSeq(<<x>> \o s) = x \o FlattenSeq(s)
<1> DEFINE n == Len(s)
           t == <<x>> \o s
<1>1. PICK f \in [0 .. n -> Seq(S)] : Sums(f, s)
  BY SumsExist
<1>2. <<x>> \in Seq(Seq(S)) /\ Len(<<x>>) = 1 /\ <<x>>[1] = x
  OBVIOUS
<1>3. /\ n \in Nat /\ t \in Seq(Seq(S)) /\ Len(t) = n + 1
      /\ t[1] = x /\ \A k \in 1 .. n : t[k + 1] = s[k]
  BY <1>2, ConcatProperties
<1>4. FlattenSeq(s) = f[n] /\ f[n] \in Seq(S)
  BY <1>1, <1>3, FlattenIs
<1> DEFINE h == [k \in 0 .. (n + 1) |-> IF k = 0 THEN <<>> ELSE x \o f[k - 1]]
<1>5. /\ h \in [0 .. (n + 1) -> Seq(S)]
      /\ h[0] = <<>>
      /\ \A k \in 1 .. (n + 1) : h[k] = x \o f[k - 1] /\ f[k - 1] \in Seq(S)
  <2>1. \A k \in 1 .. (n + 1) : k - 1 \in 0 .. n /\ k # 0 /\ k \in 0 .. (n + 1)
    BY <1>3
  <2>2. ASSUME NEW k \in 0 .. (n + 1), k # 0 PROVE x \o f[k - 1] \in Seq(S)
    <3>1. k - 1 \in 0 .. n
      BY <1>3, <2>2
    <3>2. f[k - 1] \in Seq(S)
      BY <1>1, <3>1
    <3> QED
      BY <3>2
  <2>3. h \in [0 .. (n + 1) -> Seq(S)]
    BY <2>2
  <2>4. h[0] = <<>>
    BY <1>3
  <2>5. ASSUME NEW k \in 1 .. (n + 1) PROVE h[k] = x \o f[k - 1] /\ f[k - 1] \in Seq(S)
    <3>1. k - 1 \in 0 .. n /\ k # 0 /\ k \in 0 .. (n + 1)
      BY <2>1
    <3> HIDE DEF n
    <3>2. f[k - 1] \in Seq(S)
      BY <1>1, <3>1
    <3> QED
      BY <3>1, <3>2
  <2> HIDE DEF h
  <2> QED
    BY <2>3, <2>4, <2>5
<1> HIDE DEF h, t, n
<1>6. Sums(h, t)
  <2>1. ASSUME NEW k \in 1 .. (n + 1) PROVE h[k] = h[k - 1] \o t[k]
    <3>1. CASE k = 1
      <4>1. f[k - 1] = <<>>
        BY <1>1, <3>1 DEF Sums
      <4>2. h[k - 1] = <<>>
        BY <1>5, <3>1
      <4>3. h[k] = x \o <<>>
        BY <1>5, <4>1
      <4>4. t[k] = x
        BY <1>3, <3>1
      <4>5. x \o <<>> = x /\ <<>> \o x = x
        OBVIOUS
      <4> QED
        BY <4>2, <4>3, <4>4, <4>5
    <3>2. CASE k # 1
      <4>1. k - 1 \in 1 .. n /\ k - 1 \in 1 .. (n + 1) /\ (k - 1) + 1 = k /\ (k - 1) - 1 \in 0 .. n
        BY <1>3, <3>2
      <4>2. f[k - 1] = f[(k - 1) - 1] \o s[k - 1] /\ t[k] = s[k - 1]
        BY <1>1, <1>3, <4>1 DEF Sums, n
      <4>3. f[(k - 1) - 1] \in Seq(S) /\ s[k - 1] \in Seq(S)
        BY <1>1, <4>1, SMTT(40) DEF n
      <4>4. h[k] = x \o f[k - 1] /\ h[k - 1] = x \o f[(k - 1) - 1]
        BY <1>5, <4>1
      <4> DEFINE u == f[(k - 1) - 1]
                 v == s[k - 1]
      <4>5. u \in Seq(S) /\ v \in Seq(S)
        BY <4>3
      <4>6. h[k] = x \o (u \o v) /\ h[k - 1] \o t[k] = (x \o u) \o v
        BY <4>2, <4>4
      <4>7. x \o (u \o v) = (x \o u) \o v
        <5> HIDE DEF u, v
        <5> QED
          BY <4>5, ConcatAssociative, SMTT(40)
      <4> QED
        BY <4>6, <4>7, Zenon
    <3> QED
      BY <3>1, <3>2
  <2> QED
    BY <1>3, <1>5, <2>1 DEF Sums
<1>7. FlattenSeq(t) = h[n + 1]
  BY <1>3, <1>5, <1>6, FlattenIs
<1>8. n + 1 \in 1 .. (n + 1) /\ (n + 1) - 1 = n
  BY <1>3
<1>9. h[n + 1] = x \o f[n]
  BY <1>5, <1>8
<1> QED
  BY <1>4, <1>7, <1>9 DEF t

LEMMA Associative ==
  ASSUME NEW S, NEW a \in Seq(S), NEW b \in Seq(S), NEW c \in Seq(S)
  PROVE  (a \o b) \o c = a \o (b \o c)
  BY ConcatAssociative

LEMMA ConsProperties ==
  ASSUME NEW S, NEW x \in S, NEW r \in Seq(S)
  PROVE  /\ <<x>> \o r \in Seq(S) /\ <<x>> \o r # <<>>
         /\ Head(<<x>> \o r) = x /\ Tail(<<x>> \o r) = r
         /\ Len(<<x>> \o r) = Len(r) + 1
<1> DEFINE o == <<x>>
<1>1. o \in Seq(S) /\ Len(o) = 1 /\ o[1] = x
  OBVIOUS
<1> HIDE DEF o
<1> DEFINE t == o \o r
<1>2. /\ t \in Seq(S) /\ Len(t) = 1 + Len(r)
      /\ \A i \in 1 .. (1 + Len(r)) : t[i] = IF i <= 1 THEN o[i] ELSE r[i - 1]
  <2>1. /\ o \o r \in Seq(S) /\ Len(o \o r) = Len(o) + Len(r)
        /\ \A i \in 1 .. Len(o) + Len(r) : (o \o r)[i] = IF i <= Len(o) THEN o[i] ELSE r[i - Len(o)]
    BY <1>1, ConcatProperties, Zenon
  <2> QED
    BY <1>1, <2>1
<1>3. Len(r) \in Nat
  OBVIOUS
<1> HIDE DEF t
<1>4. t # <<>> /\ Head(t) = x
  BY <1>1, <1>2, <1>3
<1>5. Tail(t) = r
  <2>1. Tail(t) \in Seq(S) /\ Len(Tail(t)) = Len(r) /\ \A i \in 1 .. Len(r) : Tail(t)[i] = t[i + 1]
    BY <1>2, <1>3, <1>4
  <2>2. \A i \in 1 .. Len(r) : t[i + 1] = r[i]
    BY <1>2, <1>3
  <2> QED
    BY <2>1, <2>2, SeqEqual
<1> QED
  BY <1>2, <1>3, <1>4, <1>5 DEF t, o

\* What is behind the first k elements of s.
From(s, k) == SubSeq(s, k + 1, Len(s))

LEMMA FromProperties ==
  ASSUME NEW S, NEW s \in Seq(S), NEW k \in 0 .. Len(s)
  PROVE  /\ From(s, k) \in Seq(S) /\ Len(From(s, k)) = Len(s) - k
         /\ \A i \in 1 .. (Len(s) - k) : From(s, k)[i] = s[k + i]
         /\ From(s, 0) = s
         /\ k < Len(s) => From(s, k) = <<s[k + 1]>> \o From(s, k + 1)
         /\ k = Len(s) => From(s, k) = <<>>
<1>1. Len(s) \in Nat /\ k + 1 \in Int
  OBVIOUS
<1>2. \A i \in (k + 1) .. Len(s) : s[i] \in S
  BY <1>1
<1>3. /\ From(s, k) \in Seq(S)
      /\ Len(From(s, k)) = IF k + 1 <= Len(s) THEN Len(s) - (k + 1) + 1 ELSE 0
      /\ \A i \in 1 .. (Len(s) - (k + 1) + 1) : From(s, k)[i] = s[(k + 1) + i - 1]
  BY <1>1, <1>2, SubSeqProperties DEF From
<1>4. Len(From(s, k)) = Len(s) - k
  BY <1>1, <1>3
<1>5. ASSUME NEW i \in 1 .. (Len(s) - k) PROVE From(s, k)[i] = s[k + i]
  <2>1. i \in 1 .. (Len(s) - (k + 1) + 1) /\ (k + 1) + i - 1 = k + i
    BY <1>1
  <2> QED
    BY <1>3, <2>1
<1>6. From(s, 0) = s
  BY SubSeqFull DEF From
<1>7. k < Len(s) => From(s, k) = <<s[k + 1]>> \o From(s, k + 1)
  <2> HAVE k < Len(s)
  <2>1. k + 1 \in 1 .. Len(s) /\ Len(s) \in (k + 1) .. Len(s)
    BY <1>1
  <2> QED
    BY <2>1, SubSeqRecursiveFirst DEF From
<1>8. k = Len(s) => From(s, k) = <<>>
  BY <1>1, SubSeqEmpty DEF From
<1> QED
  BY <1>3, <1>4, <1>5, <1>6, <1>7, <1>8

\* The elements of s behind the first k, and r behind them.
LEMMA PlainStep ==
  ASSUME NEW S, NEW s \in Seq(S), NEW k \in 0 .. Len(s), NEW r \in Seq(S)
  PROVE  /\ From(s, k) \o r \in Seq(S)
         /\ k < Len(s) => From(s, k) \o r = <<s[k + 1]>> \o (From(s, k + 1) \o r)
         /\ k = Len(s) => From(s, k) \o r = r
<1>1. From(s, k) \in Seq(S)
  BY FromProperties
<1>2. From(s, k) \o r \in Seq(S)
  BY <1>1
<1>3. ASSUME k < Len(s)
      PROVE  From(s, k) \o r = <<s[k + 1]>> \o (From(s, k + 1) \o r)
  <2>1. k + 1 \in 0 .. Len(s) /\ k + 1 \in 1 .. Len(s)
    BY <1>3
  <2>2. From(s, k + 1) \in Seq(S) /\ From(s, k) = <<s[k + 1]>> \o From(s, k + 1)
    BY <1>3, <2>1, FromProperties
  <2>3. <<s[k + 1]>> \in Seq(S)
    BY <2>1
  <2> QED
    BY <2>2, <2>3, ConcatAssociative
<1>4. ASSUME k = Len(s) PROVE From(s, k) \o r = r
  <2>1. From(s, k) = <<>>
    BY <1>4, SubSeqEmpty DEF From
  <2> QED
    BY <2>1, ConcatEmptySeq
<1> QED
  BY <1>2, <1>3, <1>4

\* s and t agree but for the last element, which grows by d.
Grows(s, t, d) ==
  /\ Len(s) > 0 /\ Len(t) = Len(s)
  /\ t[Len(s)] = s[Len(s)] \o d
  /\ \A k \in 1 .. (Len(s) - 1) : t[k] = s[k]

LEMMA FlattenGrow ==
  ASSUME NEW S, NEW s \in Seq(Seq(S)), NEW t \in Seq(Seq(S)), NEW d \in Seq(S), Grows(s, t, d)
  PROVE  FlattenSeq(t) = FlattenSeq(s) \o d
<1> DEFINE n == Len(s)
           u == SubSeq(s, 1, n - 1)
<1>1. /\ n \in Nat /\ n > 0 /\ n \in 1 .. n /\ s[n] \in Seq(S)
      /\ Len(t) = n /\ t[n] = s[n] \o d
      /\ \A k \in 1 .. (n - 1) : t[k] = s[k]
  BY DEF Grows
<1>2. \A i \in 1 .. (n - 1) : s[i] \in Seq(S)
  OBVIOUS
<1>3. /\ u \in Seq(Seq(S)) /\ Len(u) = n - 1
      /\ \A i \in 1 .. (n - 1) : u[i] = s[i]
  <2>1. /\ u \in Seq(Seq(S)) /\ Len(u) = IF 1 <= n - 1 THEN (n - 1) - 1 + 1 ELSE 0
        /\ \A i \in 1 .. ((n - 1) - 1 + 1) : u[i] = s[1 + i - 1]
    BY <1>1, <1>2, SubSeqProperties
  <2>2. Len(u) = n - 1
    BY <1>1, <2>1
  <2>3. ASSUME NEW i \in 1 .. (n - 1) PROVE u[i] = s[i]
    <3>1. i \in 1 .. ((n - 1) - 1 + 1) /\ 1 + i - 1 = i
      BY <1>1
    <3> QED
      BY <2>1, <3>1
  <2> QED
    BY <2>1, <2>2, <2>3
<1>4. s = Append(u, s[n])
  <2> HIDE DEF u
  <2>1. Append(u, s[n]) \in Seq(Seq(S)) /\ Len(Append(u, s[n])) = n
    BY <1>1, <1>3, AppendProperties
  <2>2. \A i \in 1 .. n : Append(u, s[n])[i] = s[i]
    <3> SUFFICES ASSUME NEW i \in 1 .. n PROVE Append(u, s[n])[i] = s[i]
      OBVIOUS
    <3>1. CASE i = n
      <4>1. Append(u, s[n])[Len(u) + 1] = s[n] /\ Len(u) + 1 = n
        BY <1>1, <1>3, AppendProperties
      <4> QED
        BY <3>1, <4>1
    <3>2. CASE i # n
      <4>1. i \in 1 .. (n - 1) /\ i \in 1 .. Len(u)
        BY <1>1, <1>3, <3>2
      <4> QED
        BY <1>1, <1>3, <4>1, AppendProperties
    <3> QED
      BY <3>1, <3>2
  <2> QED
    BY <2>1, <2>2, SeqEqual
<1>5. t = Append(u, s[n] \o d)
  <2> DEFINE x == s[n] \o d
  <2>1. x \in Seq(S) /\ t[n] = x
    BY <1>1
  <2> HIDE DEF u, x
  <2>2. Append(u, x) \in Seq(Seq(S)) /\ Len(Append(u, x)) = n
    BY <1>1, <1>3, <2>1, AppendProperties
  <2>3. \A i \in 1 .. n : Append(u, x)[i] = t[i]
    <3> SUFFICES ASSUME NEW i \in 1 .. n PROVE Append(u, x)[i] = t[i]
      OBVIOUS
    <3>1. CASE i = n
      <4>1. Append(u, x)[Len(u) + 1] = x /\ Len(u) + 1 = n
        BY <1>1, <1>3, <2>1, AppendProperties
      <4> QED
        BY <2>1, <3>1, <4>1
    <3>2. CASE i # n
      <4>1. i \in 1 .. (n - 1) /\ i \in 1 .. Len(u)
        BY <1>1, <1>3, <3>2
      <4>2. Append(u, x)[i] = u[i] /\ u[i] = s[i] /\ t[i] = s[i]
        BY <1>1, <1>3, <2>1, <4>1, AppendProperties
      <4> QED
        BY <4>2
    <3> QED
      BY <3>1, <3>2
  <2> QED
    <3>1. Append(u, x) = t
      BY <1>1, <2>2, <2>3, SeqEqual
    <3> QED
      BY <3>1 DEF x
<1>6. FlattenSeq(s) = FlattenSeq(u) \o s[n] /\ FlattenSeq(t) = FlattenSeq(u) \o (s[n] \o d)
  <2> HIDE DEF u
  <2>1. s[n] \o d \in Seq(S)
    BY <1>1
  <2> QED
    BY <1>1, <1>3, <1>4, <1>5, <2>1, FlattenAppend, ZenonT(60)
<1>7. FlattenSeq(u) \in Seq(S)
  BY <1>3, FlattenType
<1>8. \A a, b, c \in Seq(S) : (a \o b) \o c = a \o (b \o c)
  BY Associative, SMTT(40)
<1>9. s[n] \in Seq(S) /\ FlattenSeq(u) \in Seq(S) /\ d \in Seq(S)
  BY <1>1, <1>7
<1> HIDE DEF u, n
<1>10. (FlattenSeq(u) \o s[n]) \o d = FlattenSeq(u) \o (s[n] \o d)
  BY <1>8, <1>9, Zenon
<1> QED
  BY <1>6, <1>10

-----------------------------------------------------------------------------
(***************************************************************************)
(* What minidump_stackwalk prints, line by line.                           *)
(***************************************************************************)
Contents == BOOLEAN \cup Seq(STRING) \cup Seq(Int)
Kinds == {"thread", "frame", "registers", "contents", "row", "other"}
Lines == [kind: Kinds, value: Nat, more: Contents]
SourceThreads == [tid: Nat, crashed: BOOLEAN, frames: Seq(Frames)]

LEMMA LineType ==
  ASSUME NEW kind \in Kinds, NEW value \in Nat, NEW more \in Contents
  PROVE  Line(kind, value, more) \in Lines
  BY DEF Line, Lines, Kinds

LEMMA OtherType == Other \in Lines
<1> DEFINE none == <<>>
<1>1. none \in Seq(Int)
  OBVIOUS
<1> HIDE DEF none
<1>2. none \in Contents
  BY <1>1 DEF Contents
<1>3. Line("other", 0, none) \in Lines
  BY <1>2 DEF Line, Lines, Kinds
<1> QED
  BY <1>3 DEF Other, none

LEMMA RowBytesNat == RowBytes \in Nat /\ RowBytes > 0
  BY ContextFileAssumption

LEMMA FrameType ==
  ASSUME NEW f \in Frames
  PROVE  /\ f.num \in Nat /\ f.func \in Seq(STRING) /\ f.regs \in Seq(Nat) /\ f.base \in Nat
         /\ f.stack \in Seq(0 .. 255) /\ f.tail \in Seq(Nat \cup {NotHex})
  BY DEF Frames, Numbers

\* How many of n registers k lines hold.
Upto(n, k) == IF 2 * k <= n THEN 2 * k ELSE n

RegisterCount(r) == (Len(r) + 1) \div 2

LEMMA RegistersShape ==
  ASSUME NEW r \in Seq(Nat)
  PROVE  /\ RegisterLines(r) \in Seq(Lines) /\ Len(RegisterLines(r)) = RegisterCount(r)
         /\ \A k \in 0 .. (RegisterCount(r) - 1) :
              RegisterLines(r)[k + 1] =
                Line("registers", 0, SubSeq(r, Upto(Len(r), k) + 1, Upto(Len(r), k + 1)))
<1> DEFINE c == RegisterCount(r)
           more(k) == SubSeq(r, 2 * k - 1, IF 2 * k <= Len(r) THEN 2 * k ELSE Len(r))
<1>1. Len(r) \in Nat /\ c \in Nat
  BY DEF RegisterCount
<1>2. ASSUME NEW k \in 1 .. c
      PROVE  /\ 2 * k - 1 = Upto(Len(r), k - 1) + 1 /\ Upto(Len(r), k) \in 0 .. Len(r)
             /\ more(k) = SubSeq(r, Upto(Len(r), k - 1) + 1, Upto(Len(r), k))
             /\ more(k) \in Seq(Int)
  <2>1. 2 * k <= Len(r) + 1
    BY <1>1 DEF RegisterCount
  <2>2. 2 * k - 1 = Upto(Len(r), k - 1) + 1 /\ Upto(Len(r), k) \in 0 .. Len(r)
    BY <1>1, <2>1 DEF Upto
  <2>3. more(k) = SubSeq(r, 2 * k - 1, Upto(Len(r), k))
    BY DEF Upto
  <2>4. more(k) \in Seq(Int)
    <3> DEFINE m == 2 * k - 1
               n == Upto(Len(r), k)
    <3>1. m \in Int /\ n \in Int /\ m >= 1 /\ n <= Len(r)
      BY <1>1, <2>2
    <3>2. \A i \in m .. n : r[i] \in Int
      BY <1>1, <3>1
    <3> HIDE DEF m, n
    <3>3. SubSeq(r, m, n) \in Seq(Int)
      BY <3>1, <3>2, SubSeqProperties
    <3> QED
      BY <2>3, <3>3 DEF m, n
  <2> QED
    BY <2>2, <2>3, <2>4
<1>3. RegisterLines(r) = [k \in 1 .. c |-> Line("registers", 0, more(k))]
  BY DEF RegisterLines, RegisterCount
<1> HIDE DEF c, more
<1>4. \A k \in 1 .. c : Line("registers", 0, more(k)) \in Lines
  <2> SUFFICES ASSUME NEW k \in 1 .. c PROVE Line("registers", 0, more(k)) \in Lines
    OBVIOUS
  <2>1. more(k) \in Contents
    BY <1>2 DEF Contents
  <2> QED
    BY <2>1 DEF Line, Lines, Kinds
<1>5. RegisterLines(r) \in Seq(Lines) /\ Len(RegisterLines(r)) = c
  BY <1>1, <1>3, <1>4
<1>6. ASSUME NEW k \in 0 .. (c - 1)
      PROVE  RegisterLines(r)[k + 1] = Line("registers", 0, SubSeq(r, Upto(Len(r), k) + 1, Upto(Len(r), k + 1)))
  <2>1. k + 1 \in 1 .. c /\ (k + 1) - 1 = k
    BY <1>1
  <2>2. RegisterLines(r)[k + 1] = Line("registers", 0, more(k + 1))
    BY <1>3, <2>1
  <2>3. more(k + 1) = SubSeq(r, Upto(Len(r), k) + 1, Upto(Len(r), k + 1))
    BY <1>2, <2>1
  <2> QED
    BY <2>2, <2>3
<1> QED
  BY <1>5, <1>6 DEF c

LEMMA UptoNext ==
  ASSUME NEW r \in Seq(Nat)
  PROVE  /\ RegisterCount(r) \in Nat /\ Upto(Len(r), 0) = 0 /\ Upto(Len(r), RegisterCount(r)) = Len(r)
         /\ \A k \in 0 .. (RegisterCount(r) - 1) :
              /\ Upto(Len(r), k) \in 0 .. Len(r) /\ Upto(Len(r), k + 1) \in Upto(Len(r), k) .. Len(r)
<1>1. Len(r) \in Nat
  OBVIOUS
<1>2. RegisterCount(r) \in Nat /\ 2 * RegisterCount(r) <= Len(r) + 1 /\ Len(r) + 1 < 2 * RegisterCount(r) + 2
  BY <1>1 DEF RegisterCount
<1> QED
  BY <1>1, <1>2 DEF Upto

\* How many rows show the stack of a frame.
RowCount(f) == (Len(f.stack) + RowBytes - 1) \div RowBytes

LEMMA RowCountNat ==
  ASSUME NEW f \in Frames
  PROVE  /\ Len(f.stack) \in Nat /\ RowCount(f) \in Nat
         /\ Len(f.stack) <= RowBytes * RowCount(f)
         /\ f.stack # <<>> => RowCount(f) > 0
         /\ \A k \in 0 .. (RowCount(f) - 1) : RowBytes * k < Len(f.stack) /\ RowBytes * k \in Nat
         /\ \A k \in 0 .. (RowCount(f) - 2) : RowBytes * (k + 1) < Len(f.stack)
         /\ \A k \in Nat : RowBytes * (k + 1) = RowBytes * k + RowBytes
         /\ RowBytes * RowCount(f) < Len(f.stack) + RowBytes
<1> DEFINE n == Len(f.stack)
           c == RowCount(f)
           a == n + RowBytes - 1
<1>1. n \in Nat /\ RowBytes \in Nat /\ RowBytes > 0 /\ a \in Nat
  BY FrameType, RowBytesNat
<1>2. c \in Nat /\ RowBytes * c <= a /\ a < RowBytes * c + RowBytes
  <2>1. c = a \div RowBytes
    BY DEF RowCount
  <2> HIDE DEF a, c
  <2> QED
    BY <1>1, <2>1
<1>3. \A k \in Nat : RowBytes * (k + 1) = RowBytes * k + RowBytes /\ RowBytes * k \in Nat
  BY <1>1
<1>4. \A k, l \in Nat : k <= l => RowBytes * k <= RowBytes * l
  <2> SUFFICES ASSUME NEW k \in Nat, NEW l \in Nat, k <= l PROVE RowBytes * k <= RowBytes * l
    OBVIOUS
  <2>1. PICK d \in Nat : l = k + d
    <3>1. l - k \in Nat /\ l = k + (l - k)
      OBVIOUS
    <3> QED
      BY <3>1
  <2>2. RowBytes * l = RowBytes * k + RowBytes * d /\ RowBytes * d \in Nat /\ RowBytes * k \in Nat
    BY <1>1, <2>1
  <2> QED
    BY <2>2
<1>5. RowBytes * c \in Nat /\ n <= RowBytes * c /\ RowBytes * c < n + RowBytes
  BY <1>1, <1>2, <1>3
<1>6. c > 0 => RowBytes * (c - 1) < n
  <2> HAVE c > 0
  <2>1. c - 1 \in Nat /\ (c - 1) + 1 = c
    BY <1>2
  <2>2. RowBytes * c = RowBytes * (c - 1) + RowBytes /\ RowBytes * (c - 1) \in Nat
    BY <1>3, <2>1
  <2> QED
    BY <1>1, <1>5, <2>2
<1> HIDE DEF c, n, a
<1>7. ASSUME NEW k \in 0 .. (c - 1) PROVE RowBytes * k < n /\ RowBytes * k \in Nat
  <2>1. k \in Nat /\ c - 1 \in Nat /\ k <= c - 1 /\ c > 0
    BY <1>2
  <2>2. RowBytes * k <= RowBytes * (c - 1) /\ RowBytes * k \in Nat /\ RowBytes * (c - 1) \in Nat
    BY <1>3, <1>4, <2>1
  <2> QED
    BY <1>1, <1>6, <2>1, <2>2
<1>8. ASSUME NEW k \in 0 .. (c - 2) PROVE RowBytes * (k + 1) < n
  <2>1. k + 1 \in 0 .. (c - 1)
    BY <1>2
  <2> QED
    BY <1>7, <2>1
<1>9. f.stack # <<>> => c > 0
  <2> HAVE f.stack # <<>>
  <2>1. n > 0
    BY FrameType DEF n
  <2>2. RowBytes * 0 = 0
    BY <1>1
  <2>3. c = 0 => RowBytes * c = 0
    BY <2>2
  <2> QED
    BY <1>1, <1>2, <1>5, <2>1, <2>3
<1> QED
  BY <1>1, <1>2, <1>3, <1>5, <1>7, <1>8, <1>9 DEF c, n

LEMMA RowsShape ==
  ASSUME NEW f \in Frames
  PROVE  /\ Rows(f) \in Seq(Lines) /\ Len(Rows(f)) = RowCount(f)
         /\ \A k \in 0 .. (RowCount(f) - 1) :
              Rows(f)[k + 1] =
                Line("row", f.base + RowBytes * k,
                     SubSeq(f.stack, RowBytes * k + 1,
                            IF k + 1 < RowCount(f) THEN RowBytes * k + RowBytes ELSE Len(f.stack))
                       \o (IF RowBytes * (k + 1) <= Len(f.stack) THEN <<>> ELSE f.tail))
<1> DEFINE n == Len(f.stack)
           c == RowCount(f)
           more(k) == SubSeq(f.stack, RowBytes * k + 1, IF k + 1 < c THEN RowBytes * k + RowBytes ELSE n)
                        \o (IF RowBytes * (k + 1) <= n THEN <<>> ELSE f.tail)
           row(k) == Line("row", f.base + RowBytes * k, more(k))
<1>1. /\ RowBytes \in Nat /\ n \in Nat /\ c \in Nat
      /\ \A k \in 0 .. (c - 1) : RowBytes * k < n /\ RowBytes * k \in Nat
      /\ \A k \in 0 .. (c - 2) : RowBytes * (k + 1) < n
      /\ \A k \in Nat : RowBytes * (k + 1) = RowBytes * k + RowBytes
  BY RowCountNat, RowBytesNat
<1>2. f.base \in Nat /\ f.stack \in Seq(0 .. 255) /\ f.tail \in Seq(Int)
  BY FrameType DEF NotHex
<1> HIDE DEF c, n
<1>3. Rows(f) = [k \in 1 .. c |->
                   Line("row", f.base + RowBytes * (k - 1),
                        SubSeq(f.stack, RowBytes * (k - 1) + 1, IF k < c THEN RowBytes * (k - 1) + RowBytes ELSE n)
                          \o (IF k * RowBytes <= n THEN <<>> ELSE f.tail))]
  BY DEF Rows, RowCount, c, n
<1>4. ASSUME NEW k \in 1 .. c PROVE Rows(f)[k] = row(k - 1)
  <2>1. (k - 1) + 1 = k /\ k * RowBytes = RowBytes * k
    BY <1>1
  <2>2. Rows(f)[k] = Line("row", f.base + RowBytes * (k - 1),
                          SubSeq(f.stack, RowBytes * (k - 1) + 1,
                                 IF k < c THEN RowBytes * (k - 1) + RowBytes ELSE n)
                            \o (IF k * RowBytes <= n THEN <<>> ELSE f.tail))
    BY <1>3
  <2> QED
    BY <2>1, <2>2
<1>5. ASSUME NEW k \in 0 .. (c - 1) PROVE more(k) \in Seq(Int)
  <2> DEFINE from == RowBytes * k + 1
             to == IF k + 1 < c THEN RowBytes * k + RowBytes ELSE n
             bytes == SubSeq(f.stack, from, to)
             rest == IF RowBytes * (k + 1) <= n THEN <<>> ELSE f.tail
  <2>1. from \in Int /\ to \in Int /\ 1 <= from /\ to <= n
    <3>1. k \in Nat /\ (k + 1 < c => k \in 0 .. (c - 2))
      BY <1>1
    <3> QED
      BY <1>1, <3>1
  <2> HIDE DEF from, to
  <2>2. \A i \in from .. to : f.stack[i] \in Int
    <3> SUFFICES ASSUME NEW i \in from .. to PROVE f.stack[i] \in Int
      OBVIOUS
    <3>1. i \in 1 .. Len(f.stack)
      BY <1>1, <2>1 DEF n
    <3> DEFINE b == f.stack
    <3>2. b \in Seq(0 .. 255) /\ i \in 1 .. Len(b)
      BY <1>2, <3>1
    <3> HIDE DEF b
    <3>3. b[i] \in 0 .. 255
      BY <3>2, ElementOfSeq
    <3>4. f.stack[i] \in 0 .. 255
      BY <3>3 DEF b
    <3> QED
      BY <3>4
  <2>3. bytes \in Seq(Int)
    BY <2>1, <2>2, SubSeqProperties
  <2>4. rest \in Seq(Int)
    BY <1>2
  <2>5. more(k) = bytes \o rest
    BY DEF from, to
  <2> HIDE DEF bytes, rest, more
  <2> QED
    BY <2>3, <2>4, <2>5
<1>6. ASSUME NEW k \in 0 .. (c - 1) PROVE row(k) \in Lines
  <2>1. more(k) \in Contents
    BY <1>5 DEF Contents
  <2>2. f.base + RowBytes * k \in Nat
    <3> DEFINE b == RowBytes * k
    <3>1. b \in Nat
      BY <1>1
    <3> HIDE DEF b
    <3>2. f.base + b \in Nat
      BY <1>2, <3>1
    <3> QED
      BY <3>2 DEF b
  <2> HIDE DEF more
  <2> QED
    BY <2>1, <2>2 DEF Line, Lines, Kinds
<1>7. Rows(f) \in Seq(Lines) /\ Len(Rows(f)) = c
  <2>1. Rows(f) = [k \in 1 .. c |-> row(k - 1)]
    <3>1. Rows(f) = [k \in 1 .. c |-> Rows(f)[k]]
      BY <1>3
    <3> HIDE DEF row
    <3> QED
      BY <1>4, <3>1
  <2>2. \A k \in 1 .. c : k - 1 \in 0 .. (c - 1)
    BY <1>1
  <2> HIDE DEF row
  <2>3. \A k \in 1 .. c : row(k - 1) \in Lines
    BY <1>6, <2>2
  <2> QED
    BY <1>1, <2>1, <2>3
<1>8. ASSUME NEW k \in 0 .. (c - 1) PROVE Rows(f)[k + 1] = row(k)
  <2>1. k + 1 \in 1 .. c /\ (k + 1) - 1 = k
    BY <1>1
  <2> HIDE DEF row
  <2>2. Rows(f)[k + 1] = row((k + 1) - 1)
    BY <1>4, <2>1
  <2> QED
    BY <2>1, <2>2
<1> QED
  BY <1>7, <1>8 DEF c, n


\* Concatenation, under a name of its own.
Cat(a, b) == a \o b

Before(x, r) == <<x>> \o r

LEMMA CatType ==
  ASSUME NEW S, NEW a \in Seq(S), NEW b \in Seq(S)
  PROVE  Cat(a, b) \in Seq(S)
  BY DEF Cat

LEMMA CatAssociative ==
  ASSUME NEW S, NEW a \in Seq(S), NEW b \in Seq(S), NEW c \in Seq(S)
  PROVE  Cat(Cat(a, b), c) = Cat(a, Cat(b, c))
  BY Associative DEF Cat

LEMMA CatEmpty ==
  ASSUME NEW S, NEW a \in Seq(S)
  PROVE  Cat(<<>>, a) = a /\ Cat(a, <<>>) = a
  BY DEF Cat

LEMMA ConsType ==
  ASSUME NEW S, NEW x \in S, NEW r \in Seq(S)
  PROVE  /\ Before(x, r) \in Seq(S) /\ Before(x, r) # <<>>
         /\ Head(Before(x, r)) = x /\ Tail(Before(x, r)) = r
  BY ConsProperties DEF Before

LEMMA ConsCat ==
  ASSUME NEW S, NEW x \in S, NEW a \in Seq(S), NEW b \in Seq(S)
  PROVE  Cat(Before(x, a), b) = Before(x, Cat(a, b))
<1> DEFINE o == <<x>>
<1>1. o \in Seq(S)
  OBVIOUS
<1> HIDE DEF o
<1>2. (o \o a) \o b = o \o (a \o b)
  BY <1>1, Associative, SMTT(40)
<1> QED
  BY <1>2 DEF Cat, Before, o

LEMMA FromCat ==
  ASSUME NEW S, NEW s \in Seq(S), NEW k \in 0 .. Len(s), NEW r \in Seq(S)
  PROVE  /\ Cat(From(s, k), r) \in Seq(S)
         /\ k < Len(s) => Cat(From(s, k), r) = Before(s[k + 1], Cat(From(s, k + 1), r))
         /\ k = Len(s) => Cat(From(s, k), r) = r
         /\ From(s, 0) = s
<1>1. /\ From(s, k) \o r \in Seq(S)
      /\ k < Len(s) => From(s, k) \o r = <<s[k + 1]>> \o (From(s, k + 1) \o r)
      /\ k = Len(s) => From(s, k) \o r = r
  BY PlainStep, Zenon, ZenonT(60)
<1>2. 0 \in 0 .. Len(s)
  OBVIOUS
<1>3. From(s, 0) = s
  BY <1>2, FromProperties, Zenon
<1> QED
  BY <1>1, <1>3, Zenon DEF Cat, Before

LEMMA FromFlat ==
  ASSUME NEW S, NEW s \in Seq(Seq(S)), NEW k \in 0 .. Len(s), NEW r \in Seq(S)
  PROVE  /\ Cat(FlattenSeq(From(s, k)), r) \in Seq(S)
         /\ k < Len(s) => Cat(FlattenSeq(From(s, k)), r) = Cat(s[k + 1], Cat(FlattenSeq(From(s, k + 1)), r))
         /\ k = Len(s) => Cat(FlattenSeq(From(s, k)), r) = r
<1>1. FlattenSeq(From(s, k)) \in Seq(S)
  BY FromProperties, FlattenType
<1>2. Cat(FlattenSeq(From(s, k)), r) \in Seq(S)
  BY <1>1, CatType
<1>3. ASSUME k < Len(s)
      PROVE  Cat(FlattenSeq(From(s, k)), r) = Cat(s[k + 1], Cat(FlattenSeq(From(s, k + 1)), r))
  <2>1. k + 1 \in 0 .. Len(s) /\ s[k + 1] \in Seq(S)
    BY <1>3
  <2>2. From(s, k + 1) \in Seq(Seq(S)) /\ From(s, k) = <<s[k + 1]>> \o From(s, k + 1)
    BY <1>3, <2>1, FromProperties, ZenonT(60)
  <2>3. FlattenSeq(From(s, k)) = Cat(s[k + 1], FlattenSeq(From(s, k + 1)))
    BY <2>1, <2>2, FlattenFront DEF Cat
  <2>4. FlattenSeq(From(s, k + 1)) \in Seq(S)
    BY <2>2, FlattenType
  <2> QED
    BY <2>1, <2>3, <2>4, CatAssociative
<1>4. ASSUME k = Len(s) PROVE Cat(FlattenSeq(From(s, k)), r) = r
  <2>1. From(s, k) = <<>>
    BY <1>4, SubSeqEmpty DEF From
  <2> QED
    BY <2>1, FlattenEmpty, CatEmpty
<1> QED
  BY <1>2, <1>3, <1>4

-----------------------------------------------------------------------------
Contents0 == Line("contents", 0, <<>>)

\* What follows the k-th row of f, its stack's header, or its k-th line of
\* registers, where r follows the frame.
RestRows(f, k, r) == Cat(From(Rows(f), k), Before(Other, Before(Other, r)))

RestStack(f, r) == IF f.stack = <<>> THEN r ELSE Before(Contents0, RestRows(f, 0, r))

RestRegisters(f, k, r) == Cat(From(RegisterLines(f.regs), k), Before(Other, Before(Other, RestStack(f, r))))

LEMMA Contents0Type == Contents0 \in Lines
<1> DEFINE none == <<>>
<1>1. none \in Seq(Int)
  OBVIOUS
<1> HIDE DEF none
<1>2. none \in Contents
  BY <1>1 DEF Contents
<1>3. Line("contents", 0, none) \in Lines
  BY <1>2 DEF Line, Lines, Kinds
<1> QED
  BY <1>3 DEF none, Contents0

LEMMA TwoOthers ==
  ASSUME NEW r \in Seq(Lines)
  PROVE  /\ <<Other, Other>> \in Seq(Lines)
         /\ Cat(<<Other, Other>>, r) = Before(Other, Before(Other, r))
         /\ Before(Other, r) \in Seq(Lines) /\ Before(Other, Before(Other, r)) \in Seq(Lines)
<1> DEFINE o == <<Other>>
<1>1. o \in Seq(Lines)
  BY OtherType
<1>2. <<Other, Other>> = o \o o
  OBVIOUS
<1> HIDE DEF o
<1>3. /\ o \o o \in Seq(Lines)
      /\ (o \o o) \o r = o \o (o \o r)
  BY <1>1, Associative
<1>4. Before(Other, r) \in Seq(Lines) /\ Before(Other, Before(Other, r)) \in Seq(Lines)
  BY OtherType, ConsType
<1> QED
  BY <1>1, <1>2, <1>3, <1>4 DEF o, Cat, Before

\* The text of a frame in front of r.
LEMMA FrameText ==
  ASSUME NEW f \in Frames, NEW r \in Seq(Lines)
  PROVE  /\ FrameLines(f) \in Seq(Lines) /\ Line("frame", f.num, f.func) \in Lines
         /\ RestStack(f, r) \in Seq(Lines) /\ RestRegisters(f, 0, r) \in Seq(Lines)
         /\ Cat(FrameLines(f), r) = Before(Line("frame", f.num, f.func), RestRegisters(f, 0, r))
<1> DEFINE h == Line("frame", f.num, f.func)
           a == <<h>>
           b == RegisterLines(f.regs)
           c == <<Other, Other>>
           x == <<Contents0>>
           y == Rows(f)
           d == IF f.stack = <<>> THEN <<>> ELSE Cat(Cat(x, y), c)
           s == RestStack(f, r)
<1>1. h \in Lines /\ a \in Seq(Lines)
  <2>1. f.func \in Contents /\ f.num \in Nat
    BY FrameType DEF Contents
  <2>2. h \in Lines
    BY <2>1 DEF Line, Lines, Kinds
  <2> HIDE DEF h
  <2> QED
    BY <2>2
<1>2. b \in Seq(Lines) /\ y \in Seq(Lines)
  BY FrameType, RegistersShape, RowsShape
<1>3. c \in Seq(Lines) /\ x \in Seq(Lines)
  BY OtherType, Contents0Type
<1>4. FrameLines(f) = Cat(Cat(Cat(a, b), c), d)
  BY DEF FrameLines, Cat, Contents0
<1> HIDE DEF b, c, y
<1>5. From(b, 0) = b /\ From(y, 0) = y
  <2>1. 0 \in 0 .. Len(b) /\ 0 \in 0 .. Len(y)
    BY <1>2
  <2> QED
    BY <1>2, <2>1, FromCat
<1>6. s \in Seq(Lines) /\ d \in Seq(Lines) /\ Cat(d, r) = s
  <2>1. CASE f.stack = <<>>
    <3>1. s = r /\ d = <<>>
      BY <2>1 DEF RestStack
    <3>2. Cat(<<>>, r) = r
      BY CatEmpty
    <3>3. <<>> \in Seq(Lines)
      OBVIOUS
    <3> HIDE DEF s, d
    <3> QED
      BY <3>1, <3>2, <3>3
  <2>2. CASE f.stack # <<>>
    <3>1. d = Cat(Cat(x, y), c)
      BY <2>2
    <3>2. s = Before(Contents0, Cat(y, Before(Other, Before(Other, r))))
      BY <1>5, <2>2 DEF RestStack, RestRows, y
    <3>3. Cat(c, r) = Before(Other, Before(Other, r)) /\ Cat(c, r) \in Seq(Lines)
      BY <1>3, TwoOthers, CatType DEF c
    <3>4. \A q : Before(Contents0, q) = Cat(x, q)
      BY DEF Before, Cat
    <3> HIDE DEF x, d, s
    <3>5. Cat(x, y) \in Seq(Lines) /\ d \in Seq(Lines)
      BY <1>2, <1>3, <3>1, CatType
    <3>6. Cat(d, r) = Cat(Cat(x, y), Cat(c, r))
      BY <1>3, <3>1, <3>5, CatAssociative
    <3>7. Cat(Cat(x, y), Cat(c, r)) = Cat(x, Cat(y, Cat(c, r)))
      BY <1>2, <1>3, <3>3, CatAssociative
    <3>8. Cat(y, Cat(c, r)) \in Seq(Lines) /\ Cat(x, Cat(y, Cat(c, r))) \in Seq(Lines)
      BY <1>2, <1>3, <3>3, CatType
    <3>9. s = Cat(x, Cat(y, Cat(c, r)))
      BY <3>2, <3>3, <3>4
    <3> QED
      BY <3>5, <3>6, <3>7, <3>8, <3>9
  <2> QED
    BY <2>1, <2>2
<1>7. RestRegisters(f, 0, r) = Cat(b, Cat(c, s))
  <2>1. Cat(c, s) = Before(Other, Before(Other, s))
    BY <1>6, TwoOthers DEF c
  <2> QED
    BY <1>5, <2>1 DEF RestRegisters, b
<1>8. \A q : Before(h, q) = Cat(a, q)
  BY DEF Before, Cat
<1> HIDE DEF a, d, s, x, h
<1>9. Cat(c, s) \in Seq(Lines) /\ Cat(b, Cat(c, s)) \in Seq(Lines)
  BY <1>2, <1>3, <1>6, CatType
<1>10. /\ Cat(a, b) \in Seq(Lines) /\ Cat(Cat(a, b), c) \in Seq(Lines)
       /\ Cat(Cat(Cat(a, b), c), d) \in Seq(Lines)
  BY <1>1, <1>2, <1>3, <1>6, CatType
<1>11. Cat(FrameLines(f), r) = Cat(Cat(Cat(a, b), c), s)
  BY <1>4, <1>6, <1>10, CatAssociative
<1>12. Cat(Cat(Cat(a, b), c), s) = Cat(Cat(a, b), Cat(c, s))
  BY <1>3, <1>6, <1>10, CatAssociative
<1>13. Cat(Cat(a, b), Cat(c, s)) = Cat(a, Cat(b, Cat(c, s)))
  BY <1>1, <1>2, <1>9, CatAssociative
<1>14. Cat(FrameLines(f), r) = Before(h, RestRegisters(f, 0, r))
  BY <1>7, <1>8, <1>11, <1>12, <1>13
<1> QED
  BY <1>1, <1>4, <1>6, <1>7, <1>9, <1>10, <1>14 DEF h, s

\* The frames of a thread behind the first j, and the threads behind the first i.
FramesText(t) == [k \in DOMAIN t.frames |-> FrameLines(t.frames[k])]

RestFrames(t, j, r) == Cat(FlattenSeq(From(FramesText(t), j)), Before(Other, r))

ThreadsText(source) == [k \in DOMAIN source |-> ThreadLines(source[k])]

RestThreads(source, i) == Cat(FlattenSeq(From(ThreadsText(source), i)), Before(Other, <<>>))

ThreadHead(t) == Line("thread", t.tid, t.crashed)
FrameHead(f) == Line("frame", f.num, f.func)

LEMMA NoLines == <<>> \in Seq(Lines)
  OBVIOUS

LEMMA RegistersStep ==
  ASSUME NEW f \in Frames, NEW k \in 0 .. RegisterCount(f.regs), NEW r \in Seq(Lines)
  PROVE  /\ RestRegisters(f, k, r) \in Seq(Lines)
         /\ k < RegisterCount(f.regs) =>
              /\ RegisterLines(f.regs)[k + 1] \in Lines
              /\ RestRegisters(f, k, r) = Before(RegisterLines(f.regs)[k + 1], RestRegisters(f, k + 1, r))
         /\ k = RegisterCount(f.regs) =>
              RestRegisters(f, k, r) = Before(Other, Before(Other, RestStack(f, r)))
<1> DEFINE b == RegisterLines(f.regs)
           s == RestStack(f, r)
           q == Before(Other, Before(Other, s))
<1>1. b \in Seq(Lines) /\ Len(b) = RegisterCount(f.regs)
  BY FrameType, RegistersShape
<1>2. s \in Seq(Lines)
  BY FrameText
<1> HIDE DEF b, s
<1>3. q \in Seq(Lines)
  BY <1>2, TwoOthers
<1>4. \A i : RestRegisters(f, i, r) = Cat(From(b, i), q)
  BY DEF RestRegisters, b, s
<1>5. k < Len(b) => b[k + 1] \in Lines
  BY <1>1
<1> HIDE DEF q
<1>6. /\ Cat(From(b, k), q) \in Seq(Lines)
      /\ k < Len(b) => Cat(From(b, k), q) = Before(b[k + 1], Cat(From(b, k + 1), q))
      /\ k = Len(b) => Cat(From(b, k), q) = q
  <2>1. b \in Seq(Lines) /\ k \in 0 .. Len(b) /\ q \in Seq(Lines)
    BY <1>1, <1>3
  <2>2. /\ Cat(From(b, k), q) \in Seq(Lines)
        /\ k < Len(b) => Cat(From(b, k), q) = Before(b[k + 1], Cat(From(b, k + 1), q))
        /\ k = Len(b) => Cat(From(b, k), q) = q
        /\ From(b, 0) = b
    BY <2>1, FromCat
  <2> QED
    BY <2>2
<1> QED
  BY <1>1, <1>4, <1>5, <1>6 DEF q, b, s

LEMMA RowsStep ==
  ASSUME NEW f \in Frames, NEW k \in 0 .. RowCount(f), NEW r \in Seq(Lines)
  PROVE  /\ RestRows(f, k, r) \in Seq(Lines)
         /\ k < RowCount(f) =>
              /\ Rows(f)[k + 1] \in Lines
              /\ RestRows(f, k, r) = Before(Rows(f)[k + 1], RestRows(f, k + 1, r))
         /\ k = RowCount(f) => RestRows(f, k, r) = Before(Other, Before(Other, r))
<1> DEFINE b == Rows(f)
           q == Before(Other, Before(Other, r))
<1>1. b \in Seq(Lines) /\ Len(b) = RowCount(f)
  BY RowsShape
<1>3. q \in Seq(Lines)
  BY TwoOthers
<1>4. \A i : RestRows(f, i, r) = Cat(From(b, i), q)
  BY DEF RestRows, b
<1> HIDE DEF b, q
<1>5. k < Len(b) => b[k + 1] \in Lines
  BY <1>1
<1>6. /\ Cat(From(b, k), q) \in Seq(Lines)
      /\ k < Len(b) => Cat(From(b, k), q) = Before(b[k + 1], Cat(From(b, k + 1), q))
      /\ k = Len(b) => Cat(From(b, k), q) = q
  BY <1>1, <1>3, FromCat, Z3T(40)
<1> QED
  BY <1>1, <1>4, <1>5, <1>6 DEF q, b

LEMMA FramesTextShape ==
  ASSUME NEW t \in SourceThreads
  PROVE  /\ t.frames \in Seq(Frames) /\ t.tid \in Nat /\ t.crashed \in BOOLEAN
         /\ FramesText(t) \in Seq(Seq(Lines)) /\ Len(FramesText(t)) = Len(t.frames)
         /\ \A k \in 1 .. Len(t.frames) :
              /\ t.frames[k] \in Frames
              /\ FramesText(t)[k] = FrameLines(t.frames[k]) /\ FrameLines(t.frames[k]) \in Seq(Lines)
<1> DEFINE s == t.frames
           F == FramesText(t)
<1>1. s \in Seq(Frames) /\ t.tid \in Nat /\ t.crashed \in BOOLEAN
  BY DEF SourceThreads
<1>2. F = [k \in DOMAIN s |-> FrameLines(s[k])]
  BY DEF FramesText
<1> HIDE DEF s, F
<1>3. DOMAIN s = 1 .. Len(s) /\ Len(s) \in Nat /\ \A k \in 1 .. Len(s) : s[k] \in Frames
  BY <1>1
<1>4. \A k \in 1 .. Len(s) : FrameLines(s[k]) \in Seq(Lines)
  BY <1>3, FrameText, NoLines
<1>5. F \in Seq(Seq(Lines)) /\ Len(F) = Len(s) /\ \A k \in 1 .. Len(s) : F[k] = FrameLines(s[k])
  BY <1>2, <1>3, <1>4
<1> QED
  BY <1>1, <1>3, <1>4, <1>5 DEF s, F

LEMMA FramesStep ==
  ASSUME NEW t \in SourceThreads, NEW j \in 0 .. Len(t.frames), NEW r \in Seq(Lines)
  PROVE  /\ RestFrames(t, j, r) \in Seq(Lines)
         /\ j < Len(t.frames) =>
              /\ FrameHead(t.frames[j + 1]) \in Lines
              /\ RestFrames(t, j, r) =
                   Before(FrameHead(t.frames[j + 1]), RestRegisters(t.frames[j + 1], 0, RestFrames(t, j + 1, r)))
         /\ j = Len(t.frames) => RestFrames(t, j, r) = Before(Other, r)
<1> DEFINE n == Len(t.frames)
           F == FramesText(t)
           q == Before(Other, r)
           f == t.frames[j + 1]
           more == RestFrames(t, j + 1, r)
<1>1. /\ n \in Nat /\ F \in Seq(Seq(Lines)) /\ Len(F) = n
      /\ \A k \in 1 .. n : t.frames[k] \in Frames /\ F[k] = FrameLines(t.frames[k])
  BY FramesTextShape
<1>2. q \in Seq(Lines)
  BY TwoOthers
<1>3. \A i : RestFrames(t, i, r) = Cat(FlattenSeq(From(F, i)), q)
  BY DEF RestFrames
<1> HIDE DEF F, q, n
<1>4. \A i \in 0 .. n : Cat(FlattenSeq(From(F, i)), q) \in Seq(Lines)
  BY <1>1, <1>2, FromFlat
<1>5. RestFrames(t, j, r) \in Seq(Lines)
  BY <1>3, <1>4 DEF n
<1>6. j = n => RestFrames(t, j, r) = q
  BY <1>1, <1>2, <1>3, FromFlat DEF n
<1>7. ASSUME j < n PROVE FrameHead(f) \in Lines /\ RestFrames(t, j, r) = Before(FrameHead(f), RestRegisters(f, 0, more))
  <2>1. j + 1 \in 0 .. n /\ j + 1 \in 1 .. n /\ j \in 0 .. n
    BY <1>1, <1>7 DEF n
  <2>2. more \in Seq(Lines) /\ f \in Frames /\ F[j + 1] = FrameLines(f)
    BY <1>1, <1>3, <1>4, <2>1
  <2>3. Cat(FlattenSeq(From(F, j)), q) = Cat(F[j + 1], Cat(FlattenSeq(From(F, j + 1)), q))
    <3>1. j \in 0 .. Len(F) /\ j < Len(F)
      BY <1>1, <1>7, <2>1
    <3>2. F \in Seq(Seq(Lines)) /\ q \in Seq(Lines)
      BY <1>1, <1>2, <1>3, <1>4
    <3> HIDE DEF more
    <3> QED
      BY <3>1, <3>2, FromFlat
  <2>4. RestFrames(t, j, r) = Cat(FrameLines(f), more)
    BY <1>3, <2>2, <2>3
  <2> HIDE DEF f, more
  <2> QED
    BY <2>2, <2>4, FrameText DEF FrameHead
<1> QED
  BY <1>5, <1>6, <1>7 DEF n, q

LEMMA ThreadText ==
  ASSUME NEW t \in SourceThreads, NEW r \in Seq(Lines)
  PROVE  /\ ThreadLines(t) \in Seq(Lines) /\ ThreadHead(t) \in Lines
         /\ RestFrames(t, 0, r) \in Seq(Lines)
         /\ Cat(ThreadLines(t), r) = Before(ThreadHead(t), RestFrames(t, 0, r))
<1> DEFINE h == ThreadHead(t)
           a == <<h>>
           F == FramesText(t)
           b == FlattenSeq(F)
           c == <<Other>>
<1>1. h \in Lines
  <2>1. t.crashed \in Contents /\ t.tid \in Nat
    BY FramesTextShape DEF Contents
  <2> QED
    BY <2>1 DEF Line, Lines, Kinds, ThreadHead
<1>2. F \in Seq(Seq(Lines)) /\ Len(F) = Len(t.frames)
  BY FramesTextShape
<1>3. ThreadLines(t) = Cat(Cat(a, b), c)
  BY DEF ThreadLines, ThreadHead, FramesText, Cat
<1> HIDE DEF h, F
<1>4. b \in Seq(Lines)
  BY <1>2, FlattenType
<1>5. a \in Seq(Lines) /\ c \in Seq(Lines)
  BY <1>1, OtherType
<1>6. From(F, 0) = F
  <2>1. 0 \in 0 .. Len(F)
    BY <1>2
  <2> QED
    BY <1>2, <2>1, FromCat, NoLines, FromProperties
<1>7. RestFrames(t, 0, r) = Cat(b, Cat(c, r))
  BY <1>6 DEF RestFrames, F, Before, Cat
<1>8. \A q : Before(h, q) = Cat(a, q)
  BY DEF Before, Cat
<1> HIDE DEF a, b, c
<1>9. /\ Cat(c, r) \in Seq(Lines) /\ Cat(b, Cat(c, r)) \in Seq(Lines) /\ Cat(a, b) \in Seq(Lines)
      /\ Cat(Cat(a, b), c) \in Seq(Lines)
  BY <1>4, <1>5, CatType
<1>10. Cat(Cat(Cat(a, b), c), r) = Cat(Cat(a, b), Cat(c, r))
  BY <1>5, <1>9, CatAssociative
<1>11. Cat(Cat(a, b), Cat(c, r)) = Cat(a, Cat(b, Cat(c, r)))
  BY <1>4, <1>5, <1>9, CatAssociative
<1> QED
  BY <1>1, <1>3, <1>7, <1>8, <1>9, <1>10, <1>11 DEF h

LEMMA SourceText ==
  ASSUME NEW source \in Seq(SourceThreads), NEW i \in 0 .. Len(source)
  PROVE  /\ RestThreads(source, i) \in Seq(Lines)
         /\ i < Len(source) =>
              /\ ThreadHead(source[i + 1]) \in Lines
              /\ RestThreads(source, i) =
                   Before(ThreadHead(source[i + 1]), RestFrames(source[i + 1], 0, RestThreads(source, i + 1)))
         /\ i = Len(source) => RestThreads(source, i) = Before(Other, <<>>)
         /\ Text(source) = Before(Other, RestThreads(source, 0))
<1> DEFINE n == Len(source)
           T == ThreadsText(source)
           q == Before(Other, <<>>)
           t == source[i + 1]
           more == RestThreads(source, i + 1)
<1>1. n \in Nat /\ DOMAIN source = 1 .. n /\ \A k \in 1 .. n : source[k] \in SourceThreads
  OBVIOUS
<1>2. \A k \in 1 .. n : ThreadLines(source[k]) \in Seq(Lines)
  BY <1>1, ThreadText, NoLines
<1>3. T \in Seq(Seq(Lines)) /\ Len(T) = n /\ \A k \in 1 .. n : T[k] = ThreadLines(source[k])
  BY <1>1, <1>2 DEF ThreadsText
<1>4. q \in Seq(Lines)
  BY TwoOthers, NoLines
<1>5. \A k : RestThreads(source, k) = Cat(FlattenSeq(From(T, k)), q)
  BY DEF RestThreads
<1>6. Text(source) = Cat(Cat(<<Other>>, FlattenSeq(T)), q)
  <2>1. q = <<Other>>
    BY DEF Before
  <2> HIDE DEF q
  <2> QED
    BY <2>1 DEF Text, ThreadsText, Cat
<1> HIDE DEF T, q, n
<1>7. \A k \in 0 .. n : Cat(FlattenSeq(From(T, k)), q) \in Seq(Lines)
  BY <1>3, <1>4, FromFlat
<1>8. RestThreads(source, i) \in Seq(Lines)
  BY <1>5, <1>7 DEF n
<1>9. i = n => RestThreads(source, i) = q
  BY <1>3, <1>4, <1>5, FromFlat DEF n
<1>10. ASSUME i < n PROVE ThreadHead(t) \in Lines /\ RestThreads(source, i) = Before(ThreadHead(t), RestFrames(t, 0, more))
  <2>1. i + 1 \in 0 .. n /\ i + 1 \in 1 .. n /\ i \in 0 .. n
    BY <1>1, <1>10 DEF n
  <2>2. more \in Seq(Lines) /\ t \in SourceThreads /\ T[i + 1] = ThreadLines(t)
    BY <1>1, <1>3, <1>5, <1>7, <2>1
  <2>3. Cat(FlattenSeq(From(T, i)), q) = Cat(T[i + 1], Cat(FlattenSeq(From(T, i + 1)), q))
    <3>1. i \in 0 .. Len(T) /\ i < Len(T)
      BY <1>3, <1>10, <2>1
    <3>2. T \in Seq(Seq(Lines)) /\ q \in Seq(Lines)
      BY <1>1, <1>2, <1>3, <1>4
    <3> HIDE DEF more
    <3> QED
      BY <3>1, <3>2, FromFlat
  <2>4. RestThreads(source, i) = Cat(ThreadLines(t), more)
    BY <1>5, <2>2, <2>3
  <2> HIDE DEF t, more
  <2> QED
    BY <2>2, <2>4, ThreadText
<1>11. Text(source) = Before(Other, RestThreads(source, 0))
  <2> DEFINE o == <<Other>>
             w == FlattenSeq(T)
  <2>1. 0 \in 0 .. Len(T)
    BY <1>1, <1>3
  <2>2. From(T, 0) = T
    BY <1>3, <2>1, FromProperties
  <2>3. o \in Seq(Lines) /\ w \in Seq(Lines)
    BY <1>3, OtherType, FlattenType
  <2>4. \A x : Before(Other, x) = Cat(o, x)
    BY DEF Before, Cat
  <2>5. RestThreads(source, 0) = Cat(w, q)
    BY <1>5, <2>2
  <2> HIDE DEF o, w
  <2>6. Cat(Cat(o, w), q) = Cat(o, Cat(w, q))
    BY <1>4, <2>3, CatAssociative
  <2>7. Text(source) = Cat(Cat(o, w), q)
    BY <1>6 DEF o, w
  <2> QED
    BY <2>4, <2>5, <2>6, <2>7
<1> QED
  BY <1>8, <1>9, <1>10, <1>11 DEF n, q

-----------------------------------------------------------------------------
(***************************************************************************)
(* The bytes of a row.                                                     *)
(***************************************************************************)
Words == Nat \cup {NotHex}

\* f keeps the first k of the words w: all of the first m, then some.
Keeps(f, w, m, k) ==
  /\ f \in Seq(Nat) /\ Len(f) <= k
  /\ Len(f) >= IF k <= m THEN k ELSE m
  /\ \A i \in 1 .. Len(f) : IF i <= m THEN f[i] = w[i] ELSE \E j \in (m + 1) .. Len(w) : f[i] = w[j]

LEMMA AppendCat ==
  ASSUME NEW S, NEW s \in Seq(S), NEW x \in S
  PROVE  Append(s, x) = s \o <<x>>
<1> DEFINE a == Append(s, x)
           o == <<x>>
           c == s \o o
<1>1. Len(s) \in Nat /\ o \in Seq(S) /\ Len(o) = 1 /\ o[1] = x
  OBVIOUS
<1>2. /\ a \in Seq(S) /\ Len(a) = Len(s) + 1 /\ a[Len(s) + 1] = x
      /\ \A i \in 1 .. Len(s) : a[i] = s[i]
  BY AppendProperties
<1>3. /\ c \in Seq(S) /\ Len(c) = Len(s) + 1
      /\ \A i \in 1 .. (Len(s) + 1) : c[i] = IF i <= Len(s) THEN s[i] ELSE o[i - Len(s)]
  <2> HIDE DEF o
  <2> QED
    BY <1>1, ConcatProperties
<1> HIDE DEF a, c, o
<1>4. \A i \in 1 .. Len(a) : a[i] = c[i]
  <2> TAKE i \in 1 .. Len(a)
  <2>1. CASE i <= Len(s)
    <3>1. i \in 1 .. Len(s) /\ i \in 1 .. (Len(s) + 1)
      BY <1>1, <1>2, <2>1
    <3> QED
      BY <1>2, <1>3, <2>1, <3>1
  <2>2. CASE ~(i <= Len(s))
    <3>1. i = Len(s) + 1 /\ i \in 1 .. (Len(s) + 1) /\ i - Len(s) = 1
      BY <1>1, <1>2, <2>2
    <3> QED
      BY <1>1, <1>2, <1>3, <2>2, <3>1
  <2> QED
    BY <2>1, <2>2
<1>5. a = c
  BY <1>2, <1>3, <1>4, SeqEqual
<1> QED
  BY <1>5 DEF a, c, o

LEMMA KeepsNext ==
  ASSUME NEW w \in Seq(Words), NEW m \in 0 .. Len(w), \A i \in 1 .. m : w[i] # NotHex,
         NEW k \in 1 .. Len(w), NEW f, Keeps(f, w, m, k - 1)
  PROVE  Keeps(f \o (IF w[k] = NotHex THEN <<>> ELSE <<w[k]>>), w, m, k)
<1>1. /\ f \in Seq(Nat) /\ Len(f) <= k - 1 /\ Len(f) \in Nat
      /\ Len(f) >= IF k - 1 <= m THEN k - 1 ELSE m
      /\ \A i \in 1 .. Len(f) : IF i <= m THEN f[i] = w[i] ELSE \E j \in (m + 1) .. Len(w) : f[i] = w[j]
  BY DEF Keeps
<1>2. w[k] \in Words /\ Len(w) \in Nat
  OBVIOUS
<1>3. CASE w[k] = NotHex
  <2>1. f \o <<>> = f
    BY <1>1
  <2>2. ~(k <= m)
    BY <1>3
  <2>3. Keeps(f, w, m, k)
    BY <1>1, <1>2, <2>2 DEF Keeps
  <2> QED
    BY <1>3, <2>1, <2>3
<1>4. CASE w[k] # NotHex
  <2> DEFINE g == Append(f, w[k])
  <2>1. w[k] \in Nat
    BY <1>2, <1>4 DEF Words
  <2>2. g = f \o <<w[k]>>
    <3> DEFINE y == w[k]
    <3>1. Append(f, y) = f \o <<y>>
      <4> HIDE DEF y
      <4> QED
        BY <1>1, <2>1, AppendCat DEF y
    <3> QED
      BY <3>1, Zenon
  <2>3. g \in Seq(Nat) /\ Len(g) = Len(f) + 1 /\ g[Len(f) + 1] = w[k] /\ \A i \in 1 .. Len(f) : g[i] = f[i]
    BY <1>1, <2>1
  <2> HIDE DEF g
  <2>4. ASSUME NEW i \in 1 .. Len(g)
        PROVE  IF i <= m THEN g[i] = w[i] ELSE \E j \in (m + 1) .. Len(w) : g[i] = w[j]
    <3>1. CASE i \in 1 .. Len(f)
      BY <1>1, <2>3, <3>1
    <3>2. CASE i \notin 1 .. Len(f)
      <4>1. i = Len(f) + 1 /\ g[i] = w[k]
        BY <1>1, <2>3, <3>2
      <4>2. CASE k <= m
        <5>1. i = k
          BY <1>1, <4>1, <4>2
        <5> QED
          BY <4>1, <4>2, <5>1
      <4>3. CASE ~(k <= m)
        <5>1. k \in (m + 1) .. Len(w) /\ ~(i <= m)
          BY <1>1, <1>2, <4>1, <4>3
        <5> QED
          BY <4>1, <5>1
      <4> QED
        BY <4>2, <4>3
    <3> QED
      BY <3>1, <3>2
  <2>5. Keeps(g, w, m, k)
    BY <1>1, <2>3, <2>4 DEF Keeps
  <2> QED
    BY <1>4, <2>2, <2>5
<1> QED
  BY <1>3, <1>4

LEMMA HexKeeps ==
  ASSUME NEW w \in Seq(Words), NEW m \in 0 .. Len(w), \A i \in 1 .. m : w[i] # NotHex
  PROVE  Keeps(Hex(w), w, m, Len(w))
<1> DEFINE n == Len(w)
           s == [k \in DOMAIN w |-> IF w[k] = NotHex THEN <<>> ELSE <<w[k]>>]
           back == [k \in 1 .. n |-> k - 1]
<1>1. n \in Nat /\ DOMAIN w = 1 .. n /\ \A k \in 1 .. n : w[k] \in Words
  OBVIOUS
<1>2. \A k \in 1 .. n : (IF w[k] = NotHex THEN <<>> ELSE <<w[k]>>) \in Seq(Nat)
  BY <1>1 DEF Words
<1>3. s \in Seq(Seq(Nat)) /\ Len(s) = n /\ \A k \in 1 .. n : s[k] = IF w[k] = NotHex THEN <<>> ELSE <<w[k]>>
  BY <1>1, <1>2
<1>4. Hex(w) = FlattenSeq(s)
  BY DEF Hex
<1> HIDE DEF s
<1>5. PICK f \in [0 .. n -> Seq(Nat)] : Sums(f, s)
  BY <1>3, SumsExist
<1>6. Hex(w) = f[n]
  BY <1>3, <1>4, <1>5, FlattenIs
<1> HIDE DEF n
<1> DEFINE Good == {k \in 0 .. n : Keeps(f[k], w, m, k)}
<1>7. 0 \in Good
  <2>1. f[0] = <<>> /\ 0 \in 0 .. n
    BY <1>1, <1>5 DEF Sums
  <2>2. Keeps(<<>>, w, m, 0)
    <3>1. <<>> \in Seq(Nat) /\ Len(<<>>) = 0
      OBVIOUS
    <3>2. IF 0 <= m THEN 0 >= 0 ELSE 0 >= m
      OBVIOUS
    <3> QED
      BY <3>1, <3>2 DEF Keeps
  <2> QED
    BY <2>1, <2>2
<1>8. ASSUME NEW k \in 1 .. n, back[k] \in Good PROVE k \in Good
  <2>1. back[k] = k - 1
    OBVIOUS
  <2>2. Keeps(f[k - 1], w, m, k - 1)
    BY <1>8, <2>1
  <2>3. f[k] = f[k - 1] \o (IF w[k] = NotHex THEN <<>> ELSE <<w[k]>>)
    BY <1>3, <1>5 DEF Sums
  <2>4. k \in 1 .. Len(w) /\ k \in 0 .. n
    BY <1>1 DEF n
  <2>5. Keeps(f[k], w, m, k)
    BY <2>2, <2>3, <2>4, KeepsNext
  <2> QED
    BY <2>4, <2>5
<1>9. \A k \in 1 .. n : back[k] \in 0 .. n /\ back[k] < k
  BY <1>1
<1> HIDE DEF Good, back
<1>10. \A k \in 0 .. n : k \in Good
  BY <1>1, <1>7, <1>8, <1>9, Along
<1>11. n \in Good
  BY <1>1, <1>10
<1> QED
  BY <1>6, <1>11 DEF Good, n

\* Where the k-th row of f begins and ends.
RowStart(k) == RowBytes * k
RowEnd(f, k) == IF k + 1 < RowCount(f) THEN RowStart(k) + RowBytes ELSE Len(f.stack)

LEMMA RowBounds ==
  ASSUME NEW f \in Frames, NEW k \in 0 .. (RowCount(f) - 1)
  PROVE  /\ RowStart(k) \in Nat /\ RowEnd(f, k) \in Nat /\ Len(f.stack) \in Nat
         /\ RowStart(k) < RowEnd(f, k) /\ RowEnd(f, k) <= Len(f.stack)
         /\ RowEnd(f, k) <= RowStart(k) + RowBytes
         /\ k + 1 < RowCount(f) => RowEnd(f, k) = RowStart(k + 1)
         /\ RowStart(k + 1) <= Len(f.stack) => RowEnd(f, k) = RowStart(k) + RowBytes
         /\ RowStart(k + 1) > Len(f.stack) => k + 1 = RowCount(f) /\ Len(f.stack) % RowBytes # 0
<1> DEFINE a == RowStart(k)
           b == RowStart(k + 1)
           n == Len(f.stack)
           c == RowCount(f)
<1>1. /\ RowBytes \in Nat /\ RowBytes > 0 /\ n \in Nat /\ c \in Nat
      /\ a \in Nat /\ a < n /\ b = a + RowBytes
      /\ k + 1 < c => b < n
      /\ RowBytes * c < n + RowBytes /\ n <= RowBytes * c
  <2>1. k \in Nat
    OBVIOUS
  <2>2. RowCount(f) \in Nat
    BY RowCountNat
  <2>3. k + 1 < RowCount(f) => k \in 0 .. (RowCount(f) - 2)
    BY <2>1, <2>2
  <2> QED
    BY <2>1, <2>3, RowBytesNat, RowCountNat DEF RowStart
<1>2. k + 1 = c \/ k + 1 < c
  BY <1>1
<1>3. k + 1 = c => b = RowBytes * c
  BY DEF RowStart
<1>4. b > n => n % RowBytes # 0
  <2> SUFFICES ASSUME b > n, n % RowBytes = 0 PROVE FALSE
    OBVIOUS
  <2> DEFINE q == n \div RowBytes
  <2> HIDE DEF n
  <2>1. q \in Nat /\ n = RowBytes * q
    BY <1>1
  <2> HIDE DEF q
  <2>2. CASE q <= k
    <3>1. PICK d \in Nat : k = q + d
      <4>1. k - q \in Nat /\ k = q + (k - q)
        BY <2>1, <2>2
      <4> QED
        BY <4>1
    <3>2. RowBytes * k = RowBytes * q + RowBytes * d /\ RowBytes * d \in Nat
      BY <1>1, <2>1, <3>1
    <3> QED
      BY <1>1, <2>1, <3>2 DEF RowStart
  <2>3. CASE ~(q <= k)
    <3>1. PICK d \in Nat : q = (k + 1) + d
      <4>1. q - (k + 1) \in Nat /\ q = (k + 1) + (q - (k + 1))
        BY <2>1, <2>3
      <4> QED
        BY <4>1
    <3>2. RowBytes * q = RowBytes * (k + 1) + RowBytes * d /\ RowBytes * d \in Nat
      BY <1>1, <2>1, <3>1
    <3> QED
      BY <1>1, <2>1, <3>2 DEF RowStart
  <2> QED
    BY <2>2, <2>3
<1> HIDE DEF a, b, n, c
<1>5. RowEnd(f, k) = IF k + 1 < c THEN a + RowBytes ELSE n
  BY DEF RowEnd, a, n, c
<1>6. b = n => k + 1 = c
  BY <1>1, <1>2
<1>7. /\ RowEnd(f, k) \in Nat /\ a < RowEnd(f, k) /\ RowEnd(f, k) <= n /\ RowEnd(f, k) <= a + RowBytes
      /\ k + 1 < c => RowEnd(f, k) = b
      /\ b <= n => RowEnd(f, k) = a + RowBytes
      /\ b > n => k + 1 = c
  <2>1. CASE k + 1 < c
    BY <1>1, <1>5, <2>1
  <2>2. CASE k + 1 = c
    <3>1. RowEnd(f, k) = n /\ n <= b
      BY <1>1, <1>3, <1>5, <2>2
    <3> QED
      BY <1>1, <2>2, <3>1
  <2> QED
    BY <1>2, <2>1, <2>2
<1> QED
  BY <1>1, <1>4, <1>7 DEF a, b, n, c

LEMMA ByteWord ==
  ASSUME NEW x \in 0 .. 255
  PROVE  x \in Words /\ x # NotHex /\ x \in Nat
  BY DEF Words, NotHex

RowLine(f, k) == Rows(f)[k + 1]

\* What the convertor takes from a row: its bytes, in their order, and behind
\* those of a short row some of the words of its characters.
LEMMA RowRead ==
  ASSUME NEW f \in Frames, NEW k \in 0 .. (RowCount(f) - 1)
  PROVE  LET b == Hex(RowWords(RowLine(f, k)))
             d == RowEnd(f, k) - RowStart(k) IN
         /\ RowLine(f, k).kind = "row" /\ RowLine(f, k).value = f.base + RowStart(k)
         /\ b \in Seq(Nat) /\ Len(b) >= d /\ Len(b) <= RowBytes
         /\ k + 1 < RowCount(f) => Len(b) = d
         /\ \A i \in 1 .. d : b[i] = f.stack[RowStart(k) + i]
         /\ \A i \in (d + 1) .. Len(b) : b[i] \in MoreWords(f)
<1> DEFINE stack == f.stack
           tail == f.tail
           n == Len(stack)
           a == RowStart(k)
           e == RowEnd(f, k)
           d == e - a
           u == SubSeq(stack, a + 1, e)
           full == RowStart(k + 1) <= n
           v == IF full THEN <<>> ELSE tail
           more == u \o v
           z == IF Len(more) < RowBytes THEN Len(more) ELSE RowBytes
           w == SubSeq(more, 1, z)
           b == Hex(w)
<1>1. /\ a \in Nat /\ e \in Nat /\ n \in Nat /\ RowBytes \in Nat
      /\ a < e /\ e <= n /\ e <= a + RowBytes
      /\ k + 1 < RowCount(f) => e = RowStart(k + 1)
      /\ full => e = a + RowBytes
      /\ ~full => k + 1 = RowCount(f) /\ n % RowBytes # 0
  <2>1. RowStart(k + 1) \in Nat
    BY RowBytesNat DEF RowStart
  <2>2. ~full => RowStart(k + 1) > n
    BY <2>1, RowBounds
  <2> HIDE DEF full
  <2>3. full => RowStart(k + 1) <= n
    BY DEF full
  <2> QED
    BY <2>2, <2>3, RowBounds, RowBytesNat
<1>2. RowLine(f, k) = Line("row", f.base + a, more)
  <2>1. RowLine(f, k) = Line("row", f.base + RowBytes * k,
                     SubSeq(f.stack, RowBytes * k + 1,
                            IF k + 1 < RowCount(f) THEN RowBytes * k + RowBytes ELSE Len(f.stack))
                       \o (IF RowBytes * (k + 1) <= Len(f.stack) THEN <<>> ELSE f.tail))
    BY RowsShape DEF RowLine
  <2> QED
    BY <2>1 DEF RowStart, RowEnd
<1>3. RowLine(f, k).kind = "row" /\ RowLine(f, k).value = f.base + a /\ RowLine(f, k).more = more
  <2> HIDE DEF more, a
  <2> QED
    BY <1>2 DEF Line
<1>4. RowWords(RowLine(f, k)) = w
  <2> HIDE DEF more
  <2> QED
    BY <1>3 DEF RowWords
<1>5. stack \in Seq(0 .. 255) /\ tail \in Seq(Words)
  BY FrameType DEF Words
<1> HIDE DEF stack, tail, n, a, e, full
<1>6. /\ u \in Seq(0 .. 255) /\ Len(u) = d /\ d \in Nat
      /\ \A i \in 1 .. d : u[i] = stack[a + i]
  <2>1. \A i \in (a + 1) .. e : stack[i] \in 0 .. 255
    <3> SUFFICES ASSUME NEW i \in (a + 1) .. e PROVE stack[i] \in 0 .. 255
      OBVIOUS
    <3>1. i \in 1 .. Len(stack)
      BY <1>1 DEF n
    <3> QED
      BY <1>5, <3>1, ElementOfSeq
  <2>2. /\ SubSeq(stack, a + 1, e) \in Seq(0 .. 255)
        /\ Len(SubSeq(stack, a + 1, e)) = IF a + 1 <= e THEN e - (a + 1) + 1 ELSE 0
        /\ \A i \in 1 .. (e - (a + 1) + 1) : SubSeq(stack, a + 1, e)[i] = stack[(a + 1) + i - 1]
    BY <1>1, <2>1, SubSeqProperties
  <2>3. Len(u) = d /\ d \in Nat
    BY <1>1, <2>2
  <2>4. ASSUME NEW i \in 1 .. d PROVE u[i] = stack[a + i]
    <3>1. i \in 1 .. (e - (a + 1) + 1) /\ (a + 1) + i - 1 = a + i
      BY <1>1
    <3> QED
      BY <2>2, <3>1
  <2> QED
    BY <2>2, <2>3, <2>4
<1>7. v \in Seq(Words)
  BY <1>5
<1>8. u \in Seq(Words)
  <2> HIDE DEF u
  <2>1. \A i \in 1 .. Len(u) : u[i] \in Words
    <3> SUFFICES ASSUME NEW i \in 1 .. Len(u) PROVE u[i] \in Words
      OBVIOUS
    <3>1. u[i] \in 0 .. 255
      BY <1>6, ElementOfSeq
    <3> QED
      BY <3>1, ByteWord
  <2> QED
    BY <1>6, <2>1
<1> HIDE DEF d, u, v
<1>9. /\ more \in Seq(Words) /\ Len(more) = Len(u) + Len(v) /\ Len(v) \in Nat
      /\ \A i \in 1 .. d : more[i] = u[i]
      /\ \A i \in (d + 1) .. Len(more) : more[i] = v[i - d] /\ i - d \in 1 .. Len(v)
  <2>1. u \in Seq(Words) /\ v \in Seq(Words) /\ Len(u) = d /\ d \in Nat
    BY <1>6, <1>7, <1>8
  <2>2. /\ u \o v \in Seq(Words) /\ Len(u \o v) = Len(u) + Len(v)
        /\ \A i \in 1 .. (Len(u) + Len(v)) : (u \o v)[i] = IF i <= Len(u) THEN u[i] ELSE v[i - Len(u)]
    BY <2>1, ConcatProperties
  <2>3. Len(v) \in Nat
    BY <2>1
  <2> HIDE DEF u, v, d
  <2>4. \A i \in 1 .. d : i \in 1 .. (Len(u) + Len(v)) /\ i <= Len(u)
    BY <2>1, <2>3
  <2>5. \A i \in (d + 1) .. (Len(u) + Len(v)) :
          i \in 1 .. (Len(u) + Len(v)) /\ ~(i <= Len(u)) /\ i - d = i - Len(u) /\ i - d \in 1 .. Len(v)
    BY <2>1, <2>3
  <2> DEFINE c == u \o v
  <2>6. /\ c \in Seq(Words) /\ Len(c) = Len(u) + Len(v)
        /\ \A i \in 1 .. (Len(u) + Len(v)) : c[i] = IF i <= Len(u) THEN u[i] ELSE v[i - Len(u)]
    BY <2>2
  <2>7. more = c
    OBVIOUS
  <2> HIDE DEF c, more
  <2> QED
    BY <2>3, <2>4, <2>5, <2>6, <2>7
<1> HIDE DEF more
<1>10. /\ w \in Seq(Words) /\ Len(w) = z /\ z \in Nat /\ z <= RowBytes /\ z <= Len(more) /\ d <= z
       /\ \A i \in 1 .. z : w[i] = more[i]
  <2>1. z \in Nat /\ z <= RowBytes /\ z <= Len(more) /\ d <= z
    BY <1>1, <1>6, <1>9 DEF d
  <2> HIDE DEF z
  <2>2. \A i \in 1 .. z : more[i] \in Words
    BY <1>9, <2>1
  <2>3. /\ SubSeq(more, 1, z) \in Seq(Words)
        /\ Len(SubSeq(more, 1, z)) = IF 1 <= z THEN z - 1 + 1 ELSE 0
        /\ \A i \in 1 .. (z - 1 + 1) : SubSeq(more, 1, z)[i] = more[1 + i - 1]
    BY <1>9, <2>1, <2>2, SubSeqProperties
  <2>4. Len(w) = z
    BY <2>1, <2>3
  <2>5. ASSUME NEW i \in 1 .. z PROVE w[i] = more[i]
    <3>1. i \in 1 .. (z - 1 + 1) /\ 1 + i - 1 = i
      BY <2>1
    <3> QED
      BY <2>3, <3>1
  <2> QED
    BY <2>1, <2>3, <2>4, <2>5
<1>11. full => Len(v) = 0 /\ z = d
  <2> HAVE full
  <2>1. v = <<>>
    BY DEF v
  <2> QED
    BY <1>6, <1>9, <1>10, <2>1
<1> HIDE DEF z, w
<1>12. \A i \in 1 .. d : w[i] # NotHex
  <2> SUFFICES ASSUME NEW i \in 1 .. d PROVE w[i] # NotHex
    OBVIOUS
  <2>1. w[i] = u[i] /\ i \in 1 .. Len(u)
    BY <1>6, <1>9, <1>10
  <2>2. u[i] \in 0 .. 255
    BY <1>6, <2>1, ElementOfSeq
  <2> QED
    BY <2>1, <2>2, ByteWord
<1>13. Keeps(b, w, d, Len(w))
  BY <1>6, <1>10, <1>12, HexKeeps
<1> HIDE DEF b
<1>14. /\ b \in Seq(Nat) /\ Len(b) \in Nat /\ Len(b) <= z /\ Len(b) >= d
       /\ \A i \in 1 .. Len(b) : IF i <= d THEN b[i] = w[i] ELSE \E j \in (d + 1) .. z : b[i] = w[j]
  BY <1>6, <1>10, <1>13 DEF Keeps
<1>15. \A i \in 1 .. d : b[i] = stack[a + i]
  BY <1>6, <1>9, <1>10, <1>14
<1>16. ASSUME NEW i \in (d + 1) .. Len(b) PROVE b[i] \in MoreWords(f)
  <2>1. PICK j \in (d + 1) .. z : b[i] = w[j]
    BY <1>6, <1>14
  <2>2. ~full
    BY <1>6, <1>10, <1>11, <2>1
  <2>3. v = tail /\ n % RowBytes # 0
    BY <1>1, <2>2 DEF v
  <2>4. w[j] = v[j - d] /\ j - d \in 1 .. Len(v)
    BY <1>6, <1>9, <1>10
  <2>5. b[i] \in ToSet(tail)
    BY <1>7, <2>1, <2>3, <2>4 DEF ToSet
  <2> QED
    BY <2>3, <2>5 DEF MoreWords, n, stack, tail
<1>17. k + 1 < RowCount(f) => Len(b) = d
  <2> HAVE k + 1 < RowCount(f)
  <2>1. RowCount(f) \in Nat
    BY RowCountNat
  <2>2. full
    BY <1>1, <2>1
  <2> QED
    BY <1>6, <1>11, <1>14, <2>2
<1>18. Len(b) <= RowBytes
  BY <1>1, <1>10, <1>14
<1>19. Hex(RowWords(RowLine(f, k))) = b
  BY <1>4 DEF b
<1>20. e - a = d
  BY DEF d
<1>21. RowEnd(f, k) - RowStart(k) = d /\ RowStart(k) = a
  BY DEF d, e, a
<1> QED
  BY <1>3, <1>14, <1>15, <1>16, <1>17, <1>18, <1>19, <1>21 DEF stack

-----------------------------------------------------------------------------
(***************************************************************************)
(* Sequences of threads, whose last frame changes.                         *)
(***************************************************************************)
ParsedFrames == [num: Nat, func: Seq(STRING), regs: Seq(Nat), base: Nat, stack: Seq(0 .. 255)]
ParsedThreads == [tid: Nat, crashed: BOOLEAN, frames: Seq(ParsedFrames)]

\* The members of T are threads with frames of F.
HasFrames(T, F) ==
  \A t \in T : /\ t.frames \in Seq(F)
               /\ \A fs \in Seq(F) : [t EXCEPT !.frames = fs] \in T /\ [t EXCEPT !.frames = fs].frames = fs

\* us is ts but for the frames of the last thread.
FramesBecome(ts, us, fs) ==
  /\ Len(us) = Len(ts)
  /\ \A k \in 1 .. (Len(ts) - 1) : us[k] = ts[k]
  /\ us[Len(ts)] = [ts[Len(ts)] EXCEPT !.frames = fs]
  /\ us[Len(ts)].frames = fs

\* gs is fs but for the last frame.
LastBecomes(fs, gs, q) ==
  /\ Len(gs) = Len(fs)
  /\ \A k \in 1 .. (Len(fs) - 1) : gs[k] = fs[k]
  /\ gs[Len(fs)] = q

LEMMA ParsedHasFrames == HasFrames(ParsedThreads, ParsedFrames)
<1> SUFFICES ASSUME NEW t \in ParsedThreads
             PROVE  /\ t.frames \in Seq(ParsedFrames)
                    /\ \A fs \in Seq(ParsedFrames) :
                         [t EXCEPT !.frames = fs] \in ParsedThreads /\ [t EXCEPT !.frames = fs].frames = fs
  BY DEF HasFrames
<1> DEFINE S == Seq(ParsedFrames)
<1> HIDE DEF S
<1>1. t \in [tid: Nat, crashed: BOOLEAN, frames: S]
  BY DEF ParsedThreads, S
<1>2. \A fs \in S : [t EXCEPT !.frames = fs] \in [tid: Nat, crashed: BOOLEAN, frames: S]
                      /\ [t EXCEPT !.frames = fs].frames = fs
  BY <1>1
<1> QED
  BY <1>1, <1>2 DEF ParsedThreads, S

LEMMA SetLast ==
  ASSUME NEW F, NEW fs \in Seq(F), Len(fs) > 0, NEW q \in F
  PROVE  LET gs == [fs EXCEPT ![Len(fs)] = q] IN gs \in Seq(F) /\ LastBecomes(fs, gs, q)
<1> DEFINE gs == [fs EXCEPT ![Len(fs)] = q]
<1>1. gs \in Seq(F) /\ Len(gs) = Len(fs) /\ \A k \in 1 .. Len(fs) : gs[k] = IF k = Len(fs) THEN q ELSE fs[k]
  OBVIOUS
<1> HIDE DEF gs
<1>2. LastBecomes(fs, gs, q)
  BY <1>1 DEF LastBecomes
<1> QED
  BY <1>1, <1>2 DEF gs

LEMMA SetFrames ==
  ASSUME NEW T, NEW F, HasFrames(T, F), NEW ts \in Seq(T), Len(ts) > 0, NEW fs \in Seq(F)
  PROVE  LET us == [ts EXCEPT ![Len(ts)] = [ts[Len(ts)] EXCEPT !.frames = fs]] IN
         us \in Seq(T) /\ FramesBecome(ts, us, fs)
<1> DEFINE t == ts[Len(ts)]
           u == [t EXCEPT !.frames = fs]
           us == [ts EXCEPT ![Len(ts)] = u]
<1>1. t \in T
  OBVIOUS
<1>2. u \in T /\ u.frames = fs
  BY <1>1 DEF HasFrames
<1>3. u = [ts[Len(ts)] EXCEPT !.frames = fs]
  OBVIOUS
<1> HIDE DEF u
<1>4. us \in Seq(T) /\ Len(us) = Len(ts) /\ \A k \in 1 .. Len(ts) : us[k] = IF k = Len(ts) THEN u ELSE ts[k]
  BY <1>2
<1> HIDE DEF us
<1>5. FramesBecome(ts, us, fs)
  <2>1. Len(ts) \in 1 .. Len(ts) /\ \A k \in 1 .. (Len(ts) - 1) : k \in 1 .. Len(ts) /\ k # Len(ts)
    OBVIOUS
  <2>2. us[Len(ts)] = u
    BY <1>4, <2>1
  <2>3. us[Len(ts)].frames = fs
    BY <1>2, <2>2
  <2>4. us[Len(ts)] = [ts[Len(ts)] EXCEPT !.frames = fs]
    BY <1>3, <2>2, Zenon
  <2>5. \A k \in 1 .. (Len(ts) - 1) : us[k] = ts[k]
    BY <1>4, <2>1
  <2> QED
    BY <1>4, <2>3, <2>4, <2>5, Zenon DEF FramesBecome
<1>6. us = [ts EXCEPT ![Len(ts)] = [ts[Len(ts)] EXCEPT !.frames = fs]]
  BY DEF us, u
<1> QED
  BY <1>4, <1>5, <1>6

LEMMA SetFrame ==
  ASSUME NEW T, NEW F, HasFrames(T, F), NEW ts \in Seq(T), Len(ts) > 0,
         Len(ts[Len(ts)].frames) > 0, NEW q \in F
  PROVE  LET fs == ts[Len(ts)].frames
             gs == [fs EXCEPT ![Len(fs)] = q]
             us == [ts EXCEPT ![Len(ts)].frames[Len(ts[Len(ts)].frames)] = q] IN
         /\ us \in Seq(T) /\ FramesBecome(ts, us, gs)
         /\ gs \in Seq(F) /\ LastBecomes(fs, gs, q)
<1> DEFINE fs == ts[Len(ts)].frames
           gs == [fs EXCEPT ![Len(fs)] = q]
           us == [ts EXCEPT ![Len(ts)].frames[Len(ts[Len(ts)].frames)] = q]
<1>1. fs \in Seq(F)
  <2>1. ts[Len(ts)] \in T
    OBVIOUS
  <2> QED
    BY <2>1 DEF HasFrames
<1>2. us = [ts EXCEPT ![Len(ts)] = [ts[Len(ts)] EXCEPT !.frames = gs]]
  OBVIOUS
<1>3. gs \in Seq(F) /\ LastBecomes(fs, gs, q)
  <2> HIDE DEF fs
  <2>1. Len(fs) > 0
    BY DEF fs
  <2> QED
    BY <1>1, <2>1, SetLast
<1> HIDE DEF gs, us
<1>4. us \in Seq(T) /\ FramesBecome(ts, us, gs)
  BY <1>2, <1>3, SetFrames
<1> QED
  BY <1>3, <1>4 DEF gs, us, fs

-----------------------------------------------------------------------------
(***************************************************************************)
(* The convertor: where it is in the text, and what it has of it.          *)
(***************************************************************************)
ParseLine == \/ ThreadLine \/ FrameLine \/ ContentsLine \/ SkippedLine \/ RegisterLine
             \/ EndOfRegisters \/ StackRow \/ EndOfStack

Moves == text' = Tail(text) /\ UNCHANGED <<scene, stage, refused, file, cut, reading>>

\* What a step does with the line it finds.
LEMMA ParseStep ==
  ASSUME ParseLine
  PROVE  /\ stage = "parse" /\ ~refused /\ text # <<>>
         /\ This.kind = "other" =>
              Moves /\ UNCHANGED threads /\ block' = IF block = "Info" THEN "Info" ELSE "Thread"
         /\ This.kind = "thread" =>
              /\ Moves /\ block' = "Thread"
              /\ threads' = Append(threads, [tid |-> This.value, crashed |-> This.more, frames |-> <<>>])
         /\ This.kind = "frame" /\ block = "Thread" =>
              /\ Moves /\ block' = "Register"
              /\ threads' = [threads EXCEPT ![LastThread].frames =
                               Append(@, [num |-> This.value, func |-> This.more, regs |-> <<>>,
                                          base |-> 0, stack |-> <<>>])]
         /\ This.kind = "contents" /\ block = "Thread" => Moves /\ block' = "Stack" /\ UNCHANGED threads
         /\ This.kind = "registers" /\ block = "Register" =>
              /\ Moves /\ block' = "Register"
              /\ threads' = [threads EXCEPT ![LastThread].frames[LastFrame].regs = @ \o This.more]
         /\ This.kind = "row" /\ block = "Stack" => StackRow
<1> DEFINE kind == This.kind
<1> USE DEF AtLine, Take, Rest, Moves, parsing
<1>1. CASE ThreadLine
  <2>1. kind = "thread"
    BY <1>1 DEF ThreadLine
  <2> QED
    BY <1>1, <2>1 DEF ThreadLine
<1>2. CASE FrameLine
  <2>1. kind = "frame"
    BY <1>2 DEF FrameLine
  <2> QED
    BY <1>2, <2>1 DEF FrameLine
<1>3. CASE ContentsLine
  <2>1. kind = "contents"
    BY <1>3 DEF ContentsLine
  <2> QED
    BY <1>3, <2>1 DEF ContentsLine
<1>4. CASE SkippedLine
  <2>1. \/ kind \in {"frame", "registers", "contents", "row", "other"} /\ block = "Info"
        \/ kind \in {"registers", "row", "other"} /\ block = "Thread"
    BY <1>4 DEF SkippedLine
  <2> QED
    BY <1>4, <2>1 DEF SkippedLine
<1>5. CASE RegisterLine
  <2>1. kind = "registers" /\ block = "Register"
    BY <1>5 DEF RegisterLine
  <2> QED
    BY <1>5, <2>1 DEF RegisterLine
<1>6. CASE EndOfRegisters
  <2>1. kind \in {"frame", "contents", "row", "other"} /\ block = "Register"
    BY <1>6 DEF EndOfRegisters
  <2> QED
    BY <1>6, <2>1 DEF EndOfRegisters
<1>7. CASE StackRow
  <2>1. kind = "row" /\ stage = "parse" /\ ~refused /\ text # <<>>
    BY <1>7 DEF StackRow
  <2> QED
    BY <1>7, <2>1
<1>8. CASE EndOfStack
  <2>1. kind \in {"registers", "contents", "other"} /\ block = "Stack"
    BY <1>8 DEF EndOfStack
  <2> QED
    BY <1>8, <2>1 DEF EndOfStack
<1> QED
  BY <1>1, <1>2, <1>3, <1>4, <1>5, <1>6, <1>7, <1>8 DEF ParseLine

\* What StackRow does, with the two fields it changes taken together.
LEMMA RowStep ==
  ASSUME StackRow
  PROVE  LET bytes == Hex(RowWords(This)) IN
         IF \E b \in ToSet(bytes) : b > 255
         THEN /\ refused' = TRUE /\ stage' = "written" /\ UNCHANGED <<scene, text, block, threads, file, cut, reading>>
         ELSE /\ Moves /\ block' = "Stack"
              /\ threads' = [[threads EXCEPT
                   ![LastThread].frames[LastFrame].base =
                      IF @ = 0 THEN This.value ELSE @] EXCEPT
                   ![LastThread].frames[LastFrame].stack = @ \o bytes]
  BY DEF StackRow, Take, Moves, parsing

-----------------------------------------------------------------------------
ThreadSame(t, s) == t.tid = s.tid /\ t.crashed = s.crashed

\* The stack of the parsed frame p after k rows of f.
Shown(p, f, k) ==
  LET n == IF k < RowCount(f) THEN RowStart(k) ELSE Len(f.stack) IN
  /\ p.base = IF k = 0 THEN 0 ELSE f.base
  /\ Len(p.stack) >= n /\ Len(p.stack) < Len(f.stack) + RowBytes
  /\ k < RowCount(f) => Len(p.stack) = n
  /\ \A i \in 1 .. n : p.stack[i] = f.stack[i]
  /\ \A i \in (n + 1) .. Len(p.stack) : p.stack[i] \in MoreWords(f)

NameShown(p, f) == p.num = f.num /\ p.func = f.func

\* The registers after k lines of them.
RegistersShown(p, f, k) ==
  /\ Len(p.regs) = Upto(Len(f.regs), k)
  /\ \A i \in 1 .. Upto(Len(f.regs), k) : p.regs[i] = f.regs[i]

NoStackYet(p) == p.base = 0 /\ p.stack = <<>>

Whole(p, f) ==
  /\ NameShown(p, f) /\ p.regs = f.regs
  /\ IF f.stack = <<>> THEN p.stack = <<>> /\ p.base = 0 ELSE Shown(p, f, RowCount(f))

FramesShown(ps, fs, m) == \A k \in 1 .. m : Whole(ps[k], fs[k])

ThreadDone(t, s) ==
  ThreadSame(t, s) /\ Len(t.frames) = Len(s.frames) /\ FramesShown(t.frames, s.frames, Len(s.frames))

AllDone(ts, source) == Len(ts) <= Len(source) /\ \A k \in 1 .. Len(ts) : ThreadDone(ts[k], source[k])

\* The last thread is not complete; m frames of it are.
OpenThread(ts, source, m) ==
  LET n == Len(ts) IN
  /\ n > 0 /\ n <= Len(source)
  /\ \A k \in 1 .. (n - 1) : ThreadDone(ts[k], source[k])
  /\ ThreadSame(ts[n], source[n])
  /\ m <= Len(ts[n].frames) /\ Len(ts[n].frames) <= Len(source[n].frames)
  /\ FramesShown(ts[n].frames, source[n].frames, m)

FrameCount(ts) == Len(ts[Len(ts)].frames)

\* The last frame, and that of the source it is parsed from.
Current(ts) == ts[Len(ts)].frames[FrameCount(ts)]
CurrentSource(ts, source) == source[Len(ts)].frames[FrameCount(ts)]

\* The text behind the frame.
TextBehind(ts, source) == RestFrames(source[Len(ts)], FrameCount(ts), RestThreads(source, Len(ts)))

InFrame(ts, source) ==
  /\ FrameCount(ts) > 0 /\ OpenThread(ts, source, FrameCount(ts) - 1)
  /\ NameShown(Current(ts), CurrentSource(ts, source))

AtStart(x, b, ts, source) == ts = <<>> /\ b = "Info" /\ x = Before(Other, RestThreads(source, 0))

AtThread(x, b, ts, source) ==
  AllDone(ts, source) /\ b \in {"Info", "Thread"} /\ x = RestThreads(source, Len(ts))

AtEnd(x, ts, source) == AllDone(ts, source) /\ Len(ts) = Len(source) /\ x = <<>>

AtFrame(x, b, ts, source) ==
  /\ Len(ts) > 0 /\ OpenThread(ts, source, FrameCount(ts)) /\ b = "Thread"
  /\ x = TextBehind(ts, source) \/ x = Before(Other, TextBehind(ts, source))

AtRegisters(x, b, ts, source, k) ==
  /\ Len(ts) > 0 /\ InFrame(ts, source) /\ b = "Register"
  /\ k \in 0 .. RegisterCount(CurrentSource(ts, source).regs)
  /\ RegistersShown(Current(ts), CurrentSource(ts, source), k) /\ NoStackYet(Current(ts))
  /\ x = RestRegisters(CurrentSource(ts, source), k, TextBehind(ts, source))

AtStack(x, b, ts, source) ==
  LET stack == RestStack(CurrentSource(ts, source), TextBehind(ts, source)) IN
  /\ Len(ts) > 0 /\ InFrame(ts, source) /\ b = "Thread"
  /\ Current(ts).regs = CurrentSource(ts, source).regs /\ NoStackYet(Current(ts))
  /\ CurrentSource(ts, source).stack # <<>>
  /\ x = stack \/ x = Before(Other, stack)

AtRows(x, b, ts, source, k) ==
  /\ Len(ts) > 0 /\ InFrame(ts, source) /\ b = "Stack"
  /\ Current(ts).regs = CurrentSource(ts, source).regs
  /\ CurrentSource(ts, source).stack # <<>>
  /\ k \in 0 .. RowCount(CurrentSource(ts, source)) /\ Shown(Current(ts), CurrentSource(ts, source), k)
  /\ x = RestRows(CurrentSource(ts, source), k, TextBehind(ts, source))

ParsingText(x, b, ts, source) ==
  \/ AtStart(x, b, ts, source) \/ AtThread(x, b, ts, source) \/ AtEnd(x, ts, source)
  \/ AtFrame(x, b, ts, source) \/ AtStack(x, b, ts, source)
  \/ \E k \in Nat : AtRegisters(x, b, ts, source, k) \/ AtRows(x, b, ts, source, k)

Goes(source) == Moves /\ threads' \in Seq(ParsedThreads) /\ ParsingText(text', block', threads', source)

LEMMA OtherKind == Other.kind = "other"
  BY DEF Other, Line

\* A line in front of the text is the one that is parsed.
LEMMA FirstLine ==
  ASSUME NEW x \in Lines, NEW r \in Seq(Lines), text = Before(x, r)
  PROVE  This = x /\ Tail(text) = r /\ text # <<>>
  BY ConsType DEF This

LEMMA SourceElement ==
  ASSUME NEW source \in Seq(SourceThreads), NEW i \in 1 .. Len(source)
  PROVE  source[i] \in SourceThreads /\ source[i].frames \in Seq(Frames)
         /\ Len(source[i].frames) \in Nat /\ \A j \in 1 .. Len(source[i].frames) : source[i].frames[j] \in Frames
<1>1. source[i] \in SourceThreads
  OBVIOUS
<1>2. source[i].frames \in Seq(Frames)
  BY <1>1 DEF SourceThreads
<1> DEFINE s == source[i].frames
<1> HIDE DEF s
<1>3. s \in Seq(Frames) => Len(s) \in Nat /\ \A j \in 1 .. Len(s) : s[j] \in Frames
  OBVIOUS
<1> QED
  BY <1>1, <1>2, <1>3 DEF s

LEMMA StartStep ==
  ASSUME NEW source \in Seq(SourceThreads), threads \in Seq(ParsedThreads),
         ParseLine, AtStart(text, block, threads, source)
  PROVE  Goes(source)
<1>1. text = Before(Other, RestThreads(source, 0)) /\ threads = <<>> /\ block = "Info"
  BY DEF AtStart
<1>2. RestThreads(source, 0) \in Seq(Lines)
  <2>1. 0 \in 0 .. Len(source)
    OBVIOUS
  <2> QED
    BY <2>1, SourceText
<1>3. This = Other /\ Tail(text) = RestThreads(source, 0)
  BY <1>1, <1>2, FirstLine, OtherType
<1>4. Moves /\ threads' = threads /\ block' = "Info"
  BY <1>1, <1>3, ParseStep, OtherKind
<1>5. AllDone(threads', source) /\ Len(threads') = 0
  BY <1>1, <1>4 DEF AllDone
<1>6. AtThread(text', block', threads', source)
  BY <1>3, <1>4, <1>5 DEF AtThread, Moves
<1> QED
  BY <1>4, <1>6 DEF Goes, ParsingText

LEMMA ThreadStep ==
  ASSUME NEW source \in Seq(SourceThreads), threads \in Seq(ParsedThreads),
         ParseLine, AtThread(text, block, threads, source)
  PROVE  Goes(source)
<1> DEFINE n == Len(threads)
           t == source[n + 1]
           more == RestThreads(source, n + 1)
           new == [tid |-> This.value, crashed |-> This.more, frames |-> <<>>]
<1>1. /\ text = RestThreads(source, n) /\ block \in {"Info", "Thread"}
      /\ n \in Nat /\ n <= Len(source) /\ Len(source) \in Nat /\ n \in 0 .. Len(source)
      /\ \A k \in 1 .. n : ThreadDone(threads[k], source[k])
  BY DEF AtThread, AllDone
<1>2. CASE n = Len(source)
  <2>1. text = Before(Other, <<>>)
    BY <1>1, <1>2, SourceText
  <2>2. This = Other /\ Tail(text) = <<>>
    BY <2>1, FirstLine, OtherType, NoLines
  <2>3. Moves /\ threads' = threads
    BY <2>2, ParseStep, OtherKind
  <2>4. AtEnd(text', threads', source)
    BY <1>2, <2>2, <2>3 DEF AtEnd, AtThread, Moves
  <2> QED
    BY <2>3, <2>4 DEF Goes, ParsingText
<1>3. CASE n # Len(source)
  <2>1. n < Len(source) /\ n + 1 \in 1 .. Len(source) /\ n + 1 \in 0 .. Len(source)
    BY <1>1, <1>3
  <2>2. t \in SourceThreads /\ t.frames \in Seq(Frames) /\ t.tid \in Nat /\ t.crashed \in BOOLEAN
    BY <2>1, FramesTextShape, SourceElement
  <2>3. ThreadHead(t) \in Lines /\ text = Before(ThreadHead(t), RestFrames(t, 0, more)) /\ more \in Seq(Lines)
    BY <1>1, <2>1, SourceText
  <2> HIDE DEF n, t, more
  <2>4. RestFrames(t, 0, more) \in Seq(Lines)
    BY <2>2, <2>3, ThreadText
  <2>5. This = ThreadHead(t) /\ Tail(text) = RestFrames(t, 0, more)
    BY <2>3, <2>4, FirstLine
  <2>6. This.kind = "thread" /\ This.value = t.tid /\ This.more = t.crashed
    BY <2>5 DEF ThreadHead, Line
  <2>7. Moves /\ block' = "Thread" /\ threads' = Append(threads, new)
    BY <2>6, ParseStep
  <2>8. new \in ParsedThreads /\ new.tid = t.tid /\ new.crashed = t.crashed /\ new.frames = <<>>
    BY <2>2, <2>6 DEF ParsedThreads
  <2> HIDE DEF new
  <2>9. /\ threads' \in Seq(ParsedThreads) /\ Len(threads') = n + 1 /\ threads'[n + 1] = new
        /\ \A k \in 1 .. n : threads'[k] = threads[k]
    BY <2>7, <2>8, AppendProperties DEF n
  <2>10. FrameCount(threads') = 0
    BY <2>8, <2>9 DEF FrameCount
  <2>11. OpenThread(threads', source, 0)
    <3>1. ThreadSame(threads'[n + 1], source[n + 1])
      BY <2>8, <2>9 DEF ThreadSame, t
    <3>2. FramesShown(threads'[n + 1].frames, source[n + 1].frames, 0)
      BY DEF FramesShown
    <3>3. Len(threads'[n + 1].frames) = 0 /\ Len(source[n + 1].frames) \in Nat
      BY <2>1, <2>8, <2>9, SourceElement
    <3>4. \A k \in 1 .. ((n + 1) - 1) : ThreadDone(threads'[k], source[k])
      BY <1>1, <2>9
    <3>5. n + 1 > 0 /\ n + 1 <= Len(source)
      BY <1>1, <2>1
    <3> QED
      BY <2>9, <3>1, <3>2, <3>3, <3>4, <3>5 DEF OpenThread
  <2>12. text' = TextBehind(threads', source)
    BY <2>5, <2>7, <2>9, <2>10 DEF TextBehind, Moves, t, more
  <2>13. AtFrame(text', block', threads', source)
    BY <1>1, <2>7, <2>9, <2>10, <2>11, <2>12 DEF AtFrame
  <2> QED
    BY <2>7, <2>9, <2>13 DEF Goes, ParsingText
<1> QED
  BY <1>2, <1>3

\* The first m frames of the last thread stay what they are.
LEMMA StaysOpen ==
  ASSUME NEW source \in Seq(SourceThreads), NEW ts \in Seq(ParsedThreads), NEW us \in Seq(ParsedThreads),
         NEW gs \in Seq(ParsedFrames), NEW m \in Nat,
         OpenThread(ts, source, m), FramesBecome(ts, us, gs),
         \A k \in 1 .. m : gs[k] = ts[Len(ts)].frames[k],
         m <= Len(gs), Len(gs) <= Len(source[Len(ts)].frames)
  PROVE  /\ OpenThread(us, source, m) /\ Len(us) = Len(ts) /\ FrameCount(us) = Len(gs)
         /\ us[Len(us)].frames = gs /\ Len(us) > 0
<1> DEFINE n == Len(ts)
           t == ts[n]
           u == us[n]
           s == source[n]
<1>1. /\ n \in Nat /\ n > 0 /\ n <= Len(source)
      /\ \A k \in 1 .. (n - 1) : ThreadDone(ts[k], source[k])
      /\ ThreadSame(t, s) /\ FramesShown(t.frames, s.frames, m)
  BY SMTT(40) DEF OpenThread
<1>2. /\ Len(us) = n /\ u = [t EXCEPT !.frames = gs] /\ u.frames = gs
      /\ \A k \in 1 .. (n - 1) : us[k] = ts[k]
  BY DEF FramesBecome
<1>3. t \in ParsedThreads
  BY <1>1
<1>4. u.tid = t.tid /\ u.crashed = t.crashed
  <2> HIDE DEF t, u
  <2> QED
    BY <1>2, <1>3 DEF ParsedThreads
<1>5. \A k \in 1 .. m : gs[k] = t.frames[k]
  OBVIOUS
<1>6. Len(gs) <= Len(s.frames)
  OBVIOUS
<1> HIDE DEF t, u, s, n
<1>7. ThreadSame(u, s)
  BY <1>1, <1>4 DEF ThreadSame
<1>8. FramesShown(u.frames, s.frames, m)
  BY <1>1, <1>2, <1>5 DEF FramesShown
<1>9. \A k \in 1 .. (n - 1) : ThreadDone(us[k], source[k])
  BY <1>1, <1>2
<1>10. OpenThread(us, source, m)
  BY <1>1, <1>2, <1>6, <1>7, <1>8, <1>9 DEF OpenThread, u, s
<1> QED
  BY <1>1, <1>2, <1>10 DEF FrameCount, n, u

\* What is known of the last thread and of the source it is parsed from.
LEMMA OpenProperties ==
  ASSUME NEW source \in Seq(SourceThreads), NEW ts \in Seq(ParsedThreads), NEW m, OpenThread(ts, source, m)
  PROVE  LET n == Len(ts) IN
         /\ n \in Nat /\ n > 0 /\ n \in 1 .. n /\ n \in 1 .. Len(source) /\ n \in 0 .. Len(source)
         /\ ts[n] \in ParsedThreads /\ ts[n].frames \in Seq(ParsedFrames) /\ FrameCount(ts) \in Nat
         /\ source[n] \in SourceThreads /\ Len(source[n].frames) \in Nat
         /\ FrameCount(ts) \in 0 .. Len(source[n].frames)
         /\ RestThreads(source, n) \in Seq(Lines) /\ TextBehind(ts, source) \in Seq(Lines)
<1> DEFINE n == Len(ts)
           s == source[n]
<1>1. n \in Nat /\ n > 0 /\ n \in 1 .. n /\ n \in 1 .. Len(source) /\ n \in 0 .. Len(source)
  BY DEF OpenThread
<1>2. FrameCount(ts) <= Len(s.frames)
  BY DEF OpenThread, FrameCount
<1>3. ts[n] \in ParsedThreads
  BY <1>1
<1>4. ts[n].frames \in Seq(ParsedFrames)
  BY <1>3, ParsedHasFrames DEF HasFrames
<1>5. s \in SourceThreads /\ Len(s.frames) \in Nat
  BY <1>1, SourceElement
<1>6. FrameCount(ts) \in Nat
  <2> DEFINE fs == ts[n].frames
  <2>1. fs \in Seq(ParsedFrames)
    BY <1>4
  <2> HIDE DEF fs
  <2>2. Len(fs) \in Nat
    BY <2>1
  <2> QED
    BY <2>2 DEF FrameCount, fs
<1> HIDE DEF n, s
<1>7. FrameCount(ts) \in 0 .. Len(s.frames)
  BY <1>2, <1>5, <1>6
<1>8. RestThreads(source, n) \in Seq(Lines)
  BY <1>1, SourceText
<1>9. TextBehind(ts, source) \in Seq(Lines)
  <2>1. RestFrames(s, FrameCount(ts), RestThreads(source, n)) \in Seq(Lines)
    BY <1>5, <1>7, <1>8, FramesStep
  <2> QED
    BY <2>1 DEF TextBehind, n, s
<1> QED
  BY <1>1, <1>3, <1>4, <1>5, <1>6, <1>7, <1>8, <1>9 DEF n, s

LEMMA FrameStep ==
  ASSUME NEW source \in Seq(SourceThreads), threads \in Seq(ParsedThreads),
         ParseLine, AtFrame(text, block, threads, source)
  PROVE  Goes(source)
<1> DEFINE n == Len(threads)
           t == threads[n]
           s == source[n]
           j == FrameCount(threads)
           R == RestThreads(source, n)
           f == s.frames[j + 1]
           B == TextBehind(threads, source)
           new == [num |-> This.value, func |-> This.more, regs |-> <<>>, base |-> 0, stack |-> <<>>]
<1>1. /\ OpenThread(threads, source, j) /\ block = "Thread"
      /\ text = B \/ text = Before(Other, B)
  BY DEF AtFrame
<1>2. /\ n \in Nat /\ n > 0 /\ n \in 1 .. n /\ n \in 1 .. Len(source) /\ n \in 0 .. Len(source)
      /\ t \in ParsedThreads /\ t.frames \in Seq(ParsedFrames) /\ j \in Nat
      /\ s \in SourceThreads /\ Len(s.frames) \in Nat /\ j \in 0 .. Len(s.frames)
      /\ R \in Seq(Lines) /\ B \in Seq(Lines)
  BY <1>1, OpenProperties
<1>3. B = RestFrames(s, j, R) /\ j = Len(t.frames)
  BY DEF TextBehind, FrameCount
<1>4. CASE text = Before(Other, B)
  <2>1. This = Other /\ Tail(text) = B
    BY <1>2, <1>4, FirstLine, OtherType
  <2>2. Moves /\ threads' = threads /\ block' = "Thread"
    BY <1>1, <2>1, ParseStep, OtherKind
  <2>3. AtFrame(text', block', threads', source)
    BY <1>1, <1>2, <2>1, <2>2 DEF AtFrame, Moves
  <2> QED
    BY <2>2, <2>3 DEF Goes, ParsingText
<1>5. CASE text = B /\ j = Len(s.frames)
  <2>1. text = Before(Other, R)
    <3> HIDE DEF j, s, R, B
    <3> QED
      BY <1>2, <1>3, <1>5, FramesStep
  <2>2. This = Other /\ Tail(text) = R
    BY <1>2, <2>1, FirstLine, OtherType
  <2>3. Moves /\ threads' = threads /\ block' = "Thread"
    BY <1>1, <2>2, ParseStep, OtherKind
  <2>4. AllDone(threads, source)
    <3>1. /\ n <= Len(source) /\ \A k \in 1 .. (n - 1) : ThreadDone(threads[k], source[k])
          /\ ThreadSame(t, s) /\ FramesShown(t.frames, s.frames, j)
      BY <1>1 DEF OpenThread
    <3>2. ThreadDone(t, s)
      BY <1>3, <1>5, <3>1 DEF ThreadDone
    <3>3. \A k \in 1 .. n : k \in 1 .. (n - 1) \/ k = n
      BY <1>2
    <3> QED
      BY <3>1, <3>2, <3>3 DEF AllDone
  <2>5. AtThread(text', block', threads', source)
    BY <2>2, <2>3, <2>4 DEF AtThread, Moves
  <2> QED
    BY <2>3, <2>5 DEF Goes, ParsingText
<1>6. CASE text = B /\ j # Len(s.frames)
  <2> DEFINE B2 == RestFrames(s, j + 1, R)
             rest == RestRegisters(f, 0, B2)
  <2>1. j < Len(s.frames) /\ j + 1 \in 1 .. Len(s.frames) /\ j + 1 \in 0 .. Len(s.frames)
    BY <1>2, <1>6
  <2>2. f \in Frames /\ B2 \in Seq(Lines)
    <3>1. f \in Frames
      BY <1>2, <2>1, SourceElement
    <3> HIDE DEF j, s, R, B, f
    <3>2. B2 \in Seq(Lines)
      BY <1>2, <2>1, FramesStep
    <3> QED
      BY <3>1, <3>2
  <2>3. FrameHead(f) \in Lines /\ text = Before(FrameHead(f), rest)
    <3> HIDE DEF j, s, R, B
    <3> QED
      BY <1>2, <1>3, <1>6, <2>1, FramesStep
  <2>4. rest \in Seq(Lines)
    BY <2>2, FrameText
  <2>5. This = FrameHead(f) /\ Tail(text) = rest
    <3> HIDE DEF f, rest
    <3> QED
      BY <2>3, <2>4, FirstLine
  <2>6. This.kind = "frame" /\ This.value = f.num /\ This.more = f.func
    BY <2>5 DEF FrameHead, Line
  <2>7. /\ Moves /\ block' = "Register"
        /\ threads' = [threads EXCEPT ![LastThread].frames = Append(@, new)]
    BY <1>1, <2>6, ParseStep
  <2>8. new \in ParsedFrames /\ new.num = f.num /\ new.func = f.func /\ new.regs = <<>>
        /\ new.base = 0 /\ new.stack = <<>>
    <3>1. f.num \in Nat /\ f.func \in Seq(STRING)
      BY <2>2, FrameType
    <3> DEFINE none == <<>>
    <3>2. none \in Seq(Nat) /\ none \in Seq(0 .. 255)
      OBVIOUS
    <3>3. new = [num |-> f.num, func |-> f.func, regs |-> none, base |-> 0, stack |-> none]
      BY <2>6
    <3> HIDE DEF none, new
    <3>4. new \in ParsedFrames
      <4> DEFINE S == Seq(0 .. 255)
                 Q == Seq(STRING)
      <4>1. none \in S /\ f.func \in Q
        BY <3>1, <3>2
      <4> HIDE DEF S, Q
      <4>2. new \in [num: Nat, func: Q, regs: Seq(Nat), base: Nat, stack: S]
        BY <3>1, <3>2, <3>3, <4>1
      <4> QED
        BY <4>2 DEF ParsedFrames, S, Q
    <3> QED
      BY <3>3, <3>4 DEF none
  <2> HIDE DEF new
  <2> DEFINE fs == t.frames
             gs == Append(fs, new)
  <2>9. threads' = [threads EXCEPT ![n] = [threads[n] EXCEPT !.frames = gs]]
    BY <2>7 DEF LastThread
  <2>10. gs \in Seq(ParsedFrames) /\ Len(gs) = j + 1 /\ gs[j + 1] = new /\ \A k \in 1 .. j : gs[k] = fs[k]
    <3> HIDE DEF fs
    <3>1. fs \in Seq(ParsedFrames) /\ Len(fs) = j
      BY <1>2, <1>3 DEF fs
    <3> QED
      BY <2>8, <3>1, AppendProperties
  <2> HIDE DEF gs
  <2>11. threads' \in Seq(ParsedThreads) /\ FramesBecome(threads, threads', gs)
    BY <1>2, <2>9, <2>10, SetFrames, ParsedHasFrames
  <2>12. /\ OpenThread(threads', source, j) /\ Len(threads') = n /\ FrameCount(threads') = j + 1
         /\ threads'[n].frames = gs /\ n > 0
    <3>1. \A k \in 1 .. j : gs[k] = threads[Len(threads)].frames[k]
      BY <2>10
    <3>2. j <= Len(gs) /\ Len(gs) <= Len(source[Len(threads)].frames)
      BY <1>2, <2>1, <2>10
    <3>3. /\ OpenThread(threads', source, j) /\ Len(threads') = n /\ FrameCount(threads') = Len(gs)
          /\ threads'[Len(threads')].frames = gs
      <4>1. threads' \in Seq(ParsedThreads) /\ gs \in Seq(ParsedFrames) /\ j \in Nat /\ OpenThread(threads, source, j)
        BY <1>1, <1>2, <2>10, <2>11
      <4> HIDE DEF j, B, B2, f, s, R, t, rest, fs
      <4> QED
        BY <2>11, <3>1, <3>2, <4>1, StaysOpen
    <3> QED
      BY <1>2, <2>10, <3>3
  <2>13. Current(threads') = new /\ CurrentSource(threads', source) = f /\ TextBehind(threads', source) = B2
    BY <2>10, <2>12 DEF Current, CurrentSource, TextBehind
  <2>14. InFrame(threads', source)
    <3>1. FrameCount(threads') > 0 /\ FrameCount(threads') - 1 = j
      <4> HIDE DEF j
      <4> QED
        BY <1>2, <2>12
    <3>2. NameShown(new, f)
      BY <2>8 DEF NameShown
    <3> QED
      BY <2>12, <2>13, <3>1, <3>2 DEF InFrame
  <2>15. RegistersShown(new, f, 0) /\ NoStackYet(new) /\ 0 \in 0 .. RegisterCount(f.regs)
    <3>1. f.regs \in Seq(Nat)
      BY <2>2, FrameType
    <3>2. Upto(Len(f.regs), 0) = 0 /\ RegisterCount(f.regs) \in Nat
      BY <3>1, UptoNext
    <3> QED
      BY <2>8, <3>2 DEF RegistersShown, NoStackYet
  <2>16. text' = rest
    BY <2>5, <2>7 DEF Moves
  <2>17. AtRegisters(text', block', threads', source, 0)
    <3> HIDE DEF f, B2
    <3> QED
      BY <2>7, <2>12, <2>13, <2>14, <2>15, <2>16 DEF AtRegisters
  <2>18. 0 \in Nat
    OBVIOUS
  <2> QED
    BY <2>7, <2>11, <2>17, <2>18 DEF Goes, ParsingText
<1> QED
  BY <1>1, <1>4, <1>5, <1>6

LEMMA InFrameProperties ==
  ASSUME NEW source \in Seq(SourceThreads), NEW ts \in Seq(ParsedThreads), InFrame(ts, source)
  PROVE  /\ Len(ts) \in Nat /\ Len(ts) > 0 /\ FrameCount(ts) \in Nat /\ FrameCount(ts) > 0
         /\ ts[Len(ts)].frames \in Seq(ParsedFrames)
         /\ FrameCount(ts) <= Len(source[Len(ts)].frames)
         /\ Current(ts) \in ParsedFrames /\ CurrentSource(ts, source) \in Frames
         /\ TextBehind(ts, source) \in Seq(Lines)
<1> DEFINE n == Len(ts)
           j == FrameCount(ts)
           fs == ts[n].frames
           s == source[n]
<1>1. OpenThread(ts, source, j - 1) /\ j > 0
  BY DEF InFrame
<1>2. /\ n \in Nat /\ n > 0 /\ fs \in Seq(ParsedFrames) /\ j \in Nat /\ n \in 1 .. Len(source)
      /\ Len(s.frames) \in Nat /\ j \in 0 .. Len(s.frames) /\ TextBehind(ts, source) \in Seq(Lines)
  BY <1>1, OpenProperties
<1>3. j = Len(fs)
  BY DEF FrameCount
<1>4. j \in 1 .. Len(fs) /\ j \in 1 .. Len(s.frames)
  <2> HIDE DEF j, fs, s
  <2> QED
    BY <1>1, <1>2, <1>3
<1>5. fs[j] \in ParsedFrames
  <2> HIDE DEF j, fs
  <2> QED
    BY <1>2, <1>4
<1>6. s.frames[j] \in Frames
  BY <1>2, <1>4, SourceElement
<1> QED
  BY <1>1, <1>2, <1>5, <1>6 DEF Current, CurrentSource

LEMMA Completed ==
  ASSUME NEW source \in Seq(SourceThreads), NEW ts \in Seq(ParsedThreads), InFrame(ts, source),
         Whole(Current(ts), CurrentSource(ts, source))
  PROVE  OpenThread(ts, source, FrameCount(ts))
<1> DEFINE n == Len(ts)
           j == FrameCount(ts)
<1>1. OpenThread(ts, source, j - 1) /\ j \in Nat /\ j > 0 /\ j = Len(ts[n].frames)
  BY InFrameProperties DEF InFrame, FrameCount
<1>2. Whole(ts[n].frames[j], source[n].frames[j])
  BY DEF Current, CurrentSource
<1>3. FramesShown(ts[n].frames, source[n].frames, j - 1)
  BY <1>1 DEF OpenThread
<1>4. j <= Len(ts[n].frames)
  BY <1>1
<1> HIDE DEF j
<1>5. FramesShown(ts[n].frames, source[n].frames, j)
  <2>1. \A k \in 1 .. j : k \in 1 .. (j - 1) \/ k = j
    BY <1>1
  <2> QED
    BY <1>2, <1>3, <2>1 DEF FramesShown
<1>6. OpenThread(ts, source, j)
  BY <1>1, <1>4, <1>5 DEF OpenThread
<1> QED
  BY <1>6 DEF j

\* The last frame changes, but not its name.
LEMMA StaysInFrame ==
  ASSUME NEW source \in Seq(SourceThreads), NEW ts \in Seq(ParsedThreads), InFrame(ts, source),
         NEW q \in ParsedFrames, q.num = Current(ts).num, q.func = Current(ts).func
  PROVE  LET us == [ts EXCEPT ![Len(ts)].frames[Len(ts[Len(ts)].frames)] = q] IN
         /\ us \in Seq(ParsedThreads) /\ InFrame(us, source) /\ Len(us) > 0
         /\ Current(us) = q /\ CurrentSource(us, source) = CurrentSource(ts, source)
         /\ TextBehind(us, source) = TextBehind(ts, source)
         /\ Len(us) = Len(ts) /\ FrameCount(us) = FrameCount(ts)
<1> DEFINE n == Len(ts)
           fs == ts[n].frames
           gs == [fs EXCEPT ![Len(fs)] = q]
           us == [ts EXCEPT ![Len(ts)].frames[Len(ts[Len(ts)].frames)] = q]
           j == FrameCount(ts)
<1>1. /\ n \in Nat /\ n > 0 /\ j \in Nat /\ j > 0 /\ fs \in Seq(ParsedFrames)
      /\ j <= Len(source[n].frames) /\ j = Len(fs)
  BY InFrameProperties DEF FrameCount
<1>2. /\ us \in Seq(ParsedThreads) /\ FramesBecome(ts, us, gs)
      /\ gs \in Seq(ParsedFrames) /\ LastBecomes(fs, gs, q)
  <2> HIDE DEF gs, us
  <2>1. Len(ts[Len(ts)].frames) > 0 /\ Len(ts) > 0
    BY <1>1
  <2> QED
    BY <2>1, SetFrame, ParsedHasFrames DEF gs, us
<1>3. OpenThread(ts, source, j - 1) /\ NameShown(Current(ts), CurrentSource(ts, source))
  BY DEF InFrame
<1> HIDE DEF gs, us
<1>4. Len(gs) = j /\ gs[j] = q /\ \A k \in 1 .. (j - 1) : gs[k] = fs[k]
  BY <1>1, <1>2 DEF LastBecomes
<1>5. j - 1 \in Nat /\ j - 1 <= Len(gs)
  BY <1>1, <1>4
<1>6. /\ OpenThread(us, source, j - 1) /\ Len(us) = n /\ FrameCount(us) = j
      /\ us[n].frames = gs /\ Len(us) > 0
  <2>1. \A k \in 1 .. (j - 1) : gs[k] = ts[Len(ts)].frames[k]
    BY <1>4
  <2>2. Len(gs) <= Len(source[Len(ts)].frames)
    BY <1>1, <1>4
  <2> DEFINE m == j - 1
  <2>3. /\ m \in Nat /\ m <= Len(gs) /\ OpenThread(ts, source, m)
        /\ \A k \in 1 .. m : gs[k] = ts[Len(ts)].frames[k]
    BY <1>3, <1>5, <2>1
  <2> HIDE DEF m, j, fs
  <2>4. /\ OpenThread(us, source, m) /\ Len(us) = n /\ FrameCount(us) = Len(gs)
        /\ us[Len(us)].frames = gs /\ Len(us) > 0
    BY <1>2, <2>2, <2>3, StaysOpen
  <2> QED
    BY <1>4, <2>4 DEF m
<1>7. /\ Current(us) = q /\ CurrentSource(us, source) = CurrentSource(ts, source)
      /\ TextBehind(us, source) = TextBehind(ts, source)
  BY <1>4, <1>6 DEF Current, CurrentSource, TextBehind
<1>8. InFrame(us, source)
  <2>1. NameShown(q, CurrentSource(ts, source))
    BY <1>3 DEF NameShown
  <2> QED
    BY <1>1, <1>6, <1>7, <2>1 DEF InFrame
<1> QED
  BY <1>1, <1>2, <1>6, <1>7, <1>8 DEF us

LEMMA WithRegs ==
  ASSUME NEW p \in ParsedFrames, NEW r \in Seq(Nat)
  PROVE  LET q == [p EXCEPT !.regs = r] IN
         /\ q \in ParsedFrames /\ q.num = p.num /\ q.func = p.func /\ q.regs = r
         /\ q.base = p.base /\ q.stack = p.stack
<1> DEFINE S == Seq(0 .. 255)
           Q == Seq(STRING)
           R == Seq(Nat)
<1> HIDE DEF S, Q, R
<1>1. ParsedFrames = [num: Nat, func: Q, regs: R, base: Nat, stack: S]
  BY DEF ParsedFrames, S, Q, R
<1>2. r \in R
  BY DEF R
<1> QED
  BY <1>1, <1>2

StackSet(p, b, x) == [[p EXCEPT !.base = b] EXCEPT !.stack = x]

LEMMA WithStack ==
  ASSUME NEW p \in ParsedFrames, NEW b \in Nat, NEW x \in Seq(0 .. 255)
  PROVE  LET q == StackSet(p, b, x) IN
         /\ q \in ParsedFrames /\ q.num = p.num /\ q.func = p.func /\ q.regs = p.regs
         /\ q.base = b /\ q.stack = x
<1> DEFINE S == Seq(0 .. 255)
           Q == Seq(STRING)
           R == Seq(Nat)
<1> HIDE DEF S, Q, R
<1>1. ParsedFrames = [num: Nat, func: Q, regs: R, base: Nat, stack: S]
  BY DEF ParsedFrames, S, Q, R
<1>2. x \in S
  BY DEF S
<1> QED
  BY <1>1, <1>2 DEF StackSet

LEMMA ParsedType ==
  ASSUME NEW p \in ParsedFrames
  PROVE  /\ p.num \in Nat /\ p.func \in Seq(STRING) /\ p.regs \in Seq(Nat) /\ p.base \in Nat
         /\ p.stack \in Seq(0 .. 255)
<1> DEFINE S == Seq(0 .. 255)
           Q == Seq(STRING)
           R == Seq(Nat)
<1> HIDE DEF S, Q, R
<1>1. ParsedFrames = [num: Nat, func: Q, regs: R, base: Nat, stack: S]
  BY DEF ParsedFrames, S, Q, R
<1> QED
  BY <1>1 DEF S, Q, R

\* One line of registers more.
LEMMA MoreRegisters ==
  ASSUME NEW f \in Frames, NEW p \in ParsedFrames, NEW k \in Nat, k < RegisterCount(f.regs),
         RegistersShown(p, f, k)
  PROVE  LET more == RegisterLines(f.regs)[k + 1].more
             q == [p EXCEPT !.regs = p.regs \o more] IN
         /\ RegisterLines(f.regs)[k + 1].kind = "registers"
         /\ p.regs \o more \in Seq(Nat) /\ RegistersShown(q, f, k + 1)
<1> DEFINE r == f.regs
           a == Upto(Len(r), k)
           e == Upto(Len(r), k + 1)
           more == SubSeq(r, a + 1, e)
           pr == p.regs
           s == pr \o more
           q == [p EXCEPT !.regs = s]
<1>1. r \in Seq(Nat) /\ RegisterCount(r) \in Nat /\ k \in 0 .. (RegisterCount(r) - 1)
  <2>1. r \in Seq(Nat)
    BY FrameType
  <2> QED
    BY <2>1, UptoNext
<1>2. RegisterLines(r)[k + 1] = Line("registers", 0, more)
  BY <1>1, RegistersShape
<1>3. a \in 0 .. Len(r) /\ e \in a .. Len(r) /\ Len(r) \in Nat
  BY <1>1, UptoNext
<1>4. pr \in Seq(Nat)
  BY ParsedType
<1>5. Len(pr) = a /\ \A i \in 1 .. a : pr[i] = r[i]
  BY DEF RegistersShown
<1>6. RegisterLines(f.regs)[k + 1].more = more /\ RegisterLines(f.regs)[k + 1].kind = "registers"
  <2> HIDE DEF more
  <2> QED
    BY <1>2 DEF Line
<1> HIDE DEF r, a, e, pr
<1>7. more \in Seq(Nat) /\ Len(more) = e - a /\ \A i \in 1 .. (e - a) : more[i] = r[a + i]
  <2>1. \A i \in (a + 1) .. e : r[i] \in Nat
    BY <1>1, <1>3
  <2>2. /\ SubSeq(r, a + 1, e) \in Seq(Nat)
        /\ Len(SubSeq(r, a + 1, e)) = IF a + 1 <= e THEN e - (a + 1) + 1 ELSE 0
        /\ \A i \in 1 .. (e - (a + 1) + 1) : SubSeq(r, a + 1, e)[i] = r[(a + 1) + i - 1]
    BY <1>1, <1>3, <2>1, SubSeqProperties
  <2>3. Len(more) = e - a
    BY <1>3, <2>2
  <2>4. ASSUME NEW i \in 1 .. (e - a) PROVE more[i] = r[a + i]
    <3>1. i \in 1 .. (e - (a + 1) + 1) /\ (a + 1) + i - 1 = a + i
      BY <1>3
    <3> QED
      BY <2>2, <3>1
  <2> QED
    BY <2>2, <2>3, <2>4
<1> HIDE DEF more
<1>8. s \in Seq(Nat) /\ Len(s) = e /\ \A i \in 1 .. e : s[i] = r[i]
  <2>1. s \in Seq(Nat) /\ Len(s) = Len(pr) + Len(more)
        /\ \A i \in 1 .. (Len(pr) + Len(more)) : s[i] = IF i <= Len(pr) THEN pr[i] ELSE more[i - Len(pr)]
    BY <1>4, <1>7
  <2> HIDE DEF s
  <2>2. Len(s) = e
    BY <1>3, <1>5, <1>7, <2>1
  <2>3. ASSUME NEW i \in 1 .. e PROVE s[i] = r[i]
    <3>1. CASE i <= a
      BY <1>3, <1>5, <1>7, <2>1, <3>1
    <3>2. CASE ~(i <= a)
      <4>1. i - a \in 1 .. (e - a) /\ a + (i - a) = i
        BY <1>3, <3>2
      <4> QED
        <5>1. i \in 1 .. (Len(pr) + Len(more)) /\ ~(i <= Len(pr)) /\ i - Len(pr) = i - a
          BY <1>3, <1>5, <1>7, <3>2
        <5>2. s[i] = more[i - a]
          BY <2>1, <5>1
        <5>3. more[i - a] = r[a + (i - a)]
          BY <1>7, <4>1
        <5> QED
          BY <4>1, <5>2, <5>3
    <3> QED
      BY <3>1, <3>2
  <2> QED
    BY <2>1, <2>2, <2>3
<1> HIDE DEF s
<1>9. q.regs = s
  BY <1>8, WithRegs
<1> HIDE DEF q
<1>10. RegistersShown(q, f, k + 1)
  BY <1>8, <1>9 DEF RegistersShown, e, r
<1>11. s = p.regs \o RegisterLines(f.regs)[k + 1].more
  BY <1>6 DEF s, pr
<1>12. q = [p EXCEPT !.regs = p.regs \o RegisterLines(f.regs)[k + 1].more]
  BY <1>11 DEF q
<1> QED
  BY <1>6, <1>8, <1>10, <1>11, <1>12

LEMMA AllRegisters ==
  ASSUME NEW f \in Frames, NEW p \in ParsedFrames, RegistersShown(p, f, RegisterCount(f.regs))
  PROVE  p.regs = f.regs
<1> DEFINE r == f.regs
           pr == p.regs
<1>1. r \in Seq(Nat) /\ pr \in Seq(Nat)
  BY FrameType, ParsedType
<1>2. Upto(Len(r), RegisterCount(r)) = Len(r)
  BY <1>1, UptoNext
<1>3. Len(pr) = Len(r) /\ \A i \in 1 .. Len(r) : pr[i] = r[i]
  BY <1>2 DEF RegistersShown
<1> HIDE DEF r, pr
<1>4. pr = r
  BY <1>1, <1>3, SeqEqual
<1> QED
  BY <1>4 DEF r, pr

LEMMA RegisterStep ==
  ASSUME NEW source \in Seq(SourceThreads), threads \in Seq(ParsedThreads),
         ParseLine, NEW k \in Nat, AtRegisters(text, block, threads, source, k)
  PROVE  Goes(source)
<1> DEFINE p == Current(threads)
           f == CurrentSource(threads, source)
           B == TextBehind(threads, source)
           c == RegisterCount(f.regs)
<1>1. /\ InFrame(threads, source) /\ block = "Register" /\ k \in 0 .. c
      /\ RegistersShown(p, f, k) /\ NoStackYet(p)
      /\ text = RestRegisters(f, k, B)
  BY DEF AtRegisters
<1>2. p \in ParsedFrames /\ f \in Frames /\ B \in Seq(Lines) /\ Len(threads) > 0
  BY <1>1, InFrameProperties
<1>3. CASE k = c
  <2> DEFINE stack == RestStack(f, B)
  <2>1. text = Before(Other, Before(Other, stack)) /\ stack \in Seq(Lines)
    <3> HIDE DEF f, B
    <3> QED
      BY <1>1, <1>2, <1>3, RegistersStep, FrameText
  <2>2. Before(Other, stack) \in Seq(Lines)
    <3> HIDE DEF stack
    <3> QED
      BY <2>1, TwoOthers
  <2>3. This = Other /\ Tail(text) = Before(Other, stack)
    BY <2>1, <2>2, FirstLine, OtherType
  <2>4. Moves /\ threads' = threads /\ block' = "Thread"
    BY <1>1, <2>3, ParseStep, OtherKind
  <2>5. p.regs = f.regs
    <3> HIDE DEF p, f
    <3> QED
      BY <1>1, <1>2, <1>3, AllRegisters
  <2>6. CASE f.stack = <<>>
    <3>1. Whole(p, f)
      <4>1. NameShown(p, f)
        BY <1>1 DEF InFrame
      <4> QED
        BY <1>1, <2>5, <2>6, <4>1 DEF Whole, NoStackYet
    <3>2. OpenThread(threads, source, FrameCount(threads))
      BY <1>1, <3>1, Completed
    <3>3. stack = B
      BY <2>6 DEF RestStack
    <3>4. AtFrame(text', block', threads', source)
      BY <1>2, <2>3, <2>4, <3>2, <3>3 DEF AtFrame, Moves
    <3> QED
      BY <2>4, <3>4 DEF Goes, ParsingText
  <2>7. CASE f.stack # <<>>
    <3>1. AtStack(text', block', threads', source)
      BY <1>1, <1>2, <2>3, <2>4, <2>5, <2>7 DEF AtStack, Moves
    <3> QED
      BY <2>4, <3>1 DEF Goes, ParsingText
  <2> QED
    BY <2>6, <2>7
<1>4. CASE k # c
  <2> DEFINE line == RegisterLines(f.regs)[k + 1]
             rest == RestRegisters(f, k + 1, B)
             q == [p EXCEPT !.regs = p.regs \o line.more]
  <2>1. k < c /\ c \in Nat /\ k + 1 \in 0 .. c /\ k + 1 \in Nat
    <3>1. f.regs \in Seq(Nat)
      BY <1>2, FrameType
    <3>2. c \in Nat
      BY <3>1, UptoNext
    <3> HIDE DEF c
    <3> QED
      BY <1>1, <1>4, <3>2
  <2>2. line \in Lines /\ text = Before(line, rest) /\ rest \in Seq(Lines)
    <3> HIDE DEF f, B
    <3> QED
      BY <1>1, <1>2, <2>1, RegistersStep
  <2>3. This = line /\ Tail(text) = rest
    <3> HIDE DEF line, rest
    <3> QED
      BY <2>2, FirstLine
  <2>4. line.kind = "registers" /\ p.regs \o line.more \in Seq(Nat) /\ RegistersShown(q, f, k + 1)
    <3> HIDE DEF f, p
    <3> QED
      BY <1>1, <1>2, <2>1, MoreRegisters
  <2>5. /\ Moves /\ block' = "Register"
        /\ threads' = [threads EXCEPT ![LastThread].frames[LastFrame].regs = @ \o line.more]
    BY <1>1, <2>3, <2>4, ParseStep
  <2>6. threads' = [threads EXCEPT ![Len(threads)].frames[Len(threads[Len(threads)].frames)] = q]
    <3>1. p = threads[Len(threads)].frames[Len(threads[Len(threads)].frames)]
      BY DEF Current, FrameCount
    <3> HIDE DEF p, line
    <3> QED
      BY <2>5, <3>1 DEF LastThread, LastFrame
  <2>7. q \in ParsedFrames /\ q.num = p.num /\ q.func = p.func /\ q.base = p.base /\ q.stack = p.stack
    <3> DEFINE regs == p.regs \o line.more
    <3>1. regs \in Seq(Nat) /\ q = [p EXCEPT !.regs = regs]
      BY <2>4
    <3> HIDE DEF regs, p, q
    <3> QED
      BY <1>2, <3>1, WithRegs
  <2> HIDE DEF q
  <2>8. /\ threads' \in Seq(ParsedThreads) /\ InFrame(threads', source) /\ Len(threads') > 0
        /\ Current(threads') = q /\ CurrentSource(threads', source) = f /\ TextBehind(threads', source) = B
    BY <1>1, <2>6, <2>7, StaysInFrame
  <2>9. NoStackYet(q)
    BY <1>1, <2>7 DEF NoStackYet
  <2>10. text' = rest
    BY <2>3, <2>5 DEF Moves
  <2>11. AtRegisters(text', block', threads', source, k + 1)
    <3> HIDE DEF f, B
    <3> QED
      BY <2>1, <2>4, <2>5, <2>8, <2>9, <2>10 DEF AtRegisters
  <2> QED
    BY <2>1, <2>5, <2>8, <2>11 DEF Goes, ParsingText
<1> QED
  BY <1>3, <1>4

LEMMA StackStep ==
  ASSUME NEW source \in Seq(SourceThreads), threads \in Seq(ParsedThreads),
         ParseLine, AtStack(text, block, threads, source)
  PROVE  Goes(source)
<1> DEFINE p == Current(threads)
           f == CurrentSource(threads, source)
           B == TextBehind(threads, source)
           stack == RestStack(f, B)
           rest == RestRows(f, 0, B)
<1>1. /\ InFrame(threads, source) /\ block = "Thread" /\ p.regs = f.regs /\ NoStackYet(p)
      /\ f.stack # <<>> /\ (text = stack \/ text = Before(Other, stack)) /\ Len(threads) > 0
  BY DEF AtStack
<1>2. p \in ParsedFrames /\ f \in Frames /\ B \in Seq(Lines)
  BY <1>1, InFrameProperties
<1>3. stack \in Seq(Lines)
  BY <1>2, FrameText
<1>4. stack = Before(Contents0, rest)
  BY <1>1 DEF RestStack
<1>5. RowCount(f) \in Nat /\ RowCount(f) > 0 /\ 0 \in 0 .. RowCount(f)
  <2>1. RowCount(f) \in Nat /\ RowCount(f) > 0
    BY <1>1, <1>2, RowCountNat
  <2> QED
    BY <2>1
<1>6. rest \in Seq(Lines)
  BY <1>2, <1>5, RowsStep
<1> HIDE DEF stack
<1>7. CASE text = Before(Other, stack)
  <2>1. This = Other /\ Tail(text) = stack
    BY <1>3, <1>7, FirstLine, OtherType
  <2>2. Moves /\ threads' = threads /\ block' = "Thread"
    BY <1>1, <2>1, ParseStep, OtherKind
  <2>3. AtStack(text', block', threads', source)
    BY <1>1, <2>1, <2>2 DEF AtStack, Moves, stack
  <2> QED
    BY <2>2, <2>3 DEF Goes, ParsingText
<1>8. CASE text = stack
  <2>1. This = Contents0 /\ Tail(text) = rest
    <3> HIDE DEF rest
    <3> QED
      BY <1>4, <1>6, <1>8, FirstLine, Contents0Type
  <2>2. This.kind = "contents"
    BY <2>1 DEF Contents0, Line
  <2>3. Moves /\ threads' = threads /\ block' = "Stack"
    BY <1>1, <2>2, ParseStep
  <2>4. Shown(p, f, 0)
    <3>1. RowStart(0) = 0
      BY RowBytesNat DEF RowStart
    <3>2. p.base = 0 /\ p.stack = <<>> /\ Len(p.stack) = 0
      BY <1>1 DEF NoStackYet
    <3>3. Len(f.stack) \in Nat
      BY <1>2, RowCountNat
    <3> HIDE DEF p, f
    <3> QED
      BY <1>5, <3>1, <3>2, <3>3, RowBytesNat DEF Shown
  <2>5. text' = rest
    BY <2>1, <2>3 DEF Moves
  <2>6. AtRows(text', block', threads', source, 0)
    <3> HIDE DEF f, B
    <3> QED
      BY <1>1, <1>5, <2>3, <2>4, <2>5 DEF AtRows, f, B
  <2>7. 0 \in Nat
    OBVIOUS
  <2> QED
    BY <2>3, <2>6, <2>7 DEF Goes, ParsingText
<1> QED
  BY <1>1, <1>7, <1>8

LEMMA ByteBound == \A x \in Nat : x \in 0 .. 255 <=> ~(x > 255)
  OBVIOUS

LEMMA SeqNarrow ==
  ASSUME NEW S, NEW T, NEW s \in Seq(S), \A i \in 1 .. Len(s) : s[i] \in T
  PROVE  s \in Seq(T)
  OBVIOUS

\* The words behind a short row that are no bytes are what the convertor fails of.
LEMMA MoreRows ==
  ASSUME NEW f \in Frames, Storable(f), f.stack # <<>>, NEW p \in ParsedFrames,
         NEW k \in Nat, k < RowCount(f), Shown(p, f, k)
  PROVE  LET line == RowLine(f, k)
             bytes == Hex(RowWords(line))
             q == StackSet(p, IF p.base = 0 THEN line.value ELSE p.base, p.stack \o bytes) IN
         /\ line.kind = "row"
         /\ (\E b \in ToSet(bytes) : b > 255) => \E w \in MoreWords(f) : w > 255
         /\ ~(\E b \in ToSet(bytes) : b > 255) =>
              /\ (IF p.base = 0 THEN line.value ELSE p.base) \in Nat
              /\ p.stack \o bytes \in Seq(0 .. 255) /\ Shown(q, f, k + 1)
<1> DEFINE line == RowLine(f, k)
           bytes == Hex(RowWords(line))
           base == IF p.base = 0 THEN line.value ELSE p.base
           ps == p.stack
           fs == f.stack
           s == ps \o bytes
           q == StackSet(p, base, s)
           a == RowStart(k)
           e == RowEnd(f, k)
           d == e - a
           c == RowCount(f)
           n == Len(fs)
           m == IF k + 1 < c THEN RowStart(k + 1) ELSE n
<1>1. k \in 0 .. (c - 1) /\ c \in Nat
  <2>1. c \in Nat
    BY RowCountNat
  <2> HIDE DEF c
  <2> QED
    BY <2>1 DEF c
<1>2. /\ line.kind = "row" /\ line.value = f.base + a
      /\ bytes \in Seq(Nat) /\ Len(bytes) >= d /\ Len(bytes) <= RowBytes
      /\ k + 1 < c => Len(bytes) = d
      /\ \A i \in 1 .. d : bytes[i] = fs[a + i]
      /\ \A i \in (d + 1) .. Len(bytes) : bytes[i] \in MoreWords(f)
  BY <1>1, RowRead
<1>3. /\ a \in Nat /\ e \in Nat /\ n \in Nat /\ a < e /\ e <= n /\ e <= a + RowBytes
      /\ k + 1 < c => e = RowStart(k + 1)
  BY <1>1, RowBounds
<1>4. e = m
  BY <1>3 DEF RowEnd
<1>5. /\ p.base = IF k = 0 THEN 0 ELSE f.base
      /\ Len(ps) = a /\ \A i \in 1 .. a : ps[i] = fs[i]
  BY DEF Shown
<1>6. ps \in Seq(0 .. 255) /\ fs \in Seq(0 .. 255) /\ f.base \in Nat /\ p.base \in Nat /\ f.base > 0
  BY FrameType, ParsedType DEF Storable
<1>7. base = f.base
  <2>1. k = 0 => a = 0
    BY RowBytesNat DEF RowStart
  <2> HIDE DEF a, line
  <2> QED
    BY <1>2, <1>5, <1>6, <2>1
<1> HIDE DEF line, bytes, base, ps, fs, a, e, n, c, m
<1>8. \A i \in 1 .. d : bytes[i] \in 0 .. 255
  <2> SUFFICES ASSUME NEW i \in 1 .. d PROVE bytes[i] \in 0 .. 255
    OBVIOUS
  <2>1. a + i \in 1 .. Len(fs)
    BY <1>3 DEF n
  <2>2. fs[a + i] \in 0 .. 255
    BY <1>6, <2>1, ElementOfSeq
  <2> QED
    BY <1>2, <2>2
<1>9. (\E b \in ToSet(bytes) : b > 255) => \E w \in MoreWords(f) : w > 255
  <2> SUFFICES ASSUME NEW i \in 1 .. Len(bytes), bytes[i] > 255 PROVE \E w \in MoreWords(f) : w > 255
    BY <1>2 DEF ToSet
  <2>1. i \notin 1 .. d
    <3>1. bytes[i] \in Nat
      BY <1>2
    <3>2. ~(bytes[i] \in 0 .. 255)
      BY <3>1, ByteBound
    <3> QED
      BY <1>8, <3>2
  <2>2. i \in (d + 1) .. Len(bytes)
    BY <1>3, <2>1
  <2> QED
    BY <1>2, <2>2
<1>10. ASSUME ~(\E b \in ToSet(bytes) : b > 255)
       PROVE  s \in Seq(0 .. 255) /\ Shown(q, f, k + 1)
  <2>1. bytes \in Seq(0 .. 255)
    <3>1. \A i \in 1 .. Len(bytes) : bytes[i] \in 0 .. 255
      <4> SUFFICES ASSUME NEW i \in 1 .. Len(bytes) PROVE bytes[i] \in 0 .. 255
        OBVIOUS
      <4>1. bytes[i] \in Nat /\ bytes[i] \in ToSet(bytes)
        BY <1>2 DEF ToSet
      <4>2. ~(bytes[i] > 255)
        BY <1>10, <4>1
      <4> QED
        BY <4>1, <4>2, ByteBound
    <3>2. bytes \in Seq(Nat)
      BY <1>2
    <3> QED
      BY <3>1, <3>2, SeqNarrow, ZenonT(60)
  <2>2. s \in Seq(0 .. 255) /\ Len(s) = Len(ps) + Len(bytes)
        /\ \A i \in 1 .. (Len(ps) + Len(bytes)) : s[i] = IF i <= Len(ps) THEN ps[i] ELSE bytes[i - Len(ps)]
    BY <1>6, <2>1, ConcatProperties
  <2> HIDE DEF s
  <2>3. Len(bytes) \in Nat
    BY <1>2
  <2>4. \A i \in 1 .. m : s[i] = fs[i]
    <3> SUFFICES ASSUME NEW i \in 1 .. m PROVE s[i] = fs[i]
      OBVIOUS
    <3>0. i \in 1 .. (Len(ps) + Len(bytes))
      BY <1>2, <1>3, <1>4, <1>5, <2>3
    <3>1. CASE i <= a
      BY <1>3, <1>5, <2>2, <3>0, <3>1
    <3>2. CASE ~(i <= a)
      <4>1. i - a \in 1 .. d /\ a + (i - a) = i
        BY <1>3, <1>4, <3>2
      <4>2. s[i] = bytes[i - a]
        BY <1>5, <2>2, <3>0, <3>2
      <4>3. bytes[i - a] = fs[a + (i - a)]
        BY <1>2, <4>1
      <4> QED
        BY <4>1, <4>2, <4>3
    <3> QED
      BY <3>1, <3>2
  <2>5. \A i \in (m + 1) .. Len(s) : s[i] \in MoreWords(f)
    <3> SUFFICES ASSUME NEW i \in (m + 1) .. Len(s) PROVE s[i] \in MoreWords(f)
      OBVIOUS
    <3>1. i - a \in (d + 1) .. Len(bytes) /\ ~(i <= a) /\ i \in 1 .. (Len(ps) + Len(bytes))
      BY <1>3, <1>4, <1>5, <2>2, <2>3
    <3>2. s[i] = bytes[i - a]
      BY <1>5, <2>2, <3>1
    <3> QED
      BY <1>2, <3>1, <3>2
  <2>6. /\ Len(s) >= m /\ Len(s) < n + RowBytes
        /\ k + 1 < c => Len(s) = m
    BY <1>2, <1>3, <1>4, <1>5, <2>2, <2>3, RowBytesNat
  <2>7. q.base = base /\ q.stack = s
    <3>1. base \in Nat
      BY <1>6, <1>7
    <3>2. s \in Seq(0 .. 255)
      BY <2>2
    <3> QED
      BY <3>1, <3>2, WithStack
  <2>8. k + 1 # 0
    OBVIOUS
  <2> HIDE DEF q
  <2>9. Shown(q, f, k + 1)
    BY <1>7, <2>4, <2>5, <2>6, <2>7, <2>8 DEF Shown, m, n, c, fs
  <2> QED
    BY <2>2, <2>9
<1>11. base \in Nat
  BY <1>6, <1>7
<1> QED
  BY <1>2, <1>9, <1>10, <1>11 DEF line, bytes, base, ps

LEMMA WithBase ==
  ASSUME NEW p \in ParsedFrames, NEW b \in Nat
  PROVE  LET q == [p EXCEPT !.base = b] IN
         /\ q \in ParsedFrames /\ q.num = p.num /\ q.func = p.func /\ q.stack = p.stack
<1> DEFINE S == Seq(0 .. 255)
           Q == Seq(STRING)
           R == Seq(Nat)
<1> HIDE DEF S, Q, R
<1>1. ParsedFrames = [num: Nat, func: Q, regs: R, base: Nat, stack: S]
  BY DEF ParsedFrames, S, Q, R
<1> QED
  BY <1>1

\* The convertor fails, over a word of a source that is no byte.
Fails(source) ==
  /\ refused' = TRUE /\ stage' = "written" /\ UNCHANGED <<scene, text, block, threads, file, cut, reading>>
  /\ \E t \in ToSet(source) : \E f \in ToSet(t.frames) : \E w \in MoreWords(f) : w > 255

AllStorable(source) == \A i \in 1 .. Len(source) : \A j \in 1 .. Len(source[i].frames) : Storable(source[i].frames[j])

LEMMA RowsStepP ==
  ASSUME NEW source \in Seq(SourceThreads), AllStorable(source), threads \in Seq(ParsedThreads),
         ParseLine, NEW k \in Nat, AtRows(text, block, threads, source, k)
  PROVE  Goes(source) \/ Fails(source)
<1> DEFINE p == Current(threads)
           f == CurrentSource(threads, source)
           B == TextBehind(threads, source)
           c == RowCount(f)
           n == Len(threads)
           j == FrameCount(threads)
<1>1. /\ InFrame(threads, source) /\ block = "Stack" /\ p.regs = f.regs
      /\ f.stack # <<>> /\ k \in 0 .. c /\ Shown(p, f, k)
      /\ text = RestRows(f, k, B)
  BY DEF AtRows
<1>2. /\ p \in ParsedFrames /\ f \in Frames /\ B \in Seq(Lines) /\ n > 0 /\ n \in Nat
      /\ j \in Nat /\ j > 0 /\ j <= Len(source[n].frames)
  BY <1>1, InFrameProperties
<1>3. n \in 1 .. Len(source) /\ j \in 1 .. Len(source[n].frames)
  <2>1. n \in 1 .. Len(source) /\ j \in 0 .. Len(source[n].frames)
    BY <1>1, OpenProperties DEF InFrame
  <2> HIDE DEF n, j
  <2> QED
    BY <1>2, <2>1
<1>4. Storable(f) /\ f \in ToSet(source[n].frames) /\ source[n] \in ToSet(source)
  <2>1. Storable(source[n].frames[j])
    BY <1>3 DEF AllStorable
  <2>2. source[n].frames \in Seq(Frames)
    BY <1>3, SourceElement
  <2>3. source[n].frames[j] \in ToSet(source[n].frames)
    <3> DEFINE s == source[n].frames
    <3>1. s \in Seq(Frames) /\ j \in 1 .. Len(s)
      BY <1>3, <2>2
    <3> HIDE DEF s, j
    <3>2. s[j] \in ToSet(s)
      BY <3>1 DEF ToSet
    <3> QED
      BY <3>2 DEF s
  <2>4. source[n] \in ToSet(source)
    BY <1>3 DEF ToSet
  <2> QED
    BY <2>1, <2>3, <2>4 DEF CurrentSource
<1>5. CASE k = c
  <2>1. text = Before(Other, Before(Other, B)) /\ Before(Other, B) \in Seq(Lines)
    <3> HIDE DEF f, B
    <3> QED
      BY <1>1, <1>2, <1>5, RowsStep, TwoOthers
  <2>2. This = Other /\ Tail(text) = Before(Other, B)
    BY <2>1, FirstLine, OtherType
  <2>3. Moves /\ threads' = threads /\ block' = "Thread"
    BY <1>1, <2>2, ParseStep, OtherKind
  <2>4. Whole(p, f)
    <3>1. NameShown(p, f)
      BY <1>1 DEF InFrame
    <3> HIDE DEF p, f
    <3> QED
      BY <1>1, <1>5, <3>1 DEF Whole
  <2>5. OpenThread(threads, source, j)
    BY <1>1, <2>4, Completed
  <2>6. AtFrame(text', block', threads', source)
    BY <1>2, <2>2, <2>3, <2>5 DEF AtFrame, Moves
  <2> QED
    BY <2>3, <2>6 DEF Goes, ParsingText
<1>6. CASE k # c
  <2> DEFINE line == RowLine(f, k)
             rest == RestRows(f, k + 1, B)
             bytes == Hex(RowWords(line))
             base == IF p.base = 0 THEN line.value ELSE p.base
             x == p.stack \o bytes
             q1 == [p EXCEPT !.base = base]
             q == StackSet(p, base, x)
             mid == [threads EXCEPT ![Len(threads)].frames[Len(threads[Len(threads)].frames)] = q1]
  <2>1. k < c /\ c \in Nat /\ k + 1 \in 0 .. c /\ k + 1 \in Nat
    <3>1. c \in Nat
      BY <1>2, RowCountNat
    <3> HIDE DEF c
    <3> QED
      BY <1>1, <1>6, <3>1
  <2>2. line \in Lines /\ text = Before(line, rest) /\ rest \in Seq(Lines)
    <3> HIDE DEF f, B
    <3> QED
      BY <1>1, <1>2, <2>1, RowsStep DEF RowLine
  <2>3. This = line /\ Tail(text) = rest
    <3> HIDE DEF line, rest
    <3> QED
      BY <2>2, FirstLine
  <2>4. /\ line.kind = "row"
        /\ (\E b \in ToSet(bytes) : b > 255) => \E w \in MoreWords(f) : w > 255
        /\ ~(\E b \in ToSet(bytes) : b > 255) =>
             base \in Nat /\ x \in Seq(0 .. 255) /\ Shown(q, f, k + 1)
    <3> HIDE DEF f, p
    <3> QED
      BY <1>1, <1>2, <1>4, <2>1, MoreRows
  <2>5. StackRow
    BY <1>1, <2>3, <2>4, ParseStep
  <2>6. CASE \E b \in ToSet(bytes) : b > 255
    <3>1. /\ refused' = TRUE /\ stage' = "written" /\ UNCHANGED <<scene, text, block, threads, file, cut, reading>>
      BY <2>3, <2>5, <2>6, RowStep
    <3>2. \E w \in MoreWords(f) : w > 255
      BY <2>4, <2>6
    <3> HIDE DEF f
    <3>3. Fails(source)
      BY <1>4, <3>1, <3>2 DEF Fails
    <3> QED
      BY <3>3
  <2>7. CASE ~(\E b \in ToSet(bytes) : b > 255)
    <3>1. /\ Moves /\ block' = "Stack"
          /\ threads' = [[threads EXCEPT
                   ![LastThread].frames[LastFrame].base =
                      IF @ = 0 THEN This.value ELSE @] EXCEPT
                   ![LastThread].frames[LastFrame].stack = @ \o bytes]
      BY <2>3, <2>5, <2>7, RowStep
    <3>2. base \in Nat /\ x \in Seq(0 .. 255) /\ Shown(q, f, k + 1)
      BY <2>4, <2>7
    <3>3. q1 \in ParsedFrames /\ q1.num = p.num /\ q1.func = p.func /\ q1.stack = p.stack
      <4> HIDE DEF p, base
      <4> QED
        BY <1>2, <3>2, WithBase
    <3>4. q \in ParsedFrames /\ q.num = p.num /\ q.func = p.func /\ q.regs = p.regs
      <4> HIDE DEF p, base, x
      <4> QED
        BY <1>2, <3>2, WithStack
    <3>5. q = [q1 EXCEPT !.stack = x]
      BY DEF StackSet
    <3>6. mid = [threads EXCEPT ![LastThread].frames[LastFrame].base = IF @ = 0 THEN This.value ELSE @]
      <4>1. p = threads[Len(threads)].frames[Len(threads[Len(threads)].frames)]
        BY DEF Current, FrameCount
      <4> HIDE DEF p, line
      <4> QED
        BY <2>3, <4>1 DEF LastThread, LastFrame
    <3> HIDE DEF q1, q, x, base
    <3>7. /\ mid \in Seq(ParsedThreads) /\ InFrame(mid, source) /\ Len(mid) = n /\ FrameCount(mid) = j
          /\ Current(mid) = q1 /\ CurrentSource(mid, source) = f /\ TextBehind(mid, source) = B
      BY <1>1, <3>3, StaysInFrame
    <3> HIDE DEF mid
    <3>8. threads' = [mid EXCEPT ![Len(mid)].frames[Len(mid[Len(mid)].frames)] = q]
      <4>1. q1 = mid[Len(mid)].frames[Len(mid[Len(mid)].frames)] /\ Len(mid[Len(mid)].frames) = j
        BY <3>7 DEF Current, FrameCount
      <4>2. LastThread = Len(mid) /\ LastFrame = Len(mid[Len(mid)].frames)
        BY <3>7, <4>1 DEF LastThread, LastFrame, FrameCount
      <4>3. threads' = [mid EXCEPT ![LastThread].frames[LastFrame].stack = @ \o bytes]
        BY <3>1, <3>6
      <4>4. x = q1.stack \o bytes
        BY <3>3 DEF x
      <4> HIDE DEF n, j, p, f, B, c, line, bytes
      <4>5. threads' = [mid EXCEPT ![Len(mid)].frames[Len(mid[Len(mid)].frames)].stack = @ \o bytes]
        BY <4>2, <4>3
      <4> QED
        BY <3>5, <4>1, <4>4, <4>5
    <3>9. /\ threads' \in Seq(ParsedThreads) /\ InFrame(threads', source) /\ Len(threads') > 0
          /\ Current(threads') = q /\ CurrentSource(threads', source) = f /\ TextBehind(threads', source) = B
      <4>1. q.num = q1.num /\ q.func = q1.func
        BY <3>3, <3>4
      <4> HIDE DEF f, B
      <4> QED
        BY <3>4, <3>7, <3>8, <4>1, StaysInFrame
    <3>10. text' = rest
      BY <2>3, <3>1 DEF Moves
    <3>11. AtRows(text', block', threads', source, k + 1)
      <4> HIDE DEF f, B, p
      <4> QED
        BY <1>1, <2>1, <3>1, <3>2, <3>4, <3>9, <3>10 DEF AtRows
    <3> QED
      BY <2>1, <3>1, <3>9, <3>11 DEF Goes, ParsingText
  <2> QED
    BY <2>6, <2>7
<1> QED
  BY <1>5, <1>6

\* A line that is parsed leaves the convertor in step with the text, or fails it.
LEMMA ParsingStep ==
  ASSUME NEW source \in Seq(SourceThreads), AllStorable(source), threads \in Seq(ParsedThreads),
         ParseLine, ParsingText(text, block, threads, source)
  PROVE  Goes(source) \/ Fails(source)
<1>1. ~AtEnd(text, threads, source)
  BY ParseStep DEF AtEnd
<1> QED
  BY <1>1, StartStep, ThreadStep, FrameStep, StackStep, RegisterStep, RowsStepP DEF ParsingText

\* Of the text only the end is no line.
LEMMA ParsingEnds ==
  ASSUME NEW source \in Seq(SourceThreads), NEW ts \in Seq(ParsedThreads), NEW b,
         ParsingText(<<>>, b, ts, source)
  PROVE  AllDone(ts, source) /\ Len(ts) = Len(source)
<1>0. \A x \in Lines : \A r \in Seq(Lines) : Before(x, r) # <<>>
  BY ConsType
<1>1. ~AtStart(<<>>, b, ts, source)
  <2>1. 0 \in 0 .. Len(source)
    OBVIOUS
  <2>2. RestThreads(source, 0) \in Seq(Lines)
    BY <2>1, SourceText
  <2> QED
    BY <1>0, <2>2, OtherType DEF AtStart
<1>2. ~AtThread(<<>>, b, ts, source)
  <2> SUFFICES ASSUME AtThread(<<>>, b, ts, source) PROVE FALSE
    OBVIOUS
  <2> DEFINE n == Len(ts)
  <2>1. n \in 0 .. Len(source) /\ <<>> = RestThreads(source, n) /\ Len(source) \in Nat
    BY DEF AtThread, AllDone
  <2>2. CASE n = Len(source)
    <3>1. RestThreads(source, n) = Before(Other, <<>>)
      BY <2>1, <2>2, SourceText
    <3> QED
      BY <1>0, <2>1, <3>1, OtherType, NoLines
  <2>3. CASE n # Len(source)
    <3> DEFINE t == source[n + 1]
               more == RestThreads(source, n + 1)
    <3>1. n < Len(source) /\ n + 1 \in 0 .. Len(source) /\ n + 1 \in 1 .. Len(source)
      BY <2>1, <2>3
    <3>2. t \in SourceThreads /\ more \in Seq(Lines)
      BY <3>1, SourceElement, SourceText
    <3>3. ThreadHead(t) \in Lines /\ RestThreads(source, n) = Before(ThreadHead(t), RestFrames(t, 0, more))
      BY <2>1, <3>1, SourceText
    <3> HIDE DEF t, more
    <3>4. RestFrames(t, 0, more) \in Seq(Lines)
      BY <3>2, ThreadText
    <3> QED
      BY <1>0, <2>1, <3>3, <3>4
  <2> QED
    BY <2>2, <2>3
<1>3. ~AtFrame(<<>>, b, ts, source)
  <2> SUFFICES ASSUME AtFrame(<<>>, b, ts, source) PROVE FALSE
    OBVIOUS
  <2> DEFINE n == Len(ts)
             s == source[n]
             j == FrameCount(ts)
             R == RestThreads(source, n)
             f == s.frames[j + 1]
             B == TextBehind(ts, source)
  <2>1. /\ OpenThread(ts, source, j) /\ (<<>> = B \/ <<>> = Before(Other, B))
    BY DEF AtFrame
  <2>2. /\ s \in SourceThreads /\ Len(s.frames) \in Nat /\ j \in 0 .. Len(s.frames)
        /\ R \in Seq(Lines) /\ B \in Seq(Lines) /\ n \in 1 .. Len(source)
    BY <2>1, OpenProperties
  <2>3. B = RestFrames(s, j, R)
    BY DEF TextBehind
  <2>4. <<>> = B
    BY <1>0, <2>1, <2>2, OtherType
  <2>5. CASE j = Len(s.frames)
    <3> HIDE DEF s, j, R, B
    <3>1. B = Before(Other, R)
      BY <2>2, <2>3, <2>5, FramesStep
    <3> QED
      BY <1>0, <2>2, <2>4, <3>1, OtherType
  <2>6. CASE j # Len(s.frames)
    <3>1. j < Len(s.frames) /\ j + 1 \in 0 .. Len(s.frames) /\ j + 1 \in 1 .. Len(s.frames)
      <4> HIDE DEF s, j
      <4> QED
        BY <2>2, <2>6
    <3>2. f \in Frames
      BY <2>2, <3>1, SourceElement
    <3> DEFINE B2 == RestFrames(s, j + 1, R)
    <3> HIDE DEF s, j, R, B
    <3>3. B2 \in Seq(Lines) /\ FrameHead(f) \in Lines /\ B = Before(FrameHead(f), RestRegisters(f, 0, B2))
      BY <2>2, <2>3, <3>1, FramesStep
    <3> HIDE DEF B2, f
    <3>4. RestRegisters(f, 0, B2) \in Seq(Lines)
      BY <3>2, <3>3, FrameText
    <3> QED
      BY <1>0, <2>4, <3>3, <3>4
  <2> QED
    BY <2>5, <2>6
<1>4. ~AtStack(<<>>, b, ts, source)
  <2> SUFFICES ASSUME AtStack(<<>>, b, ts, source) PROVE FALSE
    OBVIOUS
  <2> DEFINE f == CurrentSource(ts, source)
             B == TextBehind(ts, source)
             stack == RestStack(f, B)
  <2>1. InFrame(ts, source) /\ f.stack # <<>> /\ (<<>> = stack \/ <<>> = Before(Other, stack))
    BY DEF AtStack
  <2>2. f \in Frames /\ B \in Seq(Lines)
    BY <2>1, InFrameProperties
  <2> HIDE DEF f, B
  <2>3. 0 \in 0 .. RowCount(f)
    BY <2>2, RowCountNat
  <2>4. stack \in Seq(Lines) /\ RestRows(f, 0, B) \in Seq(Lines)
    BY <2>2, <2>3, FrameText, RowsStep
  <2>5. stack = Before(Contents0, RestRows(f, 0, B))
    BY <2>1 DEF RestStack
  <2> HIDE DEF stack
  <2> QED
    BY <1>0, <2>1, <2>4, <2>5, OtherType, Contents0Type
<1>5. ASSUME NEW k \in Nat PROVE ~AtRegisters(<<>>, b, ts, source, k)
  <2> SUFFICES ASSUME AtRegisters(<<>>, b, ts, source, k) PROVE FALSE
    OBVIOUS
  <2> DEFINE f == CurrentSource(ts, source)
             B == TextBehind(ts, source)
             c == RegisterCount(f.regs)
             line == RegisterLines(f.regs)[k + 1]
  <2>1. InFrame(ts, source) /\ k \in 0 .. c /\ <<>> = RestRegisters(f, k, B)
    BY DEF AtRegisters
  <2>2. f \in Frames /\ B \in Seq(Lines)
    BY <2>1, InFrameProperties
  <2> HIDE DEF f, B
  <2>3. RestStack(f, B) \in Seq(Lines) /\ Before(Other, RestStack(f, B)) \in Seq(Lines)
    BY <2>2, FrameText, TwoOthers
  <2>4. c \in Nat
    <3>1. f.regs \in Seq(Nat)
      BY <2>2, FrameType
    <3> QED
      BY <3>1, UptoNext
  <2>5. k = c => <<>> = Before(Other, Before(Other, RestStack(f, B)))
    BY <2>1, <2>2, RegistersStep
  <2>6. k < c => k + 1 \in 0 .. c
    <3> HIDE DEF c
    <3> QED
      BY <2>1, <2>4
  <2>7. k < c => line \in Lines /\ <<>> = Before(line, RestRegisters(f, k + 1, B)) /\ RestRegisters(f, k + 1, B) \in Seq(Lines)
    BY <2>1, <2>2, <2>6, RegistersStep
  <2>8. k = c \/ k < c
    <3> HIDE DEF c
    <3> QED
      BY <2>1, <2>4
  <2> HIDE DEF c, line
  <2> QED
    BY <1>0, <2>3, <2>5, <2>7, <2>8, OtherType
<1>6. ASSUME NEW k \in Nat PROVE ~AtRows(<<>>, b, ts, source, k)
  <2> SUFFICES ASSUME AtRows(<<>>, b, ts, source, k) PROVE FALSE
    OBVIOUS
  <2> DEFINE f == CurrentSource(ts, source)
             B == TextBehind(ts, source)
             c == RowCount(f)
             line == Rows(f)[k + 1]
  <2>1. InFrame(ts, source) /\ k \in 0 .. c /\ <<>> = RestRows(f, k, B)
    BY DEF AtRows
  <2>2. f \in Frames /\ B \in Seq(Lines) /\ Before(Other, B) \in Seq(Lines)
    BY <2>1, InFrameProperties, TwoOthers
  <2> HIDE DEF f, B
  <2>4. c \in Nat
    BY <2>2, RowCountNat
  <2>5. k = c => <<>> = Before(Other, Before(Other, B))
    BY <2>1, <2>2, RowsStep
  <2>6. k < c => k + 1 \in 0 .. c
    <3> HIDE DEF c
    <3> QED
      BY <2>1, <2>4
  <2>7. k < c => line \in Lines /\ <<>> = Before(line, RestRows(f, k + 1, B)) /\ RestRows(f, k + 1, B) \in Seq(Lines)
    BY <2>1, <2>2, <2>6, RowsStep
  <2>8. k = c \/ k < c
    <3> HIDE DEF c
    <3> QED
      BY <2>1, <2>4
  <2> HIDE DEF c, line
  <2> QED
    BY <1>0, <2>2, <2>5, <2>7, <2>8, OtherType
<1> QED
  BY <1>1, <1>2, <1>3, <1>4, <1>5, <1>6 DEF ParsingText, AtEnd

-----------------------------------------------------------------------------
(***************************************************************************)
(* The convertor's part of the invariant.                                  *)
(***************************************************************************)
LEMMA SceneSource ==
  ASSUME NEW s \in Scenes
  PROVE  /\ s.threads \in Seq(SourceThreads) /\ AllStorable(s.threads)
         /\ \A i \in 1 .. Len(s.threads) : Len(s.threads[i].frames) < Huge
         /\ s.limit \in Nat \cup {-1}
<1> DEFINE source == s.threads
<1>1. /\ source \in Seq(SourceThreads) /\ s.limit \in Nat \cup {-1}
      /\ \A t \in ToSet(source) : Len(t.frames) < Huge /\ \A f \in ToSet(t.frames) : Storable(f)
  BY ContextFileAssumption DEF SourceThreads
<1> HIDE DEF source
<1>2. ASSUME NEW i \in 1 .. Len(source) PROVE source[i] \in ToSet(source) /\ source[i].frames \in Seq(Frames)
  <2>1. source[i] \in ToSet(source)
    BY <1>1 DEF ToSet
  <2> QED
    BY <1>1, <2>1, SourceElement
<1>3. ASSUME NEW i \in 1 .. Len(source), NEW j \in 1 .. Len(source[i].frames) PROVE Storable(source[i].frames[j])
  <2> DEFINE fs == source[i].frames
  <2>1. fs \in Seq(Frames) /\ j \in 1 .. Len(fs)
    BY <1>2
  <2>2. \A f \in ToSet(fs) : Storable(f)
    BY <1>1, <1>2
  <2> HIDE DEF fs
  <2>3. fs[j] \in ToSet(fs)
    BY <2>1 DEF ToSet
  <2>4. Storable(fs[j])
    BY <2>2, <2>3
  <2> QED
    BY <2>4 DEF fs
<1>4. AllStorable(source)
  BY <1>3 DEF AllStorable
<1>5. \A i \in 1 .. Len(source) : Len(source[i].frames) < Huge
  BY <1>1, <1>2
<1> QED
  BY <1>1, <1>4, <1>5 DEF source

\* What a scene holds that makes the convertor fail.
NoBytes(source) == \E t \in ToSet(source) : \E f \in ToSet(t.frames) : \E w \in MoreWords(f) : w > 255

ParserInv ==
  /\ scene \in Scenes /\ threads \in Seq(ParsedThreads)
  /\ stage = "parse" => ~refused /\ ParsingText(text, block, threads, scene.threads)
  /\ refused \in BOOLEAN /\ (refused => NoBytes(scene.threads))
  /\ stage # "parse" /\ ~refused => AllDone(threads, scene.threads) /\ Len(threads) = Len(scene.threads)

LEMMA ParserInit ==
  ASSUME FileInit
  PROVE  ParserInv
<1>1. /\ scene \in Scenes /\ stage = "parse" /\ text = Text(scene.threads) /\ block = "Info"
      /\ threads = <<>> /\ refused = FALSE
  BY DEF FileInit
<1> DEFINE source == scene.threads
<1>2. source \in Seq(SourceThreads)
  BY <1>1, SceneSource
<1>3. AtStart(text, block, threads, source)
  <2>1. 0 \in 0 .. Len(source)
    BY <1>2
  <2> QED
    BY <1>1, <1>2, <2>1, SourceText DEF AtStart
<1>4. <<>> \in Seq(ParsedThreads)
  OBVIOUS
<1>5. stage = "parse" /\ threads \in Seq(ParsedThreads)
  BY <1>1, <1>4
<1>6. ParsingText(text, block, threads, scene.threads)
  BY <1>3 DEF ParsingText
<1> QED
  BY <1>1, <1>5, <1>6 DEF ParserInv

\* The steps behind the parser.
Later == Write \/ Cut \/ LoadFile

LEMMA LaterStep ==
  ASSUME Later
  PROVE  /\ UNCHANGED <<scene, text, block, threads, refused>> /\ stage' # "parse"
         /\ stage = "parse" => Write
<1> USE DEF parsing, reading
<1>1. CASE Write
  BY <1>1 DEF Write
<1>2. CASE Cut
  BY <1>2 DEF Cut
<1>3. CASE LoadFile
  <2>1. CASE ReadHeader
    BY <2>1 DEF ReadHeader
  <2>2. CASE ReadThread
    <3>1. \A n : AfterThread(n) # "parse"
      BY DEF AfterThread
    <3> QED
      BY <2>2, <3>1 DEF ReadThread
  <2>3. CASE ReadFrame
    BY <2>3 DEF ReadFrame
  <2>4. CASE ReadRegisters
    BY <2>4 DEF ReadRegisters
  <2>5. CASE ReadStack
    BY <2>5 DEF ReadStack
  <2> QED
    BY <1>3, <2>1, <2>2, <2>3, <2>4, <2>5 DEF LoadFile
<1> QED
  BY <1>1, <1>2, <1>3 DEF Later

LEMMA FileSteps == FileNext <=> ParseLine \/ Later
  BY DEF FileNext, Convert, ParseLine, Later

LEMMA ParserStep ==
  ASSUME ParserInv, FileNext
  PROVE  ParserInv'
<1> DEFINE source == scene.threads
<1>1. scene \in Scenes /\ source \in Seq(SourceThreads) /\ AllStorable(source) /\ threads \in Seq(ParsedThreads)
  BY SceneSource DEF ParserInv
<1>2. CASE ParseLine
  <2>1. stage = "parse" /\ ~refused
    BY <1>2, ParseStep
  <2>2. ParsingText(text, block, threads, source)
    BY <2>1 DEF ParserInv
  <2>3. Goes(source) \/ Fails(source)
    BY <1>1, <1>2, <2>2, ParsingStep
  <2>4. CASE Goes(source)
    <3>1. scene' = scene /\ stage' = stage /\ refused' = refused
      BY <2>4 DEF Goes, Moves
    <3> QED
      BY <1>1, <2>1, <2>4, <3>1 DEF Goes, ParserInv
  <2>5. CASE Fails(source)
    BY <1>1, <2>5 DEF Fails, ParserInv, NoBytes
  <2> QED
    BY <2>3, <2>4, <2>5
<1>3. CASE Later
  <2>1. /\ UNCHANGED <<scene, text, block, threads, refused>> /\ stage' # "parse"
        /\ stage = "parse" => Write
    BY <1>3, LaterStep
  <2>2. stage = "parse" => AllDone(threads, source) /\ Len(threads) = Len(source)
    <3> HAVE stage = "parse"
    <3>1. text = <<>>
      BY <2>1 DEF Write
    <3>2. ParsingText(<<>>, block, threads, source)
      BY <3>1 DEF ParserInv
    <3> QED
      BY <1>1, <3>2, ParsingEnds
  <2> QED
    BY <1>1, <2>1, <2>2 DEF ParserInv
<1> QED
  BY <1>2, <1>3, FileSteps

\* A stack that is whole begins with that of the source.
LEMMA WholeStack ==
  ASSUME NEW p \in ParsedFrames, NEW f \in Frames, Whole(p, f)
  PROVE  /\ IsPrefix(f.stack, p.stack)
         /\ \A j \in (Len(f.stack) + 1) .. Len(p.stack) : p.stack[j] \in MoreWords(f)
         /\ f.stack # <<>> => p.base = f.base
         /\ Len(p.stack) < Len(f.stack) + RowBytes
         /\ Len(f.stack) <= Len(p.stack)
         /\ \A i \in 1 .. Len(f.stack) : p.stack[i] = f.stack[i]
<1> DEFINE s == f.stack
           u == p.stack
           n == Len(s)
<1>1. s \in Seq(0 .. 255) /\ u \in Seq(0 .. 255) /\ n \in Nat /\ Len(u) \in Nat
  <2>1. s \in Seq(0 .. 255) /\ u \in Seq(0 .. 255)
    BY FrameType, ParsedType
  <2> HIDE DEF s, u
  <2> QED
    BY <2>1
<1>2. /\ s # <<>> => p.base = f.base
      /\ n <= Len(u) /\ Len(u) < n + RowBytes
      /\ \A i \in 1 .. n : u[i] = s[i]
      /\ \A i \in (n + 1) .. Len(u) : u[i] \in MoreWords(f)
  <2>1. CASE s = <<>>
    <3>1. u = <<>> /\ n = 0 /\ Len(u) = 0
      BY <2>1 DEF Whole
    <3> HIDE DEF s, u, n
    <3> QED
      BY <2>1, <3>1, RowBytesNat
  <2>2. CASE s # <<>>
    <3>1. RowCount(f) \in Nat /\ RowCount(f) > 0
      BY <2>2, RowCountNat
    <3>2. Shown(p, f, RowCount(f))
      BY <2>2 DEF Whole
    <3>3. ~(RowCount(f) < RowCount(f)) /\ RowCount(f) # 0
      BY <3>1
    <3> QED
      BY <1>1, <3>2, <3>3 DEF Shown
  <2> QED
    BY <2>1, <2>2
<1> HIDE DEF s, u, n
<1>3. SubSeq(s, 1, n) = SubSeq(u, 1, n)
  <2>1. SubSeq(s, 1, n) = s
    BY <1>1, SubSeqFull DEF n
  <2>2. \A i \in 1 .. n : u[i] \in 0 .. 255
    <3> SUFFICES ASSUME NEW i \in 1 .. n PROVE u[i] \in 0 .. 255
      OBVIOUS
    <3>1. i \in 1 .. Len(u)
      BY <1>1, <1>2
    <3> QED
      BY <1>1, <3>1, ElementOfSeq
  <2>3. /\ SubSeq(u, 1, n) \in Seq(0 .. 255)
        /\ Len(SubSeq(u, 1, n)) = IF 1 <= n THEN n - 1 + 1 ELSE 0
        /\ \A i \in 1 .. (n - 1 + 1) : SubSeq(u, 1, n)[i] = u[1 + i - 1]
    BY <1>1, <1>2, <2>2, SubSeqProperties
  <2>4. Len(SubSeq(u, 1, n)) = n
    BY <1>1, <2>3
  <2>5. ASSUME NEW i \in 1 .. n PROVE SubSeq(u, 1, n)[i] = s[i]
    <3>1. i \in 1 .. (n - 1 + 1) /\ 1 + i - 1 = i
      BY <1>1
    <3>2. SubSeq(u, 1, n)[i] = u[i]
      BY <2>3, <3>1
    <3> QED
      BY <1>2, <3>2
  <2> DEFINE v == SubSeq(u, 1, n)
  <2>6. v \in Seq(0 .. 255) /\ Len(v) = Len(s) /\ \A i \in 1 .. Len(s) : v[i] = s[i]
    BY <2>3, <2>4, <2>5 DEF n
  <2> HIDE DEF v
  <2>7. v = s
    BY <1>1, <2>6, SeqEqual
  <2> QED
    BY <2>1, <2>7 DEF v
<1>4. IsPrefix(s, u)
  BY <1>2, <1>3 DEF IsPrefix, n
<1> QED
  BY <1>2, <1>4 DEF s, u, n

LEMMA ParsedHolds == ParserInv => ParsedAsPrinted
<1> SUFFICES ASSUME ParserInv PROVE ParsedAsPrinted
  OBVIOUS
<1> DEFINE source == scene.threads
<1>1. scene \in Scenes /\ source \in Seq(SourceThreads) /\ threads \in Seq(ParsedThreads)
  BY SceneSource DEF ParserInv
<1>2. refused => \E t \in ToSet(scene.threads) : \E f \in ToSet(t.frames) : \E w \in MoreWords(f) : w > 255
  BY DEF ParserInv, NoBytes
<1>3. ASSUME stage = "written", ~refused
      PROVE  /\ Len(threads) = Len(scene.threads)
             /\ \A i \in DOMAIN threads :
                  LET parsed == threads[i]
                      s == scene.threads[i] IN
                  /\ parsed.tid = s.tid /\ parsed.crashed = s.crashed
                  /\ Len(parsed.frames) = Len(s.frames)
                  /\ \A k \in DOMAIN parsed.frames :
                       LET p == parsed.frames[k]
                           f == s.frames[k] IN
                       /\ p.num = f.num /\ p.func = f.func /\ p.regs = f.regs
                       /\ f.stack # <<>> => p.base = f.base
                       /\ IsPrefix(f.stack, p.stack)
                       /\ \A j \in (Len(f.stack) + 1) .. Len(p.stack) : p.stack[j] \in MoreWords(f)
  <2>1. /\ Len(threads) = Len(source) /\ \A i \in 1 .. Len(threads) : ThreadDone(threads[i], source[i])
    BY <1>3 DEF ParserInv, AllDone
  <2>2. ASSUME NEW i \in DOMAIN threads
        PROVE  LET parsed == threads[i]
                      s == source[i] IN
                  /\ parsed.tid = s.tid /\ parsed.crashed = s.crashed
                  /\ Len(parsed.frames) = Len(s.frames)
                  /\ \A k \in DOMAIN parsed.frames :
                       LET p == parsed.frames[k]
                           f == s.frames[k] IN
                       /\ p.num = f.num /\ p.func = f.func /\ p.regs = f.regs
                       /\ f.stack # <<>> => p.base = f.base
                       /\ IsPrefix(f.stack, p.stack)
                       /\ \A j \in (Len(f.stack) + 1) .. Len(p.stack) : p.stack[j] \in MoreWords(f)
    <3> DEFINE t == threads[i]
               s == source[i]
               ps == t.frames
               fs == s.frames
    <3>1. i \in 1 .. Len(threads) /\ i \in 1 .. Len(source) /\ t \in ParsedThreads
      BY <1>1, <2>1
    <3>2. t.tid = s.tid /\ t.crashed = s.crashed /\ Len(ps) = Len(fs) /\ FramesShown(ps, fs, Len(fs))
      BY <2>1, <3>1 DEF ThreadDone, ThreadSame
    <3>3. ps \in Seq(ParsedFrames) /\ fs \in Seq(Frames)
      BY <1>1, <3>1, SourceElement, ParsedHasFrames DEF HasFrames
    <3> HIDE DEF t, s, ps, fs
    <3>4. ASSUME NEW k \in DOMAIN ps
          PROVE  LET p == ps[k]
                     f == fs[k] IN
                       /\ p.num = f.num /\ p.func = f.func /\ p.regs = f.regs
                       /\ f.stack # <<>> => p.base = f.base
                       /\ IsPrefix(f.stack, p.stack)
                       /\ \A j \in (Len(f.stack) + 1) .. Len(p.stack) : p.stack[j] \in MoreWords(f)
      <4> DEFINE p == ps[k]
                 f == fs[k]
      <4>1. k \in 1 .. Len(fs) /\ p \in ParsedFrames /\ f \in Frames
        BY <3>2, <3>3
      <4>2. Whole(p, f)
        BY <3>2, <4>1 DEF FramesShown
      <4> HIDE DEF p, f
      <4>3. p.num = f.num /\ p.func = f.func /\ p.regs = f.regs
        BY <4>2 DEF Whole, NameShown
      <4>4. /\ f.stack # <<>> => p.base = f.base
            /\ IsPrefix(f.stack, p.stack)
            /\ \A j \in (Len(f.stack) + 1) .. Len(p.stack) : p.stack[j] \in MoreWords(f)
        BY <4>1, <4>2, WholeStack
      <4> QED
        BY <4>3, <4>4 DEF p, f
    <3> QED
      BY <3>2, <3>4 DEF t, s, ps, fs
  <2> QED
    BY <2>1, <2>2
<1> QED
  BY <1>2, <1>3 DEF ParsedAsPrinted

-----------------------------------------------------------------------------
(***************************************************************************)
(* The fields of the context file.                                         *)
(***************************************************************************)
NameValues == Seq(STRING \cup {"and more"})
Bytes == Seq(0 .. 255)
FieldKinds == {"header", "tid", "crashed", "frames size", "num", "func size", "func", "regs size", "reg",
               "base", "stack size", "stack"}
FieldValues == Nat \cup BOOLEAN \cup NameValues \cup Bytes
Fields == [kind: FieldKinds, value: FieldValues]

LoadedFrames == [num: Nat, func: NameValues, regs: Seq(Nat), base: Nat, stack: Bytes]
LoadedThreads == [tid: Nat, crashed: BOOLEAN \cup Nat, size: Nat, frames: Seq(LoadedFrames)]

LEMMA FieldType ==
  ASSUME NEW kind \in FieldKinds, NEW value \in FieldValues
  PROVE  Field(kind, value) \in Fields /\ Field(kind, value).kind = kind /\ Field(kind, value).value = value
  BY DEF Field, Fields

LEMMA SeqWider ==
  ASSUME NEW S, NEW T, S \subseteq T, NEW s \in Seq(S)
  PROVE  s \in Seq(T)
<1>1. \A i \in 1 .. Len(s) : s[i] \in T
  OBVIOUS
<1> QED
  BY <1>1, SeqNarrow

LEMMA LoadedType ==
  ASSUME NEW f \in LoadedFrames
  PROVE  /\ f.num \in Nat /\ f.func \in NameValues /\ f.regs \in Seq(Nat) /\ f.base \in Nat /\ f.stack \in Bytes
  BY DEF LoadedFrames

LEMMA ParsedLoaded ==
  ASSUME NEW f \in ParsedFrames
  PROVE  f \in LoadedFrames
<1>1. f.func \in NameValues
  <2>1. f.func \in Seq(STRING)
    BY ParsedType
  <2>2. STRING \subseteq STRING \cup {"and more"}
    OBVIOUS
  <2> QED
    BY <2>1, <2>2, SeqWider DEF NameValues
<1>2. f.num \in Nat /\ f.regs \in Seq(Nat) /\ f.base \in Nat /\ f.stack \in Bytes
  BY ParsedType DEF Bytes
<1>3. f = [num |-> f.num, func |-> f.func, regs |-> f.regs, base |-> f.base, stack |-> f.stack]
  <2> DEFINE S == Seq(0 .. 255)
             Q == Seq(STRING)
  <2> HIDE DEF S, Q
  <2>1. f \in [num: Nat, func: Q, regs: Seq(Nat), base: Nat, stack: S]
    BY DEF ParsedFrames, S, Q
  <2> QED
    BY <2>1
<1> QED
  BY <1>1, <1>2, <1>3 DEF LoadedFrames

\* The parts a frame and a thread are read in.
NameFields(f) == <<Field("num", f.num), Field("func size", 1), Field("func", f.func)>>
RegsFields(rs) == <<Field("regs size", Len(rs))>> \o [k \in DOMAIN rs |-> Field("reg", rs[k])]
StackFields(b, s) == <<Field("base", b), Field("stack size", Len(s)), Field("stack", s)>>
HeadFields(tid, crashed, size) == <<Field("tid", tid), Field("crashed", crashed), Field("frames size", size)>>

LEMMA OneType ==
  ASSUME NEW S, NEW a \in S
  PROVE  <<a>> \in Seq(S) /\ Len(<<a>>) = 1 /\ <<a>>[1] = a
  OBVIOUS

LEMMA FieldsOf ==
  ASSUME NEW rs \in Seq(Nat)
  PROVE  LET t == [k \in DOMAIN rs |-> Field("reg", rs[k])] IN
         /\ t \in Seq(Fields) /\ Len(t) = Len(rs) /\ Len(rs) \in Nat
         /\ \A k \in 1 .. Len(rs) : t[k] = Field("reg", rs[k])
         /\ Field("regs size", Len(rs)) \in Fields
<1> DEFINE n == Len(rs)
<1>1. n \in Nat /\ DOMAIN rs = 1 .. n
  OBVIOUS
<1>2. \A k \in 1 .. n : rs[k] \in FieldValues
  BY DEF FieldValues
<1>3. \A k \in 1 .. n : Field("reg", rs[k]) \in Fields
  BY <1>2, FieldType DEF FieldKinds
<1>4. Field("regs size", n) \in Fields
  <2>1. n \in FieldValues
    BY <1>1 DEF FieldValues
  <2> QED
    BY <2>1, FieldType DEF FieldKinds
<1> DEFINE t == [k \in 1 .. n |-> Field("reg", rs[k])]
<1> HIDE DEF n
<1>5. \A k \in 1 .. n : t[k] = Field("reg", rs[k])
  OBVIOUS
<1>6. t \in Seq(Fields) /\ Len(t) = n
  BY <1>1, <1>3
<1>7. [k \in DOMAIN rs |-> Field("reg", rs[k])] = t
  BY <1>1
<1> HIDE DEF t
<1> QED
  BY <1>1, <1>4, <1>5, <1>6, <1>7 DEF n

LEMMA ThreeType ==
  ASSUME NEW S, NEW a \in S, NEW b \in S, NEW c \in S
  PROVE  /\ <<a, b, c>> \in Seq(S) /\ Len(<<a, b, c>>) = 3
         /\ <<a, b, c>>[1] = a /\ <<a, b, c>>[2] = b /\ <<a, b, c>>[3] = c
  OBVIOUS

LEMMA NameFieldsType ==
  ASSUME NEW f \in LoadedFrames
  PROVE  /\ NameFields(f) \in Seq(Fields) /\ Len(NameFields(f)) = 3
         /\ NameFields(f)[1] = Field("num", f.num) /\ NameFields(f)[2] = Field("func size", 1)
         /\ NameFields(f)[3] = Field("func", f.func)
<1>1. f.num \in FieldValues /\ 1 \in FieldValues /\ f.func \in FieldValues
  BY LoadedType DEF FieldValues
<1>2. Field("num", f.num) \in Fields /\ Field("func size", 1) \in Fields /\ Field("func", f.func) \in Fields
  BY <1>1, FieldType DEF FieldKinds
<1> QED
  BY <1>2, ThreeType DEF NameFields

LEMMA RegsFieldsType ==
  ASSUME NEW rs \in Seq(Nat)
  PROVE  /\ RegsFields(rs) \in Seq(Fields) /\ Len(RegsFields(rs)) = Len(rs) + 1 /\ Len(rs) \in Nat
         /\ RegsFields(rs)[1] = Field("regs size", Len(rs))
         /\ \A k \in 1 .. Len(rs) : RegsFields(rs)[k + 1] = Field("reg", rs[k])
<1> DEFINE n == Len(rs)
           o == <<Field("regs size", n)>>
           t == [k \in DOMAIN rs |-> Field("reg", rs[k])]
<1>1. /\ n \in Nat /\ Field("regs size", n) \in Fields
      /\ t \in Seq(Fields) /\ Len(t) = n /\ \A k \in 1 .. n : t[k] = Field("reg", rs[k])
  BY FieldsOf
<1>2. n \in Nat
  BY <1>1
<1>4. o \in Seq(Fields) /\ Len(o) = 1 /\ o[1] = Field("regs size", n)
  BY <1>1, OneType
<1>6. RegsFields(rs) = o \o t
  BY DEF RegsFields, n
<1> HIDE DEF o, t, n
<1> DEFINE u == o \o t
<1>7. /\ u \in Seq(Fields) /\ Len(u) = 1 + n
      /\ \A i \in 1 .. (1 + n) : u[i] = IF i <= 1 THEN o[i] ELSE t[i - 1]
  <2>1. /\ o \o t \in Seq(Fields) /\ Len(o \o t) = Len(o) + Len(t)
        /\ \A i \in 1 .. Len(o) + Len(t) : (o \o t)[i] = IF i <= Len(o) THEN o[i] ELSE t[i - Len(o)]
    BY <1>1, <1>4, ConcatProperties, Zenon
  <2> QED
    BY <1>1, <1>4, <2>1
<1>8. RegsFields(rs) = u
  BY <1>6
<1> HIDE DEF u
<1>9. u[1] = Field("regs size", n)
  <2>1. 1 \in 1 .. (1 + n) /\ 1 <= 1
    BY <1>2
  <2>2. u[1] = o[1]
    BY <1>7, <2>1
  <2> QED
    BY <1>4, <2>2
<1>10. ASSUME NEW k \in 1 .. n PROVE u[k + 1] = Field("reg", rs[k])
  <2>1. k + 1 \in 1 .. (1 + n) /\ ~(k + 1 <= 1) /\ (k + 1) - 1 = k
    BY <1>2
  <2>2. u[k + 1] = t[k]
    BY <1>7, <2>1
  <2> QED
    BY <1>1, <2>2
<1>11. u \in Seq(Fields) /\ Len(u) = n + 1
  <2>1. 1 + n = n + 1
    BY <1>2
  <2> QED
    BY <1>7, <2>1
<1> QED
  BY <1>1, <1>8, <1>9, <1>10, <1>11 DEF n

LEMMA StackFieldsType ==
  ASSUME NEW b \in Nat, NEW s \in Bytes
  PROVE  /\ StackFields(b, s) \in Seq(Fields) /\ Len(StackFields(b, s)) = 3 /\ Len(s) \in Nat
         /\ StackFields(b, s)[1] = Field("base", b) /\ StackFields(b, s)[2] = Field("stack size", Len(s))
         /\ StackFields(b, s)[3] = Field("stack", s)
<1>0. Len(s) \in Nat
  BY DEF Bytes
<1>1. b \in FieldValues /\ Len(s) \in FieldValues /\ s \in FieldValues
  BY <1>0 DEF FieldValues
<1>2. Field("base", b) \in Fields /\ Field("stack size", Len(s)) \in Fields /\ Field("stack", s) \in Fields
  BY <1>1, FieldType DEF FieldKinds
<1> QED
  BY <1>0, <1>2, ThreeType DEF StackFields

LEMMA HeadFieldsType ==
  ASSUME NEW tid \in Nat, NEW crashed \in BOOLEAN \cup Nat, NEW size \in Nat
  PROVE  /\ HeadFields(tid, crashed, size) \in Seq(Fields) /\ Len(HeadFields(tid, crashed, size)) = 3
         /\ HeadFields(tid, crashed, size)[1] = Field("tid", tid)
         /\ HeadFields(tid, crashed, size)[2] = Field("crashed", crashed)
         /\ HeadFields(tid, crashed, size)[3] = Field("frames size", size)
<1>1. tid \in FieldValues /\ crashed \in FieldValues /\ size \in FieldValues
  BY DEF FieldValues
<1>2. Field("tid", tid) \in Fields /\ Field("crashed", crashed) \in Fields /\ Field("frames size", size) \in Fields
  BY <1>1, FieldType DEF FieldKinds
<1> QED
  BY <1>2, ThreeType DEF HeadFields

LEMMA FrameFieldsParts ==
  ASSUME NEW f \in LoadedFrames
  PROVE  /\ FrameFields(f) = Cat(Cat(NameFields(f), RegsFields(f.regs)), StackFields(f.base, f.stack))
         /\ FrameFields(f) \in Seq(Fields)
<1> DEFINE a == NameFields(f)
           o == <<Field("regs size", Len(f.regs))>>
           t == [k \in DOMAIN f.regs |-> Field("reg", f.regs[k])]
           c == StackFields(f.base, f.stack)
           four == <<Field("num", f.num), Field("func size", 1), Field("func", f.func), Field("regs size", Len(f.regs))>>
<1>1. a \in Seq(Fields) /\ c \in Seq(Fields) /\ RegsFields(f.regs) \in Seq(Fields)
  BY LoadedType, NameFieldsType, RegsFieldsType, StackFieldsType
<1>2. o \in Seq(Fields) /\ t \in Seq(Fields)
  <2>1. f.regs \in Seq(Nat)
    BY LoadedType
  <2> QED
    BY <2>1, FieldsOf, OneType
<1>3. four = Cat(a, o)
  <2> DEFINE w == Field("num", f.num)
             x == Field("func size", 1)
             y == Field("func", f.func)
             z == Field("regs size", Len(f.regs))
  <2> HIDE DEF w, x, y, z
  <2>1. <<w, x, y, z>> = <<w, x, y>> \o <<z>>
    OBVIOUS
  <2> QED
    BY <2>1 DEF Cat, NameFields, w, x, y, z
<1>4. FrameFields(f) = Cat(Cat(four, t), c)
  BY DEF FrameFields, StackFields, Cat
<1>5. RegsFields(f.regs) = Cat(o, t)
  BY DEF RegsFields, Cat
<1> HIDE DEF a, o, t, c, four
<1>6. Cat(Cat(a, o), t) = Cat(a, Cat(o, t))
  BY <1>1, <1>2, CatAssociative
<1>7. Cat(a, RegsFields(f.regs)) \in Seq(Fields) /\ Cat(Cat(a, RegsFields(f.regs)), c) \in Seq(Fields)
  BY <1>1, CatType
<1> QED
  BY <1>3, <1>4, <1>5, <1>6, <1>7 DEF a, c

-----------------------------------------------------------------------------
(***************************************************************************)
(* What is still to be read.                                               *)
(***************************************************************************)
\* r is what full holds behind its first p elements.
Remains(full, p, r) == p \in 0 .. Len(full) /\ From(full, p) = r

LEMMA RemainsCat ==
  ASSUME NEW S, NEW full \in Seq(S), NEW s \in Seq(S), NEW r \in Seq(S), NEW p, Remains(full, p, Cat(s, r))
  PROVE  /\ p \in Nat /\ p + Len(s) <= Len(full) /\ Len(full) \in Nat /\ Len(s) \in Nat
         /\ Remains(full, p + Len(s), r)
         /\ \A q \in 1 .. Len(s) : full[p + q] = s[q]
<1> DEFINE n == Len(full)
           m == Len(s)
           l == Len(r)
           u == s \o r
           v == From(full, p)
           w == From(full, p + m)
<1>1. p \in 0 .. n /\ n \in Nat /\ m \in Nat /\ l \in Nat /\ v = u
  BY DEF Remains, Cat
<1>2. u \in Seq(S) /\ Len(u) = m + l /\ \A i \in 1 .. (m + l) : u[i] = IF i <= m THEN s[i] ELSE r[i - m]
  BY ConcatProperties
<1>3. Len(v) = n - p /\ \A i \in 1 .. (n - p) : v[i] = full[p + i]
  BY <1>1, FromProperties
<1> HIDE DEF n, m, l, u, v
<1>4. n - p = m + l
  BY <1>1, <1>2, <1>3
<1>5. p + m \in 0 .. n
  BY <1>1, <1>4
<1>6. ASSUME NEW q \in 1 .. m PROVE full[p + q] = s[q]
  <2>1. q \in 1 .. (m + l) /\ q \in 1 .. (n - p) /\ q <= m
    BY <1>1, <1>4
  <2>2. v[q] = full[p + q] /\ u[q] = s[q]
    BY <1>2, <1>3, <2>1
  <2> QED
    BY <1>1, <2>2
<1>7. w \in Seq(S) /\ Len(w) = n - (p + m) /\ \A i \in 1 .. (n - (p + m)) : w[i] = full[(p + m) + i]
  BY <1>5, FromProperties DEF n
<1> HIDE DEF w
<1>8. Len(w) = l
  BY <1>1, <1>4, <1>7
<1>9. \A i \in 1 .. l : w[i] = r[i]
  <2> SUFFICES ASSUME NEW i \in 1 .. l PROVE w[i] = r[i]
    OBVIOUS
  <2>1. /\ i \in 1 .. (n - (p + m)) /\ m + i \in 1 .. (m + l) /\ m + i \in 1 .. (n - p)
        /\ ~(m + i <= m) /\ (m + i) - m = i /\ (p + m) + i = p + (m + i)
    BY <1>1, <1>4
  <2>2. w[i] = full[p + (m + i)]
    BY <1>7, <2>1
  <2>3. v[m + i] = full[p + (m + i)]
    BY <1>3, <2>1
  <2>4. u[m + i] = r[i]
    BY <1>2, <2>1
  <2> QED
    BY <1>1, <2>2, <2>3, <2>4
<1>10. w = r
  BY <1>7, <1>8, <1>9, SeqEqual DEF l
<1> QED
  BY <1>1, <1>5, <1>6, <1>10 DEF Remains, n, m, w

LEMMA RemainsNothing ==
  ASSUME NEW S, NEW full \in Seq(S), NEW p, Remains(full, p, <<>>)
  PROVE  p = Len(full)
<1>1. p \in 0 .. Len(full) /\ From(full, p) = <<>> /\ Len(full) \in Nat
  BY DEF Remains
<1>2. Len(From(full, p)) = Len(full) - p
  BY <1>1, FromProperties
<1>3. Len(<<>>) = 0
  OBVIOUS
<1>4. Len(full) - p = 0
  BY <1>1, <1>2, <1>3
<1> QED
  BY <1>1, <1>4

\* The frames of t behind the first j, and r; the threads behind the first i.
FrameParts(fs) == [k \in DOMAIN fs |-> FrameFields(fs[k])]
FramesAhead(fs, j, r) == Cat(FlattenSeq(From(FrameParts(fs), j)), r)
ThreadParts(ws) == [k \in DOMAIN ws |-> ThreadFields(ws[k])]
ThreadsAhead(ws, i) == Cat(FlattenSeq(From(ThreadParts(ws), i)), <<>>)

LEMMA NoFields == <<>> \in Seq(Fields)
  OBVIOUS

LEMMA FramePartsShape ==
  ASSUME NEW fs \in Seq(LoadedFrames)
  PROVE  /\ FrameParts(fs) \in Seq(Seq(Fields)) /\ Len(FrameParts(fs)) = Len(fs) /\ Len(fs) \in Nat
         /\ \A k \in 1 .. Len(fs) : FrameParts(fs)[k] = FrameFields(fs[k]) /\ FrameFields(fs[k]) \in Seq(Fields)
                                      /\ fs[k] \in LoadedFrames
<1> DEFINE F == FrameParts(fs)
<1>1. DOMAIN fs = 1 .. Len(fs) /\ Len(fs) \in Nat /\ \A k \in 1 .. Len(fs) : fs[k] \in LoadedFrames
  OBVIOUS
<1>2. \A k \in 1 .. Len(fs) : FrameFields(fs[k]) \in Seq(Fields)
  BY <1>1, FrameFieldsParts
<1>3. F = [k \in 1 .. Len(fs) |-> FrameFields(fs[k])]
  BY <1>1 DEF FrameParts
<1> HIDE DEF F
<1>4. F \in Seq(Seq(Fields)) /\ Len(F) = Len(fs) /\ \A k \in 1 .. Len(fs) : F[k] = FrameFields(fs[k])
  BY <1>1, <1>2, <1>3
<1> QED
  BY <1>1, <1>2, <1>4 DEF F

LEMMA FramesAheadStep ==
  ASSUME NEW fs \in Seq(LoadedFrames), NEW j \in 0 .. Len(fs), NEW r \in Seq(Fields)
  PROVE  /\ FramesAhead(fs, j, r) \in Seq(Fields)
         /\ j = Len(fs) => FramesAhead(fs, j, r) = r
         /\ j < Len(fs) =>
              LET f == fs[j + 1] IN
              /\ f \in LoadedFrames /\ FramesAhead(fs, j + 1, r) \in Seq(Fields)
              /\ FramesAhead(fs, j, r) =
                   Cat(NameFields(f), Cat(RegsFields(f.regs), Cat(StackFields(f.base, f.stack), FramesAhead(fs, j + 1, r))))
<1> DEFINE F == FrameParts(fs)
           n == Len(fs)
<1>1. /\ F \in Seq(Seq(Fields)) /\ Len(F) = n /\ n \in Nat
      /\ \A k \in 1 .. n : F[k] = FrameFields(fs[k]) /\ fs[k] \in LoadedFrames
  BY FramePartsShape
<1>2. \A i : FramesAhead(fs, i, r) = Cat(FlattenSeq(From(F, i)), r)
  BY DEF FramesAhead
<1> HIDE DEF F
<1>3. \A i \in 0 .. Len(F) : Cat(FlattenSeq(From(F, i)), r) \in Seq(Fields)
  BY <1>1, FromFlat
<1>4. FramesAhead(fs, j, r) \in Seq(Fields)
  BY <1>1, <1>2, <1>3
<1>5. j = n => FramesAhead(fs, j, r) = r
  BY <1>1, <1>2, FromFlat
<1>6. ASSUME j < n
      PROVE  LET f == fs[j + 1] IN
              /\ f \in LoadedFrames /\ FramesAhead(fs, j + 1, r) \in Seq(Fields)
              /\ FramesAhead(fs, j, r) =
                   Cat(NameFields(f), Cat(RegsFields(f.regs), Cat(StackFields(f.base, f.stack), FramesAhead(fs, j + 1, r))))
  <2> DEFINE f == fs[j + 1]
             more == FramesAhead(fs, j + 1, r)
             a == NameFields(f)
             b == RegsFields(f.regs)
             c == StackFields(f.base, f.stack)
  <2>1. j + 1 \in 0 .. Len(F) /\ j + 1 \in 1 .. n /\ j \in 0 .. Len(F) /\ j < Len(F)
    BY <1>1, <1>6
  <2>2. more \in Seq(Fields) /\ f \in LoadedFrames /\ F[j + 1] = FrameFields(f)
    BY <1>1, <1>2, <1>3, <2>1
  <2>3. Cat(FlattenSeq(From(F, j)), r) = Cat(F[j + 1], Cat(FlattenSeq(From(F, j + 1)), r))
    <3>1. F \in Seq(Seq(Fields))
      BY <1>1
    <3> QED
      BY <2>1, <3>1, FromFlat
  <2>4. FramesAhead(fs, j, r) = Cat(FrameFields(f), more)
    BY <1>2, <2>2, <2>3
  <2>5. a \in Seq(Fields) /\ b \in Seq(Fields) /\ c \in Seq(Fields) /\ FrameFields(f) = Cat(Cat(a, b), c)
    BY <2>2, LoadedType, NameFieldsType, RegsFieldsType, StackFieldsType, FrameFieldsParts
  <2> HIDE DEF a, b, c, f, more
  <2>6. Cat(a, b) \in Seq(Fields) /\ Cat(c, more) \in Seq(Fields)
    BY <2>2, <2>5, CatType
  <2>7. Cat(Cat(Cat(a, b), c), more) = Cat(Cat(a, b), Cat(c, more))
    BY <2>2, <2>5, <2>6, CatAssociative
  <2>8. Cat(Cat(a, b), Cat(c, more)) = Cat(a, Cat(b, Cat(c, more)))
    BY <2>5, <2>6, CatAssociative
  <2>9. FramesAhead(fs, j, r) = Cat(a, Cat(b, Cat(c, more)))
    BY <2>4, <2>5, <2>7, <2>8
  <2> QED
    BY <2>2, <2>9 DEF a, b, c, f, more
<1> QED
  BY <1>4, <1>5, <1>6 DEF n

\* A thread that is written is a thread.
Writable(t) == t.tid \in Nat /\ t.crashed \in BOOLEAN \cup Nat /\ t.frames \in Seq(LoadedFrames)

LEMMA ThreadFieldsParts ==
  ASSUME NEW t, Writable(t)
  PROVE  LET head == HeadFields(t.tid, t.crashed, Len(t.frames)) IN
         /\ head \in Seq(Fields) /\ ThreadFields(t) = Cat(head, FlattenSeq(FrameParts(t.frames)))
         /\ ThreadFields(t) \in Seq(Fields)
         /\ \A r \in Seq(Fields) :
              FramesAhead(t.frames, 0, r) \in Seq(Fields)
                /\ Cat(ThreadFields(t), r) = Cat(head, FramesAhead(t.frames, 0, r))
<1> DEFINE fs == t.frames
           F == FrameParts(fs)
           flat == FlattenSeq(F)
           head == HeadFields(t.tid, t.crashed, Len(fs))
<1>1. F \in Seq(Seq(Fields)) /\ Len(fs) \in Nat
  BY FramePartsShape DEF Writable
<1>2. ThreadFields(t) = Cat(head, flat)
  BY DEF ThreadFields, HeadFields, FrameParts, Cat
<1>3. head \in Seq(Fields)
  BY <1>1, HeadFieldsType DEF Writable
<1> HIDE DEF F, head
<1>4. flat \in Seq(Fields)
  BY <1>1, FlattenType
<1>5. From(F, 0) = F
  <2>1. 0 \in 0 .. Len(F)
    BY <1>1
  <2> QED
    BY <1>1, <2>1, FromProperties
<1>6. \A r : FramesAhead(fs, 0, r) = Cat(flat, r)
  BY <1>5 DEF FramesAhead, F
<1> HIDE DEF flat, fs
<1>7. \A r \in Seq(Fields) : Cat(flat, r) \in Seq(Fields) /\ Cat(Cat(head, flat), r) = Cat(head, Cat(flat, r))
  BY <1>3, <1>4, CatType, CatAssociative
<1>8. Cat(head, flat) \in Seq(Fields)
  BY <1>3, <1>4, CatType
<1> QED
  BY <1>2, <1>3, <1>6, <1>7, <1>8 DEF head, flat, F, fs

AllWritable(ws) == \A k \in 1 .. Len(ws) : Writable(ws[k])

LEMMA ThreadsAheadStep ==
  ASSUME NEW S, NEW ws \in Seq(S), AllWritable(ws), NEW i \in 0 .. Len(ws)
  PROVE  /\ ThreadsAhead(ws, i) \in Seq(Fields)
         /\ i = Len(ws) => ThreadsAhead(ws, i) = <<>>
         /\ i < Len(ws) =>
              LET t == ws[i + 1] IN
              /\ Writable(t) /\ ThreadsAhead(ws, i + 1) \in Seq(Fields)
              /\ ThreadsAhead(ws, i) =
                   Cat(HeadFields(t.tid, t.crashed, Len(t.frames)), FramesAhead(t.frames, 0, ThreadsAhead(ws, i + 1)))
<1> DEFINE T == ThreadParts(ws)
           n == Len(ws)
<1>1. DOMAIN ws = 1 .. n /\ n \in Nat
  OBVIOUS
<1>2. \A k \in 1 .. n : Writable(ws[k]) /\ ThreadFields(ws[k]) \in Seq(Fields)
  BY ThreadFieldsParts DEF AllWritable
<1>3. T = [k \in 1 .. n |-> ThreadFields(ws[k])]
  BY <1>1 DEF ThreadParts
<1>4. \A k : ThreadsAhead(ws, k) = Cat(FlattenSeq(From(T, k)), <<>>)
  BY DEF ThreadsAhead
<1> HIDE DEF T
<1>5. T \in Seq(Seq(Fields)) /\ Len(T) = n /\ \A k \in 1 .. n : T[k] = ThreadFields(ws[k])
  BY <1>1, <1>2, <1>3
<1>6. \A k \in 0 .. Len(T) : Cat(FlattenSeq(From(T, k)), <<>>) \in Seq(Fields)
  BY <1>5, FromFlat, NoFields
<1>7. ThreadsAhead(ws, i) \in Seq(Fields)
  BY <1>4, <1>5, <1>6
<1>8. ASSUME i = n PROVE ThreadsAhead(ws, i) = <<>>
  <2>1. T \in Seq(Seq(Fields)) /\ i \in 0 .. Len(T) /\ i = Len(T)
    BY <1>1, <1>5, <1>8
  <2> DEFINE none == <<>>
  <2>2. none \in Seq(Fields)
    OBVIOUS
  <2> HIDE DEF none
  <2>3. Cat(FlattenSeq(From(T, i)), none) = none
    BY <2>1, <2>2, FromFlat, SMTT(40)
  <2> QED
    BY <1>4, <2>3 DEF none
<1>9. ASSUME i < n
      PROVE  LET t == ws[i + 1] IN
              /\ Writable(t) /\ ThreadsAhead(ws, i + 1) \in Seq(Fields)
              /\ ThreadsAhead(ws, i) =
                   Cat(HeadFields(t.tid, t.crashed, Len(t.frames)), FramesAhead(t.frames, 0, ThreadsAhead(ws, i + 1)))
  <2> DEFINE t == ws[i + 1]
             more == ThreadsAhead(ws, i + 1)
  <2>1. i + 1 \in 0 .. Len(T) /\ i + 1 \in 1 .. n /\ i \in 0 .. Len(T) /\ i < Len(T)
    BY <1>1, <1>5, <1>9
  <2>2. more \in Seq(Fields) /\ Writable(t) /\ T[i + 1] = ThreadFields(t)
    BY <1>2, <1>4, <1>5, <1>6, <2>1
  <2>3. Cat(FlattenSeq(From(T, i)), <<>>) = Cat(T[i + 1], Cat(FlattenSeq(From(T, i + 1)), <<>>))
    <3>1. T \in Seq(Seq(Fields))
      BY <1>5
    <3> DEFINE none == <<>>
    <3>2. none \in Seq(Fields)
      OBVIOUS
    <3> HIDE DEF none
    <3>3. Cat(FlattenSeq(From(T, i)), none) = Cat(T[i + 1], Cat(FlattenSeq(From(T, i + 1)), none))
      BY <2>1, <3>1, <3>2, FromFlat
    <3> QED
      BY <3>3 DEF none
  <2>4. ThreadsAhead(ws, i) = Cat(ThreadFields(t), more)
    BY <1>4, <2>2, <2>3
  <2> HIDE DEF t, more
  <2>5. Cat(ThreadFields(t), more) = Cat(HeadFields(t.tid, t.crashed, Len(t.frames)), FramesAhead(t.frames, 0, more))
    BY <2>2, ThreadFieldsParts
  <2> QED
    BY <2>2, <2>4, <2>5 DEF t, more
<1> QED
  BY <1>7, <1>8, <1>9 DEF n


-----------------------------------------------------------------------------
(***************************************************************************)
(* What is written.                                                        *)
(***************************************************************************)
\* No size of t is one that cannot be allocated.
Modest(t) ==
  /\ Len(t.frames) < Huge
  /\ \A j \in 1 .. Len(t.frames) :
       1 < Huge /\ Len(t.frames[j].regs) < Huge /\ Len(t.frames[j].stack) < Huge

LEMMA DoneThread ==
  ASSUME NEW t \in ParsedThreads, NEW s \in SourceThreads, ThreadDone(t, s), Len(s.frames) < Huge,
         \A j \in 1 .. Len(s.frames) : Storable(s.frames[j])
  PROVE  Writable(t) /\ Modest(t)
<1> DEFINE ps == t.frames
           fs == s.frames
<1>1. Len(ps) = Len(fs) /\ FramesShown(ps, fs, Len(fs))
  BY DEF ThreadDone, ThreadSame
<1>2. ps \in Seq(ParsedFrames)
  BY ParsedHasFrames DEF HasFrames
<1>3. fs \in Seq(Frames)
  <2> DEFINE S == Seq(Frames)
  <2>1. SourceThreads = [tid: Nat, crashed: BOOLEAN, frames: S]
    BY DEF SourceThreads
  <2> HIDE DEF S
  <2> QED
    BY <2>1 DEF S
<1>4. t.tid \in Nat /\ t.crashed \in BOOLEAN \cup Nat
  <2> DEFINE S == Seq(ParsedFrames)
  <2>1. ParsedThreads = [tid: Nat, crashed: BOOLEAN, frames: S]
    BY DEF ParsedThreads
  <2> HIDE DEF S
  <2> QED
    BY <2>1
<1> HIDE DEF ps, fs
<1>5. Len(ps) \in Nat /\ Len(fs) \in Nat
  BY <1>2, <1>3
<1>6. ps \in Seq(LoadedFrames)
  <2>1. ParsedFrames \subseteq LoadedFrames
    BY ParsedLoaded
  <2> QED
    BY <1>2, <2>1, SeqWider
<1>7. Len(ps) < Huge
  BY <1>1 DEF fs
<1>8. ASSUME NEW j \in 1 .. Len(ps)
      PROVE  1 < Huge /\ Len(ps[j].regs) < Huge /\ Len(ps[j].stack) < Huge
  <2> DEFINE p == ps[j]
             f == fs[j]
  <2>1. j \in 1 .. Len(fs) /\ p \in ParsedFrames
    BY <1>1, <1>2
  <2>2. f \in Frames
    BY <1>3, <2>1
  <2>3. Whole(p, f)
    BY <1>1, <2>1 DEF FramesShown
  <2>4. Storable(f)
    BY <2>1 DEF fs
  <2>5. 1 < Huge
    <3>1. Huge \in Nat /\ j \in Nat /\ 1 <= j /\ j <= Len(ps)
      BY <1>5, ContextFileAssumption
    <3> QED
      BY <1>5, <1>7, <3>1
  <2> HIDE DEF p, f
  <2>6. p.regs = f.regs
    BY <2>3 DEF Whole, NameShown
  <2>7. Len(p.regs) < Huge
    BY <2>4, <2>6 DEF Storable
  <2>8. Len(p.stack) < Len(f.stack) + RowBytes
    BY <2>1, <2>2, <2>3, WholeStack
  <2>9. Len(f.stack) + RowBytes < Huge
    BY <2>4 DEF Storable
  <2>10. Len(p.stack) \in Nat /\ Len(f.stack) \in Nat /\ RowBytes \in Nat /\ Huge \in Nat
    <3>1. p.stack \in Seq(0 .. 255) /\ f.stack \in Seq(0 .. 255)
      BY <2>1, <2>2, FrameType, ParsedType
    <3> QED
      BY <3>1, ContextFileAssumption
  <2>11. Len(p.stack) < Huge
    BY <2>8, <2>9, <2>10
  <2> QED
    BY <2>5, <2>7, <2>11 DEF p
<1>9. Modest(t)
  BY <1>7, <1>8 DEF Modest, ps
<1>10. Writable(t)
  BY <1>4, <1>6 DEF Writable, ps
<1> QED
  BY <1>9, <1>10

\* The convertor has the threads of the scene.
Converted ==
  /\ scene \in Scenes /\ threads \in Seq(ParsedThreads)
  /\ AllDone(threads, scene.threads) /\ Len(threads) = Len(scene.threads)

LEMMA WrittenShape ==
  ASSUME Converted
  PROVE  /\ Written \in Seq(ParsedThreads) /\ Len(Written) \in Nat /\ AllWritable(Written)
         /\ \A i \in 1 .. Len(Written) : Modest(Written[i])
         /\ Len(Written) <= Len(threads) /\ \A i \in 1 .. Len(Written) : Written[i] = threads[i]
<1> DEFINE source == scene.threads
           ws == Written
           n == scene.limit
<1>1. /\ scene \in Scenes /\ threads \in Seq(ParsedThreads)
      /\ AllDone(threads, source) /\ Len(threads) = Len(source)
  BY DEF Converted
<1>2. /\ source \in Seq(SourceThreads) /\ AllStorable(source)
      /\ \A i \in 1 .. Len(source) : Len(source[i].frames) < Huge
      /\ n \in Nat \cup {-1}
  BY <1>1, SceneSource
<1>3. ASSUME NEW i \in 1 .. Len(threads) PROVE Writable(threads[i]) /\ Modest(threads[i])
  <2>1. i \in 1 .. Len(source) /\ threads[i] \in ParsedThreads
    BY <1>1
  <2>2. source[i] \in SourceThreads
    BY <1>2, <2>1, SourceElement
  <2>3. ThreadDone(threads[i], source[i])
    BY <1>1 DEF AllDone
  <2>4. Len(source[i].frames) < Huge /\ \A j \in 1 .. Len(source[i].frames) : Storable(source[i].frames[j])
    BY <1>2, <2>1 DEF AllStorable
  <2> QED
    BY <2>1, <2>2, <2>3, <2>4, DoneThread
<1>4. /\ ws \in Seq(ParsedThreads) /\ Len(ws) \in Nat
      /\ Len(ws) <= Len(threads) /\ \A i \in 1 .. Len(ws) : ws[i] = threads[i]
  <2>1. CASE n # -1 /\ n < Len(threads)
    <3>1. ws = SubSeq(threads, 1, n)
      BY <2>1 DEF Written
    <3>2. n \in Nat /\ Len(threads) \in Nat
      BY <1>1, <1>2, <2>1
    <3> HIDE DEF n
    <3>3. \A i \in 1 .. n : threads[i] \in ParsedThreads
      <4> SUFFICES ASSUME NEW i \in 1 .. n PROVE threads[i] \in ParsedThreads
        OBVIOUS
      <4>1. i \in 1 .. Len(threads)
        BY <2>1, <3>2
      <4> QED
        BY <1>1, <4>1, ElementOfSeq
    <3> DEFINE u == SubSeq(threads, 1, n)
    <3>4. /\ u \in Seq(ParsedThreads)
          /\ Len(u) = IF 1 <= n THEN n - 1 + 1 ELSE 0
          /\ \A i \in 1 .. (n - 1 + 1) : u[i] = threads[1 + i - 1]
      BY <3>2, <3>3, SubSeqProperties
    <3> HIDE DEF u
    <3>5. Len(u) = n
      BY <3>2, <3>4
    <3>6. \A i \in 1 .. n : i \in 1 .. (n - 1 + 1) /\ 1 + i - 1 = i
      BY <3>2
    <3> QED
      BY <2>1, <3>1, <3>2, <3>4, <3>5, <3>6 DEF u
  <2>2. CASE ~(n # -1 /\ n < Len(threads))
    <3>1. ws = threads
      BY <2>2 DEF Written
    <3> QED
      BY <1>1, <3>1
  <2> QED
    BY <2>1, <2>2
<1> HIDE DEF ws
<1>5. \A i \in 1 .. Len(ws) : i \in 1 .. Len(threads)
  BY <1>1, <1>4
<1>6. AllWritable(ws) /\ \A i \in 1 .. Len(ws) : Modest(ws[i])
  BY <1>3, <1>4, <1>5 DEF AllWritable
<1> QED
  BY <1>4, <1>6 DEF ws

\* The file that is written.
Header(n) == <<Field("header", n)>>
Full == Cat(Header(Len(Written)), ThreadsAhead(Written, 0))

LEMMA HeaderType ==
  ASSUME NEW n \in Nat
  PROVE  /\ Header(n) \in Seq(Fields) /\ Len(Header(n)) = 1 /\ Header(n)[1] = Field("header", n)
         /\ Field("header", n).kind = "header" /\ Field("header", n).value = n
<1>1. n \in FieldValues
  BY DEF FieldValues
<1>2. Field("header", n) \in Fields /\ Field("header", n).kind = "header" /\ Field("header", n).value = n
  BY <1>1, FieldType DEF FieldKinds
<1> QED
  BY <1>2, OneType DEF Header

LEMMA CatShape ==
  ASSUME NEW S, NEW a \in Seq(S), NEW b \in Seq(S)
  PROVE  /\ Cat(a, b) \in Seq(S) /\ Len(Cat(a, b)) = Len(a) + Len(b)
         /\ Len(a) \in Nat /\ Len(b) \in Nat /\ Len(Cat(a, b)) \in Nat
         /\ \A q \in 1 .. (Len(a) + Len(b)) : Cat(a, b)[q] = IF q <= Len(a) THEN a[q] ELSE b[q - Len(a)]
<1> DEFINE u == a \o b
<1>1. /\ u \in Seq(S) /\ Len(u) = Len(a) + Len(b)
      /\ \A q \in 1 .. (Len(a) + Len(b)) : u[q] = IF q <= Len(a) THEN a[q] ELSE b[q - Len(a)]
  BY ConcatProperties, Zenon
<1>2. Len(a) \in Nat /\ Len(b) \in Nat
  OBVIOUS
<1>3. Cat(a, b) = u
  BY DEF Cat
<1> HIDE DEF u
<1>4. Len(u) \in Nat
  BY <1>1, <1>2
<1> QED
  BY <1>1, <1>2, <1>3, <1>4

LEMMA FullShape ==
  ASSUME Converted
  PROVE  /\ Full \in Seq(Fields) /\ Len(Full) \in Nat /\ Len(Full) > 0
         /\ Full[1] = Field("header", Len(Written))
         /\ Remains(Full, 1, ThreadsAhead(Written, 0))
<1> DEFINE ws == Written
           h == Header(Len(Written))
           r == ThreadsAhead(Written, 0)
           F == Full
<1>1. /\ ws \in Seq(ParsedThreads) /\ Len(ws) \in Nat /\ AllWritable(ws)
  BY WrittenShape
<1>2. h \in Seq(Fields) /\ Len(h) = 1 /\ h[1] = Field("header", Len(ws))
  BY <1>1, HeaderType
<1>3. r \in Seq(Fields)
  <2>1. 0 \in 0 .. Len(ws)
    BY <1>1
  <2> QED
    BY <1>1, <2>1, ThreadsAheadStep
<1>4. F = Cat(h, r)
  BY DEF Full
<1> HIDE DEF h, r, F
<1>5. /\ F \in Seq(Fields) /\ Len(F) = Len(h) + Len(r) /\ Len(r) \in Nat /\ Len(F) \in Nat
      /\ \A q \in 1 .. (Len(h) + Len(r)) : F[q] = IF q <= Len(h) THEN h[q] ELSE r[q - Len(h)]
  BY <1>2, <1>3, <1>4, CatShape
<1>6. F[1] = h[1] /\ Len(F) > 0
  BY <1>2, <1>5
<1>7. From(F, 0) = F /\ 0 \in 0 .. Len(F)
  <2>1. 0 \in 0 .. Len(F)
    BY <1>5
  <2> QED
    BY <1>5, <2>1, FromProperties
<1> DEFINE none == 0
<1>8. Remains(F, none, Cat(h, r))
  BY <1>4, <1>7 DEF Remains
<1>9. none \in Nat /\ none + Len(h) = 1
  BY <1>2
<1> HIDE DEF none
<1>10. Remains(F, none + Len(h), r)
  BY <1>2, <1>3, <1>5, <1>8, RemainsCat
<1> QED
  BY <1>2, <1>5, <1>6, <1>9, <1>10 DEF r, F

-----------------------------------------------------------------------------
(***************************************************************************)
(* What has been read: the fields that the context would be written as,    *)
(* the last frame up to what the stage s has reached, under a header of n  *)
(* threads.                                                                *)
(***************************************************************************)
PartOf(f, s) ==
  IF s = "registers" THEN NameFields(f)
  ELSE IF s = "stack" THEN Cat(NameFields(f), RegsFields(f.regs)) ELSE FrameFields(f)

FramePartsAt(fs, s) == [k \in DOMAIN fs |-> IF k = Len(fs) THEN PartOf(fs[k], s) ELSE FrameFields(fs[k])]
ThreadPartAt(t, s) == Cat(HeadFields(t.tid, t.crashed, t.size), FlattenSeq(FramePartsAt(t.frames, s)))
ThreadPartsAt(c, s) == [i \in DOMAIN c |-> IF i = Len(c) THEN ThreadPartAt(c[i], s) ELSE ThreadPartAt(c[i], "thread")]
ReadPart(c, s, n) == Cat(Header(n), FlattenSeq(ThreadPartsAt(c, s)))

LEMMA PartType ==
  ASSUME NEW f \in LoadedFrames, NEW s
  PROVE  PartOf(f, s) \in Seq(Fields) /\ FrameFields(f) \in Seq(Fields)
<1>1. NameFields(f) \in Seq(Fields) /\ RegsFields(f.regs) \in Seq(Fields) /\ FrameFields(f) \in Seq(Fields)
  BY LoadedType, NameFieldsType, RegsFieldsType, FrameFieldsParts
<1>2. Cat(NameFields(f), RegsFields(f.regs)) \in Seq(Fields)
  BY <1>1, CatType
<1> QED
  BY <1>1, <1>2 DEF PartOf

LEMMA FramePartsAtShape ==
  ASSUME NEW fs \in Seq(LoadedFrames), NEW s
  PROVE  LET F == FramePartsAt(fs, s) IN
         /\ F \in Seq(Seq(Fields)) /\ Len(F) = Len(fs) /\ Len(fs) \in Nat
         /\ \A k \in 1 .. Len(fs) : F[k] = IF k = Len(fs) THEN PartOf(fs[k], s) ELSE FrameFields(fs[k])
<1> DEFINE F == FramePartsAt(fs, s)
           G(k) == IF k = Len(fs) THEN PartOf(fs[k], s) ELSE FrameFields(fs[k])
<1>1. DOMAIN fs = 1 .. Len(fs) /\ Len(fs) \in Nat /\ \A k \in 1 .. Len(fs) : fs[k] \in LoadedFrames
  OBVIOUS
<1>2. \A k \in 1 .. Len(fs) : G(k) \in Seq(Fields)
  BY <1>1, PartType
<1>3. F = [k \in 1 .. Len(fs) |-> G(k)]
  BY <1>1 DEF FramePartsAt
<1> HIDE DEF F, G
<1>4. F \in Seq(Seq(Fields)) /\ Len(F) = Len(fs) /\ \A k \in 1 .. Len(fs) : F[k] = G(k)
  BY <1>1, <1>2, <1>3
<1> QED
  BY <1>1, <1>4 DEF F, G

LEMMA LoadedThreadType ==
  ASSUME NEW t \in LoadedThreads
  PROVE  /\ t.tid \in Nat /\ t.crashed \in BOOLEAN \cup Nat /\ t.size \in Nat
         /\ t.frames \in Seq(LoadedFrames)
<1> DEFINE S == Seq(LoadedFrames)
           C == BOOLEAN \cup Nat
<1>1. LoadedThreads = [tid: Nat, crashed: C, size: Nat, frames: S]
  BY DEF LoadedThreads
<1> HIDE DEF S, C
<1>2. t.tid \in Nat /\ t.crashed \in C /\ t.size \in Nat /\ t.frames \in S
  BY <1>1
<1> QED
  BY <1>2 DEF S, C

LEMMA ThreadPartType ==
  ASSUME NEW t \in LoadedThreads, NEW s
  PROVE  /\ HeadFields(t.tid, t.crashed, t.size) \in Seq(Fields)
         /\ FlattenSeq(FramePartsAt(t.frames, s)) \in Seq(Fields)
         /\ ThreadPartAt(t, s) \in Seq(Fields)
<1> DEFINE h == HeadFields(t.tid, t.crashed, t.size)
           F == FramePartsAt(t.frames, s)
<1>1. h \in Seq(Fields)
  BY LoadedThreadType, HeadFieldsType
<1>2. F \in Seq(Seq(Fields))
  BY LoadedThreadType, FramePartsAtShape
<1>3. ThreadPartAt(t, s) = Cat(h, FlattenSeq(F))
  BY DEF ThreadPartAt
<1> HIDE DEF h, F
<1>4. FlattenSeq(F) \in Seq(Fields)
  BY <1>2, FlattenType
<1>5. Cat(h, FlattenSeq(F)) \in Seq(Fields)
  BY <1>1, <1>4, CatType
<1> QED
  BY <1>1, <1>3, <1>4, <1>5 DEF h, F

LEMMA ThreadPartsAtShape ==
  ASSUME NEW c \in Seq(LoadedThreads), NEW s
  PROVE  LET T == ThreadPartsAt(c, s) IN
         /\ T \in Seq(Seq(Fields)) /\ Len(T) = Len(c) /\ Len(c) \in Nat
         /\ \A k \in 1 .. Len(c) :
              T[k] = IF k = Len(c) THEN ThreadPartAt(c[k], s) ELSE ThreadPartAt(c[k], "thread")
<1> DEFINE T == ThreadPartsAt(c, s)
           G(k) == IF k = Len(c) THEN ThreadPartAt(c[k], s) ELSE ThreadPartAt(c[k], "thread")
<1>1. DOMAIN c = 1 .. Len(c) /\ Len(c) \in Nat /\ \A k \in 1 .. Len(c) : c[k] \in LoadedThreads
  OBVIOUS
<1>2. \A k \in 1 .. Len(c) : G(k) \in Seq(Fields)
  BY <1>1, ThreadPartType
<1>3. T = [k \in 1 .. Len(c) |-> G(k)]
  BY <1>1 DEF ThreadPartsAt
<1> HIDE DEF T, G
<1>4. T \in Seq(Seq(Fields)) /\ Len(T) = Len(c) /\ \A k \in 1 .. Len(c) : T[k] = G(k)
  BY <1>1, <1>2, <1>3
<1> QED
  BY <1>1, <1>4 DEF T, G

LEMMA ReadPartType ==
  ASSUME NEW c \in Seq(LoadedThreads), NEW s, NEW n \in Nat
  PROVE  /\ Header(n) \in Seq(Fields) /\ FlattenSeq(ThreadPartsAt(c, s)) \in Seq(Fields)
         /\ ReadPart(c, s, n) \in Seq(Fields)
<1> DEFINE T == ThreadPartsAt(c, s)
<1>1. Header(n) \in Seq(Fields) /\ T \in Seq(Seq(Fields))
  BY HeaderType, ThreadPartsAtShape
<1>2. ReadPart(c, s, n) = Cat(Header(n), FlattenSeq(T))
  BY DEF ReadPart
<1> HIDE DEF T
<1>3. FlattenSeq(T) \in Seq(Fields)
  BY <1>1, FlattenType
<1>4. Cat(Header(n), FlattenSeq(T)) \in Seq(Fields)
  BY <1>1, <1>3, CatType
<1> QED
  BY <1>1, <1>2, <1>3, <1>4 DEF T

\* TextBehind a header the parts grow by d.
LEMMA GrowBehind ==
  ASSUME NEW S, NEW h \in Seq(S), NEW s \in Seq(Seq(S)), NEW t \in Seq(Seq(S)), NEW d \in Seq(S),
         Grows(s, t, d)
  PROVE  Cat(h, FlattenSeq(t)) = Cat(Cat(h, FlattenSeq(s)), d)
<1> DEFINE a == FlattenSeq(s)
           b == FlattenSeq(t)
<1>1. a \in Seq(S)
  BY FlattenType
<1>2. b = Cat(a, d)
  BY FlattenGrow DEF Cat
<1> HIDE DEF a, b
<1>3. Cat(Cat(h, a), d) = Cat(h, Cat(a, d))
  BY <1>1, CatAssociative
<1> QED
  BY <1>2, <1>3 DEF a, b

LEMMA AppendBehind ==
  ASSUME NEW S, NEW h \in Seq(S), NEW s \in Seq(Seq(S)), NEW t \in Seq(Seq(S)), NEW d \in Seq(S),
         Len(t) = Len(s) + 1, t[Len(s) + 1] = d, \A k \in 1 .. Len(s) : t[k] = s[k]
  PROVE  Cat(h, FlattenSeq(t)) = Cat(Cat(h, FlattenSeq(s)), d)
<1> DEFINE a == FlattenSeq(s)
           b == FlattenSeq(t)
           n == Len(s)
           u == Append(s, d)
           Q == Seq(S)
<1>1. a \in Seq(S)
  BY FlattenType
<1>2. n \in Nat /\ d \in Q /\ s \in Seq(Q) /\ t \in Seq(Q)
  OBVIOUS
<1>3. u = t
  <2> HIDE DEF Q
  <2>1. u \in Seq(Q) /\ Len(u) = n + 1 /\ u[n + 1] = d /\ \A k \in 1 .. n : u[k] = s[k]
    BY <1>2
  <2> HIDE DEF u, n
  <2>2. \A k \in 1 .. (n + 1) : k \in 1 .. n \/ k = n + 1
    BY <1>2
  <2>3. Len(u) = Len(t) /\ \A k \in 1 .. Len(t) : u[k] = t[k]
    BY <2>1, <2>2 DEF n
  <2> QED
    BY <1>2, <2>1, <2>3, SeqEqual
<1>4. b = Cat(a, d)
  BY <1>3, FlattenAppend DEF Cat
<1> HIDE DEF a, b
<1>5. Cat(Cat(h, a), d) = Cat(h, Cat(a, d))
  BY <1>1, CatAssociative
<1> QED
  BY <1>4, <1>5 DEF a, b

\* A thread is read behind the others.
LEMMA PartThread ==
  ASSUME NEW c \in Seq(LoadedThreads), NEW t \in LoadedThreads, t.frames = <<>>, NEW s, NEW m \in Nat
  PROVE  LET e == Append(c, t) IN
         /\ e \in Seq(LoadedThreads)
         /\ ReadPart(e, s, m) = Cat(ReadPart(c, "thread", m), HeadFields(t.tid, t.crashed, t.size))
<1> DEFINE e == Append(c, t)
           T == ThreadPartsAt(c, "thread")
           U == ThreadPartsAt(e, s)
           h == HeadFields(t.tid, t.crashed, t.size)
           n == Len(c)
<1>1. /\ e \in Seq(LoadedThreads) /\ Len(e) = n + 1 /\ n \in Nat
      /\ \A k \in 1 .. n : e[k] = c[k]
      /\ e[n + 1] = t
  OBVIOUS
<1> HIDE DEF e
<1>2. /\ T \in Seq(Seq(Fields)) /\ Len(T) = n
      /\ \A k \in 1 .. n : T[k] = ThreadPartAt(c[k], "thread")
  BY ThreadPartsAtShape
<1>3. /\ U \in Seq(Seq(Fields)) /\ Len(U) = n + 1
      /\ \A k \in 1 .. (n + 1) : U[k] = IF k = n + 1 THEN ThreadPartAt(e[k], s) ELSE ThreadPartAt(e[k], "thread")
  BY <1>1, ThreadPartsAtShape
<1>4. h \in Seq(Fields) /\ ThreadPartAt(t, s) = Cat(h, FlattenSeq(FramePartsAt(t.frames, s)))
  BY ThreadPartType DEF ThreadPartAt
<1> HIDE DEF T, U, h
<1>5. ThreadPartAt(t, s) = h
  <2> DEFINE F == FramePartsAt(t.frames, s)
  <2>1. Len(F) = Len(t.frames) /\ F \in Seq(Seq(Fields))
    BY LoadedThreadType, FramePartsAtShape
  <2>2. Len(t.frames) = 0
    OBVIOUS
  <2> HIDE DEF F
  <2>3. F = <<>>
    BY <2>1, <2>2
  <2>4. Cat(h, <<>>) = h
    BY <1>4, CatEmpty
  <2> QED
    BY <1>4, <2>3, <2>4, FlattenEmpty DEF F
<1>6. U[n + 1] = h
  BY <1>1, <1>3, <1>5
<1>7. \A k \in 1 .. n : U[k] = T[k]
  <2>1. \A k \in 1 .. n : k \in 1 .. (n + 1) /\ k # n + 1
    BY <1>1
  <2> QED
    BY <1>1, <1>2, <1>3, <2>1
<1>8. Header(m) \in Seq(Fields)
  BY HeaderType
<1> DEFINE H == Header(m)
<1> HIDE DEF H
<1>9. Cat(H, FlattenSeq(U)) = Cat(Cat(H, FlattenSeq(T)), h)
  <2>1. Len(U) = Len(T) + 1 /\ U[Len(T) + 1] = h /\ \A k \in 1 .. Len(T) : U[k] = T[k]
    BY <1>2, <1>3, <1>6, <1>7
  <2>2. H \in Seq(Fields) /\ T \in Seq(Seq(Fields)) /\ U \in Seq(Seq(Fields)) /\ h \in Seq(Fields)
    BY <1>2, <1>3, <1>4, <1>8 DEF H
  <2> HIDE DEF n
  <2> QED
    BY <2>1, <2>2, AppendBehind
<1>10. ReadPart(e, s, m) = Cat(H, FlattenSeq(U)) /\ ReadPart(c, "thread", m) = Cat(H, FlattenSeq(T))
  BY DEF ReadPart, H, U, T
<1> QED
  BY <1>1, <1>9, <1>10 DEF e, h

\* The last thread grows.
LEMMA PartGrows ==
  ASSUME NEW c \in Seq(LoadedThreads), NEW e \in Seq(LoadedThreads), Len(c) > 0, Len(e) = Len(c),
         \A k \in 1 .. (Len(c) - 1) : e[k] = c[k],
         NEW s, NEW z, NEW d \in Seq(Fields), NEW m \in Nat,
         ThreadPartAt(e[Len(c)], z) = Cat(ThreadPartAt(c[Len(c)], s), d)
  PROVE  ReadPart(e, z, m) = Cat(ReadPart(c, s, m), d)
<1> DEFINE T == ThreadPartsAt(c, s)
           U == ThreadPartsAt(e, z)
           n == Len(c)
           H == Header(m)
<1>1. /\ T \in Seq(Seq(Fields)) /\ Len(T) = n /\ n \in Nat
      /\ \A k \in 1 .. n : T[k] = IF k = n THEN ThreadPartAt(c[k], s) ELSE ThreadPartAt(c[k], "thread")
  BY ThreadPartsAtShape
<1>2. /\ U \in Seq(Seq(Fields)) /\ Len(U) = n
      /\ \A k \in 1 .. n : U[k] = IF k = n THEN ThreadPartAt(e[k], z) ELSE ThreadPartAt(e[k], "thread")
  BY ThreadPartsAtShape
<1>3. H \in Seq(Fields)
  BY HeaderType
<1> HIDE DEF T, U, H, n
<1>4. n \in 1 .. n /\ \A k \in 1 .. (n - 1) : k \in 1 .. n /\ k # n
  BY <1>1 DEF n
<1>5. U[n] = Cat(T[n], d)
  BY <1>1, <1>2, <1>4 DEF n
<1>6. \A k \in 1 .. (n - 1) : U[k] = T[k]
  BY <1>1, <1>2, <1>4 DEF n
<1>7. Grows(T, U, d)
  BY <1>1, <1>2, <1>5, <1>6 DEF Grows, Cat, n
<1>8. Cat(H, FlattenSeq(U)) = Cat(Cat(H, FlattenSeq(T)), d)
  BY <1>1, <1>2, <1>3, <1>7, GrowBehind
<1> QED
  BY <1>8 DEF ReadPart, T, U, H

LEMMA SameHead ==
  ASSUME NEW c \in Seq(LoadedThreads), Len(c) > 0, NEW e, NEW gs, FramesBecome(c, e, gs)
  PROVE  LET t == c[Len(c)]
             u == e[Len(c)] IN
         /\ u.tid = t.tid /\ u.crashed = t.crashed /\ u.size = t.size /\ u.frames = gs
         /\ t \in LoadedThreads /\ t.frames \in Seq(LoadedFrames)
         /\ Len(e) = Len(c) /\ \A k \in 1 .. (Len(c) - 1) : e[k] = c[k]
<1> DEFINE t == c[Len(c)]
           u == e[Len(c)]
           S == Seq(LoadedFrames)
           C == BOOLEAN \cup Nat
<1>1. t \in LoadedThreads
  OBVIOUS
<1>2. u = [t EXCEPT !.frames = gs] /\ u.frames = gs
  BY DEF FramesBecome
<1>3. LoadedThreads = [tid: Nat, crashed: C, size: Nat, frames: S]
  BY DEF LoadedThreads
<1> HIDE DEF t, u, S, C
<1>4. u.tid = t.tid /\ u.crashed = t.crashed /\ u.size = t.size
  BY <1>1, <1>2, <1>3
<1>5. t.frames \in Seq(LoadedFrames)
  BY <1>1, LoadedThreadType
<1>6. Len(e) = Len(c) /\ \A k \in 1 .. (Len(c) - 1) : e[k] = c[k]
  BY DEF FramesBecome
<1> QED
  BY <1>1, <1>2, <1>4, <1>5, <1>6 DEF t, u

\* A frame is read behind the others of the last thread.
Added(fs, gs, f) ==
  /\ Len(gs) = Len(fs) + 1
  /\ \A k \in 1 .. Len(fs) : gs[k] = fs[k]
  /\ gs[Len(fs) + 1] = f

LEMMA PartFrame ==
  ASSUME NEW c \in Seq(LoadedThreads), Len(c) > 0, NEW f \in LoadedFrames,
         NEW gs \in Seq(LoadedFrames), Added(c[Len(c)].frames, gs, f),
         NEW e \in Seq(LoadedThreads), FramesBecome(c, e, gs), NEW m \in Nat
  PROVE  ReadPart(e, "registers", m) = Cat(ReadPart(c, "frame", m), NameFields(f))
<1> DEFINE t == c[Len(c)]
           u == e[Len(c)]
           fs == t.frames
           d == NameFields(f)
           h == HeadFields(t.tid, t.crashed, t.size)
           F == FramePartsAt(fs, "frame")
           G == FramePartsAt(gs, "registers")
           n == Len(fs)
<1>1. /\ u.tid = t.tid /\ u.crashed = t.crashed /\ u.size = t.size /\ u.frames = gs
      /\ t \in LoadedThreads /\ fs \in Seq(LoadedFrames)
      /\ Len(e) = Len(c) /\ \A k \in 1 .. (Len(c) - 1) : e[k] = c[k]
  BY SameHead
<1>2. d \in Seq(Fields)
  BY NameFieldsType
<1>3. h \in Seq(Fields)
  BY <1>1, ThreadPartType
<1>4. ThreadPartAt(t, "frame") = Cat(h, FlattenSeq(F)) /\ ThreadPartAt(u, "registers") = Cat(h, FlattenSeq(G))
  BY <1>1 DEF ThreadPartAt
<1>5. /\ Len(gs) = n + 1 /\ gs[n + 1] = f /\ \A k \in 1 .. n : gs[k] = fs[k]
  BY DEF Added
<1> HIDE DEF h, d, t, u, fs
<1>51. n \in Nat
  BY <1>1
<1>6. /\ F \in Seq(Seq(Fields)) /\ Len(F) = n
      /\ \A k \in 1 .. n : F[k] = IF k = n THEN PartOf(fs[k], "frame") ELSE FrameFields(fs[k])
  BY <1>1, FramePartsAtShape
<1>7. /\ G \in Seq(Seq(Fields)) /\ Len(G) = n + 1
      /\ \A k \in 1 .. (n + 1) : G[k] = IF k = n + 1 THEN PartOf(gs[k], "registers") ELSE FrameFields(gs[k])
  BY <1>5, FramePartsAtShape, Z3T(40)
<1> HIDE DEF F, G, n
<1>8. G[n + 1] = d
  <2>1. n + 1 \in 1 .. (n + 1)
    BY <1>51
  <2> QED
    BY <1>5, <1>7, <2>1 DEF PartOf, d
<1>9. \A k \in 1 .. n : G[k] = F[k]
  <2>1. \A k \in 1 .. n : k \in 1 .. (n + 1) /\ k # n + 1
    BY <1>51
  <2>2. \A x : PartOf(x, "frame") = FrameFields(x)
    BY DEF PartOf
  <2> QED
    BY <1>5, <1>6, <1>7, <2>1, <2>2
<1>10. Cat(h, FlattenSeq(G)) = Cat(Cat(h, FlattenSeq(F)), d)
  <2>1. Len(G) = Len(F) + 1 /\ G[Len(F) + 1] = d /\ \A k \in 1 .. Len(F) : G[k] = F[k]
    BY <1>6, <1>7, <1>8, <1>9
  <2> QED
    BY <1>2, <1>3, <1>6, <1>7, <2>1, AppendBehind
<1>11. ThreadPartAt(u, "registers") = Cat(ThreadPartAt(t, "frame"), d)
  BY <1>4, <1>10
<1> DEFINE x == "frame"
           y == "registers"
<1> HIDE DEF x, y
<1>12. ThreadPartAt(e[Len(c)], y) = Cat(ThreadPartAt(c[Len(c)], x), d)
  BY <1>11 DEF x, y, t, u
<1>13. Len(c) > 0 /\ Len(e) = Len(c) /\ \A k \in 1 .. (Len(c) - 1) : e[k] = c[k]
  BY <1>1
<1>14. d \in Seq(Fields) /\ m \in Nat /\ c \in Seq(LoadedThreads) /\ e \in Seq(LoadedThreads)
  BY <1>2
<1>15. ReadPart(e, y, m) = Cat(ReadPart(c, x, m), d)
  BY <1>12, <1>13, <1>14, PartGrows, Z3T(40)
<1> QED
  BY <1>15 DEF d, x, y

\* The last frame grows.
LEMMA PartInFrame ==
  ASSUME NEW c \in Seq(LoadedThreads), Len(c) > 0, Len(c[Len(c)].frames) > 0,
         NEW q \in LoadedFrames, NEW gs \in Seq(LoadedFrames), LastBecomes(c[Len(c)].frames, gs, q),
         NEW e \in Seq(LoadedThreads), FramesBecome(c, e, gs), NEW m \in Nat,
         NEW s, NEW z, NEW d \in Seq(Fields),
         PartOf(q, z) = Cat(PartOf(c[Len(c)].frames[Len(c[Len(c)].frames)], s), d)
  PROVE  ReadPart(e, z, m) = Cat(ReadPart(c, s, m), d)
<1> DEFINE t == c[Len(c)]
           u == e[Len(c)]
           fs == t.frames
           h == HeadFields(t.tid, t.crashed, t.size)
           F == FramePartsAt(fs, s)
           G == FramePartsAt(gs, z)
           n == Len(fs)
<1>1. /\ u.tid = t.tid /\ u.crashed = t.crashed /\ u.size = t.size /\ u.frames = gs
      /\ t \in LoadedThreads /\ fs \in Seq(LoadedFrames)
      /\ Len(e) = Len(c) /\ \A k \in 1 .. (Len(c) - 1) : e[k] = c[k]
  BY SameHead
<1>3. h \in Seq(Fields)
  BY <1>1, ThreadPartType
<1>4. ThreadPartAt(t, s) = Cat(h, FlattenSeq(F)) /\ ThreadPartAt(u, z) = Cat(h, FlattenSeq(G))
  BY <1>1 DEF ThreadPartAt
<1>5. Len(gs) = n /\ gs[n] = q /\ (\A k \in 1 .. (n - 1) : gs[k] = fs[k]) /\ n > 0 /\ PartOf(q, z) = Cat(PartOf(fs[n], s), d)
  BY DEF LastBecomes
<1> HIDE DEF h, t, u, fs
<1>6. /\ F \in Seq(Seq(Fields)) /\ Len(F) = n /\ n \in Nat
      /\ \A k \in 1 .. n : F[k] = IF k = n THEN PartOf(fs[k], s) ELSE FrameFields(fs[k])
  BY <1>1, FramePartsAtShape
<1>7. /\ G \in Seq(Seq(Fields)) /\ Len(G) = n
      /\ \A k \in 1 .. n : G[k] = IF k = n THEN PartOf(gs[k], z) ELSE FrameFields(gs[k])
  BY <1>5, FramePartsAtShape
<1> HIDE DEF F, G, n
<1>8. n \in 1 .. n /\ \A k \in 1 .. (n - 1) : k \in 1 .. n /\ k # n
  BY <1>5, <1>6
<1>9. G[n] = Cat(F[n], d) /\ \A k \in 1 .. (n - 1) : G[k] = F[k]
  BY <1>5, <1>6, <1>7, <1>8
<1>10. Grows(F, G, d)
  BY <1>5, <1>6, <1>7, <1>9 DEF Grows, Cat
<1>11. Cat(h, FlattenSeq(G)) = Cat(Cat(h, FlattenSeq(F)), d)
  BY <1>3, <1>6, <1>7, <1>10, GrowBehind
<1>12. ThreadPartAt(u, z) = Cat(ThreadPartAt(t, s), d)
  BY <1>4, <1>11
<1> QED
  BY <1>1, <1>12, PartGrows DEF t, u

-----------------------------------------------------------------------------
(***************************************************************************)
(* The file f against the fields: it is what full begins with, and what    *)
(* has been read of it is in the parts.                                    *)
(***************************************************************************)
Prefixed(f, full) == Len(f) <= Len(full) /\ \A k \in 1 .. Len(f) : f[k] = full[k]

Alike(x, y) ==
  /\ x.kind = y.kind
  /\ x.value = y.value \/ (y.kind = "func" /\ x.value = Overrun(y.value))

Copied(part, f, p) ==
  /\ Len(part) = p - 1
  /\ \A k \in 1 .. Len(part) : k <= Len(f) => Alike(part[k], f[k])

LEMMA Meets ==
  ASSUME NEW f \in Seq(Fields), NEW full \in Seq(Fields), Prefixed(f, full),
         NEW d \in Seq(Fields), NEW r \in Seq(Fields), NEW p \in Nat \ {0}, Remains(full, p - 1, Cat(d, r))
  PROVE  /\ \A q \in 1 .. Len(d) : (p - 1) + q <= Len(f) => f[(p - 1) + q] = d[q]
         /\ Remains(full, (p - 1) + Len(d), r)
         /\ (p - 1) + Len(d) <= Len(full)
<1> DEFINE o == p - 1
<1>1. o \in Nat /\ Remains(full, o, Cat(d, r))
  OBVIOUS
<1> HIDE DEF o
<1>2. /\ o \in Nat /\ o + Len(d) <= Len(full) /\ Len(full) \in Nat /\ Len(d) \in Nat
      /\ Remains(full, o + Len(d), r)
      /\ \A q \in 1 .. Len(d) : full[o + q] = d[q]
  BY <1>1, RemainsCat, SMTT(60)
<1>3. ASSUME NEW q \in 1 .. Len(d), o + q <= Len(f) PROVE f[o + q] = d[q]
  <2>1. o + q \in 1 .. Len(f)
    BY <1>1, <1>2, <1>3
  <2>2. f[o + q] = full[o + q]
    BY <2>1 DEF Prefixed
  <2> QED
    BY <1>2, <2>2
<1> QED
  BY <1>2, <1>3 DEF o

LEMMA MeetsThree ==
  ASSUME NEW f \in Seq(Fields), NEW full \in Seq(Fields), Prefixed(f, full),
         NEW d \in Seq(Fields), Len(d) = 3, NEW r \in Seq(Fields), NEW p \in Nat \ {0},
         Remains(full, p - 1, Cat(d, r))
  PROVE  /\ p <= Len(f) => f[p] = d[1]
         /\ p + 1 <= Len(f) => f[p + 1] = d[2]
         /\ p + 2 <= Len(f) => f[p + 2] = d[3]
         /\ Remains(full, (p + 3) - 1, r)
         /\ p + 2 <= Len(full)
<1>1. /\ \A q \in 1 .. Len(d) : (p - 1) + q <= Len(f) => f[(p - 1) + q] = d[q]
      /\ Remains(full, (p - 1) + Len(d), r)
      /\ (p - 1) + Len(d) <= Len(full)
  BY Meets
<1>2. /\ 1 \in 1 .. Len(d) /\ 2 \in 1 .. Len(d) /\ 3 \in 1 .. Len(d)
      /\ (p - 1) + 1 = p /\ (p - 1) + 2 = p + 1 /\ (p - 1) + 3 = p + 2 /\ (p - 1) + Len(d) = (p + 3) - 1
      /\ (p - 1) + Len(d) = p + 2
  OBVIOUS
<1>3. p <= Len(f) => f[p] = d[1]
  BY <1>1, <1>2
<1>4. p + 1 <= Len(f) => f[p + 1] = d[2]
  BY <1>1, <1>2
<1>5. p + 2 <= Len(f) => f[p + 2] = d[3]
  BY <1>1, <1>2
<1> QED
  BY <1>1, <1>2, <1>3, <1>4, <1>5

LEMMA CopiedGrows ==
  ASSUME NEW part \in Seq(Fields), NEW f \in Seq(Fields), NEW p \in Nat \ {0}, Copied(part, f, p),
         NEW d \in Seq(Fields),
         \A q \in 1 .. Len(d) : (p - 1) + q <= Len(f) => Alike(d[q], f[(p - 1) + q])
  PROVE  Copied(Cat(part, d), f, p + Len(d))
<1> DEFINE u == Cat(part, d)
           n == p - 1
           m == Len(d)
<1>1. /\ Len(part) = n /\ n \in Nat /\ m \in Nat
      /\ \A k \in 1 .. n : k <= Len(f) => Alike(part[k], f[k])
  BY DEF Copied
<1>2. /\ u \in Seq(Fields) /\ Len(u) = n + m
      /\ \A q \in 1 .. (n + m) : u[q] = IF q <= n THEN part[q] ELSE d[q - n]
  <2>1. /\ Cat(part, d) \in Seq(Fields) /\ Len(Cat(part, d)) = Len(part) + Len(d)
        /\ \A q \in 1 .. (Len(part) + Len(d)) :
             Cat(part, d)[q] = IF q <= Len(part) THEN part[q] ELSE d[q - Len(part)]
    BY CatShape
  <2> HIDE DEF n
  <2> QED
    BY <1>1, <2>1
<1>3. \A q \in 1 .. m : n + q <= Len(f) => Alike(d[q], f[n + q])
  OBVIOUS
<1>4. (p + m) - 1 = n + m
  BY <1>1
<1>5. Len(f) \in Nat
  OBVIOUS
<1> HIDE DEF u, n, m
<1>6. ASSUME NEW k \in 1 .. (n + m), k <= Len(f) PROVE Alike(u[k], f[k])
  <2>1. CASE k <= n
    <3>1. k \in 1 .. n
      BY <1>1, <2>1
    <3> QED
      BY <1>1, <1>2, <1>6, <2>1, <3>1
  <2>2. CASE ~(k <= n)
    <3>1. k - n \in 1 .. m /\ n + (k - n) = k
      BY <1>1, <2>2
    <3>2. u[k] = d[k - n]
      BY <1>2, <2>2
    <3>3. n + (k - n) <= Len(f) => Alike(d[k - n], f[n + (k - n)])
      BY <1>3, <3>1
    <3> QED
      BY <1>6, <3>1, <3>2, <3>3
  <2> QED
    BY <2>1, <2>2
<1> QED
  BY <1>2, <1>4, <1>6 DEF Copied, u, m

LEMMA CopiedThree ==
  ASSUME NEW part \in Seq(Fields), NEW f \in Seq(Fields), NEW p \in Nat \ {0}, Copied(part, f, p),
         NEW d \in Seq(Fields), Len(d) = 3,
         p <= Len(f) => Alike(d[1], f[p]),
         p + 1 <= Len(f) => Alike(d[2], f[p + 1]),
         p + 2 <= Len(f) => Alike(d[3], f[p + 2])
  PROVE  Copied(Cat(part, d), f, p + 3)
<1>1. ASSUME NEW q \in 1 .. Len(d), (p - 1) + q <= Len(f) PROVE Alike(d[q], f[(p - 1) + q])
  <2>1. CASE q = 1
    <3>1. (p - 1) + q = p
      BY <2>1
    <3> QED
      BY <1>1, <2>1, <3>1
  <2>2. CASE q = 2
    <3>1. (p - 1) + q = p + 1
      BY <2>2
    <3> QED
      BY <1>1, <2>2, <3>1
  <2>3. CASE q = 3
    <3>1. (p - 1) + q = p + 2
      BY <2>3
    <3> QED
      BY <1>1, <2>3, <3>1
  <2>4. q = 1 \/ q = 2 \/ q = 3
    OBVIOUS
  <2> QED
    BY <2>1, <2>2, <2>3, <2>4
<1>2. Copied(Cat(part, d), f, p + Len(d))
  BY <1>1, CopiedGrows
<1> QED
  BY <1>2

-----------------------------------------------------------------------------
(***************************************************************************)
(* The reader.                                                             *)
(***************************************************************************)
\* The frames of the last thread that have not been begun.
Owed(st, l) == IF st = "frame" THEN l[2] ELSE IF st \in {"registers", "stack"} THEN l[2] - 1 ELSE 0

\* What the file still holds, of the threads ws, behind what c has been read from.
Due(ws, st, c) ==
  LET i == Len(c)
      fs == ws[i].frames
      j == Len(c[i].frames)
      behind == FramesAhead(fs, j, ThreadsAhead(ws, i))
      stack == Cat(StackFields(fs[j].base, fs[j].stack), behind) IN
  IF st = "frame" THEN behind
  ELSE IF st = "registers" THEN Cat(RegsFields(fs[j].regs), stack)
  ELSE IF st = "stack" THEN stack
  ELSE ThreadsAhead(ws, i)

InSync(ws, full, st, c, l, p) ==
  /\ Len(c) + l[1] = Len(ws)
  /\ Len(c) > 0 => Len(c[Len(c)].frames) + Owed(st, l) = Len(ws[Len(c)].frames)
  /\ Remains(full, p - 1, Due(ws, st, c))

\* The counts in c are right.
Counted(st, c, l) ==
  /\ c \in Seq(LoadedThreads) /\ l \in Nat \X Nat
  /\ st \in {"frame", "registers", "stack"} => Len(c) > 0 /\ l[2] > 0
  /\ st \in {"registers", "stack"} => Len(c[Len(c)].frames) > 0
  /\ st = "loaded" => l[1] = 0
  /\ \A i \in 1 .. Len(c) : c[i].size = Len(c[i].frames) + IF i = Len(c) THEN Owed(st, l) ELSE 0

\* f may have lost its end if ct.
Reader(ws, full, f, ct, st, c, l, p) ==
  /\ Counted(st, c, l) /\ p \in Nat \ {0}
  /\ Copied(ReadPart(c, st, Len(c) + l[1]), f, p)
  /\ p <= Len(f) + 1 => InSync(ws, full, st, c, l, p)
  /\ p > Len(f) + 1 => ct

\* What does not change while the reader reads.
Readable(ws, full, f, ct) ==
  /\ ws \in Seq(ParsedThreads) /\ AllWritable(ws) /\ \A i \in 1 .. Len(ws) : Modest(ws[i])
  /\ full \in Seq(Fields) /\ f \in Seq(Fields) /\ Prefixed(f, full)
  /\ ~ct => Len(f) = Len(full)

LEMMA ReaderParts ==
  ASSUME NEW ws, NEW full, NEW f, NEW ct, NEW st, NEW c, NEW l, NEW p,
         Readable(ws, full, f, ct), Reader(ws, full, f, ct, st, c, l, p)
  PROVE  /\ ws \in Seq(ParsedThreads) /\ Len(ws) \in Nat /\ AllWritable(ws)
         /\ \A i \in 1 .. Len(ws) : Writable(ws[i]) /\ Modest(ws[i])
         /\ full \in Seq(Fields) /\ f \in Seq(Fields) /\ Prefixed(f, full)
         /\ Len(full) \in Nat /\ Len(f) \in Nat /\ (~ct => Len(f) = Len(full))
         /\ Counted(st, c, l) /\ p \in Nat \ {0}
         /\ c \in Seq(LoadedThreads) /\ Len(c) \in Nat /\ l[1] \in Nat /\ l[2] \in Nat
         /\ ReadPart(c, st, Len(c) + l[1]) \in Seq(Fields)
         /\ Copied(ReadPart(c, st, Len(c) + l[1]), f, p)
         /\ (p <= Len(f) + 1 => InSync(ws, full, st, c, l, p))
         /\ (p > Len(f) + 1 => ct)
<1>1. /\ ws \in Seq(ParsedThreads) /\ AllWritable(ws) /\ \A i \in 1 .. Len(ws) : Modest(ws[i])
      /\ full \in Seq(Fields) /\ f \in Seq(Fields) /\ Prefixed(f, full)
      /\ (~ct => Len(f) = Len(full))
  BY DEF Readable
<1>2. Len(ws) \in Nat /\ Len(full) \in Nat /\ Len(f) \in Nat
  BY <1>1
<1>3. \A i \in 1 .. Len(ws) : Writable(ws[i])
  BY <1>1 DEF AllWritable
<1>4. /\ Counted(st, c, l) /\ p \in Nat \ {0}
      /\ Copied(ReadPart(c, st, Len(c) + l[1]), f, p)
      /\ (p <= Len(f) + 1 => InSync(ws, full, st, c, l, p))
      /\ (p > Len(f) + 1 => ct)
  BY DEF Reader
<1>5. c \in Seq(LoadedThreads) /\ l \in Nat \X Nat
  BY <1>4 DEF Counted
<1>6. Len(c) \in Nat /\ l[1] \in Nat /\ l[2] \in Nat
  BY <1>5
<1>7. Len(c) + l[1] \in Nat
  BY <1>6
<1>8. ReadPart(c, st, Len(c) + l[1]) \in Seq(Fields)
  BY <1>5, <1>7, ReadPartType
<1> QED
  BY <1>1, <1>2, <1>3, <1>4, <1>5, <1>6, <1>8

LEMMA MemberType ==
  ASSUME NEW p, NEW v, v \in Member(p) \/ v \in Local(p)
  PROVE  (p <= Len(file) => v = file[p].value) /\ (~(p <= Len(file)) => v \in Nat)
  BY ContextFileAssumption DEF Member, Local, There

LEMMA AlikeSame ==
  ASSUME NEW x, NEW y, x = y
  PROVE  Alike(x, y)
  BY DEF Alike

\* The header.
LEMMA HeaderRead ==
  ASSUME NEW ws, NEW full, NEW f, NEW ct, Readable(ws, full, f, ct), 1 <= Len(f),
         full[1] = Field("header", Len(ws)), Remains(full, 1, ThreadsAhead(ws, 0))
  PROVE  f[1].value = Len(ws) /\ Reader(ws, full, f, ct, "thread", <<>>, <<Len(ws), 0>>, 2)
<1> DEFINE none == <<>>
           l == <<Len(ws), 0>>
           st == "thread"
<1>1. /\ ws \in Seq(ParsedThreads) /\ full \in Seq(Fields) /\ f \in Seq(Fields) /\ Prefixed(f, full)
      /\ Len(ws) \in Nat /\ Len(f) \in Nat
  BY DEF Readable
<1>2. f[1] = Field("header", Len(ws))
  <2>1. 1 \in 1 .. Len(f)
    BY <1>1
  <2> QED
    BY <1>1, <2>1 DEF Prefixed
<1>3. f[1].value = Len(ws)
  BY <1>1, <1>2, HeaderType
<1>4. none \in Seq(LoadedThreads) /\ Len(none) = 0 /\ l \in Nat \X Nat /\ l[1] = Len(ws) /\ l[2] = 0
  BY <1>1
<1>5. Counted(st, none, l)
  <2>1. st \notin {"frame", "registers", "stack", "loaded"}
    OBVIOUS
  <2> HIDE DEF none, l, st
  <2> QED
    BY <1>4, <2>1 DEF Counted
<1>6. ReadPart(none, st, Len(ws)) = Header(Len(ws))
  <2> DEFINE T == ThreadPartsAt(none, st)
  <2>1. T \in Seq(Seq(Fields)) /\ Len(T) = 0
    <3> HIDE DEF none, st
    <3> QED
      BY <1>4, ThreadPartsAtShape
  <2> HIDE DEF T
  <2>2. T = <<>>
    BY <2>1
  <2>3. Cat(Header(Len(ws)), <<>>) = Header(Len(ws))
    BY <1>1, HeaderType, CatEmpty
  <2> QED
    BY <2>2, <2>3, FlattenEmpty DEF ReadPart, T
<1>7. Copied(Header(Len(ws)), f, 2)
  <2> DEFINE h == Header(Len(ws))
  <2>1. Len(h) = 1 /\ h[1] = f[1]
    BY <1>1, <1>2, HeaderType
  <2> HIDE DEF h
  <2>2. \A k \in 1 .. Len(h) : k = 1
    BY <2>1
  <2>3. \A k \in 1 .. Len(h) : Alike(h[k], f[k])
    BY <2>1, <2>2, AlikeSame
  <2>4. Copied(h, f, 2)
    BY <2>1, <2>3 DEF Copied
  <2> QED
    BY <2>4 DEF h
<1>8. Due(ws, st, none) = ThreadsAhead(ws, 0)
  BY DEF Due
<1>9. InSync(ws, full, st, none, l, 2)
  <2> HIDE DEF none, l, st
  <2>1. Len(none) + l[1] = Len(ws) /\ ~(Len(none) > 0) /\ 2 - 1 = 1
    BY <1>1, <1>4
  <2> QED
    BY <1>8, <2>1 DEF InSync
<1>10. Reader(ws, full, f, ct, st, none, l, 2)
  <2> HIDE DEF none, l, st
  <2>1. Len(none) + l[1] = Len(ws) /\ ~(2 > Len(f) + 1) /\ 2 \in Nat \ {0}
    BY <1>1, <1>4
  <2> QED
    BY <1>5, <1>6, <1>7, <1>9, <2>1 DEF Reader
<1> QED
  BY <1>3, <1>10

\* A thread, but for its frames.
LEMMA ThreadRead ==
  ASSUME NEW ws, NEW full, Readable(ws, full, file, cut),
         Reader(ws, full, file, cut, "thread", ctx, left, pos), left[1] # 0,
         NEW tid \in Member(pos), NEW crashed \in Member(pos + 1), NEW size \in Member(pos + 2)
  PROVE  LET t == [tid |-> tid, crashed |-> crashed, size |-> size, frames |-> <<>>] IN
         /\ size = Huge => cut
         /\ Reader(ws, full, file, cut, AfterThread(size), Append(ctx, t), <<left[1] - 1, size>>, pos + 3)
<1> DEFINE n == Len(ctx)
           w == ws[n + 1]
           R == ThreadsAhead(ws, n + 1)
           more == FramesAhead(w.frames, 0, R)
           d == HeadFields(w.tid, w.crashed, Len(w.frames))
           e == HeadFields(tid, crashed, size)
           none == <<>>
           t == [tid |-> tid, crashed |-> crashed, size |-> size, frames |-> none]
           c == Append(ctx, t)
           l == <<left[1] - 1, size>>
           st == AfterThread(size)
           m == n + left[1]
           end == Len(file)
<1>1. /\ ws \in Seq(ParsedThreads) /\ Len(ws) \in Nat /\ AllWritable(ws)
      /\ \A i \in 1 .. Len(ws) : Writable(ws[i]) /\ Modest(ws[i])
      /\ full \in Seq(Fields) /\ file \in Seq(Fields) /\ Prefixed(file, full)
      /\ Len(full) \in Nat /\ end \in Nat /\ (~cut => end = Len(full))
      /\ Counted("thread", ctx, left) /\ pos \in Nat \ {0}
      /\ ctx \in Seq(LoadedThreads) /\ n \in Nat /\ left[1] \in Nat /\ left[2] \in Nat
      /\ ReadPart(ctx, "thread", m) \in Seq(Fields)
      /\ Copied(ReadPart(ctx, "thread", m), file, pos)
      /\ (pos <= end + 1 => InSync(ws, full, "thread", ctx, left, pos))
      /\ (pos > end + 1 => cut)
  BY ReaderParts
<1> HIDE DEF end
<1>2. ASSUME pos <= end + 1
      PROVE  /\ n + 1 \in 1 .. Len(ws) /\ n + left[1] = Len(ws)
             /\ w.tid \in Nat /\ w.crashed \in BOOLEAN \cup Nat /\ w.frames \in Seq(LoadedFrames)
             /\ Len(w.frames) < Huge /\ Len(w.frames) \in Nat
             /\ R \in Seq(Fields) /\ more \in Seq(Fields)
             /\ d[1] = Field("tid", w.tid) /\ d[2] = Field("crashed", w.crashed)
             /\ d[3] = Field("frames size", Len(w.frames))
             /\ pos <= end => file[pos] = d[1]
             /\ pos + 1 <= end => file[pos + 1] = d[2]
             /\ pos + 2 <= end => file[pos + 2] = d[3]
             /\ Remains(full, (pos + 3) - 1, more)
             /\ pos + 2 <= Len(full)
  <2>1. n + left[1] = Len(ws) /\ Remains(full, pos - 1, ThreadsAhead(ws, n))
    BY <1>1, <1>2 DEF InSync, Due
  <2>2. n \in 0 .. Len(ws) /\ n + 1 \in 1 .. Len(ws) /\ n < Len(ws) /\ n + 1 \in 0 .. Len(ws)
    <3> HIDE DEF n
    <3> QED
      BY <1>1, <2>1, SMTT(40)
  <2>3. R \in Seq(Fields) /\ ThreadsAhead(ws, n) = Cat(d, more)
    BY <1>1, <2>2, ThreadsAheadStep
  <2>4. Writable(w) /\ Modest(w)
    BY <1>1, <2>2
  <2> HIDE DEF w, R
  <2>5. /\ w.tid \in Nat /\ w.crashed \in BOOLEAN \cup Nat /\ w.frames \in Seq(LoadedFrames)
        /\ Len(w.frames) < Huge
    BY <2>4 DEF Writable, Modest
  <2>6. Len(w.frames) \in Nat
    BY <2>5
  <2>7. /\ d \in Seq(Fields) /\ Len(d) = 3
        /\ d[1] = Field("tid", w.tid) /\ d[2] = Field("crashed", w.crashed)
        /\ d[3] = Field("frames size", Len(w.frames))
    <3> DEFINE x == w.tid
               y == w.crashed
               z == Len(w.frames)
    <3>1. x \in Nat /\ y \in BOOLEAN \cup Nat /\ z \in Nat
      BY <2>5, <2>6
    <3> HIDE DEF x, y, z
    <3>2. /\ HeadFields(x, y, z) \in Seq(Fields) /\ Len(HeadFields(x, y, z)) = 3
          /\ HeadFields(x, y, z)[1] = Field("tid", x) /\ HeadFields(x, y, z)[2] = Field("crashed", y)
          /\ HeadFields(x, y, z)[3] = Field("frames size", z)
      BY <3>1, HeadFieldsType
    <3> QED
      BY <3>2 DEF x, y, z
  <2>8. more \in Seq(Fields)
    <3>1. 0 \in 0 .. Len(w.frames)
      BY <2>6
    <3> QED
      BY <2>3, <2>5, <3>1, FramesAheadStep
  <2> HIDE DEF d, more
  <2>9. Remains(full, pos - 1, Cat(d, more))
    BY <2>1, <2>3
  <2>10. /\ pos <= Len(file) => file[pos] = d[1]
         /\ pos + 1 <= Len(file) => file[pos + 1] = d[2]
         /\ pos + 2 <= Len(file) => file[pos + 2] = d[3]
         /\ Remains(full, (pos + 3) - 1, more)
         /\ pos + 2 <= Len(full)
    BY <1>1, <2>7, <2>8, <2>9, MeetsThree
  <2> QED
    BY <2>1, <2>2, <2>3, <2>5, <2>6, <2>7, <2>8, <2>10 DEF end
<1>3. /\ pos <= end => tid = file[pos].value
      /\ ~(pos <= end) => tid \in Nat
      /\ pos + 1 <= end => crashed = file[pos + 1].value
      /\ ~(pos + 1 <= end) => crashed \in Nat
      /\ pos + 2 <= end => size = file[pos + 2].value
      /\ ~(pos + 2 <= end) => size \in Nat
  BY MemberType DEF end
<1> HIDE DEF n, w, R, more, d
<1>4. /\ pos <= end => pos <= end + 1 /\ tid = w.tid /\ file[pos] = Field("tid", tid)
      /\ pos + 1 <= end => pos <= end + 1 /\ crashed = w.crashed /\ file[pos + 1] = Field("crashed", crashed)
      /\ pos + 2 <= end => pos <= end + 1 /\ size = Len(w.frames) /\ file[pos + 2] = Field("frames size", size)
  <2>1. \A k, v : Field(k, v).value = v
    BY DEF Field
  <2>2. /\ pos <= end => pos <= end + 1
        /\ pos + 1 <= end => pos <= end + 1
        /\ pos + 2 <= end => pos <= end + 1
    BY <1>1
  <2>3. ASSUME pos <= end PROVE tid = w.tid /\ file[pos] = Field("tid", tid)
    <3>1. file[pos] = Field("tid", w.tid)
      BY <1>2, <2>2, <2>3
    <3>2. tid = w.tid
      BY <1>3, <2>1, <2>3, <3>1
    <3> QED
      BY <3>1, <3>2
  <2>4. ASSUME pos + 1 <= end PROVE crashed = w.crashed /\ file[pos + 1] = Field("crashed", crashed)
    <3>1. file[pos + 1] = Field("crashed", w.crashed)
      BY <1>2, <2>2, <2>4
    <3>2. crashed = w.crashed
      BY <1>3, <2>1, <2>4, <3>1
    <3> QED
      BY <3>1, <3>2
  <2>5. ASSUME pos + 2 <= end PROVE size = Len(w.frames) /\ file[pos + 2] = Field("frames size", size)
    <3>1. file[pos + 2] = Field("frames size", Len(w.frames))
      BY <1>2, <2>2, <2>5
    <3>2. size = Len(w.frames)
      <4> DEFINE z == Len(w.frames)
      <4> HIDE DEF z
      <4>1. file[pos + 2] = Field("frames size", z)
        BY <3>1 DEF z
      <4>2. file[pos + 2].value = z
        BY <2>1, <4>1
      <4>3. size = z
        BY <1>3, <2>5, <4>2
      <4> QED
        BY <4>3 DEF z
    <3> QED
      BY <3>1, <3>2
  <2> QED
    BY <2>2, <2>3, <2>4, <2>5
<1>5. tid \in Nat /\ crashed \in BOOLEAN \cup Nat /\ size \in Nat
  BY <1>2, <1>3, <1>4
<1>6. /\ e \in Seq(Fields) /\ Len(e) = 3
      /\ e[1] = Field("tid", tid) /\ e[2] = Field("crashed", crashed) /\ e[3] = Field("frames size", size)
  BY <1>5, HeadFieldsType
<1>7. none \in Seq(LoadedFrames) /\ none = <<>> /\ Len(none) = 0
  OBVIOUS
<1>8. /\ t \in LoadedThreads /\ t.frames = none /\ t.size = size /\ t.tid = tid /\ t.crashed = crashed
  <2> DEFINE S == Seq(LoadedFrames)
             C == BOOLEAN \cup Nat
  <2>1. LoadedThreads = [tid: Nat, crashed: C, size: Nat, frames: S] /\ none \in S /\ crashed \in C
    BY <1>5, <1>7 DEF LoadedThreads
  <2> HIDE DEF S, C, none
  <2> QED
    BY <1>5, <2>1
<1> HIDE DEF none, t, e
<1>9. /\ c \in Seq(LoadedThreads) /\ Len(c) = n + 1 /\ c[n + 1] = t
      /\ \A k \in 1 .. n : c[k] = ctx[k]
  BY <1>1, <1>8 DEF n
<1>10. l \in Nat \X Nat /\ l[1] = left[1] - 1 /\ l[2] = size /\ l[1] \in Nat
  <2> DEFINE k == left[1] - 1
  <2>1. k \in Nat /\ size \in Nat
    <3>1. left[1] \in Nat /\ left[1] # 0 /\ size \in Nat
      BY <1>1, <1>5
    <3> QED
      BY <3>1
  <2> HIDE DEF k
  <2>2. <<k, size>> \in Nat \X Nat /\ <<k, size>>[1] = k /\ <<k, size>>[2] = size
    BY <2>1
  <2> QED
    BY <2>1, <2>2 DEF k
<1>11. st \in {"thread", "frame"} /\ (st = "thread" <=> size = 0)
  BY DEF AfterThread
<1>12. m \in Nat /\ Len(c) + l[1] = m /\ Len(c) > 0
  <2>1. Len(c) = n + 1 /\ l[1] = left[1] - 1 /\ n \in Nat /\ left[1] \in Nat
    BY <1>1, <1>9, <1>10 DEF n
  <2> HIDE DEF c, l
  <2> QED
    BY <2>1
<1>13. ReadPart(c, st, m) = Cat(ReadPart(ctx, "thread", m), e)
  <2>1. t.frames = <<>>
    BY <1>7, <1>8
  <2>2. e = HeadFields(t.tid, t.crashed, t.size)
    BY <1>8 DEF e
  <2> HIDE DEF st, m
  <2> QED
    BY <1>1, <1>8, <1>12, <2>1, <2>2, PartThread
<1> HIDE DEF c, l, st, m
<1>14. Copied(ReadPart(c, st, m), file, pos + 3)
  <2>1. /\ pos <= Len(file) => Alike(e[1], file[pos])
        /\ pos + 1 <= Len(file) => Alike(e[2], file[pos + 1])
        /\ pos + 2 <= Len(file) => Alike(e[3], file[pos + 2])
    BY <1>4, <1>6, AlikeSame DEF end
  <2> DEFINE part == ReadPart(ctx, "thread", m)
  <2>2. part \in Seq(Fields) /\ Copied(part, file, pos)
    BY <1>1
  <2> HIDE DEF part
  <2>3. Copied(Cat(part, e), file, pos + 3)
    BY <1>1, <1>6, <2>1, <2>2, CopiedThree
  <2> QED
    BY <1>13, <2>3 DEF part
<1>15. Owed(st, l) = size
  BY <1>10, <1>11 DEF Owed
<1>16. Counted(st, c, l)
  <2>1. ASSUME NEW i \in 1 .. Len(c)
        PROVE  c[i].size = Len(c[i].frames) + IF i = Len(c) THEN Owed(st, l) ELSE 0
    <3>1. CASE i = n + 1
      <4>1. c[i].size = size /\ Len(c[i].frames) = 0
        BY <1>7, <1>8, <1>9, <3>1
      <4> QED
        BY <1>5, <1>9, <1>15, <3>1, <4>1
    <3>2. CASE i # n + 1
      <4>1. i \in 1 .. n /\ i # Len(c)
        BY <1>1, <1>9, <3>2
      <4>2. ctx[i].size = Len(ctx[i].frames) + IF i = Len(ctx) THEN Owed("thread", left) ELSE 0
        BY <1>1, <4>1 DEF Counted, n
      <4>3. Owed("thread", left) = 0
        BY DEF Owed
      <4>4. ctx[i].size = Len(ctx[i].frames) + 0
        BY <4>2, <4>3
      <4> QED
        BY <1>9, <4>1, <4>4
    <3> QED
      BY <3>1, <3>2
  <2>2. st = "frame" => l[2] > 0
    BY <1>5, <1>10, <1>11
  <2> QED
    BY <1>9, <1>10, <1>11, <1>12, <2>1, <2>2 DEF Counted
<1>17. ASSUME pos + 3 <= end + 1 PROVE InSync(ws, full, st, c, l, pos + 3)
  <2>1. pos + 2 <= end /\ pos <= end + 1
    BY <1>1, <1>17
  <2>2. /\ size = Len(w.frames) /\ n + left[1] = Len(ws)
        /\ Remains(full, (pos + 3) - 1, more) /\ R \in Seq(Fields) /\ w.frames \in Seq(LoadedFrames)
    BY <1>2, <1>4, <2>1
  <2>3. c[Len(c)] = t /\ Len(c[Len(c)].frames) = 0 /\ ws[Len(c)] = w
    BY <1>7, <1>8, <1>9 DEF w
  <2>4. Due(ws, st, c) = more
    <3>1. Len(c) = n + 1 /\ R = ThreadsAhead(ws, Len(c)) /\ more = FramesAhead(ws[Len(c)].frames, Len(c[Len(c)].frames), R)
      BY <1>9, <2>3 DEF R, more
    <3>2. CASE st = "frame"
      BY <3>1, <3>2 DEF Due
    <3>3. CASE st = "thread"
      <4>1. 0 \in 0 .. Len(w.frames) /\ 0 = Len(w.frames)
        BY <1>11, <2>2, <3>3
      <4>2. FramesAhead(w.frames, 0, R) = R
        BY <2>2, <4>1, FramesAheadStep
      <4>3. more = R
        BY <4>2 DEF more
      <4> QED
        BY <3>1, <3>3, <4>3 DEF Due
    <3> QED
      BY <1>11, <3>2, <3>3
  <2>5. Len(c) + l[1] = Len(ws) /\ Len(c[Len(c)].frames) + Owed(st, l) = Len(ws[Len(c)].frames)
    BY <1>5, <1>12, <1>15, <2>2, <2>3 DEF m
  <2> QED
    BY <2>2, <2>4, <2>5 DEF InSync
<1>18. ASSUME pos + 3 > end + 1, ~cut PROVE FALSE
  <2>1. pos <= end + 1 /\ end = Len(full)
    BY <1>1, <1>18
  <2>2. pos + 2 <= Len(full)
    BY <1>2, <2>1
  <2> QED
    BY <1>1, <1>18, <2>1, <2>2
<1>19. Reader(ws, full, file, cut, st, c, l, pos + 3)
  <2>1. pos + 3 \in Nat \ {0}
    BY <1>1
  <2> QED
    BY <1>12, <1>14, <1>16, <1>17, <1>18, <2>1 DEF Reader, end
<1>20. size = Huge => cut
  <2> SUFFICES ASSUME size = Huge, ~cut PROVE FALSE
    OBVIOUS
  <2>1. pos + 2 <= end
    BY <1>1, <1>18
  <2>2. size = Len(w.frames) /\ Len(w.frames) < Huge /\ Len(w.frames) \in Nat
    BY <1>1, <1>2, <1>4, <2>1
  <2> QED
    BY <2>2
<1> QED
  BY <1>19, <1>20 DEF c, l, st, t, none

LEMMA LoadedHasFrames == HasFrames(LoadedThreads, LoadedFrames)
<1> SUFFICES ASSUME NEW t \in LoadedThreads
             PROVE  /\ t.frames \in Seq(LoadedFrames)
                    /\ \A fs \in Seq(LoadedFrames) :
                         [t EXCEPT !.frames = fs] \in LoadedThreads /\ [t EXCEPT !.frames = fs].frames = fs
  BY DEF HasFrames
<1> DEFINE S == Seq(LoadedFrames)
           C == BOOLEAN \cup Nat
<1> HIDE DEF S, C
<1>1. t \in [tid: Nat, crashed: C, size: Nat, frames: S]
  BY DEF LoadedThreads, S, C
<1>2. \A fs \in S : [t EXCEPT !.frames = fs] \in [tid: Nat, crashed: C, size: Nat, frames: S]
                      /\ [t EXCEPT !.frames = fs].frames = fs
  BY <1>1
<1> QED
  BY <1>1, <1>2 DEF LoadedThreads, S, C

InThread == {"frame", "registers", "stack"}

\* The reader is in a thread.
LEMMA InThreadParts ==
  ASSUME NEW ws, NEW full, NEW f, NEW ct, NEW st \in InThread, NEW c, NEW l, NEW p,
         Readable(ws, full, f, ct), Reader(ws, full, f, ct, st, c, l, p)
  PROVE  LET n == Len(c)
             cs == c[n].frames
             j == Len(cs)
             fs == ws[n].frames IN
         /\ n \in Nat /\ n > 0 /\ c[n] \in LoadedThreads /\ cs \in Seq(LoadedFrames) /\ j \in Nat
         /\ l[2] \in Nat /\ l[2] > 0 /\ (st # "frame" => j > 0)
         /\ p <= Len(f) + 1 =>
              /\ n \in 1 .. Len(ws) /\ n + l[1] = Len(ws)
              /\ Modest(ws[n]) /\ fs \in Seq(LoadedFrames) /\ Len(fs) \in Nat
              /\ ThreadsAhead(ws, n) \in Seq(Fields)
              /\ j + Owed(st, l) = Len(fs)
              /\ Remains(full, p - 1, Due(ws, st, c))
<1> DEFINE n == Len(c)
           cs == c[n].frames
           j == Len(cs)
           fs == ws[n].frames
<1>1. /\ ws \in Seq(ParsedThreads) /\ Len(ws) \in Nat /\ AllWritable(ws)
      /\ \A i \in 1 .. Len(ws) : Writable(ws[i]) /\ Modest(ws[i])
      /\ Counted(st, c, l)
      /\ c \in Seq(LoadedThreads) /\ n \in Nat /\ l[1] \in Nat /\ l[2] \in Nat
      /\ (p <= Len(f) + 1 => InSync(ws, full, st, c, l, p))
  BY ReaderParts
<1>2. n > 0 /\ l[2] > 0 /\ (st # "frame" => j > 0)
  BY <1>1 DEF Counted, InThread
<1> HIDE DEF n
<1>3. c[n] \in LoadedThreads
  BY <1>1, <1>2 DEF n
<1>4. cs \in Seq(LoadedFrames)
  BY <1>3, LoadedThreadType
<1> HIDE DEF cs
<1>5. j \in Nat
  BY <1>4
<1>6. ASSUME p <= Len(f) + 1
      PROVE  /\ n \in 1 .. Len(ws) /\ n + l[1] = Len(ws)
             /\ Modest(ws[n]) /\ fs \in Seq(LoadedFrames) /\ Len(fs) \in Nat
             /\ ThreadsAhead(ws, n) \in Seq(Fields)
             /\ j + Owed(st, l) = Len(fs)
             /\ Remains(full, p - 1, Due(ws, st, c))
  <2>1. /\ n + l[1] = Len(ws) /\ j + Owed(st, l) = Len(fs)
        /\ Remains(full, p - 1, Due(ws, st, c))
    BY <1>1, <1>2, <1>6 DEF InSync, n, cs
  <2>2. n \in 1 .. Len(ws) /\ n \in 0 .. Len(ws)
    <3>1. n \in Nat /\ n > 0 /\ l[1] \in Nat /\ Len(ws) \in Nat
      BY <1>1, <1>2 DEF n
    <3> QED
      BY <2>1, <3>1
  <2>3. Modest(ws[n]) /\ Writable(ws[n])
    BY <1>1, <2>2
  <2>4. ThreadsAhead(ws, n) \in Seq(Fields)
    BY <1>1, <2>2, ThreadsAheadStep
  <2>5. fs \in Seq(LoadedFrames)
    BY <2>3 DEF Writable
  <2> HIDE DEF fs
  <2>6. Len(fs) \in Nat
    BY <2>5
  <2> QED
    BY <2>1, <2>2, <2>3, <2>4, <2>5, <2>6
<1> QED
  BY <1>1, <1>2, <1>3, <1>4, <1>5, <1>6 DEF n, cs

LEMMA CountedIn ==
  ASSUME NEW st \in InThread, NEW c, NEW l, Counted(st, c, l),
         NEW gs, NEW e \in Seq(LoadedThreads), FramesBecome(c, e, gs),
         NEW z, NEW m \in Nat \X Nat, Len(gs) \in Nat,
         Len(gs) + Owed(z, m) = Len(c[Len(c)].frames) + Owed(st, l),
         z # "loaded", z \in InThread => m[2] > 0, z \in {"registers", "stack"} => Len(gs) > 0
  PROVE  Counted(z, e, m)
<1> DEFINE n == Len(c)
<1>1. /\ c \in Seq(LoadedThreads) /\ n \in Nat /\ n > 0
      /\ \A i \in 1 .. n : c[i].size = Len(c[i].frames) + IF i = n THEN Owed(st, l) ELSE 0
  BY DEF Counted, InThread
<1>2. /\ e[n].size = c[n].size /\ e[n].frames = gs
      /\ Len(e) = n /\ \A k \in 1 .. (n - 1) : e[k] = c[k]
  BY <1>1, SameHead
<1> HIDE DEF n
<1>3. ASSUME NEW i \in 1 .. n PROVE e[i].size = Len(e[i].frames) + IF i = n THEN Owed(z, m) ELSE 0
  <2>1. CASE i = n
    <3>1. c[n].size = Len(c[n].frames) + Owed(st, l)
      BY <1>1, <2>1
    <3>2. Len(gs) + Owed(z, m) = Len(c[n].frames) + Owed(st, l)
      BY DEF n
    <3> QED
      BY <1>2, <2>1, <3>1, <3>2
  <2>2. CASE i # n
    <3>1. i \in 1 .. (n - 1)
      BY <1>1, <2>2
    <3>2. c[i].size = Len(c[i].frames) + 0
      BY <1>1, <2>2
    <3> QED
      BY <1>2, <2>2, <3>1, <3>2
  <2> QED
    BY <2>1, <2>2
<1>4. /\ z \in {"frame", "registers", "stack"} => Len(e) > 0 /\ m[2] > 0
      /\ z \in {"registers", "stack"} => Len(e[Len(e)].frames) > 0
  BY <1>1, <1>2 DEF InThread
<1> QED
  BY <1>2, <1>3, <1>4 DEF Counted

LEMMA OverrunType ==
  ASSUME NEW func \in NameValues
  PROVE  Overrun(func) \in NameValues
<1> DEFINE C == STRING \cup {"and more"}
           x == "and more"
<1>1. x \in C
  OBVIOUS
<1> HIDE DEF C, x
<1>2. func \in Seq(C)
  BY DEF NameValues, C
<1>3. func \o <<x>> \in Seq(C)
  BY <1>1, <1>2
<1> QED
  BY <1>3 DEF Overrun, NameValues, C, x

\* The number and the name of a frame.
LEMMA FrameRead ==
  ASSUME NEW ws, NEW full, Readable(ws, full, file, cut),
         Reader(ws, full, file, cut, "frame", ctx, left, pos),
         NEW num \in Member(pos), NEW size \in Local(pos + 1),
         NEW func \in (IF There(pos + 2) THEN {file[pos + 2].value, Overrun(file[pos + 2].value)} ELSE {Overrun(<<>>)})
  PROVE  LET f == [num |-> num, func |-> func, regs |-> <<>>, base |-> 0, stack |-> <<>>] IN
         /\ size = Huge => cut
         /\ Reader(ws, full, file, cut, "registers", [ctx EXCEPT ![Len(ctx)].frames = Append(@, f)], left, pos + 3)
<1> DEFINE n == Len(ctx)
           cs == ctx[n].frames
           j == Len(cs)
           fs == ws[n].frames
           w == fs[j + 1]
           R == ThreadsAhead(ws, n)
           behind == FramesAhead(fs, j + 1, R)
           more == Cat(RegsFields(w.regs), Cat(StackFields(w.base, w.stack), behind))
           d == NameFields(w)
           none == <<>>
           f == [num |-> num, func |-> func, regs |-> none, base |-> 0, stack |-> none]
           e == NameFields(f)
           gs == Append(cs, f)
           c == [ctx EXCEPT ![Len(ctx)].frames = Append(@, f)]
           m == n + left[1]
           end == Len(file)
           st == "frame"
           z == "registers"
<1>1. /\ full \in Seq(Fields) /\ file \in Seq(Fields) /\ Prefixed(file, full)
      /\ Len(full) \in Nat /\ end \in Nat /\ (~cut => end = Len(full))
      /\ Counted(st, ctx, left) /\ pos \in Nat \ {0}
      /\ ctx \in Seq(LoadedThreads) /\ left[1] \in Nat /\ left[2] \in Nat
      /\ ReadPart(ctx, st, m) \in Seq(Fields)
      /\ Copied(ReadPart(ctx, st, m), file, pos)
      /\ (pos > end + 1 => cut)
  BY ReaderParts
<1>2. /\ n \in Nat /\ n > 0 /\ ctx[n] \in LoadedThreads /\ cs \in Seq(LoadedFrames) /\ j \in Nat
      /\ left[2] > 0
      /\ pos <= end + 1 =>
              /\ n \in 1 .. Len(ws) /\ n + left[1] = Len(ws)
              /\ Modest(ws[n]) /\ fs \in Seq(LoadedFrames) /\ Len(fs) \in Nat
              /\ R \in Seq(Fields)
              /\ j + Owed(st, left) = Len(fs)
              /\ Remains(full, pos - 1, Due(ws, st, ctx))
  <2>1. st \in InThread
    BY DEF InThread
  <2> HIDE DEF st
  <2>2. LET x == Len(ctx)
            xs == ctx[x].frames
            y == Len(xs)
            ys == ws[x].frames IN
         /\ x \in Nat /\ x > 0 /\ ctx[x] \in LoadedThreads /\ xs \in Seq(LoadedFrames) /\ y \in Nat
         /\ left[2] \in Nat /\ left[2] > 0 /\ (st # "frame" => y > 0)
         /\ pos <= Len(file) + 1 =>
              /\ x \in 1 .. Len(ws) /\ x + left[1] = Len(ws)
              /\ Modest(ws[x]) /\ ys \in Seq(LoadedFrames) /\ Len(ys) \in Nat
              /\ ThreadsAhead(ws, x) \in Seq(Fields)
              /\ y + Owed(st, left) = Len(ys)
              /\ Remains(full, pos - 1, Due(ws, st, ctx))
    <3>1. Readable(ws, full, file, cut) /\ Reader(ws, full, file, cut, st, ctx, left, pos)
      BY DEF st
    <3> QED
      BY <2>1, <3>1, InThreadParts
  <2> QED
    BY <2>2
<1>3. Owed(st, left) = left[2] /\ Owed(z, left) = left[2] - 1
  BY DEF Owed
<1>4. Due(ws, st, ctx) = FramesAhead(fs, j, R)
  BY DEF Due
<1> HIDE DEF end, st
<1>5. ASSUME pos <= end + 1
      PROVE  /\ w \in LoadedFrames /\ 1 < Huge /\ n + left[1] = Len(ws)
             /\ j + left[2] = Len(fs)
             /\ d[1] = Field("num", w.num) /\ d[2] = Field("func size", 1) /\ d[3] = Field("func", w.func)
             /\ pos <= end => file[pos] = d[1]
             /\ pos + 1 <= end => file[pos + 1] = d[2]
             /\ pos + 2 <= end => file[pos + 2] = d[3]
             /\ Remains(full, (pos + 3) - 1, more)
             /\ pos + 2 <= Len(full)
  <2>1. /\ fs \in Seq(LoadedFrames) /\ Len(fs) \in Nat /\ R \in Seq(Fields) /\ Modest(ws[n])
        /\ j + left[2] = Len(fs) /\ Remains(full, pos - 1, FramesAhead(fs, j, R)) /\ n + left[1] = Len(ws)
    BY <1>2, <1>3, <1>4, <1>5
  <2>2. j \in 0 .. Len(fs) /\ j < Len(fs) /\ j + 1 \in 1 .. Len(fs)
    <3>1. j \in Nat /\ left[2] \in Nat /\ left[2] > 0 /\ Len(fs) \in Nat /\ j + left[2] = Len(fs)
      BY <1>1, <1>2, <2>1
    <3> HIDE DEF j, fs
    <3> QED
      BY <3>1
  <2>3. 1 < Huge
    BY <2>1, <2>2 DEF Modest
  <2>4. /\ w \in LoadedFrames /\ behind \in Seq(Fields)
        /\ FramesAhead(fs, j, R) = Cat(d, more)
    <3> HIDE DEF fs, j, R
    <3> QED
      BY <2>1, <2>2, FramesAheadStep
  <2>5. more \in Seq(Fields)
    <3> HIDE DEF w, behind
    <3>1. RegsFields(w.regs) \in Seq(Fields) /\ StackFields(w.base, w.stack) \in Seq(Fields)
      BY <2>4, LoadedType, RegsFieldsType, StackFieldsType
    <3> QED
      BY <2>4, <3>1, CatType
  <2>6. /\ d \in Seq(Fields) /\ Len(d) = 3
        /\ d[1] = Field("num", w.num) /\ d[2] = Field("func size", 1) /\ d[3] = Field("func", w.func)
    <3> HIDE DEF w
    <3> QED
      BY <2>4, NameFieldsType
  <2> HIDE DEF d, more
  <2>7. Remains(full, pos - 1, Cat(d, more))
    BY <2>1, <2>4
  <2> HIDE DEF w, fs, j
  <2>8. /\ pos <= Len(file) => file[pos] = d[1]
        /\ pos + 1 <= Len(file) => file[pos + 1] = d[2]
        /\ pos + 2 <= Len(file) => file[pos + 2] = d[3]
        /\ Remains(full, (pos + 3) - 1, more)
        /\ pos + 2 <= Len(full)
    BY <1>1, <2>5, <2>6, <2>7, MeetsThree
  <2> QED
    BY <2>1, <2>3, <2>4, <2>6, <2>8 DEF end
<1>6. /\ pos <= end => num = file[pos].value
      /\ ~(pos <= end) => num \in Nat
      /\ pos + 1 <= end => size = file[pos + 1].value
      /\ ~(pos + 1 <= end) => size \in Nat
  BY MemberType DEF end
<1>7. /\ pos + 2 <= end => func = file[pos + 2].value \/ func = Overrun(file[pos + 2].value)
      /\ ~(pos + 2 <= end) => func = Overrun(none)
  BY DEF There, end
<1> HIDE DEF n, w, R, more, d, fs, j, cs
<1>8. /\ pos <= end => pos <= end + 1
      /\ pos + 1 <= end => pos <= end + 1
      /\ pos + 2 <= end => pos <= end + 1
  BY <1>1
<1>9. \A k, v : Field(k, v).value = v /\ Field(k, v).kind = k
  BY DEF Field
<1>10. ASSUME pos <= end PROVE num = w.num /\ num \in Nat /\ file[pos] = Field("num", num)
  <2>1. file[pos] = Field("num", w.num) /\ w \in LoadedFrames
    BY <1>5, <1>8, <1>10
  <2>2. num = w.num
    BY <1>6, <1>9, <1>10, <2>1
  <2> QED
    BY <2>1, <2>2, LoadedType
<1>11. ASSUME pos + 1 <= end PROVE size = 1 /\ file[pos + 1] = Field("func size", 1)
  <2>1. file[pos + 1] = Field("func size", 1)
    BY <1>5, <1>8, <1>11
  <2>2. size = file[pos + 1].value
    BY <1>6, <1>11
  <2>3. file[pos + 1].value = 1
    <3> DEFINE one == 1
               kind == "func size"
    <3> HIDE DEF one, kind
    <3>1. file[pos + 1] = Field(kind, one)
      BY <2>1 DEF one, kind
    <3>2. file[pos + 1].value = one
      BY <1>9, <3>1, Zenon
    <3> QED
      BY <3>2 DEF one
  <2> QED
    BY <2>1, <2>2, <2>3
<1>12. ASSUME pos + 2 <= end
       PROVE  func \in NameValues /\ Alike(Field("func", func), file[pos + 2])
  <2>1. file[pos + 2] = Field("func", w.func) /\ w \in LoadedFrames
    BY <1>5, <1>8, <1>12
  <2>2. func = w.func \/ func = Overrun(w.func)
    BY <1>7, <1>9, <1>12, <2>1
  <2>3. w.func \in NameValues
    BY <2>1, LoadedType
  <2>4. func \in NameValues
    BY <2>2, <2>3, OverrunType
  <2> QED
    BY <1>9, <2>1, <2>2, <2>4 DEF Alike
<1>13. num \in Nat /\ func \in NameValues
  <2>1. none \in NameValues
    <3> DEFINE C == STRING \cup {"and more"}
    <3> HIDE DEF C
    <3>1. none \in Seq(C)
      OBVIOUS
    <3> QED
      BY <3>1 DEF NameValues, C
  <2> HIDE DEF none
  <2> QED
    BY <1>6, <1>7, <1>10, <1>12, <2>1, OverrunType
<1>14. f \in LoadedFrames /\ f.num = num /\ f.func = func
  <2> DEFINE S == Seq(Nat)
  <2>1. none \in S /\ none \in Bytes
    BY DEF Bytes
  <2>2. LoadedFrames = [num: Nat, func: NameValues, regs: S, base: Nat, stack: Bytes]
    BY DEF LoadedFrames
  <2> HIDE DEF S, none
  <2> QED
    BY <1>13, <2>1, <2>2
<1> HIDE DEF none, f
<1>15. /\ e \in Seq(Fields) /\ Len(e) = 3
       /\ e[1] = Field("num", num) /\ e[2] = Field("func size", 1) /\ e[3] = Field("func", func)
  BY <1>14, NameFieldsType
<1>16. /\ gs \in Seq(LoadedFrames) /\ Len(gs) = j + 1 /\ Added(cs, gs, f)
  <2>1. /\ gs \in Seq(LoadedFrames) /\ Len(gs) = Len(cs) + 1 /\ gs[Len(cs) + 1] = f
        /\ \A k \in 1 .. Len(cs) : gs[k] = cs[k]
    BY <1>2, <1>14
  <2> HIDE DEF gs
  <2> QED
    BY <2>1 DEF Added, j
<1>17. c \in Seq(LoadedThreads) /\ FramesBecome(ctx, c, gs)
  <2>1. c = [ctx EXCEPT ![Len(ctx)] = [ctx[Len(ctx)] EXCEPT !.frames = gs]]
    BY DEF cs, n
  <2>2. Len(ctx) > 0
    BY <1>2 DEF n
  <2> HIDE DEF c, gs
  <2>3. LET us == [ctx EXCEPT ![Len(ctx)] = [ctx[Len(ctx)] EXCEPT !.frames = gs]] IN
         us \in Seq(LoadedThreads) /\ FramesBecome(ctx, us, gs)
    BY <1>1, <1>16, <2>2, LoadedHasFrames, SetFrames
  <2> QED
    BY <2>1, <2>3
<1> HIDE DEF c, gs, e, m
<1>18. /\ Len(c) = n /\ c[n].frames = gs
  <2>1. ctx \in Seq(LoadedThreads) /\ Len(ctx) > 0
    BY <1>1, <1>2 DEF n
  <2> QED
    BY <1>17, <2>1, SameHead DEF n
<1>19. m \in Nat /\ Len(c) + left[1] = m
  BY <1>1, <1>2, <1>18, Z3T(40) DEF m
<1>20. ReadPart(c, z, m) = Cat(ReadPart(ctx, st, m), e)
  <2>1. ctx \in Seq(LoadedThreads) /\ Len(ctx) > 0 /\ Added(ctx[Len(ctx)].frames, gs, f)
    BY <1>1, <1>2, <1>16 DEF n, cs
  <2> QED
    BY <1>14, <1>16, <1>17, <1>19, <2>1, PartFrame DEF e, st
<1>21. Copied(ReadPart(c, z, m), file, pos + 3)
  <2>1. /\ pos <= Len(file) => Alike(e[1], file[pos])
        /\ pos + 1 <= Len(file) => Alike(e[2], file[pos + 1])
        /\ pos + 2 <= Len(file) => Alike(e[3], file[pos + 2])
    BY <1>10, <1>11, <1>12, <1>15, AlikeSame DEF end
  <2> DEFINE part == ReadPart(ctx, st, m)
  <2>2. part \in Seq(Fields) /\ Copied(part, file, pos)
    BY <1>1
  <2> HIDE DEF part
  <2>3. Copied(Cat(part, e), file, pos + 3)
    BY <1>1, <1>15, <2>1, <2>2, CopiedThree
  <2> QED
    BY <1>20, <2>3 DEF part
<1>22. Counted(z, c, left)
  <2>1. st \in InThread /\ z \in InThread /\ z # "loaded"
    BY DEF InThread, st
  <2>2. Len(gs) \in Nat /\ Len(gs) > 0 /\ Len(gs) + Owed(z, left) = Len(cs) + Owed(st, left)
    <3>1. j \in Nat /\ left[2] \in Nat /\ Len(gs) = j + 1 /\ Len(cs) = j
      BY <1>1, <1>2, <1>16 DEF j
    <3>2. (j + 1) + (left[2] - 1) = j + left[2] /\ j + 1 > 0 /\ j + 1 \in Nat
      BY <3>1
    <3> QED
      BY <1>3, <3>1, <3>2
  <2>3. left \in Nat \X Nat
    BY <1>1 DEF Counted
  <2> HIDE DEF z
  <2> QED
    BY <1>1, <1>2, <1>17, <2>1, <2>2, <2>3, CountedIn DEF cs, n
<1>23. ASSUME pos + 3 <= end + 1 PROVE InSync(ws, full, z, c, left, pos + 3)
  <2>1. pos <= end + 1
    BY <1>1, <1>23
  <2>2. /\ n + left[1] = Len(ws) /\ j + left[2] = Len(fs) /\ Remains(full, (pos + 3) - 1, more)
    BY <1>5, <2>1
  <2>3. Len(c[Len(c)].frames) = j + 1 /\ ws[Len(c)].frames = fs /\ R = ThreadsAhead(ws, Len(c))
    BY <1>16, <1>18 DEF fs, R
  <2>4. Due(ws, z, c) = more
    BY <2>3 DEF Due, more, w
  <2>5. Len(c) + left[1] = Len(ws) /\ Len(c[Len(c)].frames) + Owed(z, left) = Len(ws[Len(c)].frames)
    <3>1. (j + 1) + (left[2] - 1) = j + left[2]
      <4>1. j \in Nat /\ left[2] \in Nat
        BY <1>1, <1>2
      <4> QED
        BY <4>1
    <3> QED
      BY <1>3, <1>18, <2>2, <2>3, <3>1
  <2> QED
    BY <2>2, <2>4, <2>5 DEF InSync
<1>24. ASSUME pos + 3 > end + 1, ~cut PROVE FALSE
  <2>1. pos <= end + 1 /\ end = Len(full)
    BY <1>1, <1>24
  <2>2. pos + 2 <= Len(full)
    BY <1>5, <2>1
  <2> QED
    BY <1>1, <1>24, <2>1, <2>2
<1>25. Reader(ws, full, file, cut, z, c, left, pos + 3)
  <2>1. pos + 3 \in Nat \ {0}
    BY <1>1
  <2> QED
    BY <1>19, <1>21, <1>22, <1>23, <1>24, <2>1 DEF Reader, end
<1>26. size = Huge => cut
  <2> SUFFICES ASSUME size = Huge, ~cut PROVE FALSE
    OBVIOUS
  <2>1. pos + 2 <= end /\ pos + 1 <= end /\ pos <= end + 1
    BY <1>1, <1>24
  <2>2. size = 1 /\ 1 < Huge
    BY <1>5, <1>11, <2>1
  <2> QED
    BY <2>2
<1> QED
  BY <1>25, <1>26 DEF c, f, none

\* The last frame of c becomes q.
FrameSet(c, q) == [c EXCEPT ![Len(c)].frames[Len(c[Len(c)].frames)] = q]
RegsSet(f, rs) == [f EXCEPT !.regs = rs]

LEMMA FrameSetIs ==
  ASSUME NEW c \in Seq(LoadedThreads), Len(c) > 0, Len(c[Len(c)].frames) > 0, NEW q \in LoadedFrames
  PROVE  LET cs == c[Len(c)].frames
             gs == [cs EXCEPT ![Len(cs)] = q]
             e == FrameSet(c, q) IN
         /\ e \in Seq(LoadedThreads) /\ FramesBecome(c, e, gs)
         /\ gs \in Seq(LoadedFrames) /\ LastBecomes(cs, gs, q)
         /\ Len(gs) = Len(cs) /\ Len(e) = Len(c) /\ e[Len(c)].frames = gs
<1> DEFINE cs == c[Len(c)].frames
           gs == [cs EXCEPT ![Len(cs)] = q]
           e == FrameSet(c, q)
<1>1. /\ e \in Seq(LoadedThreads) /\ FramesBecome(c, e, gs)
      /\ gs \in Seq(LoadedFrames) /\ LastBecomes(cs, gs, q)
  BY LoadedHasFrames, SetFrame DEF FrameSet
<1> HIDE DEF e, gs
<1>2. Len(gs) = Len(cs) /\ Len(e) = Len(c) /\ e[Len(c)].frames = gs
  BY <1>1 DEF LastBecomes, FramesBecome
<1> QED
  BY <1>1, <1>2 DEF e, gs

LEMMA RegsSetType ==
  ASSUME NEW f \in LoadedFrames, NEW rs \in Seq(Nat)
  PROVE  LET q == RegsSet(f, rs) IN
         /\ q \in LoadedFrames /\ q.num = f.num /\ q.func = f.func /\ q.regs = rs
<1> DEFINE S == Seq(Nat)
<1>1. LoadedFrames = [num: Nat, func: NameValues, regs: S, base: Nat, stack: Bytes] /\ rs \in S
  BY DEF LoadedFrames
<1> HIDE DEF S
<1> QED
  BY <1>1 DEF RegsSet

LEMMA StackSetType ==
  ASSUME NEW f \in LoadedFrames, NEW b \in Nat, NEW s \in Bytes
  PROVE  LET q == StackSet(f, b, s) IN
         /\ q \in LoadedFrames /\ q.num = f.num /\ q.func = f.func /\ q.regs = f.regs
         /\ q.base = b /\ q.stack = s
<1> DEFINE S == Seq(Nat)
<1>1. LoadedFrames = [num: Nat, func: NameValues, regs: S, base: Nat, stack: Bytes]
  BY DEF LoadedFrames
<1> HIDE DEF S
<1> QED
  BY <1>1 DEF StackSet

\* What the registers, and the stack, add to what has been read.
LEMMA PartRegs ==
  ASSUME NEW f \in LoadedFrames, NEW rs \in Seq(Nat)
  PROVE  PartOf(RegsSet(f, rs), "stack") = Cat(PartOf(f, "registers"), RegsFields(rs))
<1> DEFINE q == RegsSet(f, rs)
<1>1. q.num = f.num /\ q.func = f.func /\ q.regs = rs
  BY RegsSetType
<1> HIDE DEF q
<1>2. NameFields(q) = NameFields(f)
  BY <1>1 DEF NameFields
<1>3. PartOf(q, "stack") = Cat(NameFields(q), RegsFields(q.regs)) /\ PartOf(f, "registers") = NameFields(f)
  BY DEF PartOf
<1> QED
  BY <1>1, <1>2, <1>3 DEF q

LEMMA PartStack ==
  ASSUME NEW f \in LoadedFrames, NEW b \in Nat, NEW s \in Bytes, NEW z, z \notin {"registers", "stack"}
  PROVE  PartOf(StackSet(f, b, s), z) = Cat(PartOf(f, "stack"), StackFields(b, s))
<1> DEFINE q == StackSet(f, b, s)
<1>1. q \in LoadedFrames /\ q.num = f.num /\ q.func = f.func /\ q.regs = f.regs /\ q.base = b /\ q.stack = s
  BY StackSetType
<1> HIDE DEF q
<1>2. NameFields(q) = NameFields(f)
  BY <1>1 DEF NameFields
<1>3. PartOf(q, z) = FrameFields(q) /\ PartOf(f, "stack") = Cat(NameFields(f), RegsFields(f.regs))
  BY DEF PartOf
<1>4. FrameFields(q) = Cat(Cat(NameFields(q), RegsFields(q.regs)), StackFields(q.base, q.stack))
  BY <1>1, FrameFieldsParts
<1> QED
  BY <1>1, <1>2, <1>3, <1>4 DEF q

\* The registers of a frame.
LEMMA RegistersRead ==
  ASSUME NEW ws, NEW full, Readable(ws, full, file, cut),
         Reader(ws, full, file, cut, "registers", ctx, left, pos),
         NEW size \in Local(pos)
  PROVE  LET f == ctx[Len(ctx)].frames[Len(ctx[Len(ctx)].frames)] IN
         /\ size = Huge => cut
         /\ Reader(ws, full, file, cut, "stack", FrameSet(ctx, RegsSet(f, Registers(pos, size))), left, pos + 1 + size)
<1> DEFINE n == Len(ctx)
           cs == ctx[n].frames
           j == Len(cs)
           fs == ws[n].frames
           w == fs[j]
           R == ThreadsAhead(ws, n)
           behind == FramesAhead(fs, j, R)
           more == Cat(StackFields(w.base, w.stack), behind)
           d == RegsFields(w.regs)
           rs == Registers(pos, size)
           f == cs[j]
           q == RegsSet(f, rs)
           e == RegsFields(rs)
           gs == [cs EXCEPT ![j] = q]
           c == FrameSet(ctx, q)
           m == n + left[1]
           end == Len(file)
           st == "registers"
           z == "stack"
<1>1. /\ full \in Seq(Fields) /\ file \in Seq(Fields) /\ Prefixed(file, full)
      /\ Len(full) \in Nat /\ end \in Nat /\ (~cut => end = Len(full))
      /\ Counted(st, ctx, left) /\ pos \in Nat \ {0}
      /\ ctx \in Seq(LoadedThreads) /\ left[1] \in Nat /\ left[2] \in Nat
      /\ ReadPart(ctx, st, m) \in Seq(Fields)
      /\ Copied(ReadPart(ctx, st, m), file, pos)
      /\ (pos > end + 1 => cut)
  BY ReaderParts
<1>2. /\ n \in Nat /\ n > 0 /\ ctx[n] \in LoadedThreads /\ cs \in Seq(LoadedFrames) /\ j \in Nat /\ j > 0
      /\ left[2] > 0
      /\ pos <= end + 1 =>
              /\ n \in 1 .. Len(ws) /\ n + left[1] = Len(ws)
              /\ Modest(ws[n]) /\ fs \in Seq(LoadedFrames) /\ Len(fs) \in Nat
              /\ R \in Seq(Fields)
              /\ j + Owed(st, left) = Len(fs)
              /\ Remains(full, pos - 1, Due(ws, st, ctx))
  <2>1. st \in InThread /\ st # "frame"
    BY DEF InThread
  <2> HIDE DEF st
  <2>2. LET x == Len(ctx)
            xs == ctx[x].frames
            y == Len(xs)
            ys == ws[x].frames IN
         /\ x \in Nat /\ x > 0 /\ ctx[x] \in LoadedThreads /\ xs \in Seq(LoadedFrames) /\ y \in Nat
         /\ left[2] \in Nat /\ left[2] > 0 /\ (st # "frame" => y > 0)
         /\ pos <= Len(file) + 1 =>
              /\ x \in 1 .. Len(ws) /\ x + left[1] = Len(ws)
              /\ Modest(ws[x]) /\ ys \in Seq(LoadedFrames) /\ Len(ys) \in Nat
              /\ ThreadsAhead(ws, x) \in Seq(Fields)
              /\ y + Owed(st, left) = Len(ys)
              /\ Remains(full, pos - 1, Due(ws, st, ctx))
    <3>1. Readable(ws, full, file, cut) /\ Reader(ws, full, file, cut, st, ctx, left, pos)
      BY DEF st
    <3> QED
      BY <2>1, <3>1, InThreadParts
  <2> QED
    BY <2>1, <2>2
<1>3. Owed(st, left) = left[2] - 1 /\ Owed(z, left) = left[2] - 1
  BY DEF Owed
<1>4. Due(ws, st, ctx) = Cat(d, more)
  BY DEF Due
<1> HIDE DEF end, st
<1>5. ASSUME pos <= end + 1
      PROVE  /\ w \in LoadedFrames /\ Len(w.regs) < Huge /\ Len(w.regs) \in Nat /\ n + left[1] = Len(ws)
             /\ j + Owed(st, left) = Len(fs)
             /\ Len(d) = Len(w.regs) + 1 /\ d[1] = Field("regs size", Len(w.regs))
             /\ \A k \in 1 .. Len(w.regs) : d[k + 1] = Field("reg", w.regs[k]) /\ w.regs[k] \in Nat
             /\ \A k \in 1 .. Len(d) : (pos - 1) + k <= end => file[(pos - 1) + k] = d[k]
             /\ Remains(full, (pos - 1) + Len(d), more)
             /\ (pos - 1) + Len(d) <= Len(full)
  <2>1. /\ fs \in Seq(LoadedFrames) /\ Len(fs) \in Nat /\ R \in Seq(Fields) /\ Modest(ws[n])
        /\ j + (left[2] - 1) = Len(fs) /\ Remains(full, pos - 1, Cat(d, more)) /\ n + left[1] = Len(ws)
    BY <1>2, <1>3, <1>4, <1>5
  <2>2. j \in 0 .. Len(fs) /\ j \in 1 .. Len(fs)
    <3>1. j \in Nat /\ j > 0 /\ left[2] \in Nat /\ left[2] > 0 /\ Len(fs) \in Nat /\ j + (left[2] - 1) = Len(fs)
      BY <1>1, <1>2, <2>1
    <3> HIDE DEF j, fs
    <3> QED
      BY <3>1
  <2>3. Len(w.regs) < Huge
    BY <2>1, <2>2 DEF Modest
  <2>4. w \in LoadedFrames /\ behind \in Seq(Fields)
    <3> HIDE DEF fs, j, R
    <3> QED
      BY <2>1, <2>2, FramesAheadStep
  <2> HIDE DEF w, behind
  <2>5. w.regs \in Seq(Nat) /\ StackFields(w.base, w.stack) \in Seq(Fields)
    BY <2>4, LoadedType, StackFieldsType
  <2>6. more \in Seq(Fields)
    BY <2>4, <2>5, CatType
  <2>7. /\ d \in Seq(Fields) /\ Len(d) = Len(w.regs) + 1 /\ Len(w.regs) \in Nat
        /\ d[1] = Field("regs size", Len(w.regs))
        /\ \A k \in 1 .. Len(w.regs) : d[k + 1] = Field("reg", w.regs[k])
    BY <2>5, RegsFieldsType
  <2>8. \A k \in 1 .. Len(w.regs) : w.regs[k] \in Nat
    BY <2>5
  <2> HIDE DEF d, more
  <2>9. /\ \A k \in 1 .. Len(d) : (pos - 1) + k <= Len(file) => file[(pos - 1) + k] = d[k]
        /\ Remains(full, (pos - 1) + Len(d), more)
        /\ (pos - 1) + Len(d) <= Len(full)
    <3> HIDE DEF fs, j
    <3> QED
      BY <1>1, <2>1, <2>6, <2>7, Meets
  <2> QED
    BY <1>3, <2>1, <2>3, <2>4, <2>7, <2>8, <2>9 DEF end
<1>6. /\ pos <= end => size = file[pos].value
      /\ ~(pos <= end) => size \in Nat
  BY MemberType DEF end
<1> HIDE DEF n, w, R, more, d, fs, j, cs
<1>7. \A k, v : Field(k, v).value = v
  BY DEF Field
<1>8. ASSUME pos <= end PROVE size = Len(w.regs) /\ pos <= end + 1
  <2>1. pos <= end + 1 /\ 1 \in 1 .. Len(d) /\ (pos - 1) + 1 = pos
    <3>1. pos <= end + 1 /\ (pos - 1) + 1 = pos
      BY <1>1, <1>8
    <3>2. Len(w.regs) \in Nat /\ Len(d) = Len(w.regs) + 1
      BY <1>5, <3>1
    <3> QED
      BY <3>1, <3>2
  <2>2. file[pos] = Field("regs size", Len(w.regs))
    BY <1>5, <1>8, <2>1
  <2> QED
    BY <1>6, <1>7, <1>8, <2>1, <2>2
<1>9. size \in Nat
  BY <1>5, <1>6, <1>8
<1>10. /\ rs \in Seq(Nat) /\ Len(rs) = size
       /\ \A k \in 1 .. size : pos + k <= end => rs[k] = w.regs[k]
  <2> DEFINE g(k) == IF There(pos + k) THEN file[pos + k].value ELSE Huge
  <2>1. ASSUME NEW k \in 1 .. size, pos + k <= end PROVE g(k) = w.regs[k] /\ w.regs[k] \in Nat
    <3>1. pos <= end /\ (pos - 1) + (k + 1) = pos + k
      BY <1>1, <1>9, <2>1
    <3>2. size = Len(w.regs) /\ pos <= end + 1
      BY <1>8, <3>1
    <3>3. k + 1 \in 1 .. Len(d)
      <4>1. Len(d) = size + 1
        BY <1>5, <3>2
      <4> QED
        BY <1>9, <4>1
    <3>4. file[pos + k] = d[k + 1] /\ d[k + 1] = Field("reg", w.regs[k]) /\ w.regs[k] \in Nat
      BY <1>5, <2>1, <3>1, <3>2, <3>3
    <3>5. g(k) = file[pos + k].value
      BY <2>1 DEF There, end
    <3> QED
      BY <1>7, <3>4, <3>5
  <2>2. ASSUME NEW k \in 1 .. size PROVE g(k) \in Nat
    <3>1. CASE pos + k <= end
      BY <2>1, <3>1
    <3>2. CASE ~(pos + k <= end)
      BY <3>2, ContextFileAssumption DEF There, end
    <3> QED
      BY <3>1, <3>2
  <2>3. rs = [k \in 1 .. size |-> g(k)]
    BY DEF Registers
  <2> HIDE DEF g, rs
  <2>4. rs \in Seq(Nat) /\ Len(rs) = size /\ \A k \in 1 .. size : rs[k] = g(k)
    BY <1>9, <2>2, <2>3
  <2> QED
    BY <2>1, <2>4
<1> HIDE DEF rs
<1>11. /\ e \in Seq(Fields) /\ Len(e) = size + 1
       /\ e[1] = Field("regs size", size) /\ \A k \in 1 .. size : e[k + 1] = Field("reg", rs[k])
  <2> HIDE DEF e
  <2> QED
    BY <1>10, RegsFieldsType DEF e
<1>12. ASSUME NEW k \in 1 .. Len(e), (pos - 1) + k <= end PROVE Alike(e[k], file[(pos - 1) + k])
  <2>1. k \in 1 .. (size + 1) /\ pos <= end
    <3>1. k \in 1 .. (size + 1)
      BY <1>11
    <3> QED
      BY <1>1, <1>9, <1>12, <3>1
  <2>2. size = Len(w.regs) /\ pos <= end + 1
    BY <1>8, <2>1
  <2>3. file[(pos - 1) + k] = d[k] /\ Len(d) = size + 1
    BY <1>5, <1>12, <2>1, <2>2
  <2>4. e[k] = d[k]
    <3>1. CASE k = 1
      BY <1>5, <1>11, <2>2, <3>1
    <3>2. CASE k # 1
      <4> DEFINE i == k - 1
      <4>1. i \in 1 .. size /\ i + 1 = k /\ pos + i = (pos - 1) + k
        BY <1>1, <1>9, <2>1, <3>2
      <4> HIDE DEF i
      <4>2. e[i + 1] = Field("reg", rs[i]) /\ d[i + 1] = Field("reg", w.regs[i]) /\ rs[i] = w.regs[i]
        BY <1>5, <1>10, <1>11, <1>12, <2>2, <4>1
      <4> QED
        BY <4>1, <4>2
    <3> QED
      BY <3>1, <3>2
  <2> QED
    BY <2>3, <2>4, AlikeSame
<1>13. f \in LoadedFrames
  <2>1. cs \in Seq(LoadedFrames) /\ j \in 1 .. Len(cs)
    BY <1>2 DEF j
  <2> QED
    BY <2>1
<1> HIDE DEF f
<1>14. q \in LoadedFrames
  BY <1>10, <1>13, RegsSetType
<1>15. PartOf(q, z) = Cat(PartOf(f, st), e)
  BY <1>10, <1>13, PartRegs DEF e, st
<1> HIDE DEF q, e
<1>16. /\ c \in Seq(LoadedThreads) /\ FramesBecome(ctx, c, gs)
       /\ gs \in Seq(LoadedFrames) /\ LastBecomes(cs, gs, q)
       /\ Len(gs) = j /\ Len(c) = n /\ c[n].frames = gs
  <2> HIDE DEF c
  <2>1. Len(ctx) > 0 /\ Len(ctx[Len(ctx)].frames) > 0
    BY <1>2 DEF n, cs, j
  <2> QED
    BY <1>1, <1>14, <2>1, FrameSetIs DEF n, cs, j, c
<1> HIDE DEF c, gs, m, z
<1>17. m \in Nat /\ Len(c) + left[1] = m
  BY <1>1, <1>2, <1>16 DEF m
<1>18. ReadPart(c, z, m) = Cat(ReadPart(ctx, st, m), e)
  <2>1. ctx \in Seq(LoadedThreads) /\ Len(ctx) > 0 /\ Len(ctx[Len(ctx)].frames) > 0
    BY <1>1, <1>2 DEF n, cs, j
  <2>2. LastBecomes(ctx[Len(ctx)].frames, gs, q)
    BY <1>16 DEF n, cs
  <2>3. PartOf(q, z) = Cat(PartOf(ctx[Len(ctx)].frames[Len(ctx[Len(ctx)].frames)], st), e)
    BY <1>15 DEF f, n, cs, j
  <2>4. /\ e \in Seq(Fields) /\ q \in LoadedFrames /\ m \in Nat /\ gs \in Seq(LoadedFrames)
        /\ c \in Seq(LoadedThreads) /\ FramesBecome(ctx, c, gs)
    BY <1>11, <1>14, <1>16, <1>17
  <2> QED
    BY <2>1, <2>2, <2>3, <2>4, PartInFrame
<1> DEFINE p == pos + 1 + size
<1>19. pos + Len(e) = p /\ p \in Nat \ {0} /\ p = pos + 1 + size
  <2>1. Len(e) = size + 1 /\ pos \in Nat \ {0} /\ size \in Nat
    BY <1>1, <1>9, <1>11
  <2> QED
    BY <2>1
<1>20. Copied(ReadPart(c, z, m), file, p)
  <2> DEFINE part == ReadPart(ctx, st, m)
  <2>1. part \in Seq(Fields) /\ Copied(part, file, pos)
    BY <1>1
  <2>2. \A k \in 1 .. Len(e) : (pos - 1) + k <= Len(file) => Alike(e[k], file[(pos - 1) + k])
    BY <1>12 DEF end
  <2> HIDE DEF part, p
  <2>3. Copied(Cat(part, e), file, pos + Len(e))
    BY <1>1, <1>11, <2>1, <2>2, CopiedGrows
  <2> QED
    BY <1>18, <1>19, <2>3 DEF part
<1>21. Counted(z, c, left)
  <2>1. st \in InThread /\ z \in InThread /\ z # "loaded"
    BY DEF InThread, st, z
  <2>2. Len(gs) \in Nat /\ Len(gs) > 0 /\ Len(gs) + Owed(z, left) = Len(cs) + Owed(st, left)
    BY <1>2, <1>3, <1>16 DEF j
  <2>3. left \in Nat \X Nat
    BY <1>1 DEF Counted
  <2> QED
    BY <1>1, <1>2, <1>16, <2>1, <2>2, <2>3, CountedIn DEF cs, n
<1> HIDE DEF p
<1>22. ASSUME p <= end + 1 PROVE InSync(ws, full, z, c, left, p)
  <2>1. pos <= end
    BY <1>1, <1>9, <1>19, <1>22
  <2>2. size = Len(w.regs) /\ pos <= end + 1
    BY <1>8, <2>1
  <2>3. /\ n + left[1] = Len(ws) /\ j + Owed(st, left) = Len(fs) /\ Remains(full, (pos - 1) + Len(d), more)
        /\ Len(d) = size + 1
    BY <1>5, <2>2
  <2>4. (pos - 1) + Len(d) = p - 1
    BY <1>1, <1>9, <1>19, <2>3
  <2>5. Len(c[Len(c)].frames) = j /\ ws[Len(c)].frames = fs /\ R = ThreadsAhead(ws, Len(c))
    BY <1>16 DEF fs, R
  <2>6. Due(ws, z, c) = more
    BY <2>5 DEF Due, more, w, z
  <2>7. Len(c) + left[1] = Len(ws) /\ Len(c[Len(c)].frames) + Owed(z, left) = Len(ws[Len(c)].frames)
    BY <1>3, <1>16, <2>3, <2>5
  <2> QED
    BY <2>3, <2>4, <2>6, <2>7 DEF InSync
<1>23. ASSUME ~cut PROVE p <= end + 1 /\ pos <= end
  <2>1. pos <= end + 1 /\ end = Len(full)
    BY <1>1, <1>23
  <2>2. (pos - 1) + Len(d) <= end /\ Len(d) = Len(w.regs) + 1 /\ Len(w.regs) \in Nat
    BY <1>5, <2>1
  <2>3. pos <= end
    BY <1>1, <2>2
  <2>4. size = Len(w.regs)
    BY <1>8, <2>3
  <2>5. p = pos + 1 + size /\ pos \in Nat \ {0} /\ size \in Nat /\ end \in Nat /\ Len(d) = size + 1
    BY <1>1, <1>9, <1>19, <2>2, <2>4
  <2> QED
    BY <2>2, <2>3, <2>5
<1>24. Reader(ws, full, file, cut, z, c, left, p)
  <2>1. p > end + 1 => cut
    BY <1>1, <1>19, <1>23
  <2> QED
    BY <1>17, <1>19, <1>20, <1>21, <1>22, <2>1 DEF Reader, end
<1>25. size = Huge => cut
  <2> SUFFICES ASSUME size = Huge, ~cut PROVE FALSE
    OBVIOUS
  <2>1. pos <= end
    BY <1>23
  <2>2. size = Len(w.regs) /\ Len(w.regs) < Huge /\ Len(w.regs) \in Nat
    BY <1>5, <1>8, <2>1
  <2> QED
    BY <2>2
<1> QED
  BY <1>24, <1>25 DEF c, q, f, rs, n, cs, j, p, z

\* The stack of a frame.
LEMMA StackRead ==
  ASSUME NEW ws, NEW full, Readable(ws, full, file, cut),
         Reader(ws, full, file, cut, "stack", ctx, left, pos),
         NEW base \in Member(pos), NEW size \in Local(pos + 1)
  PROVE  LET f == ctx[Len(ctx)].frames[Len(ctx[Len(ctx)].frames)]
             s == IF There(pos + 2) THEN file[pos + 2].value ELSE [k \in 1 .. size |-> 0] IN
         /\ size = Huge => cut
         /\ Reader(ws, full, file, cut, IF left[2] = 1 THEN "thread" ELSE "frame",
                   FrameSet(ctx, StackSet(f, base, s)), <<left[1], left[2] - 1>>, StackEnd(pos, size))
<1> DEFINE n == Len(ctx)
           cs == ctx[n].frames
           j == Len(cs)
           fs == ws[n].frames
           w == fs[j]
           R == ThreadsAhead(ws, n)
           more == FramesAhead(fs, j, R)
           d == StackFields(w.base, w.stack)
           s == IF There(pos + 2) THEN file[pos + 2].value ELSE [k \in 1 .. size |-> 0]
           f == cs[j]
           q == StackSet(f, base, s)
           e == StackFields(base, s)
           gs == [cs EXCEPT ![j] = q]
           c == FrameSet(ctx, q)
           l == <<left[1], left[2] - 1>>
           m == n + left[1]
           end == Len(file)
           st == "stack"
           z == IF left[2] = 1 THEN "thread" ELSE "frame"
<1>1. /\ full \in Seq(Fields) /\ file \in Seq(Fields) /\ Prefixed(file, full)
      /\ Len(full) \in Nat /\ end \in Nat /\ (~cut => end = Len(full))
      /\ Counted(st, ctx, left) /\ pos \in Nat \ {0}
      /\ ctx \in Seq(LoadedThreads) /\ left[1] \in Nat /\ left[2] \in Nat
      /\ ReadPart(ctx, st, m) \in Seq(Fields)
      /\ Copied(ReadPart(ctx, st, m), file, pos)
      /\ (pos > end + 1 => cut)
  BY ReaderParts
<1>2. /\ n \in Nat /\ n > 0 /\ ctx[n] \in LoadedThreads /\ cs \in Seq(LoadedFrames) /\ j \in Nat /\ j > 0
      /\ left[2] > 0
      /\ pos <= end + 1 =>
              /\ n \in 1 .. Len(ws) /\ n + left[1] = Len(ws)
              /\ Modest(ws[n]) /\ fs \in Seq(LoadedFrames) /\ Len(fs) \in Nat
              /\ R \in Seq(Fields)
              /\ j + Owed(st, left) = Len(fs)
              /\ Remains(full, pos - 1, Due(ws, st, ctx))
  <2>1. st \in InThread /\ st # "frame"
    BY DEF InThread
  <2> HIDE DEF st
  <2>2. LET x == Len(ctx)
            xs == ctx[x].frames
            y == Len(xs)
            ys == ws[x].frames IN
         /\ x \in Nat /\ x > 0 /\ ctx[x] \in LoadedThreads /\ xs \in Seq(LoadedFrames) /\ y \in Nat
         /\ left[2] \in Nat /\ left[2] > 0 /\ (st # "frame" => y > 0)
         /\ pos <= Len(file) + 1 =>
              /\ x \in 1 .. Len(ws) /\ x + left[1] = Len(ws)
              /\ Modest(ws[x]) /\ ys \in Seq(LoadedFrames) /\ Len(ys) \in Nat
              /\ ThreadsAhead(ws, x) \in Seq(Fields)
              /\ y + Owed(st, left) = Len(ys)
              /\ Remains(full, pos - 1, Due(ws, st, ctx))
    <3>1. Readable(ws, full, file, cut) /\ Reader(ws, full, file, cut, st, ctx, left, pos)
      BY DEF st
    <3> QED
      BY <2>1, <3>1, InThreadParts
  <2> QED
    BY <2>1, <2>2
<1>3. Owed(st, left) = left[2] - 1
  BY DEF Owed
<1>4. Due(ws, st, ctx) = Cat(d, more)
  BY DEF Due
<1> HIDE DEF end, st
<1>5. ASSUME pos <= end + 1
      PROVE  /\ fs \in Seq(LoadedFrames) /\ R \in Seq(Fields) /\ j \in 0 .. Len(fs)
             /\ w \in LoadedFrames /\ Len(w.stack) < Huge /\ Len(w.stack) \in Nat /\ n + left[1] = Len(ws)
             /\ j + (left[2] - 1) = Len(fs)
             /\ d[1] = Field("base", w.base) /\ d[2] = Field("stack size", Len(w.stack))
             /\ d[3] = Field("stack", w.stack)
             /\ pos <= end => file[pos] = d[1]
             /\ pos + 1 <= end => file[pos + 1] = d[2]
             /\ pos + 2 <= end => file[pos + 2] = d[3]
             /\ Remains(full, (pos + 3) - 1, more)
             /\ pos + 2 <= Len(full)
  <2>1. /\ fs \in Seq(LoadedFrames) /\ Len(fs) \in Nat /\ R \in Seq(Fields) /\ Modest(ws[n])
        /\ j + (left[2] - 1) = Len(fs) /\ Remains(full, pos - 1, Cat(d, more)) /\ n + left[1] = Len(ws)
    BY <1>2, <1>3, <1>4, <1>5
  <2>2. j \in 0 .. Len(fs) /\ j \in 1 .. Len(fs)
    <3>1. j \in Nat /\ j > 0 /\ left[2] \in Nat /\ left[2] > 0 /\ Len(fs) \in Nat /\ j + (left[2] - 1) = Len(fs)
      BY <1>1, <1>2, <2>1
    <3> HIDE DEF j, fs
    <3> QED
      BY <3>1
  <2>3. Len(w.stack) < Huge
    BY <2>1, <2>2 DEF Modest
  <2>4. w \in LoadedFrames /\ more \in Seq(Fields)
    <3> HIDE DEF fs, j, R
    <3> QED
      BY <2>1, <2>2, FramesAheadStep
  <2> HIDE DEF w, more
  <2>5. w.stack \in Bytes /\ w.base \in Nat
    BY <2>4, LoadedType
  <2>6. /\ d \in Seq(Fields) /\ Len(d) = 3 /\ Len(w.stack) \in Nat
        /\ d[1] = Field("base", w.base) /\ d[2] = Field("stack size", Len(w.stack))
        /\ d[3] = Field("stack", w.stack)
    BY <2>5, StackFieldsType
  <2> HIDE DEF d
  <2>7. /\ pos <= Len(file) => file[pos] = d[1]
        /\ pos + 1 <= Len(file) => file[pos + 1] = d[2]
        /\ pos + 2 <= Len(file) => file[pos + 2] = d[3]
        /\ Remains(full, (pos + 3) - 1, more)
        /\ pos + 2 <= Len(full)
    <3> HIDE DEF fs, j
    <3> QED
      BY <1>1, <2>1, <2>4, <2>6, MeetsThree
  <2> QED
    BY <2>1, <2>2, <2>3, <2>4, <2>6, <2>7 DEF end
<1>6. /\ pos <= end => base = file[pos].value
      /\ ~(pos <= end) => base \in Nat
      /\ pos + 1 <= end => size = file[pos + 1].value
      /\ ~(pos + 1 <= end) => size \in Nat
  BY MemberType DEF end
<1>7. /\ pos + 2 <= end => s = file[pos + 2].value
      /\ ~(pos + 2 <= end) => s = [k \in 1 .. size |-> 0]
  BY DEF There, end
<1> HIDE DEF n, w, R, more, d, fs, j, cs, s
<1>8. /\ pos <= end => pos <= end + 1
      /\ pos + 1 <= end => pos <= end + 1
      /\ pos + 2 <= end => pos <= end + 1 /\ pos + 1 <= end
  BY <1>1
<1>9. \A k, v : Field(k, v).value = v
  BY DEF Field
<1>10. ASSUME pos <= end PROVE base = w.base /\ base \in Nat /\ file[pos] = Field("base", base)
  <2>1. file[pos] = Field("base", w.base) /\ w \in LoadedFrames
    BY <1>5, <1>8, <1>10
  <2>2. base = w.base
    BY <1>6, <1>9, <1>10, <2>1
  <2> QED
    BY <2>1, <2>2, LoadedType
<1>11. ASSUME pos + 1 <= end
       PROVE size = Len(w.stack) /\ size \in Nat /\ size < Huge /\ file[pos + 1] = Field("stack size", size)
  <2> DEFINE x == Len(w.stack)
  <2>1. file[pos + 1] = Field("stack size", x) /\ x \in Nat /\ x < Huge
    BY <1>5, <1>8, <1>11
  <2> HIDE DEF x
  <2>2. size = x
    BY <1>6, <1>9, <1>11, <2>1
  <2> QED
    BY <2>1, <2>2 DEF x
<1>12. ASSUME pos + 2 <= end PROVE s = w.stack /\ s \in Bytes /\ file[pos + 2] = Field("stack", s)
  <2>1. file[pos + 2] = Field("stack", w.stack) /\ w \in LoadedFrames
    BY <1>5, <1>8, <1>12
  <2>2. s = w.stack
    BY <1>7, <1>9, <1>12, <2>1
  <2> QED
    BY <2>1, <2>2, LoadedType
<1>13. base \in Nat /\ size \in Nat
  BY <1>6, <1>10, <1>11
<1>14. s \in Bytes /\ Len(s) \in Nat /\ (pos + 1 <= end => Len(s) = size)
  <2>1. CASE pos + 2 <= end
    <3>1. s \in Bytes /\ s = w.stack /\ size = Len(w.stack)
      BY <1>8, <1>11, <1>12, <2>1
    <3> QED
      BY <1>13, <3>1
  <2>2. CASE ~(pos + 2 <= end)
    <3> DEFINE B == 0 .. 255
               u == [k \in 1 .. size |-> 0]
    <3>1. 0 \in B
      OBVIOUS
    <3> HIDE DEF B
    <3>2. u \in Seq(B) /\ Len(u) = size
      BY <1>13, <3>1
    <3> HIDE DEF u
    <3>3. s = u
      BY <1>7, <2>2 DEF u
    <3> QED
      BY <1>13, <3>2, <3>3 DEF Bytes, B
  <2> QED
    BY <2>1, <2>2
<1>15. /\ e \in Seq(Fields) /\ Len(e) = 3
       /\ e[1] = Field("base", base) /\ e[2] = Field("stack size", Len(s)) /\ e[3] = Field("stack", s)
  BY <1>13, <1>14, StackFieldsType
<1>16. f \in LoadedFrames
  <2>1. cs \in Seq(LoadedFrames) /\ j \in 1 .. Len(cs)
    BY <1>2 DEF j
  <2> QED
    BY <2>1
<1> HIDE DEF f
<1>17. q \in LoadedFrames
  BY <1>13, <1>14, <1>16, StackSetType
<1>18. z \in {"thread", "frame"} /\ (z = "thread" <=> left[2] = 1)
  OBVIOUS
<1>19. PartOf(q, z) = Cat(PartOf(f, st), e)
  <2>1. z \notin {"registers", "stack"}
    BY <1>18
  <2> HIDE DEF z
  <2> QED
    BY <1>13, <1>14, <1>16, <2>1, PartStack DEF st
<1> HIDE DEF q, e
<1>20. /\ c \in Seq(LoadedThreads) /\ FramesBecome(ctx, c, gs)
       /\ gs \in Seq(LoadedFrames) /\ LastBecomes(cs, gs, q)
       /\ Len(gs) = j /\ Len(c) = n /\ c[n].frames = gs
  <2> HIDE DEF c
  <2>1. Len(ctx) > 0 /\ Len(ctx[Len(ctx)].frames) > 0
    BY <1>2 DEF n, cs, j
  <2> QED
    BY <1>1, <1>17, <2>1, FrameSetIs DEF n, cs, j, c
<1> HIDE DEF c, gs, m, z
<1>21. l \in Nat \X Nat /\ l[1] = left[1] /\ l[2] = left[2] - 1
  <2> DEFINE k == left[2] - 1
             i == left[1]
  <2>1. k \in Nat /\ i \in Nat
    <3>1. left[2] \in Nat /\ left[2] > 0
      BY <1>1, <1>2
    <3> QED
      BY <1>1, <3>1
  <2> HIDE DEF k, i
  <2>2. <<i, k>> \in Nat \X Nat /\ <<i, k>>[1] = i /\ <<i, k>>[2] = k
    BY <2>1
  <2> QED
    BY <2>2 DEF k, i
<1> HIDE DEF l
<1>22. m \in Nat /\ Len(c) + l[1] = m
  BY <1>1, <1>2, <1>20, <1>21, Z3T(40) DEF m
<1>23. ReadPart(c, z, m) = Cat(ReadPart(ctx, st, m), e)
  <2>1. ctx \in Seq(LoadedThreads) /\ Len(ctx) > 0 /\ Len(ctx[Len(ctx)].frames) > 0
    BY <1>1, <1>2 DEF n, cs, j
  <2>2. LastBecomes(ctx[Len(ctx)].frames, gs, q)
    BY <1>20 DEF n, cs
  <2>3. PartOf(q, z) = Cat(PartOf(ctx[Len(ctx)].frames[Len(ctx[Len(ctx)].frames)], st), e)
    BY <1>19 DEF f, n, cs, j
  <2>4. /\ e \in Seq(Fields) /\ q \in LoadedFrames /\ m \in Nat /\ gs \in Seq(LoadedFrames)
        /\ c \in Seq(LoadedThreads) /\ FramesBecome(ctx, c, gs)
    BY <1>15, <1>17, <1>20, <1>22
  <2> QED
    BY <2>1, <2>2, <2>3, <2>4, PartInFrame
<1>24. Copied(ReadPart(c, z, m), file, pos + 3)
  <2>1. /\ pos <= Len(file) => Alike(e[1], file[pos])
        /\ pos + 1 <= Len(file) => Alike(e[2], file[pos + 1])
        /\ pos + 2 <= Len(file) => Alike(e[3], file[pos + 2])
    BY <1>10, <1>11, <1>12, <1>14, <1>15, AlikeSame DEF end
  <2> DEFINE part == ReadPart(ctx, st, m)
  <2>2. part \in Seq(Fields) /\ Copied(part, file, pos)
    BY <1>1
  <2> HIDE DEF part
  <2>3. Copied(Cat(part, e), file, pos + 3)
    BY <1>1, <1>15, <2>1, <2>2, CopiedThree
  <2> QED
    BY <1>23, <2>3 DEF part
<1>25. Owed(z, l) = left[2] - 1
  <2>1. CASE left[2] = 1
    BY <1>18, <2>1 DEF Owed
  <2>2. CASE left[2] # 1
    <3>1. z = "frame"
      BY <1>18, <2>2
    <3> QED
      BY <1>21, <3>1 DEF Owed
  <2> QED
    BY <2>1, <2>2
<1>26. Counted(z, c, l)
  <2>1. st \in InThread /\ z # "loaded" /\ z \notin {"registers", "stack"}
    BY <1>18 DEF InThread, st
  <2>2. Len(gs) \in Nat /\ Len(gs) + Owed(z, l) = Len(cs) + Owed(st, left)
    BY <1>2, <1>3, <1>20, <1>25 DEF j
  <2>3. z \in InThread => l[2] > 0
    <3>1. z \in InThread => left[2] # 1
      BY <1>18 DEF InThread
    <3>2. left[2] \in Nat /\ left[2] > 0
      BY <1>1, <1>2
    <3> QED
      BY <1>21, <3>1, <3>2
  <2> QED
    BY <1>1, <1>2, <1>20, <1>21, <2>1, <2>2, <2>3, CountedIn DEF cs, n
<1>27. ASSUME pos + 3 <= end + 1 PROVE InSync(ws, full, z, c, l, pos + 3)
  <2>1. pos <= end + 1
    BY <1>1, <1>27
  <2>2. /\ n + left[1] = Len(ws) /\ j + (left[2] - 1) = Len(fs) /\ Remains(full, (pos + 3) - 1, more)
        /\ fs \in Seq(LoadedFrames) /\ R \in Seq(Fields) /\ j \in 0 .. Len(fs)
    BY <1>5, <2>1
  <2>3. Len(c[Len(c)].frames) = j /\ ws[Len(c)].frames = fs /\ R = ThreadsAhead(ws, Len(c))
    BY <1>20 DEF fs, R
  <2>4. Due(ws, z, c) = more
    <3>1. CASE z = "frame"
      BY <2>3, <3>1 DEF Due, more
    <3>2. CASE z = "thread"
      <4>1. left[2] = 1
        BY <1>18, <3>2
      <4>2. j = Len(fs)
        BY <1>2, <2>2, <4>1
      <4>3. more = R
        BY <2>2, <4>2, FramesAheadStep DEF more
      <4> QED
        BY <2>3, <3>2, <4>3 DEF Due
    <3> QED
      BY <1>18, <3>1, <3>2
  <2>5. Len(c) + l[1] = Len(ws) /\ Len(c[Len(c)].frames) + Owed(z, l) = Len(ws[Len(c)].frames)
    BY <1>20, <1>21, <1>25, <2>2, <2>3
  <2> QED
    BY <2>2, <2>4, <2>5 DEF InSync
<1>28. ASSUME pos + 3 > end + 1, ~cut PROVE FALSE
  <2>1. pos <= end + 1 /\ end = Len(full)
    BY <1>1, <1>28
  <2>2. pos + 2 <= Len(full)
    BY <1>5, <2>1
  <2> QED
    BY <1>1, <1>28, <2>1, <2>2
<1>29. Reader(ws, full, file, cut, z, c, l, pos + 3)
  <2>1. pos + 3 \in Nat \ {0}
    BY <1>1
  <2> QED
    BY <1>22, <1>24, <1>26, <1>27, <1>28, <2>1 DEF Reader, end
<1>30. size = Huge => cut
  <2> SUFFICES ASSUME size = Huge, ~cut PROVE FALSE
    OBVIOUS
  <2>1. pos + 1 <= end
    BY <1>1, <1>28
  <2>2. size < Huge /\ size \in Nat
    BY <1>11, <2>1
  <2> QED
    BY <2>2
<1>31. StackEnd(pos, size) = pos + 3
  BY DEF StackEnd
<1> QED
  BY <1>29, <1>30, <1>31 DEF c, q, f, s, n, cs, j, l, z

-----------------------------------------------------------------------------
(***************************************************************************)
(* The reader's part of the invariant.                                     *)
(***************************************************************************)
Blocks == {"Info", "Thread", "Register", "Stack"}
Reading == {"thread", "frame", "registers", "stack", "loaded"}
Ended == {"rejected", "aborted"}

\* Where the reader is in the file, and in that of all threads.
AtReader == Reader(Written, Full, file, cut, stage, ctx, left, pos)
AtFile == Readable(Written, Full, file, cut)

ReaderInv ==
  /\ ParserInv
  /\ block \in Blocks /\ cut \in BOOLEAN /\ pos \in Nat \ {0} /\ left \in Nat \X Nat
  /\ stage \in {"parse", "written"} \cup Reading \cup Ended
  /\ stage = "parse" => file = <<>> /\ ~cut
  /\ stage \in {"parse", "written"} => pos = 1
  /\ stage # "parse" /\ refused => file = <<>> /\ stage \in {"written", "rejected"}
  /\ stage # "parse" /\ ~refused => AtFile
  /\ stage \in Reading => ~refused /\ AtReader
  /\ stage \in Ended => cut \/ refused

LEMMA SameWritten ==
  ASSUME UNCHANGED <<scene, threads>>
  PROVE  Written' = Written /\ Full' = Full
<1>1. Written' = Written
  BY DEF Written
<1> QED
  BY <1>1 DEF Full

LEMMA ReaderInit ==
  ASSUME FileInit
  PROVE  ReaderInv
<1>1. stage = "parse" /\ block = "Info" /\ file = <<>> /\ cut = FALSE /\ pos = 1 /\ left = <<0, 0>>
  BY DEF FileInit
<1>2. left \in Nat \X Nat
  BY <1>1
<1>3. /\ block \in Blocks /\ pos \in Nat \ {0}
      /\ stage \notin Reading /\ stage \notin Ended /\ stage = "parse"
  BY <1>1 DEF Blocks, Reading, Ended
<1>4. cut \in BOOLEAN /\ ~cut
  BY <1>1
<1> QED
  BY <1>1, <1>2, <1>3, <1>4, ParserInit DEF ReaderInv

\* A line is parsed.
LEMMA ReaderParse ==
  ASSUME ReaderInv, ParseLine
  PROVE  ReaderInv'
<1> USE DEF parsing, reading
<1>1. ParserInv' /\ stage = "parse" /\ ~refused
  BY ParserStep, ParseStep, FileSteps DEF ReaderInv
<1>2. block' \in Blocks
  <2>1. block \in Blocks
    BY DEF ReaderInv
  <2>2. CASE ThreadLine
    BY <2>2 DEF ThreadLine, Take, Blocks
  <2>3. CASE FrameLine
    BY <2>3 DEF FrameLine, Take, Blocks
  <2>4. CASE ContentsLine
    BY <2>4 DEF ContentsLine, Take, Blocks
  <2>5. CASE SkippedLine
    BY <2>1, <2>5 DEF SkippedLine, Take
  <2>6. CASE RegisterLine
    BY <2>6 DEF RegisterLine, Take, Blocks
  <2>7. CASE EndOfRegisters
    BY <2>7 DEF EndOfRegisters, Take, Blocks
  <2>8. CASE StackRow
    <3>1. block' = block \/ block' = "Stack"
      BY <2>8 DEF StackRow, Take
    <3> QED
      BY <2>1, <3>1 DEF Blocks
  <2>9. CASE EndOfStack
    BY <2>9 DEF EndOfStack, Take, Blocks
  <2> QED
    BY <2>2, <2>3, <2>4, <2>5, <2>6, <2>7, <2>8, <2>9 DEF ParseLine
<1>3. /\ UNCHANGED <<file, cut, reading>>
      /\ stage' = "parse" \/ (stage' = "written" /\ refused')
  <2>1. Goes(scene.threads) \/ Fails(scene.threads)
    <3>1. scene \in Scenes /\ threads \in Seq(ParsedThreads) /\ ParsingText(text, block, threads, scene.threads)
      BY <1>1 DEF ReaderInv, ParserInv
    <3>2. scene.threads \in Seq(SourceThreads) /\ AllStorable(scene.threads)
      BY <3>1, SceneSource
    <3> QED
      BY <3>1, <3>2, ParsingStep
  <2> QED
    BY <1>1, <2>1 DEF Goes, Moves, Fails
<1>4. file = <<>> /\ ~cut /\ pos = 1 /\ pos \in Nat \ {0} /\ left \in Nat \X Nat /\ cut \in BOOLEAN
  BY <1>1 DEF ReaderInv
<1>5. stage' \in {"parse", "written"} /\ stage' \notin Reading /\ stage' \notin Ended
  BY <1>3 DEF Reading, Ended
<1> QED
  BY <1>1, <1>2, <1>3, <1>4, <1>5 DEF ReaderInv

\* The file is written.
LEMMA ReaderWrite ==
  ASSUME ReaderInv, Write
  PROVE  ReaderInv'
<1> USE DEF parsing, reading
<1>1. /\ stage = "parse" /\ ~refused /\ stage' = "written" /\ UNCHANGED <<scene, parsing, cut, reading>>
      /\ file' = <<Field("header", Len(Written))>>
                   \o FlattenSeq([k \in DOMAIN Written |-> ThreadFields(Written[k])])
  BY DEF Write
<1>2. ParserInv'
  BY ParserStep, FileSteps DEF ReaderInv, Later
<1>3. Converted
  <2>1. scene \in Scenes /\ threads \in Seq(ParsedThreads) /\ ParsingText(<<>>, block, threads, scene.threads)
    BY DEF ReaderInv, ParserInv, Write
  <2>2. scene.threads \in Seq(SourceThreads)
    BY <2>1, SceneSource
  <2> QED
    BY <2>1, <2>2, ParsingEnds DEF Converted
<1>4. /\ Written \in Seq(ParsedThreads) /\ Len(Written) \in Nat /\ AllWritable(Written)
      /\ \A i \in 1 .. Len(Written) : Modest(Written[i])
  BY <1>3, WrittenShape
<1>5. file' = Full
  <2> DEFINE T == ThreadParts(Written)
  <2>1. DOMAIN Written = 1 .. Len(Written) /\ \A k \in 1 .. Len(Written) : ThreadFields(Written[k]) \in Seq(Fields)
    BY <1>4, ThreadFieldsParts DEF AllWritable
  <2>2. T = [k \in 1 .. Len(Written) |-> ThreadFields(Written[k])]
    BY <2>1 DEF ThreadParts
  <2>3. file' = Cat(Header(Len(Written)), FlattenSeq(T))
    BY <1>1 DEF Cat, Header, ThreadParts
  <2> HIDE DEF T
  <2>4. T \in Seq(Seq(Fields)) /\ 0 \in 0 .. Len(T)
    BY <1>4, <2>1, <2>2
  <2>5. From(T, 0) = T /\ FlattenSeq(T) \in Seq(Fields)
    BY <2>4, FromProperties, FlattenType
  <2>6. Cat(FlattenSeq(T), <<>>) = FlattenSeq(T)
    BY <2>5, CatEmpty
  <2>7. ThreadsAhead(Written, 0) = FlattenSeq(T)
    BY <2>5, <2>6 DEF ThreadsAhead, T
  <2> QED
    BY <2>3, <2>7 DEF Full
<1>6. Written' = Written /\ Full' = Full
  BY <1>1, SameWritten
<1>7. Readable(Written, Full, file', cut)
  <2> DEFINE F == Full
             f == file'
  <2>1. F \in Seq(Fields) /\ Len(F) \in Nat /\ f = F
    BY <1>3, <1>5, FullShape
  <2> HIDE DEF F, f
  <2>2. Prefixed(f, F)
    BY <2>1 DEF Prefixed
  <2>3. Readable(Written, F, f, cut)
    BY <1>4, <2>1, <2>2 DEF Readable
  <2> QED
    BY <2>3 DEF F, f
<1>8. AtFile'
  BY <1>1, <1>6, <1>7 DEF AtFile
<1>9. block \in Blocks /\ cut \in BOOLEAN /\ pos = 1 /\ pos \in Nat \ {0} /\ left \in Nat \X Nat
  BY <1>1 DEF ReaderInv
<1>10. /\ block' = block /\ cut' = cut /\ pos' = pos /\ left' = left /\ refused' = refused
       /\ stage' = "written" /\ stage' \notin Reading /\ stage' \notin Ended /\ ~refused
  BY <1>1 DEF Reading, Ended
<1> QED
  BY <1>2, <1>8, <1>9, <1>10 DEF ReaderInv

\* The end of the file is lost.
LEMMA ReaderCut ==
  ASSUME ReaderInv, Cut
  PROVE  ReaderInv'
<1> USE DEF parsing, reading
<1>1. /\ stage = "written" /\ stage' = stage /\ UNCHANGED <<scene, parsing, reading>> /\ cut' = TRUE
      /\ \E n \in 0 .. (Len(file) - 1) : file' = SubSeq(file, 1, n)
  BY DEF Cut
<1>2. ParserInv'
  BY ParserStep, FileSteps DEF ReaderInv, Later
<1>3. block \in Blocks /\ pos = 1 /\ pos \in Nat \ {0} /\ left \in Nat \X Nat
  BY <1>1 DEF ReaderInv
<1>4. /\ block' = block /\ pos' = pos /\ left' = left /\ refused' = refused
      /\ stage' = "written" /\ stage' \notin Reading /\ stage' \notin Ended
  BY <1>1 DEF Reading, Ended
<1>5. cut' \in BOOLEAN /\ cut'
  BY <1>1
<1>6. ~refused
  <2> SUFFICES ASSUME refused PROVE FALSE
    OBVIOUS
  <2>1. file = <<>>
    BY <1>1 DEF ReaderInv
  <2>2. Len(file) - 1 = -1
    BY <2>1
  <2>3. \A n \in 0 .. (Len(file) - 1) : FALSE
    BY <2>2
  <2> QED
    BY <1>1, <2>3
<1>7. Readable(Written, Full, file, cut)
  BY <1>1, <1>6 DEF ReaderInv, AtFile
<1>8. Readable(Written, Full, file', cut')
  <2> DEFINE ws == Written
             F == Full
             f == file'
             ct == cut'
             S == Fields
  <2>1. /\ ws \in Seq(ParsedThreads) /\ AllWritable(ws) /\ \A i \in 1 .. Len(ws) : Modest(ws[i])
        /\ F \in Seq(S) /\ file \in Seq(S) /\ Prefixed(file, F)
    BY <1>7 DEF Readable
  <2>2. PICK n \in 0 .. (Len(file) - 1) : f = SubSeq(file, 1, n)
    BY <1>1
  <2>3. ct
    BY <1>5
  <2> HIDE DEF ws, F, f, ct, S
  <2>4. Len(file) \in Nat /\ n \in Nat /\ n <= Len(file) /\ Len(F) \in Nat /\ 1 \in Int
    BY <2>1, <2>2
  <2>5. /\ f \in Seq(S) /\ Len(f) = n /\ \A k \in 1 .. n : f[k] = file[k]
    <3>1. \A i \in 1 .. n : file[i] \in S
      BY <2>1, <2>4
    <3>2. /\ f \in Seq(S) /\ Len(f) = IF 1 <= n THEN n - 1 + 1 ELSE 0
          /\ \A i \in 1 .. (n - 1 + 1) : f[i] = file[1 + i - 1]
      BY <2>1, <2>2, <2>4, <3>1, SubSeqProperties
    <3>3. n - 1 + 1 = n /\ \A i \in 1 .. n : 1 + i - 1 = i
      BY <2>4
    <3>4. Len(f) = n
      BY <2>4, <3>2, <3>3
    <3> QED
      BY <3>2, <3>3, <3>4
  <2>6. Prefixed(f, F)
    <3>1. Len(file) <= Len(F) /\ \A k \in 1 .. Len(file) : file[k] = F[k]
      BY <2>1 DEF Prefixed
    <3>2. Len(f) <= Len(F) /\ \A k \in 1 .. Len(f) : k \in 1 .. Len(file)
      BY <2>4, <2>5, <3>1
    <3> QED
      BY <2>5, <3>1, <3>2 DEF Prefixed
  <2>7. Readable(ws, F, f, ct)
    BY <2>1, <2>3, <2>5, <2>6 DEF Readable, S
  <2> QED
    BY <2>7 DEF ws, F, f, ct
<1>9. AtFile'
  <2>1. Written' = Written /\ Full' = Full
    BY <1>1, SameWritten
  <2> QED
    BY <1>8, <2>1 DEF AtFile
<1> QED
  BY <1>2, <1>3, <1>4, <1>5, <1>6, <1>9 DEF ReaderInv

\* The reader goes on, or gives up.
GoesOn == stage' \in Reading /\ Reader(Written, Full, file, cut, stage', ctx', left', pos')
GivesUp == stage' \in Ended /\ (cut \/ refused) /\ UNCHANGED reading

LEMMA ReaderGoes ==
  ASSUME ReaderInv, LoadFile, stage # "parse", UNCHANGED <<scene, parsing, file, cut>>,
         (~refused /\ GoesOn) \/ (GivesUp /\ (refused => stage' = "rejected"))
  PROVE  ReaderInv'
<1> USE DEF parsing, reading
<1>1. ParserInv'
  BY ParserStep, FileSteps DEF ReaderInv, Later
<1>2. Written' = Written /\ Full' = Full
  BY SameWritten
<1>3. /\ block' \in Blocks /\ cut' \in BOOLEAN /\ refused' = refused /\ cut' = cut /\ file' = file
      /\ refused => file = <<>>
      /\ ~refused => AtFile
      /\ pos \in Nat \ {0} /\ left \in Nat \X Nat
  BY DEF ReaderInv
<1>4. AtFile' <=> AtFile
  BY <1>2 DEF AtFile
<1>5. CASE ~refused /\ GoesOn
  <2>1. /\ stage' \in Reading /\ Reader(Written, Full, file, cut, stage', ctx', left', pos')
        /\ stage' \notin {"parse", "written"} /\ stage' \notin Ended
    BY <1>5 DEF GoesOn, Reading, Ended
  <2>2. AtReader'
    BY <1>2, <2>1 DEF AtReader
  <2>3. pos' \in Nat \ {0} /\ left' \in Nat \X Nat
    BY <2>1 DEF Reader, Counted
  <2> QED
    BY <1>1, <1>3, <1>4, <1>5, <2>1, <2>2, <2>3 DEF ReaderInv
<1>6. CASE GivesUp /\ (refused => stage' = "rejected")
  <2>1. stage' \in Ended /\ (cut \/ refused) /\ stage' \notin {"parse", "written"} /\ stage' \notin Reading
    BY <1>6 DEF GivesUp, Reading, Ended
  <2>2. pos' = pos /\ left' = left
    BY <1>6 DEF GivesUp
  <2> QED
    BY <1>1, <1>3, <1>4, <1>6, <2>1, <2>2 DEF ReaderInv
<1> QED
  BY <1>5, <1>6

\* What a step of the reader does.
Reads == (~refused /\ GoesOn) \/ (GivesUp /\ (refused => stage' = "rejected"))

\* What the reader begins with.
LEMMA ReaderAt ==
  ASSUME ReaderInv, stage \in Reading
  PROVE  ~refused /\ Readable(Written, Full, file, cut) /\ Reader(Written, Full, file, cut, stage, ctx, left, pos)
<1>1. stage # "parse"
  BY DEF Reading
<1> QED
  BY <1>1 DEF ReaderInv, AtFile, AtReader

LEMMA FileShape ==
  ASSUME ReaderInv, stage # "parse", ~refused
  PROVE  /\ Converted /\ Readable(Written, Full, file, cut)
         /\ Full \in Seq(Fields) /\ Len(Full) \in Nat /\ Len(Full) > 0
         /\ Full[1] = Field("header", Len(Written)) /\ Remains(Full, 1, ThreadsAhead(Written, 0))
         /\ file \in Seq(Fields) /\ Len(file) \in Nat /\ (~cut => Len(file) = Len(Full))
<1>1. Converted
  BY DEF ReaderInv, ParserInv, Converted
<1>2. Readable(Written, Full, file, cut)
  BY DEF ReaderInv, AtFile
<1>3. file \in Seq(Fields) /\ (~cut => Len(file) = Len(Full))
  BY <1>2 DEF Readable
<1> QED
  BY <1>1, <1>2, <1>3, FullShape

LEMMA HeaderStep ==
  ASSUME ReaderInv, ReadHeader
  PROVE  Reads
<1> USE DEF reading
<1>1. /\ stage = "written"
      /\ ~There(1) => stage' = "rejected" /\ UNCHANGED reading
      /\ There(1) => left' = <<file[1].value, 0>> /\ pos' = 2 /\ ctx' = <<>> /\ stage' = "thread"
  BY DEF ReadHeader
<1>2. refused => file = <<>>
  BY <1>1 DEF ReaderInv
<1>3. CASE ~There(1)
  <2>1. cut \/ refused
    <3> SUFFICES ASSUME ~cut, ~refused PROVE FALSE
      OBVIOUS
    <3>1. Len(file) \in Nat /\ Len(file) > 0
      BY <1>1, FileShape
    <3> QED
      BY <1>3, <3>1 DEF There
  <2>2. stage' \in Ended
    BY <1>1, <1>3 DEF Ended
  <2> QED
    BY <1>1, <1>3, <2>1, <2>2 DEF Reads, GivesUp
<1>4. CASE There(1)
  <2>1. ~refused
    <3> SUFFICES ASSUME refused PROVE FALSE
      OBVIOUS
    <3>1. Len(file) = 0
      BY <1>2
    <3> QED
      BY <1>4, <3>1 DEF There
  <2>2. 1 <= Len(file)
    BY <1>4 DEF There
  <2> DEFINE ws == Written
             F == Full
  <2>3. /\ Readable(ws, F, file, cut)
        /\ F[1] = Field("header", Len(ws)) /\ Remains(F, 1, ThreadsAhead(ws, 0))
    BY <1>1, <2>1, FileShape
  <2> HIDE DEF ws, F
  <2>4. file[1].value = Len(ws) /\ Reader(ws, F, file, cut, "thread", <<>>, <<Len(ws), 0>>, 2)
    BY <2>2, <2>3, HeaderRead
  <2>5. left' = <<Len(ws), 0>>
    BY <1>1, <1>4, <2>4
  <2>6. Reader(ws, F, file, cut, stage', ctx', left', pos')
    BY <1>1, <1>4, <2>4, <2>5
  <2>7. stage' \in Reading
    BY <1>1, <1>4 DEF Reading
  <2> QED
    BY <2>1, <2>6, <2>7 DEF Reads, GoesOn, ws, F
<1> QED
  BY <1>3, <1>4

\* All threads are read.
LEMMA PartLoaded ==
  ASSUME NEW c, NEW n
  PROVE  ReadPart(c, "loaded", n) = ReadPart(c, "thread", n)
<1>1. \A f : PartOf(f, "loaded") = PartOf(f, "thread")
  BY DEF PartOf
<1>2. \A fs : FramePartsAt(fs, "loaded") = FramePartsAt(fs, "thread")
  BY <1>1 DEF FramePartsAt
<1>3. \A t : ThreadPartAt(t, "loaded") = ThreadPartAt(t, "thread")
  BY <1>2 DEF ThreadPartAt
<1>4. ThreadPartsAt(c, "loaded") = ThreadPartsAt(c, "thread")
  BY <1>3 DEF ThreadPartsAt
<1> QED
  BY <1>4 DEF ReadPart

LEMMA AllRead ==
  ASSUME NEW ws, NEW full, NEW f, NEW ct, NEW c, NEW l, NEW p,
         Reader(ws, full, f, ct, "thread", c, l, p), l[1] = 0
  PROVE  Reader(ws, full, f, ct, "loaded", c, l, p)
<1>1. /\ Counted("thread", c, l) /\ p \in Nat \ {0}
      /\ Copied(ReadPart(c, "thread", Len(c) + l[1]), f, p)
      /\ p <= Len(f) + 1 => InSync(ws, full, "thread", c, l, p)
      /\ p > Len(f) + 1 => ct
  BY DEF Reader
<1>2. Owed("thread", l) = 0 /\ Owed("loaded", l) = 0
  BY DEF Owed
<1>3. Counted("loaded", c, l)
  BY <1>1, <1>2 DEF Counted
<1>4. Due(ws, "loaded", c) = Due(ws, "thread", c)
  BY DEF Due
<1>5. InSync(ws, full, "thread", c, l, p) => InSync(ws, full, "loaded", c, l, p)
  BY <1>2, <1>4 DEF InSync
<1> QED
  BY <1>1, <1>3, <1>5, PartLoaded DEF Reader

LEMMA ThreadsStep ==
  ASSUME ReaderInv, ReadThread
  PROVE  Reads
<1> USE DEF reading
<1> DEFINE ws == Written
           F == Full
<1>1. stage = "thread" /\ stage \in Reading
  BY DEF ReadThread, Reading
<1>2. ~refused /\ Readable(ws, F, file, cut) /\ Reader(ws, F, file, cut, "thread", ctx, left, pos)
  BY <1>1, ReaderAt
<1> HIDE DEF ws, F
<1>3. CASE left[1] = 0
  <2>1. stage' = "loaded" /\ UNCHANGED reading
    BY <1>3 DEF ReadThread
  <2>2. Reader(ws, F, file, cut, "loaded", ctx, left, pos)
    BY <1>2, <1>3, AllRead
  <2>3. Reader(ws, F, file, cut, stage', ctx', left', pos')
    BY <2>1, <2>2
  <2>4. stage' \in Reading
    BY <2>1 DEF Reading
  <2> QED
    BY <1>2, <2>3, <2>4 DEF Reads, GoesOn, ws, F
<1>4. CASE left[1] # 0
  <2>1. PICK tid \in Member(pos), crashed \in Member(pos + 1), size \in Member(pos + 2) :
          IF size = Huge THEN stage' = "aborted" /\ UNCHANGED reading
            ELSE /\ ctx' = Append(ctx, [tid |-> tid, crashed |-> crashed, size |-> size, frames |-> <<>>])
                 /\ left' = <<left[1] - 1, size>>
                 /\ pos' = pos + 3
                 /\ stage' = AfterThread(size)
    BY <1>4 DEF ReadThread
  <2> DEFINE t == [tid |-> tid, crashed |-> crashed, size |-> size, frames |-> <<>>]
  <2>2. /\ size = Huge => cut
        /\ Reader(ws, F, file, cut, AfterThread(size), Append(ctx, t), <<left[1] - 1, size>>, pos + 3)
    BY <1>2, <1>4, ThreadRead
  <2>3. CASE size = Huge
    <3>1. stage' \in Ended
      BY <2>1, <2>3 DEF Ended
    <3> QED
      BY <1>2, <2>1, <2>2, <2>3, <3>1 DEF Reads, GivesUp
  <2>4. CASE size # Huge
    <3>1. ctx' = Append(ctx, t) /\ left' = <<left[1] - 1, size>> /\ pos' = pos + 3 /\ stage' = AfterThread(size)
      BY <2>1, <2>4
    <3> HIDE DEF t
    <3>2. Reader(ws, F, file, cut, stage', ctx', left', pos')
      BY <2>2, <3>1
    <3>3. stage' \in Reading
      BY <3>1 DEF Reading, AfterThread
    <3> QED
      BY <1>2, <3>2, <3>3 DEF Reads, GoesOn, ws, F
  <2> QED
    BY <2>3, <2>4
<1> QED
  BY <1>3, <1>4

LEMMA ReadFrameStep ==
  ASSUME ReaderInv, ReadFrame
  PROVE  Reads
<1> USE DEF reading
<1> DEFINE ws == Written
           F == Full
<1>1. stage = "frame" /\ stage \in Reading
  BY DEF ReadFrame, Reading
<1>2. ~refused /\ Readable(ws, F, file, cut) /\ Reader(ws, F, file, cut, "frame", ctx, left, pos)
  BY <1>1, ReaderAt
<1> HIDE DEF ws, F
<1>3. PICK num \in Member(pos), size \in Local(pos + 1) :
        IF size = Huge THEN stage' = "aborted" /\ UNCHANGED reading
        ELSE \E func \in (IF There(pos + 2) THEN {file[pos + 2].value, Overrun(file[pos + 2].value)}
                          ELSE {Overrun(<<>>)}) :
               /\ ctx' = [ctx EXCEPT ![Len(ctx)].frames =
                            Append(@, [num |-> num, func |-> func, regs |-> <<>>, base |-> 0, stack |-> <<>>])]
               /\ pos' = pos + 3 /\ stage' = "registers"
               /\ UNCHANGED left
  BY DEF ReadFrame
<1> DEFINE names == IF There(pos + 2) THEN {file[pos + 2].value, Overrun(file[pos + 2].value)} ELSE {Overrun(<<>>)}
           f(func) == [num |-> num, func |-> func, regs |-> <<>>, base |-> 0, stack |-> <<>>]
           c(func) == [ctx EXCEPT ![Len(ctx)].frames = Append(@, f(func))]
<1>4. ASSUME NEW func \in names
      PROVE  (size = Huge => cut) /\ Reader(ws, F, file, cut, "registers", c(func), left, pos + 3)
  BY <1>2, FrameRead
<1>5. CASE size = Huge
  <2>1. stage' = "aborted" /\ UNCHANGED reading
    BY <1>3, <1>5
  <2>2. names # {}
    OBVIOUS
  <2>3. cut
    BY <1>4, <1>5, <2>2
  <2>4. stage' \in Ended
    BY <2>1 DEF Ended
  <2> QED
    BY <1>2, <2>1, <2>3, <2>4 DEF Reads, GivesUp
<1>6. CASE size # Huge
  <2>1. PICK func \in names : ctx' = c(func) /\ pos' = pos + 3 /\ stage' = "registers" /\ UNCHANGED left
    BY <1>3, <1>6
  <2>2. Reader(ws, F, file, cut, "registers", c(func), left, pos + 3)
    BY <1>4
  <2> HIDE DEF c
  <2>3. Reader(ws, F, file, cut, stage', ctx', left', pos')
    BY <2>1, <2>2
  <2>4. stage' \in Reading
    BY <2>1 DEF Reading
  <2> QED
    BY <1>2, <2>3, <2>4 DEF Reads, GoesOn, ws, F
<1> QED
  BY <1>5, <1>6

LEMMA ReadRegistersStep ==
  ASSUME ReaderInv, ReadRegisters
  PROVE  Reads
<1> USE DEF reading
<1> DEFINE ws == Written
           F == Full
           f == ctx[Len(ctx)].frames[Len(ctx[Len(ctx)].frames)]
<1>1. stage = "registers" /\ stage \in Reading
  BY DEF ReadRegisters, Reading
<1>2. ~refused /\ Readable(ws, F, file, cut) /\ Reader(ws, F, file, cut, "registers", ctx, left, pos)
  BY <1>1, ReaderAt
<1> HIDE DEF ws, F
<1>3. PICK size \in Local(pos) :
        IF size = Huge THEN stage' = "aborted" /\ UNCHANGED reading
        ELSE /\ ctx' = [ctx EXCEPT ![Len(ctx)].frames[Len(CtxFrames)].regs = Registers(pos, size)]
             /\ pos' = pos + 1 + size /\ stage' = "stack"
             /\ UNCHANGED left
  BY DEF ReadRegisters
<1> DEFINE rs == Registers(pos, size)
           e == FrameSet(ctx, RegsSet(f, rs))
<1>4. /\ size = Huge => cut
      /\ Reader(ws, F, file, cut, "stack", e, left, pos + 1 + size)
  BY <1>2, RegistersRead
<1>5. CASE size = Huge
  <2>1. stage' = "aborted" /\ UNCHANGED reading /\ cut
    BY <1>3, <1>4, <1>5
  <2>2. stage' \in Ended
    BY <2>1 DEF Ended
  <2> QED
    BY <1>2, <2>1, <2>2 DEF Reads, GivesUp
<1>6. CASE size # Huge
  <2>1. /\ ctx' = [ctx EXCEPT ![Len(ctx)].frames[Len(CtxFrames)].regs = rs]
        /\ pos' = pos + 1 + size /\ stage' = "stack" /\ left' = left
    BY <1>3, <1>6
  <2> HIDE DEF rs
  <2>2. ctx' = e
    <3>1. ctx' = [ctx EXCEPT ![Len(ctx)].frames[Len(ctx[Len(ctx)].frames)].regs = rs]
      BY <2>1 DEF CtxFrames
    <3>2. e = [ctx EXCEPT ![Len(ctx)].frames[Len(ctx[Len(ctx)].frames)] = [f EXCEPT !.regs = rs]]
      BY DEF FrameSet, RegsSet
    <3> QED
      BY <3>1, <3>2
  <2> HIDE DEF e
  <2>3. Reader(ws, F, file, cut, stage', ctx', left', pos')
    BY <1>4, <2>1, <2>2
  <2>4. stage' \in Reading
    BY <2>1 DEF Reading
  <2> QED
    BY <1>2, <2>3, <2>4 DEF Reads, GoesOn, ws, F
<1> QED
  BY <1>5, <1>6

LEMMA ReadStackStep ==
  ASSUME ReaderInv, ReadStack
  PROVE  Reads
<1> USE DEF reading
<1> DEFINE ws == Written
           F == Full
           f == ctx[Len(ctx)].frames[Len(ctx[Len(ctx)].frames)]
<1>1. stage = "stack" /\ stage \in Reading
  BY DEF ReadStack, Reading
<1>2. ~refused /\ Readable(ws, F, file, cut) /\ Reader(ws, F, file, cut, "stack", ctx, left, pos)
  BY <1>1, ReaderAt
<1> HIDE DEF ws, F
<1>3. PICK base \in Member(pos), size \in Local(pos + 1) :
        IF size = Huge THEN stage' = "aborted" /\ UNCHANGED reading
        ELSE /\ ctx' = [ctx EXCEPT
                  ![Len(ctx)].frames[Len(CtxFrames)].base = base,
                  ![Len(ctx)].frames[Len(CtxFrames)].stack =
                     IF There(pos + 2) THEN file[pos + 2].value ELSE [k \in 1 .. size |-> 0]]
             /\ pos' = StackEnd(pos, size)
             /\ left' = <<left[1], left[2] - 1>>
             /\ stage' = IF left[2] = 1 THEN "thread" ELSE "frame"
  BY DEF ReadStack
<1> DEFINE s == IF There(pos + 2) THEN file[pos + 2].value ELSE [k \in 1 .. size |-> 0]
           e == FrameSet(ctx, StackSet(f, base, s))
           z == IF left[2] = 1 THEN "thread" ELSE "frame"
           l == <<left[1], left[2] - 1>>
<1>4. /\ size = Huge => cut
      /\ Reader(ws, F, file, cut, z, e, l, StackEnd(pos, size))
  BY <1>2, StackRead
<1>5. CASE size = Huge
  <2>1. stage' = "aborted" /\ UNCHANGED reading /\ cut
    BY <1>3, <1>4, <1>5
  <2>2. stage' \in Ended
    BY <2>1 DEF Ended
  <2> QED
    BY <1>2, <2>1, <2>2 DEF Reads, GivesUp
<1>6. CASE size # Huge
  <2>0. z \in Reading
    BY DEF Reading
  <2>1. /\ ctx' = [ctx EXCEPT ![Len(ctx)].frames[Len(CtxFrames)].base = base,
                              ![Len(ctx)].frames[Len(CtxFrames)].stack = s]
        /\ pos' = StackEnd(pos, size) /\ stage' = z /\ left' = l
    BY <1>3, <1>6
  <2> HIDE DEF s, z, l
  <2>2. ctx' = e
    <3> DEFINE n == Len(ctx)
               cs == ctx[n].frames
               j == Len(cs)
    <3>1. /\ n \in DOMAIN ctx /\ j \in DOMAIN cs /\ cs = ctx[n].frames /\ f = cs[j]
          /\ ctx[n] \in LoadedThreads /\ cs \in Seq(LoadedFrames)
      <4>1. Counted("stack", ctx, left)
        BY <1>2 DEF Reader
      <4>2. ctx \in Seq(LoadedThreads) /\ Len(ctx) > 0 /\ Len(ctx[Len(ctx)].frames) > 0
        BY <4>1 DEF Counted
      <4>3. n \in Nat /\ n > 0 /\ n \in DOMAIN ctx /\ ctx[n] \in LoadedThreads
        BY <4>2
      <4>4. cs \in Seq(LoadedFrames)
        BY <4>3, LoadedThreadType
      <4> QED
        BY <4>2, <4>3, <4>4
    <3> HIDE DEF n, cs, j, f
    <3>2. ctx' = [ctx EXCEPT ![n].frames[j].base = base, ![n].frames[j].stack = s]
      BY <2>1, <3>1 DEF CtxFrames, n, cs, j
    <3>3. e = [ctx EXCEPT ![n].frames[j] = [f EXCEPT !.base = base, !.stack = s]]
      BY <3>1 DEF FrameSet, StackSet, n, cs, j
    <3> DEFINE g == [f EXCEPT !.base = base]
               h == [g EXCEPT !.stack = s]
               gs == [cs EXCEPT ![j] = g]
               t == ctx[n]
               u == [t EXCEPT !.frames = gs]
               mid == [ctx EXCEPT ![n] = u]
    <3>4. ctx' = [mid EXCEPT ![n].frames[j].stack = s]
      BY <3>1, <3>2
    <3>5. mid[n] = u /\ n \in DOMAIN mid
      BY <3>1
    <3>6. u.frames = gs /\ gs[j] = g /\ j \in DOMAIN gs
      <4>1. t \in [tid: Nat, crashed: BOOLEAN \cup Nat, size: Nat, frames: Seq(LoadedFrames)]
        BY <3>1 DEF LoadedThreads
      <4> HIDE DEF g
      <4>2. gs[j] = g /\ j \in DOMAIN gs
        BY <3>1
      <4> HIDE DEF gs, t
      <4>3. u.frames = gs
        BY <4>1
      <4> QED
        BY <4>2, <4>3
    <3>7. e = [ctx EXCEPT ![n] = [t EXCEPT !.frames = [cs EXCEPT ![j] = h]]]
      BY <3>1, <3>3
    <3>8. [gs EXCEPT ![j] = h] = [cs EXCEPT ![j] = h]
      <4> HIDE DEF g, h
      <4> QED
        BY <3>1
    <3>9. [u EXCEPT !.frames = [gs EXCEPT ![j] = h]] = [t EXCEPT !.frames = [gs EXCEPT ![j] = h]]
      <4> DEFINE hs == [gs EXCEPT ![j] = h]
      <4> HIDE DEF gs, hs, t
      <4> QED
        OBVIOUS
    <3>10. ctx' = [mid EXCEPT ![n] = [u EXCEPT !.frames = [gs EXCEPT ![j] = h]]]
      <4> HIDE DEF mid, u, gs, g
      <4> QED
        BY <3>4, <3>5, <3>6
    <3>11. [mid EXCEPT ![n] = [t EXCEPT !.frames = [cs EXCEPT ![j] = h]]] = [ctx EXCEPT ![n] = [t EXCEPT !.frames = [cs EXCEPT ![j] = h]]]
      <4> DEFINE v == [t EXCEPT !.frames = [cs EXCEPT ![j] = h]]
      <4> HIDE DEF v, u
      <4> QED
        BY <3>1
    <3> HIDE DEF t, u, mid, gs, g, h
    <3> QED
      BY <3>7, <3>8, <3>9, <3>10, <3>11
  <2> HIDE DEF e
  <2>3. Reader(ws, F, file, cut, stage', ctx', left', pos')
    BY <1>4, <2>1, <2>2
  <2> QED
    BY <1>2, <2>0, <2>1, <2>3 DEF Reads, GoesOn, ws, F
<1> QED
  BY <1>5, <1>6

\* Every step keeps the invariant.
LEMMA ReaderStep ==
  ASSUME ReaderInv, FileNext
  PROVE  ReaderInv'
<1> USE DEF reading
<1>1. ASSUME LoadFile PROVE ReaderInv'
  <2>1. stage # "parse" /\ UNCHANGED <<scene, parsing, file, cut>>
    BY <1>1 DEF LoadFile, ReadHeader, ReadThread, ReadFrame, ReadRegisters, ReadStack
  <2>2. Reads
    BY <1>1, HeaderStep, ThreadsStep, ReadFrameStep, ReadRegistersStep, ReadStackStep DEF LoadFile
  <2> QED
    BY <1>1, <2>1, <2>2, ReaderGoes DEF Reads
<1>2. CASE ParseLine
  BY <1>2, ReaderParse
<1>3. CASE Later
  BY <1>1, <1>3, ReaderWrite, ReaderCut DEF Later
<1> QED
  BY <1>2, <1>3, FileSteps

LEMMA ReaderStutter ==
  ASSUME ReaderInv, UNCHANGED fileVars
  PROVE  ReaderInv'
<1> USE DEF fileVars, parsing, reading
<1>1. /\ UNCHANGED <<scene, stage, text, block, threads, refused, file, cut, pos, ctx, left>>
  OBVIOUS
<1>2. Written' = Written /\ Full' = Full
  BY <1>1, SameWritten
<1>3. (AtFile' <=> AtFile) /\ (AtReader' <=> AtReader)
  BY <1>1, <1>2 DEF AtFile, AtReader
<1>4. ParserInv'
  BY <1>1 DEF ReaderInv, ParserInv
<1> QED
  BY <1>1, <1>3, <1>4 DEF ReaderInv

-----------------------------------------------------------------------------
(***************************************************************************)
(* What the invariant says of the file and of the context.                 *)
(***************************************************************************)
LEMMA TypeHolds == ReaderInv => FileTypeOK
<1> SUFFICES ASSUME ReaderInv PROVE FileTypeOK
  OBVIOUS
<1>1. /\ scene \in Scenes /\ refused \in BOOLEAN /\ block \in Blocks /\ cut \in BOOLEAN
      /\ pos \in Nat \ {0} /\ left \in Nat \X Nat
      /\ stage \in {"parse", "written"} \cup Reading \cup Ended
  BY DEF ReaderInv, ParserInv
<1>2. ASSUME stage \in InThread
      PROVE  /\ ctx # <<>> /\ left[2] > 0
             /\ stage \in {"registers", "stack"} => CtxFrames # <<>>
  <2>1. stage \in Reading
    BY <1>2 DEF InThread, Reading
  <2>2. Counted(stage, ctx, left)
    BY <2>1, ReaderAt DEF Reader
  <2>3. Len(ctx) > 0 /\ left[2] > 0 /\ (stage \in {"registers", "stack"} => Len(CtxFrames) > 0)
    BY <1>2, <2>2 DEF Counted, InThread, CtxFrames
  <2>4. \A s : Len(s) > 0 => s # <<>>
    OBVIOUS
  <2> QED
    BY <2>3, <2>4
<1> QED
  BY <1>1, <1>2 DEF FileTypeOK, Blocks, Reading, Ended, InThread

LEMMA MeetsOne ==
  ASSUME NEW f \in Seq(Fields), NEW full \in Seq(Fields), Prefixed(f, full),
         NEW d \in Seq(Fields), NEW r \in Seq(Fields), NEW p \in Nat \ {0}, Remains(full, p - 1, Cat(d, r)),
         Len(d) > 0, p <= Len(f)
  PROVE  f[p] = d[1]
<1>1. \A q \in 1 .. Len(d) : (p - 1) + q <= Len(f) => f[(p - 1) + q] = d[q]
  BY Meets
<1>2. 1 \in 1 .. Len(d) /\ (p - 1) + 1 = p
  OBVIOUS
<1> QED
  BY <1>1, <1>2

LEMMA FieldKind == \A k, v : Field(k, v).kind = k
  BY DEF Field

\* The field that is read next.
LEMMA NextThread ==
  ASSUME NEW ws, NEW full, NEW f, NEW ct, NEW c, NEW l, NEW p,
         Readable(ws, full, f, ct), Reader(ws, full, f, ct, "thread", c, l, p), l[1] # 0, p <= Len(f)
  PROVE  f[p].kind = "tid"
<1> DEFINE n == Len(c)
           w == ws[n + 1]
           R == FramesAhead(w.frames, 0, ThreadsAhead(ws, n + 1))
           x == w.tid
           y == w.crashed
           z == Len(w.frames)
           d == HeadFields(x, y, z)
<1>1. /\ ws \in Seq(ParsedThreads) /\ Len(ws) \in Nat /\ AllWritable(ws)
      /\ full \in Seq(Fields) /\ f \in Seq(Fields) /\ Prefixed(f, full) /\ Len(f) \in Nat
      /\ p \in Nat \ {0} /\ n \in Nat /\ l[1] \in Nat
      /\ (p <= Len(f) + 1 => InSync(ws, full, "thread", c, l, p))
  BY ReaderParts
<1>2. n + l[1] = Len(ws) /\ Remains(full, p - 1, ThreadsAhead(ws, n))
  <2>1. p <= Len(f) + 1
    BY <1>1
  <2> QED
    BY <1>1, <2>1 DEF InSync, Due
<1>3. n \in 0 .. Len(ws) /\ n < Len(ws) /\ n + 1 \in 0 .. Len(ws)
  <2> HIDE DEF n
  <2> QED
    BY <1>1, <1>2
<1>4. Writable(w) /\ ThreadsAhead(ws, n + 1) \in Seq(Fields) /\ ThreadsAhead(ws, n) = Cat(d, R)
  BY <1>1, <1>3, ThreadsAheadStep
<1> HIDE DEF w
<1>5. x \in Nat /\ y \in BOOLEAN \cup Nat /\ w.frames \in Seq(LoadedFrames) /\ z \in Nat
  BY <1>4 DEF Writable
<1>6. R \in Seq(Fields)
  <2>1. 0 \in 0 .. Len(w.frames)
    BY <1>5
  <2> QED
    BY <1>4, <1>5, <2>1, FramesAheadStep
<1> HIDE DEF x, y, z, R
<1>7. d \in Seq(Fields) /\ Len(d) = 3 /\ d[1] = Field("tid", x)
  BY <1>5, HeadFieldsType
<1> HIDE DEF d
<1>8. Remains(full, p - 1, Cat(d, R))
  BY <1>2, <1>4
<1>9. f[p] = d[1]
  <2>1. Len(d) > 0 /\ d \in Seq(Fields)
    BY <1>7
  <2> QED
    BY <1>1, <1>6, <1>8, <2>1, MeetsOne
<1> QED
  BY <1>7, <1>9, FieldKind

LEMMA NextInThread ==
  ASSUME NEW ws, NEW full, NEW f, NEW ct, NEW st \in InThread, NEW c, NEW l, NEW p,
         Readable(ws, full, f, ct), Reader(ws, full, f, ct, st, c, l, p), p <= Len(f)
  PROVE  /\ st = "frame" => f[p].kind = "num"
         /\ st = "registers" => f[p].kind = "regs size"
         /\ st = "stack" => f[p].kind = "base"
<1> DEFINE n == Len(c)
           cs == c[n].frames
           j == Len(cs)
           fs == ws[n].frames
           R == ThreadsAhead(ws, n)
           behind == FramesAhead(fs, j, R)
           v == fs[j + 1]
           w == fs[j]
           stack == Cat(StackFields(w.base, w.stack), behind)
<1>1. /\ full \in Seq(Fields) /\ f \in Seq(Fields) /\ Prefixed(f, full) /\ Len(f) \in Nat
      /\ p \in Nat \ {0} /\ p <= Len(f) + 1
  <2>1. full \in Seq(Fields) /\ f \in Seq(Fields) /\ Prefixed(f, full) /\ Len(f) \in Nat /\ p \in Nat \ {0}
    BY ReaderParts
  <2> QED
    BY <2>1
<1>2. /\ j \in Nat /\ l[2] \in Nat /\ l[2] > 0 /\ (st # "frame" => j > 0)
      /\ fs \in Seq(LoadedFrames) /\ Len(fs) \in Nat /\ R \in Seq(Fields)
      /\ j + Owed(st, l) = Len(fs) /\ Remains(full, p - 1, Due(ws, st, c))
  BY <1>1, InThreadParts
<1>3. Due(ws, st, c) = IF st = "frame" THEN behind
                       ELSE IF st = "registers" THEN Cat(RegsFields(w.regs), stack)
                       ELSE IF st = "stack" THEN stack ELSE ThreadsAhead(ws, n)
  BY DEF Due
<1> HIDE DEF cs, j, fs, R
<1>4. j \in 0 .. Len(fs) /\ (st = "frame" => j < Len(fs)) /\ (st # "frame" => j \in 1 .. Len(fs))
  <2>1. Owed(st, l) = IF st = "frame" THEN l[2] ELSE l[2] - 1
    BY DEF Owed, InThread
  <2> DEFINE a == l[2]
             b == Len(fs)
  <2>2. /\ j \in Nat /\ a \in Nat /\ a > 0 /\ b \in Nat /\ (st # "frame" => j > 0)
        /\ j + (IF st = "frame" THEN a ELSE a - 1) = b
    BY <1>2, <2>1
  <2> HIDE DEF a, b
  <2>3. j \in 0 .. b /\ (st = "frame" => j < b) /\ (st # "frame" => j \in 1 .. b)
    BY <2>2
  <2> QED
    BY <2>3 DEF b
<1>5. behind \in Seq(Fields)
  BY <1>2, <1>4, FramesAheadStep
<1>6. CASE st = "frame"
  <2> DEFINE r == FramesAhead(fs, j + 1, R)
             more == Cat(RegsFields(v.regs), Cat(StackFields(v.base, v.stack), r))
             d == NameFields(v)
  <2>1. v \in LoadedFrames /\ r \in Seq(Fields) /\ behind = Cat(d, more)
    BY <1>2, <1>4, <1>6, FramesAheadStep
  <2> HIDE DEF v, r
  <2>2. d \in Seq(Fields) /\ Len(d) = 3 /\ d[1] = Field("num", v.num)
    BY <2>1, NameFieldsType
  <2>3. more \in Seq(Fields)
    <3>1. RegsFields(v.regs) \in Seq(Fields) /\ StackFields(v.base, v.stack) \in Seq(Fields)
      BY <2>1, LoadedType, RegsFieldsType, StackFieldsType
    <3> QED
      BY <2>1, <3>1, CatType
  <2>4. Remains(full, p - 1, Cat(d, more))
    BY <1>2, <1>3, <1>6, <2>1
  <2> HIDE DEF d, more
  <2>5. f[p] = d[1]
    <3>1. Len(d) > 0 /\ d \in Seq(Fields)
      BY <2>2
    <3> QED
      BY <1>1, <2>3, <2>4, <3>1, MeetsOne, SMTT(40)
  <2> QED
    BY <1>6, <2>2, <2>5, FieldKind
<1>7. CASE st # "frame"
  <2>1. w \in LoadedFrames
    BY <1>2, <1>4, <1>7
  <2> HIDE DEF w, behind
  <2> DEFINE a == RegsFields(w.regs)
             b == StackFields(w.base, w.stack)
             x == w.base
             y == Len(w.regs)
  <2>2. /\ a \in Seq(Fields) /\ Len(a) = y + 1 /\ y \in Nat /\ a[1] = Field("regs size", y)
        /\ b \in Seq(Fields) /\ Len(b) = 3 /\ b[1] = Field("base", x)
    BY <2>1, LoadedType, RegsFieldsType, StackFieldsType
  <2>3. Len(a) > 0 /\ Len(b) > 0
    <3>1. \A m \in Nat : m + 1 > 0
      OBVIOUS
    <3>2. Len(b) = 3
      BY <2>2
    <3>3. Len(b) > 0
      BY <3>2
    <3> HIDE DEF y, a, b
    <3>4. Len(a) > 0
      BY <2>2, <3>1
    <3> QED
      BY <3>3, <3>4
  <2>4. stack = Cat(b, behind)
    OBVIOUS
  <2> HIDE DEF a, b, x, y, stack
  <2>5. stack \in Seq(Fields)
    BY <1>5, <2>2, <2>4, CatType
  <2>8. /\ a \in Seq(Fields) /\ b \in Seq(Fields)
        /\ full \in Seq(Fields) /\ f \in Seq(Fields) /\ Prefixed(f, full) /\ p \in Nat \ {0}
    BY <1>1, <2>2
  <2>9. a[1] = Field("regs size", y) /\ b[1] = Field("base", x)
    BY <2>2
  <2>10. a[1].kind = "regs size" /\ b[1].kind = "base"
    BY <2>9, FieldKind, Zenon
  <2>6. CASE st = "registers"
    <3>1. Remains(full, p - 1, Cat(a, stack))
      BY <1>2, <1>3, <2>6 DEF a
    <3>2. f[p] = a[1]
      BY <2>3, <2>5, <2>8, <3>1, MeetsOne
    <3>3. f[p].kind = "regs size"
      BY <2>10, <3>2
    <3> QED
      BY <2>6, <3>3
  <2>7. CASE st = "stack"
    <3>1. Remains(full, p - 1, Cat(b, behind))
      BY <1>2, <1>3, <2>4, <2>7
    <3>2. f[p] = b[1]
      <4>1. /\ f \in Seq(Fields) /\ full \in Seq(Fields) /\ Prefixed(f, full) /\ b \in Seq(Fields)
            /\ behind \in Seq(Fields) /\ p \in Nat \ {0} /\ Len(b) > 0 /\ p <= Len(f)
        BY <1>1, <1>5, <2>3, <2>8
      <4> QED
        BY <3>1, <4>1, MeetsOne, SMTT(40)
    <3>3. f[p].kind = "base"
      BY <2>10, <3>2
    <3> QED
      BY <2>7, <3>3
  <2> QED
    BY <1>7, <2>6, <2>7 DEF InThread
<1> QED
  BY <1>6, <1>7

\* The reader is done.
LEMMA LoadedAt ==
  ASSUME ReaderInv, stage = "loaded"
  PROVE  /\ ctx \in Seq(LoadedThreads) /\ Len(ctx) \in Nat
         /\ \A i \in 1 .. Len(ctx) : Len(ctx[i].frames) = ctx[i].size
         /\ file \in Seq(Fields) /\ Len(file) \in Nat /\ Full \in Seq(Fields) /\ Prefixed(file, Full)
         /\ ReadPart(ctx, "thread", Len(ctx)) \in Seq(Fields)
         /\ Copied(ReadPart(ctx, "thread", Len(ctx)), file, pos)
         /\ Len(file) <= pos - 1 /\ pos \in Nat
         /\ ~cut => pos = Len(file) + 1 /\ Len(ctx) = Len(Written) /\ Len(file) = Len(Full)
<1> DEFINE ws == Written
           F == Full
           n == Len(ctx)
           st == "loaded"
<1>1. stage = st /\ Readable(ws, F, file, cut) /\ Reader(ws, F, file, cut, st, ctx, left, pos)
  <2>1. stage \in Reading
    BY DEF Reading
  <2> QED
    BY <2>1, ReaderAt
<1>2. /\ ws \in Seq(ParsedThreads) /\ Len(ws) \in Nat /\ AllWritable(ws)
      /\ F \in Seq(Fields) /\ file \in Seq(Fields) /\ Prefixed(file, F)
      /\ Len(F) \in Nat /\ Len(file) \in Nat /\ (~cut => Len(file) = Len(F))
      /\ Counted(st, ctx, left) /\ pos \in Nat \ {0}
      /\ ctx \in Seq(LoadedThreads) /\ n \in Nat /\ left[1] \in Nat /\ left[2] \in Nat
      /\ ReadPart(ctx, st, n + left[1]) \in Seq(Fields)
      /\ Copied(ReadPart(ctx, st, n + left[1]), file, pos)
      /\ (pos <= Len(file) + 1 => InSync(ws, F, st, ctx, left, pos))
      /\ (pos > Len(file) + 1 => cut)
  <2> HIDE DEF ws, F, st
  <2> QED
    BY <1>1, ReaderParts
<1>3. left[1] = 0 /\ \A i \in 1 .. n : ctx[i].size = Len(ctx[i].frames) + IF i = n THEN Owed(st, left) ELSE 0
  BY <1>2 DEF Counted
<1>4. Owed(st, left) = 0 /\ Due(ws, st, ctx) = ThreadsAhead(ws, n)
  BY DEF Owed, Due
<1>5. ReadPart(ctx, st, n + left[1]) = ReadPart(ctx, "thread", n)
  <2>1. n + left[1] = n
    BY <1>2, <1>3
  <2> HIDE DEF n
  <2> QED
    BY <2>1, PartLoaded
<1> HIDE DEF ws, F, st
<1>6. ASSUME NEW i \in 1 .. n PROVE Len(ctx[i].frames) = ctx[i].size
  <2>1. ctx[i].size = Len(ctx[i].frames) + 0
    BY <1>3, <1>4
  <2>2. ctx[i].frames \in Seq(LoadedFrames)
    <3>1. ctx[i] \in LoadedThreads
      BY <1>2
    <3> QED
      BY <3>1, LoadedThreadType
  <2>3. \A k \in Nat : k + 0 = k
    OBVIOUS
  <2>4. Len(ctx[i].frames) \in Nat
    BY <2>2
  <2> QED
    BY <2>1, <2>3, <2>4
<1>7. ASSUME pos <= Len(file) + 1
      PROVE  n = Len(ws) /\ pos - 1 = Len(F)
  <2>1. n + left[1] = Len(ws) /\ Remains(F, pos - 1, ThreadsAhead(ws, n))
    BY <1>2, <1>4, <1>7 DEF InSync, n
  <2>2. n = Len(ws) /\ n \in 0 .. Len(ws)
    <3> HIDE DEF n
    <3> QED
      BY <1>2, <1>3, <2>1
  <2>3. ThreadsAhead(ws, n) = <<>>
    BY <1>2, <2>2, ThreadsAheadStep
  <2>4. Remains(F, pos - 1, <<>>)
    BY <2>1, <2>3
  <2> QED
    BY <1>2, <2>2, <2>4, RemainsNothing
<1>8. Len(file) <= pos - 1
  <2>1. Len(file) <= Len(F)
    BY <1>2 DEF Prefixed
  <2> QED
    BY <1>2, <1>7, <2>1
<1>9. ~cut => pos = Len(file) + 1 /\ n = Len(ws) /\ Len(file) = Len(F)
  <2> SUFFICES ASSUME ~cut PROVE pos = Len(file) + 1 /\ n = Len(ws) /\ Len(file) = Len(F)
    OBVIOUS
  <2>1. pos <= Len(file) + 1 /\ Len(file) = Len(F)
    BY <1>2
  <2>2. n = Len(ws) /\ pos - 1 = Len(F)
    BY <1>7, <2>1
  <2> QED
    BY <1>2, <2>1, <2>2
<1> QED
  BY <1>2, <1>5, <1>6, <1>8, <1>9 DEF ws, F, n

LEMMA InStepHolds == ReaderInv => InStepUntilCut
<1> SUFFICES ASSUME ReaderInv PROVE InStepUntilCut
  OBVIOUS
<1>1. ASSUME Expected # "none", There(pos)
      PROVE  file[pos].kind = Expected \/ (stage = "thread" /\ left[1] = 0)
  <2>1. pos <= Len(file)
    BY <1>1 DEF There
  <2>2. stage \in {"written", "thread", "frame", "registers", "stack"}
    BY <1>1 DEF Expected
  <2>3. CASE stage = "written"
    <3>1. pos = 1
      BY <2>3 DEF ReaderInv
    <3>2. ~refused
      <4> SUFFICES ASSUME refused PROVE FALSE
        OBVIOUS
      <4>1. file = <<>>
        BY <2>3 DEF ReaderInv
      <4>2. Len(file) = 0
        BY <4>1
      <4> QED
        BY <2>1, <3>1, <4>2
    <3> DEFINE m == Len(Written)
               F == Full
    <3>3. F[1] = Field("header", m) /\ Readable(Written, F, file, cut) /\ Len(file) \in Nat
      BY <2>3, <3>2, FileShape
    <3>4. Prefixed(file, F)
      BY <3>3 DEF Readable
    <3>5. 1 \in 1 .. Len(file)
      BY <2>1, <3>1, <3>3
    <3> HIDE DEF m, F
    <3>6. file[1] = Field("header", m)
      BY <3>3, <3>4, <3>5 DEF Prefixed
    <3>7. file[1].kind = "header"
      BY <3>6, FieldKind
    <3> QED
      BY <2>3, <3>1, <3>7 DEF Expected
  <2>4. ASSUME stage \in Reading
        PROVE  Readable(Written, Full, file, cut) /\ Reader(Written, Full, file, cut, stage, ctx, left, pos)
    BY <2>4, ReaderAt
  <2>5. CASE stage = "thread" /\ left[1] # 0
    <3>1. stage \in Reading
      BY <2>5 DEF Reading
    <3>2. Readable(Written, Full, file, cut) /\ Reader(Written, Full, file, cut, "thread", ctx, left, pos)
      BY <2>4, <2>5, <3>1
    <3>3. file[pos].kind = "tid"
      BY <2>1, <2>5, <3>2, NextThread
    <3> QED
      BY <2>5, <3>3 DEF Expected
  <2>6. CASE stage \in InThread
    <3>1. stage \in Reading
      BY <2>6 DEF Reading, InThread
    <3>2. /\ stage = "frame" => file[pos].kind = "num"
          /\ stage = "registers" => file[pos].kind = "regs size"
          /\ stage = "stack" => file[pos].kind = "base"
      BY <2>1, <2>4, <2>6, <3>1, NextInThread
    <3> QED
      BY <2>6, <3>2 DEF Expected, InThread
  <2> QED
    BY <2>2, <2>3, <2>5, <2>6 DEF InThread
<1>2. stage = "loaded" /\ ~cut => pos = Len(file) + 1
  BY LoadedAt
<1>3. stage \in {"rejected", "aborted"} => cut \/ refused
  BY DEF ReaderInv, Ended
<1> QED
  BY <1>1, <1>2, <1>3 DEF InStepUntilCut

\* Written again, the context is what has been read.
LEMMA AgainRead ==
  ASSUME \A i \in DOMAIN ctx : Len(ctx[i].frames) = ctx[i].size
  PROVE  Again = ReadPart(ctx, "thread", Len(ctx))
<1> DEFINE r(t) == [tid |-> t.tid, crashed |-> t.crashed, frames |-> t.frames]
<1>1. \A fs : FramePartsAt(fs, "thread") = [k \in DOMAIN fs |-> FrameFields(fs[k])]
  <2>1. \A f : PartOf(f, "thread") = FrameFields(f)
    BY DEF PartOf
  <2> QED
    BY <2>1 DEF FramePartsAt
<1>2. ASSUME NEW i \in DOMAIN ctx PROVE ThreadFields(r(ctx[i])) = ThreadPartAt(ctx[i], "thread")
  <2> DEFINE t == ctx[i]
             u == r(t)
  <2>1. u.tid = t.tid /\ u.crashed = t.crashed /\ u.frames = t.frames /\ Len(t.frames) = t.size
    OBVIOUS
  <2> HIDE DEF u, t
  <2>2. ThreadFields(u) = <<Field("tid", t.tid), Field("crashed", t.crashed), Field("frames size", t.size)>>
                            \o FlattenSeq([k \in DOMAIN t.frames |-> FrameFields(t.frames[k])])
    BY <2>1 DEF ThreadFields
  <2>3. ThreadFields(u) = ThreadPartAt(t, "thread")
    BY <1>1, <2>2 DEF ThreadPartAt, HeadFields, Cat
  <2> QED
    BY <2>3 DEF u, t
<1> HIDE DEF r
<1>3. ThreadPartsAt(ctx, "thread") = [i \in DOMAIN ctx |-> ThreadPartAt(ctx[i], "thread")]
  BY DEF ThreadPartsAt
<1>4. [i \in DOMAIN ctx |-> ThreadFields(r(ctx[i]))] = ThreadPartsAt(ctx, "thread")
  BY <1>2, <1>3
<1>5. Again = <<Field("header", Len(ctx))>> \o FlattenSeq([i \in DOMAIN ctx |-> ThreadFields(r(ctx[i]))])
  BY DEF Again, r
<1> QED
  BY <1>4, <1>5 DEF ReadPart, Header, Cat

LEMMA PrefixHolds == ReaderInv => PrefixIntact
<1> SUFFICES ASSUME ReaderInv, stage = "loaded"
             PROVE  LET again == Again IN
                    /\ \A i \in DOMAIN ctx : Len(ctx[i].frames) = ctx[i].size
                    /\ Len(file) <= Len(again)
                    /\ \A p \in DOMAIN file :
                         /\ again[p].kind = file[p].kind
                         /\ \/ again[p].value = file[p].value
                            \/ file[p].kind = "func" /\ again[p].value = Overrun(file[p].value)
  BY DEF PrefixIntact
<1> DEFINE part == ReadPart(ctx, "thread", Len(ctx))
<1>1. /\ ctx \in Seq(LoadedThreads) /\ \A i \in 1 .. Len(ctx) : Len(ctx[i].frames) = ctx[i].size
      /\ file \in Seq(Fields) /\ Len(file) \in Nat /\ Copied(part, file, pos)
      /\ Len(file) <= pos - 1 /\ pos \in Nat
  BY LoadedAt
<1>2. \A i \in DOMAIN ctx : Len(ctx[i].frames) = ctx[i].size
  BY <1>1
<1>3. Again = part
  BY <1>2, AgainRead
<1> HIDE DEF part
<1>4. Len(part) = pos - 1 /\ \A k \in 1 .. Len(part) : k <= Len(file) => Alike(part[k], file[k])
  BY <1>1 DEF Copied
<1>5. ASSUME NEW p \in DOMAIN file PROVE Alike(part[p], file[p])
  <2>1. p \in 1 .. Len(part) /\ p <= Len(file)
    BY <1>1, <1>4
  <2> QED
    BY <1>4, <2>1
<1> QED
  BY <1>1, <1>2, <1>3, <1>4, <1>5 DEF Alike

-----------------------------------------------------------------------------
(***************************************************************************)
(* The first frame of the first thread.                                    *)
(***************************************************************************)
\* Reading on over three entries.
LEMMA TakeThree ==
  ASSUME NEW full \in Seq(Fields), NEW s \in Seq(Fields), NEW r \in Seq(Fields), NEW p,
         Remains(full, p, Cat(s, r))
  PROVE  Len(s) = 3 => /\ p + 3 <= Len(full) /\ Remains(full, p + 3, r)
                       /\ full[p + 1] = s[1] /\ full[p + 3] = s[3]
<1>1. /\ p \in Nat /\ p + Len(s) <= Len(full) /\ Len(full) \in Nat /\ Len(s) \in Nat
      /\ Remains(full, p + Len(s), r)
      /\ \A q \in 1 .. Len(s) : full[p + q] = s[q]
  BY RemainsCat
<1>2. 1 \in 1 .. 3 /\ 3 \in 1 .. 3
  OBVIOUS
<1> QED
  BY <1>1, <1>2

\* Reading on over some entries.
LEMMA TakeSome ==
  ASSUME NEW full \in Seq(Fields), NEW s \in Seq(Fields), NEW r \in Seq(Fields), NEW p,
         Remains(full, p, Cat(s, r))
  PROVE  /\ Remains(full, p + Len(s), r)
         /\ Len(s) > 0 => full[p + 1] = s[1]
<1>1. /\ p \in Nat /\ p + Len(s) <= Len(full) /\ Len(full) \in Nat /\ Len(s) \in Nat
      /\ Remains(full, p + Len(s), r)
      /\ \A q \in 1 .. Len(s) : full[p + q] = s[q]
  BY RemainsCat
<1>2. Len(s) > 0 => 1 \in 1 .. Len(s)
  BY <1>1
<1> QED
  BY <1>1, <1>2

\* What a file of at least one thread holds where its first frame is written.
LEMMA FirstFields ==
  ASSUME NEW full \in Seq(Fields), NEW S, NEW ws \in Seq(S), AllWritable(ws), Len(ws) > 0,
         Remains(full, 1, ThreadsAhead(ws, 0))
  PROVE  LET fs == ws[1].frames
             f == fs[1]
             m == Len(f.regs) IN
         /\ fs \in Seq(LoadedFrames) /\ Len(fs) \in Nat
         /\ full[4] = Field("frames size", Len(fs)) /\ 4 <= Len(full)
         /\ Len(fs) > 0 =>
              /\ f \in LoadedFrames /\ m \in Nat
              /\ full[8] = Field("regs size", m)
              /\ full[9 + m] = Field("base", f.base) /\ full[11 + m] = Field("stack", f.stack)
              /\ 11 + m <= Len(full)
<1> DEFINE w == ws[1]
           fs == w.frames
           f == fs[1]
           R == ThreadsAhead(ws, 1)
           more == FramesAhead(fs, 0, R)
           x == w.tid
           y == w.crashed
           z == Len(fs)
           h == HeadFields(x, y, z)
<1>1. Writable(w) /\ R \in Seq(Fields) /\ ThreadsAhead(ws, 0) = Cat(h, more)
  <2>1. 0 \in 0 .. Len(ws) /\ 0 < Len(ws) /\ 0 + 1 = 1
    OBVIOUS
  <2> QED
    BY <2>1, ThreadsAheadStep
<1> HIDE DEF w
<1>2. x \in Nat /\ y \in BOOLEAN \cup Nat /\ fs \in Seq(LoadedFrames)
  BY <1>1 DEF Writable
<1> HIDE DEF fs, R
<1>3. z \in Nat /\ 0 \in 0 .. Len(fs) /\ (0 < Len(fs) => 0 + 1 = 1 /\ f \in LoadedFrames)
  BY <1>2
<1>4. /\ more \in Seq(Fields)
      /\ 0 < Len(fs) =>
           /\ FramesAhead(fs, 1, R) \in Seq(Fields)
           /\ more = Cat(NameFields(f), Cat(RegsFields(f.regs), Cat(StackFields(f.base, f.stack), FramesAhead(fs, 1, R))))
  BY <1>1, <1>2, <1>3, FramesAheadStep
<1> HIDE DEF x, y, z, more
<1>5. h \in Seq(Fields) /\ Len(h) = 3 /\ h[3] = Field("frames size", z)
  BY <1>2, <1>3, HeadFieldsType
<1> HIDE DEF h
<1>6. full[4] = Field("frames size", z) /\ Remains(full, 4, more) /\ 4 <= Len(full)
  <2>1. h \in Seq(Fields) /\ more \in Seq(Fields) /\ Len(h) = 3 /\ Remains(full, 1, Cat(h, more))
    BY <1>1, <1>4, <1>5
  <2>2. 1 \in Nat /\ 1 + 3 = 4
    OBVIOUS
  <2>3. 1 + 3 <= Len(full) /\ Remains(full, 1 + 3, more) /\ full[1 + 3] = h[3]
    BY <2>1, <2>2, TakeThree
  <2> QED
    BY <1>5, <2>2, <2>3
<1>7. ASSUME Len(fs) > 0
      PROVE  LET m == Len(f.regs) IN
              /\ f \in LoadedFrames /\ m \in Nat
              /\ full[8] = Field("regs size", m)
              /\ full[9 + m] = Field("base", f.base) /\ full[11 + m] = Field("stack", f.stack)
              /\ 11 + m <= Len(full)
  <2> DEFINE m == Len(f.regs)
             a == NameFields(f)
             b == RegsFields(f.regs)
             c == StackFields(f.base, f.stack)
             r == FramesAhead(fs, 1, R)
             u == f.base
             v == f.stack
  <2>1. f \in LoadedFrames /\ r \in Seq(Fields) /\ Remains(full, 4, Cat(a, Cat(b, Cat(c, r))))
    BY <1>2, <1>3, <1>4, <1>6, <1>7
  <2> HIDE DEF f, r
  <2>2. a \in Seq(Fields) /\ Len(a) = 3
    BY <2>1, NameFieldsType
  <2>3. b \in Seq(Fields) /\ Len(b) = m + 1 /\ m \in Nat /\ b[1] = Field("regs size", m)
    BY <2>1, LoadedType, RegsFieldsType
  <2>4. c \in Seq(Fields) /\ Len(c) = 3 /\ c[1] = Field("base", u) /\ c[3] = Field("stack", v)
    BY <2>1, LoadedType, StackFieldsType
  <2> HIDE DEF m, a, b, c, u, v
  <2> DEFINE cr == Cat(c, r)
             br == Cat(b, cr)
  <2>5. cr \in Seq(Fields) /\ br \in Seq(Fields)
    BY <2>1, <2>3, <2>4, CatType
  <2>6. Remains(full, 4, Cat(a, br))
    BY <2>1
  <2> HIDE DEF br
  <2>7. Remains(full, 7, br)
    <3>1. 4 \in Nat /\ 4 + 3 = 7
      OBVIOUS
    <3>2. Remains(full, 4 + 3, br)
      BY <2>2, <2>5, <2>6, <3>1, TakeThree
    <3> QED
      BY <3>1, <3>2
  <2>8. b \in Seq(Fields) /\ cr \in Seq(Fields) /\ Len(b) = m + 1 /\ m \in Nat /\ Remains(full, 7, Cat(b, cr))
    BY <2>3, <2>5, <2>7 DEF br
  <2> HIDE DEF cr
  <2>9. Remains(full, 8 + m, cr) /\ full[8] = b[1]
    <3> DEFINE p == 7
               k == Len(b)
    <3>1. p + 1 = 8 /\ p + k = 8 + m /\ k > 0
      BY <2>8
    <3>2. b \in Seq(Fields) /\ cr \in Seq(Fields) /\ Remains(full, p, Cat(b, cr))
      BY <2>8
    <3> HIDE DEF p
    <3>3. Remains(full, p + Len(b), cr) /\ (Len(b) > 0 => full[p + 1] = b[1])
      BY <3>2, TakeSome
    <3> QED
      BY <3>1, <3>3
  <2>12. c \in Seq(Fields) /\ r \in Seq(Fields) /\ Len(c) = 3 /\ Remains(full, 8 + m, Cat(c, r))
    BY <2>1, <2>4, <2>9 DEF cr
  <2>13. 8 + m \in Nat /\ (8 + m) + 1 = 9 + m /\ (8 + m) + 3 = 11 + m
    BY <2>8
  <2>14. (8 + m) + 3 <= Len(full) /\ full[(8 + m) + 1] = c[1] /\ full[(8 + m) + 3] = c[3]
    BY <2>12, <2>13, TakeThree
  <2>15. full[9 + m] = c[1] /\ full[11 + m] = c[3] /\ 11 + m <= Len(full)
    BY <2>13, <2>14
  <2> QED
    BY <2>1, <2>3, <2>4, <2>9, <2>15 DEF m, u, v
<1> QED
  BY <1>2, <1>3, <1>6, <1>7 DEF fs, w, z

LEMMA AlikeField ==
  ASSUME NEW k, NEW v, NEW u, k # "func", Alike(Field(k, v), Field(k, u))
  PROVE  v = u
  BY DEF Alike, Field

\* A context that is complete: its first frame is that of the first thread parsed.
LEMMA FirstFrameLoaded ==
  ASSUME ReaderInv, stage = "loaded", ~cut, Len(ctx) > 0, Len(ctx[1].frames) > 0
  PROVE  LET f == ctx[1].frames[1]
             g == Written[1].frames[1] IN
         /\ Len(Written) > 0 /\ Len(Written[1].frames) > 0
         /\ f \in LoadedFrames /\ f.base = g.base /\ f.stack = g.stack
<1> DEFINE part == ReadPart(ctx, "thread", Len(ctx))
           F == Full
           ws == Written
           n == Len(ctx)
           fs == ctx[1].frames
           gs == ws[1].frames
           f == fs[1]
           g == gs[1]
<1>1. /\ ctx \in Seq(LoadedThreads) /\ n \in Nat
      /\ \A i \in 1 .. n : Len(ctx[i].frames) = ctx[i].size
      /\ file \in Seq(Fields) /\ Len(file) \in Nat /\ F \in Seq(Fields) /\ Prefixed(file, F)
      /\ part \in Seq(Fields) /\ Copied(part, file, pos)
      /\ pos \in Nat /\ pos = Len(file) + 1 /\ n = Len(ws) /\ Len(file) = Len(F)
  BY LoadedAt
<1>2. ~refused /\ stage # "parse" /\ stage \in Reading
  <2>1. stage \in Reading
    BY DEF Reading
  <2> QED
    BY <2>1, ReaderAt
<1>3. /\ Converted /\ Remains(F, 1, ThreadsAhead(ws, 0))
  BY <1>2, FileShape
<1>4. ws \in Seq(ParsedThreads) /\ AllWritable(ws)
  BY <1>3, WrittenShape
<1>5. AllWritable(ctx)
  <2>1. \A i \in 1 .. n : ctx[i] \in LoadedThreads
    BY <1>1
  <2> QED
    BY <2>1, LoadedThreadType DEF AllWritable, Writable
<1>6. part \in Seq(Fields) /\ Remains(part, 1, ThreadsAhead(ctx, 0))
  <2> DEFINE T == ThreadParts(ctx)
             r == ThreadsAhead(ctx, 0)
             h == Header(n)
  <2>1. 0 \in 0 .. Len(ctx)
    BY <1>1
  <2>2. r \in Seq(Fields)
    BY <1>1, <1>5, <2>1, ThreadsAheadStep
  <2>3. T = ThreadPartsAt(ctx, "thread")
    <3>1. \A f0 : PartOf(f0, "thread") = FrameFields(f0)
      BY DEF PartOf
    <3>2. \A f0 : FramePartsAt(f0, "thread") = [k \in DOMAIN f0 |-> FrameFields(f0[k])]
      BY <3>1 DEF FramePartsAt
    <3>3. DOMAIN ctx = 1 .. n
      BY <1>1
    <3>4. ASSUME NEW i \in DOMAIN ctx PROVE ThreadFields(ctx[i]) = ThreadPartAt(ctx[i], "thread")
      <4> DEFINE t == ctx[i]
      <4>1. Len(t.frames) = t.size
        BY <1>1, <3>3
      <4> HIDE DEF t
      <4>2. ThreadFields(t) = <<Field("tid", t.tid), Field("crashed", t.crashed), Field("frames size", t.size)>>
                                \o FlattenSeq([k \in DOMAIN t.frames |-> FrameFields(t.frames[k])])
        BY <4>1 DEF ThreadFields
      <4>3. ThreadFields(t) = ThreadPartAt(t, "thread")
        BY <3>2, <4>2 DEF ThreadPartAt, HeadFields, Cat
      <4> QED
        BY <4>3 DEF t
    <3>5. ThreadPartsAt(ctx, "thread") = [i \in DOMAIN ctx |-> ThreadPartAt(ctx[i], "thread")]
      BY DEF ThreadPartsAt
    <3> QED
      BY <3>4, <3>5 DEF ThreadParts
  <2>4. T \in Seq(Seq(Fields))
    BY <1>1, <2>3, ThreadPartsAtShape
  <2> HIDE DEF T
  <2>5. 0 \in 0 .. Len(T)
    BY <2>4
  <2>6. From(T, 0) = T /\ FlattenSeq(T) \in Seq(Fields)
    BY <2>4, <2>5, FromProperties, FlattenType
  <2>7. r = FlattenSeq(T)
    <3>1. Cat(FlattenSeq(T), <<>>) = FlattenSeq(T)
      BY <2>6, CatEmpty
    <3> QED
      BY <2>6, <3>1 DEF ThreadsAhead, T
  <2>8. part = Cat(h, r)
    BY <2>3, <2>7 DEF ReadPart
  <2>9. h \in Seq(Fields) /\ Len(h) = 1
    BY <1>1, HeaderType
  <2> HIDE DEF part, r, h, n
  <2>10. Remains(part, 0, Cat(h, r))
    <3>1. 0 \in 0 .. Len(part)
      BY <1>1
    <3>2. From(part, 0) = part
      BY <1>1, <3>1, FromProperties
    <3> QED
      BY <2>8, <3>1, <3>2 DEF Remains
  <2>11. Remains(part, 0 + Len(h), r)
    BY <1>1, <2>2, <2>9, <2>10, RemainsCat
  <2>12. 0 + Len(h) = 1
    BY <2>9
  <2> QED
    BY <1>1, <2>11, <2>12 DEF r
<1>7. Len(part) = Len(F) /\ \A k \in 1 .. Len(F) : Alike(part[k], F[k])
  <2> HIDE DEF part, F, ws, n
  <2>1. Len(part) = pos - 1 /\ \A k \in 1 .. Len(part) : k <= Len(file) => Alike(part[k], file[k])
    BY <1>1 DEF Copied
  <2>2. \A k \in 1 .. Len(file) : file[k] = F[k]
    BY <1>1 DEF Prefixed
  <2>3. Len(part) = Len(file)
    BY <1>1, <2>1
  <2>4. \A k \in 1 .. Len(file) : k <= Len(file)
    BY <1>1
  <2> QED
    BY <1>1, <2>1, <2>2, <2>3, <2>4
<1>8. Len(ctx) > 0 /\ Len(ws) > 0
  BY <1>1
<1>9. /\ fs \in Seq(LoadedFrames) /\ Len(fs) \in Nat
      /\ part[4] = Field("frames size", Len(fs)) /\ 4 <= Len(part)
      /\ Len(fs) > 0 =>
           /\ f \in LoadedFrames /\ Len(f.regs) \in Nat
           /\ part[8] = Field("regs size", Len(f.regs))
           /\ part[9 + Len(f.regs)] = Field("base", f.base) /\ part[11 + Len(f.regs)] = Field("stack", f.stack)
           /\ 11 + Len(f.regs) <= Len(part)
  <2> HIDE DEF part
  <2> QED
    BY <1>1, <1>5, <1>6, <1>8, FirstFields
<1>10. /\ gs \in Seq(LoadedFrames) /\ Len(gs) \in Nat
       /\ F[4] = Field("frames size", Len(gs)) /\ 4 <= Len(F)
       /\ Len(gs) > 0 =>
            /\ g \in LoadedFrames /\ Len(g.regs) \in Nat
            /\ F[8] = Field("regs size", Len(g.regs))
            /\ F[9 + Len(g.regs)] = Field("base", g.base) /\ F[11 + Len(g.regs)] = Field("stack", g.stack)
            /\ 11 + Len(g.regs) <= Len(F)
  <2> HIDE DEF F, ws
  <2> QED
    BY <1>1, <1>3, <1>4, <1>8, FirstFields
<1>11. Len(F) \in Nat /\ Len(fs) > 0
  BY <1>1
<1> DEFINE p == Len(fs)
           q == Len(gs)
           a == Len(f.regs)
           b == Len(g.regs)
           fb == f.base
           gb == g.base
           fk == f.stack
           gk == g.stack
           m == Len(F)
<1>12. /\ p \in Nat /\ q \in Nat /\ p > 0 /\ m \in Nat /\ 4 <= m
       /\ part[4] = Field("frames size", p) /\ F[4] = Field("frames size", q)
       /\ part[8] = Field("regs size", a) /\ a \in Nat
       /\ part[9 + a] = Field("base", fb) /\ part[11 + a] = Field("stack", fk)
       /\ q > 0 => /\ F[8] = Field("regs size", b) /\ b \in Nat /\ 11 + b <= m
                   /\ F[9 + b] = Field("base", gb) /\ F[11 + b] = Field("stack", gk)
       /\ \A k \in 1 .. m : Alike(part[k], F[k])
  BY <1>7, <1>9, <1>10, <1>11
<1> HIDE DEF part, F, ws, n, fs, gs, f, g, p, q, a, b, fb, gb, fk, gk, m
<1>13. p = q
  <2>1. 4 \in 1 .. m
    <3>1. m \in Nat /\ 4 <= m
      BY <1>12
    <3> QED
      BY <3>1
  <2>2. Alike(Field("frames size", p), Field("frames size", q))
    BY <1>12, <2>1
  <2> QED
    BY <2>2, AlikeField
<1>14. /\ F[8] = Field("regs size", b) /\ b \in Nat /\ 11 + b <= m
       /\ F[9 + b] = Field("base", gb) /\ F[11 + b] = Field("stack", gk)
  BY <1>12, <1>13
<1>15. a = b
  <2>1. 8 \in 1 .. m
    <3>1. m \in Nat /\ b \in Nat /\ 11 + b <= m
      BY <1>12, <1>14
    <3> QED
      BY <3>1
  <2>2. Alike(Field("regs size", a), Field("regs size", b))
    BY <1>12, <1>14, <2>1
  <2> QED
    BY <2>2, AlikeField
<1>16. fb = gb /\ fk = gk
  <2>1. 9 + b \in 1 .. m /\ 11 + b \in 1 .. m
    <3>1. m \in Nat /\ b \in Nat /\ 11 + b <= m
      BY <1>12, <1>14
    <3> QED
      BY <3>1
  <2>2. part[9 + b] = Field("base", fb) /\ part[11 + b] = Field("stack", fk)
    BY <1>12, <1>15
  <2>3. Alike(Field("base", fb), Field("base", gb)) /\ Alike(Field("stack", fk), Field("stack", gk))
    BY <1>12, <1>14, <2>1, <2>2
  <2> QED
    BY <2>3, AlikeField
<1>17. Len(ws) > 0 /\ Len(gs) > 0 /\ f \in LoadedFrames
  BY <1>8, <1>9, <1>11, <1>12, <1>13 DEF p, q
<1> QED
  BY <1>16, <1>17 DEF fb, gb, fk, gk, f, g, fs, gs, ws

\* Its stack is the one the text shows, with what was taken for bytes behind it.
LEMMA FirstFrameShown ==
  ASSUME ReaderInv, stage = "loaded", ~cut, Len(ctx) > 0, Len(ctx[1].frames) > 0
  PROVE  LET f == ctx[1].frames[1]
             s == scene.threads[1].frames[1] IN
         /\ scene.threads[1].frames # <<>>
         /\ f.base \in Nat /\ f.stack \in Seq(0 .. 255) /\ s.base \in Nat /\ s.stack \in Seq(0 .. 255)
         /\ Len(f.stack) > 0 => f.base = s.base
         /\ Len(s.stack) <= Len(f.stack)
         /\ \A j \in 1 .. Len(s.stack) : f.stack[j] = s.stack[j]
         /\ \A j \in (Len(s.stack) + 1) .. Len(f.stack) : f.stack[j] \in MoreWords(s)
<1> DEFINE f == ctx[1].frames[1]
           g == Written[1].frames[1]
           ps == threads[1].frames
           fs == scene.threads[1].frames
           p == ps[1]
           s == fs[1]
<1>1. /\ Len(Written) > 0 /\ Len(Written[1].frames) > 0
      /\ f \in LoadedFrames /\ f.base = g.base /\ f.stack = g.stack
  BY FirstFrameLoaded
<1>2. Converted
  <2>1. ~refused /\ stage # "parse" /\ stage \in Reading
    <3>1. stage \in Reading
      BY DEF Reading
    <3> QED
      BY <3>1, ReaderAt
  <2> QED
    BY <2>1, FileShape
<1>3. Len(Written) \in Nat /\ Len(Written) <= Len(threads) /\ \A i \in 1 .. Len(Written) : Written[i] = threads[i]
  BY <1>2, WrittenShape
<1>4. /\ threads \in Seq(ParsedThreads) /\ AllDone(threads, scene.threads) /\ Len(threads) = Len(scene.threads)
      /\ scene.threads \in Seq(SourceThreads)
  BY <1>2, SceneSource DEF Converted
<1>5. Written[1] = threads[1] /\ 1 \in 1 .. Len(threads) /\ 1 \in 1 .. Len(scene.threads)
  <2>1. 1 \in 1 .. Len(Written) /\ Len(threads) \in Nat
    BY <1>1, <1>3, <1>4
  <2> QED
    BY <1>3, <1>4, <2>1
<1>6. threads[1] \in ParsedThreads /\ ThreadDone(threads[1], scene.threads[1])
  BY <1>4, <1>5 DEF AllDone
<1>7. ps \in Seq(ParsedFrames) /\ fs \in Seq(Frames) /\ Len(ps) = Len(fs) /\ FramesShown(ps, fs, Len(fs))
  <2>1. Len(ps) = Len(fs) /\ FramesShown(ps, fs, Len(fs))
    BY <1>6 DEF ThreadDone
  <2>2. ps \in Seq(ParsedFrames) /\ fs \in Seq(Frames)
    BY <1>4, <1>5, <1>6, SourceElement, ParsedHasFrames DEF HasFrames
  <2> QED
    BY <2>1, <2>2
<1>8. Len(ps) > 0 /\ g = p
  BY <1>1, <1>5
<1> HIDE DEF ps, fs
<1>9. 1 \in 1 .. Len(ps) /\ 1 \in 1 .. Len(fs) /\ fs # <<>> /\ p \in ParsedFrames /\ s \in Frames
  BY <1>7, <1>8
<1>10. Whole(p, s)
  BY <1>7, <1>9 DEF FramesShown
<1>11. f.base = p.base /\ f.stack = p.stack /\ f.base \in Nat /\ f.stack \in Seq(0 .. 255)
  BY <1>1, <1>8, LoadedType DEF Bytes
<1>12. s.base \in Nat /\ s.stack \in Seq(0 .. 255)
  BY <1>9, FrameType
<1> HIDE DEF f, g, p, s
<1>13. /\ \A j \in (Len(s.stack) + 1) .. Len(p.stack) : p.stack[j] \in MoreWords(s)
       /\ s.stack # <<>> => p.base = s.base
       /\ Len(s.stack) <= Len(p.stack)
       /\ \A i \in 1 .. Len(s.stack) : p.stack[i] = s.stack[i]
  BY <1>9, <1>10, WholeStack
<1>14. s.stack = <<>> => Len(p.stack) = 0
  <2>1. s.stack = <<>> => p.stack = <<>>
    BY <1>10 DEF Whole
  <2> QED
    BY <2>1
<1>15. /\ Len(f.stack) > 0 => f.base = s.base
       /\ Len(s.stack) <= Len(f.stack)
       /\ \A j \in 1 .. Len(s.stack) : f.stack[j] = s.stack[j]
       /\ \A j \in (Len(s.stack) + 1) .. Len(f.stack) : f.stack[j] \in MoreWords(s)
  <2>1. Len(f.stack) = Len(p.stack)
    BY <1>11
  <2>2. Len(f.stack) > 0 => s.stack # <<>>
    BY <1>14, <2>1
  <2> QED
    BY <1>11, <1>13, <2>1, <2>2
<1> QED
  BY <1>9, <1>11, <1>12, <1>15 DEF f, s, fs

-----------------------------------------------------------------------------
(***************************************************************************)
(* The theorems.                                                           *)
(***************************************************************************)
LEMMA ReaderKept ==
  ASSUME ReaderInv, [FileNext]_fileVars
  PROVE  ReaderInv'
BY ReaderStep, ReaderStutter

\* Between the convertor and the reader every variable has its type, and a
\* frame is read into only where there is one.
THEOREM FileTypes == FileSpec => []FileTypeOK
<1>1. ReaderInv /\ [FileNext]_fileVars => ReaderInv'
  BY ReaderKept
<1> QED
  BY <1>1, ReaderInit, TypeHolds, PTL DEF FileSpec

\* What minidump_stackwalk prints of a thread arrives in the convertor, which
\* fails only at a word behind a short row that is a number and no byte.
THEOREM TextParsed == FileSpec => []ParsedAsPrinted
<1>1. ReaderInv /\ [FileNext]_fileVars => ReaderInv'
  BY ReaderKept
<1>2. ReaderInv => ParsedAsPrinted
  BY ParsedHolds DEF ReaderInv
<1> QED
  BY <1>1, <1>2, ReaderInit, PTL DEF FileSpec

\* The reader of the context file meets the fields the convertor wrote as long
\* as there are any, and gives up only on a file that was cut or never written.
THEOREM ReaderInStep == FileSpec => []InStepUntilCut
<1>1. ReaderInv /\ [FileNext]_fileVars => ReaderInv'
  BY ReaderKept
<1> QED
  BY <1>1, ReaderInit, InStepHolds, PTL DEF FileSpec

\* A context that is loaded begins with all that is in the file, whatever part
\* of the file was lost.
THEOREM ContextBeginsWithFile == FileSpec => []PrefixIntact
<1>1. ReaderInv /\ [FileNext]_fileVars => ReaderInv'
  BY ReaderKept
<1> QED
  BY <1>1, ReaderInit, PrefixHolds, PTL DEF FileSpec
=============================================================================
