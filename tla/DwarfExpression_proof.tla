------------------------- MODULE DwarfExpression_proof -------------------------
(***************************************************************************)
(* The operations of evaluate on its stack, for every width of words and   *)
(* bytes, every stack, operand and context: each makes a stack of words that *)
(* is at most one entry longer, or gives an error code; undefined behaviour *)
(* comes from comparisons, divisions and reads at the top of the address   *)
(* space only; and shuffles and copies keep the entries of the stack.      *)
(*                                                                         *)
(* The bitwise operations and reads from memory are sums over the bits or the *)
(* bytes of a word, which the library defines by a recursive function on the *)
(* subsets of a set.  A sum is shown to exist, not to depend on the order its *)
(* terms are taken in, and to be a word, by way of a least counterexample. *)
(***************************************************************************)
EXTENDS DwarfExpression, SequencesExt, FiniteSetTheorems, SequenceTheorems, WellFoundedInduction, TLAPS

(***************************************************************************)
(* Sums over finite sets of numbers.                                       *)
(***************************************************************************)
\* A set of natural numbers that is not empty has a least element.
LEMMA LeastNumber ==
  ASSUME NEW S, S \subseteq Nat, S # {}
  PROVE  \E x \in S : \A y \in S : x <= y
<1>1. PICK x \in S : \A y \in S : ~ (<<y, x>> \in OpToRel(<, Nat))
  BY WFMin, NatLessThanWellFounded, Zenon
<1>2. ASSUME NEW y \in S PROVE x <= y
  <2>1. <<y, x>> \in Nat \X Nat
    OBVIOUS
  <2>2. ~(y < x)
    BY <1>1, <2>1 DEF OpToRel
  <2> QED
    BY <2>2
<1> QED
  BY <1>2

Some(s) == CHOOSE x \in s : TRUE

\* The sum of g over s, as a function of s.
SumOf(f, g, s) == IF s = {} THEN 0 ELSE g[Some(s)] + f[s \ {Some(s)}]

\* The element that a sum takes out of a set leaves a smaller set.
LEMMA Smaller ==
  ASSUME NEW S, IsFiniteSet(S), NEW s \in SUBSET S, s # {}
  PROVE  /\ Some(s) \in s /\ Some(s) \in S /\ s \ {Some(s)} \in SUBSET S
         /\ Cardinality(s) \in Nat /\ Cardinality(s \ {Some(s)}) = Cardinality(s) - 1
         /\ Cardinality(s) # 0
<1>1. Some(s) \in s
  BY DEF Some
<1>2. IsFiniteSet(s)
  BY FS_Subset
<1>3. Cardinality(s) \in Nat /\ Cardinality(s \ {Some(s)}) = Cardinality(s) - 1
  BY <1>1, <1>2, FS_CardinalityType, FS_RemoveElement
<1>4. Cardinality(s) # 0
  BY <1>2, FS_EmptySet
<1> QED
  BY <1>1, <1>3, <1>4

IsSum(f, S, g) == f = [s \in SUBSET S |-> SumOf(f, g, s)]

\* The sums over all subsets of a finite set of numbers.
LEMMA SumExists ==
  ASSUME NEW S, IsFiniteSet(S), NEW g, \A x \in S : g[x] \in Int
  PROVE  \E f : IsSum(f, S, g)
<1> DEFINE Upto(n) == {s \in SUBSET S : Cardinality(s) <= n}
           Done(n) == \E f \in [SUBSET S -> Int] : \A s \in Upto(n) : f[s] = SumOf(f, g, s)
           Failing == {n \in Nat : ~Done(n)}
<1>1. ASSUME NEW n \in Nat PROVE Done(n)
  <2> SUFFICES ASSUME Failing # {} PROVE FALSE
    OBVIOUS
  <2>1. PICK m \in Failing : \A k \in Failing : m <= k
    <3>1. Failing \subseteq Nat
      OBVIOUS
    <3> HIDE DEF Failing
    <3> QED
      BY <3>1, LeastNumber
  <2>2. m \in Nat /\ ~Done(m)
    OBVIOUS
  <2>3. PICK f \in [SUBSET S -> Int] : m # 0 => \A s \in Upto(m - 1) : f[s] = SumOf(f, g, s)
    <3>1. CASE m = 0
      <4>1. [s \in SUBSET S |-> 0] \in [SUBSET S -> Int]
        OBVIOUS
      <4> QED
        BY <3>1, <4>1
    <3>2. CASE m # 0
      <4>1. m - 1 \in Nat /\ ~(m <= m - 1)
        BY <2>2, <3>2
      <4>2. m - 1 \notin Failing
        BY <2>1, <4>1
      <4>3. Done(m - 1)
        BY <4>1, <4>2
      <4> QED
        BY <4>3
    <3> QED
      BY <3>1, <3>2
  <2> DEFINE h == [s \in SUBSET S |-> SumOf(f, g, s)]
  <2>4. h \in [SUBSET S -> Int]
    <3>1. ASSUME NEW s \in SUBSET S PROVE SumOf(f, g, s) \in Int
      <4>1. CASE s = {}
        BY <4>1 DEF SumOf
      <4>2. CASE s # {}
        <5>1. Some(s) \in S /\ s \ {Some(s)} \in SUBSET S
          BY <4>2, Smaller
        <5>2. g[Some(s)] \in Int /\ f[s \ {Some(s)}] \in Int
          BY <5>1
        <5> QED
          BY <4>2, <5>2 DEF SumOf
      <4> QED
        BY <4>1, <4>2
    <3> QED
      BY <3>1
  <2>5. ASSUME NEW s \in Upto(m) PROVE h[s] = SumOf(h, g, s)
    <3>1. s \in SUBSET S /\ Cardinality(s) <= m /\ h[s] = SumOf(f, g, s)
      OBVIOUS
    <3>2. CASE s = {}
      BY <3>1, <3>2 DEF SumOf
    <3>3. CASE s # {}
      <4> DEFINE r == s \ {Some(s)}
      <4>1. /\ r \in SUBSET S /\ Cardinality(s) \in Nat /\ Cardinality(r) = Cardinality(s) - 1
            /\ Cardinality(s) # 0
        BY <3>1, <3>3, Smaller
      <4>2. m # 0 /\ Cardinality(r) <= m - 1
        BY <2>2, <3>1, <4>1
      <4>3. f[r] = SumOf(f, g, r)
        BY <2>3, <4>1, <4>2
      <4>4. h[r] = f[r]
        BY <4>1, <4>3
      <4> QED
        BY <3>1, <3>3, <4>4 DEF SumOf
    <3> QED
      BY <3>2, <3>3
  <2>6. Done(m)
    <3> HIDE DEF h, Upto
    <3> QED
      BY <2>4, <2>5
  <2> QED
    BY <2>2, <2>6
<1>2. Cardinality(S) \in Nat /\ Done(Cardinality(S))
  <2>1. Cardinality(S) \in Nat
    BY FS_CardinalityType
  <2> HIDE DEF Done
  <2> QED
    BY <1>1, <2>1
<1>3. PICK f \in [SUBSET S -> Int] : \A s \in Upto(Cardinality(S)) : f[s] = SumOf(f, g, s)
  BY <1>2
<1>4. ASSUME NEW s \in SUBSET S PROVE f[s] = SumOf(f, g, s)
  <2>1. Cardinality(s) <= Cardinality(S)
    BY FS_Subset
  <2> QED
    BY <1>3, <2>1
<1>5. f = [s \in SUBSET S |-> SumOf(f, g, s)]
  BY <1>3, <1>4
<1> QED
  BY <1>5 DEF IsSum

\* Sums of integers are integers.
LEMMA SumInt ==
  ASSUME NEW S, IsFiniteSet(S), NEW g, \A x \in S : g[x] \in Int,
         NEW f, \A s \in SUBSET S : f[s] = SumOf(f, g, s)
  PROVE  \A s \in SUBSET S : f[s] \in Int
<1> DEFINE Failing == {n \in Nat : \E s \in SUBSET S : Cardinality(s) = n /\ f[s] \notin Int}
<1>1. ASSUME Failing # {} PROVE FALSE
  <2>1. PICK m \in Failing : \A k \in Failing : m <= k
    <3>1. Failing \subseteq Nat
      OBVIOUS
    <3> HIDE DEF Failing
    <3> QED
      BY <1>1, <3>1, LeastNumber
  <2>2. PICK s \in SUBSET S : Cardinality(s) = m /\ f[s] \notin Int
    <3>1. m \in Failing
      OBVIOUS
    <3> QED
      BY <3>1, Zenon
  <2> HIDE DEF Failing
  <2>3. s # {}
    <3>1. f[s] = SumOf(f, g, s)
      OBVIOUS
    <3>2. SumOf(f, g, {}) \in Int
      BY DEF SumOf
    <3> QED
      BY <2>2, <3>1, <3>2
  <2> DEFINE r == s \ {Some(s)}
  <2>4. /\ Some(s) \in S /\ r \in SUBSET S /\ m \in Nat /\ m # 0 /\ Cardinality(r) = m - 1
    BY <2>2, <2>3, Smaller
  <2>5. f[r] \notin Int
    <3>1. f[s] = g[Some(s)] + f[r]
      BY <2>3 DEF SumOf
    <3>2. g[Some(s)] \in Int
      BY <2>4
    <3> HIDE DEF r
    <3> QED
      BY <2>2, <3>1, <3>2
  <2>6. m - 1 \in Failing /\ ~(m <= m - 1)
    BY <2>4, <2>5 DEF Failing
  <2> HIDE DEF Failing
  <2> QED
    BY <2>1, <2>6
<1>2. \A s \in SUBSET S : Cardinality(s) \in Nat
  BY FS_Subset, FS_CardinalityType
<1>3. Failing = {}
  <2> HIDE DEF Failing
  <2> QED
    BY <1>1
<1> QED
  BY <1>2, <1>3

\* f gives the sums of g over the subsets of S.
Sums(f, S, g) ==
  /\ IsFiniteSet(S) /\ \A x \in S : g[x] \in Int
  /\ f \in [SUBSET S -> Int] /\ \A s \in SUBSET S : f[s] = SumOf(f, g, s)

\* Which element is taken out first does not matter.
LEMMA SumTakes ==
  ASSUME NEW S, NEW g, NEW f, Sums(f, S, g), NEW t \in SUBSET S, NEW x \in t
  PROVE  f[t] = g[x] + f[t \ {x}]
<1>0. /\ IsFiniteSet(S) /\ \A y \in S : g[y] \in Int
      /\ f \in [SUBSET S -> Int] /\ \A s \in SUBSET S : f[s] = SumOf(f, g, s)
  BY DEF Sums
<1> DEFINE Fails(s) == \E y \in s : f[s] # g[y] + f[s \ {y}]
           Failing == {n \in Nat : \E s \in SUBSET S : Cardinality(s) = n /\ Fails(s)}
<1>1. ASSUME Failing # {} PROVE FALSE
  <2>1. PICK m \in Failing : \A k \in Failing : m <= k
    <3>1. Failing \subseteq Nat
      OBVIOUS
    <3> HIDE DEF Failing
    <3> QED
      BY <1>1, <3>1, LeastNumber
  <2>2a. PICK s \in SUBSET S : m \in Nat /\ Cardinality(s) = m /\ Fails(s)
    OBVIOUS
  <2>2. PICK y \in s : m \in Nat /\ Cardinality(s) = m /\ f[s] # g[y] + f[s \ {y}]
    BY <2>2a
  <2> DEFINE c == Some(s)
  <2>3. s # {}
    BY <2>2
  <2>4. /\ c \in s /\ c \in S /\ s \ {c} \in SUBSET S
        /\ m # 0 /\ Cardinality(s \ {c}) = m - 1
    BY <1>0, <2>2, <2>3, Smaller
  <2>5. f[s] = g[c] + f[s \ {c}]
    BY <1>0, <2>3 DEF SumOf
  <2>6. y # c /\ y \in S
    BY <2>2, <2>5
  <2>7. s \ {y} \in SUBSET S /\ Cardinality(s \ {y}) = m - 1
    BY <1>0, <2>2, FS_Subset, FS_RemoveElement
  <2>8. ASSUME NEW r \in SUBSET S, Cardinality(r) = m - 1, NEW z \in r
        PROVE  f[r] = g[z] + f[r \ {z}]
    <3>1. m - 1 \in Nat /\ ~(m <= m - 1)
      BY <2>2, <2>4
    <3>2. m - 1 \notin Failing
      BY <2>1, <3>1
    <3> QED
      BY <2>8, <3>1, <3>2
  <2>9. f[s \ {c}] = g[y] + f[(s \ {c}) \ {y}]
    <3>1. y \in s \ {c}
      BY <2>6
    <3> QED
      BY <2>4, <2>8, <3>1
  <2>10. f[s \ {y}] = g[c] + f[(s \ {y}) \ {c}]
    <3>1. c \in s \ {y}
      BY <2>4, <2>6
    <3> QED
      BY <2>7, <2>8, <3>1
  <2>11. (s \ {y}) \ {c} = (s \ {c}) \ {y} /\ (s \ {y}) \ {c} \in SUBSET S
    OBVIOUS
  <2> DEFINE rest == f[(s \ {y}) \ {c}]
  <2>12. g[c] \in Int /\ g[y] \in Int /\ rest \in Int
    BY <1>0, <2>4, <2>6, <2>11
  <2>13. f[s] = g[c] + (g[y] + rest) /\ f[s \ {y}] = g[c] + rest
    BY <2>5, <2>9, <2>10, <2>11
  <2> HIDE DEF rest, c
  <2> QED
    BY <2>2, <2>12, <2>13
<1>2. Cardinality(t) \in Nat
  BY <1>0, FS_Subset, FS_CardinalityType
<1>3. Cardinality(t) \notin Failing
  <2> HIDE DEF Failing
  <2> QED
    BY <1>1
<1> QED
  BY <1>2, <1>3

\* The last term of a sum over an interval, taken out first.
LEMMA SumUpTo ==
  ASSUME NEW n \in Nat, NEW g, NEW f, Sums(f, 0 .. (n - 1), g), NEW m \in 0 .. (n - 1)
  PROVE  f[0 .. m] = g[m] + f[0 .. (m - 1)]
<1> DEFINE S == 0 .. (n - 1)
           t == 0 .. m
<1>1. t \in SUBSET S /\ m \in t /\ t \ {m} = 0 .. (m - 1)
  OBVIOUS
<1>2. f[t] = g[m] + f[t \ {m}]
  <2> HIDE DEF S, t
  <2> QED
    BY <1>1, SumTakes DEF S
<1> QED
  BY <1>1, <1>2

\* A sum of n numbers is below b[n], if each is at most the distance from one
\* bound to the next.
LEMMA SumBelow ==
  ASSUME NEW n \in Nat, NEW g, \A k \in 0 .. (n - 1) : g[k] \in Nat,
         NEW b, \A k \in 0 .. n : b[k] \in Nat, b[0] = 1,
         \A k \in 0 .. (n - 1) : b[k] + g[k] <= b[k + 1],
         NEW f, Sums(f, 0 .. (n - 1), g)
  PROVE  f[0 .. (n - 1)] \in Nat /\ f[0 .. (n - 1)] < b[n]
<1> DEFINE S == 0 .. (n - 1)
           Under(m) == f[0 .. (m - 1)] \in Nat /\ f[0 .. (m - 1)] < b[m]
           Failing == {m \in 0 .. n : ~Under(m)}
<1>2. Under(0)
  <2>1. 0 .. (0 - 1) = {} /\ {} \in SUBSET S
    OBVIOUS
  <2>2. f[{}] = 0
    BY <2>1 DEF SumOf, Sums
  <2> QED
    BY <2>1, <2>2
<1>3. ASSUME NEW m \in 0 .. (n - 1), Under(m) PROVE Under(m + 1)
  <2>1. (m + 1) - 1 = m
    OBVIOUS
  <2>3. f[0 .. m] = g[m] + f[0 .. (m - 1)]
    BY SumUpTo
  <2>4. g[m] \in Nat /\ b[m] \in Nat /\ b[m + 1] \in Nat /\ b[m] + g[m] <= b[m + 1]
    OBVIOUS
  <2>5. f[0 .. m] \in Nat /\ f[0 .. m] < b[m + 1]
    <3>1. \A p, q, c, d \in Nat : p < q /\ q + c <= d => c + p \in Nat /\ c + p < d
      OBVIOUS
    <3>2. PICK u : u = f[0 .. (m - 1)]
      OBVIOUS
    <3>3. u \in Nat /\ u < b[m] /\ f[0 .. m] = g[m] + u
      BY <1>3, <2>3, <3>2
    <3> QED
      BY <2>4, <3>1, <3>3
  <2> QED
    BY <2>1, <2>5
<1>4. ASSUME Failing # {} PROVE FALSE
  <2>1. PICK m \in Failing : \A k \in Failing : m <= k
    <3>1. Failing \subseteq Nat
      OBVIOUS
    <3> HIDE DEF Failing
    <3> QED
      BY <1>4, <3>1, LeastNumber
  <2>2. m \in 0 .. n /\ ~Under(m)
    OBVIOUS
  <2>3. m # 0
    BY <1>2, <2>2
  <2>4. m - 1 \in 0 .. (n - 1) /\ m - 1 \in 0 .. n /\ ~(m <= m - 1) /\ (m - 1) + 1 = m
    BY <2>2, <2>3
  <2>5. Under(m - 1)
    BY <2>1, <2>4
  <2>6. Under((m - 1) + 1)
    <3> HIDE DEF Under
    <3> QED
      BY <1>3, <2>4, <2>5
  <2> QED
    BY <2>2, <2>4, <2>6
<1>5. n \notin Failing
  <2> HIDE DEF Failing
  <2> QED
    BY <1>4
<1> QED
  BY <1>5

\* The sum as the fold of the library defines it: at x it adds term(x), given
\* as a function.
LEMMA FoldBelow ==
  ASSUME NEW n \in Nat, NEW g, \A k \in 0 .. (n - 1) : g[k] \in Nat,
         NEW b, \A k \in 0 .. n : b[k] \in Nat, b[0] = 1,
         \A k \in 0 .. (n - 1) : b[k] + g[k] <= b[k + 1],
         NEW v, v = (CHOOSE f : IsSum(f, 0 .. (n - 1), g))[0 .. (n - 1)]
  PROVE  v \in Nat /\ v < b[n]
<1> DEFINE S == 0 .. (n - 1)
           f == CHOOSE h : IsSum(h, S, g)
<1>1. IsFiniteSet(S)
  BY FS_Interval
<1>2. IsSum(f, S, g)
  <2>1. \A x \in S : g[x] \in Int
    OBVIOUS
  <2>2. \E h : IsSum(h, S, g)
    <3> HIDE DEF S
    <3> QED
      BY <1>1, <2>1, SumExists
  <2> QED
    BY <2>2
<1>3. v = f[S]
  OBVIOUS
<1> HIDE DEF f
<1>4. \A s \in SUBSET S : f[s] = SumOf(f, g, s)
  <2>1. PICK h : h = f
    OBVIOUS
  <2>2. h = [s \in SUBSET S |-> SumOf(h, g, s)]
    BY <1>2, <2>1 DEF IsSum
  <2> HIDE DEF S
  <2>3. \A s \in SUBSET S : h[s] = SumOf(h, g, s)
    BY <2>2
  <2> QED
    BY <2>1, <2>3
<1>5. f \in [SUBSET S -> Int]
  <2>1. \A x \in S : g[x] \in Int
    OBVIOUS
  <2> HIDE DEF S
  <2>2. \A s \in SUBSET S : f[s] \in Int
    BY <1>1, <1>4, <2>1, SumInt
  <2> QED
    BY <1>2, <2>2 DEF IsSum
<1>6. Sums(f, S, g)
  <2>1. \A x \in S : g[x] \in Int
    OBVIOUS
  <2> HIDE DEF S
  <2> QED
    BY <1>1, <1>4, <1>5, <2>1 DEF Sums
<1>7. f[S] \in Nat /\ f[S] < b[n]
  BY <1>6, SumBelow
<1> QED
  BY <1>3, <1>7

-----------------------------------------------------------------------------
(***************************************************************************)
(* Words.                                                                  *)
(***************************************************************************)
LEMMA PowerFacts ==
  /\ \A n \in 0 .. W : 2 ^ n \in Nat /\ 2 ^ n > 0
  /\ \A n \in 0 .. (W - 1) : 2 ^ (n + 1) = 2 ^ n + 2 ^ n
<1> DEFINE Number(n) == 2 ^ n \in Nat /\ 2 ^ n > 0
           Failing == {n \in 0 .. W : ~Number(n)}
<1>1. W \in Nat /\ W > 0
  BY WidthAssumption
<1>2. ASSUME NEW n \in 0 .. (W - 1) PROVE 2 ^ (n + 1) = 2 ^ n * 2
  <2>1. n \in 0 .. W /\ 1 \in 0 .. W /\ n + 1 <= W
    BY <1>1
  <2> QED
    BY <2>1, PowerAssumption
<1>3. ASSUME Failing # {} PROVE FALSE
  <2>1. PICK m \in Failing : \A k \in Failing : m <= k
    <3>1. Failing \subseteq Nat
      BY <1>1
    <3> HIDE DEF Failing
    <3> QED
      BY <1>3, <3>1, LeastNumber
  <2>2. m \in 0 .. W /\ ~Number(m)
    OBVIOUS
  <2>3. m # 0
    <3>1. Number(0)
      BY PowerAssumption
    <3> HIDE DEF Number
    <3> QED
      BY <2>2, <3>1
  <2>4. m - 1 \in 0 .. W /\ m - 1 \in 0 .. (W - 1) /\ ~(m <= m - 1) /\ (m - 1) + 1 = m
    BY <1>1, <2>2, <2>3
  <2>5. Number(m - 1)
    BY <2>1, <2>4
  <2>6. 2 ^ m = 2 ^ (m - 1) * 2
    BY <1>2, <2>4
  <2>7. Number(m)
    BY <2>5, <2>6
  <2> QED
    BY <2>2, <2>7
<1>4. \A n \in 0 .. W : Number(n)
  <2> HIDE DEF Number
  <2>1. Failing = {}
    <3> HIDE DEF Failing
    <3> QED
      BY <1>3
  <2> QED
    BY <2>1
<1>5. ASSUME NEW n \in 0 .. (W - 1) PROVE 2 ^ (n + 1) = 2 ^ n + 2 ^ n
  <2>1. n \in 0 .. W
    BY <1>1
  <2>2. 2 ^ n \in Nat
    BY <1>4, <2>1
  <2> QED
    BY <1>2, <2>2
<1> QED
  BY <1>4, <1>5

LEMMA WordFacts ==
  /\ W \in Nat /\ W > 0 /\ 2 ^ W \in Nat /\ 2 ^ W > 1
  /\ Word \subseteq Nat /\ Word \subseteq Int /\ 0 \in Word /\ 1 \in Word /\ MaxUnsigned \in Word
  /\ \A x \in Nat : x < 2 ^ W => x \in Word
  /\ \A x \in Word : x <= MaxUnsigned /\ x < 2 ^ W
<1>1. W \in Nat /\ W > 0
  BY WidthAssumption
<1>2. 2 ^ W \in Nat /\ 2 ^ W > 0
  BY <1>1, PowerFacts
<1>3. 2 ^ W > 1
  <2>1. W - 1 \in 0 .. (W - 1) /\ W - 1 \in 0 .. W /\ (W - 1) + 1 = W
    BY <1>1
  <2>2. 2 ^ W = 2 ^ (W - 1) + 2 ^ (W - 1) /\ 2 ^ (W - 1) \in Nat
    BY <2>1, PowerFacts
  <2> QED
    BY <1>2, <2>2
<1> DEFINE p == 2 ^ W
<1> HIDE DEF p
<1>4. /\ Word = 0 .. (p - 1) /\ MaxUnsigned = p - 1
  BY DEF p, Word, MaxUnsigned
<1>5. p \in Nat /\ p > 1
  BY <1>2, <1>3 DEF p
<1> QED
  BY <1>1, <1>4, <1>5 DEF p

\* Wrap makes a word of an integer and leaves a word alone.
LEMMA Wraps ==
  /\ \A x \in Int : Wrap(x) \in Word
  /\ \A x \in Nat : x < 2 ^ W => Wrap(x) = x
<1> DEFINE p == 2 ^ W
<1>1. p \in Nat /\ p > 1
  BY WordFacts
<1> HIDE DEF p
<1>2. ASSUME NEW x \in Int PROVE x % p \in 0 .. (p - 1)
  BY <1>1
<1>3. ASSUME NEW x \in Nat, x < p PROVE x % p = x
  BY <1>1, <1>3
<1> QED
  BY <1>2, <1>3 DEF p, Wrap, Word

\* A sum of distinct powers below 2^W is a word.
LEMMA BitsBelow ==
  ASSUME NEW g, \A k \in 0 .. (W - 1) : g[k] \in {0, 2 ^ k},
         NEW v, v = (CHOOSE f : IsSum(f, 0 .. (W - 1), g))[0 .. (W - 1)]
  PROVE  v \in Word
<1> DEFINE b == [k \in 0 .. W |-> 2 ^ k]
<1>1. W \in Nat
  BY WordFacts
<1>2. \A k \in 0 .. W : b[k] \in Nat
  BY PowerFacts
<1>3. b[0] = 1 /\ b[W] = 2 ^ W
  BY <1>1, PowerAssumption
<1>4. \A k \in 0 .. (W - 1) : g[k] \in Nat /\ b[k] + g[k] <= b[k + 1]
  <2> TAKE k \in 0 .. (W - 1)
  <2>1. k \in 0 .. W /\ k + 1 \in 0 .. W
    BY <1>1
  <2>2. b[k] = 2 ^ k /\ b[k + 1] = 2 ^ k + 2 ^ k /\ 2 ^ k \in Nat
    BY <2>1, PowerFacts
  <2>3. g[k] = 0 \/ g[k] = 2 ^ k
    OBVIOUS
  <2> HIDE DEF b
  <2> QED
    BY <2>2, <2>3
<1> HIDE DEF b
<1>5. v \in Nat /\ v < b[W]
  BY <1>1, <1>2, <1>3, <1>4, FoldBelow
<1> QED
  BY <1>3, <1>5, WordFacts

\* The bitwise operations on words give words.
LEMMA BitAndWord ==
  ASSUME NEW a, NEW b
  PROVE  BitAnd(a, b) \in Word
<1> DEFINE S == 0 .. (W - 1)
           term(k) == IF Bit(a, k) = 1 /\ Bit(b, k) = 1 THEN 2 ^ k ELSE 0
           g == [k \in S |-> term(k)]
<1>1. BitAnd(a, b) = (CHOOSE f : f = [s \in SUBSET S |-> IF s = {} THEN 0 ELSE term(Some(s)) + f[s \ {Some(s)}]])[S]
  BY DEF BitAnd, Bitwise2, MapThenSumSet, MapThenFoldSet, Some
<1>2. \A k \in S : g[k] = term(k) /\ g[k] \in {0, 2 ^ k}
  OBVIOUS
<1>3. IsFiniteSet(S)
  BY WordFacts, FS_Interval
<1> HIDE DEF S, term
<1>4. ASSUME NEW f
      PROVE  f = [s \in SUBSET S |-> IF s = {} THEN 0 ELSE term(Some(s)) + f[s \ {Some(s)}]] <=> IsSum(f, S, g)
  <2>1. \A s \in SUBSET S : s # {} => Some(s) \in S
    BY <1>3, Smaller
  <2>2. \A s \in SUBSET S : s # {} => g[Some(s)] = term(Some(s))
    BY <1>2, <2>1
  <2> HIDE DEF g
  <2>3. \A s \in SUBSET S : (IF s = {} THEN 0 ELSE term(Some(s)) + f[s \ {Some(s)}]) = SumOf(f, g, s)
    BY <2>2 DEF SumOf
  <2> QED
    BY <2>3 DEF IsSum
<1> HIDE DEF g
<1>5. BitAnd(a, b) = (CHOOSE f : IsSum(f, S, g))[S]
  BY <1>1, <1>4
<1> QED
  BY <1>2, <1>5, BitsBelow DEF S

LEMMA BitOrWord ==
  ASSUME NEW a, NEW b
  PROVE  BitOr(a, b) \in Word
<1> DEFINE S == 0 .. (W - 1)
           term(k) == IF Bit(a, k) = 1 \/ Bit(b, k) = 1 THEN 2 ^ k ELSE 0
           g == [k \in S |-> term(k)]
<1>1. BitOr(a, b) = (CHOOSE f : f = [s \in SUBSET S |-> IF s = {} THEN 0 ELSE term(Some(s)) + f[s \ {Some(s)}]])[S]
  BY DEF BitOr, Bitwise2, MapThenSumSet, MapThenFoldSet, Some
<1>2. \A k \in S : g[k] = term(k) /\ g[k] \in {0, 2 ^ k}
  OBVIOUS
<1>3. IsFiniteSet(S)
  BY WordFacts, FS_Interval
<1> HIDE DEF S, term
<1>4. ASSUME NEW f
      PROVE  f = [s \in SUBSET S |-> IF s = {} THEN 0 ELSE term(Some(s)) + f[s \ {Some(s)}]] <=> IsSum(f, S, g)
  <2>1. \A s \in SUBSET S : s # {} => Some(s) \in S
    BY <1>3, Smaller
  <2>2. \A s \in SUBSET S : s # {} => g[Some(s)] = term(Some(s))
    BY <1>2, <2>1
  <2> HIDE DEF g
  <2>3. \A s \in SUBSET S : (IF s = {} THEN 0 ELSE term(Some(s)) + f[s \ {Some(s)}]) = SumOf(f, g, s)
    BY <2>2 DEF SumOf
  <2> QED
    BY <2>3 DEF IsSum
<1> HIDE DEF g
<1>5. BitOr(a, b) = (CHOOSE f : IsSum(f, S, g))[S]
  BY <1>1, <1>4
<1> QED
  BY <1>2, <1>5, BitsBelow DEF S

LEMMA BitXorWord ==
  ASSUME NEW a, NEW b
  PROVE  BitXor(a, b) \in Word
<1> DEFINE S == 0 .. (W - 1)
           term(k) == IF (Bit(a, k) = 1) # (Bit(b, k) = 1) THEN 2 ^ k ELSE 0
           g == [k \in S |-> term(k)]
<1>1. BitXor(a, b) = (CHOOSE f : f = [s \in SUBSET S |-> IF s = {} THEN 0 ELSE term(Some(s)) + f[s \ {Some(s)}]])[S]
  BY DEF BitXor, Bitwise2, MapThenSumSet, MapThenFoldSet, Some
<1>2. \A k \in S : g[k] = term(k) /\ g[k] \in {0, 2 ^ k}
  OBVIOUS
<1>3. IsFiniteSet(S)
  BY WordFacts, FS_Interval
<1> HIDE DEF S, term
<1>4. ASSUME NEW f
      PROVE  f = [s \in SUBSET S |-> IF s = {} THEN 0 ELSE term(Some(s)) + f[s \ {Some(s)}]] <=> IsSum(f, S, g)
  <2>1. \A s \in SUBSET S : s # {} => Some(s) \in S
    BY <1>3, Smaller
  <2>2. \A s \in SUBSET S : s # {} => g[Some(s)] = term(Some(s))
    BY <1>2, <2>1
  <2> HIDE DEF g
  <2>3. \A s \in SUBSET S : (IF s = {} THEN 0 ELSE term(Some(s)) + f[s \ {Some(s)}]) = SumOf(f, g, s)
    BY <2>2 DEF SumOf
  <2> QED
    BY <2>3 DEF IsSum
<1> HIDE DEF g
<1>5. BitXor(a, b) = (CHOOSE f : IsSum(f, S, g))[S]
  BY <1>1, <1>4
<1> QED
  BY <1>2, <1>5, BitsBelow DEF S

\* Laws of multiplication that the provers find in this form only.
LEMMA Multiply ==
  /\ \A x, y \in Nat : x * y \in Nat
  /\ \A x, y, z \in Nat : x <= y => x * z <= y * z
  /\ \A x, y, z \in Nat : (x + y) * z = x * z + y * z
OBVIOUS

\* The bytes of a word make up its bits.
LEMMA BytesFit ==
  /\ WordBytes \in Nat /\ ByteBits \in Nat /\ ByteBits > 0 /\ WordBytes * ByteBits <= W
  /\ \A k \in 0 .. WordBytes : k * ByteBits \in 0 .. W
<1>1. W \in Nat /\ ByteBits \in Nat /\ ByteBits > 0
  BY WidthAssumption
<1>2. WordBytes \in Nat /\ WordBytes * ByteBits <= W
  BY <1>1 DEF WordBytes
<1>3. ASSUME NEW k \in 0 .. WordBytes PROVE k * ByteBits \in 0 .. W
  <2>1. k \in Nat /\ k <= WordBytes
    BY <1>2
  <2>2. k * ByteBits \in Nat /\ k * ByteBits <= WordBytes * ByteBits
    BY <1>1, <1>2, <2>1, Multiply
  <2>3. WordBytes * ByteBits \in Nat
    BY <1>1, <1>2, Multiply
  <2> QED
    BY <1>1, <1>2, <2>2, <2>3
<1> QED
  BY <1>1, <1>2, <1>3

LEMMA PowersRise ==
  ASSUME NEW m \in 0 .. W
  PROVE  2 ^ m <= 2 ^ W
<1>1. W \in Nat /\ W - m \in 0 .. W /\ m + (W - m) = W
  BY WordFacts
<1>2. 2 ^ W = 2 ^ m * 2 ^ (W - m)
  BY <1>1, PowerAssumption
<1>3. 2 ^ m \in Nat /\ 2 ^ (W - m) \in Nat /\ 2 ^ (W - m) > 0
  BY <1>1, PowerFacts
<1>4. \A x, y \in Nat : y > 0 => x <= x * y
  <2> SUFFICES ASSUME NEW x \in Nat, NEW y \in Nat, y > 0 PROVE x <= x * y
    OBVIOUS
  <2>1. 1 * x <= y * x
    BY Multiply
  <2> QED
    BY <2>1
<1> QED
  BY <1>2, <1>3, <1>4

\* Bytes that are read from memory make a word, for every size up to a word.
LEMMA BytesWord ==
  ASSUME NEW ctx, NEW addr, NEW size \in 0 .. WordBytes,
         \A k \in 0 .. (size - 1) : ByteAt(ctx, addr + k) \in 0 .. (2 ^ ByteBits - 1)
  PROVE  ReadBytes(ctx, addr, size) \in Word
<1> DEFINE S == 0 .. (size - 1)
           term(k) == ByteAt(ctx, addr + k) * 2 ^ (k * ByteBits)
           g == [k \in S |-> term(k)]
           b == [k \in 0 .. size |-> 2 ^ (k * ByteBits)]
<1>0. size \in Nat /\ size <= WordBytes /\ ByteBits \in Nat /\ W \in Nat /\ WordBytes \in Nat
  BY BytesFit, WordFacts
<1>1. ReadBytes(ctx, addr, size) = (CHOOSE f : f = [s \in SUBSET S |-> IF s = {} THEN 0 ELSE term(Some(s)) + f[s \ {Some(s)}]])[S]
  BY DEF ReadBytes, MapThenSumSet, MapThenFoldSet, Some
<1>2. \A k \in S : g[k] = term(k)
  OBVIOUS
<1>3. IsFiniteSet(S)
  BY <1>0, FS_Interval
<1>4. ASSUME NEW f
      PROVE  f = [s \in SUBSET S |-> IF s = {} THEN 0 ELSE term(Some(s)) + f[s \ {Some(s)}]] <=> IsSum(f, S, g)
  <2> HIDE DEF S, term
  <2>1. \A s \in SUBSET S : s # {} => Some(s) \in S
    BY <1>3, Smaller
  <2>2. \A s \in SUBSET S : s # {} => g[Some(s)] = term(Some(s))
    BY <1>2, <2>1
  <2> HIDE DEF g
  <2>3. \A s \in SUBSET S : (IF s = {} THEN 0 ELSE term(Some(s)) + f[s \ {Some(s)}]) = SumOf(f, g, s)
    BY <2>2 DEF SumOf
  <2> QED
    BY <2>3 DEF IsSum
<1>5. ReadBytes(ctx, addr, size) = (CHOOSE f : IsSum(f, S, g))[S]
  <2> HIDE DEF S, term, g
  <2> QED
    BY <1>1, <1>4
<1>6. \A k \in 0 .. size : b[k] \in Nat /\ b[k] = 2 ^ (k * ByteBits)
  <2> TAKE k \in 0 .. size
  <2>1. k \in 0 .. WordBytes
    BY <1>0
  <2>2. k * ByteBits \in 0 .. W
    BY <2>1, BytesFit
  <2> QED
    BY <2>2, PowerFacts
<1>7. b[0] = 1
  <2>1. 0 * ByteBits = 0 /\ 0 \in 0 .. size
    BY <1>0
  <2> QED
    BY <1>6, <2>1, PowerAssumption
<1>8. \A k \in S : g[k] \in Nat /\ b[k] + g[k] <= b[k + 1]
  <2> TAKE k \in S
  <2>1. k \in 0 .. size /\ k + 1 \in 0 .. size /\ k \in 0 .. WordBytes /\ k + 1 \in 0 .. WordBytes /\ k \in Nat
    BY <1>0
  <2>2. k * ByteBits \in 0 .. W /\ (k + 1) * ByteBits \in 0 .. W
    BY <2>1, BytesFit
  <2>3. (k + 1) * ByteBits = k * ByteBits + ByteBits
    BY <1>0, <2>1
  <2>4. 2 ^ (k * ByteBits + ByteBits) = 2 ^ (k * ByteBits) * 2 ^ ByteBits
    <3>1. ByteBits \in 0 .. W
      BY <1>0, WidthAssumption
    <3> QED
      BY <2>2, <2>3, <3>1, PowerAssumption
  <2> DEFINE p == 2 ^ (k * ByteBits)
             q == 2 ^ ByteBits
             c == ByteAt(ctx, addr + k)
  <2>5. p \in Nat /\ q \in Nat
    <3>1. ByteBits \in 0 .. W
      BY <1>0, WidthAssumption
    <3> QED
      BY <2>2, <3>1, PowerFacts
  <2>6. c \in Nat /\ c + 1 <= q
    BY <2>5
  <2>7. b[k] = p /\ b[k + 1] = p * q /\ g[k] = c * p
    BY <1>2, <1>6, <2>1, <2>3, <2>4
  <2> HIDE DEF p, q, c, b, g
  <2>8. c * p \in Nat /\ (c + 1) * p <= q * p /\ (c + 1) * p = c * p + 1 * p
    BY <2>5, <2>6, Multiply
  <2>9. q * p = p * q /\ 1 * p = p
    BY <2>5
  <2> QED
    BY <2>5, <2>7, <2>8, <2>9
<1> DEFINE v == ReadBytes(ctx, addr, size)
<1>9. v \in Nat /\ v < b[size]
  <2> HIDE DEF b, g, term
  <2>1. v = (CHOOSE f : IsSum(f, 0 .. (size - 1), g))[0 .. (size - 1)]
    BY <1>5
  <2> HIDE DEF v
  <2> QED
    BY <1>0, <1>6, <1>7, <1>8, <2>1, FoldBelow
<1>10. b[size] <= 2 ^ W /\ b[size] \in Nat
  <2>1. size \in 0 .. size /\ size * ByteBits \in 0 .. W
    BY <1>0, BytesFit
  <2>2. 2 ^ (size * ByteBits) <= 2 ^ W
    BY <2>1, PowersRise
  <2> QED
    BY <1>6, <2>1, <2>2
<1> HIDE DEF v, b
<1>11. v < 2 ^ W
  BY <1>9, <1>10, WordFacts
<1> QED
  BY <1>9, <1>11, WordFacts DEF v

-----------------------------------------------------------------------------
(***************************************************************************)
(* The operations.                                                         *)
(***************************************************************************)
\* What an operation may make of a stack.
Outcome(o, s) ==
  /\ o.stk \in Seq(Word) /\ Len(o.stk) <= Len(s) + 1
  /\ o.code \in ErrorCode \cup {"undefined"}

WordContext(ctx) ==
  /\ \A r \in DOMAIN ctx.regs : ctx.regs[r] \in Word
  /\ ctx.stackBase \in Word /\ ctx.stackMemory \in Seq(0 .. (2 ^ ByteBits - 1))

MemoryBelowTop(ctx) == ctx.stackBase + Len(ctx.stackMemory) + WordBytes <= MaxUnsigned

\* Pushing a word onto a stack of words, and popping, leave a stack of words.
LEMMA PushWord ==
  ASSUME NEW s \in Seq(Word), NEW v \in Word
  PROVE  Push(v, s) \in Seq(Word) /\ Len(Push(v, s)) = Len(s) + 1 /\ Push(v, s)[1] = v
<1> HIDE DEF Word
<1> QED
  BY DEF Push

LEMMA PopWord ==
  ASSUME NEW s \in Seq(Word), NEW n \in Nat, n <= Len(s)
  PROVE  Pop(n, s) \in Seq(Word) /\ Len(Pop(n, s)) = Len(s) - n
<1>1. n + 1 \in Int /\ Len(s) \in Int /\ Len(s) \in Nat
  OBVIOUS
<1>2. \A k \in (n + 1) .. Len(s) : s[k] \in Word
  <2> HIDE DEF Word
  <2> QED
    OBVIOUS
<1>3. /\ SubSeq(s, n + 1, Len(s)) \in Seq(Word)
      /\ Len(SubSeq(s, n + 1, Len(s))) = IF n + 1 <= Len(s) THEN Len(s) - (n + 1) + 1 ELSE 0
  BY <1>1, <1>2, SubSeqProperties
<1> QED
  BY <1>1, <1>3 DEF Pop

LEMMA EntryWord ==
  ASSUME NEW s \in Seq(Word), NEW k \in 1 .. Len(s)
  PROVE  s[k] \in Word
OBVIOUS

\* The three outcomes of an operation.
LEMMA BadOutcome ==
  ASSUME NEW s \in Seq(Word), NEW code \in ErrorCode
  PROVE  Outcome(Bad(code), s) /\ Bad(code).code = code
BY DEF Bad, Outcome

LEMMA UndefinedOutcome ==
  ASSUME NEW s \in Seq(Word)
  PROVE  Outcome(Undefined, s)
BY DEF Undefined, Outcome

LEMMA OkOutcome ==
  ASSUME NEW s \in Seq(Word), NEW t \in Seq(Word), Len(t) <= Len(s) + 1
  PROVE  Outcome(Ok(t), s) /\ Ok(t).code = "kNone" /\ Ok(t).stk = t
BY DEF Ok, Outcome, ErrorCode

LEMMA ErrorCodes ==
  /\ "kNone" \in ErrorCode /\ "kMemoryInvalid" \in ErrorCode /\ "kRegisterInvalid" \in ErrorCode
  /\ "kIllegalOpd" \in ErrorCode /\ "kStackIndexInvalid" \in ErrorCode /\ "undefined" \notin ErrorCode
BY DEF ErrorCode

\* Memory that is granted is there, if the saved memory ends below the top.
LEMMA Granted ==
  ASSUME NEW ctx, WordContext(ctx), MemoryBelowTop(ctx), NEW addr \in Word, NEW size \in 1 .. WordBytes,
         MemoryProvided(ctx, addr, size)
  PROVE  InMemory(ctx, addr, size)
<1> DEFINE base == ctx.stackBase
           len == Len(ctx.stackMemory)
<1>1. base \in Nat /\ len \in Nat
  <2>1. base \in Nat
    BY WordFacts DEF WordContext
  <2>2. len \in Nat
    BY DEF WordContext
  <2> QED
    BY <2>1, <2>2
<1>2. addr \in Nat /\ size \in Nat /\ WordBytes \in Nat /\ size <= WordBytes
  BY BytesFit, WordFacts
<1>3. PICK p \in Nat : p = 2 ^ W
  BY WordFacts
<1>4. base + len + WordBytes <= p - 1
  <2>1. MaxUnsigned = p - 1
    BY <1>3 DEF MaxUnsigned
  <2> QED
    BY <2>1 DEF MemoryBelowTop
<1>5. base + len \in Nat /\ base + len < 2 ^ W
  <2> HIDE DEF base, len
  <2> QED
    BY <1>1, <1>2, <1>3, <1>4
<1>6. Wrap(base + len) = base + len
  <2> HIDE DEF base, len
  <2> QED
    BY <1>5, Wraps
<1>7. base <= addr /\ addr < base + len /\ Wrap(addr + size) <= base + len
  BY <1>6 DEF MemoryProvided
<1>8. addr + size \in Nat /\ addr + size < 2 ^ W
  <2> HIDE DEF base, len
  <2> QED
    BY <1>1, <1>2, <1>3, <1>4, <1>7
<1>9. Wrap(addr + size) = addr + size
  BY <1>8, Wraps
<1> QED
  BY <1>7, <1>9 DEF InMemory

\* A read from memory gives a word or fails.
LEMMA FetchOutcome ==
  ASSUME NEW ctx, WordContext(ctx), NEW addr \in Word, NEW size \in 1 .. WordBytes,
         NEW s \in Seq(Word), Len(s) > 0
  PROVE  /\ Outcome(Fetch(ctx, addr, size, s), s)
         /\ MemoryBelowTop(ctx) => Fetch(ctx, addr, size, s).code # "undefined"
<1>1. CASE ~MemoryProvided(ctx, addr, size)
  BY <1>1, BadOutcome, ErrorCodes DEF Fetch
<1>2. CASE MemoryProvided(ctx, addr, size) /\ ~InMemory(ctx, addr, size)
  BY <1>2, UndefinedOutcome, Granted DEF Fetch
<1>3. CASE MemoryProvided(ctx, addr, size) /\ InMemory(ctx, addr, size)
  <2>1. /\ addr \in Nat /\ ctx.stackBase \in Nat /\ Len(ctx.stackMemory) \in Nat /\ WordBytes \in Nat
        /\ size \in Nat /\ size <= WordBytes
        /\ ctx.stackBase <= addr /\ addr + size <= ctx.stackBase + Len(ctx.stackMemory)
    <3>1. addr \in Nat /\ ctx.stackBase \in Nat
      BY WordFacts DEF WordContext
    <3>2. Len(ctx.stackMemory) \in Nat
      BY DEF WordContext
    <3> QED
      BY <1>3, <3>1, <3>2, BytesFit DEF InMemory
  <2>2. \A k \in 0 .. (size - 1) : ByteAt(ctx, addr + k) \in 0 .. (2 ^ ByteBits - 1)
    <3> TAKE k \in 0 .. (size - 1)
    <3>1. (addr + k) - ctx.stackBase + 1 \in 1 .. Len(ctx.stackMemory)
      BY <2>1
    <3> DEFINE i == (addr + k) - ctx.stackBase + 1
               Byte == 0 .. (2 ^ ByteBits - 1)
    <3>2. ctx.stackMemory \in Seq(Byte)
      BY DEF WordContext
    <3> HIDE DEF i, Byte
    <3>3. ctx.stackMemory[i] \in Byte
      BY <3>1, <3>2 DEF i
    <3> QED
      BY <3>3 DEF ByteAt, i, Byte
  <2>3. size \in 0 .. WordBytes
    BY <2>1
  <2>4. ReadBytes(ctx, addr, size) \in Word
    BY <2>2, <2>3, BytesWord
  <2>5. Pop(1, s) \in Seq(Word) /\ Len(Pop(1, s)) = Len(s) - 1
    BY PopWord
  <2>6. Len(s) \in Nat
    OBVIOUS
  <2> DEFINE t == Push(ReadBytes(ctx, addr, size), Pop(1, s))
  <2>7. t \in Seq(Word) /\ Len(t) <= Len(s) + 1
    BY <2>4, <2>5, <2>6, PushWord
  <2>8. Fetch(ctx, addr, size, s) = Ok(t)
    BY <1>3 DEF Fetch
  <2> HIDE DEF t
  <2> QED
    BY <2>7, <2>8, OkOutcome
<1> QED
  BY <1>1, <1>2, <1>3

LEMMA DerefOutcome ==
  ASSUME NEW ctx, WordContext(ctx), NEW s \in Seq(Word), NEW size \in Word
  PROVE  /\ Outcome(Deref(ctx, s), s) /\ Outcome(DerefSize(ctx, size, s), s)
         /\ MemoryBelowTop(ctx) => Deref(ctx, s).code # "undefined" /\ DerefSize(ctx, size, s).code # "undefined"
<1>1. CASE s = <<>>
  BY <1>1, BadOutcome, ErrorCodes DEF Deref, DerefSize
<1>2. CASE s # <<>>
  <2>1. Len(s) \in Nat /\ Len(s) > 0
    BY <1>2
  <2>2. s[1] \in Word
    BY <2>1, EntryWord
  <2>3. WordBytes \in 1 .. WordBytes
    <3>1. W \in Nat /\ ByteBits \in Nat /\ ByteBits > 0 /\ ByteBits <= W
      BY WidthAssumption
    <3> QED
      BY <3>1, BytesFit DEF WordBytes
  <2>4. /\ Outcome(Fetch(ctx, s[1], WordBytes, s), s)
        /\ MemoryBelowTop(ctx) => Fetch(ctx, s[1], WordBytes, s).code # "undefined"
    BY <2>1, <2>2, <2>3, FetchOutcome
  <2>5. /\ Outcome(Deref(ctx, s), s)
        /\ MemoryBelowTop(ctx) => Deref(ctx, s).code # "undefined"
    BY <1>2, <2>4, BadOutcome, ErrorCodes DEF Deref
  <2>6. /\ Outcome(DerefSize(ctx, size, s), s)
        /\ MemoryBelowTop(ctx) => DerefSize(ctx, size, s).code # "undefined"
    <3>1. CASE size > WordBytes \/ size = 0
      BY <1>2, <3>1, BadOutcome, ErrorCodes DEF DerefSize
    <3>2. CASE ~(size > WordBytes \/ size = 0)
      <4>1. size \in 1 .. WordBytes
        BY <3>2, BytesFit, WordFacts
      <4>2. DerefSize(ctx, size, s) = Fetch(ctx, s[1], size, s)
        BY <1>2, <3>2 DEF DerefSize
      <4> QED
        BY <2>1, <2>2, <4>1, <4>2, FetchOutcome
    <3> QED
      BY <3>1, <3>2
  <2> QED
    BY <2>5, <2>6
<1> QED
  BY <1>1, <1>2

\* Numbers that operations compute are words.
LEMMA SignedInt ==
  ASSUME NEW a \in Word
  PROVE  Signed(a) \in Int /\ Magnitude(Signed(a)) \in Int /\ a \in Int
BY WordFacts DEF Signed, Magnitude, MaxSigned

LEMMA DivisionInt ==
  ASSUME NEW a \in Int, NEW b \in Int, b # 0
  PROVE  Quotient(a, b) \in Int /\ Remainder(a, b) \in Int
<1>1. Magnitude(a) \in Nat /\ Magnitude(b) \in Nat /\ Magnitude(b) > 0
  BY DEF Magnitude
<1>2. Magnitude(a) \div Magnitude(b) \in Int
  BY <1>1
<1>3. Quotient(a, b) \in Int
  BY <1>2 DEF Quotient
<1>4. \A x, y \in Int : x * y \in Int
  OBVIOUS
<1> QED
  BY <1>3, <1>4 DEF Remainder


\* One lemma for each group of operations: it makes a stack of words, at most
\* one entry longer, or fails.
LEMMA UnaryOutcome ==
  ASSUME NEW op, op.opcode \in UnaryOps, op.op1 \in Word, NEW s \in Seq(Word)
  PROVE  Outcome(Unary(op, s), s) /\ Unary(op, s).code # "undefined"
<1>1. CASE s = <<>>
  BY <1>1, BadOutcome, ErrorCodes DEF Unary
<1>2. CASE s # <<>>
  <2>1. Len(s) \in Nat /\ Len(s) > 0
    BY <1>2
  <2>2. s[1] \in Word
    BY <2>1, EntryWord
  <2>3. Pop(1, s) \in Seq(Word) /\ Len(Pop(1, s)) = Len(s) - 1
    BY <2>1, PopWord
  <2> DEFINE v == CASE op.opcode = "abs" -> Wrap(Magnitude(Signed(s[1])))
                    [] op.opcode = "neg" -> Wrap(-s[1])
                    [] op.opcode = "not" -> BitNot(s[1])
                    [] op.opcode = "plus_uconst" -> Wrap(s[1] + op.op1)
  <2>4. v \in Word
    <3>1. Wrap(Magnitude(Signed(s[1]))) \in Word
      BY <2>2, SignedInt, Wraps
    <3>2. Wrap(-s[1]) \in Word
      <4>1. -s[1] \in Int
        BY <2>2, SignedInt
      <4> QED
        BY <4>1, Wraps
    <3>3. BitNot(s[1]) \in Word
      <4>1. \A x, m \in Nat : x <= m => m - x \in Nat /\ m - x <= m
        OBVIOUS
      <4>2. s[1] \in Nat /\ s[1] <= MaxUnsigned /\ MaxUnsigned \in Nat /\ MaxUnsigned = 2 ^ W - 1
        BY <2>2, WordFacts DEF MaxUnsigned
      <4>3. BitNot(s[1]) \in Nat /\ BitNot(s[1]) <= MaxUnsigned
        BY <4>1, <4>2 DEF BitNot
      <4> QED
        BY <4>2, <4>3 DEF Word
    <3>4. Wrap(s[1] + op.op1) \in Word
      <4>1. s[1] + op.op1 \in Int
        BY <2>2, SignedInt
      <4> QED
        BY <4>1, Wraps
    <3> QED
      BY <3>1, <3>2, <3>3, <3>4 DEF UnaryOps
  <2>5. Unary(op, s) = Ok(Push(v, Pop(1, s)))
    BY <1>2 DEF Unary
  <2> HIDE DEF v
  <2>6. Push(v, Pop(1, s)) \in Seq(Word) /\ Len(Push(v, Pop(1, s))) <= Len(s) + 1
    BY <2>1, <2>3, <2>4, PushWord
  <2> QED
    BY <2>5, <2>6, OkOutcome DEF Ok
<1> QED
  BY <1>1, <1>2

LEMMA BinaryWord ==
  ASSUME NEW opcode \in BinaryOps, NEW a \in Word, NEW b \in Word,
         opcode \in {"div", "mod"} => ~DivisionTraps(a, b)
  PROVE  BinaryValue(opcode, a, b) \in Word
<1>1. Signed(a) \in Int /\ Signed(b) \in Int /\ a \in Int /\ b \in Int
  BY SignedInt
<1>2. opcode \in {"div", "mod"} => Signed(b) # 0
  <2>1. b \in Nat /\ b < 2 ^ W /\ 2 ^ W \in Nat
    BY WordFacts
  <2>2. b # 0 => Signed(b) # 0
    BY <2>1 DEF Signed
  <2> QED
    BY <2>2 DEF DivisionTraps
<1>3. Wrap(a + b) \in Word /\ Wrap(a - b) \in Word /\ Wrap(Signed(a) * Signed(b)) \in Word
  BY <1>1, Wraps
<1>4. opcode \in {"div", "mod"} => /\ Wrap(Quotient(Signed(a), Signed(b))) \in Word
                                   /\ Wrap(Remainder(Signed(a), Signed(b))) \in Word
  BY <1>1, <1>2, DivisionInt, Wraps
<1>5. b % W \in 0 .. W
  BY <1>1, WordFacts
<1>6. 2 ^ (b % W) \in Nat /\ 2 ^ (b % W) > 0
  BY <1>5, PowerFacts
<1>7. ShiftLeft(a, b) \in Word
  <2>1. a * 2 ^ (b % W) \in Int
    BY <1>1, <1>6
  <2> QED
    BY <2>1, Wraps DEF ShiftLeft
<1>8. ShiftRight(a, b) \in Word
  <2>1. Signed(a) \div 2 ^ (b % W) \in Int
    BY <1>1, <1>6
  <2> QED
    BY <2>1, Wraps DEF ShiftRight
<1>9. BitAnd(a, b) \in Word /\ BitOr(a, b) \in Word /\ BitXor(a, b) \in Word
  BY BitAndWord, BitOrWord, BitXorWord
<1> QED
  BY <1>3, <1>4, <1>7, <1>8, <1>9 DEF BinaryValue, BinaryOps

LEMMA TwoEntries ==
  ASSUME NEW s \in Seq(Word), ~(Len(s) < 2), NEW v \in Word
  PROVE  /\ s[1] \in Word /\ s[2] \in Word
         /\ Push(v, Pop(2, s)) \in Seq(Word) /\ Len(Push(v, Pop(2, s))) <= Len(s) + 1
<1>1. Len(s) \in Nat /\ 2 <= Len(s) /\ 1 \in 1 .. Len(s) /\ 2 \in 1 .. Len(s)
  OBVIOUS
<1>2. s[1] \in Word /\ s[2] \in Word
  BY <1>1, EntryWord
<1>3. Pop(2, s) \in Seq(Word) /\ Len(Pop(2, s)) = Len(s) - 2
  BY <1>1, PopWord
<1> QED
  BY <1>1, <1>2, <1>3, PushWord

LEMMA BinaryOutcome ==
  ASSUME NEW op, op.opcode \in BinaryOps, NEW s \in Seq(Word)
  PROVE  /\ Outcome(Binary(op, s), s)
         /\ op.opcode \notin {"div", "mod"} => Binary(op, s).code # "undefined"
<1>1. CASE Len(s) < 2
  BY <1>1, BadOutcome, ErrorCodes DEF Binary
<1>2. CASE ~(Len(s) < 2) /\ op.opcode \in {"div", "mod"} /\ DivisionTraps(s[2], s[1])
  BY <1>2, UndefinedOutcome DEF Binary
<1>3. CASE ~(Len(s) < 2) /\ ~(op.opcode \in {"div", "mod"} /\ DivisionTraps(s[2], s[1]))
  <2> DEFINE v == BinaryValue(op.opcode, s[2], s[1])
  <2>1. s[1] \in Word /\ s[2] \in Word
    BY <1>3, TwoEntries, WordFacts
  <2>2. v \in Word
    BY <1>3, <2>1, BinaryWord
  <2>3. Binary(op, s) = Ok(Push(v, Pop(2, s)))
    BY <1>3 DEF Binary
  <2> HIDE DEF v
  <2>4. Push(v, Pop(2, s)) \in Seq(Word) /\ Len(Push(v, Pop(2, s))) <= Len(s) + 1
    BY <1>3, <2>2, TwoEntries
  <2> QED
    BY <2>3, <2>4, OkOutcome DEF Ok
<1> QED
  BY <1>1, <1>2, <1>3

LEMMA CompareOutcome ==
  ASSUME NEW op, NEW s \in Seq(Word)
  PROVE  Outcome(Compare(op, s), s)
<1>1. CASE Len(s) < 2
  BY <1>1, UndefinedOutcome DEF Compare
<1>2. CASE ~(Len(s) < 2)
  <2> DEFINE v == IF Holds(op.opcode, Signed(s[2]), Signed(s[1])) THEN 1 ELSE 0
  <2>1. v \in Word
    BY WordFacts
  <2>2. Compare(op, s) = Ok(Push(v, Pop(2, s)))
    BY <1>2 DEF Compare
  <2> HIDE DEF v
  <2>3. Push(v, Pop(2, s)) \in Seq(Word) /\ Len(Push(v, Pop(2, s))) <= Len(s) + 1
    BY <1>2, <2>1, TwoEntries
  <2> QED
    BY <2>2, <2>3, OkOutcome
<1> QED
  BY <1>1, <1>2

LEMMA RegisterOutcome ==
  ASSUME NEW ctx, WordContext(ctx), NEW n, NEW offset \in Word, NEW s \in Seq(Word)
  PROVE  LET o == BaseRegister(ctx, [number |-> n, offset |-> offset], s) IN
         Outcome(o, s) /\ o.code # "undefined"
<1> DEFINE reg == [number |-> n, offset |-> offset]
           v == Wrap(ctx.regs[n] + offset)
<1>0. reg.number = n /\ reg.offset = offset
  OBVIOUS
<1> HIDE DEF reg
<1>1. CASE ~HasRegister(ctx, n)
  BY <1>0, <1>1, BadOutcome, ErrorCodes DEF BaseRegister, reg
<1>2. CASE HasRegister(ctx, n)
  <2>1. ctx.regs[n] \in Int /\ offset \in Int
    BY <1>2, WordFacts DEF HasRegister, WordContext
  <2>2. v \in Word
    BY <2>1, Wraps
  <2>3. BaseRegister(ctx, reg, s) = Ok(Push(v, s))
    BY <1>0, <1>2 DEF BaseRegister
  <2> HIDE DEF v
  <2>4. Push(v, s) \in Seq(Word) /\ Len(Push(v, s)) <= Len(s) + 1
    BY <2>2, PushWord
  <2> QED
    BY <2>3, <2>4, OkOutcome DEF Ok, reg
<1> QED
  BY <1>1, <1>2


\* The top of a stack replaced by some words.
LEMMA SubStack ==
  ASSUME NEW s \in Seq(Word), NEW n \in Nat, n <= Len(s), NEW t \in Seq(Word), Len(t) <= n + 1
  PROVE  t \o Pop(n, s) \in Seq(Word) /\ Len(t \o Pop(n, s)) <= Len(s) + 1
<1>1. Pop(n, s) \in Seq(Word) /\ Len(Pop(n, s)) = Len(s) - n
  BY PopWord
<1>2. t \o Pop(n, s) \in Seq(Word) /\ Len(t \o Pop(n, s)) = Len(t) + Len(Pop(n, s))
  <2>1. PICK r \in Seq(Word) : r = Pop(n, s)
    BY <1>1
  <2>2. t \o r \in Seq(Word) /\ Len(t \o r) = Len(t) + Len(r)
    BY ConcatProperties
  <2> QED
    BY <2>1, <2>2
<1>3. Len(t) \in Nat /\ Len(s) \in Nat
  OBVIOUS
<1> QED
  BY <1>1, <1>2, <1>3

LEMMA ShuffleOutcome ==
  ASSUME NEW op, op.opcode \in ShuffleOps, op.op1 \in Word, NEW s \in Seq(Word)
  PROVE  Outcome(Shuffle(op, s), s) /\ Shuffle(op, s).code # "undefined"
<1>0. /\ Len(s) \in Nat
      /\ \A k \in 1 .. Len(s) : s[k] \in Word
      /\ \A k \in 1 .. Len(s) : Push(s[k], s) \in Seq(Word) /\ Len(Push(s[k], s)) <= Len(s) + 1
  <2>1. Len(s) \in Nat
    OBVIOUS
  <2>2. ASSUME NEW k \in 1 .. Len(s)
        PROVE  s[k] \in Word /\ Push(s[k], s) \in Seq(Word) /\ Len(Push(s[k], s)) = Len(s) + 1
    <3>1. s[k] \in Word
      BY EntryWord
    <3> QED
      BY <3>1, PushWord
  <2> QED
    BY <2>1, <2>2
<1>1. Outcome(Bad("kStackIndexInvalid"), s) /\ Bad("kStackIndexInvalid").code # "undefined"
  BY BadOutcome, ErrorCodes
<1>2. ASSUME NEW t \in Seq(Word), Len(t) <= Len(s) + 1
      PROVE  Outcome(Ok(t), s) /\ Ok(t).code # "undefined"
  BY <1>2, OkOutcome
<1>3. CASE op.opcode = "dup"
  <2>1. s # <<>> => 1 \in 1 .. Len(s)
    OBVIOUS
  <2> QED
    BY <1>0, <1>1, <1>2, <1>3, <2>1 DEF Shuffle
<1>4. CASE op.opcode = "drop"
  <2>1. s # <<>> => Pop(1, s) \in Seq(Word) /\ Len(Pop(1, s)) <= Len(s) + 1
    <3>1. s # <<>> => 1 <= Len(s)
      OBVIOUS
    <3> QED
      BY <1>0, <3>1, PopWord
  <2> QED
    BY <1>1, <1>2, <1>4, <2>1 DEF Shuffle
<1>5. CASE op.opcode = "pick"
  <2>1. op.op1 + 1 \in Nat /\ op.op1 + 1 >= 1
    <3>1. PICK m \in Nat : m = op.op1
      BY WordFacts
    <3>2. m + 1 \in Nat /\ m + 1 >= 1
      OBVIOUS
    <3> QED
      BY <3>1, <3>2
  <2>2. ~(Len(s) < op.op1 + 1) => op.op1 + 1 \in 1 .. Len(s)
    BY <1>0, <2>1
  <2>3. Outcome(Pick(op.op1, s), s) /\ Pick(op.op1, s).code # "undefined"
    <3>1. CASE Len(s) < op.op1 + 1
      BY <1>1, <3>1 DEF Pick
    <3>2. CASE ~(Len(s) < op.op1 + 1)
      <4>1. PICK k \in 1 .. Len(s) : k = op.op1 + 1
        BY <2>2, <3>2
      <4> QED
        BY <1>0, <1>2, <3>2, <4>1 DEF Pick
    <3> QED
      BY <3>1, <3>2
  <2> QED
    BY <1>5, <2>3 DEF Shuffle
<1>6. CASE op.opcode = "over"
  <2>1. ~(Len(s) < 2) => 2 \in 1 .. Len(s)
    BY <1>0
  <2> QED
    BY <1>0, <1>1, <1>2, <1>6, <2>1 DEF Shuffle
<1>7. CASE op.opcode = "swap"
  <2>1. CASE Len(s) < 2
    BY <1>1, <1>7, <2>1 DEF Shuffle
  <2>2. CASE ~(Len(s) < 2)
    <3> DEFINE t == <<s[2], s[1]>>
    <3>1. s[1] \in Word /\ s[2] \in Word /\ 2 <= Len(s)
      BY <1>0, <2>2
    <3>2. t \in Seq(Word) /\ Len(t) = 2
      <4> HIDE DEF Word
      <4> QED
        BY <3>1
    <3>3. Shuffle(op, s) = Ok(t \o Pop(2, s))
      BY <1>7, <2>2 DEF Shuffle
    <3> HIDE DEF t
    <3>4. t \o Pop(2, s) \in Seq(Word) /\ Len(t \o Pop(2, s)) <= Len(s) + 1
      <4>1. PICK n \in Nat : n = 2
        OBVIOUS
      <4>2. n <= Len(s) /\ Len(t) <= n + 1 /\ t \in Seq(Word)
        BY <3>1, <3>2, <4>1
      <4>3. t \o Pop(n, s) \in Seq(Word) /\ Len(t \o Pop(n, s)) <= Len(s) + 1
        BY <4>2, SubStack
      <4> QED
        BY <4>1, <4>3
    <3> QED
      BY <1>2, <3>3, <3>4
  <2> QED
    BY <2>1, <2>2
<1>8. CASE op.opcode = "rot"
  <2>1. CASE Len(s) < 3
    BY <1>1, <1>8, <2>1 DEF Shuffle, Rot
  <2>2. CASE ~(Len(s) < 3)
    <3> DEFINE t == <<s[2], s[3], s[1]>>
    <3>1. s[1] \in Word /\ s[2] \in Word /\ s[3] \in Word /\ 3 <= Len(s)
      BY <1>0, <2>2
    <3>2. t \in Seq(Word) /\ Len(t) = 3
      <4> HIDE DEF Word
      <4> QED
        BY <3>1
    <3>3. Shuffle(op, s) = Ok(t \o Pop(3, s))
      BY <1>8, <2>2 DEF Shuffle, Rot
    <3> HIDE DEF t
    <3>4. t \o Pop(3, s) \in Seq(Word) /\ Len(t \o Pop(3, s)) <= Len(s) + 1
      <4>1. PICK n \in Nat : n = 3
        OBVIOUS
      <4>2. n <= Len(s) /\ Len(t) <= n + 1 /\ t \in Seq(Word)
        BY <3>1, <3>2, <4>1
      <4>3. t \o Pop(n, s) \in Seq(Word) /\ Len(t \o Pop(n, s)) <= Len(s) + 1
        BY <4>2, SubStack
      <4> QED
        BY <4>1, <4>3
    <3> QED
      BY <1>2, <3>3, <3>4
  <2> QED
    BY <2>1, <2>2
<1> QED
  BY <1>3, <1>4, <1>5, <1>6, <1>7, <1>8 DEF ShuffleOps

\* Every stack operation of evaluate makes a stack of words, at most one entry
\* longer, or fails with an error code; only comparisons and divisions are
\* undefined, and reads of memory that ends within a word of the end of the
\* address space.
THEOREM ApplyOutcome ==
  ASSUME NEW ctx, WordContext(ctx), NEW op \in Operations, op.opcode \in StackOps, NEW s \in Seq(Word)
  PROVE  /\ Outcome(Apply(ctx, op, s), s)
         /\ MemoryBelowTop(ctx) /\ op.opcode \notin CompareOps \cup {"div", "mod"} =>
              Apply(ctx, op, s).code # "undefined"
<1>0. op.op1 \in Word /\ op.op2 \in Word
  <2> HIDE DEF Word
  <2> QED
    BY DEF Operations
<1>1. CASE op.opcode = "const"
  <2>1. Apply(ctx, op, s) = Ok(Push(op.op1, s))
    BY <1>1 DEF Apply, UnaryOps, BinaryOps, CompareOps, ShuffleOps
  <2>2. PICK v \in Word : v = op.op1
    BY <1>0
  <2>3. Len(s) \in Nat
    OBVIOUS
  <2>4. Push(v, s) \in Seq(Word) /\ Len(Push(v, s)) <= Len(s) + 1
    BY <2>3, PushWord
  <2> QED
    BY <2>1, <2>2, <2>4, OkOutcome
<1>2. CASE op.opcode = "nop"
  <2>1. Apply(ctx, op, s) = Ok(s)
    BY <1>2 DEF Apply, UnaryOps, BinaryOps, CompareOps, ShuffleOps
  <2>2. Len(s) <= Len(s) + 1
    OBVIOUS
  <2> QED
    BY <2>1, <2>2, OkOutcome
<1>3. CASE op.opcode = "breg"
  <2>1. Apply(ctx, op, s) = BaseRegister(ctx, [number |-> op.op2, offset |-> op.op1], s)
    BY <1>3 DEF Apply, UnaryOps, BinaryOps, CompareOps, ShuffleOps
  <2> QED
    BY <1>0, <2>1, RegisterOutcome
<1>9. CASE op.opcode = "bregx"
  <2>1. Apply(ctx, op, s) = BaseRegister(ctx, [number |-> op.op1, offset |-> op.op1], s)
    BY <1>9 DEF Apply, UnaryOps, BinaryOps, CompareOps, ShuffleOps
  <2> QED
    BY <1>0, <2>1, RegisterOutcome
<1>4. CASE op.opcode \in {"deref", "deref_size"}
  <2>1. Apply(ctx, op, s) \in {Deref(ctx, s), DerefSize(ctx, op.op1, s)}
    BY <1>4 DEF Apply, UnaryOps, BinaryOps, CompareOps, ShuffleOps
  <2> QED
    BY <1>0, <2>1, DerefOutcome
<1>5. CASE op.opcode \in UnaryOps
  <2>1. Apply(ctx, op, s) = Unary(op, s)
    BY <1>5 DEF Apply, UnaryOps, BinaryOps, CompareOps, ShuffleOps
  <2> QED
    BY <1>0, <1>5, <2>1, UnaryOutcome
<1>6. CASE op.opcode \in BinaryOps
  <2>1. Apply(ctx, op, s) = Binary(op, s)
    BY <1>6 DEF Apply, UnaryOps, BinaryOps, CompareOps, ShuffleOps
  <2> QED
    BY <1>6, <2>1, BinaryOutcome
<1>7. CASE op.opcode \in CompareOps
  <2>1. Apply(ctx, op, s) = Compare(op, s)
    BY <1>7 DEF Apply, UnaryOps, BinaryOps, CompareOps, ShuffleOps
  <2> QED
    BY <1>7, <2>1, CompareOutcome
<1>8. CASE op.opcode \in ShuffleOps
  <2>1. Apply(ctx, op, s) = Shuffle(op, s)
    BY <1>8 DEF Apply, UnaryOps, BinaryOps, CompareOps, ShuffleOps
  <2> QED
    BY <1>0, <1>8, <2>1, ShuffleOutcome
<1> QED
  BY <1>1, <1>2, <1>3, <1>4, <1>5, <1>6, <1>7, <1>8, <1>9 DEF StackOps, ShuffleOps

-----------------------------------------------------------------------------
(***************************************************************************)
(* The entries of a stack.                                                 *)
(***************************************************************************)
Count(s, v) == Cardinality({k \in DOMAIN s : s[k] = v})

\* pi gives every entry of s a place of its own in t.
Places(s, t, pi) ==
  /\ pi \in [1 .. Len(s) -> 1 .. Len(t)]
  /\ \A j, k \in 1 .. Len(s) : pi[j] = pi[k] => j = k
  /\ \A k \in 1 .. Len(s) : t[pi[k]] = s[k]

\* t has the entries of s and no other, each at least as often.
Keeps(s, t) ==
  /\ ToSet(t) = ToSet(s)
  /\ \A v \in ToSet(s) : Count(t, v) >= Count(s, v)

\* A stack in which every entry of s has a place of its own, and which has no
\* other entries, keeps the entries of s.
LEMMA PlacesKeep ==
  ASSUME NEW V, NEW s \in Seq(V), NEW t \in Seq(V), NEW pi, Places(s, t, pi),
         \A k \in 1 .. Len(t) : \E j \in 1 .. Len(s) : t[k] = s[j]
  PROVE  Keeps(s, t)
<1>1. DOMAIN s = 1 .. Len(s) /\ DOMAIN t = 1 .. Len(t) /\ Len(s) \in Nat /\ Len(t) \in Nat
  OBVIOUS
<1>2. ToSet(t) = ToSet(s)
  BY <1>1 DEF Places, ToSet
<1>3. ASSUME NEW v PROVE Count(t, v) >= Count(s, v)
  <2> DEFINE S == {k \in DOMAIN s : s[k] = v}
             T == {k \in DOMAIN t : t[k] = v}
             f == [k \in S |-> pi[k]]
  <2>1. f \in [S -> T] /\ \A j, k \in S : f[j] = f[k] => j = k
    BY <1>1 DEF Places
  <2>2. IsFiniteSet(T)
    <3>1. IsFiniteSet(1 .. Len(t))
      BY <1>1, FS_Interval
    <3>2. T \in SUBSET (1 .. Len(t))
      BY <1>1
    <3> HIDE DEF T
    <3> QED
      BY <3>1, <3>2, FS_Subset
  <2> HIDE DEF S, T, f
  <2>3. f \in Injection(S, T)
    BY <2>1 DEF Injection, IsInjective
  <2>4. IsFiniteSet(S) /\ Cardinality(S) <= Cardinality(T)
    BY <2>2, <2>3, FS_Injection
  <2>5. Cardinality(S) \in Nat /\ Cardinality(T) \in Nat
    BY <2>2, <2>4, FS_CardinalityType
  <2>6. Cardinality(T) >= Cardinality(S)
    BY <2>4, <2>5
  <2> QED
    BY <2>6 DEF Count, S, T
<1> QED
  BY <1>2, <1>3 DEF Keeps

\* A stack keeps its own entries.
LEMMA SameKeeps ==
  ASSUME NEW V, NEW s \in Seq(V)
  PROVE  Keeps(s, s)
<1> DEFINE pi == [k \in 1 .. Len(s) |-> k]
<1>1. Places(s, s, pi)
  BY DEF Places
<1> HIDE DEF pi
<1> QED
  BY <1>1, PlacesKeep

\* An entry is copied to the top.
LEMMA CopyKeeps ==
  ASSUME NEW V, NEW s \in Seq(V), NEW j \in 1 .. Len(s)
  PROVE  Keeps(s, Push(s[j], s)) /\ Len(Push(s[j], s)) = Len(s) + 1
<1> DEFINE t == Push(s[j], s)
           pi == [k \in 1 .. Len(s) |-> k + 1]
<1>1. Len(s) \in Nat /\ s[j] \in V
  OBVIOUS
<1>2. /\ t \in Seq(V) /\ Len(t) = Len(s) + 1
      /\ t[1] = s[j] /\ \A k \in 1 .. Len(s) : t[k + 1] = s[k]
  BY <1>1 DEF Push
<1> HIDE DEF t
<1>3. Places(s, t, pi)
  BY <1>1, <1>2 DEF Places
<1> HIDE DEF pi
<1>4. ASSUME NEW k \in 1 .. Len(t) PROVE \E i \in 1 .. Len(s) : t[k] = s[i]
  <2>1. CASE k = 1
    BY <1>2, <2>1
  <2>2. CASE k # 1
    <3>1. k - 1 \in 1 .. Len(s) /\ k = (k - 1) + 1
      BY <1>1, <1>2, <2>2
    <3> QED
      BY <1>2, <3>1
  <2> QED
    BY <2>1, <2>2
<1>5. Keeps(s, t)
  BY <1>2, <1>3, <1>4, PlacesKeep
<1> QED
  BY <1>2, <1>5 DEF t

\* t is s with r for its first n entries.
OnTop(r, n, s, t) ==
  /\ Len(t) = Len(s)
  /\ \A k \in 1 .. Len(s) : t[k] = (IF k <= n THEN r[k] ELSE s[k])

\* The top n entries of a stack replaced by n others.
LEMMA TopReplaced ==
  ASSUME NEW V, NEW s \in Seq(V), NEW n \in Nat, n <= Len(s), NEW r \in Seq(V), Len(r) = n
  PROVE  r \o Pop(n, s) \in Seq(V) /\ OnTop(r, n, s, r \o Pop(n, s))
<1>1. Len(s) \in Nat /\ n + 1 \in Int /\ Len(s) \in Int
  OBVIOUS
<1>2. PICK m \in Nat : m = Len(s)
  BY <1>1
<1>3. \A k \in (n + 1) .. m : s[k] \in V
  BY <1>2
<1>4. /\ SubSeq(s, n + 1, m) \in Seq(V)
      /\ Len(SubSeq(s, n + 1, m)) = IF n + 1 <= m THEN m - (n + 1) + 1 ELSE 0
      /\ \A k \in 1 .. m - (n + 1) + 1 : SubSeq(s, n + 1, m)[k] = s[n + 1 + k - 1]
  <2>1. m \in Int
    OBVIOUS
  <2> QED
    BY <1>1, <1>3, <2>1, SubSeqProperties
<1>5. PICK u \in Seq(V) : u = Pop(n, s)
  BY <1>2, <1>4 DEF Pop
<1>6. Len(u) = m - n /\ \A k \in 1 .. (m - n) : u[k] = s[n + k]
  <2>1. Len(u) = m - n
    BY <1>2, <1>4, <1>5 DEF Pop
  <2>2. ASSUME NEW k \in 1 .. (m - n) PROVE u[k] = s[n + k]
    <3>1. k \in 1 .. m - (n + 1) + 1 /\ n + 1 + k - 1 = n + k
      OBVIOUS
    <3> QED
      BY <1>2, <1>4, <1>5, <3>1 DEF Pop
  <2> QED
    BY <2>1, <2>2
<1>7. /\ r \o u \in Seq(V) /\ Len(r \o u) = Len(r) + Len(u)
      /\ \A k \in 1 .. Len(r) + Len(u) : (r \o u)[k] = IF k <= Len(r) THEN r[k] ELSE u[k - Len(r)]
  BY ConcatProperties
<1>8. Len(r \o u) = m
  BY <1>2, <1>6, <1>7
<1>9. ASSUME NEW k \in 1 .. m PROVE (r \o u)[k] = (IF k <= n THEN r[k] ELSE s[k])
  <2>1. CASE k <= n
    BY <1>6, <1>7, <2>1
  <2>2. CASE ~(k <= n)
    <3>1. k - n \in 1 .. (m - n) /\ n + (k - n) = k
      BY <1>2, <2>2
    <3> QED
      BY <1>2, <1>6, <1>7, <2>2, <3>1
  <2> QED
    BY <2>1, <2>2
<1> QED
  BY <1>2, <1>5, <1>7, <1>8, <1>9 DEF OnTop

\* DW_OP_swap and DW_OP_rot permute the top of the stack.
LEMMA SwapKeeps ==
  ASSUME NEW V, NEW s \in Seq(V), 2 <= Len(s)
  PROVE  LET t == <<s[2], s[1]>> \o Pop(2, s) IN Keeps(s, t) /\ Len(t) = Len(s)
<1> DEFINE r == <<s[2], s[1]>>
           t == r \o Pop(2, s)
           pi == [k \in 1 .. Len(s) |-> IF k = 1 THEN 2 ELSE IF k = 2 THEN 1 ELSE k]
<1>1. Len(s) \in Nat /\ s[1] \in V /\ s[2] \in V
  OBVIOUS
<1>2. r \in Seq(V) /\ Len(r) = 2 /\ r[1] = s[2] /\ r[2] = s[1]
  BY <1>1
<1> HIDE DEF r
<1>3. t \in Seq(V) /\ Len(t) = Len(s) /\ \A k \in 1 .. Len(s) : t[k] = (IF k <= 2 THEN r[k] ELSE s[k])
  <2>1. PICK n \in Nat : n = 2
    OBVIOUS
  <2>2. r \o Pop(n, s) \in Seq(V) /\ OnTop(r, n, s, r \o Pop(n, s))
    <3>1. n <= Len(s) /\ Len(r) = n
      BY <1>1, <1>2, <2>1
    <3> QED
      BY <1>2, <3>1, TopReplaced
  <2> QED
    BY <2>1, <2>2 DEF OnTop
<1> HIDE DEF t
<1>4. t[1] = s[2] /\ t[2] = s[1] /\ \A k \in 3 .. Len(s) : t[k] = s[k]
  BY <1>1, <1>2, <1>3
<1>5. Places(s, t, pi)
  BY <1>1, <1>3, <1>4 DEF Places
<1>6. \A k \in 1 .. Len(t) : \E j \in 1 .. Len(s) : t[k] = s[j]
  BY <1>1, <1>3, <1>4
<1> HIDE DEF pi
<1>7. Keeps(s, t)
  BY <1>3, <1>5, <1>6, PlacesKeep
<1> QED
  BY <1>3, <1>7 DEF t, r

LEMMA RotKeeps ==
  ASSUME NEW V, NEW s \in Seq(V), 3 <= Len(s)
  PROVE  LET t == <<s[2], s[3], s[1]>> \o Pop(3, s) IN Keeps(s, t) /\ Len(t) = Len(s)
<1> DEFINE r == <<s[2], s[3], s[1]>>
           t == r \o Pop(3, s)
           pi == [k \in 1 .. Len(s) |-> IF k = 1 THEN 3 ELSE IF k <= 3 THEN k - 1 ELSE k]
<1>1. Len(s) \in Nat /\ s[1] \in V /\ s[2] \in V /\ s[3] \in V
  OBVIOUS
<1>2. r \in Seq(V) /\ Len(r) = 3 /\ r[1] = s[2] /\ r[2] = s[3] /\ r[3] = s[1]
  BY <1>1
<1> HIDE DEF r
<1>3. t \in Seq(V) /\ Len(t) = Len(s) /\ \A k \in 1 .. Len(s) : t[k] = (IF k <= 3 THEN r[k] ELSE s[k])
  <2>1. PICK n \in Nat : n = 3
    OBVIOUS
  <2>2. r \o Pop(n, s) \in Seq(V) /\ OnTop(r, n, s, r \o Pop(n, s))
    <3>1. n <= Len(s) /\ Len(r) = n
      BY <1>1, <1>2, <2>1
    <3> QED
      BY <1>2, <3>1, TopReplaced
  <2> QED
    BY <2>1, <2>2 DEF OnTop
<1> HIDE DEF t
<1>4. t[1] = s[2] /\ t[2] = s[3] /\ t[3] = s[1] /\ \A k \in 4 .. Len(s) : t[k] = s[k]
  BY <1>1, <1>2, <1>3
<1>5. Places(s, t, pi)
  BY <1>1, <1>3, <1>4 DEF Places
<1>6. \A k \in 1 .. Len(t) : \E j \in 1 .. Len(s) : t[k] = s[j]
  BY <1>1, <1>3, <1>4
<1> HIDE DEF pi
<1>7. Keeps(s, t)
  BY <1>3, <1>5, <1>6, PlacesKeep
<1> QED
  BY <1>3, <1>7 DEF t, r

CopyOps == {"dup", "over", "pick"}
KeepOps == {"swap", "rot", "nop", "dup", "over", "pick"}

\* Shuffling and copying operations keep the entries of the stack, whatever
\* the stack and the operand are.
LEMMA OpKeeps ==
  ASSUME NEW ctx, NEW op, op.opcode \in KeepOps, op.op1 \in Word, NEW s \in Seq(Word),
         Apply(ctx, op, s).code = "kNone"
  PROVE  /\ Keeps(s, Apply(ctx, op, s).stk)
         /\ Len(Apply(ctx, op, s).stk) = Len(s) + (IF op.opcode \in CopyOps THEN 1 ELSE 0)
<1>0. Len(s) \in Nat /\ "kStackIndexInvalid" # "kNone"
  OBVIOUS
<1>1. \A c : Bad(c).code = c
  BY DEF Bad
<1>2. \A t : Ok(t).stk = t
  BY DEF Ok
<1>3. CASE op.opcode = "nop"
  <2>1. Apply(ctx, op, s) = Ok(s)
    BY <1>3 DEF Apply, UnaryOps, BinaryOps, CompareOps, ShuffleOps
  <2>2. Keeps(s, s)
    BY SameKeeps
  <2> QED
    BY <1>0, <1>2, <1>3, <2>1, <2>2 DEF CopyOps
<1>4. ASSUME op.opcode \in ShuffleOps
      PROVE  Apply(ctx, op, s) = Shuffle(op, s)
  BY <1>4 DEF Apply, UnaryOps, BinaryOps, CompareOps, ShuffleOps
<1>5. CASE op.opcode \in CopyOps
  <2>1. Apply(ctx, op, s) = Shuffle(op, s)
    BY <1>4, <1>5 DEF CopyOps, ShuffleOps
  <2>2. \E j \in 1 .. Len(s) : Shuffle(op, s) = Ok(Push(s[j], s))
    <3>1. CASE op.opcode = "dup"
      <4>1. s # <<>> /\ Shuffle(op, s) = Ok(Push(s[1], s))
        BY <1>1, <2>1, <3>1 DEF Shuffle
      <4>2. 1 \in 1 .. Len(s)
        BY <4>1
      <4> QED
        BY <4>1, <4>2
    <3>2. CASE op.opcode = "over"
      <4>1. ~(Len(s) < 2) /\ Shuffle(op, s) = Ok(Push(s[2], s))
        BY <1>1, <2>1, <3>2 DEF Shuffle
      <4>2. 2 \in 1 .. Len(s)
        BY <1>0, <4>1
      <4> QED
        BY <4>1, <4>2
    <3>3. CASE op.opcode = "pick"
      <4>1. Shuffle(op, s) = Pick(op.op1, s)
        BY <3>3 DEF Shuffle
      <4>2. PICK n \in Nat : n = op.op1
        BY WordFacts
      <4>3. ~(Len(s) < n + 1) /\ Shuffle(op, s) = Ok(Push(s[n + 1], s))
        BY <1>1, <2>1, <4>1, <4>2 DEF Pick
      <4>4. n + 1 \in 1 .. Len(s)
        BY <1>0, <4>3
      <4> QED
        BY <4>3, <4>4
    <3> QED
      BY <1>5, <3>1, <3>2, <3>3 DEF CopyOps
  <2>3. PICK j \in 1 .. Len(s) : Shuffle(op, s) = Ok(Push(s[j], s))
    BY <2>2
  <2>4. Keeps(s, Push(s[j], s)) /\ Len(Push(s[j], s)) = Len(s) + 1
    BY CopyKeeps
  <2> QED
    BY <1>2, <1>5, <2>1, <2>3, <2>4
<1>6. CASE op.opcode = "swap"
  <2> DEFINE t == <<s[2], s[1]>> \o Pop(2, s)
  <2>1. Apply(ctx, op, s) = Shuffle(op, s)
    BY <1>4, <1>6 DEF ShuffleOps
  <2>2. ~(Len(s) < 2) /\ Shuffle(op, s) = Ok(t)
    BY <1>1, <1>6, <2>1 DEF Shuffle
  <2>3. 2 <= Len(s)
    BY <1>0, <2>2
  <2>4. Keeps(s, t) /\ Len(t) = Len(s)
    BY <2>3, SwapKeeps
  <2> HIDE DEF t
  <2> QED
    BY <1>0, <1>2, <1>6, <2>1, <2>2, <2>4 DEF CopyOps
<1>7. CASE op.opcode = "rot"
  <2> DEFINE t == <<s[2], s[3], s[1]>> \o Pop(3, s)
  <2>1. Apply(ctx, op, s) = Shuffle(op, s)
    BY <1>4, <1>7 DEF ShuffleOps
  <2>2. ~(Len(s) < 3) /\ Shuffle(op, s) = Ok(t)
    BY <1>1, <1>7, <2>1 DEF Shuffle, Rot
  <2>3. 3 <= Len(s)
    BY <1>0, <2>2
  <2>4. Keeps(s, t) /\ Len(t) = Len(s)
    BY <2>3, RotKeeps
  <2> HIDE DEF t
  <2> QED
    BY <1>0, <1>2, <1>7, <2>1, <2>2, <2>4 DEF CopyOps
<1> QED
  BY <1>3, <1>5, <1>6, <1>7 DEF KeepOps, CopyOps
=============================================================================
