------------------------------ MODULE DataLemmas ------------------------------
(***************************************************************************)
(* What proofs about data need: the numbers are well ordered, so what      *)
(* holds of 0 and of each successor holds of all of them, the smallest     *)
(* element that Min chooses exists, and recursive functions on intervals   *)
(* are what their definitions say.                                         *)
(***************************************************************************)
EXTENDS SequencesExt, FiniteSetsExt, SequenceTheorems, FiniteSetTheorems,
        WellFoundedInduction, TLAPS

(* A set of numbers has a least element.                                   *)
LEMMA LeastExists ==
  ASSUME NEW T, T \subseteq Nat, T # {}
  PROVE  \E m \in T : \A k \in T : m <= k
<1> DEFINE R == {ss \in Nat \X Nat : ss[1] < ss[2]}
<1>1. IsWellFoundedOn(R, Nat)
  <2>1. OpToRel(<, Nat) = R
    BY Zenon DEF OpToRel
  <2> QED BY <2>1, NatLessThanWellFounded
<1>2. PICK m \in T : \A k \in T : ~ (<<k, m>> \in R)
  <2> HIDE DEF R
  <2> QED BY <1>1, WFMin
<1>3. ASSUME NEW k \in T PROVE ~(k < m)
  <2>1. <<k, m>> \in Nat \X Nat
    OBVIOUS
  <2>2. <<k, m>>[1] = k /\ <<k, m>>[2] = m
    OBVIOUS
  <2> QED BY <1>2, <2>1, <2>2, Zenon
<1> QED BY <1>3

(* Induction, for a set instead of a predicate.                            *)
LEMMA SetInduction ==
  ASSUME NEW S, 0 \in S, \A n \in Nat : n \in S => n + 1 \in S
  PROVE  \A n \in Nat : n \in S
<1> DEFINE T == Nat \ S
<1> SUFFICES ASSUME T # {} PROVE FALSE
  OBVIOUS
<1>1. PICK m \in T : \A k \in T : m <= k
  BY LeastExists
<1>2. m \in Nat /\ m # 0 /\ m - 1 \in Nat /\ m - 1 \notin T
  BY <1>1
<1> QED BY <1>1, <1>2

\* Min chooses it.
LEMMA MinIs ==
  ASSUME NEW T, T \subseteq Nat, T # {}
  PROVE  Min(T) \in T /\ \A k \in T : Min(T) <= k
  BY LeastExists, Zenon DEF Min

(* A function on 1..n is a sequence.                                       *)
LEMMA FunctionIsSeq ==
  ASSUME NEW V, NEW n \in Nat, NEW s, s = [j \in 1..n |-> s[j]], \A j \in 1..n : s[j] \in V
  PROVE  s \in Seq(V) /\ Len(s) = n
<1>1. s \in [1..n -> V]
  BY Zenon
<1> QED BY <1>1

(* A function defined by recursion on an interval exists: D gives the next *)
(* value from the one before and its place.                                *)
StepsIn(V, a, b, D) == \A v \in V, j \in (a + 1)..b : D[j][v] \in V
Recursive(V, a, b, c, D) ==
  \E g \in [a..b -> V] : \A j \in a..b : g[j] = IF j = a THEN c ELSE D[j][g[j - 1]]

\* A function on an interval that is defined from its value one place before is
\* there.
LEMMA RecursionExists ==
  ASSUME NEW V, NEW a \in Int, NEW b \in Int, a <= b, NEW c \in V, NEW D,
         StepsIn(V, a, b, D)
  PROVE  Recursive(V, a, b, c, D)
<1> DEFINE Upto(n, g) == \A j \in a..(a + n) : g[j] = IF j = a THEN c ELSE D[j][g[j - 1]]
           S == {n \in Nat : a + n <= b => \E g \in [a..(a + n) -> V] : Upto(n, g)}
<1>1. 0 \in S
  <2>1. [j \in a..a |-> c] \in [a..(a + 0) -> V] /\ Upto(0, [j \in a..a |-> c])
    OBVIOUS
  <2> QED BY <2>1
<1>2. ASSUME NEW n \in Nat, n \in S PROVE n + 1 \in S
  <2> SUFFICES ASSUME a + (n + 1) <= b
               PROVE  \E h \in [a..(a + (n + 1)) -> V] : Upto(n + 1, h)
    OBVIOUS
  <2>1. PICK g \in [a..(a + n) -> V] : Upto(n, g)
    BY <1>2
  <2> DEFINE m == a + (n + 1)
             h == [j \in a..m |-> IF j = m THEN D[j][g[j - 1]] ELSE g[j]]
  <2>2. m \in (a + 1)..b /\ m - 1 \in a..(a + n) /\ g[m - 1] \in V
    BY <2>1
  <2>3. D[m][g[m - 1]] \in V
    BY <2>2 DEF StepsIn
  <2>4. h \in [a..m -> V]
    <3>1. ASSUME NEW j \in a..m, j # m PROVE g[j] \in V
      <4>1. j \in a..(a + n)
        BY <3>1
      <4> QED BY <2>1, <4>1
    <3> QED BY <2>3, <3>1
  <2>5. ASSUME NEW j \in a..m PROVE h[j] = IF j = a THEN c ELSE D[j][h[j - 1]]
    <3>1. CASE j = m
      <4>1. m - 1 \in a..m /\ m - 1 # m /\ m # a
        OBVIOUS
      <4>2. h[m - 1] = g[m - 1] /\ h[m] = D[m][g[m - 1]]
        BY <4>1
      <4> QED BY <3>1, <4>1, <4>2, Zenon
    <3>2. CASE j # m
      <4>1. j \in a..(a + n) /\ h[j] = g[j]
        BY <3>2
      <4>2. j # a => j - 1 \in a..m /\ j - 1 # m
        OBVIOUS
      <4>3. j # a => h[j - 1] = g[j - 1]
        BY <4>2
      <4>4. g[j] = IF j = a THEN c ELSE D[j][g[j - 1]]
        BY <2>1, <4>1
      <4> QED BY <4>1, <4>3, <4>4, Zenon
    <3> QED BY <3>1, <3>2
  <2> QED BY <2>4, <2>5
<1>3. \A n \in Nat : n \in S
  <2> HIDE DEF S
  <2> QED BY <1>1, <1>2, SetInduction
<1>4. b - a \in Nat /\ a + (b - a) = b
  OBVIOUS
<1>5. b - a \in S
  BY <1>3, <1>4
<1> QED BY <1>4, <1>5 DEF Recursive

(* A function that is defined like this has values in V.                   *)
LEMMA FlattenType ==
  ASSUME NEW S, NEW ss, NEW n \in Nat, n >= 1, \A j \in 1..n : ss[j] \in Seq(S),
         NEW f, f = [i \in 1..n |-> IF i = 1 THEN ss[i] ELSE f[i - 1] \o ss[i]]
  PROVE  f \in [1..n -> Seq(S)]
<1> DEFINE T == {k \in Nat : k + 1 <= n => f[k + 1] \in Seq(S)}
<1>1. f[1] = ss[1] /\ \A j \in 2..n : f[j] = f[j - 1] \o ss[j]
  <2>1. \A j \in 1..n : f[j] = IF j = 1 THEN ss[j] ELSE f[j - 1] \o ss[j]
    BY Zenon
  <2>2. 1 \in 1..n /\ \A j \in 2..n : j \in 1..n /\ j # 1
    OBVIOUS
  <2> QED BY <2>1, <2>2, Zenon
<1>2. 0 \in T
  BY <1>1
<1>3. ASSUME NEW k \in Nat, k \in T PROVE k + 1 \in T
  <2> SUFFICES ASSUME (k + 1) + 1 <= n PROVE f[(k + 1) + 1] \in Seq(S)
    OBVIOUS
  <2>1. k + 2 \in 2..n /\ k + 2 \in 1..n /\ f[k + 1] \in Seq(S) /\ (k + 2) - 1 = k + 1
    BY <1>3
  <2>2. f[k + 2] = f[k + 1] \o ss[k + 2] /\ ss[k + 2] \in Seq(S)
    BY <1>1, <2>1, Zenon
  <2>3. f[k + 1] \o ss[k + 2] \in Seq(S)
    BY <2>1, <2>2, ConcatProperties, Zenon
  <2>4. (k + 1) + 1 = k + 2
    OBVIOUS
  <2> QED BY <2>2, <2>3, <2>4, Zenon
<1>4. \A k \in Nat : k \in T
  <2> HIDE DEF T
  <2> QED BY <1>2, <1>3, SetInduction
<1>5. ASSUME NEW j \in 1..n PROVE f[j] \in Seq(S)
  <2>1. j - 1 \in Nat /\ (j - 1) + 1 = j
    OBVIOUS
  <2>2. j - 1 \in T
    BY <1>4, <2>1
  <2> QED BY <2>1, <2>2
<1>6. f = [i \in 1..n |-> f[i]]
  BY Zenon
<1> QED BY <1>5, <1>6

Flattens(S, ss, f) ==
  /\ f \in [1..Len(ss) -> Seq(S)]
  /\ \A i \in 1..Len(ss) : f[i] = IF i = 1 THEN ss[i] ELSE f[i - 1] \o ss[i]

\* So is the one that joins the first j of a sequence of sequences.
LEMMA FlattenDefined ==
  ASSUME NEW S, NEW ss, NEW n \in Nat, n >= 1, n = Len(ss),
         \A j \in 1..n : ss[j] \in Seq(S)
  PROVE  \E f : Flattens(S, ss, f)
<1> DEFINE D == [j \in 1..n |-> [v \in Seq(S) |-> v \o ss[j]]]
<1>1. ASSUME NEW j \in 1..n, NEW v \in Seq(S)
      PROVE  D[j][v] = v \o ss[j] /\ D[j][v] \in Seq(S)
  <2>1. D[j][v] = v \o ss[j]
    BY Zenon
  <2>2. v \o ss[j] \in Seq(S)
    BY ConcatProperties, Zenon
  <2> QED BY <2>1, <2>2, Zenon
<1> HIDE DEF D
<1>2. ss[1] \in Seq(S) /\ \A v \in Seq(S), j \in (1 + 1)..n : D[j][v] \in Seq(S)
  <2>1. 1 \in 1..n /\ \A j \in (1 + 1)..n : j \in 1..n
    OBVIOUS
  <2> QED BY <1>1, <2>1, Zenon
<1>3. PICK g \in [1..n -> Seq(S)] :
        \A j \in 1..n : g[j] = IF j = 1 THEN ss[1] ELSE D[j][g[j - 1]]
  <2>1. n \in Int /\ 1 \in Int /\ 1 <= n
    OBVIOUS
  <2>2. StepsIn(Seq(S), 1, n, D)
    BY <1>2, Zenon DEF StepsIn
  <2>3. Recursive(Seq(S), 1, n, ss[1], D)
    BY <1>2, <2>1, <2>2, RecursionExists
  <2> QED BY <2>3, Zenon DEF Recursive
<1>4. ASSUME NEW j \in 1..n
      PROVE  (IF j = 1 THEN ss[1] ELSE D[j][g[j - 1]])
               = IF j = 1 THEN ss[j] ELSE g[j - 1] \o ss[j]
  <2>1. j # 1 => j - 1 \in 1..n
    OBVIOUS
  <2>2. j # 1 => g[j - 1] \in Seq(S)
    BY <1>3, <2>1, Zenon
  <2> QED BY <1>1, <2>2, Zenon
<1> QED BY <1>3, <1>4, Zenon DEF Flattens

(* FlattenSeq puts one sequence after the other.                           *)
LEMMA FlattenRecursion ==
  ASSUME NEW S, NEW ss \in Seq(Seq(S)), ss # <<>>
  PROVE  \E f : Flattens(S, ss, f) /\ FlattenSeq(ss) = f[Len(ss)]
<1> DEFINE F(g) == [i \in 1..Len(ss) |-> IF i = 1 THEN ss[i] ELSE g[i - 1] \o ss[i]]
           f == CHOOSE h : h = F(h)
<1>1. Len(ss) \in Nat /\ Len(ss) >= 1 /\ \A j \in 1..Len(ss) : ss[j] \in Seq(S)
  OBVIOUS
<1>2. f = F(f)
  <2>1. PICK h : Flattens(S, ss, h)
    BY <1>1, FlattenDefined
  <2>2. h = F(h)
    BY <2>1, Zenon DEF Flattens
  <2> HIDE DEF F
  <2> QED BY <2>2, Zenon
<1>3. FlattenSeq(ss) = f[Len(ss)]
  <2>1. Len(ss) # 0
    BY <1>1
  <2> QED BY <2>1, Zenon DEF FlattenSeq
<1> HIDE DEF f
<1>4. f \in [1..Len(ss) -> Seq(S)]
  BY <1>1, <1>2, FlattenType, Zenon
<1>5. Flattens(S, ss, f)
  BY <1>2, <1>4, Zenon DEF Flattens
<1> QED BY <1>3, <1>5

\* What FlattenSeq joins is a sequence over the same set.
LEMMA FlattenIsSeq ==
  ASSUME NEW S, NEW ss \in Seq(Seq(S))
  PROVE  FlattenSeq(ss) \in Seq(S)
<1>1. CASE ss = <<>>
  <2>1. Len(ss) = 0 /\ ss \in Seq(S)
    BY <1>1
  <2> QED BY <2>1, Zenon DEF FlattenSeq
<1>2. CASE ss # <<>>
  <2>1. PICK f : Flattens(S, ss, f) /\ FlattenSeq(ss) = f[Len(ss)]
    BY <1>2, FlattenRecursion
  <2>2. Len(ss) \in 1..Len(ss)
    BY <1>2
  <2> QED BY <2>1, <2>2 DEF Flattens
<1> QED BY <1>1, <1>2
===============================================================================
