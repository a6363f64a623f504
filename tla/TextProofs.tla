----------------------------- MODULE TextProofs -----------------------------
(***************************************************************************)
(* What clients are shown of the persons that were sent, for any limits,   *)
(* bodies and terms.                                                       *)
(***************************************************************************)
EXTENDS Answers, PessoaProofs

-----------------------------------------------------------------------------
(* Tokens of a text.                                                       *)

\* What was appended is the last element, and the rest is in front of it.
LEMMA AppendEnds ==
  ASSUME NEW S, NEW s \in Seq(S), NEW e \in S
  PROVE  Front(Append(s, e)) = s /\ Last(Append(s, e)) = e
<1> DEFINE t == Append(s, e)
           n == Len(s)
<1>1. /\ t \in Seq(S) /\ Len(t) = n + 1 /\ n \in Nat
      /\ \A i \in 1..n : t[i] = s[i]
      /\ t[n + 1] = e
  BY AppendProperties
<1> HIDE DEF t
<1>2. Last(t) = e
  BY <1>1 DEF Last
<1>3. SubSeq(t, 1, n) = s
  <2> DEFINE u == SubSeq(t, 1, n)
  <2>1. \A i \in 1..n : t[i] \in S
    BY <1>1
  <2>2. /\ u \in Seq(S) /\ Len(u) = (IF 1 <= n THEN n - 1 + 1 ELSE 0)
        /\ \A i \in 1..(n - 1 + 1) : u[i] = t[1 + i - 1]
    BY <1>1, <2>1, SubSeqProperties
  <2> HIDE DEF u
  <2>3. Len(u) = n
    BY <1>1, <2>2
  <2>4. ASSUME NEW i \in 1..n PROVE u[i] = s[i]
    <3>1. i \in 1..(n - 1 + 1) /\ 1 + i - 1 = i
      BY <1>1
    <3> QED BY <1>1, <2>2, <3>1
  <2>5. u = s
    BY <1>1, <2>2, <2>3, <2>4, SeqEqual
  <2> QED BY <2>5 DEF u
<1>4. Front(t) = s
  <2>1. (n + 1) - 1 = n
    BY <1>1
  <2> QED BY <1>1, <1>3, <2>1, Zenon DEF Front
<1> QED BY <1>2, <1>4 DEF t

Delimiters == {Quote, Comma}

\* What the next character makes of the tokens before it.
NextTokens(text, i, v) ==
  IF text[i] \in Delimiters THEN v
  ELSE IF i # 1 /\ text[i - 1] \notin Delimiters
  THEN Append(Front(v), Append(Last(v), text[i]))
  ELSE Append(v, <<text[i]>>)

\* A character of a token continues the last one or begins another.
LEMMA NextTokensCases ==
  ASSUME NEW text, NEW i, NEW v
  PROVE  /\ text[i] \in Delimiters => NextTokens(text, i, v) = v
         /\ text[i] \notin Delimiters /\ i # 1 /\ text[i - 1] \notin Delimiters =>
              NextTokens(text, i, v) = Append(Front(v), Append(Last(v), text[i]))
         /\ text[i] \notin Delimiters /\ (i = 1 \/ text[i - 1] \in Delimiters) =>
              NextTokens(text, i, v) = Append(v, <<text[i]>>)
  BY SMT DEF NextTokens

ReadsTokens(text, f) ==
  f[0] = <<>> /\ \A i \in 1..Len(text) : f[i] = NextTokens(text, i, f[i - 1])

\* One more character for the last text of a list.
LEMMA LastGrows ==
  ASSUME NEW S, NEW v \in Seq(Seq(S)), v # <<>>, NEW c \in S
  PROVE  /\ Append(Front(v), Append(Last(v), c)) \in Seq(Seq(S))
         /\ Append(Front(v), Append(Last(v), c)) # <<>>
<1> DEFINE Q == Seq(S)
           n == Len(v)
           x == Front(v)
           y == Append(Last(v), c)
<1>1. n \in Nat /\ n >= 1 /\ \A i \in 1..n : v[i] \in Q
  <2>1. v \in Seq(Q)
    OBVIOUS
  <2> HIDE DEF Q
  <2> QED BY <2>1
<1>2. Last(v) \in Seq(S)
  BY <1>1 DEF Last
<1>3. y \in Q
  BY <1>2, AppendProperties
<1>4. x \in Seq(Q)
  <2>1. \A i \in 1..(n - 1) : v[i] \in Q
    BY <1>1
  <2>2. 1 \in Int /\ n - 1 \in Int
    BY <1>1
  <2> HIDE DEF Q, n
  <2>3. SubSeq(v, 1, n - 1) \in Seq(Q)
    BY <2>1, <2>2, SubSeqProperties
  <2> QED BY <2>3, Zenon DEF Front, n
<1> HIDE DEF x, y, Q
<1>5. Append(x, y) \in Seq(Q) /\ Append(x, y) # <<>>
  BY <1>3, <1>4, AppendProperties
<1> QED BY <1>5, Zenon DEF x, y, Q

\* The recursion of Tokens exists: some function takes every step of it, and
\* the tokens are its value at the end of the text.
LEMMA TokensRecursion ==
  ASSUME NEW S, NEW text \in Seq(S)
  PROVE  \E f : ReadsTokens(text, f) /\ Tokens(text) = f[Len(text)]
<1> DEFINE n == Len(text)
           in(i) == i \in DOMAIN text /\ text[i] \notin {Quote, Comma}
           F(h) == [i \in 0..n |->
                      IF i = 0 THEN <<>>
                      ELSE IF ~in(i) THEN h[i - 1]
                      ELSE IF in(i - 1) THEN Append(Front(h[i - 1]), Append(Last(h[i - 1]), text[i]))
                      ELSE Append(h[i - 1], <<text[i]>>)]
           V == Seq(Seq(S))
           N(i, v) == IF v = <<>> THEN <<<<text[i]>>>>
                      ELSE Append(Front(v), Append(Last(v), text[i]))
           D == [i \in 1..n |-> [v \in V |->
                   IF ~in(i) THEN v
                   ELSE IF in(i - 1) THEN N(i, v) ELSE Append(v, <<text[i]>>)]]
           f == CHOOSE h : h = F(h)
<1>1. n \in Nat /\ DOMAIN text = 1..n /\ \A i \in 1..n : text[i] \in S
  BY LenProperties, ElementOfSeq
<1> HIDE DEF n
<1>3. ASSUME NEW v \in V, NEW c \in S PROVE Append(v, <<c>>) \in V /\ Append(v, <<c>>) # <<>>
  <2>1. <<c>> \in Seq(S)
    OBVIOUS
  <2> QED BY <2>1, AppendProperties
<1>5. ASSUME NEW i \in 1..n, NEW v \in V
      PROVE  N(i, v) \in V /\ N(i, v) # <<>> /\ D[i][v] \in V /\ (in(i) => D[i][v] # <<>>)
  <2>1. text[i] \in S
    BY <1>1
  <2>2. <<<<text[i]>>>> \in V /\ <<<<text[i]>>>> # <<>>
    BY <2>1
  <2>3. N(i, v) \in V /\ N(i, v) # <<>>
    BY <2>1, <2>2, LastGrows, Zenon
  <2> HIDE DEF V
  <2> HIDE DEF N
  <2>4. D[i][v] = IF ~in(i) THEN v ELSE IF in(i - 1) THEN N(i, v) ELSE Append(v, <<text[i]>>)
    BY Zenon
  <2> HIDE DEF D
  <2> QED BY <1>3, <2>1, <2>3, <2>4, Zenon
<1>6. PICK g \in [0..n -> V] : \A j \in 0..n : g[j] = IF j = 0 THEN <<>> ELSE D[j][g[j - 1]]
  <2>1. StepsIn(V, 0, n, D)
    <3>1. \A j \in (0 + 1)..n : j \in 1..n
      OBVIOUS
    <3> HIDE DEF V, D
    <3> QED BY <1>5, <3>1, Zenon DEF StepsIn
  <2>2. <<>> \in V /\ 0 \in Int /\ n \in Int /\ 0 <= n
    BY <1>1
  <2> HIDE DEF V, D
  <2>3. Recursive(V, 0, n, <<>>, D)
    BY <2>1, <2>2, RecursionExists
  <2> QED BY <2>3, Zenon DEF Recursive
<1>7. ASSUME NEW j \in 1..n, in(j) PROVE g[j] # <<>>
  <2>1. j \in 0..n /\ j # 0 /\ j - 1 \in 0..n
    BY <1>1
  <2> HIDE DEF V, D, in
  <2>2. g[j - 1] \in V /\ g[j] = D[j][g[j - 1]]
    BY <1>6, <2>1
  <2> QED BY <1>5, <1>7, <2>2, Zenon
<1>8. g = F(g)
  <2>1. ASSUME NEW i \in 0..n
        PROVE  g[i] = IF i = 0 THEN <<>>
                      ELSE IF ~in(i) THEN g[i - 1]
                      ELSE IF in(i - 1) THEN Append(Front(g[i - 1]), Append(Last(g[i - 1]), text[i]))
                      ELSE Append(g[i - 1], <<text[i]>>)
    <3>1. CASE i = 0
      BY <1>6, <3>1
    <3>2. CASE i # 0
      <4>1. i \in 1..n /\ i - 1 \in 0..n
        BY <1>1, <3>2
      <4>2. in(i - 1) => i - 1 \in 1..n
        BY <1>1
      <4> HIDE DEF V, in
      <4>3. g[i - 1] \in V /\ g[i] = D[i][g[i - 1]]
        <5> HIDE DEF D
        <5> QED BY <1>6, <3>2, <4>1
      <4>4. D[i][g[i - 1]] = IF ~in(i) THEN g[i - 1]
                             ELSE IF in(i - 1) THEN N(i, g[i - 1])
                             ELSE Append(g[i - 1], <<text[i]>>)
        <5> HIDE DEF N
        <5> QED BY <4>1, <4>3, Zenon
      <4>5. in(i - 1) => g[i - 1] # <<>>
        BY <1>7, <4>2
      <4>6. in(i - 1) => N(i, g[i - 1]) = Append(Front(g[i - 1]), Append(Last(g[i - 1]), text[i]))
        BY <4>5, Zenon
      <4> HIDE DEF D, N
      <4> QED BY <3>2, <4>3, <4>4, <4>6, Zenon
    <3> QED BY <3>1, <3>2
  <2>2. g = [i \in 0..n |-> g[i]]
    BY <1>6
  <2> HIDE DEF in
  <2> QED BY <2>1, <2>2, Zenon
<1>9. f = F(f)
  <2> HIDE DEF F
  <2> QED BY <1>8, Zenon
<1>10. Tokens(text) = f[n]
  BY Zenon DEF Tokens, n
<1> HIDE DEF f
<1>11. ReadsTokens(text, f)
  <2>1. f[0] = <<>>
    <3>1. 0 \in 0..n
      BY <1>1
    <3> HIDE DEF in
    <3> QED BY <1>9, <3>1, Zenon
  <2>2. ASSUME NEW i \in 1..n PROVE f[i] = NextTokens(text, i, f[i - 1])
    <3>1. i \in 0..n /\ i # 0 /\ i \in DOMAIN text /\ (i - 1 \in DOMAIN text <=> i # 1)
      BY <1>1
    <3>2. f[i] = IF i = 0 THEN <<>>
                 ELSE IF ~in(i) THEN f[i - 1]
                 ELSE IF in(i - 1) THEN Append(Front(f[i - 1]), Append(Last(f[i - 1]), text[i]))
                 ELSE Append(f[i - 1], <<text[i]>>)
      <4> HIDE DEF in
      <4> QED BY <1>9, <3>1, Zenon
    <3>3. in(i) <=> text[i] \notin Delimiters
      BY <3>1, Zenon DEF Delimiters
    <3>4. in(i - 1) <=> i # 1 /\ text[i - 1] \notin Delimiters
      BY <3>1, Zenon DEF Delimiters
    <3> HIDE DEF in
    <3> QED BY <3>1, <3>2, <3>3, <3>4, Zenon DEF NextTokens
  <2> QED BY <2>1, <2>2, Zenon DEF ReadsTokens, n
<1> QED BY <1>10, <1>11, Zenon DEF n

-----------------------------------------------------------------------------
(* Where parse_stack_tostr prints each item.                               *)

\* An item with its quotation marks and its comma, behind the first p characters.
ItemHere(text, p, item) ==
  /\ text[p + 1] = Quote
  /\ \A o \in 1..Len(item) : text[p + 1 + o] = item[o]
  /\ text[p + 2 + Len(item)] = Quote /\ text[p + 3 + Len(item)] = Comma

\* One item as parse_stack_tostr prints it (pessoa.c:28): quoted, then a comma.
LEMMA QuotedIs ==
  ASSUME NEW S, Quote \in S, Comma \in S, NEW item \in Seq(S)
  PROVE  /\ Quoted(item) \in Seq(S) /\ Len(Quoted(item)) = Len(item) + 3
         /\ ItemHere(Quoted(item), 0, item)
<1> DEFINE u == <<Quote>> \o item
           c == <<Quote, Comma>>
           q == u \o c
           n == Len(item)
<1>1. n \in Nat
  OBVIOUS
<1>2. c \in Seq(S) /\ Len(c) = 2 /\ c[1] = Quote /\ c[2] = Comma
  OBVIOUS
<1>3. /\ u \in Seq(S) /\ Len(u) = 1 + n
      /\ u[1] = Quote /\ \A o \in 1..n : u[1 + o] = item[o]
  <2>1. <<Quote>> \in Seq(S) /\ Len(<<Quote>>) = 1 /\ <<Quote>>[1] = Quote
    OBVIOUS
  <2>2. /\ u \in Seq(S) /\ Len(u) = 1 + n
        /\ \A i \in 1..(1 + n) : u[i] = IF i <= 1 THEN <<Quote>>[i] ELSE item[i - 1]
    BY <2>1, ConcatProperties
  <2> HIDE DEF u
  <2>3. u[1] = Quote
    BY <1>1, <2>1, <2>2
  <2>4. ASSUME NEW o \in 1..n PROVE u[1 + o] = item[o]
    <3>1. 1 + o \in 1..(1 + n) /\ ~(1 + o <= 1) /\ (1 + o) - 1 = o
      BY <1>1
    <3> QED BY <2>2, <3>1, Zenon
  <2> QED BY <2>2, <2>3, <2>4
<1> HIDE DEF u, c, n
<1>4. /\ q \in Seq(S) /\ Len(q) = (1 + n) + 2
      /\ \A i \in 1..((1 + n) + 2) : q[i] = IF i <= 1 + n THEN u[i] ELSE c[i - (1 + n)]
  <2>1. /\ q \in Seq(S) /\ Len(q) = Len(u) + Len(c)
        /\ \A i \in 1..(Len(u) + Len(c)) : q[i] = IF i <= Len(u) THEN u[i] ELSE c[i - Len(u)]
    BY <1>2, <1>3, ConcatProperties
  <2> QED BY <1>2, <1>3, <2>1, Zenon
<1> HIDE DEF q
<1>5. q[1] = Quote
  <2>1. 1 \in 1..((1 + n) + 2) /\ 1 <= 1 + n
    BY <1>1
  <2> QED BY <1>3, <1>4, <2>1, Zenon
<1>6. ASSUME NEW o \in 1..n PROVE q[1 + o] = item[o]
  <2>1. 1 + o \in 1..((1 + n) + 2) /\ 1 + o <= 1 + n
    BY <1>1
  <2> QED BY <1>3, <1>4, <2>1, Zenon
<1>7. q[2 + n] = Quote /\ q[3 + n] = Comma
  <2>1. /\ 2 + n \in 1..((1 + n) + 2) /\ ~(2 + n <= 1 + n) /\ (2 + n) - (1 + n) = 1
        /\ 3 + n \in 1..((1 + n) + 2) /\ ~(3 + n <= 1 + n) /\ (3 + n) - (1 + n) = 2
    BY <1>1
  <2> QED BY <1>2, <1>4, <2>1, Zenon
<1>8. (1 + n) + 2 = n + 3 /\ 0 + 1 = 1 /\ 0 + 2 + n = 2 + n /\ 0 + 3 + n = 3 + n
      /\ \A o \in 1..n : 0 + 1 + o = 1 + o
  BY <1>1
<1>9. ItemHere(q, 0, item)
  BY <1>5, <1>6, <1>7, <1>8, Zenon DEF ItemHere, n
<1> QED BY <1>4, <1>8, <1>9, Zenon DEF Quoted, q, u, c, n

\* It stays there whatever is printed behind it, and comes to lie behind what was
\* printed before it.
LEMMA ItemStays ==
  ASSUME NEW S, NEW x \in Seq(S), NEW y \in Seq(S), NEW p \in Nat, NEW item \in Seq(S),
         ItemHere(x, p, item), p + Len(item) + 3 <= Len(x)
  PROVE  ItemHere(x \o y, p, item)
<1> DEFINE z == x \o y
           n == Len(item)
<1>1. n \in Nat /\ Len(x) \in Nat /\ Len(y) \in Nat
  OBVIOUS
<1>2. \A i \in 1..Len(x) : z[i] = x[i]
  <2>1. \A i \in 1..(Len(x) + Len(y)) : z[i] = IF i <= Len(x) THEN x[i] ELSE y[i - Len(x)]
    BY ConcatProperties
  <2>2. \A i \in 1..Len(x) : i \in 1..(Len(x) + Len(y)) /\ i <= Len(x)
    BY <1>1
  <2> QED BY <2>1, <2>2, Zenon
<1> HIDE DEF z, n
<1>3. /\ p + 1 \in 1..Len(x) /\ p + 2 + n \in 1..Len(x) /\ p + 3 + n \in 1..Len(x)
      /\ \A o \in 1..n : p + 1 + o \in 1..Len(x)
  BY <1>1 DEF n
<1> QED BY <1>2, <1>3, Zenon DEF ItemHere, z, n

\* An item that is printed behind a text stands behind that text.
LEMMA ItemAppended ==
  ASSUME NEW S, Quote \in S, Comma \in S, NEW x \in Seq(S), NEW item \in Seq(S)
  PROVE  ItemHere(x \o Quoted(item), Len(x), item)
<1> DEFINE q == Quoted(item)
           z == x \o q
           n == Len(item)
           l == Len(x)
<1>1. n \in Nat /\ l \in Nat
  OBVIOUS
<1>2. q \in Seq(S) /\ Len(q) = n + 3 /\ ItemHere(q, 0, item)
  BY QuotedIs
<1> HIDE DEF q
<1>3. \A i \in 1..(n + 3) : z[l + i] = q[i]
  <2>1. \A i \in 1..(l + (n + 3)) : z[i] = IF i <= l THEN x[i] ELSE q[i - l]
    BY <1>2, ConcatProperties
  <2> HIDE DEF z, l, n
  <2>2. ASSUME NEW i \in 1..(n + 3) PROVE z[l + i] = q[i]
    <3>1. l + i \in 1..(l + (n + 3)) /\ ~(l + i <= l) /\ (l + i) - l = i
      BY <1>1
    <3> QED BY <2>1, <3>1, Zenon
  <2> QED BY <2>2
<1> HIDE DEF z, l, n
<1>4. q[1] = Quote /\ q[2 + n] = Quote /\ q[3 + n] = Comma /\ \A o \in 1..n : q[1 + o] = item[o]
  <2>1. 0 + 1 = 1 /\ 0 + 2 + n = 2 + n /\ 0 + 3 + n = 3 + n /\ \A o \in 1..n : 0 + 1 + o = 1 + o
    BY <1>1
  <2> QED BY <1>2, <2>1, Zenon DEF ItemHere, n
<1>5. /\ 1 \in 1..(n + 3) /\ 2 + n \in 1..(n + 3) /\ 3 + n \in 1..(n + 3)
      /\ l + (2 + n) = l + 2 + n /\ l + (3 + n) = l + 3 + n
      /\ \A o \in 1..n : 1 + o \in 1..(n + 3) /\ l + (1 + o) = l + 1 + o
  BY <1>1
<1> QED BY <1>3, <1>4, <1>5, Zenon DEF ItemHere, z, l, n, q

\* The items are printed one behind the other: at[t] characters come before the
\* one with the number t.
Placed(text, items, at) ==
  /\ at \in [1..(Len(items) + 1) -> Nat] /\ at[1] = 0 /\ Len(text) = at[Len(items) + 1]
  /\ \A t \in 1..Len(items) :
       /\ at[t + 1] = at[t] + Len(items[t]) + 3 /\ at[t + 1] <= Len(text)
       /\ ItemHere(text, at[t], items[t])

\* In a printed list every item has its place, one behind the other.
LEMMA PrintedPlaces ==
  ASSUME NEW S, Quote \in S, Comma \in S, NEW items \in Seq(Seq(S)), items # <<>>
  PROVE  Printed(items) \in Seq(S) /\ \E at : Placed(Printed(items), items, at)
<1> DEFINE n == Len(items)
           ss == [i \in DOMAIN items |-> Quoted(items[i])]
<1>1. n \in Nat /\ n >= 1 /\ DOMAIN items = 1..n /\ \A t \in 1..n : items[t] \in Seq(S)
  <2> DEFINE Q == Seq(S)
  <2>1. items \in Seq(Q)
    OBVIOUS
  <2> HIDE DEF Q
  <2>2. Len(items) \in Nat /\ Len(items) >= 1 /\ DOMAIN items = 1..Len(items)
        /\ \A i \in 1..Len(items) : items[i] \in Q
    BY <2>1
  <2> QED BY <2>2 DEF Q
<1>2. \A t \in 1..n : /\ ss[t] = Quoted(items[t]) /\ ss[t] \in Seq(S)
                      /\ Len(ss[t]) = Len(items[t]) + 3 /\ Len(items[t]) \in Nat
  <2> TAKE t \in 1..n
  <2>1. items[t] \in Seq(S) /\ t \in DOMAIN items
    BY <1>1
  <2> HIDE DEF n
  <2>2. ss[t] = Quoted(items[t])
    BY <2>1, Zenon
  <2> HIDE DEF ss
  <2>3. Quoted(items[t]) \in Seq(S) /\ Len(Quoted(items[t])) = Len(items[t]) + 3
    BY <2>1, QuotedIs
  <2> QED BY <2>1, <2>2, <2>3
<1>3. ss \in Seq(Seq(S)) /\ Len(ss) = n /\ ss # <<>>
  <2>1. ss = [j \in 1..n |-> ss[j]]
    BY <1>1, Zenon
  <2> HIDE DEF ss, n
  <2>2. ss \in Seq(Seq(S)) /\ Len(ss) = n
    BY <1>1, <1>2, <2>1, FunctionIsSeq
  <2>3. Len(<<>>) = 0
    OBVIOUS
  <2> QED BY <1>1, <2>2, <2>3
<1>4. Printed(items) = FlattenSeq(ss)
  BY Zenon DEF Printed
<1> HIDE DEF ss, n
<1>5. PICK f : Flattens(S, ss, f) /\ FlattenSeq(ss) = f[n]
  BY <1>3, FlattenRecursion
<1>6. /\ \A t \in 1..n : f[t] \in Seq(S)
      /\ \A t \in 1..n : f[t] = IF t = 1 THEN ss[t] ELSE f[t - 1] \o ss[t]
  <2>1. f \in [1..n -> Seq(S)] /\ \A t \in 1..n : f[t] = IF t = 1 THEN ss[t] ELSE f[t - 1] \o ss[t]
    BY <1>3, <1>5, Zenon DEF Flattens
  <2> QED BY <2>1, Zenon
<1> DEFINE at == [t \in 1..(n + 1) |-> IF t = 1 THEN 0 ELSE Len(f[t - 1])]
<1>7. /\ at[1] = 0
      /\ \A t \in 1..n : at[t + 1] = Len(f[t])
  <2>1. 1 \in 1..(n + 1) /\ \A t \in 1..n : t + 1 \in 1..(n + 1) /\ t + 1 # 1 /\ (t + 1) - 1 = t
    BY <1>1
  <2> QED BY <2>1, Zenon
<1>8. at \in [1..(n + 1) -> Nat]
  <2>1. ASSUME NEW t \in 1..(n + 1), t # 1 PROVE Len(f[t - 1]) \in Nat
    <3>1. t - 1 \in 1..n
      BY <1>1, <2>1
    <3> QED BY <1>6, <3>1
  <2> QED BY <2>1
<1> HIDE DEF at
<1>9. \A t \in 1..n : at[t + 1] = at[t] + Len(items[t]) + 3 /\ at[t] \in Nat
  <2> TAKE t \in 1..n
  <2>1. at[t] \in Nat
    <3>1. t \in 1..(n + 1)
      BY <1>1
    <3> QED BY <1>8, <3>1
  <2>2. Len(items[t]) \in Nat /\ Len(ss[t]) = Len(items[t]) + 3
    BY <1>2
  <2>3. CASE t = 1
    <3>1. at[t + 1] = Len(ss[t])
      BY <1>6, <1>7, <2>3, Zenon
    <3> QED BY <1>7, <2>2, <2>3, <3>1
  <2>4. CASE t # 1
    <3>1. t - 1 \in 1..n /\ (t - 1) + 1 = t
      BY <1>1, <2>4
    <3>2. f[t - 1] \in Seq(S) /\ ss[t] \in Seq(S) /\ f[t] = f[t - 1] \o ss[t]
      BY <1>2, <1>6, <2>4, <3>1, Zenon
    <3>3. Len(f[t]) = Len(f[t - 1]) + Len(ss[t])
      BY <3>2, ConcatProperties
    <3>4. at[t] = Len(f[t - 1]) /\ at[t + 1] = Len(f[t])
      BY <1>7, <3>1, Zenon
    <3>5. at[t + 1] = at[t] + (Len(items[t]) + 3)
      BY <2>2, <3>3, <3>4, Zenon
    <3>6. \A x, y \in Nat : x + (y + 3) = x + y + 3
      OBVIOUS
    <3> QED BY <2>1, <2>2, <3>5, <3>6, Zenon
  <2> QED BY <2>3, <2>4
<1> DEFINE Here(m) == \A t \in 1..m : at[t + 1] <= Len(f[m]) /\ ItemHere(f[m], at[t], items[t])
           T == {m \in Nat : m + 1 <= n => Here(m + 1)}
<1>10. 0 \in T
  <2>1. 1 \in 1..n
    BY <1>1
  <2>2. f[1] = Quoted(items[1]) /\ at[1] = 0 /\ at[1 + 1] = Len(f[1]) /\ items[1] \in Seq(S)
    BY <1>1, <1>2, <1>6, <1>7, <2>1, Zenon
  <2>3. ItemHere(f[1], at[1], items[1])
    BY <2>2, QuotedIs
  <2>4. Len(f[1]) \in Nat
    BY <1>6, <2>1
  <2>5. Here(1)
    <3>1. \A t \in 1..1 : t = 1
      OBVIOUS
    <3>2. at[1 + 1] <= Len(f[1])
      BY <2>2, <2>4
    <3> QED BY <2>3, <3>1, <3>2, Zenon
  <2> HIDE DEF Here
  <2>6. 0 + 1 = 1
    OBVIOUS
  <2> QED BY <2>5, <2>6
<1>11. ASSUME NEW m \in Nat, m \in T PROVE m + 1 \in T
  <2> SUFFICES ASSUME (m + 1) + 1 <= n PROVE Here((m + 1) + 1)
    OBVIOUS
  <2> DEFINE a == m + 1
             b == (m + 1) + 1
  <2>1. a \in 1..n /\ b \in 1..n /\ b # 1 /\ b - 1 = a /\ a + 1 = b
    BY <1>1
  <2>2. Here(a)
    BY <1>11, <2>1
  <2>3. /\ f[b] = f[a] \o ss[b] /\ f[a] \in Seq(S) /\ ss[b] \in Seq(S) /\ f[b] \in Seq(S)
        /\ ss[b] = Quoted(items[b]) /\ at[b] = Len(f[a]) /\ at[b + 1] = Len(f[b])
        /\ items[b] \in Seq(S)
    <3> HIDE DEF a, b
    <3> QED BY <1>1, <1>2, <1>6, <1>7, <2>1, Zenon
  <2>4. Len(f[b]) = Len(f[a]) + Len(ss[b]) /\ Len(f[a]) \in Nat /\ Len(ss[b]) \in Nat
    <3> HIDE DEF a, b
    <3> QED BY <2>3, ConcatProperties
  <2>5. ASSUME NEW t \in 1..b PROVE at[t + 1] <= Len(f[b]) /\ ItemHere(f[b], at[t], items[t])
    <3>1. CASE t = b
      <4> HIDE DEF a, b
      <4>1. ItemHere(f[b], at[b], items[b])
        BY <2>3, ItemAppended
      <4>2. at[b + 1] <= Len(f[b])
        BY <2>3, <2>4
      <4> QED BY <3>1, <4>1, <4>2
    <3>2. CASE t # b
      <4>1. t \in 1..a /\ t \in 1..n
        BY <1>1, <2>1, <3>2
      <4>2. at[t + 1] <= Len(f[a]) /\ ItemHere(f[a], at[t], items[t])
        <5> HIDE DEF a, b
        <5> QED BY <2>2, <4>1, Zenon
      <4>3. at[t + 1] = at[t] + Len(items[t]) + 3 /\ at[t] \in Nat /\ items[t] \in Seq(S)
            /\ Len(items[t]) \in Nat
        BY <1>1, <1>2, <1>9, <4>1
      <4> HIDE DEF a, b
      <4>4. at[t] + Len(items[t]) + 3 <= Len(f[a])
        BY <4>2, <4>3
      <4>5. ItemHere(f[a] \o ss[b], at[t], items[t])
        <5> DEFINE x == f[a]
                   y == ss[b]
                   p == at[t]
                   i == items[t]
        <5>1. x \in Seq(S) /\ y \in Seq(S) /\ p \in Nat /\ i \in Seq(S) /\ ItemHere(x, p, i)
              /\ p + Len(i) + 3 <= Len(x)
          BY <2>3, <4>2, <4>3, <4>4
        <5> HIDE DEF x, y, p, i
        <5>2. ItemHere(x \o y, p, i)
          BY <5>1, ItemStays
        <5> QED BY <5>2, Zenon DEF x, y, p, i
      <4>6. at[t + 1] <= Len(f[b])
        <5>1. \A x, y, z \in Nat : z <= x => z <= x + y
          OBVIOUS
        <5>2. at[t + 1] \in Nat
          BY <4>3
        <5> QED BY <2>4, <4>2, <5>1, <5>2, Zenon
      <4> QED BY <2>3, <4>5, <4>6
    <3> QED BY <3>1, <3>2
  <2> QED BY <2>5
<1>12. \A m \in Nat : m \in T
  <2> HIDE DEF T
  <2> QED BY <1>10, <1>11, SetInduction
<1>13. Here(n)
  <2>1. n - 1 \in Nat /\ (n - 1) + 1 = n /\ n <= n
    BY <1>1
  <2>2. n - 1 \in T
    BY <1>12, <2>1
  <2> HIDE DEF Here
  <2> QED BY <2>1, <2>2
<1>14. n \in 1..n
  BY <1>1
<1>15. Placed(f[n], items, at)
  BY <1>7, <1>8, <1>9, <1>13, <1>14, Zenon DEF Placed, n
<1> QED BY <1>4, <1>5, <1>6, <1>14, <1>15, Zenon

-----------------------------------------------------------------------------
(* strtok_r takes apart what parse_stack_tostr joined.                     *)

\* The first elements of a sequence, one more at a time.
LEMMA PrefixStep ==
  ASSUME NEW S, NEW s \in Seq(S)
  PROVE  /\ SubSeq(s, 1, 0) = <<>> /\ SubSeq(s, 1, Len(s)) = s
         /\ \A n \in 1..Len(s) : /\ SubSeq(s, 1, n - 1) \in Seq(S)
                                 /\ SubSeq(s, 1, n) = Append(SubSeq(s, 1, n - 1), s[n])
<1>1. SubSeq(s, 1, 0) = <<>>
  BY SubSeqEmpty
<1>2. SubSeq(s, 1, Len(s)) = s
  BY SubSeqFull
<1>3. ASSUME NEW n \in 1..Len(s)
      PROVE  /\ SubSeq(s, 1, n - 1) \in Seq(S)
             /\ SubSeq(s, 1, n) = Append(SubSeq(s, 1, n - 1), s[n])
  <2>1. 1 \in 1..Len(s) /\ n \in 1..n /\ n - 1 \in Int /\ s[n] \in S
    BY ElementOfSeq, LenProperties
  <2>2. \A i \in 1..(n - 1) : s[i] \in S
    BY ElementOfSeq, LenProperties
  <2>3. SubSeq(s, 1, n - 1) \in Seq(S)
    BY <2>1, <2>2, SubSeqProperties
  <2>4. SubSeq(s, 1, n) = SubSeq(s, 1, n - 1) \o <<s[n]>>
    BY <2>1, SubSeqRecursiveSecond
  <2> DEFINE u == SubSeq(s, 1, n - 1)
             e == s[n]
  <2>5. u \in Seq(S) /\ e \in S
    BY <2>1, <2>3
  <2> HIDE DEF u, e
  <2>6. Append(u, e) = u \o <<e>>
    BY <2>5, AppendIsConcat
  <2> QED BY <2>3, <2>4, <2>6, Zenon DEF u, e
<1> QED BY <1>1, <1>2, <1>3

\* Characters between delimiters that are no delimiters are one more token.
LEMMA TokenRead ==
  ASSUME NEW S, NEW text \in Seq(S), NEW f, ReadsTokens(text, f),
         NEW p \in Nat, NEW item \in Seq(S), item # <<>>, p + 1 + Len(item) <= Len(text),
         text[p + 1] \in Delimiters,
         \A o \in 1..Len(item) : text[p + 1 + o] = item[o] /\ item[o] \notin Delimiters,
         NEW base \in Seq(Seq(S)), f[p + 1] = base
  PROVE  f[p + 1 + Len(item)] = Append(base, item)
<1> DEFINE n == Len(item)
           b == p + 1
           P(o) == SubSeq(item, 1, o)
           T == {m \in Nat : m + 1 <= n => f[b + (m + 1)] = Append(base, P(m + 1))}
<1>1. n \in Nat /\ n >= 1 /\ b \in Nat /\ b >= 1 /\ b + n <= Len(text) /\ Len(text) \in Nat
  BY LenProperties, EmptySeq
<1>2. /\ P(0) = <<>> /\ P(n) = item
      /\ \A o \in 1..n : P(o - 1) \in Seq(S) /\ P(o) = Append(P(o - 1), item[o]) /\ item[o] \in S
  <2>1. \A o \in 1..n : item[o] \in S
    BY ElementOfSeq
  <2> QED BY <2>1, PrefixStep, Zenon
<1>3. ASSUME NEW o \in 1..n
      PROVE  /\ f[b + o] = NextTokens(text, b + o, f[(b + o) - 1])
             /\ text[b + o] = item[o] /\ item[o] \notin Delimiters /\ b + o # 1
  <2>1. b + o \in 1..Len(text) /\ b + o # 1 /\ p + 1 + o = b + o
    BY <1>1
  <2>2. f[b + o] = NextTokens(text, b + o, f[(b + o) - 1])
    BY <2>1, Zenon DEF ReadsTokens
  <2> HIDE DEF n, b
  <2> QED BY <2>1, <2>2, Zenon DEF n
<1> HIDE DEF n, b, P
<1>4. 0 \in T
  <2>1. 1 \in 1..n /\ (b + 1) - 1 = b /\ 0 + 1 = 1 /\ 1 - 1 = 0
    BY <1>1
  <2>2. f[b + 1] = NextTokens(text, b + 1, base) /\ text[b + 1] = item[1] /\ item[1] \notin Delimiters
        /\ text[(b + 1) - 1] \in Delimiters /\ b + 1 # 1
    BY <1>3, <2>1, Zenon DEF b
  <2>3. f[b + 1] = Append(base, <<item[1]>>)
    <3>1. text[b + 1] \notin Delimiters
      BY <2>2, Zenon
    <3>2. NextTokens(text, b + 1, base) = Append(base, <<text[b + 1]>>)
      BY <2>2, <3>1, NextTokensCases, ZenonT(60)
    <3> QED BY <2>2, <3>2, Zenon
  <2>4. P(1) = <<item[1]>>
    <3>1. P(1) = Append(<<>>, item[1])
      BY <1>2, <2>1, Zenon
    <3> QED BY <3>1
  <2> QED BY <2>1, <2>3, <2>4, Zenon
<1>5. ASSUME NEW m \in Nat, m \in T PROVE m + 1 \in T
  <2> DEFINE a == m + 1
             c == (m + 1) + 1
  <2> SUFFICES ASSUME c <= n PROVE f[b + c] = Append(base, P(c))
    OBVIOUS
  <2>1. a \in 1..n /\ c \in 1..n /\ c - 1 = a /\ (b + c) - 1 = b + a
    BY <1>1
  <2>2. f[b + a] = Append(base, P(a))
    BY <1>5, <2>1
  <2> HIDE DEF a, c
  <2>3. /\ f[b + c] = NextTokens(text, b + c, f[b + a]) /\ text[b + c] = item[c]
        /\ item[c] \notin Delimiters /\ b + c # 1 /\ text[(b + c) - 1] \notin Delimiters
    BY <1>3, <2>1, ZenonT(60)
  <2>4. P(a) \in Seq(S) /\ P(c) = Append(P(a), item[c])
    BY <1>2, <2>1, Zenon
  <2>5. Front(Append(base, P(a))) = base /\ Last(Append(base, P(a))) = P(a)
    <3> DEFINE Q == Seq(S)
               e == P(a)
    <3>1. base \in Seq(Q) /\ e \in Q
      BY <2>4
    <3> HIDE DEF Q, e
    <3>2. Front(Append(base, e)) = base /\ Last(Append(base, e)) = e
      BY <3>1, AppendEnds
    <3> QED BY <3>2 DEF e
  <2>6. f[b + c] = Append(Front(f[b + a]), Append(Last(f[b + a]), text[b + c]))
    <3>1. text[b + c] \notin Delimiters
      BY <2>3, Zenon
    <3>2. NextTokens(text, b + c, f[b + a]) = Append(Front(f[b + a]), Append(Last(f[b + a]), text[b + c]))
      BY <2>3, <3>1, NextTokensCases, Zenon
    <3> QED BY <2>3, <3>2, Zenon
  <2>7. f[b + c] = Append(base, Append(P(a), item[c]))
    BY <2>2, <2>3, <2>5, <2>6, Zenon
  <2> QED BY <2>4, <2>7, Zenon
<1>6. \A m \in Nat : m \in T
  <2> HIDE DEF T
  <2> QED BY <1>4, <1>5, SetInduction
<1>7. n - 1 \in Nat /\ (n - 1) + 1 = n /\ n <= n
  BY <1>1
<1>8. n - 1 \in T
  BY <1>6, <1>7
<1>9. f[b + n] = Append(base, P(n))
  BY <1>7, <1>8
<1> QED BY <1>2, <1>9, Zenon DEF b, n

\* A printed list without the comma behind it.
LEMMA StackTextIs ==
  ASSUME NEW S, Quote \in S, Comma \in S, NEW items \in Seq(Seq(S))
  PROVE  /\ StackText(items) \in Seq(S)
         /\ items # <<>> =>
              /\ Len(StackText(items)) = Len(Printed(items)) - 1
              /\ \A i \in 1..(Len(Printed(items)) - 1) : StackText(items)[i] = Printed(items)[i]
<1>1. CASE items = <<>>
  <2>1. StackText(items) = <<>>
    BY <1>1, Zenon DEF StackText
  <2>2. <<>> \in Seq(S)
    OBVIOUS
  <2> QED BY <1>1, <2>1, <2>2, Zenon
<1>2. CASE items # <<>>
  <2> DEFINE x == Printed(items)
             n == Len(x)
  <2>1. x \in Seq(S) /\ \E at : Placed(x, items, at)
    BY <1>2, PrintedPlaces, Zenon
  <2>2. StackText(items) = SubSeq(x, 1, n - 1)
    BY <1>2, Zenon DEF StackText, Front
  <2> HIDE DEF x
  <2>3. n \in Nat /\ \A i \in 1..n : x[i] \in S
    BY <2>1, LenProperties, ElementOfSeq
  <2>4. n >= 1
    <3>1. PICK at : Placed(x, items, at)
      BY <2>1
    <3> DEFINE l == Len(items)
    <3>2. l \in Nat /\ l >= 1
      <4> DEFINE Q == Seq(S)
      <4>1. items \in Seq(Q)
        OBVIOUS
      <4> HIDE DEF Q
      <4> QED BY <1>2, <4>1
    <3>3. at \in [1..(l + 1) -> Nat] /\ n = at[l + 1] /\ at[l + 1] = at[l] + Len(items[l]) + 3
      <4>1. l \in 1..l
        BY <3>2
      <4> HIDE DEF l
      <4> QED BY <3>1, <4>1, Zenon DEF Placed, l
    <3>4. items[l] \in Seq(S) /\ l \in 1..(l + 1)
      BY <3>2
    <3>5. Len(items[l]) \in Nat /\ at[l] \in Nat
      <4> DEFINE e == items[l]
      <4>1. e \in Seq(S)
        BY <3>4
      <4> HIDE DEF e
      <4>2. Len(e) \in Nat
        BY <4>1
      <4> HIDE DEF l
      <4> QED BY <3>3, <3>4, <4>2 DEF e
    <3> HIDE DEF l
    <3> QED BY <3>3, <3>5
  <2>5. n - 1 \in Int /\ (1 <= n - 1 => n - 1 - 1 + 1 = n - 1) /\ (~(1 <= n - 1) => n - 1 = 0)
        /\ \A i \in 1..(n - 1) : x[i] \in S
    <3> HIDE DEF n
    <3>1. \A i \in 1..(n - 1) : i \in 1..n
      BY <2>3
    <3> QED BY <2>3, <2>4, <3>1
  <2> HIDE DEF n
  <2>6. /\ SubSeq(x, 1, n - 1) \in Seq(S)
        /\ Len(SubSeq(x, 1, n - 1)) = (IF 1 <= n - 1 THEN n - 1 - 1 + 1 ELSE 0)
        /\ \A i \in 1..(n - 1 - 1 + 1) : SubSeq(x, 1, n - 1)[i] = x[1 + i - 1]
    BY <2>5, SubSeqProperties
  <2>7. Len(SubSeq(x, 1, n - 1)) = n - 1
    BY <2>5, <2>6
  <2>8. ASSUME NEW i \in 1..(n - 1) PROVE SubSeq(x, 1, n - 1)[i] = x[i]
    <3>1. i \in 1..(n - 1 - 1 + 1) /\ 1 + i - 1 = i
      BY <2>5
    <3> QED BY <2>6, <3>1
  <2> QED BY <2>2, <2>6, <2>7, <2>8, Zenon DEF x, n
<1> QED BY <1>1, <1>2

\* Where the items are in the text of a list; the last one has no comma.
Listed(text, items, at) ==
  /\ at[1] = 0
  /\ \A t \in 1..Len(items) :
       /\ at[t] \in Nat /\ at[t] + 2 + Len(items[t]) <= Len(text)
       /\ text[at[t] + 1] = Quote /\ text[at[t] + 2 + Len(items[t])] = Quote
       /\ \A o \in 1..Len(items[t]) : text[at[t] + 1 + o] = items[t][o]
       /\ t = Len(items) => Len(text) = at[t] + 2 + Len(items[t])
       /\ t # Len(items) => /\ at[t + 1] = at[t] + 3 + Len(items[t])
                            /\ text[at[t + 1]] = Comma /\ at[t + 1] < Len(text)

\* A list of texts.
ListOver(S, items) ==
  /\ Quote \in S /\ Comma \in S /\ items \in Seq(Seq(S))
  /\ Len(items) \in Nat /\ DOMAIN items = 1..Len(items)
  /\ \A t \in 1..Len(items) : items[t] \in Seq(S) /\ Len(items[t]) \in Nat

\* A sequence of texts, with the set of their characters as a name.
LEMMA ListOverIs ==
  ASSUME NEW S, Quote \in S, Comma \in S, NEW items \in Seq(Seq(S))
  PROVE  ListOver(S, items)
<1> DEFINE Q == Seq(S)
<1>1. items \in Seq(Q) /\ \A q \in Q : Len(q) \in Nat
  OBVIOUS
<1> HIDE DEF Q
<1>2. Len(items) \in Nat /\ DOMAIN items = 1..Len(items) /\ \A t \in 1..Len(items) : items[t] \in Q
  BY <1>1
<1> QED BY <1>1, <1>2, Zenon DEF ListOver, Q

\* A list without its last comma (pessoa.c:32) still has every item in place.
LEMMA StackTextPlaces ==
  ASSUME NEW S, NEW items, ListOver(S, items), items # <<>>
  PROVE  /\ StackText(items) \in Seq(S) /\ Len(items) >= 1
         /\ \E at : Listed(StackText(items), items, at)
<1> DEFINE n == Len(items)
           x == Printed(items)
           y == StackText(items)
<1>1. /\ Quote \in S /\ Comma \in S /\ items \in Seq(Seq(S)) /\ n \in Nat
      /\ \A t \in 1..n : Len(items[t]) \in Nat
  BY Zenon DEF ListOver
<1>2. x \in Seq(S) /\ \E at : Placed(x, items, at)
  BY <1>1, PrintedPlaces, Zenon
<1>3. y \in Seq(S) /\ Len(y) = Len(x) - 1 /\ \A i \in 1..(Len(x) - 1) : y[i] = x[i]
  BY <1>1, StackTextIs, Zenon
<1>4. Len(x) \in Nat
  BY <1>2, LenProperties
<1>5. n >= 1
  BY <1>1, EmptySeq
<1> HIDE DEF x, y, n
<1>6. PICK at : Placed(x, items, at)
  BY <1>2
<1>7. \A t \in 1..(n + 1) : at[t] \in Nat
  <2>1. at \in [1..(n + 1) -> Nat]
    BY <1>6, Zenon DEF Placed, n
  <2> QED BY <2>1
<1>8. at[1] = 0 /\ Len(x) = at[n + 1]
  BY <1>6, Zenon DEF Placed, n
<1>9. \A t \in 1..n : at[t + 1] = at[t] + Len(items[t]) + 3 /\ at[t + 1] <= Len(x)
                      /\ ItemHere(x, at[t], items[t])
  BY <1>6, Zenon DEF Placed, n
<1>10. ASSUME NEW t \in 1..n
       PROVE  /\ at[t] \in Nat /\ at[t] + 2 + Len(items[t]) <= Len(y)
              /\ y[at[t] + 1] = Quote /\ y[at[t] + 2 + Len(items[t])] = Quote
              /\ \A o \in 1..Len(items[t]) : y[at[t] + 1 + o] = items[t][o]
              /\ t = n => Len(y) = at[t] + 2 + Len(items[t])
              /\ t # n => /\ at[t + 1] = at[t] + 3 + Len(items[t])
                          /\ y[at[t + 1]] = Comma /\ at[t + 1] < Len(y)
  <2> DEFINE p == at[t]
             l == Len(items[t])
             q == at[t + 1]
  <2>1. p \in Nat /\ l \in Nat /\ q = p + l + 3 /\ q <= Len(x) /\ ItemHere(x, p, items[t])
    <3>1. t \in 1..(n + 1)
      BY <1>1 DEF n
    <3> QED BY <1>1, <1>7, <1>9, <3>1, Zenon DEF n
  <2>2. /\ x[p + 1] = Quote /\ \A o \in 1..l : x[p + 1 + o] = items[t][o]
        /\ x[p + 2 + l] = Quote /\ x[p + 3 + l] = Comma
    BY <2>1, Zenon DEF ItemHere
  <2>3. t = n => Len(x) = q
    BY <1>8
  <2>4. ASSUME t # n PROVE q + 3 <= Len(x)
    <3>1. t + 1 \in 1..n /\ t + 1 \in 1..(n + 1)
      BY <1>1, <2>4 DEF n
    <3>2. at[(t + 1) + 1] = q + Len(items[t + 1]) + 3 /\ at[(t + 1) + 1] <= Len(x)
          /\ Len(items[t + 1]) \in Nat /\ q \in Nat
      BY <1>1, <1>7, <1>9, <3>1, Zenon DEF n
    <3> HIDE DEF q
    <3> QED BY <1>4, <3>2
  <2> HIDE DEF p, l, q
  <2>5. /\ p + 1 \in 1..(Len(x) - 1) /\ p + 2 + l \in 1..(Len(x) - 1)
        /\ \A o \in 1..l : p + 1 + o \in 1..(Len(x) - 1)
    BY <1>4, <2>1
  <2>6. y[p + 1] = Quote /\ y[p + 2 + l] = Quote /\ \A o \in 1..l : y[p + 1 + o] = items[t][o]
    BY <1>3, <2>2, <2>5, Zenon
  <2>7. p + 2 + l <= Len(y) /\ (t = n => Len(y) = p + 2 + l)
    BY <1>3, <1>4, <2>1, <2>3
  <2>8. ASSUME t # n PROVE q = p + 3 + l /\ q < Len(y) /\ q \in 1..(Len(x) - 1)
    <3>1. q + 3 <= Len(x)
      BY <2>4, <2>8
    <3> QED BY <1>3, <1>4, <2>1, <3>1
  <2>9. t # n => y[q] = Comma
    BY <1>3, <2>2, <2>8, Zenon
  <2> QED BY <2>1, <2>6, <2>7, <2>8, <2>9, Zenon DEF p, l, q
<1>11. Listed(y, items, at)
  BY <1>8, <1>10, Zenon DEF Listed, n
<1> QED BY <1>3, <1>5, <1>11, Zenon DEF y, n

\* Texts that are there and have no character that ends a token.
WholeItems(items) ==
  \A t \in 1..Len(items) :
    Len(items[t]) >= 1 /\ \A o \in 1..Len(items[t]) : items[t][o] \notin Delimiters

\* parse_str_tostack undoes parse_stack_tostr: the tokens of a printed list are
\* its items, when none of them is empty or has a delimiter in it.
LEMMA TokensOfList ==
  ASSUME NEW S, NEW items, ListOver(S, items), WholeItems(items)
  PROVE  Tokens(StackText(items)) = items
<1> DEFINE n == Len(items)
           text == StackText(items)
<1>0. Quote \in Delimiters /\ Comma \in Delimiters
  BY Zenon DEF Delimiters
<1>1. /\ Quote \in S /\ Comma \in S /\ items \in Seq(Seq(S)) /\ n \in Nat
      /\ \A t \in 1..n : items[t] \in Seq(S) /\ Len(items[t]) \in Nat
  BY Zenon DEF ListOver
<1>2. text \in Seq(S)
  BY <1>1, StackTextIs, Zenon
<1>3. PICK f : ReadsTokens(text, f) /\ Tokens(text) = f[Len(text)]
  BY <1>2, TokensRecursion, Zenon
<1>4. CASE items = <<>>
  <2>1. text = <<>> /\ Len(text) = 0
    <3>1. text = <<>>
      BY <1>4, Zenon DEF StackText
    <3> QED BY <3>1
  <2>2. f[0] = <<>>
    BY <1>3, Zenon DEF ReadsTokens
  <2> QED BY <1>3, <1>4, <2>1, <2>2, Zenon
<1>5. CASE items # <<>>
  <2>1. PICK at : Listed(text, items, at)
    BY <1>5, StackTextPlaces, Zenon
  <2>2. n >= 1 /\ Len(text) \in Nat
    BY <1>1, <1>2, <1>5, EmptySeq, LenProperties
  <2> HIDE DEF n, text
  <2>3. \A i \in 1..Len(text) : text[i] \in Delimiters => f[i] = f[i - 1]
    BY <1>3, NextTokensCases, Zenon DEF ReadsTokens
  <2>4. \A t \in 1..n :
          /\ at[t] \in Nat /\ at[t] + 2 + Len(items[t]) <= Len(text)
          /\ text[at[t] + 1] = Quote /\ text[at[t] + 2 + Len(items[t])] = Quote
          /\ \A o \in 1..Len(items[t]) : text[at[t] + 1 + o] = items[t][o]
          /\ t = n => Len(text) = at[t] + 2 + Len(items[t])
          /\ t # n => /\ at[t + 1] = at[t] + 3 + Len(items[t])
                      /\ text[at[t + 1]] = Comma /\ at[t + 1] < Len(text)
    BY <2>1, Zenon DEF Listed, n
  <2> DEFINE P(t) == SubSeq(items, 1, t)
             T == {m \in Nat : m + 1 <= n => f[at[m + 1] + 1] = P(m)}
  <2>5. /\ P(0) = <<>> /\ P(n) = items
        /\ \A t \in 1..n : P(t - 1) \in Seq(Seq(S)) /\ P(t) = Append(P(t - 1), items[t])
    <3> DEFINE Q == Seq(S)
    <3>1. items \in Seq(Q)
      BY <1>1
    <3> HIDE DEF Q
    <3>2. /\ P(0) = <<>> /\ P(n) = items
          /\ \A t \in 1..n : P(t - 1) \in Seq(Q) /\ P(t) = Append(P(t - 1), items[t])
      BY <3>1, PrefixStep, Zenon DEF n
    <3> QED BY <3>2, Zenon DEF Q
  <2> HIDE DEF P
  <2>6. ASSUME NEW t \in 1..n, f[at[t] + 1] = P(t - 1)
        PROVE  /\ f[at[t] + 2 + Len(items[t])] = P(t)
               /\ t # n => f[at[t + 1] + 1] = P(t)
    <3> DEFINE p == at[t]
               item == items[t]
               l == Len(item)
    <3>1. /\ p \in Nat /\ l \in Nat /\ p + 2 + l <= Len(text) /\ l >= 1 /\ item \in Seq(S)
          /\ text[p + 1] = Quote /\ text[p + 2 + l] = Quote
          /\ \A o \in 1..l : text[p + 1 + o] = item[o] /\ item[o] \notin Delimiters
      BY <1>1, <2>4, Zenon DEF WholeItems, n
    <3>2. P(t - 1) \in Seq(Seq(S)) /\ P(t) = Append(P(t - 1), item) /\ f[p + 1] = P(t - 1)
      BY <2>5, <2>6
    <3> HIDE DEF p, item
    <3>3. f[p + 1 + l] = P(t)
      <4>1. item # <<>>
        BY <3>1
      <4>2. p + 1 + l <= Len(text) /\ text[p + 1] \in Delimiters
        BY <1>0, <2>2, <3>1
      <4> HIDE DEF l
      <4>3. f[p + 1 + Len(item)] = Append(P(t - 1), item)
        <5> DEFINE base == P(t - 1)
        <5>1. base \in Seq(Seq(S)) /\ f[p + 1] = base
          BY <3>2
        <5> HIDE DEF base
        <5>2. \A o \in 1..Len(item) : text[p + 1 + o] = item[o] /\ item[o] \notin Delimiters
          BY <3>1, Zenon DEF l
        <5>3. p + 1 + Len(item) <= Len(text) /\ p \in Nat /\ item \in Seq(S)
          BY <3>1, <4>2, Zenon DEF l
        <5>4. text \in Seq(S) /\ ReadsTokens(text, f)
          BY <1>2, <1>3
        <5>5. f[p + 1 + Len(item)] = Append(base, item)
          BY <4>1, <4>2, <5>1, <5>2, <5>3, <5>4, TokenRead, SMTT(60)
        <5> QED BY <5>5, Zenon DEF base
      <4> QED BY <3>2, <4>3, Zenon DEF l
    <3>4. f[p + 2 + l] = P(t)
      <4>1. p + 2 + l \in 1..Len(text) /\ (p + 2 + l) - 1 = p + 1 + l
        BY <2>2, <3>1
      <4> HIDE DEF l
      <4> QED BY <1>0, <2>3, <3>1, <3>3, <4>1, Zenon
    <3>5. ASSUME t # n PROVE f[at[t + 1] + 1] = P(t)
      <4> DEFINE q == at[t + 1]
      <4>1. q = p + 3 + l /\ text[q] = Comma /\ q < Len(text)
        BY <2>4, <3>5, Zenon DEF p, item
      <4>2. text[q + 1] = Quote
        <5>1. t + 1 \in 1..n
          BY <1>1, <3>5 DEF n
        <5> QED BY <2>4, <5>1, Zenon
      <4> HIDE DEF q
      <4>3. q \in 1..Len(text) /\ q - 1 = p + 2 + l /\ q + 1 \in 1..Len(text) /\ (q + 1) - 1 = q
        <5>1. Len(text) \in Nat /\ l \in Nat /\ p \in Nat
          BY <2>2, <3>1
        <5> HIDE DEF l, p
        <5> QED BY <4>1, <5>1, SMTT(30)
      <4> HIDE DEF l
      <4>4. f[q] = P(t)
        BY <1>0, <2>3, <3>4, <4>1, <4>3, Zenon
      <4>5. f[q + 1] = P(t)
        BY <1>0, <2>3, <4>2, <4>3, <4>4, Zenon
      <4> QED BY <4>5 DEF q
    <3> QED BY <3>4, <3>5, Zenon DEF p, item
  <2>7. 0 \in T
    <3>1. 1 \in 1..n /\ 1 \in 1..Len(text) /\ 1 - 1 = 0 /\ 0 + 1 = 1 /\ at[1] = 0
      <4>1. at[1] = 0
        BY <2>1, Zenon DEF Listed
      <4>2. 1 \in 1..n
        BY <1>1, <2>2 DEF n
      <4>3. Len(items[1]) \in Nat /\ at[1] + 2 + Len(items[1]) <= Len(text)
        BY <1>1, <2>4, <4>2, Zenon DEF n
      <4> QED BY <2>2, <4>1, <4>2, <4>3
    <3>2. f[0] = <<>> /\ text[1] = Quote
      BY <1>3, <2>4, <3>1, Zenon DEF ReadsTokens
    <3>3. f[1] = <<>>
      BY <1>0, <2>3, <3>1, <3>2, Zenon
    <3> QED BY <2>5, <3>1, <3>3, Zenon
  <2>8. ASSUME NEW m \in Nat, m \in T PROVE m + 1 \in T
    <3> SUFFICES ASSUME (m + 1) + 1 <= n PROVE f[at[(m + 1) + 1] + 1] = P(m + 1)
      OBVIOUS
    <3>1. m + 1 \in 1..n /\ m + 1 # n /\ (m + 1) - 1 = m /\ m + 1 <= n
      BY <1>1 DEF n
    <3>2. f[at[m + 1] + 1] = P(m)
      BY <2>8, <3>1
    <3> QED BY <2>6, <3>1, <3>2, Zenon
  <2>9. \A m \in Nat : m \in T
    <3> HIDE DEF T
    <3> QED BY <2>7, <2>8, SetInduction
  <2>10. n - 1 \in Nat /\ (n - 1) + 1 = n /\ n <= n /\ n \in 1..n
    BY <1>1, <2>2 DEF n
  <2>11. f[at[n] + 1] = P(n - 1)
    <3>1. n - 1 \in T
      BY <2>9, <2>10
    <3> QED BY <2>10, <3>1
  <2>12. f[Len(text)] = P(n)
    BY <2>4, <2>6, <2>10, <2>11, Zenon
  <2> QED BY <1>3, <2>5, <2>12, Zenon DEF text
<1> QED BY <1>4, <1>5

-----------------------------------------------------------------------------
(* What the arrays hold of a body whose texts are within the limits.       *)

\* The texts that were read into one array before field n, by their fields.
Texts(fields, n, name) ==
  [i \in {j \in DOMAIN fields : j < n /\ fields[j].name = name /\ fields[j].type = "string"}
     |-> fields[i].val]

\* The items that were read into slot t of the stack.
ItemTexts(fields, n, t) ==
  [i \in {j \in DOMAIN fields : /\ j < n /\ fields[j].name = "stack" /\ fields[j].type = "array"
                                /\ t \in DOMAIN fields[j].val}
     |-> fields[i].val[t].val]

\* The last of the texts is in front, and every other character that is left is one
\* of another text, in its place.
Mixes(m, at, max, v) ==
  \A o \in 0..max :
    m[at + o] = Nul \/ \E i \in DOMAIN v : o + 1 \in DOMAIN v[i] /\ m[at + o] = v[i][o + 1]

IsLast(v, i) == \A j \in DOMAIN v : j <= i

ShowsLast(m, at, v) ==
  \A i \in DOMAIN v : IsLast(v, i) => \A o \in 0..(Len(v[i]) - 1) : m[at + o] = v[i][o + 1]

NamesKept ==
  pc # "idle" /\ InLimits(body) =>
    /\ Mixes(names, 0, ApelidoLen, Texts(body, k, "apelido"))
    /\ ShowsLast(names, 0, Texts(body, k, "apelido"))
    /\ Mixes(names, NomeAt, NomeLen, Texts(body, k, "nome"))
    /\ ShowsLast(names, NomeAt, Texts(body, k, "nome"))

\* A null as the stack clears the first item only.
ItemsKept ==
  pc # "idle" /\ InLimits(body) =>
    \A t \in 1..MaxItems :
      /\ Mixes(stack, ItemAt(t), ItemLen, ItemTexts(body, k, t))
      /\ (t = 1 /\ stack[0] = Nul) \/ ShowsLast(stack, ItemAt(t), ItemTexts(body, k, t))

\* No list that was read has an item that would have been refused.
ListsRead ==
  pc # "idle" =>
    \A i \in DOMAIN body : i < k /\ TakesItems(i) => ItemsFit(body[i].val)

DateKept ==
  pc # "idle" /\ Plain(body) =>
    \A i \in DOMAIN body : i < k /\ body[i].name = "nascimento" => born = DateOf[body[i].val]

ArraysKept == NamesKept /\ ItemsKept /\ ListsRead /\ DateKept

-----------------------------------------------------------------------------
(* One text more.                                                          *)

\* w is v and one text more, that of a later field.
OneMore(v, w, n, s) ==
  /\ DOMAIN w = DOMAIN v \cup {n} /\ n \in Nat
  /\ \A i \in DOMAIN v : i \in Nat /\ i < n /\ w[i] = v[i]
  /\ w[n] = s

\* A text that is written over an array is in front now.
LEMMA Overwritten ==
  ASSUME NEW m, NEW mm, NEW at, NEW max \in Nat, NEW v, NEW w, NEW n, NEW s,
         OneMore(v, w, n, s), IsSeq(s), Len(s) <= max, Mixes(m, at, max, v),
         \A o \in 0..max :
           mm[at + o] = IF o + 1 \in DOMAIN s THEN s[o + 1] ELSE m[at + o]
  PROVE  Mixes(mm, at, max, w) /\ ShowsLast(mm, at, w)
<1>1. DOMAIN s = 1..Len(s) /\ Len(s) \in Nat
  BY DEF IsSeq
<1>2. /\ DOMAIN w = DOMAIN v \cup {n} /\ n \in Nat /\ w[n] = s
      /\ \A i \in DOMAIN v : i \in Nat /\ i < n /\ w[i] = v[i]
  BY Zenon DEF OneMore
<1>3. ASSUME NEW o \in 0..max
      PROVE  \/ mm[at + o] = Nul
             \/ \E i \in DOMAIN w : o + 1 \in DOMAIN w[i] /\ mm[at + o] = w[i][o + 1]
  <2>1. CASE o + 1 \in DOMAIN s
    <3>1. mm[at + o] = s[o + 1] /\ n \in DOMAIN w
      BY <1>2, <2>1
    <3> QED BY <1>2, <2>1, <3>1, Zenon
  <2>2. CASE o + 1 \notin DOMAIN s
    <3>1. mm[at + o] = m[at + o]
      BY <2>2
    <3>2. m[at + o] = Nul \/ \E i \in DOMAIN v : o + 1 \in DOMAIN v[i] /\ m[at + o] = v[i][o + 1]
      BY Zenon DEF Mixes
    <3> QED BY <1>2, <3>1, <3>2, Zenon
  <2> QED BY <2>1, <2>2
<1>4. ASSUME NEW i \in DOMAIN w, IsLast(w, i), NEW o \in 0..(Len(w[i]) - 1)
      PROVE  mm[at + o] = w[i][o + 1]
  <2>1. i = n
    <3>1. n <= i
      BY <1>2, <1>4, Zenon DEF IsLast
    <3>2. i \in DOMAIN v => i \in Nat /\ i < n
      BY <1>2, Zenon
    <3> QED BY <1>2, <3>1, <3>2
  <2>2. o \in 0..max /\ o + 1 \in DOMAIN s
    BY <1>1, <1>2, <1>4, <2>1
  <2> QED BY <1>2, <2>1, <2>2, Zenon
<1> QED BY <1>3, <1>4, Zenon DEF Mixes, ShowsLast

\* What is not written over stays as it is.
LEMMA LeftAlone ==
  ASSUME NEW m, NEW mm, NEW at, NEW max \in Nat, NEW v,
         \A i \in DOMAIN v : Len(v[i]) \in Nat /\ Len(v[i]) <= max,
         \A o \in 0..max : mm[at + o] = m[at + o]
  PROVE  /\ Mixes(m, at, max, v) => Mixes(mm, at, max, v)
         /\ ShowsLast(m, at, v) => ShowsLast(mm, at, v)
<1>1. Mixes(m, at, max, v) => Mixes(mm, at, max, v)
  BY Zenon DEF Mixes
<1>2. ASSUME ShowsLast(m, at, v), NEW i \in DOMAIN v, IsLast(v, i), NEW o \in 0..(Len(v[i]) - 1)
      PROVE  mm[at + o] = v[i][o + 1]
  <2>1. o \in 0..max
    BY <1>2
  <2> QED BY <1>2, <2>1, Zenon DEF ShowsLast
<1> QED BY <1>1, <1>2, Zenon DEF ShowsLast

\* Reading a text adds it to those of its array.
LEMMA TextRead ==
  ASSUME BodyOK, k \in DOMAIN body, NEW name,
         Field.name = name /\ Field.type = "string"
  PROVE  OneMore(Texts(body, k, name), Texts(body, k + 1, name), k, Field.val)
<1> USE DEF Field
<1>1. DOMAIN body \subseteq Nat
  BY BodyIsSeq
<1>2. \A i \in DOMAIN body : (i < k + 1 <=> i < k \/ i = k) /\ (i < k => i # k)
  BY <1>1
<1> DEFINE v == Texts(body, k, name)
           w == Texts(body, k + 1, name)
<1>3. \A i \in DOMAIN v : i \in DOMAIN body /\ i < k /\ v[i] = body[i].val
  BY Zenon DEF Texts
<1>4. \A i \in DOMAIN w : w[i] = body[i].val
  BY Zenon DEF Texts
<1>5. ~(k < k) /\ k < k + 1 /\ k \in Nat
  BY <1>1
<1>6. DOMAIN w = DOMAIN v \cup {k}
  BY <1>2, <1>5 DEF Texts
<1> QED BY <1>1, <1>3, <1>4, <1>5, <1>6, Zenon DEF OneMore

\* Reading anything else does not.
LEMMA TextNotRead ==
  ASSUME BodyOK, k \in DOMAIN body, NEW name,
         ~(Field.name = name /\ Field.type = "string")
  PROVE  Texts(body, k + 1, name) = Texts(body, k, name)
<1> USE DEF Field
<1>1. DOMAIN body \subseteq Nat
  BY BodyIsSeq
<1>2. \A i \in DOMAIN body : (i < k + 1 <=> i < k \/ i = k)
  BY <1>1
<1> DEFINE T(n) == {j \in DOMAIN body : j < n /\ body[j].name = name /\ body[j].type = "string"}
<1>3. T(k + 1) = T(k)
  BY <1>2
<1> QED BY <1>3, Zenon DEF Texts

\* A list that is accepted adds one value to each item that it has.
LEMMA ItemRead ==
  ASSUME BodyOK, k \in DOMAIN body, TakesItems(k), NEW t \in DOMAIN Field.val
  PROVE  OneMore(ItemTexts(body, k, t), ItemTexts(body, k + 1, t), k, Field.val[t].val)
<1> USE DEF Field, TakesItems
<1>1. DOMAIN body \subseteq Nat
  BY BodyIsSeq
<1>2. \A i \in DOMAIN body : (i < k + 1 <=> i < k \/ i = k) /\ (i < k => i # k)
  BY <1>1
<1> DEFINE v == ItemTexts(body, k, t)
           w == ItemTexts(body, k + 1, t)
<1>3. \A i \in DOMAIN v : i \in DOMAIN body /\ i < k /\ v[i] = body[i].val[t].val
  BY Zenon DEF ItemTexts
<1>4. \A i \in DOMAIN w : w[i] = body[i].val[t].val
  BY Zenon DEF ItemTexts
<1>5. ~(k < k) /\ k < k + 1 /\ k \in Nat
  BY <1>1
<1>6. DOMAIN w = DOMAIN v \cup {k}
  BY <1>2, <1>5 DEF ItemTexts
<1> QED BY <1>1, <1>3, <1>4, <1>5, <1>6, Zenon DEF OneMore

\* Other fields, and lists that are shorter, leave the values of an item.
LEMMA ItemNotRead ==
  ASSUME BodyOK, k \in DOMAIN body, NEW t,
         ~(TakesItems(k) /\ t \in DOMAIN Field.val)
  PROVE  ItemTexts(body, k + 1, t) = ItemTexts(body, k, t)
<1> USE DEF Field, TakesItems
<1>1. DOMAIN body \subseteq Nat
  BY BodyIsSeq
<1>2. \A i \in DOMAIN body : (i < k + 1 <=> i < k \/ i = k)
  BY <1>1
<1> DEFINE T(n) == {j \in DOMAIN body : /\ j < n /\ body[j].name = "stack"
                                        /\ body[j].type = "array" /\ t \in DOMAIN body[j].val}
<1>3. T(k + 1) = T(k)
  BY <1>2
<1> QED BY <1>3, Zenon DEF ItemTexts

\* Before the first field nothing was read.
LEMMA NothingRead ==
  ASSUME NEW fields, IsSeq(fields), NEW name, NEW t
  PROVE  DOMAIN Texts(fields, 1, name) = {} /\ DOMAIN ItemTexts(fields, 1, t) = {}
<1>1. \A i \in DOMAIN fields : ~(i < 1)
  BY DEF IsSeq
<1> QED BY <1>1 DEF Texts, ItemTexts

-----------------------------------------------------------------------------
(* Where copies go.                                                        *)

\* What strncpy leaves at each place: the text, and behind it the old array.
LEMMA CopyAt ==
  ASSUME NEW m, NEW at \in Nat, NEW s, NEW o \in Nat, at + o \in DOMAIN m
  PROVE  Copy(m, at, s)[at + o] = IF o + 1 \in DOMAIN s THEN s[o + 1] ELSE m[at + o]
<1>1. (at + o) + 1 - at = o + 1
  OBVIOUS
<1>2. Copy(m, at, s)[at + o] = IF (at + o) + 1 - at \in DOMAIN s THEN s[(at + o) + 1 - at] ELSE m[at + o]
  BY Zenon DEF Copy
<1> QED BY <1>1, <1>2, Zenon

\* A nickname does not reach the name behind it.
LEMMA CopyBefore ==
  ASSUME NEW m, DOMAIN m = 0..NamesEnd, NEW s, IsSeq(s), Len(s) <= NomeAt,
         NEW o \in 0..NomeLen
  PROVE  Copy(m, 0, s)[NomeAt + o] = m[NomeAt + o]
<1>1. DOMAIN s = 1..Len(s) /\ Len(s) \in Nat
  BY DEF IsSeq
<1>2. NomeAt \in Nat /\ NomeLen \in Nat /\ NamesEnd = NomeAt + NomeLen + 1
  BY Offsets, LimitsArePositive DEF NamesEnd
<1>3. NomeAt + o \in 0..NamesEnd /\ (NomeAt + o) + 1 - 0 \notin DOMAIN s
  BY <1>1, <1>2
<1> QED BY <1>3, Zenon DEF Copy

\* A place of slot t is in no other one.
LEMMA SlotsOwn ==
  ASSUME NEW t \in 1..MaxItems, NEW j \in 1..MaxItems, NEW o \in 0..ItemLen
  PROVE  /\ t = j => (ItemAt(t) + o) + 1 - ItemAt(j) = o + 1
         /\ t # j => (ItemAt(t) + o) + 1 - ItemAt(j) \notin 1..(ItemLen + 1)
<1> DEFINE w == ItemLen + 1
           d == t - j
<1>1. ItemLen \in Nat /\ MaxItems \in Nat /\ w \in Nat /\ o + 1 \in 1..w /\ o \in Nat
  BY LimitsArePositive
<1>2. ItemAt(t) = (t - 1) * w /\ ItemAt(j) = (j - 1) * w
  BY DEF ItemAt
<1>3. (t - 1) * w - (j - 1) * w = d * w /\ (t - 1) * w \in Int /\ (j - 1) * w \in Int
  BY <1>1
<1>4. d \in Int /\ (t = j <=> d = 0)
  OBVIOUS
<1> HIDE DEF w, d
<1>5. (ItemAt(t) + o) + 1 - ItemAt(j) = d * w + (o + 1) /\ d * w \in Int
  <2>1. d * w \in Int
    BY <1>1, <1>4
  <2> QED BY <1>1, <1>2, <1>3, <2>1
<1>6. CASE d = 0
  BY <1>1, <1>4, <1>5, <1>6
<1>7. CASE d > 0
  <2> DEFINE e == d - 1
  <2>1. e \in Nat /\ d = e + 1
    BY <1>4, <1>7
  <2> HIDE DEF e
  <2>2. (e + 1) * w = e * w + w /\ e * w >= 0
    BY <1>1, <2>1
  <2>3. d * w >= w
    BY <1>1, <2>1, <2>2
  <2>4. d * w + (o + 1) \notin 1..w
    BY <1>1, <1>5, <2>3
  <2> QED BY <1>4, <1>5, <1>7, <2>4 DEF w
<1>8. CASE d < 0
  <2> DEFINE e == -(d + 1)
  <2>1. e \in Nat /\ d = -(e + 1)
    BY <1>4, <1>8
  <2> HIDE DEF e
  <2>2. (e + 1) * w = e * w + w /\ e * w >= 0 /\ (-(e + 1)) * w = -((e + 1) * w)
    BY <1>1, <2>1
  <2>3. d * w <= -w
    BY <1>1, <2>1, <2>2
  <2>4. d * w + (o + 1) \notin 1..w
    BY <1>1, <1>5, <2>3
  <2> QED BY <1>4, <1>5, <1>8, <2>4 DEF w
<1> QED BY <1>4, <1>6, <1>7, <1>8

\* Slot t of mm has its item of a list, and what m had there behind it.
SlotTakes(m, mm, items, t) ==
  \A o \in 0..ItemLen :
    /\ t \in DOMAIN items /\ o + 1 \in DOMAIN items[t]
         => mm[ItemAt(t) + o] = items[t][o + 1]
    /\ ~(t \in DOMAIN items /\ o + 1 \in DOMAIN items[t])
         => mm[ItemAt(t) + o] = m[ItemAt(t) + o]

\* Each slot of the stack takes the item of its number and no other one.
LEMMA PackAt ==
  ASSUME NEW m, DOMAIN m = 0..StackEnd, NEW items, DOMAIN items \subseteq 1..MaxItems,
         \A j \in DOMAIN items : IsSeq(items[j]) /\ Len(items[j]) <= ItemLen + 1,
         NEW t \in 1..MaxItems
  PROVE  SlotTakes(m, Pack(m, items), items, t)
<1> SUFFICES ASSUME NEW o \in 0..ItemLen
             PROVE  /\ t \in DOMAIN items /\ o + 1 \in DOMAIN items[t]
                         => Pack(m, items)[ItemAt(t) + o] = items[t][o + 1]
                    /\ ~(t \in DOMAIN items /\ o + 1 \in DOMAIN items[t])
                         => Pack(m, items)[ItemAt(t) + o] = m[ItemAt(t) + o]
  BY Zenon DEF SlotTakes
<1> DEFINE p == ItemAt(t) + o
           on == {j \in DOMAIN items : p + 1 - ItemAt(j) \in DOMAIN items[j]}
<1>1. p \in DOMAIN m
  <2>1. ItemAt(t) \in Nat /\ ItemAt(t) + ItemLen + 1 <= StackEnd /\ StackEnd \in Nat /\ ItemLen \in Nat
    BY Offsets, LimitsArePositive
  <2> QED BY <2>1
<1>2. Pack(m, items)[p] = IF on = {} THEN m[p] ELSE items[Max(on)][p + 1 - ItemAt(Max(on))]
  BY <1>1, Zenon DEF Pack
<1>3. ASSUME NEW j \in DOMAIN items
      PROVE  j \in on <=> j = t /\ o + 1 \in DOMAIN items[t]
  <2>1. /\ t = j => p + 1 - ItemAt(j) = o + 1
        /\ t # j => p + 1 - ItemAt(j) \notin 1..(ItemLen + 1)
    BY SlotsOwn
  <2>2. DOMAIN items[j] \subseteq 1..(ItemLen + 1)
    BY LimitsArePositive DEF IsSeq
  <2> QED BY <2>1, <2>2, Zenon
<1>4. CASE t \in DOMAIN items /\ o + 1 \in DOMAIN items[t]
  <2>1. on = {t} /\ on # {}
    BY <1>3, <1>4, Zenon
  <2>2. Max({t}) = t
    BY SMT DEF Max
  <2>3. p + 1 - ItemAt(t) = o + 1
    BY SlotsOwn
  <2> QED BY <1>2, <1>4, <2>1, <2>2, <2>3, Zenon DEF p
<1>5. CASE ~(t \in DOMAIN items /\ o + 1 \in DOMAIN items[t])
  <2>1. on = {}
    BY <1>3, <1>5, Zenon
  <2> QED BY <1>2, <1>5, <2>1, Zenon DEF p
<1> QED BY <1>4, <1>5

-----------------------------------------------------------------------------
(* What the loop of json_as_pessoa does to the arrays.                     *)

\* A field that is not refused.
AcceptedStep ==
  \/ /\ Field.name = "apelido" /\ Field.type = "string" /\ Fits(Field.val, 1, ApelidoLen)
     /\ names' = Copy(names, 0, Field.val) /\ stack' = stack /\ born' = born
  \/ /\ Field.name = "nome" /\ Field.type = "string" /\ Fits(Field.val, 1, NomeLen)
     /\ names' = Copy(names, NomeAt, Field.val) /\ stack' = stack /\ born' = born
  \/ /\ Field.name = "nascimento" /\ born' = DateOf[Field.val]
     /\ names' = names /\ stack' = stack
  \/ /\ Field.name = "id" /\ names' = names /\ stack' = stack /\ born' = born
  \/ /\ Field.name = "stack" /\ Field.type = "array" /\ ItemsFit(Field.val)
     /\ stack' = Pack(stack, [j \in DOMAIN Field.val |-> Field.val[j].val])
     /\ names' = names /\ born' = born
  \/ /\ Field.name = "stack" /\ Field.type = "null"
     /\ stack' = Copy(stack, 0, <<Nul>>) /\ names' = names /\ born' = born

\* A step of the loop either refuses the body or accepts one field.
LEMMA Accepted ==
  ASSUME FieldStep
  PROVE  pc = "fields" /\ (Done("unprocessable") \/ (Advance /\ AcceptedStep))
<1>1. pc = "fields"
  BY FieldShape
<1>2. CASE ApelidoField
  BY <1>2, Zenon DEF ApelidoField, At, Reject, AcceptedStep
<1>3. CASE NomeField
  BY <1>3, Zenon DEF NomeField, At, Reject, AcceptedStep
<1>4. CASE DateField
  BY <1>4, Zenon DEF DateField, At, Reject, AcceptedStep
<1>5. CASE IdField
  BY <1>5, Zenon DEF IdField, At, Reject, AcceptedStep
<1>6. CASE StackField
  BY <1>6, Zenon DEF StackField, At, Reject, AcceptedStep
<1>7. CASE UnknownField
  BY <1>7, Zenon DEF UnknownField, Reject
<1> QED BY <1>1, <1>2, <1>3, <1>4, <1>5, <1>6, <1>7, Zenon DEF FieldStep

\* Texts within the limits.
LEMMA TextsShort ==
  ASSUME InLimits(body), NEW n
  PROVE  /\ \A i \in DOMAIN Texts(body, n, "apelido") :
              Printable(Texts(body, n, "apelido")[i], ApelidoLen)
         /\ \A i \in DOMAIN Texts(body, n, "nome") :
              Printable(Texts(body, n, "nome")[i], NomeLen)
         /\ \A t : \A i \in DOMAIN ItemTexts(body, n, t) :
              /\ Printable(ItemTexts(body, n, t)[i], ItemLen)
              /\ Range(ItemTexts(body, n, t)[i]) \cap {Quote, Comma} = {}
<1>1. \A name : \A i \in DOMAIN Texts(body, n, name) :
        i \in DOMAIN body /\ body[i].name = name /\ Texts(body, n, name)[i] = body[i].val
  BY Zenon DEF Texts
<1>2. ASSUME NEW t, NEW i \in DOMAIN ItemTexts(body, n, t)
      PROVE  /\ Printable(ItemTexts(body, n, t)[i], ItemLen)
             /\ Range(ItemTexts(body, n, t)[i]) \cap {Quote, Comma} = {}
  <2>1. /\ i \in DOMAIN body /\ body[i].type = "array" /\ t \in DOMAIN body[i].val
        /\ ItemTexts(body, n, t)[i] = body[i].val[t].val
    BY Zenon DEF ItemTexts
  <2>2. body[i].val[t] \in Range(body[i].val)
    BY <2>1, Zenon DEF Range
  <2> QED BY <2>1, <2>2, Zenon DEF InLimits
<1> QED BY <1>1, <1>2, ZenonT(60) DEF InLimits

\* A text within a limit has at most so many characters.
LEMMA PrintableLen ==
  ASSUME NEW s, NEW max \in Nat, Printable(s, max)
  PROVE  Len(s) \in Nat /\ Len(s) <= max
  BY DEF Printable

\* An accepted field keeps the arrays of the nickname and of the name: the
\* last value in front, the rest from other values (pessoa.c:74).
LEMMA NamesStep ==
  ASSUME IInv, NamesKept, InLimits(body), pc = "fields", Advance, AcceptedStep
  PROVE  NamesKept'
<1>1. /\ BodyOK /\ k \in DOMAIN body /\ DOMAIN names = 0..NamesEnd /\ k' = k + 1 /\ body' = body
      /\ ApelidoLen \in Nat /\ NomeLen \in Nat
  BY LimitsArePositive DEF IInv, PessoaTypeOK, Advance
<1> DEFINE va == Texts(body, k, "apelido")
           wa == Texts(body, k + 1, "apelido")
           vn == Texts(body, k, "nome")
           wn == Texts(body, k + 1, "nome")
           s == Field.val
<1>2. /\ Mixes(names, 0, ApelidoLen, va) /\ ShowsLast(names, 0, va)
      /\ Mixes(names, NomeAt, NomeLen, vn) /\ ShowsLast(names, NomeAt, vn)
  BY Zenon DEF NamesKept
<1> SUFFICES /\ Mixes(names', 0, ApelidoLen, wa) /\ ShowsLast(names', 0, wa)
             /\ Mixes(names', NomeAt, NomeLen, wn) /\ ShowsLast(names', NomeAt, wn)
  <2>1. NamesKept' <=>
          (pc' # "idle" /\ InLimits(body') =>
            /\ Mixes(names', 0, ApelidoLen, Texts(body', k', "apelido"))
            /\ ShowsLast(names', 0, Texts(body', k', "apelido"))
            /\ Mixes(names', NomeAt, NomeLen, Texts(body', k', "nome"))
            /\ ShowsLast(names', NomeAt, Texts(body', k', "nome")))
    BY DEF NamesKept, Texts
  <2> QED BY <1>1, <2>1, Zenon
<1>3. /\ \A i \in DOMAIN va : Len(va[i]) \in Nat /\ Len(va[i]) <= ApelidoLen
      /\ \A i \in DOMAIN vn : Len(vn[i]) \in Nat /\ Len(vn[i]) <= NomeLen
  <2> HIDE DEF va, vn
  <2>1. /\ \A i \in DOMAIN va : Printable(va[i], ApelidoLen)
        /\ \A i \in DOMAIN vn : Printable(vn[i], NomeLen)
    BY TextsShort, Zenon DEF va, vn
  <2> QED BY <1>1, <2>1, PrintableLen
<1>4. /\ \A o \in 0..ApelidoLen : 0 + o \in DOMAIN names /\ o \in Nat /\ 0 + o = o
      /\ \A o \in 0..NomeLen : NomeAt + o \in DOMAIN names /\ o \in Nat
      /\ NomeAt \in Nat /\ NomeAt > ApelidoLen
  BY <1>1, Offsets DEF NamesEnd, NomeAt
<1>5. CASE Field.name = "apelido"
  <2>1. Field.type = "string" /\ names' = Copy(names, 0, s)
    BY <1>5, Zenon DEF AcceptedStep
  <2>2. OneMore(va, wa, k, s) /\ wn = vn
    BY <1>1, <1>5, <2>1, TextRead, TextNotRead
  <2>3. IsSeq(s) /\ Len(s) <= ApelidoLen
    <3>1. Printable(s, ApelidoLen)
      BY <1>1, <1>5, Zenon DEF InLimits, Field
    <3>2. IsSeq(s)
      BY <1>1, <2>1 DEF BodyOK, FieldsAreJson, Field
    <3> QED BY <1>1, <3>1, <3>2, PrintableLen
  <2> HIDE DEF va, wa, vn, wn, s
  <2>4. \A o \in 0..ApelidoLen :
          names'[0 + o] = IF o + 1 \in DOMAIN s THEN s[o + 1] ELSE names[0 + o]
    BY <1>4, <2>1, CopyAt
  <2>5. Mixes(names', 0, ApelidoLen, wa) /\ ShowsLast(names', 0, wa)
    BY <1>1, <1>2, <2>2, <2>3, <2>4, Overwritten
  <2>6. \A o \in 0..NomeLen : names'[NomeAt + o] = names[NomeAt + o]
    <3>1. Len(s) <= NomeAt
      BY <1>1, <1>4, <2>3 DEF IsSeq
    <3> QED BY <1>1, <2>1, <2>3, <3>1, CopyBefore
  <2>7. Mixes(names', NomeAt, NomeLen, vn) /\ ShowsLast(names', NomeAt, vn)
    BY <1>1, <1>2, <1>3, <2>6, LeftAlone
  <2> QED BY <2>2, <2>5, <2>7, Zenon
<1>6. CASE Field.name = "nome"
  <2>1. Field.type = "string" /\ names' = Copy(names, NomeAt, s)
    BY <1>6, Zenon DEF AcceptedStep
  <2>2. OneMore(vn, wn, k, s) /\ wa = va
    BY <1>1, <1>6, <2>1, TextRead, TextNotRead
  <2>3. IsSeq(s) /\ Len(s) <= NomeLen
    <3>1. Printable(s, NomeLen)
      BY <1>1, <1>6, Zenon DEF InLimits, Field
    <3>2. IsSeq(s)
      BY <1>1, <2>1 DEF BodyOK, FieldsAreJson, Field
    <3> QED BY <1>1, <3>1, <3>2, PrintableLen
  <2> HIDE DEF va, wa, vn, wn, s
  <2>4. \A o \in 0..NomeLen :
          names'[NomeAt + o] = IF o + 1 \in DOMAIN s THEN s[o + 1] ELSE names[NomeAt + o]
    BY <1>4, <2>1, CopyAt
  <2>5. Mixes(names', NomeAt, NomeLen, wn) /\ ShowsLast(names', NomeAt, wn)
    BY <1>1, <1>2, <2>2, <2>3, <2>4, Overwritten
  <2>6. \A o \in 0..ApelidoLen : names'[0 + o] = names[0 + o]
    BY <1>1, <1>4, <2>1, <2>3, CopyBehind
  <2>7. Mixes(names', 0, ApelidoLen, va) /\ ShowsLast(names', 0, va)
    BY <1>1, <1>2, <1>3, <2>6, LeftAlone
  <2> QED BY <2>2, <2>5, <2>7, Zenon
<1>7. CASE Field.name \notin {"apelido", "nome"}
  <2>1. names' = names
    BY <1>7, Zenon DEF AcceptedStep
  <2>2. wa = va /\ wn = vn
    BY <1>1, <1>7, TextNotRead
  <2> QED BY <1>2, <2>1, <2>2, Zenon
<1> QED BY <1>5, <1>6, <1>7

\* An accepted field keeps the arrays of the items in the same way
\* (pessoa.c:95).
LEMMA ItemsStep ==
  ASSUME IInv, ItemsKept, InLimits(body), pc = "fields", Advance, AcceptedStep
  PROVE  ItemsKept'
<1>1. /\ BodyOK /\ k \in DOMAIN body /\ DOMAIN stack = 0..StackEnd /\ k' = k + 1 /\ body' = body
      /\ ItemLen \in Nat /\ MaxItems \in Nat \ {0}
  BY LimitsArePositive DEF IInv, PessoaTypeOK, Advance
<1> DEFINE v(t) == ItemTexts(body, k, t)
           w(t) == ItemTexts(body, k + 1, t)
           s == Field.val
           items == [j \in DOMAIN s |-> s[j].val]
<1> SUFFICES ASSUME NEW t \in 1..MaxItems
             PROVE  /\ Mixes(stack', ItemAt(t), ItemLen, w(t))
                    /\ (t = 1 /\ stack'[0] = Nul) \/ ShowsLast(stack', ItemAt(t), w(t))
  <2>1. ItemsKept' <=>
          (pc' # "idle" /\ InLimits(body') =>
            \A t \in 1..MaxItems :
              /\ Mixes(stack', ItemAt(t), ItemLen, ItemTexts(body', k', t))
              /\ (t = 1 /\ stack'[0] = Nul) \/ ShowsLast(stack', ItemAt(t), ItemTexts(body', k', t)))
    BY DEF ItemsKept, ItemTexts
  <2> QED BY <1>1, <2>1, Zenon
<1>2. /\ Mixes(stack, ItemAt(t), ItemLen, v(t))
      /\ (t = 1 /\ stack[0] = Nul) \/ ShowsLast(stack, ItemAt(t), v(t))
  BY Zenon DEF ItemsKept
<1>3. \A i \in DOMAIN v(t) : Len(v(t)[i]) \in Nat /\ Len(v(t)[i]) <= ItemLen
  <2>1. \A i \in DOMAIN v(t) : Printable(v(t)[i], ItemLen)
    BY TextsShort, Zenon
  <2> HIDE DEF v
  <2> QED BY <1>1, <2>1, PrintableLen
<1>4. CASE TakesItems(k)
  <2>1. Field.name = "stack" /\ Field.type = "array"
    BY <1>4, Zenon DEF TakesItems, Field
  <2>2. ItemsFit(s) /\ stack' = Pack(stack, items)
    BY <2>1, Zenon DEF AcceptedStep
  <2>3. DOMAIN s = 1..Len(s) /\ Len(s) \in 1..MaxItems
        /\ \A j \in DOMAIN s : IsSeq(s[j].val)
    BY <1>1, <2>1, <2>2 DEF BodyOK, FieldsAreJson, Field, ItemsFit, IsSeq
  <2>4. \A j \in DOMAIN s : Len(s[j].val) \in Nat /\ Len(s[j].val) <= ItemLen
    <3>1. \A j \in DOMAIN s : Printable(s[j].val, ItemLen)
      BY <1>1, <2>1, Zenon DEF InLimits, Field, Range
    <3> QED BY <1>1, <3>1, PrintableLen
  <2>5. DOMAIN items = DOMAIN s /\ \A j \in DOMAIN items : items[j] = s[j].val
    BY Zenon
  <2>6. DOMAIN items \subseteq 1..MaxItems /\ 1 \in DOMAIN items
    BY <1>1, <2>3, <2>5
  <2> HIDE DEF items, s, v, w
  <2>7. \A j \in DOMAIN items : IsSeq(items[j]) /\ Len(items[j]) <= ItemLen + 1
    BY <1>1, <2>3, <2>4, <2>5
  <2>8. SlotTakes(stack, stack', items, t)
    BY <1>1, <2>2, <2>6, <2>7, PackAt
  <2>9. CASE t \in DOMAIN s
    <3>1. OneMore(v(t), w(t), k, items[t])
      BY <1>1, <1>4, <2>5, <2>9, ItemRead DEF s, v, w
    <3>2. IsSeq(items[t]) /\ Len(items[t]) <= ItemLen
      BY <2>3, <2>4, <2>5, <2>9
    <3>3. \A o \in 0..ItemLen :
            stack'[ItemAt(t) + o] =
              IF o + 1 \in DOMAIN items[t] THEN items[t][o + 1] ELSE stack[ItemAt(t) + o]
      BY <2>5, <2>8, <2>9, Zenon DEF SlotTakes
    <3> QED BY <1>1, <1>2, <3>1, <3>2, <3>3, Overwritten
  <2>10. CASE t \notin DOMAIN s
    <3>1. w(t) = v(t)
      BY <1>1, <2>10, ItemNotRead DEF s, v, w
    <3>2. \A o \in 0..ItemLen : stack'[ItemAt(t) + o] = stack[ItemAt(t) + o]
      BY <2>5, <2>8, <2>10, Zenon DEF SlotTakes
    <3>3. t # 1
      BY <2>5, <2>6, <2>10, Zenon
    <3> QED BY <1>1, <1>2, <1>3, <3>1, <3>2, <3>3, LeftAlone
  <2> QED BY <2>9, <2>10
<1>5. CASE ~TakesItems(k) /\ Field.name = "stack"
  <2>1. stack' = Copy(stack, 0, <<Nul>>)
    BY <1>5, Zenon DEF AcceptedStep, TakesItems, Field
  <2>2. w(t) = v(t)
    BY <1>1, <1>5, ItemNotRead
  <2>3. \A o \in 0..ItemLen :
          /\ ItemAt(t) + o \in DOMAIN stack /\ ItemAt(t) + o >= 0
          /\ stack'[ItemAt(t) + o] = IF ItemAt(t) + o = 0 THEN Nul ELSE stack[ItemAt(t) + o]
    <3> SUFFICES ASSUME NEW o \in 0..ItemLen
                 PROVE  /\ ItemAt(t) + o \in DOMAIN stack /\ ItemAt(t) + o >= 0
                        /\ stack'[ItemAt(t) + o] = IF ItemAt(t) + o = 0 THEN Nul
                                                   ELSE stack[ItemAt(t) + o]
      OBVIOUS
    <3> DEFINE p == ItemAt(t) + o
    <3>1. p \in DOMAIN stack /\ p \in Nat
      BY <1>1, Offsets
    <3> HIDE DEF p
    <3>2. DOMAIN <<Nul>> = {1} /\ <<Nul>>[1] = Nul
      OBVIOUS
    <3>3. p + 1 - 0 \in {1} <=> p = 0
      BY <3>1
    <3>4. stack'[p] = IF p + 1 - 0 \in {1} THEN <<Nul>>[p + 1 - 0] ELSE stack[p]
      BY <2>1, <3>1, <3>2, Zenon DEF Copy
    <3>5. 0 + 1 - 0 = 1
      OBVIOUS
    <3>6. stack'[p] = IF p = 0 THEN Nul ELSE stack[p]
      BY <3>2, <3>3, <3>4, <3>5, Zenon
    <3>7. p >= 0
      BY <3>1
    <3> QED BY <3>1, <3>6, <3>7, Zenon DEF p
  <2>4. Mixes(stack', ItemAt(t), ItemLen, v(t))
    BY <1>2, <2>3, Zenon DEF Mixes
  <2>5. CASE t = 1
    <3>1. ItemAt(1) = 0
      BY <1>1, SlotsApart
    <3>2. 0 \in 0..ItemLen /\ 0 + 0 = 0
      BY <1>1
    <3>3. stack'[0] = Nul
      BY <2>3, <2>5, <3>1, <3>2, Zenon
    <3> QED BY <2>2, <2>4, <2>5, <3>3, Zenon
  <2>6. CASE t # 1
    <3>1. ItemAt(t) > ItemLen /\ ItemAt(t) \in Nat
      BY <1>1, <2>6, SlotsApart, Offsets
    <3>2. \A o \in 0..ItemLen : ItemAt(t) + o # 0
      BY <1>1, <3>1
    <3>3. \A o \in 0..ItemLen : stack'[ItemAt(t) + o] = stack[ItemAt(t) + o]
      BY <2>3, <3>2, Zenon
    <3> HIDE DEF v, w
    <3> QED BY <1>1, <1>2, <1>3, <2>2, <2>6, <3>3, LeftAlone
  <2> QED BY <2>5, <2>6
<1>6. CASE Field.name # "stack"
  <2>1. stack' = stack
    BY <1>6, Zenon DEF AcceptedStep
  <2>2. w(t) = v(t)
    BY <1>1, <1>6, ItemNotRead DEF TakesItems, Field
  <2> QED BY <1>2, <2>1, <2>2, Zenon
<1> QED BY <1>4, <1>5, <1>6

\* Every step of the loop of json_as_pessoa keeps what the arrays hold.
LEMMA FieldArrays == ASSUME IInv, ArraysKept, FieldStep PROVE ArraysKept'
<1>1. /\ pc = "fields" /\ body' = body
      /\ Done("unprocessable") \/ (Advance /\ AcceptedStep)
  BY Accepted, FieldShape
<1>2. CASE Done("unprocessable")
  <2>1. pc' = "idle"
    BY <1>2 DEF Done
  <2> QED BY <2>1 DEF ArraysKept, NamesKept, ItemsKept, ListsRead, DateKept
<1>3. CASE Advance /\ AcceptedStep
  <2>1. k' = k + 1 /\ k \in DOMAIN body /\ DOMAIN body \subseteq Nat
    <3>1. k' = k + 1 /\ k \in DOMAIN body
      BY <1>1, <1>3 DEF Advance, IInv, PessoaTypeOK
    <3>2. DOMAIN body \subseteq Nat
      BY BodyIsSeq DEF IInv
    <3> QED BY <3>1, <3>2
  <2>2. \A i \in DOMAIN body : i < k' => i < k \/ i = k
    BY <2>1
  <2>3. NamesKept' /\ ItemsKept'
    <3>1. CASE InLimits(body)
      BY <1>1, <1>3, <3>1, NamesStep, ItemsStep DEF ArraysKept
    <3>2. CASE ~InLimits(body)
      <4>1. ~InLimits(body')
        BY <1>1, <3>2
      <4> QED BY <4>1 DEF NamesKept, ItemsKept
    <3> QED BY <3>1, <3>2
  <2>4. ListsRead'
    <3> SUFFICES ASSUME NEW i \in DOMAIN body, i < k', body[i].name = "stack",
                        body[i].type = "array"
                 PROVE  ItemsFit(body[i].val)
      BY <1>1 DEF ListsRead, TakesItems
    <3>1. CASE i = k
      BY <1>3, <3>1, Zenon DEF AcceptedStep, Field
    <3>2. CASE i # k
      BY <1>1, <2>2, <3>2, Zenon DEF ArraysKept, ListsRead, TakesItems
    <3> QED BY <3>1, <3>2
  <2>5. DateKept'
    <3> SUFFICES ASSUME Plain(body), NEW i \in DOMAIN body, i < k', body[i].name = "nascimento"
                 PROVE  born' = DateOf[body[i].val]
      BY <1>1 DEF DateKept
    <3>1. CASE i = k
      BY <1>3, <3>1, Zenon DEF AcceptedStep, Field
    <3>2. CASE i # k
      <4>1. born = DateOf[body[i].val]
        BY <1>1, <2>2, <3>2, Zenon DEF ArraysKept, DateKept
      <4>2. Field.name # "nascimento"
        BY <2>1, <3>2, Zenon DEF Plain, Field
      <4> QED BY <1>3, <4>1, <4>2, Zenon DEF AcceptedStep
    <3> QED BY <3>1, <3>2
  <2> QED BY <2>3, <2>4, <2>5 DEF ArraysKept
<1> QED BY <1>1, <1>2, <1>3

\* A body that begins finds the arrays zeroed (handler.c:250).
LEMMA BeginArrays == ASSUME IInv, TInv, NEW b \in Bodies, Begin(b) PROVE ArraysKept'
<1>1. CASE b.type = "object" /\ Len(b.fields) >= MinFields
  <2>1. /\ pc' = "fields" /\ k' = 1 /\ names' = NoNames /\ stack' = NoStack /\ body' = b.fields
    BY <1>1 DEF Begin, TInv, Zeroed
  <2>2. IsSeq(body')
    BY <2>1, BodiesAreJson DEF FieldsAreJson
  <2>3. \A i \in DOMAIN body' : ~(i < k')
    BY <2>1, <2>2 DEF IsSeq
  <2>4. /\ \A name : DOMAIN Texts(body', 1, name) = {}
        /\ \A t : DOMAIN ItemTexts(body', 1, t) = {}
    BY <2>2, NothingRead
  <2>5. /\ \A o \in 0..ApelidoLen : names'[0 + o] = Nul
        /\ \A o \in 0..NomeLen : names'[NomeAt + o] = Nul
    BY <2>1, Offsets, LimitsArePositive DEF NoNames, NomeAt, NamesEnd
  <2>6. \A t \in 1..MaxItems : \A o \in 0..ItemLen : stack'[ItemAt(t) + o] = Nul
    BY <2>1, Offsets, LimitsArePositive DEF NoStack
  <2>7. NamesKept'
    <3>1. /\ Mixes(names', 0, ApelidoLen, Texts(body', k', "apelido"))
          /\ ShowsLast(names', 0, Texts(body', k', "apelido"))
          /\ Mixes(names', NomeAt, NomeLen, Texts(body', k', "nome"))
          /\ ShowsLast(names', NomeAt, Texts(body', k', "nome"))
      BY <2>1, <2>4, <2>5, Zenon DEF Mixes, ShowsLast
    <3> QED BY <3>1 DEF NamesKept, Texts
  <2>8. ItemsKept'
    <3>1. \A t \in 1..MaxItems :
            /\ Mixes(stack', ItemAt(t), ItemLen, ItemTexts(body', k', t))
            /\ ShowsLast(stack', ItemAt(t), ItemTexts(body', k', t))
      BY <2>1, <2>4, <2>6, Zenon DEF Mixes, ShowsLast
    <3> QED BY <3>1 DEF ItemsKept, ItemTexts
  <2>9. ListsRead' /\ DateKept'
    BY <2>3, Zenon DEF ListsRead, DateKept
  <2> QED BY <2>7, <2>8, <2>9 DEF ArraysKept
<1>2. CASE ~(b.type = "object" /\ Len(b.fields) >= MinFields)
  <2>1. pc' = "idle"
    BY <1>2 DEF Begin, Done
  <2> QED BY <2>1 DEF ArraysKept, NamesKept, ItemsKept, ListsRead, DateKept
<1> QED BY <1>1, <1>2

\* Initially no body is read and nothing is said of the arrays.
LEMMA InitArrays == Init => ArraysKept
  BY DEF Init, ArraysKept, NamesKept, ItemsKept, ListsRead, DateKept

\* Every step keeps what the arrays hold.
LEMMA NextArrays == ASSUME IInv, TInv, ArraysKept, [Next]_vars PROVE ArraysKept'
<1>1. CASE UNCHANGED vars
  BY <1>1 DEF vars, ArraysKept, NamesKept, ItemsKept, ListsRead, DateKept, Texts, ItemTexts,
              TakesItems
<1>2. CASE Refuse \/ Create
  <2>1. pc' = "idle"
    BY <1>2 DEF Refuse, Create, Done
  <2> QED BY <2>1 DEF ArraysKept, NamesKept, ItemsKept, ListsRead, DateKept
<1>3. CASE Next
  BY <1>2, <1>3, BeginArrays, FieldArrays DEF Next, FieldStep
<1> QED BY <1>1, <1>3

-----------------------------------------------------------------------------
(* What the arrays hold, read as C strings.                                *)

\* A C string has the characters up to the first Nul.
Reads(m, at, s, len) ==
  /\ s \in Seq(Range(m)) /\ Len(s) \in 0..len /\ DOMAIN s = 1..Len(s)
  /\ m[at + Len(s)] = Nul
  /\ \A o \in 0..(Len(s) - 1) : s[o + 1] = m[at + o] /\ m[at + o] # Nul

\* A string that is read from an array ends at the first zero.
LEMMA CStringReads ==
  ASSUME NEW n \in Nat, NEW m, DOMAIN m = 0..n, NEW at \in 0..n, NEW len \in Nat,
         at + len <= n, m[at + len] = Nul
  PROVE  Reads(m, at, CString(m, at), len)
<1> DEFINE T == {i \in DOMAIN m : i >= at /\ m[i] = Nul}
           e == Min(T)
           s == CString(m, at)
<1>1. at + len \in T /\ T \subseteq Nat
  OBVIOUS
<1>2. e \in T /\ \A i \in T : e <= i
  <2> HIDE DEF T
  <2> QED BY <1>1, MinIs
<1>3. e \in at..(at + len) /\ m[e] = Nul
  BY <1>1, <1>2
<1>4. s = [j \in 1..(e - at) |-> m[at + j - 1]]
  BY Zenon DEF CString
<1>5. \A i \in at..(e - 1) : m[i] # Nul
  <2> SUFFICES ASSUME NEW i \in at..(e - 1), m[i] = Nul PROVE FALSE
    OBVIOUS
  <2>1. i \in T
    BY <1>3
  <2>2. e <= i /\ e \in Nat
    BY <1>1, <1>2, <2>1
  <2> HIDE DEF T, e
  <2> QED BY <2>2
<1> HIDE DEF T, e, s
<1>6. e - at \in Nat /\ e - at <= len /\ at + (e - at) = e
  BY <1>3
<1>7. ASSUME NEW o \in 0..((e - at) - 1)
      PROVE  s[o + 1] = m[at + o] /\ m[at + o] # Nul /\ at + o \in DOMAIN m
  <2>1. o + 1 \in 1..(e - at) /\ at + (o + 1) - 1 = at + o /\ at + o \in at..(e - 1)
        /\ at + o \in DOMAIN m
    BY <1>3
  <2> QED BY <1>4, <1>5, <2>1
<1>8. ASSUME NEW j \in 1..(e - at) PROVE s[j] \in Range(m)
  <2>1. j - 1 \in 0..((e - at) - 1) /\ (j - 1) + 1 = j
    BY <1>6
  <2>2. s[j] = m[at + (j - 1)] /\ at + (j - 1) \in DOMAIN m
    BY <1>7, <2>1
  <2> QED BY <2>2, Zenon DEF Range
<1>9. s = [j \in 1..(e - at) |-> s[j]]
  BY <1>4, Zenon
<1>10. s \in Seq(Range(m)) /\ Len(s) = e - at
  BY <1>6, <1>8, <1>9, FunctionIsSeq
<1>11. DOMAIN s = 1..Len(s) /\ Len(s) \in 0..len
  BY <1>6, <1>10
<1>12. \A o \in 0..(Len(s) - 1) : s[o + 1] = m[at + o] /\ m[at + o] # Nul
  BY <1>7, <1>10, Zenon
<1>13. m[at + Len(s)] = Nul
  BY <1>3, <1>6, <1>10, Zenon
<1> QED BY <1>10, <1>11, <1>12, <1>13, Zenon DEF Reads, s

\* What copying texts over each other leaves: the last one in front, behind it nothing
\* but what another one has in that place.
Mixture(text, v) ==
  /\ IsSeq(text) /\ \A j \in DOMAIN text : text[j] # Nul
  /\ \A j \in DOMAIN text : \E i \in DOMAIN v : j \in DOMAIN v[i] /\ text[j] = v[i][j]
  /\ \A i \in DOMAIN v : IsLast(v, i) =>
       Len(v[i]) <= Len(text) /\ \A j \in DOMAIN v[i] : text[j] = v[i][j]

\* Texts that an array has room for.
ShortTexts(v, max) == \A i \in DOMAIN v : IsSeq(v[i]) /\ Printable(v[i], max)

\* The string of an array in which the last value is in front begins with
\* that value, and the rest of it comes from others.
LEMMA KeptString ==
  ASSUME NEW n \in Nat, NEW m, DOMAIN m = 0..n, NEW at \in Nat, NEW max \in Nat,
         at + max <= n, NEW v, ShortTexts(v, max), Mixes(m, at, max, v)
  PROVE  /\ m[at + max] = Nul
         /\ Reads(m, at, CString(m, at), max)
         /\ ShowsLast(m, at, v) => Mixture(CString(m, at), v)
<1> DEFINE s == CString(m, at)
<1>1. \A i \in DOMAIN v : /\ DOMAIN v[i] = 1..Len(v[i]) /\ Len(v[i]) \in 1..max
                          /\ \A j \in DOMAIN v[i] : v[i][j] # Nul
  BY DEF ShortTexts, IsSeq, Printable
<1>2. m[at + max] = Nul
  <2>1. max \in 0..max /\ \A i \in DOMAIN v : max + 1 \notin DOMAIN v[i]
    BY <1>1
  <2> QED BY <2>1, Zenon DEF Mixes
<1>3. Reads(m, at, s, max)
  <2>1. at \in 0..n
    OBVIOUS
  <2> QED BY <1>2, <2>1, CStringReads
<1> HIDE DEF s
<1>4. /\ s \in Seq(Range(m)) /\ Len(s) \in 0..max /\ DOMAIN s = 1..Len(s)
      /\ m[at + Len(s)] = Nul
      /\ \A o \in 0..(Len(s) - 1) : s[o + 1] = m[at + o] /\ m[at + o] # Nul
  BY <1>3, Zenon DEF Reads
<1>5. \A j \in DOMAIN s : j - 1 \in 0..(Len(s) - 1) /\ j - 1 \in 0..max /\ (j - 1) + 1 = j
  BY <1>4
<1>6. \A j \in DOMAIN s : s[j] = m[at + (j - 1)] /\ s[j] # Nul
  <2> TAKE j \in DOMAIN s
  <2>1. s[(j - 1) + 1] = m[at + (j - 1)] /\ m[at + (j - 1)] # Nul
    BY <1>4, <1>5, Zenon
  <2> QED BY <1>5, <2>1, Zenon
<1>7. ASSUME NEW j \in DOMAIN s
      PROVE  \E i \in DOMAIN v : j \in DOMAIN v[i] /\ s[j] = v[i][j]
  <2>1. \E i \in DOMAIN v : (j - 1) + 1 \in DOMAIN v[i] /\ m[at + (j - 1)] = v[i][(j - 1) + 1]
    BY <1>5, <1>6, Zenon DEF Mixes
  <2> QED BY <1>5, <1>6, <2>1, Zenon
<1>8. ASSUME ShowsLast(m, at, v), NEW i \in DOMAIN v, IsLast(v, i)
      PROVE  Len(v[i]) <= Len(s) /\ \A j \in DOMAIN v[i] : s[j] = v[i][j]
  <2>1. \A o \in 0..(Len(v[i]) - 1) : m[at + o] = v[i][o + 1]
    BY <1>8, Zenon DEF ShowsLast
  <2>2. Len(v[i]) <= Len(s)
    <3> SUFFICES ASSUME Len(s) < Len(v[i]) PROVE FALSE
      BY <1>1, <1>4
    <3>1. Len(s) \in 0..(Len(v[i]) - 1) /\ Len(s) + 1 \in DOMAIN v[i]
      BY <1>1, <1>4
    <3>2. m[at + Len(s)] = v[i][Len(s) + 1] /\ v[i][Len(s) + 1] # Nul
      BY <1>1, <2>1, <3>1, Zenon
    <3> QED BY <1>4, <3>2, Zenon
  <2>3. ASSUME NEW j \in DOMAIN v[i] PROVE s[j] = v[i][j]
    <3>1. j \in DOMAIN s /\ j - 1 \in 0..(Len(v[i]) - 1) /\ (j - 1) + 1 = j
      BY <1>1, <1>4, <2>2
    <3> QED BY <1>6, <2>1, <3>1, Zenon
  <2> QED BY <2>2, <2>3
<1>9. IsSeq(s)
  BY <1>4 DEF IsSeq, Range
<1>10. ShowsLast(m, at, v) => Mixture(s, v)
  BY <1>6, <1>7, <1>8, <1>9, Zenon DEF Mixture
<1> QED BY <1>2, <1>3, <1>10, Zenon DEF s

\* Nothing is left of no texts, and one text is left as it is.
LEMMA MixtureOfFew ==
  ASSUME NEW text, NEW v, Mixture(text, v)
  PROVE  /\ DOMAIN v = {} => text = <<>>
         /\ \A i : DOMAIN v = {i} /\ i \in Nat /\ IsSeq(v[i]) => text = v[i]
<1>1. IsSeq(text) /\ DOMAIN text = 1..Len(text) /\ Len(text) \in Nat
  BY DEF Mixture, IsSeq
<1>2. ASSUME DOMAIN v = {} PROVE text = <<>>
  <2>1. DOMAIN text = {}
    BY <1>2, Zenon DEF Mixture
  <2>2. Len(text) = 0
    BY <1>1, <2>1
  <2> QED BY <1>1, <2>2 DEF IsSeq
<1>3. ASSUME NEW i, DOMAIN v = {i}, i \in Nat, IsSeq(v[i]) PROVE text = v[i]
  <2>1. IsLast(v, i)
    BY <1>3 DEF IsLast
  <2>2. Len(v[i]) <= Len(text) /\ \A j \in DOMAIN v[i] : text[j] = v[i][j]
    BY <1>3, <2>1, Zenon DEF Mixture
  <2>3. \A j \in DOMAIN text : j \in DOMAIN v[i]
    BY <1>3, Zenon DEF Mixture
  <2> DEFINE t == v[i]
             V == Range(text) \cup Range(t)
  <2>4. text \in Seq(V) /\ t \in Seq(V) /\ DOMAIN t = 1..Len(t) /\ Len(t) \in Nat
    BY <1>1, <1>3 DEF IsSeq
  <2>5. Len(text) <= Len(t) /\ Len(t) <= Len(text) /\ \A j \in 1..Len(t) : text[j] = t[j]
    <3>1. Len(t) <= Len(text) /\ (\A j \in DOMAIN t : text[j] = t[j])
          /\ \A j \in DOMAIN text : j \in DOMAIN t
      BY <2>2, <2>3, Zenon
    <3> HIDE DEF t, V
    <3>2. Len(text) # 0 => Len(text) \in DOMAIN t
      BY <1>1, <3>1
    <3> QED BY <1>1, <2>4, <3>1, <3>2
  <2> HIDE DEF t, V
  <2>6. Len(text) = Len(t)
    <3>1. \A a, b \in Nat : a <= b /\ b <= a => a = b
      OBVIOUS
    <3> QED BY <1>1, <2>4, <2>5, <3>1, Zenon
  <2>7. text = t
    BY <2>4, <2>5, <2>6, SeqEqual
  <2> QED BY <2>7 DEF t
<1> QED BY <1>2, <1>3

\* If every slot has an end, the items are those of the slots before the first empty one.
ItemsOfSlots(m, last) ==
  /\ last \in 0..MaxItems
  /\ Items(m) = [i \in 1..last |-> CString(m, ItemAt(i))]
  /\ \A i \in 1..last : CString(m, ItemAt(i)) # <<>>
  /\ last = MaxItems \/ CString(m, ItemAt(last + 1)) = <<>>

\* The items of a stack are its slots up to the first empty one.
LEMMA ItemsAre ==
  ASSUME NEW m, DOMAIN m = 0..StackEnd,
         \A j \in 1..MaxItems : m[ItemAt(j) + ItemLen] = Nul
  PROVE  \E last : ItemsOfSlots(m, last)
<1> DEFINE item(i) == CString(m, ItemAt(i))
           quoted(i) == [j \in 1..(i - 1) |-> Quoted(item(j))]
           used(i) == Len(FlattenSeq(quoted(i)))
           T == {i \in 0..MaxItems : \/ i = MaxItems
                                     \/ item(i + 1) = <<>>
                                     \/ used(i + 1) >= TextLen}
           last == Min(T)
           S == Range(m) \cup {Quote, Comma}
           w == ItemLen + 3
<1>1. ItemLen \in Nat \ {0} /\ MaxItems \in Nat \ {0} /\ StackEnd \in Nat
  BY Offsets, LimitsArePositive
<1>2. Items(m) = [i \in 1..last |-> item(i)]
  BY Zenon DEF Items
<1>3. ASSUME NEW i \in 1..MaxItems
      PROVE  item(i) \in Seq(S) /\ Len(item(i)) <= ItemLen
  <2>1. ItemAt(i) \in 0..StackEnd /\ ItemAt(i) + ItemLen <= StackEnd
    BY <1>1, Offsets
  <2>2. CString(m, ItemAt(i)) \in Seq(Range(m)) /\ Len(CString(m, ItemAt(i))) <= ItemLen
    BY <1>1, <2>1, CStringBound
  <2> QED BY <2>2
<1> HIDE DEF item
<1>4. T \subseteq Nat /\ MaxItems \in T
  BY <1>1
<1>5. last \in T /\ \A i \in T : last <= i
  <2> HIDE DEF T
  <2> QED BY <1>4, MinIs
<1>6. last \in 0..MaxItems
  BY <1>5
<1>7. /\ last = MaxItems \/ item(last + 1) = <<>> \/ used(last + 1) >= TextLen
  BY <1>5
<1>8. ASSUME NEW i \in 1..last PROVE item(i) # <<>>
  <2>1. i - 1 \in 0..MaxItems /\ (i - 1) + 1 = i /\ ~(last <= i - 1)
    BY <1>1, <1>6
  <2>2. i - 1 \notin T
    <3> HIDE DEF T, last
    <3> QED BY <1>5, <2>1
  <2> HIDE DEF used
  <2> QED BY <2>1, <2>2
<1>9. last = MaxItems \/ item(last + 1) = <<>>
  <2> SUFFICES ASSUME last # MaxItems, used(last + 1) >= TextLen PROVE FALSE
    BY <1>7
  <2> HIDE DEF T, last
  <2> DEFINE ss == quoted(last + 1)
  <2>1. (last + 1) - 1 = last /\ last \in Nat /\ last < MaxItems
    BY <1>1, <1>6
  <2>2. ss = [j \in 1..last |-> Quoted(item(j))]
    BY <2>1, Zenon
  <2>3. ASSUME NEW i \in 1..last
        PROVE  ss[i] \in Seq(S) /\ Len(ss[i]) <= w
    <3>1. i \in 1..MaxItems
      BY <1>1, <1>6
    <3>2. item(i) \in Seq(S) /\ Len(item(i)) <= ItemLen /\ Quote \in S /\ Comma \in S
      BY <1>3, <3>1
    <3>3. ss[i] = Quoted(item(i))
      BY <2>2
    <3> HIDE DEF ss, S
    <3>4. Quoted(item(i)) \in Seq(S) /\ Len(Quoted(item(i))) = Len(item(i)) + 3
      BY <3>2, QuotedLength
    <3>5. Len(item(i)) \in Nat
      BY <3>2
    <3> QED BY <1>1, <3>2, <3>3, <3>4, <3>5
  <2>4. ss = [i \in 1..last |-> ss[i]]
    BY <2>2, Zenon
  <2> HIDE DEF ss, S
  <2>5. ss \in Seq(Seq(S)) /\ Len(ss) = last
    BY <2>1, <2>3, <2>4, FunctionIsSeq
  <2>6. Len(FlattenSeq(ss)) \in Nat /\ Len(FlattenSeq(ss)) <= last * w
    <3>1. w \in Nat
      BY <1>1
    <3>2. \A j \in 1..Len(ss) : Len(ss[j]) <= w
      BY <2>3, <2>5, Zenon
    <3> HIDE DEF w
    <3>3. Len(FlattenSeq(ss)) \in Nat /\ Len(FlattenSeq(ss)) <= Len(ss) * w
      BY <2>5, <3>1, <3>2, JoinBound
    <3> QED BY <2>5, <3>3, Zenon
  <2>7. last * w < MaxItems * w /\ last * w \in Nat /\ MaxItems * w \in Nat
    <3> DEFINE d == MaxItems - last - 1
    <3>1. d \in Nat /\ MaxItems = last + (d + 1)
      BY <1>1, <2>1
    <3>2. w \in Nat /\ w > 0
      BY <1>1
    <3> HIDE DEF d, w
    <3>3. (last + (d + 1)) * w = last * w + (d * w + w) /\ d * w \in Nat /\ last * w \in Nat
      BY <2>1, <3>1, <3>2
    <3>4. last * w < (last + (d + 1)) * w /\ (last + (d + 1)) * w \in Nat
      BY <3>2, <3>3
    <3> QED BY <3>1, <3>3, <3>4, Zenon
  <2> HIDE DEF w
  <2>8. TextLen = MaxItems * w
    BY Zenon DEF TextLen, w
  <2>9. used(last + 1) = Len(FlattenSeq(ss))
    BY Zenon DEF ss
  <2>10. Len(FlattenSeq(ss)) >= MaxItems * w
    BY <2>8, <2>9, Zenon
  <2> QED BY <2>6, <2>7, <2>10
<1>10. ItemsOfSlots(m, last)
  BY <1>2, <1>6, <1>8, <1>9, Zenon DEF ItemsOfSlots, item
<1> QED BY <1>10

\* An array that holds zeros and characters of D.
Holds(m, n, D) == DOMAIN m = 0..n /\ \A i \in 0..n : m[i] = Nul \/ m[i] \in D

\* A C string has characters that its array holds.
LEMMA CStringOver ==
  ASSUME NEW n \in Nat, NEW m, NEW D, Holds(m, n, D), NEW at \in 0..n, m[n] = Nul
  PROVE  CString(m, at) \in Seq(D)
<1> DEFINE s == CString(m, at)
           len == n - at
<1>1. len \in Nat /\ at + len = n /\ at + len <= n /\ DOMAIN m = 0..n
      /\ \A o \in 0..len : at + o \in 0..n
  BY Zenon, SMT DEF Holds
<1>2. Reads(m, at, s, len)
  <2> HIDE DEF len
  <2>1. m[at + len] = Nul
    BY <1>1, Zenon
  <2> QED BY <1>1, <2>1, CStringReads
<1> HIDE DEF s, len
<1>3. /\ s \in Seq(Range(m)) /\ Len(s) \in 0..len
      /\ \A o \in 0..(Len(s) - 1) : s[o + 1] = m[at + o] /\ m[at + o] # Nul
  BY <1>2, Zenon DEF Reads
<1> DEFINE l == Len(s)
<1>4. l \in Nat /\ s = [j \in 1..l |-> s[j]] /\ l <= len
  BY <1>1, <1>3
<1>5. ASSUME NEW j \in 1..l PROVE s[j] \in D
  <2>1. j - 1 \in 0..(l - 1) /\ (j - 1) + 1 = j /\ j - 1 \in 0..len
    <3> HIDE DEF l
    <3> QED BY <1>1, <1>4
  <2>2. s[j] = m[at + (j - 1)] /\ m[at + (j - 1)] # Nul /\ at + (j - 1) \in 0..n
    BY <1>1, <1>3, <2>1, Zenon
  <2> QED BY <2>2, Zenon DEF Holds
<1> HIDE DEF l
<1>6. s \in Seq(D)
  BY <1>4, <1>5, FunctionIsSeq, Zenon
<1> QED BY <1>6 DEF s

\* The items of a stack have characters that it holds.
LEMMA ItemsOver ==
  ASSUME NEW m, NEW D, Holds(m, StackEnd, D), m[StackEnd] = Nul
  PROVE  Items(m) \in Seq(Seq(D))
<1> DEFINE item(i) == CString(m, ItemAt(i))
           used(i) == Len(FlattenSeq([j \in 1..(i - 1) |-> Quoted(item(j))]))
           T == {i \in 0..MaxItems : \/ i = MaxItems
                                     \/ item(i + 1) = <<>>
                                     \/ used(i + 1) >= TextLen}
           last == Min(T)
           Q == Seq(D)
<1>1. MaxItems \in Nat /\ StackEnd \in Nat /\ ItemLen \in Nat
  BY Offsets, LimitsArePositive
<1>2. Items(m) = [i \in 1..last |-> item(i)]
  BY Zenon DEF Items
<1>3. last \in 0..MaxItems
  <2> HIDE DEF item, used
  <2>1. T \subseteq Nat /\ MaxItems \in T /\ T \subseteq 0..MaxItems
    BY <1>1
  <2> HIDE DEF T
  <2> QED BY <2>1, MinIs
<1>4. ASSUME NEW i \in 1..last PROVE item(i) \in Q
  <2>1. i \in 1..MaxItems
    <3> HIDE DEF last
    <3> QED BY <1>1, <1>3
  <2>2. ItemAt(i) \in Nat /\ ItemAt(i) + ItemLen + 1 <= StackEnd
    BY <2>1, Offsets
  <2>3. ItemAt(i) \in 0..StackEnd
    BY <1>1, <2>2
  <2> QED BY <1>1, <2>3, CStringOver, Zenon
<1>5. last \in Nat
  <2> HIDE DEF last
  <2> QED BY <1>1, <1>3
<1> HIDE DEF last, Q, item
<1> DEFINE s == [i \in 1..last |-> item(i)]
<1>6. s = [i \in 1..last |-> s[i]] /\ \A i \in 1..last : s[i] \in Q
  BY <1>4, Zenon
<1> HIDE DEF s
<1>7. s \in Seq(Q)
  BY <1>5, <1>6, FunctionIsSeq, Zenon
<1> QED BY <1>2, <1>7, Zenon DEF s, Q

-----------------------------------------------------------------------------
(* What the rows hold.                                                     *)

\* Every item is a whole one, and made of what was sent for its slot.
StoredItems(items, fields) ==
  /\ \E S : ListOver(S, items)
  /\ WholeItems(items) /\ Len(items) <= MaxItems
  /\ \A t \in 1..Len(items) : Mixture(items[t], ItemTexts(fields, Len(fields) + 1, t))

ListsFit(fields) ==
  \A i \in DOMAIN fields :
    fields[i].name = "stack" /\ fields[i].type = "array" => ItemsFit(fields[i].val)

RowKept(row) ==
  /\ FieldsAreJson(row.sent) /\ ListsFit(row.sent)
  /\ IsSeq(row.apelido) /\ Len(row.apelido) <= NamesEnd
  /\ row.apelido # <<>> => row.apelido[1] # Nul
  /\ IsSeq(row.nome) /\ Len(row.nome) <= NomeLen + 1
  /\ IsSeq(row.stack)
  /\ InLimits(row.sent) =>
       /\ Mixture(row.apelido, Texts(row.sent, Len(row.sent) + 1, "apelido"))
       /\ Mixture(row.nome, Texts(row.sent, Len(row.sent) + 1, "nome"))
       /\ \E items : StoredItems(items, row.sent) /\ row.stack = StackText(items)
  /\ Plain(row.sent) => /\ row.nascimento = DateOf[The(row.sent, "nascimento")]
                        /\ row.stack = StackText(SentItems(row.sent))

RowsKept == \A i \in DOMAIN rows : RowKept(rows[i])

\* The primary key.
IdsUnique == \A i, j \in DOMAIN rows : rows[i].id = rows[j].id => i = j

\* The field of a plain body that has a name.
LEMMA TheIs ==
  ASSUME NEW fields, Plain(fields), NEW i \in DOMAIN fields
  PROVE  The(fields, fields[i].name) = fields[i].val
<1>1. \A j \in DOMAIN fields : fields[j].name = fields[i].name => j = i
  BY Zenon DEF Plain
<1> QED BY <1>1, Zenon DEF The

\* The lists that were read, when all fields were.
LEMMA ListsOfBody ==
  ASSUME IInv, AllRead, ListsRead, pc = "parsed"
  PROVE  ListsFit(body)
<1>1. \A i \in DOMAIN body : i < k
  BY BodyIsSeq DEF IInv, AllRead
<1> QED BY <1>1, Zenon DEF ListsRead, ListsFit, TakesItems

\* The values of a body within the limits fit their arrays.
LEMMA TextsAreShort ==
  ASSUME NEW fields, FieldsAreJson(fields), InLimits(fields), ListsFit(fields), NEW n
  PROVE  /\ ShortTexts(Texts(fields, n, "apelido"), ApelidoLen)
         /\ ShortTexts(Texts(fields, n, "nome"), NomeLen)
         /\ \A t : /\ ShortTexts(ItemTexts(fields, n, t), ItemLen)
                   /\ \A i \in DOMAIN ItemTexts(fields, n, t) :
                        Range(ItemTexts(fields, n, t)[i]) \cap {Quote, Comma} = {}
<1>1. ASSUME NEW name, NEW max, \A i \in DOMAIN fields : fields[i].name = name => Printable(fields[i].val, max)
      PROVE  ShortTexts(Texts(fields, n, name), max)
  <2>1. \A i \in DOMAIN Texts(fields, n, name) :
          /\ i \in DOMAIN fields /\ fields[i].name = name /\ fields[i].type = "string"
          /\ Texts(fields, n, name)[i] = fields[i].val
    BY Zenon DEF Texts
  <2>2. \A i \in DOMAIN fields : fields[i].type = "string" => IsSeq(fields[i].val)
    BY Zenon DEF FieldsAreJson
  <2> QED BY <1>1, <2>1, <2>2, Zenon DEF ShortTexts
<1>2. ASSUME NEW t, NEW i \in DOMAIN ItemTexts(fields, n, t)
      PROVE  /\ IsSeq(ItemTexts(fields, n, t)[i]) /\ Printable(ItemTexts(fields, n, t)[i], ItemLen)
             /\ Range(ItemTexts(fields, n, t)[i]) \cap {Quote, Comma} = {}
  <2>1. /\ i \in DOMAIN fields /\ fields[i].name = "stack" /\ fields[i].type = "array"
        /\ t \in DOMAIN fields[i].val /\ ItemTexts(fields, n, t)[i] = fields[i].val[t].val
    BY Zenon DEF ItemTexts
  <2>2. fields[i].val[t] \in Range(fields[i].val)
    BY <2>1, Zenon DEF Range
  <2>3. fields[i].val[t].type = "string"
    BY <2>1, Zenon DEF ListsFit, ItemsFit
  <2>4. IsSeq(fields[i].val[t].val)
    BY <2>1, <2>3, Zenon DEF FieldsAreJson
  <2> QED BY <2>1, <2>2, <2>4, Zenon DEF InLimits
<1>3. /\ \A i \in DOMAIN fields : fields[i].name = "apelido" => Printable(fields[i].val, ApelidoLen)
      /\ \A i \in DOMAIN fields : fields[i].name = "nome" => Printable(fields[i].val, NomeLen)
  BY Zenon DEF InLimits
<1> QED BY <1>1, <1>2, <1>3, Zenon DEF ShortTexts

\* The items that are printed are whole, and those of their slots.
LEMMA ItemsStored ==
  ASSUME IInv, AllRead, ArraysKept, pc = "parsed", InLimits(body)
  PROVE  StoredItems(Items(stack), body)
<1>1. /\ FieldsAreJson(body) /\ ListsFit(body) /\ DOMAIN stack = 0..StackEnd
      /\ k = Len(body) + 1
  BY ListsOfBody DEF IInv, BodyOK, PessoaTypeOK, AllRead, ArraysKept
<1>2. ItemLen \in Nat \ {0} /\ MaxItems \in Nat \ {0} /\ StackEnd \in Nat
  BY Offsets, LimitsArePositive
<1> DEFINE v(t) == ItemTexts(body, Len(body) + 1, t)
           c(t) == CString(stack, ItemAt(t))
           S == Range(stack) \cup {Quote, Comma}
           items == Items(stack)
<1>3. ASSUME NEW t \in 1..MaxItems
      PROVE  /\ stack[ItemAt(t) + ItemLen] = Nul
             /\ Reads(stack, ItemAt(t), c(t), ItemLen)
             /\ c(t) # <<>> => Mixture(c(t), v(t))
  <2>1. /\ Mixes(stack, ItemAt(t), ItemLen, v(t))
        /\ (t = 1 /\ stack[0] = Nul) \/ ShowsLast(stack, ItemAt(t), v(t))
    BY <1>1, Zenon DEF ArraysKept, ItemsKept
  <2>2. ItemAt(t) \in Nat /\ ItemAt(t) + ItemLen <= StackEnd /\ (t = 1 => ItemAt(t) = 0)
    BY <1>2, Offsets, SlotsApart
  <2>3. ShortTexts(v(t), ItemLen)
    BY <1>1, TextsAreShort, Zenon
  <2> HIDE DEF v
  <2>4. /\ stack[ItemAt(t) + ItemLen] = Nul
        /\ Reads(stack, ItemAt(t), c(t), ItemLen)
        /\ ShowsLast(stack, ItemAt(t), v(t)) => Mixture(c(t), v(t))
    BY <1>1, <1>2, <2>1, <2>2, <2>3, KeptString
  <2>5. ASSUME t = 1, stack[0] = Nul PROVE c(t) = <<>>
    <3>1. /\ c(t) \in Seq(Range(stack)) /\ Len(c(t)) \in 0..ItemLen
          /\ \A o \in 0..(Len(c(t)) - 1) : stack[ItemAt(t) + o] # Nul
      BY <2>4, Zenon DEF Reads
    <3> HIDE DEF c
    <3>2. Len(c(t)) = 0
      <4> SUFFICES ASSUME Len(c(t)) # 0 PROVE FALSE
        OBVIOUS
      <4>1. 0 \in 0..(Len(c(t)) - 1) /\ ItemAt(t) + 0 = 0
        BY <2>2, <2>5, <3>1
      <4>2. stack[ItemAt(t) + 0] # Nul
        BY <3>1, <4>1, Zenon
      <4> QED BY <2>5, <4>1, <4>2, Zenon
    <3> QED BY <3>1, <3>2
  <2> QED BY <2>1, <2>4, <2>5, Zenon
<1>4. PICK last : ItemsOfSlots(stack, last)
  BY <1>1, <1>3, ItemsAre
<1>5. /\ last \in 0..MaxItems /\ items = [i \in 1..last |-> c(i)]
      /\ \A i \in 1..last : c(i) # <<>>
  BY <1>4, Zenon DEF ItemsOfSlots
<1> HIDE DEF items
<1>6. \A t \in 1..last : /\ t \in 1..MaxItems /\ items[t] = c(t)
  BY <1>2, <1>5
<1> HIDE DEF c, v
<1>7. ASSUME NEW t \in 1..last
      PROVE  items[t] \in Seq(S) /\ Mixture(items[t], v(t)) /\ Len(items[t]) >= 1
             /\ DOMAIN items[t] = 1..Len(items[t])
  <2>1. Reads(stack, ItemAt(t), c(t), ItemLen) /\ Mixture(c(t), v(t)) /\ c(t) # <<>>
    BY <1>3, <1>5, <1>6, Zenon
  <2>2. c(t) \in Seq(Range(stack)) /\ DOMAIN c(t) = 1..Len(c(t)) /\ Len(c(t)) \in Nat
    BY <2>1, <1>2 DEF Reads
  <2>3. c(t) \in Seq(S) /\ Len(c(t)) >= 1
    BY <2>1, <2>2
  <2> HIDE DEF S
  <2> QED BY <1>6, <2>1, <2>2, <2>3, Zenon
<1>8. last \in Nat /\ last <= MaxItems /\ items = [i \in 1..last |-> items[i]]
  <2>1. last \in Nat /\ last <= MaxItems
    BY <1>2, <1>5
  <2> QED BY <1>5, <2>1, Zenon
<1>9. items \in Seq(Seq(S)) /\ Len(items) = last
  <2> DEFINE V == Seq(S)
  <2>1. \A i \in 1..last : items[i] \in V
    BY <1>7, Zenon
  <2> HIDE DEF V
  <2>2. items \in Seq(V) /\ Len(items) = last
    BY <1>8, <2>1, FunctionIsSeq
  <2> QED BY <2>2 DEF V
<1>10. ListOver(S, items)
  <2>1. Quote \in S /\ Comma \in S
    OBVIOUS
  <2> HIDE DEF S
  <2> QED BY <1>9, <2>1, ListOverIs
<1>11. WholeItems(items)
  <2> SUFFICES ASSUME NEW t \in 1..last, NEW o \in 1..Len(items[t])
               PROVE  items[t][o] \notin Delimiters
    BY <1>7, <1>9, Zenon DEF WholeItems
  <2>1. PICK i \in DOMAIN v(t) : o \in DOMAIN v(t)[i] /\ items[t][o] = v(t)[i][o]
    BY <1>7, Zenon DEF Mixture
  <2>2. Range(v(t)[i]) \cap {Quote, Comma} = {}
    BY <1>1, <2>1, TextsAreShort, Zenon DEF v
  <2> QED BY <2>1, <2>2, Zenon DEF Range, Delimiters
<1> QED BY <1>7, <1>8, <1>9, <1>10, <1>11, Zenon DEF StoredItems, v, items

\* The values of a plain body are within the limits.
LEMMA PlainInLimits ==
  ASSUME NEW fields, Plain(fields)
  PROVE  InLimits(fields)
<1> SUFFICES ASSUME NEW i \in DOMAIN fields
             PROVE  /\ fields[i].name = "apelido" => Printable(fields[i].val, ApelidoLen)
                    /\ fields[i].name = "nome" => Printable(fields[i].val, NomeLen)
                    /\ fields[i].type = "array" =>
                         \A e \in Range(fields[i].val) :
                           Printable(e.val, ItemLen) /\ Range(e.val) \cap {Quote, Comma} = {}
  BY Zenon DEF InLimits
<1>1. /\ fields[i].name \in {"apelido", "nome", "nascimento", "stack", "id"}
      /\ fields[i].name \in {"apelido", "nome", "nascimento", "id"} => fields[i].type = "string"
      /\ fields[i].name = "apelido" => Printable(fields[i].val, ApelidoLen)
      /\ fields[i].name = "nome" => Printable(fields[i].val, NomeLen)
      /\ fields[i].name = "stack" /\ fields[i].type = "array" =>
           \A e \in Range(fields[i].val) :
             Printable(e.val, ItemLen) /\ \A c \in Range(e.val) : c \notin {Quote, Comma}
  <2>1. "null" # "array"
    OBVIOUS
  <2> QED BY <2>1, Zenon DEF Plain
<1>2. fields[i].type = "array" => fields[i].name = "stack"
  BY <1>1
<1>3. ASSUME fields[i].type = "array", NEW e \in Range(fields[i].val)
      PROVE  Printable(e.val, ItemLen) /\ Range(e.val) \cap {Quote, Comma} = {}
  <2>1. Printable(e.val, ItemLen) /\ \A c \in Range(e.val) : c \notin {Quote, Comma}
    BY <1>1, <1>2, <1>3, Zenon
  <2> QED BY <2>1, Zenon
<1> QED BY <1>1, <1>3

\* The items are those up to the first empty slot.
LEMMA ItemsEnd ==
  ASSUME NEW m, NEW last, ItemsOfSlots(m, last), NEW n \in 0..MaxItems,
         \A t \in 1..n : CString(m, ItemAt(t)) # <<>>,
         n # MaxItems => CString(m, ItemAt(n + 1)) = <<>>
  PROVE  Items(m) = [t \in 1..n |-> CString(m, ItemAt(t))]
<1> DEFINE c(t) == CString(m, ItemAt(t))
<1>1. /\ last \in 0..MaxItems /\ Items(m) = [t \in 1..last |-> c(t)]
      /\ \A t \in 1..last : c(t) # <<>>
      /\ last = MaxItems \/ c(last + 1) = <<>>
  BY Zenon DEF ItemsOfSlots
<1>2. /\ \A t \in 1..n : c(t) # <<>>
      /\ n # MaxItems => c(n + 1) = <<>>
  BY Zenon
<1> HIDE DEF c
<1>3. MaxItems \in Nat
  BY LimitsArePositive
<1>4. ~(last < n)
  <2> SUFFICES ASSUME last < n PROVE FALSE
    OBVIOUS
  <2>1. last + 1 \in 1..n /\ last # MaxItems
    BY <1>1, <1>3
  <2> QED BY <1>1, <1>2, <2>1, Zenon
<1>5. ~(n < last)
  <2> SUFFICES ASSUME n < last PROVE FALSE
    OBVIOUS
  <2>1. n + 1 \in 1..last /\ n # MaxItems
    BY <1>1, <1>3
  <2> QED BY <1>1, <1>2, <2>1, Zenon
<1>6. last = n
  BY <1>1, <1>3, <1>4, <1>5
<1> QED BY <1>1, <1>6, Zenon DEF c

\* The items of a plain body are what is printed.
LEMMA PlainItems ==
  ASSUME IInv, TInv, ArraysKept, pc = "parsed", Plain(body)
  PROVE  Items(stack) = SentItems(body)
<1> DEFINE v(t) == ItemTexts(body, Len(body) + 1, t)
           c(t) == CString(stack, ItemAt(t))
<1>1. /\ FieldsAreJson(body) /\ ListsFit(body) /\ DOMAIN stack = 0..StackEnd
      /\ k = Len(body) + 1 /\ InLimits(body) /\ \A i \in DOMAIN body : i < k /\ i \in Nat
  BY ListsOfBody, PlainInLimits, BodyIsSeq DEF TInv, IInv, BodyOK, PessoaTypeOK, AllRead, ArraysKept
<1>2. ItemLen \in Nat \ {0} /\ MaxItems \in Nat \ {0} /\ StackEnd \in Nat
  BY Offsets, LimitsArePositive
<1>3. ASSUME NEW t \in 1..MaxItems
      PROVE  /\ stack[ItemAt(t) + ItemLen] = Nul
             /\ (t = 1 /\ stack[0] = Nul) \/ Mixture(c(t), v(t))
             /\ stack[ItemAt(t)] = Nul <=> c(t) = <<>>
             /\ t = 1 => ItemAt(t) = 0
  <2>1. /\ Mixes(stack, ItemAt(t), ItemLen, v(t))
        /\ (t = 1 /\ stack[0] = Nul) \/ ShowsLast(stack, ItemAt(t), v(t))
    BY <1>1, Zenon DEF ArraysKept, ItemsKept
  <2>2. ItemAt(t) \in Nat /\ ItemAt(t) + ItemLen <= StackEnd /\ (t = 1 => ItemAt(t) = 0)
    BY <1>2, Offsets, SlotsApart
  <2>3. ShortTexts(v(t), ItemLen)
    BY <1>1, TextsAreShort, Zenon
  <2> HIDE DEF v
  <2>4. /\ stack[ItemAt(t) + ItemLen] = Nul
        /\ ShowsLast(stack, ItemAt(t), v(t)) => Mixture(c(t), v(t))
    BY <1>1, <1>2, <2>1, <2>2, <2>3, KeptString
  <2>5. c(t) = <<>> <=> stack[ItemAt(t)] = Nul
    <3>1. ItemAt(t) \in 0..StackEnd
      BY <1>2, <2>2
    <3> QED BY <1>1, <1>2, <2>2, <2>4, <3>1, CStringBound
  <2> QED BY <2>1, <2>2, <2>4, <2>5, Zenon
<1>4. PICK last : ItemsOfSlots(stack, last)
  BY <1>1, <1>3, ItemsAre
<1>5. stack[0] # Nul <=> \E i \in DOMAIN body : i < k /\ TakesItems(i)
  BY Zenon DEF TInv, StackHeld
<1>6. CASE stack[0] = Nul
  <2>1. SentItems(body) = <<>>
    <3>1. ~\E i \in DOMAIN body : TakesItems(i)
      BY <1>1, <1>5, <1>6, Zenon
    <3> QED BY <3>1, SentNothing
  <2>2. c(1) = <<>>
    <3>1. 1 \in 1..MaxItems
      BY <1>2
    <3> QED BY <1>3, <1>6, <3>1, Zenon
  <2>3. Items(stack) = [t \in 1..0 |-> c(t)]
    <3>1. 0 \in 0..MaxItems /\ (\A t \in 1..0 : FALSE) /\ 0 + 1 = 1
      BY <1>2
    <3>2. /\ \A t \in 1..0 : CString(stack, ItemAt(t)) # <<>>
          /\ 0 # MaxItems => CString(stack, ItemAt(0 + 1)) = <<>>
      BY <2>2, <3>1, Zenon
    <3> QED BY <1>4, <3>1, <3>2, ItemsEnd
  <2>4. [t \in 1..0 |-> c(t)] = <<>>
    <3> HIDE DEF c
    <3> QED OBVIOUS
  <2> QED BY <2>1, <2>3, <2>4, Zenon
<1>7. CASE stack[0] # Nul
  <2>1. PICK i \in DOMAIN body : TakesItems(i)
    BY <1>5, <1>7, Zenon
  <2> DEFINE val == body[i].val
             n == Len(val)
  <2>2. /\ body[i].name = "stack" /\ body[i].type = "array" /\ i < Len(body) + 1 /\ i \in Nat
        /\ \A j \in DOMAIN body : body[j].name = "stack" => j = i
        /\ The(body, "stack") = val
    <3>1. body[i].name = "stack" /\ body[i].type = "array"
      BY <2>1, Zenon DEF TakesItems
    <3>2. The(body, body[i].name) = val
      BY TheIs
    <3>3. \A j \in DOMAIN body : body[j].name = body[i].name => j = i
      BY Zenon DEF Plain
    <3>4. i < Len(body) + 1 /\ i \in Nat
      BY <1>1, Zenon
    <3> QED BY <3>1, <3>2, <3>3, <3>4, Zenon
  <2>3. n \in 1..MaxItems /\ DOMAIN val = 1..n
        /\ \A t \in 1..n : IsSeq(val[t].val) /\ Printable(val[t].val, ItemLen)
    <3>1. IsSeq(val) /\ ItemsFit(val)
      BY <1>1, <2>2, Zenon DEF FieldsAreJson, ListsFit
    <3>2. n \in 1..MaxItems /\ DOMAIN val = 1..n
      BY <1>2, <3>1 DEF IsSeq, ItemsFit
    <3>3. \A t \in DOMAIN val : val[t].type = "string"
      BY <3>1, Zenon DEF ItemsFit
    <3>4. \A t \in DOMAIN val : IsSeq(val[t].val)
      BY <1>1, <2>2, <3>3, Zenon DEF FieldsAreJson
    <3>5. \A t \in DOMAIN val : Printable(val[t].val, ItemLen)
      BY <1>1, <2>2, Zenon DEF InLimits, Range
    <3> QED BY <3>2, <3>4, <3>5, Zenon
  <2>4. ASSUME NEW t
        PROVE  /\ t \in 1..n => DOMAIN v(t) = {i} /\ v(t)[i] = val[t].val
               /\ t \notin 1..n => DOMAIN v(t) = {}
    <3>1. DOMAIN v(t) = {j \in DOMAIN body : /\ j < Len(body) + 1 /\ body[j].name = "stack"
                                             /\ body[j].type = "array" /\ t \in DOMAIN body[j].val}
      BY Zenon DEF ItemTexts
    <3>2. \A j \in DOMAIN v(t) : v(t)[j] = body[j].val[t].val
      BY Zenon DEF ItemTexts
    <3> HIDE DEF v
    <3>3. \A j \in DOMAIN v(t) : j = i /\ t \in 1..n
      BY <2>2, <2>3, <3>1, Zenon
    <3>4. t \in 1..n => i \in DOMAIN v(t)
      BY <2>2, <2>3, <3>1, Zenon
    <3>5. /\ t \in 1..n => DOMAIN v(t) = {i}
          /\ t \notin 1..n => DOMAIN v(t) = {}
      <4> DEFINE D == DOMAIN v(t)
      <4> HIDE DEF val, n
      <4> QED BY <3>3, <3>4
    <3> QED BY <3>2, <3>4, <3>5, Zenon
  <2> HIDE DEF v
  <2>5. \A t \in 1..MaxItems : Mixture(c(t), v(t))
    BY <1>3, <1>7, Zenon
  <2> HIDE DEF c, n
  <2>6. ASSUME NEW t \in 1..n PROVE c(t) = val[t].val /\ c(t) # <<>>
    <3>1. t \in 1..MaxItems
      BY <1>2, <2>3
    <3>2. Mixture(c(t), v(t)) /\ DOMAIN v(t) = {i} /\ IsSeq(v(t)[i]) /\ v(t)[i] = val[t].val
      BY <2>3, <2>4, <2>5, <3>1, Zenon
    <3>3. c(t) = v(t)[i]
      BY <2>2, <3>2, MixtureOfFew
    <3>4. Len(val[t].val) \in 1..ItemLen
      BY <2>3, Zenon DEF Printable
    <3>5. Len(<<>>) = 0 /\ \A x \in 1..ItemLen : x # 0
      BY <1>2
    <3> QED BY <3>2, <3>3, <3>4, <3>5, Zenon
  <2>7. n # MaxItems => c(n + 1) = <<>>
    <3> SUFFICES ASSUME n # MaxItems PROVE c(n + 1) = <<>>
      OBVIOUS
    <3>1. n + 1 \in 1..MaxItems /\ n + 1 \notin 1..n
      BY <1>2, <2>3
    <3>2. Mixture(c(n + 1), v(n + 1)) /\ DOMAIN v(n + 1) = {}
      BY <2>4, <2>5, <3>1, Zenon
    <3> QED BY <3>2, MixtureOfFew
  <2>8. Items(stack) = [t \in 1..n |-> c(t)]
    <3>1. n \in 0..MaxItems
      BY <1>2, <2>3
    <3>2. /\ \A t \in 1..n : CString(stack, ItemAt(t)) # <<>>
          /\ n # MaxItems => CString(stack, ItemAt(n + 1)) = <<>>
      BY <2>6, <2>7, Zenon DEF c
    <3> QED BY <1>4, <3>1, <3>2, ItemsEnd DEF c
  <2>9. SentItems(body) = [t \in 1..n |-> val[t].val]
    <3>1. SentItems(body) = [t \in DOMAIN val |-> val[t].val]
      BY <2>2, Zenon DEF SentItems
    <3> QED BY <2>3, <3>1, Zenon
  <2> QED BY <2>6, <2>8, <2>9, Zenon
<1> QED BY <1>6, <1>7

\* What Create inserts (db.c:107-192) is what the arrays hold.
LEMMA RowStored ==
  ASSUME IInv, TInv, ArraysKept, pc = "parsed", NEW id, NEW row,
         row = [id |-> id, apelido |-> CString(names, 0),
                nome |-> CString(names, NomeAt), nascimento |-> born,
                stack |-> StackText(Items(stack)), sent |-> body]
  PROVE  RowKept(row)
<1>1. /\ FieldsAreJson(body) /\ ListsFit(body) /\ DOMAIN names = 0..NamesEnd
      /\ k = Len(body) + 1 /\ names[NamesEnd] = Nul /\ \A i \in DOMAIN body : i < k
      /\ AllRead
  BY ListsOfBody, BodyIsSeq DEF TInv, IInv, BodyOK, PessoaTypeOK, AllRead, ArraysKept, StringsEnd
<1>2. /\ row.apelido = CString(names, 0) /\ row.nome = CString(names, NomeAt)
      /\ row.nascimento = born /\ row.stack = StackText(Items(stack)) /\ row.sent = body
  OBVIOUS
<1>3. /\ ApelidoLen \in Nat /\ NomeLen \in Nat /\ NamesEnd \in Nat /\ NomeAt \in Nat
      /\ NomeAt + NomeLen + 1 = NamesEnd /\ NomeAt = ApelidoLen + 1
  BY Offsets, LimitsArePositive DEF NamesEnd, NomeAt
<1>4. /\ Reads(names, 0, row.apelido, NamesEnd)
      /\ Reads(names, NomeAt, row.nome, NomeLen + 1)
  <2>1. /\ 0 \in 0..NamesEnd /\ NomeAt \in 0..NamesEnd /\ 0 + NamesEnd <= NamesEnd
        /\ NomeLen + 1 \in Nat /\ NomeAt + (NomeLen + 1) = NamesEnd /\ 0 + NamesEnd = NamesEnd
        /\ NomeAt + (NomeLen + 1) <= NamesEnd
    BY <1>3
  <2>2. names[0 + NamesEnd] = Nul /\ names[NomeAt + (NomeLen + 1)] = Nul
    BY <1>1, <2>1, Zenon
  <2> QED BY <1>1, <1>2, <1>3, <2>1, <2>2, CStringReads
<1>5. /\ IsSeq(row.apelido) /\ Len(row.apelido) <= NamesEnd
      /\ row.apelido # <<>> => row.apelido[1] # Nul
      /\ IsSeq(row.nome) /\ Len(row.nome) <= NomeLen + 1
  <2> DEFINE x == row.apelido
             y == row.nome
  <2>1. /\ x \in Seq(Range(names)) /\ Len(x) \in 0..NamesEnd
        /\ \A o \in 0..(Len(x) - 1) : x[o + 1] = names[0 + o] /\ names[0 + o] # Nul
        /\ y \in Seq(Range(names)) /\ Len(y) \in 0..(NomeLen + 1)
    BY <1>4, Zenon DEF Reads
  <2> HIDE DEF x, y
  <2>2. IsSeq(x) /\ IsSeq(y)
    BY <2>1 DEF IsSeq, Range
  <2>3. Len(x) <= NamesEnd /\ Len(y) <= NomeLen + 1
    BY <1>3, <2>1
  <2>4. ASSUME x # <<>> PROVE x[1] # Nul
    <3>1. Len(x) # 0
      BY <2>1, <2>4
    <3>2. 0 \in 0..(Len(x) - 1) /\ 0 + 1 = 1
      BY <1>3, <2>1, <3>1
    <3>3. x[0 + 1] = names[0 + 0] /\ names[0 + 0] # Nul
      BY <2>1, <3>2, Zenon
    <3> QED BY <3>2, <3>3, Zenon
  <2> QED BY <2>2, <2>3, <2>4, Zenon DEF x, y
<1>6. ASSUME InLimits(body)
      PROVE  /\ Mixture(row.apelido, Texts(body, Len(body) + 1, "apelido"))
             /\ Mixture(row.nome, Texts(body, Len(body) + 1, "nome"))
             /\ StoredItems(Items(stack), body)
  <2> DEFINE va == Texts(body, Len(body) + 1, "apelido")
             vn == Texts(body, Len(body) + 1, "nome")
  <2>1. /\ Mixes(names, 0, ApelidoLen, va) /\ ShowsLast(names, 0, va)
        /\ Mixes(names, NomeAt, NomeLen, vn) /\ ShowsLast(names, NomeAt, vn)
    BY <1>1, <1>6, Zenon DEF ArraysKept, NamesKept
  <2>2. ShortTexts(va, ApelidoLen) /\ ShortTexts(vn, NomeLen)
    BY <1>1, <1>6, TextsAreShort, Zenon
  <2> HIDE DEF va, vn
  <2>3. Mixture(CString(names, 0), va)
    <3>1. 0 + ApelidoLen <= NamesEnd
      BY <1>3
    <3> QED BY <1>1, <1>3, <2>1, <2>2, <3>1, KeptString
  <2>4. Mixture(CString(names, NomeAt), vn)
    <3>1. NomeAt + NomeLen <= NamesEnd
      BY <1>3
    <3> QED BY <1>1, <1>3, <2>1, <2>2, <3>1, KeptString
  <2> QED BY <1>1, <1>2, <1>6, <2>3, <2>4, ItemsStored, Zenon DEF va, vn
<1>7. ASSUME Plain(body) PROVE born = DateOf[The(body, "nascimento")]
  <2>1. PICK i \in DOMAIN body : body[i].name = "nascimento"
    BY <1>7, Zenon DEF Plain
  <2>2. The(body, "nascimento") = body[i].val
    <3>1. The(body, body[i].name) = body[i].val
      BY <1>7, TheIs
    <3> QED BY <2>1, <3>1, Zenon
  <2>3. pc # "idle"
    OBVIOUS
  <2> QED BY <1>1, <1>7, <2>1, <2>2, <2>3, Zenon DEF ArraysKept, DateKept
<1>8. Plain(body) => Items(stack) = SentItems(body)
  BY PlainItems
<1>9. IsSeq(row.stack)
  <2> DEFINE D == Range(stack)
             S == D \cup {Quote, Comma}
             items == Items(stack)
  <2>1. DOMAIN stack = 0..StackEnd /\ stack[StackEnd] = Nul
    BY Zenon DEF IInv, PessoaTypeOK, StringsEnd
  <2>2. Holds(stack, StackEnd, D)
    BY <2>1, Zenon DEF Holds, Range
  <2>3. items \in Seq(Seq(D))
    BY <2>1, <2>2, ItemsOver
  <2> HIDE DEF items, D
  <2>4. items \in Seq(Seq(S)) /\ Quote \in S /\ Comma \in S
    BY <2>3
  <2> HIDE DEF S
  <2>5. StackText(items) \in Seq(S)
    BY <2>4, StackTextIs, Zenon
  <2> DEFINE x == StackText(items)
  <2> HIDE DEF x
  <2>6. x \in Seq(S)
    BY <2>5, Zenon DEF x
  <2>7. IsSeq(x)
    BY <2>6 DEF IsSeq, Range
  <2> QED BY <1>2, <2>7, Zenon DEF x, items
<1> QED BY <1>1, <1>2, <1>5, <1>6, <1>7, <1>8, <1>9, Zenon DEF RowKept

-----------------------------------------------------------------------------
\* The inductive invariant of the rows: what was stored is what was sent, within the limits.
RInv == RowsKept /\ IdsUnique

\* Initially there is no row.
LEMMA InitRows == Init => RInv
  BY DEF Init, RInv, RowsKept, IdsUnique

\* A new row has the id that was given last, and keeps its texts.
LEMMA CreateRows == ASSUME IInv, TInv, ArraysKept, RInv, Create PROVE RInv'
<1> DEFINE row == [id |-> posts, apelido |-> CString(names, 0),
                   nome |-> CString(names, NomeAt), nascimento |-> born,
                   stack |-> StackText(Items(stack)), sent |-> body]
<1>1. /\ pc = "parsed"
      /\ rows' = rows \/ \E p \in 1..(Len(rows) + 1) : rows' = InsertAt(rows, p, row)
  BY Zenon DEF Create
<1>2. RowKept(row)
  BY <1>1, RowStored
<1>3. row.id = posts
  OBVIOUS
<1> HIDE DEF row
<1>4. CASE rows' = rows
  <2>1. RowsKept' /\ IdsUnique'
    BY <1>4 DEF RInv, RowsKept, IdsUnique
  <2> QED BY <2>1 DEF RInv
<1>5. ASSUME NEW p \in 1..(Len(rows) + 1), rows' = InsertAt(rows, p, row) PROVE RInv'
  <2>1. IsSeq(rows)
    BY DEF IInv, PessoaTypeOK
  <2>2. Inserted(rows, p, row, rows')
    BY <1>5, <2>1, InsertIs
  <2>3. /\ DOMAIN rows' \subseteq Int /\ p \in DOMAIN rows' /\ rows'[p] = row
        /\ \A i \in DOMAIN rows' : /\ i < p => i \in DOMAIN rows /\ rows'[i] = rows[i]
                                   /\ i > p => i - 1 \in DOMAIN rows /\ rows'[i] = rows[i - 1]
    <3>1. DOMAIN rows' = 1..(Len(rows) + 1) /\ 1..(Len(rows) + 1) \subseteq Int
      BY <2>2 DEF Inserted
    <3> QED BY <2>2, <3>1, Zenon DEF Inserted
  <2>4. \A i \in DOMAIN rows' : i < p \/ i = p \/ i > p
    BY <2>3
  <2>5. RowsKept'
    <3>1. \A i \in DOMAIN rows' : RowKept(rows'[i])
      BY <1>2, <2>3, <2>4, Zenon DEF RInv, RowsKept
    <3> QED BY <3>1 DEF RowsKept
  <2>6. IdsUnique'
    <3>1. \A i \in DOMAIN rows : rows[i].id # posts
      BY <1>1 DEF TInv, RowIds
    <3> SUFFICES ASSUME NEW i \in DOMAIN rows', NEW j \in DOMAIN rows', rows'[i].id = rows'[j].id
                 PROVE  i = j
      BY DEF IdsUnique
    <3> DEFINE at(x) == IF x < p THEN x ELSE x - 1
    <3>2. \A x \in DOMAIN rows' : x # p => at(x) \in DOMAIN rows /\ rows'[x] = rows[at(x)]
      <4> SUFFICES ASSUME NEW x \in DOMAIN rows', x # p
                   PROVE  at(x) \in DOMAIN rows /\ rows'[x] = rows[at(x)]
        OBVIOUS
      <4>1. CASE x < p
        BY <2>3, <4>1, Zenon
      <4>2. CASE x > p
        <5>1. ~(x < p)
          BY <2>3, <4>2
        <5> QED BY <2>3, <4>2, <5>1, Zenon
      <4> QED BY <2>4, <4>1, <4>2
    <3>3. i = p <=> j = p
      <4> HIDE DEF at
      <4>1. \A x \in DOMAIN rows' : x # p => rows'[x].id # posts
        BY <3>1, <3>2, Zenon
      <4>2. rows'[p].id = posts
        BY <1>3, <2>3, Zenon
      <4> QED BY <4>1, <4>2, Zenon
    <3>4. CASE i # p /\ j # p
      <4>1. at(i) = at(j)
        BY <3>2, <3>4, ZenonT(60) DEF RInv, IdsUnique
      <4>2. i \in Int /\ j \in Int /\ p \in Int
        BY <2>3
      <4> QED BY <3>4, <4>1, <4>2
    <3> QED BY <3>3, <3>4
  <2> QED BY <2>5, <2>6 DEF RInv
<1> QED BY <1>1, <1>4, <1>5, Zenon

\* Every step keeps the rows and what is known of them.
LEMMA NextRows == ASSUME IInv, TInv, ArraysKept, RInv, [Next]_vars PROVE RInv'
<1>1. CASE rows' = rows
  BY <1>1 DEF RInv, RowsKept, IdsUnique
<1>2. CASE Create
  BY <1>2, CreateRows
<1>3. [Next]_vars => rows' = rows \/ Create
  <2>1. \A b : Begin(b) => rows' = rows
    BY DEF Begin
  <2>2. FieldStep => rows' = rows
    BY FieldShape
  <2>3. Refuse => rows' = rows
    BY DEF Refuse
  <2>4. UNCHANGED vars => rows' = rows
    BY DEF vars
  <2> QED BY <2>1, <2>2, <2>3, <2>4, Zenon DEF Next, FieldStep
<1> QED BY <1>1, <1>2, <1>3

(* What the arrays and the rows hold of bodies whose texts are within the  *)
(* limits, in every behaviour.                                             *)
THEOREM RowsHeld == Spec => [](IInv /\ ArraysKept /\ RInv)
<1>1. Init => ArraysKept /\ RInv
  BY InitArrays, InitRows
<1>2. IInv /\ TInv /\ ArraysKept /\ RInv /\ [Next]_vars => ArraysKept' /\ RInv'
  BY NextArrays, NextRows
<1> QED BY <1>1, <1>2, Inductive, Held, PTL DEF Spec

-----------------------------------------------------------------------------
(* The elements of a sequence at some of its places.                       *)

PicksUpto(s, places, f) ==
  /\ f[0] = <<>>
  /\ \A i \in 1..Len(s) : /\ i \in places => f[i] = Append(f[i - 1], s[i])
                          /\ i \notin places => f[i] = f[i - 1]

\* The recursion of Picked exists.
LEMMA PickedRecursion ==
  ASSUME NEW S, NEW s \in Seq(S), NEW places
  PROVE  \E f : PicksUpto(s, places, f) /\ Picked(s, places) = f[Len(s)]
<1> DEFINE n == Len(s)
           F(h) == [i \in 0..n |->
                      IF i = 0 THEN <<>>
                      ELSE IF i \in places THEN Append(h[i - 1], s[i]) ELSE h[i - 1]]
           V == Seq(S)
           D == [i \in 1..n |-> [v \in V |-> IF i \in places THEN Append(v, s[i]) ELSE v]]
           f == CHOOSE h : h = F(h)
<1>1. n \in Nat /\ \A i \in 1..n : s[i] \in S
  BY LenProperties, ElementOfSeq
<1> HIDE DEF n
<1>2. ASSUME NEW i \in 1..n, NEW v \in V
      PROVE  D[i][v] \in V /\ D[i][v] = IF i \in places THEN Append(v, s[i]) ELSE v
  <2>1. Append(v, s[i]) \in V
    BY <1>1, AppendProperties
  <2>2. D[i][v] = IF i \in places THEN Append(v, s[i]) ELSE v
    BY Zenon
  <2> HIDE DEF D, V
  <2> QED BY <2>1, <2>2, Zenon
<1>3. PICK g \in [0..n -> V] : \A j \in 0..n : g[j] = IF j = 0 THEN <<>> ELSE D[j][g[j - 1]]
  <2>1. StepsIn(V, 0, n, D)
    <3>1. \A j \in (0 + 1)..n : j \in 1..n
      OBVIOUS
    <3> HIDE DEF V, D
    <3> QED BY <1>2, <3>1, Zenon DEF StepsIn
  <2>2. <<>> \in V /\ 0 \in Int /\ n \in Int /\ 0 <= n
    BY <1>1
  <2> HIDE DEF V, D
  <2>3. Recursive(V, 0, n, <<>>, D)
    BY <2>1, <2>2, RecursionExists
  <2> QED BY <2>3, Zenon DEF Recursive
<1>4. g = F(g)
  <2>1. ASSUME NEW i \in 0..n
        PROVE  g[i] = IF i = 0 THEN <<>>
                      ELSE IF i \in places THEN Append(g[i - 1], s[i]) ELSE g[i - 1]
    <3>1. CASE i = 0
      BY <1>3, <3>1
    <3>2. CASE i # 0
      <4>1. i \in 1..n /\ i - 1 \in 0..n
        BY <1>1, <3>2
      <4> HIDE DEF V, D
      <4>2. g[i - 1] \in V /\ g[i] = D[i][g[i - 1]]
        BY <1>3, <3>2, <4>1
      <4> QED BY <1>2, <3>2, <4>1, <4>2, Zenon
    <3> QED BY <3>1, <3>2
  <2>2. g = [i \in 0..n |-> g[i]]
    BY <1>3
  <2> QED BY <2>1, <2>2, Zenon
<1>5. f = F(f)
  <2> HIDE DEF F
  <2> QED BY <1>4, Zenon
<1>6. Picked(s, places) = f[n]
  BY Zenon DEF Picked, n
<1> HIDE DEF f
<1>7. ASSUME NEW i \in 0..n
      PROVE  f[i] = IF i = 0 THEN <<>>
                    ELSE IF i \in places THEN Append(f[i - 1], s[i]) ELSE f[i - 1]
  BY <1>5, Zenon
<1>8. f[0] = <<>>
  <2>1. 0 \in 0..n
    BY <1>1
  <2> QED BY <1>7, <2>1, Zenon
<1>9. \A i \in 1..n : i \in 0..n /\ i # 0
  BY <1>1
<1>10. PicksUpto(s, places, f)
  BY <1>7, <1>8, <1>9, Zenon DEF PicksUpto, n
<1> QED BY <1>6, <1>10, Zenon DEF n

\* The elements of f are those of s at the places of g, which are all there are up to n,
\* in their order.
PickedAt(s, places, n, f, g) ==
  /\ Len(f) = Len(g) /\ Len(g) \in Nat /\ DOMAIN f = 1..Len(g)
  /\ \A j \in 1..Len(g) : g[j] \in places /\ g[j] <= n /\ f[j] = s[g[j]]
  /\ \A j, l \in 1..Len(g) : j < l => g[j] < g[l]
  /\ \A p \in places : p <= n => \E j \in 1..Len(g) : g[j] = p

\* One more element: taken if its place is one of those, left if not.
LEMMA PickNext ==
  ASSUME NEW S, NEW s, NEW places, places \subseteq Nat, NEW n \in Nat, s[n + 1] \in S,
         NEW f \in Seq(S), NEW g \in Seq(Nat), PickedAt(s, places, n, f, g)
  PROVE  /\ n + 1 \in places => /\ Append(g, n + 1) \in Seq(Nat)
                                /\ Append(f, s[n + 1]) \in Seq(S)
                                /\ PickedAt(s, places, n + 1, Append(f, s[n + 1]), Append(g, n + 1))
         /\ n + 1 \notin places => PickedAt(s, places, n + 1, f, g)
<1> DEFINE l == Len(g)
           ff == Append(f, s[n + 1])
           gg == Append(g, n + 1)
<1>1. /\ Len(f) = l /\ l \in Nat /\ DOMAIN f = 1..l
      /\ \A j \in 1..l : g[j] \in places /\ g[j] <= n /\ f[j] = s[g[j]]
      /\ \A i, j \in 1..l : i < j => g[i] < g[j]
      /\ \A p \in places : p <= n => \E j \in 1..l : g[j] = p
  BY Zenon DEF PickedAt
<1>2. \A p \in Nat : p <= n + 1 <=> (p <= n \/ p = n + 1)
  OBVIOUS
<1>3. \A j \in 1..l : g[j] \in Nat /\ g[j] <= n + 1 /\ g[j] < n + 1
  <2> HIDE DEF l
  <2>1. \A j \in 1..l : g[j] \in Nat /\ g[j] <= n
    BY <1>1
  <2> QED BY <2>1
<1>4. CASE n + 1 \notin places
  <2>1. \A p \in places : p <= n + 1 => p <= n
    BY <1>2, <1>4
  <2>2. \A j \in 1..l : g[j] <= n + 1
    BY <1>3
  <2>3. PickedAt(s, places, n + 1, f, g)
    BY <1>1, <2>1, <2>2, Zenon DEF PickedAt
  <2> QED BY <1>4, <2>3
<1>5. CASE n + 1 \in places
  <2>1. /\ gg \in Seq(Nat) /\ Len(gg) = l + 1
        /\ \A j \in 1..l : gg[j] = g[j]
        /\ gg[l + 1] = n + 1
    BY AppendProperties
  <2>2. /\ ff \in Seq(S) /\ Len(ff) = l + 1
        /\ \A j \in 1..l : ff[j] = f[j]
        /\ ff[l + 1] = s[n + 1]
    BY <1>1, AppendProperties
  <2>3. DOMAIN ff = 1..(l + 1)
    BY <2>2
  <2> HIDE DEF l, ff, gg
  <2>4. \A j \in 1..(l + 1) : j \in 1..l \/ j = l + 1
    BY <1>1
  <2>5. 1..l \subseteq 1..(l + 1) /\ l + 1 \in 1..(l + 1) /\ l + 1 \in Nat
        /\ n + 1 <= n + 1 /\ \A i, j \in 1..(l + 1) : i < j => i \in 1..l
    BY <1>1
  <2>6. \A j \in 1..(l + 1) : gg[j] \in places /\ gg[j] <= n + 1 /\ ff[j] = s[gg[j]]
    BY <1>1, <1>3, <1>5, <2>1, <2>2, <2>4, <2>5, ZenonT(60)
  <2>7. \A i, j \in 1..(l + 1) : i < j => gg[i] < gg[j]
    <3> SUFFICES ASSUME NEW i \in 1..(l + 1), NEW j \in 1..(l + 1), i < j PROVE gg[i] < gg[j]
      OBVIOUS
    <3>1. i \in 1..l /\ gg[i] = g[i] /\ g[i] < n + 1
      BY <1>3, <2>1, <2>5, Zenon
    <3>2. CASE j \in 1..l
      <4>1. gg[j] = g[j] /\ g[i] < g[j]
        BY <1>1, <2>1, <3>1, <3>2, Zenon
      <4> QED BY <3>1, <4>1, Zenon
    <3>3. CASE j = l + 1
      BY <2>1, <3>1, <3>3, Zenon
    <3> QED BY <2>4, <3>2, <3>3
  <2>8. \A p \in places : p <= n + 1 => \E j \in 1..(l + 1) : gg[j] = p
    <3> SUFFICES ASSUME NEW p \in places, p <= n + 1 PROVE \E j \in 1..(l + 1) : gg[j] = p
      OBVIOUS
    <3>1. CASE p <= n
      <4>1. PICK j \in 1..l : g[j] = p
        BY <1>1, <3>1
      <4>2. j \in 1..(l + 1) /\ gg[j] = p
        BY <2>1, <2>5, <4>1, Zenon
      <4> QED BY <4>2
    <3>2. CASE p = n + 1
      BY <2>1, <2>5, <3>2, Zenon
    <3> QED BY <1>2, <3>1, <3>2
  <2>9. PickedAt(s, places, n + 1, ff, gg)
    BY <2>1, <2>2, <2>3, <2>5, <2>6, <2>7, <2>8, Zenon DEF PickedAt
  <2> QED BY <1>5, <2>1, <2>2, <2>9 DEF ff, gg
<1> QED BY <1>4, <1>5

\* What is picked are the elements at these places, in their order.
LEMMA PickedIs ==
  ASSUME NEW S, NEW s \in Seq(S), NEW places, places \subseteq DOMAIN s
  PROVE  /\ Picked(s, places) \in Seq(S)
         /\ \E g \in Seq(Nat) : PickedAt(s, places, Len(s), Picked(s, places), g)
<1> DEFINE n == Len(s)
<1>1. n \in Nat /\ DOMAIN s = 1..n /\ \A i \in 1..n : s[i] \in S
  BY LenProperties, ElementOfSeq
<1>2. PICK f : PicksUpto(s, places, f) /\ Picked(s, places) = f[n]
  BY PickedRecursion
<1>3. /\ f[0] = <<>>
      /\ \A i \in 1..n : /\ i \in places => f[i] = Append(f[i - 1], s[i])
                         /\ i \notin places => f[i] = f[i - 1]
  BY <1>2, Zenon DEF PicksUpto
<1> HIDE DEF n
<1>4. places \subseteq Nat /\ \A p \in places : ~(p <= 0)
  BY <1>1
<1> DEFINE T == {i \in Nat : i <= n => /\ f[i] \in Seq(S)
                                       /\ \E g \in Seq(Nat) : PickedAt(s, places, i, f[i], g)}
<1>5. 0 \in T
  <2>1. <<>> \in Seq(S) /\ <<>> \in Seq(Nat) /\ Len(<<>>) = 0 /\ 0 \in Nat
        /\ DOMAIN <<>> = 1..0 /\ 1..0 = {}
    OBVIOUS
  <2>2. PickedAt(s, places, 0, f[0], <<>>)
    <3>1. \A x : x \notin 1..0
      OBVIOUS
    <3> QED BY <1>3, <1>4, <2>1, <3>1, Zenon DEF PickedAt
  <2> QED BY <1>3, <2>1, <2>2
<1>6. ASSUME NEW i \in Nat, i \in T PROVE i + 1 \in T
  <2> SUFFICES ASSUME i + 1 <= n
               PROVE  /\ f[i + 1] \in Seq(S)
                      /\ \E g \in Seq(Nat) : PickedAt(s, places, i + 1, f[i + 1], g)
    OBVIOUS
  <2>1. i <= n /\ i + 1 \in 1..n /\ (i + 1) - 1 = i
    BY <1>1
  <2>2. f[i] \in Seq(S) /\ \E g \in Seq(Nat) : PickedAt(s, places, i, f[i], g)
    BY <1>6, <2>1
  <2>3. PICK g \in Seq(Nat) : PickedAt(s, places, i, f[i], g)
    BY <2>2
  <2>4. s[i + 1] \in S
    BY <1>1, <2>1
  <2>5. /\ i + 1 \in places => /\ Append(g, i + 1) \in Seq(Nat)
                               /\ Append(f[i], s[i + 1]) \in Seq(S)
                               /\ PickedAt(s, places, i + 1, Append(f[i], s[i + 1]), Append(g, i + 1))
        /\ i + 1 \notin places => PickedAt(s, places, i + 1, f[i], g)
    <3> DEFINE e == f[i]
    <3>1. e \in Seq(S) /\ PickedAt(s, places, i, e, g)
      BY <2>2, <2>3
    <3> HIDE DEF e
    <3>2. /\ i + 1 \in places => /\ Append(g, i + 1) \in Seq(Nat)
                                 /\ Append(e, s[i + 1]) \in Seq(S)
                                 /\ PickedAt(s, places, i + 1, Append(e, s[i + 1]), Append(g, i + 1))
          /\ i + 1 \notin places => PickedAt(s, places, i + 1, e, g)
      BY <1>4, <2>3, <2>4, <3>1, PickNext
    <3> QED BY <3>2, Zenon DEF e
  <2>6. /\ i + 1 \in places => f[i + 1] = Append(f[i], s[i + 1])
        /\ i + 1 \notin places => f[i + 1] = f[i]
    BY <1>3, <2>1, Zenon
  <2> QED BY <2>2, <2>3, <2>5, <2>6, Zenon
<1>7. n \in T
  <2> HIDE DEF T
  <2>1. \A i \in Nat : i \in T
    BY <1>5, <1>6, SetInduction
  <2> QED BY <1>1, <2>1
<1>8. n <= n
  BY <1>1
<1> QED BY <1>2, <1>7, <1>8, Zenon DEF n

-----------------------------------------------------------------------------
(* Repeated fields.                                                        *)

\* A text that agrees with another one as far as it goes begins it.
LEMMA PrefixIs ==
  ASSUME NEW s, NEW t, IsSeq(s), IsSeq(t), Len(s) <= Len(t),
         \A j \in DOMAIN s : t[j] = s[j]
  PROVE  IsPrefix(s, t)
<1> DEFINE V == Range(s) \cup Range(t)
           n == Len(s)
           u == SubSeq(t, 1, n)
<1>1. s \in Seq(V) /\ t \in Seq(V) /\ n \in Nat /\ DOMAIN s = 1..n /\ Len(t) \in Nat
      /\ DOMAIN t = 1..Len(t)
  BY DEF IsSeq
<1>2. SubSeq(s, 1, n) = s
  BY <1>1
<1>3. \A i \in 1..n : t[i] \in V /\ t[i] = s[i]
  BY <1>1 DEF Range
<1> HIDE DEF V, n, u
<1>4. /\ SubSeq(t, 1, n) \in Seq(V)
      /\ Len(SubSeq(t, 1, n)) = (IF 1 <= n THEN n - 1 + 1 ELSE 0)
      /\ \A i \in 1..(n - 1 + 1) : SubSeq(t, 1, n)[i] = t[1 + i - 1]
  <2>1. 1 \in Int /\ n \in Int /\ \A i \in 1..n : t[i] \in V
    BY <1>1, <1>3
  <2> QED BY <2>1, SubSeqProperties
<1>5. u \in Seq(V) /\ Len(u) = n /\ \A i \in 1..n : u[i] = t[i]
  <2>1. (IF 1 <= n THEN n - 1 + 1 ELSE 0) = n /\ \A i \in 1..n : i \in 1..(n - 1 + 1) /\ 1 + i - 1 = i
    BY <1>1
  <2>3. Len(SubSeq(t, 1, n)) = n
    <3>1. CASE 1 <= n
      BY <1>1, <1>4, <3>1
    <3>2. CASE ~(1 <= n)
      BY <1>1, <1>4, <3>2
    <3> QED BY <3>1, <3>2
  <2>4. \A i \in 1..n : SubSeq(t, 1, n)[i] = t[i]
    BY <1>1, <1>4, <2>1, Zenon
  <2> QED BY <1>4, <2>3, <2>4, Zenon DEF u
<1>6. u = s
  <2>1. Len(u) = Len(s) /\ \A i \in 1..Len(u) : u[i] = s[i]
    BY <1>3, <1>5, Zenon DEF n
  <2> QED BY <1>1, <1>5, <2>1, SeqEqual
<1> QED BY <1>2, <1>6, Zenon DEF IsPrefix, u, n

\* w lists the texts of v in the order of their fields.
InOrder(v, w, g) ==
  /\ Len(g) \in Nat /\ w = [j \in 1..Len(g) |-> v[g[j]]]
  /\ \A j \in 1..Len(g) : g[j] \in DOMAIN v
  /\ \A j, l \in 1..Len(g) : j < l => g[j] < g[l]
  /\ \A i \in DOMAIN v : \E j \in 1..Len(g) : g[j] = i

\* A mixture of values is what LeftOf says of the same values in a sequence.
LEMMA LeftOfMixture ==
  ASSUME NEW text, NEW v, NEW max, NEW w, NEW g, DOMAIN v \subseteq Nat,
         Mixture(text, v), ShortTexts(v, max), InOrder(v, w, g)
  PROVE  LeftOf(text, w)
<1> DEFINE n == Len(g)
<1>0. /\ n \in Nat /\ w = [j \in 1..n |-> v[g[j]]]
      /\ \A j \in 1..n : g[j] \in DOMAIN v
      /\ \A j, l \in 1..n : j < l => g[j] < g[l]
      /\ \A i \in DOMAIN v : \E j \in 1..n : g[j] = i
  BY Zenon DEF InOrder
<1> HIDE DEF n
<1>1. /\ n \in Nat /\ DOMAIN w = 1..n /\ Len(w) = n
      /\ \A j \in 1..n : g[j] \in DOMAIN v /\ w[j] = v[g[j]]
      /\ \A j, l \in 1..n : j < l => g[j] < g[l]
      /\ \A i \in DOMAIN v : \E j \in 1..n : g[j] = i
  <2>1. Len(w) = n
    BY <1>0
  <2>2. DOMAIN w = 1..n /\ \A j \in 1..n : w[j] = v[g[j]]
    BY <1>0, Zenon
  <2> QED BY <1>0, <2>1, <2>2, Zenon
<1>2. ASSUME w # <<>> PROVE IsPrefix(Last(w), text)
  <2>1. n \in 1..n
    <3> SUFFICES ASSUME n = 0 PROVE FALSE
      BY <1>1
    <3>1. w = [j \in 1..0 |-> v[g[j]]]
      BY <1>0, Zenon
    <3>2. w = <<>>
      BY <3>1
    <3> QED BY <1>2, <3>2
  <2>2. Last(w) = w[n]
    BY <1>1 DEF Last
  <2> DEFINE i == g[n]
  <2>3. i \in DOMAIN v /\ w[n] = v[i]
    BY <1>1, <2>1
  <2>4. IsLast(v, i)
    <3> SUFFICES ASSUME NEW p \in DOMAIN v PROVE p <= i
      BY Zenon DEF IsLast
    <3>1. PICK j \in 1..n : g[j] = p
      BY <1>1
    <3>2. j < n \/ j = n
      BY <1>1
    <3>3. p < i \/ p = i
      BY <1>1, <2>1, <3>1, <3>2, Zenon
    <3>4. p \in Nat /\ i \in Nat
      BY <2>3
    <3> HIDE DEF i
    <3> QED BY <3>3, <3>4
  <2> HIDE DEF i
  <2>5. Len(v[i]) <= Len(text) /\ \A j \in DOMAIN v[i] : text[j] = v[i][j]
    BY <2>3, <2>4, Zenon DEF Mixture
  <2>6. IsSeq(text) /\ IsSeq(v[i])
    BY <2>3, Zenon DEF Mixture, ShortTexts
  <2>7. IsPrefix(v[i], text)
    BY <2>5, <2>6, PrefixIs
  <2> QED BY <2>2, <2>3, <2>7, Zenon
<1>3. ASSUME NEW j \in DOMAIN text
      PROVE  \E x \in Range(w) : j \in DOMAIN x /\ x[j] = text[j]
  <2>1. PICK i \in DOMAIN v : j \in DOMAIN v[i] /\ text[j] = v[i][j]
    BY Zenon DEF Mixture
  <2>2. PICK l \in 1..n : g[l] = i
    BY <1>1
  <2>3. w[l] = v[i] /\ w[l] \in Range(w)
    BY <1>1, <2>2, Zenon DEF Range
  <2> QED BY <2>1, <2>3, Zenon
<1> QED BY <1>2, <1>3, Zenon DEF LeftOf

\* The texts of v, picked by their fields, are in order.
LEMMA PickedInOrder ==
  ASSUME NEW fields, IsSeq(fields), NEW v, DOMAIN v \subseteq DOMAIN fields, NEW w,
         DOMAIN w = DOMAIN Picked(fields, DOMAIN v), w = [j \in DOMAIN w |-> w[j]],
         \A j \in DOMAIN w : \A i \in DOMAIN v :
           Picked(fields, DOMAIN v)[j] = fields[i] => w[j] = v[i]
  PROVE  \E g : InOrder(v, w, g)
<1> DEFINE f == Picked(fields, DOMAIN v)
<1>1. fields \in Seq(Range(fields)) /\ DOMAIN fields = 1..Len(fields) /\ Len(fields) \in Nat
  BY DEF IsSeq
<1>2. PICK g \in Seq(Nat) : PickedAt(fields, DOMAIN v, Len(fields), f, g)
  <2> DEFINE S == Range(fields)
  <2>1. fields \in Seq(S)
    BY <1>1
  <2> HIDE DEF S
  <2> QED BY <2>1, PickedIs
<1> HIDE DEF f
<1>3. /\ Len(g) \in Nat /\ DOMAIN f = 1..Len(g)
      /\ \A j \in 1..Len(g) : g[j] \in DOMAIN v /\ f[j] = fields[g[j]]
      /\ \A j, l \in 1..Len(g) : j < l => g[j] < g[l]
      /\ \A p \in DOMAIN v : p <= Len(fields) => \E j \in 1..Len(g) : g[j] = p
  BY <1>2, Zenon DEF PickedAt
<1>4. \A p \in DOMAIN v : p <= Len(fields)
  BY <1>1
<1>5. DOMAIN w = 1..Len(g) /\ \A j \in 1..Len(g) : w[j] = v[g[j]]
  BY <1>3, Zenon DEF f
<1>6. w = [j \in 1..Len(g) |-> v[g[j]]]
  BY <1>5, Zenon
<1>7. \A i \in DOMAIN v : \E j \in 1..Len(g) : g[j] = i
  BY <1>3, <1>4, Zenon
<1>8. Len(g) \in Nat /\ \A j \in 1..Len(g) : g[j] \in DOMAIN v
  BY <1>3, Zenon
<1>9. \A j, l \in 1..Len(g) : j < l => g[j] < g[l]
  BY <1>3, Zenon
<1>10. InOrder(v, w, g)
  BY <1>6, <1>7, <1>8, <1>9 DEF InOrder
<1> QED BY <1>10, Zenon

\* A row within the limits shows of each field what LeftOf allows.
LEMMA RepeatsOfRow ==
  ASSUME NEW row, RowKept(row), InLimits(row.sent)
  PROVE  LET fields(name, type) ==
               {i \in DOMAIN row.sent : row.sent[i].name = name /\ row.sent[i].type = type}
             values(name) ==
               LET f == Picked(row.sent, fields(name, "string"))
               IN  [i \in DOMAIN f |-> f[i].val]
             items(t) ==
               LET f == Picked(row.sent, {i \in fields("stack", "array") : Len(row.sent[i].val) >= t})
               IN  [i \in DOMAIN f |-> f[i].val[t].val]
         IN  /\ LeftOf(row.apelido, values("apelido"))
             /\ LeftOf(row.nome, values("nome"))
             /\ \A t \in DOMAIN Tokens(row.stack) : LeftOf(Tokens(row.stack)[t], items(t))
<1> DEFINE sent == row.sent
           n == Len(sent) + 1
           fields(name, type) == {i \in DOMAIN sent : sent[i].name = name /\ sent[i].type = type}
           values(name) ==
             LET f == Picked(sent, fields(name, "string"))
             IN  [i \in DOMAIN f |-> f[i].val]
           held(t) == {i \in fields("stack", "array") : Len(sent[i].val) >= t}
           items(t) ==
             LET f == Picked(sent, held(t))
             IN  [i \in DOMAIN f |-> f[i].val[t].val]
<1>1. /\ FieldsAreJson(sent) /\ ListsFit(sent) /\ IsSeq(sent)
      /\ Mixture(row.apelido, Texts(sent, n, "apelido"))
      /\ Mixture(row.nome, Texts(sent, n, "nome"))
      /\ \E x : StoredItems(x, sent) /\ row.stack = StackText(x)
  BY Zenon DEF RowKept, FieldsAreJson
<1> HIDE DEF sent
<1>2. Len(sent) \in Nat /\ DOMAIN sent = 1..Len(sent) /\ DOMAIN sent \subseteq Nat
      /\ \A i \in DOMAIN sent : i < n
  BY <1>1 DEF IsSeq
<1> HIDE DEF n
<1>3. /\ ShortTexts(Texts(sent, n, "apelido"), ApelidoLen)
      /\ ShortTexts(Texts(sent, n, "nome"), NomeLen)
      /\ \A t : ShortTexts(ItemTexts(sent, n, t), ItemLen)
  BY <1>1, TextsAreShort, Zenon DEF sent
<1>4. ASSUME NEW name PROVE \E g : InOrder(Texts(sent, n, name), values(name), g)
  <2> DEFINE v == Texts(sent, n, name)
             w == values(name)
             f == Picked(sent, DOMAIN v)
  <2>1. DOMAIN v = fields(name, "string") /\ \A i \in DOMAIN v : v[i] = sent[i].val
    <3>1. DOMAIN v = {j \in DOMAIN sent : j < n /\ sent[j].name = name /\ sent[j].type = "string"}
      BY Zenon DEF Texts
    <3>2. DOMAIN v = fields(name, "string")
      BY <1>2, <3>1
    <3> QED BY <3>2, Zenon DEF Texts
  <2>2. w = [i \in DOMAIN f |-> f[i].val]
    BY <2>1, Zenon
  <2>3. DOMAIN v \subseteq DOMAIN sent
    BY <2>1
  <2> HIDE DEF v, w, f
  <2>4. /\ DOMAIN w = DOMAIN f /\ w = [j \in DOMAIN w |-> w[j]]
        /\ \A j \in DOMAIN w : \A i \in DOMAIN v : f[j] = sent[i] => w[j] = v[i]
    BY <2>1, <2>2, Zenon
  <2>5. \E g : InOrder(v, w, g)
    BY <1>1, <2>3, <2>4, PickedInOrder DEF f
  <2> QED BY <2>5 DEF v, w
<1>5. ASSUME NEW t \in Nat, t >= 1 PROVE \E g : InOrder(ItemTexts(sent, n, t), items(t), g)
  <2> DEFINE v == ItemTexts(sent, n, t)
             w == items(t)
             f == Picked(sent, DOMAIN v)
  <2>1. DOMAIN v = held(t) /\ \A i \in DOMAIN v : v[i] = sent[i].val[t].val
    <3>1. DOMAIN v = {j \in DOMAIN sent : /\ j < n /\ sent[j].name = "stack" /\ sent[j].type = "array"
                                         /\ t \in DOMAIN sent[j].val}
      BY Zenon DEF ItemTexts
    <3>2. ASSUME NEW i \in DOMAIN sent, sent[i].type = "array"
          PROVE  t \in DOMAIN sent[i].val <=> Len(sent[i].val) >= t
      <4>1. IsSeq(sent[i].val)
        BY <1>1, <3>2, Zenon DEF FieldsAreJson
      <4>2. DOMAIN sent[i].val = 1..Len(sent[i].val) /\ Len(sent[i].val) \in Nat
        BY <4>1 DEF IsSeq
      <4> QED BY <1>5, <4>2
    <3>3. DOMAIN v = held(t)
      BY <1>2, <3>1, <3>2, Zenon
    <3> QED BY <3>3, Zenon DEF ItemTexts
  <2>2. w = [i \in DOMAIN f |-> f[i].val[t].val]
    BY <2>1, Zenon
  <2>3. DOMAIN v \subseteq DOMAIN sent
    BY <2>1
  <2> HIDE DEF v, w, f
  <2>4. /\ DOMAIN w = DOMAIN f /\ w = [j \in DOMAIN w |-> w[j]]
        /\ \A j \in DOMAIN w : \A i \in DOMAIN v : f[j] = sent[i] => w[j] = v[i]
    BY <2>1, <2>2, ZenonT(60)
  <2>5. \E g : InOrder(v, w, g)
    BY <1>1, <2>3, <2>4, PickedInOrder DEF f
  <2> QED BY <2>5 DEF v, w
<1>6. /\ \A name : DOMAIN Texts(sent, n, name) \subseteq Nat
      /\ \A t : DOMAIN ItemTexts(sent, n, t) \subseteq Nat
  BY <1>2 DEF Texts, ItemTexts
<1>7. LeftOf(row.apelido, values("apelido")) /\ LeftOf(row.nome, values("nome"))
  <2> HIDE DEF values
  <2>1. PICK g : InOrder(Texts(sent, n, "apelido"), values("apelido"), g)
    BY <1>4
  <2>2. PICK h : InOrder(Texts(sent, n, "nome"), values("nome"), h)
    BY <1>4
  <2>3. LeftOf(row.apelido, values("apelido"))
    BY <1>1, <1>3, <1>6, <2>1, LeftOfMixture
  <2>4. LeftOf(row.nome, values("nome"))
    BY <1>1, <1>3, <1>6, <2>2, LeftOfMixture
  <2> QED BY <2>3, <2>4
<1>8. ASSUME NEW t \in DOMAIN Tokens(row.stack) PROVE LeftOf(Tokens(row.stack)[t], items(t))
  <2>1. PICK x : StoredItems(x, sent) /\ row.stack = StackText(x)
    BY <1>1
  <2>2. PICK S : ListOver(S, x)
    BY <2>1, Zenon DEF StoredItems
  <2>3. WholeItems(x) /\ \A i \in 1..Len(x) : Mixture(x[i], ItemTexts(sent, n, i))
    BY <2>1, Zenon DEF StoredItems, n
  <2>4. Tokens(row.stack) = x
    BY <2>1, <2>2, <2>3, TokensOfList
  <2>5. DOMAIN x = 1..Len(x) /\ Len(x) \in Nat
    BY <2>2, Zenon DEF ListOver
  <2>6. t \in Nat /\ t >= 1 /\ t \in 1..Len(x)
    BY <2>4, <2>5
  <2> HIDE DEF items
  <2>7. PICK g : InOrder(ItemTexts(sent, n, t), items(t), g)
    BY <1>5, <2>6
  <2>8. Mixture(x[t], ItemTexts(sent, n, t))
    BY <2>3, <2>6
  <2>9. LeftOf(x[t], items(t))
    BY <1>3, <1>6, <2>7, <2>8, LeftOfMixture
  <2> QED BY <2>4, <2>9
<1> QED BY <1>7, <1>8, Zenon DEF sent

(* RepeatsStayInField: for any limits and any bodies whose values are      *)
(* within them, however often a field is repeated (pessoa.c:74), the last  *)
(* value is what a row begins with, and no text gets into another field,   *)
(* nor an item into another item.                                          *)
THEOREM RepeatsStay == Spec => []RepeatsStayInField
<1>1. RInv => RepeatsStayInField
  <2> SUFFICES ASSUME RInv, NEW row \in {r \in Range(rows) : InLimits(r.sent)}
               PROVE  LET fields(name, type) ==
                            {i \in DOMAIN row.sent : row.sent[i].name = name /\ row.sent[i].type = type}
                          values(name) ==
                            LET f == Picked(row.sent, fields(name, "string"))
                            IN  [i \in DOMAIN f |-> f[i].val]
                          items(t) ==
                            LET f == Picked(row.sent, {i \in fields("stack", "array") : Len(row.sent[i].val) >= t})
                            IN  [i \in DOMAIN f |-> f[i].val[t].val]
                      IN  /\ LeftOf(row.apelido, values("apelido"))
                          /\ LeftOf(row.nome, values("nome"))
                          /\ \A t \in DOMAIN Tokens(row.stack) : LeftOf(Tokens(row.stack)[t], items(t))
    BY Zenon DEF RepeatsStayInField
  <2>1. RowKept(row) /\ InLimits(row.sent)
    BY Zenon DEF RInv, RowsKept, Range
  <2> QED BY <2>1, RepeatsOfRow, Zenon
<1> QED BY <1>1, RowsHeld, PTL

-----------------------------------------------------------------------------
(* Plain rows.                                                             *)

\* A text that an array of so many characters takes, and gives back.
ShownText(s, max) ==
  IsSeq(s) /\ Len(s) \in 0..max /\ \A o \in 1..Len(s) : s[o] # Nul

\* A list that a stack takes, and gives back.
ShownItems(items) ==
  /\ \E S : ListOver(S, items)
  /\ WholeItems(items) /\ Len(items) <= MaxItems
  /\ \A t \in 1..Len(items) : IsSeq(items[t]) /\ Printable(items[t], ItemLen)

\* What a plain body sent as the stack is such a list.
LEMMA SentIsShown ==
  ASSUME NEW fields, Plain(fields), FieldsAreJson(fields), ListsFit(fields)
  PROVE  ShownItems(SentItems(fields))
<1>0. MaxItems \in Nat \ {0} /\ ItemLen \in Nat \ {0}
  BY LimitsArePositive
<1>1. CASE \E i \in DOMAIN fields : fields[i].name = "stack" /\ fields[i].type = "array"
  <2>1. PICK i \in DOMAIN fields : fields[i].name = "stack" /\ fields[i].type = "array"
    BY <1>1
  <2> DEFINE val == fields[i].val
             n == Len(val)
             items == SentItems(fields)
             S == {Quote, Comma} \cup UNION {Range(val[t].val) : t \in 1..n}
  <2>2. The(fields, "stack") = val
    <3>1. The(fields, fields[i].name) = val
      BY TheIs
    <3> QED BY <2>1, <3>1, Zenon
  <2>3. n \in 1..MaxItems /\ DOMAIN val = 1..n /\ \A t \in 1..n : val[t].type = "string"
    <3>1. IsSeq(val) /\ ItemsFit(val)
      BY <2>1, Zenon DEF FieldsAreJson, ListsFit
    <3>2. n \in 1..MaxItems /\ DOMAIN val = 1..n
      BY <1>0, <3>1 DEF IsSeq, ItemsFit
    <3> QED BY <3>1, <3>2, Zenon DEF ItemsFit
  <2>4. \A t \in 1..n : /\ IsSeq(val[t].val) /\ Printable(val[t].val, ItemLen)
                        /\ Range(val[t].val) \cap {Quote, Comma} = {}
    <3>1. InLimits(fields)
      BY PlainInLimits
    <3>2. \A t \in DOMAIN val : IsSeq(val[t].val)
      BY <2>1, <2>3, Zenon DEF FieldsAreJson
    <3>3. \A t \in DOMAIN val : /\ Printable(val[t].val, ItemLen)
                                /\ Range(val[t].val) \cap {Quote, Comma} = {}
      BY <2>1, <3>1, Zenon DEF InLimits, Range
    <3> QED BY <2>3, <3>2, <3>3, Zenon
  <2>5. items = [t \in 1..n |-> val[t].val]
    <3>1. items = [t \in DOMAIN val |-> val[t].val]
      BY <1>1, <2>2, Zenon DEF SentItems
    <3> QED BY <2>3, <3>1, Zenon
  <2> HIDE DEF items
  <2>6. \A t \in 1..n : items[t] = val[t].val
    BY <2>5, Zenon
  <2>7. n \in Nat /\ n <= MaxItems /\ Quote \in S /\ Comma \in S
    BY <1>0, <2>3
  <2>8. ASSUME NEW t \in 1..n PROVE items[t] \in Seq(S)
    <3> DEFINE x == val[t].val
    <3>1. Range(x) \subseteq S
      OBVIOUS
    <3>2. x \in Seq(Range(x))
      BY <2>4, Zenon DEF IsSeq
    <3> HIDE DEF x, S
    <3>3. x \in Seq(S)
      BY <3>1, <3>2
    <3> QED BY <2>6, <3>3, Zenon DEF x
  <2> HIDE DEF S, val, n
  <2>9. items \in Seq(Seq(S)) /\ Len(items) = n
    <3> DEFINE V == Seq(S)
    <3>1. \A t \in 1..n : items[t] \in V
      BY <2>8
    <3>2. items = [t \in 1..n |-> items[t]]
      BY <2>5, Zenon
    <3> HIDE DEF V
    <3>3. items \in Seq(V) /\ Len(items) = n
      BY <2>7, <3>1, <3>2, FunctionIsSeq
    <3> QED BY <3>3 DEF V
  <2>10. ListOver(S, items)
    BY <2>7, <2>9, ListOverIs
  <2>11. WholeItems(items)
    <3> SUFFICES ASSUME NEW t \in 1..n
                 PROVE  Len(items[t]) >= 1 /\ \A o \in 1..Len(items[t]) : items[t][o] \notin Delimiters
      BY <2>9, Zenon DEF WholeItems
    <3> DEFINE x == items[t]
    <3>1. IsSeq(x) /\ Len(x) \in 1..ItemLen /\ Range(x) \cap {Quote, Comma} = {}
      BY <2>4, <2>6, Zenon DEF Printable
    <3> HIDE DEF x
    <3>2. Len(x) >= 1 /\ DOMAIN x = 1..Len(x)
      BY <1>0, <3>1 DEF IsSeq
    <3>3. \A o \in 1..Len(x) : x[o] \notin Delimiters
      BY <3>1, <3>2, Zenon DEF Range, Delimiters
    <3> QED BY <3>2, <3>3 DEF x
  <2>12. \A t \in 1..n : IsSeq(items[t]) /\ Printable(items[t], ItemLen)
    BY <2>4, <2>6, Zenon
  <2> QED BY <2>7, <2>9, <2>10, <2>11, <2>12, Zenon DEF ShownItems, items
<1>2. CASE ~\E i \in DOMAIN fields : fields[i].name = "stack" /\ fields[i].type = "array"
  <2> DEFINE S == {Quote, Comma}
  <2>1. SentItems(fields) = <<>>
    BY <1>2, Zenon DEF SentItems
  <2>2. Len(<<>>) = 0 /\ 1..0 = {}
    OBVIOUS
  <2>3. ListOver(S, <<>>)
    <3>1. <<>> \in Seq(Seq(S)) /\ Quote \in S /\ Comma \in S
      OBVIOUS
    <3> HIDE DEF S
    <3> QED BY <3>1, ListOverIs
  <2>4. WholeItems(<<>>)
    BY <2>2, Zenon DEF WholeItems
  <2>5. Len(<<>>) <= MaxItems
    BY <1>0, <2>2
  <2>6. \A t \in 1..Len(<<>>) : IsSeq(<<>>[t]) /\ Printable(<<>>[t], ItemLen)
    BY <2>2, Zenon
  <2> QED BY <2>1, <2>3, <2>4, <2>5, <2>6, Zenon DEF ShownItems
<1> QED BY <1>1, <1>2

\* The text of a plain body's field of that name.
LEMMA OneText ==
  ASSUME NEW fields, Plain(fields), FieldsAreJson(fields),
         NEW name \in {"apelido", "nome"}, NEW text,
         Mixture(text, Texts(fields, Len(fields) + 1, name))
  PROVE  text = The(fields, name) /\ IsSeq(text)
<1> DEFINE v == Texts(fields, Len(fields) + 1, name)
<1>1. PICK i \in DOMAIN fields : fields[i].name = name
  <2>1. name \in {"apelido", "nome", "nascimento"}
    OBVIOUS
  <2>2. {"apelido", "nome", "nascimento"} \subseteq {fields[i].name : i \in DOMAIN fields}
    BY Zenon DEF Plain
  <2> QED BY <2>1, <2>2
<1>2. /\ fields[i].type = "string" /\ \A j \in DOMAIN fields : fields[j].name = name => j = i
      /\ The(fields, name) = fields[i].val
  <2>1. name \in {"apelido", "nome", "nascimento", "id"}
    OBVIOUS
  <2>2. fields[i].type = "string" /\ \A j \in DOMAIN fields : fields[j].name = name => j = i
    BY <1>1, <2>1, Zenon DEF Plain
  <2>3. The(fields, fields[i].name) = fields[i].val
    BY TheIs
  <2> QED BY <1>1, <2>2, <2>3, Zenon
<1>3. IsSeq(fields[i].val) /\ i \in Nat /\ i < Len(fields) + 1
  <2>1. IsSeq(fields[i].val)
    BY <1>2, Zenon DEF FieldsAreJson
  <2>2. IsSeq(fields)
    BY DEF FieldsAreJson
  <2>3. DOMAIN fields = 1..Len(fields) /\ Len(fields) \in Nat
    BY <2>2 DEF IsSeq
  <2> QED BY <2>1, <2>3
<1>4. DOMAIN v = {i} /\ v[i] = fields[i].val
  <2>1. DOMAIN v = {j \in DOMAIN fields : /\ j < Len(fields) + 1 /\ fields[j].name = name
                                          /\ fields[j].type = "string"}
    BY Zenon DEF Texts
  <2>2. \A j \in DOMAIN v : v[j] = fields[j].val
    BY Zenon DEF Texts
  <2> HIDE DEF v
  <2>3. i \in DOMAIN v /\ \A j \in DOMAIN v : j = i
    BY <1>1, <1>2, <1>3, <2>1, Zenon
  <2>4. DOMAIN v = {i}
    BY <2>3
  <2> QED BY <2>2, <2>3, <2>4, Zenon
<1> HIDE DEF v
<1>5. text = v[i]
  <2>1. Mixture(text, v)
    BY DEF v
  <2> QED BY <1>3, <1>4, <2>1, MixtureOfFew
<1> QED BY <1>2, <1>3, <1>4, <1>5, Zenon

\* A row of a plain body holds what was sent, and nothing that is too long to be shown.
PlainRow(row) ==
  /\ row.apelido = The(row.sent, "apelido") /\ ShownText(row.apelido, ApelidoLen)
  /\ row.nome = The(row.sent, "nome") /\ ShownText(row.nome, NomeLen)
  /\ row.stack = StackText(SentItems(row.sent)) /\ ShownItems(SentItems(row.sent))
  /\ Dated(row.nascimento) = DateOf[The(row.sent, "nascimento")]

\* Nothing is repeated in a plain body: its row has the texts as sent.
LEMMA PlainRows ==
  ASSUME NEW row, RowKept(row), Plain(row.sent)
  PROVE  PlainRow(row)
<1> DEFINE sent == row.sent
           n == Len(sent) + 1
<1>1. /\ FieldsAreJson(sent) /\ ListsFit(sent)
      /\ InLimits(sent) => /\ Mixture(row.apelido, Texts(sent, n, "apelido"))
                           /\ Mixture(row.nome, Texts(sent, n, "nome"))
      /\ row.nascimento = DateOf[The(sent, "nascimento")]
      /\ row.stack = StackText(SentItems(sent))
  BY Zenon DEF RowKept
<1>2. Plain(sent) /\ InLimits(sent)
  BY PlainInLimits
<1>3. ShownItems(SentItems(sent))
  BY <1>1, <1>2, SentIsShown
<1> HIDE DEF n
<1>4. ASSUME NEW name \in {"apelido", "nome"}, NEW text, Mixture(text, Texts(sent, n, name)),
             NEW max \in Nat, \A i \in DOMAIN sent : sent[i].name = name => Printable(sent[i].val, max)
      PROVE  text = The(sent, name) /\ ShownText(text, max)
  <2>1. text = The(sent, name) /\ IsSeq(text)
    BY <1>1, <1>2, <1>4, OneText DEF n
  <2>2. PICK i \in DOMAIN sent : sent[i].name = name
    <3>1. name \in {"apelido", "nome", "nascimento"}
      OBVIOUS
    <3>2. {"apelido", "nome", "nascimento"} \subseteq {sent[i].name : i \in DOMAIN sent}
      BY <1>2, Zenon DEF Plain
    <3> QED BY <3>1, <3>2
  <2>3. The(sent, sent[i].name) = sent[i].val
    BY <1>2, TheIs
  <2>4. Printable(text, max)
    BY <1>4, <2>1, <2>2, <2>3, Zenon
  <2>5. ShownText(text, max)
    <3>1. Len(text) \in 1..max /\ DOMAIN text = 1..Len(text) /\ \A o \in DOMAIN text : text[o] # Nul
      BY <2>1, <2>4 DEF IsSeq, Printable
    <3>2. Len(text) \in 0..max
      BY <3>1
    <3> QED BY <2>1, <3>1, <3>2, Zenon DEF ShownText
  <2> QED BY <2>1, <2>5
<1>5. /\ \A i \in DOMAIN sent : sent[i].name = "apelido" => Printable(sent[i].val, ApelidoLen)
      /\ \A i \in DOMAIN sent : sent[i].name = "nome" => Printable(sent[i].val, NomeLen)
  BY <1>2, Zenon DEF InLimits
<1>6. /\ row.apelido = The(sent, "apelido") /\ ShownText(row.apelido, ApelidoLen)
      /\ row.nome = The(sent, "nome") /\ ShownText(row.nome, NomeLen)
  <2>1. ApelidoLen \in Nat /\ NomeLen \in Nat
    BY LimitsArePositive
  <2>2. "apelido" \in {"apelido", "nome"} /\ "nome" \in {"apelido", "nome"}
    OBVIOUS
  <2> QED BY <1>1, <1>2, <1>4, <1>5, <2>1, <2>2, Zenon
<1>7. Dated(row.nascimento) = DateOf[The(sent, "nascimento")]
  <2>1. PICK i \in DOMAIN sent : sent[i].name = "nascimento"
    BY <1>2, Zenon DEF Plain
  <2>2. sent[i].val \in DOMAIN DateOf
    BY <1>2, <2>1, Zenon DEF Plain
  <2>3. The(sent, sent[i].name) = sent[i].val
    BY <1>2, TheIs
  <2>4. The(sent, "nascimento") \in DOMAIN DateOf
    BY <2>1, <2>2, <2>3, Zenon
  <2> QED BY <1>1, <2>4, DatesAreDates, Zenon DEF Dated
<1> QED BY <1>1, <1>3, <1>6, <1>7, Zenon DEF PlainRow

-----------------------------------------------------------------------------
(* What is shown of a row.                                                 *)

\* The names of a struct Pessoa that was zeroed.
LEMMA NamesShown ==
  ASSUME NEW x, ShownText(x, ApelidoLen), NEW y, ShownText(y, NomeLen)
  PROVE  LET m == Copy(Copy(NoNames, 0, x), NomeAt, y)
         IN  CString(m, 0) = x /\ CString(m, NomeAt) = y
<1> DEFINE l == Copy(NoNames, 0, x)
           m == Copy(l, NomeAt, y)
<1>1. /\ ApelidoLen \in Nat /\ NomeLen \in Nat /\ NamesEnd \in Nat /\ NomeAt \in Nat
      /\ NomeAt + NomeLen + 1 = NamesEnd /\ NomeAt = ApelidoLen + 1
  BY Offsets, LimitsArePositive DEF NamesEnd, NomeAt
<1>2. /\ IsSeq(x) /\ Len(x) \in 0..ApelidoLen /\ DOMAIN x = 1..Len(x) /\ \A o \in 1..Len(x) : x[o] # Nul
      /\ IsSeq(y) /\ Len(y) \in 0..NomeLen /\ DOMAIN y = 1..Len(y) /\ \A o \in 1..Len(y) : y[o] # Nul
  BY DEF ShownText, IsSeq
<1>3. /\ DOMAIN NoNames = 0..NamesEnd /\ \A i \in 0..NamesEnd : NoNames[i] = Nul
      /\ DOMAIN l = 0..NamesEnd /\ DOMAIN m = 0..NamesEnd
  BY Zenon DEF NoNames, Copy
<1>4. \A o \in 0..ApelidoLen : l[o] = IF o < Len(x) THEN x[o + 1] ELSE Nul
  <2>1. \A o \in 0..ApelidoLen : NoNames[o] = Nul
    BY <1>1, <1>3
  <2>2. Len(x) <= ApelidoLen
    BY <1>1, <1>2
  <2> QED BY <1>2, <1>3, <2>1, <2>2, CopyFront
<1>5. \A o \in 0..ApelidoLen : m[o] = l[o]
  BY <1>2, <1>3, CopyBehind
<1>6. \A o \in 0..NomeLen : l[NomeAt + o] = Nul
  <2> TAKE o \in 0..NomeLen
  <2>1. Len(x) <= NomeAt /\ NomeAt + o \in 0..NamesEnd
    BY <1>1, <1>2
  <2>2. l[NomeAt + o] = NoNames[NomeAt + o]
    BY <1>2, <1>3, <2>1, CopyBefore
  <2> QED BY <1>3, <2>1, <2>2, Zenon
<1> HIDE DEF l
<1>7. ASSUME NEW o \in 0..NomeLen
      PROVE  m[NomeAt + o] = IF o + 1 \in DOMAIN y THEN y[o + 1] ELSE Nul
  <2>1. o \in Nat /\ NomeAt + o \in DOMAIN l
    BY <1>1, <1>3
  <2>2. m[NomeAt + o] = IF o + 1 \in DOMAIN y THEN y[o + 1] ELSE l[NomeAt + o]
    BY <1>1, <2>1, CopyAt
  <2>3. l[NomeAt + o] = Nul
    BY <1>6
  <2> QED BY <2>2, <2>3, Zenon
<1> HIDE DEF m
<1>8. CString(m, 0) = x
  <2>1. 0 \in 0..NamesEnd /\ 0 + Len(x) <= NamesEnd /\ 0 + Len(x) = Len(x) /\ Len(x) \in 0..ApelidoLen
        /\ ~(Len(x) < Len(x))
    BY <1>1, <1>2
  <2>2. m[0 + Len(x)] = Nul
    BY <1>4, <1>5, <2>1, Zenon
  <2>3. ASSUME NEW o \in 0..(Len(x) - 1) PROVE m[0 + o] = x[o + 1] /\ x[o + 1] # Nul
    <3>1. o \in 0..ApelidoLen /\ o < Len(x) /\ 0 + o = o /\ o + 1 \in 1..Len(x)
      BY <1>1, <1>2
    <3> QED BY <1>2, <1>4, <1>5, <3>1, Zenon
  <2> QED BY <1>1, <1>2, <1>3, <2>1, <2>2, <2>3, CStringIs
<1>9. CString(m, NomeAt) = y
  <2>1. NomeAt \in 0..NamesEnd /\ NomeAt + Len(y) <= NamesEnd /\ Len(y) \in 0..NomeLen
        /\ Len(y) + 1 \notin DOMAIN y
    BY <1>1, <1>2
  <2>2. m[NomeAt + Len(y)] = Nul
    BY <1>7, <2>1, Zenon
  <2>3. ASSUME NEW o \in 0..(Len(y) - 1) PROVE m[NomeAt + o] = y[o + 1] /\ y[o + 1] # Nul
    <3>1. o \in 0..NomeLen /\ o + 1 \in DOMAIN y
      BY <1>1, <1>2
    <3> QED BY <1>2, <1>7, <3>1, Zenon
  <2> QED BY <1>1, <1>2, <1>3, <2>1, <2>2, <2>3, CStringIs
<1> QED BY <1>8, <1>9 DEF m, l

\* The items that strtok_r finds in the text of a list, packed into a stack that was
\* zeroed, are the list.
LEMMA ItemsShown ==
  ASSUME NEW items, ShownItems(items)
  PROVE  Items(Unpacked(StackText(items))) = items
<1>1. PICK S : ListOver(S, items)
  BY Zenon DEF ShownItems
<1>2. /\ WholeItems(items) /\ Len(items) <= MaxItems /\ Len(items) \in Nat
      /\ DOMAIN items = 1..Len(items) /\ items \in Seq(Seq(S))
      /\ \A t \in 1..Len(items) : IsSeq(items[t]) /\ Printable(items[t], ItemLen)
  BY <1>1, Zenon DEF ShownItems, ListOver
<1>0. items = [t \in 1..Len(items) |-> items[t]]
  <2> DEFINE V == Seq(S)
  <2>1. items \in Seq(V)
    BY <1>2
  <2> HIDE DEF V
  <2> QED BY <2>1
<1>3. Tokens(StackText(items)) = items
  BY <1>1, <1>2, TokensOfList
<1>4. /\ ItemLen \in Nat \ {0} /\ MaxItems \in Nat \ {0} /\ StackEnd \in Nat
      /\ DOMAIN NoStack = 0..StackEnd /\ \A i \in 0..StackEnd : NoStack[i] = Nul
  BY Offsets, LimitsArePositive DEF NoStack
<1>5. \A t \in 1..Len(items) :
        /\ Len(items[t]) \in 1..ItemLen /\ DOMAIN items[t] = 1..Len(items[t])
        /\ \A o \in 1..Len(items[t]) : items[t][o] # Nul
  <2> TAKE t \in 1..Len(items)
  <2> DEFINE x == items[t]
  <2>1. IsSeq(x) /\ Printable(x, ItemLen)
    BY <1>2, Zenon
  <2> HIDE DEF x
  <2>2. Len(x) \in 1..ItemLen /\ DOMAIN x = 1..Len(x) /\ \A o \in 1..Len(x) : x[o] # Nul
    BY <2>1 DEF IsSeq, Printable
  <2> QED BY <2>2 DEF x
<1>6. Unpacked(StackText(items)) = Pack(NoStack, items)
  <2>1. Min({Len(items), MaxItems}) = Len(items)
    <3> DEFINE T == {Len(items), MaxItems}
    <3>1. T \subseteq Nat /\ T # {} /\ \A z \in T : Len(items) <= z
      BY <1>2, <1>4
    <3>2. Min(T) \in T /\ \A z \in T : Min(T) <= z
      <4> HIDE DEF T
      <4> QED BY <3>1, MinIs
    <3>3. Len(items) <= Min(T) /\ Min(T) <= Len(items) /\ Min(T) \in Nat
      <4>1. Len(items) \in T
        OBVIOUS
      <4> HIDE DEF T
      <4> QED BY <3>1, <3>2, <4>1
    <3> HIDE DEF T
    <3>4. Min(T) = Len(items)
      BY <1>2, <3>3
    <3> QED BY <3>4 DEF T
  <2>2. \A t \in 1..Len(items) : Cut(items[t], ItemLen) = items[t]
    <3> TAKE t \in 1..Len(items)
    <3> DEFINE x == items[t]
    <3>1. IsSeq(x) /\ Len(x) <= ItemLen
      BY <1>2, <1>4, <1>5
    <3> HIDE DEF x
    <3>2. Cut(x, ItemLen) = x
      BY <1>4, <3>1, CutNothing
    <3> QED BY <3>2 DEF x
  <2>3. items = [t \in 1..Len(items) |-> items[t]]
    BY <1>0
  <2>4. [t \in 1..Len(items) |-> Cut(items[t], ItemLen)] = items
    BY <2>2, <2>3, Zenon
  <2> QED BY <1>3, <2>1, <2>4, Zenon DEF Unpacked
<1> DEFINE m == Pack(NoStack, items)
           c(t) == CString(m, ItemAt(t))
           n == Len(items)
<1>7. DOMAIN m = 0..StackEnd /\ \A t \in 1..MaxItems : SlotTakes(NoStack, m, items, t)
  <2>1. DOMAIN items \subseteq 1..MaxItems
    BY <1>2, <1>4
  <2>2. \A j \in DOMAIN items : IsSeq(items[j]) /\ Len(items[j]) <= ItemLen + 1
    BY <1>2, <1>4, <1>5
  <2>3. DOMAIN m = DOMAIN NoStack
    BY Zenon DEF Pack
  <2>4. ASSUME NEW t \in 1..MaxItems PROVE SlotTakes(NoStack, m, items, t)
    BY <1>4, <2>1, <2>2, PackAt
  <2> QED BY <1>4, <2>3, <2>4, Zenon
<1>8. ASSUME NEW t \in 1..MaxItems, NEW o \in 0..ItemLen
      PROVE  /\ t \in 1..n /\ o + 1 \in 1..Len(items[t]) => m[ItemAt(t) + o] = items[t][o + 1]
             /\ ~(t \in 1..n /\ o + 1 \in 1..Len(items[t])) => m[ItemAt(t) + o] = Nul
  <2>1. ItemAt(t) \in Nat /\ ItemAt(t) + o \in 0..StackEnd
    BY <1>4, Offsets
  <2>2. /\ t \in DOMAIN items /\ o + 1 \in DOMAIN items[t]
             => m[ItemAt(t) + o] = items[t][o + 1]
        /\ ~(t \in DOMAIN items /\ o + 1 \in DOMAIN items[t])
             => m[ItemAt(t) + o] = NoStack[ItemAt(t) + o]
    BY <1>7, Zenon DEF SlotTakes
  <2>3. t \in 1..n => DOMAIN items[t] = 1..Len(items[t])
    BY <1>5
  <2> HIDE DEF m
  <2> QED BY <1>2, <1>4, <2>1, <2>2, <2>3, Zenon
<1> HIDE DEF m
<1>9. ASSUME NEW t \in 1..MaxItems
      PROVE  /\ m[ItemAt(t) + ItemLen] = Nul
             /\ t \in 1..n => c(t) = items[t]
             /\ t \notin 1..n => c(t) = <<>>
  <2>1. ItemAt(t) \in 0..StackEnd /\ ItemAt(t) + ItemLen <= StackEnd /\ ItemAt(t) + 0 = ItemAt(t)
        /\ ItemLen \in 0..ItemLen /\ 0 \in 0..ItemLen
    BY <1>4, Offsets
  <2>2. t \in 1..n => ItemLen + 1 \notin 1..Len(items[t])
    BY <1>4, <1>5
  <2>3. m[ItemAt(t) + ItemLen] = Nul
    BY <1>8, <2>1, <2>2, Zenon
  <2>4. ASSUME t \notin 1..n PROVE c(t) = <<>>
    <3>1. m[ItemAt(t)] = Nul
      BY <1>8, <2>1, <2>4, Zenon
    <3> QED BY <1>4, <1>7, <2>1, <2>3, <3>1, CStringBound
  <2>5. ASSUME t \in 1..n PROVE c(t) = items[t]
    <3> DEFINE x == items[t]
    <3>1. IsSeq(x) /\ Len(x) \in 1..ItemLen /\ \A o \in 1..Len(x) : x[o] # Nul
      BY <1>2, <1>5, <2>5, Zenon
    <3>2. \A o \in 0..ItemLen : /\ o + 1 \in 1..Len(x) => m[ItemAt(t) + o] = x[o + 1]
                                /\ o + 1 \notin 1..Len(x) => m[ItemAt(t) + o] = Nul
      BY <1>8, <2>5, Zenon
    <3> HIDE DEF x
    <3>3. ItemAt(t) + Len(x) <= StackEnd /\ Len(x) \in 0..ItemLen /\ Len(x) + 1 \notin 1..Len(x)
      BY <1>4, <2>1, <3>1
    <3>4. m[ItemAt(t) + Len(x)] = Nul
      BY <3>2, <3>3, Zenon
    <3>5. ASSUME NEW o \in 0..(Len(x) - 1)
          PROVE  m[ItemAt(t) + o] = x[o + 1] /\ x[o + 1] # Nul
      <4>1. o \in 0..ItemLen /\ o + 1 \in 1..Len(x)
        BY <1>4, <3>1
      <4> QED BY <3>1, <3>2, <4>1, Zenon
    <3>6. CString(m, ItemAt(t)) = x
      BY <1>4, <1>7, <2>1, <3>1, <3>3, <3>4, <3>5, CStringIs
    <3> QED BY <3>6 DEF x
  <2> QED BY <2>3, <2>4, <2>5
<1>10. PICK last : ItemsOfSlots(m, last)
  BY <1>7, <1>9, ItemsAre
<1>11. Items(m) = [t \in 1..n |-> c(t)]
  <2>1. n \in 0..MaxItems /\ \A t \in 1..n : t \in 1..MaxItems
    BY <1>2, <1>4
  <2>2. \A t \in 1..n : c(t) # <<>>
    <3> HIDE DEF c
    <3>1. Len(<<>>) = 0 /\ \A z \in 1..ItemLen : z # 0
      BY <1>4
    <3> QED BY <1>5, <1>9, <2>1, <3>1, Zenon
  <2>3. n # MaxItems => c(n + 1) = <<>>
    <3>1. n # MaxItems => n + 1 \in 1..MaxItems /\ n + 1 \notin 1..n
      <4>1. n \in Nat /\ n <= MaxItems /\ MaxItems \in Nat
        BY <1>2, <1>4
      <4> HIDE DEF n
      <4> QED BY <4>1
    <3> QED BY <1>9, <3>1, Zenon
  <2> HIDE DEF n
  <2> QED BY <1>10, <2>1, <2>2, <2>3, ItemsEnd
<1>12. [t \in 1..n |-> c(t)] = items
  <2>1. items = [t \in 1..n |-> items[t]]
    BY <1>0, Zenon
  <2>2. \A t \in 1..n : c(t) = items[t]
    <3>1. \A t \in 1..n : t \in 1..MaxItems
      <4>1. n \in Nat /\ n <= MaxItems /\ MaxItems \in Nat
        BY <1>2, <1>4
      <4> HIDE DEF n
      <4> QED BY <4>1
    <3> QED BY <1>9, <3>1, Zenon
  <2> QED BY <2>1, <2>2, Zenon
<1> QED BY <1>6, <1>11, <1>12, Zenon DEF m

\* The text of the longest list fits the buffer, with the NUL behind it.
LEMMA StackFits ==
  ASSUME NEW items, ShownItems(items)
  PROVE  IsSeq(StackText(items)) /\ Len(StackText(items)) <= TextLen - 1
<1> DEFINE w == ItemLen + 3
<1>1. PICK S : ListOver(S, items)
  BY Zenon DEF ShownItems
<1>2. /\ Quote \in S /\ Comma \in S /\ items \in Seq(Seq(S)) /\ Len(items) \in Nat
      /\ DOMAIN items = 1..Len(items) /\ Len(items) <= MaxItems
      /\ \A t \in 1..Len(items) : items[t] \in Seq(S) /\ Len(items[t]) \in 1..ItemLen
  BY <1>1, Zenon DEF ShownItems, ListOver, Printable
<1>3. /\ StackText(items) \in Seq(S)
      /\ items # <<>> => Len(StackText(items)) = Len(Printed(items)) - 1
  BY <1>2, StackTextIs
<1>4. IsSeq(StackText(items))
  <2> DEFINE x == StackText(items)
  <2>1. x \in Seq(S)
    BY <1>3
  <2> HIDE DEF x
  <2>2. IsSeq(x)
    BY <2>1 DEF IsSeq, Range
  <2> QED BY <2>2 DEF x
<1>5. ItemLen \in Nat \ {0} /\ MaxItems \in Nat \ {0} /\ w \in Nat /\ w >= 1 /\ TextLen = MaxItems * w
  BY LimitsArePositive DEF TextLen
<1>6. Len(Printed(items)) \in Nat /\ Len(Printed(items)) <= Len(items) * w
  <2> DEFINE ss == [t \in DOMAIN items |-> Quoted(items[t])]
             n == Len(items)
  <2>1. Printed(items) = FlattenSeq(ss)
    BY Zenon DEF Printed
  <2>2. \A t \in 1..n : ss[t] = Quoted(items[t])
    BY <1>2, Zenon
  <2>3. ASSUME NEW t \in 1..n PROVE ss[t] \in Seq(S) /\ Len(ss[t]) <= w
    <3> DEFINE x == items[t]
    <3>1. x \in Seq(S) /\ Len(x) \in 1..ItemLen
      BY <1>2, Zenon
    <3> HIDE DEF x
    <3>2. Quoted(x) \in Seq(S) /\ Len(Quoted(x)) = Len(x) + 3
      BY <1>2, <3>1, QuotedLength
    <3>3. Len(Quoted(x)) <= w
      BY <1>5, <3>1, <3>2
    <3> QED BY <2>2, <3>2, <3>3, Zenon DEF x
  <2>4. ss = [t \in 1..n |-> ss[t]]
    BY <1>2, <2>2, Zenon
  <2> HIDE DEF ss
  <2>5. ss \in Seq(Seq(S)) /\ Len(ss) = n
    <3> DEFINE V == Seq(S)
    <3>1. n \in Nat /\ \A t \in 1..n : ss[t] \in V
      BY <1>2, <2>3, Zenon
    <3> HIDE DEF V, n
    <3>2. ss \in Seq(V) /\ Len(ss) = n
      BY <2>4, <3>1, FunctionIsSeq
    <3> QED BY <3>2 DEF V
  <2>6. \A j \in 1..Len(ss) : Len(ss[j]) <= w
    BY <2>3, <2>5, Zenon
  <2> HIDE DEF w, n
  <2>7. Len(FlattenSeq(ss)) \in Nat /\ Len(FlattenSeq(ss)) <= Len(ss) * w
    BY <1>5, <2>5, <2>6, JoinBound
  <2> QED BY <2>1, <2>5, <2>7, Zenon DEF n
<1>7. Len(items) * w <= MaxItems * w /\ Len(items) * w \in Nat /\ MaxItems * w \in Nat /\ MaxItems * w >= 1
  <2> DEFINE d == MaxItems - Len(items)
             e == MaxItems - 1
             l == Len(items)
  <2>1. l \in Nat /\ d \in Nat /\ MaxItems = l + d /\ e \in Nat /\ MaxItems = e + 1
    BY <1>2, <1>5
  <2> HIDE DEF d, e, l, w
  <2>2. (l + d) * w = l * w + d * w /\ d * w \in Nat /\ l * w \in Nat
        /\ (e + 1) * w = e * w + w /\ e * w \in Nat
    BY <1>5, <2>1
  <2>3. l * w <= (l + d) * w /\ (l + d) * w \in Nat
    BY <2>2
  <2>4. (e + 1) * w >= 1
    BY <1>5, <2>2
  <2> QED BY <2>1, <2>2, <2>3, <2>4, Zenon DEF l
<1> HIDE DEF w
<1>8. items # <<>> => Len(StackText(items)) <= TextLen - 1
  <2> DEFINE a == Len(Printed(items))
             b == Len(StackText(items))
             c == Len(items) * w
             e == MaxItems * w
  <2>1. a \in Nat /\ a <= c /\ c <= e /\ c \in Nat /\ e \in Nat /\ (items # <<>> => b = a - 1) /\ TextLen = e
    BY <1>3, <1>5, <1>6, <1>7
  <2> HIDE DEF a, b, c, e
  <2>2. items # <<>> => b <= TextLen - 1
    BY <2>1
  <2> QED BY <2>2 DEF b
<1>9. items = <<>> => Len(StackText(items)) <= TextLen - 1
  <2> SUFFICES ASSUME items = <<>> PROVE Len(<<>>) <= TextLen - 1
    BY Zenon DEF StackText
  <2> DEFINE e == MaxItems * w
  <2>1. e \in Nat /\ e >= 1 /\ TextLen = e
    BY <1>5, <1>7
  <2> HIDE DEF e
  <2> QED BY <2>1
<1> QED BY <1>4, <1>8, <1>9

-----------------------------------------------------------------------------
(* A lookup.                                                               *)

\* A text that is cut is still one that an array shows.
LEMMA CutShown ==
  ASSUME NEW max \in Nat, NEW x, ShownText(x, max), NEW n \in Nat
  PROVE  ShownText(Cut(x, n), max)
<1> DEFINE V == Range(x)
           l == Min({Len(x), n})
<1>1. x \in Seq(V) /\ Len(x) \in 0..max /\ DOMAIN x = 1..Len(x) /\ \A o \in 1..Len(x) : x[o] # Nul
  BY DEF ShownText, IsSeq
<1>2. l \in Nat /\ l <= Len(x)
  <2> DEFINE T == {Len(x), n}
  <2>1. T \subseteq Nat /\ Len(x) \in T
    BY <1>1
  <2> HIDE DEF T
  <2>2. Min(T) \in T /\ \A z \in T : Min(T) <= z
    BY <2>1, MinIs
  <2>3. Min(T) \in Nat /\ Min(T) <= Len(x)
    BY <2>1, <2>2
  <2> QED BY <2>3 DEF T
<1>3. \A o \in 1..l : x[o] \in V /\ x[o] # Nul
  BY <1>1, <1>2 DEF Range
<1> HIDE DEF V, l
<1> DEFINE y == SubSeq(x, 1, l)
<1>4. y \in Seq(V) /\ Len(y) = l /\ \A o \in 1..l : y[o] = x[o]
  <2>1. 1 \in Int /\ l \in Int /\ \A i \in 1..l : x[i] \in V
    BY <1>2, <1>3
  <2>2. /\ SubSeq(x, 1, l) \in Seq(V)
        /\ Len(SubSeq(x, 1, l)) = (IF 1 <= l THEN l - 1 + 1 ELSE 0)
        /\ \A i \in 1..(l - 1 + 1) : SubSeq(x, 1, l)[i] = x[1 + i - 1]
    BY <2>1, SubSeqProperties
  <2>3. \A o \in 1..l : o \in 1..(l - 1 + 1) /\ 1 + o - 1 = o
    BY <1>2
  <2>4. Len(SubSeq(x, 1, l)) = l
    BY <1>2, <2>2
  <2>5. \A o \in 1..l : SubSeq(x, 1, l)[o] = x[o]
    BY <2>2, <2>3, Zenon
  <2> QED BY <2>2, <2>4, <2>5, Zenon DEF y
<1> HIDE DEF y
<1>5. IsSeq(y)
  BY <1>4 DEF IsSeq, Range
<1>6. Len(y) \in 0..max
  BY <1>1, <1>2, <1>4
<1>7. \A o \in 1..Len(y) : y[o] # Nul
  BY <1>3, <1>4, Zenon
<1>8. ShownText(y, max)
  BY <1>5, <1>6, <1>7, Zenon DEF ShownText
<1> QED BY <1>8 DEF y, l, Cut

\* What is copied into a struct Pessoa that was zeroed is what it prints.
LEMMA ShownAs ==
  ASSUME NEW row, NEW x, ShownText(x, ApelidoLen), NEW y, ShownText(y, NomeLen),
         NEW items, ShownItems(items)
  PROVE  AsJson(row, Copy(Copy(NoNames, 0, x), NomeAt, y), Unpacked(StackText(items)))
         = [id |-> row.id, apelido |-> x, nome |-> y,
            nascimento |-> Dated(row.nascimento), stack |-> StackText(items)]
<1> DEFINE m == Copy(Copy(NoNames, 0, x), NomeAt, y)
           s == Unpacked(StackText(items))
<1>1. CString(m, 0) = x /\ CString(m, NomeAt) = y
  BY NamesShown
<1>2. Items(s) = items
  BY ItemsShown
<1> HIDE DEF m, s
<1>3. AsJson(row, m, s) =
        [id |-> row.id, apelido |-> x, nome |-> y,
         nascimento |-> Dated(row.nascimento), stack |-> StackText(items)]
  BY <1>1, <1>2, Zenon DEF AsJson
<1> QED BY <1>3 DEF m, s

\* A person that a search finds is shown as it was sent.
LEMMA FoundIs ==
  ASSUME NEW row, PlainRow(row)
  PROVE  Found(row) = Sent(row)
<1> DEFINE x == row.apelido
           y == row.nome
           items == SentItems(row.sent)
<1>1. /\ x = The(row.sent, "apelido") /\ ShownText(x, ApelidoLen)
      /\ y = The(row.sent, "nome") /\ ShownText(y, NomeLen)
      /\ row.stack = StackText(items) /\ ShownItems(items)
      /\ Dated(row.nascimento) = DateOf[The(row.sent, "nascimento")]
  BY Zenon DEF PlainRow
<1> HIDE DEF x, y, items
<1>2. AsJson(row, Copy(Copy(NoNames, 0, x), NomeAt, y), Unpacked(StackText(items)))
      = [id |-> row.id, apelido |-> x, nome |-> y,
         nascimento |-> Dated(row.nascimento), stack |-> StackText(items)]
  BY <1>1, ShownAs
<1>3. Found(row) = AsJson(row, Copy(Copy(NoNames, 0, x), NomeAt, y), Unpacked(StackText(items)))
  BY <1>1, Zenon DEF Found, x, y
<1>4. Sent(row) = [id |-> row.id, apelido |-> x, nome |-> y,
                   nascimento |-> Dated(row.nascimento), stack |-> StackText(items)]
  BY <1>1, Zenon DEF Sent, items
<1> QED BY <1>2, <1>3, <1>4, Zenon

Replaced(r, x, y) == [r EXCEPT !.apelido = x, !.nome = y]

\* Two columns of a row that is printed are replaced.
LEMMA TwoReplaced ==
  ASSUME NEW i, NEW a, NEW n, NEW d, NEW s, NEW x, NEW y, NEW r,
         r = [id |-> i, apelido |-> a, nome |-> n, nascimento |-> d, stack |-> s]
  PROVE  /\ Replaced(r, x, y)
            = [id |-> i, apelido |-> x, nome |-> y, nascimento |-> d, stack |-> s]
         /\ r.apelido = a /\ r.nome = n
<1> DEFINE q == [r EXCEPT !.apelido = x]
<1>1. q = [id |-> i, apelido |-> x, nome |-> n, nascimento |-> d, stack |-> s]
  OBVIOUS
<1>2. [r EXCEPT !.apelido = x, !.nome = y] = [q EXCEPT !.nome = y]
  OBVIOUS
<1> HIDE DEF q
<1>3. [q EXCEPT !.nome = y]
      = [id |-> i, apelido |-> x, nome |-> y, nascimento |-> d, stack |-> s]
  BY <1>1
<1>4. r.apelido = a /\ r.nome = n
  OBVIOUS
<1>5. Replaced(r, x, y) = [r EXCEPT !.apelido = x, !.nome = y]
  BY Zenon DEF Replaced
<1> QED BY <1>2, <1>3, <1>4, <1>5, Zenon

\* A lookup cuts one character of the longest names.
LEMMA LookupIs ==
  ASSUME NEW row, PlainRow(row)
  PROVE  Lookup(row) = [Sent(row) EXCEPT !.apelido = Cut(@, ApelidoLen - 1),
                                         !.nome = Cut(@, NomeLen - 1)]
<1> DEFINE x == Cut(row.apelido, ApelidoLen - 1)
           y == Cut(row.nome, NomeLen - 1)
           items == SentItems(row.sent)
           d == DateOf[The(row.sent, "nascimento")]
<1>1. /\ row.apelido = The(row.sent, "apelido") /\ ShownText(row.apelido, ApelidoLen)
      /\ row.nome = The(row.sent, "nome") /\ ShownText(row.nome, NomeLen)
      /\ row.stack = StackText(items) /\ ShownItems(items)
      /\ Dated(row.nascimento) = d
  BY Zenon DEF PlainRow
<1>2. ApelidoLen \in Nat /\ NomeLen \in Nat /\ ApelidoLen - 1 \in Nat /\ NomeLen - 1 \in Nat
  BY LimitsArePositive
<1>3. ShownText(x, ApelidoLen) /\ ShownText(y, NomeLen)
  BY <1>1, <1>2, CutShown
<1>4. Cut(row.stack, TextLen - 1) = row.stack
  <2> DEFINE t == StackText(items)
  <2>1. IsSeq(t) /\ Len(t) <= TextLen - 1
    BY <1>1, StackFits
  <2>2. TextLen \in Int /\ Len(t) \in Nat
    BY <2>1, LimitsArePositive DEF TextLen, IsSeq
  <2> HIDE DEF t
  <2>3. TextLen - 1 \in Nat
    BY <2>1, <2>2
  <2>4. Cut(t, TextLen - 1) = t
    BY <2>1, <2>3, CutNothing
  <2> QED BY <1>1, <2>4, Zenon DEF t
<1> HIDE DEF items, d
<1>5. AsJson(row, Copy(Copy(NoNames, 0, x), NomeAt, y), Unpacked(StackText(items)))
      = [id |-> row.id, apelido |-> x, nome |-> y,
         nascimento |-> Dated(row.nascimento), stack |-> StackText(items)]
  <2> HIDE DEF x, y
  <2> QED BY <1>1, <1>3, ShownAs
<1>6. Lookup(row) = [id |-> row.id, apelido |-> x, nome |-> y,
                     nascimento |-> d, stack |-> StackText(items)]
  BY <1>1, <1>4, <1>5, Zenon DEF Lookup
<1>7. Sent(row) = [id |-> row.id, apelido |-> row.apelido, nome |-> row.nome,
                   nascimento |-> d, stack |-> StackText(items)]
  BY <1>1, Zenon DEF Sent, items, d
<1> DEFINE r == Sent(row)
<1> HIDE DEF r, x, y
<1>8. r = [id |-> row.id, apelido |-> row.apelido, nome |-> row.nome,
           nascimento |-> d, stack |-> StackText(items)]
  BY <1>7 DEF r
<1>9. /\ Replaced(r, x, y)
         = [id |-> row.id, apelido |-> x, nome |-> y, nascimento |-> d, stack |-> StackText(items)]
      /\ r.apelido = row.apelido /\ r.nome = row.nome
  <2> DEFINE i == row.id
             a == row.apelido
             n == row.nome
             t == StackText(items)
  <2>1. r = [id |-> i, apelido |-> a, nome |-> n, nascimento |-> d, stack |-> t]
    BY <1>8
  <2> HIDE DEF i, a, n, t
  <2>2. /\ Replaced(r, x, y)
           = [id |-> i, apelido |-> x, nome |-> y, nascimento |-> d, stack |-> t]
        /\ r.apelido = a /\ r.nome = n
    BY <2>1, TwoReplaced
  <2> QED BY <2>2 DEF i, a, n, t
<1>10. x = Cut(r.apelido, ApelidoLen - 1) /\ y = Cut(r.nome, NomeLen - 1)
  BY <1>9, Zenon DEF x, y
<1>11. Lookup(row) = [r EXCEPT !.apelido = Cut(@, ApelidoLen - 1), !.nome = Cut(@, NomeLen - 1)]
  <2>1. Lookup(row) = [r EXCEPT !.apelido = x, !.nome = y]
    BY <1>6, <1>9, Zenon DEF Replaced
  <2> QED BY <1>10, <2>1
<1> QED BY <1>11 DEF r

(* LookupShowsPrefix: whatever the limits, the nicknames, the names and    *)
(* the lists, a lookup (db.c:242) shows a plain person as it was sent, but *)
(* for the last character of a nickname or name as long as it may be.      *)
THEOREM LookupIsPrefix == Spec => []LookupShowsPrefix
<1>1. RInv => LookupShowsPrefix
  <2> SUFFICES ASSUME RInv, NEW row \in {r \in Range(rows) : Plain(r.sent)}
               PROVE  Lookup(row) = [Sent(row) EXCEPT !.apelido = Cut(@, ApelidoLen - 1),
                                                      !.nome = Cut(@, NomeLen - 1)]
    BY Zenon DEF LookupShowsPrefix
  <2>1. RowKept(row) /\ Plain(row.sent)
    BY Zenon DEF RInv, RowsKept, Range
  <2>2. PlainRow(row)
    BY <2>1, PlainRows
  <2> QED BY <2>2, LookupIs
<1> QED BY <1>1, RowsHeld, PTL

-----------------------------------------------------------------------------
(* The LIKE of a search.                                                   *)

\* Where the next character of a pattern may end.
NextEnds(text, c, v) ==
  IF c = AnyText THEN {j \in 0..Len(text) : \E n \in v : n <= j}
  ELSE IF c = AnyChar THEN {n + Width(text, n + 1) : n \in v \ {Len(text)}}
  ELSE {j \in DOMAIN text : Low(c) = Low(text[j]) /\ j - 1 \in v}

\* A character that begins within a text ends within it.
LEMMA WidthFits ==
  ASSUME NEW text, IsSeq(text), NEW n \in 0..Len(text), n # Len(text)
  PROVE  n + Width(text, n + 1) \in 0..Len(text)
<1>1. Len(text) \in Nat
  BY DEF IsSeq
<1>2. n + 1 < Len(text) => n + 2 \in 0..Len(text)
  BY <1>1
<1>3. n + 1 \in 0..Len(text)
  BY <1>1
<1> QED BY <1>2, <1>3, Zenon DEF Width

EndsUpto(text, pattern, f) ==
  f[0] = {0} /\ \A i \in 1..Len(pattern) : f[i] = NextEnds(text, pattern[i], f[i - 1])

\* The recursion of Like exists: some function takes every step of it, and
\* the pattern matches if it can end where the text does.
LEMMA LikeRecursion ==
  ASSUME NEW text, IsSeq(text), NEW pattern, IsSeq(pattern)
  PROVE  \E f : EndsUpto(text, pattern, f) /\ (Like(text, pattern) <=> Len(text) \in f[Len(pattern)])
<1> DEFINE n == Len(pattern)
           F(h) == [i \in 0..n |->
                      IF i = 0 THEN {0} ELSE NextEnds(text, pattern[i], h[i - 1])]
           V == SUBSET (0..Len(text))
           D == [i \in 1..n |-> [v \in V |-> NextEnds(text, pattern[i], v)]]
           f == CHOOSE h : h = F(h)
<1>1. n \in Nat /\ Len(text) \in Nat /\ DOMAIN text = 1..Len(text)
  BY DEF IsSeq
<1> HIDE DEF n
<1>2. ASSUME NEW i \in 1..n, NEW v \in V
      PROVE  D[i][v] \in V /\ D[i][v] = NextEnds(text, pattern[i], v)
  <2>1. D[i][v] = NextEnds(text, pattern[i], v)
    BY Zenon
  <2>2. \A j \in DOMAIN text : j \in 0..Len(text)
    BY <1>1
  <2>3. \A j \in NextEnds(text, pattern[i], v) : j \in 0..Len(text)
    <3>1. \A m \in v \ {Len(text)} : m + Width(text, m + 1) \in 0..Len(text)
      BY WidthFits, Zenon
    <3> QED BY <2>2, <3>1, Zenon DEF NextEnds
  <2>4. NextEnds(text, pattern[i], v) \subseteq 0..Len(text)
    BY <2>3, Zenon
  <2> QED BY <2>1, <2>4, Zenon
<1>3. PICK g \in [0..n -> V] : \A j \in 0..n : g[j] = IF j = 0 THEN {0} ELSE D[j][g[j - 1]]
  <2>1. StepsIn(V, 0, n, D)
    <3>1. \A j \in (0 + 1)..n : j \in 1..n
      OBVIOUS
    <3> HIDE DEF V, D
    <3> QED BY <1>2, <3>1, Zenon DEF StepsIn
  <2>2. {0} \in V /\ 0 \in Int /\ n \in Int /\ 0 <= n
    BY <1>1
  <2> HIDE DEF V, D
  <2>3. Recursive(V, 0, n, {0}, D)
    BY <2>1, <2>2, RecursionExists
  <2> QED BY <2>3, Zenon DEF Recursive
<1>4. g = F(g)
  <2>1. ASSUME NEW i \in 0..n
        PROVE  g[i] = IF i = 0 THEN {0} ELSE NextEnds(text, pattern[i], g[i - 1])
    <3>1. CASE i = 0
      <4> HIDE DEF V, D
      <4> QED BY <1>3, <3>1, Zenon
    <3>2. CASE i # 0
      <4>1. i \in 1..n /\ i - 1 \in 0..n
        BY <1>1, <3>2
      <4> HIDE DEF V, D
      <4>2. g[i - 1] \in V /\ g[i] = D[i][g[i - 1]]
        BY <1>3, <3>2, <4>1
      <4> QED BY <1>2, <3>2, <4>1, <4>2, Zenon
    <3> QED BY <3>1, <3>2
  <2>2. g = [i \in 0..n |-> g[i]]
    BY <1>3, Zenon
  <2> QED BY <2>1, <2>2, Zenon
<1>5. f = F(f)
  <2> HIDE DEF F
  <2> QED BY <1>4, Zenon
<1>6. Like(text, pattern) <=> Len(text) \in f[n]
  BY Zenon DEF Like, n, NextEnds
<1> HIDE DEF f
<1>7. ASSUME NEW i \in 0..n
      PROVE  f[i] = IF i = 0 THEN {0} ELSE NextEnds(text, pattern[i], f[i - 1])
  BY <1>5, Zenon
<1>8. f[0] = {0}
  <2>1. 0 \in 0..n
    BY <1>1
  <2> QED BY <1>7, <2>1, Zenon
<1>9. ASSUME NEW i \in 1..n PROVE f[i] = NextEnds(text, pattern[i], f[i - 1])
  <2>1. i \in 0..n /\ i # 0
    BY <1>1
  <2> QED BY <1>7, <2>1, Zenon
<1>10. EndsUpto(text, pattern, f)
  BY <1>8, <1>9, Zenon DEF EndsUpto, n
<1> QED BY <1>6, <1>10, Zenon DEF n

\* The pattern of a search is the term between two percent signs (db.c:15).
LEMMA AroundIs ==
  ASSUME NEW term, IsSeq(term)
  PROVE  /\ IsSeq(Around(term)) /\ Len(Around(term)) = Len(term) + 2 /\ Len(term) \in Nat
         /\ Around(term)[1] = AnyText /\ Around(term)[Len(term) + 2] = AnyText
         /\ \A o \in 1..Len(term) : Around(term)[o + 1] = term[o]
<1> DEFINE S == Range(term) \cup {AnyText}
           x == <<AnyText>> \o term
           y == x \o <<AnyText>>
<1>1. term \in Seq(S) /\ <<AnyText>> \in Seq(S) /\ Len(term) \in Nat
      /\ Len(<<AnyText>>) = 1 /\ <<AnyText>>[1] = AnyText
  BY DEF IsSeq
<1> HIDE DEF S
<1>2. /\ x \in Seq(S) /\ Len(x) = 1 + Len(term)
      /\ \A i \in 1..(1 + Len(term)) : x[i] = IF i <= 1 THEN <<AnyText>>[i] ELSE term[i - 1]
  BY <1>1, ConcatProperties
<1> HIDE DEF x
<1>3. /\ y \in Seq(S) /\ Len(y) = 2 + Len(term)
      /\ \A i \in 1..(2 + Len(term)) : y[i] = IF i <= 1 + Len(term) THEN x[i] ELSE <<AnyText>>[i - (1 + Len(term))]
  BY <1>1, <1>2, ConcatProperties
<1> HIDE DEF y
<1>4. y[1] = AnyText
  <2>1. 1 \in 1..(1 + Len(term)) /\ 1 \in 1..(2 + Len(term)) /\ 1 <= 1 /\ 1 <= 1 + Len(term)
    BY <1>1
  <2> QED BY <1>1, <1>2, <1>3, <2>1, Zenon
<1>5. y[Len(term) + 2] = AnyText
  <2>1. Len(term) + 2 \in 1..(2 + Len(term)) /\ ~(Len(term) + 2 <= 1 + Len(term))
        /\ (Len(term) + 2) - (1 + Len(term)) = 1
    BY <1>1
  <2> QED BY <1>1, <1>3, <2>1, Zenon
<1>6. ASSUME NEW o \in 1..Len(term) PROVE y[o + 1] = term[o]
  <2>1. o + 1 \in 1..(1 + Len(term)) /\ o + 1 \in 1..(2 + Len(term)) /\ ~(o + 1 <= 1)
        /\ o + 1 <= 1 + Len(term) /\ (o + 1) - 1 = o
    BY <1>1
  <2> QED BY <1>2, <1>3, <2>1, Zenon
<1>7. IsSeq(y) /\ Len(y) = Len(term) + 2
  BY <1>1, <1>3, SMTT(60) DEF IsSeq, Range
<1>8. Around(term) = y
  BY Zenon DEF Around, y, x
<1> QED BY <1>1, <1>4, <1>5, <1>6, <1>7, <1>8, Zenon

\* An underscore is the same character as no first byte of one.
LEMMA LowAnyChar ==
  ASSUME NEW c, Low(AnyChar) = Low(c)
  PROVE  c # "lead"
<1>1. /\ AnyChar \notin DOMAIN Lower /\ AnyChar # "lead" /\ "lead" \notin DOMAIN Lower
  BY CharactersAreLexemes, Zenon
<1>2. Low(AnyChar) = AnyChar /\ Low("lead") = "lead"
  BY <1>1, Zenon DEF Low
<1> QED BY <1>1, <1>2, Zenon

\* A text that has the term somewhere is found by it.
LEMMA TermIsFound ==
  ASSUME NEW text, IsSeq(text), NEW term, IsSeq(term), HasTerm(text, term)
  PROVE  Like(text, Around(term))
<1> DEFINE p == Around(term)
           n == Len(term)
           l == Len(text)
<1>1. /\ IsSeq(p) /\ Len(p) = n + 2 /\ n \in Nat /\ p[1] = AnyText /\ p[n + 2] = AnyText
      /\ \A o \in 1..n : p[o + 1] = term[o]
  BY AroundIs
<1>2. l \in Nat /\ DOMAIN text = 1..l /\ DOMAIN term = 1..n
  BY DEF IsSeq
<1>3. PICK i \in 0..(l - n) : \A j \in 1..n : Low(text[i + j]) = Low(term[j])
  BY <1>2, Zenon DEF HasTerm
<1> HIDE DEF p
<1>4. PICK f : EndsUpto(text, p, f) /\ (Like(text, p) <=> l \in f[n + 2])
  BY <1>1, LikeRecursion
<1> HIDE DEF n, l
<1>5. f[0] = {0} /\ \A j \in 1..(n + 2) : f[j] = NextEnds(text, p[j], f[j - 1])
  BY <1>1, <1>4, Zenon DEF EndsUpto
<1>6. /\ i \in Nat /\ i + n <= l
  BY <1>1, <1>2, <1>3
<1> DEFINE T == {o \in Nat : o <= n => i + o \in f[o + 1]}
<1>7. 0 \in T
  <2>1. 1 \in 1..(n + 2) /\ 1 - 1 = 0 /\ i \in 0..l /\ 0 <= i /\ i + 0 = i /\ 0 + 1 = 1
    BY <1>1, <1>2, <1>6
  <2>2. f[1] = {j \in 0..Len(text) : \E m \in f[0] : m <= j}
    BY <1>1, <1>5, <2>1, Zenon DEF NextEnds
  <2>3. i \in f[1]
    BY <1>5, <2>1, <2>2, Zenon DEF l
  <2> QED BY <2>1, <2>3
<1>8. ASSUME NEW o \in Nat, o \in T PROVE o + 1 \in T
  <2> SUFFICES ASSUME o + 1 <= n PROVE i + (o + 1) \in f[(o + 1) + 1]
    OBVIOUS
  <2> DEFINE j == i + (o + 1)
             c == p[(o + 1) + 1]
  <2>1. /\ i + o \in f[o + 1] /\ (o + 1) + 1 \in 1..(n + 2) /\ ((o + 1) + 1) - 1 = o + 1
        /\ o + 1 \in 1..n /\ j \in 0..l /\ j \in 1..l /\ i + o <= j /\ j - 1 = i + o
    BY <1>1, <1>2, <1>6, <1>8
  <2>2. f[(o + 1) + 1] = NextEnds(text, c, f[o + 1]) /\ c = term[o + 1]
    BY <1>1, <1>5, <2>1, Zenon
  <2>3. Low(c) = Low(text[j])
    BY <1>3, <2>1, <2>2, Zenon
  <2> HIDE DEF j, c
  <2>4. j \in NextEnds(text, c, f[o + 1])
    <3>1. CASE c = AnyText
      BY <2>1, <3>1, Zenon DEF NextEnds, l
    <3>2. CASE c # AnyText /\ c # AnyChar
      BY <1>2, <2>1, <2>3, <3>2, Zenon DEF NextEnds
    <3>3. CASE c # AnyText /\ c = AnyChar
      <4>1. text[j] # "lead"
        BY <2>3, <3>3, LowAnyChar, Zenon
      <4>2. Width(text, j) = 1
        BY <4>1, Zenon DEF Width
      <4> DEFINE m == i + o
      <4>3. m \in f[o + 1] /\ m + 1 = j /\ m # l
        BY <1>2, <2>1
      <4> HIDE DEF m
      <4>4. m \in f[o + 1] \ {Len(text)} /\ m + Width(text, m + 1) = j
        BY <4>2, <4>3, Zenon DEF l
      <4> QED BY <3>3, <4>4, Zenon DEF NextEnds
    <3> QED BY <3>1, <3>2, <3>3, Zenon
  <2> QED BY <2>2, <2>4, Zenon DEF j
<1>9. i + n \in f[n + 1]
  <2>1. \A o \in Nat : o \in T
    <3> HIDE DEF T
    <3> QED BY <1>7, <1>8, SetInduction
  <2>2. n \in T /\ n <= n
    BY <1>1, <2>1
  <2> QED BY <2>2
<1>10. l \in f[n + 2]
  <2>1. n + 2 \in 1..(n + 2) /\ (n + 2) - 1 = n + 1 /\ l \in 0..l
    BY <1>1, <1>2
  <2>2. f[n + 2] = {j \in 0..Len(text) : \E m \in f[n + 1] : m <= j}
    BY <1>1, <1>5, <2>1, Zenon DEF NextEnds
  <2> QED BY <1>6, <1>9, <2>1, <2>2, Zenon DEF l
<1> QED BY <1>4, <1>10, Zenon DEF p

\* The first o characters of the term end at place j of the text.
EndsAt(text, term, o, j) ==
  /\ j \in o..Len(text)
  /\ \A q \in 1..o : Low(text[(j - o) + q]) = Low(term[q])

\* A term without a character that LIKE takes for others finds only texts that have it.
LEMMA FoundHasTerm ==
  ASSUME NEW text, IsSeq(text), NEW term, IsSeq(term),
         Range(term) \cap {AnyText, AnyChar} = {}, Like(text, Around(term))
  PROVE  HasTerm(text, term)
<1> DEFINE p == Around(term)
           n == Len(term)
           l == Len(text)
<1>1. /\ IsSeq(p) /\ Len(p) = n + 2 /\ n \in Nat /\ p[1] = AnyText /\ p[n + 2] = AnyText
      /\ \A o \in 1..n : p[o + 1] = term[o]
  BY AroundIs
<1>2. l \in Nat /\ DOMAIN text = 1..l /\ DOMAIN term = 1..n
  BY DEF IsSeq
<1> HIDE DEF p
<1>3. PICK f : EndsUpto(text, p, f) /\ (Like(text, p) <=> l \in f[n + 2])
  BY <1>1, LikeRecursion
<1>4. l \in f[n + 2]
  BY <1>3, Zenon DEF p
<1> HIDE DEF n, l
<1>5. f[0] = {0} /\ \A j \in 1..(n + 2) : f[j] = NextEnds(text, p[j], f[j - 1])
  BY <1>1, <1>3, Zenon DEF EndsUpto
<1> DEFINE T == {o \in Nat : o <= n => \A j \in f[o + 1] : EndsAt(text, term, o, j)}
<1>6. 0 \in T
  <2>1. 1 \in 1..(n + 2) /\ 1 - 1 = 0 /\ 0 + 1 = 1 /\ 1..0 = {}
    BY <1>1
  <2>2. f[1] = {j \in 0..Len(text) : \E m \in f[0] : m <= j}
    BY <1>1, <1>5, <2>1, Zenon DEF NextEnds
  <2>3. \A j \in f[0 + 1] : EndsAt(text, term, 0, j)
    BY <2>1, <2>2, Zenon DEF EndsAt
  <2> QED BY <2>3
<1>7. ASSUME NEW o \in Nat, o \in T PROVE o + 1 \in T
  <2> SUFFICES ASSUME o + 1 <= n, NEW j \in f[(o + 1) + 1]
               PROVE  EndsAt(text, term, o + 1, j)
    OBVIOUS
  <2> DEFINE c == p[(o + 1) + 1]
  <2>1. /\ \A i \in f[o + 1] : EndsAt(text, term, o, i)
        /\ (o + 1) + 1 \in 1..(n + 2) /\ ((o + 1) + 1) - 1 = o + 1 /\ o + 1 \in 1..n
    BY <1>1, <1>7
  <2>2. f[(o + 1) + 1] = NextEnds(text, c, f[o + 1]) /\ c = term[o + 1]
    BY <1>1, <1>5, <2>1, Zenon
  <2>3. c # AnyText /\ c # AnyChar
    <3>1. c \in Range(term)
      BY <1>2, <2>1, <2>2, Zenon DEF Range
    <3> HIDE DEF c
    <3> QED BY <3>1, Zenon
  <2> HIDE DEF c
  <2>4. j \in 1..l /\ Low(c) = Low(text[j]) /\ j - 1 \in f[o + 1]
    BY <1>2, <2>2, <2>3, Zenon DEF NextEnds
  <2>5. /\ j - 1 \in o..l
        /\ \A q \in 1..o : Low(text[((j - 1) - o) + q]) = Low(term[q])
    BY <2>1, <2>4, Zenon DEF EndsAt, l
  <2>6. j \in (o + 1)..l
    BY <1>2, <2>4, <2>5
  <2>7. ASSUME NEW q \in 1..(o + 1)
        PROVE  Low(text[(j - (o + 1)) + q]) = Low(term[q])
    <3>1. CASE q = o + 1
      <4>1. (j - (o + 1)) + q = j
        BY <2>4, <3>1
      <4> QED BY <2>2, <2>4, <3>1, <4>1, Zenon
    <3>2. CASE q # o + 1
      <4>1. q \in 1..o /\ (j - (o + 1)) + q = ((j - 1) - o) + q
        BY <2>4, <3>2
      <4> QED BY <2>5, <4>1, Zenon
    <3> QED BY <3>1, <3>2
  <2> QED BY <2>6, <2>7, Zenon DEF EndsAt, l
<1>8. \A j \in f[n + 1] : EndsAt(text, term, n, j)
  <2>1. \A o \in Nat : o \in T
    <3> HIDE DEF T
    <3> QED BY <1>6, <1>7, SetInduction
  <2>2. n \in T /\ n <= n
    BY <1>1, <2>1
  <2> QED BY <2>2
<1>9. PICK m \in f[n + 1] : m <= l
  <2>1. n + 2 \in 1..(n + 2) /\ (n + 2) - 1 = n + 1
    BY <1>1
  <2>2. f[n + 2] = NextEnds(text, AnyText, f[n + 1])
    BY <1>1, <1>5, <2>1, Zenon
  <2>3. NextEnds(text, AnyText, f[n + 1]) = {j \in 0..Len(text) : \E m \in f[n + 1] : m <= j}
    BY Zenon DEF NextEnds
  <2> QED BY <1>4, <2>2, <2>3, Zenon
<1>10. m \in n..l /\ \A q \in 1..n : Low(text[(m - n) + q]) = Low(term[q])
  BY <1>8, <1>9, Zenon DEF EndsAt, l
<1>11. m - n \in 0..(l - n)
  BY <1>1, <1>2, <1>10
<1> QED BY <1>2, <1>10, <1>11, Zenon DEF HasTerm, n, l

-----------------------------------------------------------------------------
(* Terms in the column of the stack.                                       *)

\* No letter is a delimiter in another case.
LEMMA LowDelimiter ==
  ASSUME NEW c, NEW d, d \in Delimiters, Low(c) = Low(d)
  PROVE  c \in Delimiters
<1>1. Low(d) = d /\ d \notin Range(Lower)
  <2>1. d \notin DOMAIN Lower /\ d \notin Range(Lower)
    BY CharactersAreLexemes, Zenon DEF Delimiters
  <2> QED BY <2>1, Zenon DEF Low
<1>2. CASE c \in DOMAIN Lower
  BY <1>1, <1>2, Zenon DEF Low, Range
<1>3. CASE c \notin DOMAIN Lower
  BY <1>1, <1>3, Zenon DEF Low
<1> QED BY <1>2, <1>3

\* A term that is in an item is in the text of the list.
LEMMA TermOfItem ==
  ASSUME NEW S, NEW items, ListOver(S, items), NEW t \in 1..Len(items),
         NEW term, IsSeq(term), HasTerm(items[t], term)
  PROVE  HasTerm(StackText(items), term) /\ IsSeq(StackText(items))
<1> DEFINE text == StackText(items)
           x == items[t]
           n == Len(term)
<1>1. items # <<>> /\ Len(x) \in Nat
  <2>1. Len(items) \in Nat /\ Len(x) \in Nat
    BY Zenon DEF ListOver
  <2>2. Len(<<>>) = 0 /\ Len(items) # 0
    BY <2>1
  <2> QED BY <2>1, <2>2, Zenon
<1>2. PICK at : Listed(text, items, at)
  BY <1>1, StackTextPlaces
<1>3. text \in Seq(S)
  BY <1>1, StackTextPlaces
<1>4. /\ at[t] \in Nat /\ at[t] + 2 + Len(x) <= Len(text)
      /\ \A o \in 1..Len(x) : text[at[t] + 1 + o] = x[o]
  BY <1>2, Zenon DEF Listed
<1>5. n \in Nat /\ DOMAIN term = 1..n
  BY DEF IsSeq
<1>6. PICK i \in 0..(Len(x) - n) : \A j \in 1..n : Low(x[i + j]) = Low(term[j])
  BY <1>5, Zenon DEF HasTerm
<1> HIDE DEF text
<1>7. Len(text) \in Nat /\ IsSeq(text)
  BY <1>3 DEF IsSeq, Range
<1> DEFINE a == at[t]
           p == a + 1 + i
           l == Len(x)
           m == Len(text)
<1>8. a \in Nat /\ a + 2 + l <= m /\ m \in Nat /\ l \in Nat /\ n \in Nat /\ i \in 0..(l - n)
  BY <1>1, <1>4, <1>5, <1>6, <1>7
<1> HIDE DEF a, l, m, n, x
<1>9. p \in 0..(m - n)
  BY <1>8
<1>10. ASSUME NEW j \in 1..n PROVE Low(text[p + j]) = Low(term[j])
  <2>1. i + j \in 1..l /\ p + j = a + 1 + (i + j)
    BY <1>8
  <2>2. text[a + 1 + (i + j)] = x[i + j]
    BY <1>4, <2>1, Zenon DEF a, l, x
  <2>3. Low(x[i + j]) = Low(term[j])
    BY <1>6 DEF n
  <2> QED BY <2>1, <2>2, <2>3, Zenon
<1>11. HasTerm(text, term)
  <2> HIDE DEF p
  <2> QED BY <1>5, <1>9, <1>10, Zenon DEF HasTerm, n, m
<1> QED BY <1>7, <1>11, Zenon DEF text

\* Every character of the text of a list that is no delimiter belongs to an item.
LEMMA PlaceInItem ==
  ASSUME NEW S, NEW items, ListOver(S, items), NEW text, NEW at, Listed(text, items, at),
         Len(items) >= 1, NEW p \in 1..Len(text), Len(text) \in Nat, text[p] \notin Delimiters
  PROVE  \E t \in 1..Len(items) : \E o \in 1..Len(items[t]) : p = at[t] + 1 + o
<1> DEFINE n == Len(items)
           len(t) == Len(items[t])
           T == {t \in 1..(n + 1) : t = n + 1 \/ at[t] >= p}
           b == Min(T)
           t == b - 1
<1>1. n \in Nat /\ n >= 1 /\ \A q \in 1..n : len(q) \in Nat
  BY Zenon DEF ListOver
<1>2. /\ at[1] = 0
      /\ \A q \in 1..n :
           /\ at[q] \in Nat /\ at[q] + 2 + len(q) <= Len(text)
           /\ text[at[q] + 1] = Quote /\ text[at[q] + 2 + len(q)] = Quote
           /\ q = n => Len(text) = at[q] + 2 + len(q)
           /\ q # n => at[q + 1] = at[q] + 3 + len(q) /\ text[at[q + 1]] = Comma
  BY Zenon DEF Listed
<1> HIDE DEF n, len
<1>3. T \subseteq Nat /\ n + 1 \in T
  BY <1>1
<1>4. b \in T /\ \A z \in T : b <= z
  <2> HIDE DEF T
  <2> QED BY <1>3, MinIs
<1>5. b \in 1..(n + 1) /\ (b = n + 1 \/ at[b] >= p) /\ b # 1
  BY <1>1, <1>2, <1>4
<1>6. t \in 1..n /\ t + 1 = b /\ t \notin T
  <2>1. t \in 1..n /\ t + 1 = b /\ ~(b <= t)
    BY <1>1, <1>5
  <2> HIDE DEF T, b
  <2> QED BY <1>4, <2>1
<1>7. ~(at[t] >= p)
  BY <1>1, <1>6
<1> HIDE DEF T, b, t
<1> DEFINE a == at[t]
           l == len(t)
<1>8. /\ a \in Nat /\ l \in Nat /\ a < p
      /\ text[a + 1] = Quote /\ text[a + 2 + l] = Quote
  <2>1. a \in Nat /\ l \in Nat /\ text[a + 1] = Quote /\ text[a + 2 + l] = Quote
    BY <1>1, <1>2, <1>6, Zenon
  <2> QED BY <1>7, <2>1
<1>9. p <= a + 2 + l \/ (p = a + 3 + l /\ text[p] = Comma)
  <2>0. p \in Int /\ a \in Int /\ l \in Int
    BY <1>8
  <2>1. CASE t = n
    <3>1. Len(text) = a + 2 + l
      BY <1>2, <1>6, <2>1, Zenon
    <3> HIDE DEF a, l
    <3> QED BY <2>0, <3>1
  <2>2. CASE t # n
    <3>0. b # n + 1
      <4>1. t \in 1..n /\ t + 1 = b
        BY <1>6
      <4> QED BY <1>1, <2>2, <4>1
    <3>1. b # n + 1 /\ at[b] >= p
      BY <1>5, <3>0, Zenon
    <3>2. at[b] = a + 3 + l /\ text[at[b]] = Comma
      BY <1>2, <1>6, <2>2, Zenon
    <3> DEFINE c == at[b]
    <3>3. c >= p /\ c = a + 3 + l /\ text[c] = Comma
      BY <3>1, <3>2
    <3> HIDE DEF c, a, l
    <3>4. p < c \/ p = c
      BY <1>8, <3>3
    <3>5. CASE p = c
      BY <3>3, <3>5, Zenon
    <3>6. CASE p < c
      <4>1. c = a + 3 + l
        BY <3>3
      <4> QED BY <2>0, <3>6, <4>1
    <3> QED BY <3>4, <3>5, <3>6
  <2> QED BY <2>1, <2>2
<1> HIDE DEF a, l
<1>10. p # a + 1 /\ p # a + 2 + l /\ text[p] # Comma
  BY <1>8, Zenon DEF Delimiters
<1>11. p - (a + 1) \in 1..l /\ p = a + 1 + (p - (a + 1))
  BY <1>8, <1>9, <1>10
<1> QED BY <1>6, <1>11, Zenon DEF a, l, len, n

\* A term without a delimiter that is in the text of a list is in an item.
LEMMA TermInItem ==
  ASSUME NEW S, NEW items, ListOver(S, items), NEW term, IsSeq(term), Len(term) # 0,
         Range(term) \cap Delimiters = {}, HasTerm(StackText(items), term)
  PROVE  \E t \in 1..Len(items) : HasTerm(items[t], term)
<1> DEFINE text == StackText(items)
           n == Len(term)
           m == Len(text)
<1>1. n \in Nat /\ n # 0 /\ DOMAIN term = 1..n
  BY DEF IsSeq
<1>2. PICK i \in 0..(m - n) : \A j \in 1..n : Low(text[i + j]) = Low(term[j])
  BY <1>1, Zenon DEF HasTerm
<1>3. items # <<>>
  <2> SUFFICES ASSUME items = <<>> PROVE FALSE
    OBVIOUS
  <2>1. text = <<>>
    BY Zenon DEF StackText
  <2>2. m = 0
    BY <2>1
  <2> HIDE DEF m, n
  <2> QED BY <1>1, <1>2, <2>2
<1>4. PICK at : Listed(text, items, at)
  BY <1>3, StackTextPlaces
<1>5. text \in Seq(S) /\ Len(items) >= 1
  BY <1>3, StackTextPlaces
<1>6. m \in Nat
  BY <1>5
<1>7. ASSUME NEW j \in 1..n PROVE text[i + j] \notin Delimiters
  <2>1. Low(term[j]) = Low(text[i + j])
    BY <1>2
  <2>2. term[j] \notin Delimiters
    BY <1>1, Zenon DEF Range
  <2> QED BY <2>1, <2>2, LowDelimiter
<1> HIDE DEF text, n, m
<1>8. i + 1 \in 1..m /\ 1 \in 1..n
  BY <1>1, <1>2, <1>6
<1>9. PICK t \in 1..Len(items) : \E o \in 1..Len(items[t]) : i + 1 = at[t] + 1 + o
  <2>1. i + 1 \in 1..Len(text) /\ Len(text) \in Nat /\ text[i + 1] \notin Delimiters
    BY <1>6, <1>7, <1>8, Zenon DEF m
  <2> DEFINE p == i + 1
  <2>2. p \in 1..Len(text) /\ Len(text) \in Nat /\ text[p] \notin Delimiters
    BY <2>1
  <2> HIDE DEF p
  <2>3. \E t \in 1..Len(items) : \E o \in 1..Len(items[t]) : p = at[t] + 1 + o
    BY <1>4, <1>5, <2>2, PlaceInItem
  <2> QED BY <2>3 DEF p
<1> DEFINE x == items[t]
           l == Len(x)
           a == at[t]
<1>10. PICK o \in 1..l : i + 1 = a + 1 + o
  BY <1>9
<1>11. /\ a \in Nat /\ text[a + 2 + l] = Quote /\ l \in Nat
       /\ \A q \in 1..l : text[a + 1 + q] = x[q]
  BY <1>4, Zenon DEF Listed, ListOver
<1> HIDE DEF x, l, a
<1>12. o + (n - 1) <= l
  <2> SUFFICES ASSUME ~(o + (n - 1) <= l) PROVE FALSE
    OBVIOUS
  <2>1. (2 + l) - o \in 1..n /\ i + ((2 + l) - o) = a + 2 + l
    BY <1>1, <1>2, <1>6, <1>10, <1>11
  <2>2. text[a + 2 + l] \notin Delimiters
    BY <1>7, <2>1, Zenon
  <2> QED BY <1>11, <2>2, Zenon DEF Delimiters
<1>13. o - 1 \in 0..(l - n)
  BY <1>1, <1>10, <1>11, <1>12
<1>14. ASSUME NEW j \in 1..n PROVE Low(x[(o - 1) + j]) = Low(term[j])
  <2>1. (o - 1) + j \in 1..l /\ a + 1 + ((o - 1) + j) = i + j
    BY <1>1, <1>2, <1>6, <1>10, <1>11, <1>12
  <2>2. text[i + j] = x[(o - 1) + j]
    BY <1>11, <2>1, Zenon
  <2>3. Low(text[i + j]) = Low(term[j])
    BY <1>2
  <2> QED BY <2>2, <2>3, Zenon
<1>15. HasTerm(x, term)
  BY <1>1, <1>13, <1>14, Zenon DEF HasTerm, l, n
<1> QED BY <1>15, Zenon DEF x

-----------------------------------------------------------------------------
(* The rows that a search finds.                                           *)

\* A plain person that mentions a term has it in a column, and the other way round
\* if the term has none of the characters that stand for others or end an item.
LEMMA MentionIsSelected ==
  ASSUME NEW row, PlainRow(row), NEW term, IsSeq(term), Mentions(row.sent, term)
  PROVE  Selected(row, term)
<1> DEFINE items == SentItems(row.sent)
<1>1. /\ row.apelido = The(row.sent, "apelido") /\ IsSeq(row.apelido)
      /\ row.nome = The(row.sent, "nome") /\ IsSeq(row.nome)
      /\ row.stack = StackText(items) /\ ShownItems(items)
  BY Zenon DEF PlainRow, ShownText
<1>2. PICK text \in {The(row.sent, "apelido"), The(row.sent, "nome")} \cup Range(items) :
        HasTerm(text, term)
  BY Zenon DEF Mentions
<1>3. CASE text \in {row.apelido, row.nome}
  <2>1. IsSeq(text)
    BY <1>1, <1>3, Zenon
  <2>2. Like(text, Around(term))
    BY <1>2, <2>1, TermIsFound
  <2> QED BY <1>3, <2>2, Zenon DEF Selected
<1>4. CASE text \in Range(items)
  <2>1. PICK S : ListOver(S, items)
    BY <1>1, Zenon DEF ShownItems
  <2>2. PICK t \in 1..Len(items) : items[t] = text
    BY <1>4, <2>1, Zenon DEF ListOver, Range
  <2>3. HasTerm(items[t], term)
    BY <1>2, <2>2, Zenon
  <2> HIDE DEF items
  <2>4. HasTerm(StackText(items), term) /\ IsSeq(StackText(items))
    BY <2>1, <2>3, TermOfItem
  <2>5. Like(StackText(items), Around(term))
    BY <2>4, TermIsFound
  <2> QED BY <1>1, <2>5, Zenon DEF Selected
<1> QED BY <1>1, <1>2, <1>3, <1>4, Zenon

\* A row is selected only if one value of it has the term: the signs between
\* the items of the column are none of its characters.
LEMMA SelectedMentions ==
  ASSUME NEW row, PlainRow(row), NEW term, IsSeq(term),
         Range(term) \cap {AnyText, AnyChar, Quote, Comma} = {}, Selected(row, term)
  PROVE  Mentions(row.sent, term)
<1> DEFINE items == SentItems(row.sent)
<1>1. /\ row.apelido = The(row.sent, "apelido") /\ IsSeq(row.apelido)
      /\ row.nome = The(row.sent, "nome") /\ IsSeq(row.nome)
      /\ row.stack = StackText(items) /\ ShownItems(items)
  BY Zenon DEF PlainRow, ShownText
<1>2. Range(term) \cap {AnyText, AnyChar} = {} /\ Range(term) \cap Delimiters = {}
  BY Zenon DEF Delimiters
<1>3. PICK text \in {row.apelido, row.nome, row.stack} : Like(text, Around(term))
  BY Zenon DEF Selected
<1>4. IsSeq(row.stack)
  <2> HIDE DEF items
  <2>1. IsSeq(StackText(items))
    BY <1>1, StackFits
  <2> QED BY <1>1, <2>1, Zenon
<1>5. HasTerm(text, term)
  <2>1. IsSeq(text)
    BY <1>1, <1>4, Zenon
  <2> QED BY <1>2, <1>3, <2>1, FoundHasTerm
<1>6. CASE text \in {row.apelido, row.nome}
  BY <1>1, <1>5, <1>6, Zenon DEF Mentions
<1>7. CASE text = row.stack /\ Len(term) # 0
  <2>1. PICK S : ListOver(S, items)
    BY <1>1, Zenon DEF ShownItems
  <2>2. HasTerm(StackText(items), term)
    BY <1>1, <1>5, <1>7, Zenon
  <2> HIDE DEF items
  <2>3. PICK t \in 1..Len(items) : HasTerm(items[t], term)
    BY <1>2, <1>7, <2>1, <2>2, TermInItem
  <2>4. items[t] \in Range(items)
    BY <2>1, <2>3, Zenon DEF ListOver, Range
  <2> QED BY <2>3, <2>4, Zenon DEF Mentions, items
<1>8. CASE Len(term) = 0
  <2> DEFINE x == row.apelido
  <2>1. Len(x) \in Nat /\ DOMAIN term = {}
    BY <1>1, <1>8 DEF IsSeq
  <2> HIDE DEF x
  <2>2. 0 \in 0..(Len(x) - Len(term))
    BY <1>8, <2>1
  <2>3. HasTerm(x, term)
    BY <2>1, <2>2, Zenon DEF HasTerm
  <2> QED BY <1>1, <2>3, Zenon DEF Mentions, x
<1> QED BY <1>3, <1>6, <1>7, <1>8, Zenon

\* What a plain person mentions fits the statement three times, with the limit.
LEMMA LimitIs ==
  ASSUME NEW row, PlainRow(row), NEW term, IsSeq(term), Mentions(row.sent, term)
  PROVE  Lost(term) = 0 /\ LimitOf(term) = MaxPessoas
<1> DEFINE items == SentItems(row.sent)
           n == Len(term)
<1>1. /\ row.apelido = The(row.sent, "apelido") /\ Len(row.apelido) \in 0..ApelidoLen
      /\ row.nome = The(row.sent, "nome") /\ Len(row.nome) \in 0..NomeLen
      /\ ShownItems(items)
  BY Zenon DEF PlainRow, ShownText
<1>2. n \in Nat
  BY DEF IsSeq
<1>3. PICK text \in {The(row.sent, "apelido"), The(row.sent, "nome")} \cup Range(items) :
        HasTerm(text, term)
  BY Zenon DEF Mentions
<1>4. PICK max \in {ApelidoLen, NomeLen, ItemLen} : Len(text) \in 0..max
  <2>1. CASE text \in Range(items)
    <3>1. PICK S : ListOver(S, items)
      BY <1>1, Zenon DEF ShownItems
    <3>2. PICK t \in 1..Len(items) : items[t] = text
      BY <2>1, <3>1, Zenon DEF ListOver, Range
    <3>3. Len(text) \in 1..ItemLen
      BY <1>1, <3>2, Zenon DEF ShownItems, Printable
    <3>4. Len(text) \in 0..ItemLen
      BY <3>3, LimitsArePositive
    <3> QED BY <3>4, Zenon
  <2>2. CASE text \in {row.apelido, row.nome}
    BY <1>1, <2>2, Zenon
  <2> QED BY <1>1, <1>3, <2>1, <2>2, Zenon
<1>5. PICK i \in 0..(Len(text) - n) : TRUE
  BY <1>3, Zenon DEF HasTerm
<1>6. max \in Nat /\ SqlRoom \in Nat /\ SqlRoom >= 3 * (max + 4)
  BY SqlHasRoom, LimitsArePositive
<1> HIDE DEF n
<1>7. n <= max
  BY <1>2, <1>4, <1>5, <1>6
<1>8. ~(3 * n > SqlRoom)
  BY <1>2, <1>6, <1>7
<1>9. Lost(term) = 0
  BY <1>8, Zenon DEF Lost, n
<1>10. 0 # LimitClause
  BY DEF LimitClause
<1> QED BY <1>9, <1>10, Zenon DEF LimitOf

\* A row that has a nickname is found with one: no list ends at it.
LEMMA FoundHasNick ==
  ASSUME NEW row, RowKept(row), row.apelido # <<>>
  PROVE  Found(row).apelido # <<>>
<1> DEFINE x == row.apelido
           y == row.nome
           l == Copy(NoNames, 0, x)
           m == Copy(l, NomeAt, y)
<1>1. /\ IsSeq(x) /\ Len(x) <= NamesEnd /\ x # <<>> /\ x[1] # Nul
      /\ IsSeq(y) /\ Len(y) <= NomeLen + 1
  BY Zenon DEF RowKept
<1> HIDE DEF x, y
<1>2. /\ ApelidoLen \in Nat /\ NomeLen \in Nat /\ NamesEnd \in Nat /\ NomeAt \in Nat
      /\ NomeAt + NomeLen + 1 = NamesEnd /\ NomeAt = ApelidoLen + 1
  BY Offsets, LimitsArePositive DEF NamesEnd, NomeAt
<1>3. /\ DOMAIN NoNames = 0..NamesEnd /\ \A i \in 0..NamesEnd : NoNames[i] = Nul
      /\ DOMAIN l = 0..NamesEnd /\ DOMAIN m = 0..NamesEnd
  BY Zenon DEF NoNames, Copy
<1>4. l[0] = x[1]
  <2>1. 0 \in Nat /\ 0 + 0 \in DOMAIN NoNames /\ 0 + 0 = 0 /\ 0 + 1 = 1
    BY <1>2, <1>3
  <2>2. 1 \in DOMAIN x
    BY <1>1 DEF IsSeq
  <2>3. l[0 + 0] = IF 0 + 1 \in DOMAIN x THEN x[0 + 1] ELSE NoNames[0 + 0]
    BY <2>1, CopyAt
  <2> QED BY <2>1, <2>2, <2>3, Zenon
<1>5. l[NamesEnd] = Nul
  <2>1. NamesEnd \in DOMAIN NoNames /\ 0 + Len(x) <= NamesEnd /\ 0 \in Nat /\ NamesEnd \in 0..NamesEnd
    BY <1>1, <1>2, <1>3 DEF IsSeq
  <2>2. l[NamesEnd] = NoNames[NamesEnd]
    BY <1>1, <1>2, <2>1, CopyKeeps
  <2> QED BY <1>3, <2>1, <2>2, Zenon
<1> HIDE DEF l
<1>6. m[0] = x[1]
  <2>1. 0 \in 0..ApelidoLen
    BY <1>2
  <2>2. m[0] = l[0]
    BY <1>1, <1>3, <2>1, CopyBehind
  <2> QED BY <1>4, <2>2, Zenon
<1>7. m[NamesEnd] = Nul
  <2>1. NamesEnd \in DOMAIN l /\ NomeAt + Len(y) <= NamesEnd
    BY <1>1, <1>2, <1>3 DEF IsSeq
  <2>2. m[NamesEnd] = l[NamesEnd]
    BY <1>1, <1>2, <2>1, CopyKeeps
  <2> QED BY <1>5, <2>2, Zenon
<1> HIDE DEF m
<1>8. CString(m, 0) # <<>>
  <2>1. 0 \in 0..NamesEnd /\ 0 + NamesEnd <= NamesEnd /\ 0 + NamesEnd = NamesEnd
    BY <1>2
  <2>2. m[0 + NamesEnd] = Nul
    BY <1>7, <2>1, Zenon
  <2>3. CString(m, 0) = <<>> <=> m[0] = Nul
    BY <1>2, <1>3, <2>1, <2>2, CStringBound
  <2> QED BY <1>1, <1>6, <2>3, Zenon
<1>9. Found(row).apelido = CString(m, 0)
  <2>1. Found(row) = AsJson(row, m, Unpacked(row.stack))
    BY Zenon DEF Found, m, l, x, y
  <2>2. AsJson(row, m, Unpacked(row.stack)).apelido = CString(m, 0)
    BY Zenon DEF AsJson
  <2> QED BY <2>1, <2>2, Zenon
<1> QED BY <1>8, <1>9, Zenon

-----------------------------------------------------------------------------
(* The list of a search.                                                   *)

\* The places g of the rows that are found, and how many of them are shown: up to
\* the limit, or to the first one without a nickname.
Listing(term, list, g, shown) ==
  /\ Len(g) \in Nat /\ shown \in 0..Len(g) /\ shown <= LimitOf(term)
  /\ Len(list) = shown /\ DOMAIN list = 1..shown
  /\ \A j \in 1..Len(g) : g[j] \in DOMAIN rows /\ Selected(rows[g[j]], term)
  /\ \A j, l \in 1..Len(g) : j < l => g[j] < g[l]
  /\ \A p \in DOMAIN rows : Selected(rows[p], term) => \E j \in 1..Len(g) : g[j] = p
  /\ \A j \in 1..shown : list[j] = Found(rows[g[j]])
  /\ shown < Len(g) /\ shown < LimitOf(term) => Found(rows[g[shown + 1]]).apelido = <<>>

\* A search lists rows that are selected, each at its own place, all of them
\* or as many as the limit, up to the first one without a nickname.
LEMMA SearchIs ==
  ASSUME IsSeq(rows), NEW term, LimitOf(term) \in Nat
  PROVE  \E g, shown : Listing(term, Search(term), g, shown)
<1> DEFINE places == {i \in DOMAIN rows : Selected(rows[i], term)}
           hits == Picked(rows, places)
           size == Min({Len(hits), LimitOf(term)})
           got == [i \in 1..size |-> Found(hits[i])]
           T == {i \in 0..Len(got) : i = Len(got) \/ got[i + 1].apelido = <<>>}
           shown == Min(T)
           S == Range(rows)
           V == {Found(rows[i]) : i \in DOMAIN rows}
           max == LimitOf(term)
<1>1. rows \in Seq(S) /\ DOMAIN rows = 1..Len(rows) /\ Len(rows) \in Nat
  BY DEF IsSeq
<1>2. PICK g \in Seq(Nat) : PickedAt(rows, places, Len(rows), hits, g)
  <2>1. places \subseteq DOMAIN rows
    OBVIOUS
  <2> HIDE DEF S, places
  <2> QED BY <1>1, <2>1, PickedIs
<1>3. /\ Len(hits) = Len(g) /\ Len(g) \in Nat
      /\ \A j \in 1..Len(g) : g[j] \in places /\ hits[j] = rows[g[j]]
      /\ \A j, l \in 1..Len(g) : j < l => g[j] < g[l]
      /\ \A p \in places : p <= Len(rows) => \E j \in 1..Len(g) : g[j] = p
  BY <1>2, Zenon DEF PickedAt
<1> HIDE DEF hits
<1>4. size \in Nat /\ size <= Len(g) /\ size <= max /\ (size = Len(g) \/ size = max)
  <2> DEFINE W == {Len(hits), max}
  <2>1. W \subseteq Nat /\ Len(g) \in W /\ max \in W /\ \A z \in W : z = Len(g) \/ z = max
    BY <1>3
  <2> HIDE DEF W
  <2>2. Min(W) \in W /\ \A z \in W : Min(W) <= z
    BY <2>1, MinIs
  <2> HIDE DEF max
  <2>3. Min(W) \in Nat /\ Min(W) <= Len(g) /\ Min(W) <= max /\ (Min(W) = Len(g) \/ Min(W) = max)
    BY <2>1, <2>2
  <2> QED BY <2>3 DEF W, max
<1> HIDE DEF size, max
<1>5. /\ got \in Seq(V) /\ Len(got) = size
      /\ \A j \in 1..size : got[j] = Found(rows[g[j]])
  <2>1. \A j \in 1..size : j \in 1..Len(g)
    BY <1>3, <1>4
  <2>2. \A j \in 1..size : got[j] = Found(rows[g[j]]) /\ g[j] \in DOMAIN rows
    BY <1>3, <2>1, Zenon
  <2>3. \A j \in 1..size : got[j] \in V
    BY <2>2, Zenon
  <2>4. got = [j \in 1..size |-> got[j]]
    BY Zenon
  <2> HIDE DEF got, V
  <2> QED BY <1>4, <2>2, <2>3, <2>4, FunctionIsSeq
<1> HIDE DEF got
<1>6. shown \in 0..size /\ (shown = size \/ got[shown + 1].apelido = <<>>)
  <2>1. T \subseteq Nat /\ Len(got) \in T
    BY <1>4, <1>5
  <2>2. shown \in T
    <3> HIDE DEF T
    <3> QED BY <2>1, MinIs
  <2> QED BY <1>5, <2>2
<1> HIDE DEF T, shown
<1> DEFINE list == SubSeq(got, 1, shown)
<1>7. /\ Len(list) = shown /\ DOMAIN list = 1..shown
      /\ \A j \in 1..shown : list[j] = got[j]
  <2>1. 1 \in Int /\ shown \in Int /\ shown \in Nat /\ \A i \in 1..shown : i \in 1..size
    BY <1>4, <1>6
  <2>2. \A i \in 1..shown : got[i] \in V
    BY <1>5, <2>1
  <2> HIDE DEF V
  <2>3. /\ SubSeq(got, 1, shown) \in Seq(V)
        /\ Len(SubSeq(got, 1, shown)) = (IF 1 <= shown THEN shown - 1 + 1 ELSE 0)
        /\ \A i \in 1..(shown - 1 + 1) : SubSeq(got, 1, shown)[i] = got[1 + i - 1]
    BY <2>1, <2>2, SubSeqProperties
  <2>4. \A o \in 1..shown : o \in 1..(shown - 1 + 1) /\ 1 + o - 1 = o
    BY <2>1
  <2>5. Len(SubSeq(got, 1, shown)) = shown
    BY <2>1, <2>3
  <2>6. \A o \in 1..shown : SubSeq(got, 1, shown)[o] = got[o]
    BY <2>3, <2>4, Zenon
  <2>7. DOMAIN SubSeq(got, 1, shown) = 1..shown
    BY <2>3, <2>5
  <2> QED BY <2>5, <2>6, <2>7, Zenon
<1>8. Search(term) = list
  BY Zenon DEF Search, Hits, list, shown, T, got, size, hits, places
<1> HIDE DEF list
<1>9. shown \in 0..Len(g) /\ shown <= max /\ \A j \in 1..shown : j \in 1..size
  BY <1>3, <1>4, <1>6, SqlHasRoom DEF max
<1>10. \A j \in 1..shown : list[j] = Found(rows[g[j]])
  BY <1>5, <1>7, <1>9, Zenon
<1>11. ASSUME shown < Len(g), shown < max PROVE Found(rows[g[shown + 1]]).apelido = <<>>
  <2>1. shown # size /\ shown + 1 \in 1..size
    BY <1>3, <1>4, <1>6, <1>9, <1>11
  <2> QED BY <1>5, <1>6, <2>1, Zenon
<1>12. /\ \A j \in 1..Len(g) : g[j] \in DOMAIN rows /\ Selected(rows[g[j]], term)
       /\ \A p \in DOMAIN rows : Selected(rows[p], term) => \E j \in 1..Len(g) : g[j] = p
  <2>1. \A p \in DOMAIN rows : p <= Len(rows)
    BY <1>1
  <2> QED BY <1>3, <2>1, Zenon
<1>13. /\ Len(g) \in Nat
       /\ \A j, l \in 1..Len(g) : j < l => g[j] < g[l]
  BY <1>3, Zenon
<1>14. Listing(term, list, g, shown)
  BY <1>7, <1>9, <1>10, <1>11, <1>12, <1>13, Zenon DEF Listing, max
<1> QED BY <1>8, <1>14, Zenon

\* At most so many rows are fetched, a number.
LEMMA LimitIsNumber ==
  ASSUME IsSeq(rows), NEW term
  PROVE  LimitOf(term) \in Nat
<1>1. MaxPessoas \in Nat /\ Len(rows) \in Nat
  BY SqlHasRoom DEF IsSeq
<1> QED BY <1>1, Zenon DEF LimitOf

\* No more rows than the limit are fetched.
LEMMA FetchedIs ==
  ASSUME IsSeq(rows), NEW term
  PROVE  Fetched(term) <= LimitOf(term)
<1> DEFINE hits == Hits(term)
           S == Range(rows)
           places == {i \in DOMAIN rows : Selected(rows[i], term)}
           W == {Len(hits), LimitOf(term)}
<1>1. rows \in Seq(S)
  BY Zenon DEF IsSeq
<1>2. PICK g \in Seq(Nat) : PickedAt(rows, places, Len(rows), hits, g)
  <2>1. places \subseteq DOMAIN rows
    OBVIOUS
  <2>2. hits = Picked(rows, places)
    BY Zenon DEF Hits
  <2> HIDE DEF S, places, hits
  <2> QED BY <1>1, <2>1, <2>2, PickedIs
<1>3. Len(hits) \in Nat
  <2>1. Len(hits) = Len(g) /\ Len(g) \in Nat
    BY <1>2, Zenon DEF PickedAt
  <2> QED BY <2>1, Zenon
<1> HIDE DEF hits
<1>4. W \subseteq Nat /\ W # {} /\ LimitOf(term) \in W
  BY <1>3, LimitIsNumber
<1> HIDE DEF W
<1>5. \A n \in W : Min(W) <= n
  BY <1>4, MinIs
<1> QED BY <1>4, <1>5, Zenon DEF Fetched, W, hits

\* Whoever mentions the term is in a list that is not full, if no row before it ends it.
LEMMA SearchShowsRow ==
  ASSUME RInv, IsSeq(rows), NEW term, IsSeq(term), Len(Search(term)) < MaxPessoas,
         NEW i \in DOMAIN rows, Plain(rows[i].sent), Mentions(rows[i].sent, term),
         \A j \in 1..i : rows[j].apelido # <<>>
  PROVE  Sent(rows[i]) \in Range(Search(term))
<1> DEFINE list == Search(term)
<1>1. PlainRow(rows[i])
  <2> DEFINE row == rows[i]
  <2>1. RowKept(row) /\ Plain(row.sent)
    BY Zenon DEF RInv, RowsKept
  <2> HIDE DEF row
  <2>2. PlainRow(row)
    BY <2>1, PlainRows
  <2> QED BY <2>2 DEF row
<1>2. Selected(rows[i], term) /\ LimitOf(term) = MaxPessoas /\ Found(rows[i]) = Sent(rows[i])
  BY <1>1, MentionIsSelected, LimitIs, FoundIs
<1>3. PICK g, shown : Listing(term, list, g, shown)
  BY SearchIs, LimitIsNumber
<1> HIDE DEF list
<1>4. /\ Len(g) \in Nat /\ shown \in 0..Len(g)
      /\ Len(list) = shown /\ DOMAIN list = 1..shown
      /\ \A j \in 1..Len(g) : g[j] \in DOMAIN rows
      /\ \A j, l \in 1..Len(g) : j < l => g[j] < g[l]
      /\ \A j \in 1..shown : list[j] = Found(rows[g[j]])
      /\ shown < Len(g) /\ shown < MaxPessoas => Found(rows[g[shown + 1]]).apelido = <<>>
  BY <1>2, <1>3, Zenon DEF Listing
<1>5. PICK j \in 1..Len(g) : g[j] = i
  BY <1>2, <1>3, Zenon DEF Listing
<1>6. shown < MaxPessoas
  BY <1>4 DEF list
<1>7. j <= shown
  <2> SUFFICES ASSUME ~(j <= shown) PROVE FALSE
    OBVIOUS
  <2>1. shown < Len(g) /\ shown + 1 \in 1..Len(g) /\ (shown + 1 < j \/ shown + 1 = j)
    BY <1>4, <1>5
  <2> DEFINE p == g[shown + 1]
  <2>2. p < i \/ p = i
    BY <1>4, <1>5, <2>1, Zenon
  <2>3. p \in DOMAIN rows
    BY <1>4, <2>1, Zenon
  <2>4. Found(rows[p]).apelido = <<>>
    BY <1>4, <1>6, <2>1, Zenon
  <2> HIDE DEF p
  <2>5. p \in 1..i
    <3>1. DOMAIN rows = 1..Len(rows) /\ Len(rows) \in Nat
      BY DEF IsSeq
    <3> QED BY <2>2, <2>3, <3>1
  <2>6. rows[p].apelido # <<>> /\ RowKept(rows[p])
    BY <2>3, <2>5, Zenon DEF RInv, RowsKept
  <2> DEFINE row == rows[p]
  <2>7. RowKept(row) /\ row.apelido # <<>> /\ Found(row).apelido = <<>>
    BY <2>4, <2>6
  <2> HIDE DEF row
  <2> QED BY <2>7, FoundHasNick
<1>8. j \in DOMAIN list /\ list[j] = Sent(rows[i])
  <2>1. j \in 1..shown
    BY <1>4, <1>5, <1>7
  <2> QED BY <1>2, <1>4, <1>5, <2>1, Zenon
<1> QED BY <1>8, Zenon DEF Range, list

\* Nobody is listed twice, and whoever is mentions the term.
LEMMA SearchFindsRows ==
  ASSUME RInv, IsSeq(rows), NEW term, IsSeq(term)
  PROVE  /\ \A i, j \in DOMAIN Search(term) : Search(term)[i].id = Search(term)[j].id => i = j
         /\ Range(term) \cap {AnyText, AnyChar, Quote, Comma} = {} =>
              \A p \in Range(Search(term)) : \A row \in Range(rows) :
                row.id = p.id /\ Plain(row.sent) => Mentions(row.sent, term)
<1> DEFINE list == Search(term)
<1>1. PICK g, shown : Listing(term, list, g, shown)
  BY SearchIs, LimitIsNumber
<1> HIDE DEF list
<1>2. /\ Len(g) \in Nat /\ shown \in 0..Len(g) /\ DOMAIN list = 1..shown
      /\ \A j \in 1..Len(g) : g[j] \in DOMAIN rows /\ Selected(rows[g[j]], term)
      /\ \A j, l \in 1..Len(g) : j < l => g[j] < g[l]
      /\ \A j \in 1..shown : list[j] = Found(rows[g[j]])
  BY <1>1, Zenon DEF Listing
<1>3. \A row : Found(row).id = row.id
  BY Zenon DEF Found, AsJson
<1>4. ASSUME NEW j \in DOMAIN list
      PROVE  /\ j \in 1..Len(g) /\ g[j] \in DOMAIN rows /\ Selected(rows[g[j]], term)
             /\ list[j].id = rows[g[j]].id
  <2>1. j \in 1..shown /\ j \in 1..Len(g)
    BY <1>2
  <2> QED BY <1>2, <1>3, <2>1, Zenon
<1>5. ASSUME NEW i \in DOMAIN list, NEW j \in DOMAIN list, list[i].id = list[j].id
      PROVE  i = j
  <2>1. rows[g[i]].id = rows[g[j]].id /\ g[i] \in DOMAIN rows /\ g[j] \in DOMAIN rows
        /\ i \in 1..Len(g) /\ j \in 1..Len(g)
    BY <1>4, <1>5, Zenon
  <2>2. g[i] = g[j]
    BY <2>1, Zenon DEF RInv, IdsUnique
  <2>3. DOMAIN rows = 1..Len(rows) /\ Len(rows) \in Nat
    BY DEF IsSeq
  <2> DEFINE a == g[i]
  <2>4. a \in Int /\ ~(a < a)
    BY <2>1, <2>3
  <2>5. ~(i < j) /\ ~(j < i)
    <3> HIDE DEF a
    <3>1. i < j => g[i] < g[j]
      BY <1>2, <2>1, Zenon
    <3>2. j < i => g[j] < g[i]
      BY <1>2, <2>1, Zenon
    <3> QED BY <2>2, <2>4, <3>1, <3>2, Zenon DEF a
  <2> QED BY <1>2, <2>1, <2>5
<1>6. ASSUME Range(term) \cap {AnyText, AnyChar, Quote, Comma} = {},
             NEW p \in Range(list), NEW row \in Range(rows), row.id = p.id, Plain(row.sent)
      PROVE  Mentions(row.sent, term)
  <2>1. PICK j \in DOMAIN list : list[j] = p
    BY Zenon DEF Range
  <2>2. PICK i \in DOMAIN rows : rows[i] = row
    BY Zenon DEF Range
  <2>3. g[j] = i /\ Selected(row, term) /\ RowKept(row)
    <3>1. rows[g[j]].id = rows[i].id /\ g[j] \in DOMAIN rows
      BY <1>4, <1>6, <2>1, <2>2, Zenon
    <3>2. g[j] = i
      BY <3>1, Zenon DEF RInv, IdsUnique
    <3> QED BY <1>4, <2>2, <3>2, Zenon DEF RInv, RowsKept
  <2>4. PlainRow(row)
    BY <1>6, <2>3, PlainRows
  <2> QED BY <1>6, <2>3, <2>4, SelectedMentions
<1> QED BY <1>5, <1>6, Zenon DEF list

(* SearchShowsAsSent: for any limits, bodies and terms, a search (db.c:320) *)
(* finds every plain person that has the term in a nickname, a name or an  *)
(* item, and shows it as it was sent, unless the list is full or a row     *)
(* without a nickname ends it.                                             *)
THEOREM SearchShows == Spec => []SearchShowsAsSent
<1>1. IInv /\ RInv => SearchShowsAsSent
  <2> SUFFICES ASSUME IInv, RInv, NEW term \in Terms, Len(Search(term)) < MaxPessoas,
                      NEW i \in DOMAIN rows, Plain(rows[i].sent), Mentions(rows[i].sent, term),
                      \A j \in 1..i : rows[j].apelido # <<>>
               PROVE  Sent(rows[i]) \in Range(Search(term))
    BY Zenon DEF SearchShowsAsSent
  <2>1. IsSeq(rows) /\ IsSeq(term)
    BY TermsAreTexts DEF IInv, PessoaTypeOK
  <2> QED BY <2>1, SearchShowsRow
<1> QED BY <1>1, RowsHeld, PTL

(* SearchFits: for any limits, bodies and terms, a search for what a plain *)
(* person was sent with is no error and overruns no array: the buffer in   *)
(* db.c:323 holds the statement with the longest such term three times.    *)
THEOREM SearchHasRoom == Spec => []SearchFits
<1>1. IInv /\ RInv => SearchFits
  <2> SUFFICES ASSUME IInv, RInv, NEW term \in Terms, NEW row \in Range(rows),
                      Plain(row.sent), Mentions(row.sent, term)
               PROVE  Status(term) = 200 /\ Fetched(term) <= MaxPessoas
    BY Zenon DEF SearchFits
  <2>1. IsSeq(rows) /\ IsSeq(term)
    BY TermsAreTexts DEF IInv, PessoaTypeOK
  <2>2. RowKept(row)
    BY Zenon DEF RInv, RowsKept, Range
  <2>3. PlainRow(row)
    BY <2>2, PlainRows
  <2>4. Lost(term) = 0 /\ LimitOf(term) = MaxPessoas
    BY <2>1, <2>3, LimitIs
  <2>5. Status(term) = 200
    <3>1. IsStatement(term)
      BY <2>4, Zenon DEF IsStatement
    <3> QED BY <3>1, Zenon DEF Status
  <2>6. Fetched(term) <= MaxPessoas
    BY <2>1, <2>4, FetchedIs
  <2> QED BY <2>5, <2>6
<1> QED BY <1>1, RowsHeld, PTL

(* SearchFindsOnly: it finds nobody else, and nobody twice, if the term    *)
(* has no character that stands for others or ends an item of the column.  *)
THEOREM SearchFinds == Spec => []SearchFindsOnly
<1>1. IInv /\ RInv => SearchFindsOnly
  <2> SUFFICES ASSUME IInv, RInv, NEW term \in Terms, HasList(term)
               PROVE  LET list == Search(term)
                      IN  /\ \A i, j \in DOMAIN list : list[i].id = list[j].id => i = j
                          /\ Range(term) \cap {AnyText, AnyChar, Quote, Comma} = {} =>
                               \A p \in Range(list) : \A row \in Range(rows) :
                                 row.id = p.id /\ Plain(row.sent) => Mentions(row.sent, term)
    BY Zenon DEF SearchFindsOnly
  <2>1. IsSeq(rows) /\ IsSeq(term)
    BY TermsAreTexts DEF IInv, PessoaTypeOK
  <2> QED BY <2>1, SearchFindsRows
<1> QED BY <1>1, RowsHeld, PTL

-----------------------------------------------------------------------------
(* The grammar of JSON.                                                    *)

Kinds == {"value", "values", "member", "members"}

\* The longer a stretch the later it is derived, and lists after what is in them.
Weight(t, p) ==
  2 * (p[3] - p[2] + Len(t) + 2) + IF p[1] \in {"values", "members"} THEN 1 ELSE 0

\* A stretch by its parts.
LEMMA StretchIs ==
  ASSUME NEW t, Len(t) \in Nat, NEW p \in Stretches(t)
  PROVE  /\ p[1] \in Kinds /\ p[2] \in 1..(Len(t) + 1) /\ p[3] \in 0..Len(t)
         /\ p = <<p[1], p[2], p[3]>>
  BY DEF Stretches, Kinds

\* Every stretch has its weight.
LEMMA WeightIs ==
  ASSUME NEW t, Len(t) \in Nat, NEW p \in Stretches(t)
  PROVE  Weight(t, p) \in 1..(4 * Len(t) + 3)
<1> DEFINE n == Len(t)
           i == p[2]
           j == p[3]
           c == IF p[1] \in {"values", "members"} THEN 1 ELSE 0
<1>1. i \in 1..(n + 1) /\ j \in 0..n
  BY StretchIs
<1>2. Weight(t, p) = 2 * (j - i + n + 2) + c /\ c \in {0, 1}
  BY Zenon DEF Weight
<1> HIDE DEF n, i, j, c
<1>3. n \in Nat
  BY DEF n
<1>4. 2 * (j - i + n + 2) \in 2..(4 * n + 2)
  BY <1>1, <1>3
<1>5. Weight(t, p) \in 1..(4 * n + 3)
  <2> HIDE DEF Weight
  <2> QED BY <1>2, <1>3, <1>4
<1> QED BY <1>5 DEF n

\* Shorter stretches weigh less.
LEMMA ShorterWeighs ==
  ASSUME NEW t, Len(t) \in Nat, NEW one \in Kinds, NEW all \in Kinds,
         NEW i \in 1..(Len(t) + 1), NEW j \in 0..Len(t),
         NEW x \in 1..(Len(t) + 1), NEW y \in 0..Len(t), y - x < j - i
  PROVE  Weight(t, <<one, x, y>>) < Weight(t, <<all, i, j>>)
<1> DEFINE n == Len(t)
           a == IF one \in {"values", "members"} THEN 1 ELSE 0
           b == IF all \in {"values", "members"} THEN 1 ELSE 0
<1>1. /\ Weight(t, <<one, x, y>>) = 2 * (y - x + n + 2) + a
      /\ Weight(t, <<all, i, j>>) = 2 * (j - i + n + 2) + b
  BY DEF Weight
<1>2. a \in 0..1 /\ b \in 0..1
  OBVIOUS
<1> HIDE DEF a, b
<1>3. 2 * (y - x + n + 2) + a < 2 * (j - i + n + 2) + b
  BY <1>2
<1> QED BY <1>1, <1>3

\* A value begins inside its stretch, or behind the text.
LEMMA FromIs ==
  ASSUME NEW t, Len(t) \in Nat, NEW i \in 1..(Len(t) + 1)
  PROVE  /\ From(t, i) \in i..(Len(t) + 1)
         /\ i <= Len(t) /\ t[i] \notin White => From(t, i) = i
<1> DEFINE n == Len(t)
           T == {r \in i..n : t[r] \notin White}
           P(r) == t[r] \notin White /\ \A l \in i..(r - 1) : t[l] \in White
<1>1. CASE i > n \/ t[i] \notin White
  <2>1. From(t, i) = i
    BY <1>1, Zenon DEF From
  <2> QED BY <2>1
<1>2. CASE ~(i > n \/ t[i] \notin White)
  <2>1. CASE \A r \in i..n : t[r] \in White
    <3>1. From(t, i) = n + 1
      BY <1>2, <2>1, Zenon DEF From
    <3> QED BY <1>2, <3>1
  <2>2. CASE ~(\A r \in i..n : t[r] \in White)
    <3>1. From(t, i) = CHOOSE r \in i..n : P(r)
      BY <1>2, <2>2, Zenon DEF From
    <3>2. T \subseteq Nat /\ T # {}
      BY <2>2
    <3>3. PICK m \in T : \A r \in T : m <= r
      <4> HIDE DEF T
      <4> QED BY <3>2, LeastExists
    <3>4. m \in i..n /\ P(m)
      <4>1. ASSUME NEW l \in i..(m - 1), t[l] \notin White PROVE FALSE
        <5>1. l \in T
          BY <4>1
        <5>2. m <= l
          BY <3>3, <5>1
        <5> QED BY <5>2
      <4> QED BY <4>1
    <3> HIDE DEF P
    <3>5. From(t, i) \in i..n
      BY <3>1, <3>4, Zenon
    <3> QED BY <1>2, <3>5
  <2> QED BY <2>1, <2>2
<1> QED BY <1>1, <1>2

\* It ends inside its stretch, or before the text.
LEMMA UpToIs ==
  ASSUME NEW t, Len(t) \in Nat, NEW j \in 0..Len(t)
  PROVE  /\ UpTo(t, j) \in 0..j
         /\ j # 0 /\ t[j] \notin White => UpTo(t, j) = j
<1> DEFINE T == {r \in 0..(j - 1) : t[j - r] \notin White}
           P(r) == t[r] \notin White /\ \A l \in (r + 1)..j : t[l] \in White
<1>1. CASE j = 0 \/ t[j] \notin White
  <2>1. UpTo(t, j) = j
    BY <1>1, Zenon DEF UpTo
  <2> QED BY <2>1
<1>2. CASE ~(j = 0 \/ t[j] \notin White)
  <2>1. CASE \A r \in 1..j : t[r] \in White
    <3>1. UpTo(t, j) = 0
      BY <1>2, <2>1, Zenon DEF UpTo
    <3> QED BY <1>2, <3>1
  <2>2. CASE ~(\A r \in 1..j : t[r] \in White)
    <3>1. UpTo(t, j) = CHOOSE r \in 1..j : P(r)
      BY <1>2, <2>2, Zenon DEF UpTo
    <3>2. T \subseteq Nat /\ T # {}
      <4>1. PICK r \in 1..j : t[r] \notin White
        BY <2>2
      <4>2. j - r \in 0..(j - 1) /\ j - (j - r) = r
        OBVIOUS
      <4>3. j - r \in T
        BY <4>1, <4>2, Zenon
      <4>4. T \subseteq 0..(j - 1) /\ 0..(j - 1) \subseteq Nat
        OBVIOUS
      <4> HIDE DEF T
      <4> QED BY <4>3, <4>4, Zenon
    <3>3. PICK m \in T : \A r \in T : m <= r
      <4> HIDE DEF T
      <4> QED BY <3>2, LeastExists
    <3>4. j - m \in 1..j /\ P(j - m)
      <4>1. ASSUME NEW l \in ((j - m) + 1)..j, t[l] \notin White PROVE FALSE
        <5>1. j - l \in 0..(j - 1) /\ j - (j - l) = l /\ ~(m <= j - l)
          OBVIOUS
        <5>2. j - l \in T
          BY <4>1, <5>1, Zenon
        <5>3. m <= j - l
          BY <3>3, <5>2
        <5> QED BY <5>1, <5>3
      <4>2. j - m \in 1..j /\ t[j - m] \notin White
        OBVIOUS
      <4> QED BY <4>1, <4>2
    <3> HIDE DEF P
    <3>5. UpTo(t, j) \in 1..j
      BY <3>1, <3>4, Zenon
    <3> QED BY <1>2, <3>5
  <2> QED BY <2>1, <2>2
<1> QED BY <1>1, <1>2

\* What derives from a stretch depends on what weighs less only.
LEMMA DerivesLocal ==
  ASSUME NEW t, Len(t) \in Nat, NEW kind \in Kinds, NEW i \in 1..(Len(t) + 1), NEW j \in 0..Len(t),
         NEW d, NEW e,
         \A q \in Stretches(t) : Weight(t, q) < Weight(t, <<kind, i, j>>) => d[q] = e[q],
         Derives(t, d, kind, i, j)
  PROVE  Derives(t, e, kind, i, j)
<1> DEFINE n == Len(t)
           x == From(t, i)
           y == UpTo(t, j)
<1>1. ASSUME NEW all \in Kinds, NEW a \in 1..(n + 1), NEW b \in 0..n, b - a < j - i
      PROVE  d[<<all, a, b>>] = e[<<all, a, b>>]
  <2>1. <<all, a, b>> \in Stretches(t)
    BY DEF Stretches, Kinds
  <2>2. Weight(t, <<all, a, b>>) < Weight(t, <<kind, i, j>>)
    BY <1>1, ShorterWeighs
  <2> QED BY <2>1, <2>2, Zenon
<1>2. x \in i..(n + 1) /\ y \in 0..j
  BY FromIs, UpToIs
<1> HIDE DEF x, y, n
<1>3. n \in Nat /\ i \in 1..(n + 1) /\ j \in 0..n
  BY DEF n
<1>4. ASSUME NEW all \in Kinds, NEW left, NEW right, Bracketed(t, d, x, y, left, right, all)
      PROVE  Bracketed(t, e, x, y, left, right, all)
  <2>1. x < y
    BY <1>4, Zenon DEF Bracketed
  <2>2. x + 1 \in 1..(n + 1) /\ y - 1 \in 0..n /\ (y - 1) - (x + 1) < j - i
    BY <1>2, <1>3, <2>1
  <2>3. d[<<all, x + 1, y - 1>>] = e[<<all, x + 1, y - 1>>]
    BY <1>1, <2>2
  <2> QED BY <1>4, <2>3, Zenon DEF Bracketed
<1>5. JsonValue(t, d, x, y) => JsonValue(t, e, x, y)
  <2>1. "values" \in Kinds /\ "members" \in Kinds
    BY DEF Kinds
  <2> QED BY <1>4, <2>1, Zenon DEF JsonValue
<1>6. ASSUME NEW c \in i..j
      PROVE  /\ \A all \in Kinds : d[<<all, c + 1, j>>] = e[<<all, c + 1, j>>]
             /\ \A all \in Kinds : d[<<all, i, c - 1>>] = e[<<all, i, c - 1>>]
  <2>1. c + 1 \in 1..(n + 1) /\ j - (c + 1) < j - i /\ c - 1 \in 0..n /\ (c - 1) - i < j - i
    BY <1>3
  <2> QED BY <1>1, <1>3, <2>1
<1>7. JsonMember(t, d, i, j) => JsonMember(t, e, i, j)
  <2>1. "value" \in Kinds
    BY DEF Kinds
  <2>2. \A c \in i..j : d[<<"value", c + 1, j>>] = e[<<"value", c + 1, j>>]
    BY <1>6, <2>1
  <2> QED BY <2>2, Zenon DEF JsonMember
<1>8. ASSUME NEW one \in {"value", "member"}, kind \in {"values", "members"},
             Joined(t, d, one, kind, i, j)
      PROVE  Joined(t, e, one, kind, i, j)
  <2>1. d[<<one, i, j>>] = e[<<one, i, j>>]
    <3>1. <<one, i, j>> \in Stretches(t)
      BY <1>3 DEF Stretches, Kinds, n
    <3>2. Weight(t, <<one, i, j>>) < Weight(t, <<kind, i, j>>)
      <4> DEFINE w == 2 * (j - i + n + 2)
      <4>1. Weight(t, <<one, i, j>>) = w + 0 /\ Weight(t, <<kind, i, j>>) = w + 1
        BY <1>8 DEF Weight, n
      <4>2. w \in Int
        BY <1>3
      <4> HIDE DEF w
      <4> QED BY <4>1, <4>2
    <3> QED BY <3>1, <3>2, Zenon
  <2>2. one \in Kinds
    BY DEF Kinds
  <2>3. \A c \in i..j : /\ d[<<one, i, c - 1>>] = e[<<one, i, c - 1>>]
                        /\ d[<<kind, c + 1, j>>] = e[<<kind, c + 1, j>>]
    BY <1>6, <2>2
  <2> QED BY <1>8, <2>1, <2>3, Zenon DEF Joined
<1>9. CASE kind = "value"
  BY <1>5, <1>9, Zenon DEF Derives, x, y
<1>10. CASE kind = "member"
  BY <1>7, <1>10, Zenon DEF Derives
<1>11. CASE kind = "values"
  <2>1. Joined(t, d, "value", kind, i, j)
    BY <1>11, Zenon DEF Derives
  <2>2. Joined(t, e, "value", kind, i, j)
    BY <1>8, <1>11, <2>1
  <2> QED BY <1>11, <2>2, Zenon DEF Derives
<1>12. CASE kind = "members"
  <2>1. Joined(t, d, "member", kind, i, j)
    BY <1>12, Zenon DEF Derives
  <2>2. Joined(t, e, "member", kind, i, j)
    BY <1>8, <1>12, <2>1
  <2> QED BY <1>12, <2>2, Zenon DEF Derives
<1> QED BY <1>9, <1>10, <1>11, <1>12 DEF Kinds

\* One more step of the grammar: what derives from stretches if d is right of shorter ones.
DerivesStep(t, d) == [p \in Stretches(t) |-> Derives(t, d, p[1], p[2], p[3])]

\* A step that starts from what is right below a weight is right at that weight.
LEMMA StepLocal ==
  ASSUME NEW t, Len(t) \in Nat, NEW p \in Stretches(t), NEW d, NEW e,
         \A q \in Stretches(t) : Weight(t, q) < Weight(t, p) => d[q] = e[q]
  PROVE  DerivesStep(t, d)[p] = DerivesStep(t, e)[p]
<1>1. /\ p[1] \in Kinds /\ p[2] \in 1..(Len(t) + 1) /\ p[3] \in 0..Len(t)
      /\ p = <<p[1], p[2], p[3]>>
  BY StretchIs
<1> DEFINE kind == p[1]
           i == p[2]
           j == p[3]
           D == Derives(t, d, kind, i, j)
           E == Derives(t, e, kind, i, j)
<1>2. DerivesStep(t, d)[p] = D /\ DerivesStep(t, e)[p] = E
  BY DEF DerivesStep
<1>3. /\ \A q \in Stretches(t) : Weight(t, q) < Weight(t, <<kind, i, j>>) => d[q] = e[q]
      /\ \A q \in Stretches(t) : Weight(t, q) < Weight(t, <<kind, i, j>>) => e[q] = d[q]
  BY <1>1, Zenon
<1> HIDE DEF kind, i, j
<1>4. kind \in Kinds /\ i \in 1..(Len(t) + 1) /\ j \in 0..Len(t)
  BY <1>1 DEF kind, i, j
<1>5. D => E
  BY <1>3, <1>4, DerivesLocal
<1>6. E => D
  BY <1>3, <1>4, DerivesLocal
<1>7. D \in BOOLEAN /\ E \in BOOLEAN
  BY Zenon DEF Derives
<1>8. D = E
  <2>1. ASSUME NEW x \in BOOLEAN, NEW y \in BOOLEAN, x => y, y => x PROVE x = y
    BY <2>1, SMT
  <2>2. (D => E) /\ (E => D)
    BY <1>5, <1>6, Zenon
  <2> HIDE DEF D, E
  <2> QED BY <1>7, <2>1, <2>2, Zenon
<1> QED BY <1>2, <1>8

\* d takes every step of the grammar.
Grammar(t, d) ==
  \A kind \in Kinds, i \in 1..(Len(t) + 1), j \in 0..Len(t) :
    Derives(t, d, kind, i, j) => d[<<kind, i, j>>]

\* The recursion of IsJson exists: after as many steps as the heaviest stretch weighs
\* nothing changes any more.
LEMMA GrammarSteps ==
  ASSUME NEW t, Len(t) \in Nat
  PROVE  \E d : d = DerivesStep(t, d)
<1> DEFINE X == Stretches(t)
           V == [X -> BOOLEAN]
           N == 4 * Len(t) + 4
           D == [i \in 1..N |-> [v \in V |-> DerivesStep(t, v)]]
           c == [p \in X |-> FALSE]
<1>1. N \in Nat /\ N >= 1 /\ c \in V
  OBVIOUS
<1>2. ASSUME NEW v PROVE DerivesStep(t, v) \in V
  <2>1. ASSUME NEW p \in X PROVE Derives(t, v, p[1], p[2], p[3]) \in BOOLEAN
    BY Zenon DEF Derives
  <2> HIDE DEF X
  <2> QED BY <2>1, Zenon DEF DerivesStep, X
<1>3. \A p \in X : Weight(t, p) \in 1..(N - 1)
  <2>1. N - 1 = 4 * Len(t) + 3
    OBVIOUS
  <2> HIDE DEF N
  <2> QED BY <2>1, WeightIs, Zenon
<1> HIDE DEF X, N, V, c
<1>4. PICK g \in [0..N -> V] : \A j \in 0..N : g[j] = IF j = 0 THEN c ELSE D[j][g[j - 1]]
  <2>1. StepsIn(V, 0, N, D)
    <3>1. \A j \in (0 + 1)..N : j \in 1..N
      OBVIOUS
    <3>2. \A j \in 1..N, v \in V : D[j][v] = DerivesStep(t, v)
      BY Zenon
    <3> HIDE DEF D
    <3> QED BY <1>2, <3>1, <3>2, Zenon DEF StepsIn
  <2>2. 0 \in Int /\ N \in Int /\ 0 <= N
    BY <1>1
  <2> HIDE DEF D
  <2>3. Recursive(V, 0, N, c, D)
    BY <1>1, <2>1, <2>2, RecursionExists
  <2> QED BY <2>3, Zenon DEF Recursive
<1>5. ASSUME NEW n \in Nat, n + 1 <= N PROVE g[n + 1] = DerivesStep(t, g[n])
  <2>1. n + 1 \in 1..N /\ n + 1 \in 0..N /\ n \in 0..N /\ n + 1 # 0 /\ (n + 1) - 1 = n
    BY <1>1, <1>5
  <2>2. g[n + 1] = D[n + 1][g[n]] /\ g[n] \in V
    BY <1>4, <2>1, Zenon
  <2> QED BY <2>1, <2>2, Zenon
<1> HIDE DEF D
<1> DEFINE Stays(n) == \A p \in X : Weight(t, p) <= n => g[n][p] = g[n + 1][p]
           T == {n \in Nat : n + 1 <= N => Stays(n)}
<1>6. 0 \in T
  <2>1. \A p \in X : ~(Weight(t, p) <= 0)
    BY <1>1, <1>3
  <2> QED BY <2>1
<1>7. ASSUME NEW n \in Nat, n \in T PROVE n + 1 \in T
  <2> SUFFICES ASSUME (n + 1) + 1 <= N, NEW p \in X, Weight(t, p) <= n + 1
               PROVE  g[n + 1][p] = g[(n + 1) + 1][p]
    OBVIOUS
  <2>1. n + 1 <= N
    BY <1>1
  <2>2. Stays(n)
    BY <1>7, <2>1
  <2>3. g[n + 1] = DerivesStep(t, g[n]) /\ g[(n + 1) + 1] = DerivesStep(t, g[n + 1])
    <3>1. n + 1 \in Nat
      OBVIOUS
    <3> QED BY <1>5, <2>1, <3>1
  <2>4. \A q \in X : Weight(t, q) < Weight(t, p) => g[n][q] = g[n + 1][q]
    <3>1. \A q \in X : Weight(t, q) < Weight(t, p) => Weight(t, q) <= n
      <4>1. \A q \in X : Weight(t, q) \in Nat
        BY <1>1, <1>3
      <4> QED BY <4>1
    <3> QED BY <2>2, <3>1, Zenon
  <2> HIDE DEF T, Stays
  <2>5. DerivesStep(t, g[n])[p] = DerivesStep(t, g[n + 1])[p]
    BY <2>4, StepLocal DEF X
  <2> QED BY <2>3, <2>5, Zenon
<1>8. \A n \in Nat : n \in T
  <2> HIDE DEF T
  <2> QED BY <1>6, <1>7, SetInduction
<1> DEFINE m == N - 1
           d == g[m]
<1>9. m \in Nat /\ m + 1 <= N /\ m + 1 = N /\ m \in 0..N /\ N \in 0..N
  BY <1>1
<1>10. Stays(m)
  <2>1. m \in T
    BY <1>8, <1>9
  <2> QED BY <1>9, <2>1
<1>11. g[m + 1] = DerivesStep(t, d)
  BY <1>5, <1>9
<1>12. g[m] \in V /\ g[m + 1] \in V
  BY <1>4, <1>9, Zenon
<1>13. \A p \in X : g[m][p] = g[m + 1][p]
  <2>1. \A p \in X : Weight(t, p) <= m
    BY <1>1, <1>3
  <2> QED BY <1>10, <2>1, Zenon
<1>14. d = g[m + 1]
  <2>1. ASSUME NEW u \in V, NEW v \in V, \A p \in X : u[p] = v[p] PROVE u = v
    BY <2>1 DEF V
  <2> HIDE DEF m, T, Stays
  <2> QED BY <1>12, <1>13, <2>1, Zenon
<1> QED BY <1>11, <1>14

\* IsJson is what derives from the whole text.
LEMMA GrammarExists ==
  ASSUME NEW t, Len(t) \in Nat
  PROVE  \E d : Grammar(t, d) /\ (d[<<"value", 1, Len(t)>>] => IsJson(t))
<1> DEFINE F(h) == [p \in Stretches(t) |-> Derives(t, h, p[1], p[2], p[3])]
           d == CHOOSE h : h = F(h)
<1>1. IsJson(t) = d[<<"value", 1, Len(t)>>]
  BY Zenon DEF IsJson
<1>2. d = F(d)
  <2>1. PICK h : h = DerivesStep(t, h)
    BY GrammarSteps
  <2>2. h = F(h)
    BY <2>1, Zenon DEF DerivesStep
  <2> HIDE DEF F
  <2> QED BY <2>2, Zenon
<1> HIDE DEF d
<1>3. Grammar(t, d)
  <2> SUFFICES ASSUME NEW kind \in Kinds, NEW i \in 1..(Len(t) + 1), NEW j \in 0..Len(t),
                      Derives(t, d, kind, i, j)
               PROVE  d[<<kind, i, j>>]
    BY Zenon DEF Grammar
  <2> DEFINE p == <<kind, i, j>>
  <2>1. p \in Stretches(t) /\ p[1] = kind /\ p[2] = i /\ p[3] = j
    BY DEF Stretches, Kinds
  <2> HIDE DEF p
  <2>2. d[p] = Derives(t, d, p[1], p[2], p[3])
    BY <1>2, <2>1, Zenon
  <2>3. d[p]
    BY <2>1, <2>2, Zenon
  <2> QED BY <2>3 DEF p
<1> QED BY <1>1, <1>3, Zenon

\* The brackets of an array and of an object, and what is between them.
Brackets == {<<"[", "]", "values">>, <<"{", "}", "members">>}

\* A stretch between brackets is a value.
LEMMA BracketedDerives ==
  ASSUME NEW t, Len(t) \in Nat, NEW d, Grammar(t, d), NEW x \in 1..Len(t), NEW y \in 1..Len(t), x < y,
         NEW left, NEW right, NEW all,
         <<left, right, all>> \in Brackets,
         t[x] = left, t[y] = right, y = x + 1 \/ d[<<all, x + 1, y - 1>>]
  PROVE  d[<<"value", x, y>>]
<1>1. left \notin White /\ right \notin White
  BY DEF White, Brackets
<1>2. x \in 1..(Len(t) + 1) /\ x <= Len(t) /\ y \in 0..Len(t) /\ y # 0 /\ "value" \in Kinds
  BY DEF Kinds
<1>3. From(t, x) = x /\ UpTo(t, y) = y
  BY <1>1, <1>2, FromIs, UpToIs
<1>4. y = x + 1 => From(t, x + 1) = y
  <2>1. y \in 1..(Len(t) + 1) /\ y <= Len(t)
    OBVIOUS
  <2>2. From(t, y) = y
    BY <1>1, <2>1, FromIs
  <2> QED BY <2>2
<1>5. Bracketed(t, d, x, y, left, right, all)
  BY <1>4, Zenon DEF Bracketed
<1>6. \/ left = "[" /\ right = "]" /\ all = "values"
      \/ left = "{" /\ right = "}" /\ all = "members"
  BY DEF Brackets
<1>7. JsonValue(t, d, x, y)
  BY <1>5, <1>6, Zenon DEF JsonValue
<1>8. x <= y
  OBVIOUS
<1>9. Derives(t, d, "value", x, y)
  BY <1>3, <1>7, <1>8, Zenon DEF Derives
<1> QED BY <1>2, <1>9, Zenon DEF Grammar

\* A string is a value.
LEMMA StringDerives ==
  ASSUME NEW t, Len(t) \in Nat, NEW d, Grammar(t, d), NEW x \in 1..Len(t), NEW y \in 1..Len(t), x < y,
         JsonString(t, x, y)
  PROVE  d[<<"value", x, y>>]
<1>1. t[x] \notin White /\ t[y] \notin White
  BY DEF White, JsonString
<1>2. x \in 1..(Len(t) + 1) /\ x <= Len(t) /\ y \in 0..Len(t) /\ y # 0 /\ "value" \in Kinds /\ x <= y
  BY DEF Kinds
<1>3. From(t, x) = x /\ UpTo(t, y) = y
  BY <1>1, <1>2, FromIs, UpToIs
<1>4. Derives(t, d, "value", x, y)
  BY <1>2, <1>3, Zenon DEF Derives, JsonValue
<1> QED BY <1>2, <1>4, Zenon DEF Grammar

\* A string, a colon and a value are a member.
LEMMA MemberDerives ==
  ASSUME NEW t, Len(t) \in Nat, NEW d, Grammar(t, d), NEW x \in 1..Len(t), NEW y \in 1..Len(t),
         NEW c \in (x + 2)..y, JsonString(t, x, c - 1), t[c] = ":", d[<<"value", c + 1, y>>]
  PROVE  d[<<"member", x, y>>]
<1>1. t[x] \notin White /\ t[c - 1] \notin White
  BY DEF White, JsonString
<1>2. /\ x \in 1..(Len(t) + 1) /\ x <= Len(t) /\ c - 1 \in 0..Len(t) /\ c - 1 # 0 /\ x <= c - 1
      /\ "member" \in Kinds /\ c \in x..y /\ y \in 0..Len(t)
  BY DEF Kinds
<1>3. From(t, x) = x /\ UpTo(t, c - 1) = c - 1
  BY <1>1, <1>2, FromIs, UpToIs
<1>4. JsonMember(t, d, x, y)
  BY <1>2, <1>3, Zenon DEF JsonMember
<1>5. Derives(t, d, "member", x, y)
  BY <1>4, Zenon DEF Derives
<1> QED BY <1>2, <1>5, Zenon DEF Grammar

ElementOf(all) == IF all = "values" THEN "value" ELSE "member"

\* Element r of a list of n is between at[r] and at[r + 1], where a comma is.
Elements(t, d, all, n, at) ==
  /\ at \in [1..(n + 1) -> Nat] /\ at[n + 1] <= Len(t) + 1
  /\ \A r \in 1..n : /\ at[r] < at[r + 1] /\ at[r + 1] <= at[n + 1]
                     /\ d[<<ElementOf(all), at[r] + 1, at[r + 1] - 1>>]
                     /\ r # n => t[at[r + 1]] = ","

\* Elements with commas between them are a list.
LEMMA JoinedDerives ==
  ASSUME NEW t, Len(t) \in Nat, NEW d, Grammar(t, d), NEW all \in {"values", "members"},
         NEW n \in Nat, n >= 1, NEW at, Elements(t, d, all, n, at)
  PROVE  d[<<all, at[1] + 1, at[n + 1] - 1>>]
<1> DEFINE one == ElementOf(all)
           j == at[n + 1] - 1
           T == {q \in Nat : q < n => d[<<all, at[n - q] + 1, j>>]}
<1>1. /\ at[n + 1] \in Nat /\ at[n + 1] <= Len(t) + 1
      /\ \A r \in 1..n : /\ at[r] \in Nat /\ at[r + 1] \in Nat
                         /\ at[r] < at[r + 1] /\ at[r + 1] <= at[n + 1]
                         /\ d[<<one, at[r] + 1, at[r + 1] - 1>>]
                         /\ r # n => t[at[r + 1]] = ","
  <2>1. \A r \in 1..(n + 1) : at[r] \in Nat
    BY Zenon DEF Elements
  <2>2. n + 1 \in 1..(n + 1) /\ \A r \in 1..n : r \in 1..(n + 1) /\ r + 1 \in 1..(n + 1)
    OBVIOUS
  <2> QED BY <2>1, <2>2, Zenon DEF Elements
<1>2. ASSUME NEW i \in 1..(Len(t) + 1), j \in 0..Len(t), Joined(t, d, one, all, i, j)
      PROVE  d[<<all, i, j>>]
  <2>1. all \in Kinds
    BY DEF Kinds
  <2>2. Derives(t, d, all, i, j)
    BY <1>2, Zenon DEF Derives, ElementOf
  <2> QED BY <1>2, <2>1, <2>2, Zenon DEF Grammar
<1> HIDE DEF one
<1>3. 0 \in T
  <2>1. n \in 1..n /\ n - 0 = n
    OBVIOUS
  <2>2. at[n] \in Nat /\ at[n] < at[n + 1] /\ d[<<one, at[n] + 1, j>>]
    BY <1>1, <2>1, Zenon
  <2>3. at[n] + 1 \in 1..(Len(t) + 1) /\ j \in 0..Len(t)
    <3> DEFINE e == at[n + 1]
               b == at[n]
    <3>1. b \in Nat /\ b < e /\ e \in Nat /\ e <= Len(t) + 1
      BY <1>1, <2>2, Zenon
    <3>2. j = e - 1
      OBVIOUS
    <3> HIDE DEF e, b, j
    <3>3. b + 1 \in 1..(Len(t) + 1) /\ j \in 0..Len(t)
      BY <3>1, <3>2
    <3> QED BY <3>3 DEF b
  <2>4. d[<<all, at[n] + 1, j>>]
    BY <1>2, <2>2, <2>3, Zenon DEF Joined
  <2> QED BY <2>1, <2>4
<1>4. ASSUME NEW q \in Nat, q \in T PROVE q + 1 \in T
  <2> SUFFICES ASSUME q + 1 < n PROVE d[<<all, at[n - (q + 1)] + 1, j>>]
    OBVIOUS
  <2> DEFINE r == n - (q + 1)
             c == at[r + 1]
             i == at[r] + 1
  <2>1. r \in 1..n /\ r # n /\ r + 1 \in 1..n /\ r + 1 = n - q /\ q < n
    OBVIOUS
  <2>2. d[<<all, c + 1, j>>]
    BY <1>4, <2>1
  <2>3. /\ at[r] \in Nat /\ c \in Nat /\ at[r] < c /\ t[c] = "," /\ d[<<one, i, c - 1>>]
    <3> HIDE DEF r
    <3> QED BY <1>1, <2>1, Zenon
  <2>4. c < at[n + 1]
    <3> HIDE DEF r
    <3>1. c < at[(r + 1) + 1] /\ at[(r + 1) + 1] <= at[n + 1] /\ at[(r + 1) + 1] \in Nat
      BY <1>1, <2>1, Zenon
    <3> DEFINE b == at[(r + 1) + 1]
               e == at[n + 1]
    <3>2. c \in Nat /\ b \in Nat /\ e \in Nat /\ c < b /\ b <= e
      BY <1>1, <2>3, <3>1, Zenon
    <3> HIDE DEF b, c, e
    <3>3. c < e
      BY <3>2
    <3> QED BY <3>3 DEF e
  <2>5. c \in i..j /\ i \in 1..(Len(t) + 1) /\ j \in 0..Len(t)
    <3> DEFINE e == at[n + 1]
               b == at[r]
    <3>1. b \in Nat /\ c \in Nat /\ b < c /\ c < e /\ e \in Nat /\ e <= Len(t) + 1 /\ j = e - 1 /\ i = b + 1
      BY <1>1, <2>3, <2>4
    <3> HIDE DEF e, b, c, i, j, r
    <3> QED BY <3>1
  <2> HIDE DEF r, c, i, j
  <2>6. Joined(t, d, one, all, i, j)
    BY <2>2, <2>3, <2>5, Zenon DEF Joined
  <2>7. d[<<all, i, j>>]
    BY <1>2, <2>5, <2>6
  <2> QED BY <2>7 DEF i, r
<1>5. \A q \in Nat : q \in T
  <2> HIDE DEF T
  <2> QED BY <1>3, <1>4, SetInduction
<1>6. n - 1 \in T /\ n - 1 < n /\ n - (n - 1) = 1
  BY <1>5
<1> QED BY <1>6

-----------------------------------------------------------------------------
(* Where texts stand in a text.                                            *)

\* s is what the text has behind its first p characters.
Stands(t, p, s) ==
  p \in Nat /\ p + Len(s) <= Len(t) /\ \A o \in 1..Len(s) : t[p + o] = s[o]

\* Both parts of a text that is put together are in it.
LEMMA PartsStand ==
  ASSUME NEW S, NEW x \in Seq(S), NEW y \in Seq(S)
  PROVE  /\ x \o y \in Seq(S) /\ Len(x \o y) = Len(x) + Len(y)
         /\ Stands(x \o y, 0, x) /\ Stands(x \o y, Len(x), y)
<1> DEFINE z == x \o y
           m == Len(x)
           n == Len(y)
<1>1. m \in Nat /\ n \in Nat
  OBVIOUS
<1>2. /\ z \in Seq(S) /\ Len(z) = m + n
      /\ \A i \in 1..(m + n) : z[i] = IF i <= m THEN x[i] ELSE y[i - m]
  BY ConcatProperties
<1> HIDE DEF z, m, n
<1>3. ASSUME NEW o \in 1..m PROVE z[0 + o] = x[o]
  <2>1. 0 + o = o /\ o \in 1..(m + n) /\ o <= m
    BY <1>1
  <2> QED BY <1>2, <2>1, Zenon
<1>4. ASSUME NEW o \in 1..n PROVE z[m + o] = y[o]
  <2>1. m + o \in 1..(m + n) /\ ~(m + o <= m) /\ (m + o) - m = o
    BY <1>1
  <2> QED BY <1>2, <2>1, Zenon
<1>5. 0 \in Nat /\ 0 + m <= m + n /\ m + n <= m + n
  BY <1>1
<1> QED BY <1>1, <1>2, <1>3, <1>4, <1>5, Zenon DEF Stands, z, m, n

\* What stands in a part of a text stands in the text.
LEMMA StandsInside ==
  ASSUME NEW t, NEW p, NEW x, NEW q, NEW s, Len(t) \in Nat, Len(x) \in Nat, Len(s) \in Nat,
         Stands(t, p, x), Stands(x, q, s)
  PROVE  Stands(t, p + q, s)
<1> DEFINE l == Len(t)
           m == Len(x)
           n == Len(s)
<1>1. /\ p \in Nat /\ p + m <= l /\ \A o \in 1..m : t[p + o] = x[o]
      /\ q \in Nat /\ q + n <= m /\ \A o \in 1..n : x[q + o] = s[o]
      /\ l \in Nat /\ m \in Nat /\ n \in Nat
  BY Zenon DEF Stands
<1> HIDE DEF l, m, n
<1>2. ASSUME NEW o \in 1..n PROVE t[(p + q) + o] = s[o]
  <2>1. q + o \in 1..m /\ p + (q + o) = (p + q) + o
    BY <1>1
  <2>2. t[p + (q + o)] = x[q + o]
    BY <1>1, <2>1, Zenon
  <2> QED BY <1>1, <2>1, <2>2, Zenon
<1>3. p + q \in Nat /\ (p + q) + n <= l
  BY <1>1
<1> QED BY <1>2, <1>3, Zenon DEF Stands, l, n

\* The two parts of a text stand where it stands, one behind the other.
LEMMA BothStand ==
  ASSUME NEW S, NEW x \in Seq(S), NEW y \in Seq(S), NEW t, Len(t) \in Nat, NEW p,
         Stands(t, p, x \o y)
  PROVE  Stands(t, p, x) /\ Stands(t, p + Len(x), y)
<1> DEFINE z == x \o y
<1>1. z \in Seq(S) /\ Stands(z, 0, x) /\ Stands(z, Len(x), y)
  BY PartsStand
<1> HIDE DEF z
<1>2. Len(z) \in Nat /\ Len(x) \in Nat /\ Len(y) \in Nat
  BY <1>1
<1>3. Stands(t, p, z)
  BY DEF z
<1>4. Stands(t, p + 0, x)
  BY <1>1, <1>2, <1>3, StandsInside
<1>5. Stands(t, p + Len(x), y)
  BY <1>1, <1>2, <1>3, StandsInside
<1>6. p + 0 = p
  <2>1. p \in Nat
    BY <1>3, Zenon DEF Stands
  <2> QED BY <2>1
<1> QED BY <1>4, <1>5, <1>6, Zenon

\* Parts of a text, one behind the other: at[r] characters come before part r.
Partitioned(text, ss, at) ==
  /\ at \in [1..(Len(ss) + 1) -> Nat] /\ at[1] = 0 /\ at[Len(ss) + 1] = Len(text)
  /\ \A r \in 1..Len(ss) : at[r + 1] = at[r] + Len(ss[r]) /\ Stands(text, at[r], ss[r])

\* What FlattenSeq joins is there, one behind the other.
LEMMA FlattenPlaces ==
  ASSUME NEW S, NEW ss \in Seq(Seq(S)), ss # <<>>
  PROVE  FlattenSeq(ss) \in Seq(S) /\ \E at : Partitioned(FlattenSeq(ss), ss, at)
<1> DEFINE n == Len(ss)
<1>1. n \in Nat /\ n >= 1 /\ \A r \in 1..n : ss[r] \in Seq(S)
  <2> DEFINE Q == Seq(S)
  <2>1. ss \in Seq(Q)
    OBVIOUS
  <2> HIDE DEF Q
  <2>2. Len(ss) \in Nat /\ Len(ss) >= 1 /\ \A i \in 1..Len(ss) : ss[i] \in Q
    BY <2>1
  <2> QED BY <2>2 DEF Q
<1>2. PICK f : Flattens(S, ss, f) /\ FlattenSeq(ss) = f[n]
  BY FlattenRecursion
<1> HIDE DEF n
<1>3. /\ \A r \in 1..n : f[r] \in Seq(S)
      /\ \A r \in 1..n : f[r] = IF r = 1 THEN ss[r] ELSE f[r - 1] \o ss[r]
  <2>1. f \in [1..n -> Seq(S)] /\ \A r \in 1..n : f[r] = IF r = 1 THEN ss[r] ELSE f[r - 1] \o ss[r]
    BY <1>2, Zenon DEF Flattens, n
  <2> QED BY <2>1, Zenon
<1> DEFINE at == [r \in 1..(n + 1) |-> IF r = 1 THEN 0 ELSE Len(f[r - 1])]
<1>4. /\ at[1] = 0
      /\ \A r \in 1..n : at[r + 1] = Len(f[r])
  <2>1. 1 \in 1..(n + 1) /\ \A r \in 1..n : r + 1 \in 1..(n + 1) /\ r + 1 # 1 /\ (r + 1) - 1 = r
    BY <1>1
  <2> QED BY <2>1, Zenon
<1>5. at \in [1..(n + 1) -> Nat]
  <2>1. ASSUME NEW r \in 1..(n + 1), r # 1 PROVE Len(f[r - 1]) \in Nat
    <3>1. r - 1 \in 1..n
      BY <1>1, <2>1
    <3>2. f[r - 1] \in Seq(S)
      BY <1>3, <3>1, Zenon
    <3> QED BY <3>2
  <2> QED BY <2>1
<1> HIDE DEF at
<1>6. ASSUME NEW r \in 1..n
      PROVE  at[r + 1] = at[r] + Len(ss[r]) /\ Stands(f[r], at[r], ss[r])
  <2>1. ss[r] \in Seq(S) /\ at[r + 1] = Len(f[r]) /\ Len(ss[r]) \in Nat
    BY <1>1, <1>4
  <2>2. CASE r = 1
    <3>1. f[r] = ss[r] /\ at[r] = 0
      BY <1>3, <1>4, <2>2, Zenon
    <3>2. 0 + Len(ss[r]) = Len(ss[r]) /\ 0 \in Nat /\ Len(ss[r]) <= Len(ss[r])
          /\ \A o \in 1..Len(ss[r]) : 0 + o = o
      BY <2>1
    <3>3. Stands(ss[r], 0, ss[r])
      BY <3>2, Zenon DEF Stands
    <3> QED BY <2>1, <3>1, <3>2, <3>3, Zenon
  <2>3. CASE r # 1
    <3>1. r - 1 \in 1..n /\ (r - 1) + 1 = r
      BY <1>1, <2>3
    <3>2. f[r - 1] \in Seq(S) /\ f[r] = f[r - 1] \o ss[r] /\ at[r] = Len(f[r - 1])
      BY <1>3, <1>4, <2>3, <3>1, Zenon
    <3>3. Len(f[r - 1] \o ss[r]) = Len(f[r - 1]) + Len(ss[r])
          /\ Stands(f[r - 1] \o ss[r], Len(f[r - 1]), ss[r])
      BY <2>1, <3>2, PartsStand
    <3> QED BY <2>1, <3>2, <3>3, Zenon
  <2> QED BY <2>2, <2>3
<1> DEFINE T == {m \in Nat : m + 1 <= n => \A r \in 1..(m + 1) : Stands(f[m + 1], at[r], ss[r])}
<1>7. 0 \in T
  <2>1. 1 \in 1..n /\ 0 + 1 = 1 /\ \A r \in 1..1 : r = 1
    BY <1>1
  <2>2. Stands(f[1], at[1], ss[1])
    BY <1>6, <2>1, Zenon
  <2>3. \A r \in 1..(0 + 1) : Stands(f[0 + 1], at[r], ss[r])
    BY <2>1, <2>2, Zenon
  <2> QED BY <2>3
<1>8. ASSUME NEW m \in Nat, m \in T PROVE m + 1 \in T
  <2> SUFFICES ASSUME (m + 1) + 1 <= n, NEW r \in 1..((m + 1) + 1)
               PROVE  Stands(f[(m + 1) + 1], at[r], ss[r])
    OBVIOUS
  <2> DEFINE b == (m + 1) + 1
  <2>1. m + 1 \in 1..n /\ b \in 1..n /\ b # 1 /\ b - 1 = m + 1 /\ (r # b => r \in 1..(m + 1)) /\ r \in 1..n
    BY <1>1
  <2>2. \A l \in 1..(m + 1) : Stands(f[m + 1], at[l], ss[l])
    BY <1>8, <2>1
  <2> HIDE DEF b, T
  <2>3. CASE r = b
    BY <1>6, <2>1, <2>3, Zenon DEF b
  <2>4. CASE r # b
    <3> DEFINE x == f[m + 1]
               y == ss[b]
               z == x \o y
    <3>1. f[b] = z /\ x \in Seq(S) /\ y \in Seq(S)
      BY <1>1, <1>3, <2>1, Zenon
    <3> HIDE DEF x, y
    <3>2. z \in Seq(S) /\ Stands(z, 0, x)
      BY <3>1, PartsStand
    <3> HIDE DEF z
    <3>3. Len(x) \in Nat /\ Len(z) \in Nat /\ Len(ss[r]) \in Nat
      BY <1>1, <2>1, <3>1, <3>2
    <3>4. Stands(x, at[r], ss[r])
      BY <2>1, <2>2, <2>4, Zenon DEF x
    <3>5. Stands(z, 0 + at[r], ss[r])
      BY <3>2, <3>3, <3>4, StandsInside
    <3>6. 0 + at[r] = at[r]
      <4>1. at[r] \in Nat
        BY <3>4, Zenon DEF Stands
      <4> QED BY <4>1
    <3> QED BY <3>1, <3>5, <3>6, Zenon DEF b
  <2> QED BY <2>3, <2>4
<1>9. \A m \in Nat : m \in T
  <2> HIDE DEF T
  <2> QED BY <1>7, <1>8, SetInduction
<1>10. \A r \in 1..n : Stands(f[n], at[r], ss[r])
  <2>1. n - 1 \in T /\ n - 1 \in Nat /\ (n - 1) + 1 = n /\ n <= n
    <3> HIDE DEF T
    <3> QED BY <1>1, <1>9
  <2> HIDE DEF n
  <2>2. n - 1 \in T => ((n - 1) + 1 <= n => \A r \in 1..((n - 1) + 1) : Stands(f[(n - 1) + 1], at[r], ss[r]))
    OBVIOUS
  <2> QED BY <2>1, <2>2, Zenon
<1>11. n \in 1..n
  BY <1>1
<1>12. Partitioned(f[n], ss, at)
  BY <1>4, <1>5, <1>6, <1>10, <1>11, Zenon DEF Partitioned, n
<1> QED BY <1>2, <1>3, <1>11, <1>12, Zenon

-----------------------------------------------------------------------------
(* The text of a person.                                                   *)

\* No character of a text ends a string of JSON or is none of it.
Unescaped(x) == Range(x) \cap Escaped = {} /\ Whole(x)
Special == Escaped \cup {"lead", "trail"}

\* A text without any of these is such a text.
LEMMA UnescapedIs ==
  ASSUME NEW x, Range(x) \cap Special = {}
  PROVE  Unescaped(x)
<1>1. \A o \in DOMAIN x : x[o] \in Range(x)
  BY Zenon DEF Range
<1>2. \A c \in Range(x) : c # "lead" /\ c # "trail" /\ c \notin Escaped
  BY Zenon DEF Special
<1>3. \A o \in DOMAIN x : x[o] # "lead" /\ x[o] # "trail"
  BY <1>1, <1>2, Zenon
<1>4. Whole(x)
  BY <1>3, Zenon DEF Whole
<1>5. Range(x) \cap Escaped = {}
  BY <1>2, Zenon
<1> QED BY <1>4, <1>5, Zenon DEF Unescaped

\* A text between quotation marks is a string.
LEMMA StringIs ==
  ASSUME NEW S, Quote \in S, NEW x \in Seq(S)
  PROVE  /\ String(x) \in Seq(S) /\ Len(String(x)) = Len(x) + 2 /\ Len(x) \in Nat
         /\ String(x)[1] = Quote /\ String(x)[Len(x) + 2] = Quote
         /\ Stands(String(x), 1, x)
<1> DEFINE c == <<Quote>>
           u == c \o x
           z == u \o c
           n == Len(x)
<1>1. c \in Seq(S) /\ Len(c) = 1 /\ c[1] = Quote /\ n \in Nat
  OBVIOUS
<1> HIDE DEF c, n
<1>2. u \in Seq(S) /\ Len(u) = 1 + n /\ Stands(u, 0, c) /\ Stands(u, 1, x)
  BY <1>1, PartsStand, Zenon DEF n
<1> HIDE DEF u
<1>3. z \in Seq(S) /\ Len(z) = (1 + n) + 1 /\ Stands(z, 0, u) /\ Stands(z, 1 + n, c)
  BY <1>1, <1>2, PartsStand, Zenon
<1> HIDE DEF z
<1>4. Len(z) \in Nat /\ Len(u) \in Nat /\ Len(c) \in Nat
  BY <1>1, <1>2, <1>3
<1>5. Stands(z, 0 + 0, c) /\ Stands(z, 0 + 1, x)
  <2>1. Len(x) \in Nat
    BY <1>1 DEF n
  <2> QED BY <1>2, <1>3, <1>4, <2>1, StandsInside
<1>6. 0 + 0 = 0 /\ 0 + 1 = 1 /\ 1 \in 1..1 /\ (1 + n) + 1 = n + 2
  BY <1>1
<1>7. z[0 + 1] = Quote /\ z[(1 + n) + 1] = Quote
  BY <1>1, <1>3, <1>5, <1>6, Zenon DEF Stands
<1>8. z = String(x)
  BY Zenon DEF z, u, c, String
<1> QED BY <1>1, <1>3, <1>5, <1>6, <1>7, <1>8, Zenon DEF n

\* In a longer text it is a string too.
LEMMA StringHere ==
  ASSUME NEW S, Quote \in S, NEW x \in Seq(S), Unescaped(x), NEW t, Len(t) \in Nat, NEW p,
         Stands(t, p, String(x))
  PROVE  JsonString(t, p + 1, p + (Len(x) + 2))
<1> DEFINE n == Len(x)
           z == String(x)
<1>1. /\ z \in Seq(S) /\ Len(z) = n + 2 /\ n \in Nat /\ z[1] = Quote /\ z[n + 2] = Quote
      /\ Stands(z, 1, x) /\ DOMAIN x = 1..n
  BY StringIs
<1> HIDE DEF z
<1>2. Len(z) \in Nat /\ Len(x) \in Nat
  BY <1>1
<1>3. p \in Nat /\ p + (n + 2) <= Len(t) /\ \A o \in 1..(n + 2) : t[p + o] = z[o]
  BY <1>1, Zenon DEF Stands, z
<1>4. Stands(t, p + 1, x)
  BY <1>1, <1>2, StandsInside DEF z
<1> HIDE DEF n
<1>5. t[p + 1] = Quote /\ t[p + (n + 2)] = Quote
  <2>1. 1 \in 1..(n + 2) /\ n + 2 \in 1..(n + 2)
    BY <1>1
  <2> QED BY <1>1, <1>3, <2>1, Zenon
<1>6. ASSUME NEW r \in ((p + 1) + 1)..((p + (n + 2)) - 1)
      PROVE  /\ t[r] \notin Escaped
             /\ t[r] = "lead" => t[r + 1] = "trail"
             /\ t[r] = "trail" => t[r - 1] = "lead"
  <2> DEFINE o == r - (p + 1)
  <2>1. o \in 1..n /\ (p + 1) + o = r
    BY <1>1, <1>3
  <2> HIDE DEF o
  <2>2. t[r] = x[o]
    BY <1>4, <2>1, Zenon DEF Stands, n
  <2>3. x[o] \in Range(x)
    BY <1>1, <2>1, Zenon DEF Range
  <2>4. ASSUME t[r] = "lead" PROVE t[r + 1] = "trail"
    <3>1. o < n /\ x[o + 1] = "trail"
      BY <1>1, <2>1, <2>2, <2>4, Zenon DEF Unescaped, Whole, n
    <3>2. o + 1 \in 1..n /\ (p + 1) + (o + 1) = r + 1
      BY <1>1, <1>3, <2>1, <3>1
    <3>3. t[(p + 1) + (o + 1)] = x[o + 1]
      BY <1>4, <3>2, Zenon DEF Stands, n
    <3> QED BY <3>1, <3>2, <3>3, Zenon
  <2>5. ASSUME t[r] = "trail" PROVE t[r - 1] = "lead"
    <3>1. o > 1 /\ x[o - 1] = "lead"
      BY <1>1, <2>1, <2>2, <2>5, Zenon DEF Unescaped, Whole
    <3>2. o - 1 \in 1..n /\ (p + 1) + (o - 1) = r - 1
      BY <1>1, <1>3, <2>1, <3>1
    <3>3. t[(p + 1) + (o - 1)] = x[o - 1]
      BY <1>4, <3>2, Zenon DEF Stands, n
    <3> QED BY <3>1, <3>2, <3>3, Zenon
  <2>6. t[r] \notin Escaped
    BY <2>2, <2>3, Zenon DEF Unescaped
  <2> QED BY <2>4, <2>5, <2>6, Zenon
<1>7. {"quote", "tab", "bad", "control", "high", "low"} \subseteq Escaped /\ Quote = "quote"
  BY CharactersAreLexemes DEF Escaped
<1>8. p + 1 < p + (n + 2)
  BY <1>1, <1>3
<1>9. \A r \in ((p + 1) + 1)..((p + (n + 2)) - 1) :
        t[r] \notin {"quote", "tab", "bad", "control"} /\ t[r] # "high" /\ t[r] # "low"
  BY <1>6, <1>7
<1>10. \A r \in ((p + 1) + 1)..((p + (n + 2)) - 1) :
         (t[r] = "lead" => t[r + 1] = "trail") /\ (t[r] = "trail" => t[r - 1] = "lead")
  BY <1>6, Zenon
<1> QED BY <1>5, <1>7, <1>8, <1>9, <1>10, Zenon DEF JsonString, n

\* The text stands behind p characters and derives from its place.
Derived(t, d, kind, p, s) == Stands(t, p, s) /\ d[<<kind, p + 1, p + Len(s)>>]

\* UpTo of a stretch behind p characters.
LEMMA StretchEnds ==
  ASSUME NEW t, Len(t) \in Nat, NEW p, NEW s, Len(s) \in Nat, Len(s) >= 2, Stands(t, p, s)
  PROVE  /\ p + 1 \in 1..Len(t) /\ p + Len(s) \in 1..Len(t) /\ p + 1 < p + Len(s)
         /\ p \in Nat
<1> DEFINE n == Len(s)
           l == Len(t)
<1>1. p \in Nat /\ p + n <= l /\ n \in Nat /\ n >= 2 /\ l \in Nat
  BY Zenon DEF Stands
<1> HIDE DEF n, l
<1>2. p + 1 \in 1..l /\ p + n \in 1..l /\ p + 1 < p + n
  BY <1>1
<1> QED BY <1>1, <1>2 DEF n, l

\* A text between quotation marks is a value wherever it stands.
LEMMA StringValue ==
  ASSUME NEW S, Quote \in S, NEW x \in Seq(S), Unescaped(x), NEW t, Len(t) \in Nat, NEW p,
         Stands(t, p, String(x)), NEW d, Grammar(t, d)
  PROVE  Derived(t, d, "value", p, String(x))
<1> DEFINE z == String(x)
           y == p + Len(z)
<1>1. Len(z) = Len(x) + 2 /\ Len(x) \in Nat
  BY StringIs, Zenon
<1>2. JsonString(t, p + 1, p + (Len(x) + 2))
  BY StringHere, Zenon
<1> HIDE DEF z
<1>3. p + 1 \in 1..Len(t) /\ y \in 1..Len(t) /\ p + 1 < y
  BY <1>1, StretchEnds DEF z
<1>4. JsonString(t, p + 1, y)
  BY <1>1, <1>2, Zenon
<1> HIDE DEF y
<1>5. d[<<"value", p + 1, y>>]
  BY <1>3, <1>4, StringDerives
<1> QED BY <1>5, Zenon DEF Derived, y, z

\* Three characters and a colon come before the value of a member.
LEMMA MemberIs ==
  ASSUME NEW S, Quote \in S, ":" \in S, NEW key \in S, NEW text \in Seq(S)
  PROVE  /\ Member(key, text) \in Seq(S) /\ Len(Member(key, text)) = 4 + Len(text)
         /\ Len(text) \in Nat
         /\ Stands(Member(key, text), 0, String(<<key>>))
         /\ Member(key, text)[4] = ":"
         /\ Stands(Member(key, text), 4, text)
<1> DEFINE a == String(<<key>>)
           c == <<":">>
           u == a \o c
           z == u \o text
           n == Len(text)
<1>1. a \in Seq(S) /\ Len(a) = 3
  <2>1. <<key>> \in Seq(S) /\ Len(<<key>>) = 1
    OBVIOUS
  <2>2. String(<<key>>) \in Seq(S) /\ Len(String(<<key>>)) = Len(<<key>>) + 2
    BY <2>1, StringIs
  <2> QED BY <2>1, <2>2
<1>2. c \in Seq(S) /\ Len(c) = 1 /\ c[1] = ":" /\ n \in Nat
  OBVIOUS
<1> HIDE DEF a, c, n
<1>3. u \in Seq(S) /\ Len(u) = 4 /\ Stands(u, 0, a) /\ Stands(u, 3, c)
  <2>1. u \in Seq(S) /\ Len(u) = Len(a) + Len(c) /\ Stands(u, 0, a) /\ Stands(u, Len(a), c)
    BY <1>1, <1>2, PartsStand
  <2> HIDE DEF u
  <2>2. Len(u) = 4
    BY <1>1, <1>2, <2>1
  <2> QED BY <1>1, <2>1, <2>2, Zenon
<1> HIDE DEF u
<1>4. z \in Seq(S) /\ Len(z) = 4 + n /\ Stands(z, 0, u) /\ Stands(z, 4, text)
  <2>1. z \in Seq(S) /\ Len(z) = Len(u) + Len(text) /\ Stands(z, 0, u) /\ Stands(z, Len(u), text)
    BY <1>3, PartsStand
  <2> HIDE DEF z
  <2> QED BY <1>3, <2>1, Zenon DEF n
<1> HIDE DEF z
<1>5. Len(z) \in Nat /\ Len(u) \in Nat /\ Len(a) \in Nat /\ Len(c) \in Nat
  BY <1>1, <1>2, <1>3, <1>4
<1>6. Stands(z, 0 + 0, a) /\ Stands(z, 0 + 3, c)
  BY <1>3, <1>4, <1>5, StandsInside
<1>7. 0 + 0 = 0 /\ 0 + 3 = 3 /\ 3 + 1 = 4 /\ 1 \in 1..1
  OBVIOUS
<1>8. z[3 + 1] = c[1]
  BY <1>2, <1>6, <1>7, Zenon DEF Stands
<1>9. z = Member(key, text)
  BY Zenon DEF z, u, c, a, Member
<1> QED BY <1>2, <1>4, <1>6, <1>7, <1>8, <1>9, Zenon DEF a, n

\* A member is one wherever it stands, if its value is a value there.
LEMMA MemberHere ==
  ASSUME NEW S, Quote \in S, ":" \in S, NEW key \in S, key \notin Special, NEW text \in Seq(S),
         Len(text) >= 1, NEW t, Len(t) \in Nat, NEW p, Stands(t, p, Member(key, text)),
         NEW d, Grammar(t, d), Derived(t, d, "value", p + 4, text)
  PROVE  Derived(t, d, "member", p, Member(key, text))
<1> DEFINE z == Member(key, text)
           n == Len(text)
           y == p + Len(z)
           a == String(<<key>>)
<1>1. z \in Seq(S) /\ Len(z) = 4 + n /\ n \in Nat /\ Stands(z, 0, a) /\ z[4] = ":"
  BY MemberIs, Zenon
<1>2. <<key>> \in Seq(S) /\ Len(<<key>>) = 1 /\ Unescaped(<<key>>)
  <2>1. Range(<<key>>) \cap Special = {}
    BY DEF Range
  <2>2. Unescaped(<<key>>)
    BY <2>1, UnescapedIs
  <2> QED BY <2>2
<1>3. Len(a) = 1 + 2
  BY <1>2, StringIs, Zenon
<1> HIDE DEF z, n
<1>4. p + 1 \in 1..Len(t) /\ y \in 1..Len(t) /\ p \in Nat
  <2>1. Len(z) \in Nat /\ Len(z) >= 2
    BY <1>1
  <2> QED BY <2>1, StretchEnds DEF z
<1>5. Stands(t, p + 0, a)
  <2>1. Len(a) \in Nat /\ Len(z) \in Nat
    BY <1>1, <1>3
  <2> QED BY <1>1, <2>1, StandsInside DEF z
<1>6. JsonString(t, p + 1, p + 3)
  <2>1. p + 0 = p /\ 1 + 2 = 3
    BY <1>4
  <2>2. JsonString(t, p + 1, p + (Len(<<key>>) + 2))
    BY <1>2, <1>5, <2>1, StringHere, Zenon
  <2> QED BY <1>2, <2>1, <2>2, Zenon
<1>7. t[p + 4] = ":"
  <2>1. 4 \in 1..Len(z)
    BY <1>1
  <2> QED BY <1>1, <2>1, Zenon DEF Stands, z
<1>8. d[<<"value", (p + 4) + 1, (p + 4) + n>>]
  BY Zenon DEF Derived, n
<1>9. (p + 4) + n = y /\ p + 4 \in ((p + 1) + 2)..y /\ (p + 4) - 1 = p + 3
  BY <1>1, <1>4
<1> HIDE DEF y
<1>10. d[<<"member", p + 1, y>>]
  <2> DEFINE c == p + 4
             x == p + 1
  <2>1. /\ x \in 1..Len(t) /\ y \in 1..Len(t) /\ c \in (x + 2)..y /\ JsonString(t, x, c - 1)
        /\ t[c] = ":" /\ d[<<"value", c + 1, y>>]
    BY <1>4, <1>6, <1>7, <1>8, <1>9, Zenon
  <2> HIDE DEF c, x
  <2>2. d[<<"member", x, y>>]
    BY <2>1, MemberDerives
  <2> QED BY <2>2 DEF x
<1> QED BY <1>10, Zenon DEF Derived, y, z

\* A text with a sign before it and one behind it.
LEMMA EnclosedIs ==
  ASSUME NEW S, NEW left \in S, NEW right \in S, NEW s \in Seq(S)
  PROVE  /\ <<left>> \o s \o <<right>> \in Seq(S) /\ Len(<<left>> \o s \o <<right>>) = Len(s) + 2
         /\ Len(s) \in Nat
         /\ \A t, p : Len(t) \in Nat /\ Stands(t, p, <<left>> \o s \o <<right>>) =>
              t[p + 1] = left /\ t[p + (Len(s) + 2)] = right /\ Stands(t, p + 1, s)
<1> DEFINE a == <<left>>
           c == <<right>>
           u == a \o s
           z == u \o c
           n == Len(s)
<1>1. a \in Seq(S) /\ Len(a) = 1 /\ a[1] = left /\ c \in Seq(S) /\ Len(c) = 1 /\ c[1] = right /\ n \in Nat
  OBVIOUS
<1> HIDE DEF a, c, n
<1>2. u \in Seq(S) /\ Len(u) = 1 + n /\ Stands(u, 0, a) /\ Stands(u, 1, s)
  BY <1>1, PartsStand, Zenon DEF n
<1> HIDE DEF u
<1>3. z \in Seq(S) /\ Len(z) = (1 + n) + 1
  <2>1. u \o c \in Seq(S) /\ Len(u \o c) = Len(u) + Len(c)
    BY <1>1, <1>2, PartsStand, Zenon
  <2> QED BY <1>1, <1>2, <2>1, Zenon
<1>4. (1 + n) + 1 = n + 2
  BY <1>1
<1>5. ASSUME NEW t, NEW p, Len(t) \in Nat, Stands(t, p, z)
      PROVE  t[p + 1] = left /\ t[p + (n + 2)] = right /\ Stands(t, p + 1, s)
  <2>1. Stands(t, p, u) /\ Stands(t, p + Len(u), c)
    BY <1>1, <1>2, <1>5, BothStand
  <2>2. Stands(t, p, a) /\ Stands(t, p + 1, s)
    <3>1. Stands(t, p, a) /\ Stands(t, p + Len(a), s)
      BY <1>1, <1>5, <2>1, BothStand DEF u
    <3> QED BY <1>1, <3>1, Zenon
  <2>3. p \in Nat /\ 1 \in 1..1
    <3>1. p \in Nat
      BY <1>5, Zenon DEF Stands
    <3> QED BY <3>1
  <2>4. t[p + 1] = left /\ t[(p + (1 + n)) + 1] = right
    BY <1>1, <1>2, <2>1, <2>2, <2>3, Zenon DEF Stands
  <2>5. (p + (1 + n)) + 1 = p + (n + 2)
    BY <1>1, <2>3
  <2> QED BY <2>2, <2>4, <2>5, Zenon
<1> QED BY <1>1, <1>3, <1>4, <1>5, Zenon DEF z, u, a, c, n

\* Where a text stands between quotation marks, its string stands.
LEMMA StringStands ==
  ASSUME NEW S, Quote \in S, NEW x \in Seq(S), NEW t, NEW p \in Nat,
         (p + 2) + Len(x) <= Len(t), t[p + 1] = Quote, t[(p + 2) + Len(x)] = Quote,
         \A o \in 1..Len(x) : t[(p + 1) + o] = x[o]
  PROVE  Stands(t, p, String(x))
<1> DEFINE n == Len(x)
           z == String(x)
<1>1. /\ Len(z) = n + 2 /\ n \in Nat /\ z[1] = Quote /\ z[n + 2] = Quote /\ Stands(z, 1, x)
  BY StringIs, Zenon
<1>2. \A o \in 1..n : z[1 + o] = x[o]
  BY <1>1, Zenon DEF Stands
<1> HIDE DEF z
<1>3. (p + 2) + n <= Len(t) /\ t[(p + 2) + n] = Quote /\ \A o \in 1..n : t[(p + 1) + o] = x[o]
  OBVIOUS
<1> HIDE DEF n
<1>4. ASSUME NEW o \in 1..(n + 2) PROVE t[p + o] = z[o]
  <2>1. CASE o = 1
    BY <1>1, <2>1, Zenon
  <2>2. CASE o = n + 2
    <3>1. p + (n + 2) = (p + 2) + n
      BY <1>1
    <3> QED BY <1>1, <1>3, <2>2, <3>1, Zenon
  <2>3. CASE o # 1 /\ o # n + 2
    <3>1. o - 1 \in 1..n /\ 1 + (o - 1) = o /\ (p + 1) + (o - 1) = p + o
      BY <1>1, <2>3
    <3> QED BY <1>2, <1>3, <3>1, Zenon
  <2> QED BY <2>1, <2>2, <2>3
<1>5. p + (n + 2) <= Len(t)
  <2>1. p + (n + 2) = (p + 2) + n
    BY <1>1
  <2> QED BY <1>3, <2>1, Zenon
<1> QED BY <1>1, <1>4, <1>5, Zenon DEF Stands, z

\* The list of a person's stack.
BracketedStack(items) == <<"[">> \o StackText(items) \o <<"]">>

\* It is a value wherever it stands.
LEMMA StackDerives ==
  ASSUME NEW S, "[" \in S, "]" \in S, NEW items, ListOver(S, items),
         \A r \in 1..Len(items) : Unescaped(items[r]),
         NEW t, Len(t) \in Nat, NEW p, Stands(t, p, BracketedStack(items)), NEW d, Grammar(t, d)
  PROVE  /\ BracketedStack(items) \in Seq(S) /\ Len(BracketedStack(items)) >= 2
         /\ Derived(t, d, "value", p, BracketedStack(items))
<1> DEFINE s == StackText(items)
           z == BracketedStack(items)
           n == Len(items)
           x == p + 1
           y == p + (Len(s) + 2)
<1>1. s \in Seq(S) /\ Quote \in S
  BY StackTextIs, Zenon DEF ListOver
<1>2. /\ z \in Seq(S) /\ Len(z) = Len(s) + 2 /\ Len(s) \in Nat
      /\ t[x] = "[" /\ t[y] = "]" /\ Stands(t, x, s)
  <2> HIDE DEF s
  <2>1. z = <<"[">> \o s \o <<"]">>
    BY Zenon DEF BracketedStack, s
  <2> HIDE DEF z
  <2>2. Stands(t, p, <<"[">> \o s \o <<"]">>)
    BY <2>1, Zenon DEF z
  <2> QED BY <1>1, <2>1, <2>2, EnclosedIs
<1> HIDE DEF s, z
<1>3. x \in 1..Len(t) /\ y \in 1..Len(t) /\ x < y /\ p \in Nat
  <2>1. Len(z) \in Nat /\ Len(z) >= 2
    BY <1>2
  <2>2. p + 1 \in 1..Len(t) /\ p + Len(z) \in 1..Len(t) /\ p + 1 < p + Len(z) /\ p \in Nat
    BY <2>1, StretchEnds DEF z
  <2> QED BY <1>2, <2>2, Zenon
<1>4. y = x + 1 \/ d[<<"values", x + 1, y - 1>>]
  <2>1. CASE items = <<>>
    <3>1. Len(s) = 0
      BY <2>1 DEF StackText, s
    <3> QED BY <1>3, <3>1
  <2>2. CASE items # <<>>
    <3>1. n >= 1 /\ n \in Nat /\ \A r \in 1..n : items[r] \in Seq(S) /\ Len(items[r]) \in Nat
      <4>1. Len(items) >= 1
        BY <2>2, StackTextPlaces, Zenon
      <4> QED BY <4>1, Zenon DEF ListOver
    <3>2. PICK at : Listed(s, items, at)
      BY <2>2, StackTextPlaces, Zenon DEF s
    <3>3. \A r \in 1..n : Unescaped(items[r])
      OBVIOUS
    <3> HIDE DEF n
    <3>4. ASSUME NEW r \in 1..n
          PROVE  /\ at[r] \in Nat /\ at[r] + 2 + Len(items[r]) <= Len(s)
                 /\ s[at[r] + 1] = Quote /\ s[at[r] + 2 + Len(items[r])] = Quote
                 /\ \A o \in 1..Len(items[r]) : s[at[r] + 1 + o] = items[r][o]
                 /\ r = n => Len(s) = at[r] + 2 + Len(items[r])
                 /\ r # n => /\ at[r + 1] = at[r] + 3 + Len(items[r])
                             /\ s[at[r + 1]] = Comma /\ at[r + 1] < Len(s)
      BY <3>2, Zenon DEF Listed, n
    <3> DEFINE bt == [r \in 1..(n + 1) |-> x + (IF r = n + 1 THEN Len(s) + 1 ELSE at[r])]
    <3>5. \A r \in 1..n : bt[r] = x + at[r] /\ bt[n + 1] = x + (Len(s) + 1) /\ at[r] \in Nat
      <4>1. n + 1 \in 1..(n + 1) /\ \A r \in 1..n : r \in 1..(n + 1) /\ r # n + 1
        BY <3>1
      <4> QED BY <3>4, <4>1, Zenon
    <3>6. bt \in [1..(n + 1) -> Nat]
      <4>1. ASSUME NEW r \in 1..(n + 1) PROVE x + (IF r = n + 1 THEN Len(s) + 1 ELSE at[r]) \in Nat
        <5>1. r # n + 1 => r \in 1..n
          BY <3>1
        <5>2. r # n + 1 => at[r] \in Nat
          BY <3>4, <5>1, Zenon
        <5> QED BY <1>2, <1>3, <5>2
      <4> QED BY <4>1
    <3> HIDE DEF bt
    <3>7. ASSUME NEW r \in 1..n
          PROVE  /\ bt[r + 1] = bt[r] + (Len(items[r]) + 3)
                 /\ r # n => bt[r + 1] <= bt[n + 1] /\ t[bt[r + 1]] = Comma
      <4> DEFINE l == Len(items[r])
                 m == Len(s)
                 b == at[r]
      <4>1. /\ b \in Nat /\ l \in Nat /\ m \in Nat /\ x \in Nat
            /\ r = n => m = b + 2 + l
            /\ r # n => /\ at[r + 1] = b + 3 + l /\ s[at[r + 1]] = Comma /\ at[r + 1] < m
        <5>1. m \in Nat /\ x \in Nat
          BY <1>2, <1>3
        <5>2. /\ b \in Nat /\ l \in Nat
              /\ r = n => m = b + 2 + l
              /\ r # n => /\ at[r + 1] = b + 3 + l /\ s[at[r + 1]] = Comma /\ at[r + 1] < m
          BY <3>1, <3>4, Zenon
        <5> QED BY <5>1, <5>2, Zenon
      <4>2. bt[r] = x + b /\ bt[n + 1] = x + (m + 1) /\ (r # n => r + 1 \in 1..n)
        BY <3>1, <3>5
      <4>3. r # n => bt[r + 1] = x + at[r + 1]
        BY <3>5, <4>2, Zenon
      <4>4. \A o \in 1..m : t[x + o] = s[o]
        BY <1>2, Zenon DEF Stands
      <4> HIDE DEF l, m, b, x
      <4>5. CASE r = n
        <5>1. x + (m + 1) = (x + b) + (l + 3)
          BY <4>1, <4>5
        <5> QED BY <4>2, <4>5, <5>1, Zenon DEF l
      <4>6. CASE r # n
        <5>1. x + (b + 3 + l) = (x + b) + (l + 3) /\ b + 3 + l \in 1..m /\ x + (b + 3 + l) <= x + (m + 1)
          BY <4>1, <4>6
        <5>2. t[x + (b + 3 + l)] = Comma
          BY <4>1, <4>4, <4>6, <5>1, Zenon
        <5> QED BY <4>1, <4>2, <4>3, <4>6, <5>1, <5>2, Zenon DEF l
      <4> QED BY <4>5, <4>6
    <3>8. ASSUME NEW r \in 1..n PROVE d[<<"value", bt[r] + 1, bt[r + 1] - 1>>]
      <4> DEFINE item == items[r]
                 b == at[r]
      <4>1. /\ item \in Seq(S) /\ Len(item) \in Nat /\ Unescaped(item)
            /\ b \in Nat /\ s[b + 1] = Quote
            /\ b + 2 + Len(item) <= Len(s) /\ s[b + 2 + Len(item)] = Quote
            /\ \A o \in 1..Len(item) : s[b + 1 + o] = item[o]
        BY <3>1, <3>3, <3>4
      <4> HIDE DEF item, b
      <4>2. Stands(s, b, String(item))
        BY <1>1, <4>1, StringStands
      <4>3. Len(String(item)) = Len(item) + 2
        BY <1>1, <4>1, StringIs
      <4>4. Stands(t, x + b, String(item))
        <5>1. Len(String(item)) \in Nat
          BY <4>1, <4>3
        <5> QED BY <1>2, <4>2, <5>1, StandsInside
      <4>5. Derived(t, d, "value", x + b, String(item))
        BY <1>1, <4>1, <4>4, StringValue
      <4>6. d[<<"value", (x + b) + 1, (x + b) + (Len(item) + 2)>>]
        BY <4>3, <4>5, Zenon DEF Derived
      <4>7. bt[r] = x + b /\ bt[r + 1] = (x + b) + (Len(item) + 3)
        BY <3>5, <3>7, Zenon DEF item, b
      <4>8. ((x + b) + (Len(item) + 3)) - 1 = (x + b) + (Len(item) + 2)
        BY <1>3, <4>1
      <4> QED BY <4>6, <4>7, <4>8, Zenon
    <3>9. ElementOf("values") = "value" /\ Comma = ","
      BY CharactersAreLexemes DEF ElementOf
    <3>10. bt[1] = x /\ bt[n + 1] = y
      <4>1. at[1] = 0 /\ 1 \in 1..n
        BY <3>1, <3>2 DEF Listed
      <4>2. bt[1] = x + 0 /\ bt[n + 1] = x + (Len(s) + 1)
        BY <3>5, <4>1, Zenon
      <4>3. x + 0 = x /\ x + (Len(s) + 1) = y
        BY <1>2, <1>3
      <4> QED BY <4>2, <4>3, Zenon
    <3>11. ASSUME NEW r \in 1..n PROVE bt[r] < bt[r + 1] /\ bt[r + 1] <= bt[n + 1]
      <4>1. bt[r] \in Nat /\ Len(items[r]) \in Nat /\ bt[r + 1] = bt[r] + (Len(items[r]) + 3)
        <5>1. r \in 1..(n + 1)
          BY <3>1
        <5> QED BY <3>1, <3>6, <3>7, <5>1
      <4>2. \A i, j \in Nat : i < i + (j + 3) /\ i + (j + 3) <= i + (j + 3) /\ i + (j + 3) \in Nat
        OBVIOUS
      <4>3. bt[r] < bt[r + 1]
        BY <4>1, <4>2, Zenon
      <4>4. CASE r = n
        <5>1. bt[r + 1] \in Nat
          BY <4>1, <4>2, Zenon
        <5>2. bt[r + 1] <= bt[r + 1]
          BY <5>1
        <5> QED BY <4>3, <4>4, <5>2, Zenon
      <4>5. CASE r # n
        <5>1. bt[r + 1] <= bt[n + 1]
          BY <3>7, <4>5, Zenon
        <5> QED BY <4>3, <5>1, Zenon
      <4> QED BY <4>4, <4>5, Zenon
    <3>12. bt[n + 1] <= Len(t) + 1
      BY <1>3, <3>10
    <3>13. Elements(t, d, "values", n, bt)
      BY <3>6, <3>7, <3>8, <3>9, <3>11, <3>12, Zenon DEF Elements
    <3>14. d[<<"values", bt[1] + 1, bt[n + 1] - 1>>]
      <4>1. "values" \in {"values", "members"}
        OBVIOUS
      <4> QED BY <3>1, <3>13, <4>1, JoinedDerives
    <3> QED BY <3>10, <3>14, Zenon
  <2> QED BY <2>1, <2>2
<1>5. d[<<"value", x, y>>]
  <2>1. <<"[", "]", "values">> \in Brackets
    BY DEF Brackets
  <2> HIDE DEF x, y
  <2>2. t[x] = "[" /\ t[y] = "]"
    BY <1>2
  <2> QED BY <1>3, <1>4, <2>1, <2>2, BracketedDerives
<1>6. Derived(t, d, "value", p, z)
  BY <1>2, <1>5, Zenon DEF Derived, z
<1>7. Len(z) >= 2
  BY <1>2
<1> QED BY <1>2, <1>6, <1>7, Zenon DEF z

-----------------------------------------------------------------------------
(* The members of a person.                                                *)

\* The part and the sign that follow a text.
LEMMA PartAndSign ==
  ASSUME NEW S, NEW u \in Seq(S), NEW m \in Seq(S), NEW c \in S
  PROVE  /\ u \o m \o <<c>> \in Seq(S) /\ Len(u \o m \o <<c>>) = Len(u) + (Len(m) + 1)
         /\ \A t, p : Len(t) \in Nat /\ Stands(t, p, u \o m \o <<c>>) =>
              /\ Stands(t, p, u) /\ Stands(t, p + Len(u), m)
              /\ t[p + (Len(u) + (Len(m) + 1))] = c
<1> DEFINE e == <<c>>
           v == u \o m
           w == v \o e
<1>1. e \in Seq(S) /\ Len(e) = 1 /\ e[1] = c /\ Len(u) \in Nat /\ Len(m) \in Nat
  OBVIOUS
<1> HIDE DEF e
<1>2. v \in Seq(S) /\ Len(v) = Len(u) + Len(m)
  BY PartsStand, Zenon
<1> HIDE DEF v
<1>3. w \in Seq(S) /\ Len(w) = Len(v) + Len(e)
  BY <1>1, <1>2, PartsStand, Zenon
<1>4. Len(w) = Len(u) + (Len(m) + 1)
  <2> HIDE DEF w
  <2> QED BY <1>1, <1>2, <1>3
<1>5. ASSUME NEW t, NEW p, Len(t) \in Nat, Stands(t, p, w)
      PROVE  /\ Stands(t, p, u) /\ Stands(t, p + Len(u), m)
             /\ t[p + (Len(u) + (Len(m) + 1))] = c
  <2>1. Stands(t, p, v) /\ Stands(t, p + Len(v), e)
    BY <1>1, <1>2, <1>5, BothStand
  <2>2. Stands(t, p, u) /\ Stands(t, p + Len(u), m)
    BY <1>5, <2>1, BothStand DEF v
  <2>3. p \in Nat
    BY <1>5, Zenon DEF Stands
  <2>4. 1 \in 1..1 /\ (p + Len(v)) + 1 = p + (Len(u) + (Len(m) + 1))
    BY <1>1, <1>2, <2>3
  <2>5. t[(p + Len(v)) + 1] = c
    BY <1>1, <2>1, <2>4, Zenon DEF Stands
  <2> QED BY <2>2, <2>4, <2>5, Zenon
<1> QED BY <1>3, <1>4, <1>5, Zenon DEF w, v, e

\* A text that is a member wherever it stands.
MemberText(S, t, d, m) ==
  m \in Seq(S) /\ \A p : Stands(t, p, m) => Derived(t, d, "member", p, m)

\* One member after the other, each with the sign that follows it.
Chain(S, t, d, p, u, m, c, w) ==
  /\ u \in Seq(S) /\ MemberText(S, t, d, m) /\ w = u \o m \o <<c>> /\ w \in Seq(S)
  /\ Stands(t, p, u) /\ Len(u) \in Nat /\ Len(m) \in Nat /\ Len(w) = Len(u) + (Len(m) + 1)
  /\ d[<<"member", (p + Len(u)) + 1, (p + Len(u)) + Len(m)>>] /\ t[p + Len(w)] = c

\* A text that ends in a member and its sign is one more step of a chain.
LEMMA ChainIs ==
  ASSUME NEW S, NEW u \in Seq(S), NEW m, NEW c \in S, NEW t, Len(t) \in Nat, NEW d, NEW p,
         MemberText(S, t, d, m), NEW w, w = u \o m \o <<c>>, Stands(t, p, w)
  PROVE  Chain(S, t, d, p, u, m, c, w)
<1>1. m \in Seq(S)
  BY Zenon DEF MemberText
<1>2. /\ w \in Seq(S) /\ Len(w) = Len(u) + (Len(m) + 1)
      /\ Stands(t, p, u) /\ Stands(t, p + Len(u), m) /\ t[p + (Len(u) + (Len(m) + 1))] = c
  BY <1>1, PartAndSign
<1>3. Derived(t, d, "member", p + Len(u), m)
  BY <1>2, Zenon DEF MemberText
<1>4. Len(u) \in Nat /\ Len(m) \in Nat
  BY <1>1
<1> QED BY <1>2, <1>3, <1>4, Zenon DEF Chain, Derived

\* A list with its signs between brackets is a value.
LEMMA EnclosedList ==
  ASSUME NEW t, Len(t) \in Nat, NEW d, Grammar(t, d), NEW left, NEW right, NEW all,
         <<left, right, all>> \in Brackets, NEW n \in Nat, n >= 1, NEW at, Elements(t, d, all, n, at),
         at[1] >= 1, at[n + 1] <= Len(t), t[at[1]] = left, t[at[n + 1]] = right
  PROVE  d[<<"value", at[1], at[n + 1]>>]
<1> DEFINE x == at[1]
           y == at[n + 1]
<1>1. x \in Nat /\ y \in Nat /\ x < y
  <2>1. 1 \in 1..n /\ 1 + 1 = 2 /\ 1 \in 1..(n + 1) /\ 2 \in 1..(n + 1) /\ n + 1 \in 1..(n + 1)
    OBVIOUS
  <2>2. /\ at[1] \in Nat /\ at[2] \in Nat /\ y \in Nat /\ at[1] < at[2] /\ at[2] <= y
    BY <2>1, Zenon DEF Elements
  <2> DEFINE z == at[2]
  <2> HIDE DEF x, y, z
  <2>3. x \in Nat /\ z \in Nat /\ y \in Nat /\ x < z /\ z <= y
    BY <2>2, Zenon DEF x, z
  <2> QED BY <2>3
<1>2. all \in {"values", "members"}
  BY DEF Brackets
<1>3. d[<<all, x + 1, y - 1>>]
  BY <1>2, JoinedDerives
<1> HIDE DEF x, y
<1>4. x \in 1..Len(t) /\ y \in 1..Len(t)
  <2>1. x >= 1 /\ y <= Len(t)
    BY Zenon DEF x, y
  <2> QED BY <1>1, <2>1
<1>5. t[x] = left /\ t[y] = right
  BY Zenon DEF x, y
<1>6. d[<<"value", x, y>>]
  BY <1>1, <1>3, <1>4, <1>5, BracketedDerives
<1> QED BY <1>6 DEF x, y

\* A member between two places, with a sign at the second one.
MemberTo(t, d, x, c, y) ==
  x \in Nat /\ y \in Nat /\ x < y /\ t[y] = c /\ d[<<"member", x + 1, y - 1>>]

FiveFrom(t, d, x, y) == \E at : Elements(t, d, "members", 5, at) /\ at[1] = x /\ at[6] = y

\* Where five members are, when their commas are here.
LEMMA FivePlaces ==
  ASSUME NEW t, Len(t) \in Nat, NEW d, NEW u, NEW v, NEW w, NEW x, NEW y, NEW z, NEW right,
         MemberTo(t, d, u, Comma, v), MemberTo(t, d, v, Comma, w), MemberTo(t, d, w, Comma, x),
         MemberTo(t, d, x, Comma, y), MemberTo(t, d, y, right, z), z <= Len(t)
  PROVE  FiveFrom(t, d, u, z)
<1> DEFINE at == [r \in 1..6 |-> IF r = 1 THEN u ELSE IF r = 2 THEN v ELSE IF r = 3 THEN w
                                  ELSE IF r = 4 THEN x ELSE IF r = 5 THEN y ELSE z]
<1>1. /\ u \in Nat /\ v \in Nat /\ w \in Nat /\ x \in Nat /\ y \in Nat /\ z \in Nat
      /\ u < v /\ v < w /\ w < x /\ x < y /\ y < z
  BY Zenon DEF MemberTo
<1>2. /\ at[1] = u /\ at[2] = v /\ at[3] = w /\ at[4] = x /\ at[5] = y /\ at[6] = z
      /\ at \in [1..6 -> Nat]
  BY <1>1
<1> HIDE DEF at
<1>3. ElementOf("members") = "member"
  BY DEF ElementOf
<1>4. ASSUME NEW r \in 1..5
      PROVE  /\ at[r] < at[r + 1] /\ at[r + 1] <= at[6]
             /\ d[<<"member", at[r] + 1, at[r + 1] - 1>>]
             /\ r # 5 => t[at[r + 1]] = Comma
  <2>1. /\ 1 + 1 = 2 /\ 2 + 1 = 3 /\ 3 + 1 = 4 /\ 4 + 1 = 5 /\ 5 + 1 = 6 /\ 5 # 1
        /\ v <= z /\ w <= z /\ x <= z /\ y <= z /\ z <= z
    BY <1>1
  <2>2. CASE r = 1
    BY <1>2, <2>1, <2>2, Zenon DEF MemberTo
  <2>3. CASE r = 2
    BY <1>2, <2>1, <2>3, Zenon DEF MemberTo
  <2>4. CASE r = 3
    BY <1>2, <2>1, <2>4, Zenon DEF MemberTo
  <2>5. CASE r = 4
    BY <1>2, <2>1, <2>5, Zenon DEF MemberTo
  <2>6. CASE r = 5
    BY <1>2, <2>1, <2>6, Zenon DEF MemberTo
  <2>7. r = 1 \/ r = 2 \/ r = 3 \/ r = 4 \/ r = 5
    OBVIOUS
  <2> QED BY <2>2, <2>3, <2>4, <2>5, <2>6, <2>7, Zenon
<1>5. 5 + 1 = 6 /\ at[6] <= Len(t) + 1
  BY <1>1, <1>2
<1>6. Elements(t, d, "members", 5, at)
  BY <1>2, <1>3, <1>4, <1>5, CharactersAreLexemes, Zenon DEF Elements
<1> QED BY <1>2, <1>6, Zenon DEF FiveFrom

Left == "{"
Right == "}"
FiveText(textA, textB, textC, textD, textE) ==
  <<Left>> \o textA \o <<Comma>> \o textB \o <<Comma>> \o textC \o <<Comma>> \o textD \o <<Comma>>
  \o textE \o <<Right>>

\* Where a member in a chain begins and ends.
LEMMA ChainPlaces ==
  ASSUME NEW S, NEW t, NEW d, NEW p \in Nat, NEW u, NEW m, NEW c, NEW w, Chain(S, t, d, p, u, m, c, w)
  PROVE  MemberTo(t, d, p + Len(u), c, p + Len(w))
<1> DEFINE r == Len(u)
           n == Len(m)
           l == Len(w)
<1>1. r \in Nat /\ n \in Nat /\ l = r + (n + 1) /\ t[p + l] = c
      /\ d[<<"member", (p + r) + 1, (p + r) + n>>]
  BY Zenon DEF Chain
<1> HIDE DEF r, n, l
<1>2. (p + r) + n = (p + l) - 1 /\ p + r \in Nat /\ p + l \in Nat /\ p + r < p + l
  BY <1>1
<1>3. MemberTo(t, d, p + r, c, p + l)
  BY <1>1, <1>2, Zenon DEF MemberTo
<1> QED BY <1>3 DEF r, l

\* Five members in braces are an object.
LEMMA FiveMembers ==
  ASSUME NEW S, Left \in S, Right \in S, Comma \in S, NEW t, Len(t) \in Nat, NEW d, Grammar(t, d),
         NEW textA, MemberText(S, t, d, textA), NEW textB, MemberText(S, t, d, textB),
         NEW textC, MemberText(S, t, d, textC), NEW textD, MemberText(S, t, d, textD),
         NEW textE, MemberText(S, t, d, textE), NEW p, Stands(t, p, FiveText(textA, textB, textC, textD, textE))
  PROVE  Derived(t, d, "value", p, FiveText(textA, textB, textC, textD, textE))
<1> DEFINE wA == <<Left>>
           wB == wA \o textA \o <<Comma>>
           wC == wB \o textB \o <<Comma>>
           wD == wC \o textC \o <<Comma>>
           wE == wD \o textD \o <<Comma>>
           wF == wE \o textE \o <<Right>>
<1>1. FiveText(textA, textB, textC, textD, textE) = wF
  BY Zenon DEF FiveText
<1>2. wA \in Seq(S) /\ Len(wA) = 1 /\ wA[1] = Left
  OBVIOUS
<1>3. /\ textA \in Seq(S) /\ textB \in Seq(S) /\ textC \in Seq(S) /\ textD \in Seq(S) /\ textE \in Seq(S)
  BY Zenon DEF MemberText
<1> HIDE DEF wA
<1>4. wB \in Seq(S)
  BY <1>2, <1>3, PartAndSign, Zenon
<1> HIDE DEF wB
<1>5. wC \in Seq(S)
  BY <1>3, <1>4, PartAndSign, Zenon
<1> HIDE DEF wC
<1>6. wD \in Seq(S)
  BY <1>3, <1>5, PartAndSign, Zenon
<1> HIDE DEF wD
<1>7. wE \in Seq(S)
  BY <1>3, <1>6, PartAndSign, Zenon
<1> HIDE DEF wE
<1>8. Chain(S, t, d, p, wE, textE, Right, wF)
  BY <1>1, <1>7, ChainIs, Zenon
<1> HIDE DEF wF
<1>9. Chain(S, t, d, p, wD, textD, Comma, wE)
  <2>1. Stands(t, p, wE)
    BY <1>8, Zenon DEF Chain
  <2> QED BY <1>6, <2>1, ChainIs, Zenon DEF wE
<1>10. Chain(S, t, d, p, wC, textC, Comma, wD)
  <2>1. Stands(t, p, wD)
    BY <1>9, Zenon DEF Chain
  <2> QED BY <1>5, <2>1, ChainIs, Zenon DEF wD
<1>11. Chain(S, t, d, p, wB, textB, Comma, wC)
  <2>1. Stands(t, p, wC)
    BY <1>10, Zenon DEF Chain
  <2> QED BY <1>4, <2>1, ChainIs, Zenon DEF wC
<1>12. Chain(S, t, d, p, wA, textA, Comma, wB)
  <2>1. Stands(t, p, wB)
    BY <1>11, Zenon DEF Chain
  <2> QED BY <1>2, <2>1, ChainIs, Zenon DEF wB
<1>13. Stands(t, p, wA) /\ Stands(t, p, wF) /\ p \in Nat /\ p + Len(wF) <= Len(t)
  BY <1>1, <1>12, Zenon DEF Chain, Stands
<1> DEFINE atA == p + Len(wA)
           atB == p + Len(wB)
           atC == p + Len(wC)
           atD == p + Len(wD)
           atE == p + Len(wE)
           atF == p + Len(wF)
<1>14. MemberTo(t, d, atE, Right, atF)
  BY <1>8, <1>13, ChainPlaces, Zenon
<1>15. MemberTo(t, d, atD, Comma, atE)
  BY <1>9, <1>13, ChainPlaces, Zenon
<1>16. MemberTo(t, d, atC, Comma, atD)
  BY <1>10, <1>13, ChainPlaces, Zenon
<1>17. MemberTo(t, d, atB, Comma, atC)
  BY <1>11, <1>13, ChainPlaces, Zenon
<1>18. MemberTo(t, d, atA, Comma, atB)
  BY <1>12, <1>13, ChainPlaces, Zenon
<1>19. atA = p + 1 /\ t[p + 1] = Left
  <2>1. 1 \in 1..1
    OBVIOUS
  <2> QED BY <1>2, <1>13, <2>1, Zenon DEF Stands
<1>20. atF <= Len(t) /\ atA >= 1
  BY <1>13, <1>19
<1> HIDE DEF atA, atB, atC, atD, atE, atF
<1>21. PICK at : Elements(t, d, "members", 5, at) /\ at[1] = atA /\ at[6] = atF
  <2>1. FiveFrom(t, d, atA, atF)
    BY <1>14, <1>15, <1>16, <1>17, <1>18, <1>20, FivePlaces
  <2> QED BY <2>1, Zenon DEF FiveFrom
<1>22. d[<<"value", atA, atF>>]
  <2>1. 5 \in Nat /\ 5 >= 1 /\ 5 + 1 = 6
    OBVIOUS
  <2>4. <<Left, Right, "members">> \in Brackets
    BY Zenon DEF Brackets, Left, Right
  <2>2. /\ at[1] >= 1 /\ at[5 + 1] <= Len(t) /\ t[at[1]] = Left /\ t[at[5 + 1]] = Right
    BY <1>14, <1>19, <1>20, <1>21, <2>1, Zenon DEF MemberTo
  <2>3. d[<<"value", at[1], at[5 + 1]>>]
    BY <1>21, <2>1, <2>2, <2>4, EnclosedList
  <2> QED BY <1>21, <2>1, <2>3, Zenon
<1> QED BY <1>1, <1>13, <1>19, <1>22, Zenon DEF Derived, atF

\* What a person is printed with.
Signs == {"{", "}", "[", "]", ":", "uuid", "id", "apelido", "nome", "nascimento", "stack", Quote, Comma}

\* A person without a character that JSON wants to be escaped.
ClearText(S, x) == x \in Seq(S) /\ Unescaped(x)
ClearItems(S, items) == ListOver(S, items) /\ \A r \in 1..Len(items) : Unescaped(items[r])
ClearPerson(S, q) ==
  /\ ClearText(S, q.apelido) /\ ClearText(S, q.nome) /\ ClearText(S, q.nascimento)
  /\ \E items : ClearItems(S, items) /\ q.stack = StackText(items)

\* None of the names of the fields needs an escape.
LEMMA KeysAreClear ==
  ASSUME NEW key \in {"uuid", "id", "apelido", "nome", "nascimento", "stack"}
  PROVE  key \notin Special
<1>1. Quote = "quote"
  BY CharactersAreLexemes, Zenon
<1> QED BY <1>1 DEF Escaped, Special

\* A member with a string is a member wherever it stands.
LEMMA TextMember ==
  ASSUME NEW S, Quote \in S, ":" \in S, NEW key \in S, key \notin Special, NEW x, ClearText(S, x),
         NEW t, Len(t) \in Nat, NEW d, Grammar(t, d)
  PROVE  MemberText(S, t, d, Member(key, String(x)))
<1> DEFINE z == String(x)
<1>1. x \in Seq(S) /\ Unescaped(x)
  BY Zenon DEF ClearText
<1>2. z \in Seq(S) /\ Len(z) = Len(x) + 2 /\ Len(x) \in Nat
  BY <1>1, StringIs, Zenon
<1>3. ASSUME NEW p, Stands(t, p, z) PROVE Derived(t, d, "value", p, z)
  BY <1>1, <1>3, StringValue, Zenon
<1> HIDE DEF z
<1>4. Len(z) >= 1
  BY <1>2
<1>5. /\ Member(key, z) \in Seq(S) /\ Stands(Member(key, z), 4, z)
      /\ Len(Member(key, z)) \in Nat /\ Len(z) \in Nat
  <2>1. /\ Member(key, z) \in Seq(S) /\ Len(Member(key, z)) = 4 + Len(z) /\ Len(z) \in Nat
        /\ Stands(Member(key, z), 4, z)
    BY <1>2, MemberIs, Zenon
  <2> DEFINE n == Len(Member(key, z))
  <2> HIDE DEF n
  <2>2. n = 4 + Len(z)
    BY <2>1, Zenon DEF n
  <2>3. n \in Nat
    <3> DEFINE l == Len(z)
    <3>1. l \in Nat /\ n = 4 + l
      BY <2>1, <2>2, Zenon
    <3> HIDE DEF l
    <3> QED BY <3>1
  <2> QED BY <2>1, <2>3, Zenon DEF n
<1>6. ASSUME NEW p, Stands(t, p, Member(key, z)) PROVE Derived(t, d, "member", p, Member(key, z))
  <2>1. Stands(t, p + 4, z)
    BY <1>5, <1>6, StandsInside, Zenon
  <2>2. Derived(t, d, "value", p + 4, z)
    BY <1>3, <2>1, Zenon
  <2> QED BY <1>2, <1>4, <1>6, <2>2, MemberHere, Zenon
<1> QED BY <1>5, <1>6, Zenon DEF MemberText, z

\* So is a member with the list of a stack.
LEMMA StackMember ==
  ASSUME NEW S, Signs \subseteq S, NEW items, ClearItems(S, items),
         NEW t, Len(t) \in Nat, NEW d, Grammar(t, d)
  PROVE  MemberText(S, t, d, Member("stack", BracketedStack(items)))
<1> DEFINE z == BracketedStack(items)
           key == "stack"
<1>1. Quote \in S /\ ":" \in S /\ key \in S /\ "[" \in S /\ "]" \in S
  BY Zenon DEF Signs
<1>2. ListOver(S, items) /\ (\A r \in 1..Len(items) : Unescaped(items[r])) /\ key \notin Special
  BY KeysAreClear, Zenon DEF ClearItems
<1>3. z \in Seq(S) /\ Len(z) >= 2
  <2> DEFINE e == <<"[">>
             f == <<"]">>
             s == StackText(items)
  <2>1. s \in Seq(S)
    BY <1>2, StackTextIs, Zenon DEF ListOver
  <2>2. e \o s \o f \in Seq(S) /\ Len(e \o s \o f) = Len(s) + 2 /\ Len(s) \in Nat
    <3> DEFINE left == "["
               right == "]"
    <3>1. left \in S /\ right \in S
      BY <1>1, Zenon
    <3> HIDE DEF s, left, right
    <3>2. /\ <<left>> \o s \o <<right>> \in Seq(S)
          /\ Len(<<left>> \o s \o <<right>>) = Len(s) + 2 /\ Len(s) \in Nat
      BY <2>1, <3>1, EnclosedIs
    <3> QED BY <3>2, Zenon DEF left, right
  <2>3. z = e \o s \o f
    BY Zenon DEF BracketedStack
  <2> HIDE DEF e, f, s, z
  <2>4. z \in Seq(S) /\ Len(z) = Len(s) + 2 /\ Len(s) \in Nat
    BY <2>2, <2>3, Zenon
  <2>5. Len(z) >= 2
    BY <2>4
  <2> QED BY <2>4, <2>5, Zenon
<1>4. ASSUME NEW p, Stands(t, p, z) PROVE Derived(t, d, "value", p, z)
  BY <1>1, <1>2, <1>4, StackDerives, Zenon
<1> HIDE DEF z, key
<1>5. Len(z) >= 1 /\ Len(z) \in Nat
  BY <1>3
<1>6. /\ Member(key, z) \in Seq(S) /\ Stands(Member(key, z), 4, z)
      /\ Len(Member(key, z)) \in Nat /\ Len(z) \in Nat
  <2>1. /\ Member(key, z) \in Seq(S) /\ Len(Member(key, z)) = 4 + Len(z) /\ Len(z) \in Nat
        /\ Stands(Member(key, z), 4, z)
    BY <1>1, <1>3, MemberIs, Zenon
  <2> DEFINE n == Len(Member(key, z))
             l == Len(z)
  <2>2. l \in Nat /\ n = 4 + l
    BY <2>1, Zenon
  <2> HIDE DEF n, l
  <2>3. n \in Nat
    BY <2>2
  <2> QED BY <2>1, <2>3, Zenon DEF n
<1>7. ASSUME NEW p, Stands(t, p, Member(key, z)) PROVE Derived(t, d, "member", p, Member(key, z))
  <2>1. Stands(t, p + 4, z)
    BY <1>6, <1>7, StandsInside, Zenon
  <2>2. Derived(t, d, "value", p + 4, z)
    BY <1>4, <2>1, Zenon
  <2> QED BY <1>1, <1>2, <1>3, <1>5, <1>7, <2>2, MemberHere, Zenon
<1> QED BY <1>6, <1>7, Zenon DEF MemberText, z, key

\* The five members of a person.
LEMMA PersonMembers ==
  ASSUME NEW S, Signs \subseteq S, NEW q, ClearPerson(S, q), NEW t, Len(t) \in Nat, NEW d, Grammar(t, d)
  PROVE  /\ MemberText(S, t, d, Member("id", String(<<"uuid">>)))
         /\ MemberText(S, t, d, Member("apelido", String(q.apelido)))
         /\ MemberText(S, t, d, Member("nome", String(q.nome)))
         /\ MemberText(S, t, d, Member("nascimento", String(q.nascimento)))
         /\ MemberText(S, t, d, Member("stack", <<"[">> \o q.stack \o <<"]">>))
<1>1. /\ Quote \in S /\ ":" \in S /\ "uuid" \in S
      /\ \A key \in {"id", "apelido", "nome", "nascimento", "stack"} : key \in S
  BY Zenon DEF Signs
<1>2. \A key \in {"id", "apelido", "nome", "nascimento"} : key \notin Special
  BY KeysAreClear
<1>3. ClearText(S, <<"uuid">>)
  <2>1. "uuid" \notin Special
    BY KeysAreClear
  <2>2. <<"uuid">> \in Seq(S) /\ Range(<<"uuid">>) \subseteq {"uuid"}
    <3>1. "uuid" \in S
      BY <1>1
    <3> QED BY <3>1 DEF Range
  <2>3. Unescaped(<<"uuid">>)
    BY <2>1, <2>2, UnescapedIs, Zenon
  <2> QED BY <2>2, <2>3, Zenon DEF ClearText
<1>4. ClearText(S, q.apelido) /\ ClearText(S, q.nome) /\ ClearText(S, q.nascimento)
  BY Zenon DEF ClearPerson
<1>5. PICK items : ClearItems(S, items) /\ q.stack = StackText(items)
  BY Zenon DEF ClearPerson
<1>6. MemberText(S, t, d, Member("stack", BracketedStack(items)))
  BY <1>5, StackMember
<1>7. MemberText(S, t, d, Member("stack", <<"[">> \o q.stack \o <<"]">>))
  BY <1>5, <1>6, Zenon DEF BracketedStack
<1>8. \A key \in {"id", "apelido", "nome", "nascimento"} : \A x :
        ClearText(S, x) => MemberText(S, t, d, Member(key, String(x)))
  <2> TAKE key \in {"id", "apelido", "nome", "nascimento"}
  <2>1. key \in S /\ key \notin Special
    BY <1>1, <1>2, Zenon
  <2> QED BY <1>1, <2>1, TextMember, Zenon
<1>9. "id" \in {"id", "apelido", "nome", "nascimento"} /\ "apelido" \in {"id", "apelido", "nome", "nascimento"}
      /\ "nome" \in {"id", "apelido", "nome", "nascimento"}
      /\ "nascimento" \in {"id", "apelido", "nome", "nascimento"}
  OBVIOUS
<1> QED BY <1>3, <1>4, <1>7, <1>8, <1>9, Zenon

\* Five members in braces are a text of their characters.
LEMMA FiveIs ==
  ASSUME NEW S, Left \in S, Right \in S, Comma \in S, NEW ma \in Seq(S), NEW mb \in Seq(S),
         NEW mc \in Seq(S), NEW md \in Seq(S), NEW me \in Seq(S)
  PROVE  FiveText(ma, mb, mc, md, me) \in Seq(S)
<1> DEFINE wa == <<Left>>
           wb == wa \o ma \o <<Comma>>
           wc == wb \o mb \o <<Comma>>
           wd == wc \o mc \o <<Comma>>
           we == wd \o md \o <<Comma>>
           wf == we \o me \o <<Right>>
<1>1. wa \in Seq(S)
  OBVIOUS
<1> HIDE DEF wa
<1>2. wb \in Seq(S)
  BY <1>1, PartAndSign, Zenon
<1> HIDE DEF wb
<1>3. wc \in Seq(S)
  BY <1>2, PartAndSign, Zenon
<1> HIDE DEF wc
<1>4. wd \in Seq(S)
  BY <1>3, PartAndSign, Zenon
<1> HIDE DEF wd
<1>5. we \in Seq(S)
  BY <1>4, PartAndSign, Zenon
<1> HIDE DEF we
<1>6. wf \in Seq(S)
  BY <1>5, PartAndSign, Zenon
<1> QED BY <1>6, Zenon DEF FiveText, wa, wb, wc, wd, we

\* A person is an object wherever it stands.
LEMMA PersonDerives ==
  ASSUME NEW S, Signs \subseteq S, NEW q, ClearPerson(S, q), NEW t, Len(t) \in Nat, NEW d, Grammar(t, d)
  PROVE  /\ PersonText(q) \in Seq(S)
         /\ \A p : Stands(t, p, PersonText(q)) => Derived(t, d, "value", p, PersonText(q))
<1> DEFINE ma == Member("id", String(<<"uuid">>))
           mb == Member("apelido", String(q.apelido))
           mc == Member("nome", String(q.nome))
           md == Member("nascimento", String(q.nascimento))
           me == Member("stack", <<"[">> \o q.stack \o <<"]">>)
<1>1. PersonText(q) = FiveText(ma, mb, mc, md, me)
  BY Zenon DEF PersonText, FiveText, Left, Right
<1>2. /\ MemberText(S, t, d, ma) /\ MemberText(S, t, d, mb) /\ MemberText(S, t, d, mc)
      /\ MemberText(S, t, d, md) /\ MemberText(S, t, d, me)
  BY PersonMembers, Zenon
<1> HIDE DEF ma, mb, mc, md, me
<1>3. Left \in S /\ Right \in S /\ Comma \in S
  BY Zenon DEF Signs, Left, Right
<1>4. FiveText(ma, mb, mc, md, me) \in Seq(S)
  <2>1. ma \in Seq(S) /\ mb \in Seq(S) /\ mc \in Seq(S) /\ md \in Seq(S) /\ me \in Seq(S)
    BY <1>2, Zenon DEF MemberText
  <2> QED BY <1>3, <2>1, FiveIs, Zenon
<1>5. ASSUME NEW p, Stands(t, p, FiveText(ma, mb, mc, md, me))
      PROVE  Derived(t, d, "value", p, FiveText(ma, mb, mc, md, me))
  BY <1>2, <1>3, <1>5, FiveMembers, Zenon
<1> QED BY <1>1, <1>4, <1>5, Zenon

\* A text of a clear person has the characters it may have.
LEMMA PersonIs ==
  ASSUME NEW S, Signs \subseteq S, NEW q, ClearPerson(S, q)
  PROVE  PersonText(q) \in Seq(S) /\ Len(PersonText(q)) \in Nat
<1> DEFINE t == <<>>
<1>1. Len(t) \in Nat
  OBVIOUS
<1> HIDE DEF t
<1>2. PICK d : Grammar(t, d)
  BY <1>1, GrammarExists
<1>3. PersonText(q) \in Seq(S)
  BY <1>1, <1>2, PersonDerives
<1> HIDE DEF t
<1> DEFINE z == PersonText(q)
<1> HIDE DEF z
<1>4. z \in Seq(S)
  BY <1>3, Zenon DEF z
<1>5. z \in Seq(S) /\ Len(z) \in Nat
  BY <1>4
<1> QED BY <1>5, Zenon DEF z

\* The body of an answer to a lookup is JSON.
LEMMA PersonIsJson ==
  ASSUME NEW S, Signs \subseteq S, NEW q, ClearPerson(S, q)
  PROVE  IsJson(PersonText(q))
<1> DEFINE t == PersonText(q)
<1>1. t \in Seq(S) /\ Len(t) \in Nat
  BY PersonIs
<1> HIDE DEF t
<1>2. PICK d : Grammar(t, d) /\ (d[<<"value", 1, Len(t)>>] => IsJson(t))
  BY <1>1, GrammarExists
<1>3. Stands(t, 0, t)
  <2> DEFINE n == Len(t)
  <2>1. n \in Nat
    BY <1>1, Zenon
  <2> HIDE DEF n
  <2>2. 0 \in Nat /\ 0 + n <= n /\ \A o \in 1..n : 0 + o = o
    BY <2>1
  <2>3. \A o \in 1..n : t[0 + o] = t[o]
    BY <2>2, Zenon
  <2> QED BY <2>2, <2>3, Zenon DEF Stands, n
<1>4. Derived(t, d, "value", 0, t)
  BY <1>1, <1>2, <1>3, PersonDerives, Zenon DEF t
<1>5. 0 + 1 = 1 /\ 0 + Len(t) = Len(t)
  BY <1>1
<1> QED BY <1>2, <1>4, <1>5, Zenon DEF Derived, t

-----------------------------------------------------------------------------
(* The text of a list.                                                     *)

Open == "["
Close == "]"

\* Texts one behind the other in brackets, with a comma between two of them.
Spread(S, t, zs, n, at) ==
  /\ t \in Seq(S) /\ Len(t) \in Nat /\ at \in [1..(n + 1) -> Nat]
  /\ at[1] = 1 /\ at[n + 1] = Len(t) /\ t[1] = Open /\ t[Len(t)] = Close
  /\ \A r \in 1..n : /\ at[r + 1] = at[r] + (Len(zs[r]) + 1) /\ at[r + 1] <= at[n + 1]
                     /\ Stands(t, at[r], zs[r])
                     /\ r # n => t[at[r + 1]] = Comma

\* The part of a text that its first and its last sign enclose.
WithoutLast(text) == <<Open>> \o Front(text) \o <<Close>>

\* Between its brackets are the characters of the text but for the last one.
LEMMA FrontInside ==
  ASSUME NEW S, Open \in S, Close \in S, NEW text \in Seq(S), Len(text) >= 1
  PROVE  /\ WithoutLast(text) \in Seq(S) /\ Len(WithoutLast(text)) = Len(text) + 1
         /\ WithoutLast(text)[1] = Open /\ WithoutLast(text)[Len(text) + 1] = Close
         /\ \A o \in 1..(Len(text) - 1) : WithoutLast(text)[1 + o] = text[o]
<1> DEFINE l == Len(text)
           s == Front(text)
           t == WithoutLast(text)
<1>1. l \in Nat /\ l >= 1 /\ l - 1 \in Nat /\ \A o \in 1..(l - 1) : text[o] \in S
  OBVIOUS
<1>2. s = SubSeq(text, 1, l - 1)
  BY Zenon DEF Front
<1>3. s \in Seq(S) /\ Len(s) = l - 1 /\ \A o \in 1..(l - 1) : s[o] = text[o]
  <2> HIDE DEF s, t, l
  <2>1. l = Len(text) /\ \A i \in 1..l : text[i] \in S
    BY DEF l
  <2>2. s = [i \in 1..(l - 1) |-> text[i]]
    BY <1>1, <1>2, <2>1
  <2>3. s = [i \in 1..(l - 1) |-> s[i]] /\ \A i \in 1..(l - 1) : s[i] = text[i]
    BY <2>2
  <2>4. \A i \in 1..(l - 1) : s[i] \in S
    BY <1>1, <2>3, Zenon
  <2>5. s \in Seq(S) /\ Len(s) = l - 1
    BY <1>1, <2>3, <2>4, FunctionIsSeq, Zenon
  <2> QED BY <2>3, <2>5, Zenon
<1>5. s \in Seq(S) /\ Len(s) = l - 1
  BY <1>3, Zenon
<1> HIDE DEF s, l
<1>6. /\ t \in Seq(S) /\ Len(t) = Len(s) + 2 /\ Len(s) \in Nat
      /\ \A x, p : Len(x) \in Nat /\ Stands(x, p, t) =>
           x[p + 1] = Open /\ x[p + (Len(s) + 2)] = Close /\ Stands(x, p + 1, s)
  <2> DEFINE left == Open
             right == Close
  <2> HIDE DEF left, right, t
  <2>1. left \in S /\ right \in S
    BY Zenon DEF left, right
  <2>2. /\ <<left>> \o s \o <<right>> \in Seq(S) /\ Len(<<left>> \o s \o <<right>>) = Len(s) + 2
        /\ Len(s) \in Nat
        /\ \A x, p : Len(x) \in Nat /\ Stands(x, p, <<left>> \o s \o <<right>>) =>
             x[p + 1] = left /\ x[p + (Len(s) + 2)] = right /\ Stands(x, p + 1, s)
    BY <1>5, <2>1, EnclosedIs
  <2>3. t = <<left>> \o s \o <<right>>
    BY Zenon DEF WithoutLast, left, right, s, t
  <2> QED BY <2>2, <2>3, Zenon DEF left, right
<1> HIDE DEF t
<1>7. Len(t) \in Nat /\ Len(t) = l + 1 /\ Len(s) + 2 = l + 1
  BY <1>1, <1>5, <1>6
<1>8. Stands(t, 0, t)
  <2> DEFINE n == Len(t)
  <2>1. n \in Nat
    BY <1>7, Zenon
  <2> HIDE DEF n
  <2>2. 0 \in Nat /\ 0 + n <= n /\ \A o \in 1..n : 0 + o = o
    BY <2>1
  <2>3. \A o \in 1..n : t[0 + o] = t[o]
    BY <2>2, Zenon
  <2> QED BY <2>2, <2>3, Zenon DEF Stands, n
<1>9. t[0 + 1] = Open /\ t[0 + (Len(s) + 2)] = Close /\ Stands(t, 0 + 1, s)
  BY <1>6, <1>7, <1>8, Zenon
<1>10. 0 + 1 = 1 /\ 0 + (l + 1) = l + 1
  BY <1>1
<1>11. t[1] = Open /\ t[l + 1] = Close /\ \A o \in 1..(l - 1) : t[1 + o] = s[o]
  BY <1>5, <1>7, <1>9, <1>10, Zenon DEF Stands
<1>12. \A o \in 1..(l - 1) : t[1 + o] = text[o]
  BY <1>3, <1>11, Zenon
<1> QED BY <1>6, <1>7, <1>11, <1>12, Zenon DEF t, l

\* A comma behind each text.
WithCommas(zs, n) == [r \in 1..n |-> zs[r] \o <<Comma>>]

\* Where the texts of a list stand.
LEMMA ListPlaces ==
  ASSUME NEW S, Open \in S, Close \in S, Comma \in S, NEW n \in Nat, n >= 1, NEW zs,
         \A r \in 1..n : zs[r] \in Seq(S),
         NEW ss, ss = WithCommas(zs, n)
  PROVE  \E at : Spread(S, WithoutLast(FlattenSeq(ss)), zs, n, at)
<1> DEFINE e == <<Comma>>
           z(r) == zs[r] \o e
           text == FlattenSeq(ss)
           t == WithoutLast(text)
           l == Len(text)
<1>1. e \in Seq(S) /\ Len(e) = 1 /\ e[1] = Comma
  OBVIOUS
<1> HIDE DEF e
<1>2. ASSUME NEW r \in 1..n
      PROVE  /\ ss[r] = zs[r] \o e /\ ss[r] \in Seq(S) /\ Len(zs[r]) \in Nat
             /\ Len(ss[r]) = Len(zs[r]) + 1
  <2>1. zs[r] \in Seq(S) /\ Len(zs[r]) \in Nat
    <3> DEFINE u == zs[r]
    <3>1. u \in Seq(S)
      OBVIOUS
    <3> HIDE DEF u
    <3>2. u \in Seq(S) /\ Len(u) \in Nat
      BY <3>1
    <3> QED BY <3>2 DEF u
  <2>2. ss[r] = zs[r] \o e
    BY Zenon DEF e, WithCommas
  <2>3. zs[r] \o e \in Seq(S) /\ Len(zs[r] \o e) = Len(zs[r]) + Len(e)
    BY <1>1, <2>1, PartsStand, Zenon
  <2> QED BY <1>1, <2>1, <2>2, <2>3, Zenon
<1>3. ss \in Seq(Seq(S)) /\ Len(ss) = n /\ ss # <<>>
  <2> DEFINE Q == Seq(S)
  <2>1. \A r \in 1..n : ss[r] \in Q
    BY <1>2
  <2>2. ss = [r \in 1..n |-> ss[r]]
    BY Zenon DEF WithCommas
  <2> HIDE DEF Q
  <2>3. ss \in Seq(Q) /\ Len(ss) = n
    BY <2>1, <2>2, FunctionIsSeq
  <2>4. ss # <<>>
    <3> USE DEF Q
    <3> SUFFICES ASSUME ss = <<>> PROVE FALSE
      OBVIOUS
    <3>1. Len(<<>>) = 0
      OBVIOUS
    <3>2. n = 0
      BY <2>3, <3>1, Zenon
    <3> QED BY <3>2
  <2> QED BY <2>3, <2>4 DEF Q
<1>4. PICK am : text \in Seq(S) /\ Partitioned(text, ss, am)
  BY <1>3, FlattenPlaces, Zenon
<1> HIDE DEF text, z
<1>5. /\ am \in [1..(n + 1) -> Nat] /\ am[1] = 0 /\ am[n + 1] = l
      /\ \A r \in 1..n : am[r + 1] = am[r] + Len(ss[r]) /\ Stands(text, am[r], ss[r])
  BY <1>3, <1>4, Zenon DEF Partitioned
<1>6. ASSUME NEW r \in 1..n
      PROVE  /\ am[r] \in Nat /\ am[r + 1] = am[r] + (Len(zs[r]) + 1) /\ am[r + 1] <= l
             /\ Stands(text, am[r], zs[r]) /\ text[am[r + 1]] = Comma
             /\ am[r + 1] \in Nat /\ Len(zs[r]) \in Nat
  <2>1. r \in 1..(n + 1) /\ r + 1 \in 1..(n + 1)
    OBVIOUS
  <2>2. am[r] \in Nat /\ am[r + 1] \in Nat /\ am[r + 1] = am[r] + (Len(zs[r]) + 1) /\ Len(zs[r]) \in Nat
    BY <1>2, <1>5, <2>1, Zenon
  <2>3. Stands(text, am[r], zs[r] \o e)
    BY <1>2, <1>5, Zenon
  <2>4. Stands(text, am[r], zs[r]) /\ Stands(text, am[r] + Len(zs[r]), e)
    <3>1. Len(text) \in Nat
      BY <1>4
    <3> QED BY <1>1, <1>4, <2>3, <3>1, BothStand
  <2>5. (am[r] + Len(zs[r])) + 1 = am[r + 1]
    BY <2>2
  <2>6. 1 \in 1..1
    OBVIOUS
  <2>7. text[am[r + 1]] = Comma /\ am[r + 1] <= l
    BY <1>1, <2>4, <2>5, <2>6, Zenon DEF Stands, l
  <2> QED BY <2>2, <2>4, <2>7, Zenon
<1> HIDE DEF l
<1>7. /\ t \in Seq(S) /\ Len(t) = l + 1 /\ t[1] = Open /\ t[l + 1] = Close /\ l \in Nat
      /\ \A o \in 1..(l - 1) : t[1 + o] = text[o]
  <2>1. Len(text) \in Nat
    BY <1>4
  <2>2. 1 \in 1..n /\ am[1 + 1] >= 1
    <3>1. 1 \in 1..n
      OBVIOUS
    <3> DEFINE x == am[1]
               y == am[1 + 1]
               m == Len(zs[1])
    <3>2. x \in Nat /\ y = x + (m + 1) /\ m \in Nat
      BY <1>6, <3>1, Zenon
    <3> HIDE DEF x, y, m
    <3>3. y >= 1
      BY <3>2
    <3> QED BY <3>1, <3>3, Zenon DEF y
  <2>3. l >= 1 /\ l \in Nat
    <3> DEFINE y == am[1 + 1]
    <3>1. y >= 1 /\ y \in Nat /\ y <= l /\ l \in Nat
      BY <1>6, <2>1, <2>2, Zenon DEF l
    <3> HIDE DEF y
    <3> QED BY <3>1
  <2>4. Len(text) >= 1
    BY <2>3, Zenon DEF l
  <2>5. /\ WithoutLast(text) \in Seq(S) /\ Len(WithoutLast(text)) = Len(text) + 1
        /\ WithoutLast(text)[1] = Open /\ WithoutLast(text)[Len(text) + 1] = Close
        /\ \A o \in 1..(Len(text) - 1) : WithoutLast(text)[1 + o] = text[o]
    BY <1>4, <2>4, FrontInside
  <2> QED BY <2>3, <2>5, Zenon DEF l
<1> HIDE DEF t
<1> DEFINE at == [r \in 1..(n + 1) |-> am[r] + 1]
<1>8. /\ at \in [1..(n + 1) -> Nat] /\ \A r \in 1..(n + 1) : at[r] = am[r] + 1
  <2>1. \A r \in 1..(n + 1) : am[r] \in Nat
    BY <1>5
  <2> QED BY <2>1
<1> HIDE DEF at
<1>9. at[1] = 1 /\ at[n + 1] = l + 1
  <2>1. 1 \in 1..(n + 1) /\ n + 1 \in 1..(n + 1) /\ 0 + 1 = 1
    OBVIOUS
  <2> QED BY <1>5, <1>8, <2>1, Zenon
<1>10. ASSUME NEW r \in 1..n
       PROVE  /\ at[r + 1] = at[r] + (Len(zs[r]) + 1) /\ at[r + 1] <= at[n + 1]
              /\ Stands(t, at[r], zs[r])
              /\ r # n => t[at[r + 1]] = Comma
  <2> DEFINE x == am[r]
             y == am[r + 1]
             m == Len(zs[r])
  <2>1. /\ x \in Nat /\ y \in Nat /\ m \in Nat /\ y = x + (m + 1) /\ y <= l
        /\ Stands(text, x, zs[r]) /\ text[y] = Comma
    BY <1>6, Zenon
  <2>2. at[r] = x + 1 /\ at[r + 1] = y + 1
    <3>1. r \in 1..(n + 1) /\ r + 1 \in 1..(n + 1)
      OBVIOUS
    <3> QED BY <1>8, <3>1, Zenon
  <2>3. \A o \in 1..m : text[x + o] = zs[r][o]
    BY <2>1, Zenon DEF Stands
  <2>4. r # n => y < l
    <3> SUFFICES ASSUME r # n PROVE y < l
      OBVIOUS
    <3>1. r + 1 \in 1..n
      OBVIOUS
    <3> DEFINE u == am[(r + 1) + 1]
               v == Len(zs[r + 1])
    <3>2. u = y + (v + 1) /\ u <= l /\ v \in Nat
      BY <1>6, <3>1, Zenon
    <3> HIDE DEF u, v, y
    <3> QED BY <1>7, <2>1, <3>2
  <2> HIDE DEF x, y, m
  <2>5. at[r + 1] = at[r] + (m + 1) /\ at[r + 1] <= at[n + 1]
    BY <1>7, <1>9, <2>1, <2>2
  <2>6. /\ (x + 1) + m <= l + 1 /\ x + 1 \in Nat
        /\ \A o \in 1..m : x + o \in 1..(l - 1) /\ 1 + (x + o) = (x + 1) + o
    BY <1>7, <2>1
  <2>7. \A o \in 1..m : t[(x + 1) + o] = zs[r][o]
    BY <1>7, <2>3, <2>6, Zenon
  <2>8. Stands(t, at[r], zs[r])
    BY <1>7, <2>2, <2>6, <2>7, Zenon DEF Stands, m
  <2>9. r # n => t[at[r + 1]] = Comma
    <3> SUFFICES ASSUME r # n PROVE t[y + 1] = Comma
      BY <2>2, Zenon
    <3>1. y \in 1..(l - 1) /\ 1 + y = y + 1
      BY <1>7, <2>1, <2>4
    <3> QED BY <1>7, <2>1, <3>1, Zenon
  <2> QED BY <2>5, <2>8, <2>9, Zenon DEF m
<1>11. Len(t) \in Nat
  BY <1>7
<1>12. Spread(S, t, zs, n, at)
  BY <1>7, <1>8, <1>9, <1>10, <1>11, Zenon DEF Spread
<1> QED BY <1>12, Zenon DEF t, text

\* A list that nobody is in is JSON.
LEMMA EmptyListIsJson ==
  ASSUME NEW S, Signs \subseteq S, NEW list, list = <<>>
  PROVE  IsJson(ListText(list))
<1> DEFINE left == Open
           right == Close
           e == <<>>
           t == <<left>> \o e \o <<right>>
<1>1. ListText(list) = t
  BY Zenon DEF ListText, Open, Close
<1>2. left \in S /\ right \in S /\ <<left, right, "values">> \in Brackets
  BY Zenon DEF Signs, Open, Close, Brackets
<1>3. e \in Seq(S) /\ Len(e) = 0
  OBVIOUS
<1> HIDE DEF left, right, e
<1>4. /\ t \in Seq(S) /\ Len(t) = Len(e) + 2
      /\ \A x, p : Len(x) \in Nat /\ Stands(x, p, t) =>
           x[p + 1] = left /\ x[p + (Len(e) + 2)] = right /\ Stands(x, p + 1, e)
  <2> HIDE DEF t
  <2>1. /\ <<left>> \o e \o <<right>> \in Seq(S) /\ Len(<<left>> \o e \o <<right>>) = Len(e) + 2
        /\ Len(e) \in Nat
        /\ \A x, p : Len(x) \in Nat /\ Stands(x, p, <<left>> \o e \o <<right>>) =>
             x[p + 1] = left /\ x[p + (Len(e) + 2)] = right /\ Stands(x, p + 1, e)
    BY <1>2, <1>3, EnclosedIs
  <2>2. t = <<left>> \o e \o <<right>>
    BY Zenon DEF t
  <2> QED BY <2>1, <2>2, Zenon
<1> HIDE DEF t
<1>5. Len(t) = 2 /\ 0 + 1 = 1 /\ 0 + (Len(e) + 2) = 2 /\ 0 \in Nat /\ 0 + 2 <= 2 /\ \A o \in 1..2 : 0 + o = o
  BY <1>3, <1>4
<1>6. Len(t) \in Nat
  BY <1>5
<1>7. Stands(t, 0, t)
  <2>1. \A o \in 1..2 : t[0 + o] = t[o]
    BY <1>5, Zenon
  <2> QED BY <1>5, <2>1, Zenon DEF Stands
<1>8. t[1] = left /\ t[2] = right
  <2>1. t[0 + 1] = left /\ t[0 + (Len(e) + 2)] = right
    BY <1>4, <1>6, <1>7, Zenon
  <2> QED BY <1>5, <2>1, Zenon
<1>9. PICK d : Grammar(t, d) /\ (d[<<"value", 1, Len(t)>>] => IsJson(t))
  BY <1>6, GrammarExists
<1>10. d[<<"value", 1, 2>>]
  <2>1. 1 \in 1..2 /\ 2 \in 1..2 /\ 1 < 2 /\ 2 = 1 + 1
    OBVIOUS
  <2>2. 1 \in 1..Len(t) /\ 2 \in 1..Len(t)
    BY <1>5, <2>1, Zenon
  <2> QED BY <1>2, <1>6, <1>8, <1>9, <2>1, <2>2, BracketedDerives, Zenon
<1> QED BY <1>1, <1>5, <1>9, <1>10, Zenon

\* Values that are spread over a text are a list.
LEMMA SpreadIsJson ==
  ASSUME NEW S, NEW t, NEW zs, NEW n \in Nat, n >= 1, NEW at, Spread(S, t, zs, n, at),
         NEW d, Grammar(t, d), \A r \in 1..n : \A p : Stands(t, p, zs[r]) => Derived(t, d, "value", p, zs[r]),
         \A r \in 1..n : Len(zs[r]) \in Nat
  PROVE  d[<<"value", 1, Len(t)>>]
<1>1. /\ Len(t) \in Nat /\ at \in [1..(n + 1) -> Nat] /\ at[1] = 1 /\ at[n + 1] = Len(t)
      /\ t[1] = Open /\ t[Len(t)] = Close
  BY Zenon DEF Spread
<1>2. ASSUME NEW r \in 1..n
      PROVE  /\ at[r] < at[r + 1] /\ at[r + 1] <= at[n + 1]
             /\ d[<<ElementOf("values"), at[r] + 1, at[r + 1] - 1>>]
             /\ r # n => t[at[r + 1]] = ","
  <2> DEFINE x == at[r]
             y == at[r + 1]
             m == Len(zs[r])
  <2>1. /\ y = x + (m + 1) /\ y <= at[n + 1] /\ Stands(t, x, zs[r]) /\ m \in Nat
        /\ r # n => t[y] = Comma
    BY Zenon DEF Spread
  <2>2. x \in Nat
    <3>1. r \in 1..(n + 1)
      OBVIOUS
    <3> QED BY <1>1, <3>1, Zenon
  <2>3. d[<<"value", x + 1, x + m>>]
    BY <2>1, Zenon DEF Derived
  <2>4. ElementOf("values") = "value"
    BY DEF ElementOf
  <2>5. x < y /\ x + m = y - 1
    <3> HIDE DEF x, y, m
    <3> QED BY <2>1, <2>2
  <2> QED BY <2>1, <2>3, <2>4, <2>5, CharactersAreLexemes, Zenon
<1>3. at[n + 1] <= Len(t) + 1 /\ at[1] >= 1 /\ at[n + 1] <= Len(t)
  <2> DEFINE y == at[n + 1]
             l == Len(t)
  <2>1. y = l /\ l \in Nat
    BY <1>1, Zenon
  <2> HIDE DEF y, l
  <2>2. y <= l + 1 /\ y <= l
    BY <2>1
  <2>3. at[1] >= 1
    BY <1>1
  <2> QED BY <2>2, <2>3, Zenon DEF y, l
<1>4. Elements(t, d, "values", n, at)
  BY <1>1, <1>2, <1>3, Zenon DEF Elements
<1> DEFINE left == Open
           right == Close
<1>5. <<left, right, "values">> \in Brackets
  BY Zenon DEF Open, Close, Brackets
<1>6. t[at[1]] = left /\ t[at[n + 1]] = right
  BY <1>1, Zenon
<1> HIDE DEF left, right
<1>7. d[<<"value", at[1], at[n + 1]>>]
  BY <1>1, <1>3, <1>4, <1>5, <1>6, EnclosedList, Zenon
<1> QED BY <1>1, <1>7, Zenon

\* The body of an answer to a search is JSON.
LEMMA ListIsJson ==
  ASSUME NEW S, Signs \subseteq S, NEW list, Len(list) \in Nat, DOMAIN list = 1..Len(list),
         \A i \in 1..Len(list) : ClearPerson(S, list[i])
  PROVE  IsJson(ListText(list))
<1> DEFINE n == Len(list)
           zs == [i \in 1..n |-> PersonText(list[i])]
           ss == WithCommas(zs, n)
           t == WithoutLast(FlattenSeq(ss))
<1>1. CASE list = <<>>
  BY <1>1, EmptyListIsJson
<1>2. CASE list # <<>>
  <2>1. n \in Nat /\ n >= 1
    <3>1. Len(list) # 0
      <4> SUFFICES ASSUME Len(list) = 0 PROVE FALSE
        OBVIOUS
      <4>1. 1..0 = {}
        OBVIOUS
      <4>2. DOMAIN list = {}
        BY <4>1, Zenon
      <4> QED BY <1>2, <4>2
    <3> QED BY <3>1
  <2>2. ListText(list) = t
    <3>1. [i \in DOMAIN list |-> PersonText(list[i]) \o <<Comma>>] = ss
      <4>1. \A i \in 1..n : zs[i] = PersonText(list[i])
        BY Zenon
      <4> HIDE DEF zs
      <4> QED BY <4>1, Zenon DEF WithCommas
    <3> HIDE DEF ss
    <3> QED BY <1>2, <3>1, Zenon DEF ListText, WithoutLast, Open, Close
  <2>3. ASSUME NEW i \in 1..n
        PROVE  zs[i] = PersonText(list[i]) /\ zs[i] \in Seq(S) /\ Len(zs[i]) \in Nat
    <3>1. PersonText(list[i]) \in Seq(S) /\ Len(PersonText(list[i])) \in Nat
      BY PersonIs, Zenon
    <3> QED BY <3>1, Zenon
  <2> HIDE DEF zs
  <2>4. PICK at : Spread(S, t, zs, n, at)
    <3>1. Open \in S /\ Close \in S /\ Comma \in S
      BY Zenon DEF Signs, Open, Close
    <3> HIDE DEF n
    <3> QED BY <2>1, <2>3, <3>1, ListPlaces, Zenon
  <2> HIDE DEF t
  <2>5. Len(t) \in Nat
    BY <2>4, Zenon DEF Spread
  <2>6. PICK d : Grammar(t, d) /\ (d[<<"value", 1, Len(t)>>] => IsJson(t))
    BY <2>5, GrammarExists
  <2>7. \A r \in 1..n : \A p : Stands(t, p, zs[r]) => Derived(t, d, "value", p, zs[r])
    <3> TAKE r \in 1..n
    <3>1. \A p : Stands(t, p, PersonText(list[r])) => Derived(t, d, "value", p, PersonText(list[r]))
      BY <2>5, <2>6, PersonDerives, Zenon
    <3> QED BY <2>3, <3>1, Zenon
  <2>8. d[<<"value", 1, Len(t)>>]
    <3> HIDE DEF n
    <3> QED BY <2>1, <2>3, <2>4, <2>6, <2>7, SpreadIsJson
  <2> QED BY <2>2, <2>6, <2>8, Zenon
<1> QED BY <1>1, <1>2

-----------------------------------------------------------------------------
(* The characters that come back from a row.                               *)

\* The tokens of a text have its characters but for the delimiters.
LEMMA TokensOver ==
  ASSUME NEW S, NEW text \in Seq(S), NEW D, \A i \in 1..Len(text) : text[i] \in D \/ text[i] \in Delimiters
  PROVE  Tokens(text) \in Seq(Seq(D))
<1> DEFINE n == Len(text)
           V == Seq(Seq(D))
           out(i) == text[i] \in Delimiters
<1>1. PICK f : ReadsTokens(text, f) /\ Tokens(text) = f[Len(text)]
  BY TokensRecursion
<1>2. f[0] = <<>> /\ \A i \in 1..n : f[i] = NextTokens(text, i, f[i - 1])
  BY <1>1, Zenon DEF ReadsTokens
<1>3. n \in Nat
  OBVIOUS
<1> HIDE DEF n
<1> DEFINE T == {i \in Nat : i <= n => f[i] \in V /\ (i # 0 /\ ~out(i) => f[i] # <<>>)}
<1>4. 0 \in T
  <2>1. <<>> \in V
    OBVIOUS
  <2> HIDE DEF V, out
  <2> QED BY <1>2, <2>1
<1>5. ASSUME NEW i \in Nat, i \in T PROVE i + 1 \in T
  <2> SUFFICES ASSUME i + 1 <= n PROVE f[i + 1] \in V /\ (~out(i + 1) => f[i + 1] # <<>>)
    OBVIOUS
  <2> DEFINE v == f[i]
             j == i + 1
             c == text[j]
  <2>1. j \in 1..n /\ j - 1 = i /\ i <= n /\ (j # 1 <=> i # 0)
    BY <1>3
  <2>2. v \in V /\ (i # 0 /\ ~out(i) => v # <<>>)
    BY <1>5, <2>1
  <2>3. f[j] = NextTokens(text, j, v)
    BY <1>2, <2>1, Zenon
  <2>4. out(j) \/ c \in D
    BY <2>1, Zenon DEF n
  <2> HIDE DEF v, j
  <2>5. CASE out(j)
    <3>1. f[j] = v
      BY <2>3, <2>5, NextTokensCases, Zenon
    <3> QED BY <2>2, <2>5, <3>1, Zenon DEF j
  <2>6. CASE ~out(j) /\ i # 0 /\ ~out(i)
    <3>1. f[j] = Append(Front(v), Append(Last(v), c))
      BY <2>1, <2>3, <2>6, NextTokensCases, Zenon
    <3>2. v \in Seq(Seq(D)) /\ v # <<>> /\ c \in D
      BY <2>2, <2>4, <2>6, Zenon
    <3> HIDE DEF c
    <3>3. f[j] \in Seq(Seq(D)) /\ f[j] # <<>>
      BY <3>1, <3>2, LastGrows, Zenon
    <3> QED BY <3>3, Zenon DEF j
  <2>7. CASE ~out(j) /\ (i = 0 \/ out(i))
    <3>1. f[j] = Append(v, <<c>>)
      BY <2>1, <2>3, <2>7, NextTokensCases, Zenon
    <3> DEFINE Q == Seq(D)
               e == <<c>>
    <3>2. e \in Q
      BY <2>4, <2>7
    <3>3. v \in Seq(Q)
      BY <2>2, Zenon
    <3> HIDE DEF Q, e, c
    <3>4. Append(v, e) \in Seq(Q) /\ Append(v, e) # <<>>
      BY <3>2, <3>3, AppendProperties
    <3> QED BY <3>1, <3>4, Zenon DEF Q, e, j, c
  <2> QED BY <2>5, <2>6, <2>7, Zenon
<1>6. \A i \in Nat : i \in T
  <2> HIDE DEF T
  <2> QED BY <1>4, <1>5, SetInduction
<1>7. f[n] \in V
  BY <1>3, <1>6
<1> QED BY <1>1, <1>7, Zenon DEF n

\* Copying a text into an array adds its characters only.
LEMMA CopyOver ==
  ASSUME NEW n \in Nat, NEW m, NEW D, Holds(m, n, D), NEW at, NEW s \in Seq(D)
  PROVE  Holds(Copy(m, at, s), n, D)
<1>1. \A o \in DOMAIN s : s[o] \in D
  OBVIOUS
<1>2. DOMAIN Copy(m, at, s) = 0..n
  BY Zenon DEF Copy, Holds
<1>3. ASSUME NEW i \in 0..n PROVE Copy(m, at, s)[i] = Nul \/ Copy(m, at, s)[i] \in D
  <2>1. Copy(m, at, s)[i] = IF i + 1 - at \in DOMAIN s THEN s[i + 1 - at] ELSE m[i]
    BY Zenon DEF Copy, Holds
  <2> QED BY <1>1, <2>1, Zenon DEF Holds
<1> QED BY <1>2, <1>3, Zenon DEF Holds

\* The greatest of some numbers.
LEMMA MaxIs ==
  ASSUME NEW n \in Nat, NEW T, T \subseteq 1..n, T # {}
  PROVE  Max(T) \in T
<1> DEFINE U == {n - i : i \in T}
<1>1. U \subseteq Nat /\ U # {}
  <2>1. U \subseteq Nat
    OBVIOUS
  <2>2. PICK i : i \in T
    BY Zenon
  <2>3. n - i \in U
    BY <2>2, Zenon
  <2> QED BY <2>1, <2>3, Zenon
<1>2. PICK u \in U : \A w \in U : u <= w
  <2> HIDE DEF U
  <2> QED BY <1>1, LeastExists
<1>3. PICK i \in T : u = n - i
  BY <1>2
<1>4. \A j \in T : i >= j
  <2> TAKE j \in T
  <2>1. n - j \in U /\ i \in 1..n /\ j \in 1..n
    BY Zenon
  <2>2. n - i <= n - j
    BY <1>2, <1>3, <2>1, Zenon
  <2> QED BY <2>1, <2>2
<1> QED BY <1>4, Zenon DEF Max

\* So does packing texts into the slots of an array.
LEMMA PackOver ==
  ASSUME NEW n \in Nat, NEW m, NEW D, Holds(m, n, D), NEW items, DOMAIN items \subseteq 1..MaxItems,
         \A j \in DOMAIN items : items[j] \in Seq(D)
  PROVE  Holds(Pack(m, items), n, D)
<1> DEFINE on(i) == {j \in DOMAIN items : i + 1 - ItemAt(j) \in DOMAIN items[j]}
<1>1. DOMAIN Pack(m, items) = 0..n
  BY Zenon DEF Pack, Holds
<1>2. ASSUME NEW j \in DOMAIN items, NEW o \in DOMAIN items[j] PROVE items[j][o] \in D
  <2> DEFINE x == items[j]
  <2>1. x \in Seq(D)
    OBVIOUS
  <2> HIDE DEF x
  <2>2. \A p \in DOMAIN x : x[p] \in D
    BY <2>1
  <2> QED BY <2>2 DEF x
<1>3. ASSUME NEW i \in 0..n PROVE Pack(m, items)[i] = Nul \/ Pack(m, items)[i] \in D
  <2>1. Pack(m, items)[i] = IF on(i) = {} THEN m[i]
                            ELSE items[Max(on(i))][i + 1 - ItemAt(Max(on(i)))]
    BY Zenon DEF Pack, Holds
  <2>2. CASE on(i) = {}
    BY <2>1, <2>2, Zenon DEF Holds
  <2>3. CASE on(i) # {}
    <3>1. Max(on(i)) \in on(i)
      <4>1. on(i) \subseteq 1..MaxItems /\ MaxItems \in Nat
        BY LimitsArePositive
      <4> HIDE DEF on
      <4> QED BY <2>3, <4>1, MaxIs
    <3> DEFINE j == Max(on(i))
    <3>2. j \in DOMAIN items /\ i + 1 - ItemAt(j) \in DOMAIN items[j]
      BY <3>1, Zenon
    <3> QED BY <1>2, <2>1, <2>3, <3>2, Zenon
  <2> QED BY <2>2, <2>3
<1> QED BY <1>1, <1>3, Zenon DEF Holds

\* What a size argument leaves of a text.
LEMMA CutOver ==
  ASSUME NEW S, NEW x \in Seq(S), NEW n \in Nat
  PROVE  /\ Cut(x, n) \in Seq(S) /\ Len(Cut(x, n)) \in Nat
         /\ Len(Cut(x, n)) <= n /\ Len(Cut(x, n)) <= Len(x)
<1> DEFINE l == Min({Len(x), n})
<1>1. Len(x) \in Nat /\ \A i \in 1..Len(x) : x[i] \in S
  OBVIOUS
<1>2. l \in Nat /\ l <= Len(x) /\ l <= n
  <2> DEFINE T == {Len(x), n}
  <2>1. T \subseteq Nat /\ Len(x) \in T /\ n \in T
    BY <1>1
  <2> HIDE DEF T
  <2>2. Min(T) \in T /\ \A z \in T : Min(T) <= z
    BY <2>1, MinIs
  <2>3. Min(T) \in Nat /\ Min(T) <= Len(x) /\ Min(T) <= n
    BY <2>1, <2>2
  <2> QED BY <2>3 DEF T
<1> HIDE DEF l
<1>3. SubSeq(x, 1, l) \in Seq(S) /\ Len(SubSeq(x, 1, l)) = l
  <2>1. 1 \in Int /\ l \in Int /\ \A i \in 1..l : x[i] \in S
    BY <1>1, <1>2
  <2>2. /\ SubSeq(x, 1, l) \in Seq(S)
        /\ Len(SubSeq(x, 1, l)) = (IF 1 <= l THEN l - 1 + 1 ELSE 0)
    BY <2>1, SubSeqProperties
  <2> QED BY <1>2, <2>2
<1>4. Cut(x, n) \in Seq(S) /\ Len(Cut(x, n)) = l
  BY <1>3, Zenon DEF Cut, l
<1> QED BY <1>2, <1>4, Zenon

\* The items that are read back from a column have its characters but for the delimiters.
LEMMA UnpackedOver ==
  ASSUME NEW S, NEW text \in Seq(S), NEW D, \A i \in 1..Len(text) : text[i] \in D \/ text[i] \in Delimiters
  PROVE  Items(Unpacked(text)) \in Seq(Seq(D))
<1> DEFINE tokens == Tokens(text)
           size == Min({Len(tokens), MaxItems})
           items == [t \in 1..size |-> Cut(tokens[t], ItemLen)]
           m == Pack(NoStack, items)
           Q == Seq(D)
<1>1. tokens \in Seq(Q)
  BY TokensOver
<1>2. MaxItems \in Nat /\ ItemLen \in Nat /\ StackEnd \in Nat
  BY Offsets, LimitsArePositive
<1>3. Unpacked(text) = m
  BY Zenon DEF Unpacked
<1> HIDE DEF tokens, Q
<1>4. Len(tokens) \in Nat /\ \A t \in 1..Len(tokens) : tokens[t] \in Q
  BY <1>1
<1>5. size \in Nat /\ size <= Len(tokens) /\ size <= MaxItems
  <2> DEFINE T == {Len(tokens), MaxItems}
  <2>1. T \subseteq Nat /\ Len(tokens) \in T /\ MaxItems \in T
    BY <1>2, <1>4
  <2> HIDE DEF T
  <2>2. Min(T) \in T /\ \A z \in T : Min(T) <= z
    BY <2>1, MinIs
  <2>3. Min(T) \in Nat /\ Min(T) <= Len(tokens) /\ Min(T) <= MaxItems
    BY <2>1, <2>2
  <2> QED BY <2>3 DEF T
<1> HIDE DEF size
<1>6. DOMAIN items = 1..size /\ 1..size \subseteq 1..MaxItems /\ \A t \in 1..size : t \in 1..Len(tokens)
  BY <1>2, <1>4, <1>5
<1>7. ASSUME NEW t \in 1..size
      PROVE  items[t] \in Seq(D) /\ Len(items[t]) \in Nat /\ Len(items[t]) <= ItemLen
  <2>1. items[t] = Cut(tokens[t], ItemLen)
    BY Zenon
  <2>2. tokens[t] \in Seq(D)
    BY <1>4, <1>6, Zenon DEF Q
  <2> QED BY <1>2, <2>1, <2>2, CutOver, Zenon
<1> HIDE DEF items
<1>8. ASSUME NEW t \in DOMAIN items PROVE IsSeq(items[t]) /\ Len(items[t]) <= ItemLen + 1
  <2> DEFINE x == items[t]
  <2>1. x \in Seq(D) /\ Len(x) \in Nat /\ Len(x) <= ItemLen
    BY <1>6, <1>7, Zenon
  <2> HIDE DEF x
  <2>2. IsSeq(x) /\ Len(x) <= ItemLen + 1
    BY <1>2, <2>1 DEF IsSeq, Range
  <2> QED BY <2>2, Zenon DEF x
<1>9. Holds(NoStack, StackEnd, D) /\ DOMAIN NoStack = 0..StackEnd /\ NoStack[StackEnd] = Nul
  <2>1. StackEnd \in 0..StackEnd
    BY <1>2
  <2> QED BY <2>1, Zenon DEF Holds, NoStack
<1>10. Holds(m, StackEnd, D)
  <2>1. \A t \in DOMAIN items : items[t] \in Seq(D)
    BY <1>6, <1>7, Zenon
  <2>2. DOMAIN items \subseteq 1..MaxItems
    BY <1>6, Zenon
  <2> QED BY <1>2, <1>9, <2>1, <2>2, PackOver, Zenon
<1>11. m[StackEnd] = Nul
  <2>1. DOMAIN items \subseteq 1..MaxItems
    BY <1>6, Zenon
  <2> QED BY <1>8, <1>9, <2>1, PackKeeps, Zenon
<1> HIDE DEF m
<1> QED BY <1>3, <1>10, <1>11, ItemsOver, Zenon

\* No item of a list has a part of a character if the list has none.
LEMMA ItemsOfWhole ==
  ASSUME NEW S, NEW items, ListOver(S, items), Whole(StackText(items)), NEW r \in 1..Len(items)
  PROVE  Whole(items[r])
<1> DEFINE s == StackText(items)
           x == items[r]
           n == Len(x)
<1>1. items # <<>> /\ x \in Seq(S) /\ n \in Nat /\ DOMAIN x = 1..n
  <2>1. x \in Seq(S) /\ n \in Nat
    BY Zenon DEF ListOver
  <2>2. items # <<>>
    <3>1. Len(<<>>) = 0 /\ 1..0 = {}
      OBVIOUS
    <3> QED BY <3>1, Zenon
  <2> HIDE DEF x
  <2>3. DOMAIN x = 1..n
    BY <2>1
  <2> QED BY <2>1, <2>2, <2>3
<1>2. PICK at : Listed(s, items, at)
  BY <1>1, StackTextPlaces, Zenon
<1> DEFINE b == at[r] + 1
<1>3. /\ at[r] \in Nat /\ at[r] + 2 + n <= Len(s)
      /\ s[at[r] + 1] = Quote /\ s[at[r] + 2 + n] = Quote
      /\ \A o \in 1..n : s[b + o] = x[o]
  BY <1>2, Zenon DEF Listed
<1>4. s \in Seq(S) /\ Whole(s)
  BY <1>1, StackTextPlaces, Zenon
<1>5. DOMAIN s = 1..Len(s) /\ Len(s) \in Nat
  <2> HIDE DEF s
  <2> QED BY <1>4
<1>6. /\ b \in Nat /\ b + n + 1 <= Len(s) /\ s[b] = Quote /\ s[b + n + 1] = Quote
  <2>1. at[r] + 2 + n = b + n + 1 /\ b \in Nat
    BY <1>1, <1>3
  <2> QED BY <1>3, <2>1, Zenon
<1> HIDE DEF s, x, n, b
<1>7. Quote # "lead" /\ Quote # "trail"
  BY CharactersAreLexemes
<1>8. ASSUME NEW o \in 1..n
      PROVE  /\ x[o] = "lead" => o < n /\ x[o + 1] = "trail"
             /\ x[o] = "trail" => o > 1 /\ x[o - 1] = "lead"
  <2>1. b + o \in DOMAIN s /\ s[b + o] = x[o]
    BY <1>1, <1>3, <1>5, <1>6
  <2>2. ASSUME x[o] = "lead" PROVE o < n /\ x[o + 1] = "trail"
    <3>1. s[(b + o) + 1] = "trail"
      BY <1>4, <2>1, <2>2, Zenon DEF Whole
    <3>2. (b + o) + 1 = b + (o + 1) /\ (o < n => o + 1 \in 1..n) /\ (~(o < n) => b + (o + 1) = b + n + 1)
      BY <1>1, <1>6
    <3>3. o < n
      BY <1>6, <1>7, <3>1, <3>2, Zenon
    <3> QED BY <1>3, <3>1, <3>2, <3>3, Zenon
  <2>3. ASSUME x[o] = "trail" PROVE o > 1 /\ x[o - 1] = "lead"
    <3>1. s[(b + o) - 1] = "lead"
      BY <1>4, <2>1, <2>3, Zenon DEF Whole
    <3>2. /\ o > 1 => o - 1 \in 1..n /\ (b + o) - 1 = b + (o - 1)
          /\ ~(o > 1) => (b + o) - 1 = b
      BY <1>1, <1>6
    <3>3. o > 1
      BY <1>6, <1>7, <3>1, <3>2, Zenon
    <3> QED BY <1>3, <3>1, <3>2, <3>3, Zenon
  <2> QED BY <2>2, <2>3
<1>9. Whole(x)
  BY <1>1, <1>8, Zenon DEF Whole, n
<1> QED BY <1>9, Zenon DEF x

\* A struct Pessoa that was filled from a row of clear texts prints a clear person,
\* if none of its texts was cut within a character.
LEMMA RowIsClear ==
  ASSUME NEW S, Signs \subseteq S, NEW row, ClearText(S, Dated(row.nascimento)),
         NEW D, D \subseteq S, D \cap Escaped = {},
         NEW x \in Seq(D), Len(x) <= NamesEnd, NEW y \in Seq(D), Len(y) <= NomeLen + 1,
         NEW E, E \subseteq S, E \cap Escaped = {},
         NEW text, IsSeq(text), \A i \in 1..Len(text) : text[i] \in E \/ text[i] \in Delimiters
  PROVE  LET q == AsJson(row, Copy(Copy(NoNames, 0, x), NomeAt, y), Unpacked(text))
         IN  WholePerson(q) => ClearPerson(S, q)
<1> DEFINE l == Copy(NoNames, 0, x)
           m == Copy(l, NomeAt, y)
           s == Unpacked(text)
           q == AsJson(row, m, s)
           items == Items(s)
<1>1. /\ NamesEnd \in Nat /\ NomeAt \in Nat /\ NamesEnd \in 0..NamesEnd /\ NomeAt \in 0..NamesEnd
      /\ 0 \in 0..NamesEnd /\ NomeAt + (NomeLen + 1) = NamesEnd /\ NomeLen \in Nat /\ 0 \in Nat
  <2>1. NomeAt \in Nat /\ NamesEnd \in Nat /\ NomeAt <= NamesEnd /\ NomeLen \in Nat
    BY Offsets, LimitsArePositive
  <2>2. NamesEnd = NomeAt + NomeLen + 1
    BY Zenon DEF NamesEnd
  <2> QED BY <2>1, <2>2
<1>2. Len(x) \in Nat /\ Len(y) \in Nat /\ IsSeq(x) /\ IsSeq(y)
  BY DEF IsSeq, Range
<1>3. 0 + Len(x) <= NamesEnd /\ NomeAt + Len(y) <= NamesEnd
  BY <1>1, <1>2
<1>4. Holds(NoNames, NamesEnd, D) /\ DOMAIN NoNames = 0..NamesEnd /\ NoNames[NamesEnd] = Nul
  BY <1>1, Zenon DEF Holds, NoNames
<1>5. Holds(l, NamesEnd, D) /\ l[NamesEnd] = Nul /\ DOMAIN l = 0..NamesEnd
  <2>1. Holds(l, NamesEnd, D)
    BY <1>1, <1>4, CopyOver, Zenon
  <2>2. DOMAIN l = DOMAIN NoNames /\ l[NamesEnd] = NoNames[NamesEnd]
    <3>1. NamesEnd \in DOMAIN NoNames
      BY <1>1, <1>4, Zenon
    <3> QED BY <1>1, <1>2, <1>3, <3>1, CopyKeeps
  <2> QED BY <1>4, <2>1, <2>2, Zenon
<1> HIDE DEF l
<1>6. Holds(m, NamesEnd, D) /\ m[NamesEnd] = Nul
  <2>1. Holds(m, NamesEnd, D)
    BY <1>1, <1>5, CopyOver, Zenon
  <2>2. m[NamesEnd] = l[NamesEnd]
    <3>1. NamesEnd \in DOMAIN l
      BY <1>1, <1>5, Zenon
    <3> QED BY <1>1, <1>2, <1>3, <3>1, CopyKeeps
  <2> QED BY <1>5, <2>1, <2>2, Zenon
<1> HIDE DEF m
<1>7. /\ q.apelido = CString(m, 0) /\ q.nome = CString(m, NomeAt)
      /\ q.nascimento = Dated(row.nascimento) /\ q.stack = StackText(items)
  <2>1. q = [id |-> row.id, apelido |-> CString(m, 0), nome |-> CString(m, NomeAt),
             nascimento |-> Dated(row.nascimento), stack |-> StackText(items)]
    BY Zenon DEF AsJson
  <2> HIDE DEF q, items
  <2> QED BY <2>1
<1> SUFFICES ASSUME WholePerson(q) PROVE ClearPerson(S, q)
  BY Zenon DEF l, m
<1>8. Whole(CString(m, 0)) /\ Whole(CString(m, NomeAt)) /\ Whole(StackText(items))
  BY <1>7, Zenon DEF WholePerson
<1>9. \A z : z \in Seq(D) /\ Whole(z) => ClearText(S, z)
  <2> TAKE z
  <2> HAVE z \in Seq(D) /\ Whole(z)
  <2>1. z \in Seq(S) /\ Range(z) \subseteq D
    BY DEF Range
  <2> QED BY <2>1, Zenon DEF ClearText, Unescaped
<1>10. ClearText(S, CString(m, 0)) /\ ClearText(S, CString(m, NomeAt))
  <2>1. CString(m, 0) \in Seq(D)
    BY <1>1, <1>6, CStringOver, Zenon
  <2>2. CString(m, NomeAt) \in Seq(D)
    BY <1>1, <1>6, CStringOver, Zenon
  <2> QED BY <1>8, <1>9, <2>1, <2>2, Zenon
<1>11. items \in Seq(Seq(E))
  <2>1. text \in Seq(Range(text))
    BY Zenon DEF IsSeq
  <2> QED BY <2>1, UnpackedOver, Zenon
<1> HIDE DEF s, items, q
<1>12. ClearItems(S, items)
  <2> DEFINE Q == Seq(E)
             R == Seq(S)
  <2>1. Q \subseteq R
    OBVIOUS
  <2>2. \A z \in Q : Range(z) \cap Escaped = {}
    <3> TAKE z \in Q
    <3>1. Range(z) \subseteq E
      BY DEF Range
    <3> QED BY <3>1, Zenon
  <2>3. items \in Seq(Q)
    BY <1>11
  <2> HIDE DEF Q, R
  <2>4. items \in Seq(R) /\ \A r \in 1..Len(items) : items[r] \in Q
    BY <2>1, <2>3
  <2>5. Quote \in S /\ Comma \in S
    BY Zenon DEF Signs
  <2>6. ListOver(S, items)
    BY <2>4, <2>5, ListOverIs, Zenon DEF R
  <2>7. \A r \in 1..Len(items) : Unescaped(items[r])
    <3> TAKE r \in 1..Len(items)
    <3>1. Whole(items[r])
      BY <1>8, <2>6, ItemsOfWhole, Zenon
    <3> QED BY <2>2, <2>4, <3>1, Zenon DEF Unescaped
  <2> QED BY <2>6, <2>7, Zenon DEF ClearItems
<1> QED BY <1>7, <1>10, <1>12, Zenon DEF ClearPerson

\* The characters of two columns.
LEMMA RangesJoined ==
  ASSUME NEW x, IsSeq(x), NEW y, IsSeq(y)
  PROVE  Range(x) \cup Range(y) \subseteq Range(x \o y)
<1> DEFINE S == Range(x) \cup Range(y)
           z == x \o y
           m == Len(x)
           n == Len(y)
<1>1. x \in Seq(S) /\ y \in Seq(S) /\ DOMAIN x = 1..m /\ DOMAIN y = 1..n /\ m \in Nat /\ n \in Nat
  BY DEF IsSeq
<1> HIDE DEF S
<1>2. z \in Seq(S) /\ Len(z) = m + n /\ \A i \in 1..(m + n) : z[i] = IF i <= m THEN x[i] ELSE y[i - m]
  BY <1>1, ConcatProperties
<1> HIDE DEF z, m, n
<1>3. DOMAIN z = 1..(m + n)
  BY <1>1, <1>2
<1>4. ASSUME NEW i \in 1..m PROVE x[i] \in Range(z)
  <2>1. i \in 1..(m + n) /\ i <= m
    BY <1>1
  <2>2. z[i] = x[i]
    BY <1>2, <2>1, Zenon
  <2> QED BY <1>3, <2>1, <2>2, Zenon DEF Range
<1>5. ASSUME NEW i \in 1..n PROVE y[i] \in Range(z)
  <2>1. m + i \in 1..(m + n) /\ ~(m + i <= m) /\ (m + i) - m = i
    BY <1>1
  <2>2. z[m + i] = y[i]
    BY <1>2, <2>1, Zenon
  <2> QED BY <1>3, <2>1, <2>2, Zenon DEF Range
<1>6. \A c \in Range(x) \cup Range(y) : c \in Range(z)
  BY <1>1, <1>4, <1>5, Zenon DEF Range
<1> QED BY <1>6, Zenon DEF z

\* A date has no character that JSON wants to be escaped.
LEMMA DateIsClear ==
  ASSUME NEW date, NEW S, Range(Dated(date)) \subseteq S
  PROVE  ClearText(S, Dated(date))
<1> DEFINE x == Dated(date)
<1>1. x \in Range(DateOf) \cup {NoDate}
  BY Zenon DEF Dated, Range
<1>2. IsSeq(x) /\ Range(x) \cap Special = {}
  BY <1>1, DatesAreDates, Zenon DEF Special
<1> HIDE DEF x
<1>3. x \in Seq(S)
  <2>1. x \in Seq(Range(x)) /\ Range(x) \subseteq S
    BY <1>2, Zenon DEF IsSeq, x
  <2> QED BY <2>1
<1>4. ClearText(S, x)
  BY <1>2, <1>3, UnescapedIs, Zenon DEF ClearText
<1> QED BY <1>4 DEF x

\* The characters that the answers of some rows may have.
ColumnsOf(row) ==
  Range(row.apelido) \cup Range(row.nome) \cup Range(row.stack) \cup Range(Dated(row.nascimento))
Characters == Signs \cup UNION {ColumnsOf(rows[i]) : i \in DOMAIN rows}

\* What is shown of a row that needs no escape is clear, if it is whole.
LEMMA ShownIsClear ==
  ASSUME NEW row, RowKept(row), NeedsNoEscape(row), NEW S, Signs \subseteq S, ColumnsOf(row) \subseteq S
  PROVE  /\ WholePerson(Lookup(row)) => ClearPerson(S, Lookup(row))
         /\ WholePerson(Found(row)) => ClearPerson(S, Found(row))
<1> DEFINE D == Range(row.apelido) \cup Range(row.nome)
           E == Range(row.stack) \ Delimiters
           a == row.apelido
           n == row.nome
           s == row.stack
<1>1. IsSeq(a) /\ Len(a) <= NamesEnd /\ IsSeq(n) /\ Len(n) <= NomeLen + 1 /\ IsSeq(s)
  BY Zenon DEF RowKept
<1>2. ClearText(S, Dated(row.nascimento))
  BY DateIsClear, Zenon DEF ColumnsOf
<1>3. D \subseteq S /\ E \subseteq S
  BY Zenon DEF ColumnsOf
<1>4. D \cap Escaped = {}
  <2>1. Escaped \cap Range(a \o n) = {}
    BY Zenon DEF NeedsNoEscape
  <2>2. D \subseteq Range(a \o n)
    BY <1>1, RangesJoined, Zenon
  <2> QED BY <2>1, <2>2, Zenon
<1>5. E \cap Escaped = {}
  <2>1. Escaped \cap Range(s) \subseteq {Quote}
    BY Zenon DEF NeedsNoEscape
  <2>2. Quote \in Delimiters
    BY Zenon DEF Delimiters
  <2> QED BY <2>1, <2>2, Zenon
<1>6. a \in Seq(D) /\ n \in Seq(D) /\ s \in Seq(Range(s))
  <2>1. a \in Seq(Range(a)) /\ n \in Seq(Range(n)) /\ s \in Seq(Range(s))
    BY <1>1, Zenon DEF IsSeq
  <2>2. Range(a) \subseteq D /\ Range(n) \subseteq D
    OBVIOUS
  <2> HIDE DEF a, n, s, D
  <2> QED BY <2>1, <2>2
<1>7. \A x : x \in Seq(Range(s)) =>
        IsSeq(x) /\ \A i \in 1..Len(x) : x[i] \in E \/ x[i] \in Delimiters
  <2> TAKE x
  <2> HAVE x \in Seq(Range(s))
  <2> DEFINE V == Range(s)
  <2>1. x \in Seq(V)
    OBVIOUS
  <2> HIDE DEF V
  <2>2. IsSeq(x) /\ \A i \in 1..Len(x) : x[i] \in V
    BY <2>1 DEF IsSeq, Range
  <2> QED BY <2>2, Zenon DEF V
<1> HIDE DEF D, E, a, n, s
<1>8. /\ ApelidoLen \in Nat \ {0} /\ NomeLen \in Nat \ {0} /\ NamesEnd \in Nat /\ NomeAt \in Nat
      /\ ApelidoLen - 1 \in Nat /\ NomeLen - 1 \in Nat /\ ApelidoLen - 1 <= NamesEnd
      /\ NomeLen - 1 <= NomeLen + 1 /\ TextLen - 1 \in Nat
  <2>1. ApelidoLen \in Nat \ {0} /\ NomeLen \in Nat \ {0} /\ MaxItems \in Nat \ {0} /\ ItemLen \in Nat \ {0}
    BY LimitsArePositive
  <2>2. NomeAt = ApelidoLen + 1 /\ NamesEnd = NomeAt + NomeLen + 1 /\ TextLen = MaxItems * (ItemLen + 3)
    BY Zenon DEF NomeAt, NamesEnd, TextLen
  <2>3. MaxItems * (ItemLen + 3) \in Nat /\ MaxItems * (ItemLen + 3) >= 1
    <3> DEFINE w == ItemLen + 3
               e == MaxItems - 1
    <3>1. w \in Nat /\ w >= 1 /\ e \in Nat /\ MaxItems = e + 1
      BY <2>1
    <3> HIDE DEF w, e
    <3>2. (e + 1) * w = e * w + w /\ e * w \in Nat
      BY <3>1
    <3>3. MaxItems * w \in Nat /\ MaxItems * w >= 1
      BY <3>1, <3>2
    <3> QED BY <3>3 DEF w
  <2> QED BY <2>1, <2>2, <2>3
<1>9. WholePerson(Found(row)) => ClearPerson(S, Found(row))
  <2>1. Found(row) = AsJson(row, Copy(Copy(NoNames, 0, a), NomeAt, n), Unpacked(s))
    BY Zenon DEF Found, a, n, s
  <2> QED BY <1>1, <1>2, <1>3, <1>4, <1>5, <1>6, <1>7, <2>1, RowIsClear, Zenon
<1>10. WholePerson(Lookup(row)) => ClearPerson(S, Lookup(row))
  <2> DEFINE x == Cut(a, ApelidoLen - 1)
             y == Cut(n, NomeLen - 1)
             z == Cut(s, TextLen - 1)
  <2>1. Lookup(row) = AsJson(row, Copy(Copy(NoNames, 0, x), NomeAt, y), Unpacked(z))
    BY Zenon DEF Lookup, a, n, s
  <2>2. /\ x \in Seq(D) /\ Len(x) \in Nat /\ Len(x) <= ApelidoLen - 1
        /\ y \in Seq(D) /\ Len(y) \in Nat /\ Len(y) <= NomeLen - 1
        /\ z \in Seq(Range(s))
    BY <1>6, <1>8, CutOver, Zenon
  <2> HIDE DEF x, y, z
  <2>3. Len(x) <= NamesEnd /\ Len(y) <= NomeLen + 1
    <3> DEFINE l == Len(x)
               m == Len(y)
    <3>1. l \in Nat /\ m \in Nat /\ l <= ApelidoLen - 1 /\ m <= NomeLen - 1
      BY <2>2, Zenon
    <3> HIDE DEF l, m
    <3>2. l <= NamesEnd /\ m <= NomeLen + 1
      BY <1>8, <3>1
    <3> QED BY <3>2 DEF l, m
  <2>4. IsSeq(z) /\ \A i \in 1..Len(z) : z[i] \in E \/ z[i] \in Delimiters
    BY <1>7, <2>2, Zenon
  <2> QED BY <1>2, <1>3, <1>4, <1>5, <2>1, <2>2, <2>3, <2>4, RowIsClear, Zenon
<1> QED BY <1>9, <1>10

\* Every answer is JSON, if no row needs an escape.
LEMMA AnswersOfRows ==
  ASSUME IInv, RInv, \A row \in Range(rows) : NeedsNoEscape(row)
  PROVE  /\ \A row \in Range(rows) :
              WholePerson(Lookup(row)) => IsJson(PersonText(Lookup(row)))
         /\ \A term : (\A p \in Range(Search(term)) : WholePerson(p)) =>
              IsJson(ListText(Search(term)))
<1> DEFINE S == Characters
<1>1. IsSeq(rows)
  BY Zenon DEF IInv, PessoaTypeOK
<1>2. Signs \subseteq S /\ \A i \in DOMAIN rows : ColumnsOf(rows[i]) \subseteq S
  BY Zenon DEF Characters
<1> HIDE DEF S
<1>3. \A i \in DOMAIN rows :
        /\ WholePerson(Lookup(rows[i])) => ClearPerson(S, Lookup(rows[i]))
        /\ WholePerson(Found(rows[i])) => ClearPerson(S, Found(rows[i]))
  <2> TAKE i \in DOMAIN rows
  <2>1. RowKept(rows[i])
    BY Zenon DEF RInv, RowsKept
  <2>2. NeedsNoEscape(rows[i])
    BY Zenon DEF Range
  <2> QED BY <1>2, <2>1, <2>2, ShownIsClear, Zenon
<1>4. \A row \in Range(rows) : WholePerson(Lookup(row)) => IsJson(PersonText(Lookup(row)))
  <2> TAKE row \in Range(rows)
  <2> HAVE WholePerson(Lookup(row))
  <2>1. PICK i \in DOMAIN rows : row = rows[i]
    BY Zenon DEF Range
  <2> QED BY <1>2, <1>3, <2>1, PersonIsJson, Zenon
<1>5. \A term : (\A p \in Range(Search(term)) : WholePerson(p)) =>
        IsJson(ListText(Search(term)))
  <2> TAKE term
  <2> DEFINE list == Search(term)
  <2> HAVE \A p \in Range(list) : WholePerson(p)
  <2>1. PICK g, shown : Listing(term, list, g, shown)
    BY <1>1, SearchIs, LimitIsNumber, Zenon
  <2> HIDE DEF list
  <2>2. /\ Len(g) \in Nat /\ shown \in 0..Len(g) /\ Len(list) = shown /\ DOMAIN list = 1..shown
        /\ \A j \in 1..Len(g) : g[j] \in DOMAIN rows
        /\ \A j \in 1..shown : list[j] = Found(rows[g[j]])
    BY <2>1, Zenon DEF Listing
  <2>3. shown \in Nat /\ \A j \in 1..shown : j \in 1..Len(g)
    BY <2>2
  <2>4. \A j \in 1..Len(list) : ClearPerson(S, list[j])
    <3>1. \A j \in 1..Len(list) : WholePerson(list[j])
      BY <2>2, Zenon DEF Range
    <3> QED BY <1>3, <2>2, <2>3, <3>1, Zenon
  <2>5. Len(list) \in Nat /\ DOMAIN list = 1..Len(list)
    BY <2>2, <2>3, Zenon
  <2> QED BY <1>2, <2>4, <2>5, ListIsJson, Zenon DEF list
<1> QED BY <1>4, <1>5

(* AnswersAreJson: for any limits, bodies and terms, a person in the       *)
(* answer to a lookup (pessoa_as_json, pessoa.c:57) and the list in the    *)
(* answer to a search (parse_pessoas_as_list) are JSON by its grammar,     *)
(* unless a text that was stored has a character that JSON wants to be     *)
(* escaped, or one that is shown was cut within a character.               *)
THEOREM AnswersParse == Spec => []AnswersAreJson
<1>1. IInv /\ RInv => AnswersAreJson
  <2> SUFFICES ASSUME IInv, RInv, \A row \in Range(rows) : NeedsNoEscape(row)
               PROVE  LET persons == {Lookup(row) : row \in Range(rows)}
                          lists == {Search(term) : term \in {u \in Terms : HasList(u)}}
                      IN  /\ \A p \in persons : WholePerson(p) => IsJson(PersonText(p))
                          /\ \A list \in lists :
                               (\A p \in Range(list) : WholePerson(p)) => IsJson(ListText(list))
    BY Zenon DEF AnswersAreJson
  <2> QED BY AnswersOfRows, Zenon
<1> QED BY <1>1, RowsHeld, PTL
=============================================================================
