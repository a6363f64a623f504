------------------------------ MODULE JsonLemmas ------------------------------
(***************************************************************************)
(* What the operators of JsonParse compute, for every text: where scanning *)
(* loops, strings and numbers end, and how many bytes a string is counted  *)
(* for and becomes.                                                        *)
(***************************************************************************)
EXTENDS JsonParse, DataLemmas

-----------------------------------------------------------------------------
(***************************************************************************)
(* Scanning                                                                *)
(***************************************************************************)

TextOK == text \in Seq(Lexemes)

\* A place is in the text, or has nothing.
LEMMA AtIs ==
  ASSUME TextOK, NEW i
  PROVE  /\ i \in 1..Len(text) <=> At(i) # "end"
         /\ i \in 1..Len(text) <=> At(i) \in Lexemes
         /\ Len(text) \in Nat
<1>1. Len(text) \in Nat /\ DOMAIN text = 1..Len(text)
  BY DEF TextOK
<1>2. \A j \in 1..Len(text) : text[j] \in Lexemes
  BY DEF TextOK
<1>3. "end" \notin Lexemes
  BY DEF Lexemes, White, Digits, Words, Units
<1> QED BY <1>1, <1>2, <1>3, Zenon DEF At

\* A scanning loop stops at the first place it does not take, at the end of the
\* text at the latest.
LEMMA PastIs ==
  ASSUME TextOK, NEW i \in Nat, NEW S, "end" \notin S
  PROVE  /\ Past(i, S) \in Nat /\ Past(i, S) >= i
         /\ i > 0 => At(Past(i, S)) \notin S
         /\ \A j \in i..(Past(i, S) - 1) : At(j) \in S
         /\ i <= Len(text) + 1 => Past(i, S) <= Len(text) + 1
         /\ i > Len(text) => Past(i, S) = i
<1> DEFINE T == {j \in i..(Len(text) + 1) : At(j) \notin S}
<1>1. Len(text) \in Nat
  BY AtIs
<1>2. \A j \in Nat : j > Len(text) => At(j) = "end"
  BY AtIs
<1>3. CASE i > Len(text)
  <2>1. Past(i, S) = i
    BY <1>3 DEF Past
  <2> QED BY <1>1, <1>2, <1>3, <2>1
<1>4. CASE ~(i > Len(text))
  <2>1. Len(text) + 1 \in T /\ T \subseteq Nat
    BY <1>1, <1>2, <1>4
  <2>2. Past(i, S) = Min(T)
    BY <1>4 DEF Past
  <2>3. Min(T) \in T /\ \A k \in T : Min(T) <= k
    BY <2>1, MinIs
  <2>4. ASSUME NEW j \in i..(Min(T) - 1) PROVE At(j) \in S
    BY <2>3, <2>4
  <2> QED BY <1>1, <1>4, <2>2, <2>3, <2>4
<1> QED BY <1>3, <1>4

\* It is the only such place.
LEMMA PastStops ==
  ASSUME TextOK, NEW i \in Nat, i > 0, NEW S, "end" \notin S,
         NEW e \in Nat, e >= i, At(e) \notin S, \A j \in i..(e - 1) : At(j) \in S
  PROVE  Past(i, S) = e
<1>1. /\ Past(i, S) \in Nat /\ Past(i, S) >= i /\ At(Past(i, S)) \notin S
      /\ \A j \in i..(Past(i, S) - 1) : At(j) \in S
  BY PastIs
<1>2. ~(Past(i, S) < e) /\ ~(e < Past(i, S))
  BY <1>1
<1> QED BY <1>1, <1>2

\* No loop takes the end of the text for one of its characters.
LEMMA NoEnd ==
  /\ "end" \notin White /\ "end" \notin Digits /\ "end" \notin NumberLexemes
  /\ "end" \notin Lexemes \ {"quote"} /\ "end" \notin Words \cup {"{", "["}
  BY DEF Lexemes, White, Digits, Words, Units, NumberLexemes

\* Digits end in the text or with it.
LEMMA PastDigits ==
  ASSUME TextOK, NEW i \in Nat, i > 0, i <= Len(text) + 1
  PROVE  /\ Past(i, Digits) \in Nat /\ Past(i, Digits) >= i
         /\ Past(i, Digits) <= Len(text) + 1
         /\ At(Past(i, Digits)) \notin Digits
         /\ \A j \in i..(Past(i, Digits) - 1) : At(j) \in Digits
  BY PastIs, NoEnd

\* White space ends in the text or with it.
LEMMA PastWhite ==
  ASSUME TextOK, NEW i \in Nat, i > 0
  PROVE  /\ Past(i, White) \in Nat /\ Past(i, White) >= i
         /\ i <= Len(text) + 1 => Past(i, White) <= Len(text) + 1
         /\ i > Len(text) => Past(i, White) = i
         /\ At(Past(i, White)) \notin White
         /\ \A j \in i..(Past(i, White) - 1) : At(j) \in White
  BY PastIs, NoEnd

\* A string that is taken ends in the text, after it began.
LEMMA StringEnds ==
  ASSUME TextOK, NEW i \in Nat, i > 0, IsString(i)
  PROVE  /\ i \in 1..Len(text) /\ At(i) = "quote"
         /\ Close(i) \in (i + 1)..Len(text)
         /\ \A j \in (i + 1)..(Close(i) - 1) : At(j) \in Lexemes \ {"quote"}
<1>1. i \in 1..Len(text) /\ At(i) = "quote" /\ Len(text) \in Nat
  BY AtIs DEF IsString
<1>2. Close(i) \in 1..Len(text)
  BY AtIs DEF IsString
<1>3. i + 1 \in Nat /\ i + 1 > 0
  OBVIOUS
<1>4. /\ Close(i) >= i + 1
      /\ \A j \in (i + 1)..(Close(i) - 1) : At(j) \in Lexemes \ {"quote"}
  BY <1>3, NoEnd, PastIs DEF Close
<1> QED BY <1>1, <1>2, <1>4

\* A number that is taken ends after it began, at most one past the end.
LEMMA NumberEnds ==
  ASSUME TextOK, NEW i \in Nat, i > 0, IsNumber(i)
  PROVE  /\ i \in 1..Len(text) /\ At(i) \in NumberStart
         /\ NumberEnd(i) \in (i + 1)..(Len(text) + 2)
         /\ \A j \in i..(NumberEnd(i) - 1) : At(j) \in NumberLexemes \cup {"end"}
         /\ NumberEnd(i) <= Len(text) + 1 => Past(i, NumberLexemes) = NumberEnd(i)
<1> DEFINE n == Number(i)
           L == Len(text)
           e == NumberEnd(i)
<1>0. L \in Nat /\ \A j : At(j) # "end" => j \in 1..L
  BY AtIs
<1>1. i \in 1..L /\ At(i) \in NumberStart
  BY AtIs, NoEnd DEF IsNumber, NumberStart
<1>2. /\ n.first = i + (IF At(i) = "-" THEN 1 ELSE 0)
      /\ n.whole = Past(n.first, Digits)
      /\ n.fraction = IF At(n.whole) = "." THEN Past(n.whole + 1, Digits) ELSE n.whole
      /\ n.power = n.fraction + (IF At(n.fraction + 1) \in {"-", "+"} THEN 2 ELSE 1)
      /\ e = IF At(n.fraction) = "e" THEN Past(n.power + 1, Digits) ELSE n.fraction
  BY DEF Number, NumberEnd
<1>3. /\ At(n.first) \in Digits \cup {"end"}
      /\ At(n.fraction) = "e" => At(n.power) \in Digits \cup {"end"}
      /\ At(e) \in White \cup {"}", ",", "]", "end"}
  BY DEF IsNumber
<1> HIDE DEF n, e
<1>4. /\ n.first \in i..(L + 1) /\ n.first <= i + 1 /\ n.first > 0
      /\ At(i) = "-" => n.first = i + 1
      /\ At(i) # "-" => n.first = i
  BY <1>0, <1>1, <1>2
<1>5. /\ n.whole \in (i + 1)..(L + 1) /\ n.whole >= n.first
      /\ \A j \in n.first..(n.whole - 1) : At(j) \in Digits
  <2>1. /\ n.whole \in Nat /\ n.whole >= n.first /\ n.whole <= L + 1
        /\ At(n.whole) \notin Digits
        /\ \A j \in n.first..(n.whole - 1) : At(j) \in Digits
    <3>1. n.first \in Nat /\ n.first > 0 /\ n.first <= L + 1
      BY <1>4
    <3> QED BY <1>2, <3>1, PastDigits
  <2>2. At(i) \in Digits => n.whole # i
    BY <2>1
  <2> QED BY <1>0, <1>1, <1>4, <2>1, <2>2 DEF NumberStart
<1>6. /\ n.fraction \in n.whole..(L + 1)
      /\ \A j \in n.whole..(n.fraction - 1) : At(j) \in Digits \cup {"."}
  <2>1. CASE At(n.whole) = "."
    <3>1. n.whole + 1 \in Nat /\ n.whole + 1 > 0 /\ n.whole + 1 <= L + 1
      BY <1>0, <1>5, <2>1
    <3>2. /\ n.fraction \in Nat /\ n.fraction >= n.whole + 1 /\ n.fraction <= L + 1
          /\ \A j \in (n.whole + 1)..(n.fraction - 1) : At(j) \in Digits
      BY <1>2, <2>1, <3>1, PastDigits
    <3> QED BY <1>0, <1>5, <2>1, <3>2
  <2>2. CASE At(n.whole) # "."
    BY <1>2, <1>5, <2>2
  <2> QED BY <2>1, <2>2
<1>7. /\ e \in n.fraction..(L + 2)
      /\ \A j \in n.fraction..(e - 1) : At(j) \in Digits \cup {"e", "-", "+", "end"}
  <2>1. CASE At(n.fraction) = "e"
    <3>1. n.fraction <= L /\ n.fraction \in Nat
      BY <1>0, <1>5, <1>6, <2>1
    <3>2. /\ n.power \in (n.fraction + 1)..(L + 1)
          /\ \A j \in n.fraction..(n.power - 1) : At(j) \in {"e", "-", "+"}
      <4>1. CASE At(n.fraction + 1) \in {"-", "+"}
        <5>1. n.fraction + 1 \in 1..L /\ n.power = n.fraction + 2
          BY <1>0, <1>2, <4>1
        <5> QED BY <1>0, <2>1, <3>1, <4>1, <5>1
      <4>2. CASE At(n.fraction + 1) \notin {"-", "+"}
        <5>1. n.power = n.fraction + 1
          BY <1>2, <4>2
        <5> QED BY <1>0, <2>1, <3>1, <5>1
      <4> QED BY <4>1, <4>2
    <3>3. e = Past(n.power + 1, Digits) /\ n.power + 1 \in Nat
      BY <1>2, <2>1, <3>1, <3>2
    <3>4. CASE n.power = L + 1
      <4>1. e = L + 2
        BY <1>0, <3>3, <3>4, PastIs, NoEnd
      <4>2. ASSUME NEW j \in n.fraction..(e - 1)
            PROVE  At(j) \in Digits \cup {"e", "-", "+", "end"}
        <5>1. j \in n.fraction..(n.power - 1) \/ j = n.power
          BY <1>0, <3>1, <3>2, <3>4, <4>1
        <5> QED BY <1>3, <2>1, <3>2, <5>1, Zenon
      <4> QED BY <1>0, <3>1, <4>1, <4>2
    <3>5. CASE n.power # L + 1
      <4>1. n.power \in 1..L /\ n.power \in Nat
        BY <1>0, <3>1, <3>2, <3>5
      <4>2. At(n.power) \in Digits
        <5>1. At(n.power) # "end"
          BY <4>1, AtIs
        <5> QED BY <1>3, <2>1, <5>1
      <4>3. /\ e \in Nat /\ e >= n.power + 1 /\ e <= L + 1
            /\ \A j \in (n.power + 1)..(e - 1) : At(j) \in Digits
        <5>1. n.power + 1 > 0 /\ n.power + 1 <= L + 1
          BY <1>0, <4>1
        <5> QED BY <3>3, <5>1, PastDigits
      <4>4. ASSUME NEW j \in n.fraction..(e - 1)
            PROVE  At(j) \in Digits \cup {"e", "-", "+", "end"}
        <5>1. j \in n.fraction..(n.power - 1) \/ j = n.power \/ j \in (n.power + 1)..(e - 1)
          BY <3>1, <4>1, <4>3
        <5> QED BY <3>2, <4>2, <4>3, <5>1, Zenon
      <4> QED BY <1>0, <3>1, <3>2, <4>3, <4>4
    <3> QED BY <3>4, <3>5
  <2>2. CASE At(n.fraction) # "e"
    <3>1. e = n.fraction
      BY <1>2, <2>2
    <3> QED BY <1>0, <1>5, <1>6, <3>1
  <2> QED BY <2>1, <2>2
<1>8. ASSUME NEW j \in i..(e - 1) PROVE At(j) \in NumberLexemes \cup {"end"}
  <2>1. \/ j \in i..(n.first - 1) \/ j \in n.first..(n.whole - 1)
        \/ j \in n.whole..(n.fraction - 1) \/ j \in n.fraction..(e - 1)
    BY <1>4, <1>5, <1>6, <1>7
  <2>2. j \in i..(n.first - 1) => j = i /\ At(i) = "-"
    BY <1>4
  <2> QED BY <1>5, <1>6, <1>7, <2>1, <2>2 DEF NumberLexemes
<1>9. e \in (i + 1)..(L + 2)
  BY <1>0, <1>5, <1>6, <1>7
<1>10. ASSUME e <= L + 1
       PROVE  Past(i, NumberLexemes) = e
  <2>1. ASSUME NEW j \in i..(e - 1) PROVE At(j) \in NumberLexemes
    <3>1. At(j) # "end"
      <4>1. j \in 1..L
        BY <1>0, <1>1, <1>9, <1>10
      <4> QED BY <4>1, AtIs
    <3> QED BY <1>8, <3>1
  <2>2. At(e) \notin NumberLexemes
    BY <1>3 DEF NumberLexemes, White, Digits
  <2>3. e \in Nat /\ e >= i
    BY <1>5, <1>6, <1>7
  <2> QED BY <2>1, <2>2, <2>3, PastStops, NoEnd
<1> QED BY <1>1, <1>8, <1>9, <1>10 DEF e

-----------------------------------------------------------------------------
(***************************************************************************)
(* The memory of a string                                                  *)
(***************************************************************************)

\* What each lexeme is counted for, and what it becomes (json.h:786-843 and
\* 1485-1577).
LEMMA SizedIs ==
  ASSUME NEW c \in Lexemes
  PROVE  /\ c = "u2" => Sized[c] = 2
         /\ c = "u3" => Sized[c] = 3
         /\ c \in {"low", "null"} => Sized[c] = 4
         /\ c = "false" => Sized[c] = 5
         /\ c \notin {"u2", "u3", "low", "null", "false"} => Sized[c] = 1
  BY Zenon DEF Sized

\* Every lexeme becomes some characters.
LEMMA BecomesIs ==
  ASSUME NEW c \in Lexemes
  PROVE  /\ c = "zero" => Becomes[c] = <<"bad">>
         /\ c = "u0" => Becomes[c] = <<"control">>
         /\ c = "high" => Becomes[c] = <<>>
         /\ c = "u1" => Becomes[c] = <<"a">>
         /\ c = "u2" => Becomes[c] = <<"a", "a">>
         /\ c = "u3" => Becomes[c] = <<"a", "a", "a">>
         /\ c \in {"low", "null"} => Becomes[c] = <<"a", "a", "a", "a">>
         /\ c = "false" => Becomes[c] = <<"a", "a", "a", "a", "a">>
         /\ c \notin {"zero", "u0", "high", "u1", "u2", "u3", "low", "null", "false"}
              => Becomes[c] = <<c>>
  BY Zenon DEF Becomes

Half(c) == IF c = "high" THEN 1 ELSE 0

\* The first pass counts one byte for each half of a surrogate pair that comes
\* first, and nothing is written for it.
LEMMA LexemeCounts ==
  ASSUME NEW c \in Lexemes
  PROVE  Becomes[c] \in Seq(Lexemes) /\ Sized[c] = Len(Becomes[c]) + Half(c)
<1>1. "a" \in Lexemes /\ "bad" \in Lexemes /\ "control" \in Lexemes
  BY DEF Lexemes
<1>2. \A x \in Lexemes :
        /\ <<>> \in Seq(Lexemes) /\ Len(<<>>) = 0
        /\ <<x>> \in Seq(Lexemes) /\ Len(<<x>>) = 1
        /\ <<x, x>> \in Seq(Lexemes) /\ Len(<<x, x>>) = 2
        /\ <<x, x, x>> \in Seq(Lexemes) /\ Len(<<x, x, x>>) = 3
        /\ <<x, x, x, x>> \in Seq(Lexemes) /\ Len(<<x, x, x, x>>) = 4
        /\ <<x, x, x, x, x>> \in Seq(Lexemes) /\ Len(<<x, x, x, x, x>>) = 5
  OBVIOUS
<1>3. CASE c \in {"zero", "u0", "u1"}
  <2>1. Sized[c] = 1 /\ Half(c) = 0
    BY <1>3, SizedIs DEF Half
  <2>2. Becomes[c] \in {<<"bad">>, <<"control">>, <<"a">>}
    BY <1>3, BecomesIs, Zenon
  <2>3. Becomes[c] \in Seq(Lexemes) /\ Len(Becomes[c]) = 1
    BY <1>1, <1>2, <2>2, Zenon
  <2> QED BY <2>1, <2>3
<1>4. CASE c = "high"
  <2>1. Sized[c] = 1 /\ Half(c) = 1
    BY <1>4, SizedIs DEF Half
  <2>2. Becomes[c] = <<>>
    BY <1>4, BecomesIs, Zenon
  <2>3. Becomes[c] \in Seq(Lexemes) /\ Len(Becomes[c]) = 0
    BY <1>1, <1>2, <2>2, Zenon
  <2> QED BY <2>1, <2>3
<1>5. CASE c = "u2"
  <2>1. Sized[c] = 2 /\ Half(c) = 0
    BY <1>5, SizedIs DEF Half
  <2>2. Becomes[c] = <<"a", "a">>
    BY <1>5, BecomesIs, Zenon
  <2>3. Becomes[c] \in Seq(Lexemes) /\ Len(Becomes[c]) = 2
    BY <1>1, <1>2, <2>2, Zenon
  <2> QED BY <2>1, <2>3
<1>6. CASE c = "u3"
  <2>1. Sized[c] = 3 /\ Half(c) = 0
    BY <1>6, SizedIs DEF Half
  <2>2. Becomes[c] = <<"a", "a", "a">>
    BY <1>6, BecomesIs, Zenon
  <2>3. Becomes[c] \in Seq(Lexemes) /\ Len(Becomes[c]) = 3
    BY <1>1, <1>2, <2>2, Zenon
  <2> QED BY <2>1, <2>3
<1>7. CASE c \in {"low", "null"}
  <2>1. Sized[c] = 4 /\ Half(c) = 0
    BY <1>7, SizedIs DEF Half
  <2>2. Becomes[c] = <<"a", "a", "a", "a">>
    BY <1>7, BecomesIs, Zenon
  <2>3. Becomes[c] \in Seq(Lexemes) /\ Len(Becomes[c]) = 4
    BY <1>1, <1>2, <2>2, Zenon
  <2> QED BY <2>1, <2>3
<1>8. CASE c = "false"
  <2>1. Sized[c] = 5 /\ Half(c) = 0
    BY <1>8, SizedIs DEF Half
  <2>2. Becomes[c] = <<"a", "a", "a", "a", "a">>
    BY <1>8, BecomesIs, Zenon
  <2>3. Becomes[c] \in Seq(Lexemes) /\ Len(Becomes[c]) = 5
    BY <1>1, <1>2, <2>2, Zenon
  <2> QED BY <2>1, <2>3
<1>9. CASE c \notin {"zero", "u0", "high", "u1", "u2", "u3", "low", "null", "false"}
  <2>1. Sized[c] = 1 /\ Half(c) = 0
    BY <1>9, SizedIs DEF Half
  <2>2. Becomes[c] = <<c>>
    BY <1>9, BecomesIs, Zenon
  <2>3. Becomes[c] \in Seq(Lexemes) /\ Len(Becomes[c]) = 1
    BY <1>1, <1>2, <2>2, Zenon
  <2> QED BY <2>1, <2>3
<1> QED BY <1>3, <1>4, <1>5, <1>6, <1>7, <1>8, <1>9

\* The halves of surrogate pairs from a to b.
Halves(a, b) == {j \in a..b : At(j) = "high"}

\* The surrogates up to a place are one more if it has one.
LEMMA HalvesGrow ==
  ASSUME NEW a \in Int, NEW b \in Int, a <= b + 1
  PROVE  /\ IsFiniteSet(Halves(a, b)) /\ Cardinality(Halves(a, b)) \in Nat
         /\ Cardinality(Halves(a, b + 1)) = Cardinality(Halves(a, b)) + Half(At(b + 1))
<1>1. IsFiniteSet(Halves(a, b)) /\ Cardinality(Halves(a, b)) \in Nat
  <2>1. Halves(a, b) \in SUBSET (a..b)
    BY DEF Halves
  <2> QED BY <2>1, FS_Interval, FS_Subset, FS_CardinalityType
<1>2. b + 1 \notin Halves(a, b)
  BY DEF Halves
<1>3. CASE At(b + 1) = "high"
  <2>1. Halves(a, b + 1) = Halves(a, b) \cup {b + 1}
    BY <1>3 DEF Halves
  <2>2. Cardinality(Halves(a, b) \cup {b + 1}) = Cardinality(Halves(a, b)) + 1
    BY <1>1, <1>2, FS_AddElement
  <2> QED BY <1>1, <1>3, <2>1, <2>2 DEF Half
<1>4. CASE At(b + 1) # "high"
  <2>1. Halves(a, b + 1) = Halves(a, b)
    BY <1>4 DEF Halves
  <2> QED BY <1>1, <1>4, <2>1 DEF Half
<1> QED BY <1>1, <1>3, <1>4

\* They add up.
LEMMA HalvesAdd ==
  ASSUME NEW a \in Nat, NEW b \in Nat, NEW c \in Nat, a <= b + 1, b <= c
  PROVE  /\ Cardinality(Halves(a, c)) = Cardinality(Halves(a, b)) + Cardinality(Halves(b + 1, c))
         /\ Cardinality(Halves(a, b)) \in Nat /\ Cardinality(Halves(b + 1, c)) \in Nat
<1>1. /\ IsFiniteSet(Halves(a, b)) /\ IsFiniteSet(Halves(b + 1, c))
      /\ Cardinality(Halves(a, b)) \in Nat /\ Cardinality(Halves(b + 1, c)) \in Nat
  BY HalvesGrow
<1>2. Halves(a, c) = Halves(a, b) \cup Halves(b + 1, c)
  BY DEF Halves
<1>3. Halves(a, b) \cap Halves(b + 1, c) = {}
  BY DEF Halves
<1> QED BY <1>1, <1>2, <1>3, FS_Union, FS_EmptySet

\* Where there is none, none is added.
LEMMA HalvesStay ==
  ASSUME NEW a \in Nat, NEW b \in Nat, NEW c \in Nat, a <= b + 1, b <= c,
         \A j \in (b + 1)..c : At(j) # "high"
  PROVE  Cardinality(Halves(a, c)) = Cardinality(Halves(a, b))
  BY DEF Halves

\* The count of the first pass goes on from one lexeme to the next (json.h:845).
LEMMA BytesRecursion ==
  ASSUME TextOK, NEW i \in Nat, i > 0, IsString(i)
  PROVE  \E f \in [i..(Close(i) - 1) -> Nat] :
           /\ Bytes(i) = f[Close(i) - 1] /\ f[i] = 1
           /\ \A j \in (i + 1)..(Close(i) - 1) : f[j] = f[j - 1] + Sized[text[j]]
<1> DEFINE b == Close(i) - 1
           F(g) == [j \in i..b |-> IF j = i THEN 1 ELSE g[j - 1] + Sized[text[j]]]
           f == CHOOSE g : g = F(g)
           D == [j \in (i + 1)..b |-> [v \in Nat |-> v + Sized[text[j]]]]
<1>1. i \in Int /\ b \in Int /\ i <= b
  BY StringEnds
<1>2. \A j \in (i + 1)..b : Sized[text[j]] \in Nat
  <2>1. ASSUME NEW j \in (i + 1)..b PROVE Sized[text[j]] \in Nat
    <3>1. At(j) \in Lexemes /\ At(j) = text[j]
      BY StringEnds, AtIs DEF At
    <3>2. Len(Becomes[text[j]]) \in Nat /\ Half(text[j]) \in Nat
      BY <3>1, LexemeCounts DEF Half
    <3>3. Sized[text[j]] = Len(Becomes[text[j]]) + Half(text[j])
      BY <3>1, LexemeCounts
    <3> QED BY <3>2, <3>3
  <2> QED BY <2>1
<1> HIDE DEF b
<1>3. ASSUME NEW j \in (i + 1)..b, NEW v \in Nat
      PROVE  D[j][v] = v + Sized[text[j]] /\ D[j][v] \in Nat
  <2>1. D[j][v] = v + Sized[text[j]]
    BY Zenon
  <2>2. v + Sized[text[j]] \in Nat
    BY <1>2
  <2> QED BY <2>1, <2>2, Zenon
<1> HIDE DEF D
<1>4. StepsIn(Nat, i, b, D)
  BY <1>3, Zenon DEF StepsIn
<1>5. Recursive(Nat, i, b, 1, D)
  <2>1. 1 \in Nat
    OBVIOUS
  <2> QED BY <1>1, <1>4, <2>1, RecursionExists
<1>6. PICK g \in [i..b -> Nat] : \A j \in i..b : g[j] = IF j = i THEN 1 ELSE D[j][g[j - 1]]
  BY <1>5, Zenon DEF Recursive
<1>7. g = F(g)
  <2>1. ASSUME NEW j \in i..b, j # i PROVE D[j][g[j - 1]] = g[j - 1] + Sized[text[j]]
    <3>1. j \in (i + 1)..b /\ j - 1 \in i..b
      BY <1>1, <2>1
    <3>2. g[j - 1] \in Nat
      BY <1>6, <3>1, Zenon
    <3> QED BY <1>3, <3>1, <3>2, Zenon
  <2> QED BY <1>6, <2>1, Zenon
<1>8. f = F(f)
  <2> HIDE DEF F
  <2> QED BY <1>7, Zenon
<1>9. Bytes(i) = f[b]
  BY Zenon DEF Bytes, b
<1> HIDE DEF f
<1>10. f[i] = 1 /\ \A j \in (i + 1)..b : f[j] = f[j - 1] + Sized[text[j]]
  <2>1. \A j \in i..b : f[j] = IF j = i THEN 1 ELSE f[j - 1] + Sized[text[j]]
    BY <1>8, Zenon
  <2>2. i \in i..b /\ \A j \in (i + 1)..b : j \in i..b /\ j # i
    BY <1>1
  <2> QED BY <2>1, <2>2, Zenon
<1>11. \A j \in i..b : f[j] \in Nat
  <2> DEFINE T == {k \in Nat : i + k <= b => f[i + k] \in Nat}
  <2>1. 0 \in T
    BY <1>10
  <2>2. ASSUME NEW k \in Nat, k \in T PROVE k + 1 \in T
    <3> SUFFICES ASSUME i + (k + 1) <= b PROVE f[i + (k + 1)] \in Nat
      OBVIOUS
    <3>1. f[i + k] \in Nat /\ i + (k + 1) \in (i + 1)..b /\ (i + (k + 1)) - 1 = i + k
      BY <1>1, <2>2
    <3>2. f[i + (k + 1)] = f[i + k] + Sized[text[i + (k + 1)]]
      BY <1>10, <3>1, Zenon
    <3> QED BY <1>2, <3>1, <3>2
  <2>3. \A k \in Nat : k \in T
    <3> HIDE DEF T
    <3> QED BY <2>1, <2>2, SetInduction
  <2>4. ASSUME NEW j \in i..b PROVE f[j] \in Nat
    <3>1. j - i \in Nat /\ i + (j - i) = j /\ j <= b
      BY <1>1
    <3>2. j - i \in T
      BY <2>3, <3>1
    <3> QED BY <3>1, <3>2
  <2> QED BY <2>4
<1>12. f \in [i..b -> Nat]
  BY <1>8, <1>11
<1> QED BY <1>9, <1>10, <1>12 DEF b

\* A string is counted for what is written of it, and one byte for each surrogate
\* pair in it (json.h:786-858 and 1457-1587).
LEMMA StringCounts ==
  ASSUME TextOK, NEW i \in Nat, i > 0, IsString(i)
  PROVE  /\ Bytes(i) \in Nat /\ Decoded(i) \in Seq(Lexemes) /\ Len(Decoded(i)) \in Nat
         /\ Bytes(i) = Len(Decoded(i)) + 1 + Cardinality(Halves(i + 1, Close(i) - 1))
<1> DEFINE n == Close(i) - i - 1
           ss == [j \in 1..n |-> Becomes[text[i + j]]]
<1>1. n \in Nat /\ i + n = Close(i) - 1
  BY StringEnds
<1>2. ASSUME NEW j \in 1..n
      PROVE  /\ ss[j] \in Seq(Lexemes) /\ Len(ss[j]) \in Nat
             /\ Sized[text[i + j]] = Len(ss[j]) + Half(At(i + j))
  <2>1. i + j \in (i + 1)..(Close(i) - 1)
    BY <1>1
  <2>2. At(i + j) \in Lexemes
    BY <2>1, StringEnds
  <2>3. At(i + j) = text[i + j]
    BY <2>2, AtIs DEF At
  <2>4. ss[j] = Becomes[text[i + j]]
    BY Zenon
  <2> QED BY <2>2, <2>3, <2>4, LexemeCounts
<1>3. ss \in Seq(Seq(Lexemes)) /\ Len(ss) = n
  <2>1. ss = [j \in 1..n |-> ss[j]]
    BY Zenon
  <2> HIDE DEF ss, n
  <2> QED BY <1>1, <1>2, <2>1, FunctionIsSeq
<1>4. Decoded(i) = FlattenSeq(ss)
  BY Zenon DEF Decoded
<1> HIDE DEF ss, n
<1>5. Decoded(i) \in Seq(Lexemes) /\ Len(Decoded(i)) \in Nat
  BY <1>3, <1>4, FlattenIsSeq
<1>0. PICK f \in [i..(Close(i) - 1) -> Nat] :
        /\ Bytes(i) = f[Close(i) - 1] /\ f[i] = 1
        /\ \A j \in (i + 1)..(Close(i) - 1) : f[j] = f[j - 1] + Sized[text[j]]
  BY BytesRecursion, Zenon
<1>6. /\ f \in [i..(i + n) -> Nat] /\ Bytes(i) = f[i + n] /\ f[i] = 1
      /\ \A j \in (i + 1)..(i + n) : f[j] = f[j - 1] + Sized[text[j]]
  BY <1>0, <1>1, Zenon
<1>7. Cardinality(Halves(i + 1, i + 0)) = 0
  <2>1. Halves(i + 1, i + 0) = {}
    BY DEF Halves
  <2> QED BY <2>1, FS_EmptySet
<1>8. CASE n = 0
  <2>1. Decoded(i) = <<>>
    <3>1. ss = <<>>
      BY <1>3, <1>8
    <3>2. FlattenSeq(ss) = ss
      BY <1>3, <1>8, Zenon DEF FlattenSeq
    <3> QED BY <1>4, <3>1, <3>2, Zenon
  <2>2. Len(Decoded(i)) = 0
    BY <1>8, <2>1
  <2> QED BY <1>1, <1>5, <1>6, <1>7, <1>8, <2>2
<1>9. CASE n # 0
  <2>1. PICK g : Flattens(Lexemes, ss, g) /\ FlattenSeq(ss) = g[n]
    <3>1. ss # <<>>
      BY <1>3, <1>9
    <3> QED BY <1>3, <3>1, FlattenRecursion
  <2>2. /\ g[1] = ss[1]
        /\ \A k \in 2..n : g[k] = g[k - 1] \o ss[k]
        /\ \A k \in 1..n : g[k] \in Seq(Lexemes)
    <3>1. 1 \in 1..n /\ \A k \in 2..n : k \in 1..n /\ k # 1
      BY <1>1, <1>9
    <3> QED BY <1>3, <2>1, <3>1, Zenon DEF Flattens
  <2> DEFINE T == {k \in Nat : k + 1 <= n =>
                     f[i + (k + 1)] = Len(g[k + 1]) + 1
                                        + Cardinality(Halves(i + 1, i + (k + 1)))}
  <2>3. ASSUME NEW k \in 0..(n - 1)
        PROVE  /\ f[i + (k + 1)] = f[i + k] + Len(ss[k + 1]) + Half(At(i + (k + 1)))
               /\ Cardinality(Halves(i + 1, i + k)) \in Nat
               /\ Cardinality(Halves(i + 1, i + (k + 1)))
                    = Cardinality(Halves(i + 1, i + k)) + Half(At(i + (k + 1)))
               /\ Half(At(i + (k + 1))) \in Nat /\ f[i + k] \in Nat /\ Len(ss[k + 1]) \in Nat
    <3>1. i + (k + 1) \in (i + 1)..(i + n) /\ (i + (k + 1)) - 1 = i + k /\ k + 1 \in 1..n
      BY <1>1
    <3>2. f[i + (k + 1)] = f[i + k] + Sized[text[i + (k + 1)]]
      BY <1>6, <3>1, Zenon
    <3>3. /\ Sized[text[i + (k + 1)]] = Len(ss[k + 1]) + Half(At(i + (k + 1)))
          /\ Len(ss[k + 1]) \in Nat
      BY <1>2, <3>1
    <3>4. i + 1 \in Int /\ i + k \in Int /\ i + 1 <= (i + k) + 1 /\ (i + k) + 1 = i + (k + 1)
      OBVIOUS
    <3>5. /\ Cardinality(Halves(i + 1, i + k)) \in Nat
          /\ Cardinality(Halves(i + 1, (i + k) + 1))
               = Cardinality(Halves(i + 1, i + k)) + Half(At((i + k) + 1))
      BY <3>4, HalvesGrow
    <3>6. f[i + k] \in Nat /\ Half(At(i + (k + 1))) \in Nat
      BY <1>1, <1>6 DEF Half
    <3> QED BY <3>2, <3>3, <3>4, <3>5, <3>6
  <2>4. 0 \in T
    <3>1. f[i + 1] = f[i + 0] + Len(ss[1]) + Half(At(i + 1))
          /\ Cardinality(Halves(i + 1, i + 1)) = Half(At(i + 1))
          /\ Half(At(i + 1)) \in Nat /\ Len(ss[1]) \in Nat /\ f[i + 0] = 1
      <4>1. 0 \in 0..(n - 1) /\ 0 + 1 = 1 /\ i + 0 = i
        BY <1>1, <1>9
      <4> QED BY <1>6, <1>7, <2>3, <4>1
    <3> QED BY <2>2, <3>1
  <2>5. ASSUME NEW k \in Nat, k \in T PROVE k + 1 \in T
    <3> SUFFICES ASSUME (k + 1) + 1 <= n
                 PROVE  f[i + ((k + 1) + 1)] = Len(g[(k + 1) + 1]) + 1
                          + Cardinality(Halves(i + 1, i + ((k + 1) + 1)))
      OBVIOUS
    <3>1. f[i + (k + 1)] = Len(g[k + 1]) + 1 + Cardinality(Halves(i + 1, i + (k + 1)))
      BY <1>1, <2>5
    <3>2. k + 1 \in 0..(n - 1) /\ (k + 1) + 1 \in 2..n /\ k + 1 \in 1..n
          /\ ((k + 1) + 1) - 1 = k + 1 /\ (k + 1) + 1 \in 1..n
      BY <1>1
    <3>3. g[(k + 1) + 1] = g[k + 1] \o ss[(k + 1) + 1]
      BY <2>2, <3>2, Zenon
    <3>4. /\ Len(g[(k + 1) + 1]) = Len(g[k + 1]) + Len(ss[(k + 1) + 1])
          /\ Len(g[k + 1]) \in Nat
      BY <1>2, <2>2, <3>2, <3>3, ConcatProperties
    <3> DEFINE c == k + 1
    <3>5. c \in 0..(n - 1)
      BY <3>2
    <3> HIDE DEF c
    <3>6. /\ f[i + (c + 1)] = f[i + c] + Len(ss[c + 1]) + Half(At(i + (c + 1)))
          /\ Cardinality(Halves(i + 1, i + c)) \in Nat
          /\ Cardinality(Halves(i + 1, i + (c + 1)))
               = Cardinality(Halves(i + 1, i + c)) + Half(At(i + (c + 1)))
          /\ Half(At(i + (c + 1))) \in Nat /\ f[i + c] \in Nat /\ Len(ss[c + 1]) \in Nat
      BY <2>3, <3>5
    <3>7. f[i + c] = Len(g[c]) + 1 + Cardinality(Halves(i + 1, i + c))
      BY <3>1 DEF c
    <3>8. Len(g[c + 1]) = Len(g[c]) + Len(ss[c + 1]) /\ Len(g[c]) \in Nat
      BY <3>4 DEF c
    <3>9. f[i + (c + 1)] = Len(g[c + 1]) + 1 + Cardinality(Halves(i + 1, i + (c + 1)))
      <4> DEFINE f1 == f[i + c]
                 f2 == f[i + (c + 1)]
                 l1 == Len(g[c])
                 l2 == Len(g[c + 1])
                 h1 == Cardinality(Halves(i + 1, i + c))
                 h2 == Cardinality(Halves(i + 1, i + (c + 1)))
                 l == Len(ss[c + 1])
                 h == Half(At(i + (c + 1)))
      <4>1. f2 = f1 + l + h /\ h2 = h1 + h /\ f1 = l1 + 1 + h1 /\ l2 = l1 + l
        BY <3>6, <3>7, <3>8, Zenon
      <4>2. f1 \in Nat /\ l \in Nat /\ h \in Nat /\ h1 \in Nat /\ l1 \in Nat
        BY <3>6, <3>8, Zenon
      <4>3. f2 = l2 + 1 + h2
        <5> HIDE DEF f1, f2, l1, l2, h1, h2, l, h
        <5> QED BY <4>1, <4>2
      <4> QED BY <4>3, Zenon
    <3> QED BY <3>9 DEF c
  <2>6. \A k \in Nat : k \in T
    <3> HIDE DEF T
    <3> QED BY <2>4, <2>5, SetInduction
  <2>7. n - 1 \in Nat /\ (n - 1) + 1 = n
    BY <1>1, <1>9
  <2>8. n - 1 \in T
    BY <2>6, <2>7
  <2>9. f[i + n] = Len(g[n]) + 1 + Cardinality(Halves(i + 1, i + n))
    BY <2>7, <2>8
  <2> QED BY <1>1, <1>4, <1>5, <1>6, <2>1, <2>9
<1> QED BY <1>8, <1>9

-----------------------------------------------------------------------------
(***************************************************************************)
(* Brackets and quotation marks                                            *)
(***************************************************************************)

Openers == {"{", "["}
Closers == {"}", "]"}
Loud == {"quote", "{", "[", "}", "]"}

\* The brackets before a that are not in a string, and the quotation marks.
Brackets(a, S) == {i \in DOMAIN text : i < a /\ text[i] \in S /\ ~InString(i)}
Quotes(i) == {j \in 1..(i - 1) : text[j] = "quote"}

\* Nothing between a and b opens or closes anything.
Kept(a, b) ==
  /\ InString(a) <=> InString(b)
  /\ Brackets(b, Openers) = Brackets(a, Openers)
  /\ Brackets(b, Closers) = Brackets(a, Closers)

\* The quotation marks before a place are finitely many, and decide whether it is
\* in a string.
LEMMA QuotesAre ==
  ASSUME NEW i \in Nat
  PROVE  /\ IsFiniteSet(Quotes(i)) /\ Cardinality(Quotes(i)) \in Nat
         /\ InString(i) <=> Cardinality(Quotes(i)) % 2 = 1
<1>1. IsFiniteSet(1..(i - 1))
  BY FS_Interval
<1>2. IsFiniteSet(Quotes(i))
  BY <1>1, FS_Subset DEF Quotes
<1>3. Cardinality(Quotes(i)) \in Nat
  BY <1>2, FS_CardinalityType
<1> QED BY <1>2, <1>3 DEF InString, Quotes

\* So are the brackets.
LEMMA BracketsAre ==
  ASSUME TextOK, NEW a, NEW S
  PROVE  IsFiniteSet(Brackets(a, S)) /\ Cardinality(Brackets(a, S)) \in Nat
<1>1. IsFiniteSet(1..Len(text)) /\ DOMAIN text = 1..Len(text)
  BY AtIs, FS_Interval DEF TextOK
<1>2. IsFiniteSet(Brackets(a, S))
  BY <1>1, FS_Subset DEF Brackets
<1> QED BY <1>2, FS_CardinalityType

\* Other lexemes open and close nothing.
LEMMA QuietKeeps ==
  ASSUME TextOK, NEW a \in Nat, NEW b \in Nat, a > 0, a <= b, b <= Len(text) + 1,
         \A j \in a..(b - 1) : At(j) \notin Loud
  PROVE  Kept(a, b)
<1>1. /\ Len(text) \in Nat /\ DOMAIN text = 1..Len(text)
      /\ \A j \in 1..Len(text) : At(j) = text[j]
  BY AtIs DEF At, TextOK
<1>2. ASSUME NEW j \in a..(b - 1)
      PROVE  j \in 1..Len(text) /\ text[j] \notin Loud
  BY <1>1
<1>3. Quotes(a) = Quotes(b)
  <2>1. \A j \in 1..(b - 1) : j \in 1..(a - 1) \/ j \in a..(b - 1)
    OBVIOUS
  <2>2. \A j \in 1..(a - 1) : j \in 1..(b - 1)
    OBVIOUS
  <2>3. \A x : x = "quote" => x \in Loud
    BY DEF Loud
  <2> QED BY <1>2, <2>1, <2>2, <2>3, Zenon DEF Quotes
<1>4. ASSUME NEW S, S \subseteq Loud
      PROVE  Brackets(b, S) = Brackets(a, S)
  <2>1. \A j \in DOMAIN text : j < b => j < a \/ j \in a..(b - 1)
    BY <1>1
  <2>2. \A j \in DOMAIN text : j < a => j < b
    BY <1>1
  <2> QED BY <1>2, <1>4, <2>1, <2>2, Zenon DEF Brackets
<1>5. Openers \subseteq Loud /\ Closers \subseteq Loud
  BY DEF Openers, Closers, Loud
<1>6. InString(a) <=> InString(b)
  BY <1>3, QuotesAre
<1> QED BY <1>4, <1>5, <1>6, Zenon DEF Kept

\* What two stretches of a text keep, they keep together.
LEMMA KeptOn ==
  ASSUME NEW a, NEW b, NEW c, Kept(a, b), Kept(b, c)
  PROVE  Kept(a, c)
  BY Zenon DEF Kept

\* A string that begins outside of one ends outside, and its brackets are in it.
LEMMA StringKeeps ==
  ASSUME TextOK, NEW i \in Nat, i > 0, IsString(i), ~InString(i)
  PROVE  Kept(i, Close(i) + 1)
<1> DEFINE e == Close(i)
<1>1. /\ i \in 1..Len(text) /\ At(i) = "quote" /\ e \in (i + 1)..Len(text) /\ At(e) = "quote"
      /\ \A j \in (i + 1)..(e - 1) : At(j) \in Lexemes \ {"quote"}
      /\ Len(text) \in Nat /\ e \in Nat
  BY StringEnds, AtIs DEF IsString
<1>2. DOMAIN text = 1..Len(text) /\ \A j \in 1..Len(text) : At(j) = text[j]
  BY AtIs DEF At, TextOK
<1>3. text[i] = "quote" /\ text[e] = "quote" /\ \A j \in (i + 1)..(e - 1) : text[j] # "quote"
  <2>1. e \in 1..Len(text) /\ \A j \in (i + 1)..(e - 1) : j \in 1..Len(text)
    BY <1>1
  <2> QED BY <1>1, <1>2, <2>1, Zenon
<1> HIDE DEF e
<1>4. ASSUME NEW j \in (i + 1)..e
      PROVE  Quotes(j) = Quotes(i) \cup {i} /\ j \in Nat
  <2>1. \A x : x \in 1..(j - 1) <=> (x \in 1..(i - 1) \/ x = i \/ x \in (i + 1)..(j - 1))
    BY <1>1
  <2>2. \A x : x \in (i + 1)..(j - 1) => x \in (i + 1)..(e - 1)
    BY <1>1
  <2>3. Quotes(j) = Quotes(i) \cup {i}
    BY <1>3, <2>1, <2>2, Zenon DEF Quotes
  <2> QED BY <1>1, <2>3
<1>5. Quotes(e + 1) = Quotes(e) \cup {e}
  <2>1. \A x : x \in 1..((e + 1) - 1) <=> (x \in 1..(e - 1) \/ x = e)
    BY <1>1
  <2> QED BY <1>3, <2>1, Zenon DEF Quotes
<1>6. i \notin Quotes(i) /\ e \notin Quotes(e)
  BY <1>1 DEF Quotes
<1>7. ASSUME NEW j \in (i + 1)..e
      PROVE  InString(j) /\ Cardinality(Quotes(j)) = Cardinality(Quotes(i)) + 1
  <2>1. Cardinality(Quotes(j)) = Cardinality(Quotes(i)) + 1
    BY <1>4, <1>6, QuotesAre, FS_AddElement
  <2>2. Cardinality(Quotes(i)) \in Nat /\ ~(Cardinality(Quotes(i)) % 2 = 1)
    BY QuotesAre
  <2>3. Cardinality(Quotes(j)) % 2 = 1
    BY <2>1, <2>2
  <2> QED BY <1>4, <2>1, <2>3, QuotesAre
<1>8. ~InString(e + 1)
  <2>1. e \in (i + 1)..e
    BY <1>1
  <2>2. Cardinality(Quotes(e + 1)) = Cardinality(Quotes(i)) + 2
    <3>1. Cardinality(Quotes(e + 1)) = Cardinality(Quotes(e)) + 1
      BY <1>1, <1>5, <1>6, QuotesAre, FS_AddElement
    <3>2. Cardinality(Quotes(i)) \in Nat
      BY QuotesAre
    <3> QED BY <1>7, <2>1, <3>1, <3>2
  <2>3. Cardinality(Quotes(i)) \in Nat /\ ~(Cardinality(Quotes(i)) % 2 = 1)
    BY QuotesAre
  <2>4. ~(Cardinality(Quotes(e + 1)) % 2 = 1) /\ e + 1 \in Nat
    BY <1>1, <2>2, <2>3
  <2> QED BY <2>4, QuotesAre
<1>9. ASSUME NEW S, "quote" \notin S
      PROVE  Brackets(e + 1, S) = Brackets(i, S)
  <2>1. \A j \in DOMAIN text : j < e + 1 => j < i \/ j = i \/ j \in (i + 1)..e
    BY <1>1, <1>2
  <2>2. \A j \in DOMAIN text : j < i => j < e + 1
    BY <1>1, <1>2
  <2> QED BY <1>3, <1>7, <1>9, <2>1, <2>2, Zenon DEF Brackets
<1>10. "quote" \notin Openers /\ "quote" \notin Closers
  BY DEF Openers, Closers
<1> QED BY <1>8, <1>9, <1>10, Zenon DEF Kept, e

\* A bracket outside of a string counts.
LEMMA BracketCounts ==
  ASSUME TextOK, NEW i \in 1..Len(text), ~InString(i), NEW S
  PROVE  /\ At(i) \in S =>
              Cardinality(Brackets(i + 1, S)) = Cardinality(Brackets(i, S)) + 1
         /\ At(i) \notin S => Brackets(i + 1, S) = Brackets(i, S)
<1>1. Len(text) \in Nat /\ DOMAIN text = 1..Len(text) /\ At(i) = text[i]
  BY AtIs DEF At, TextOK
<1>2. \A j \in DOMAIN text : j < i + 1 <=> j < i \/ j = i
  BY <1>1
<1>3. ~(i < i)
  BY <1>1
<1>4. ASSUME At(i) \in S
      PROVE  Brackets(i + 1, S) = Brackets(i, S) \cup {i} /\ i \notin Brackets(i, S)
  BY <1>1, <1>2, <1>3, <1>4, Zenon DEF Brackets
<1>5. ASSUME At(i) \notin S
      PROVE  Brackets(i + 1, S) = Brackets(i, S)
  BY <1>1, <1>2, <1>5, Zenon DEF Brackets
<1>6. IsFiniteSet(Brackets(i, S))
  BY BracketsAre
<1> QED BY <1>4, <1>5, <1>6, FS_AddElement

\* What is no quotation mark begins and ends no string.
LEMMA NoQuoteStays ==
  ASSUME TextOK, NEW i \in 1..Len(text), ~InString(i), At(i) # "quote"
  PROVE  ~InString(i + 1)
<1>1. Len(text) \in Nat /\ At(i) = text[i] /\ i \in Nat /\ i + 1 \in Nat
  BY AtIs DEF At, TextOK
<1>2. \A j : j \in 1..((i + 1) - 1) <=> (j \in 1..(i - 1) \/ j = i)
  BY <1>1
<1>3. Quotes(i + 1) = Quotes(i)
  BY <1>1, <1>2, Zenon DEF Quotes
<1> QED BY <1>1, <1>3, QuotesAre

===============================================================================
