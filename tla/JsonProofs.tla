------------------------------ MODULE JsonProofs ------------------------------
(***************************************************************************)
(* The second pass of json_parse takes the steps that the first one took,  *)
(* for every text.                                                         *)
(*                                                                         *)
(* A configuration is a place where the first pass has been, with what     *)
(* either pass has counted when it is there.  The configurations of a run  *)
(* of the first pass are a set in which each one but the last has its      *)
(* successor; the second pass is at one of them, or at a comma behind it.  *)
(***************************************************************************)
EXTENDS JsonLemmas

-----------------------------------------------------------------------------
(***************************************************************************)
(* The calls that have not returned                                        *)
(***************************************************************************)

IsFrame(c) ==
  /\ c = [kind |-> c.kind, n |-> c.n, comma |-> c.comma, name |-> c.name, got |-> c.got]
  /\ c.kind \in {"object", "array"} /\ c.n \in Nat /\ c.comma \in BOOLEAN

IsStack(s) == \E V : s \in Seq(V) /\ \A c \in V : IsFrame(c)

\* A stack is a sequence of calls.
LEMMA StackIs ==
  ASSUME NEW s, IsStack(s)
  PROVE  /\ Len(s) \in Nat /\ DOMAIN s = 1..Len(s)
         /\ s = <<>> <=> Len(s) = 0
         /\ \A k \in 1..Len(s) : IsFrame(s[k])
         /\ s # <<>> => Last(s) = s[Len(s)] /\ IsFrame(Last(s)) /\ Len(s) \in 1..Len(s)
<1>1. PICK V : s \in Seq(V) /\ \A c \in V : IsFrame(c)
  BY DEF IsStack
<1>2. Len(s) \in Nat /\ DOMAIN s = 1..Len(s) /\ (s = <<>> <=> Len(s) = 0)
  BY <1>1
<1>3. \A k \in 1..Len(s) : IsFrame(s[k])
  BY <1>1
<1> QED BY <1>2, <1>3 DEF Last

\* The call of an object or an array is put on it.
LEMMA StackPush ==
  ASSUME NEW s, IsStack(s), NEW kind \in {"object", "array"}
  PROVE  LET t == Calls(s, kind)
         IN  /\ IsStack(t) /\ Len(t) = Len(s) + 1 /\ t # <<>>
             /\ \A k \in 1..Len(s) : t[k] = s[k]
             /\ t[Len(s) + 1] = Call(kind) /\ Last(t) = Call(kind)
<1>1. PICK V : s \in Seq(V) /\ \A c \in V : IsFrame(c)
  BY DEF IsStack
<1> DEFINE c == Call(kind)
           W == V \cup {c}
           t == Append(s, c)
<1>2. IsFrame(c)
  BY DEF IsFrame, Call
<1> HIDE DEF c
<1>3. s \in Seq(W) /\ c \in W /\ \A x \in W : IsFrame(x)
  BY <1>1, <1>2
<1>4. /\ t \in Seq(W) /\ Len(t) = Len(s) + 1 /\ t # <<>>
      /\ \A k \in 1..Len(s) : t[k] = s[k]
      /\ t[Len(s) + 1] = c
  BY <1>3
<1>5. IsStack(t) /\ Last(t) = c
  BY <1>3, <1>4, Zenon DEF IsStack, Last
<1> QED BY <1>4, <1>5 DEF Calls, c

\* What is below the last call.
LEMMA FrontIs ==
  ASSUME NEW V, NEW s \in Seq(V), s # <<>>
  PROVE  /\ Front(s) \in Seq(V) /\ Len(Front(s)) = Len(s) - 1
         /\ \A k \in 1..(Len(s) - 1) : Front(s)[k] = s[k]
<1>1. Len(s) \in Nat /\ Len(s) >= 1
  OBVIOUS
<1> DEFINE m == Len(s) - 1
<1>2. m \in Nat /\ m <= Len(s)
  BY <1>1
<1> HIDE DEF m
<1>3. /\ SubSeq(s, 1, m) \in Seq(V) /\ Len(SubSeq(s, 1, m)) = m
      /\ \A k \in 1..m : SubSeq(s, 1, m)[k] = s[k]
  BY <1>1, <1>2
<1> QED BY <1>3 DEF Front, m

\* The last call returns.
LEMMA StackPop ==
  ASSUME NEW s, IsStack(s), s # <<>>
  PROVE  /\ IsStack(Front(s)) /\ Len(Front(s)) = Len(s) - 1
         /\ \A k \in 1..(Len(s) - 1) : Front(s)[k] = s[k]
<1>1. PICK V : s \in Seq(V) /\ \A c \in V : IsFrame(c)
  BY DEF IsStack
<1>2. /\ Front(s) \in Seq(V) /\ Len(Front(s)) = Len(s) - 1
      /\ \A k \in 1..(Len(s) - 1) : Front(s)[k] = s[k]
  BY <1>1, FrontIs
<1> QED BY <1>1, <1>2, Zenon DEF IsStack

\* The last call changes.
LEMMA StackTop ==
  ASSUME NEW s, IsStack(s), s # <<>>, NEW c, IsFrame(c)
  PROVE  LET t == [s EXCEPT ![Len(s)] = c]
         IN  /\ IsStack(t) /\ Len(t) = Len(s) /\ t # <<>>
             /\ \A k \in 1..(Len(s) - 1) : t[k] = s[k]
             /\ t[Len(s)] = c /\ Last(t) = c
<1>1. PICK V : s \in Seq(V) /\ \A x \in V : IsFrame(x)
  BY DEF IsStack
<1> DEFINE W == V \cup {c}
           t == [s EXCEPT ![Len(s)] = c]
<1>2. s \in Seq(W) /\ c \in W /\ \A x \in W : IsFrame(x) /\ Len(s) \in 1..Len(s)
  BY <1>1
<1>3. /\ t \in Seq(W) /\ Len(t) = Len(s) /\ t # <<>>
      /\ \A k \in 1..(Len(s) - 1) : t[k] = s[k]
      /\ t[Len(s)] = c
  BY <1>2
<1>4. IsStack(t) /\ Last(t) = c
  BY <1>2, <1>3, Zenon DEF IsStack, Last
<1> QED BY <1>3, <1>4

\* The last call counts a value.
LEMMA CountedIs ==
  ASSUME NEW s, IsStack(s)
  PROVE  /\ IsStack(Counted(s)) /\ Len(Counted(s)) = Len(s)
         /\ s = <<>> => Counted(s) = <<>>
         /\ \A k \in 1..(Len(s) - 1) : Counted(s)[k] = s[k]
         /\ s # <<>> =>
              /\ Counted(s) # <<>> /\ Last(Counted(s)) = Counted(s)[Len(s)]
              /\ Last(Counted(s)).kind = Last(s).kind /\ Last(Counted(s)).comma
              /\ Last(Counted(s)).n = Last(s).n + 1
<1>1. CASE s = <<>>
  BY <1>1, StackIs DEF Counted
<1>2. CASE s # <<>>
  <2> DEFINE c == [Last(s) EXCEPT !.n = @ + 1, !.comma = TRUE]
  <2>1. IsFrame(Last(s)) /\ Len(s) \in Nat /\ Len(s) >= 1
    BY <1>2, StackIs
  <2>2. /\ c.kind = Last(s).kind /\ c.n = Last(s).n + 1 /\ c.comma = TRUE
        /\ c = [kind |-> c.kind, n |-> c.n, comma |-> c.comma, name |-> c.name, got |-> c.got]
    <3>1. PICK r : r = Last(s)
      BY Zenon
    <3>2. r = [kind |-> r.kind, n |-> r.n, comma |-> r.comma, name |-> r.name, got |-> r.got]
      BY <2>1, <3>1, Zenon DEF IsFrame
    <3>3. PICK k, n, x, y, g :
            r = [kind |-> k, n |-> n, comma |-> x, name |-> y, got |-> g]
      BY <3>2, Zenon
    <3>4. c = [r EXCEPT !.n = r.n + 1, !.comma = TRUE]
      BY <3>1, Zenon
    <3> HIDE DEF c
    <3>5. /\ c.kind = r.kind /\ c.n = r.n + 1 /\ c.comma = TRUE
          /\ c = [kind |-> c.kind, n |-> c.n, comma |-> c.comma, name |-> c.name, got |-> c.got]
      BY <3>3, <3>4
    <3> QED BY <3>1, <3>5, Zenon
  <2>3. IsFrame(c)
    BY <2>1, <2>2 DEF IsFrame
  <2> HIDE DEF c
  <2>4. PICK V : s \in Seq(V) /\ \A x \in V : IsFrame(x)
    BY DEF IsStack
  <2> DEFINE W == V \cup {c}
             t == Append(Front(s), c)
  <2>5. Front(s) \in Seq(W) /\ Len(Front(s)) = Len(s) - 1 /\ c \in W
        /\ \A k \in 1..(Len(s) - 1) : Front(s)[k] = s[k]
    <3>1. s \in Seq(W) /\ c \in W
      BY <2>4
    <3> QED BY <1>2, <3>1, FrontIs
  <2>6. /\ t \in Seq(W) /\ Len(t) = Len(s) /\ t # <<>> /\ t[Len(s)] = c
        /\ \A k \in 1..(Len(s) - 1) : t[k] = s[k]
    BY <2>1, <2>5
  <2>7. IsStack(t) /\ Last(t) = c
    <3>1. \A x \in W : IsFrame(x)
      BY <2>3, <2>4
    <3> QED BY <2>6, <3>1, Zenon DEF IsStack, Last
  <2>8. Counted(s) = t
    BY <1>2, Zenon DEF Counted, c
  <2> QED BY <1>2, <2>2, <2>6, <2>7, <2>8, Zenon
<1> QED BY <1>1, <1>2

-----------------------------------------------------------------------------
(***************************************************************************)
(* What the second pass has used before the first one counts it            *)
(***************************************************************************)

WordsOf(kind) == IF kind = "object" THEN MemberSize ELSE ElementSize
Kids(kind, n) == n * WordsOf(kind)

\* The first pass counts the members of an object when it ends, the second pass
\* takes the words one by one.
LEMMA KidsAre ==
  ASSUME NEW kind, NEW n \in Nat
  PROVE  /\ WordsOf(kind) \in Nat /\ Kids(kind, n) \in Nat
         /\ Kids(kind, 0) = 0
         /\ Kids(kind, n + 1) = Kids(kind, n) + WordsOf(kind)
<1>1. CASE kind = "object"
  BY <1>1 DEF Kids, WordsOf, MemberSize
<1>2. CASE kind # "object"
  BY <1>2 DEF Kids, WordsOf, ElementSize
<1> QED BY <1>1, <1>2

(* base[k] words were used and not counted when the call k began.          *)
IsBase(stack, base) ==
  /\ base \in Seq(Nat) /\ Len(base) = Len(stack)
  /\ stack # <<>> => base[1] = 0
  /\ \A k \in 1..(Len(stack) - 1) :
       base[k + 1] = base[k] + Kids(stack[k].kind, stack[k].n + 1)

(* The words that are used and not counted, and a value if one is due.     *)
Due(stack, base, w) ==
  IF stack = <<>> THEN IF w = "value" THEN ValueSize ELSE 0
  ELSE Last(base) + Kids(Last(stack).kind, Last(stack).n)
         + (IF w = "value" THEN WordsOf(Last(stack).kind) + ValueSize ELSE 0)

(* The calls and their values all took some lexeme of the text.            *)
HasRoom(stack, a) == \A k \in 1..Len(stack) : stack[k].n + 2 + (Len(stack) - k) <= a

\* There is as much room further on.
LEMMA RoomGrows ==
  ASSUME NEW s, IsStack(s), NEW a \in Nat, HasRoom(s, a), NEW e \in Nat, e >= a
  PROVE  HasRoom(s, e)
<1> SUFFICES ASSUME NEW k \in 1..Len(s)
             PROVE  s[k].n + 2 + (Len(s) - k) <= e
  BY DEF HasRoom
<1>1. s[k].n \in Nat /\ Len(s) \in Nat /\ k \in Nat
  <2>1. IsFrame(s[k]) /\ Len(s) \in Nat
    BY StackIs
  <2>2. s[k].n \in Nat
    BY <2>1, Zenon DEF IsFrame
  <2> QED BY <2>1, <2>2
<1>2. s[k].n + 2 + (Len(s) - k) <= a
  BY DEF HasRoom
<1> QED BY <1>1, <1>2

\* What is due is a number of words: nothing when the root was taken, and a value and
\* its link more when a call wants its next one.
LEMMA DueIs ==
  ASSUME NEW s, IsStack(s), NEW base, IsBase(s, base)
  PROVE  /\ \A w : Due(s, base, w) \in Nat
         /\ Due(s, base, "value") >= ValueSize
         /\ s = <<>> => Due(s, base, "value") = ValueSize /\ Due(s, base, "end") = 0
         /\ s # <<>> => Due(s, base, "value")
                          = Due(s, base, "more") + WordsOf(Last(s).kind) + ValueSize
<1>1. CASE s = <<>>
  BY <1>1 DEF Due, ValueSize
<1>2. CASE s # <<>>
  <2>1. Last(s).n \in Nat /\ Len(s) \in 1..Len(s) /\ Len(s) \in Nat
    BY <1>2, StackIs DEF IsFrame
  <2>2. Last(base) \in Nat
    BY <2>1 DEF IsBase, Last
  <2>3. Kids(Last(s).kind, Last(s).n) \in Nat /\ WordsOf(Last(s).kind) \in Nat
    BY <2>1, KidsAre
  <2> QED BY <1>2, <2>2, <2>3 DEF Due, ValueSize
<1> QED BY <1>1, <1>2

\* A value was taken.
LEMMA CountedDue ==
  ASSUME NEW s, IsStack(s), NEW base, IsBase(s, base), NEW a \in Nat, HasRoom(s, a),
         NEW e \in Nat, e > a
  PROVE  /\ IsBase(Counted(s), base) /\ HasRoom(Counted(s), e)
         /\ Due(Counted(s), base, NextWant(s)) = Due(s, base, "value") - ValueSize
<1>1. CASE s = <<>>
  <2>1. Counted(s) = <<>> /\ NextWant(s) = "end"
    BY <1>1, CountedIs DEF NextWant
  <2> QED BY <1>1, <2>1, DueIs DEF HasRoom, ValueSize
<1>2. CASE s # <<>>
  <2> DEFINE t == Counted(s)
  <2>1. /\ IsStack(t) /\ Len(t) = Len(s) /\ t # <<>>
        /\ \A k \in 1..(Len(s) - 1) : t[k] = s[k]
        /\ Last(t).kind = Last(s).kind /\ Last(t).n = Last(s).n + 1
        /\ t[Len(s)].n = s[Len(s)].n + 1
    <3>1. /\ IsStack(t) /\ Len(t) = Len(s) /\ t # <<>>
          /\ \A k \in 1..(Len(s) - 1) : t[k] = s[k]
          /\ Last(t) = t[Len(s)]
          /\ Last(t).kind = Last(s).kind /\ Last(t).n = Last(s).n + 1
      BY <1>2, CountedIs
    <3>2. Last(s) = s[Len(s)]
      BY <1>2, StackIs
    <3> QED BY <3>1, <3>2, Zenon
  <2>2. NextWant(s) = "more"
    BY <1>2 DEF NextWant
  <2>3. Len(s) \in Nat /\ Len(s) >= 1 /\ Last(s).n \in Nat /\ Last(base) \in Nat
    <3>1. Len(s) \in 1..Len(s) /\ Len(s) \in Nat /\ Last(s).n \in Nat
      BY <1>2, StackIs DEF IsFrame
    <3> QED BY <3>1 DEF IsBase, Last
  <2> HIDE DEF t
  <2>4. IsBase(t, base)
    BY <1>2, <2>1 DEF IsBase
  <2>5. HasRoom(t, e)
    <3>1. ASSUME NEW k \in 1..Len(t) PROVE t[k].n + 2 + (Len(t) - k) <= e
      <4>1. s[k].n \in Nat /\ s[k].n + 2 + (Len(s) - k) <= a
        BY <2>1, <3>1, StackIs DEF HasRoom, IsFrame
      <4>2. t[k].n = s[k].n \/ t[k].n = s[k].n + 1
        <5>1. k \in 1..(Len(s) - 1) \/ k = Len(s)
          BY <2>1, <2>3, <3>1
        <5> QED BY <2>1, <5>1
      <4> QED BY <2>1, <2>3, <4>1, <4>2
    <3> QED BY <3>1 DEF HasRoom
  <2>6. Due(t, base, "more") = Due(s, base, "value") - ValueSize
    <3>1. /\ Kids(Last(t).kind, Last(t).n) = Kids(Last(s).kind, Last(s).n) + WordsOf(Last(s).kind)
          /\ Kids(Last(s).kind, Last(s).n) \in Nat /\ WordsOf(Last(s).kind) \in Nat
      BY <2>1, <2>3, KidsAre
    <3> QED BY <1>2, <2>1, <2>3, <3>1 DEF Due, ValueSize
  <2> QED BY <2>2, <2>4, <2>5, <2>6 DEF t
<1> QED BY <1>1, <1>2

\* An object or an array begins.
LEMMA CallDue ==
  ASSUME NEW s, IsStack(s), NEW base, IsBase(s, base), NEW a \in Nat, HasRoom(s, a),
         NEW e \in Nat, e > a, a > 0, NEW kind \in {"object", "array"}
  PROVE  LET t == Calls(s, kind)
             b == Append(base, Due(s, base, "value") - ValueSize)
         IN  /\ IsBase(t, b) /\ HasRoom(t, e)
             /\ Due(t, b, "more") = Due(s, base, "value") - ValueSize
<1> DEFINE t == Calls(s, kind)
           d == Due(s, base, "value") - ValueSize
           b == Append(base, d)
<1>1. /\ IsStack(t) /\ Len(t) = Len(s) + 1 /\ t # <<>>
      /\ \A k \in 1..Len(s) : t[k] = s[k]
      /\ t[Len(s) + 1] = Call(kind) /\ Last(t) = Call(kind)
  BY StackPush
<1>2. d \in Nat
  BY DueIs DEF ValueSize
<1>3. Call(kind).kind = kind /\ Call(kind).n = 0
  BY DEF Call
<1>4. Len(s) \in Nat /\ base \in Seq(Nat) /\ Len(base) = Len(s)
  BY StackIs DEF IsBase
<1>5. s # <<>> => d = base[Len(s)] + Kids(s[Len(s)].kind, s[Len(s)].n + 1)
  <2> SUFFICES ASSUME s # <<>> PROVE d = base[Len(s)] + Kids(s[Len(s)].kind, s[Len(s)].n + 1)
    OBVIOUS
  <2>1. Last(s) = s[Len(s)] /\ Last(base) = base[Len(s)] /\ s[Len(s)].n \in Nat
        /\ base[Len(s)] \in Nat
    <3>1. Len(s) \in 1..Len(s) /\ Last(s) = s[Len(s)] /\ s[Len(s)].n \in Nat
      BY StackIs DEF IsFrame
    <3> QED BY <1>4, <3>1 DEF Last
  <2>2. /\ Kids(s[Len(s)].kind, s[Len(s)].n + 1)
             = Kids(s[Len(s)].kind, s[Len(s)].n) + WordsOf(s[Len(s)].kind)
        /\ Kids(s[Len(s)].kind, s[Len(s)].n) \in Nat /\ WordsOf(s[Len(s)].kind) \in Nat
    BY <2>1, KidsAre
  <2>3. Due(s, base, "value") = base[Len(s)] + Kids(s[Len(s)].kind, s[Len(s)].n)
                                  + (WordsOf(s[Len(s)].kind) + ValueSize)
    BY <2>1, Zenon DEF Due
  <2> QED BY <2>1, <2>2, <2>3 DEF ValueSize
<1>6. s = <<>> => d = 0
  BY DueIs DEF ValueSize
<1> HIDE DEF t, d
<1>7. /\ b \in Seq(Nat) /\ Len(b) = Len(s) + 1 /\ b[Len(s) + 1] = d /\ Last(b) = d
      /\ \A k \in 1..Len(s) : b[k] = base[k]
  BY <1>2, <1>4 DEF Last
<1> HIDE DEF b
<1>8. IsBase(t, b)
  <2>1. b[1] = 0
    <3>1. CASE s = <<>>
      BY <1>6, <1>7, <3>1, StackIs
    <3>2. CASE s # <<>>
      BY <1>7, <3>2, StackIs DEF IsBase
    <3> QED BY <3>1, <3>2
  <2>2. ASSUME NEW k \in 1..(Len(t) - 1)
        PROVE  b[k + 1] = b[k] + Kids(t[k].kind, t[k].n + 1)
    <3>1. k \in 1..Len(s) /\ b[k] = base[k] /\ t[k] = s[k]
      BY <1>1, <1>4, <1>7, <2>2
    <3>2. CASE k = Len(s)
      <4>1. s # <<>>
        BY <3>1, StackIs
      <4> QED BY <1>5, <1>7, <3>1, <3>2, <4>1
    <3>3. CASE k # Len(s)
      <4>1. k \in 1..(Len(s) - 1) /\ k + 1 \in 1..Len(s)
        BY <1>4, <3>1, <3>3
      <4>2. b[k + 1] = base[k + 1]
        BY <1>7, <4>1
      <4> QED BY <3>1, <4>1, <4>2 DEF IsBase
    <3> QED BY <3>2, <3>3
  <2> QED BY <1>1, <1>7, <2>1, <2>2 DEF IsBase
<1>9. HasRoom(t, e)
  <2>1. ASSUME NEW k \in 1..Len(t) PROVE t[k].n + 2 + (Len(t) - k) <= e
    <3> DEFINE L == Len(s)
    <3>0. L \in Nat /\ Len(t) = L + 1 /\ k \in 1..(L + 1)
      BY <1>1, <1>4, <2>1, Zenon
    <3>1. CASE k = Len(s) + 1
      BY <1>1, <1>3, <1>4, <3>1
    <3>2. CASE k # Len(s) + 1
      <4>1. k \in 1..Len(s) /\ t[k] = s[k]
        BY <1>1, <1>4, <2>1, <3>2
      <4>2. s[k].n \in Nat /\ s[k].n + 2 + (Len(s) - k) <= a
        BY <4>1, StackIs DEF HasRoom, IsFrame
      <4> DEFINE n == s[k].n
      <4>3. n \in Nat /\ n + 2 + (L - k) <= a /\ t[k].n = n
        BY <4>1, <4>2, Zenon
      <4> HIDE DEF n, L
      <4>4. n + 2 + ((L + 1) - k) <= e
        BY <3>0, <4>3
      <4> QED BY <3>0, <4>3, <4>4, Zenon
    <3> QED BY <3>1, <3>2
  <2> QED BY <2>1 DEF HasRoom
<1>10. Due(t, b, "more") = d
  <2>1. Kids(Last(t).kind, Last(t).n) = 0
    BY <1>1, <1>3, KidsAre
  <2> QED BY <1>1, <1>2, <1>7, <2>1 DEF Due
<1> QED BY <1>8, <1>9, <1>10 DEF t, b, d

\* An object or an array ends, and is a value of its caller.
LEMMA CloseDue ==
  ASSUME NEW s, IsStack(s), s # <<>>, NEW base, IsBase(s, base),
         NEW a \in Nat, HasRoom(s, a), NEW e \in Nat, e >= a
  PROVE  LET t == Counted(Front(s))
             k == Kids(Last(s).kind, Last(s).n)
         IN  /\ IsBase(t, Front(base)) /\ HasRoom(t, e) /\ k \in Nat
             /\ Due(t, Front(base), NextWant(Front(s))) = Due(s, base, "more") - k
<1> DEFINE f == Front(s)
           t == Counted(f)
           b == Front(base)
           L == Len(s)
<1>1. L \in Nat /\ L >= 1 /\ Last(s) = s[L] /\ s[L].n \in Nat
  BY StackIs DEF IsFrame
<1>2. IsStack(f) /\ Len(f) = L - 1 /\ \A k \in 1..(L - 1) : f[k] = s[k]
  BY StackPop
<1>3. /\ b \in Seq(Nat) /\ Len(b) = L - 1 /\ \A k \in 1..(L - 1) : b[k] = base[k]
      /\ Last(base) = base[L] /\ base[L] \in Nat
  <2>1. base \in Seq(Nat) /\ Len(base) = L /\ base # <<>>
    BY <1>1 DEF IsBase
  <2> QED BY <1>1, <2>1, FrontIs DEF Last
<1>4. Kids(s[L].kind, s[L].n) \in Nat
  BY <1>1, KidsAre
<1>5. Due(s, base, "more") = base[L] + Kids(s[L].kind, s[L].n)
  BY <1>1, <1>3, <1>4 DEF Due
<1>6. CASE L = 1
  <2>1. f = <<>> /\ t = <<>> /\ NextWant(f) = "end"
    <3>1. f = <<>>
      BY <1>2, <1>6, StackIs
    <3> QED BY <1>2, <3>1, CountedIs, Zenon DEF NextWant
  <2>2. IsBase(t, b) /\ HasRoom(t, e)
    BY <1>3, <1>6, <2>1 DEF IsBase, HasRoom
  <2>3. Due(t, b, "end") = 0 /\ base[L] = 0
    BY <1>6, <2>1 DEF Due, IsBase
  <2> QED BY <1>1, <1>4, <1>5, <2>1, <2>2, <2>3
<1>7. CASE L # 1
  <2>1. f # <<>> /\ NextWant(f) = "more" /\ L - 1 \in 1..(L - 1) /\ L - 1 \in Nat
    BY <1>1, <1>2, <1>7, StackIs DEF NextWant
  <2>2. /\ IsStack(t) /\ Len(t) = L - 1 /\ t # <<>>
        /\ \A k \in 1..(L - 2) : t[k] = s[k]
        /\ Last(t) = t[L - 1]
        /\ t[L - 1].kind = s[L - 1].kind /\ t[L - 1].n = s[L - 1].n + 1
        /\ s[L - 1].n \in Nat
    <3>1. /\ IsStack(t) /\ Len(t) = L - 1 /\ t # <<>>
          /\ \A k \in 1..((L - 1) - 1) : t[k] = f[k]
          /\ Last(t) = t[L - 1]
          /\ Last(t).kind = Last(f).kind /\ Last(t).n = Last(f).n + 1
      BY <1>2, <2>1, CountedIs
    <3>2. Last(f) = s[L - 1] /\ Last(f).n \in Nat
      BY <1>2, <2>1, StackIs DEF IsFrame
    <3>3. \A k \in 1..(L - 2) : k \in 1..((L - 1) - 1) /\ k \in 1..(L - 1)
      BY <1>1
    <3> QED BY <1>2, <3>1, <3>2, <3>3
  <2>3. /\ base[L] = base[L - 1] + Kids(s[L - 1].kind, s[L - 1].n + 1)
        /\ base[L - 1] \in Nat /\ Last(b) = base[L - 1]
    <3>1. (L - 1) + 1 = L /\ L - 1 \in 1..(Len(s) - 1)
      BY <1>1, <2>1
    <3>2. base[(L - 1) + 1] = base[L - 1] + Kids(s[L - 1].kind, s[L - 1].n + 1)
      BY <3>1, Zenon DEF IsBase
    <3>3. Last(b) = base[L - 1]
      BY <1>3, <2>1, Zenon DEF Last
    <3>4. base \in Seq(Nat) /\ Len(base) = L
      BY DEF IsBase
    <3>5. base[L - 1] \in Nat
      BY <1>1, <2>1, <3>4
    <3> QED BY <3>1, <3>2, <3>3, <3>5
  <2>4. Kids(s[L - 1].kind, s[L - 1].n + 1) \in Nat
    BY <2>2, KidsAre
  <2> HIDE DEF t, b, f, L
  <2>5. IsBase(t, b)
    <3>1. b[1] = 0
      <4>1. base[1] = 0
        BY Zenon DEF IsBase
      <4>2. 1 \in 1..(L - 1)
        BY <2>1
      <4> QED BY <1>3, <4>1, <4>2, Zenon
    <3>2. ASSUME NEW k \in 1..(Len(t) - 1)
          PROVE  b[k + 1] = b[k] + Kids(t[k].kind, t[k].n + 1)
      <4>1. k \in 1..(L - 2) /\ k \in 1..(L - 1) /\ k + 1 \in 1..(L - 1)
        BY <1>1, <2>2, <3>2
      <4>2. base[k + 1] = base[k] + Kids(s[k].kind, s[k].n + 1)
        BY <4>1 DEF IsBase, L
      <4> QED BY <1>3, <2>2, <4>1, <4>2
    <3> QED BY <1>3, <2>2, <3>1, <3>2 DEF IsBase
  <2>6. HasRoom(t, e)
    <3>1. ASSUME NEW k \in 1..Len(t) PROVE t[k].n + 2 + (Len(t) - k) <= e
      <4>1. k \in 1..L /\ (k \in 1..(L - 2) \/ k = L - 1)
        BY <1>1, <2>2, <3>1
      <4>2. s[k].n \in Nat /\ s[k].n + 2 + (L - k) <= a
        BY <4>1, StackIs DEF HasRoom, IsFrame, L
      <4>3. t[k].n <= s[k].n + 1 /\ t[k].n \in Nat
        BY <2>2, <4>1, <4>2
      <4>4. CASE k = L - 1
        BY <1>1, <2>2, <4>2, <4>3, <4>4
      <4>5. CASE k \in 1..(L - 2)
        <5>1. t[k].n = s[k].n /\ k \in Nat
          BY <2>2, <4>5
        <5>2. Len(t) - k = (L - k) - 1 /\ L - k \in Int
          BY <1>1, <2>2, <5>1
        <5> QED BY <4>2, <5>1, <5>2
      <4> QED BY <4>1, <4>4, <4>5
    <3> QED BY <3>1 DEF HasRoom
  <2>7. Due(t, b, "more") = base[L - 1] + Kids(s[L - 1].kind, s[L - 1].n + 1)
    BY <2>2, <2>3, <2>4 DEF Due
  <2> QED BY <1>1, <1>3, <1>4, <1>5, <2>1, <2>3, <2>4, <2>5, <2>6, <2>7 DEF t, b, f
<1> QED BY <1>6, <1>7

-----------------------------------------------------------------------------
(***************************************************************************)
(* Configurations                                                          *)
(***************************************************************************)

Starts(s, t) == Len(s) <= Len(t) /\ \A k \in 1..Len(s) : s[k] = t[k]

(* ds and da are counted by the first pass when it is at c, dom and data   *)
(* are used by the second one when it is there.                            *)
ConfigOK(c) ==
  /\ c.want \in {"value", "more", "end"} /\ c.at \in 1..(Len(text) + 2)
  /\ c.want = "more" => c.open # <<>>
  /\ c.want = "end" => c.open = <<>>
  /\ IsStack(c.open) /\ IsBase(c.open, c.base) /\ HasRoom(c.open, c.at)
  /\ {c.ds, c.da, c.dom, c.data} \subseteq Nat
  /\ c.dom = c.ds + Due(c.open, c.base, c.want)
  /\ c.da = c.data + Cardinality(Halves(1, c.at - 1))
  /\ c.seen \in Seq(Nat)

Advances(c, d) ==
  /\ ConfigOK(d)
  /\ c.at <= d.at /\ c.dom <= d.dom /\ c.data <= d.data /\ Starts(c.seen, d.seen)

Start == [at |-> 1, want |-> "value", open |-> <<>>, base |-> <<>>,
          ds |-> 0, da |-> 0, dom |-> ValueSize, data |-> 0, seen |-> <<>>]

Moved(c, e, w, stack, base, words, bytes, used, written, seen) ==
  [at |-> e, want |-> w, open |-> stack, base |-> base,
   ds |-> c.ds + words, da |-> c.da + bytes,
   dom |-> c.dom + used, data |-> c.data + written, seen |-> seen]

(* Where it reads next, and where a key or an element is.                  *)
H(c) == Past(c.at, White)
PlaceOf(c) ==
  IF ~Last(c.open).comma THEN H(c)
  ELSE IF At(H(c)) = "," THEN Past(H(c) + 1, White) ELSE 0
CloserOf(c) == IF Last(c.open).kind = "object" THEN "}" ELSE "]"

(* The bytes that are counted for a string, by what they are (StringCounts). *)
BytesOf(i) == Len(Decoded(i)) + 1 + Cardinality(Halves(i + 1, Close(i) - 1))

AfterScalar(c, e, words, bytes, written) ==
  Moved(c, e, NextWant(c.open), Counted(c.open), c.base,
        ValueSize + words, bytes, words, written, Append(c.seen, H(c)))
AfterString(c) ==
  AfterScalar(c, Close(H(c)) + 1, PayloadSize, BytesOf(H(c)), Len(Decoded(H(c))) + 1)
AfterNumber(c) ==
  AfterScalar(c, NumberEnd(H(c)), PayloadSize,
              NumberEnd(H(c)) - H(c) + 1, NumberEnd(H(c)) - H(c) + 1)
AfterWord(c) == AfterScalar(c, H(c) + 1, 0, 0, 0)
AfterOpen(c) ==
  Moved(c, H(c) + 1, "more",
        Calls(c.open, IF At(H(c)) = "{" THEN "object" ELSE "array"),
        Append(c.base, Due(c.open, c.base, "value") - ValueSize),
        ValueSize + PayloadSize, 0, PayloadSize, 0, Append(c.seen, H(c)))
AfterMember(c) ==
  Moved(c, Colon(PlaceOf(c)) + 1, "value", c.open, c.base,
        PayloadSize, BytesOf(PlaceOf(c)),
        MemberSize + PayloadSize + ValueSize, Len(Decoded(PlaceOf(c))) + 1,
        Append(c.seen, PlaceOf(c)))
AfterElement(c) ==
  Moved(c, PlaceOf(c), "value", c.open, c.base, 0, 0, ElementSize + ValueSize, 0, c.seen)
AfterClose(c) ==
  Moved(c, IF At(H(c)) = CloserOf(c) THEN H(c) + 1 ELSE c.at,
        NextWant(Front(c.open)), Counted(Front(c.open)), Front(c.base),
        Kids(Last(c.open).kind, Last(c.open).n), 0, 0, 0, c.seen)

(* A step of the first pass, and what the second pass does for it.         *)
TakesValue(c, d) ==
  /\ c.want = "value"
  /\ \/ IsString(H(c)) /\ d = AfterString(c)
     \/ IsNumber(H(c)) /\ d = AfterNumber(c)
     \/ At(H(c)) \in Words /\ d = AfterWord(c)
     \/ At(H(c)) \in {"{", "["} /\ d = AfterOpen(c)
TakesMember(c, d) ==
  /\ c.want = "more" /\ Last(c.open).kind = "object"
  /\ At(H(c)) # "}" /\ IsKey(PlaceOf(c)) /\ d = AfterMember(c)
TakesElement(c, d) ==
  /\ c.want = "more" /\ Last(c.open).kind = "array"
  /\ At(H(c)) # "]" /\ At(PlaceOf(c)) # "end" /\ d = AfterElement(c)
Closes(c, d) ==
  /\ c.want = "more"
  /\ \/ At(H(c)) = CloserOf(c)
     \/ Last(c.open).kind = "object" /\ c.at = Len(text) + 2
  /\ d = AfterClose(c)
Steps(c, d) == TakesValue(c, d) \/ TakesMember(c, d) \/ TakesElement(c, d) \/ Closes(c, d)

\* A sequence starts with itself, and with what starts a start of it.
LEMMA StartsIs ==
  /\ \A s \in Seq(Nat) : Starts(s, s) /\ \A x \in Nat : Starts(s, Append(s, x))
  /\ \A s, t, u \in Seq(Nat) : Starts(s, t) /\ Starts(t, u) => Starts(s, u)
  /\ \A s, t \in Seq(Nat) : Starts(s, t) => IsPrefix(s, t)
<1>1. \A s \in Seq(Nat) : Starts(s, s) /\ \A x \in Nat : Starts(s, Append(s, x))
  BY DEF Starts
<1>2. \A s, t, u \in Seq(Nat) : Starts(s, t) /\ Starts(t, u) => Starts(s, u)
  BY DEF Starts
<1>3. ASSUME NEW s \in Seq(Nat), NEW t \in Seq(Nat), Starts(s, t)
      PROVE  IsPrefix(s, t)
  <2>1. SubSeq(s, 1, Len(s)) = SubSeq(t, 1, Len(s))
    BY <1>3 DEF Starts
  <2> QED BY <1>3, <2>1 DEF IsPrefix, Starts
<1> QED BY <1>1, <1>2, <1>3

\* Where a configuration reads next.
LEMMA HereIs ==
  ASSUME TextOK, NEW c, ConfigOK(c)
  PROVE  /\ Len(text) \in Nat /\ c.at \in Nat /\ c.at > 0 /\ c.at <= Len(text) + 2
         /\ H(c) \in Nat /\ H(c) >= c.at /\ H(c) > 0
         /\ c.at <= Len(text) + 1 => H(c) <= Len(text) + 1
         /\ At(H(c)) \notin White
         /\ \A j \in c.at..(H(c) - 1) : At(j) # "high"
<1>1. Len(text) \in Nat /\ c.at \in Nat /\ c.at > 0 /\ c.at <= Len(text) + 2
  BY AtIs DEF ConfigOK
<1>2. "high" \notin White
  BY DEF White
<1>3. /\ H(c) \in Nat /\ H(c) >= c.at
      /\ c.at <= Len(text) + 1 => H(c) <= Len(text) + 1
      /\ At(H(c)) \notin White
      /\ \A j \in c.at..(H(c) - 1) : At(j) \in White
  BY <1>1, PastWhite, Zenon DEF H
<1>4. H(c) > 0
  BY <1>1, <1>3
<1> QED BY <1>1, <1>2, <1>3, <1>4, Zenon

(* A move that counts what the second pass uses, and what it will use.     *)
Room(c, e, w, stack, base) ==
  /\ w \in {"value", "more", "end"} /\ e \in 1..(Len(text) + 2) /\ c.at <= e
  /\ w = "more" => stack # <<>>
  /\ w = "end" => stack = <<>>
  /\ IsStack(stack) /\ IsBase(stack, base) /\ HasRoom(stack, e)
Counts(c, e, w, stack, base, words, bytes, used, written) ==
  /\ words \in Nat /\ bytes \in Nat /\ used \in Nat /\ written \in Nat
  /\ Due(stack, base, w) + words = Due(c.open, c.base, c.want) + used
  /\ bytes = written + Cardinality(Halves(c.at, e - 1))
Sees(c, seen) == seen \in Seq(Nat) /\ Starts(c.seen, seen)

\* Such a move leads on to a configuration.
LEMMA MovedOK ==
  ASSUME TextOK, NEW c, ConfigOK(c),
         NEW e, NEW w, NEW stack, NEW base, NEW words, NEW bytes, NEW used, NEW written, NEW seen,
         Room(c, e, w, stack, base),
         Counts(c, e, w, stack, base, words, bytes, used, written), Sees(c, seen)
  PROVE  Advances(c, Moved(c, e, w, stack, base, words, bytes, used, written, seen))
<1> DEFINE d == Moved(c, e, w, stack, base, words, bytes, used, written, seen)
<1>1. /\ d.at = e /\ d.want = w /\ d.open = stack /\ d.base = base
      /\ d.ds = c.ds + words /\ d.da = c.da + bytes
      /\ d.dom = c.dom + used /\ d.data = c.data + written /\ d.seen = seen
  BY DEF Moved
<1> HIDE DEF d
<1>2. /\ c.ds \in Nat /\ c.da \in Nat /\ c.dom \in Nat /\ c.data \in Nat
      /\ words \in Nat /\ bytes \in Nat /\ used \in Nat /\ written \in Nat
  BY DEF ConfigOK, Counts
<1>3. Due(stack, base, w) \in Nat /\ Due(c.open, c.base, c.want) \in Nat
  BY DueIs DEF ConfigOK, Room
<1>4. d.dom = d.ds + Due(stack, base, w)
  <2>1. /\ c.dom = c.ds + Due(c.open, c.base, c.want)
        /\ Due(stack, base, w) + words = Due(c.open, c.base, c.want) + used
    BY DEF ConfigOK, Counts
  <2>2. d.dom = c.dom + used /\ d.ds = c.ds + words
    BY <1>1
  <2> QED BY <1>2, <1>3, <2>1, <2>2
<1>5. d.da = d.data + Cardinality(Halves(1, e - 1))
  <2>1. /\ c.at \in Nat /\ c.at >= 1 /\ e \in Nat /\ e >= 1 /\ c.at - 1 \in Nat /\ e - 1 \in Nat
        /\ 1 \in Nat /\ 1 <= (c.at - 1) + 1 /\ c.at - 1 <= e - 1 /\ (c.at - 1) + 1 = c.at
    BY AtIs DEF ConfigOK, Room
  <2>2. /\ Cardinality(Halves(1, e - 1))
             = Cardinality(Halves(1, c.at - 1)) + Cardinality(Halves((c.at - 1) + 1, e - 1))
        /\ Cardinality(Halves(1, c.at - 1)) \in Nat
        /\ Cardinality(Halves((c.at - 1) + 1, e - 1)) \in Nat
    BY <2>1, HalvesAdd
  <2> DEFINE h == Cardinality(Halves(1, c.at - 1))
             i == Cardinality(Halves(c.at, e - 1))
             j == Cardinality(Halves(1, e - 1))
  <2>3. j = h + i /\ h \in Nat /\ i \in Nat
    BY <2>1, <2>2
  <2>4. c.da = c.data + h /\ bytes = written + i
    BY Zenon DEF ConfigOK, Counts
  <2>5. d.da = c.da + bytes /\ d.data = c.data + written
    BY <1>1
  <2>6. d.da = d.data + j
    <3> HIDE DEF h, i, j
    <3> QED BY <1>2, <2>3, <2>4, <2>5
  <2> QED BY <2>6
<1>6. {d.ds, d.da, d.dom, d.data} \subseteq Nat
  <2>1. /\ c.ds + words \in Nat /\ c.da + bytes \in Nat
        /\ c.dom + used \in Nat /\ c.data + written \in Nat
    BY <1>2
  <2> QED BY <1>1, <2>1
<1>7. ConfigOK(d)
  BY <1>1, <1>4, <1>5, <1>6, Zenon DEF ConfigOK, Room, Sees
<1>8. c.dom <= d.dom /\ c.data <= d.data
  BY <1>1, <1>2
<1>9. c.at <= d.at /\ Starts(c.seen, d.seen)
  BY <1>1, Zenon DEF Room, Sees
<1> QED BY <1>7, <1>8, <1>9, Zenon DEF Advances, d

\* A scalar is taken.
LEMMA ScalarOK ==
  ASSUME TextOK, NEW c, ConfigOK(c), c.want = "value",
         NEW e, e \in 1..(Len(text) + 2), H(c) < e,
         NEW words \in Nat, NEW bytes \in Nat, NEW written \in Nat,
         bytes = written + Cardinality(Halves(c.at, e - 1))
  PROVE  Advances(c, AfterScalar(c, e, words, bytes, written))
<1>1. c.at \in Nat /\ H(c) \in Nat /\ c.at <= H(c) /\ e \in Nat /\ Len(text) \in Nat
  BY HereIs
<1>2. IsStack(c.open) /\ IsBase(c.open, c.base) /\ HasRoom(c.open, c.at) /\ c.seen \in Seq(Nat)
  BY DEF ConfigOK
<1>3. /\ IsBase(Counted(c.open), c.base) /\ HasRoom(Counted(c.open), e)
      /\ Due(Counted(c.open), c.base, NextWant(c.open)) = Due(c.open, c.base, "value") - ValueSize
  <2>1. e > c.at
    BY <1>1
  <2> QED BY <1>1, <1>2, <2>1, CountedDue
<1>4. IsStack(Counted(c.open)) /\ (Counted(c.open) = <<>> <=> c.open = <<>>)
  BY <1>2, CountedIs
<1>5. Room(c, e, NextWant(c.open), Counted(c.open), c.base)
  <2>1. c.at <= e
    BY <1>1
  <2> QED BY <1>3, <1>4, <2>1, Zenon DEF Room, NextWant
<1>6. Due(Counted(c.open), c.base, NextWant(c.open)) + (ValueSize + words)
        = Due(c.open, c.base, c.want) + words
  <2>1. Due(c.open, c.base, "value") \in Nat
    BY <1>2, DueIs
  <2> QED BY <1>3, <2>1 DEF ValueSize
<1>7. Counts(c, e, NextWant(c.open), Counted(c.open), c.base, ValueSize + words, bytes,
             words, written)
  <2>1. ValueSize + words \in Nat
    BY DEF ValueSize
  <2> QED BY <1>6, <2>1, Zenon DEF Counts
<1>8. Sees(c, Append(c.seen, H(c)))
  BY <1>1, <1>2, StartsIs DEF Sees
<1> QED BY <1>5, <1>7, <1>8, MovedOK, Zenon DEF AfterScalar

\* No surrogate pair begins where there is none.
LEMMA NoHalves ==
  ASSUME NEW a, NEW b, \A j \in a..b : At(j) # "high"
  PROVE  Cardinality(Halves(a, b)) = 0
<1>1. Halves(a, b) = {}
  BY DEF Halves
<1> QED BY <1>1, FS_EmptySet

\* The steps of json_get_value_size for a string, a number and a word.
LEMMA StringOK ==
  ASSUME TextOK, NEW c, ConfigOK(c), c.want = "value", IsString(H(c))
  PROVE  Advances(c, AfterString(c))
<1> DEFINE i == H(c)
           e == Close(i) + 1
<1>1. /\ c.at \in Nat /\ c.at > 0 /\ i \in Nat /\ i > 0 /\ i >= c.at /\ Len(text) \in Nat
      /\ \A j \in c.at..(i - 1) : At(j) # "high"
  BY HereIs
<1>2. /\ i \in 1..Len(text) /\ At(i) = "quote" /\ Close(i) \in (i + 1)..Len(text)
      /\ At(Close(i)) = "quote"
  BY <1>1, StringEnds DEF IsString
<1>3. /\ BytesOf(i) \in Nat /\ Len(Decoded(i)) \in Nat
      /\ BytesOf(i) = Len(Decoded(i)) + 1 + Cardinality(Halves(i + 1, Close(i) - 1))
  BY <1>1, StringCounts DEF BytesOf
<1>4. Halves(c.at, e - 1) = Halves(i + 1, Close(i) - 1)
  <2>1. ASSUME NEW j \in Int
        PROVE  (j \in c.at..(e - 1) /\ At(j) = "high")
                 <=> (j \in (i + 1)..(Close(i) - 1) /\ At(j) = "high")
    <3>1. /\ At(i) # "high" /\ At(Close(i)) # "high"
      BY <1>2
    <3>2. j \in c.at..(e - 1) => j \in c.at..(i - 1) \/ j = i \/ j = Close(i)
                                   \/ j \in (i + 1)..(Close(i) - 1)
      BY <1>1, <1>2
    <3>3. j \in (i + 1)..(Close(i) - 1) => j \in c.at..(e - 1)
      BY <1>1, <1>2
    <3> QED BY <1>1, <3>1, <3>2, <3>3, Zenon
  <2>2. \A j : (j \in c.at..(e - 1) => j \in Int) /\ (j \in (i + 1)..(Close(i) - 1) => j \in Int)
    BY <1>1, <1>2
  <2> HIDE DEF i, e
  <2> QED BY <2>1, <2>2, Zenon DEF Halves
<1>5. e \in 1..(Len(text) + 2) /\ i < e
  BY <1>1, <1>2
<1>6. /\ PayloadSize \in Nat /\ Len(Decoded(i)) + 1 \in Nat
      /\ BytesOf(i) = (Len(Decoded(i)) + 1) + Cardinality(Halves(c.at, e - 1))
  BY <1>3, <1>4 DEF PayloadSize
<1> QED BY <1>3, <1>5, <1>6, ScalarOK, Zenon DEF AfterString

\* The step for a number counts its bytes as they will be written.
LEMMA NumberOK ==
  ASSUME TextOK, NEW c, ConfigOK(c), c.want = "value", IsNumber(H(c))
  PROVE  Advances(c, AfterNumber(c))
<1> DEFINE i == H(c)
           e == NumberEnd(i)
<1>1. /\ c.at \in Nat /\ c.at > 0 /\ i \in Nat /\ i > 0 /\ i >= c.at /\ Len(text) \in Nat
      /\ \A j \in c.at..(i - 1) : At(j) # "high"
  BY HereIs
<1>2. e \in (i + 1)..(Len(text) + 2) /\ \A j \in i..(e - 1) : At(j) \in NumberLexemes \cup {"end"}
  BY <1>1, NumberEnds
<1>3. \A j \in c.at..(e - 1) : At(j) # "high"
  <2>1. "high" \notin NumberLexemes \cup {"end"}
    BY DEF NumberLexemes, Digits
  <2>2. \A j \in c.at..(e - 1) : j \in c.at..(i - 1) \/ j \in i..(e - 1)
    BY <1>1, <1>2
  <2> QED BY <1>1, <1>2, <2>1, <2>2, Zenon
<1>4. Cardinality(Halves(c.at, e - 1)) = 0
  BY <1>3, NoHalves
<1>5. e \in 1..(Len(text) + 2) /\ i < e /\ e - i + 1 \in Nat
  BY <1>1, <1>2
<1>6. PayloadSize \in Nat /\ e - i + 1 = (e - i + 1) + Cardinality(Halves(c.at, e - 1))
  BY <1>4, <1>5 DEF PayloadSize
<1> QED BY <1>5, <1>6, ScalarOK, Zenon DEF AfterNumber

\* The step for a word counts a value and nothing else.
LEMMA WordOK ==
  ASSUME TextOK, NEW c, ConfigOK(c), c.want = "value", At(H(c)) \in Words
  PROVE  Advances(c, AfterWord(c))
<1> DEFINE i == H(c)
           e == i + 1
<1>1. /\ c.at \in Nat /\ c.at > 0 /\ i \in Nat /\ i > 0 /\ i >= c.at /\ Len(text) \in Nat
      /\ \A j \in c.at..(i - 1) : At(j) # "high"
  BY HereIs
<1>2. i \in 1..Len(text) /\ At(i) # "high"
  <2>1. At(i) # "end" /\ At(i) # "high"
    BY DEF Words
  <2> QED BY <2>1, AtIs
<1>3. \A j \in c.at..(e - 1) : At(j) # "high"
  <2>1. \A j \in c.at..(e - 1) : j \in c.at..(i - 1) \/ j = i
    BY <1>1
  <2> QED BY <1>1, <1>2, <2>1, Zenon
<1>4. Cardinality(Halves(c.at, e - 1)) = 0
  BY <1>3, NoHalves
<1>5. e \in 1..(Len(text) + 2) /\ i < e /\ 0 \in Nat /\ 0 = 0 + Cardinality(Halves(c.at, e - 1))
  BY <1>1, <1>2, <1>4
<1> QED BY <1>5, ScalarOK, Zenon DEF AfterWord

Begins(i) == At(i) \in {"{", "["}

\* An object or an array begins (json_get_value_size, its two calls).
LEMMA OpenOK ==
  ASSUME TextOK, NEW c, ConfigOK(c), c.want = "value", Begins(H(c))
  PROVE  Advances(c, AfterOpen(c))
<1> DEFINE i == H(c)
           e == i + 1
           kind == IF At(i) = "{" THEN "object" ELSE "array"
           d == Due(c.open, c.base, "value") - ValueSize
           t == Calls(c.open, kind)
           b == Append(c.base, d)
<1>1. /\ c.at \in Nat /\ c.at > 0 /\ i \in Nat /\ i > 0 /\ i >= c.at /\ Len(text) \in Nat
      /\ \A j \in c.at..(i - 1) : At(j) # "high"
  BY HereIs
<1>2. i \in 1..Len(text) /\ At(i) # "high"
  <2>1. At(i) # "end" /\ At(i) # "high"
    BY DEF Begins
  <2> QED BY <2>1, AtIs
<1>3. \A j \in c.at..(e - 1) : At(j) # "high"
  <2>1. \A j \in c.at..(e - 1) : j \in c.at..(i - 1) \/ j = i
    BY <1>1
  <2> QED BY <1>1, <1>2, <2>1, Zenon
<1>4. Cardinality(Halves(c.at, e - 1)) = 0
  BY <1>3, NoHalves
<1>5. IsStack(c.open) /\ IsBase(c.open, c.base) /\ HasRoom(c.open, c.at) /\ c.seen \in Seq(Nat)
  BY DEF ConfigOK
<1>6. kind \in {"object", "array"} /\ e \in Nat /\ e > c.at /\ e \in 1..(Len(text) + 2) /\ c.at <= e
  BY <1>1, <1>2
<1> HIDE DEF kind
<1>7. /\ IsBase(t, b) /\ HasRoom(t, e) /\ Due(t, b, "more") = d
  BY <1>1, <1>5, <1>6, CallDue
<1>8. IsStack(t) /\ t # <<>>
  BY <1>5, <1>6, StackPush
<1>9. Room(c, e, "more", t, b)
  BY <1>6, <1>7, <1>8, Zenon DEF Room
<1>10. Counts(c, e, "more", t, b, ValueSize + PayloadSize, 0, PayloadSize, 0)
  <2>1. Due(t, b, "more") + (ValueSize + PayloadSize) = Due(c.open, c.base, c.want) + PayloadSize
    <3>1. Due(c.open, c.base, "value") \in Nat
      BY <1>5, DueIs
    <3> QED BY <1>7, <3>1 DEF ValueSize, PayloadSize
  <2>2. /\ ValueSize + PayloadSize \in Nat /\ 0 \in Nat /\ PayloadSize \in Nat
        /\ 0 = 0 + Cardinality(Halves(c.at, e - 1))
    BY <1>4 DEF ValueSize, PayloadSize
  <2> HIDE DEF t, b, e
  <2> QED BY <2>1, <2>2, Zenon DEF Counts
<1>11. Sees(c, Append(c.seen, i))
  BY <1>1, <1>5, StartsIs DEF Sees
<1> QED BY <1>9, <1>10, <1>11, MovedOK, Zenon DEF AfterOpen, kind

\* Where a key or an element is, if there is one.
LEMMA PlaceIs ==
  ASSUME TextOK, NEW c, ConfigOK(c), At(PlaceOf(c)) # "end"
  PROVE  /\ PlaceOf(c) \in 1..Len(text) /\ PlaceOf(c) >= H(c) /\ PlaceOf(c) \in Nat
         /\ At(PlaceOf(c)) \notin White
         /\ \A j \in c.at..(PlaceOf(c) - 1) : At(j) # "high"
         /\ Last(c.open).comma =>
              At(H(c)) = "," /\ PlaceOf(c) = Past(H(c) + 1, White) /\ PlaceOf(c) > H(c)
         /\ ~Last(c.open).comma => PlaceOf(c) = H(c)
<1> DEFINE i == H(c)
           p == PlaceOf(c)
<1>1. /\ c.at \in Nat /\ c.at > 0 /\ i \in Nat /\ i > 0 /\ i >= c.at /\ Len(text) \in Nat
      /\ \A j \in c.at..(i - 1) : At(j) # "high"
      /\ At(i) \notin White
  BY HereIs
<1>2. p \in 1..Len(text)
  BY AtIs
<1>3. CASE ~Last(c.open).comma
  <2>1. p = i
    BY <1>3 DEF PlaceOf
  <2>2. p \in Nat /\ p >= i
    BY <1>1, <2>1
  <2> HIDE DEF p
  <2>3. At(p) \notin White /\ \A j \in c.at..(p - 1) : At(j) # "high"
    BY <1>1, <2>1, Zenon
  <2> QED BY <1>2, <1>3, <2>1, <2>2, <2>3, Zenon DEF p
<1>4. CASE Last(c.open).comma
  <2>1. At(i) = ","
    <3>1. At(0) = "end"
      BY <1>1, AtIs
    <3> QED BY <1>4, <3>1, Zenon DEF PlaceOf
  <2>2. p = Past(i + 1, White)
    BY <1>4, <2>1, Zenon DEF PlaceOf
  <2>3. i + 1 \in Nat /\ i + 1 > 0
    BY <1>1
  <2>4. /\ p \in Nat /\ p >= i + 1 /\ At(p) \notin White
        /\ \A j \in (i + 1)..(p - 1) : At(j) \in White
    BY <2>2, <2>3, PastWhite
  <2>5. ASSUME NEW j \in c.at..(p - 1) PROVE At(j) # "high"
    <3>1. j \in c.at..(i - 1) \/ j = i \/ j \in (i + 1)..(p - 1)
      BY <1>1, <2>4
    <3>2. "high" \notin White
      BY DEF White
    <3>3. At(i) # "high"
      BY <2>1
    <3> QED BY <1>1, <2>4, <3>1, <3>2, <3>3, Zenon
  <2>6. p >= i /\ p > i
    BY <1>1, <2>4
  <2> HIDE DEF p
  <2> QED BY <1>2, <1>4, <2>1, <2>2, <2>4, <2>5, <2>6 DEF p
<1> QED BY <1>3, <1>4

\* A key is a string, and a colon after it.
LEMMA KeyIs ==
  ASSUME TextOK, NEW i \in Nat, i > 0, IsKey(i)
  PROVE  /\ IsString(i) /\ i \in 1..Len(text) /\ At(i) = "quote"
         /\ Close(i) \in (i + 1)..Len(text) /\ Colon(i) \in (Close(i) + 1)..Len(text)
         /\ At(i) # "high" /\ \A j \in Close(i)..Colon(i) : At(j) # "high"
         /\ Colon(i) \in Nat
<1>1. IsString(i) /\ At(Colon(i)) = ":"
  BY DEF IsKey
<1>2. /\ i \in 1..Len(text) /\ At(i) = "quote" /\ Close(i) \in (i + 1)..Len(text)
      /\ At(Close(i)) = "quote" /\ Len(text) \in Nat
  BY <1>1, StringEnds, AtIs DEF IsString
<1>3. Close(i) + 1 \in Nat /\ Close(i) + 1 > 0
  BY <1>2
<1>4. /\ Colon(i) \in Nat /\ Colon(i) >= Close(i) + 1
      /\ \A j \in (Close(i) + 1)..(Colon(i) - 1) : At(j) \in White
  BY <1>3, PastWhite DEF Colon
<1>5. Colon(i) \in 1..Len(text)
  <2>1. At(Colon(i)) # "end"
    BY <1>1
  <2> QED BY <2>1, AtIs
<1>6. At(i) # "high" /\ At(Close(i)) # "high" /\ At(Colon(i)) # "high"
  BY <1>1, <1>2
<1>7. ASSUME NEW j \in Close(i)..Colon(i) PROVE At(j) # "high"
  <2>1. j = Close(i) \/ j = Colon(i) \/ j \in (Close(i) + 1)..(Colon(i) - 1)
    BY <1>2, <1>4
  <2>2. "high" \notin White
    BY DEF White
  <2> QED BY <1>4, <1>6, <2>1, <2>2, Zenon
<1>8. Colon(i) \in (Close(i) + 1)..Len(text)
  BY <1>2, <1>4, <1>5
<1> QED BY <1>1, <1>2, <1>4, <1>6, <1>7, <1>8

\* There is no key where nothing is.
LEMMA KeyIsThere ==
  ASSUME NEW i, IsKey(i)
  PROVE  At(i) = "quote" /\ At(i) # "end" /\ At(i) # "}" /\ At(i) # ","
  BY DEF IsKey, IsString

\* A key is taken (json_get_object_size).
LEMMA MemberOK ==
  ASSUME TextOK, NEW c, ConfigOK(c), c.want = "more", Last(c.open).kind = "object",
         IsKey(PlaceOf(c))
  PROVE  Advances(c, AfterMember(c))
<1> DEFINE p == PlaceOf(c)
           e == Colon(p) + 1
<1>1. At(p) # "end"
  BY KeyIsThere
<1>2. /\ p \in 1..Len(text) /\ p \in Nat /\ p >= H(c)
      /\ \A j \in c.at..(p - 1) : At(j) # "high"
  BY <1>1, PlaceIs
<1>3. c.at \in Nat /\ H(c) \in Nat /\ c.at <= H(c) /\ Len(text) \in Nat
  BY HereIs
<1>4. p > 0
  BY <1>2
<1>5. /\ IsString(p) /\ Close(p) \in (p + 1)..Len(text) /\ Colon(p) \in (Close(p) + 1)..Len(text)
      /\ At(p) # "high" /\ \A j \in Close(p)..Colon(p) : At(j) # "high"
  BY <1>2, <1>4, KeyIs
<1>6. /\ BytesOf(p) \in Nat /\ Len(Decoded(p)) \in Nat
      /\ BytesOf(p) = Len(Decoded(p)) + 1 + Cardinality(Halves(p + 1, Close(p) - 1))
  BY <1>2, <1>4, <1>5, StringCounts DEF BytesOf
<1>7. Halves(c.at, e - 1) = Halves(p + 1, Close(p) - 1)
  <2>1. ASSUME NEW j \in Int
        PROVE  (j \in c.at..(e - 1) /\ At(j) = "high")
                 <=> (j \in (p + 1)..(Close(p) - 1) /\ At(j) = "high")
    <3>1. j \in c.at..(e - 1) => j \in c.at..(p - 1) \/ j = p \/ j \in Close(p)..Colon(p)
                                   \/ j \in (p + 1)..(Close(p) - 1)
      BY <1>2, <1>3, <1>5
    <3>2. j \in (p + 1)..(Close(p) - 1) => j \in c.at..(e - 1)
      BY <1>2, <1>3, <1>5
    <3> QED BY <1>2, <1>5, <3>1, <3>2, Zenon
  <2>2. \A j : (j \in c.at..(e - 1) => j \in Int) /\ (j \in (p + 1)..(Close(p) - 1) => j \in Int)
    BY <1>2, <1>3, <1>5
  <2> HIDE DEF p, e
  <2> QED BY <2>1, <2>2, Zenon DEF Halves
<1>8. IsStack(c.open) /\ IsBase(c.open, c.base) /\ HasRoom(c.open, c.at) /\ c.seen \in Seq(Nat)
      /\ c.open # <<>>
  BY DEF ConfigOK
<1>9. c.at <= e /\ e \in 1..(Len(text) + 2) /\ e \in Nat
  BY <1>2, <1>3, <1>5
<1>10. Room(c, e, "value", c.open, c.base)
  <2>1. HasRoom(c.open, e)
    BY <1>3, <1>8, <1>9, RoomGrows
  <2> QED BY <1>8, <1>9, <2>1, Zenon DEF Room
<1>11. Counts(c, e, "value", c.open, c.base, PayloadSize, BytesOf(p),
              MemberSize + PayloadSize + ValueSize, Len(Decoded(p)) + 1)
  <2>1. Due(c.open, c.base, "value") + PayloadSize
          = Due(c.open, c.base, c.want) + (MemberSize + PayloadSize + ValueSize)
    <3>1. /\ Due(c.open, c.base, "value") = Due(c.open, c.base, "more") + MemberSize + ValueSize
          /\ Due(c.open, c.base, "more") \in Nat
      <4>1. WordsOf(Last(c.open).kind) = MemberSize
        BY DEF WordsOf
      <4> QED BY <1>8, <4>1, DueIs
    <3> QED BY <3>1 DEF MemberSize, PayloadSize, ValueSize
  <2>2. /\ PayloadSize \in Nat /\ MemberSize + PayloadSize + ValueSize \in Nat
        /\ Len(Decoded(p)) + 1 \in Nat
        /\ BytesOf(p) = (Len(Decoded(p)) + 1) + Cardinality(Halves(c.at, e - 1))
    BY <1>6, <1>7 DEF MemberSize, PayloadSize, ValueSize
  <2> QED BY <1>6, <2>1, <2>2, Zenon DEF Counts
<1>12. Sees(c, Append(c.seen, p))
  <2> HIDE DEF p
  <2> QED BY <1>2, <1>8, StartsIs DEF Sees
<1> QED BY <1>10, <1>11, <1>12, MovedOK, Zenon DEF AfterMember

\* The place of an element is found (json_get_array_size).
LEMMA ElementOK ==
  ASSUME TextOK, NEW c, ConfigOK(c), c.want = "more", Last(c.open).kind = "array",
         At(PlaceOf(c)) # "end"
  PROVE  Advances(c, AfterElement(c))
<1> DEFINE p == PlaceOf(c)
<1>1. /\ p \in 1..Len(text) /\ p \in Nat /\ p >= H(c)
      /\ \A j \in c.at..(p - 1) : At(j) # "high"
  BY PlaceIs
<1>2. c.at \in Nat /\ H(c) \in Nat /\ c.at <= H(c) /\ Len(text) \in Nat
  BY HereIs
<1>3. IsStack(c.open) /\ IsBase(c.open, c.base) /\ HasRoom(c.open, c.at) /\ c.seen \in Seq(Nat)
      /\ c.open # <<>>
  BY DEF ConfigOK
<1>4. c.at <= p /\ p \in 1..(Len(text) + 2)
  BY <1>1, <1>2
<1>5. Cardinality(Halves(c.at, p - 1)) = 0
  BY <1>1, NoHalves
<1> HIDE DEF p
<1>6. Room(c, p, "value", c.open, c.base)
  <2>1. HasRoom(c.open, p)
    BY <1>1, <1>2, <1>3, <1>4, RoomGrows
  <2> QED BY <1>3, <1>4, <2>1, Zenon DEF Room
<1>7. Counts(c, p, "value", c.open, c.base, 0, 0, ElementSize + ValueSize, 0)
  <2>1. Due(c.open, c.base, "value") + 0 = Due(c.open, c.base, c.want) + (ElementSize + ValueSize)
    <3>1. /\ Due(c.open, c.base, "value") = Due(c.open, c.base, "more") + ElementSize + ValueSize
          /\ Due(c.open, c.base, "more") \in Nat
      <4>1. WordsOf(Last(c.open).kind) = ElementSize
        BY DEF WordsOf
      <4> QED BY <1>3, <4>1, DueIs
    <3> QED BY <3>1 DEF ElementSize, ValueSize
  <2>2. 0 \in Nat /\ ElementSize + ValueSize \in Nat /\ 0 = 0 + Cardinality(Halves(c.at, p - 1))
    BY <1>5 DEF ElementSize, ValueSize
  <2> QED BY <2>1, <2>2, Zenon DEF Counts
<1>8. Sees(c, c.seen)
  BY <1>3, StartsIs DEF Sees
<1> QED BY <1>6, <1>7, <1>8, MovedOK, Zenon DEF AfterElement, p

\* An object or an array ends (both functions).
LEMMA CloseOK ==
  ASSUME TextOK, NEW c, ConfigOK(c), c.want = "more"
  PROVE  Advances(c, AfterClose(c))
<1> DEFINE e == IF At(H(c)) = CloserOf(c) THEN H(c) + 1 ELSE c.at
           t == Counted(Front(c.open))
           b == Front(c.base)
           k == Kids(Last(c.open).kind, Last(c.open).n)
<1>1. /\ c.at \in Nat /\ c.at > 0 /\ c.at <= Len(text) + 2 /\ Len(text) \in Nat
      /\ H(c) \in Nat /\ H(c) >= c.at
      /\ \A j \in c.at..(H(c) - 1) : At(j) # "high"
  BY HereIs
<1>2. /\ e \in 1..(Len(text) + 2) /\ c.at <= e /\ e \in Nat
      /\ \A j \in c.at..(e - 1) : At(j) # "high"
  <2>1. CASE At(H(c)) = CloserOf(c)
    <3>1. At(H(c)) # "end" /\ At(H(c)) # "high"
      BY <2>1 DEF CloserOf
    <3>2. H(c) \in 1..Len(text)
      BY <3>1, AtIs
    <3>3. e = H(c) + 1
      BY <2>1
    <3> HIDE DEF e
    <3>4. \A j \in c.at..(e - 1) : j \in c.at..(H(c) - 1) \/ j = H(c)
      BY <1>1, <3>3
    <3>5. \A j \in c.at..(e - 1) : At(j) # "high"
      BY <1>1, <3>1, <3>4, Zenon
    <3> QED BY <1>1, <3>2, <3>3, <3>5
  <2>2. CASE At(H(c)) # CloserOf(c)
    <3>1. e = c.at
      BY <2>2
    <3> HIDE DEF e
    <3> QED BY <1>1, <3>1
  <2> QED BY <2>1, <2>2
<1>3. Cardinality(Halves(c.at, e - 1)) = 0
  BY <1>2, NoHalves
<1> HIDE DEF e
<1>4. IsStack(c.open) /\ IsBase(c.open, c.base) /\ HasRoom(c.open, c.at) /\ c.seen \in Seq(Nat)
      /\ c.open # <<>>
  BY DEF ConfigOK
<1>5. /\ IsBase(t, b) /\ HasRoom(t, e) /\ k \in Nat
      /\ Due(t, b, NextWant(Front(c.open))) = Due(c.open, c.base, "more") - k
  <2>1. e >= c.at
    BY <1>1, <1>2
  <2> QED BY <1>1, <1>2, <1>4, <2>1, CloseDue
<1>6. IsStack(t) /\ (t = <<>> <=> Front(c.open) = <<>>)
  BY <1>4, StackPop, CountedIs
<1> HIDE DEF t, b, k
<1>7. Room(c, e, NextWant(Front(c.open)), t, b)
  BY <1>2, <1>5, <1>6, Zenon DEF Room, NextWant
<1>8. Counts(c, e, NextWant(Front(c.open)), t, b, k, 0, 0, 0)
  <2>1. Due(c.open, c.base, "more") \in Nat
    BY <1>4, DueIs
  <2>2. Due(t, b, NextWant(Front(c.open))) + k = Due(c.open, c.base, c.want) + 0
    BY <1>5, <2>1
  <2>3. 0 \in Nat /\ 0 = 0 + Cardinality(Halves(c.at, e - 1))
    BY <1>3
  <2> QED BY <1>5, <2>2, <2>3, Zenon DEF Counts
<1>9. Sees(c, c.seen)
  BY <1>4, StartsIs DEF Sees
<1> QED BY <1>7, <1>8, <1>9, MovedOK, Zenon DEF AfterClose, e, t, b, k

\* Every step of the first pass leads from a configuration to one.
LEMMA StepsOK ==
  ASSUME TextOK, NEW c, ConfigOK(c), NEW d, Steps(c, d)
  PROVE  Advances(c, d)
<1>1. CASE TakesValue(c, d)
  BY <1>1, StringOK, NumberOK, WordOK, OpenOK, Zenon DEF TakesValue, Begins
<1>2. CASE TakesMember(c, d)
  BY <1>2, MemberOK, Zenon DEF TakesMember
<1>3. CASE TakesElement(c, d)
  BY <1>3, ElementOK, Zenon DEF TakesElement
<1>4. CASE Closes(c, d)
  BY <1>4, CloseOK, Zenon DEF Closes
<1> QED BY <1>1, <1>2, <1>3, <1>4 DEF Steps

-----------------------------------------------------------------------------
(***************************************************************************)
(* Nesting                                                                 *)
(***************************************************************************)

(* A configuration is outside of strings, with a call for every bracket    *)
(* that is open.                                                           *)
Nests(c) ==
  c.at <= Len(text) + 1 =>
    /\ ~InString(c.at)
    /\ Len(c.open) + Cardinality(Brackets(c.at, Closers)) = Cardinality(Brackets(c.at, Openers))

\* White space and commas open and close nothing, nor do numbers and words.
LEMMA Quiet ==
  /\ \A x \in White : x \notin Loud
  /\ \A x \in NumberLexemes : x \notin Loud
  /\ \A x \in Words : x \notin Loud
  /\ "," \notin Loud /\ ":" \notin Loud
  BY DEF White, NumberLexemes, Digits, Words, Loud

\* White space is kept over.
LEMMA WhiteKeeps ==
  ASSUME TextOK, NEW a \in Nat, a > 0, a <= Len(text) + 1
  PROVE  /\ Kept(a, Past(a, White)) /\ Past(a, White) \in Nat
         /\ Past(a, White) >= a /\ Past(a, White) <= Len(text) + 1
<1> DEFINE b == Past(a, White)
<1>1. b \in Nat /\ b >= a /\ b <= Len(text) + 1 /\ \A j \in a..(b - 1) : At(j) \in White
  BY PastWhite
<1>2. \A j \in a..(b - 1) : At(j) \notin Loud
  BY <1>1, Quiet, Zenon
<1> HIDE DEF b
<1>3. Kept(a, b)
  BY <1>1, <1>2, QuietKeeps
<1> QED BY <1>1, <1>3 DEF b

\* One lexeme more that is none of them.
LEMMA QuietStep ==
  ASSUME TextOK, NEW i \in 1..Len(text), At(i) \notin Loud
  PROVE  Kept(i, i + 1)
<1>1. Len(text) \in Nat
  BY AtIs
<1>2. i \in Nat /\ i > 0 /\ i + 1 \in Nat /\ i <= i + 1 /\ i + 1 <= Len(text) + 1
  BY <1>1
<1>3. \A j \in i..((i + 1) - 1) : j = i
  OBVIOUS
<1>4. \A j \in i..((i + 1) - 1) : At(j) \notin Loud
  BY <1>3, Zenon
<1> QED BY <1>2, <1>4, QuietKeeps

\* A step that keeps the calls and the brackets.
LEMMA NestsOn ==
  ASSUME NEW c, NEW d, Nests(c), c.at <= Len(text) + 1, Kept(c.at, d.at),
         Len(d.open) = Len(c.open)
  PROVE  Nests(d)
  BY Zenon DEF Nests, Kept

\* Where a configuration reads next.
LEMMA HereKeeps ==
  ASSUME TextOK, NEW c, ConfigOK(c), c.at <= Len(text) + 1
  PROVE  /\ Kept(c.at, H(c)) /\ H(c) \in Nat /\ H(c) > 0 /\ H(c) <= Len(text) + 1
         /\ Len(text) \in Nat
<1>1. c.at \in Nat /\ c.at > 0
  BY HereIs
<1>2. H(c) \in Nat /\ H(c) > 0 /\ H(c) <= Len(text) + 1 /\ Len(text) \in Nat
  BY HereIs
<1> QED BY <1>1, <1>2, WhiteKeeps DEF H

\* A key and its colon are kept over.
LEMMA KeyKeeps ==
  ASSUME TextOK, NEW i \in Nat, i > 0, IsKey(i), ~InString(i)
  PROVE  Kept(i, Colon(i) + 1)
<1>1. /\ IsString(i) /\ Close(i) \in (i + 1)..Len(text) /\ Colon(i) \in (Close(i) + 1)..Len(text)
      /\ Len(text) \in Nat
  BY KeyIs, AtIs
<1>2. Kept(i, Close(i) + 1)
  BY <1>1, StringKeeps
<1>3. Kept(Close(i) + 1, Colon(i))
  <2>1. Close(i) + 1 \in Nat /\ Close(i) + 1 > 0 /\ Close(i) + 1 <= Len(text) + 1
    BY <1>1
  <2> QED BY <2>1, WhiteKeeps DEF Colon
<1>4. Kept(Colon(i), Colon(i) + 1)
  <2>1. Colon(i) \in 1..Len(text)
    BY <1>1
  <2>2. At(Colon(i)) = ":"
    BY DEF IsKey
  <2> QED BY <2>1, <2>2, Quiet, QuietStep
<1> QED BY <1>2, <1>3, <1>4, KeptOn

\* The place of a key or an element, behind a comma or not.
LEMMA PlaceKeeps ==
  ASSUME TextOK, NEW c, ConfigOK(c), c.at <= Len(text) + 1, At(PlaceOf(c)) # "end"
  PROVE  Kept(c.at, PlaceOf(c)) /\ PlaceOf(c) \in Nat /\ PlaceOf(c) > 0
<1>1. /\ Kept(c.at, H(c)) /\ H(c) \in Nat /\ H(c) > 0 /\ Len(text) \in Nat
  BY HereKeeps
<1>2. /\ PlaceOf(c) \in 1..Len(text)
      /\ Last(c.open).comma => At(H(c)) = "," /\ PlaceOf(c) = Past(H(c) + 1, White)
      /\ ~Last(c.open).comma => PlaceOf(c) = H(c)
  BY PlaceIs
<1>3. PlaceOf(c) \in Nat /\ PlaceOf(c) > 0
  <2> DEFINE p == PlaceOf(c)
  <2>1. p \in 1..Len(text)
    BY <1>2, Zenon
  <2> HIDE DEF p
  <2>2. p \in Nat /\ p > 0
    BY <1>1, <2>1
  <2> QED BY <2>2 DEF p
<1>4. CASE ~Last(c.open).comma
  BY <1>1, <1>2, <1>3, <1>4
<1>5. CASE Last(c.open).comma
  <2>1. At(H(c)) = "," /\ PlaceOf(c) = Past(H(c) + 1, White)
    BY <1>2, <1>5
  <2>2. H(c) \in 1..Len(text)
    <3>1. At(H(c)) # "end"
      BY <2>1
    <3> QED BY <3>1, AtIs
  <2>3. Kept(H(c), H(c) + 1)
    BY <2>1, <2>2, Quiet, QuietStep
  <2>4. H(c) + 1 \in Nat /\ H(c) + 1 > 0 /\ H(c) + 1 <= Len(text) + 1
    BY <1>1, <2>2
  <2>5. Kept(H(c) + 1, PlaceOf(c))
    BY <2>1, <2>4, WhiteKeeps
  <2> QED BY <1>1, <1>3, <2>3, <2>5, KeptOn
<1> QED BY <1>4, <1>5

\* Outside of strings before, outside of strings after.
LEMMA KeptOutside ==
  ASSUME NEW c, Nests(c), c.at <= Len(text) + 1, NEW b, Kept(c.at, b)
  PROVE  /\ ~InString(b)
         /\ Len(c.open) + Cardinality(Brackets(b, Closers)) = Cardinality(Brackets(b, Openers))
  BY Zenon DEF Nests, Kept

\* Every step of the first pass keeps a configuration outside of strings, and opens
\* and ends a call where the text opens and closes a bracket.
LEMMA StepsNest ==
  ASSUME TextOK, NEW c, ConfigOK(c), Nests(c), NEW d, Steps(c, d)
  PROVE  Nests(d)
<1> SUFFICES ASSUME d.at <= Len(text) + 1
             PROVE  Nests(d)
  BY Zenon DEF Nests
<1>0. ConfigOK(d) /\ c.at <= d.at
  BY StepsOK DEF Advances
<1>1. c.at <= Len(text) + 1 /\ c.at \in Nat /\ d.at \in Nat /\ Len(text) \in Nat
  BY <1>0, HereIs
<1> DEFINE h == H(c)
<1>2. Kept(c.at, h) /\ h \in Nat /\ h > 0 /\ h <= Len(text) + 1
  BY <1>1, HereKeeps
<1>3. /\ ~InString(h)
      /\ Len(c.open) + Cardinality(Brackets(h, Closers)) = Cardinality(Brackets(h, Openers))
  BY <1>1, <1>2, KeptOutside
<1>4. IsStack(c.open)
  BY DEF ConfigOK
<1>5. ASSUME Kept(h, d.at), d.open = Counted(c.open)
      PROVE  Nests(d)
  <2>1. Len(d.open) = Len(c.open)
    BY <1>4, <1>5, CountedIs
  <2> QED BY <1>1, <1>2, <1>5, <2>1, KeptOn, NestsOn
<1>6. CASE TakesValue(c, d)
  <2>1. CASE IsString(h) /\ d = AfterString(c)
    <3>1. d.at = Close(h) + 1 /\ d.open = Counted(c.open)
      BY <2>1 DEF AfterString, AfterScalar, Moved
    <3> QED BY <1>2, <1>3, <1>5, <2>1, <3>1, StringKeeps
  <2>2. CASE IsNumber(h) /\ d = AfterNumber(c)
    <3>1. d.at = NumberEnd(h) /\ d.open = Counted(c.open)
      BY <2>2 DEF AfterNumber, AfterScalar, Moved
    <3>2. /\ NumberEnd(h) \in (h + 1)..(Len(text) + 2)
          /\ \A j \in h..(NumberEnd(h) - 1) : At(j) \in NumberLexemes \cup {"end"}
      BY <1>2, <2>2, NumberEnds
    <3>3. \A j \in h..(NumberEnd(h) - 1) : At(j) \notin Loud
      <4>1. "end" \notin Loud
        BY DEF Loud
      <4> QED BY <3>2, <4>1, Quiet, Zenon
    <3>4. NumberEnd(h) \in Nat /\ h <= NumberEnd(h)
      BY <1>2, <3>2
    <3>5. Kept(h, NumberEnd(h))
      BY <1>2, <3>1, <3>3, <3>4, QuietKeeps
    <3> QED BY <1>5, <3>1, <3>5
  <2>3. CASE At(h) \in Words /\ d = AfterWord(c)
    <3>1. d.at = h + 1 /\ d.open = Counted(c.open)
      BY <2>3 DEF AfterWord, AfterScalar, Moved
    <3>2. h \in 1..Len(text)
      <4>1. At(h) # "end"
        BY <2>3, NoEnd
      <4> QED BY <4>1, AtIs
    <3> QED BY <1>5, <2>3, <3>1, <3>2, Quiet, QuietStep
  <2>4. CASE At(h) \in {"{", "["} /\ d = AfterOpen(c)
    <3>1. d.at = h + 1 /\ d.open = Calls(c.open, IF At(h) = "{" THEN "object" ELSE "array")
      BY <2>4 DEF AfterOpen, Moved
    <3>2. At(h) \in Openers /\ At(h) \notin Closers /\ At(h) # "quote" /\ At(h) # "end"
      BY <2>4 DEF Openers, Closers
    <3> DEFINE n == Len(c.open)
    <3>3. Len(d.open) = n + 1
      <4>1. (IF At(h) = "{" THEN "object" ELSE "array") \in {"object", "array"}
        OBVIOUS
      <4> QED BY <1>4, <3>1, <4>1, StackPush
    <3>4. h \in 1..Len(text)
      BY <3>2, AtIs
    <3>5. /\ Cardinality(Brackets(h + 1, Openers)) = Cardinality(Brackets(h, Openers)) + 1
          /\ Brackets(h + 1, Closers) = Brackets(h, Closers)
      BY <1>3, <3>2, <3>4, BracketCounts
    <3>6. ~InString(h + 1)
      BY <1>3, <3>2, <3>4, NoQuoteStays
    <3>7. Cardinality(Brackets(h, Closers)) \in Nat /\ n \in Nat
      BY <1>4, BracketsAre, StackIs
    <3> HIDE DEF h, n
    <3>8. n + 1 + Cardinality(Brackets(h + 1, Closers)) = Cardinality(Brackets(h + 1, Openers))
      BY <1>3, <3>5, <3>7 DEF n
    <3> QED BY <3>1, <3>3, <3>6, <3>8, Zenon DEF Nests
  <2> QED BY <1>6, <2>1, <2>2, <2>3, <2>4 DEF TakesValue
<1>7. CASE TakesMember(c, d)
  <2>1. d.at = Colon(PlaceOf(c)) + 1 /\ d.open = c.open /\ IsKey(PlaceOf(c))
    BY <1>7 DEF TakesMember, AfterMember, Moved
  <2>2. At(PlaceOf(c)) # "end"
    BY <2>1, KeyIsThere
  <2>3. Kept(c.at, PlaceOf(c)) /\ PlaceOf(c) \in Nat /\ PlaceOf(c) > 0
    BY <1>1, <2>2, PlaceKeeps
  <2>4. ~InString(PlaceOf(c))
    BY <1>1, <2>3, KeptOutside
  <2>5. Kept(PlaceOf(c), d.at)
    BY <2>1, <2>3, <2>4, KeyKeeps
  <2> QED BY <1>1, <2>1, <2>3, <2>5, KeptOn, NestsOn
<1>8. CASE TakesElement(c, d)
  <2>1. d.at = PlaceOf(c) /\ d.open = c.open /\ At(PlaceOf(c)) # "end"
    BY <1>8 DEF TakesElement, AfterElement, Moved
  <2>2. Kept(c.at, d.at)
    BY <1>1, <2>1, PlaceKeeps
  <2> QED BY <1>1, <2>1, <2>2, NestsOn
<1>9. CASE Closes(c, d)
  <2>1. c.open # <<>>
    BY <1>9 DEF Closes, ConfigOK
  <2>2. At(h) = CloserOf(c)
    <3>1. ASSUME At(h) # CloserOf(c) PROVE FALSE
      <4>1. c.at = Len(text) + 2
        BY <1>9, <3>1 DEF Closes
      <4> QED BY <1>1, <4>1
    <3> QED BY <3>1
  <2>3. d.at = h + 1 /\ d.open = Counted(Front(c.open))
    BY <1>9, <2>2 DEF Closes, AfterClose, Moved
  <2>4. At(h) \in Closers /\ At(h) \notin Openers /\ At(h) # "quote" /\ At(h) # "end"
    BY <2>2 DEF CloserOf, Openers, Closers
  <2> DEFINE n == Len(c.open)
  <2>5. Len(d.open) = n - 1
    BY <1>4, <2>1, <2>3, StackPop, CountedIs
  <2>6. h \in 1..Len(text)
    BY <2>4, AtIs
  <2>7. /\ Cardinality(Brackets(h + 1, Closers)) = Cardinality(Brackets(h, Closers)) + 1
        /\ Brackets(h + 1, Openers) = Brackets(h, Openers)
    BY <1>3, <2>4, <2>6, BracketCounts
  <2>8. ~InString(h + 1)
    BY <1>3, <2>4, <2>6, NoQuoteStays
  <2>9. Cardinality(Brackets(h, Closers)) \in Nat /\ n \in Nat
    BY <1>4, BracketsAre, StackIs
  <2> HIDE DEF h, n
  <2>10. (n - 1) + Cardinality(Brackets(h + 1, Closers)) = Cardinality(Brackets(h + 1, Openers))
    BY <1>3, <2>7, <2>9 DEF n
  <2> QED BY <2>3, <2>5, <2>8, <2>10, Zenon DEF Nests
<1> QED BY <1>6, <1>7, <1>8, <1>9 DEF Steps

-----------------------------------------------------------------------------
(***************************************************************************)
(* The text does not change                                                *)
(***************************************************************************)

\* So every definition that reads the text is the same after a step.
LEMMA AtStays ==
  ASSUME text' = text
  PROVE  \A i : At(i)' = At(i)
  BY DEF At

\* A scanning loop stops where it did.
LEMMA PastStays ==
  ASSUME text' = text
  PROVE  \A i, S : Past(i, S)' = Past(i, S)
<1> SUFFICES ASSUME NEW i, NEW S PROVE Past(i, S)' = Past(i, S)
  OBVIOUS
<1>1. {j \in i..(Len(text) + 1) : At(j) \notin S}' = {j \in i..(Len(text) + 1) : At(j) \notin S}
  BY AtStays
<1> QED BY <1>1 DEF Past

\* The ends of strings and numbers, colons and the next places stay where they are.
LEMMA PlacesStay ==
  ASSUME text' = text
  PROVE  /\ \A i : Close(i)' = Close(i) /\ Colon(i)' = Colon(i) /\ NumberEnd(i)' = NumberEnd(i)
         /\ \A c : H(c)' = H(c) /\ PlaceOf(c)' = PlaceOf(c) /\ CloserOf(c)' = CloserOf(c)
<1>1. \A i : Close(i)' = Close(i)
  BY PastStays DEF Close
<1>2. \A i : Colon(i)' = Colon(i)
  BY <1>1, PastStays DEF Colon
<1>3. \A i : Number(i)' = Number(i)
  BY AtStays, PastStays DEF Number
<1>4. \A i : NumberEnd(i)' = NumberEnd(i)
  BY <1>3, AtStays, PastStays DEF NumberEnd
<1>5. \A c : H(c)' = H(c)
  BY PastStays DEF H
<1>6. \A c : PlaceOf(c)' = PlaceOf(c)
  <2> SUFFICES ASSUME NEW c PROVE PlaceOf(c)' = PlaceOf(c)
    OBVIOUS
  <2>1. H(c)' = H(c) /\ At(H(c))' = At(H(c))
    BY <1>5, AtStays
  <2>2. Past(H(c) + 1, White)' = Past(H(c) + 1, White)
    BY <1>5, PastStays
  <2> QED BY <2>1, <2>2, Zenon DEF PlaceOf
<1>7. \A c : CloserOf(c)' = CloserOf(c)
  BY DEF CloserOf
<1> QED BY <1>1, <1>2, <1>4, <1>5, <1>6, <1>7

\* What was a string, a number or a key is one.
LEMMA TokensStay ==
  ASSUME text' = text
  PROVE  \A i : /\ IsString(i)' <=> IsString(i)
                /\ IsNumber(i)' <=> IsNumber(i)
                /\ IsKey(i)' <=> IsKey(i)
                /\ Decoded(i)' = Decoded(i) /\ BytesOf(i)' = BytesOf(i)
<1>1. \A i : IsString(i)' <=> IsString(i)
  BY AtStays, PlacesStay DEF IsString
<1>2. \A i : Number(i)' = Number(i)
  BY AtStays, PastStays DEF Number
<1>3. \A i : IsNumber(i)' <=> IsNumber(i)
  BY <1>2, AtStays, PlacesStay DEF IsNumber
<1>4. \A i : IsKey(i)' <=> IsKey(i)
  BY <1>1, AtStays, PastStays, PlacesStay DEF IsKey
<1>5. ASSUME NEW i PROVE Decoded(i)' = Decoded(i)
  <2>1. [j \in 1..(Close(i) - i - 1) |-> Becomes[text[i + j]]]'
          = [j \in 1..(Close(i) - i - 1) |-> Becomes[text[i + j]]]
    BY PlacesStay
  <2> QED BY <2>1, Zenon DEF Decoded
<1>6. ASSUME NEW i PROVE BytesOf(i)' = BytesOf(i)
  <2>1. Halves(i + 1, Close(i) - 1)' = Halves(i + 1, Close(i) - 1)
    BY AtStays, PlacesStay DEF Halves
  <2> QED BY <1>5, <2>1, Zenon DEF BytesOf
<1> QED BY <1>1, <1>3, <1>4, <1>5, <1>6

\* So configurations stay what they are, with the same steps.
LEMMA StepsStay ==
  ASSUME text' = text, NEW c, NEW d
  PROVE  /\ ConfigOK(c)' <=> ConfigOK(c)
         /\ Nests(c)' <=> Nests(c)
         /\ Steps(c, d)' <=> Steps(c, d)
<1>1. ConfigOK(c)' <=> ConfigOK(c)
  <2>1. Halves(1, c.at - 1)' = Halves(1, c.at - 1)
    BY AtStays DEF Halves
  <2> QED BY <2>1, Zenon DEF ConfigOK
<1>2. TakesValue(c, d)' <=> TakesValue(c, d)
  BY AtStays, PlacesStay, TokensStay, Zenon
     DEF TakesValue, AfterString, AfterNumber, AfterWord, AfterOpen, AfterScalar
<1>3. TakesMember(c, d)' <=> TakesMember(c, d)
  BY AtStays, PlacesStay, TokensStay, Zenon DEF TakesMember, AfterMember
<1>4. TakesElement(c, d)' <=> TakesElement(c, d)
  BY AtStays, PlacesStay, Zenon DEF TakesElement, AfterElement
<1>5. Closes(c, d)' <=> Closes(c, d)
  BY AtStays, PlacesStay, Zenon DEF Closes, AfterClose
<1>6. Nests(c)' <=> Nests(c)
  <2>1. \A i : InString(i)' <=> InString(i)
    BY DEF InString
  <2>2. /\ Brackets(c.at, Openers)' = Brackets(c.at, Openers)
        /\ Brackets(c.at, Closers)' = Brackets(c.at, Closers)
    BY <2>1 DEF Brackets, Openers, Closers
  <2>3. InString(c.at)' <=> InString(c.at)
    BY <2>1
  <2> QED BY <2>2, <2>3 DEF Nests
<1> QED BY <1>1, <1>2, <1>3, <1>4, <1>5, <1>6 DEF Steps

-----------------------------------------------------------------------------
(***************************************************************************)
(* The first pass                                                          *)
(***************************************************************************)

(* The configurations of a run that has come to f.                         *)
Run(R, f) ==
  /\ f \in R /\ Start \in R
  /\ \A c \in R :
       /\ ConfigOK(c) /\ Nests(c)
       /\ c.at <= f.at /\ c.dom <= f.dom /\ c.data <= f.data /\ Starts(c.seen, f.seen)
       /\ c = f \/ \E d \in R : Steps(c, d)

Now(f) ==
  /\ f.at = at /\ f.want = want /\ f.open = open
  /\ f.ds = domSize /\ f.da = dataSize /\ f.seen = found["size"]

FirstPass ==
  /\ pass = "size" /\ result = "none" /\ dom = 0 /\ data = 0 /\ found["parse"] = <<>>
  /\ \E R, f : Run(R, f) /\ Now(f)

FoundOK == found \in [{"size", "parse"} -> Seq(Nat)]

\* A run begins.
LEMMA RunStarts ==
  ASSUME TextOK
  PROVE  Run({Start}, Start)
<1>1. IsStack(<<>>) /\ IsBase(<<>>, <<>>) /\ HasRoom(<<>>, 1)
  <2>1. Len(<<>>) = 0 /\ <<>> \in Seq(Nat)
    OBVIOUS
  <2>2. IsStack(<<>>)
    <3> DEFINE V == {Call("array")}
    <3>1. \A c \in V : IsFrame(c)
      <4>1. IsFrame(Call("array"))
        BY DEF IsFrame, Call
      <4> QED BY <4>1
    <3> HIDE DEF V
    <3>2. <<>> \in Seq(V)
      OBVIOUS
    <3> QED BY <3>1, <3>2, Zenon DEF IsStack
  <2>4. IsBase(<<>>, <<>>)
    BY <2>1 DEF IsBase
  <2>5. HasRoom(<<>>, 1)
    BY <2>1 DEF HasRoom
  <2> QED BY <2>2, <2>4, <2>5
<1>2. /\ Start.at = 1 /\ Start.want = "value" /\ Start.open = <<>> /\ Start.base = <<>>
      /\ Start.ds = 0 /\ Start.da = 0 /\ Start.dom = 2 /\ Start.data = 0 /\ Start.seen = <<>>
  BY DEF Start, ValueSize
<1>3. Due(<<>>, <<>>, "value") = 2
  BY DEF Due, ValueSize
<1>4. Cardinality(Halves(1, 1 - 1)) = 0
  <2>1. \A j \in 1..(1 - 1) : At(j) # "high"
    OBVIOUS
  <2> QED BY <2>1, NoHalves
<1>5. 1 \in 1..(Len(text) + 2)
  BY AtIs
<1>6. /\ {Start.ds, Start.da, Start.dom, Start.data} \subseteq Nat
      /\ Start.dom = Start.ds + 2 /\ Start.da = Start.data + 0
  BY <1>2
<1>7. ConfigOK(Start)
  <2>1. <<>> \in Seq(Nat)
    OBVIOUS
  <2> QED BY <1>1, <1>2, <1>3, <1>4, <1>5, <1>6, <2>1, Zenon DEF ConfigOK
<1>8. /\ Start.at <= Start.at /\ Start.dom <= Start.dom /\ Start.data <= Start.data
      /\ Starts(Start.seen, Start.seen)
  <2>1. Starts(<<>>, <<>>)
    <3>1. <<>> \in Seq(Nat)
      OBVIOUS
    <3> QED BY <3>1, StartsIs, Zenon
  <2>2. Starts(Start.seen, Start.seen)
    BY <1>2, <2>1, Zenon
  <2> QED BY <1>2, <2>2
<1>9. Nests(Start)
  <2>1. ~InString(1)
    <3>1. Quotes(1) = {}
      BY DEF Quotes
    <3>2. Cardinality(Quotes(1)) = 0
      BY <3>1, FS_EmptySet
    <3> QED BY <3>2, QuotesAre
  <2>2. ASSUME NEW S PROVE Cardinality(Brackets(1, S)) = 0
    <3>1. \A i \in DOMAIN text : ~(i < 1)
      BY AtIs DEF TextOK
    <3>2. Brackets(1, S) = {}
      BY <3>1, Zenon DEF Brackets
    <3> QED BY <3>2, FS_EmptySet
  <2>3. Len(Start.open) = 0
    BY <1>2
  <2>4. Len(Start.open) + Cardinality(Brackets(1, Closers)) = Cardinality(Brackets(1, Openers))
    BY <2>2, <2>3
  <2> QED BY <1>2, <2>1, <2>4, Zenon DEF Nests
<1> QED BY <1>7, <1>8, <1>9, Zenon DEF Run

\* A run goes on.
LEMMA RunExtends ==
  ASSUME TextOK, NEW R, NEW f, Run(R, f), NEW d, Steps(f, d)
  PROVE  Run(R \cup {d}, d)
<1>1. ConfigOK(f) /\ f \in R /\ Start \in R
  BY DEF Run
<1>2. Nests(d)
  <2>1. Nests(f)
    BY DEF Run
  <2> QED BY <1>1, <2>1, StepsNest
<1>3. ConfigOK(d) /\ f.at <= d.at /\ f.dom <= d.dom /\ f.data <= d.data /\ Starts(f.seen, d.seen)
  BY <1>1, StepsOK, Zenon DEF Advances
<1>4. ASSUME NEW c, ConfigOK(c)
      PROVE  c.at \in Nat /\ c.dom \in Nat /\ c.data \in Nat /\ c.seen \in Seq(Nat)
  BY <1>4, AtIs DEF ConfigOK
<1>5. ASSUME NEW c \in R
      PROVE  /\ ConfigOK(c) /\ Nests(c)
             /\ c.at <= d.at /\ c.dom <= d.dom /\ c.data <= d.data /\ Starts(c.seen, d.seen)
             /\ \E e \in R \cup {d} : Steps(c, e)
  <2>1. /\ ConfigOK(c) /\ Nests(c) /\ c.at <= f.at /\ c.dom <= f.dom /\ c.data <= f.data
        /\ Starts(c.seen, f.seen)
    BY DEF Run
  <2>2. /\ c.at \in Nat /\ c.dom \in Nat /\ c.data \in Nat /\ c.seen \in Seq(Nat)
        /\ f.at \in Nat /\ f.dom \in Nat /\ f.data \in Nat /\ f.seen \in Seq(Nat)
        /\ d.at \in Nat /\ d.dom \in Nat /\ d.data \in Nat /\ d.seen \in Seq(Nat)
    BY <1>1, <1>3, <1>4, <2>1
  <2>3. c.at <= d.at /\ c.dom <= d.dom /\ c.data <= d.data
    <3>1. c.at <= d.at
      BY <1>3, <2>1, <2>2
    <3>2. c.dom <= d.dom
      BY <1>3, <2>1, <2>2
    <3>3. c.data <= d.data
      BY <1>3, <2>1, <2>2
    <3> QED BY <3>1, <3>2, <3>3
  <2>4. Starts(c.seen, d.seen)
    BY <1>3, <2>1, <2>2, StartsIs, Zenon
  <2>5. \E e \in R \cup {d} : Steps(c, e)
    <3>1. CASE c = f
      BY <3>1, Zenon
    <3>2. CASE c # f
      BY <3>2, Zenon DEF Run
    <3> QED BY <3>1, <3>2
  <2> QED BY <2>1, <2>3, <2>4, <2>5
<1>6. d.at <= d.at /\ d.dom <= d.dom /\ d.data <= d.data /\ Starts(d.seen, d.seen)
  BY <1>3, <1>4, StartsIs
<1> QED BY <1>1, <1>3, <1>5, <1>6, <1>2, Zenon DEF Run

\* A run of this text is one after a step, which has the same text.
LEMMA RunStays ==
  ASSUME text' = text, NEW R, NEW f, Run(R, f)
  PROVE  Run(R, f)'
  BY StepsStay, Zenon DEF Run

\* Where the first pass is, the configuration is.
LEMMA NowIs ==
  ASSUME NEW f, Now(f)
  PROVE  H(f) = Here /\ PlaceOf(f) = Place /\ CloserOf(f) = Closer /\ Last(f.open) = Top
<1>1. f.at = at /\ f.open = open
  BY DEF Now
<1>2. H(f) = Here /\ Last(f.open) = Top
  BY <1>1, Zenon DEF H, Here, Top
<1>3. PlaceOf(f) = Place
  BY <1>2, Zenon DEF PlaceOf, Place
<1>4. CloserOf(f) = Closer
  BY <1>2, Zenon DEF CloserOf, Closer
<1> QED BY <1>2, <1>3, <1>4

\* The first pass sees a value or a key.
LEMMA SeesSize ==
  ASSUME FoundOK, NEW i, i \in Nat, found' = [found EXCEPT !["size"] = Append(@, i)]
  PROVE  /\ found'["size"] = Append(found["size"], i) /\ found'["parse"] = found["parse"]
         /\ FoundOK'
  BY DEF FoundOK

\* A step of the run is a step of the first pass.
LEMMA FirstPassMoves ==
  ASSUME TextOK, FoundOK, FirstPass, SizeKeeps,
         \A f : Now(f) /\ ConfigOK(f) => \E d : Steps(f, d) /\ Now(d)',
         found'["parse"] = found["parse"]
  PROVE  FirstPass'
<1>1. PICK R, f : Run(R, f) /\ Now(f)
  BY DEF FirstPass
<1>2. PICK d : Steps(f, d) /\ Now(d)'
  <2>1. ConfigOK(f)
    BY <1>1 DEF Run
  <2> QED BY <1>1, <2>1
<1>3. Run(R \cup {d}, d)
  BY <1>1, <1>2, RunExtends
<1>4. text' = text /\ pass' = pass /\ dom' = dom /\ data' = data /\ result' = result
  BY DEF SizeKeeps
<1>5. Run(R \cup {d}, d)'
  BY <1>3, <1>4, RunStays
<1> QED BY <1>2, <1>4, <1>5, Zenon DEF FirstPass

\* Each step of the first pass is one of the run.
LEMMA SizeScalarRuns ==
  ASSUME TextOK, FoundOK, FirstPass, want = "value",
         NEW e, NEW words, NEW bytes, NEW written, SizeScalar(e, words, bytes),
         \A f : Now(f) => Steps(f, AfterScalar(f, e, words, bytes, written))
  PROVE  FirstPass' /\ FoundOK'
<1>1. pass = "size"
  BY DEF FirstPass
<1>2. /\ found' = [found EXCEPT !["size"] = Append(@, Here)]
      /\ domSize' = domSize + (ValueSize + words) /\ dataSize' = dataSize + bytes
      /\ at' = e /\ open' = Counted(open) /\ want' = NextWant(open) /\ SizeKeeps
  BY <1>1, Zenon DEF SizeScalar, Count, See
<1>3. Here \in Nat
  <2>1. PICK f, R : Run(R, f) /\ Now(f)
    BY DEF FirstPass
  <2>2. ConfigOK(f)
    BY <2>1 DEF Run
  <2> QED BY <2>1, <2>2, HereIs, NowIs
<1>4. /\ found'["size"] = Append(found["size"], Here) /\ found'["parse"] = found["parse"]
      /\ FoundOK'
  BY <1>2, <1>3, SeesSize, Zenon
<1>5. ASSUME NEW f, Now(f)
      PROVE  \E d : Steps(f, d) /\ Now(d)'
  <2>1. /\ f.at = at /\ f.want = want /\ f.open = open
        /\ f.ds = domSize /\ f.da = dataSize /\ f.seen = found["size"] /\ H(f) = Here
    BY <1>5, NowIs DEF Now
  <2>2. PICK d : d = AfterScalar(f, e, words, bytes, written)
    OBVIOUS
  <2>3. /\ d.at = e /\ d.want = NextWant(f.open) /\ d.open = Counted(f.open)
        /\ d.ds = f.ds + (ValueSize + words) /\ d.da = f.da + bytes
        /\ d.seen = Append(f.seen, H(f))
    BY <2>2 DEF AfterScalar, Moved
  <2>4. Now(d)'
    BY <1>2, <1>4, <2>1, <2>3, Zenon DEF Now
  <2> QED BY <1>5, <2>2, <2>4
<1> QED BY <1>2, <1>4, <1>5, FirstPassMoves

\* The place where the first pass reads, and what it may take there.
LEMMA FirstPassAt ==
  ASSUME TextOK, FirstPass
  PROVE  /\ pass = "size" /\ Here \in Nat /\ Here > 0
         /\ \E f : Now(f) /\ ConfigOK(f)
<1>1. PICK R, f : Run(R, f) /\ Now(f)
  BY DEF FirstPass
<1>2. ConfigOK(f)
  BY <1>1 DEF Run
<1>3. Here \in Nat /\ Here > 0
  BY <1>1, <1>2, HereIs, NowIs
<1> QED BY <1>1, <1>2, <1>3 DEF FirstPass

\* A string: json_get_string_size.
LEMMA SizeStringRuns ==
  ASSUME TextOK, FoundOK, FirstPass, SizeString
  PROVE  FirstPass' /\ FoundOK'
<1>1. want = "value" /\ IsString(Here) /\ SizeScalar(Close(Here) + 1, PayloadSize, Bytes(Here))
  BY DEF SizeString, SizePass
<1>2. Bytes(Here) = BytesOf(Here)
  BY <1>1, FirstPassAt, StringCounts DEF BytesOf
<1>3. ASSUME NEW f, Now(f)
      PROVE  Steps(f, AfterScalar(f, Close(Here) + 1, PayloadSize, Bytes(Here),
                                  Len(Decoded(Here)) + 1))
  <2>1. H(f) = Here /\ f.want = "value"
    BY <1>1, <1>3, NowIs DEF Now
  <2> QED BY <1>1, <1>2, <2>1, Zenon DEF Steps, TakesValue, AfterString
<1> QED BY <1>1, <1>3, SizeScalarRuns, Zenon

\* A number: json_get_number_size.
LEMMA SizeNumberRuns ==
  ASSUME TextOK, FoundOK, FirstPass, SizeNumber
  PROVE  FirstPass' /\ FoundOK'
<1>1. /\ want = "value" /\ IsNumber(Here)
      /\ SizeScalar(NumberEnd(Here), PayloadSize, NumberEnd(Here) - Here + 1)
  BY DEF SizeNumber, SizePass
<1>2. ASSUME NEW f, Now(f)
      PROVE  Steps(f, AfterScalar(f, NumberEnd(Here), PayloadSize, NumberEnd(Here) - Here + 1,
                                  NumberEnd(Here) - Here + 1))
  <2>1. H(f) = Here /\ f.want = "value"
    BY <1>1, <1>2, NowIs DEF Now
  <2> QED BY <1>1, <2>1, Zenon DEF Steps, TakesValue, AfterNumber
<1> QED BY <1>1, <1>2, SizeScalarRuns, Zenon

\* A word: json_get_value_size.
LEMMA SizeWordRuns ==
  ASSUME TextOK, FoundOK, FirstPass, SizeWord
  PROVE  FirstPass' /\ FoundOK'
<1>1. want = "value" /\ At(Here) \in Words /\ SizeScalar(Here + 1, 0, 0)
  BY DEF SizeWord, SizePass
<1>2. ASSUME NEW f, Now(f)
      PROVE  Steps(f, AfterScalar(f, Here + 1, 0, 0, 0))
  <2>1. H(f) = Here /\ f.want = "value"
    BY <1>1, <1>2, NowIs DEF Now
  <2> QED BY <1>1, <2>1, Zenon DEF Steps, TakesValue, AfterWord
<1> QED BY <1>1, <1>2, SizeScalarRuns, Zenon

\* An object or an array begins: json_get_object_size, json_get_array_size.
LEMMA SizeOpenRuns ==
  ASSUME TextOK, FoundOK, FirstPass, SizeOpen
  PROVE  FirstPass' /\ FoundOK'
<1>1. Here \in Nat /\ pass = "size"
  BY FirstPassAt
<1>2. /\ want = "value" /\ At(Here) \in {"{", "["} /\ SizeKeeps
      /\ domSize' = domSize + (ValueSize + PayloadSize) /\ dataSize' = dataSize + 0
      /\ found' = [found EXCEPT !["size"] = Append(@, Here)]
      /\ open' = Calls(open, IF At(Here) = "{" THEN "object" ELSE "array")
      /\ at' = Here + 1 /\ want' = "more"
  BY <1>1, Zenon DEF SizeOpen, SizePass, Count, See
<1>3. /\ found'["size"] = Append(found["size"], Here) /\ found'["parse"] = found["parse"]
      /\ FoundOK'
  BY <1>1, <1>2, SeesSize, Zenon
<1>4. ASSUME NEW f, Now(f)
      PROVE  \E d : Steps(f, d) /\ Now(d)'
  <2>1. /\ f.at = at /\ f.want = want /\ f.open = open
        /\ f.ds = domSize /\ f.da = dataSize /\ f.seen = found["size"] /\ H(f) = Here
    BY <1>4, NowIs DEF Now
  <2>2. PICK d : d = AfterOpen(f)
    OBVIOUS
  <2>3. /\ d.at = H(f) + 1 /\ d.want = "more"
        /\ d.open = Calls(f.open, IF At(H(f)) = "{" THEN "object" ELSE "array")
        /\ d.ds = f.ds + (ValueSize + PayloadSize) /\ d.da = f.da + 0
        /\ d.seen = Append(f.seen, H(f))
    BY <2>2 DEF AfterOpen, Moved
  <2>4. Now(d)'
    BY <1>2, <1>3, <2>1, <2>3, Zenon DEF Now
  <2>5. Steps(f, d)
    BY <1>2, <2>1, <2>2, Zenon DEF Steps, TakesValue
  <2> QED BY <2>4, <2>5
<1> QED BY <1>2, <1>3, <1>4, FirstPassMoves

\* The key of a member: json_get_key_size.
LEMMA SizeMemberRuns ==
  ASSUME TextOK, FoundOK, FirstPass, SizeMember
  PROVE  FirstPass' /\ FoundOK'
<1>1. pass = "size"
  BY FirstPassAt
<1>2. /\ want = "more" /\ Top.kind = "object" /\ At(Here) # "}" /\ IsKey(Place) /\ SizeKeeps
      /\ domSize' = domSize + PayloadSize /\ dataSize' = dataSize + Bytes(Place)
      /\ found' = [found EXCEPT !["size"] = Append(@, Place)]
      /\ open' = open /\ at' = Colon(Place) + 1 /\ want' = "value"
  BY <1>1, Zenon DEF SizeMember, InLoop, Count, See
<1>3. Place \in Nat /\ Place > 0 /\ Bytes(Place) = BytesOf(Place)
  <2>1. PICK f : Now(f) /\ ConfigOK(f)
    BY FirstPassAt
  <2>2. At(Place) # "end"
    BY <1>2, KeyIsThere
  <2>3. Place \in Nat /\ Place \in 1..Len(text)
    BY <2>1, <2>2, NowIs, PlaceIs
  <2>4. Place > 0 /\ IsString(Place)
    <3>1. Place > 0
      BY <2>3
    <3> QED BY <1>2, <3>1 DEF IsKey
  <2>5. Bytes(Place) = BytesOf(Place)
    BY <2>3, <2>4, StringCounts, Zenon DEF BytesOf
  <2> QED BY <2>3, <2>4, <2>5
<1>4. /\ found'["size"] = Append(found["size"], Place) /\ found'["parse"] = found["parse"]
      /\ FoundOK'
  BY <1>2, <1>3, SeesSize, Zenon
<1>5. ASSUME NEW f, Now(f)
      PROVE  \E d : Steps(f, d) /\ Now(d)'
  <2>1. /\ f.at = at /\ f.want = want /\ f.open = open /\ PlaceOf(f) = Place
        /\ f.ds = domSize /\ f.da = dataSize /\ f.seen = found["size"] /\ H(f) = Here
        /\ Last(f.open) = Top
    BY <1>5, NowIs DEF Now
  <2>2. PICK d : d = AfterMember(f)
    OBVIOUS
  <2>3. /\ d.at = Colon(PlaceOf(f)) + 1 /\ d.want = "value" /\ d.open = f.open
        /\ d.ds = f.ds + PayloadSize /\ d.da = f.da + BytesOf(PlaceOf(f))
        /\ d.seen = Append(f.seen, PlaceOf(f))
    BY <2>2 DEF AfterMember, Moved
  <2>4. Now(d)'
    BY <1>2, <1>3, <1>4, <2>1, <2>3, Zenon DEF Now
  <2>5. Steps(f, d)
    BY <1>2, <2>1, <2>2, Zenon DEF Steps, TakesMember
  <2> QED BY <2>4, <2>5
<1> QED BY <1>2, <1>4, <1>5, FirstPassMoves

\* An element of an array: json_get_array_size.
LEMMA SizeElementRuns ==
  ASSUME TextOK, FoundOK, FirstPass, SizeElement
  PROVE  FirstPass' /\ FoundOK'
<1>1. /\ want = "more" /\ Top.kind = "array" /\ At(Here) # "]" /\ At(Place) # "end" /\ SizeKeeps
      /\ domSize' = domSize /\ dataSize' = dataSize /\ found' = found
      /\ open' = open /\ at' = Place /\ want' = "value"
  BY Zenon DEF SizeElement, InLoop
<1>2. ASSUME NEW f, Now(f), ConfigOK(f)
      PROVE  \E d : Steps(f, d) /\ Now(d)'
  <2>1. /\ f.at = at /\ f.want = want /\ f.open = open /\ PlaceOf(f) = Place
        /\ f.ds = domSize /\ f.da = dataSize /\ f.seen = found["size"] /\ H(f) = Here
        /\ Last(f.open) = Top
    BY <1>2, NowIs DEF Now
  <2>2. PICK d : d = AfterElement(f)
    OBVIOUS
  <2>3. /\ d.at = PlaceOf(f) /\ d.want = "value" /\ d.open = f.open
        /\ d.ds = f.ds + 0 /\ d.da = f.da + 0 /\ d.seen = f.seen
    BY <2>2 DEF AfterElement, Moved
  <2>4. f.ds \in Nat /\ f.da \in Nat
    BY <1>2 DEF ConfigOK
  <2>5. d.ds = f.ds /\ d.da = f.da
    BY <2>3, <2>4
  <2>6. Now(d)'
    BY <1>1, <2>1, <2>3, <2>5, Zenon DEF Now
  <2>7. Steps(f, d)
    BY <1>1, <2>1, <2>2, Zenon DEF Steps, TakesElement
  <2> QED BY <2>6, <2>7
<1> QED BY <1>1, <1>2, FirstPassMoves DEF FoundOK

\* The end of an object or an array, or of the text after its last value.
LEMMA SizeCloseRuns ==
  ASSUME TextOK, FoundOK, FirstPass, SizeClose
  PROVE  FirstPass' /\ FoundOK'
<1>1. /\ want = "more" /\ LoopEnds /\ SizeKeeps
      /\ domSize' = domSize + Kids(Top.kind, Top.n) /\ dataSize' = dataSize + 0
      /\ found' = found
      /\ at' = (IF At(Here) = Closer THEN Here + 1 ELSE at)
      /\ open' = Counted(Front(open)) /\ want' = NextWant(Front(open))
  BY Zenon DEF SizeClose, SizePass, Count, Kids, WordsOf
<1>2. ASSUME NEW f, Now(f)
      PROVE  \E d : Steps(f, d) /\ Now(d)'
  <2>1. /\ f.at = at /\ f.want = want /\ f.open = open /\ CloserOf(f) = Closer
        /\ f.ds = domSize /\ f.da = dataSize /\ f.seen = found["size"] /\ H(f) = Here
        /\ Last(f.open) = Top
    BY <1>2, NowIs DEF Now
  <2>2. PICK d : d = AfterClose(f)
    OBVIOUS
  <2>3. /\ d.at = (IF At(H(f)) = CloserOf(f) THEN H(f) + 1 ELSE f.at)
        /\ d.want = NextWant(Front(f.open)) /\ d.open = Counted(Front(f.open))
        /\ d.ds = f.ds + Kids(Last(f.open).kind, Last(f.open).n) /\ d.da = f.da + 0
        /\ d.seen = f.seen
    BY <2>2 DEF AfterClose, Moved
  <2>4. Now(d)'
    BY <1>1, <2>1, <2>3, Zenon DEF Now
  <2>5. Steps(f, d)
    BY <1>1, <2>1, <2>2, Zenon DEF Steps, Closes, LoopEnds
  <2> QED BY <2>4, <2>5
<1> QED BY <1>1, <1>2, FirstPassMoves DEF FoundOK

-----------------------------------------------------------------------------
(***************************************************************************)
(* The second pass                                                         *)
(***************************************************************************)

(* The same calls, with as many values.                                    *)
Alike(o, s) ==
  /\ IsStack(o) /\ IsStack(s) /\ Len(o) = Len(s)
  /\ \A k \in 1..Len(s) : o[k].kind = s[k].kind /\ o[k].n = s[k].n

(* The second pass has come to c, or over a comma that is next.            *)
Follows(c) ==
  /\ want = c.want /\ Alike(open, c.open)
  /\ dom = c.dom /\ data = c.data /\ found["parse"] = c.seen
  /\ \/ at = c.at /\ (want = "more" => (Top.comma <=> Last(c.open).comma))
     \/ /\ want = "more" /\ ~Top.comma /\ Last(c.open).comma
        /\ At(H(c)) = "," /\ at = H(c) + 1

(* The first pass ended at f.                                              *)
Accepted(f) ==
  /\ f.want = "end" /\ H(f) = Len(text) + 1
  /\ f.ds = domSize /\ f.da = dataSize /\ f.seen = found["size"]

SecondPass ==
  /\ pass = "parse" /\ result = "none"
  /\ \E R, f : /\ Run(R, f) /\ Accepted(f)
               /\ \E c \in R : Follows(c)

Halfs == Cardinality({i \in DOMAIN text : text[i] = "high"})

Done == pass = "done" /\ JsonTypeOK /\ FillsAllocation /\ RepeatsFirstPass

\* The calls are counted as the configuration says.
LEMMA CallsAre ==
  ASSUME TextOK, NEW c, ConfigOK(c), Alike(open, c.open)
  PROVE  /\ \A x \in Range(open) :
              x.kind \in {"object", "array"} /\ x.n \in 0..Len(text) /\ x.comma \in BOOLEAN
         /\ open = <<>> <=> c.open = <<>>
<1>1. ASSUME NEW x \in Range(open)
      PROVE  x.kind \in {"object", "array"} /\ x.n \in 0..Len(text) /\ x.comma \in BOOLEAN
  <2>1. PICK k \in 1..Len(open) : x = open[k]
    BY StackIs, Zenon DEF Alike, Range
  <2>2. IsFrame(x)
    BY <2>1, StackIs DEF Alike
  <2>3. k \in 1..Len(c.open) /\ x.n = c.open[k].n
    BY <2>1 DEF Alike
  <2>4. c.open[k].n + 2 + (Len(c.open) - k) <= c.at
    BY <2>3 DEF ConfigOK, HasRoom
  <2>5. c.at \in Nat /\ c.at <= Len(text) + 2 /\ Len(text) \in Nat /\ Len(c.open) \in Nat
    BY HereIs, StackIs DEF ConfigOK
  <2>6. x.n \in 0..Len(text)
    <3>1. x.n \in Nat
      BY <2>2 DEF IsFrame
    <3> QED BY <2>3, <2>4, <2>5, <3>1
  <2> QED BY <2>2, <2>6, Zenon DEF IsFrame
<1>2. open = <<>> <=> c.open = <<>>
  BY StackIs DEF Alike
<1> QED BY <1>1, <1>2

\* The depth of the calls is the depth of the text.
LEMMA NestingIs ==
  ASSUME TextOK, NEW n, n = Len(open), n \in Nat, at <= Len(text) + 1 =>
           n + Cardinality(Brackets(at, Closers)) = Cardinality(Brackets(at, Openers))
  PROVE  RecursionIsNesting
<1>1. /\ Brackets(at, Openers)
           = {i \in DOMAIN text : i < at /\ text[i] \in {"{", "["} /\ ~InString(i)}
      /\ Brackets(at, Closers)
           = {i \in DOMAIN text : i < at /\ text[i] \in {"}", "]"} /\ ~InString(i)}
  BY Zenon DEF Brackets, Openers, Closers
<1>2. /\ Cardinality(Brackets(at, Openers)) \in Nat
      /\ Cardinality(Brackets(at, Closers)) \in Nat
  BY BracketsAre
<1>3. at <= Len(text) + 1 =>
        n = Cardinality(Brackets(at, Openers)) - Cardinality(Brackets(at, Closers))
  BY <1>2
<1> QED BY <1>1, <1>3, Zenon DEF RecursionIsNesting

\* The first pass has the properties.
LEMMA FirstPassHolds ==
  ASSUME TextOK, FoundOK, FirstPass
  PROVE  JsonTypeOK /\ FillsAllocation /\ RepeatsFirstPass /\ ReadsWhatWasAccepted
<1>1. PICK f : Now(f) /\ ConfigOK(f)
  BY FirstPassAt
<1>2. /\ pass = "size" /\ result = "none" /\ dom = 0 /\ data = 0 /\ found["parse"] = <<>>
      /\ f.at = at /\ f.want = want /\ f.open = open /\ f.ds = domSize /\ f.da = dataSize
  BY <1>1 DEF FirstPass, Now
<1>3. /\ domSize \in Nat /\ dataSize \in Nat /\ dom \in Nat /\ data \in Nat
      /\ at \in 1..(Len(text) + 2) /\ want \in {"value", "more", "end"}
      /\ want = "more" => open # <<>>
      /\ want = "end" => open = <<>>
  BY <1>1, <1>2 DEF ConfigOK
<1>4. \A x \in Range(open) :
        x.kind \in {"object", "array"} /\ x.n \in 0..Len(text) /\ x.comma \in BOOLEAN
  <2>1. Alike(open, f.open)
    BY <1>1, <1>2 DEF Alike, ConfigOK
  <2> QED BY <1>1, <2>1, CallsAre
<1>5. {domSize, dataSize, dom, data} \subseteq Nat
  BY <1>3
<1>6. JsonTypeOK
  <2>1. /\ pass \in {"size", "parse", "done"} /\ result \in {"none", "root", "null", "nomem"}
        /\ (result = "none" <=> pass # "done")
    BY <1>2
  <2> QED BY <1>3, <1>4, <1>5, <2>1, Zenon DEF JsonTypeOK, TextOK
<1>7. FillsAllocation
  BY <1>2, <1>3 DEF FillsAllocation
<1>8. RepeatsFirstPass
  <2>1. found["size"] \in Seq(Nat) /\ found["parse"] \in Seq(Nat)
    BY DEF FoundOK
  <2>2. Starts(found["parse"], found["size"])
    BY <1>2, <2>1 DEF Starts
  <2>3. IsPrefix(found["parse"], found["size"])
    BY <2>1, <2>2, StartsIs
  <2> QED BY <1>2, <2>3 DEF RepeatsFirstPass
<1>9. ReadsWhatWasAccepted
  BY <1>2 DEF ReadsWhatWasAccepted
<1> QED BY <1>6, <1>7, <1>8, <1>9

\* What holds before json_parse_ex returns holds after it.
LEMMA ReturnsDone ==
  ASSUME FoundOK, JsonTypeOK, FillsAllocation, RepeatsFirstPass,
         NEW what, what \in {"root", "null", "nomem"}, Return(what),
         what = "root" =>
           dom = domSize /\ dataSize - data = Halfs /\ found["parse"] = found["size"]
  PROVE  Done' /\ FoundOK'
<1>1. /\ pass' = "done" /\ result' = what
      /\ text' = text /\ at' = at /\ want' = want /\ open' = open
      /\ domSize' = domSize /\ dataSize' = dataSize /\ dom' = dom /\ data' = data
      /\ found' = found
  BY DEF Return
<1>2. JsonTypeOK'
  <2>1. pass' \in {"size", "parse", "done"} /\ result' \in {"none", "root", "null", "nomem"}
        /\ (result' = "none" <=> pass' # "done")
    BY <1>1
  <2> QED BY <1>1, <2>1, Zenon DEF JsonTypeOK
<1>3. FillsAllocation'
  BY <1>1, Zenon DEF FillsAllocation, Halfs
<1>4. RepeatsFirstPass'
  BY <1>1, Zenon DEF RepeatsFirstPass
<1>5. FoundOK'
  BY <1>1, Zenon DEF FoundOK
<1> QED BY <1>1, <1>2, <1>3, <1>4, <1>5, Zenon DEF Done

\* It has a call for each bracket that is open.
LEMMA FirstPassNests ==
  ASSUME TextOK, FirstPass
  PROVE  RecursionIsNesting
<1>1. PICK R, f : Run(R, f) /\ Now(f)
  BY DEF FirstPass
<1>2. ConfigOK(f) /\ Nests(f) /\ f.at = at /\ f.open = open
  BY <1>1 DEF Run, Now
<1>3. Len(open) \in Nat
  BY <1>2, StackIs DEF ConfigOK
<1> QED BY <1>2, <1>3, NestingIs, Zenon DEF Nests

\* The first pass refuses the text, or there is no memory.
LEMMA SizeEnds ==
  ASSUME TextOK, FoundOK, FirstPass, SizeFails \/ AllocFails
  PROVE  Done' /\ FoundOK'
<1>1. \E what \in {"null", "nomem"} : Return(what)
  BY Zenon DEF SizeFails, AllocFails
<1>2. PICK what \in {"null", "nomem"} : Return(what)
  BY <1>1
<1>3. what \in {"root", "null", "nomem"} /\ what # "root"
  BY <1>2
<1> QED BY <1>2, <1>3, FirstPassHolds, ReturnsDone, Zenon

\* The second pass begins where the first one did.
LEMMA SecondPassStarts ==
  ASSUME TextOK, FoundOK, FirstPass, Allocate
  PROVE  SecondPass' /\ FoundOK'
<1>1. PICK R, f : Run(R, f) /\ Now(f)
  BY DEF FirstPass
<1>2. /\ pass = "size" /\ want = "end" /\ Here = Len(text) + 1
      /\ pass' = "parse" /\ at' = 1 /\ want' = "value" /\ dom' = ValueSize
      /\ text' = text /\ open' = open /\ domSize' = domSize /\ dataSize' = dataSize
      /\ data' = data /\ found' = found /\ result' = result
  BY Zenon DEF Allocate, SizePass
<1>3. result = "none" /\ data = 0 /\ found["parse"] = <<>>
  BY DEF FirstPass
<1>4. ConfigOK(f) /\ Start \in R
  BY <1>1 DEF Run
<1>5. open = <<>>
  BY <1>1, <1>2, <1>4 DEF Now, ConfigOK
<1>6. Run(R, f)'
  BY <1>1, <1>2, RunStays
<1>7. Accepted(f)'
  <2>1. H(f)' = H(f)
    BY <1>2, PlacesStay
  <2>2. H(f) = Here
    BY <1>1, NowIs
  <2> QED BY <1>1, <1>2, <2>1, <2>2, Zenon DEF Accepted, Now
<1>8. Follows(Start)'
  <2>1. /\ Start.at = 1 /\ Start.want = "value" /\ Start.open = <<>>
        /\ Start.dom = ValueSize /\ Start.data = 0 /\ Start.seen = <<>>
    BY DEF Start
  <2>2. Alike(<<>>, <<>>)
    <3>1. ConfigOK(Start) /\ Start.open = <<>>
      BY <1>1, <2>1 DEF Run
    <3> QED BY <3>1 DEF ConfigOK, Alike
  <2>3. want' # "more"
    BY <1>2
  <2>4. Alike(open', Start.open)
    BY <1>2, <1>5, <2>1, <2>2, Zenon
  <2> QED BY <1>2, <1>3, <2>1, <2>3, <2>4, Zenon DEF Follows
<1>9. FoundOK'
  BY <1>2, Zenon DEF FoundOK
<1>10. pass' = "parse" /\ result' = "none"
  BY <1>2, <1>3
<1> QED BY <1>4, <1>6, <1>7, <1>8, <1>9, <1>10, Zenon DEF SecondPass

\* Each configuration that does not end has the next one, in the text.
LEMMA NextIs ==
  ASSUME TextOK, NEW R, NEW f, Run(R, f), Accepted(f), NEW c \in R, c.want # "end"
  PROVE  \E d \in R : Steps(c, d) /\ ConfigOK(c) /\ ConfigOK(d) /\ d.at <= Len(text) + 1
<1>1. f.want = "end" /\ H(f) = Len(text) + 1 /\ ConfigOK(f)
  BY DEF Accepted, Run
<1>2. PICK d \in R : Steps(c, d)
  <2>1. c # f
    BY <1>1
  <2> QED BY <2>1 DEF Run
<1>3. ConfigOK(c) /\ ConfigOK(d) /\ d.at <= f.at
  BY DEF Run
<1>4. f.at <= Len(text) + 1 /\ f.at \in Nat /\ Len(text) \in Nat /\ d.at \in Nat
  BY <1>1, <1>3, HereIs
<1>5. d.at <= Len(text) + 1
  BY <1>3, <1>4
<1> QED BY <1>2, <1>3, <1>5

\* A value is there when the second pass wants one.
LEMMA ValueIsThere ==
  ASSUME TextOK, NEW R, NEW f, Run(R, f), Accepted(f), NEW c \in R, Follows(c), want = "value"
  PROVE  \E d \in R : /\ TakesValue(c, d) /\ ConfigOK(c) /\ d.at <= Len(text) + 1
                      /\ Here = H(c) /\ Here \in Nat /\ Here > 0
<1>1. c.want = "value" /\ at = c.at
  BY DEF Follows
<1>2. PICK d \in R : Steps(c, d) /\ ConfigOK(c) /\ d.at <= Len(text) + 1
  BY <1>1, NextIs
<1>3. TakesValue(c, d)
  BY <1>1, <1>2, Zenon DEF Steps, TakesMember, TakesElement, Closes
<1>4. Here = H(c)
  BY <1>1, Zenon DEF Here, H
<1> QED BY <1>2, <1>3, <1>4, HereIs

\* No value begins with a bracket that ends an array.
LEMMA NoValueCloses ==
  ASSUME TextOK, NEW c, NEW d, TakesValue(c, d), H(c) > 0, H(c) \in Nat
  PROVE  At(H(c)) # "]"
<1>1. IsString(H(c)) => At(H(c)) = "quote"
  BY DEF IsString
<1>2. IsNumber(H(c)) => At(H(c)) \in NumberStart
  BY DEF IsNumber
<1> QED BY <1>1, <1>2 DEF TakesValue, NumberStart, Digits, Words

(* What the second pass finds in an object or an array.                    *)
SkipsComma(c) == CommaNow /\ at = c.at /\ Last(c.open).comma /\ Here = H(c)
Ends(c, d) == ~CommaNow /\ At(Here) = Closer /\ Closes(c, d) /\ Here = H(c) /\ at = c.at
GoesOn(c, d) ==
  /\ ~Top.comma /\ At(Here) # Closer /\ Here = PlaceOf(c)
  /\ \/ TakesMember(c, d) /\ Top.kind = "object" /\ IsKey(Here)
     \/ TakesElement(c, d) /\ Top.kind = "array" /\ At(Here) # "end"

\* The last call is of the same kind and has as many values as in the configuration.
LEMMA TopIs ==
  ASSUME NEW c, ConfigOK(c), Follows(c), c.want = "more"
  PROVE  /\ open # <<>> /\ c.open # <<>> /\ IsFrame(Top) /\ IsFrame(Last(c.open))
         /\ Top.kind = Last(c.open).kind /\ Top.n = Last(c.open).n /\ Closer = CloserOf(c)
         /\ Top = open[Len(open)] /\ Len(open) \in 1..Len(open)
<1>1. c.open # <<>> /\ Alike(open, c.open) /\ IsStack(open) /\ IsStack(c.open)
  BY DEF ConfigOK, Follows, Alike
<1>2. open # <<>> /\ Len(open) = Len(c.open) /\ Len(c.open) \in 1..Len(c.open)
  BY <1>1, StackIs DEF Alike
<1>3. Top = open[Len(open)] /\ IsFrame(Top)
  BY <1>1, <1>2, StackIs DEF Top
<1>4. Last(c.open) = c.open[Len(c.open)] /\ IsFrame(Last(c.open))
  BY <1>1, StackIs
<1>5. Top.kind = Last(c.open).kind /\ Top.n = Last(c.open).n
  <2>1. open[Len(c.open)].kind = c.open[Len(c.open)].kind
        /\ open[Len(c.open)].n = c.open[Len(c.open)].n
    BY <1>1, <1>2, Zenon DEF Alike
  <2> QED BY <1>2, <1>3, <1>4, <2>1, Zenon
<1>6. Closer = CloserOf(c)
  BY <1>5, Zenon DEF Closer, CloserOf
<1> QED BY <1>1, <1>2, <1>3, <1>4, <1>5, <1>6, Zenon

\* A comma that was accepted, the end of the object or array, or its next member
\* or element is there when the second pass wants it.
LEMMA MoreIsThere ==
  ASSUME TextOK, NEW R, NEW f, Run(R, f), Accepted(f), NEW c \in R, Follows(c), want = "more"
  PROVE  \E d \in R : /\ ConfigOK(c)
                      /\ SkipsComma(c) \/ Ends(c, d) \/ GoesOn(c, d)
<1>1. c.want = "more"
  BY DEF Follows
<1>2. PICK d \in R : /\ Steps(c, d) /\ ConfigOK(c) /\ ConfigOK(d) /\ d.at <= Len(text) + 1
  BY <1>1, NextIs
<1>3. TakesMember(c, d) \/ TakesElement(c, d) \/ Closes(c, d)
  BY <1>1, <1>2, Zenon DEF Steps, TakesValue
<1>4. Top.kind = Last(c.open).kind /\ Closer = CloserOf(c) /\ Top.kind \in {"object", "array"}
  BY <1>1, <1>2, TopIs DEF IsFrame
<1>5. ASSUME TakesMember(c, d) \/ TakesElement(c, d)
      PROVE  At(PlaceOf(c)) # "end"
  BY <1>5, KeyIsThere, Zenon DEF TakesMember, TakesElement
<1>6. c.at \in Nat /\ Len(text) \in Nat
  BY <1>2, HereIs
<1>7. CASE at = c.at /\ (Top.comma <=> Last(c.open).comma)
  <2>1. Here = H(c)
    BY <1>7, Zenon DEF Here, H
  <2>2. CASE Closes(c, d)
    <3>1. At(H(c)) = CloserOf(c)
      <4>1. c.at <= d.at /\ d.at \in Nat
        BY <1>2, StepsOK, HereIs DEF Advances
      <4>2. c.at # Len(text) + 2
        BY <1>2, <1>6, <4>1
      <4> QED BY <2>2, <4>2, Zenon DEF Closes
    <3>2. At(Here) # ","
      BY <2>1, <3>1, Zenon DEF CloserOf
    <3> QED BY <1>2, <1>4, <1>7, <2>1, <2>2, <3>1, <3>2, Zenon DEF Ends, CommaNow
  <2>3. CASE ~Closes(c, d) /\ Last(c.open).comma
    <3>1. At(H(c)) = ","
      BY <1>2, <1>3, <1>5, <2>3, PlaceIs, Zenon
    <3> QED BY <1>2, <1>7, <2>1, <2>3, <3>1, Zenon DEF SkipsComma, CommaNow
  <2>4. CASE ~Closes(c, d) /\ ~Last(c.open).comma
    <3>1. PlaceOf(c) = H(c) /\ ~Top.comma
      BY <1>7, <2>4, Zenon DEF PlaceOf
    <3>2. GoesOn(c, d)
      <4>1. CASE TakesMember(c, d)
        <5>1. Last(c.open).kind = "object" /\ IsKey(PlaceOf(c))
          BY <4>1, Zenon DEF TakesMember
        <5>2. Closer = "}" /\ At(Here) # "}"
          BY <1>4, <2>1, <3>1, <5>1, KeyIsThere, Zenon DEF Closer
        <5> QED BY <1>4, <2>1, <3>1, <4>1, <5>1, <5>2, Zenon DEF GoesOn
      <4>2. CASE TakesElement(c, d)
        <5>1. Last(c.open).kind = "array" /\ At(H(c)) # "]" /\ At(PlaceOf(c)) # "end"
          BY <4>2, Zenon DEF TakesElement
        <5>2. Closer = "]"
          BY <1>4, <5>1 DEF Closer
        <5> QED BY <1>4, <2>1, <3>1, <4>2, <5>1, <5>2, Zenon DEF GoesOn
      <4> QED BY <1>3, <2>4, <4>1, <4>2
    <3> QED BY <1>2, <3>2, Zenon
  <2> QED BY <2>2, <2>3, <2>4
<1>8. CASE ~Top.comma /\ Last(c.open).comma /\ At(H(c)) = "," /\ at = H(c) + 1
  <2>1. PlaceOf(c) = Here
    BY <1>8, Zenon DEF PlaceOf, Here
  <2>2. ~Closes(c, d)
    <3>1. ASSUME Closes(c, d) PROVE FALSE
      <4>1. At(H(c)) # CloserOf(c)
        BY <1>8 DEF CloserOf
      <4>2. c.at = Len(text) + 2
        BY <3>1, <4>1, Zenon DEF Closes
      <4>3. c.at <= d.at /\ d.at \in Nat
        BY <1>2, StepsOK, HereIs DEF Advances
      <4> QED BY <1>2, <1>6, <4>2, <4>3
    <3> QED BY <3>1
  <2>3. GoesOn(c, d)
    <3>1. CASE TakesMember(c, d)
      <4>1. Last(c.open).kind = "object" /\ IsKey(PlaceOf(c))
        BY <3>1, Zenon DEF TakesMember
      <4>2. Closer = "}" /\ At(Here) # "}"
        BY <1>4, <2>1, <4>1, KeyIsThere, Zenon DEF Closer
      <4> QED BY <1>4, <1>8, <2>1, <3>1, <4>1, <4>2, Zenon DEF GoesOn
    <3>2. CASE TakesElement(c, d)
      <4>1. Last(c.open).kind = "array" /\ At(PlaceOf(c)) # "end"
        BY <3>2, Zenon DEF TakesElement
      <4>2. Closer = "]"
        BY <1>4, <4>1 DEF Closer
      <4>3. d.want = "value" /\ d.at = PlaceOf(c)
        BY <3>2, Zenon DEF TakesElement, AfterElement, Moved
      <4>4. PICK e : Steps(d, e)
        <5>1. d.want # "end"
          BY <4>3
        <5> QED BY <5>1, NextIs
      <4>5. TakesValue(d, e)
        BY <4>3, <4>4, Zenon DEF Steps, TakesMember, TakesElement, Closes
      <4>6. H(d) = PlaceOf(c)
        <5>1. PlaceOf(c) \in Nat /\ PlaceOf(c) \in 1..Len(text) /\ At(PlaceOf(c)) \notin White
          BY <1>2, <4>1, PlaceIs
        <5>2. PlaceOf(c) > 0 /\ PlaceOf(c) >= PlaceOf(c)
          BY <5>1
        <5>3. \A j \in PlaceOf(c)..(PlaceOf(c) - 1) : At(j) \in White
          BY <5>1
        <5>4. Past(PlaceOf(c), White) = PlaceOf(c)
          BY <5>1, <5>2, <5>3, NoEnd, PastStops
        <5> QED BY <4>3, <5>4, Zenon DEF H
      <4>7. At(H(d)) # "]"
        BY <1>2, <4>5, HereIs, NoValueCloses
      <4> QED BY <1>4, <1>8, <2>1, <3>2, <4>1, <4>2, <4>6, <4>7, Zenon DEF GoesOn
    <3> QED BY <1>3, <2>2, <3>1, <3>2
  <2> QED BY <1>2, <2>3, Zenon
<1> QED BY <1>7, <1>8 DEF Follows

\* At the end of the first pass all that it counted is what the second one uses,
\* but for one byte for each surrogate pair.
LEMMA EndIs ==
  ASSUME TextOK, NEW f, ConfigOK(f), Accepted(f)
  PROVE  /\ f.dom = domSize /\ dataSize = f.data + Halfs
         /\ domSize \in Nat /\ dataSize \in Nat /\ f.data \in Nat /\ Halfs \in Nat
<1>1. /\ f.want = "end" /\ f.open = <<>> /\ IsStack(f.open) /\ IsBase(f.open, f.base)
      /\ f.ds \in Nat /\ f.da \in Nat /\ f.data \in Nat
      /\ f.dom = f.ds + Due(f.open, f.base, f.want)
      /\ f.da = f.data + Cardinality(Halves(1, f.at - 1))
      /\ f.ds = domSize /\ f.da = dataSize /\ H(f) = Len(text) + 1
  BY DEF ConfigOK, Accepted
<1>2. Due(f.open, f.base, f.want) = 0
  BY <1>1, DueIs
<1>3. Halfs = Cardinality(Halves(1, f.at - 1)) /\ Halfs \in Nat
  <2>1. /\ f.at \in Nat /\ f.at > 0 /\ f.at <= Len(text) + 1 /\ Len(text) \in Nat
        /\ \A j \in f.at..Len(text) : At(j) # "high"
    <3>1. H(f) - 1 = Len(text)
      BY <1>1, HereIs
    <3> QED BY <1>1, <3>1, HereIs
  <2>2. {i \in DOMAIN text : text[i] = "high"} = Halves(1, Len(text))
    BY AtIs DEF Halves, At, TextOK
  <2>3. f.at - 1 \in Nat /\ 1 \in Nat /\ 1 <= (f.at - 1) + 1 /\ f.at - 1 <= Len(text)
        /\ (f.at - 1) + 1 = f.at
    BY <2>1
  <2>4. Cardinality(Halves(1, Len(text))) = Cardinality(Halves(1, f.at - 1))
    BY <2>1, <2>3, HalvesStay
  <2>5. Cardinality(Halves(1, f.at - 1)) \in Nat
    <3>1. 1 \in Int /\ f.at - 1 \in Int
      BY <2>3
    <3> QED BY <2>3, <3>1, HalvesGrow
  <2> QED BY <2>2, <2>4, <2>5 DEF Halfs
<1>4. f.dom = domSize
  BY <1>1, <1>2
<1>5. dataSize = f.data + Halfs
  BY <1>1, <1>3
<1> QED BY <1>1, <1>3, <1>4, <1>5

\* The second pass has the properties.
LEMMA SecondPassHolds ==
  ASSUME TextOK, FoundOK, SecondPass
  PROVE  JsonTypeOK /\ FillsAllocation /\ RepeatsFirstPass /\ ReadsWhatWasAccepted
<1>1. PICK R, f : Run(R, f) /\ Accepted(f) /\ \E c \in R : Follows(c)
  BY DEF SecondPass
<1>2. PICK c \in R : Follows(c)
  BY <1>1
<1>3. /\ ConfigOK(c) /\ ConfigOK(f)
      /\ c.dom <= f.dom /\ c.data <= f.data /\ Starts(c.seen, f.seen)
  BY <1>1, <1>2 DEF Run
<1>4. pass = "parse" /\ result = "none"
  BY DEF SecondPass
<1>5. /\ f.dom = domSize /\ dataSize = f.data + Halfs
      /\ domSize \in Nat /\ dataSize \in Nat /\ f.data \in Nat /\ Halfs \in Nat
  BY <1>1, <1>3, EndIs
<1>6. /\ want = c.want /\ dom = c.dom /\ data = c.data /\ found["parse"] = c.seen
      /\ Alike(open, c.open)
  BY <1>2 DEF Follows
<1>7. /\ c.dom \in Nat /\ c.data \in Nat /\ want \in {"value", "more", "end"}
      /\ want = "more" => c.open # <<>>
      /\ want = "end" => c.open = <<>>
  BY <1>3, <1>6 DEF ConfigOK
<1>8. JsonTypeOK
  <2>1. at \in 1..(Len(text) + 2)
    <3>1. CASE at = c.at
      BY <1>3, <3>1 DEF ConfigOK
    <3>2. CASE At(H(c)) = "," /\ at = H(c) + 1
      <4>1. H(c) \in 1..Len(text)
        <5>1. At(H(c)) # "end"
          BY <3>2
        <5> QED BY <5>1, AtIs
      <4>2. Len(text) \in Nat /\ at = H(c) + 1
        BY <3>2, AtIs
      <4> QED BY <4>1, <4>2
    <3> QED BY <1>2, <3>1, <3>2 DEF Follows
  <2>2. /\ \A x \in Range(open) :
             x.kind \in {"object", "array"} /\ x.n \in 0..Len(text) /\ x.comma \in BOOLEAN
        /\ open = <<>> <=> c.open = <<>>
    BY <1>3, <1>6, CallsAre
  <2>3. {domSize, dataSize, dom, data} \subseteq Nat
    BY <1>5, <1>6, <1>7
  <2>4. /\ pass \in {"size", "parse", "done"} /\ result \in {"none", "root", "null", "nomem"}
        /\ (result = "none" <=> pass # "done")
    BY <1>4
  <2> QED BY <1>7, <2>1, <2>2, <2>3, <2>4, Zenon DEF JsonTypeOK, TextOK
<1>9. FillsAllocation
  <2>1. dom <= domSize
    BY <1>3, <1>5, <1>6
  <2>2. data <= dataSize
    BY <1>3, <1>5, <1>6, <1>7
  <2> QED BY <1>4, <2>1, <2>2 DEF FillsAllocation
<1>10. RepeatsFirstPass
  <2>1. found["size"] \in Seq(Nat) /\ found["parse"] \in Seq(Nat) /\ f.seen = found["size"]
    BY <1>1 DEF FoundOK, Accepted
  <2>2. IsPrefix(found["parse"], found["size"])
    BY <1>3, <1>6, <2>1, StartsIs
  <2> QED BY <1>4, <2>2 DEF RepeatsFirstPass
<1>11. ReadsWhatWasAccepted
  <2>1. ASSUME want = "value"
        PROVE  IsString(Here) \/ IsNumber(Here) \/ At(Here) \in Words \cup {"{", "["}
    <3>1. PICK d \in R : TakesValue(c, d) /\ Here = H(c)
      BY <1>1, <1>2, <2>1, ValueIsThere
    <3>2. IsString(Here) \/ IsNumber(Here) \/ At(Here) \in Words \/ At(Here) \in {"{", "["}
      BY <3>1, Zenon DEF TakesValue
    <3> QED BY <3>2, Zenon
  <2>2. ASSUME want = "more"
        PROVE  \/ At(Here) = Closer \/ CommaNow
               \/ /\ ~Top.comma
                  /\ IF Top.kind = "object" THEN IsKey(Here) ELSE At(Here) # "end"
    <3>1. PICK d \in R : SkipsComma(c) \/ Ends(c, d) \/ GoesOn(c, d)
      BY <1>1, <1>2, <2>2, MoreIsThere
    <3>2. SkipsComma(c) => CommaNow
      BY DEF SkipsComma
    <3>3. Ends(c, d) => At(Here) = Closer
      BY DEF Ends
    <3>4. GoesOn(c, d) =>
            ~Top.comma /\ (IF Top.kind = "object" THEN IsKey(Here) ELSE At(Here) # "end")
      BY DEF GoesOn
    <3> QED BY <3>1, <3>2, <3>3, <3>4, Zenon
  <2> QED BY <2>1, <2>2, Zenon DEF ReadsWhatWasAccepted
<1> QED BY <1>8, <1>9, <1>10, <1>11

\* It has as many calls as the text is nested, too.
LEMMA SecondPassNests ==
  ASSUME TextOK, SecondPass
  PROVE  RecursionIsNesting
<1>1. PICK R, f : Run(R, f) /\ Accepted(f) /\ \E c \in R : Follows(c)
  BY DEF SecondPass
<1>2. PICK c \in R : Follows(c)
  BY <1>1
<1>3. ConfigOK(c) /\ Nests(c)
  BY <1>1 DEF Run
<1>4. Len(open) = Len(c.open) /\ Len(c.open) \in Nat
  BY <1>2, StackIs DEF Follows, Alike
<1>5. CASE at = c.at
  BY <1>3, <1>4, <1>5, NestingIs, Zenon DEF Nests
<1>6. CASE At(H(c)) = "," /\ at = H(c) + 1
  <2>1. H(c) \in 1..Len(text)
    <3>1. At(H(c)) # "end"
      BY <1>6
    <3> QED BY <3>1, AtIs
  <2>2. c.at <= Len(text) + 1
    <3>1. c.at \in Nat /\ H(c) \in Nat /\ H(c) >= c.at /\ Len(text) \in Nat
      BY <1>3, HereIs
    <3> QED BY <2>1, <3>1
  <2>3. Kept(c.at, H(c))
    BY <1>3, <2>2, HereKeeps
  <2>4. Kept(H(c), H(c) + 1)
    BY <1>6, <2>1, Quiet, QuietStep
  <2>5. Kept(c.at, at)
    BY <1>6, <2>3, <2>4, KeptOn
  <2>6. Len(c.open) + Cardinality(Brackets(at, Closers)) = Cardinality(Brackets(at, Openers))
    BY <1>3, <2>2, <2>5, KeptOutside
  <2> QED BY <1>4, <2>6, NestingIs, Zenon
<1> QED BY <1>2, <1>5, <1>6, Zenon DEF Follows

\* It has read all of the text when it returns.
LEMMA SecondPassEnds ==
  ASSUME TextOK, FoundOK, SecondPass, ParseReturns
  PROVE  Done' /\ FoundOK'
<1>1. PICK R, f : Run(R, f) /\ Accepted(f) /\ \E c \in R : Follows(c)
  BY DEF SecondPass
<1>2. PICK c \in R : Follows(c)
  BY <1>1
<1>3. want = "end" /\ Return("root")
  BY DEF ParseReturns, ParsePass
<1>4. c = f
  <2>1. c.want = "end"
    BY <1>2, <1>3 DEF Follows
  <2>2. ASSUME NEW d PROVE ~Steps(c, d)
    BY <2>1 DEF Steps, TakesValue, TakesMember, TakesElement, Closes
  <2> QED BY <1>1, <1>2, <2>2 DEF Run
<1>5. ConfigOK(f)
  BY <1>1 DEF Run
<1>6. dom = domSize /\ dataSize - data = Halfs /\ found["parse"] = found["size"]
  <2>1. dom = f.dom /\ data = f.data /\ found["parse"] = f.seen /\ f.seen = found["size"]
    BY <1>1, <1>2, <1>4 DEF Follows, Accepted
  <2>2. /\ f.dom = domSize /\ dataSize = f.data + Halfs
        /\ dataSize \in Nat /\ f.data \in Nat /\ Halfs \in Nat
    BY <1>1, <1>5, EndIs
  <2> QED BY <2>1, <2>2
<1>7. JsonTypeOK /\ FillsAllocation /\ RepeatsFirstPass
  BY SecondPassHolds
<1> QED BY <1>3, <1>6, <1>7, ReturnsDone

-----------------------------------------------------------------------------
(***************************************************************************)
(* The steps of the second pass                                            *)
(***************************************************************************)

\* The second pass sees a value or a key, or nothing new.
LEMMA SeesParse ==
  ASSUME FoundOK, NEW i, i \in Nat, found' = [found EXCEPT !["parse"] = Append(@, i)]
  PROVE  /\ found'["parse"] = Append(found["parse"], i) /\ found'["size"] = found["size"]
         /\ FoundOK'
  BY DEF FoundOK

\* It goes on to a configuration of the run.
LEMMA SecondPassMoves ==
  ASSUME SecondPass, NEW R, NEW f, Run(R, f), Accepted(f), NEW d \in R, Follows(d)',
         ParseKeeps, found'["size"] = found["size"]
  PROVE  SecondPass'
<1>1. /\ text' = text /\ pass' = pass /\ domSize' = domSize /\ dataSize' = dataSize
      /\ result' = result
  BY DEF ParseKeeps
<1>2. Run(R, f)'
  BY <1>1, RunStays
<1>3. Accepted(f)'
  <2>1. H(f)' = H(f)
    BY <1>1, PlacesStay
  <2> QED BY <1>1, <2>1, Zenon DEF Accepted
<1>4. pass' = "parse" /\ result' = "none"
  BY <1>1 DEF SecondPass
<1> QED BY <1>2, <1>3, <1>4, Zenon DEF SecondPass

\* A stack is like another one whatever its last call has got.
LEMMA AlikeTop ==
  ASSUME NEW o, NEW s, Alike(o, s), o # <<>>, NEW x, IsFrame(x),
         x.kind = o[Len(o)].kind, x.n = o[Len(o)].n
  PROVE  LET t == [o EXCEPT ![Len(o)] = x]
         IN  Alike(t, s) /\ Last(t) = x /\ t # <<>>
<1> DEFINE t == [o EXCEPT ![Len(o)] = x]
<1>1. /\ IsStack(o) /\ IsStack(s) /\ Len(o) = Len(s)
      /\ \A k \in 1..Len(s) : o[k].kind = s[k].kind /\ o[k].n = s[k].n
  BY Zenon DEF Alike
<1>2. /\ IsStack(t) /\ Len(t) = Len(o) /\ t # <<>>
      /\ \A k \in 1..(Len(o) - 1) : t[k] = o[k]
      /\ t[Len(o)] = x /\ Last(t) = x
  BY <1>1, StackTop, Zenon
<1> HIDE DEF t
<1>3. ASSUME NEW k \in 1..Len(s) PROVE t[k].kind = s[k].kind /\ t[k].n = s[k].n
  <2>1. Len(s) \in Nat /\ (k \in 1..(Len(o) - 1) \/ k = Len(o))
    BY <1>1, StackIs
  <2>2. t[k].kind = o[k].kind /\ t[k].n = o[k].n
    BY <1>2, <2>1, Zenon
  <2> QED BY <1>1, <2>2
<1> QED BY <1>1, <1>2, <1>3, Zenon DEF Alike, t

\* Stacks that are alike count a value alike, and return alike.
LEMMA AlikeCounted ==
  ASSUME NEW o, NEW s, Alike(o, s)
  PROVE  /\ Alike(Counted(o), Counted(s)) /\ (o = <<>> <=> s = <<>>)
         /\ o # <<>> => Last(Counted(o)).comma /\ Last(Counted(s)).comma
<1>1. /\ IsStack(o) /\ IsStack(s) /\ Len(o) = Len(s)
      /\ \A k \in 1..Len(s) : o[k].kind = s[k].kind /\ o[k].n = s[k].n
  BY Zenon DEF Alike
<1>2. o = <<>> <=> s = <<>>
  BY <1>1, StackIs
<1>3. CASE o = <<>>
  <2>1. Counted(o) = o /\ Counted(s) = s
    BY <1>2, <1>3, Zenon DEF Counted
  <2> QED BY <1>2, <1>3, <2>1, Zenon
<1>4. CASE o # <<>>
  <2> DEFINE L == Len(s)
             p == Counted(o)
             t == Counted(s)
  <2>1. /\ IsStack(p) /\ Len(p) = L
        /\ \A k \in 1..(L - 1) : p[k] = o[k]
        /\ Last(p) = p[L] /\ Last(p).comma
        /\ Last(p).kind = Last(o).kind /\ Last(p).n = Last(o).n + 1
    BY <1>1, <1>4, CountedIs
  <2>2. /\ IsStack(t) /\ Len(t) = L
        /\ \A k \in 1..(L - 1) : t[k] = s[k]
        /\ Last(t) = t[L] /\ Last(t).comma
        /\ Last(t).kind = Last(s).kind /\ Last(t).n = Last(s).n + 1
    BY <1>1, <1>2, <1>4, CountedIs
  <2>3. Last(o) = o[L] /\ Last(s) = s[L] /\ L \in 1..L /\ L \in Nat
    BY <1>1, <1>2, <1>4, StackIs
  <2> HIDE DEF p, t
  <2>4. ASSUME NEW k \in 1..L PROVE p[k].kind = t[k].kind /\ p[k].n = t[k].n
    <3>1. CASE k = L
      <4>1. o[L].kind = s[L].kind /\ o[L].n = s[L].n
        BY <1>1, <2>3
      <4> QED BY <2>1, <2>2, <2>3, <3>1, <4>1, Zenon
    <3>2. CASE k # L
      <4>1. k \in 1..(L - 1) /\ k \in 1..Len(s)
        BY <2>3, <3>2
      <4> QED BY <1>1, <2>1, <2>2, <4>1, Zenon
    <3> QED BY <3>1, <3>2
  <2> QED BY <1>2, <2>1, <2>2, <2>4, Zenon DEF Alike, p, t
<1> QED BY <1>3, <1>4

\* Stacks that are alike are alike without their last calls.
LEMMA AlikeFront ==
  ASSUME NEW o, NEW s, Alike(o, s), o # <<>>
  PROVE  Alike(Front(o), Front(s))
<1>1. /\ IsStack(o) /\ IsStack(s) /\ Len(o) = Len(s) /\ Len(s) \in Nat
      /\ \A k \in 1..Len(s) : o[k].kind = s[k].kind /\ o[k].n = s[k].n
  BY StackIs DEF Alike
<1>2. s # <<>>
  BY <1>1, StackIs
<1>3. /\ IsStack(Front(o)) /\ Len(Front(o)) = Len(s) - 1
      /\ \A k \in 1..(Len(s) - 1) : Front(o)[k] = o[k]
  BY <1>1, StackPop
<1>4. /\ IsStack(Front(s)) /\ Len(Front(s)) = Len(s) - 1
      /\ \A k \in 1..(Len(s) - 1) : Front(s)[k] = s[k]
  BY <1>1, <1>2, StackPop
<1>5. \A k \in 1..(Len(s) - 1) : k \in 1..Len(s)
  BY <1>1
<1> QED BY <1>1, <1>3, <1>4, <1>5, Zenon DEF Alike

\* They are alike with one more call, which has no comma to expect.
LEMMA AlikeCalls ==
  ASSUME NEW o, NEW s, Alike(o, s), NEW kind \in {"object", "array"}
  PROVE  /\ Alike(Calls(o, kind), Calls(s, kind))
         /\ ~Last(Calls(o, kind)).comma /\ ~Last(Calls(s, kind)).comma
<1> DEFINE p == Calls(o, kind)
           t == Calls(s, kind)
<1>1. /\ IsStack(o) /\ IsStack(s) /\ Len(o) = Len(s) /\ Len(s) \in Nat
      /\ \A k \in 1..Len(s) : o[k].kind = s[k].kind /\ o[k].n = s[k].n
  BY StackIs DEF Alike
<1>2. /\ IsStack(p) /\ Len(p) = Len(s) + 1
      /\ \A k \in 1..Len(s) : p[k] = o[k]
      /\ p[Len(s) + 1] = Call(kind) /\ Last(p) = Call(kind)
  BY <1>1, StackPush
<1>3. /\ IsStack(t) /\ Len(t) = Len(s) + 1
      /\ \A k \in 1..Len(s) : t[k] = s[k]
      /\ t[Len(s) + 1] = Call(kind) /\ Last(t) = Call(kind)
  BY <1>1, StackPush
<1>4. ~Call(kind).comma
  BY DEF Call
<1> HIDE DEF p, t
<1>5. ASSUME NEW k \in 1..(Len(s) + 1) PROVE p[k].kind = t[k].kind /\ p[k].n = t[k].n
  <2>1. k \in 1..Len(s) \/ k = Len(s) + 1
    BY <1>1
  <2> QED BY <1>1, <1>2, <1>3, <2>1, Zenon
<1> QED BY <1>2, <1>3, <1>4, <1>5, Zenon DEF Alike, p, t

\* A value that was read is given to its caller, which counts it.
LEMMA GiveIs ==
  ASSUME NEW o, NEW s, Alike(o, s), NEW value, Give(o, value)
  PROVE  /\ Alike(open', Counted(s)) /\ want' = NextWant(s)
         /\ want' = "more" => Last(open').comma /\ Last(Counted(s)).comma
<1>1. want' = NextWant(o) /\ (o = <<>> => open' = o)
  BY Zenon DEF Give
<1>2. /\ Alike(Counted(o), Counted(s)) /\ (o = <<>> <=> s = <<>>)
      /\ o # <<>> => Last(Counted(o)).comma /\ Last(Counted(s)).comma
  BY AlikeCounted
<1>3. want' = NextWant(s)
  BY <1>1, <1>2 DEF NextWant
<1>4. CASE o = <<>>
  <2>1. Counted(o) = o
    BY <1>4, Zenon DEF Counted
  <2>2. want' # "more"
    BY <1>1, <1>4 DEF NextWant
  <2> QED BY <1>1, <1>2, <1>3, <1>4, <2>1, <2>2, Zenon
<1>5. CASE o # <<>>
  <2> DEFINE p == Counted(o)
             y == p[Len(o)]
             x == [y EXCEPT !.got = Linked(@, [name |-> Last(o).name, value |-> value])]
  <2>1. open' = [p EXCEPT ![Len(o)].got =
                   Linked(@, [name |-> Last(o).name, value |-> value])]
    BY <1>5, Zenon DEF Give
  <2>2. IsStack(p) /\ Len(p) = Len(o) /\ p # <<>> /\ Last(p) = p[Len(p)] /\ IsFrame(y)
    <3>1. IsStack(p) /\ Len(p) = Len(o) /\ p # <<>>
      BY <1>5, CountedIs DEF Alike
    <3>2. Last(p) = p[Len(p)] /\ IsFrame(Last(p))
      BY <3>1, StackIs
    <3> QED BY <3>1, <3>2, Zenon
  <2>3. open' = [p EXCEPT ![Len(p)] = x]
    BY <2>1, <2>2, Zenon
  <2>4. /\ x.kind = y.kind /\ x.n = y.n /\ x.comma = y.comma
        /\ IsFrame(x)
    <3>1. PICK r : r = y
      BY Zenon
    <3>2. IsFrame(r) /\ r = [kind |-> r.kind, n |-> r.n, comma |-> r.comma,
                             name |-> r.name, got |-> r.got]
      BY <2>2, <3>1, Zenon DEF IsFrame
    <3>3. PICK k, n, b, z, g :
            r = [kind |-> k, n |-> n, comma |-> b, name |-> z, got |-> g]
      BY <3>2, Zenon
    <3>4. PICK v : x = [r EXCEPT !.got = v]
      BY <3>1, Zenon
    <3> HIDE DEF x
    <3>5. /\ x.kind = r.kind /\ x.n = r.n /\ x.comma = r.comma
          /\ x = [kind |-> x.kind, n |-> x.n, comma |-> x.comma, name |-> x.name, got |-> x.got]
      BY <3>3, <3>4
    <3>6. IsFrame(x)
      BY <3>2, <3>5, Zenon DEF IsFrame
    <3> QED BY <3>1, <3>5, <3>6, Zenon
  <2> HIDE DEF x, p
  <2>5. Alike(open', Counted(s)) /\ Last(open') = x
    BY <1>2, <2>2, <2>3, <2>4, AlikeTop, Zenon DEF p
  <2>6. x.comma
    BY <1>2, <1>5, <2>2, <2>4, Zenon DEF p
  <2> QED BY <1>2, <1>3, <1>5, <2>5, <2>6, Zenon
<1> QED BY <1>4, <1>5

\* The second pass takes the string, number or word that the first one took.
LEMMA ParseScalarRuns ==
  ASSUME TextOK, FoundOK, SecondPass, NEW R, NEW f, Run(R, f), Accepted(f), NEW c \in R,
         Follows(c), Here = H(c), Here \in Nat,
         NEW e, NEW words, NEW counted, NEW bytes, NEW value,
         ParseScalar(e, words, bytes, value), AfterScalar(c, e, words, counted, bytes) \in R
  PROVE  SecondPass' /\ FoundOK'
<1>1. PICK d : d = AfterScalar(c, e, words, counted, bytes)
  OBVIOUS
<1>2. /\ d.at = e /\ d.want = NextWant(c.open) /\ d.open = Counted(c.open)
      /\ d.dom = c.dom + words /\ d.data = c.data + bytes /\ d.seen = Append(c.seen, H(c))
  BY <1>1 DEF AfterScalar, Moved
<1>3. /\ dom' = dom + words /\ data' = data + bytes /\ at' = e
      /\ found' = [found EXCEPT !["parse"] = Append(@, Here)]
      /\ Give(open, value) /\ ParseKeeps
  BY Zenon DEF ParseScalar, Use, See, SecondPass
<1>4. /\ found'["parse"] = Append(found["parse"], Here) /\ found'["size"] = found["size"]
      /\ FoundOK'
  BY <1>3, SeesParse, Zenon
<1>5. Alike(open, c.open) /\ dom = c.dom /\ data = c.data /\ found["parse"] = c.seen
  BY Zenon DEF Follows
<1>6. /\ Alike(open', d.open) /\ want' = d.want
      /\ want' = "more" => Last(open').comma /\ Last(d.open).comma
  BY <1>2, <1>3, <1>5, GiveIs, Zenon
<1>7. Follows(d)'
  BY <1>2, <1>3, <1>4, <1>5, <1>6, Zenon DEF Follows, Top
<1> QED BY <1>1, <1>3, <1>4, <1>7, SecondPassMoves, Zenon

\* A string: json_parse_string.
LEMMA ParseStringRuns ==
  ASSUME TextOK, FoundOK, SecondPass, ParseString
  PROVE  SecondPass' /\ FoundOK'
<1>1. PICK R, f : Run(R, f) /\ Accepted(f) /\ \E c \in R : Follows(c)
  BY DEF SecondPass
<1>2. PICK c \in R : Follows(c)
  BY <1>1
<1>3. /\ want = "value" /\ At(Here) = "quote"
      /\ ParseScalar(Close(Here) + 1, PayloadSize, Len(Decoded(Here)) + 1,
                     Value("string", Decoded(Here)))
  BY Zenon DEF ParseString, ParsePass
<1>4. PICK d \in R : TakesValue(c, d) /\ Here = H(c) /\ Here \in Nat
  BY <1>1, <1>2, <1>3, ValueIsThere
<1>5. d = AfterString(c)
  <2>1. ~IsNumber(H(c))
    BY <1>3, <1>4 DEF IsNumber, NumberStart, Digits
  <2>2. At(H(c)) \notin Words /\ At(H(c)) \notin {"{", "["}
    BY <1>3, <1>4 DEF Words
  <2> QED BY <1>4, <2>1, <2>2, Zenon DEF TakesValue
<1>6. d = AfterScalar(c, Close(Here) + 1, PayloadSize, BytesOf(Here), Len(Decoded(Here)) + 1)
  BY <1>4, <1>5, Zenon DEF AfterString
<1> QED BY <1>1, <1>2, <1>3, <1>4, <1>6, ParseScalarRuns, Zenon

\* A number: json_parse_number stops where json_get_number_size did.
LEMMA ParseNumberRuns ==
  ASSUME TextOK, FoundOK, SecondPass, ParseNumber
  PROVE  SecondPass' /\ FoundOK'
<1>1. PICK R, f : Run(R, f) /\ Accepted(f) /\ \E c \in R : Follows(c)
  BY DEF SecondPass
<1>2. PICK c \in R : Follows(c)
  BY <1>1
<1> DEFINE e == Past(Here, NumberLexemes)
<1>3. /\ want = "value" /\ At(Here) \in NumberLexemes
      /\ ParseScalar(e, PayloadSize, e - Here + 1, Value("number", SubSeq(text, Here, e - 1)))
  BY Zenon DEF ParseNumber, ParsePass
<1>4. PICK d \in R : /\ TakesValue(c, d) /\ Here = H(c) /\ Here \in Nat /\ Here > 0
                     /\ d.at <= Len(text) + 1
  BY <1>1, <1>2, <1>3, ValueIsThere
<1>5. IsNumber(Here) /\ d = AfterNumber(c)
  <2>1. ~IsString(H(c))
    BY <1>3, <1>4 DEF IsString, NumberLexemes, Digits
  <2>2. At(H(c)) \notin Words /\ At(H(c)) \notin {"{", "["}
    BY <1>3, <1>4 DEF Words, NumberLexemes, Digits
  <2> QED BY <1>4, <2>1, <2>2, Zenon DEF TakesValue
<1>6. d.at = NumberEnd(Here)
  BY <1>4, <1>5 DEF AfterNumber, AfterScalar, Moved
<1>7. e = NumberEnd(Here)
  BY <1>4, <1>5, <1>6, NumberEnds
<1>8. d = AfterScalar(c, e, PayloadSize, e - Here + 1, e - Here + 1)
  BY <1>4, <1>5, <1>7, Zenon DEF AfterNumber
<1> HIDE DEF e
<1> QED BY <1>1, <1>2, <1>3, <1>4, <1>8, ParseScalarRuns, Zenon

\* A word: the default of the switch in json_parse_value.
LEMMA ParseWordRuns ==
  ASSUME TextOK, FoundOK, SecondPass, ParseWord
  PROVE  SecondPass' /\ FoundOK'
<1>1. PICK R, f : Run(R, f) /\ Accepted(f) /\ \E c \in R : Follows(c)
  BY DEF SecondPass
<1>2. PICK c \in R : Follows(c)
  BY <1>1
<1>3. /\ want = "value" /\ At(Here) \notin (NumberLexemes \ {"e"}) \cup {"quote", "{", "["}
      /\ ParseScalar(IF At(Here) \in Words THEN Here + 1 ELSE Here, 0, 0,
                     Value("word", <<At(Here)>>))
  BY Zenon DEF ParseWord, ParsePass
<1>4. PICK d \in R : TakesValue(c, d) /\ Here = H(c) /\ Here \in Nat
  BY <1>1, <1>2, <1>3, ValueIsThere
<1>5. At(Here) \in Words /\ d = AfterWord(c)
  <2>1. ~IsString(H(c))
    BY <1>3, <1>4 DEF IsString
  <2>2. ~IsNumber(H(c))
    BY <1>3, <1>4 DEF IsNumber, NumberStart, NumberLexemes, Digits
  <2>3. At(H(c)) \notin {"{", "["}
    BY <1>3, <1>4
  <2> QED BY <1>4, <2>1, <2>2, <2>3, Zenon DEF TakesValue
<1>6. d = AfterScalar(c, Here + 1, 0, 0, 0)
  BY <1>4, <1>5, Zenon DEF AfterWord
<1>7. ParseScalar(Here + 1, 0, 0, Value("word", <<At(Here)>>))
  BY <1>3, <1>5, Zenon
<1> QED BY <1>1, <1>2, <1>4, <1>6, <1>7, ParseScalarRuns, Zenon

\* An object or an array begins: json_parse_object and json_parse_array.
LEMMA ParseOpenRuns ==
  ASSUME TextOK, FoundOK, SecondPass, ParseOpen
  PROVE  SecondPass' /\ FoundOK'
<1>1. PICK R, f : Run(R, f) /\ Accepted(f) /\ \E c \in R : Follows(c)
  BY DEF SecondPass
<1>2. PICK c \in R : Follows(c)
  BY <1>1
<1> DEFINE kind == IF At(Here) = "{" THEN "object" ELSE "array"
<1>3. /\ want = "value" /\ Begins(Here)
      /\ dom' = dom + PayloadSize /\ data' = data + 0
      /\ found' = [found EXCEPT !["parse"] = Append(@, Here)]
      /\ open' = Calls(open, kind) /\ at' = Here + 1 /\ want' = "more" /\ ParseKeeps
  BY Zenon DEF ParseOpen, ParsePass, Begins, Use, See
<1>4. PICK d \in R : TakesValue(c, d) /\ Here = H(c) /\ Here \in Nat
  BY <1>1, <1>2, <1>3, ValueIsThere
<1>5. d = AfterOpen(c)
  <2>1. ~IsString(H(c))
    BY <1>3, <1>4 DEF IsString, Begins
  <2>2. ~IsNumber(H(c))
    BY <1>3, <1>4 DEF IsNumber, NumberStart, Digits, Begins
  <2>3. At(H(c)) \notin Words
    BY <1>3, <1>4 DEF Words, Begins
  <2> QED BY <1>4, <2>1, <2>2, <2>3, Zenon DEF TakesValue
<1>6. /\ d.at = Here + 1 /\ d.want = "more" /\ d.open = Calls(c.open, kind)
      /\ d.dom = c.dom + PayloadSize /\ d.data = c.data + 0 /\ d.seen = Append(c.seen, Here)
  BY <1>4, <1>5 DEF AfterOpen, Moved
<1>7. /\ found'["parse"] = Append(found["parse"], Here) /\ found'["size"] = found["size"]
      /\ FoundOK'
  BY <1>3, <1>4, SeesParse, Zenon
<1>8. Alike(open, c.open) /\ dom = c.dom /\ data = c.data /\ found["parse"] = c.seen
  BY <1>2, Zenon DEF Follows
<1>9. Alike(open', d.open) /\ ~Last(open').comma /\ ~Last(d.open).comma
  <2>1. kind \in {"object", "array"}
    OBVIOUS
  <2> HIDE DEF kind
  <2> QED BY <1>3, <1>6, <1>8, <2>1, AlikeCalls, Zenon
<1> HIDE DEF kind
<1>10. Follows(d)'
  BY <1>3, <1>6, <1>7, <1>8, <1>9, Zenon DEF Follows, Top
<1> QED BY <1>1, <1>3, <1>4, <1>7, <1>10, SecondPassMoves, Zenon
\* The last call with its comma taken, or its name set, is one like it.
LEMMA FrameIs ==
  ASSUME NEW r, IsFrame(r), NEW v, NEW x
  PROVE  /\ x = [r EXCEPT !.comma = FALSE] =>
              IsFrame(x) /\ x.kind = r.kind /\ x.n = r.n /\ ~x.comma
         /\ x = [r EXCEPT !.name = v] =>
              IsFrame(x) /\ x.kind = r.kind /\ x.n = r.n
<1>1. PICK k, n, b, z, g :
        r = [kind |-> k, n |-> n, comma |-> b, name |-> z, got |-> g]
  BY Zenon DEF IsFrame
<1>2. r.kind \in {"object", "array"} /\ r.n \in Nat /\ r.comma \in BOOLEAN
  BY DEF IsFrame
<1>3. ASSUME x = [r EXCEPT !.comma = FALSE]
      PROVE  IsFrame(x) /\ x.kind = r.kind /\ x.n = r.n /\ ~x.comma
  <2>1. x = [kind |-> k, n |-> n, comma |-> FALSE, name |-> z, got |-> g]
    BY <1>1, <1>3
  <2> QED BY <1>1, <1>2, <2>1 DEF IsFrame
<1>4. ASSUME x = [r EXCEPT !.name = v]
      PROVE  IsFrame(x) /\ x.kind = r.kind /\ x.n = r.n
  <2>1. x = [kind |-> k, n |-> n, comma |-> b, name |-> v, got |-> g]
    BY <1>1, <1>4
  <2> QED BY <1>1, <1>2, <2>1 DEF IsFrame
<1> QED BY <1>3, <1>4

\* The place where the second pass reads.
LEMMA SecondPassAt ==
  ASSUME TextOK, FoundOK, SecondPass
  PROVE  /\ Here \in Nat /\ pass = "parse"
         /\ at > Len(text) => At(Here) = "end"
<1>1. at \in 1..(Len(text) + 2) /\ Len(text) \in Nat
  BY SecondPassHolds, AtIs DEF JsonTypeOK
<1>2. at \in Nat /\ at > 0
  BY <1>1
<1>3. Here \in Nat /\ (at > Len(text) => Here = at)
  BY <1>2, PastWhite DEF Here
<1>4. at > Len(text) => At(at) = "end"
  BY <1>1, AtIs
<1> QED BY <1>3, <1>4 DEF SecondPass

\* A comma is skipped: the configuration is still the one before it.
LEMMA ParseCommaRuns ==
  ASSUME TextOK, FoundOK, SecondPass, ParseComma
  PROVE  SecondPass' /\ FoundOK'
<1>1. PICK R, f : Run(R, f) /\ Accepted(f) /\ \E c \in R : Follows(c)
  BY DEF SecondPass
<1>2. PICK c \in R : Follows(c)
  BY <1>1
<1>3. /\ want = "more" /\ CommaNow
      /\ at' = Here + 1 /\ open' = [open EXCEPT ![Len(open)].comma = FALSE]
      /\ want' = want /\ dom' = dom /\ data' = data /\ found' = found /\ ParseKeeps
  BY Zenon DEF ParseComma, ParseMore, InLoop
<1>4. ConfigOK(c) /\ SkipsComma(c)
  <2>1. PICK d \in R : ConfigOK(c) /\ (SkipsComma(c) \/ Ends(c, d) \/ GoesOn(c, d))
    BY <1>1, <1>2, <1>3, MoreIsThere
  <2> QED BY <1>3, <2>1 DEF Ends, GoesOn, CommaNow
<1>5. c.want = "more" /\ Alike(open, c.open)
  BY <1>2, <1>3 DEF Follows
<1>6. open # <<>> /\ IsFrame(Top) /\ Top = open[Len(open)]
  BY <1>2, <1>4, <1>5, TopIs
<1>7. PICK x : x = [Top EXCEPT !.comma = FALSE]
  OBVIOUS
<1>8. IsFrame(x) /\ x.kind = Top.kind /\ x.n = Top.n /\ ~x.comma
  BY <1>6, <1>7, FrameIs, Zenon
<1>9. open' = [open EXCEPT ![Len(open)] = x]
  BY <1>3, <1>6, <1>7, Zenon
<1>10. Alike(open', c.open) /\ Last(open') = x
  BY <1>5, <1>6, <1>8, <1>9, AlikeTop, Zenon
<1>11. text' = text
  BY <1>3 DEF ParseKeeps
<1>12. H(c)' = H(c) /\ At(H(c))' = At(H(c))
  BY <1>11, PlacesStay, AtStays
<1>13. At(H(c)) = "," /\ Last(c.open).comma /\ at' = H(c) + 1
  BY <1>3, <1>4, Zenon DEF SkipsComma, CommaNow
<1>14. Follows(c)'
  BY <1>2, <1>3, <1>8, <1>10, <1>12, <1>13, Zenon DEF Follows, Top
<1>15. FoundOK' /\ found'["size"] = found["size"]
  BY <1>3, Zenon DEF FoundOK
<1> QED BY <1>1, <1>3, <1>14, <1>15, SecondPassMoves, Zenon

\* The key of a member: json_parse_object, json_parse_key.
LEMMA ParseMemberRuns ==
  ASSUME TextOK, FoundOK, SecondPass, ParseMember
  PROVE  SecondPass' /\ FoundOK'
<1>1. PICK R, f : Run(R, f) /\ Accepted(f) /\ \E c \in R : Follows(c)
  BY DEF SecondPass
<1>2. PICK c \in R : Follows(c)
  BY <1>1
<1> DEFINE words == MemberSize + PayloadSize + ValueSize
           bytes == Len(Decoded(Here)) + 1
<1>3. /\ want = "more" /\ Top.kind = "object" /\ At(Here) # Closer /\ ~CommaNow
      /\ dom' = dom + words /\ data' = data + bytes
      /\ found' = [found EXCEPT !["parse"] = Append(@, Here)]
      /\ open' = [open EXCEPT ![Len(open)].name = Decoded(Here)]
      /\ at' = Colon(Here) + 1 /\ want' = "value" /\ ParseKeeps
  BY SecondPassAt, Zenon DEF ParseMember, ParseMore, InLoop, Use, See
<1>4. PICK d \in R : ConfigOK(c) /\ GoesOn(c, d)
  <2>1. PICK d \in R : ConfigOK(c) /\ (SkipsComma(c) \/ Ends(c, d) \/ GoesOn(c, d))
    BY <1>1, <1>2, <1>3, MoreIsThere
  <2> QED BY <1>3, <2>1 DEF Ends, SkipsComma
<1>5. TakesMember(c, d) /\ Here = PlaceOf(c)
  BY <1>3, <1>4 DEF GoesOn
<1>6. /\ d.at = Colon(Here) + 1 /\ d.want = "value" /\ d.open = c.open
      /\ d.dom = c.dom + words /\ d.data = c.data + bytes /\ d.seen = Append(c.seen, Here)
  <2>1. d = AfterMember(c)
    BY <1>5 DEF TakesMember
  <2> QED BY <1>5, <2>1 DEF AfterMember, Moved
<1> HIDE DEF words, bytes
<1>7. /\ c.want = "more" /\ Alike(open, c.open) /\ dom = c.dom /\ data = c.data
      /\ found["parse"] = c.seen
  BY <1>2, <1>3, Zenon DEF Follows
<1>8. open # <<>> /\ IsFrame(Top) /\ Top = open[Len(open)]
  BY <1>2, <1>4, <1>7, TopIs
<1>9. PICK x : x = [Top EXCEPT !.name = Decoded(Here)]
  OBVIOUS
<1>10. IsFrame(x) /\ x.kind = Top.kind /\ x.n = Top.n
  BY <1>8, <1>9, FrameIs, Zenon
<1>11. open' = [open EXCEPT ![Len(open)] = x]
  BY <1>3, <1>8, <1>9, Zenon
<1>12. Alike(open', c.open)
  BY <1>7, <1>8, <1>10, <1>11, AlikeTop, Zenon
<1>13. /\ found'["parse"] = Append(found["parse"], Here) /\ found'["size"] = found["size"]
       /\ FoundOK'
  BY <1>3, SecondPassAt, SeesParse, Zenon
<1>14. Follows(d)'
  <2>1. want' # "more"
    BY <1>3
  <2> QED BY <1>3, <1>6, <1>7, <1>12, <1>13, <2>1, Zenon DEF Follows
<1> QED BY <1>1, <1>3, <1>13, <1>14, SecondPassMoves, Zenon

\* An element of an array: json_parse_array.
LEMMA ParseElementRuns ==
  ASSUME TextOK, FoundOK, SecondPass, ParseElement
  PROVE  SecondPass' /\ FoundOK'
<1>1. PICK R, f : Run(R, f) /\ Accepted(f) /\ \E c \in R : Follows(c)
  BY DEF SecondPass
<1>2. PICK c \in R : Follows(c)
  BY <1>1
<1>3. /\ want = "more" /\ Top.kind = "array" /\ At(Here) # Closer /\ ~CommaNow
      /\ dom' = dom + (ElementSize + ValueSize) /\ data' = data + 0
      /\ found' = found /\ open' = open /\ at' = Here /\ want' = "value" /\ ParseKeeps
  BY Zenon DEF ParseElement, ParseMore, InLoop, Use
<1>4. PICK d \in R : ConfigOK(c) /\ GoesOn(c, d)
  <2>1. PICK d \in R : ConfigOK(c) /\ (SkipsComma(c) \/ Ends(c, d) \/ GoesOn(c, d))
    BY <1>1, <1>2, <1>3, MoreIsThere
  <2> QED BY <1>3, <2>1 DEF Ends, SkipsComma
<1>5. TakesElement(c, d) /\ Here = PlaceOf(c)
  BY <1>3, <1>4 DEF GoesOn
<1>6. /\ d.at = Here /\ d.want = "value" /\ d.open = c.open
      /\ d.dom = c.dom + (ElementSize + ValueSize) /\ d.data = c.data + 0 /\ d.seen = c.seen
  <2>1. d = AfterElement(c)
    BY <1>5 DEF TakesElement
  <2> QED BY <1>5, <2>1 DEF AfterElement, Moved
<1>7. Alike(open, c.open) /\ dom = c.dom /\ data = c.data /\ found["parse"] = c.seen
  BY <1>2, <1>3, Zenon DEF Follows
<1>8. Follows(d)'
  <2>1. want' # "more"
    BY <1>3
  <2> QED BY <1>3, <1>6, <1>7, <2>1, Zenon DEF Follows
<1>9. FoundOK' /\ found'["size"] = found["size"]
  BY <1>3, Zenon DEF FoundOK
<1> QED BY <1>1, <1>3, <1>8, <1>9, SecondPassMoves, Zenon

\* The end of an object or an array: its bracket, which is always there.
LEMMA ParseCloseRuns ==
  ASSUME TextOK, FoundOK, SecondPass, ParseClose
  PROVE  SecondPass' /\ FoundOK'
<1>1. PICK R, f : Run(R, f) /\ Accepted(f) /\ \E c \in R : Follows(c)
  BY DEF SecondPass
<1>2. PICK c \in R : Follows(c)
  BY <1>1
<1>3. /\ want = "more" /\ (At(Here) = Closer \/ at > Len(text))
      /\ at' = (IF At(Here) = Closer THEN Here + 1 ELSE at)
      /\ Give(Front(open), Value(Top.kind, Top.got))
      /\ dom' = dom /\ data' = data /\ found' = found /\ ParseKeeps
  BY Zenon DEF ParseClose, ParsePass
<1>4. PICK d \in R : ConfigOK(c) /\ Ends(c, d)
  <2>1. PICK d \in R : ConfigOK(c) /\ (SkipsComma(c) \/ Ends(c, d) \/ GoesOn(c, d))
    BY <1>1, <1>2, <1>3, MoreIsThere
  <2>2. at > Len(text) => At(Here) = "end"
    BY SecondPassAt
  <2>3. ~SkipsComma(c)
    BY <1>3, <2>2 DEF SkipsComma, CommaNow, Closer
  <2>4. ~GoesOn(c, d)
    <3>1. IsKey(Here) => At(Here) # "end"
      BY KeyIsThere
    <3> QED BY <1>3, <2>2, <3>1, Zenon DEF GoesOn
  <2> QED BY <2>1, <2>3, <2>4
<1>5. At(Here) = Closer /\ Closes(c, d) /\ Here = H(c)
  BY <1>4 DEF Ends
<1>6. c.want = "more" /\ Alike(open, c.open)
  BY <1>2, <1>3, Zenon DEF Follows
<1>7. open # <<>> /\ Closer = CloserOf(c)
  BY <1>2, <1>4, <1>6, TopIs
<1>8. /\ d.at = Here + 1 /\ d.want = NextWant(Front(c.open))
      /\ d.open = Counted(Front(c.open))
      /\ d.dom = c.dom + 0 /\ d.data = c.data + 0 /\ d.seen = c.seen
  <2>1. d = AfterClose(c) /\ At(H(c)) = CloserOf(c)
    BY <1>5, <1>7, Zenon DEF Closes
  <2> QED BY <1>5, <2>1 DEF AfterClose, Moved
<1>9. c.dom + 0 = c.dom /\ c.data + 0 = c.data
  BY <1>4 DEF ConfigOK
<1>10. Alike(Front(open), Front(c.open))
  BY <1>6, <1>7, AlikeFront
<1>11. /\ Alike(open', d.open) /\ want' = d.want
       /\ want' = "more" => Last(open').comma /\ Last(d.open).comma
  BY <1>3, <1>8, <1>10, GiveIs, Zenon
<1>12. at' = Here + 1
  BY <1>3, <1>5, Zenon
<1>13. Follows(d)'
  BY <1>2, <1>3, <1>8, <1>9, <1>11, <1>12, Zenon DEF Follows, Top
<1>14. FoundOK' /\ found'["size"] = found["size"]
  BY <1>3, Zenon DEF FoundOK
<1> QED BY <1>1, <1>3, <1>13, <1>14, SecondPassMoves, Zenon
-----------------------------------------------------------------------------
(***************************************************************************)
(* The inductive invariant and the theorems                                *)
(***************************************************************************)

(* The run is in its first pass, at the end of a run of configurations; or *)
(* in its second, at one of the configurations of a run that was accepted; *)
(* or it has returned.                                                     *)
JsonInv == text \in Texts /\ FoundOK /\ (FirstPass \/ SecondPass \/ Done)

\* It holds when json_parse_ex is called.
LEMMA JsonInit == Init => JsonInv
<1> SUFFICES ASSUME Init PROVE JsonInv
  OBVIOUS
<1>1. /\ text \in Texts /\ pass = "size" /\ at = 1 /\ want = "value" /\ open = <<>>
      /\ domSize = 0 /\ dataSize = 0 /\ dom = 0 /\ data = 0 /\ result = "none"
      /\ found = [p \in {"size", "parse"} |-> <<>>]
  BY DEF Init
<1>2. FoundOK /\ found["size"] = <<>> /\ found["parse"] = <<>>
  BY <1>1 DEF FoundOK
<1>3. TextOK
  BY <1>1, TextsOfLexemes DEF TextOK
<1>4. Now(Start)
  BY <1>1, <1>2 DEF Now, Start
<1>5. FirstPass
  BY <1>1, <1>2, <1>3, <1>4, RunStarts, Zenon DEF FirstPass
<1> QED BY <1>1, <1>2, <1>5 DEF JsonInv

\* No step changes the text.
LEMMA TextStays ==
  ASSUME Next
  PROVE  text' = text
<1>1. SizeKeeps \/ ParseKeeps \/ (\E what : Return(what)) \/ Allocate
  BY Zenon DEF Next, SizeString, SizeNumber, SizeWord, SizeScalar, SizeOpen, SizeMember,
        SizeElement, SizeClose, SizeFails, AllocFails, ParseString, ParseNumber, ParseWord,
        ParseScalar, ParseOpen, ParseComma, ParseMember, ParseElement, ParseClose, ParseReturns
<1> QED BY <1>1 DEF SizeKeeps, ParseKeeps, Return, Allocate

\* Every step of either pass keeps it, and so does one that changes nothing.
LEMMA JsonNext == JsonInv /\ [Next]_vars => JsonInv'
<1> SUFFICES ASSUME JsonInv, [Next]_vars PROVE JsonInv'
  OBVIOUS
<1>1. text \in Texts /\ FoundOK /\ TextOK /\ (FirstPass \/ SecondPass \/ Done)
  BY TextsOfLexemes DEF JsonInv, TextOK
<1>2. text' = text
  BY TextStays DEF vars
<1>3. ASSUME FirstPass, Next
      PROVE  FoundOK' /\ (FirstPass' \/ SecondPass' \/ Done')
  <2>1. pass = "size"
    BY <1>3 DEF FirstPass
  <2>2. \/ SizeString \/ SizeNumber \/ SizeWord \/ SizeOpen \/ SizeMember \/ SizeElement
        \/ SizeClose \/ SizeFails \/ AllocFails \/ Allocate
    BY <1>3, <2>1 DEF Next, ParseString, ParseNumber, ParseWord, ParseOpen, ParseComma,
         ParseMember, ParseElement, ParseClose, ParseReturns, ParsePass, ParseMore
  <2>3. CASE SizeString
    BY <1>1, <1>3, <2>3, SizeStringRuns
  <2>4. CASE SizeNumber
    BY <1>1, <1>3, <2>4, SizeNumberRuns
  <2>5. CASE SizeWord
    BY <1>1, <1>3, <2>5, SizeWordRuns
  <2>6. CASE SizeOpen
    BY <1>1, <1>3, <2>6, SizeOpenRuns
  <2>7. CASE SizeMember
    BY <1>1, <1>3, <2>7, SizeMemberRuns
  <2>8. CASE SizeElement
    BY <1>1, <1>3, <2>8, SizeElementRuns
  <2>9. CASE SizeClose
    BY <1>1, <1>3, <2>9, SizeCloseRuns
  <2>10. CASE SizeFails \/ AllocFails
    BY <1>1, <1>3, <2>10, SizeEnds
  <2>11. CASE Allocate
    BY <1>1, <1>3, <2>11, SecondPassStarts
  <2> QED BY <2>2, <2>3, <2>4, <2>5, <2>6, <2>7, <2>8, <2>9, <2>10, <2>11
<1>4. ASSUME SecondPass, Next
      PROVE  FoundOK' /\ (SecondPass' \/ Done')
  <2>1. pass = "parse"
    BY <1>4 DEF SecondPass
  <2>2. \/ ParseString \/ ParseNumber \/ ParseWord \/ ParseOpen \/ ParseComma
        \/ ParseMember \/ ParseElement \/ ParseClose \/ ParseReturns
    BY <1>4, <2>1 DEF Next, SizeString, SizeNumber, SizeWord, SizeOpen, SizeMember,
         SizeElement, SizeClose, SizeFails, AllocFails, Allocate, SizePass
  <2>3. CASE ParseString
    BY <1>1, <1>4, <2>3, ParseStringRuns
  <2>4. CASE ParseNumber
    BY <1>1, <1>4, <2>4, ParseNumberRuns
  <2>5. CASE ParseWord
    BY <1>1, <1>4, <2>5, ParseWordRuns
  <2>6. CASE ParseOpen
    BY <1>1, <1>4, <2>6, ParseOpenRuns
  <2>7. CASE ParseComma
    BY <1>1, <1>4, <2>7, ParseCommaRuns
  <2>8. CASE ParseMember
    BY <1>1, <1>4, <2>8, ParseMemberRuns
  <2>9. CASE ParseElement
    BY <1>1, <1>4, <2>9, ParseElementRuns
  <2>10. CASE ParseClose
    BY <1>1, <1>4, <2>10, ParseCloseRuns
  <2>11. CASE ParseReturns
    BY <1>1, <1>4, <2>11, SecondPassEnds
  <2> QED BY <2>2, <2>3, <2>4, <2>5, <2>6, <2>7, <2>8, <2>9, <2>10, <2>11
<1>5. ASSUME Done PROVE ~Next
  BY <1>5 DEF Done, Next, SizeString, SizeNumber, SizeWord, SizeOpen, SizeMember,
     SizeElement, SizeClose, SizeFails, AllocFails, Allocate, SizePass,
     ParseString, ParseNumber, ParseWord, ParseOpen, ParseComma,
     ParseMember, ParseElement, ParseClose, ParseReturns, ParsePass, ParseMore
<1>6. ASSUME UNCHANGED vars
      PROVE  FoundOK' /\ (FirstPass' \/ SecondPass' \/ Done')
  <2>1. /\ pass' = pass /\ at' = at /\ want' = want /\ open' = open
        /\ domSize' = domSize /\ dataSize' = dataSize /\ dom' = dom /\ data' = data
        /\ found' = found /\ result' = result
    BY <1>6 DEF vars
  <2>2. FoundOK'
    BY <1>1, <2>1, Zenon DEF FoundOK
  <2>3. ASSUME FirstPass PROVE FirstPass'
    <3>1. PICK R, f : Run(R, f) /\ Now(f)
      BY <2>3 DEF FirstPass
    <3>2. Run(R, f)'
      BY <1>2, <3>1, RunStays
    <3>3. Now(f)'
      BY <2>1, <3>1, Zenon DEF Now
    <3> QED BY <2>1, <2>3, <3>2, <3>3, Zenon DEF FirstPass
  <2>4. ASSUME SecondPass PROVE SecondPass'
    <3>1. PICK R, f : Run(R, f) /\ Accepted(f) /\ \E c \in R : Follows(c)
      BY <2>4 DEF SecondPass
    <3>2. PICK c \in R : Follows(c)
      BY <3>1
    <3>3. Run(R, f)'
      BY <1>2, <3>1, RunStays
    <3>4. H(f)' = H(f) /\ H(c)' = H(c) /\ At(H(c))' = At(H(c))
      BY <1>2, PlacesStay, AtStays
    <3>5. Accepted(f)'
      BY <1>2, <2>1, <3>1, <3>4, Zenon DEF Accepted
    <3>6. Follows(c)'
      BY <2>1, <3>2, <3>4, Zenon DEF Follows, Top
    <3> QED BY <2>1, <2>4, <3>3, <3>5, <3>6, Zenon DEF SecondPass
  <2>5. ASSUME Done PROVE Done'
    <3>1. JsonTypeOK' /\ FillsAllocation' /\ RepeatsFirstPass'
      BY <1>2, <2>1, <2>5, Zenon
         DEF Done, JsonTypeOK, FillsAllocation, RepeatsFirstPass
    <3> QED BY <2>1, <2>5, <3>1 DEF Done
  <2> QED BY <1>1, <2>2, <2>3, <2>4, <2>5
<1> QED BY <1>1, <1>2, <1>3, <1>4, <1>5, <1>6 DEF JsonInv

\* What it says in every state.
LEMMA JsonHolds ==
  JsonInv => /\ JsonTypeOK /\ FillsAllocation /\ RepeatsFirstPass
             /\ ReadsWhatWasAccepted /\ RecursionIsNesting
<1> SUFFICES ASSUME JsonInv
             PROVE  /\ JsonTypeOK /\ FillsAllocation /\ RepeatsFirstPass
                    /\ ReadsWhatWasAccepted /\ RecursionIsNesting
  OBVIOUS
<1>1. FoundOK /\ TextOK /\ (FirstPass \/ SecondPass \/ Done)
  BY TextsOfLexemes DEF JsonInv, TextOK
<1>2. Done => ReadsWhatWasAccepted /\ RecursionIsNesting
  BY DEF Done, ReadsWhatWasAccepted, RecursionIsNesting
<1> QED BY <1>1, <1>2, FirstPassHolds, SecondPassHolds, FirstPassNests, SecondPassNests, Zenon
        DEF Done

\* The second pass is where the first one has been: the inductive invariant of
\* json_parse_ex holds in every state, for every set of texts.
THEOREM JsonInductive == Spec => []JsonInv
  BY JsonInit, JsonNext, PTL DEF Spec

\* The offset leaves the text by one at most (json.h:1303), no call is nested or
\* counts deeper than the text is long, and an object or array that is read has a
\* call that has not returned.
THEOREM JsonTyped == Spec => []JsonTypeOK
  BY JsonInductive, JsonHolds, PTL

\* The one allocation is never overrun, structures or characters, and is used up in
\* the end but for one byte for each surrogate pair (json.h:2117 and 2142).
THEOREM AllocationFilled == Spec => []FillsAllocation
  BY JsonInductive, JsonHolds, PTL

\* The second pass sees the keys and values of the first one, in the same places.
THEOREM SecondRepeatsFirst == Spec => []RepeatsFirstPass
  BY JsonInductive, JsonHolds, PTL

\* The second pass, which checks nothing, reads only what the first one accepted: a
\* value, key, comma or bracket that is there.
THEOREM OnlyAcceptedRead == Spec => []ReadsWhatWasAccepted
  BY JsonInductive, JsonHolds, PTL

\* The C stack holds a call for each bracket that is still open, in either pass, for
\* every text: json_parse goes no deeper than the text does (json.h:1031, 1108, 1748 and 1838).
THEOREM DepthIsNesting == Spec => []RecursionIsNesting
  BY JsonInductive, JsonHolds, PTL

===============================================================================
