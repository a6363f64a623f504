----------------------------- MODULE PessoaProofs -----------------------------
(* For any limits and any bodies: the strings of a Pessoa end inside it,   *)
(* what json_parse allocated is freed once, and a body that means one      *)
(* thing is stored and told what it should be.                             *)
EXTENDS Pessoa, DataLemmas

(* The fields of the last body are JSON, and there are enough of them in   *)
(* the loop of json_as_pessoa.                                             *)
BodyOK == FieldsAreJson(body)

IInv == PessoaTypeOK /\ StringsEnd /\ RootIsFreed /\ BodyOK

-----------------------------------------------------------------------------
(* Lemmas about the arrays.                                                *)

(* Offsets are numbers, and the padding comes after every slot.            *)
LEMMA Offsets ==
  /\ NomeAt \in Nat /\ NamesEnd \in Nat /\ NomeAt <= NamesEnd
  /\ StackEnd \in Nat
  /\ \A i \in 1..MaxItems : ItemAt(i) \in Nat /\ ItemAt(i) + ItemLen + 1 <= StackEnd
<1> DEFINE w == ItemLen + 1
<1>1. ApelidoLen \in Nat /\ NomeLen \in Nat /\ ItemLen \in Nat /\ MaxItems \in Nat \ {0}
  BY LimitsArePositive
<1>2. NomeAt \in Nat /\ NamesEnd \in Nat /\ NomeAt <= NamesEnd
  BY <1>1 DEF NomeAt, NamesEnd
<1>3. \A n \in Nat : n * w \in Nat
  BY <1>1
<1>4. ASSUME NEW i \in 1..MaxItems
      PROVE  ItemAt(i) \in Nat /\ ItemAt(i) + w <= StackEnd
  <2> DEFINE n == i - 1
             d == MaxItems - i
  <2>1. n \in Nat /\ d \in Nat /\ MaxItems = n + 1 + d
    BY <1>1
  <2>2. n * w \in Nat /\ d * w \in Nat
    BY <1>3, <2>1
  <2>3. (n + 1 + d) * w = n * w + w + d * w
    BY <1>1, <2>1
  <2>4. ItemAt(i) = n * w
    BY DEF ItemAt
  <2>5. StackEnd = (n + 1 + d) * w
    BY <1>1, <2>1 DEF StackEnd, ItemAt
  <2> QED BY <1>1, <2>2, <2>3, <2>4, <2>5
<1>5. StackEnd \in Nat
  BY <1>1, <1>3 DEF StackEnd, ItemAt
<1> QED BY <1>1, <1>2, <1>4, <1>5

(* memcpy changes no offset after the last one it is given.                *)
LEMMA CopyKeeps ==
  ASSUME NEW m, NEW at \in Nat, NEW s, IsSeq(s),
         NEW end \in Nat, end \in DOMAIN m, at + Len(s) <= end
  PROVE  DOMAIN Copy(m, at, s) = DOMAIN m /\ Copy(m, at, s)[end] = m[end]
<1>1. Len(s) \in Nat /\ DOMAIN s = 1..Len(s)
  BY DEF IsSeq
<1>2. end + 1 - at \notin DOMAIN s
  BY <1>1
<1> QED BY <1>2 DEF Copy

(* Items that json_as_pessoa takes leave the padding of the stack alone.   *)
LEMMA PackKeeps ==
  ASSUME NEW m, DOMAIN m = 0..StackEnd,
         NEW items, DOMAIN items \subseteq 1..MaxItems,
         \A j \in DOMAIN items : IsSeq(items[j]) /\ Len(items[j]) <= ItemLen + 1
  PROVE  DOMAIN Pack(m, items) = 0..StackEnd /\ Pack(m, items)[StackEnd] = m[StackEnd]
<1>1. ASSUME NEW j \in DOMAIN items
      PROVE  StackEnd + 1 - ItemAt(j) \notin DOMAIN items[j]
  <2>1. Len(items[j]) \in Nat /\ DOMAIN items[j] = 1..Len(items[j])
    BY DEF IsSeq
  <2>2. ItemAt(j) \in Nat /\ ItemAt(j) + ItemLen + 1 <= StackEnd /\ StackEnd \in Nat
    BY Offsets
  <2>3. ItemLen \in Nat
    BY LimitsArePositive
  <2> QED BY <2>1, <2>2, <2>3
<1>2. StackEnd \in 0..StackEnd
  BY Offsets
<1> QED BY <1>1, <1>2 DEF Pack

(* A row more, at any place of the table.                                  *)
LEMMA InsertGrows ==
  ASSUME NEW s, IsSeq(s), NEW p \in 1..(Len(s) + 1), NEW e
  PROVE  IsSeq(InsertAt(s, p, e)) /\ Len(InsertAt(s, p, e)) = Len(s) + 1
<1> DEFINE S == Range(s) \cup {e}
           u == SubSeq(s, 1, p - 1)
           v == SubSeq(s, p, Len(s))
           t == InsertAt(s, p, e)
<1>1. s \in Seq(S) /\ e \in S /\ Len(s) \in Nat
  BY DEF IsSeq
<1>2. u \in Seq(S) /\ v \in Seq(S) /\ Len(u) + Len(v) = Len(s)
  <2>1. \A i \in 1..Len(s) : s[i] \in S
    BY <1>1
  <2>2. (\A i \in 1..(p - 1) : s[i] \in S) /\ (\A i \in p..Len(s) : s[i] \in S)
    BY <1>1, <2>1
  <2>3. u \in Seq(S) /\ Len(u) = IF 1 <= p - 1 THEN (p - 1) - 1 + 1 ELSE 0
    BY <1>1, <2>2, SubSeqProperties
  <2>4. v \in Seq(S) /\ Len(v) = IF p <= Len(s) THEN Len(s) - p + 1 ELSE 0
    BY <1>1, <2>2, SubSeqProperties
  <2> HIDE DEF S, u, v
  <2>5. Len(u) = p - 1 /\ Len(v) = Len(s) - p + 1
    BY <1>1, <2>3, <2>4
  <2>6. Len(u) + Len(v) = Len(s)
    <3>1. Len(s) \in Int /\ p \in Int
      BY <1>1
    <3> QED BY <2>5, <3>1
  <2> QED BY <2>3, <2>4, <2>6
<1>3. t \in Seq(S) /\ Len(t) = Len(s) + 1
  <2>1. <<e>> \in Seq(S) /\ Len(<<e>>) = 1
    BY <1>1
  <2>2. u \o <<e>> \in Seq(S) /\ Len(u \o <<e>>) = Len(u) + 1
    <3> HIDE DEF u
    <3> QED BY <1>2, <2>1, ConcatProperties
  <2>3. t = (u \o <<e>>) \o v
    BY DEF InsertAt
  <2> HIDE DEF u, v, t
  <2> QED BY <1>1, <1>2, <2>2, <2>3, ConcatProperties
<1>4. t \in Seq(Range(t))
  BY <1>3 DEF Range
<1> QED BY <1>3, <1>4 DEF IsSeq

-----------------------------------------------------------------------------
(* One lemma per action.                                                   *)

LEMMA InitIInv == Init => IInv
<1> SUFFICES ASSUME Init PROVE IInv
  OBVIOUS
<1>1. NamesEnd \in 0..NamesEnd /\ StackEnd \in 0..StackEnd
  BY Offsets
<1>2. IsSeq(<<>>) /\ Len(<<>>) = 0 /\ DOMAIN <<>> = {}
  BY DEF IsSeq
<1>3. stray \in BOOLEAN
  BY DEF Init
<1>4. PessoaTypeOK
  BY <1>2, <1>3, LimitsArePositive DEF Init, PessoaTypeOK, NoNames, NoStack
<1>5. StringsEnd
  BY <1>1 DEF Init, StringsEnd, NoNames, NoStack
<1>6. RootIsFreed /\ BodyOK
  BY <1>2 DEF Init, RootIsFreed, BodyOK, FieldsAreJson
<1> QED BY <1>4, <1>5, <1>6 DEF IInv

(* What giving the Pessoa up restores.                                     *)
LEMMA DoneResets ==
  ASSUME NEW told \in {"created", "unprocessable"}, Done(told)
  PROVE  /\ pc' = "idle" /\ k' = 0 /\ answer' = told
         /\ DOMAIN names' = 0..NamesEnd /\ DOMAIN stack' = 0..StackEnd
         /\ StringsEnd'
<1>1. NamesEnd \in 0..NamesEnd /\ StackEnd \in 0..StackEnd
  BY Offsets
<1> QED BY <1>1 DEF Done, NoNames, NoStack, StringsEnd

LEMMA RejectIInv == ASSUME IInv, pc = "fields", Reject PROVE IInv'
<1> USE DEF IInv, Reject
<1>1. PessoaTypeOK'
  BY DoneResets, LimitsArePositive DEF PessoaTypeOK, IsSeq
<1>2. StringsEnd' /\ RootIsFreed' /\ BodyOK'
  BY DoneResets DEF RootIsFreed, BodyOK
<1> QED BY <1>1, <1>2

LEMMA AdvanceIInv ==
  ASSUME IInv, pc = "fields", Advance,
         DOMAIN names' = 0..NamesEnd, DOMAIN stack' = 0..StackEnd, StringsEnd'
  PROVE  IInv'
<1>1. Len(body) \in Nat /\ DOMAIN body = 1..Len(body) /\ k \in 1..Len(body)
  BY DEF IInv, BodyOK, FieldsAreJson, IsSeq, PessoaTypeOK
<1>2. PessoaTypeOK'
  <2>1. /\ k' \in 0..(Len(body') + 1) /\ body' = body
        /\ pc' \in {"idle", "fields", "parsed"} /\ root' \in {"none", "live", "freed"}
        /\ pc' = "fields" => k' \in DOMAIN body'
    <3>1. CASE k = Len(body)
      BY <1>1, <3>1 DEF Advance
    <3>2. CASE k # Len(body)
      <4>1. k' = k + 1 /\ body' = body /\ pc' = pc /\ root' = root
        BY <3>2 DEF Advance
      <4>2. k + 1 \in 1..Len(body)
        <5>1. \A n \in Nat : \A i \in 1..n : i # n => i + 1 \in 1..n
          OBVIOUS
        <5> QED BY <1>1, <3>2, <5>1, Zenon
      <4>3. root \in {"none", "live", "freed"}
        BY DEF IInv, PessoaTypeOK
      <4>4. k' \in DOMAIN body' /\ k' \in 0..(Len(body') + 1)
        BY <1>1, <4>1, <4>2
      <4>5. pc' = "fields" /\ root' \in {"none", "live", "freed"}
        BY <4>1, <4>3
      <4> QED BY <4>1, <4>4, <4>5
    <3> QED BY <3>1, <3>2
  <2>2. UNCHANGED <<rows, posts, answer, stray>>
    BY DEF Advance
  <2> QED BY <2>1, <2>2 DEF IInv, PessoaTypeOK
<1>3. RootIsFreed'
  BY DEF IInv, RootIsFreed, PessoaTypeOK, Advance
<1>4. BodyOK'
  BY DEF IInv, BodyOK, Advance
<1> QED BY <1>2, <1>3, <1>4 DEF IInv

LEMMA BeginIInv == ASSUME IInv, NEW b \in Bodies, Begin(b) PROVE IInv'
<1>1. FieldsAreJson(b.fields) /\ body' = b.fields
  BY BodiesAreJson DEF Begin
<1>2. Len(body') \in Nat /\ DOMAIN body' = 1..Len(body')
  BY <1>1 DEF FieldsAreJson, IsSeq
<1>3. posts' \in 0..MaxPosts /\ posts' = posts + 1 /\ rows' = rows
  BY LimitsArePositive DEF Begin, IInv, PessoaTypeOK
<1>4. Len(rows) \in Nat /\ stray' \in BOOLEAN
  <2>1. stray' \in BOOLEAN
    BY DEF Begin
  <2> QED BY <2>1 DEF IInv, PessoaTypeOK, IsSeq
<1>5. CASE b.type = "object" /\ Len(b.fields) >= MinFields
  <2>1. pc' = "fields" /\ k' = 1 /\ root' = "live" /\ answer' = "none"
        /\ UNCHANGED <<names, stack>>
    BY <1>5 DEF Begin
  <2>2. k' \in DOMAIN body'
    BY <1>1, <1>2, <1>5, <2>1 DEF MinFields
  <2> QED BY <1>1, <1>2, <1>3, <1>4, <2>1, <2>2
          DEF IInv, PessoaTypeOK, StringsEnd, RootIsFreed, BodyOK
<1>6. CASE ~(b.type = "object" /\ Len(b.fields) >= MinFields)
  <2>1. root' \in {"none", "freed"} /\ Done("unprocessable")
    BY <1>6 DEF Begin
  <2>2. PessoaTypeOK'
    BY <1>2, <1>3, <1>4, <2>1, DoneResets DEF IInv, PessoaTypeOK
  <2> QED BY <1>1, <2>1, <2>2, DoneResets DEF IInv, RootIsFreed, BodyOK
<1> QED BY <1>5, <1>6

LEMMA ApelidoFieldIInv == ASSUME IInv, ApelidoField PROVE IInv'
<1>1. pc = "fields" /\ Field.name = "apelido" /\ k \in DOMAIN body
  BY DEF ApelidoField, At, IInv, PessoaTypeOK
<1>2. CASE Field.type # "string"
  <2>1. Done("unprocessable") /\ UNCHANGED <<rows, posts, body, root, stray>>
    BY <1>2 DEF ApelidoField
  <2>2. PessoaTypeOK'
    BY <2>1, DoneResets, LimitsArePositive DEF IInv, PessoaTypeOK, IsSeq
  <2>3. root' = "live" /\ pc' = "idle"
    BY <1>1, <2>1, DoneResets DEF IInv, RootIsFreed
  <2>4. RootIsFreed'
    BY <1>1, <1>2, <2>1, <2>3 DEF RootIsFreed, Field
  <2> QED BY <2>1, <2>2, <2>4, DoneResets DEF IInv, BodyOK
<1>3. CASE Field.type = "string" /\ ~Fits(Field.val, 1, ApelidoLen)
  BY <1>1, <1>3, RejectIInv DEF ApelidoField
<1>4. CASE Field.type = "string" /\ Fits(Field.val, 1, ApelidoLen)
  <2>1. Advance /\ names' = Copy(names, 0, Field.val) /\ stack' = stack
    BY <1>4 DEF ApelidoField
  <2>2. IsSeq(Field.val) /\ 0 + Len(Field.val) <= NamesEnd
    BY <1>1, <1>4, LimitsArePositive
       DEF IInv, BodyOK, FieldsAreJson, Field, Fits, NamesEnd, NomeAt
  <2>3. NamesEnd \in DOMAIN names
    BY Offsets DEF IInv, PessoaTypeOK
  <2>4. DOMAIN names' = DOMAIN names /\ names'[NamesEnd] = names[NamesEnd]
    BY <2>1, <2>2, <2>3, CopyKeeps, Offsets
  <2> QED BY <1>1, <2>1, <2>4, AdvanceIInv DEF IInv, PessoaTypeOK, StringsEnd
<1> QED BY <1>2, <1>3, <1>4

LEMMA NomeFieldIInv == ASSUME IInv, NomeField PROVE IInv'
<1>1. pc = "fields" /\ k \in DOMAIN body
  BY DEF NomeField, At, IInv, PessoaTypeOK
<1>2. CASE ~(Field.type = "string" /\ Fits(Field.val, 1, NomeLen))
  BY <1>1, <1>2, RejectIInv DEF NomeField
<1>3. CASE Field.type = "string" /\ Fits(Field.val, 1, NomeLen)
  <2>1. Advance /\ names' = Copy(names, NomeAt, Field.val) /\ stack' = stack
    BY <1>3 DEF NomeField
  <2>2. IsSeq(Field.val) /\ NomeAt + Len(Field.val) <= NamesEnd
    BY <1>1, <1>3, LimitsArePositive, Offsets
       DEF IInv, BodyOK, FieldsAreJson, Field, Fits, NamesEnd
  <2>3. NamesEnd \in DOMAIN names
    BY Offsets DEF IInv, PessoaTypeOK
  <2>4. DOMAIN names' = DOMAIN names /\ names'[NamesEnd] = names[NamesEnd]
    BY <2>1, <2>2, <2>3, CopyKeeps, Offsets
  <2> QED BY <1>1, <2>1, <2>4, AdvanceIInv DEF IInv, PessoaTypeOK, StringsEnd
<1> QED BY <1>2, <1>3

LEMMA DateFieldIInv == ASSUME IInv, DateField PROVE IInv'
<1>1. pc = "fields"
  BY DEF DateField, At
<1>2. CASE Advance /\ UNCHANGED <<names, stack>>
  BY <1>1, <1>2, AdvanceIInv DEF IInv, PessoaTypeOK, StringsEnd
<1>3. CASE Reject
  BY <1>1, <1>3, RejectIInv
<1> QED BY <1>2, <1>3 DEF DateField

LEMMA IdFieldIInv == ASSUME IInv, IdField PROVE IInv'
<1>1. pc = "fields"
  BY DEF IdField, At
<1>2. CASE Advance /\ UNCHANGED <<names, stack, born>>
  BY <1>1, <1>2, AdvanceIInv DEF IInv, PessoaTypeOK, StringsEnd
<1>3. CASE Reject
  BY <1>1, <1>3, RejectIInv
<1> QED BY <1>2, <1>3 DEF IdField

LEMMA StackFieldIInv == ASSUME IInv, StackField PROVE IInv'
<1>1. pc = "fields" /\ k \in DOMAIN body
  BY DEF StackField, At, IInv, PessoaTypeOK
<1>2. CASE Field.type = "array" /\ ItemsFit(Field.val) /\ Advance /\ UNCHANGED names
           /\ stack' = Pack(stack, [i \in DOMAIN Field.val |-> Field.val[i].val])
  <2> DEFINE items == [i \in DOMAIN Field.val |-> Field.val[i].val]
  <2>1. IsSeq(Field.val) /\ \A j \in DOMAIN Field.val :
                              Field.val[j].type = "string" => IsSeq(Field.val[j].val)
    BY <1>1, <1>2 DEF IInv, BodyOK, FieldsAreJson, Field
  <2>2. DOMAIN items = DOMAIN Field.val /\ DOMAIN Field.val = 1..Len(Field.val)
    BY <2>1 DEF IsSeq
  <2>3. DOMAIN items \subseteq 1..MaxItems
    BY <1>2, <2>2, LimitsArePositive DEF ItemsFit
  <2>4. \A j \in DOMAIN items : IsSeq(items[j]) /\ Len(items[j]) <= ItemLen + 1
    BY <1>2, <2>1, <2>2, LimitsArePositive DEF ItemsFit, Fits
  <2> HIDE DEF items
  <2>5. DOMAIN stack' = 0..StackEnd /\ stack'[StackEnd] = stack[StackEnd]
    BY <1>2, <2>3, <2>4, PackKeeps DEF IInv, PessoaTypeOK, items
  <2> QED BY <1>1, <1>2, <2>5, AdvanceIInv DEF IInv, PessoaTypeOK, StringsEnd
<1>3. CASE Field.type = "null" /\ stack' = Copy(stack, 0, <<Nul>>)
           /\ Advance /\ UNCHANGED names
  <2>1. DOMAIN stack' = 0..StackEnd /\ stack'[StackEnd] = Nul
    BY <1>3, Offsets DEF IInv, PessoaTypeOK, StringsEnd, Copy
  <2> QED BY <1>1, <1>3, <2>1, AdvanceIInv DEF IInv, PessoaTypeOK, StringsEnd
<1>4. CASE Reject
  BY <1>1, <1>4, RejectIInv
<1> QED BY <1>2, <1>3, <1>4 DEF StackField

LEMMA UnknownFieldIInv == ASSUME IInv, UnknownField PROVE IInv'
  BY RejectIInv DEF UnknownField

LEMMA RefuseIInv == ASSUME IInv, Refuse PROVE IInv'
<1>1. Done("unprocessable") /\ UNCHANGED <<rows, posts, body, root, stray>> /\ pc = "parsed"
  BY DEF Refuse
<1>2. PessoaTypeOK'
  BY <1>1, DoneResets, LimitsArePositive DEF IInv, PessoaTypeOK, IsSeq
<1>3. RootIsFreed'
  BY <1>1, DoneResets DEF IInv, RootIsFreed
<1> QED BY <1>1, <1>2, <1>3, DoneResets DEF IInv, BodyOK

LEMMA CreateIInv == ASSUME IInv, Create PROVE IInv'
<1>1. Done("created") /\ UNCHANGED <<posts, body, root>> /\ pc = "parsed"
  BY DEF Create
<1>2. stray' \in BOOLEAN
  BY DEF Create, PrintsOutside
<1>3. IsSeq(rows') /\ Len(rows') <= posts'
  <2>1. Len(rows) \in Nat /\ posts \in Nat /\ Len(rows) < posts /\ IsSeq(rows)
    BY <1>1, LimitsArePositive DEF IInv, PessoaTypeOK, IsSeq
  <2>2. CASE rows' = rows
    BY <1>1, <2>1, <2>2
  <2>3. ASSUME NEW p \in 1..(Len(rows) + 1), NEW row, rows' = InsertAt(rows, p, row)
        PROVE  IsSeq(rows') /\ Len(rows') <= posts'
    BY <1>1, <2>1, <2>3, InsertGrows
  <2> QED BY <2>2, <2>3 DEF Create
<1>4. PessoaTypeOK'
  BY <1>1, <1>2, <1>3, DoneResets, LimitsArePositive DEF IInv, PessoaTypeOK, IsSeq
<1>5. RootIsFreed'
  BY <1>1, DoneResets DEF IInv, RootIsFreed
<1> QED BY <1>1, <1>4, <1>5, DoneResets DEF IInv, BodyOK

-----------------------------------------------------------------------------
LEMMA NextIInv == ASSUME IInv, [Next]_vars PROVE IInv'
<1>1. CASE UNCHANGED vars
  BY <1>1 DEF vars, IInv, PessoaTypeOK, StringsEnd, RootIsFreed, BodyOK
<1>2. CASE Next
  BY <1>2, BeginIInv, ApelidoFieldIInv, NomeFieldIInv, DateFieldIInv,
     IdFieldIInv, StackFieldIInv, UnknownFieldIInv, RefuseIInv, CreateIInv DEF Next
<1> QED BY <1>1, <1>2

(* The inductive invariant holds of every behaviour.                       *)
THEOREM Inductive == Spec => []IInv
<1>1. Init => IInv
  BY InitIInv
<1>2. IInv /\ [Next]_vars => IInv'
  BY NextIInv
<1> QED BY <1>1, <1>2, PTL DEF Spec

(* PessoaTypeOK: for any limits and bodies the loop of json_as_pessoa      *)
(* (pessoa.c:132) stays within the fields, and no post adds two rows.      *)
THEOREM TypeCorrect == Spec => []PessoaTypeOK
<1>1. IInv => PessoaTypeOK
  BY DEF IInv
<1> QED BY <1>1, Inductive, PTL

(* StringsEnd: whatever lengths the limits have, texts one character       *)
(* longer than documented, which get_field_str takes (pessoa.c:72), never  *)
(* reach past the arrays of a Pessoa.                                      *)
THEOREM Terminated == Spec => []StringsEnd
<1>1. IInv => StringsEnd
  BY DEF IInv
<1> QED BY <1>1, Inductive, PTL

(* RootIsFreed: every return of json_as_pessoa but one frees what          *)
(* json_parse allocated, and none before the last use of a field.          *)
THEOREM Freed == Spec => []RootIsFreed
<1>1. IInv => RootIsFreed
  BY DEF IInv
<1> QED BY <1>1, Inductive, PTL

-----------------------------------------------------------------------------
(* What a plain body is told, and what of it is in the arrays.             *)

(* The first array holds the nickname as soon as its field was read, and   *)
(* nothing before.                                                         *)
NickHeld ==
  pc # "idle" /\ Plain(body) =>
    \A i \in DOMAIN body : body[i].name = "apelido" =>
      \A o \in 0..ApelidoLen :
        names[o] = IF i < k /\ o < Len(body[i].val) THEN body[i].val[o + 1] ELSE Nul

TakesItems(i) == body[i].name = "stack" /\ body[i].type = "array"

(* Every slot of the stack has an end, and the first one has an item if    *)
(* and only if a list was read.                                            *)
StackHeld ==
  pc # "idle" /\ Plain(body) =>
    /\ \A j \in 1..MaxItems : stack[ItemAt(j) + ItemLen] = Nul
    /\ stack[0] # Nul <=> \E i \in DOMAIN body : i < k /\ TakesItems(i)

(* Every row has the number of its post, and the current post has none.    *)
RowIds ==
  \A i \in DOMAIN rows : rows[i].id \in 1..posts /\ (pc # "idle" => rows[i].id # posts)

AllRead == pc = "parsed" => k = Len(body) + 1

(* A person that is not read yet is all zero.                              *)
Zeroed == pc = "idle" => names = NoNames /\ stack = NoStack

TInv ==
  /\ NickHeld /\ StackHeld /\ RowIds /\ AllRead /\ Zeroed
  /\ AnsweredTruly /\ StrayOnlyWhenEmpty

-----------------------------------------------------------------------------
(* No field of a plain body is refused.                                    *)
PlainStep ==
  \/ /\ Field.name = "apelido" /\ Printable(Field.val, ApelidoLen)
     /\ names' = Copy(names, 0, Field.val) /\ stack' = stack
  \/ /\ Field.name = "nome"
     /\ names' = Copy(names, NomeAt, Field.val) /\ stack' = stack
  \/ /\ Field.name \in {"nascimento", "id"}
     /\ names' = names /\ stack' = stack
  \/ /\ Field.name = "stack" /\ Field.type = "array" /\ Len(Field.val) \in 1..MaxItems
     /\ \A j \in DOMAIN Field.val : Printable(Field.val[j].val, ItemLen)
     /\ stack' = Pack(stack, [j \in DOMAIN Field.val |-> Field.val[j].val])
     /\ names' = names
  \/ /\ Field.name = "stack" /\ Field.type = "null"
     /\ stack' = Copy(stack, 0, <<Nul>>) /\ names' = names

FieldStep ==
  \/ ApelidoField \/ NomeField \/ DateField \/ IdField \/ StackField \/ UnknownField

(* What Plain says of one field.                                           *)
LEMMA PlainField ==
  ASSUME Plain(body), pc = "fields", k \in DOMAIN body
  PROVE  /\ Field.name \in {"apelido", "nome", "nascimento", "stack", "id"}
         /\ Field.name \in {"apelido", "nome", "nascimento", "id"} => Field.type = "string"
         /\ Field.name = "nascimento" => Field.val \in DOMAIN DateOf \ FullDates
         /\ Field.name = "id" => Field.val \in Uuids
         /\ Field.name = "apelido" => Printable(Field.val, ApelidoLen)
         /\ Field.name = "nome" => Printable(Field.val, NomeLen)
         /\ Field.name = "stack" =>
              \/ Field.type = "null"
              \/ /\ Field.type = "array" /\ Len(Field.val) \in 1..MaxItems
                 /\ \A e \in Range(Field.val) : e.type = "string" /\ Printable(e.val, ItemLen)
<1> USE DEF Field
<1>1. body[k].name \in {"apelido", "nome", "nascimento", "stack", "id"}
  BY Zenon DEF Plain
<1> QED BY <1>1, Zenon DEF Plain

(* A printable text fits.                                                  *)
LEMMA PrintableFits ==
  ASSUME NEW s, NEW max \in Nat, Printable(s, max)
  PROVE  Fits(s, 1, max) /\ Fits(s, 0, max)
  BY DEF Printable, Fits

LEMMA PlainIsTaken ==
  ASSUME PessoaTypeOK, Plain(body), FieldStep
  PROVE  Advance /\ PlainStep
<1>1. pc = "fields" /\ k \in DOMAIN body
  <2>1. pc = "fields"
    BY Zenon DEF FieldStep, ApelidoField, NomeField, DateField, IdField, StackField,
             UnknownField, At
  <2> QED BY <2>1, Zenon DEF PessoaTypeOK
<1>2. CASE ApelidoField
  <2>1. Field.name = "apelido" /\ Field.type = "string" /\ Printable(Field.val, ApelidoLen)
    BY <1>1, <1>2, PlainField, Zenon DEF ApelidoField, At
  <2>2. Fits(Field.val, 1, ApelidoLen)
    BY <2>1, PrintableFits, LimitsArePositive
  <2>3. Advance /\ names' = Copy(names, 0, Field.val) /\ stack' = stack
    BY <1>2, <2>1, <2>2, Zenon DEF ApelidoField
  <2> QED BY <2>1, <2>3, Zenon DEF PlainStep
<1>3. CASE NomeField
  <2>1. Field.name = "nome" /\ Field.type = "string" /\ Printable(Field.val, NomeLen)
    BY <1>1, <1>3, PlainField, Zenon DEF NomeField, At
  <2>2. Fits(Field.val, 1, NomeLen)
    BY <2>1, PrintableFits, LimitsArePositive
  <2>3. Advance /\ names' = Copy(names, NomeAt, Field.val) /\ stack' = stack
    BY <1>3, <2>1, <2>2, Zenon DEF NomeField
  <2> QED BY <2>1, <2>3, Zenon DEF PlainStep
<1>4. CASE DateField
  <2>1. Field.name = "nascimento" /\ Field.type = "string"
        /\ Field.val \in DOMAIN DateOf /\ Field.val \notin FullDates
    BY <1>1, <1>4, PlainField, Zenon DEF DateField, At
  <2>2. Advance /\ names' = names /\ stack' = stack
    BY <1>4, <2>1, Zenon DEF DateField
  <2> QED BY <2>1, <2>2, Zenon DEF PlainStep
<1>5. CASE IdField
  <2>1. Field.name = "id" /\ Field.type = "string" /\ Field.val \in Uuids
    BY <1>1, <1>5, PlainField, Zenon DEF IdField, At
  <2>2. Advance /\ names' = names /\ stack' = stack
    BY <1>5, <2>1, Zenon DEF IdField
  <2> QED BY <2>1, <2>2, Zenon DEF PlainStep
<1>6. CASE StackField
  <2>1. Field.name = "stack"
    BY <1>6, Zenon DEF StackField, At
  <2>2. CASE Field.type = "null"
    <3>1. Advance /\ stack' = Copy(stack, 0, <<Nul>>) /\ names' = names
      BY <1>6, <2>2 DEF StackField
    <3> QED BY <2>1, <2>2, <3>1, Zenon DEF PlainStep
  <2>3. CASE Field.type # "null"
    <3>1. /\ Field.type = "array" /\ Len(Field.val) \in 1..MaxItems
          /\ \A e \in Range(Field.val) : e.type = "string" /\ Printable(e.val, ItemLen)
      BY <1>1, <2>1, <2>3, PlainField, Zenon
    <3>2. \A j \in DOMAIN Field.val :
            Field.val[j].type = "string" /\ Printable(Field.val[j].val, ItemLen)
      BY <3>1, Zenon DEF Range
    <3>3. ASSUME NEW j \in DOMAIN Field.val PROVE Fits(Field.val[j].val, 0, ItemLen)
      BY <3>2, PrintableFits, LimitsArePositive
    <3>4. ItemsFit(Field.val)
      BY <3>1, <3>2, <3>3, Zenon DEF ItemsFit
    <3>5. /\ stack' = Pack(stack, [j \in DOMAIN Field.val |-> Field.val[j].val])
          /\ Advance /\ names' = names
      BY <1>6, <2>3, <3>1, <3>4, Zenon DEF StackField
    <3> QED BY <2>1, <3>1, <3>2, <3>5, Zenon DEF PlainStep
  <2> QED BY <2>2, <2>3
<1>7. CASE UnknownField
  BY <1>1, <1>7, PlainField, Zenon DEF UnknownField
<1> QED BY <1>2, <1>3, <1>4, <1>5, <1>6, <1>7, Zenon DEF FieldStep

(* The fields of a body are counted from one.                              *)
LEMMA BodyIsSeq ==
  ASSUME BodyOK
  PROVE  Len(body) \in Nat /\ DOMAIN body = 1..Len(body)
  BY DEF BodyOK, FieldsAreJson, IsSeq

(* Copying one nickname to the front, or a name behind it.                 *)
LEMMA CopyFront ==
  ASSUME NEW m, DOMAIN m = 0..NamesEnd, NEW s, IsSeq(s), Len(s) <= ApelidoLen,
         \A o \in 0..ApelidoLen : m[o] = Nul
  PROVE  \A o \in 0..ApelidoLen :
           Copy(m, 0, s)[o] = IF o < Len(s) THEN s[o + 1] ELSE Nul
<1>1. Len(s) \in Nat /\ DOMAIN s = 1..Len(s)
  BY DEF IsSeq
<1> SUFFICES ASSUME NEW o \in 0..ApelidoLen
             PROVE  Copy(m, 0, s)[o] = IF o < Len(s) THEN s[o + 1] ELSE Nul
  OBVIOUS
<1>2. ApelidoLen \in Nat /\ o \in Nat /\ o \in 0..NamesEnd
  BY LimitsArePositive DEF NamesEnd, NomeAt
<1>3. Copy(m, 0, s)[o] = IF o + 1 - 0 \in DOMAIN s THEN s[o + 1 - 0] ELSE m[o]
  BY <1>2, Zenon DEF Copy
<1>4. o + 1 - 0 = o + 1 /\ (o + 1 \in DOMAIN s <=> o < Len(s))
  BY <1>1, <1>2
<1> QED BY <1>3, <1>4, Zenon

LEMMA CopyBehind ==
  ASSUME NEW m, DOMAIN m = 0..NamesEnd, NEW s, IsSeq(s), NEW o \in 0..ApelidoLen
  PROVE  Copy(m, NomeAt, s)[o] = m[o]
<1>1. Len(s) \in Nat /\ DOMAIN s = 1..Len(s)
  BY DEF IsSeq
<1>2. ApelidoLen \in Nat /\ o \in Nat /\ o \in 0..NamesEnd
  BY LimitsArePositive DEF NamesEnd, NomeAt
<1>3. o + 1 - NomeAt \notin DOMAIN s
  BY <1>1, <1>2 DEF NomeAt
<1> QED BY <1>2, <1>3, Zenon DEF Copy

(* The field that is read now was not read before, and the others stay.    *)
LEMMA ReadNow ==
  ASSUME PessoaTypeOK, BodyOK, Plain(body), pc = "fields", Advance
  PROVE  /\ k' = k + 1 /\ body' = body
         /\ \A i \in DOMAIN body : body[i].name = Field.name <=> i = k
         /\ \A i \in DOMAIN body : i # k => (i < k' <=> i < k)
         /\ k < k' /\ ~(k < k)
<1>1. k \in DOMAIN body /\ DOMAIN body \subseteq Nat
  BY BodyIsSeq DEF PessoaTypeOK
<1>2. k' = k + 1 /\ body' = body
  BY DEF Advance
<1>3. \A i \in DOMAIN body : body[i].name = Field.name <=> i = k
  BY <1>1, Zenon DEF Plain, Field
<1> QED BY <1>1, <1>2, <1>3

LEMMA NickStep ==
  ASSUME IInv, NickHeld, Plain(body), pc = "fields", Advance, PlainStep
  PROVE  NickHeld'
<1>1. PessoaTypeOK /\ BodyOK
  BY DEF IInv
<1> USE DEF Field
<1>2. /\ k' = k + 1 /\ body' = body
      /\ \A i \in DOMAIN body : body[i].name = Field.name <=> i = k
      /\ \A i \in DOMAIN body : i # k => (i < k' <=> i < k)
      /\ k < k' /\ ~(k < k)
  BY <1>1, ReadNow
<1>3. k \in DOMAIN body /\ DOMAIN names = 0..NamesEnd
  BY <1>1 DEF PessoaTypeOK
<1> SUFFICES ASSUME NEW i \in DOMAIN body, body[i].name = "apelido", NEW o \in 0..ApelidoLen
             PROVE  names'[o] = IF i < k' /\ o < Len(body[i].val) THEN body[i].val[o + 1] ELSE Nul
  BY <1>2, Zenon DEF NickHeld
<1>4. names[o] = IF i < k /\ o < Len(body[i].val) THEN body[i].val[o + 1] ELSE Nul
  BY Zenon DEF NickHeld
<1>5. CASE i = k
  <2>1. /\ Printable(Field.val, ApelidoLen) /\ names' = Copy(names, 0, Field.val)
        /\ Field.type = "string"
    BY <1>1, <1>3, <1>5, PlainField, Zenon DEF PlainStep
  <2>2. \A p \in 0..ApelidoLen : names[p] = Nul
    BY <1>2, <1>5, Zenon DEF NickHeld
  <2>3. IsSeq(Field.val) /\ Len(Field.val) <= ApelidoLen
    BY <1>1, <1>3, <2>1 DEF BodyOK, FieldsAreJson, Printable
  <2>4. names'[o] = IF o < Len(Field.val) THEN Field.val[o + 1] ELSE Nul
    BY <1>3, <2>1, <2>2, <2>3, CopyFront
  <2> QED BY <1>2, <1>5, <2>4, Zenon
<1>6. CASE i # k
  <2>1. Field.name # "apelido"
    BY <1>2, <1>6, Zenon
  <2>2. names'[o] = names[o]
    <3>1. CASE Field.name = "nome"
      <4>1. names' = Copy(names, NomeAt, Field.val)
        BY <2>1, <3>1, Zenon DEF PlainStep
      <4>2. IsSeq(Field.val)
        BY <1>1, <1>3, <3>1, PlainField DEF BodyOK, FieldsAreJson
      <4> QED BY <1>3, <4>1, <4>2, CopyBehind
    <3>2. CASE Field.name # "nome"
      BY <2>1, <3>2, Zenon DEF PlainStep
    <3> QED BY <3>1, <3>2
  <2> QED BY <1>2, <1>4, <1>6, <2>2, Zenon
<1> QED BY <1>5, <1>6

(* Slots do not overlap: a text of one slot ends before the last place of  *)
(* any, and only that of the first one begins at 0.                        *)
LEMMA SlotsApart ==
  ASSUME NEW i \in 1..MaxItems, NEW j \in 1..MaxItems
  PROVE  /\ (ItemAt(i) + ItemLen) + 1 - ItemAt(j) \notin 1..ItemLen
         /\ ItemAt(1) = 0 /\ (j # 1 => ItemAt(j) > ItemLen)
<1> DEFINE w == ItemLen + 1
<1>1. ItemLen \in Nat \ {0} /\ MaxItems \in Nat
  BY LimitsArePositive
<1>2. ItemAt(1) = 0
  BY <1>1 DEF ItemAt
<1>3. w \in Nat /\ w > 1 /\ ItemLen = w - 1
  BY <1>1
<1>4. ItemAt(i) = (i - 1) * w /\ ItemAt(j) = (j - 1) * w
  BY DEF ItemAt
<1> HIDE DEF w
<1>5. j # 1 => (j - 1) * w >= w
  <2> SUFFICES ASSUME j # 1 PROVE (j - 1) * w >= w
    OBVIOUS
  <2> DEFINE d == j - 2
  <2>1. d \in Nat /\ j - 1 = d + 1
    BY <1>1
  <2> HIDE DEF d
  <2>2. (d + 1) * w = d * w + w /\ d * w >= 0
    BY <1>3, <2>1
  <2> QED BY <1>3, <2>1, <2>2
<1>6. (i - 1) * w + w - (j - 1) * w \notin 1..(w - 1)
  <2> DEFINE d == i - j
  <2>1. (i - 1) * w + w - (j - 1) * w = (d + 1) * w
    BY <1>1, <1>3
  <2>2. d \in Int
    BY <1>1
  <2> HIDE DEF d
  <2>3. (d + 1) * w \notin 1..(w - 1)
    <3>1. CASE d >= 0
      <4>1. d \in Nat /\ (d + 1) * w = d * w + w /\ d * w >= 0
        BY <1>3, <2>2, <3>1
      <4> QED BY <1>3, <4>1
    <3>2. CASE d < 0
      <4> DEFINE e == -(d + 1)
      <4>1. e \in Nat /\ d + 1 = -e
        BY <2>2, <3>2
      <4> HIDE DEF e
      <4>2. e * w >= 0 /\ (-e) * w = -(e * w)
        BY <1>3, <4>1
      <4> QED BY <1>3, <4>1, <4>2
    <3> QED BY <2>2, <3>1, <3>2
  <2> QED BY <2>1, <2>3
<1>7. (i - 1) * w \in Int /\ (j - 1) * w \in Int
  BY <1>1, <1>3
<1> QED BY <1>2, <1>3, <1>4, <1>5, <1>6, <1>7


(* The items of a list.                                                    *)
ShortItems(items) ==
  /\ DOMAIN items \subseteq 1..MaxItems /\ 1 \in DOMAIN items
  /\ \A j \in DOMAIN items :
       IsSeq(items[j]) /\ Len(items[j]) \in 1..ItemLen /\ items[j][1] # Nul

(* They leave the end of every slot alone, and the first one has a text.   *)
LEMMA PackFills ==
  ASSUME NEW m, DOMAIN m = 0..StackEnd, NEW items, ShortItems(items)
  PROVE  /\ \A i \in 1..MaxItems :
              Pack(m, items)[ItemAt(i) + ItemLen] = m[ItemAt(i) + ItemLen]
         /\ Pack(m, items)[0] # Nul
<1> DEFINE on(o) == {j \in DOMAIN items : o + 1 - ItemAt(j) \in DOMAIN items[j]}
<1>1. \A o \in DOMAIN m :
        Pack(m, items)[o] = IF on(o) = {} THEN m[o]
                            ELSE items[Max(on(o))][o + 1 - ItemAt(Max(on(o)))]
  BY Zenon DEF Pack
<1>2. \A j \in DOMAIN items : j \in 1..MaxItems /\ DOMAIN items[j] = 1..Len(items[j])
                              /\ Len(items[j]) \in 1..ItemLen
  BY DEF ShortItems, IsSeq
<1>3. ItemLen \in Nat \ {0} /\ MaxItems \in Nat \ {0} /\ StackEnd \in Nat
  BY Offsets, LimitsArePositive
<1>4. ASSUME NEW i \in 1..MaxItems
      PROVE  Pack(m, items)[ItemAt(i) + ItemLen] = m[ItemAt(i) + ItemLen]
  <2>1. ItemAt(i) + ItemLen \in DOMAIN m
    BY <1>3, Offsets
  <2>2. ASSUME NEW j \in DOMAIN items
        PROVE  (ItemAt(i) + ItemLen) + 1 - ItemAt(j) \notin DOMAIN items[j]
    <3>1. (ItemAt(i) + ItemLen) + 1 - ItemAt(j) \notin 1..ItemLen
      BY <1>2, SlotsApart
    <3>2. 1..Len(items[j]) \subseteq 1..ItemLen
      BY <1>2, <1>3
    <3> QED BY <1>2, <3>1, <3>2, Zenon
  <2>3. on(ItemAt(i) + ItemLen) = {}
    BY <2>2, Zenon
  <2> QED BY <1>1, <2>1, <2>3, Zenon
<1>5. Pack(m, items)[0] # Nul
  <2>1. 1 \in on(0)
    BY <1>2, <1>3, SlotsApart DEF ShortItems
  <2>2. ASSUME NEW j \in on(0) PROVE j = 1
    <3>1. j \in 1..MaxItems /\ 0 + 1 - ItemAt(j) \in 1..Len(items[j])
      BY <1>2
    <3>2. j # 1 => ItemAt(j) > ItemLen
      BY <3>1, SlotsApart
    <3>3. ItemAt(j) \in Nat
      BY <3>1, Offsets
    <3> QED BY <1>2, <1>3, <3>1, <3>2, <3>3
  <2>3. on(0) = {1}
    BY <2>1, <2>2, Zenon
  <2>4. Max({1}) = 1
    BY SMT DEF Max
  <2>5. 0 \in DOMAIN m /\ 0 + 1 - ItemAt(1) = 1
    BY <1>2, <1>3, SlotsApart DEF ShortItems
  <2>6. Pack(m, items)[0] = items[1][1]
    BY <1>1, <2>3, <2>4, <2>5, Zenon
  <2> QED BY <2>6 DEF ShortItems
<1> QED BY <1>4, <1>5

\* A stack of null clears the first character and nothing else.
LEMMA NullClears ==
  ASSUME NEW m, DOMAIN m = 0..StackEnd
  PROVE  /\ Copy(m, 0, <<Nul>>)[0] = Nul
         /\ \A o \in DOMAIN m : m[o] = Nul => Copy(m, 0, <<Nul>>)[o] = Nul
<1>1. 0 \in DOMAIN m
  BY Offsets
<1>2. DOMAIN <<Nul>> = {1} /\ <<Nul>>[1] = Nul
  OBVIOUS
<1>3. \A o \in DOMAIN m : o + 1 - 0 \in {1} => Copy(m, 0, <<Nul>>)[o] = Nul
  BY <1>2 DEF Copy
<1>4. \A o \in DOMAIN m : o + 1 - 0 \notin {1} => Copy(m, 0, <<Nul>>)[o] = m[o]
  BY <1>2 DEF Copy
<1>5. 0 + 1 - 0 = 1
  OBVIOUS
<1> QED BY <1>1, <1>3, <1>4, <1>5, Zenon

LEMMA StackStep ==
  ASSUME IInv, StackHeld, Plain(body), pc = "fields", Advance, PlainStep
  PROVE  StackHeld'
<1>1. PessoaTypeOK /\ BodyOK
  BY DEF IInv
<1> USE DEF Field
<1>2. /\ k' = k + 1 /\ body' = body
      /\ \A i \in DOMAIN body : body[i].name = Field.name <=> i = k
      /\ \A i \in DOMAIN body : i # k => (i < k' <=> i < k)
      /\ k < k' /\ ~(k < k)
  BY <1>1, ReadNow
<1>3. k \in DOMAIN body /\ DOMAIN stack = 0..StackEnd
  BY <1>1 DEF PessoaTypeOK
<1>4. \A i : TakesItems(i)' <=> TakesItems(i)
  BY <1>2 DEF TakesItems
<1>5. /\ \A j \in 1..MaxItems : stack[ItemAt(j) + ItemLen] = Nul
      /\ stack[0] # Nul <=> \E i \in DOMAIN body : i < k /\ TakesItems(i)
  BY Zenon DEF StackHeld
<1> SUFFICES /\ \A j \in 1..MaxItems : stack'[ItemAt(j) + ItemLen] = Nul
             /\ stack'[0] # Nul <=> \E i \in DOMAIN body : i < k' /\ TakesItems(i)
  BY <1>2, <1>4, Zenon DEF StackHeld
<1>6. CASE Field.name # "stack"
  <2>1. stack' = stack
    BY <1>6, Zenon DEF PlainStep
  <2>2. ~TakesItems(k)
    BY <1>6, Zenon DEF TakesItems
  <2> QED BY <1>2, <1>5, <2>1, <2>2, Zenon
<1>7. CASE Field.name = "stack" /\ Field.type = "array"
  <2> DEFINE items == [j \in DOMAIN Field.val |-> Field.val[j].val]
  <2>1. /\ Len(Field.val) \in 1..MaxItems /\ stack' = Pack(stack, items)
        /\ \A j \in DOMAIN Field.val : Printable(Field.val[j].val, ItemLen)
    BY <1>7, Zenon DEF PlainStep
  <2>2. \A j \in DOMAIN Field.val : Field.val[j].type = "string"
    BY <1>1, <1>3, <1>7, PlainField, Zenon DEF Range
  <2>3. /\ DOMAIN Field.val = 1..Len(Field.val)
        /\ \A j \in DOMAIN Field.val : IsSeq(Field.val[j].val)
    <3>1. IsSeq(Field.val) /\ \A j \in DOMAIN Field.val :
                                Field.val[j].type = "string" => IsSeq(Field.val[j].val)
      BY <1>1, <1>3, <1>7 DEF BodyOK, FieldsAreJson
    <3> QED BY <2>2, <3>1 DEF IsSeq
  <2>4. ShortItems(items)
    <3>1. 1 \in DOMAIN items /\ DOMAIN items \subseteq 1..MaxItems
      BY <2>1, <2>3, LimitsArePositive
    <3>2. ASSUME NEW j \in DOMAIN items
          PROVE  IsSeq(items[j]) /\ Len(items[j]) \in 1..ItemLen /\ items[j][1] # Nul
      <4>1. items[j] = Field.val[j].val /\ IsSeq(items[j]) /\ Printable(items[j], ItemLen)
        BY <2>1, <2>3
      <4> HIDE DEF items
      <4>2. DOMAIN items[j] = 1..Len(items[j]) /\ Len(items[j]) \in 1..ItemLen
        BY <4>1 DEF IsSeq, Printable
      <4>3. 1 \in DOMAIN items[j]
        BY <4>2, LimitsArePositive
      <4> QED BY <4>1, <4>2, <4>3, Zenon DEF Printable
    <3> HIDE DEF items
    <3> QED BY <3>1, <3>2, Zenon DEF ShortItems
  <2> HIDE DEF items
  <2>5. /\ \A j \in 1..MaxItems : stack'[ItemAt(j) + ItemLen] = stack[ItemAt(j) + ItemLen]
        /\ stack'[0] # Nul
    BY <1>3, <2>1, <2>4, PackFills
  <2>6. TakesItems(k)
    BY <1>7, Zenon DEF TakesItems
  <2> QED BY <1>2, <1>3, <1>5, <2>5, <2>6, Zenon
<1>8. CASE Field.name = "stack" /\ Field.type # "array"
  <2>1. stack' = Copy(stack, 0, <<Nul>>)
    BY <1>8, Zenon DEF PlainStep
  <2>2. \A j \in 1..MaxItems : ItemAt(j) + ItemLen \in DOMAIN stack
    BY <1>3, Offsets, LimitsArePositive
  <2>3. \A i \in DOMAIN body : ~TakesItems(i)
    BY <1>2, <1>8, Zenon DEF TakesItems
  <2> QED BY <1>3, <1>5, <2>1, <2>2, <2>3, NullClears, Zenon
<1> QED BY <1>6, <1>7, <1>8


-----------------------------------------------------------------------------
(* What the arrays hold, as C strings.                                     *)

\* A C string ends at the first Nul.
LEMMA CStringIs ==
  ASSUME NEW n \in Nat, NEW m, DOMAIN m = 0..n, NEW at \in 0..n, NEW s, IsSeq(s),
         at + Len(s) <= n, m[at + Len(s)] = Nul,
         \A o \in 0..(Len(s) - 1) : m[at + o] = s[o + 1] /\ s[o + 1] # Nul
  PROVE  CString(m, at) = s
<1> DEFINE T == {i \in DOMAIN m : i >= at /\ m[i] = Nul}
           e == at + Len(s)
<1>1. Len(s) \in Nat /\ DOMAIN s = 1..Len(s) /\ s = [j \in 1..Len(s) |-> s[j]]
  BY DEF IsSeq
<1>2. e \in T /\ T \subseteq Nat
  BY <1>1
<1>3. ASSUME NEW i \in T PROVE e <= i
  <2> SUFFICES ASSUME i < e PROVE FALSE
    BY <1>1
  <2>1. i - at \in 0..(Len(s) - 1) /\ at + (i - at) = i
    BY <1>1
  <2>2. m[i] # Nul
    BY <2>1
  <2> QED BY <2>2
<1>4. Min(T) = e
  <2>1. Min(T) \in T /\ \A i \in T : Min(T) <= i
    <3> HIDE DEF T
    <3> QED BY <1>2, MinIs
  <2>2. Min(T) <= e /\ e <= Min(T) /\ Min(T) \in Nat /\ e \in Nat
    BY <1>1, <1>2, <1>3, <2>1
  <2> QED BY <2>2
<1>5. CString(m, at) = [j \in 1..(e - at) |-> m[at + j - 1]]
  BY <1>4, Zenon DEF CString
<1>6. e - at = Len(s)
  BY <1>1
<1>7. ASSUME NEW j \in 1..Len(s) PROVE m[at + j - 1] = s[j]
  <2>1. j - 1 \in 0..(Len(s) - 1) /\ at + (j - 1) = at + j - 1 /\ (j - 1) + 1 = j
    BY <1>1
  <2> QED BY <2>1
<1> QED BY <1>1, <1>5, <1>6, <1>7, Zenon

\* It is no longer than the distance to any Nul, and empty only at one.
LEMMA CStringBound ==
  ASSUME NEW n \in Nat, NEW m, DOMAIN m = 0..n, NEW at \in 0..n, NEW len \in Nat,
         at + len <= n, m[at + len] = Nul
  PROVE  /\ CString(m, at) \in Seq(Range(m)) /\ Len(CString(m, at)) <= len
         /\ CString(m, at) = <<>> <=> m[at] = Nul
<1> DEFINE T == {i \in DOMAIN m : i >= at /\ m[i] = Nul}
           e == Min(T)
           s == CString(m, at)
<1>1. at + len \in T /\ T \subseteq Nat
  OBVIOUS
<1>2. e \in T /\ \A i \in T : e <= i
  <2> HIDE DEF T
  <2> QED BY <1>1, MinIs
<1>3. e \in at..(at + len) /\ m[e] = Nul /\ (e = at <=> m[at] = Nul)
  <2>1. m[at] = Nul => at \in T
    OBVIOUS
  <2>2. m[at] = Nul => e <= at
    BY <1>2, <2>1, Zenon
  <2>3. e \in Nat /\ e >= at /\ m[e] = Nul /\ e <= at + len
    BY <1>1, <1>2
  <2> HIDE DEF T, e
  <2> QED BY <2>2, <2>3
<1>4. s = [j \in 1..(e - at) |-> m[at + j - 1]]
  BY Zenon DEF CString
<1> HIDE DEF T, e, s
<1>5. ASSUME NEW j \in 1..(e - at) PROVE s[j] \in Range(m)
  <2>1. at + j - 1 \in DOMAIN m
    BY <1>3
  <2>2. s[j] = m[at + j - 1]
    BY <1>4
  <2> QED BY <2>1, <2>2, Zenon DEF Range
<1>6. e - at \in Nat /\ e - at <= len /\ (e - at = 0 <=> e = at)
  BY <1>3
<1>7. s = [j \in 1..(e - at) |-> s[j]]
  BY <1>4, Zenon
<1>8. s \in Seq(Range(m)) /\ Len(s) = e - at
  BY <1>5, <1>6, <1>7, FunctionIsSeq
<1>9. s = <<>> <=> Len(s) = 0
  BY <1>8
<1> QED BY <1>3, <1>6, <1>8, <1>9 DEF s

\* Nothing is cut of a text that is short enough.
LEMMA CutNothing ==
  ASSUME NEW s, IsSeq(s), NEW n \in Nat, Len(s) <= n
  PROVE  Cut(s, n) = s
<1> DEFINE l == Len(s)
<1>1. l \in Nat /\ s = [j \in 1..l |-> s[j]] /\ l <= n
  BY DEF IsSeq
<1>2. Min({l, n}) = l
  <2> HIDE DEF l
  <2>1. {l, n} \subseteq Nat /\ {l, n} # {}
    BY <1>1
  <2>2. Min({l, n}) \in {l, n} /\ \A i \in {l, n} : Min({l, n}) <= i
    BY <2>1, MinIs
  <2> QED BY <1>1, <2>2
<1>3. SubSeq(s, 1, l) = s
  BY DEF IsSeq
<1> QED BY <1>2, <1>3, Zenon DEF Cut

LEMMA NickStored ==
  ASSUME IInv, NickHeld, AllRead, Plain(body), pc = "parsed"
  PROVE  /\ CString(names, 0) = The(body, "apelido")
         /\ Cut(CString(names, 0), ApelidoLen) = The(body, "apelido")
<1>1. BodyOK /\ PessoaTypeOK /\ Len(body) \in Nat /\ DOMAIN body = 1..Len(body)
  BY BodyIsSeq DEF IInv
<1>2. PICK i \in DOMAIN body : body[i].name = "apelido"
  BY Zenon DEF Plain
<1>3. The(body, "apelido") = body[i].val
  <2>1. \A j \in DOMAIN body : body[j].name = "apelido" => j = i
    BY <1>2, Zenon DEF Plain
  <2> QED BY <1>2, <2>1, Zenon DEF The
<1> DEFINE s == body[i].val
<1>4. body[i].type = "string" /\ Printable(s, ApelidoLen)
  BY <1>2, Zenon DEF Plain
<1>5. IsSeq(s) /\ Len(s) \in 1..ApelidoLen /\ DOMAIN s = 1..Len(s)
      /\ \A j \in DOMAIN s : s[j] # Nul
  BY <1>1, <1>4 DEF BodyOK, FieldsAreJson, Printable, IsSeq
<1>6. i < k
  BY <1>1 DEF AllRead
<1>7. \A o \in 0..ApelidoLen : names[o] = IF o < Len(s) THEN s[o + 1] ELSE Nul
  BY <1>2, <1>6, Zenon DEF NickHeld
<1> HIDE DEF s
<1>8. ApelidoLen \in Nat /\ NamesEnd \in Nat /\ ApelidoLen <= NamesEnd
  BY Offsets, LimitsArePositive DEF NamesEnd, NomeAt
<1>9. CString(names, 0) = s
  <2>1. Len(s) \in 0..ApelidoLen /\ 0 + Len(s) = Len(s) /\ ~(Len(s) < Len(s)) /\ Len(s) <= NamesEnd
    BY <1>5, <1>8
  <2>2. names[0 + Len(s)] = Nul
    BY <1>7, <2>1, Zenon
  <2>3. ASSUME NEW o \in 0..(Len(s) - 1)
        PROVE  names[0 + o] = s[o + 1] /\ s[o + 1] # Nul
    <3>1. o \in 0..ApelidoLen /\ 0 + o = o /\ o < Len(s) /\ o + 1 \in DOMAIN s
      BY <1>5, <1>8
    <3> QED BY <1>5, <1>7, <3>1, Zenon
  <2>4. DOMAIN names = 0..NamesEnd /\ 0 \in 0..NamesEnd
    BY <1>1, <1>8 DEF PessoaTypeOK
  <2> QED BY <1>5, <1>8, <2>1, <2>2, <2>3, <2>4, CStringIs
<1>10. Cut(s, ApelidoLen) = s
  BY <1>5, <1>8, CutNothing
<1> QED BY <1>3, <1>9, <1>10, Zenon DEF s


-----------------------------------------------------------------------------
(* The stack as a text.                                                    *)

\* Texts of at most w characters, one after the other.
LEMMA JoinBound ==
  ASSUME NEW S, NEW ss \in Seq(Seq(S)), NEW w \in Nat,
         \A j \in 1..Len(ss) : Len(ss[j]) <= w
  PROVE  Len(FlattenSeq(ss)) \in Nat /\ Len(FlattenSeq(ss)) <= Len(ss) * w
<1>1. CASE ss = <<>>
  <2>1. Len(ss) = 0
    BY <1>1
  <2>2. FlattenSeq(ss) = ss
    BY <2>1, Zenon DEF FlattenSeq
  <2> QED BY <2>1, <2>2
<1>2. CASE ss # <<>>
  <2>1. PICK f : Flattens(S, ss, f) /\ FlattenSeq(ss) = f[Len(ss)]
    BY <1>2, FlattenRecursion
  <2> DEFINE n == Len(ss)
             T == {i \in Nat : i + 1 <= n => Len(f[i + 1]) <= (i + 1) * w}
  <2>2. n \in Nat /\ n >= 1 /\ \A i \in 1..n : ss[i] \in Seq(S) /\ f[i] \in Seq(S)
    BY <1>2, <2>1 DEF Flattens
  <2>3. \A i \in 1..n : f[i] = IF i = 1 THEN ss[i] ELSE f[i - 1] \o ss[i]
    BY <2>1, Zenon DEF Flattens
  <2>4. 0 \in T
    <3>1. 1 \in 1..n /\ f[1] = ss[1] /\ Len(ss[1]) <= w
      BY <2>2, <2>3
    <3> QED BY <3>1
  <2>5. ASSUME NEW i \in Nat, i \in T PROVE i + 1 \in T
    <3> SUFFICES ASSUME (i + 1) + 1 <= n PROVE Len(f[(i + 1) + 1]) <= ((i + 1) + 1) * w
      OBVIOUS
    <3>1. /\ i + 2 \in 1..n /\ i + 1 \in 1..n /\ i + 2 # 1 /\ (i + 2) - 1 = i + 1
          /\ (i + 1) + 1 = i + 2
      BY <2>2
    <3>2. f[i + 2] = f[i + 1] \o ss[i + 2]
      BY <2>3, <3>1, Zenon
    <3>3. f[i + 1] \in Seq(S) /\ ss[i + 2] \in Seq(S)
      BY <2>2, <3>1
    <3>4. Len(f[i + 2]) = Len(f[i + 1]) + Len(ss[i + 2])
      BY <3>2, <3>3, ConcatProperties
    <3>5. Len(f[i + 1]) <= (i + 1) * w /\ Len(ss[i + 2]) <= w
      BY <2>5, <3>1
    <3>6. \A x, y \in Nat : x <= (i + 1) * w /\ y <= w => x + y <= (i + 2) * w
      <4>1. (i + 2) * w = (i + 1) * w + w /\ (i + 1) * w \in Nat
        OBVIOUS
      <4> QED BY <4>1
    <3>7. Len(f[i + 1]) \in Nat /\ Len(ss[i + 2]) \in Nat
      BY <3>3
    <3> QED BY <3>1, <3>4, <3>5, <3>6, <3>7, Zenon
  <2>6. \A i \in Nat : i \in T
    <3> HIDE DEF T
    <3> QED BY <2>4, <2>5, SetInduction
  <2>7. n - 1 \in T /\ n - 1 \in Nat /\ (n - 1) + 1 = n
    <3>1. n - 1 \in Nat /\ (n - 1) + 1 = n
      BY <2>2
    <3> HIDE DEF T
    <3> QED BY <2>6, <3>1, Zenon
  <2>8. Len(f[n]) <= n * w
    BY <2>7
  <2>9. Len(f[n]) \in Nat
    BY <2>2
  <2> QED BY <2>1, <2>8, <2>9
<1> QED BY <1>1, <1>2

\* A quoted item is three characters longer.
LEMMA QuotedLength ==
  ASSUME NEW S, NEW item \in Seq(S), Quote \in S, Comma \in S
  PROVE  Quoted(item) \in Seq(S) /\ Len(Quoted(item)) = Len(item) + 3
<1>1. <<Quote>> \in Seq(S) /\ Len(<<Quote>>) = 1
  OBVIOUS
<1>2. <<Quote, Comma>> \in Seq(S) /\ Len(<<Quote, Comma>>) = 2
  OBVIOUS
<1>3. <<Quote>> \o item \in Seq(S) /\ Len(<<Quote>> \o item) = 1 + Len(item)
  BY <1>1, ConcatProperties
<1>4. /\ (<<Quote>> \o item) \o <<Quote, Comma>> \in Seq(S)
      /\ Len((<<Quote>> \o item) \o <<Quote, Comma>>) = (1 + Len(item)) + 2
  BY <1>2, <1>3, ConcatProperties
<1>5. Len(item) \in Nat
  OBVIOUS
<1> QED BY <1>4, <1>5 DEF Quoted

\* If every slot ends in its last place, the text of the stack fits its buffer, and
\* only that of an empty stack is written before it.
LEMMA PrintedInside ==
  ASSUME NEW m, DOMAIN m = 0..StackEnd,
         \A j \in 1..MaxItems : m[ItemAt(j) + ItemLen] = Nul
  PROVE  PrintsOutside(Items(m)) <=> m[0] = Nul
<1> DEFINE item(i) == CString(m, ItemAt(i))
           used(i) == Len(FlattenSeq([j \in 1..(i - 1) |-> Quoted(item(j))]))
           T == {i \in 0..MaxItems : \/ i = MaxItems
                                     \/ item(i + 1) = <<>>
                                     \/ used(i + 1) >= TextLen}
           last == Min(T)
           items == Items(m)
           S == Range(m) \cup {Quote, Comma}
           w == ItemLen + 3
           ss == [i \in DOMAIN items |-> Quoted(items[i])]
<1>1. ItemLen \in Nat \ {0} /\ MaxItems \in Nat \ {0} /\ StackEnd \in Nat
  BY Offsets, LimitsArePositive
<1>2. items = [i \in 1..last |-> item(i)]
  BY Zenon DEF Items
<1>3. ASSUME NEW i \in 1..MaxItems
      PROVE  item(i) \in Seq(S) /\ Len(item(i)) <= ItemLen /\ (item(i) = <<>> <=> m[ItemAt(i)] = Nul)
  <2>1. ItemAt(i) \in 0..StackEnd /\ ItemAt(i) + ItemLen <= StackEnd
    BY <1>1, Offsets
  <2>2. /\ CString(m, ItemAt(i)) \in Seq(Range(m)) /\ Len(CString(m, ItemAt(i))) <= ItemLen
        /\ CString(m, ItemAt(i)) = <<>> <=> m[ItemAt(i)] = Nul
    BY <1>1, <2>1, CStringBound
  <2> QED BY <2>2
<1> HIDE DEF item
<1>4. T \subseteq Nat /\ MaxItems \in T
  BY <1>1
<1>5. last \in T /\ \A i \in T : last <= i
  <2> HIDE DEF T
  <2> QED BY <1>4, MinIs
<1>6. last \in Nat /\ last <= MaxItems
  BY <1>1, <1>4, <1>5
<1>7. last = 0 <=> item(1) = <<>>
  <2>1. used(1) = 0
    <3>1. Len([j \in 1..(1 - 1) |-> Quoted(item(j))]) = 0
      <4>1. [j \in 1..(1 - 1) |-> Quoted(item(j))] = <<>>
        OBVIOUS
      <4> QED BY <4>1
    <3>2. FlattenSeq([j \in 1..(1 - 1) |-> Quoted(item(j))]) = [j \in 1..(1 - 1) |-> Quoted(item(j))]
      BY <3>1, Zenon DEF FlattenSeq
    <3> QED BY <3>1, <3>2
  <2>2. TextLen > 0
    BY <1>1 DEF TextLen
  <2> HIDE DEF used
  <2>3. 0 \in T <=> item(1) = <<>>
    <3>1. 0 \in 0..MaxItems /\ 0 # MaxItems /\ 0 + 1 = 1
      BY <1>1
    <3>2. ~(used(0 + 1) >= TextLen)
      <4>1. TextLen \in Nat
        BY <1>1 DEF TextLen
      <4> QED BY <2>1, <2>2, <4>1
    <3> QED BY <3>1, <3>2, Zenon
  <2>4. 0 \in T <=> last = 0
    <3> HIDE DEF T
    <3>1. 0 \in T => last <= 0
      BY <1>5
    <3> QED BY <1>5, <1>6, <3>1
  <2> QED BY <2>3, <2>4
<1> HIDE DEF T, last, used
<1>8. items = <<>> <=> last = 0
  <2>1. last = 0 => items = <<>>
    BY <1>2
  <2>2. last # 0 => 1 \in DOMAIN items
    BY <1>2, <1>6
  <2> QED BY <2>1, <2>2
<1>9. item(1) = <<>> <=> m[0] = Nul
  BY <1>1, <1>3, SlotsApart
<1>10. Len(Printed(items)) <= TextLen
  <2>1. ASSUME NEW i \in 1..last
        PROVE  ss[i] \in Seq(S) /\ Len(ss[i]) <= w
    <3>1. i \in 1..MaxItems
      BY <1>1, <1>6
    <3>2. item(i) \in Seq(S) /\ Len(item(i)) <= ItemLen /\ Quote \in S /\ Comma \in S
      BY <1>3, <3>1
    <3>3. ss[i] = Quoted(item(i))
      BY <1>2
    <3> HIDE DEF ss, S
    <3>4. Quoted(item(i)) \in Seq(S) /\ Len(Quoted(item(i))) = Len(item(i)) + 3
      BY <3>2, QuotedLength
    <3>5. Len(item(i)) \in Nat
      BY <3>2
    <3> QED BY <1>1, <3>2, <3>3, <3>4, <3>5
  <2>2. ss = [i \in 1..last |-> ss[i]]
    BY <1>2, Zenon
  <2> HIDE DEF ss, S
  <2>3. ss \in Seq(Seq(S)) /\ Len(ss) = last
    BY <1>6, <2>1, <2>2, FunctionIsSeq
  <2>4. Len(FlattenSeq(ss)) \in Nat /\ Len(FlattenSeq(ss)) <= last * w
    <3>1. w \in Nat
      BY <1>1
    <3>2. \A j \in 1..Len(ss) : Len(ss[j]) <= w
      BY <2>1, <2>3, Zenon
    <3> HIDE DEF w
    <3>3. Len(FlattenSeq(ss)) \in Nat /\ Len(FlattenSeq(ss)) <= Len(ss) * w
      BY <2>3, <3>1, <3>2, JoinBound
    <3> QED BY <2>3, <3>3, Zenon
  <2>5. last * w <= MaxItems * w
    <3> DEFINE d == MaxItems - last
    <3>1. d \in Nat /\ MaxItems = last + d
      BY <1>1, <1>6
    <3>2. w \in Nat
      BY <1>1
    <3> HIDE DEF d, w
    <3>3. (last + d) * w = last * w + d * w /\ d * w \in Nat /\ last * w \in Nat
      BY <1>6, <3>1, <3>2
    <3>4. last * w <= (last + d) * w
      BY <3>3
    <3> QED BY <3>1, <3>4, Zenon
  <2>6. Printed(items) = FlattenSeq(ss)
    BY Zenon DEF Printed, ss
  <2>7. last * w \in Nat /\ MaxItems * w \in Nat
    BY <1>1, <1>6
  <2> HIDE DEF w
  <2>8. TextLen = MaxItems * w
    BY Zenon DEF TextLen, w
  <2> QED BY <2>4, <2>5, <2>6, <2>7, <2>8
<1>11. Len(Printed(items)) > TextLen <=> FALSE
  <2>1. Len(Printed(items)) \in Int /\ TextLen \in Int
    <3>1. TextLen \in Int
      BY <1>1 DEF TextLen
    <3> QED BY <1>10, <3>1
  <2> QED BY <1>10, <2>1
<1> QED BY <1>7, <1>8, <1>9, <1>11, Zenon DEF PrintsOutside


-----------------------------------------------------------------------------
(* The steps of a post.                                                    *)

\* A row that is inserted is at its place, and all others are before and behind it.
Inserted(s, p, e, t) ==
  /\ p \in DOMAIN t /\ t[p] = e /\ DOMAIN t = 1..(Len(s) + 1)
  /\ \A i \in DOMAIN t : /\ i < p => i \in DOMAIN s /\ t[i] = s[i]
                         /\ i > p => i - 1 \in DOMAIN s /\ t[i] = s[i - 1]

LEMMA InsertIs ==
  ASSUME NEW s, IsSeq(s), NEW p \in 1..(Len(s) + 1), NEW e
  PROVE  Inserted(s, p, e, InsertAt(s, p, e))
<1> DEFINE S == Range(s) \cup {e}
           u == SubSeq(s, 1, p - 1)
           v == SubSeq(s, p, Len(s))
           t == InsertAt(s, p, e)
<1>1. s \in Seq(S) /\ e \in S /\ Len(s) \in Nat /\ DOMAIN s = 1..Len(s) /\ p \in Nat \ {0}
  BY DEF IsSeq
<1>2. /\ u \in Seq(S) /\ Len(u) = p - 1 /\ v \in Seq(S) /\ Len(v) = Len(s) - p + 1
      /\ \A i \in 1..(p - 1) : u[i] = s[i]
      /\ \A i \in 1..(Len(s) - p + 1) : v[i] = s[p + i - 1]
  <2>1. (\A i \in 1..(p - 1) : s[i] \in S) /\ (\A i \in p..Len(s) : s[i] \in S)
    <3>1. \A i \in 1..Len(s) : s[i] \in S
      BY <1>1
    <3> HIDE DEF S
    <3> QED BY <1>1, <3>1
  <2> HIDE DEF S
  <2>2. /\ u \in Seq(S) /\ Len(u) = IF 1 <= p - 1 THEN (p - 1) - 1 + 1 ELSE 0
        /\ \A i \in 1..((p - 1) - 1 + 1) : u[i] = s[1 + i - 1]
    <3>1. 1 \in Int /\ p - 1 \in Int
      BY <1>1
    <3> QED BY <2>1, <3>1, SubSeqProperties
  <2>3. /\ v \in Seq(S) /\ Len(v) = IF p <= Len(s) THEN Len(s) - p + 1 ELSE 0
        /\ \A i \in 1..(Len(s) - p + 1) : v[i] = s[p + i - 1]
    <3>1. p \in Int /\ Len(s) \in Int
      BY <1>1
    <3> QED BY <2>1, <3>1, SubSeqProperties
  <2> HIDE DEF u, v
  <2>4. Len(u) = p - 1 /\ Len(v) = Len(s) - p + 1
    BY <1>1, <2>2, <2>3
  <2>5. \A i \in 1..(p - 1) : i \in 1..((p - 1) - 1 + 1) /\ 1 + i - 1 = i
    BY <1>1
  <2>6. \A i \in 1..(p - 1) : u[i] = s[i]
    BY <2>2, <2>5, Zenon
  <2> QED BY <2>2, <2>3, <2>4, <2>6, Zenon
<1>3. <<e>> \in Seq(S) /\ Len(<<e>>) = 1 /\ <<e>>[1] = e
  BY <1>1
<1>4. t = (u \o <<e>>) \o v
  BY DEF InsertAt
<1> HIDE DEF S, u, v, t
<1>5. /\ u \o <<e>> \in Seq(S) /\ Len(u \o <<e>>) = p
      /\ \A i \in 1..p : (u \o <<e>>)[i] = IF i <= p - 1 THEN u[i] ELSE e
  <2>1. /\ u \o <<e>> \in Seq(S) /\ Len(u \o <<e>>) = (p - 1) + 1
        /\ \A i \in 1..((p - 1) + 1) :
             (u \o <<e>>)[i] = IF i <= p - 1 THEN u[i] ELSE <<e>>[i - (p - 1)]
    BY <1>2, <1>3, ConcatProperties
  <2>2. (p - 1) + 1 = p /\ \A i \in 1..p : ~(i <= p - 1) => i - (p - 1) = 1
    BY <1>1
  <2> QED BY <1>3, <2>1, <2>2, Zenon
<1>6. /\ t \in Seq(S) /\ Len(t) = p + (Len(s) - p + 1)
      /\ \A i \in 1..(p + (Len(s) - p + 1)) : t[i] = IF i <= p THEN (u \o <<e>>)[i] ELSE v[i - p]
  <2> DEFINE x == u \o <<e>>
  <2>1. x \in Seq(S) /\ Len(x) = p /\ t = x \o v
    BY <1>4, <1>5, Zenon
  <2> HIDE DEF x
  <2>2. /\ x \o v \in Seq(S) /\ Len(x \o v) = Len(x) + Len(v)
        /\ \A i \in 1..(Len(x) + Len(v)) : (x \o v)[i] = IF i <= Len(x) THEN x[i] ELSE v[i - Len(x)]
    BY <1>2, <2>1, ConcatProperties, Zenon
  <2>3. Len(v) = Len(s) - p + 1
    BY <1>2
  <2> QED BY <2>1, <2>2, <2>3, Zenon DEF x
<1>7. DOMAIN t = 1..(p + (Len(s) - p + 1))
  BY <1>6
<1>8. p \in DOMAIN t /\ t[p] = e
  <2>1. p \in 1..(p + (Len(s) - p + 1)) /\ p \in 1..p /\ p <= p /\ ~(p <= p - 1)
    BY <1>1
  <2> QED BY <1>5, <1>6, <1>7, <2>1, Zenon
<1>9. ASSUME NEW i \in DOMAIN t
      PROVE  /\ i < p => i \in DOMAIN s /\ t[i] = s[i]
             /\ i > p => i - 1 \in DOMAIN s /\ t[i] = s[i - 1]
  <2>1. i \in 1..(p + (Len(s) - p + 1)) /\ i \in Nat
    BY <1>7
  <2>2. CASE i < p
    <3>1. i <= p /\ i <= p - 1 /\ i \in 1..p /\ i \in 1..(p - 1) /\ i \in DOMAIN s /\ ~(i > p)
      BY <1>1, <2>1, <2>2
    <3>2. t[i] = s[i]
      BY <1>2, <1>5, <1>6, <2>1, <3>1, Zenon
    <3> QED BY <3>1, <3>2
  <2>3. CASE i > p
    <3>1. /\ i - p \in 1..(Len(s) - p + 1) /\ p + (i - p) - 1 = i - 1 /\ i - 1 \in DOMAIN s
          /\ ~(i <= p) /\ ~(i < p)
      BY <1>1, <2>1, <2>3
    <3>2. t[i] = s[p + (i - p) - 1]
      BY <1>2, <1>6, <2>1, <3>1, Zenon
    <3> QED BY <3>1, <3>2
  <2> QED BY <2>2, <2>3
<1>10. p + (Len(s) - p + 1) = Len(s) + 1
  BY <1>1
<1>11. DOMAIN t = 1..(Len(s) + 1)
  BY <1>7, <1>10, Zenon
<1> QED BY <1>8, <1>9, <1>11, Zenon DEF t, Inserted

LEMMA InsertHas ==
  ASSUME NEW s, IsSeq(s), NEW p \in 1..(Len(s) + 1), NEW e
  PROVE  /\ \E i \in DOMAIN InsertAt(s, p, e) : InsertAt(s, p, e)[i] = e
         /\ \A i \in DOMAIN InsertAt(s, p, e) :
              InsertAt(s, p, e)[i] = e \/ \E j \in DOMAIN s : InsertAt(s, p, e)[i] = s[j]
<1> DEFINE t == InsertAt(s, p, e)
<1>1. Inserted(s, p, e, t)
  BY InsertIs
<1> HIDE DEF t
<1>2. \A i \in DOMAIN t : i < p \/ i = p \/ i > p
  BY <1>1 DEF IsSeq, Inserted
<1> QED BY <1>1, <1>2, Zenon DEF t, Inserted

LEMMA InitTInv == Init => TInv
<1> SUFFICES ASSUME Init PROVE TInv
  OBVIOUS
<1>1. pc = "idle" /\ answer = "none" /\ posts = 0 /\ rows = <<>> /\ DOMAIN rows = {}
      /\ names = NoNames /\ stack = NoStack
  BY DEF Init
<1>2. ~(posts > 0)
  BY <1>1
<1> QED BY <1>1, <1>2 DEF TInv, NickHeld, StackHeld, RowIds, AllRead, Zeroed,
                          AnsweredTruly, StrayOnlyWhenEmpty

LEMMA BeginTInv == ASSUME IInv, TInv, NEW b \in Bodies, Begin(b) PROVE TInv'
<1>1. pc = "idle" /\ posts' = posts + 1 /\ body' = b.fields /\ rows' = rows /\ posts \in Nat
  BY LimitsArePositive DEF Begin, IInv, PessoaTypeOK
<1>2. RowIds'
  BY <1>1 DEF TInv, RowIds
<1>3. CASE b.type = "object" /\ Len(b.fields) >= MinFields
  <2>1. pc' = "fields" /\ k' = 1 /\ names' = NoNames /\ stack' = NoStack
    BY <1>1, <1>3 DEF Begin, TInv, Zeroed
  <2>2. DOMAIN body' \subseteq Nat \ {0}
    BY <1>1, BodiesAreJson DEF FieldsAreJson, IsSeq
  <2>3. \A i \in DOMAIN body' : ~(i < k')
    BY <2>1, <2>2
  <2>4. \A o \in 0..ApelidoLen : names'[o] = Nul
    BY <2>1, Offsets, LimitsArePositive DEF NoNames, NomeAt
  <2>5. (\A j \in 1..MaxItems : stack'[ItemAt(j) + ItemLen] = Nul) /\ stack'[0] = Nul
    BY <2>1, Offsets, LimitsArePositive DEF NoStack
  <2> QED BY <1>2, <2>1, <2>3, <2>4, <2>5
          DEF TInv, NickHeld, StackHeld, AllRead, Zeroed, AnsweredTruly, StrayOnlyWhenEmpty
<1>4. CASE ~(b.type = "object" /\ Len(b.fields) >= MinFields)
  <2>1. Done("unprocessable")
    BY <1>4 DEF Begin
  <2>2. ~(Len(body') >= MinFields)
    <3>1. Len(<<>>) = 0 /\ ~(0 >= MinFields)
      BY DEF MinFields
    <3> QED BY <1>1, <1>4, <3>1, BodiesAreJson
  <2> QED BY <1>2, <2>1, <2>2
          DEF Done, TInv, NickHeld, StackHeld, AllRead, Zeroed, AnsweredTruly, StrayOnlyWhenEmpty
<1> QED BY <1>3, <1>4

\* A field is read, or the body is refused.
LEMMA FieldShape ==
  ASSUME FieldStep
  PROVE  /\ pc = "fields" /\ UNCHANGED <<rows, posts, body>>
         /\ Advance \/ Done("unprocessable")
BY Zenon DEF FieldStep, ApelidoField, NomeField, DateField, IdField, StackField,
             UnknownField, At, Reject, Advance

LEMMA FieldTInv == ASSUME IInv, TInv, FieldStep PROVE TInv'
<1>1. /\ pc = "fields" /\ rows' = rows /\ posts' = posts /\ body' = body
      /\ Advance \/ Done("unprocessable")
  BY FieldShape
<1>2. RowIds'
  BY <1>1 DEF TInv, RowIds
<1>3. Advance => pc' # "idle" /\ (pc' = "parsed" => k' = Len(body') + 1)
  BY <1>1 DEF Advance
<1>4. Done("unprocessable") => Zeroed' /\ pc' = "idle" /\ answer' = "unprocessable"
  BY DEF Done, Zeroed
<1>5. AllRead' /\ Zeroed'
  BY <1>1, <1>3, <1>4 DEF AllRead, Zeroed
<1>6. CASE Plain(body)
  <2>1. Advance /\ PlainStep
    BY <1>6, PlainIsTaken DEF IInv
  <2>2. NickHeld' /\ StackHeld'
    BY <1>1, <1>6, <2>1, NickStep, StackStep DEF TInv
  <2>3. AnsweredTruly' /\ StrayOnlyWhenEmpty'
    BY <1>3, <2>1 DEF AnsweredTruly, StrayOnlyWhenEmpty
  <2> QED BY <1>2, <1>5, <2>2, <2>3 DEF TInv
<1>7. CASE ~Plain(body)
  <2>1. ~Plain(body')
    BY <1>1, <1>7
  <2> QED BY <1>2, <1>5, <2>1
          DEF TInv, NickHeld, StackHeld, AnsweredTruly, StrayOnlyWhenEmpty
<1> QED BY <1>6, <1>7

LEMMA RefuseTInv == ASSUME IInv, TInv, Refuse PROVE TInv'
<1>1. pc = "parsed" /\ Exists /\ Done("unprocessable") /\ UNCHANGED <<rows, posts, body>>
  BY DEF Refuse
<1>2. pc' = "idle" /\ answer' = "unprocessable" /\ Zeroed'
  BY <1>1 DEF Done, Zeroed
<1>3. RowIds'
  BY <1>1, <1>2 DEF TInv, RowIds
<1>4. AnsweredTruly'
  <2> SUFFICES ASSUME Plain(body)
               PROVE  \E r \in Range(rows) : r.id # posts /\ r.apelido = The(body, "apelido")
    BY <1>1, <1>2 DEF AnsweredTruly
  <2>1. PICK i \in DOMAIN rows : rows[i].apelido = The(body, "apelido")
    BY <1>1, NickStored, Zenon DEF TInv, Exists
  <2>2. rows[i].id # posts
    BY <1>1 DEF TInv, RowIds
  <2> QED BY <2>1, <2>2 DEF Range
<1> QED BY <1>2, <1>3, <1>4 DEF TInv, NickHeld, StackHeld, AllRead, StrayOnlyWhenEmpty

\* Nothing is sent as the stack unless a list was read.
LEMMA SentNothing ==
  ASSUME IInv, Plain(body)
  PROVE  SentItems(body) = <<>> <=> ~\E i \in DOMAIN body : TakesItems(i)
<1>1. CASE ~\E i \in DOMAIN body : TakesItems(i)
  <2>1. SentItems(body) = <<>>
    BY <1>1, Zenon DEF SentItems, TakesItems
  <2> QED BY <1>1, <2>1
<1>2. ASSUME NEW i \in DOMAIN body, TakesItems(i) PROVE SentItems(body) # <<>>
  <2>1. The(body, "stack") = body[i].val
    <3>1. \A j \in DOMAIN body : body[j].name = "stack" => j = i
      BY <1>2, Zenon DEF Plain, TakesItems
    <3> QED BY <1>2, <3>1, Zenon DEF The, TakesItems
  <2>2. Len(body[i].val) \in 1..MaxItems /\ IsSeq(body[i].val)
    <3>1. Len(body[i].val) \in 1..MaxItems
      BY <1>2 DEF Plain, TakesItems
    <3> QED BY <1>2, <3>1 DEF IInv, BodyOK, FieldsAreJson, TakesItems
  <2>3. 1 \in DOMAIN body[i].val
    BY <2>2, LimitsArePositive DEF IsSeq
  <2>4. SentItems(body) = [j \in DOMAIN body[i].val |-> body[i].val[j].val]
    BY <1>2, <2>1, Zenon DEF SentItems, TakesItems
  <2>5. 1 \in DOMAIN SentItems(body)
    BY <2>3, <2>4
  <2> HIDE DEF SentItems
  <2> QED BY <2>5
<1> QED BY <1>1, <1>2

LEMMA CreateTInv == ASSUME IInv, TInv, Create PROVE TInv'
<1> DEFINE row == [id |-> posts, apelido |-> CString(names, 0),
                   nome |-> CString(names, NomeAt), nascimento |-> born,
                   stack |-> StackText(Items(stack)), sent |-> body]
<1>1. /\ pc = "parsed" /\ ~Exists /\ Done("created") /\ UNCHANGED <<posts, body>>
      /\ stray' = PrintsOutside(Items(stack))
      /\ IF \E i \in DOMAIN rows : rows[i].apelido = row.apelido THEN rows' = rows
         ELSE \E p \in 1..(Len(rows) + 1) : rows' = InsertAt(rows, p, row)
  BY Zenon DEF Create
<1>2. row.id = posts /\ row.apelido = CString(names, 0)
  OBVIOUS
<1> HIDE DEF row
<1>3. pc' = "idle" /\ answer' = "created" /\ Zeroed'
  BY <1>1 DEF Done, Zeroed
<1>4. IsSeq(rows) /\ posts \in Nat /\ Len(rows) < posts /\ Len(rows) \in Nat
  BY <1>1, LimitsArePositive DEF IInv, PessoaTypeOK, IsSeq
<1>5. \A i \in DOMAIN rows' : rows'[i] = row \/ \E j \in DOMAIN rows : rows'[i] = rows[j]
  BY <1>1, <1>4, InsertHas
<1>6. RowIds'
  <2>1. \A i \in DOMAIN rows' : rows'[i].id \in 1..posts
    <3>1. posts \in 1..posts
      BY <1>4
    <3>2. \A j \in DOMAIN rows : rows[j].id \in 1..posts
      BY DEF TInv, RowIds
    <3> QED BY <1>2, <1>5, <3>1, <3>2, Zenon
  <2> QED BY <1>1, <1>3, <2>1 DEF RowIds
<1>7. CASE Plain(body)
  <2>1. /\ CString(names, 0) = The(body, "apelido")
        /\ Cut(CString(names, 0), ApelidoLen) = The(body, "apelido")
    BY <1>1, <1>7, NickStored DEF TInv
  <2>2. ~\E i \in DOMAIN rows : rows[i].apelido = row.apelido
    BY <1>1, <1>2, <2>1, Zenon DEF Exists
  <2>3. \E r \in Range(rows') : r.id = posts
    <3>1. PICK p \in 1..(Len(rows) + 1) : rows' = InsertAt(rows, p, row)
      BY <1>1, <2>2
    <3>2. \E i \in DOMAIN rows' : rows'[i] = row
      BY <1>4, <3>1, InsertHas
    <3> QED BY <1>2, <3>2 DEF Range
  <2>4. AnsweredTruly'
    BY <1>1, <1>3, <2>3 DEF AnsweredTruly
  <2>5. StrayOnlyWhenEmpty'
    <3>1. /\ DOMAIN stack = 0..StackEnd
          /\ \A j \in 1..MaxItems : stack[ItemAt(j) + ItemLen] = Nul
          /\ stack[0] # Nul <=> \E i \in DOMAIN body : i < k /\ TakesItems(i)
      BY <1>1, <1>7 DEF IInv, PessoaTypeOK, TInv, StackHeld
    <3>2. stray' <=> stack[0] = Nul
      BY <1>1, <3>1, PrintedInside, Zenon
    <3>3. \A i \in DOMAIN body : i < k
      BY <1>1, BodyIsSeq DEF IInv, TInv, AllRead
    <3>4. SentItems(body) = <<>> <=> ~\E i \in DOMAIN body : TakesItems(i)
      BY <1>7, SentNothing
    <3>5. stray' <=> SentItems(body) = <<>>
      BY <3>1, <3>2, <3>3, <3>4, Zenon
    <3> QED BY <1>1, <3>5 DEF StrayOnlyWhenEmpty
  <2> QED BY <1>3, <1>6, <2>4, <2>5 DEF TInv, NickHeld, StackHeld, AllRead
<1>8. CASE ~Plain(body)
  <2>1. ~Plain(body')
    BY <1>1, <1>8
  <2> QED BY <1>3, <1>6, <2>1
          DEF TInv, NickHeld, StackHeld, AllRead, AnsweredTruly, StrayOnlyWhenEmpty
<1> QED BY <1>7, <1>8

LEMMA NextTInv == ASSUME IInv, TInv, [Next]_vars PROVE TInv'
<1>1. CASE UNCHANGED vars
  BY <1>1 DEF vars, TInv, NickHeld, StackHeld, TakesItems, RowIds, AllRead, Zeroed,
              AnsweredTruly, StrayOnlyWhenEmpty
<1>2. CASE Next
  BY <1>2, BeginTInv, FieldTInv, RefuseTInv, CreateTInv DEF Next, FieldStep
<1> QED BY <1>1, <1>2

(* What the arrays hold of a plain body, and what it is told, in every     *)
(* behaviour.                                                              *)
THEOREM Held == Spec => []TInv
<1>1. Init => TInv
  BY InitTInv
<1>2. IInv /\ TInv /\ [Next]_vars => TInv'
  BY NextTInv
<1> QED BY <1>1, <1>2, Inductive, PTL DEF Spec

(* AnsweredTruly: for any limits and bodies, a body that means one thing   *)
(* is created, and its row is there, unless another row has its nickname   *)
(* (json_as_pessoa, db_get_apelido_exists and the INSERT agree on it).     *)
THEOREM PlainIsAnsweredTruly == Spec => []AnsweredTruly
<1>1. TInv => AnsweredTruly
  BY DEF TInv
<1> QED BY <1>1, Held, PTL

(* StrayOnlyWhenEmpty: for any limits, parse_stack_tostr (pessoa.c:15-33)  *)
(* stays inside its buffer for every list a plain body can have, and       *)
(* leaves it for every one that has none.                                  *)
THEOREM PrintsInside == Spec => []StrayOnlyWhenEmpty
<1>1. TInv => StrayOnlyWhenEmpty
  BY DEF TInv
<1> QED BY <1>1, Held, PTL

===============================================================================
