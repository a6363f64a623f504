-------------------------------- MODULE Pessoa --------------------------------
(***************************************************************************)
(* What becomes of the texts of a person: from the body of a POST through  *)
(* json_as_pessoa (pessoa.c) into the arrays of struct Pessoa (common.h),  *)
(* and from there into the columns of a row (db.c).  How they come back    *)
(* out of a row is in module Answers.                                      *)
(*                                                                         *)
(* One instance, one request after the other: what two instances do to     *)
(* each other is in module Handler.  A character array is a function from  *)
(* its offsets to bytes, a C string in it reaches to the first Nul, and    *)
(* all lengths are of bytes: a character outside ASCII has several.        *)
(***************************************************************************)
EXTENDS Integers, FiniteSets, Sequences, SequencesExt

CONSTANTS
  Nul, Quote, Comma,         \* the characters that mean something here
  ApelidoLen, NomeLen, ItemLen, MaxItems,   \* common.h:36-40
  Uuids,                     \* the texts that uuid_parse takes
  DateOf,                    \* the texts that strptime("%F") takes, and the
                             \* date that strftime("%F") prints of each
  FullDates,                 \* those that leave their array without a NUL
  Bodies,                    \* the bodies that clients post
  MaxPosts                   \* bound on the number of posts

ASSUME LimitsArePositive ==
  /\ {ApelidoLen, NomeLen, ItemLen, MaxItems} \subseteq Nat \ {0}
  /\ MaxPosts \in Nat

(* The value of a string is a text, that of an array a list of values.     *)
IsSeq(s) == s \in Seq(Range(s))
FieldsAreJson(fields) ==
  /\ IsSeq(fields)
  /\ \A i \in DOMAIN fields :
       /\ fields[i].type \in {"string", "array"} => IsSeq(fields[i].val)
       /\ fields[i].type = "array" =>
            \A j \in DOMAIN fields[i].val :
              fields[i].val[j].type = "string" => IsSeq(fields[i].val[j].val)

(* Only an object has fields.                                              *)
ASSUME BodiesAreJson ==
  \A b \in Bodies : FieldsAreJson(b.fields) /\ (b.type # "object" => b.fields = <<>>)

VARIABLES
  rows,      \* the table in the order of its primary key, which is random
  posts,     \* number of posts so far
  body,      \* the body of the last post
  pc,        \* "idle", in the loop at pessoa.c:132 ("fields"), or "parsed"
  k,         \* the field the loop is at
  names,     \* apelido, nome and the padding after them in struct Pessoa
  stack,     \* stack and the padding after it
  born,      \* nascimento, as strftime prints it
  root,      \* what json_parse allocated: "none", "live" or "freed"
  answer,    \* what the last post was answered
  stray      \* the last post wrote outside the array meant for it

vars == <<rows, posts, body, pc, k, names, stack, born, root, answer, stray>>

-----------------------------------------------------------------------------
(* Character arrays.                                                       *)

NomeAtNoEnd == ApelidoLen      \* mutant: no room for the end of apelido
NomeAt == ApelidoLen + 1
NamesEnd == NomeAt + NomeLen + 1
ItemAtTight(i) == (i - 1) * ItemLen    \* mutant: no room for the end of an item
ItemAt(i) == (i - 1) * (ItemLen + 1)
StackEnd == ItemAt(MaxItems + 1)
TextLenNoCommas == MaxItems * (ItemLen + 2)      \* mutant: commas not counted
TextLen == MaxItems * (ItemLen + 3)

NoNames == [i \in 0..NamesEnd |-> Nul]
NoStack == [i \in 0..StackEnd |-> Nul]
NoDate == <<"1900-01-00">>        \* of a struct tm that is zero

(* memcpy(&m[at], s, Len(s))                                               *)
Copy(m, at, s) ==
  [i \in DOMAIN m |-> IF i + 1 - at \in DOMAIN s THEN s[i + 1 - at] ELSE m[i]]

(* One item per slot of a stack, in order: a later write wins.             *)
Pack(m, items) ==
  LET on(i) == {j \in DOMAIN items : i + 1 - ItemAt(j) \in DOMAIN items[j]}
      last(i) == Max(on(i))
  IN  [i \in DOMAIN m |-> IF on(i) = {} THEN m[i]
                          ELSE items[last(i)][i + 1 - ItemAt(last(i))]]

CString(m, at) ==
  LET end == Min({i \in DOMAIN m : i >= at /\ m[i] = Nul})
  IN  [j \in 1..(end - at) |-> m[at + j - 1]]

(* The first n characters of s: what a size argument leaves of it.         *)
Cut(s, n) == SubSeq(s, 1, Min({Len(s), n}))

-----------------------------------------------------------------------------
(* The stack as one text: "C#","Python".                                   *)

Quoted(item) == <<Quote>> \o item \o <<Quote, Comma>>

(* The items that parse_stack_tostr prints: up to the first empty one, and *)
(* while there is room where the next one begins.                          *)
Items(m) ==
  LET item(i) == CString(m, ItemAt(i))
      used(i) == Len(FlattenSeq([j \in 1..(i - 1) |-> Quoted(item(j))]))
      last == Min({i \in 0..MaxItems :
                     \/ i = MaxItems
                     \/ item(i + 1) = <<>>
                     \/ used(i + 1) >= TextLen})
  IN  [i \in 1..last |-> item(i)]

(* All that sprintf writes; then the last comma is dropped.                *)
Printed(items) == FlattenSeq([i \in DOMAIN items |-> Quoted(items[i])])
StackText(items) == IF items = <<>> THEN <<>> ELSE Front(Printed(items))

(* Its last write is at buffer[-1] when nothing was printed.               *)
PrintsOutside(items) == items = <<>> \/ Len(Printed(items)) > TextLen

-----------------------------------------------------------------------------
Init ==
  /\ rows = <<>> /\ posts = 0 /\ body = <<>> /\ pc = "idle" /\ k = 0
  /\ names = NoNames /\ stack = NoStack /\ born = NoDate
  /\ root = "none" /\ answer = "none" /\ stray = FALSE

(* The handler gives the Pessoa up with the request.                       *)
Done(told) ==
  /\ pc' = "idle" /\ k' = 0 /\ answer' = told
  /\ names' = NoNames /\ stack' = NoStack /\ born' = NoDate

MinFields == 3

(* json_as_pessoa up to the loop, pessoa.c:104-131.                        *)
Begin(b) ==
  /\ pc = "idle" /\ posts < MaxPosts
  /\ posts' = posts + 1 /\ body' = b.fields
  /\ IF b.type = "object" /\ Len(b.fields) >= MinFields
       THEN /\ pc' = "fields" /\ k' = 1 /\ root' = "live" /\ answer' = "none"
            /\ UNCHANGED <<names, stack, born>>
       ELSE /\ root' = IF b.type = "malformed" THEN "none" ELSE "freed"
            /\ Done("unprocessable")
  /\ stray' = FALSE /\ UNCHANGED rows

Field == body[k]

(* mutant: an early return without free(root)                              *)
RejectLeaks ==
  /\ Done("unprocessable")
  /\ UNCHANGED <<rows, posts, body, root, stray>>

Reject ==
  /\ Done("unprocessable") /\ root' = "freed"
  /\ UNCHANGED <<rows, posts, body, stray>>

(* mutant: the loop goes on after the last field                           *)
AdvanceLate ==
  /\ k' = k + 1
  /\ IF k > Len(body) THEN pc' = "parsed" /\ root' = "freed"
                      ELSE UNCHANGED <<pc, root>>
  /\ UNCHANGED <<rows, posts, body, answer, stray>>

(* while ((field = field->next)), then free(root)                          *)
Advance ==
  /\ k' = k + 1
  /\ IF k = Len(body) THEN pc' = "parsed" /\ root' = "freed"
                      ELSE UNCHANGED <<pc, root>>
  /\ UNCHANGED <<rows, posts, body, answer, stray>>

(* mutant: two characters more than the limit                              *)
FitsTwoMore(text, min, max) == Len(text) \in min..(max + 2)

(* get_field_str takes one character more than the limit it is given.      *)
Fits(text, min, max) == Len(text) \in min..(max + 1)

At(name) == pc = "fields" /\ Field.name = name

(* An apelido of another type returns without free(root), pessoa.c:148.    *)
ApelidoField ==
  /\ At("apelido")
  /\ IF Field.type # "string"
       THEN Done("unprocessable") /\ UNCHANGED <<rows, posts, body, root, stray>>
       ELSE IF ~Fits(Field.val, 1, ApelidoLen)
       THEN Reject
       ELSE Advance /\ names' = Copy(names, 0, Field.val) /\ UNCHANGED <<stack, born>>

NomeField ==
  /\ At("nome")
  /\ IF Field.type = "string" /\ Fits(Field.val, 1, NomeLen)
       THEN Advance /\ names' = Copy(names, NomeAt, Field.val) /\ UNCHANGED <<stack, born>>
       ELSE Reject

(* The value is copied into an array of NASCIMENTO_STR_LEN + 1; if it      *)
(* fills the array, what happens to follow decides (pessoa.c:163-175).     *)
DateField ==
  /\ At("nascimento")
  /\ LET isDate == Field.type = "string" /\ Field.val \in DOMAIN DateOf
     IN  \/ /\ isDate
            /\ born' = DateOf[Field.val]
            /\ Advance /\ UNCHANGED <<names, stack>>
         \/ /\ isDate => Field.val \in FullDates
            /\ Reject

(* An id must be one, and is not used: the handler draws another.          *)
IdField ==
  /\ At("id")
  /\ IF Field.type = "string" /\ Field.val \in Uuids
       THEN Advance /\ UNCHANGED <<names, stack, born>>
       ELSE Reject

(* get_field_array_of_str                                                  *)
ItemsFit(items) ==
  /\ Len(items) \in 1..MaxItems
  /\ \A i \in DOMAIN items :
       items[i].type = "string" /\ Fits(items[i].val, 0, ItemLen)

StackField ==
  /\ At("stack")
  /\ \/ /\ Field.type = "array" /\ ItemsFit(Field.val)
        /\ stack' = Pack(stack, [i \in DOMAIN Field.val |-> Field.val[i].val])
        /\ Advance /\ UNCHANGED <<names, born>>
     \/ /\ Field.type = "null"
        /\ stack' = Copy(stack, 0, <<Nul>>)
        /\ Advance /\ UNCHANGED <<names, born>>
     \/ /\ Field.type # "null"
        /\ ~(Field.type = "array" /\ ItemsFit(Field.val))
        /\ Reject

UnknownField ==
  /\ pc = "fields"
  /\ Field.name \notin {"apelido", "nome", "nascimento", "id", "stack"}
  /\ Reject

(* mutant: one character of the nickname is not looked at                  *)
ExistsShort ==
  \E i \in DOMAIN rows : rows[i].apelido = Cut(CString(names, 0), ApelidoLen - 1)

(* db_get_apelido_exists: the nickname up to the limit, in any row.        *)
Exists == \E i \in DOMAIN rows : rows[i].apelido = Cut(CString(names, 0), ApelidoLen)

Refuse ==
  /\ pc = "parsed" /\ Exists
  /\ Done("unprocessable")
  /\ UNCHANGED <<rows, posts, body, root, stray>>

(* db_inner_insert_pessoa binds the C strings as they are, under the id    *)
(* that uuid_generate drew, here the number of the post; a row that        *)
(* breaks UNIQUE is dropped, and the answer is the same.                   *)
Create ==
  /\ pc = "parsed" /\ ~Exists
  /\ LET row == [id |-> posts, apelido |-> CString(names, 0),
                 nome |-> CString(names, NomeAt), nascimento |-> born,
                 stack |-> StackText(Items(stack)), sent |-> body]
     IN  IF \E i \in DOMAIN rows : rows[i].apelido = row.apelido
           THEN UNCHANGED rows
           ELSE \E p \in 1..(Len(rows) + 1) : rows' = InsertAt(rows, p, row)
  /\ stray' = PrintsOutside(Items(stack))
  /\ Done("created")
  /\ UNCHANGED <<posts, body, root>>

Next ==
  \/ \E b \in Bodies : Begin(b)
  \/ ApelidoField \/ NomeField \/ DateField \/ IdField \/ StackField
  \/ UnknownField \/ Refuse \/ Create

Spec == Init /\ [][Next]_vars

-----------------------------------------------------------------------------
(* What was sent, without any array: the reference for all conversions.    *)

The(b, name) == b[CHOOSE i \in DOMAIN b : b[i].name = name].val
Printable(text, max) ==
  Len(text) \in 1..max /\ \A i \in DOMAIN text : text[i] # Nul

(* A body that means one thing: no key twice, nicknames, names and items   *)
(* within the documented limits, no item that looks like two.              *)
Plain(b) ==
  /\ \A i, j \in DOMAIN b : b[i].name = b[j].name => i = j
  /\ \A i \in DOMAIN b : b[i].name \in {"apelido", "nome", "nascimento", "stack", "id"}
  /\ {"apelido", "nome", "nascimento"} \subseteq {b[i].name : i \in DOMAIN b}
  /\ \A i \in DOMAIN b :
       /\ b[i].name \in {"apelido", "nome", "nascimento", "id"} => b[i].type = "string"
       /\ b[i].name = "nascimento" => b[i].val \in DOMAIN DateOf \ FullDates
       /\ b[i].name = "id" => b[i].val \in Uuids
       /\ b[i].name = "apelido" => Printable(b[i].val, ApelidoLen)
       /\ b[i].name = "nome" => Printable(b[i].val, NomeLen)
       /\ b[i].name = "stack" =>
            \/ b[i].type = "null"
            \/ /\ b[i].type = "array" /\ Len(b[i].val) \in 1..MaxItems
               /\ \A e \in Range(b[i].val) :
                    /\ e.type = "string" /\ Printable(e.val, ItemLen)
                    /\ \A c \in Range(e.val) : c \notin {Quote, Comma}

SentItems(b) ==
  IF \E i \in DOMAIN b : b[i].name = "stack" /\ b[i].type = "array"
  THEN [i \in DOMAIN The(b, "stack") |-> The(b, "stack")[i].val] ELSE <<>>

-----------------------------------------------------------------------------
(* Properties.  Answers are looked at between posts: rows change there.    *)

(* Types of the variables, and the loop stays within the fields.           *)
PessoaTypeOK ==
  /\ DOMAIN names = 0..NamesEnd /\ DOMAIN stack = 0..StackEnd
  /\ pc \in {"idle", "fields", "parsed"}
  /\ k \in 0..(Len(body) + 1) /\ (pc = "fields" => k \in DOMAIN body)
  /\ posts \in 0..MaxPosts
  /\ root \in {"none", "live", "freed"}
  /\ answer \in {"none", "created", "unprocessable"}
  /\ stray \in BOOLEAN
  /\ IsSeq(rows) /\ Len(rows) <= posts /\ (pc # "idle" => Len(rows) < posts)

(* The padding after the arrays stays zero, whatever is posted: every C    *)
(* string of a Pessoa ends inside it, even if the text before it took the  *)
(* place of its own end (pessoa.c:72).                                     *)
StringsEnd == names[NamesEnd] = Nul /\ stack[StackEnd] = Nul

(* A post of a plain body is told the truth: 201 if and only if its own    *)
(* row is there now, and 422 only if another row has its nickname.         *)
AnsweredTruly ==
  pc = "idle" /\ posts > 0 /\ Plain(body) /\ Len(body) >= MinFields =>
    \/ answer = "created" /\ \E r \in Range(rows) : r.id = posts
    \/ answer = "unprocessable"
       /\ \E r \in Range(rows) : r.id # posts /\ r.apelido = The(body, "apelido")

(* What json_parse allocated is freed exactly when json_as_pessoa returns; *)
(* but not if it returns because apelido is no string (pessoa.c:148).      *)
RootIsFreed ==
  \/ pc = "fields" <=> root = "live"
  \/ pc = "idle" /\ root = "live"
     /\ \E i \in DOMAIN body : body[i].name = "apelido" /\ body[i].type # "string"

(* The text of the longest list fills its buffer and no more: of a plain   *)
(* person it is written outside only where there are no items, because the *)
(* comma to drop is then one before the buffer (pessoa.c:32).              *)
StrayOnlyWhenEmpty ==
  pc = "idle" /\ answer = "created" /\ Plain(body) =>
    (stray <=> SentItems(body) = <<>>)

=============================================================================
