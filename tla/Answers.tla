------------------------------- MODULE Answers -------------------------------
(***************************************************************************)
(* What the rows of module Pessoa look like on their way out: in a lookup  *)
(* (db_get_pessoa), and in a search (db_get_pessoas_term, db.c), from the  *)
(* columns back into struct Pessoa and from there to JSON (pessoa.c).      *)
(*                                                                         *)
(* Queries change nothing, so they are operators and no actions: their     *)
(* answers are looked at after every creation, for every row and term.     *)
(* In a term nothing ends the literal of the SQL it is printed into.       *)
(***************************************************************************)
EXTENDS Pessoa, JsonGrammar

CONSTANTS
  MaxPessoas,                \* MAX_DB_PESSOAS, also the LIMIT of a search
  SqlRoom,                   \* bytes in sql[] that are left for the terms
  AnyText, AnyChar,          \* percent sign and underscore
  Lower,                     \* the capitals of ASCII, and their small letters
  Terms                      \* what clients search for

(* Characters of a text that JSON wants to be escaped, and the halves of   *)
(* escape sequences, which are no characters.                              *)
Escaped == {Quote, "bad", "control", "tab", "high", "low"}

ASSUME SqlHasRoom ==
  /\ MaxPessoas \in Nat \ {0} /\ SqlRoom \in Nat
  /\ \A n \in {ApelidoLen, NomeLen, ItemLen} : SqlRoom >= 3 * (n + 4)
(* 499 bytes less the 143 of the statement are 356, so that three equal    *)
(* terms lose one byte more than a multiple of three, if they lose any.    *)
ASSUME RoomIsUneven == SqlRoom % 3 = 2
ASSUME CharactersAreLexemes ==
  /\ Quote = "quote" /\ Comma = "," /\ AnyChar \notin {"lead", "trail"}
  /\ {Quote, Comma, AnyChar, "lead", "trail"} \cap (DOMAIN Lower \cup Range(Lower)) = {}
ASSUME TermsAreTexts == \A term \in Terms : IsSeq(term)
ASSUME DatesAreDates ==
  /\ \A t \in DOMAIN DateOf : DateOf[t] \in DOMAIN DateOf /\ DateOf[DateOf[t]] = DateOf[t]
  /\ FullDates \subseteq DOMAIN DateOf /\ NoDate \notin DOMAIN DateOf
  /\ \A date \in Range(DateOf) \cup {NoDate} :
       IsSeq(date) /\ (Escaped \cup {"lead", "trail"}) \cap Range(date) = {}

-----------------------------------------------------------------------------
(* From a row to struct Pessoa.                                            *)

(* mutant: an item may be of several runs, the comma alone divides them    *)
TokensAtComma(text) ==
  LET in(i) == i \in DOMAIN text /\ text[i] # Comma
      upto[i \in 0..Len(text)] ==
        IF i = 0 THEN <<>>
        ELSE IF ~in(i) THEN upto[i - 1]
        ELSE IF in(i - 1) THEN Append(Front(upto[i - 1]), Append(Last(upto[i - 1]), text[i]))
        ELSE Append(upto[i - 1], <<text[i]>>)
  IN  upto[Len(text)]

(* The tokens of strtok_r: the longest runs without a delimiter.           *)
Tokens(text) ==
  LET in(i) == i \in DOMAIN text /\ text[i] \notin {Quote, Comma}
      upto[i \in 0..Len(text)] ==
        IF i = 0 THEN <<>>
        ELSE IF ~in(i) THEN upto[i - 1]
        ELSE IF in(i - 1) THEN Append(Front(upto[i - 1]), Append(Last(upto[i - 1]), text[i]))
        ELSE Append(upto[i - 1], <<text[i]>>)
  IN  upto[Len(text)]

(* mutant: strncpy is given one character less                             *)
UnpackedShort(text) ==
  Pack(NoStack, [t \in 1..Min({Len(Tokens(text)), MaxItems}) |->
                   Cut(Tokens(text)[t], ItemLen - 1)])

(* parse_str_tostack into a stack that was zeroed.                         *)
Unpacked(text) ==
  Pack(NoStack, [t \in 1..Min({Len(Tokens(text)), MaxItems}) |->
                   Cut(Tokens(text)[t], ItemLen)])

(* strptime of a column; what it does not take leaves the tm zero.         *)
Dated(date) == IF date \in DOMAIN DateOf THEN DateOf[date] ELSE NoDate

(* struct Pessoa as pessoa_as_json prints it, field by field.              *)
AsJson(row, n, s) ==
  [id |-> row.id, apelido |-> CString(n, 0), nome |-> CString(n, NomeAt),
   nascimento |-> Dated(row.nascimento), stack |-> StackText(Items(s))]

(* db_get_pessoa: snprintf writes one character less than it is given.     *)
Lookup(row) ==
  AsJson(row, Copy(Copy(NoNames, 0, Cut(row.apelido, ApelidoLen - 1)),
                   NomeAt, Cut(row.nome, NomeLen - 1)),
         Unpacked(Cut(row.stack, TextLen - 1)))

(* db_inner_get_pessoa: memcpy of whatever the column holds.               *)
Found(row) ==
  AsJson(row, Copy(Copy(NoNames, 0, row.apelido), NomeAt, row.nome),
         Unpacked(row.stack))

-----------------------------------------------------------------------------
(* The search.                                                             *)

Low(c) == IF c \in DOMAIN Lower THEN Lower[c] ELSE c

(* Bytes of the character that begins at place i of a text.                *)
Width(text, i) ==
  IF text[i] = "lead" /\ i < Len(text) /\ text[i + 1] = "trail" THEN 2 ELSE 1

(* The LIKE of SQLite: where in the text the first characters of the       *)
(* pattern may end.                                                        *)
Like(text, pattern) ==
  LET next(v, c) ==
        IF c = AnyText THEN {j \in 0..Len(text) : \E n \in v : n <= j}
        ELSE IF c = AnyChar THEN {n + Width(text, n + 1) : n \in v \ {Len(text)}}
        ELSE {j \in DOMAIN text : Low(c) = Low(text[j]) /\ j - 1 \in v}
      ends[i \in 0..Len(pattern)] ==
        IF i = 0 THEN {0} ELSE next(ends[i - 1], pattern[i])
  IN  Len(text) \in ends[Len(pattern)]

Around(term) == <<AnyText>> \o term \o <<AnyText>>

SelectedByNames(row, term) ==      \* mutant: the column of the stack forgotten
  \E text \in {row.apelido, row.nome} : Like(text, Around(term))

(* mutant: one pattern for the columns one after the other                 *)
SelectedAcross(row, term) ==
  Like(row.apelido \o row.nome \o row.stack, Around(term))

Selected(row, term) ==
  \E text \in {row.apelido, row.nome, row.stack} : Like(text, Around(term))

LimitClause == 10          \* bytes of " LIMIT 50;"

LostWithOneCopy(term) ==      \* mutant: a buffer for one copy of the term
  IF 3 * Len(term) > SqlRoom \div 3 THEN 3 * Len(term) - SqlRoom \div 3 ELSE 0

(* The term is printed three times into a buffer (db.c:324): the bytes at  *)
(* the end of the statement that are lost.                                 *)
Lost(term) == IF 3 * Len(term) > SqlRoom THEN 3 * Len(term) - SqlRoom ELSE 0

(* Without its semicolon it is the same statement, and without its last    *)
(* clause one that has no limit.  Any other end is an error.               *)
IsStatement(term) == Lost(term) \in {0, 1, LimitClause}

(* get_pessoas_term answers 500 without a body if SQLite refuses.          *)
Status(term) == IF IsStatement(term) THEN 200 ELSE 500

LimitOf(term) == IF Lost(term) = LimitClause THEN Len(rows) ELSE MaxPessoas

(* The elements of s at some of its places, in their order.                *)
Picked(s, places) ==
  LET upto[i \in 0..Len(s)] ==
        IF i = 0 THEN <<>>
        ELSE IF i \in places THEN Append(upto[i - 1], s[i]) ELSE upto[i - 1]
  IN  upto[Len(s)]

Hits(term) == Picked(rows, {i \in DOMAIN rows : Selected(rows[i], term)})

(* The rows that are given to db_inner_get_pessoa.  Those that the array   *)
(* of MAX_DB_PESSOAS has no place for are written behind it, and then      *)
(* nothing is known of the answer.                                         *)
Fetched(term) == Min({Len(Hits(term)), LimitOf(term)})
HasList(term) == Status(term) = 200 /\ Fetched(term) <= MaxPessoas

(* The persons of an answer with a list: the rows that were fetched, and   *)
(* of those the ones before the first person without a nickname.           *)
Search(term) ==
  LET hits == Hits(term)
      got == [i \in 1..Min({Len(hits), LimitOf(term)}) |-> Found(hits[i])]
      shown == Min({i \in 0..Len(got) :
                      i = Len(got) \/ got[i + 1].apelido = <<>>})
  IN  SubSeq(got, 1, shown)

-----------------------------------------------------------------------------
(* The body of an answer.                                                  *)

String(text) == <<Quote>> \o text \o <<Quote>>
Member(key, text) == String(<<key>>) \o <<":">> \o text

(* PESSOA_TEMPLATE; an id has no character that means something in JSON.   *)
PersonText(p) ==
  <<"{">> \o Member("id", String(<<"uuid">>)) \o <<Comma>>
  \o Member("apelido", String(p.apelido)) \o <<Comma>>
  \o Member("nome", String(p.nome)) \o <<Comma>>
  \o Member("nascimento", String(p.nascimento)) \o <<Comma>>
  \o Member("stack", <<"[">> \o p.stack \o <<"]">>) \o <<"}">>

(* mutant: the comma is replaced although nobody is listed                 *)
ListTextEmpty(list) ==
  LET printed == FlattenSeq([i \in DOMAIN list |-> PersonText(list[i]) \o <<Comma>>])
  IN  Front(<<"[">> \o printed) \o <<"]">>

(* parse_pessoas_as_list: each person with a comma, the last one of which  *)
(* becomes the bracket.                                                    *)
ListText(list) ==
  LET printed == FlattenSeq([i \in DOMAIN list |-> PersonText(list[i]) \o <<Comma>>])
  IN  <<"[">> \o (IF list = <<>> THEN <<>> ELSE Front(printed)) \o <<"]">>

-----------------------------------------------------------------------------
(* What was sent, as the documentation says that it is shown and found.    *)

Sent(row) ==
  [id |-> row.id, apelido |-> The(row.sent, "apelido"),
   nome |-> The(row.sent, "nome"),
   nascimento |-> DateOf[The(row.sent, "nascimento")],
   stack |-> StackText(SentItems(row.sent))]

HasTerm(text, term) ==
  \E i \in 0..(Len(text) - Len(term)) :
    \A j \in DOMAIN term : Low(text[i + j]) = Low(term[j])

Mentions(fields, term) ==
  \E text \in {The(fields, "apelido"), The(fields, "nome")} \cup Range(SentItems(fields)) :
    HasTerm(text, term)

(* No character is there in part.                                          *)
Whole(text) ==
  \A i \in DOMAIN text :
    /\ text[i] = "lead" => i < Len(text) /\ text[i + 1] = "trail"
    /\ text[i] = "trail" => i > 1 /\ text[i - 1] = "lead"
WholePerson(p) == Whole(p.apelido) /\ Whole(p.nome) /\ Whole(p.stack)

(* The quotation marks in the column of the stack are those around items.  *)
NeedsNoEscape(row) ==
  /\ Escaped \cap Range(row.apelido \o row.nome) = {}
  /\ Escaped \cap Range(row.stack) \subseteq {Quote}

(* All values within the documented limits, but a field may be repeated.   *)
InLimits(fields) ==
  \A i \in DOMAIN fields :
    /\ fields[i].name = "apelido" => Printable(fields[i].val, ApelidoLen)
    /\ fields[i].name = "nome" => Printable(fields[i].val, NomeLen)
    /\ fields[i].type = "array" =>
         \A e \in Range(fields[i].val) :
           Printable(e.val, ItemLen) /\ Range(e.val) \cap {Quote, Comma} = {}

(* The body without the items of its stack, and these one by one, as much  *)
(* as has a place: each in the parts that strtok_r makes of it.            *)
StackAside(fields) ==
  [i \in DOMAIN fields |->
     IF fields[i].name = "stack" /\ fields[i].type = "array"
     THEN [fields[i] EXCEPT !.type = "null"] ELSE fields[i]]
PartsOf(items) ==
  LET parts == FlattenSeq([i \in DOMAIN items |-> Tokens(items[i])])
  IN  Cut(parts, MaxItems)

(* What copying values over each other leaves: the last one in front, and  *)
(* after it nothing but what another one had in that place.                *)
LeftOf(text, values) ==
  /\ values # <<>> => IsPrefix(Last(values), text)
  /\ \A j \in DOMAIN text : \E v \in Range(values) : j \in DOMAIN v /\ v[j] = text[j]

-----------------------------------------------------------------------------
(* Properties.  Answers are looked at whenever the rows have changed.      *)

Changed == pc = "idle" /\ answer = "created"

(* A search finds whoever has the term in a nickname, a name or an item of *)
(* the stack, in capitals or not, and shows the person as it was sent,     *)
(* character by character: through the arrays of json_as_pessoa, the       *)
(* columns, the tokens of strtok_r and the arrays of db_inner_get_pessoa.  *)
(* Only a full list, or an earlier row without a nickname, may hide one.   *)
SearchShowsAsSent ==
  Changed =>
    \A term \in Terms :
      LET list == Search(term)
      IN  Len(list) < MaxPessoas =>
            \A i \in DOMAIN rows :
              /\ Plain(rows[i].sent) /\ Mentions(rows[i].sent, term)
              /\ \A j \in 1..i : rows[j].apelido # <<>>
              => Sent(rows[i]) \in Range(list)

(* A term that a person was sent with, in a nickname, a name or an item,   *)
(* leaves room for the whole statement, or all but its semicolon: neither  *)
(* is its search an error nor does it write more rows than the array of    *)
(* persons has places for (db.c:321, and "Enough size" in db.c:323).       *)
SearchFits ==
  Changed =>
    \A term \in Terms :
      (\E row \in Range(rows) : Plain(row.sent) /\ Mentions(row.sent, term)) =>
        Status(term) = 200 /\ Fetched(term) <= MaxPessoas

(* It finds nobody else, and nobody twice, if the term has none of the     *)
(* characters that LIKE takes for another, and none of those between items *)
(* of the column.                                                          *)
SearchFindsOnly ==
  Changed =>
    \A term \in Terms :
      HasList(term) =>
      LET list == Search(term)
      IN  /\ \A i, j \in DOMAIN list : list[i].id = list[j].id => i = j
          /\ Range(term) \cap {AnyText, AnyChar, Quote, Comma} = {} =>
               \A p \in Range(list) : \A row \in Range(rows) :
                 row.id = p.id /\ Plain(row.sent) => Mentions(row.sent, term)

(* A lookup shows a person as sent, but for the last byte of a nickname or *)
(* a name that is as long as it may be, be it half a character; the stack  *)
(* is never cut, because the longest list fits its buffer (common.h:41,    *)
(* db.c:290).                                                              *)
LookupShowsPrefix ==
  Changed =>
    \A row \in {r \in Range(rows) : Plain(r.sent)} :
      Lookup(row) = [Sent(row) EXCEPT !.apelido = Cut(@, ApelidoLen - 1),
                                      !.nome = Cut(@, NomeLen - 1)]

(* A repeated field is copied over the first one, which is not cleared     *)
(* (pessoa.c:74): the last value stands in front of what a longer earlier  *)
(* one leaves, and nothing of one field or item gets into another.         *)
RepeatsStayInField ==
  Changed =>
    \A row \in {r \in Range(rows) : InLimits(r.sent)} :
      LET fields(name, type) ==
            {i \in DOMAIN row.sent : row.sent[i].name = name /\ row.sent[i].type = type}
          values(name) ==
            LET f == Picked(row.sent, fields(name, "string"))
            IN  [i \in DOMAIN f |-> f[i].val]
          items(t) ==
            LET f == Picked(row.sent, {i \in fields("stack", "array") : Len(row.sent[i].val) >= t})
            IN  [i \in DOMAIN f |-> f[i].val[t].val]
      IN  /\ LeftOf(row.apelido, values("apelido"))
          /\ LeftOf(row.nome, values("nome"))
          /\ \A t \in DOMAIN Tokens(row.stack) : LeftOf(Tokens(row.stack)[t], items(t))

(* An item with a comma or a quotation mark, which strtok_r divides, comes *)
(* back as its parts: in their order and place in the list, none of them   *)
(* joined to a part of another item, lost or cut, as long as there is a    *)
(* place for them (pessoa.c:37).                                           *)
ItemsAreSplit ==
  Changed =>
    \A row \in {r \in Range(rows) : Plain(StackAside(r.sent))} :
      LET items == SentItems(row.sent)
      IN  (\A item \in Range(items) : Printable(item, ItemLen)) =>
            /\ Found(row).stack = StackText(PartsOf(items))
            /\ Lookup(row).stack = StackText(PartsOf(items))

(* Every person and every list is JSON, whatever was found and wherever    *)
(* the list ends, if no text that was stored needs an escape, pessoa_as_   *)
(* json writes none (pessoa.c:57), and no text that is shown was cut       *)
(* within a character, by the sizes in db.c:283 or by a value copied over  *)
(* another.  A quotation mark in an item needs no escape, strtok_r has     *)
(* split the item there.                                                   *)
AnswersAreJson ==
  Changed /\ (\A row \in Range(rows) : NeedsNoEscape(row)) =>
    LET persons == {Lookup(row) : row \in Range(rows)}
        lists == {Search(term) : term \in {t \in Terms : HasList(t)}}
    IN  /\ \A p \in persons : WholePerson(p) => IsJson(PersonText(p))
        /\ \A list \in lists :
             (\A p \in Range(list) : WholePerson(p)) => IsJson(ListText(list))

-----------------------------------------------------------------------------
(* Statements of the documentation that the code does not keep.            *)

(* "GET /pessoas/[:id] - Resource search by id" (API_DOC.md:11) shows the  *)
(* resource that was created.                                              *)
LookupShowsAsSent ==
  \A row \in Range(rows) : Plain(row.sent) => Lookup(row) = Sent(row)

(* The list of a search ends at "the last person" (pessoa.c:227): no row   *)
(* that was found comes after it.                                          *)
EveryRowIsListed == Len(Search(<<>>)) = Min({Len(rows), MaxPessoas})

=============================================================================
