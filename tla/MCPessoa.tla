------------------------------- MODULE MCPessoa -------------------------------
(* Bodies for the checker.  A nickname or a name has 2 bytes and an item 3, *)
(* one more is still accepted; a stack has 2 items.                        *)
EXTENDS Answers

CONSTANTS a, b, A, Date, Blank

(* A date, and the same with blanks in it, which fills its array.          *)
FullDate == <<Date, Blank>>
Dates == [text \in {<<Date>>, FullDate} |-> <<Date>>]
LongDates == {FullDate}
SomeUuids == {<<Date>>}
Small == [c \in {A} |-> a]
Times(c, n) == [i \in 1..n |-> c]

(* Of eight bytes the search loses its semicolon, of nine it is an error,  *)
(* and of eleven it loses its LIMIT.                                       *)
SomeTerms == { <<>>, <<A>>, <<b>>, <<b, b>>, <<b, A, b>>, <<AnyChar, b>>, <<Comma>>,
               <<"lead", "trail">>,
               Times(AnyText, 8), Times(AnyText, 9), Times(AnyText, 11) }
Str(name, text) == [name |-> name, type |-> "string", val |-> text]
Odd(name, type) == [name |-> name, type |-> type, val |-> <<>>]
Item(text) == [type |-> "string", val |-> text]
Stack(items) == [name |-> "stack", type |-> "array",
                 val |-> [i \in DOMAIN items |-> Item(items[i])]]
Born == Str("nascimento", <<Date>>)
NoItems == Odd("stack", "null")

Object(fields) == [type |-> "object", fields |-> fields]
Person(apelido, nome, items) ==
  Object(<<Str("apelido", apelido), Str("nome", nome), Born, items>>)

(* Persons as documented, and fields in another order.                     *)
Usual ==
  {Person(x, IF x = <<a>> THEN <<b>> ELSE <<b, a>>, z) :
     x \in {<<a>>, <<a, b>>},
     z \in {NoItems, Stack(<<<<a>>>>), Stack(<<<<b, a, b>>, <<a, b, b>>>>)}}
  \cup {Object(<<Stack(<<<<b>>, <<a, b>>>>), Born, Str("id", <<Date>>),
                 Str("nome", <<b>>), Str("apelido", <<b>>)>>)}

(* Bodies that json_as_pessoa takes although they are not what they seem.  *)
Unusual ==
  { Person(<<a, b, a>>, <<b>>, NoItems),
    Person(<<a, b, a>>, <<b, b, b>>, Stack(<<<<a, b, "lead", "trail">>>>)),
    Person(<<Nul, a>>, <<b>>, NoItems),
    Person(<<b, b>>, <<Quote>>, Stack(<<<<>>, <<a>>>>)),
    Object(<<Str("apelido", <<A>>), Str("nome", <<b>>), Str("nascimento", FullDate)>>),
    Object(<<Str("nome", <<b, a>>), Stack(<<<<b, a>>, <<b>>>>), Born, Str("apelido", <<A, b>>),
             Str("nome", <<a>>), Stack(<<<<a>>>>)>>),
    Person(<<b, a>>, <<b>>, Stack(<<<<Comma, a>>, <<b, Quote, a>>>>)),
    Person(<<"lead", "trail">>, <<b>>, Stack(<<<<a, "lead", "trail">>>>)),
    Object(<<Str("nome", <<a, b>>), Born, Str("nome", <<b>>)>>),
    Object(<<Str("apelido", <<b, b>>), Str("nome", <<a>>), Born, Str("apelido", <<a>>),
             Stack(<<<<a>>>>), NoItems>>) }

Refused ==
  { [type |-> "malformed", fields |-> <<>>], [type |-> "array", fields |-> <<>>],
    Object(<<Str("apelido", <<a>>), Str("nome", <<b>>)>>),
    Person(<<>>, <<b>>, NoItems), Person(<<a, b, a, b>>, <<b>>, NoItems),
    Person(<<a>>, <<b, a, b, a>>, NoItems),
    Object(<<Odd("apelido", "number"), Born, Str("nome", <<b>>)>>),
    Object(<<Str("nome", <<b>>), Odd("nascimento", "number"), NoItems>>),
    Object(<<Born, Str("nome", <<b>>), Str("sobrenome", <<b>>)>>),
    Person(<<a>>, <<b>>, Odd("stack", "string")),
    Person(<<a>>, <<b>>, Stack(<<>>)),
    Person(<<a>>, <<b>>, Stack(<<<<a>>, <<a>>, <<a>>>>)),
    Person(<<a>>, <<b>>, Stack(<<<<a>>, <<a, a, a, a, a>>>>)) }

Everything == Usual \cup Unusual \cup Refused
===============================================================================
