----------------------------- MODULE MCJsonParse -----------------------------
(***************************************************************************)
(* Texts for the checker: JSON texts with every production of the grammar, *)
(* and all texts that differ from one of them in one lexeme, or end early. *)
(***************************************************************************)
EXTENDS JsonWrite

Key == <<"quote", "a", "quote">>

Scalars ==
  { <<"null">>, <<"-", "0", ".", "1", "0">>, <<"1", "0", "e", "-", "1", "1">>,
    <<"0", "e", "1">>, <<"quote", "quote">>, <<"quote", "a", "escape", "null", "quote">>,
    <<"quote", "u1", "u2", "u3", "high", "low", "quote">> }

Nested ==
  { <<"[", "]">>, <<"{", " ", "}">>, <<"[", "1", ",", "tab", "[", "null", "]", "]">>,
    <<"{">> \o Key \o <<":", "1", "e", "1", "}">>,
    <<"{">> \o Key \o <<" ", ":", "[", "]", ",", " ">> \o Key \o <<":", "0", "}">>,
    <<"{", "quote", "escape", "quote", ":", "[", "false", ",", "{">> \o Key
      \o <<":", "1", "}", "]", "}">>,
    <<" ", "[", "{", "}", ",", "quote", "high", "low", "quote", "]", "tab">> }

Good == Scalars \cup Nested

Dropped(t) == {RemoveAt(t, i) : i \in DOMAIN t}
Replaced(t) == {[t EXCEPT ![i] = c] : i \in DOMAIN t, c \in Lexemes}
Inserted(t) == {InsertAt(t, i, c) : i \in 1..(Len(t) + 1), c \in Lexemes}

NearJson ==
  UNION {Prefixes(t) \cup Dropped(t) \cup Replaced(t) \cup Inserted(t) : t \in Good}
=============================================================================
