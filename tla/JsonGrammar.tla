---------------------------- MODULE JsonGrammar ----------------------------
(***************************************************************************)
(* JSON by its grammar: the reference for what json.h takes and for what   *)
(* the program prints.  A text is a sequence of lexemes: an escape         *)
(* sequence or a word is one of them.  A text of bytes may also have       *)
(* "lead" and "trail", which together are one character in UTF-8: two      *)
(* bytes stand for two, three or four.                                     *)
(***************************************************************************)
EXTENDS Integers, Sequences

White == {" ", "tab"}                     \* "tab" is tab, CR or LF
Digits == {"0", "1"}                      \* "1" is any other digit
Words == {"null", "false"}                \* "null" is also true
Units ==                        \* \uXXXX, by what it stands for
  { "zero",                     \* \u0000
    "u0",                       \* another control character
    "u1", "u2", "u3",           \* any other, by size in UTF-8, or \/
    "high", "low" }             \* half a surrogate pair
Lexemes == White \cup Digits \cup Words \cup Units \cup
  { "{", "}", "[", "]", ":", ",", "quote", "-", "+", ".", "e",
    "escape",     \* \" \\ \b \f \n \r or \t, or the same by its code
    "control",    \* a control character but NUL, tab, CR or LF
    "bad",        \* NUL, or a backslash that begins no escape sequence
    "a" }         \* any other character

-----------------------------------------------------------------------------
(* JSON, by its grammar (ECMA-404), with surrogates in pairs and whole     *)
(* characters.                                                             *)

JsonString(t, i, j) ==
  /\ i < j /\ t[i] = "quote" /\ t[j] = "quote"
  /\ \A k \in (i + 1)..(j - 1) :
       /\ t[k] \notin {"quote", "tab", "bad", "control"}
       /\ t[k] = "high" => t[k + 1] = "low"
       /\ t[k] = "low" => t[k - 1] = "high"
       /\ t[k] = "lead" => t[k + 1] = "trail"
       /\ t[k] = "trail" => t[k - 1] = "lead"

JsonNumber(t, i, j) ==
  LET digits(x, y) == x <= y /\ \A k \in x..y : t[k] \in Digits
      sign == IF t[i] = "-" THEN 1 ELSE 0
  IN  \E w \in (i + sign)..j :
        /\ digits(i + sign, w) /\ (t[i + sign] = "0" => w = i + sign)
        /\ \E f \in w..j :
             /\ f > w => t[w + 1] = "." /\ digits(w + 2, f)
             /\ j > f => /\ t[f + 1] = "e" /\ f + 1 < j
                         /\ digits(IF t[f + 2] \in {"-", "+"} THEN f + 3 ELSE f + 2, j)

(* White space around a value: it begins at the first other lexeme from i  *)
(* on, and ends at the last one up to j.                                   *)
From(t, i) ==
  IF i > Len(t) \/ t[i] \notin White THEN i
  ELSE IF \A k \in i..Len(t) : t[k] \in White THEN Len(t) + 1
  ELSE CHOOSE k \in i..Len(t) : t[k] \notin White /\ \A l \in i..(k - 1) : t[l] \in White
UpTo(t, j) ==
  IF j = 0 \/ t[j] \notin White THEN j
  ELSE IF \A k \in 1..j : t[k] \in White THEN 0
  ELSE CHOOSE k \in 1..j : t[k] \notin White /\ \A l \in (k + 1)..j : t[l] \in White

(* The rules of the grammar.  d says of each kind which shorter stretches  *)
(* of the text derive from it.                                             *)
Bracketed(t, d, x, y, left, right, all) ==
  /\ x < y /\ t[x] = left /\ t[y] = right
  /\ From(t, x + 1) = y \/ d[<<all, x + 1, y - 1>>]

JsonValue(t, d, x, y) ==
  \/ x = y /\ t[x] \in Words
  \/ JsonString(t, x, y)
  \/ JsonNumber(t, x, y)
  \/ Bracketed(t, d, x, y, "[", "]", "values")
  \/ Bracketed(t, d, x, y, "{", "}", "members")

JsonMember(t, d, i, j) ==
  \E c \in i..j :
    /\ t[c] = ":" /\ From(t, i) <= UpTo(t, c - 1)
    /\ JsonString(t, From(t, i), UpTo(t, c - 1))
    /\ d[<<"value", c + 1, j>>]

Joined(t, d, one, all, i, j) ==
  \/ d[<<one, i, j>>]
  \/ \E c \in i..j : t[c] = "," /\ d[<<one, i, c - 1>>] /\ d[<<all, c + 1, j>>]

Derives(t, d, kind, i, j) ==
  \/ /\ kind = "value" /\ From(t, i) <= UpTo(t, j)
     /\ JsonValue(t, d, From(t, i), UpTo(t, j))
  \/ kind = "member" /\ JsonMember(t, d, i, j)
  \/ kind = "values" /\ Joined(t, d, "value", "values", i, j)
  \/ kind = "members" /\ Joined(t, d, "member", "members", i, j)

Stretches(t) ==
  {"value", "values", "member", "members"} \X (1..(Len(t) + 1)) \X (0..Len(t))

IsJson(t) ==
  LET derives[p \in Stretches(t)] == Derives(t, derives, p[1], p[2], p[3])
  IN  derives[<<"value", 1, Len(t)>>]

=============================================================================
