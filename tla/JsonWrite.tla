------------------------------ MODULE JsonWrite ------------------------------
(***************************************************************************)
(* The other half of json.h: a value that json_parse has built is written  *)
(* as a text again, minified or pretty, or copied into an allocation of    *)
(* its own.  Each of the three is two recursive functions, one that counts *)
(* what the other one then uses unchecked.  Nothing in this program calls  *)
(* them; they are modelled as functions of the tree.                       *)
(*                                                                         *)
(* A number is written as it was read: the rewriting of hexadecimal and    *)
(* infinite numbers is for flags that this program does not use.  What an  *)
(* allocation that fails leads to is left out.                             *)
(***************************************************************************)
EXTENDS JsonParse

(* The bytes of a lexeme that is written.                                  *)
Width(c) == CASE c = "escape" -> 2 [] c = "null" -> 4 [] c = "false" -> 5 [] OTHER -> 1
WidthOf(t) == FoldSeq(LAMBDA c, n : n + Width(c), 0, t)

(* Escapes for the characters that need one and have a short one, all the  *)
(* others as they are.                                                     *)
StringText(s) == <<"quote">> \o s \o <<"quote">>

StringSize(s) == Len(s) + Cardinality({i \in DOMAIN s : s[i] = "escape"}) + 2

IsObject(v) == v.type = "object"
Brackets(v) == IF IsObject(v) THEN <<"{", "}">> ELSE <<"[", "]">>
IsScalar(v) == v.type \in {"string", "number", "word"}
ScalarText(v) == IF v.type = "string" THEN StringText(v.val) ELSE v.val
ScalarSize(v) ==
  CASE v.type = "string" -> StringSize(v.val)
    [] v.type = "number" -> Len(v.val)
    [] OTHER -> Width(v.val[1])

Sum(v, of(_)) == MapThenSumSet(LAMBDA i : of(v.val[i]), DOMAIN v.val)

-----------------------------------------------------------------------------
(* json_write_minified                                                     *)

RECURSIVE MinifiedSize(_)
MinifiedSize(v) ==
  LET of(e) == (IF IsObject(v) THEN StringSize(e.name) + 1 ELSE 0) + MinifiedSize(e.value)
      commas == IF Len(v.val) > 1 THEN Len(v.val) - 1 ELSE 0
  IN  IF IsScalar(v) THEN ScalarSize(v) ELSE 2 + commas + Sum(v, of)

Separator(i) == IF i = 1 THEN <<>> ELSE <<",">>

RECURSIVE Minified(_)
Minified(v) ==
  LET name(e) == IF IsObject(v) THEN StringText(e.name) \o <<":">> ELSE <<>>
      element(i) == Separator(i) \o name(v.val[i]) \o Minified(v.val[i].value)
  IN  IF IsScalar(v) THEN ScalarText(v)
      ELSE <<Brackets(v)[1]>> \o FlattenSeq([i \in DOMAIN v.val |-> element(i)])
           \o <<Brackets(v)[2]>>

-----------------------------------------------------------------------------
(* json_write_pretty with its default indent and newline                   *)

Indent(depth) == FlattenSeq([i \in 1..depth |-> <<" ", " ">>])
Newline == <<"tab">>
IndentSize == 2
NewlineSize == 1

RECURSIVE PrettySize(_, _)
PrettySize(v, depth) ==
  LET of(e) ==
        (depth + 1) * IndentSize + NewlineSize
        + (IF IsObject(v) THEN StringSize(e.name) + 3 ELSE 0)
        + PrettySize(e.value, depth + 1)
      lines == NewlineSize + Len(v.val) - 1 + Sum(v, of) + depth * IndentSize
  IN  IF IsScalar(v) THEN ScalarSize(v)
      ELSE 2 + (IF v.val = <<>> THEN 0 ELSE lines)

RECURSIVE Pretty(_, _)
Pretty(v, depth) ==
  LET name(e) == IF IsObject(v) THEN StringText(e.name) \o <<" ", ":", " ">> ELSE <<>>
      line(i) == Separator(i) \o Newline \o Indent(depth + 1)
                 \o name(v.val[i]) \o Pretty(v.val[i].value, depth + 1)
  IN  CASE IsScalar(v) -> ScalarText(v)
        [] v.val = <<>> -> Brackets(v)
        [] OTHER -> <<Brackets(v)[1]>> \o FlattenSeq([i \in DOMAIN v.val |-> line(i)])
                    \o Newline \o Indent(depth) \o <<Brackets(v)[2]>>

-----------------------------------------------------------------------------
(* json_extract_value: the words of the structures and the bytes of the    *)
(* characters, counted, and then the pieces that are copied, in order.     *)
(* The NUL after a string is copied, that after a number is not.           *)

RECURSIVE ExtractWords(_)
ExtractWords(v) ==
  LET of(e) == (IF IsObject(v) THEN PayloadSize ELSE 0) + ExtractWords(e.value)
      element == IF IsObject(v) THEN MemberSize ELSE ElementSize
  IN  ValueSize + (CASE v.type = "word" -> 0
                     [] v.type \in {"string", "number"} -> PayloadSize
                     [] OTHER -> PayloadSize + element * Len(v.val) + Sum(v, of))

RECURSIVE ExtractBytes(_)
ExtractBytes(v) ==
  LET of(e) == (IF IsObject(v) THEN Len(e.name) + 1 ELSE 0) + ExtractBytes(e.value)
  IN  CASE v.type = "word" -> 0
        [] v.type = "number" -> Len(v.val)
        [] v.type = "string" -> Len(v.val) + 1
        [] OTHER -> Sum(v, of)

Piece(words, bytes) == <<[words |-> words, bytes |-> bytes]>>

RECURSIVE Copied(_)
Copied(v) ==
  LET head(e) == IF IsObject(v)
                 THEN Piece(MemberSize, 0) \o Piece(PayloadSize, Len(e.name) + 1)
                 ELSE Piece(ElementSize, 0)
      payload ==
        CASE v.type = "word" -> <<>>
          [] v.type = "number" -> Piece(PayloadSize, Len(v.val))
          [] v.type = "string" -> Piece(PayloadSize, Len(v.val) + 1)
          [] OTHER -> Piece(PayloadSize, 0) \o
               FlattenSeq([i \in DOMAIN v.val |-> head(v.val[i]) \o Copied(v.val[i].value)])
  IN  Piece(ValueSize, 0) \o payload

-----------------------------------------------------------------------------
(* Properties.                                                             *)

Parsed == result = "root"

(* The text itself, without white space between its values and with the    *)
(* escapes of its strings spelled out: the reference for what is written.  *)
Squeezed(t) ==
  LET quotes(i) == Cardinality({j \in 1..(i - 1) : t[j] = "quote"})
  IN  FlattenSeq([i \in DOMAIN t |->
        IF quotes(i) % 2 = 1 THEN Becomes[t[i]]
        ELSE IF t[i] \in White THEN <<>> ELSE <<t[i]>>])

(* The values whose text is not JSON: the lone minus that json_parse takes, *)
(* and strings with NUL or another control character without a short       *)
(* escape, which are written as they are (json.h:2935).                    *)
Exceptional == Minified(tree) = <<"-">> \/ {"zero", "u0", "control"} \cap Range(text) # {}

(* A copy fills the allocation that was counted for it, which is as large  *)
(* as what json_parse used for the value, but for the NUL of each number.  *)
CopyFillsItsOwn ==
  LET copied == Copied(tree)
      numbers == {i \in Range(found["parse"]) : text[i] \in NumberStart}
  IN  /\ FoldSeq(LAMBDA p, n : n + p.words, 0, copied) = ExtractWords(tree)
      /\ FoldSeq(LAMBDA p, n : n + p.bytes, 0, copied) = ExtractBytes(tree)
      /\ ExtractWords(tree) = dom
      /\ ExtractBytes(tree) = data - Cardinality(numbers)

(* Nothing of a text is lost, added or moved by parsing it and writing it  *)
(* again, minified or pretty: not an element of a list, not a key that is  *)
(* there twice, not a character of a string.  What is written is JSON, but *)
(* for those, and it fills the allocation that was made for it, as a copy  *)
(* does: the functions that count (json.h:2682, 3182, 2258) take the steps *)
(* of those that write (:3008, 3348, 2396).                                *)
WrittenAsRead ==
  Parsed => /\ Minified(tree) = Squeezed(text)
            /\ Squeezed(Pretty(tree, 0)) = Minified(tree)
            /\ ~Exceptional => IsJson(Minified(tree)) /\ IsJson(Pretty(tree, 0))
            /\ WidthOf(Minified(tree)) = MinifiedSize(tree)
            /\ WidthOf(Pretty(tree, 0)) = PrettySize(tree, 0)
            /\ CopyFillsItsOwn

=============================================================================
