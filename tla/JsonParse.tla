------------------------------ MODULE JsonParse ------------------------------
(***************************************************************************)
(* json_parse of json.h, with the default flags and no allocator, as       *)
(* json_as_pessoa calls it.  A text is read twice: the first pass refuses  *)
(* what is not JSON and counts the memory of the result; one allocation    *)
(* is made; the second pass fills it and checks nothing.  All that makes   *)
(* the second pass safe is that it takes the steps the first one took.     *)
(*                                                                         *)
(* A text is a sequence of lexemes: an escape sequence or a word is one of *)
(* them.  Memory is counted as in C: structures in words of 8 bytes, the   *)
(* characters of strings and numbers in bytes.                             *)
(***************************************************************************)
EXTENDS JsonGrammar, SequencesExt, FiniteSetsExt

CONSTANTS Texts            \* the texts that are parsed

ASSUME TextsOfLexemes == Texts \subseteq Seq(Lexemes)

VARIABLES
  text,       \* src
  pass,       \* "size" (json_get_*_size), "parse" (json_parse_*), "done"
  at,         \* offset + 1
  want,       \* "value", "more" (a loop in an object or array) or "end"
  open,       \* the calls for objects and arrays that have not returned
  domSize, dataSize,   \* what the first pass has counted
  dom, data,           \* what the second pass has used of it
  tree,       \* the value that the second pass has built
  found,      \* where each pass saw values and keys begin, in that order
  result      \* "none", "root", "null" (no JSON) or "nomem" (NULL as well)

vars == <<text, pass, at, want, open, domSize, dataSize, dom, data, tree, found, result>>

-----------------------------------------------------------------------------
(* Reading.                                                                *)

\* sizeof, in words; a string, number, object or array has the same size.
ValueSize == 2
PayloadSize == 2
MemberSize == 3
ElementSize == 2

At(i) == IF i \in DOMAIN text THEN text[i] ELSE "end"

(* The first place from i on that is not in S: every scanning loop.        *)
Past(i, S) ==
  IF i > Len(text) THEN i
  ELSE Min({j \in i..(Len(text) + 1) : At(j) \notin S})

(* json_skip_all_skippables                                                *)
Here == Past(at, White)

NumberStart == Digits \cup {"-"}

(* Where the parts of the number at i end.                                 *)
Number(i) ==
  LET first == i + (IF At(i) = "-" THEN 1 ELSE 0)
      whole == Past(first, Digits)
      fraction == IF At(whole) = "." THEN Past(whole + 1, Digits) ELSE whole
      power == fraction + (IF At(fraction + 1) \in {"-", "+"} THEN 2 ELSE 1)
  IN  [first |-> first, whole |-> whole, fraction |-> fraction, power |-> power]

(* Where json_get_number_size stops: after an exponent without digits at   *)
(* the end of the text that is one lexeme past it (json.h:1303).           *)
NumberEnd(i) ==
  LET n == Number(i)
  IN  IF At(n.fraction) = "e" THEN Past(n.power + 1, Digits) ELSE n.fraction

(* mutant: a leading zero may be followed by digits                        *)
IsNumberZeros(i) ==
  LET n == Number(i)
  IN  /\ At(i) \in NumberStart /\ At(n.first) \in Digits \cup {"end"}
      /\ At(n.whole) = "." => At(n.whole + 1) \in Digits
      /\ At(n.fraction) = "e" => At(n.power) \in Digits \cup {"end"}
      /\ At(NumberEnd(i)) \in White \cup {"}", ",", "]", "end"}

(* json_get_number_size takes the number that begins at i.                 *)
IsNumber(i) ==
  LET n == Number(i)
  IN  /\ At(i) \in NumberStart /\ At(n.first) \in Digits \cup {"end"}
      /\ At(n.first) = "0" => At(n.first + 1) \notin Digits
      /\ At(n.whole) = "." => At(n.whole + 1) \in Digits
      /\ At(n.fraction) = "e" => At(n.power) \in Digits \cup {"end"}
      /\ At(NumberEnd(i)) \in White \cup {"}", ",", "]", "end"}

Close(i) == Past(i + 1, Lexemes \ {"quote"})

(* json_get_string_size takes the string that begins at i: it ends, and a  *)
(* high surrogate and a low one only come together.                        *)
IsString(i) ==
  /\ At(i) = "quote" /\ At(Close(i)) = "quote"
  /\ \A j \in (i + 1)..Close(i) :
       /\ At(j) \notin {"tab", "bad"}
       /\ At(j - 1) = "high" <=> At(j) = "low"

(* The bytes that the first pass counts for a lexeme of a string.          *)
Sized == [c \in Lexemes |-> CASE c = "u2" -> 2 [] c = "u3" -> 3
                              [] c \in {"low", "null"} -> 4
                              [] c = "false" -> 5 [] OTHER -> 1]

(* The characters it becomes, one to a byte: "escape" is the character     *)
(* that is escaped, "bad" is NUL.                                          *)
Becomes == [c \in Lexemes |->
  CASE c = "zero" -> <<"bad">> [] c = "u0" -> <<"control">>
    [] c = "high" -> <<>> [] c = "u1" -> <<"a">>
    [] c = "u2" -> <<"a", "a">> [] c = "u3" -> <<"a", "a", "a">>
    [] c \in {"low", "null"} -> <<"a", "a", "a", "a">>
    [] c = "false" -> <<"a", "a", "a", "a", "a">> [] OTHER -> <<c>>]

(* What the string at i takes, counted and written, with a NUL to end it.  *)
Bytes(i) ==
  LET size[j \in i..(Close(i) - 1)] ==
        IF j = i THEN 1 ELSE size[j - 1] + Sized[text[j]]
  IN  size[Close(i) - 1]
Decoded(i) == FlattenSeq([j \in 1..(Close(i) - i - 1) |-> Becomes[text[i + j]]])

-----------------------------------------------------------------------------
(* Calls.                                                                  *)

Top == Last(open)
Call(kind) == [kind |-> kind, n |-> 0, comma |-> FALSE, name |-> <<>>, got |-> <<>>]
Calls(stack, kind) == Append(stack, Call(kind))
Closer == IF Top.kind = "object" THEN "}" ELSE "]"

(* A value was taken: its caller counts it and then wants a comma.         *)
Counted(stack) ==
  IF stack = <<>> THEN stack
  ELSE Append(Front(stack), [Last(stack) EXCEPT !.n = @ + 1, !.comma = TRUE])

NextWantMore(stack) == "more"      \* mutant: the root has a caller too
NextWant(stack) == IF stack = <<>> THEN "end" ELSE "more"

See(i) == found' = [found EXCEPT ![pass] = Append(@, i)]

Init ==
  /\ text \in Texts /\ pass = "size" /\ at = 1 /\ want = "value" /\ open = <<>>
  /\ domSize = 0 /\ dataSize = 0 /\ dom = 0 /\ data = 0
  /\ found = [p \in {"size", "parse"} |-> <<>>] /\ tree = <<>> /\ result = "none"

-----------------------------------------------------------------------------
(* The first pass.                                                         *)

Count(words, bytes) ==
  domSize' = domSize + words /\ dataSize' = dataSize + bytes

SizePass(what) == pass = "size" /\ want = what
SizeKeeps == UNCHANGED <<text, pass, dom, data, tree, result>>

(* A string, a number or a word ends at e.                                 *)
SizeScalar(e, words, bytes) ==
  /\ Count(ValueSize + words, bytes) /\ See(Here)
  /\ at' = e /\ open' = Counted(open) /\ want' = NextWant(open) /\ SizeKeeps

SizeString ==
  /\ SizePass("value") /\ IsString(Here)
  /\ SizeScalar(Close(Here) + 1, PayloadSize, Bytes(Here))

SizeNumber ==
  /\ SizePass("value") /\ IsNumber(Here)
  /\ SizeScalar(NumberEnd(Here), PayloadSize, NumberEnd(Here) - Here + 1)

SizeWord ==
  /\ SizePass("value") /\ At(Here) \in Words
  /\ SizeScalar(Here + 1, 0, 0)

SizeOpen ==
  /\ SizePass("value") /\ At(Here) \in {"{", "["}
  /\ Count(ValueSize + PayloadSize, 0) /\ See(Here)
  /\ open' = Calls(open, IF At(Here) = "{" THEN "object" ELSE "array")
  /\ at' = Here + 1 /\ want' = "more" /\ SizeKeeps

(* The place of a key or an element: after a comma, if one is due; 0 if it *)
(* is not there.                                                           *)
Place ==
  IF ~Top.comma THEN Here
  ELSE IF At(Here) = "," THEN Past(Here + 1, White) ELSE 0

Colon(i) == Past(Close(i) + 1, White)
IsKey(i) == IsString(i) /\ At(Colon(i)) = ":" /\ At(Past(Colon(i) + 1, White)) # "end"

InLoop(kind) == want = "more" /\ Top.kind = kind

SizeMemberNoKey ==                 \* mutant: the string_s of a key
  /\ pass = "size" /\ InLoop("object")
  /\ At(Here) # "}" /\ IsKey(Place)
  /\ Count(0, Bytes(Place)) /\ See(Place)
  /\ at' = Colon(Place) + 1 /\ want' = "value" /\ UNCHANGED open /\ SizeKeeps

SizeMember ==
  /\ pass = "size" /\ InLoop("object")
  /\ At(Here) # "}" /\ IsKey(Place)
  /\ Count(PayloadSize, Bytes(Place)) /\ See(Place)
  /\ at' = Colon(Place) + 1 /\ want' = "value" /\ UNCHANGED open /\ SizeKeeps

SizeElement ==
  /\ pass = "size" /\ InLoop("array")
  /\ At(Here) # "]" /\ At(Place) # "end"
  /\ at' = Place /\ want' = "value"
  /\ UNCHANGED <<open, domSize, dataSize, found>> /\ SizeKeeps

(* mutant: the text may end before the bracket                             *)
LoopEndsEarly ==
  \/ At(Here) = Closer
  \/ Here > Len(text)

(* An object also returns without its brace if its last value ended one    *)
(* past the text, because json.h:1041 asks for an offset equal to size.    *)
LoopEnds ==
  \/ At(Here) = Closer
  \/ Top.kind = "object" /\ at = Len(text) + 2

SizeClose ==
  /\ SizePass("more") /\ LoopEnds
  /\ Count(Top.n * (IF Top.kind = "object" THEN MemberSize ELSE ElementSize), 0)
  /\ at' = (IF At(Here) = Closer THEN Here + 1 ELSE at)
  /\ open' = Counted(Front(open)) /\ want' = NextWant(Front(open))
  /\ UNCHANGED found /\ SizeKeeps

(* return 1, all the way up: json_parse_ex returns NULL.                   *)
Return(what) ==
  /\ pass' = "done" /\ result' = what
  /\ UNCHANGED <<text, at, want, open, domSize, dataSize, dom, data, tree, found>>

SizeFails ==
  /\ pass = "size"
  /\ \/ want = "value"
        /\ ~(IsString(Here) \/ IsNumber(Here) \/ At(Here) \in Words \cup {"{", "["})
     \/ InLoop("object") /\ ~(LoopEnds \/ IsKey(Place))
     \/ InLoop("array") /\ ~(LoopEnds \/ At(Place) # "end")
     \/ want = "end" /\ Here # Len(text) + 1
  /\ Return("null")

AllocFails == SizePass("end") /\ Here = Len(text) + 1 /\ Return("nomem")

Allocate ==
  /\ SizePass("end") /\ Here = Len(text) + 1
  /\ pass' = "parse" /\ at' = 1 /\ want' = "value" /\ dom' = ValueSize
  /\ UNCHANGED <<text, open, domSize, dataSize, data, tree, found, result>>

-----------------------------------------------------------------------------
(* The second pass.                                                        *)

Use(words, bytes) == dom' = dom + words /\ data' = data + bytes

ParsePass(what) == pass = "parse" /\ want = what
ParseKeeps == UNCHANGED <<text, pass, domSize, dataSize, result>>

(* mutant: an element becomes the first of the list                        *)
LinkedFirst(got, element) == <<element>> \o got

(* The element after the one before: previous->next.                       *)
Linked(got, element) == Append(got, element)

(* A value was read: it is the root, or the next element of its caller.    *)
Give(stack, value) ==
  /\ want' = NextWant(stack)
  /\ IF stack = <<>>
       THEN open' = stack /\ tree' = value
       ELSE /\ open' = [Counted(stack) EXCEPT ![Len(stack)].got =
                Linked(@, [name |-> Last(stack).name, value |-> value])]
            /\ UNCHANGED tree

Value(type, val) == [type |-> type, val |-> val]

ParseScalar(e, words, bytes, value) ==
  /\ Use(words, bytes) /\ See(Here)
  /\ at' = e /\ Give(open, value) /\ ParseKeeps

ParseString ==
  /\ ParsePass("value") /\ At(Here) = "quote"
  /\ ParseScalar(Close(Here) + 1, PayloadSize, Len(Decoded(Here)) + 1,
                 Value("string", Decoded(Here)))

NumberLexemesNoPlus == Digits \cup {".", "e", "-"}    \* mutant: no plus
NumberLexemes == Digits \cup {".", "e", "+", "-"}

ParseNumber ==
  /\ ParsePass("value") /\ At(Here) \in NumberLexemes \ {"e"}
  /\ LET e == Past(Here, NumberLexemes)
     IN  ParseScalar(e, PayloadSize, e - Here + 1,
                     Value("number", SubSeq(text, Here, e - 1)))

ParseOpen ==
  /\ ParsePass("value") /\ At(Here) \in {"{", "["}
  /\ Use(PayloadSize, 0) /\ See(Here)
  /\ open' = Calls(open, IF At(Here) = "{" THEN "object" ELSE "array")
  /\ at' = Here + 1 /\ want' = "more" /\ UNCHANGED tree /\ ParseKeeps

(* The default of the switch: a word, or nothing is done.                  *)
ParseWord ==
  /\ ParsePass("value") /\ At(Here) \notin (NumberLexemes \ {"e"}) \cup {"quote", "{", "["}
  /\ ParseScalar(IF At(Here) \in Words THEN Here + 1 ELSE Here, 0, 0,
                 Value("word", <<At(Here)>>))

CommaNow == Top.comma /\ At(Here) = ","
ParseMore(kind) ==
  pass = "parse" /\ InLoop(kind) /\ at <= Len(text) /\ At(Here) # Closer

ParseCommaStays ==                 \* mutant: continue before the offset moves
  /\ \E kind \in {"object", "array"} : ParseMore(kind)
  /\ CommaNow
  /\ at' = Here
  /\ UNCHANGED <<open, want, dom, data, tree, found>> /\ ParseKeeps

ParseComma ==
  /\ \E kind \in {"object", "array"} : ParseMore(kind)
  /\ CommaNow
  /\ at' = Here + 1 /\ open' = [open EXCEPT ![Len(open)].comma = FALSE]
  /\ UNCHANGED <<want, dom, data, tree, found>> /\ ParseKeeps

ParseMember ==
  /\ ParseMore("object") /\ ~CommaNow
  /\ Use(MemberSize + PayloadSize + ValueSize, Len(Decoded(Here)) + 1) /\ See(Here)
  /\ open' = [open EXCEPT ![Len(open)].name = Decoded(Here)]
  /\ at' = Colon(Here) + 1 /\ want' = "value" /\ UNCHANGED tree /\ ParseKeeps

(* mutant: the rest of the array is parsed by another call                 *)
ParseElementCalls ==
  /\ ParseMore("array") /\ ~CommaNow
  /\ Use(ElementSize + ValueSize, 0)
  /\ at' = Here /\ want' = "value" /\ open' = Calls(open, "array")
  /\ UNCHANGED <<tree, found>> /\ ParseKeeps

ParseElement ==
  /\ ParseMore("array") /\ ~CommaNow
  /\ Use(ElementSize + ValueSize, 0)
  /\ at' = Here /\ want' = "value" /\ UNCHANGED <<open, tree, found>> /\ ParseKeeps

ParseClose ==
  /\ ParsePass("more") /\ (At(Here) = Closer \/ at > Len(text))
  /\ at' = (IF At(Here) = Closer THEN Here + 1 ELSE at)
  /\ Give(Front(open), Value(Top.kind, Top.got))
  /\ UNCHANGED <<dom, data, found>> /\ ParseKeeps

ParseReturns == ParsePass("end") /\ Return("root")

Next ==
  \/ SizeString \/ SizeNumber \/ SizeWord \/ SizeOpen \/ SizeMember \/ SizeElement
  \/ SizeClose \/ SizeFails \/ AllocFails \/ Allocate
  \/ ParseString \/ ParseNumber \/ ParseWord \/ ParseOpen \/ ParseComma
  \/ ParseMember \/ ParseElement \/ ParseClose \/ ParseReturns

Spec == Init /\ [][Next]_vars

(* Nothing else runs between two steps of a call.                          *)
FairSpec == Spec /\ WF_vars(Next)

-----------------------------------------------------------------------------
(* Properties.                                                             *)

(* Between two quotation marks.                                            *)
InString(i) == Cardinality({j \in 1..(i - 1) : text[j] = "quote"}) % 2 = 1

(* Types of the variables; a loop has a caller that is not the end; the    *)
(* offset leaves the text by one at most.                                  *)
JsonTypeOK ==
  /\ text \in Seq(Lexemes) /\ pass \in {"size", "parse", "done"}
  /\ want \in {"value", "more", "end"} /\ at \in 1..(Len(text) + 2)
  /\ \A c \in Range(open) :
       c.kind \in {"object", "array"} /\ c.n \in 0..Len(text) /\ c.comma \in BOOLEAN
  /\ want = "more" => open # <<>>
  /\ want = "end" => open = <<>>
  /\ {domSize, dataSize, dom, data} \subseteq Nat
  /\ result \in {"none", "root", "null", "nomem"} /\ (result = "none" <=> pass # "done")

(* The second pass never writes outside of what the first one counted:     *)
(* structures stay before the characters, characters before the end of     *)
(* the allocation (json.h:2117 and 2142); all of it is used in the end,    *)
(* but for one byte for each pair of surrogates.                           *)
FillsAllocation ==
  /\ dom <= domSize /\ data <= dataSize
  /\ result = "root" =>
       /\ dom = domSize
       /\ dataSize - data = Cardinality({i \in DOMAIN text : text[i] = "high"})

(* Every call that has not returned is for a bracket that is still open:   *)
(* the stack of C holds as many as the text is nested, in either pass, up  *)
(* to the end of the text.                                                 *)
RecursionIsNesting ==
  LET seen(s) == Cardinality({i \in DOMAIN text :
                                i < at /\ text[i] \in s /\ ~InString(i)})
  IN  pass # "done" /\ at <= Len(text) + 1 =>
        Len(open) = seen({"{", "["}) - seen({"}", "]"})

(* Both passes see the same keys and values, in the same places and order. *)
RepeatsFirstPass ==
  /\ IsPrefix(found["parse"], found["size"])
  /\ result = "root" => found["parse"] = found["size"]

(* The second pass asks for no end of the text and believes what it reads: *)
(* whatever it is about to read is there and was accepted.  So the return  *)
(* it "cannot ever reach" (json.h:1481) is not reached, and no value is    *)
(* left without a type.                                                    *)
ReadsWhatWasAccepted ==
  pass = "parse" =>
    /\ want = "value" =>
         IsString(Here) \/ IsNumber(Here) \/ At(Here) \in Words \cup {"{", "["}
    /\ want = "more" =>
         \/ At(Here) = Closer \/ CommaNow
         \/ ~Top.comma /\ (IF Top.kind = "object" THEN IsKey(Here) ELSE At(Here) # "end")

(* A text is taken if and only if it is JSON, with two exceptions: control *)
(* characters in strings are taken like letters, and a minus at the end of *)
(* the text is a number.                                                   *)
AcceptsJson ==
  LET lenient == [i \in DOMAIN text |-> IF text[i] = "control" THEN "a" ELSE text[i]]
      minus == \E i \in DOMAIN text : /\ i = Len(text) /\ text[i] = "-"
                                      /\ \A k \in 1..(i - 1) : text[k] \in White
  IN  pass = "done" => (result # "null" <=> IsJson(lenient) \/ minus)

(* json_parse returns, for every text.                                     *)
ParseTerminates == <>(pass = "done")

=============================================================================
