----------------------------- MODULE MCHandler -----------------------------
(***************************************************************************)
(* Instances of module Handler for TLC: the requests each run lets clients *)
(* send, over nicknames a, b and one that is too long.                     *)
(***************************************************************************)
EXTENDS Refinement, TLC

CONSTANTS i1, i2, r1, r2, r3, a, b, long

\* long has 33 characters or more and begins like b.
MCClamp == [x \in Apelido |-> IF x = long THEN b ELSE x]

Basic == [kind |-> "POST", url |-> TRUE, ok |-> TRUE, apelido |-> a, chunks |-> 1,
          uuid |-> NoReq, match |-> {}, sql |-> TRUE]

PostOf(x) == [Basic EXCEPT !.apelido = x]
GetId(r) == [Basic EXCEPT !.kind = "ID", !.uuid = r, !.chunks = 0]
GetTerm(m) == [Basic EXCEPT !.kind = "TERM", !.match = m, !.chunks = 0]
SpoiltTerm == [GetTerm({}) EXCEPT !.sql = FALSE]
GetCount == [Basic EXCEPT !.kind = "COUNT", !.chunks = 0]

\* Creations of two nicknames, of which one is too long, and every query.
MixedInput ==
  {PostOf(b), PostOf(long), GetTerm({b, long}), GetCount} \cup {GetId(r) : r \in Req}

\* Everything a client may send, the malformed and the split included.
OddInput ==
  {PostOf(a), PostOf(long), [Basic EXCEPT !.url = FALSE], [Basic EXCEPT !.ok = FALSE],
   [Basic EXCEPT !.chunks = 0], [Basic EXCEPT !.chunks = 2],
   [Basic EXCEPT !.kind = "BAD"], [Basic EXCEPT !.kind = "OTHER"],
   GetId(NoReq), GetTerm({a}), SpoiltTerm, GetCount}
  \cup {GetId(r) : r \in Req}

SameInput == {PostOf(a)}
LongInput == {PostOf(long)}
SplitInput == {PostOf(a), [Basic EXCEPT !.chunks = 2]}

\* One of each way through handler().
LiveInput ==
  {PostOf(a), [Basic EXCEPT !.chunks = 0], [Basic EXCEPT !.chunks = 2],
   [Basic EXCEPT !.kind = "OTHER"], GetTerm({a}), GetCount}
  \cup {GetId(r) : r \in Req}

Symmetric == Permutations(Inst) \cup Permutations(Req)
=============================================================================
