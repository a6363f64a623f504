------------------------------ MODULE Registry ------------------------------
(***************************************************************************)
(* What the API promises its clients, with no instance, connection or call *)
(* in sight (API_DOC.md:5-14, as far as the code keeps it): a registry of  *)
(* pessoas with unique nicknames, where each request is asked, may be      *)
(* stored in one indivisible step, and is answered at most once, with an   *)
(* answer the registry justifies.  Handler implements it.                  *)
(***************************************************************************)
EXTENDS Naturals, FiniteSets

CONSTANTS
  Req, Apelido,
  Input,     \* the requests, records of Handler's form
  Clamp,     \* what a nickname is looked up by
  Limit,     \* the most a search returns
  NoAnswer

VARIABLES
  input,     \* what each client asks
  rows,      \* the registry
  state,     \* "idle", "waiting" or "answered"
  known,     \* the registry when the client asked
  hit,       \* the requests a failure touched
  answer     \* [code, result] once answered

vars == <<input, rows, state, known, hit, answer>>

Init ==
  /\ input \in [Req -> Input]
  /\ rows = {}
  /\ state = [r \in Req |-> "idle"]
  /\ known = [r \in Req |-> {}]
  /\ hit = {}
  /\ answer = [r \in Req |-> NoAnswer]

Creates(r) ==
  /\ input[r].kind = "POST"
  /\ input[r].url /\ input[r].ok /\ input[r].chunks > 0

Taken(a) == \E x \in rows : x.apelido = a
Stored(u) == \E x \in rows : x.uuid = u

\* The rows of S that a query asks for.
Wanted(r, S) ==
  CASE input[r].kind = "ID"   -> {x \in S : x.uuid = input[r].uuid}
    [] input[r].kind = "TERM" -> {x \in S : x.apelido \in input[r].match}
    [] OTHER                  -> S

Ask(r) ==
  /\ state[r] = "idle"
  /\ state' = [state EXCEPT ![r] = "waiting"]
  /\ known' = [known EXCEPT ![r] = rows]
  /\ UNCHANGED <<input, rows, hit, answer>>

Store(r) ==
  /\ state[r] = "waiting"
  /\ Creates(r)
  /\ ~Stored(r)
  /\ ~Taken(input[r].apelido)
  /\ rows' = rows \cup {[uuid |-> r, apelido |-> input[r].apelido]}
  /\ UNCHANGED <<input, state, known, hit, answer>>

\* A failure touches one request, or all those of an instance that dies.
Fail(S) ==
  /\ \A r \in S : state[r] = "waiting"
  /\ hit' = hit \cup S
  /\ UNCHANGED <<input, rows, state, known, answer>>

\* Which status a creation may get: a 201 says that the nickname is taken now,
\* any other one that this request has stored nothing.
PostCode(r, code) ==
  \/ code = 201 /\ Creates(r) /\ (Taken(input[r].apelido) \/ r \in hit)
  \/ /\ ~Stored(r)
     /\ \/ code = 404 /\ ~input[r].url
        \/ code = 422 /\ (~Creates(r) \/ Taken(Clamp[input[r].apelido]) \/ r \in hit)
        \/ code = 500 /\ r \in hit

\* A search whose term is no statement's.
Spoilt(r) == input[r].kind = "TERM" /\ ~input[r].sql

\* Which status and rows a query may get.
GetAnswer(r, code, result) ==
  LET enough(S) == Wanted(r, known[r]) \subseteq S
      cut(S) == input[r].kind = "TERM" /\ Cardinality(S) = Limit
  IN
  /\ result \subseteq Wanted(r, rows)
  /\ \/ /\ code = 200 /\ input[r].kind \in {"ID", "TERM", "COUNT"}
        /\ enough(result) \/ cut(result)
        /\ input[r].kind = "ID" => result # {}
     \/ code = 404 /\ input[r].kind = "ID" /\ (Wanted(r, known[r]) = {} \/ r \in hit)
     \/ code = 400 /\ input[r].kind = "BAD"
     \/ code = 500 /\ (r \in hit \/ Spoilt(r))

Answer(r) ==
  /\ state[r] = "waiting"
  /\ state' = [state EXCEPT ![r] = "answered"]
  /\ \E code \in {200, 201, 400, 404, 422, 500}, result \in SUBSET rows :
       /\ IF input[r].kind = "POST" THEN PostCode(r, code) /\ result = {}
          ELSE GetAnswer(r, code, result)
       /\ answer' = [answer EXCEPT ![r] = [code |-> code, result |-> result]]
  /\ UNCHANGED <<input, rows, known, hit>>

Next ==
  \/ \E r \in Req : Ask(r) \/ Store(r) \/ Answer(r)
  \/ \E S \in SUBSET Req : Fail(S)

Spec == Init /\ [][Next]_vars
=============================================================================
