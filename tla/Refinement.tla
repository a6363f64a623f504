----------------------------- MODULE Refinement -----------------------------
(***************************************************************************)
(* The request path of Handler implements Registry.  A request waits from  *)
(* the moment it is sent until its response is out; one whose connection   *)
(* is closed without a response waits for ever.                            *)
(***************************************************************************)
EXTENDS Handler

NoAnswer == "none"

StateMap ==
  [r \in Req |-> IF phase[r] = "new" THEN "idle"
                 ELSE IF phase[r] = "done" THEN "answered" ELSE "waiting"]

HitMap == {r \in Req : hurt[r] # {}}

AnswerMap ==
  [r \in Req |-> IF phase[r] = "done" THEN [code |-> reply[r], result |-> seen[r]]
                 ELSE NoAnswer]

Promise ==
  INSTANCE Registry WITH state <- StateMap, hit <- HitMap, answer <- AnswerMap

\* Whatever the two instances, MHD and SQLite do between the steps of a
\* request (handler.c:192-355, db.c), clients see the registry of API_DOC.md:
\* indivisible creations, unique nicknames, and answers that it justifies.
ImplementsRegistry == Promise!Spec
=============================================================================
