---------------------------- MODULE AnswerProofs ----------------------------
(***************************************************************************)
(* Why each request of module Handler is told what it is told, for every   *)
(* number of instances, requests, nicknames, tries and failing calls.      *)
(*                                                                         *)
(* AInv ties the status of a request, decided or queued, to its cause: the *)
(* form of the request, the rows, the failures around it, or the call that *)
(* is still to decide it.  It is inductive on top of IInv and CreatedOnce. *)
(***************************************************************************)
EXTENDS HandlerProofs, Refinement

USE NoInstAssumption, HandlerAssumption, NoPostAssumption

WellFormed(r) == input[r].url /\ input[r].ok /\ input[r].chunks > 0

\* x is one of the rows that the GET r asks for.
Asked(r, x) ==
  /\ input[r].kind = "ID" => x.uuid = input[r].uuid
  /\ input[r].kind = "TERM" => x.apelido \in input[r].match

\* What r asks for and was there when it was sent.
Before(r) == {x \in known[r] : Asked(r, x)}

\* The pieces of the body that handler() has been given (handler.c:236-248).
Pieces(r) ==
  /\ phase[r] = "headers" => left[r] = input[r].chunks
  /\ phase[r] = "body" /\ post[r].stage = 0 => left[r] = input[r].chunks
  /\ phase[r] = "body" /\ post[r].stage = 1 => left[r] < input[r].chunks
  /\ phase[r] = "full" /\ post[r].stage = 0 => input[r].chunks = 0

ErrorCause(r) ==
  \/ "memory" \in hurt[r] \/ "query" \in hurt[r] \/ Spoilt(r)
  \/ "open" \in hurt[r] /\ input[r].kind \in {"POST", "COUNT"}
  \/ "open" \in hurt[r] /\ faults >= MaxTries

\* Why a POST may have a status.
PostReason(r, code) ==
  LET a == input[r].apelido IN
  /\ code \in {201, 404, 422, 500}
  /\ code = 201 =>
       /\ WellFormed(r)
       /\ Clamp[a] = a => \A x \in known[r] : x.apelido # a
  /\ code = 404 => ~input[r].url
  /\ code = 422 => ~WellFormed(r) \/ HasApelido(Clamp[a]) \/ "memory" \in hurt[r]
  /\ code = 500 => ErrorCause(r)

\* The 500 a Post has on its way to the check (handler.c:270-288).
Undecided(r) ==
  /\ post[r].http = 500
  /\ \E i \in Inst : exec[i] = r /\ pc[i] \in {"open", "check"}

PostExplained(r) ==
  IsPost(r) =>
    /\ post[r] # NoPost /\ post[r].stage > 0
         => PostReason(r, post[r].http) \/ Undecided(r)
    /\ reply[r] # 0 => PostReason(r, reply[r])
    /\ seen[r] = {}

\* A query has all that was there when it was sent, or as much as it may return.
Fresh(r) ==
  /\ input[r].kind \in {"ID", "TERM", "COUNT"}
  /\ Before(r) \subseteq seen[r] \/ (input[r].kind = "TERM" /\ Cardinality(seen[r]) = Limit)
  /\ input[r].kind = "ID" => seen[r] # {}

\* Why a GET may have a status.
GetReason(r, code) ==
  /\ code \in {200, 400, 404, 500}
  /\ code = 200 => Fresh(r)
  /\ code = 404 =>
       /\ input[r].kind = "ID"
       /\ Before(r) = {} \/ "open" \in hurt[r] \/ "query" \in hurt[r]
  /\ code = 400 => input[r].kind = "BAD"
  /\ code = 500 => ErrorCause(r)

GetExplained(r) ==
  ~IsPost(r) =>
    /\ seen[r] \subseteq {x \in rows : Asked(r, x)}
    /\ reply[r] # 0 => GetReason(r, reply[r])

Explanation(r) ==
  /\ known[r] \subseteq rows
  /\ phase[r] \in {"queued", "done"} => reply[r] # 0
  /\ Pieces(r) /\ PostExplained(r) /\ GetExplained(r)

\* What the running GET knows after its query (handler.c:107-155).
ResultExplained(r, res) ==
  /\ res # "none"
  /\ res = "ok" => Fresh(r)
  /\ res = "notfound" => input[r].kind = "ID" /\ Before(r) = {}
  /\ res = "error" => "query" \in hurt[r] \/ Spoilt(r)

CallExplained(i) ==
  /\ tries[i] <= faults
  /\ pc[i] # "loop" /\ ~IsPost(exec[i]) =>
       /\ input[exec[i]].kind \in {"ID", "TERM", "COUNT"}
       /\ pc[i] \in {"close", "checkpoint"} => ResultExplained(exec[i], ret[i])

AInv == /\ \A r \in Req : Explanation(r)
        /\ \A i \in Inst : CallExplained(i)

-----------------------------------------------------------------------------
(***************************************************************************)
(* What a step leaves alone                                                *)
(***************************************************************************)

\* The connection of q is as it was, and its calls have not failed less.
Untouched(q) ==
  /\ phase'[q] = phase[q] /\ left'[q] = left[q] /\ post'[q] = post[q]
  /\ reply'[q] = reply[q] /\ seen'[q] = seen[q] /\ known'[q] = known[q]

Resting(j) ==
  pc'[j] = pc[j] /\ exec'[j] = exec[j] /\ tries'[j] = tries[j] /\ ret'[j] = ret[j]

\* A step for the requests of S: of MHD, or of the calls the instances of I are in.
Within(I, S) ==
  /\ Growth /\ faults <= faults'
  /\ \A q \in Req \ S : Untouched(q)
  /\ \A j \in Inst \ I : Resting(j) /\ (pc[j] # "loop" => exec[j] \notin S)
  /\ \A i \in I : pc[i] # "loop" => exec[i] \in S

\* A step for r.
Touches(I, r) ==
  /\ Growth /\ faults <= faults'
  /\ \A q \in Req \ {r} : Untouched(q)
  /\ \A j \in Inst \ I : Resting(j) /\ (pc[j] # "loop" => exec[j] # r)
  /\ \A i \in I : pc[i] # "loop" => exec[i] = r

\* A cause remains one while rows and failures are added.
LEMMA ReasonsStay ==
  ASSUME TypeOK, TypeOK', Growth, faults <= faults', NEW q \in Req,
         seen'[q] = seen[q], known'[q] = known[q]
  PROVE  /\ \A code : PostReason(q, code) => PostReason(q, code)'
         /\ \A code : GetReason(q, code) => GetReason(q, code)'
         /\ \A res : ResultExplained(q, res) => ResultExplained(q, res)'
         /\ Before(q)' = Before(q)
<1>1. ErrorCause(q) => ErrorCause(q)'
  <2>1. faults \in Nat /\ faults' \in Nat
    BY DEF TypeOK
  <2> QED
    BY <2>1 DEF ErrorCause, Spoilt, Growth
<1>2. Before(q)' = Before(q)
  BY DEF Before, Asked, Growth
<1>3. Fresh(q) => Fresh(q)'
  BY <1>2 DEF Fresh, Growth
<1>4. WellFormed(q)' = WellFormed(q)
  BY DEF WellFormed, Growth
<1>5. ASSUME NEW code, PostReason(q, code) PROVE PostReason(q, code)'
  BY <1>1, <1>4, <1>5 DEF PostReason, HasApelido, Growth
<1>6. ASSUME NEW code, GetReason(q, code) PROVE GetReason(q, code)'
  BY <1>1, <1>2, <1>3, <1>6 DEF GetReason, Growth
<1>7. ASSUME NEW res, ResultExplained(q, res) PROVE ResultExplained(q, res)'
  BY <1>2, <1>3, <1>7 DEF ResultExplained, Spoilt, Growth
<1> QED
  BY <1>2, <1>5, <1>6, <1>7

\* A step keeps AInv when it keeps it for the requests and instances it touches.
LEMMA Elsewhere ==
  ASSUME IInv, IInv', AInv, NEW I \in SUBSET Inst, NEW S \in SUBSET Req,
         Within(I, S), \A r \in S : Explanation(r)', \A i \in I : CallExplained(i)'
  PROVE  AInv'
<1> USE DEF IInv, Within
<1>1. ASSUME NEW q \in Req, q \notin S PROVE Explanation(q)'
  <2>1. Untouched(q) /\ IsPost(q)' = IsPost(q) /\ input' = input
    BY <1>1 DEF Growth, IsPost
  <2>2. Pieces(q)'
    BY <1>1, <2>1 DEF AInv, Explanation, Pieces, Untouched
  <2>3. Undecided(q) => Undecided(q)'
    BY <1>1, <2>1 DEF Undecided, Resting, Untouched
  <2>4. PostExplained(q)'
    BY <1>1, <2>1, <2>3, ReasonsStay DEF AInv, Explanation, PostExplained, Untouched
  <2>5. {x \in rows : Asked(q, x)} \subseteq {x \in rows : Asked(q, x)}'
    BY <2>1 DEF Asked, Growth
  <2>6. GetExplained(q)'
    BY <1>1, <2>1, <2>5, ReasonsStay DEF AInv, Explanation, GetExplained, Untouched
  <2> QED
    BY <2>1, <2>2, <2>4, <2>6 DEF AInv, Explanation, Untouched, Growth
<1>2. ASSUME NEW j \in Inst, j \notin I PROVE CallExplained(j)'
  <2>1. Resting(j) /\ input' = input /\ tries[j] <= faults
    BY <1>2 DEF Growth, AInv, CallExplained
  <2>2. tries'[j] <= faults'
    BY <2>1 DEF TypeOK, Resting
  <2>3. CASE pc[j] # "loop"
    <3>1. PICK q \in Req : q = exec[j] /\ q \notin S
      BY <1>2, <2>3 DEF Control, Running
    <3>2. Untouched(q)
      BY <3>1
    <3>3. CallExplained(j)
      BY DEF AInv
    <3> QED
      BY <2>1, <2>2, <3>1, <3>2, <3>3, ReasonsStay
      DEF CallExplained, Resting, Untouched, IsPost
  <2> QED
    BY <2>1, <2>2, <2>3 DEF CallExplained, Resting
<1> QED
  BY <1>1, <1>2 DEF AInv

\* A step for one request.
LEMMA Locally ==
  ASSUME IInv, IInv', AInv, NEW I \in SUBSET Inst, NEW r \in Req, Touches(I, r),
         Explanation(r)', \A i \in I : CallExplained(i)'
  PROVE  AInv'
<1>1. Within(I, {r})
  BY DEF Touches, Within
<1> QED
  BY <1>1, Elsewhere

\* Nobody runs a call for a request that MHD may call handler() for.
LEMMA NotRunning ==
  ASSUME IInv, NEW r \in Req,
         phase[r] \in {"new", "sent"} \/ \E i \in Inst : at[r] = i /\ pc[i] = "loop"
  PROVE  \A j \in Inst : pc[j] # "loop" => exec[j] # r
  BY DEF IInv, Control, Running

\* Two instances never run calls for one request.
LEMMA OnlyRunning ==
  ASSUME IInv, NEW i \in Inst, NEW r \in Req, pc[i] # "loop", exec[i] = r
  PROVE  \A j \in Inst \ {i} : pc[j] # "loop" => exec[j] # r
  BY DEF IInv, Control, Running

\* Without a Post or an answer there is little to explain.
LEMMA Unanswered ==
  ASSUME TypeOK, TypeOK', Growth, NEW r \in Req, Explanation(r), reply'[r] = 0,
         post'[r] = NoPost, seen'[r] = seen[r], known'[r] \in {known[r], rows},
         phase'[r] \in {"sent", "closed", "failed"}
         \/ (phase'[r] = "headers" /\ left'[r] = input[r].chunks)
  PROVE  Explanation(r)'
<1> USE DEF Explanation, Growth
<1>1. Pieces(r)'
  BY DEF Pieces
<1>2. PostExplained(r)'
  BY DEF PostExplained, IsPost
<1>3. GetExplained(r)'
  BY DEF GetExplained, IsPost, Asked
<1> QED
  BY <1>1, <1>2, <1>3

\* What is decided or queued stays explained, and so does what is taken back.
LEMMA StatusStays ==
  ASSUME TypeOK, TypeOK', Growth, faults <= faults', NEW r \in Req, Explanation(r),
         reply'[r] \in {0, reply[r]}, seen'[r] = seen[r], known'[r] = known[r],
         \/ post'[r] = NoPost
         \/ post'[r] = post[r] /\ (Undecided(r) => Undecided(r)')
  PROVE  PostExplained(r)' /\ GetExplained(r)'
<1> USE DEF Explanation, Growth
<1>1. PostExplained(r)'
  BY ReasonsStay DEF PostExplained, IsPost
<1>2. GetExplained(r)'
  BY ReasonsStay DEF GetExplained, IsPost, Asked
<1> QED
  BY <1>1, <1>2

\* The answer of a GET has the reason it was given, or memory ran out.
LEMMA AnswerGetStays ==
  ASSUME TypeOK, TypeOK', Growth, NEW r \in Req, NEW code \in Code, ~IsPost(r),
         Explanation(r), reply[r] = 0, GetReason(r, code), AnswerGet(r, code),
         post[r] = NoPost, post'[r] = NoPost, seen'[r] = seen[r], known'[r] = known[r]
  PROVE  Explanation(r)' /\ faults <= faults'
<1>1. faults <= faults'
  BY DEF AnswerGet, NoFault, Fault, TypeOK
<1>2. GetReason(r, code)'
  BY <1>1, ReasonsStay
<1>3. Fault(r, "memory") => GetReason(r, 500)'
  BY DEF Fault, TypeOK, GetReason, ErrorCause
<1>4. \/ phase'[r] = "failed" /\ reply'[r] = 0
      \/ phase'[r] = "queued" /\ reply'[r] # 0 /\ GetReason(r, reply[r])'
  BY <1>2, <1>3 DEF AnswerGet, Queue, Refuse, TypeOK, Code
<1>5. GetExplained(r)'
  BY <1>4 DEF Explanation, GetExplained, Growth, IsPost, Asked
<1>6. Pieces(r)' /\ PostExplained(r)'
  BY <1>4 DEF Pieces, PostExplained, IsPost, Growth
<1> QED
  BY <1>1, <1>4, <1>5, <1>6 DEF Explanation, Growth

\* get_handler and its helpers (handler.c:107-155).
LEMMA StatusOf ==
  /\ \A k : GetStatus(k, "ok") = 200
  /\ \A res \in {"notfound", "error"} : GetStatus("ID", res) = 404
  /\ \A k, res : k # "ID" /\ res # "ok" => GetStatus(k, res) = 500
  BY Zenon DEF GetStatus

-----------------------------------------------------------------------------
(***************************************************************************)
(* The steps                                                               *)
(***************************************************************************)

\* Nothing is known of the answer when the request is sent.
LEMMA SendExplained ==
  ASSUME IInv, IInv', Growth, AInv, NEW r \in Req, Send(r)
  PROVE  AInv'
<1> USE DEF IInv, Send, loopVars, db
<1>1. Touches({}, r)
  BY NotRunning DEF Touches, Untouched, Resting, TypeOK
<1>2. Explanation(r)'
  BY Unanswered DEF AInv, TypeOK, PostLifecycle, Control
<1> QED
  BY <1>1, <1>2, Locally

\* MHD knows how many pieces will come.
LEMMA ReceiveExplained ==
  ASSUME IInv, IInv', Growth, AInv, NEW i \in Inst, NEW r \in Req, Receive(i, r)
  PROVE  AInv'
<1> USE DEF IInv, Receive, loopVars, db, histVars
<1>1. Touches({}, r)
  BY NotRunning DEF Touches, Untouched, Resting, TypeOK
<1>2. Explanation(r)'
  BY Unanswered DEF AInv, TypeOK, PostLifecycle, Control
<1> QED
  BY <1>1, <1>2, Locally

\* A peer that leaves takes the answer back.
LEMMA AbortExplained ==
  ASSUME IInv, IInv', Growth, AInv, NEW i \in Inst, NEW r \in Req, Abort(i, r)
  PROVE  AInv'
<1> USE DEF IInv, Abort, Callable, loopVars, db
<1>1. Touches({}, r)
  BY NotRunning DEF Touches, Untouched, Resting, TypeOK
<1>2. PostExplained(r)' /\ GetExplained(r)'
  BY <1>1, StatusStays DEF AInv, TypeOK, Touches, Undecided
<1>3. Explanation(r)'
  BY <1>2 DEF AInv, Explanation, Pieces, TypeOK
<1> QED
  BY <1>1, <1>3, Locally

\* The answer goes out as it was queued (handler.c:176-190).
LEMMA RequestCompletedExplained ==
  ASSUME IInv, IInv', Growth, AInv, NEW i \in Inst, NEW r \in Req,
         RequestCompleted(i, r)
  PROVE  AInv'
<1> USE DEF IInv, RequestCompleted, Release, Callable, loopVars, db, histVars
<1>1. Touches({}, r)
  BY NotRunning DEF Touches, Untouched, Resting, TypeOK
<1>2. PostExplained(r)' /\ GetExplained(r)'
  BY <1>1, StatusStays DEF AInv, TypeOK, Touches
<1>3. Explanation(r)'
  BY <1>2 DEF AInv, Explanation, Pieces, TypeOK
<1> QED
  BY <1>1, <1>3, Locally

\* A new Post has decided nothing, whatever its status (handler.c:227-228).
LEMMA FirstCallExplained ==
  ASSUME IInv, IInv', Growth, AInv, NEW i \in Inst, NEW r \in Req, FirstCall(i, r)
  PROVE  AInv'
<1> USE DEF IInv, FirstCall, Callable, loopVars, db
<1>0. \/ post' = [post EXCEPT ![r] = NewPost] /\ phase' = [phase EXCEPT ![r] = Upload(left[r])]
      \/ phase' = [phase EXCEPT ![r] = "failed"] /\ post' = post
  BY DEF Refuse
<1>1. Touches({}, r) /\ reply'[r] = reply[r]
  BY NotRunning DEF Touches, Untouched, Resting, TypeOK, NoFault, Fault, Refuse
<1>2. /\ reply[r] = 0 /\ post[r] = NoPost /\ Explanation(r)
      /\ seen'[r] = seen[r] /\ known'[r] = known[r] /\ left'[r] = left[r]
      /\ input' = input /\ rows \subseteq rows'
  BY DEF Control, PostLifecycle, AInv, Growth
<1>3. ASSUME post' = [post EXCEPT ![r] = NewPost], phase' = [phase EXCEPT ![r] = Upload(left[r])]
      PROVE  Explanation(r)'
  <2>1. post'[r] = NewPost /\ phase'[r] = Upload(left[r])
    BY <1>3 DEF TypeOK
  <2>2. PostExplained(r)' /\ GetExplained(r)'
    BY <1>1, <1>2, <2>1 DEF Explanation, PostExplained, GetExplained, NewPost, IsPost, Asked
  <2>3. Pieces(r)'
    BY <1>2, <2>1 DEF Explanation, Pieces, NewPost, Upload
  <2> QED
    BY <1>2, <2>1, <2>2, <2>3 DEF Explanation, Upload
<1>4. ASSUME phase' = [phase EXCEPT ![r] = "failed"], post' = post
      PROVE  Explanation(r)'
  <2>1. post'[r] = NoPost /\ phase'[r] = "failed"
    BY <1>2, <1>4 DEF TypeOK
  <2> QED
    BY <1>1, <1>2, <2>1, Unanswered
<1>5. Explanation(r)'
  BY <1>0, <1>3, <1>4
<1> QED
  BY <1>1, <1>5, Locally

\* A second piece breaks the connection: nothing is answered.
LEMMA NextChunkExplained ==
  ASSUME IInv, IInv', Growth, AInv, NEW i \in Inst, NEW r \in Req, NextChunk(i, r)
  PROVE  AInv'
<1> USE DEF IInv, NextChunk, Callable, Refuse, loopVars, db, histVars
<1>1. Touches({}, r)
  BY NotRunning DEF Touches, Untouched, Resting, TypeOK
<1>2. /\ post[r] # NoPost /\ post[r].stage > 0 /\ post'[r].http = post[r].http
      /\ Undecided(r) => Undecided(r)'
  BY DEF PostLifecycle, TypeOK, Undecided, Post
<1>3. PostExplained(r)'
  BY <1>1, <1>2, ReasonsStay DEF AInv, Explanation, PostExplained, Touches, IsPost, Growth
<1>4. GetExplained(r)'
  BY <1>1, ReasonsStay DEF AInv, Explanation, GetExplained, Touches, IsPost, Growth, Asked
<1>5. Explanation(r)'
  BY <1>1, <1>3, <1>4 DEF AInv, Explanation, Pieces, TypeOK, Touches, Growth
<1> QED
  BY <1>1, <1>5, Locally

\* The decided status is queued (handler.c:318-338).
LEMMA RespondExplained ==
  ASSUME IInv, IInv', Growth, AInv, NEW i \in Inst, NEW r \in Req, Respond(i, r)
  PROVE  AInv'
<1> USE DEF IInv, Respond, Callable, loopVars, db
<1>1. Touches({}, r) /\ IsPost(r) /\ input' = input
  BY NotRunning
  DEF Touches, Untouched, Resting, TypeOK, Queue, Refuse, NoFault, Fault, Control, Growth
<1>2. /\ post[r] # NoPost /\ post[r].stage > 0
      /\ post'[r].http = post[r].http
  BY DEF PostLifecycle, TypeOK, Post
<1>3. ~Undecided(r)
  BY NotRunning DEF Undecided
<1>4. PostReason(r, post[r].http)
  BY <1>1, <1>2, <1>3 DEF AInv, Explanation, PostExplained
<1>5. PostReason(r, post[r].http)'
  BY <1>1, <1>2, <1>4, ReasonsStay DEF Touches
<1>6. reply'[r] \in {0, post'[r].http} /\ (phase'[r] \in {"queued", "done"} => reply'[r] # 0)
  BY <1>2, <1>4 DEF Queue, Refuse, TypeOK, Control, PostReason
<1>7. Explanation(r)'
  BY <1>1, <1>2, <1>5, <1>6
  DEF AInv, Explanation, PostExplained, GetExplained, Pieces, IsPost, Touches, Growth,
      Queue, Refuse, TypeOK
<1> QED
  BY <1>1, <1>7, Locally

\* A route that is not there, or an id that is none.
LEMMA RefuseGetExplained ==
  ASSUME IInv, IInv', Growth, AInv, NEW i \in Inst, NEW r \in Req, RefuseGet(i, r)
  PROVE  AInv'
<1> USE DEF IInv, RefuseGet, Callable, loopVars, db
<1> DEFINE code == IF input[r].kind = "BAD" THEN 400 ELSE 404
<1>1. /\ ~IsPost(r) /\ reply[r] = 0 /\ post[r] = NoPost /\ Explanation(r)
      /\ post'[r] = NoPost /\ seen'[r] = seen[r] /\ known'[r] = known[r]
  BY DEF NoQuery, IsPost, Control, PostLifecycle, AInv
<1>2. input[r].kind = "ID" /\ input[r].uuid = NoReq => Before(r) = {}
  BY DEF Before, Asked, TypeOK, Row
<1>3. GetReason(r, code) /\ code \in Code
  BY <1>2 DEF GetReason, NoQuery, Code
<1>4. Explanation(r)' /\ faults <= faults'
  BY <1>1, <1>3, AnswerGetStays
<1>5. Touches({}, r)
  BY <1>4, NotRunning
  DEF Touches, Untouched, Resting, TypeOK, AnswerGet, Queue, Refuse, NoFault, Fault
<1> QED
  BY <1>4, <1>5, Locally

\* No 405 (handler.c:349-354).
LEMMA OtherMethodExplained ==
  ASSUME IInv, IInv', Growth, AInv, NEW i \in Inst, NEW r \in Req, OtherMethod(i, r)
  PROVE  AInv'
<1> USE DEF IInv, OtherMethod, Callable, Refuse, loopVars, db, histVars
<1>1. Touches({}, r)
  BY NotRunning DEF Touches, Untouched, Resting, TypeOK
<1>2. Explanation(r)'
  BY Unanswered DEF AInv, TypeOK, PostLifecycle, Control
<1> QED
  BY <1>1, <1>2, Locally

\* Only the three queries get as far as db_open.
LEMMA StartGetExplained ==
  ASSUME IInv, IInv', Growth, AInv, NEW i \in Inst, NEW r \in Req, StartGet(i, r)
  PROVE  AInv'
<1> USE DEF IInv, StartGet, Callable, Goto, db, connVars, histVars
<1>1. Touches({i}, r)
  BY NotRunning DEF Touches, Untouched, Resting, TypeOK
<1>2. CallExplained(i)'
  BY DEF AInv, CallExplained, TypeOK
<1>3. PostExplained(r)' /\ GetExplained(r)'
  BY <1>1, StatusStays DEF AInv, TypeOK, PostLifecycle, Touches
<1>4. Explanation(r)'
  BY <1>3 DEF AInv, Explanation, Pieces
<1> QED
  BY <1>1, <1>2, <1>4, Locally

\* POST_STAGE_PROCESSING decides for a reason or leaves it to the check.
LEMMA ProcessingExplained ==
  ASSUME TypeOK, Growth, NEW i \in Inst, NEW r \in Req, NEW size \in {0, 1}, IsPost(r),
         Processing(i, r, size), size = 0 => input[r].chunks = 0
  PROVE  /\ faults <= faults' /\ post'[r] # NoPost /\ post'[r].stage = 1
         /\ PostReason(r, post[r].http)' \/ (post'[r].http = 500 /\ pc'[i] = "open" /\ exec'[i] = r)
<1>1. CASE ~input[r].url /\ Decide(r, 404, "null") /\ NoFault
  BY <1>1 DEF Decide, NoFault, PostReason, TypeOK, Growth, Post
<1>2. CASE Fault(r, "memory") /\ (Decide(r, 500, "null") \/ Decide(r, 422, "filled"))
  BY <1>2 DEF Decide, Fault, PostReason, ErrorCause, TypeOK, Growth, Post
<1>3. CASE ~(size > 0 /\ input[r].ok) /\ Decide(r, 422, "filled") /\ NoFault
  BY <1>3 DEF Decide, NoFault, PostReason, WellFormed, TypeOK, Growth, Post
<1>4. CASE Decide(r, 500, "filled") /\ Goto(i, "open") /\ exec' = [exec EXCEPT ![i] = r] /\ NoFault
  BY <1>4 DEF Decide, NoFault, Goto, TypeOK, Post
<1> QED
  BY <1>1, <1>2, <1>3, <1>4 DEF Processing

\* A POST that has just been through POST_STAGE_PROCESSING.
LEMMA ProcessedExplained ==
  ASSUME IInv, IInv', Growth, AInv, NEW i \in Inst, NEW r \in Req, NEW size \in {0, 1},
         pc[i] = "loop", at[r] = i, phase[r] \in {"body", "full"}, Processing(i, r, size),
         size = 0 => input[r].chunks = 0,
         Pieces(r)', phase'[r] \in {"body", "full"},
         \A q \in Req \ {r} : phase'[q] = phase[q] /\ left'[q] = left[q],
         UNCHANGED <<db, tries, ret, input, at, reply, seen, known>>
  PROVE  AInv'
<1> USE DEF IInv
<1>1. IsPost(r) /\ reply[r] = 0 /\ Explanation(r) /\ CallExplained(i)
  BY DEF Control, AInv
<1>2. /\ faults <= faults' /\ post'[r] # NoPost /\ post'[r].stage = 1
      /\ \/ PostReason(r, post[r].http)'
         \/ post'[r].http = 500 /\ pc'[i] = "open" /\ exec'[i] = r
  BY <1>1, ProcessingExplained
<1>3. /\ \A q \in Req \ {r} : post'[q] = post[q]
      /\ \A j \in Inst \ {i} : pc'[j] = pc[j] /\ exec'[j] = exec[j]
      /\ pc'[i] = "loop" \/ (pc'[i] = "open" /\ exec'[i] = r)
  <2>1. size \in Nat
    OBVIOUS
  <2>2. PICK code \in {404, 422, 500}, p \in {"null", "filled"} :
          post' = [post EXCEPT ![r] = [stage |-> 1, http |-> code, pessoa |-> p]]
    BY <2>1, ProcessingType
  <2>3. UNCHANGED <<pc, exec>>
        \/ (pc' = [pc EXCEPT ![i] = "open"] /\ exec' = [exec EXCEPT ![i] = r])
    BY <2>1, ProcessingType
  <2> QED
    BY <2>2, <2>3 DEF TypeOK
<1>4. Touches({i}, r)
  BY <1>2, <1>3, NotRunning DEF Touches, Untouched, Resting
<1>5. Undecided(r)' \/ PostReason(r, post[r].http)'
  BY <1>2 DEF Undecided
<1>6. PostExplained(r)' /\ GetExplained(r)'
  BY <1>1, <1>5 DEF Explanation, PostExplained, GetExplained, IsPost
<1>7. Explanation(r)'
  BY <1>1, <1>6 DEF Explanation, Growth
<1>8. CallExplained(i)'
  <2>1. tries'[i] <= faults'
    BY <1>1, <1>2 DEF CallExplained, TypeOK
  <2> QED
    BY <1>1, <1>3, <2>1 DEF CallExplained, IsPost
<1> QED
  BY <1>4, <1>7, <1>8, Locally

\* The first piece is taken for the whole body (handler.c:236-288).
LEMMA FirstChunkExplained ==
  ASSUME IInv, IInv', Growth, AInv, NEW i \in Inst, NEW r \in Req, FirstChunk(i, r)
  PROVE  AInv'
<1> USE DEF IInv, FirstChunk, Callable
<1>1. phase'[r] = Upload(left[r] - 1) /\ left'[r] = left[r] - 1 /\ input' = input
  BY DEF TypeOK
<1>2. left[r] = input[r].chunks /\ left[r] \in Nat /\ left[r] > 0
  BY DEF AInv, Explanation, Pieces, Control, TypeOK
<1>3. post'[r].stage = 1
  BY ProcessingType DEF TypeOK, Post
<1>4. Pieces(r)' /\ phase'[r] \in {"body", "full"}
  BY <1>1, <1>2, <1>3 DEF Pieces, Upload
<1> QED
  BY <1>4, ProcessedExplained DEF TypeOK

\* A POST without a body is malformed.
LEMMA EmptyBodyExplained ==
  ASSUME IInv, IInv', Growth, AInv, NEW i \in Inst, NEW r \in Req, EmptyBody(i, r)
  PROVE  AInv'
<1> USE DEF IInv, EmptyBody, Callable
<1>1. input[r].chunks = 0
  BY DEF AInv, Explanation, Pieces
<1>2. post'[r].stage = 1
  BY ProcessingType DEF TypeOK, Post
<1>3. Pieces(r)'
  BY <1>2 DEF Pieces
<1> QED
  BY <1>1, <1>3, ProcessedExplained

\* Nothing is answered by opening the database.
LEMMA OpenOkExplained ==
  ASSUME IInv, IInv', Growth, AInv, NEW i \in Inst, OpenOk(i)
  PROVE  AInv'
<1> USE DEF IInv, OpenOk, Goto, Connect, connVars, histVars
<1>1. PICK r \in Req : r = exec[i] /\ r = exec'[i]
  BY DEF Control, Running
<1>2. pc'[i] = IF IsPost(r) THEN "check" ELSE "read"
  BY <1>1 DEF TypeOK
<1>3. Touches({i}, r)
  BY <1>1, OnlyRunning DEF Touches, Untouched, Resting, TypeOK
<1>4. post'[r] = NoPost \/ (Undecided(r) => Undecided(r)')
  <2>1. CASE IsPost(r)
    BY <1>1, <1>2, <2>1 DEF Undecided
  <2>2. CASE ~IsPost(r)
    BY <1>1, <2>2 DEF Control, Running, PostLifecycle
  <2> QED
    BY <2>1, <2>2
<1>5. PostExplained(r)' /\ GetExplained(r)'
  BY <1>3, <1>4, StatusStays DEF AInv, TypeOK, Touches
<1>6. Explanation(r)'
  BY <1>5 DEF AInv, Explanation, Pieces
<1>7. CallExplained(i)'
  BY <1>1, <1>2 DEF AInv, CallExplained, IsPost
<1> QED
  BY <1>3, <1>6, <1>7, Locally

\* A search that will open the database again.
LEMMA OpenAgainExplained ==
  ASSUME IInv, IInv', Growth, AInv, NEW i \in Inst, NEW r \in Req, r = exec[i],
         pc[i] = "open", Fault(r, "open"), ~IsPost(r),
         tries' = [tries EXCEPT ![i] = @ + 1],
         UNCHANGED <<pc, exec, ret, reply, phase>>,
         UNCHANGED <<db, input, at, left, post, seen, known>>
  PROVE  AInv'
<1> USE DEF IInv
<1>1. tries[i] <= faults /\ tries'[i] = tries[i] + 1 /\ faults' = faults + 1
      /\ tries[i] \in Nat /\ faults \in Nat
  BY DEF AInv, CallExplained, Fault, TypeOK
<1>2. Touches({i}, r)
  BY <1>1, OnlyRunning DEF Touches, Untouched, Resting, TypeOK
<1>3. Undecided(r) => Undecided(r)'
  BY DEF Undecided
<1>4. PostExplained(r)' /\ GetExplained(r)'
  BY <1>2, <1>3, StatusStays DEF AInv, TypeOK, Touches
<1>5. Explanation(r)'
  BY <1>4 DEF AInv, Explanation, Pieces, Growth
<1>6. CallExplained(i)'
  BY <1>1 DEF AInv, CallExplained, IsPost
<1> QED
  BY <1>2, <1>5, <1>6, Locally

\* db_open failed for the last time (handler.c:57-64, 81-88, 96-100, 277-280).
LEMMA GiveUpExplained ==
  ASSUME IInv, IInv', Growth, AInv, NEW i \in Inst, NEW r \in Req, r = exec[i],
         pc[i] = "open", GivesUp(input[r].kind, tries[i] + 1), Return(i),
         \/ IsPost(r) /\ Fault(r, "open") /\ UNCHANGED <<reply, phase>>
         \/ ~IsPost(r) /\ Fault(r, "open") /\ Queue(r, GetStatus(input[r].kind, "error"))
         \/ GetFailsTwice(r),
         UNCHANGED <<db, input, at, left, post, seen, known>>
  PROVE  AInv'
<1> USE DEF IInv
<1> DEFINE k == input[r].kind
<1>1. /\ tries[i] <= faults /\ tries[i] \in Nat /\ faults \in Nat
      /\ faults' \in Nat /\ faults' >= faults + 1
      /\ "open" \in hurt'[r] /\ input' = input /\ reply[r] = 0 /\ Explanation(r)
  BY DEF AInv, CallExplained, Fault, GetFailsTwice, TypeOK, Control, Running
<1>2. tries'[i] = 0 /\ pc'[i] = "loop"
  BY DEF Return, Goto, TypeOK
<1>3. Touches({i}, r)
  BY <1>1, OnlyRunning
  DEF Touches, Untouched, Resting, TypeOK, Return, Goto, Queue, Refuse, GetFailsTwice
<1>4. CallExplained(i)'
  BY <1>1, <1>2 DEF CallExplained
<1>5. CASE IsPost(r) /\ UNCHANGED <<reply, phase>>
  <2>1. PostReason(r, 500)'
    BY <1>1, <1>5 DEF PostReason, ErrorCause, IsPost
  <2>2. post[r] # NoPost /\ post[r].stage > 0 => PostReason(r, post[r].http)'
    BY <1>1, <1>3, <1>5, <2>1, ReasonsStay
    DEF Explanation, PostExplained, Undecided, Touches
  <2>3. PostExplained(r)' /\ GetExplained(r)' /\ Pieces(r)'
    BY <1>1, <1>5, <2>2 DEF Explanation, PostExplained, GetExplained, Pieces, IsPost
  <2>4. Explanation(r)'
    BY <1>1, <1>5, <2>3 DEF Explanation, Growth
  <2> QED
    BY <1>3, <1>4, <2>4, Locally
<1>6. CASE ~IsPost(r)
  <2>1. k \in {"ID", "TERM", "COUNT"} /\ post'[r] = NoPost /\ phase[r] = "headers"
    BY <1>6 DEF AInv, CallExplained, Control, Running, PostLifecycle
  <2>2. ErrorCause(r)'
    BY <1>1, <2>1 DEF ErrorCause, GivesUp
  <2>3. GetReason(r, 500)' /\ GetReason(r, GetStatus(k, "error"))'
    BY <1>1, <2>1, <2>2, StatusOf DEF GetReason
  <2>4. \/ phase'[r] = "queued" /\ reply'[r] = GetStatus(k, "error")
        \/ phase'[r] = "queued" /\ reply'[r] = 500
        \/ phase'[r] = "failed" /\ reply'[r] = 0
    BY <1>1, <1>6 DEF GetFailsTwice, Queue, Refuse, TypeOK
  <2>5. \/ phase'[r] = "failed" /\ reply'[r] = 0
        \/ phase'[r] = "queued" /\ reply'[r] # 0 /\ GetReason(r, reply[r])'
    BY <2>3, <2>4, GetStatusType
  <2>6. PostExplained(r)' /\ GetExplained(r)' /\ Pieces(r)'
    BY <1>1, <1>6, <2>1, <2>5
    DEF Explanation, PostExplained, GetExplained, Pieces, IsPost, Asked, Growth
  <2>7. Explanation(r)'
    BY <1>1, <2>5, <2>6 DEF Explanation, Growth
  <2> QED
    BY <1>3, <1>4, <2>7, Locally
<1> QED
  BY <1>5, <1>6 DEF GetFailsTwice

\* db_open fails: the searches try again, MAX_DB_TRIES times at most.
LEMMA OpenFailExplained ==
  ASSUME IInv, IInv', Growth, AInv, NEW i \in Inst, OpenFail(i)
  PROVE  AInv'
<1>1. PICK r \in Req : r = exec[i]
  BY DEF OpenFail, IInv, Control, Running
<1>2. CASE ~GivesUp(input[r].kind, tries[i] + 1)
  BY <1>1, <1>2, OpenAgainExplained DEF OpenFail, GivesUp, IsPost
<1>3. CASE GivesUp(input[r].kind, tries[i] + 1)
  BY <1>1, <1>3, GiveUpExplained DEF OpenFail
<1> QED
  BY <1>2, <1>3

\* The nickname is taken by a row, or no row is there whose nickname it is
\* (handler.c:282-302).
LEMMA CheckExplained ==
  ASSUME IInv, IInv', Growth, CreatedOnce, AInv, NEW i \in Inst, Check(i)
  PROVE  AInv'
<1> USE DEF IInv
<1>1. PICK r \in Req : r = exec[i]
  BY DEF Check, Control, Running
<1> DEFINE a == input[r].apelido
<1>2. /\ IsPost(r) /\ pc[i] = "check" /\ Explanation(r) /\ CallExplained(i)
      /\ phase[r] \in {"body", "full"} /\ reply[r] = 0
      /\ UNCHANGED <<rows, exec, tries, ret, input, phase, left, reply, seen, known, hurt,
                     faults>>
      /\ \A q \in Req \ {r} : post'[q] = post[q]
      /\ \A j \in Inst \ {i} : pc'[j] = pc[j]
      /\ post[r] # NoPost /\ post[r].stage = 1 /\ post'[r].stage = 1
      /\ pc'[i] \in {"insert", "close"}
  <2>1. pc[i] = "check" /\ Explanation(r) /\ CallExplained(i)
    BY DEF Check, AInv
  <2>2. /\ IsPost(r) /\ phase[r] \in {"body", "full"}
        /\ UNCHANGED <<rows, exec, tries, ret, input, phase, left, reply, seen, known, hurt,
                       faults>>
        /\ \A q \in Req \ {r} : post'[q] = post[q]
        /\ \A j \in Inst \ {i} : pc'[j] = pc[j]
        /\ post[r] \in Post /\ post[r].stage = 1
        /\ pc'[i] \in {"insert", "close"}
    BY <1>1, CheckChanges
  <2>3. reply[r] = 0 /\ post[r] # NoPost
    BY <2>2 DEF Control
  <2>4. post'[r].stage = 1
    BY <1>1, <2>2, CheckChanges
  <2> QED
    BY <2>1, <2>2, <2>3, <2>4
<1>3. post'[r].http = IF HasApelido(Clamp[a]) THEN 422 ELSE 201
  <2>1. post[r] \in Post
    BY <1>1, CheckChanges
  <2>2. post'[r].http = Decision(HasApelido(Clamp[a])).http
    BY <1>1, <2>1 DEF Check, TypeOK, Post
  <2> QED
    BY <2>2 DEF Decision
<1>4. Touches({i}, r)
  BY <1>1, <1>2, OnlyRunning DEF Touches, Untouched, Resting, TypeOK
<1>5. WellFormed(r) /\ known[r] \subseteq rows
  BY <1>1, <1>2 DEF CreatedOnce, WellFormed, Explanation
<1>6. PostReason(r, post'[r].http)
  BY <1>3, <1>5 DEF PostReason, HasApelido
<1>7. PostReason(r, post[r].http)'
  BY <1>2, <1>4, <1>6, ReasonsStay DEF Touches
<1>8. PostExplained(r)' /\ GetExplained(r)' /\ Pieces(r)'
  BY <1>2, <1>7 DEF Explanation, PostExplained, GetExplained, Pieces, IsPost
<1>9. Explanation(r)'
  BY <1>2, <1>8 DEF Explanation
<1>10. CallExplained(i)'
  BY <1>1, <1>2 DEF CallExplained, IsPost
<1> QED
  BY <1>4, <1>9, <1>10, Locally

\* The 500 a Post is made with is for this (handler.c:228, 283-288).
LEMMA CheckFailExplained ==
  ASSUME IInv, IInv', Growth, AInv, NEW i \in Inst, CheckFail(i)
  PROVE  AInv'
<1> USE DEF IInv, CheckFail, Goto, db, connVars
<1>1. PICK r \in Req : r = exec[i] /\ r = exec'[i]
  BY DEF Control, Running
<1>2. /\ IsPost(r) /\ Explanation(r) /\ CallExplained(i) /\ reply[r] = 0
      /\ faults <= faults' /\ "query" \in hurt'[r] /\ pc'[i] = "close"
  BY <1>1 DEF Control, Running, AInv, Fault, TypeOK
<1>3. Touches({i}, r)
  BY <1>1, <1>2, OnlyRunning DEF Touches, Untouched, Resting, TypeOK
<1>4. PostReason(r, 500)'
  BY <1>2 DEF PostReason, ErrorCause
<1>5. post[r] # NoPost /\ post[r].stage > 0 => PostReason(r, post[r].http)'
  BY <1>2, <1>3, <1>4, ReasonsStay DEF Explanation, PostExplained, Undecided, Touches
<1>6. PostExplained(r)' /\ GetExplained(r)' /\ Pieces(r)'
  BY <1>2, <1>5 DEF Explanation, PostExplained, GetExplained, Pieces, IsPost
<1>7. Explanation(r)'
  BY <1>2, <1>6 DEF Explanation, Growth
<1>8. CallExplained(i)'
  BY <1>1, <1>2 DEF CallExplained, IsPost, TypeOK
<1> QED
  BY <1>3, <1>7, <1>8, Locally

\* A call on its way that decides and learns nothing more.
LEMMA GoesOn ==
  ASSUME IInv, IInv', Growth, AInv, NEW i \in Inst, NEW r \in Req, r = exec[i],
         pc[i] # "loop", faults <= faults',
         pc[i] \in {"open", "check"} <=> pc'[i] \in {"open", "check"},
         pc[i] \in {"close", "checkpoint"} <=> pc'[i] \in {"close", "checkpoint"},
         \A j \in Inst \ {i} : pc'[j] = pc[j],
         UNCHANGED <<exec, tries, ret, connVars, known>>
  PROVE  AInv'
<1> USE DEF IInv, connVars
<1>1. Touches({i}, r)
  BY OnlyRunning DEF Touches, Untouched, Resting
<1>2. Undecided(r) => Undecided(r)'
  BY DEF Undecided
<1>3. PostExplained(r)' /\ GetExplained(r)'
  BY <1>1, <1>2, StatusStays DEF AInv, TypeOK
<1>4. Explanation(r)'
  BY <1>3 DEF AInv, Explanation, Pieces, Growth
<1>5. CallExplained(i)'
  <2>1. CallExplained(i) /\ tries'[i] <= faults'
    BY DEF AInv, CallExplained, TypeOK
  <2> QED
    BY <2>1, ReasonsStay DEF CallExplained, IsPost
<1> QED
  BY <1>1, <1>4, <1>5, Locally

\* Only a POST with 201 decided inserts.
LEMMA RunningPost ==
  ASSUME IInv, NEW i \in Inst, pc[i] \in {"insert", "commit"}
  PROVE  exec[i] \in Req /\ IsPost(exec[i]) /\ post[exec[i]].http = 201
  BY DEF IInv, Control, Running

\* The 201 is decided before the INSERT, and what becomes of that does not
\* change it (handler.c:303-309).
LEMMA InsertBeginExplained ==
  ASSUME IInv, IInv', Growth, AInv, NEW i \in Inst, InsertBegin(i)
  PROVE  AInv'
<1> USE DEF IInv, InsertBegin, Goto, histVars
<1>1. PICK r \in Req : r = exec[i]
  BY DEF Control, Running
<1> QED
  BY <1>1, GoesOn DEF TypeOK

\* The call has inserted and closes next.
LEMMA InsertedExplained ==
  ASSUME IInv, IInv', Growth, AInv, NEW i \in Inst, pc[i] \in {"insert", "commit"},
         Goto(i, "close"), faults <= faults', UNCHANGED <<exec, tries, ret, connVars, known>>
  PROVE  AInv'
<1> USE DEF IInv, connVars
<1>1. PICK r \in Req : r = exec[i]
  BY RunningPost
<1>2. Touches({i}, r)
  BY <1>1, OnlyRunning DEF Touches, Untouched, Resting, Goto, TypeOK
<1>3. ~Undecided(r)
  BY <1>1, RunningPost DEF Undecided
<1>4. PostExplained(r)' /\ GetExplained(r)'
  BY <1>2, <1>3, StatusStays DEF AInv, TypeOK
<1>5. Explanation(r)'
  BY <1>4 DEF AInv, Explanation, Pieces, Growth
<1>6. CallExplained(i)'
  <2>1. CallExplained(i) /\ tries'[i] <= faults'
    BY DEF AInv, CallExplained, TypeOK
  <2> QED
    BY <1>1, <2>1, RunningPost DEF CallExplained, IsPost
<1> QED
  BY <1>2, <1>5, <1>6, Locally

\* The row is there, or the constraint refused it: nobody looks.
LEMMA InsertCommitExplained ==
  ASSUME IInv, IInv', Growth, AInv, NEW i \in Inst, InsertCommit(i)
  PROVE  AInv'
  BY InsertedExplained DEF InsertCommit, histVars, IInv, TypeOK

\* A failed INSERT changes the 201 as little.
LEMMA InsertFailExplained ==
  ASSUME IInv, IInv', Growth, AInv, NEW i \in Inst, InsertFail(i)
  PROVE  AInv'
  BY InsertedExplained DEF InsertFail, Fault, IInv, TypeOK

\* The rows a SELECT matches are those the request asks for (db.c:242-371).
LEMMA MatchingAsked ==
  ASSUME NEW r \in Req, input[r].kind \in {"ID", "TERM", "COUNT"}
  PROVE  Matching(r) = {x \in rows : Asked(r, x)}
  BY Zenon DEF Matching, Asked

\* What a SELECT may return.
LEMMA SelectionsFresh ==
  ASSUME TypeOK, NEW r \in Req, input[r].kind \in {"ID", "TERM", "COUNT"},
         known[r] \subseteq rows, NEW s \in Selections(r)
  PROVE  /\ s \subseteq {x \in rows : Asked(r, x)}
         /\ Before(r) \subseteq s \/ (input[r].kind = "TERM" /\ Cardinality(s) = Limit)
<1>1. Before(r) \subseteq Matching(r)
  BY MatchingAsked DEF Before
<1>2. CASE s = Matching(r)
  BY <1>1, <1>2, MatchingAsked
<1>3. CASE input[r].kind = "TERM" /\ s \in kSubset(Limit, Matching(r))
  BY <1>3, MatchingAsked DEF kSubset
<1> QED
  BY <1>2, <1>3 DEF Selections

\* The query ran on every row committed by then.
LEMMA ReadExplained ==
  ASSUME IInv, IInv', Growth, AInv, NEW i \in Inst, Read(i)
  PROVE  AInv'
<1> USE DEF IInv, Read, db, histVars
<1>1. PICK r \in Req : r = exec[i]
  BY DEF Control, Running
<1>2. /\ ~IsPost(r) /\ Explanation(r) /\ CallExplained(i) /\ reply[r] = 0
      /\ phase[r] = "headers" /\ post[r] = NoPost
      /\ input[r].kind \in {"ID", "TERM", "COUNT"}
  BY <1>1 DEF Control, Running, AInv, CallExplained, PostLifecycle
<1>3. Before(r)' = Before(r)
  BY DEF Before, Asked
<1>4. pc'[i] = "close" /\ exec'[i] = r
  BY <1>1 DEF TypeOK, Goto
<1>5. CASE ~Spoilt(r)
  <2>1. PICK s \in Selections(r) :
          /\ seen' = [seen EXCEPT ![r] = s]
          /\ ret' = [ret EXCEPT ![i] =
                       IF input[r].kind = "ID" /\ s = {} THEN "notfound" ELSE "ok"]
    BY <1>1, <1>5
  <2>2. /\ s \subseteq {x \in rows : Asked(r, x)}
        /\ Before(r) \subseteq s \/ (input[r].kind = "TERM" /\ Cardinality(s) = Limit)
    BY <1>2, SelectionsFresh DEF Explanation
  <2>3. Touches({i}, r)
    BY <1>1, <2>1, OnlyRunning DEF Touches, Untouched, Resting, TypeOK, Goto
  <2>4. /\ seen'[r] = s
        /\ ret'[i] = IF input[r].kind = "ID" /\ s = {} THEN "notfound" ELSE "ok"
    BY <1>1, <2>1 DEF TypeOK
  <2>5. PostExplained(r)' /\ GetExplained(r)' /\ Pieces(r)'
    BY <1>2, <2>2, <2>4 DEF Explanation, PostExplained, GetExplained, Pieces, IsPost, Asked
  <2>6. Explanation(r)'
    BY <1>2, <2>5 DEF Explanation
  <2>7. ResultExplained(r, ret[i])'
    BY <1>2, <1>3, <2>2, <2>4 DEF ResultExplained, Fresh
  <2>8. CallExplained(i)'
    BY <1>1, <1>2, <1>4, <2>7 DEF CallExplained, IsPost
  <2> QED
    BY <2>3, <2>6, <2>8, Locally
<1>6. CASE Spoilt(r)
  <2>1. seen' = seen /\ ret'[i] = "error"
    BY <1>1, <1>6 DEF TypeOK
  <2>2. Touches({i}, r)
    BY <1>1, <1>6, OnlyRunning DEF Touches, Untouched, Resting, TypeOK, Goto
  <2>3. PostExplained(r)' /\ GetExplained(r)' /\ Pieces(r)'
    BY <1>2, <2>1 DEF Explanation, PostExplained, GetExplained, Pieces, IsPost, Asked
  <2>4. Explanation(r)'
    BY <1>2, <2>3 DEF Explanation
  <2>5. CallExplained(i)'
    BY <1>1, <1>2, <1>4, <1>6, <2>1 DEF CallExplained, ResultExplained, Spoilt, IsPost
  <2> QED
    BY <2>2, <2>4, <2>5, Locally
<1> QED
  BY <1>5, <1>6

\* The error of a query stays behind until the connection is closed.
LEMMA ReadFailExplained ==
  ASSUME IInv, IInv', Growth, AInv, NEW i \in Inst, ReadFail(i)
  PROVE  AInv'
<1> USE DEF IInv, ReadFail, connVars
<1>1. PICK r \in Req : r = exec[i]
  BY DEF Control, Running
<1>2. /\ ~IsPost(r) /\ CallExplained(i) /\ faults <= faults' /\ "query" \in hurt'[r]
      /\ input[r].kind \in {"ID", "TERM", "COUNT"}
  BY <1>1 DEF Control, Running, AInv, CallExplained, Fault, TypeOK
<1>3. Touches({i}, r)
  BY <1>1, <1>2, OnlyRunning DEF Touches, Untouched, Resting, TypeOK, Goto
<1>4. pc'[i] = "close" /\ exec'[i] = r /\ ret'[i] = "error"
  BY <1>1 DEF TypeOK, Goto
<1>5. PostExplained(r)' /\ GetExplained(r)'
  BY <1>2, <1>3, StatusStays DEF AInv, TypeOK, Control, Running, PostLifecycle, Undecided
<1>6. Explanation(r)'
  BY <1>5 DEF AInv, Explanation, Pieces, Growth
<1>7. CallExplained(i)'
  BY <1>2, <1>4 DEF CallExplained, ResultExplained, IsPost, TypeOK
<1> QED
  BY <1>3, <1>6, <1>7, Locally

\* The checkpoint delays the answer and nothing else.
LEMMA CloseLastExplained ==
  ASSUME IInv, IInv', Growth, AInv, NEW i \in Inst, CloseLast(i)
  PROVE  AInv'
<1> USE DEF IInv, CloseLast, Goto, histVars
<1>1. PICK r \in Req : r = exec[i]
  BY DEF Control, Running
<1> QED
  BY <1>1, GoesOn DEF TypeOK

\* A POST waits for its next call; a GET is answered by what its query returned.
LEMMA CloseExplained ==
  ASSUME IInv, IInv', Growth, AInv, NEW i \in Inst, Close(i)
  PROVE  AInv'
<1> USE DEF IInv, Close
<1>1. PICK r \in Req : r = exec[i]
  BY DEF Control, Running
<1> DEFINE code == GetStatus(input[r].kind, ret[i])
<1>2. /\ Explanation(r) /\ CallExplained(i) /\ reply[r] = 0
      /\ pc[i] \in {"close", "checkpoint"}
      /\ pc'[i] = "loop" /\ tries'[i] = 0
  BY <1>1 DEF Control, Running, AInv, Return, Goto, TypeOK
<1>3. Explanation(r)' /\ faults <= faults'
  <2>1. CASE IsPost(r) /\ NoFault /\ UNCHANGED <<reply, phase>>
    <3>1. faults <= faults'
      BY <2>1 DEF NoFault, TypeOK
    <3>2. ~Undecided(r)
      BY <1>1, <1>2, OnlyRunning DEF Undecided
    <3>3. PostExplained(r)' /\ GetExplained(r)'
      BY <1>2, <2>1, <3>1, <3>2, StatusStays DEF TypeOK
    <3> QED
      BY <1>2, <2>1, <3>1, <3>3 DEF Explanation, Pieces, Growth
  <2>2. CASE ~IsPost(r) /\ AnswerGet(r, code)
    <3>1. input[r].kind \in {"ID", "TERM", "COUNT"} /\ ResultExplained(r, ret[i])
          /\ post[r] = NoPost
      BY <1>1, <1>2, <2>2 DEF CallExplained, Control, Running, PostLifecycle
    <3>2. code = IF ret[i] = "ok" THEN 200 ELSE IF input[r].kind = "ID" THEN 404 ELSE 500
      BY <3>1, StatusOf DEF ResultExplained, TypeOK
    <3>3. GetReason(r, code) /\ code \in Code
      BY <3>1, <3>2 DEF GetReason, ResultExplained, ErrorCause, Spoilt, Code, TypeOK
    <3> QED
      BY <1>2, <2>2, <3>1, <3>3, AnswerGetStays
  <2> QED
    BY <1>1, <2>1, <2>2
<1>4. Touches({i}, r)
  BY <1>1, <1>3, OnlyRunning
  DEF Touches, Untouched, Resting, TypeOK, Return, Goto, AnswerGet, Queue, Refuse
<1>5. CallExplained(i)'
  BY <1>2, <1>3 DEF CallExplained, TypeOK
<1> QED
  BY <1>3, <1>4, <1>5, Locally

\* Every step keeps every answer, and every call on its way to one, explained.
LEMMA AInvStep == IInv /\ CreatedOnce /\ AInv /\ [Next]_vars => AInv'
<1> SUFFICES ASSUME IInv, CreatedOnce, AInv, [Next]_vars
             PROVE  AInv'
  OBVIOUS
<1>0. IInv' /\ Growth
  BY IInvStep, GrowthStep
<1>1. CASE UNCHANGED vars
  BY <1>1
  DEF vars, loopVars, db, connVars, histVars, AInv, Explanation, CallExplained, Pieces,
      PostExplained, GetExplained, ResultExplained, PostReason, GetReason, Undecided,
      ErrorCause, Spoilt, Fresh, Before, Asked, WellFormed, IsPost, HasApelido
<1>2. ASSUME NEW r \in Req, Send(r) PROVE AInv'
  BY <1>0, <1>2, SendExplained
<1>3. ASSUME NEW i \in Inst, NEW r \in Req, Receive(i, r) PROVE AInv'
  BY <1>0, <1>3, ReceiveExplained
<1>4. ASSUME NEW i \in Inst, NEW r \in Req, Abort(i, r) PROVE AInv'
  BY <1>0, <1>4, AbortExplained
<1>5. ASSUME NEW i \in Inst, NEW r \in Req, RequestCompleted(i, r) PROVE AInv'
  BY <1>0, <1>5, RequestCompletedExplained
<1>6. ASSUME NEW i \in Inst, NEW r \in Req, FirstCall(i, r) PROVE AInv'
  BY <1>0, <1>6, FirstCallExplained
<1>7. ASSUME NEW i \in Inst, NEW r \in Req, FirstChunk(i, r) PROVE AInv'
  BY <1>0, <1>7, FirstChunkExplained
<1>8. ASSUME NEW i \in Inst, NEW r \in Req, NextChunk(i, r) PROVE AInv'
  BY <1>0, <1>8, NextChunkExplained
<1>9. ASSUME NEW i \in Inst, NEW r \in Req, EmptyBody(i, r) PROVE AInv'
  BY <1>0, <1>9, EmptyBodyExplained
<1>10. ASSUME NEW i \in Inst, NEW r \in Req, Respond(i, r) PROVE AInv'
  BY <1>0, <1>10, RespondExplained
<1>11. ASSUME NEW i \in Inst, NEW r \in Req, RefuseGet(i, r) PROVE AInv'
  BY <1>0, <1>11, RefuseGetExplained
<1>12. ASSUME NEW i \in Inst, NEW r \in Req, StartGet(i, r) PROVE AInv'
  BY <1>0, <1>12, StartGetExplained
<1>13. ASSUME NEW i \in Inst, NEW r \in Req, OtherMethod(i, r) PROVE AInv'
  BY <1>0, <1>13, OtherMethodExplained
<1>14. ASSUME NEW i \in Inst, OpenOk(i) PROVE AInv'
  BY <1>0, <1>14, OpenOkExplained
<1>15. ASSUME NEW i \in Inst, OpenFail(i) PROVE AInv'
  BY <1>0, <1>15, OpenFailExplained
<1>16. ASSUME NEW i \in Inst, Check(i) PROVE AInv'
  BY <1>0, <1>16, CheckExplained
<1>17. ASSUME NEW i \in Inst, CheckFail(i) PROVE AInv'
  BY <1>0, <1>17, CheckFailExplained
<1>18. ASSUME NEW i \in Inst, InsertBegin(i) PROVE AInv'
  BY <1>0, <1>18, InsertBeginExplained
<1>19. ASSUME NEW i \in Inst, InsertCommit(i) PROVE AInv'
  BY <1>0, <1>19, InsertCommitExplained
<1>20. ASSUME NEW i \in Inst, InsertFail(i) PROVE AInv'
  BY <1>0, <1>20, InsertFailExplained
<1>21. ASSUME NEW i \in Inst, Read(i) PROVE AInv'
  BY <1>0, <1>21, ReadExplained
<1>22. ASSUME NEW i \in Inst, ReadFail(i) PROVE AInv'
  BY <1>0, <1>22, ReadFailExplained
<1>23. ASSUME NEW i \in Inst, CloseLast(i) PROVE AInv'
  BY <1>0, <1>23, CloseLastExplained
<1>24. ASSUME NEW i \in Inst, Close(i) PROVE AInv'
  BY <1>0, <1>24, CloseExplained
<1> QED
  BY <1>1, <1>2, <1>3, <1>4, <1>5, <1>6, <1>7, <1>8, <1>9, <1>10, <1>11, <1>12, <1>13, <1>14, <1>15, <1>16, <1>17, <1>18, <1>19, <1>20, <1>21, <1>22, <1>23, <1>24
  DEF Next, Step, Call, Continue, Failure

\* At first nothing is answered.
LEMMA InitAInv == Init => AInv
  BY DEF Init, AInv, Explanation, CallExplained, Pieces, PostExplained, GetExplained

\* The inductive invariant, for every number of everything.
THEOREM AnswersExplained == Spec => [](IInv /\ CreatedOnce /\ AInv)
<1>1. Init => CreatedOnce
  BY DEF Init, SqliteInit, CreatedOnce, Request, IsPost
<1> QED
  BY <1>1, InitIInv, InitAInv, IInvStep, OnceStep, AInvStep, PTL DEF Spec

\* A 422 was given for a nickname that is taken still.
LEMMA TrueDuplicates == IInv /\ AInv => DuplicateIsTrue
<1> SUFFICES ASSUME IInv, AInv, NEW r \in Req, Delivered(r), reply[r] = 422,
                    WellFormed(r), "memory" \notin hurt[r]
             PROVE  HasApelido(Clamp[input[r].apelido])
  BY DEF DuplicateIsTrue, WellFormed
<1> QED
  BY DEF AInv, Explanation, PostExplained, GetExplained, PostReason, GetReason

\* A 201 was given for a nickname that was not stored before.
LEMMA RefusedDuplicates == IInv /\ AInv => DuplicateIsRefused
  BY DEF AInv, Explanation, PostExplained, GetExplained, PostReason, GetReason,
     DuplicateIsRefused, Delivered

\* The rows a GET is to be judged by.
LEMMA BeforeIs ==
  ASSUME NEW r \in Req, input[r].kind \in {"ID", "TERM", "COUNT"}
  PROVE  {x \in known[r] :
            CASE input[r].kind = "ID"   -> x.uuid = input[r].uuid
              [] input[r].kind = "TERM" -> x.apelido \in input[r].match
              [] OTHER                  -> TRUE} = Before(r)
  BY Zenon DEF Before, Asked

\* The answer of a GET is as good as its query.
LEMMA FreshReads ==
  ASSUME IInv, AInv
  PROVE  ReadsAreFresh
<1> SUFFICES ASSUME NEW r \in Req
             PROVE  LET before == {x \in known[r] :
                          CASE input[r].kind = "ID"   -> x.uuid = input[r].uuid
                            [] input[r].kind = "TERM" -> x.apelido \in input[r].match
                            [] OTHER                  -> TRUE}
                    IN
                    /\ seen[r] \subseteq rows
                    /\ Delivered(r) /\ reply[r] = 200 =>
                         \/ before \subseteq seen[r]
                         \/ input[r].kind = "TERM" /\ Cardinality(seen[r]) = Limit
                    /\ Delivered(r) /\ reply[r] = 404 /\ input[r].kind = "ID"
                         /\ hurt[r] \cap {"open", "query"} = {}
                         => before = {}
  BY DEF ReadsAreFresh
<1>1. seen[r] \subseteq rows
  BY DEF AInv, Explanation, PostExplained, GetExplained
<1>2. CASE input[r].kind \in {"ID", "TERM", "COUNT"}
  <2>1. reply[r] # 0 => GetReason(r, reply[r])
    BY <1>2 DEF AInv, Explanation, GetExplained, IsPost
  <2>2. hurt[r] \cap {"open", "query"} = {} => "open" \notin hurt[r] /\ "query" \notin hurt[r]
    OBVIOUS
  <2>3. reply[r] = 200 => Before(r) \subseteq seen[r]
                          \/ (input[r].kind = "TERM" /\ Cardinality(seen[r]) = Limit)
    BY <2>1 DEF GetReason, Fresh
  <2>4. reply[r] = 404 /\ hurt[r] \cap {"open", "query"} = {} => Before(r) = {}
    BY <2>1, <2>2 DEF GetReason
  <2> QED
    BY <1>1, <1>2, <2>3, <2>4, BeforeIs
<1>3. CASE input[r].kind \notin {"ID", "TERM", "COUNT"}
  <2>1. reply[r] # 200
    BY <1>3 DEF AInv, Explanation, PostExplained, GetExplained, PostReason, GetReason, Fresh
  <2> QED
    BY <1>1, <1>3, <2>1
<1> QED
  BY <1>2, <1>3

\* A 500 has the cause it was given for.
LEMMA CausedErrors == AInv => ErrorHasCause
<1> SUFFICES ASSUME AInv, NEW r \in Req, reply[r] = 500
             PROVE  \/ hurt[r] \cap {"memory", "query"} # {}
                    \/ Spoilt(r)
                    \/ "open" \in hurt[r] /\ input[r].kind \in {"POST", "COUNT"}
                    \/ "open" \in hurt[r] /\ faults >= MaxTries
  BY DEF ErrorHasCause
<1>1. ErrorCause(r)
  BY DEF AInv, Explanation, PostExplained, GetExplained, PostReason, GetReason
<1> QED
  BY <1>1 DEF ErrorCause

\* A well-formed POST is refused only for a nickname that is taken, whatever the
\* other instances do between the SELECT and the answer (handler.c:298-302).
THEOREM DuplicatesTrue == Spec => []DuplicateIsTrue
  BY TrueDuplicates, AnswersExplained, PTL

\* No 201 for a nickname of at most APELIDO_STR_LEN characters that was stored
\* before the POST was sent.
THEOREM DuplicatesRefused == Spec => []DuplicateIsRefused
  BY RefusedDuplicates, AnswersExplained, PTL

\* A 200 misses nothing that was stored when the request was sent, but for what
\* the LIMIT cut off; a 404 without a failed call misses nothing either
\* (handler.c:39-158, db.c:242-371).
THEOREM ReadsFresh == Spec => []ReadsAreFresh
  BY FreshReads, AnswersExplained, PTL

-----------------------------------------------------------------------------
(***************************************************************************)
(* Connections that are closed without an answer                           *)
(***************************************************************************)

CloseCause(r) ==
  \/ "memory" \in hurt[r] \/ "abort" \in hurt[r]
  \/ input[r].kind = "OTHER"
  \/ input[r].chunks > 1

Broken(r) == phase[r] \in {"failed", "closed"}

ClosesExplained == \A r \in Req : Broken(r) => CloseCause(r)

\* MHD_NO, a peer that left or memory that ran out: nothing else closes a
\* connection (handler.c:221-231, 318-325, 343-354).
LEMMA BreakStep ==
  ASSUME IInv, AInv, [Next]_vars, NEW q \in Req, Broken(q)'
  PROVE  Broken(q) \/ CloseCause(q)'
<1> USE DEF IInv, Broken
<1>1. CASE UNCHANGED vars
  BY <1>1 DEF vars, connVars
<1>2. ASSUME NEW r \in Req, Send(r)
      PROVE  Broken(q) \/ CloseCause(q)'
  BY <1>2 DEF Send, TypeOK
<1>3. ASSUME NEW i \in Inst, NEW r \in Req, Receive(i, r)
      PROVE  Broken(q) \/ CloseCause(q)'
  BY <1>3 DEF Receive, TypeOK
<1>4. ASSUME NEW i \in Inst, NEW r \in Req, Abort(i, r)
      PROVE  Broken(q) \/ CloseCause(q)'
  BY <1>4 DEF Abort, CloseCause, TypeOK
<1>5. ASSUME NEW i \in Inst, NEW r \in Req, RequestCompleted(i, r)
      PROVE  Broken(q) \/ CloseCause(q)'
  BY <1>5 DEF RequestCompleted, Callable, TypeOK
<1>6. ASSUME NEW i \in Inst, NEW r \in Req, FirstCall(i, r)
      PROVE  Broken(q) \/ CloseCause(q)'
  BY <1>6 DEF FirstCall, Upload, Fault, Refuse, CloseCause, TypeOK
<1>7. ASSUME NEW i \in Inst, NEW r \in Req, FirstChunk(i, r)
      PROVE  Broken(q) \/ CloseCause(q)'
  BY <1>7 DEF FirstChunk, Upload, TypeOK
<1>8. ASSUME NEW i \in Inst, NEW r \in Req, NextChunk(i, r)
      PROVE  Broken(q) \/ CloseCause(q)'
  <2>1. left[r] < input[r].chunks /\ left[r] > 0 /\ left[r] \in Nat
    BY <1>8 DEF NextChunk, Callable, AInv, Explanation, Pieces, Control, TypeOK
  <2>2. input[r].chunks \in Nat
    BY DEF TypeOK, Request
  <2>3. input[r].chunks > 1
    BY <2>1, <2>2
  <2> QED
    BY <1>8, <2>3 DEF NextChunk, Refuse, CloseCause, TypeOK
<1>9. ASSUME NEW i \in Inst, NEW r \in Req, EmptyBody(i, r)
      PROVE  Broken(q) \/ CloseCause(q)'
  BY <1>9 DEF EmptyBody
<1>10. ASSUME NEW i \in Inst, NEW r \in Req, Respond(i, r)
      PROVE  Broken(q) \/ CloseCause(q)'
  BY <1>10 DEF Respond, Queue, Fault, Refuse, CloseCause, TypeOK
<1>11. ASSUME NEW i \in Inst, NEW r \in Req, RefuseGet(i, r)
      PROVE  Broken(q) \/ CloseCause(q)'
  BY <1>11 DEF RefuseGet, AnswerGet, Queue, Fault, Refuse, CloseCause, TypeOK
<1>12. ASSUME NEW i \in Inst, NEW r \in Req, StartGet(i, r)
      PROVE  Broken(q) \/ CloseCause(q)'
  BY <1>12 DEF StartGet, connVars
<1>13. ASSUME NEW i \in Inst, NEW r \in Req, OtherMethod(i, r)
      PROVE  Broken(q) \/ CloseCause(q)'
  BY <1>13 DEF OtherMethod, Refuse, CloseCause, TypeOK
<1>14. ASSUME NEW i \in Inst,
              OpenOk(i) \/ Check(i) \/ CheckFail(i) \/ InsertBegin(i) \/ InsertCommit(i)
              \/ InsertFail(i) \/ Read(i) \/ ReadFail(i) \/ CloseLast(i)
      PROVE  Broken(q) \/ CloseCause(q)'
  BY <1>14
  DEF OpenOk, Check, CheckFail, InsertBegin, InsertCommit, InsertFail, Read, ReadFail,
      CloseLast, connVars
<1>15. ASSUME NEW i \in Inst, OpenFail(i)
      PROVE  Broken(q) \/ CloseCause(q)'
  <2>1. exec[i] \in Req
    BY <1>15 DEF OpenFail, Control, Running
  <2>2. \/ phase' = phase
        \/ phase' = [phase EXCEPT ![exec[i]] = "queued"]
        \/ GetFailsTwice(exec[i]) /\ phase' = [phase EXCEPT ![exec[i]] = "failed"]
    BY <1>15 DEF OpenFail, GetFailsTwice, Queue, Refuse
  <2> QED
    BY <2>1, <2>2 DEF GetFailsTwice, CloseCause, TypeOK
<1>16. ASSUME NEW i \in Inst, Close(i)
      PROVE  Broken(q) \/ CloseCause(q)'
  <2>1. exec[i] \in Req
    BY <1>16 DEF Close, Control, Running
  <2>2. \/ phase' = phase
        \/ phase' = [phase EXCEPT ![exec[i]] = "queued"]
        \/ Fault(exec[i], "memory") /\ phase' = [phase EXCEPT ![exec[i]] = "failed"]
    BY <1>16 DEF Close, AnswerGet, Queue, Refuse
  <2> QED
    BY <2>1, <2>2 DEF Fault, CloseCause, TypeOK
<1> QED
  BY <1>1, <1>2, <1>3, <1>4, <1>5, <1>6, <1>7, <1>8, <1>9, <1>10, <1>11, <1>12, <1>13,
     <1>14, <1>15, <1>16
  DEF Next, Step, Call, Continue, Failure

\* Every error a client sees and every connection that is closed on it has its
\* cause in a call that failed, in a peer or in what the client sent.
THEOREM FailuresCaused == Spec => []FailuresHaveCause
<1>1. Init => ClosesExplained
  BY DEF Init, ClosesExplained, Broken
<1>2. IInv /\ AInv /\ ClosesExplained /\ [Next]_vars => ClosesExplained'
  <2> SUFFICES ASSUME IInv, AInv, ClosesExplained, [Next]_vars, NEW q \in Req, Broken(q)'
               PROVE  CloseCause(q)'
    BY DEF ClosesExplained
  <2> QED
    BY BreakStep, GrowthStep DEF ClosesExplained, CloseCause, Growth
<1>3. ClosesExplained => CloseHasCause
  BY DEF ClosesExplained, Broken, CloseCause, CloseHasCause
<1> QED
  BY <1>1, <1>2, <1>3, CausedErrors, AnswersExplained, PTL DEF Spec, FailuresHaveCause

-----------------------------------------------------------------------------
(***************************************************************************)
(* Handler implements Registry, for every number of instances, requests,   *)
(* nicknames, tries and failing calls: every step of the request path is,  *)
(* to a client, one of the four steps of the registry or none at all.      *)
(***************************************************************************)

\* The invariants an answer is justified by.
RInv == IInv /\ CreatedOnce /\ CreatedIsExplained /\ RowsAreCreated /\ AInv

\* A client may see the step as one of the registry's.
Promised == Promise!Next \/ UNCHANGED Promise!vars

-----------------------------------------------------------------------------
(***************************************************************************)
(* The clients' view                                                       *)
(***************************************************************************)

Unseen(q) == phase'[q] = phase[q] /\ reply'[q] = reply[q] /\ seen'[q] = seen[q]

\* What has gone wrong for a request is added to, or all is well.
Hurts(r) ==
  hurt' = hurt \/ \E causes : causes # {} /\ hurt' = [hurt EXCEPT ![r] = @ \cup causes]

\* A step inside of r's time of waiting shows at most that it failed.
LEMMA Inside ==
  ASSUME TypeOK, NEW r \in Req, UNCHANGED <<input, rows, known>>,
         \A q \in Req \ {r} : Unseen(q), phase[r] \notin {"new", "done"},
         phase'[r] \notin {"new", "done"}, Hurts(r)
  PROVE  Promised
<1>1. StateMap' = StateMap
  BY DEF StateMap, Unseen
<1>2. AnswerMap' = AnswerMap
  BY DEF AnswerMap, Unseen
<1>3. CASE hurt' = hurt
  BY <1>1, <1>2, <1>3 DEF Promised, Promise!vars, HitMap
<1>4. CASE \E causes : causes # {} /\ hurt' = [hurt EXCEPT ![r] = @ \cup causes]
  <2>1. HitMap' = HitMap \cup {r}
    <3>1. PICK causes : causes # {} /\ hurt' = [hurt EXCEPT ![r] = @ \cup causes]
      BY <1>4
    <3>2. hurt'[r] = hurt[r] \cup causes /\ \A q \in Req \ {r} : hurt'[q] = hurt[q]
      BY <3>1 DEF TypeOK
    <3>3. \A q \in Req : hurt'[q] # {} <=> hurt[q] # {} \/ q = r
      BY <3>1, <3>2
    <3> QED
      BY <3>3 DEF HitMap
  <2>2. StateMap[r] = "waiting"
    BY DEF StateMap
  <2>3. Promise!Fail({r})
    BY <1>1, <1>2, <2>1, <2>2 DEF Promise!Fail
  <2> QED
    BY <2>3 DEF Promised, Promise!Next
<1> QED
  BY <1>3, <1>4 DEF Hurts

\* A library call, failed or not.
LEMMA FaultHurts ==
  ASSUME NEW r \in Req, NEW what, NoFault \/ Fault(r, what)
  PROVE  Hurts(r)
<1>1. CASE NoFault
  BY <1>1 DEF NoFault, Hurts
<1>2. CASE Fault(r, what)
  <2>1. {what} # {} /\ hurt' = [hurt EXCEPT ![r] = @ \cup {what}]
    BY <1>2 DEF Fault
  <2> QED
    BY <2>1 DEF Hurts
<1> QED
  BY <1>1, <1>2

\* Or two that fail.
LEMMA FailsTwiceHurts ==
  ASSUME NEW r \in Req, GetFailsTwice(r)
  PROVE  Hurts(r)
<1>1. /\ {"open", "memory"} # {}
      /\ hurt' = [hurt EXCEPT ![r] = @ \cup {"open", "memory"}]
  BY DEF GetFailsTwice
<1> QED
  BY <1>1 DEF Hurts

\* The end of a GET.
LEMMA AnswerGetInside ==
  ASSUME TypeOK, NEW r \in Req, NEW code, AnswerGet(r, code)
  PROVE  /\ phase'[r] \in {"queued", "failed"}
         /\ \A q \in Req \ {r} : phase'[q] = phase[q] /\ reply'[q] = reply[q]
         /\ Hurts(r)
  BY FaultHurts DEF AnswerGet, Queue, Refuse, TypeOK

-----------------------------------------------------------------------------
(***************************************************************************)
(* The steps that a client sees                                            *)
(***************************************************************************)

\* A request asks what it asks, of the rows of that moment.
LEMMA SendAsks ==
  ASSUME TypeOK, NEW r \in Req, Send(r)
  PROVE  Promise!Ask(r)
<1> USE DEF Send, TypeOK
<1>1. StateMap[r] = "idle" /\ StateMap' = [StateMap EXCEPT ![r] = "waiting"]
  BY DEF StateMap
<1>2. HitMap' = HitMap /\ AnswerMap' = AnswerMap
  BY DEF HitMap, AnswerMap
<1> QED
  BY <1>1, <1>2 DEF Promise!Ask, db

\* The COMMIT is the moment a pessoa is created, unless the constraint refuses it.
LEMMA CommitStores ==
  ASSUME IInv, CreatedOnce, NEW i \in Inst, InsertCommit(i)
  PROVE  Promised
<1> USE DEF IInv, InsertCommit, connVars, histVars
<1>1. PICK r \in Req : r = exec[i]
  BY RunningPost
<1> DEFINE a == input[r].apelido
<1>2. /\ StateMap' = StateMap /\ HitMap' = HitMap /\ AnswerMap' = AnswerMap
      /\ UNCHANGED <<input, known>>
  BY DEF StateMap, HitMap, AnswerMap
<1>3. CASE Conflict(r, a)
  <2>1. rows' = rows
    BY <1>1, <1>3 DEF CommitRow
  <2> QED
    BY <1>2, <2>1 DEF Promised, Promise!vars
<1>4. CASE ~Conflict(r, a)
  <2>1. rows' = rows \cup {[uuid |-> r, apelido |-> a]}
    BY <1>1, <1>4 DEF CommitRow
  <2>2. StateMap[r] = "waiting"
    BY <1>1 DEF StateMap, Control, Running
  <2>3. Promise!Creates(r)
    BY <1>1, RunningPost DEF CreatedOnce, Promise!Creates, IsPost
  <2>4. ~Promise!Stored(r) /\ ~Promise!Taken(a)
    BY <1>4 DEF Conflict, Promise!Stored, Promise!Taken
  <2>5. Promise!Store(r)
    BY <1>2, <2>1, <2>2, <2>3, <2>4 DEF Promise!Store
  <2> QED
    BY <2>5 DEF Promised, Promise!Next
<1> QED
  BY <1>3, <1>4

\* The registry's queries ask for what the handler's do.
LEMMA WantedAsked ==
  ASSUME NEW r \in Req, NEW S
  PROVE  Promise!Wanted(r, S) = {x \in S : Asked(r, x)}
  BY Zenon DEF Promise!Wanted, Asked

\* The registry counts the rows of a search in the same way.
LEMMA SameCardinality ==
  ASSUME NEW S
  PROVE  Promise!Cardinality(S) = Cardinality(S)
  BY Zenon DEF Promise!Cardinality, Cardinality

\* A status a POST was given is one the registry justifies.
LEMMA PostJustified ==
  ASSUME RInv, NEW r \in Req, IsPost(r), reply[r] # 0
  PROVE  Promise!PostCode(r, reply[r]) /\ seen[r] = {}
<1> USE DEF RInv
<1>1. PostReason(r, reply[r]) /\ seen[r] = {}
  BY DEF AInv, Explanation, PostExplained
<1>2. WellFormed(r) <=> Promise!Creates(r)
  BY DEF WellFormed, Promise!Creates, IsPost
<1>3. \A what : what \in hurt[r] => r \in HitMap
  BY DEF HitMap
<1>4. CASE reply[r] = 201
  <2>1. HasApelido(input[r].apelido) \/ "insert" \in hurt[r]
    BY <1>4 DEF CreatedIsExplained
  <2> QED
    BY <1>1, <1>2, <1>3, <1>4, <2>1
    DEF PostReason, HasApelido, Promise!PostCode, Promise!Taken
<1>5. CASE reply[r] \in {404, 422, 500}
  <2>1. ~Promise!Stored(r)
    BY <1>5 DEF Promise!Stored, RowsAreCreated
  <2>2. ErrorCause(r) => r \in HitMap
    BY <1>3 DEF ErrorCause, Spoilt, IsPost
  <2> QED
    BY <1>1, <1>2, <1>3, <1>5, <2>1, <2>2
    DEF PostReason, HasApelido, Promise!PostCode, Promise!Taken
<1> QED
  BY <1>1, <1>4, <1>5 DEF PostReason

\* And so are the status and the rows of a GET.
LEMMA GetJustified ==
  ASSUME RInv, NEW r \in Req, ~IsPost(r), reply[r] # 0
  PROVE  Promise!GetAnswer(r, reply[r], seen[r])
<1> USE DEF RInv
<1>1. GetReason(r, reply[r]) /\ seen[r] \subseteq {x \in rows : Asked(r, x)}
  BY DEF AInv, Explanation, GetExplained
<1>2. Promise!Wanted(r, known[r]) = Before(r)
      /\ Promise!Wanted(r, rows) = {x \in rows : Asked(r, x)}
  BY WantedAsked DEF Before
<1>3. \A what : what \in hurt[r] => r \in HitMap
  BY DEF HitMap
<1>4. ErrorCause(r) => r \in HitMap \/ Promise!Spoilt(r)
  BY <1>3 DEF ErrorCause, Spoilt, Promise!Spoilt
<1> HIDE DEF RInv
<1>5. seen[r] \subseteq Promise!Wanted(r, rows)
  BY <1>1, <1>2
<1>6. CASE reply[r] = 200
  <2>1. \/ Promise!Wanted(r, known[r]) \subseteq seen[r]
        \/ input[r].kind = "TERM" /\ Cardinality(seen[r]) = Limit
    BY <1>1, <1>2, <1>6 DEF GetReason, Fresh
  <2>2. input[r].kind \in {"ID", "TERM", "COUNT"} /\ (input[r].kind = "ID" => seen[r] # {})
    BY <1>1, <1>6 DEF GetReason, Fresh
  <2>3. CASE Promise!Wanted(r, known[r]) \subseteq seen[r]
    BY <1>5, <1>6, <2>2, <2>3 DEF Promise!GetAnswer
  <2>4. CASE input[r].kind = "TERM" /\ Cardinality(seen[r]) = Limit
    BY <1>5, <1>6, <2>2, <2>4, SameCardinality DEF Promise!GetAnswer
  <2> QED
    BY <2>1, <2>3, <2>4
<1>7. CASE reply[r] # 200
  <2>1. \/ reply[r] = 404 /\ input[r].kind = "ID"
           /\ (Promise!Wanted(r, known[r]) = {} \/ r \in HitMap)
        \/ reply[r] = 400 /\ input[r].kind = "BAD"
        \/ reply[r] = 500 /\ (r \in HitMap \/ Promise!Spoilt(r))
    BY <1>1, <1>2, <1>3, <1>4, <1>7 DEF GetReason
  <2> QED
    BY <1>5, <2>1 DEF Promise!GetAnswer
<1> QED
  BY <1>6, <1>7

\* request_completed is called when the response is out (handler.c:176-190).
LEMMA CompletedAnswers ==
  ASSUME RInv, NEW i \in Inst, NEW r \in Req, RequestCompleted(i, r), phase[r] = "queued"
  PROVE  Promise!Answer(r)
<1>1. /\ TypeOK /\ phase' = [phase EXCEPT ![r] = "done"]
      /\ UNCHANGED <<input, rows, known, hurt, reply, seen>>
  BY DEF RInv, IInv, RequestCompleted, Callable, db, histVars
<1>2. reply[r] \in Code /\ reply[r] # 0 /\ seen[r] \subseteq rows
  BY DEF RInv, IInv, TypeOK, AInv, Explanation, PostExplained, GetExplained
<1>3. StateMap[r] = "waiting" /\ StateMap' = [StateMap EXCEPT ![r] = "answered"]
  BY <1>1 DEF StateMap, TypeOK
<1>4. HitMap' = HitMap
  BY <1>1 DEF HitMap
<1>5. AnswerMap' = [AnswerMap EXCEPT ![r] = [code |-> reply[r], result |-> seen[r]]]
  BY <1>1 DEF AnswerMap, TypeOK
<1>6. IF input[r].kind = "POST" THEN Promise!PostCode(r, reply[r]) /\ seen[r] = {}
      ELSE Promise!GetAnswer(r, reply[r], seen[r])
  BY <1>2, PostJustified, GetJustified DEF IsPost
<1>7. reply[r] \in {200, 201, 400, 404, 422, 500} /\ seen[r] \in SUBSET rows
  BY <1>2 DEF Code
<1>8. \E code \in {200, 201, 400, 404, 422, 500}, result \in SUBSET rows :
        /\ IF input[r].kind = "POST" THEN Promise!PostCode(r, code) /\ result = {}
           ELSE Promise!GetAnswer(r, code, result)
        /\ AnswerMap' = [AnswerMap EXCEPT ![r] = [code |-> code, result |-> result]]
  <2> DEFINE Given(code, result) ==
        /\ IF input[r].kind = "POST" THEN Promise!PostCode(r, code) /\ result = {}
           ELSE Promise!GetAnswer(r, code, result)
        /\ AnswerMap' = [AnswerMap EXCEPT ![r] = [code |-> code, result |-> result]]
  <2>1. Given(reply[r], seen[r])
    BY <1>5, <1>6
  <2> HIDE DEF Given
  <2>2. \E code \in {200, 201, 400, 404, 422, 500}, result \in SUBSET rows : Given(code, result)
    BY <1>7, <2>1
  <2> QED
    BY <2>2 DEF Given
<1> QED
  BY <1>1, <1>3, <1>4, <1>8 DEF Promise!Answer

-----------------------------------------------------------------------------
(***************************************************************************)
(* The steps that it does not see, or only as failures                     *)
(***************************************************************************)

\* MHD and handler() on their way through a request.
LEMMA CallPromised ==
  ASSUME TypeOK, NEW i \in Inst, NEW r \in Req,
         Receive(i, r) \/ Abort(i, r) \/ Call(i, r)
         \/ (RequestCompleted(i, r) /\ phase[r] # "queued")
  PROVE  Promised
<1> USE DEF TypeOK, Callable, db, histVars
<1>1. ASSUME Receive(i, r) PROVE Promised
  BY <1>1, Inside DEF Receive, Unseen, Hurts
<1>2. ASSUME Abort(i, r) PROVE Promised
  BY <1>2, Inside DEF Abort, Unseen, Hurts
<1>3. ASSUME RequestCompleted(i, r), phase[r] # "queued" PROVE Promised
  BY <1>3, Inside DEF RequestCompleted, Unseen, Hurts
<1>4. ASSUME FirstCall(i, r) PROVE Promised
  <2>1. Hurts(r)
    BY <1>4, FaultHurts DEF FirstCall
  <2> QED
    BY <1>4, <2>1, Inside DEF FirstCall, Upload, Refuse, Unseen
<1>5. ASSUME FirstChunk(i, r) PROVE Promised
  <2>1. Hurts(r)
    BY <1>5, FaultHurts DEF FirstChunk, Processing
  <2> QED
    BY <1>5, <2>1, Inside DEF FirstChunk, Upload, Unseen
<1>6. ASSUME NextChunk(i, r) PROVE Promised
  BY <1>6, Inside DEF NextChunk, Refuse, Unseen, Hurts
<1>7. ASSUME EmptyBody(i, r) PROVE Promised
  <2>1. Hurts(r)
    BY <1>7, FaultHurts DEF EmptyBody, Processing
  <2> QED
    BY <1>7, <2>1, Inside DEF EmptyBody, Unseen
<1>8. ASSUME Respond(i, r) PROVE Promised
  <2>1. Hurts(r)
    BY <1>8, FaultHurts DEF Respond
  <2> QED
    BY <1>8, <2>1, Inside DEF Respond, Queue, Refuse, Unseen
<1>9. ASSUME RefuseGet(i, r) PROVE Promised
  BY <1>9, AnswerGetInside, Inside DEF RefuseGet, Unseen
<1>10. ASSUME StartGet(i, r) PROVE Promised
  BY <1>10, Inside DEF StartGet, connVars, Unseen, Hurts
<1>11. ASSUME OtherMethod(i, r) PROVE Promised
  BY <1>11, Inside DEF OtherMethod, Refuse, Unseen, Hurts
<1> QED
  BY <1>1, <1>2, <1>3, <1>4, <1>5, <1>6, <1>7, <1>8, <1>9, <1>10, <1>11 DEF Call

\* The database access of a call, but for the COMMIT.
LEMMA AccessPromised ==
  ASSUME IInv, NEW i \in Inst, Continue(i) \/ Failure(i), ~InsertCommit(i)
  PROVE  Promised
<1> USE DEF IInv, TypeOK, db, connVars, histVars
<1>1. PICK r \in Req : r = exec[i] /\ phase[r] \notin {"new", "done"}
  BY DEF Control, Running, Continue, Failure, OpenOk, Check, InsertBegin, Read, CloseLast,
         Close, OpenFail, CheckFail, InsertFail, ReadFail
<1>2. ASSUME OpenOk(i) PROVE Promised
  BY <1>1, <1>2, Inside DEF OpenOk, Connect, Unseen, Hurts
<1>3. ASSUME Check(i) PROVE Promised
  BY <1>1, <1>3, Inside DEF Check, Unseen, Hurts
<1>4. ASSUME InsertBegin(i) PROVE Promised
  BY <1>1, <1>4, Inside DEF InsertBegin, BeginWrite, Unseen, Hurts
<1>5. ASSUME Read(i) PROVE Promised
  BY <1>1, <1>5, Inside DEF Read, Unseen, Hurts
<1>6. ASSUME CloseLast(i) PROVE Promised
  BY <1>1, <1>6, Inside DEF CloseLast, BeginCheckpoint, Unseen, Hurts
<1>7. ASSUME Close(i) PROVE Promised
  <2>1. UNCHANGED <<input, rows, known, seen>>
    BY <1>7 DEF Close, Disconnect
  <2>2. CASE NoFault /\ UNCHANGED <<reply, phase>>
    BY <1>1, <2>1, <2>2, Inside, FaultHurts DEF Unseen
  <2>3. CASE AnswerGet(r, GetStatus(input[r].kind, ret[i]))
    BY <1>1, <2>1, <2>3, Inside, AnswerGetInside DEF Unseen
  <2> QED
    BY <1>1, <1>7, <2>2, <2>3 DEF Close
<1>8. ASSUME OpenFail(i) PROVE Promised
  <2>1. Hurts(r)
    BY <1>1, <1>8, FaultHurts, FailsTwiceHurts DEF OpenFail
  <2>2. \/ UNCHANGED <<reply, phase>>
        \/ \E code : Queue(r, code)
        \/ Refuse(r)
    BY <1>1, <1>8 DEF OpenFail, GetFailsTwice
  <2>3. UNCHANGED <<input, rows, known, seen>>
    BY <1>8 DEF OpenFail
  <2> QED
    BY <1>1, <2>1, <2>2, <2>3, Inside DEF Queue, Refuse, Unseen
<1>9. ASSUME CheckFail(i) \/ ReadFail(i) PROVE Promised
  <2>1. Hurts(r)
    BY <1>1, <1>9, FaultHurts DEF CheckFail, ReadFail
  <2> QED
    BY <1>1, <1>9, <2>1, Inside DEF CheckFail, ReadFail, Unseen
<1>10. ASSUME InsertFail(i) PROVE Promised
  <2>1. Hurts(r)
    BY <1>1, <1>10, FaultHurts DEF InsertFail
  <2> QED
    BY <1>1, <1>10, <2>1, Inside DEF InsertFail, Rollback, Unseen
<1> QED
  BY <1>2, <1>3, <1>4, <1>5, <1>6, <1>7, <1>8, <1>9, <1>10 DEF Continue, Failure

\* Every step of the request path is a step of the registry or none.
LEMMA PromisedStep == RInv /\ [Next]_vars => Promised
<1> SUFFICES ASSUME RInv, [Next]_vars PROVE Promised
  OBVIOUS
<1>0. IInv /\ TypeOK /\ CreatedOnce
  BY DEF RInv, IInv
<1>1. CASE UNCHANGED vars
  BY <1>1
  DEF vars, db, connVars, histVars, Promised, Promise!vars, StateMap, HitMap, AnswerMap
<1>2. ASSUME NEW r \in Req, Send(r) PROVE Promised
  BY <1>0, <1>2, SendAsks DEF Promised, Promise!Next
<1>3. ASSUME NEW i \in Inst, NEW r \in Req, RequestCompleted(i, r), phase[r] = "queued"
      PROVE  Promised
  BY <1>3, CompletedAnswers DEF Promised, Promise!Next
<1>4. ASSUME NEW i \in Inst, InsertCommit(i) PROVE Promised
  BY <1>0, <1>4, CommitStores
<1>5. ASSUME NEW i \in Inst, Continue(i) \/ Failure(i), ~InsertCommit(i) PROVE Promised
  BY <1>0, <1>5, AccessPromised
<1>6. ASSUME NEW i \in Inst, NEW r \in Req,
             Receive(i, r) \/ Abort(i, r) \/ Call(i, r)
             \/ (RequestCompleted(i, r) /\ phase[r] # "queued")
      PROVE  Promised
  BY <1>0, <1>6, CallPromised
<1> QED
  BY <1>1, <1>2, <1>3, <1>4, <1>5, <1>6 DEF Next, Step

\* Whatever the instances, MHD and SQLite do between the steps of a request,
\* clients see indivisible creations, unique nicknames and answers that the
\* registry justifies (handler.c:192-355, db.c).
THEOREM Implements == Spec => ImplementsRegistry
<1>1. Init => Promise!Init
  BY DEF Init, SqliteInit, Promise!Init, StateMap, HitMap, AnswerMap
<1>2. RInv /\ [Next]_vars => [Promise!Next]_(Promise!vars)
  BY PromisedStep DEF Promised
<1>3. Spec => []RInv
  BY AnswersExplained, Explained, RowsHaveOrigin, PTL DEF RInv, CreationsAreExplained
<1> QED
  BY <1>1, <1>2, <1>3, PTL DEF Spec, ImplementsRegistry, Promise!Spec

=============================================================================
