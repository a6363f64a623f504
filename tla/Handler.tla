------------------------------ MODULE Handler ------------------------------
(***************************************************************************)
(* The request path of the API: src/src/handler.c and the queries of       *)
(* src/src/db.c, run by every instance over the one database of Sqlite.    *)
(*                                                                         *)
(* An instance is one libmicrohttpd thread (MHD_USE_SELECT_INTERNALLY):    *)
(* it calls handler() for one connection at a time and a call runs to its  *)
(* end before the next, so pc[i] and exec[i] are the whole of its control. *)
(* Calls for other connections interleave between two calls for one        *)
(* request, and the other instance interleaves between any two database    *)
(* accesses.                                                               *)
(*                                                                         *)
(* MHD calls handler() for a POST once when the headers are in, once per   *)
(* piece of the body it has received, and then again and again without     *)
(* data until a response is queued.                                        *)
(***************************************************************************)
EXTENDS Sqlite, Naturals, FiniteSets, FiniteSetsExt

CONSTANTS
  NoReq,      \* no request
  NoPost,     \* *reqptr = NULL
  Input,      \* the requests that clients may send
  Clamp,      \* the first APELIDO_STR_LEN characters of a nickname
  MaxTries,   \* MAX_DB_TRIES
  Limit,      \* the LIMIT of the term search
  MaxFaults   \* bound: how many library calls fail

Kind == {"POST", "ID", "TERM", "COUNT", "BAD", "OTHER"}

(***************************************************************************)
(* A request.  kind: the method and route.  url: a POST url isvalid_url    *)
(* accepts.  ok: the first piece of the body parses to a pessoa (a body    *)
(* cut in two parses only when the rest is blank).  chunks: in how many    *)
(* pieces the body arrives.  apelido: the nickname text that is stored.    *)
(* uuid: what GET /pessoas/[:id] asks for, NoReq when it is no uuid.       *)
(* match: the nicknames the search term occurs in.  sql: the statement the *)
(* term is printed into is one that SQLite takes, which it is not when the *)
(* term cuts it off or ends its literal too early (db.c:324-327).          *)
(*                                                                         *)
(* The text of a term goes into the SQL as it is.  A term that makes other *)
(* statements of it is no Request: what holds here holds for clients that  *)
(* search, and says nothing of the rows after somebody did not.            *)
(***************************************************************************)
Request ==
  [kind : Kind, url : BOOLEAN, ok : BOOLEAN, apelido : Apelido, chunks : Nat,
   uuid : Req \cup {NoReq}, match : SUBSET Apelido, sql : BOOLEAN]

ASSUME HandlerAssumption ==
  /\ NoReq \notin Req
  /\ Input \subseteq Request
  /\ Clamp \in [Apelido -> Apelido]
  /\ MaxTries \in Nat \ {0}
  /\ Limit \in Nat
  /\ MaxFaults \in Nat

\* The Post of handler.c: the stage counter, the response decided so far, and
\* what is known of the Pessoa behind the pointer.
Post ==
  [stage : Nat, http : {201, 404, 422, 500}, pessoa : {"null", "filled", "id"}]

ASSUME NoPostAssumption == NoPost \notin Post

VARIABLES
  \* the event loop of each instance
  pc,       \* where in handler() it is; "loop" in MHD's select
  exec,     \* the request the running call is for
  tries,    \* failed db_open calls of the running GET
  ret,      \* the DB_GET_RESULT of the running GET
  \* each request and its MHD connection
  input,    \* what was sent
  at,       \* the instance that received it
  phase,    \* the state of the connection
  left,     \* pieces of the body still to come
  post,     \* *reqptr
  reply,    \* the status queued, 0 for none
  seen,     \* the rows its query returned
  \* history
  known,    \* the rows committed when it was sent
  hurt,     \* what went wrong around it: failed calls, a lost peer, a dead instance
  faults    \* failed calls so far

loopVars == <<pc, exec, tries, ret>>
connVars == <<input, at, phase, left, post, reply, seen>>
histVars == <<known, hurt, faults>>
vars == <<db, loopVars, connVars, histVars>>

Init ==
  /\ SqliteInit
  /\ pc = [i \in Inst |-> "loop"]
  /\ exec = [i \in Inst |-> NoReq]
  /\ tries = [i \in Inst |-> 0]
  /\ ret = [i \in Inst |-> "none"]
  /\ input \in [Req -> Input]
  /\ at = [r \in Req |-> NoInst]
  /\ phase = [r \in Req |-> "new"]
  /\ left = [r \in Req |-> 0]
  /\ post = [r \in Req |-> NoPost]
  /\ reply = [r \in Req |-> 0]
  /\ seen = [r \in Req |-> {}]
  /\ known = [r \in Req |-> {}]
  /\ hurt = [r \in Req |-> {}]
  /\ faults = 0

(***************************************************************************)
(* Helpers                                                                 *)
(***************************************************************************)

IsPost(r) == input[r].kind = "POST"

\* MHD may call handler() for r, whose connection is in state ph.
Callable(i, r, ph) ==
  /\ pc[i] = "loop"
  /\ at[r] = i
  /\ phase[r] = ph

\* Mutant: the end of the upload is not seen.
UploadNeverEnds(n) == "body"

\* The connection's state once n pieces of the upload remain.
Upload(n) == IF n = 0 THEN "full" ELSE "body"

Goto(i, l) == pc' = [pc EXCEPT ![i] = l]

NoFault == UNCHANGED <<hurt, faults>>

\* A library call made for r fails for another reason than a taken lock:
\* "memory" (calloc, malloc, MHD), "open", "query" (a SELECT) or "insert".
Fault(r, what) ==
  /\ faults < MaxFaults
  /\ faults' = faults + 1
  /\ hurt' = [hurt EXCEPT ![r] = @ \cup {what}]

\* Mutant: an id nobody has is answered with an empty pessoa.
StatusWithoutMiss(k, res) == IF res = "error" THEN 500 ELSE 200

\* The status get_handler and its two helpers give for a query's result: an
\* error while looking for an id is a 404.
GetStatus(k, res) ==
  CASE res = "ok" -> 200
    [] res # "ok" /\ k = "ID" -> 404
    [] OTHER -> 500

\* handler() returns to MHD at the end of a call that used the database.
Return(i) ==
  /\ Goto(i, "loop")
  /\ exec' = [exec EXCEPT ![i] = NoReq]
  /\ tries' = [tries EXCEPT ![i] = 0]
  /\ ret' = [ret EXCEPT ![i] = "none"]

\* MHD_queue_response takes the response.
Queue(r, code) ==
  /\ reply' = [reply EXCEPT ![r] = code]
  /\ phase' = [phase EXCEPT ![r] = "queued"]

\* It does not: MHD_NO, and MHD closes the connection.
Refuse(r) ==
  /\ phase' = [phase EXCEPT ![r] = "failed"]
  /\ UNCHANGED reply

\* The end of a GET.  A response that could not be built becomes a 500, and
\* without memory for that one either there is none.
AnswerGet(r, code) ==
  \/ Queue(r, code) /\ NoFault
  \/ Fault(r, "memory") /\ (Queue(r, 500) \/ Refuse(r))

(***************************************************************************)
(* Clients and MHD                                                         *)
(***************************************************************************)

Send(r) ==
  /\ phase[r] = "new"
  /\ phase' = [phase EXCEPT ![r] = "sent"]
  /\ known' = [known EXCEPT ![r] = rows]
  /\ UNCHANGED <<db, loopVars, input, at, left, post, reply, seen, hurt, faults>>

\* Instance i has read the headers of r.
Receive(i, r) ==
  /\ phase[r] = "sent"
  /\ phase' = [phase EXCEPT ![r] = "headers"]
  /\ at' = [at EXCEPT ![r] = i]
  /\ left' = [left EXCEPT ![r] = input[r].chunks]
  /\ UNCHANGED <<db, loopVars, input, post, reply, seen, histVars>>

\* The peer goes away, or nginx gives up after proxy_read_timeout: MHD drops
\* the connection between two calls.
Abort(i, r) ==
  /\ \E ph \in {"headers", "body", "full", "queued"} : Callable(i, r, ph)
  /\ phase' = [phase EXCEPT ![r] = "failed"]
  /\ reply' = [reply EXCEPT ![r] = 0]
  /\ hurt' = [hurt EXCEPT ![r] = @ \cup {"abort"}]
  /\ UNCHANGED <<db, loopVars, input, at, left, post, seen, known, faults>>

\* Mutant: the Post of a connection that broke is not freed.
ReleaseAnswered(r) ==
  post' = IF phase[r] = "queued" THEN [post EXCEPT ![r] = NoPost] ELSE post

\* free(post->pessoa), free(post).
Release(r) == post' = [post EXCEPT ![r] = NoPost]

\* request_completed: after the response was sent, or after handler() said
\* MHD_NO or the peer left.
RequestCompleted(i, r) ==
  /\ \/ /\ Callable(i, r, "queued")
        /\ phase' = [phase EXCEPT ![r] = "done"]
     \/ /\ Callable(i, r, "failed")
        /\ phase' = [phase EXCEPT ![r] = "closed"]
  /\ Release(r)
  /\ UNCHANGED <<db, loopVars, input, at, left, reply, seen, histVars>>

(***************************************************************************)
(* handler(): a POST                                                       *)
(***************************************************************************)

\* A Post as calloc and handler.c:227-228 leave it.
NewPost == [stage |-> 0, http |-> 500, pessoa |-> "null"]

\* NULL == *reqptr: a Post is made; without memory MHD_NO.
FirstCall(i, r) ==
  /\ Callable(i, r, "headers")
  /\ IsPost(r)
  /\ \/ /\ post' = [post EXCEPT ![r] = NewPost]
        /\ phase' = [phase EXCEPT ![r] = Upload(left[r])]
        /\ NoFault
        /\ UNCHANGED reply
     \/ Fault(r, "memory") /\ Refuse(r) /\ UNCHANGED post
  /\ UNCHANGED <<db, loopVars, input, at, left, seen, known>>

\* Mutant: the stage does not advance.
DecideAgain(r, code, p) ==
  post' = [post EXCEPT ![r] = [stage |-> 0, http |-> code, pessoa |-> p]]

\* post->stage += 1, and the status the response will have.
Decide(r, code, p) ==
  post' = [post EXCEPT ![r] = [stage |-> 1, http |-> code, pessoa |-> p]]

\* POST_STAGE_PROCESSING as far as db_open, for a piece of data or for none.
\* json_parse is NULL for no data, for no JSON and for no memory, and each is
\* a 422; only the calloc of the Pessoa gives a 500.
Processing(i, r, data_size) ==
  LET stay == UNCHANGED <<pc, exec>> IN
  \/ ~input[r].url /\ Decide(r, 404, "null") /\ stay /\ NoFault
  \/ /\ input[r].url /\ Fault(r, "memory") /\ stay
     /\ Decide(r, 500, "null") \/ Decide(r, 422, "filled")
  \/ /\ input[r].url /\ ~(data_size > 0 /\ input[r].ok)
     /\ Decide(r, 422, "filled") /\ stay /\ NoFault
  \/ /\ input[r].url /\ data_size > 0 /\ input[r].ok
     /\ Decide(r, 500, "filled")
     /\ Goto(i, "open")
     /\ exec' = [exec EXCEPT ![i] = r]
     /\ NoFault

\* The first piece of the body is taken for the whole of it.
FirstChunk(i, r) ==
  /\ Callable(i, r, "body")
  /\ post[r].stage = 0
  /\ Processing(i, r, 1)
  /\ left' = [left EXCEPT ![r] = @ - 1]
  /\ phase' = [phase EXCEPT ![r] = Upload(left[r] - 1)]
  /\ UNCHANGED <<db, tries, ret, input, at, reply, seen, known>>

\* A second piece arrives in POST_STAGE_RESPONSING: MHD refuses a response
\* before the upload is complete, and its MHD_NO is returned.
NextChunk(i, r) ==
  /\ Callable(i, r, "body")
  /\ post[r].stage = 1
  /\ post' = [post EXCEPT ![r].stage = 2]
  /\ left' = [left EXCEPT ![r] = @ - 1]
  /\ Refuse(r)
  /\ UNCHANGED <<db, loopVars, input, at, seen, histVars>>

\* A POST without a body: POST_STAGE_PROCESSING runs on the first final call.
EmptyBody(i, r) ==
  /\ Callable(i, r, "full")
  /\ post[r].stage = 0
  /\ Processing(i, r, 0)
  /\ UNCHANGED <<db, tries, ret, input, at, phase, left, reply, seen, known>>

\* POST_STAGE_RESPONSING.
Respond(i, r) ==
  /\ Callable(i, r, "full")
  /\ post[r].stage = 1
  /\ post' = [post EXCEPT ![r].stage = 2]
  /\ \/ Queue(r, post[r].http) /\ NoFault
     \/ Fault(r, "memory") /\ Refuse(r)
  /\ UNCHANGED <<db, loopVars, input, at, left, seen, known>>

(***************************************************************************)
(* handler(): a GET, or another method                                     *)
(***************************************************************************)

\* A route get_handler does not have, or an id uuid_parse refuses.
NoQuery(r) ==
  \/ input[r].kind = "BAD"
  \/ input[r].kind = "ID" /\ input[r].uuid = NoReq

RefuseGet(i, r) ==
  /\ Callable(i, r, "headers")
  /\ NoQuery(r)
  /\ AnswerGet(r, IF input[r].kind = "BAD" THEN 400 ELSE 404)
  /\ UNCHANGED <<db, loopVars, input, at, left, post, seen, known>>

StartGet(i, r) ==
  /\ Callable(i, r, "headers")
  /\ input[r].kind \in {"ID", "TERM", "COUNT"}
  /\ ~NoQuery(r)
  /\ Goto(i, "open")
  /\ exec' = [exec EXCEPT ![i] = r]
  /\ UNCHANGED <<db, tries, ret, connVars, histVars>>

\* MHD refuses the NULL response of any other method: MHD_NO, no 405.
OtherMethod(i, r) ==
  /\ Callable(i, r, "headers")
  /\ input[r].kind = "OTHER"
  /\ Refuse(r)
  /\ UNCHANGED <<db, loopVars, input, at, left, post, seen, histVars>>

(***************************************************************************)
(* The database access of the running call                                 *)
(***************************************************************************)

\* db_open, the lazy sqlite3_open and the PRAGMA that first reads the file.
OpenOk(i) ==
  /\ pc[i] = "open"
  /\ Connect(i)
  /\ Goto(i, IF IsPost(exec[i]) THEN "check" ELSE "read")
  /\ UNCHANGED <<exec, tries, ret, connVars, histVars>>

\* Mutant: one try too few.
GivesUpEarly(k, n) == k \in {"POST", "COUNT"} \/ n >= MaxTries - 1

\* After n failed calls of db_open; only the searches try again.
GivesUp(k, n) == k \in {"POST", "COUNT"} \/ n = MaxTries

\* The last db_open of a GET fails, and then memory for its answer: what handler()
\* puts in its place is a 500, or NULL.
GetFailsTwice(r) ==
  /\ ~IsPost(r)
  /\ faults + 1 < MaxFaults
  /\ faults' = faults + 2
  /\ hurt' = [hurt EXCEPT ![r] = @ \cup {"open", "memory"}]
  /\ Queue(r, 500) \/ Refuse(r)

\* db_open fails.
OpenFail(i) ==
  LET r == exec[i]
      k == input[r].kind
  IN
  /\ pc[i] = "open"
  /\ \/ /\ ~GivesUp(k, tries[i] + 1)
        /\ Fault(r, "open")
        /\ tries' = [tries EXCEPT ![i] = @ + 1]
        /\ UNCHANGED <<pc, exec, ret, reply, phase>>
     \/ /\ GivesUp(k, tries[i] + 1)
        /\ Return(i)
        /\ \/ IsPost(r) /\ Fault(r, "open") /\ UNCHANGED <<reply, phase>>
           \/ ~IsPost(r) /\ Fault(r, "open") /\ Queue(r, GetStatus(k, "error"))
           \/ GetFailsTwice(r)
  /\ UNCHANGED <<db, input, at, left, post, seen, known>>

\* Mutants: no look at the answer; OK and NOT_FOUND swapped; the status left at
\* its default; no db_close on the refusal.
DecisionBlind(found) == [http |-> 201, pessoa |-> "id", next |-> "insert"]
DecisionSwapped(found) ==
  IF ~found THEN [http |-> 422, pessoa |-> "filled", next |-> "close"]
  ELSE [http |-> 201, pessoa |-> "id", next |-> "insert"]
DecisionDefault(found) ==
  IF found THEN [http |-> 422, pessoa |-> "filled", next |-> "close"]
  ELSE [http |-> 500, pessoa |-> "id", next |-> "insert"]
DecisionLeaves(found) ==
  IF found THEN [http |-> 422, pessoa |-> "filled", next |-> "loop"]
  ELSE [http |-> 201, pessoa |-> "id", next |-> "insert"]

\* What handler() does with the answer of db_get_apelido_exists.
Decision(found) ==
  IF found THEN [http |-> 422, pessoa |-> "filled", next |-> "close"]
  ELSE [http |-> 201, pessoa |-> "id", next |-> "insert"]

\* db_get_apelido_exists, which looks for the first 32 characters only; a uuid
\* is drawn and the 201 decided before anything is stored.
Check(i) ==
  LET r == exec[i]
      d == Decision(HasApelido(Clamp[input[r].apelido]))
  IN
  /\ pc[i] = "check"
  /\ post' = [post EXCEPT ![r].http = d.http, ![r].pessoa = d.pessoa]
  /\ Goto(i, d.next)
  /\ UNCHANGED <<db, exec, tries, ret, input, at, phase, left, reply, seen, histVars>>

\* The default status, 500, stays.
CheckFail(i) ==
  /\ pc[i] = "check"
  /\ Fault(exec[i], "query")
  /\ Goto(i, "close")
  /\ UNCHANGED <<db, exec, tries, ret, connVars, known>>

\* Mutant: sqlite3_step is not called again when it is BUSY.
InsertOnce(i) ==
  /\ pc[i] = "insert"
  /\ \/ BeginWrite(i) /\ Goto(i, "commit")
     \/ writer # NoInst /\ UNCHANGED db /\ Goto(i, "close")
  /\ UNCHANGED <<exec, tries, ret, connVars, histVars>>

\* db_insert_pessoa: sqlite3_step takes the write lock, waiting for it as long
\* as it must, and commits.  handler() does not look at what it returns.
InsertBegin(i) ==
  /\ pc[i] = "insert"
  /\ BeginWrite(i)
  /\ Goto(i, "commit")
  /\ UNCHANGED <<exec, tries, ret, connVars, histVars>>

InsertCommit(i) ==
  /\ pc[i] = "commit"
  /\ CommitRow(i, exec[i], input[exec[i]].apelido)
  /\ Goto(i, "close")
  /\ UNCHANGED <<exec, tries, ret, connVars, histVars>>

InsertFail(i) ==
  /\ pc[i] \in {"insert", "commit"}
  /\ Fault(exec[i], "insert")
  /\ Rollback(i)
  /\ Goto(i, "close")
  /\ UNCHANGED <<exec, tries, ret, connVars, known>>

\* Mutant: a SELECT that is BUSY is taken for one without rows.
MatchingOnce(r) ==
  CASE writer # NoInst         -> {}
    [] input[r].kind = "ID"   -> {x \in rows : x.uuid = input[r].uuid}
    [] input[r].kind = "TERM" -> {x \in rows : x.apelido \in input[r].match}
    [] OTHER                  -> rows

\* The rows a GET's SELECT matches.
Matching(r) ==
  CASE input[r].kind = "ID"   -> {x \in rows : x.uuid = input[r].uuid}
    [] input[r].kind = "TERM" -> {x \in rows : x.apelido \in input[r].match}
    [] OTHER                  -> rows

\* The term search returns at most Limit of its rows, in no order.
Selections(r) ==
  IF input[r].kind = "TERM" /\ Cardinality(Matching(r)) > Limit
  THEN kSubset(Limit, Matching(r))
  ELSE {Matching(r)}

\* The term has made an error of its statement.
Spoilt(r) == input[r].kind = "TERM" /\ ~input[r].sql

\* db_get_pessoa, db_get_pessoas_term, db_count_pessoas.
Read(i) ==
  LET r == exec[i] IN
  /\ pc[i] = "read"
  /\ \/ /\ ~Spoilt(r)
        /\ \E s \in Selections(r) :
             /\ seen' = [seen EXCEPT ![r] = s]
             /\ ret' = [ret EXCEPT ![i] =
                          IF input[r].kind = "ID" /\ s = {} THEN "notfound" ELSE "ok"]
     \/ /\ Spoilt(r)
        /\ ret' = [ret EXCEPT ![i] = "error"]
        /\ UNCHANGED seen
  /\ Goto(i, "close")
  /\ UNCHANGED <<db, exec, tries, input, at, phase, left, post, reply, histVars>>

ReadFail(i) ==
  /\ pc[i] = "read"
  /\ Fault(exec[i], "query")
  /\ ret' = [ret EXCEPT ![i] = "error"]
  /\ Goto(i, "close")
  /\ UNCHANGED <<db, exec, tries, connVars, known>>

\* db_close by the last one in.
CloseLast(i) ==
  /\ pc[i] = "close"
  /\ BeginCheckpoint(i)
  /\ Goto(i, "checkpoint")
  /\ UNCHANGED <<exec, tries, ret, connVars, histVars>>

\* db_close is over and the call returns: a POST waits for its next call, a
\* GET has its answer.
Close(i) ==
  LET r == exec[i] IN
  /\ \/ pc[i] = "close" /\ opened # {i}
     \/ pc[i] = "checkpoint"
  /\ Disconnect(i)
  /\ Return(i)
  /\ \/ IsPost(r) /\ NoFault /\ UNCHANGED <<reply, phase>>
     \/ ~IsPost(r) /\ AnswerGet(r, GetStatus(input[r].kind, ret[i]))
  /\ UNCHANGED <<input, at, left, post, seen, known>>

-----------------------------------------------------------------------------

\* A call of handler() that MHD makes for r.
Call(i, r) ==
  \/ FirstCall(i, r) \/ FirstChunk(i, r) \/ NextChunk(i, r) \/ EmptyBody(i, r)
  \/ Respond(i, r)
  \/ RefuseGet(i, r) \/ StartGet(i, r) \/ OtherMethod(i, r)

\* The call instance i is in goes on.
Continue(i) ==
  \/ OpenOk(i) \/ Check(i) \/ InsertBegin(i) \/ InsertCommit(i) \/ Read(i)
  \/ CloseLast(i) \/ Close(i)

Failure(i) == OpenFail(i) \/ CheckFail(i) \/ InsertFail(i) \/ ReadFail(i)

Step(i) ==
  \/ Continue(i)
  \/ \E r \in Req : Call(i, r) \/ RequestCompleted(i, r)

Next ==
  \/ \E r \in Req : Send(r)
  \/ \E i \in Inst :
       \/ Step(i)
       \/ Failure(i)
       \/ \E r \in Req : Receive(i, r) \/ Abort(i, r)

Spec == Init /\ [][Next]_vars

\* An instance that can take a step takes one: its thread is scheduled, and the
\* loop of DB_COMMAND_INNER comes back after every sleep.  A request reaches an
\* instance.  Nothing fails, and nobody hangs up, by fairness.
FairSpec ==
  /\ Spec
  /\ \A i \in Inst : WF_vars(Step(i))
  /\ \A r \in Req : WF_vars(\E i \in Inst : Receive(i, r))

(***************************************************************************)
(* Properties                                                              *)
(***************************************************************************)

Pc == {"loop", "open", "check", "insert", "commit", "read", "close", "checkpoint"}
Phase == {"new", "sent", "headers", "body", "full", "queued", "failed", "done", "closed"}
Code == {200, 201, 400, 404, 422, 500}

\* Every variable has its type; the stage of a Post stays one of Post_stage
\* (handler.c:8-12).
TypeOK ==
  /\ SqliteTypeOK
  /\ pc \in [Inst -> Pc]
  /\ exec \in [Inst -> Req \cup {NoReq}]
  /\ tries \in [Inst -> 0..(MaxTries - 1)]
  /\ ret \in [Inst -> {"none", "ok", "notfound", "error"}]
  /\ input \in [Req -> Input]
  /\ at \in [Req -> Inst \cup {NoInst}]
  /\ phase \in [Req -> Phase]
  /\ left \in [Req -> Nat]
  /\ post \in [Req -> Post \cup {NoPost}]
  /\ \A r \in Req : post[r] # NoPost => post[r].stage \in 0..2
  /\ reply \in [Req -> Code \cup {0}]
  /\ seen \in [Req -> SUBSET Row]
  /\ known \in [Req -> SUBSET Row]
  /\ hurt \in [Req -> SUBSET {"memory", "open", "query", "insert", "abort", "crash"}]
  /\ faults \in 0..MaxFaults

\* The client has got reply[r].
Delivered(r) == phase[r] = "done"

\* No nickname is stored twice, whatever two instances do between the SELECT
\* of db_get_apelido_exists and the INSERT (db.c:200-240, db.c:107-180).
UniqueApelido == \A x, y \in rows : x.apelido = y.apelido => x = y

\* After a 201 the nickname is taken: by this request's row or, when another
\* instance's INSERT came between, by the row that beat it.  Only an INSERT
\* that failed leaves it free (handler.c:303-309).
CreatedIsTaken ==
  \A r \in Req :
    Delivered(r) /\ reply[r] = 201 /\ "insert" \notin hurt[r]
      => HasApelido(input[r].apelido)

\* A row comes from a well-formed POST for which 201 was decided, and the
\* client is never told anything else: no refusal of a resource that was
\* created (handler.c:244-316, 318-338).
RowsAreCreated ==
  \A x \in rows :
    LET r == x.uuid IN
    /\ IsPost(r) /\ input[r].url /\ input[r].ok /\ input[r].chunks > 0
    /\ x.apelido = input[r].apelido
    /\ post[r] # NoPost => post[r].http = 201
    /\ reply[r] \in {0, 201}

\* A well-formed POST is refused only for a nickname that is taken
\* (handler.c:298-302); json_parse without memory looks like a bad body.
DuplicateIsTrue ==
  \A r \in Req :
    /\ Delivered(r) /\ reply[r] = 422
    /\ input[r].url /\ input[r].ok /\ input[r].chunks > 0
    /\ "memory" \notin hurt[r]
    => HasApelido(Clamp[input[r].apelido])

\* A nickname stored before the POST was sent is refused, when it has at most
\* APELIDO_STR_LEN characters.
DuplicateIsRefused ==
  \A r \in Req :
    /\ Delivered(r) /\ reply[r] = 201
    /\ Clamp[input[r].apelido] = input[r].apelido
    => \A x \in known[r] : x.apelido # input[r].apelido

\* A 500 has its cause: the one a Post is made with (handler.c:228) never gets
\* through by itself, the searches outlive MAX_DB_TRIES - 1 failures of db_open
\* (handler.c:57-64, 81-88), and a statement is an error only by its own term.
ErrorHasCause ==
  \A r \in Req :
    Delivered(r) /\ reply[r] = 500 =>
      \/ hurt[r] \cap {"memory", "query"} # {}
      \/ Spoilt(r)
      \/ "open" \in hurt[r] /\ input[r].kind \in {"POST", "COUNT"}
      \/ "open" \in hurt[r] /\ faults >= MaxTries

\* A connection is closed without an answer only when memory ran out, when the
\* peer left, for a method that is neither GET nor POST (handler.c:352), or for
\* a body that came in pieces (handler.c:318-325).
CloseHasCause ==
  \A r \in Req :
    phase[r] \in {"failed", "closed"} =>
      \/ hurt[r] \cap {"memory", "abort"} # {}
      \/ input[r].kind = "OTHER"
      \/ input[r].chunks > 1

\* Every failure that a client sees, an error or a connection that is closed, has
\* its cause in a call that failed, in a peer or in what the client sent; an
\* answer that was decided is never lost on the way to it.
FailuresHaveCause == ErrorHasCause /\ CloseHasCause

\* The Post behind *reqptr: none before the first call or after
\* request_completed; stage 0 or 1 whenever handler() is called again, so the
\* branches marked unreachable (handler.c:238, 340) are; and an id to build the
\* Location header from exactly when 201 is the status (handler.c:327-330).
PostLifecycle ==
  \A r \in Req :
    /\ phase[r] \in {"new", "sent", "headers", "done", "closed"} => post[r] = NoPost
    /\ phase[r] \in {"body", "full"} => post[r] # NoPost /\ post[r].stage \in {0, 1}
    /\ post[r] # NoPost => (post[r].http = 201 <=> post[r].pessoa = "id")

\* Connections are opened and closed in pairs on every path of every handler,
\* and the locks are held only where SQLite holds them: nobody is connected
\* during the checkpoint of the last sqlite3_close, so no query meets a BUSY
\* that is not the write lock.
ConnectionDiscipline ==
  /\ opened = {i \in Inst : pc[i] \notin {"loop", "open"}}
  /\ \A i \in Inst :
       /\ writer = i <=> pc[i] = "commit"
       /\ excl = i <=> pc[i] = "checkpoint"
  /\ excl # NoInst => opened = {excl}

\* A call that uses the database runs for a request of its own instance, which
\* MHD touches no more until the call returns: a POST in POST_STAGE_PROCESSING,
\* on its way to an INSERT only with 201 decided, or a GET that is unanswered.
Running(i) ==
  LET r == exec[i] IN
  /\ pc[i] # "loop" =>
       /\ r \in Req /\ at[r] = i
       /\ IF IsPost(r)
          THEN phase[r] \in {"body", "full"} /\ post[r].stage = 1 /\ pc[i] # "read"
          ELSE phase[r] = "headers" /\ pc[i] \notin {"check", "insert", "commit"}
  /\ pc[i] \in {"insert", "commit"} => post[r].http = 201

\* Both instances' calls run undisturbed, only a POST uploads, and nothing is
\* answered while it does: what lets handler() keep a Post in *reqptr between
\* its calls (handler.c:233-248).
Control ==
  /\ \A i \in Inst : Running(i)
  /\ \A r \in Req :
       /\ phase[r] \in {"body", "full"} => IsPost(r)
       /\ phase[r] = "body" => left[r] > 0
       /\ reply[r] # 0 => phase[r] \in {"queued", "done"}

\* A 201 that is decided but not yet told has its nickname taken, an INSERT
\* that failed, or the INSERT still ahead of it (handler.c:303-308).
CreatedIsExplained ==
  \A r \in Req :
    LET explained == HasApelido(input[r].apelido) \/ "insert" \in hurt[r]
        ahead == \E i \in Inst : exec[i] = r /\ pc[i] \in {"insert", "commit"}
    IN
    /\ post[r] # NoPost /\ post[r].http = 201 => explained \/ ahead
    /\ reply[r] = 201 => explained

\* POST_STAGE_PROCESSING stores a row at most once, and only for a body that was
\* taken: no row before the call that inserts it, none while the stage is 0
\* (handler.c:236-248, 303-307).
CreatedOnce ==
  LET stored(r) == \E x \in rows : x.uuid = r IN
  /\ \A i \in Inst :
       LET r == exec[i] IN
       pc[i] \in {"open", "check", "insert", "commit"} /\ IsPost(r)
         => /\ input[r].url /\ input[r].ok /\ input[r].chunks > 0
            /\ ~stored(r)
  /\ \A r \in Req :
       /\ left[r] <= input[r].chunks
       /\ stored(r) => /\ phase[r] \notin {"new", "sent", "headers"}
                       /\ post[r] # NoPost => post[r].stage > 0

\* From the stage that decides on a 201 to the callback that sends it, one INSERT
\* at most stands behind it: the one ahead, the one that failed, or the row that
\* took the nickname, be it of the other instance (handler.c:303-308).
CreationsAreExplained == CreatedOnce /\ CreatedIsExplained

\* What a GET answers is in the database and misses nothing that was there
\* when the request was sent: the count, the rows of a search with fewer than
\* Limit hits, and the id, unless a failed call was reported as a 404.
ReadsAreFresh ==
  \A r \in Req :
    LET before == {x \in known[r] :
                     CASE input[r].kind = "ID"   -> x.uuid = input[r].uuid
                       [] input[r].kind = "TERM" -> x.apelido \in input[r].match
                       [] OTHER                  -> TRUE}
    IN
    /\ seen[r] \subseteq rows
    /\ Delivered(r) /\ reply[r] = 200 =>
         \/ before \subseteq seen[r]
         \/ input[r].kind = "TERM" /\ Cardinality(seen[r]) = Limit
    /\ Delivered(r) /\ reply[r] = 404 /\ input[r].kind = "ID"
         /\ hurt[r] \cap {"open", "query"} = {}
         => before = {}

\* Every request that was sent is answered, or its connection closed, although
\* every database call waits for locks without a limit (db.c:28-33).
Answered ==
  \A r \in Req : phase[r] = "sent" ~> phase[r] \in {"done", "closed"}

(***************************************************************************)
(* What the documentation and the comments say, and the code does not do   *)
(***************************************************************************)

\* API_DOC.md:6-7: a POST creates a new resource; here, after every 201 the
\* resource of its Location header is stored.
CreatedIsStored ==
  \A r \in Req :
    Delivered(r) /\ reply[r] = 201 => \E x \in rows : x.uuid = r

\* db.c:9: apelido is UNIQUE, and handler.c:282 checks if it exists; here,
\* whatever the length of the nickname.
EveryDuplicateIsRefused ==
  \A r \in Req :
    Delivered(r) /\ reply[r] = 201
      => \A x \in known[r] : x.apelido # input[r].apelido

\* handler.c:235: taking the data leads to the next stage, POST_STAGE_RESPONSING;
\* here, every POST that nothing happened to gets its response.
UploadIsAnswered ==
  \A r \in Req : IsPost(r) /\ phase[r] = "closed" => hurt[r] # {}
=============================================================================
