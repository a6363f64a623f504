--------------------------- MODULE HandlerProofs ---------------------------
(***************************************************************************)
(* What module Handler keeps for every number of instances, requests,      *)
(* nicknames, tries and failing calls.                                     *)
(*                                                                         *)
(* IInv, the inductive invariant, says where each call of handler() is and *)
(* what that says of its Post; the locks, the rows and the 201s follow     *)
(* from it, each by an invariant of its own on top of IInv.                *)
(***************************************************************************)
EXTENDS Handler, TLAPS

USE NoInstAssumption, HandlerAssumption, NoPostAssumption

IInv == TypeOK /\ PostLifecycle /\ Control

-----------------------------------------------------------------------------
(***************************************************************************)
(* The helpers of the actions                                              *)
(***************************************************************************)

HistOK ==
  /\ hurt \in [Req -> SUBSET {"memory", "open", "query", "insert", "abort", "crash"}]
  /\ faults \in 0..MaxFaults

\* A library call, failed or not, leaves the history well-typed.
LEMMA FaultType ==
  ASSUME TypeOK, NEW r \in Req, NEW what \in {"memory", "open", "query", "insert"},
         NoFault \/ Fault(r, what)
  PROVE  HistOK'
<1>1. CASE NoFault
  BY <1>1 DEF TypeOK, NoFault, HistOK
<1>2. CASE Fault(r, what)
  BY <1>2 DEF TypeOK, Fault, HistOK
<1> QED
  BY <1>1, <1>2

\* Two failing calls of one step leave it so as well, and end the call.
LEMMA GetFailsTwiceType ==
  ASSUME TypeOK, NEW r \in Req, GetFailsTwice(r)
  PROVE  /\ HistOK'
         /\ reply' \in [Req -> Code \cup {0}]
         /\ phase' \in [Req -> Phase]
<1>1. HistOK'
  BY HandlerAssumption DEF TypeOK, GetFailsTwice, HistOK
<1> QED
  BY <1>1 DEF TypeOK, GetFailsTwice, Queue, Refuse, Code, Phase

\* get_handler knows three statuses once it has used the database
\* (handler.c:107-155).
LEMMA GetStatusType ==
  ASSUME NEW k, NEW res
  PROVE  GetStatus(k, res) \in {200, 404, 500}
  BY DEF GetStatus

\* The end of a GET leaves the connection answered or broken.
LEMMA AnswerGetType ==
  ASSUME TypeOK, NEW r \in Req, NEW code \in Code, AnswerGet(r, code)
  PROVE  /\ HistOK'
         /\ reply' \in [Req -> Code \cup {0}]
         /\ phase' \in [Req -> Phase]
<1>1. HistOK'
  BY FaultType DEF AnswerGet
<1>2. CASE \E c \in Code : Queue(r, c)
  BY <1>1, <1>2 DEF TypeOK, Queue, Code, Phase
<1>3. CASE Refuse(r)
  BY <1>1, <1>3 DEF TypeOK, Refuse, Code, Phase
<1> QED
  BY <1>2, <1>3 DEF AnswerGet, Code

\* POST_STAGE_PROCESSING decides an error, or goes on to the database.
LEMMA ProcessingType ==
  ASSUME TypeOK, NEW i \in Inst, NEW r \in Req, NEW size \in Nat,
         Processing(i, r, size)
  PROVE  /\ HistOK'
         /\ \E code \in {404, 422, 500}, p \in {"null", "filled"} :
              post' = [post EXCEPT ![r] = [stage |-> 1, http |-> code, pessoa |-> p]]
         /\ \/ UNCHANGED <<pc, exec>>
            \/ /\ input[r].url /\ input[r].ok /\ size > 0
               /\ pc' = [pc EXCEPT ![i] = "open"]
               /\ exec' = [exec EXCEPT ![i] = r]
<1>1. HistOK'
  BY FaultType DEF Processing
<1> QED
  BY <1>1 DEF Processing, Decide, Goto

\* A step of instance i on its own request r disturbs no other instance's call.
LEMMA OthersRun ==
  ASSUME TypeOK, Control, NEW i \in Inst, NEW r \in Req, at[r] = i,
         UNCHANGED <<input, at>>,
         \A q \in Req \ {r} : phase'[q] = phase[q] /\ post'[q] = post[q],
         NEW j \in Inst, j # i, pc'[j] = pc[j], exec'[j] = exec[j]
  PROVE  Running(j)'
<1>1. pc[j] # "loop" => exec[j] # r
  BY DEF Control, Running
<1> QED
  BY <1>1 DEF Control, Running, IsPost

-----------------------------------------------------------------------------
(***************************************************************************)
(* Type correctness and the control of handler()                           *)
(***************************************************************************)

\* The instances start in the event loop, the connections unopened.
LEMMA InitIInv == Init => IInv
<1> SUFFICES ASSUME Init PROVE IInv
  OBVIOUS
<1>1. TypeOK
  BY DEF Init, TypeOK, SqliteInit, SqliteTypeOK, Pc, Phase, Code
<1>2. PostLifecycle
  BY DEF Init, PostLifecycle
<1>3. Control
  BY DEF Init, Control, Running
<1> QED
  BY <1>1, <1>2, <1>3 DEF IInv

\* A client sends.
LEMMA SendIInv ==
  ASSUME IInv, NEW r \in Req, Send(r)
  PROVE  IInv'
<1> USE DEF IInv, Send, IsPost, loopVars, db, connVars, histVars
<1>1. TypeOK'
  BY DEF TypeOK, PostLifecycle, Control, Running, SqliteTypeOK, Phase, Pc,
           Code, Post, Row, Request
<1>2. PostLifecycle'
  BY DEF TypeOK, PostLifecycle, Control, Running, Post
<1>3. Control'
  BY DEF TypeOK, PostLifecycle, Control, Running, Post, Request
<1> QED
  BY <1>1, <1>2, <1>3 DEF IInv

\* MHD reads the headers.
LEMMA ReceiveIInv ==
  ASSUME IInv, NEW i \in Inst, NEW r \in Req, Receive(i, r)
  PROVE  IInv'
<1> USE DEF IInv, Receive, IsPost, loopVars, db, connVars, histVars
<1>1. TypeOK'
  BY DEF TypeOK, PostLifecycle, Control, Running, SqliteTypeOK, Phase, Pc,
           Code, Post, Row, Request
<1>2. PostLifecycle'
  BY DEF TypeOK, PostLifecycle, Control, Running, Post
<1>3. Control'
  BY DEF TypeOK, PostLifecycle, Control, Running, Post, Request
<1> QED
  BY <1>1, <1>2, <1>3 DEF IInv

\* The peer leaves.
LEMMA AbortIInv ==
  ASSUME IInv, NEW i \in Inst, NEW r \in Req, Abort(i, r)
  PROVE  IInv'
<1> USE DEF IInv, Abort, Callable, IsPost, loopVars, db, connVars, histVars
<1>1. TypeOK'
  BY DEF TypeOK, PostLifecycle, Control, Running, SqliteTypeOK, Phase, Pc,
           Code, Post, Row, Request
<1>2. PostLifecycle'
  BY DEF TypeOK, PostLifecycle, Control, Running, Post
<1>3. Control'
  BY DEF TypeOK, PostLifecycle, Control, Running, Post, Request
<1> QED
  BY <1>1, <1>2, <1>3 DEF IInv

\* request_completed (handler.c:176-190).
LEMMA RequestCompletedIInv ==
  ASSUME IInv, NEW i \in Inst, NEW r \in Req, RequestCompleted(i, r)
  PROVE  IInv'
<1> USE DEF IInv, RequestCompleted, Callable, Release, IsPost, loopVars, db,
    connVars, histVars
<1>1. TypeOK'
  <2>1. phase' \in [Req -> Phase]
    BY DEF TypeOK, Phase
  <2>2. /\ post' \in [Req -> Post \cup {NoPost}]
        /\ \A q \in Req : post'[q] # NoPost => post'[q].stage \in 0..2
    BY DEF TypeOK
  <2> QED
    BY <2>1, <2>2 DEF TypeOK, SqliteTypeOK
<1>2. PostLifecycle'
  BY DEF TypeOK, PostLifecycle, Control, Running, Post
<1>3. Control'
  <2>1. ASSUME NEW j \in Inst PROVE Running(j)'
    <3>1. pc[j] # "loop" => exec[j] # r
      BY DEF Control, Running
    <3> QED
      BY <3>1 DEF TypeOK, Control, Running
  <2>2. ASSUME NEW q \in Req
        PROVE  /\ phase'[q] \in {"body", "full"} => IsPost(q)'
               /\ phase'[q] = "body" => left'[q] > 0
               /\ reply'[q] # 0 => phase'[q] \in {"queued", "done"}
    BY DEF TypeOK, Control
  <2> QED
    BY <2>1, <2>2 DEF Control
<1> QED
  BY <1>1, <1>2, <1>3 DEF IInv

\* handler.c:221-231.
LEMMA FirstCallIInv ==
  ASSUME IInv, NEW i \in Inst, NEW r \in Req, FirstCall(i, r)
  PROVE  IInv'
<1> USE DEF IInv, FirstCall, Callable, NewPost, Upload, Refuse, IsPost,
    loopVars, db, connVars, histVars
<1>1. TypeOK'
  <2>1. HistOK'
    BY FaultType
  <2>2. /\ post' \in [Req -> Post \cup {NoPost}]
        /\ \A q \in Req : post'[q] # NoPost => post'[q].stage \in 0..2
    BY DEF TypeOK, Post
  <2>3. phase' \in [Req -> Phase] /\ reply' = reply
    BY DEF TypeOK, Phase
  <2> QED
    BY <2>1, <2>2, <2>3 DEF TypeOK, SqliteTypeOK, HistOK
<1>2. PostLifecycle'
  BY DEF TypeOK, PostLifecycle, Control, Running, Post, NoFault, Fault
<1>3. Control'
  BY DEF TypeOK, PostLifecycle, Control, Running, Post, Request, NoFault,
           Fault
<1> QED
  BY <1>1, <1>2, <1>3 DEF IInv

\* handler.c:244-288 with data.
LEMMA FirstChunkIInv ==
  ASSUME IInv, NEW i \in Inst, NEW r \in Req, FirstChunk(i, r)
  PROVE  IInv'
<1> USE DEF IInv, FirstChunk, Callable, Upload, IsPost, loopVars, db, connVars,
           histVars
<1>1. HistOK'
  BY ProcessingType
<1>2. PICK code \in {404, 422, 500}, p \in {"null", "filled"} :
        post' = [post EXCEPT ![r] = [stage |-> 1, http |-> code, pessoa |-> p]]
  BY ProcessingType
<1>3. \/ UNCHANGED <<pc, exec>>
      \/ /\ pc' = [pc EXCEPT ![i] = "open"]
         /\ exec' = [exec EXCEPT ![i] = r]
  BY ProcessingType
<1>4. TypeOK'
  <2>1. /\ post' \in [Req -> Post \cup {NoPost}]
        /\ \A q \in Req : post'[q] # NoPost => post'[q].stage \in 0..2
    BY <1>2 DEF TypeOK, Post
  <2>2. phase' \in [Req -> Phase] /\ left' \in [Req -> Nat]
    BY DEF TypeOK, Phase, Control
  <2>3. pc' \in [Inst -> Pc] /\ exec' \in [Inst -> Req \cup {NoReq}]
    BY <1>3 DEF TypeOK, Pc
  <2> QED
    BY <1>1, <2>1, <2>2, <2>3 DEF TypeOK, SqliteTypeOK, HistOK
<1>5. PostLifecycle'
  <2>1. [stage |-> 1, http |-> code, pessoa |-> p] \in Post
    BY DEF Post
  <2> QED
    BY <1>2, <2>1 DEF TypeOK, PostLifecycle
<1>6. Control'
  <2>1. ASSUME NEW j \in Inst PROVE Running(j)'
    <3>1. CASE j # i
      BY <1>2, <1>3, <3>1, OthersRun DEF TypeOK
    <3>2. CASE j = i
      <4>1. IsPost(r) /\ pc[i] = "loop" /\ phase'[r] \in {"body", "full"}
        BY DEF Control
      <4>2. post'[r] = [stage |-> 1, http |-> code, pessoa |-> p]
        BY <1>2 DEF TypeOK
      <4> QED
        BY <1>3, <3>2, <4>1, <4>2 DEF TypeOK, Running
    <3> QED
      BY <3>1, <3>2
  <2>2. ASSUME NEW q \in Req
        PROVE  /\ phase'[q] \in {"body", "full"} => IsPost(q)'
               /\ phase'[q] = "body" => left'[q] > 0
               /\ reply'[q] # 0 => phase'[q] \in {"queued", "done"}
    BY DEF TypeOK, Control
  <2> QED
    BY <2>1, <2>2 DEF Control
<1> QED
  BY <1>4, <1>5, <1>6

\* handler.c:318-325 during the upload.
LEMMA NextChunkIInv ==
  ASSUME IInv, NEW i \in Inst, NEW r \in Req, NextChunk(i, r)
  PROVE  IInv'
<1> USE DEF IInv, NextChunk, Callable, Refuse, IsPost, loopVars, db, connVars,
    histVars
<1>1. TypeOK'
  <2>1. /\ post' \in [Req -> Post \cup {NoPost}]
        /\ \A q \in Req : post'[q] # NoPost => post'[q].stage \in 0..2
    BY DEF TypeOK, PostLifecycle, Post
  <2>2. phase' \in [Req -> Phase] /\ left' \in [Req -> Nat]
    BY DEF TypeOK, Control, Phase
  <2> QED
    BY <2>1, <2>2 DEF TypeOK, SqliteTypeOK
<1>2. PostLifecycle'
  BY DEF TypeOK, PostLifecycle, Control, Running, Post
<1>3. Control'
  <2>1. ASSUME NEW j \in Inst PROVE Running(j)'
    <3>1. CASE j # i
      BY <3>1, OthersRun DEF TypeOK
    <3>2. CASE j = i
      BY <3>2 DEF Running
    <3> QED
      BY <3>1, <3>2
  <2>2. ASSUME NEW q \in Req
        PROVE  /\ phase'[q] \in {"body", "full"} => IsPost(q)'
               /\ phase'[q] = "body" => left'[q] > 0
               /\ reply'[q] # 0 => phase'[q] \in {"queued", "done"}
    BY DEF TypeOK, Control
  <2> QED
    BY <2>1, <2>2 DEF Control
<1> QED
  BY <1>1, <1>2, <1>3 DEF IInv

\* handler.c:244-270 without data.
LEMMA EmptyBodyIInv ==
  ASSUME IInv, NEW i \in Inst, NEW r \in Req, EmptyBody(i, r)
  PROVE  IInv'
<1> USE DEF IInv, EmptyBody, Callable, Upload, IsPost, loopVars, db, connVars,
           histVars
<1>1. HistOK'
  BY ProcessingType
<1>2. PICK code \in {404, 422, 500}, p \in {"null", "filled"} :
        post' = [post EXCEPT ![r] = [stage |-> 1, http |-> code, pessoa |-> p]]
  BY ProcessingType
<1>3. \/ UNCHANGED <<pc, exec>>
      \/ /\ pc' = [pc EXCEPT ![i] = "open"]
         /\ exec' = [exec EXCEPT ![i] = r]
  BY ProcessingType
<1>4. TypeOK'
  <2>1. /\ post' \in [Req -> Post \cup {NoPost}]
        /\ \A q \in Req : post'[q] # NoPost => post'[q].stage \in 0..2
    BY <1>2 DEF TypeOK, Post
  <2>2. phase' \in [Req -> Phase] /\ left' \in [Req -> Nat]
    BY DEF TypeOK, Phase, Control
  <2>3. pc' \in [Inst -> Pc] /\ exec' \in [Inst -> Req \cup {NoReq}]
    BY <1>3 DEF TypeOK, Pc
  <2> QED
    BY <1>1, <2>1, <2>2, <2>3 DEF TypeOK, SqliteTypeOK, HistOK
<1>5. PostLifecycle'
  <2>1. [stage |-> 1, http |-> code, pessoa |-> p] \in Post
    BY DEF Post
  <2> QED
    BY <1>2, <2>1 DEF TypeOK, PostLifecycle
<1>6. Control'
  <2>1. ASSUME NEW j \in Inst PROVE Running(j)'
    <3>1. CASE j # i
      BY <1>2, <1>3, <3>1, OthersRun DEF TypeOK
    <3>2. CASE j = i
      <4>1. IsPost(r) /\ pc[i] = "loop" /\ phase'[r] \in {"body", "full"}
        BY DEF Control
      <4>2. post'[r] = [stage |-> 1, http |-> code, pessoa |-> p]
        BY <1>2 DEF TypeOK
      <4> QED
        BY <1>3, <3>2, <4>1, <4>2 DEF TypeOK, Running
    <3> QED
      BY <3>1, <3>2
  <2>2. ASSUME NEW q \in Req
        PROVE  /\ phase'[q] \in {"body", "full"} => IsPost(q)'
               /\ phase'[q] = "body" => left'[q] > 0
               /\ reply'[q] # 0 => phase'[q] \in {"queued", "done"}
    BY DEF TypeOK, Control
  <2> QED
    BY <2>1, <2>2 DEF Control
<1> QED
  BY <1>4, <1>5, <1>6

\* handler.c:318-339.
LEMMA RespondIInv ==
  ASSUME IInv, NEW i \in Inst, NEW r \in Req, Respond(i, r)
  PROVE  IInv'
<1> USE DEF IInv, Respond, Callable, Refuse, Queue, IsPost, loopVars, db,
    connVars, histVars
<1>1. TypeOK'
  <2>1. HistOK'
    BY FaultType
  <2>2. /\ post' \in [Req -> Post \cup {NoPost}]
        /\ \A q \in Req : post'[q] # NoPost => post'[q].stage \in 0..2
    BY DEF TypeOK, Post, PostLifecycle
  <2>3. post[r].http \in Code
    BY DEF TypeOK, Post, PostLifecycle, Code
  <2>4. phase' \in [Req -> Phase] /\ reply' \in [Req -> Code \cup {0}]
    BY <2>3 DEF TypeOK, Phase
  <2> QED
    BY <2>1, <2>2, <2>4 DEF TypeOK, SqliteTypeOK, HistOK
<1>2. PostLifecycle'
  BY DEF TypeOK, PostLifecycle, Control, Running, Post, NoFault, Fault
<1>3. Control'
  <2>1. ASSUME NEW j \in Inst PROVE Running(j)'
    <3>1. CASE j # i
      BY <3>1, OthersRun DEF TypeOK
    <3>2. CASE j = i
      BY <3>2 DEF Running
    <3> QED
      BY <3>1, <3>2
  <2>2. ASSUME NEW q \in Req
        PROVE  /\ phase'[q] \in {"body", "full"} => IsPost(q)'
               /\ phase'[q] = "body" => left'[q] > 0
               /\ reply'[q] # 0 => phase'[q] \in {"queued", "done"}
    BY DEF TypeOK, Control
  <2> QED
    BY <2>1, <2>2 DEF Control
<1> QED
  BY <1>1, <1>2, <1>3 DEF IInv

\* handler.c:128-158.
LEMMA RefuseGetIInv ==
  ASSUME IInv, NEW i \in Inst, NEW r \in Req, RefuseGet(i, r)
  PROVE  IInv'
<1> USE DEF IInv, RefuseGet, Callable, IsPost, loopVars, db, connVars,
    histVars
<1>1. TypeOK'
  <2>1. \E code \in Code : AnswerGet(r, code)
    BY DEF Code
  <2> QED
    BY <2>1, AnswerGetType DEF TypeOK, SqliteTypeOK, HistOK
<1>2. PostLifecycle'
  BY DEF TypeOK, PostLifecycle, Control, Running, Post, NoQuery, AnswerGet,
           Queue, NoFault, Fault, Refuse
<1>3. Control'
  <2>1. ASSUME NEW j \in Inst PROVE Running(j)'
    <3>1. pc[j] # "loop" => exec[j] # r
      BY DEF Control, Running
    <3> QED
      BY <3>1 DEF TypeOK, Control, Running, AnswerGet, Queue, Refuse
  <2>2. ASSUME NEW q \in Req
        PROVE  /\ phase'[q] \in {"body", "full"} => IsPost(q)'
               /\ phase'[q] = "body" => left'[q] > 0
               /\ reply'[q] # 0 => phase'[q] \in {"queued", "done"}
    BY DEF TypeOK, Control, AnswerGet, Queue, Refuse
  <2> QED
    BY <2>1, <2>2 DEF Control
<1> QED
  BY <1>1, <1>2, <1>3 DEF IInv

\* A GET goes to the database.
LEMMA StartGetIInv ==
  ASSUME IInv, NEW i \in Inst, NEW r \in Req, StartGet(i, r)
  PROVE  IInv'
<1> USE DEF IInv, StartGet, Callable, NoQuery, Goto, IsPost, loopVars, db,
    connVars, histVars
<1>1. TypeOK'
  BY DEF TypeOK, PostLifecycle, Control, Running, SqliteTypeOK, Phase, Pc,
           Code, Post, Row, Request
<1>2. PostLifecycle'
  BY DEF TypeOK, PostLifecycle, Control, Running, Post
<1>3. Control'
  BY DEF TypeOK, PostLifecycle, Control, Running, Post, Request
<1> QED
  BY <1>1, <1>2, <1>3 DEF IInv

\* handler.c:349-354.
LEMMA OtherMethodIInv ==
  ASSUME IInv, NEW i \in Inst, NEW r \in Req, OtherMethod(i, r)
  PROVE  IInv'
<1> USE DEF IInv, OtherMethod, Callable, Refuse, IsPost, loopVars, db,
    connVars, histVars
<1>1. TypeOK'
  BY DEF TypeOK, PostLifecycle, Control, Running, SqliteTypeOK, Phase, Pc,
           Code, Post, Row, Request
<1>2. PostLifecycle'
  BY DEF TypeOK, PostLifecycle, Control, Running, Post
<1>3. Control'
  <2>1. ASSUME NEW j \in Inst PROVE Running(j)'
    <3>1. CASE j # i
      BY <3>1, OthersRun DEF TypeOK
    <3>2. CASE j = i
      BY <3>2 DEF Running
    <3> QED
      BY <3>1, <3>2
  <2>2. ASSUME NEW q \in Req
        PROVE  /\ phase'[q] \in {"body", "full"} => IsPost(q)'
               /\ phase'[q] = "body" => left'[q] > 0
               /\ reply'[q] # 0 => phase'[q] \in {"queued", "done"}
    BY DEF TypeOK, Control
  <2> QED
    BY <2>1, <2>2 DEF Control
<1> QED
  BY <1>1, <1>2, <1>3 DEF IInv

\* db_open succeeds.
LEMMA OpenOkIInv ==
  ASSUME IInv, NEW i \in Inst, OpenOk(i)
  PROVE  IInv'
<1> USE DEF IInv, OpenOk, Connect, Goto, IsPost, loopVars, db, connVars,
    histVars
<1>1. TypeOK'
  BY DEF TypeOK, PostLifecycle, Control, Running, SqliteTypeOK, Phase, Pc,
           Code, Post, Row, Request
<1>2. PostLifecycle'
  BY DEF TypeOK, PostLifecycle, Control, Running, Post
<1>3. Control'
  BY DEF TypeOK, PostLifecycle, Control, Running, Post, Request
<1> QED
  BY <1>1, <1>2, <1>3 DEF IInv

\* db_open fails.
LEMMA OpenFailIInv ==
  ASSUME IInv, NEW i \in Inst, OpenFail(i)
  PROVE  IInv'
<1> USE DEF IInv, OpenFail, Goto, Return, Queue, Refuse, IsPost, loopVars, db,
    connVars, histVars
<1>1. TypeOK'
  <2>1. exec[i] \in Req
    BY DEF Control, Running
  <2>2. HistOK'
    BY <2>1, FaultType, GetFailsTwiceType
  <2>3. tries' \in [Inst -> 0..(MaxTries - 1)]
    <3>1. ~GivesUp(input[exec[i]].kind, tries[i] + 1) => tries[i] + 1 \in 0..(MaxTries - 1)
      BY DEF TypeOK, GivesUp
    <3> QED
      BY <3>1 DEF TypeOK
  <2>4. phase' \in [Req -> Phase] /\ reply' \in [Req -> Code \cup {0}]
    BY <2>1, GetStatusType, GetFailsTwiceType DEF TypeOK, Phase, Code
  <2>5. /\ pc' \in [Inst -> Pc] /\ exec' \in [Inst -> Req \cup {NoReq}]
        /\ ret' \in [Inst -> {"none", "ok", "notfound", "error"}]
    BY DEF TypeOK, Pc
  <2> QED
    BY <2>2, <2>3, <2>4, <2>5 DEF TypeOK, SqliteTypeOK, HistOK
<1>2. PostLifecycle'
  BY DEF TypeOK, PostLifecycle, Control, Running, Post, GivesUp, Fault,
           GetFailsTwice, GetStatus
<1>3. Control'
  <2>1. /\ exec[i] \in Req /\ pc[i] = "open" /\ pc'[i] \in {"open", "loop"}
        /\ UNCHANGED <<input, at, left, post>>
        /\ \A j \in Inst \ {i} : pc'[j] = pc[j] /\ exec'[j] = exec[j]
        /\ pc'[i] # "loop" => exec'[i] = exec[i] /\ UNCHANGED <<reply, phase>>
    BY DEF TypeOK, Control, Running
  <2>2. \/ UNCHANGED <<reply, phase>>
        \/ ~IsPost(exec[i]) /\ Queue(exec[i], GetStatus(input[exec[i]].kind, "error"))
        \/ ~IsPost(exec[i]) /\ Queue(exec[i], 500)
        \/ ~IsPost(exec[i]) /\ Refuse(exec[i])
    BY DEF GetFailsTwice
  <2>3. \A q \in Req \ {exec[i]} : phase'[q] = phase[q] /\ reply'[q] = reply[q]
    BY <2>1, <2>2 DEF TypeOK
  <2>4. \/ UNCHANGED <<reply, phase>>
        \/ phase'[exec[i]] = "queued"
        \/ phase'[exec[i]] = "failed" /\ reply'[exec[i]] = 0
    BY <2>1, <2>2 DEF TypeOK, Control, Running
  <2> HIDE DEF OpenFail, Goto, Return, Queue, Refuse
  <2>5. ASSUME NEW j \in Inst PROVE Running(j)'
    <3>1. j # i /\ pc[j] # "loop" => exec[j] # exec[i]
      BY <2>1 DEF Control, Running
    <3> QED
      BY <2>1, <2>3, <3>1 DEF Control, Running
  <2>6. ASSUME NEW q \in Req
        PROVE  /\ phase'[q] \in {"body", "full"} => IsPost(q)'
               /\ phase'[q] = "body" => left'[q] > 0
               /\ reply'[q] # 0 => phase'[q] \in {"queued", "done"}
    BY <2>1, <2>3, <2>4 DEF Control
  <2> QED
    BY <2>5, <2>6 DEF Control
<1> QED
  BY <1>1, <1>2, <1>3 DEF IInv

\* db_get_apelido_exists decides the POST one way or the other and changes
\* nothing else (handler.c:290-316).
LEMMA CheckChanges ==
  ASSUME IInv, NEW i \in Inst, Check(i)
  PROVE  LET r == exec[i] IN
         /\ r \in Req /\ at[r] = i /\ IsPost(r) /\ phase[r] \in {"body", "full"}
         /\ UNCHANGED <<rows, writer, excl, opened, exec, tries, ret, input, at, phase,
                        left, reply, seen, known, hurt, faults>>
         /\ post' \in [Req -> Post \cup {NoPost}]
         /\ \A q \in Req \ {r} : post'[q] = post[q]
         /\ post[r] \in Post /\ post[r].stage = 1
         /\ post'[r] \in Post /\ post'[r].stage = 1
         /\ \/ /\ post'[r].http = 201 /\ post'[r].pessoa = "id"
               /\ pc' = [pc EXCEPT ![i] = "insert"]
            \/ /\ post'[r].http = 422 /\ post'[r].pessoa = "filled"
               /\ pc' = [pc EXCEPT ![i] = "close"]
         /\ pc[i] = "check" /\ post[r] # NoPost /\ post'[r] # NoPost
         /\ \A j \in Inst \ {i} : pc'[j] = pc[j]
         /\ pc'[i] = IF post'[r].http = 201 THEN "insert" ELSE "close"
<1> DEFINE r == exec[i]
<1>1. r \in Req /\ at[r] = i /\ IsPost(r) /\ phase[r] \in {"body", "full"}
  <2>1. pc[i] = "check"
    BY DEF Check
  <2> QED
    BY <2>1 DEF IInv, Control, Running
<1>2. post[r] \in Post /\ post[r].stage = 1
  BY <1>1 DEF IInv, Check, Control, Running, TypeOK, PostLifecycle
<1>3. PICK http \in {201, 422}, p \in {"filled", "id"} :
        /\ post' = [post EXCEPT ![r].http = http, ![r].pessoa = p]
        /\ \/ http = 201 /\ p = "id" /\ pc' = [pc EXCEPT ![i] = "insert"]
           \/ http = 422 /\ p = "filled" /\ pc' = [pc EXCEPT ![i] = "close"]
  <2>1. CASE HasApelido(Clamp[input[r].apelido])
    BY <2>1 DEF Check, Decision, Goto
  <2>2. CASE ~HasApelido(Clamp[input[r].apelido])
    BY <2>2 DEF Check, Decision, Goto
  <2> QED
    BY <2>1, <2>2
<1>4. /\ post' \in [Req -> Post \cup {NoPost}]
      /\ \A q \in Req \ {r} : post'[q] = post[q]
      /\ post'[r] \in Post /\ post'[r].stage = 1
      /\ post'[r].http = http /\ post'[r].pessoa = p
  BY <1>1, <1>2, <1>3 DEF IInv, TypeOK, Post
<1>5. UNCHANGED <<rows, writer, excl, opened, exec, tries, ret, input, at, phase,
                  left, reply, seen, known, hurt, faults>>
  BY DEF Check, db, histVars
<1>6. /\ pc[i] = "check" /\ post[r] # NoPost /\ post'[r] # NoPost
      /\ \A j \in Inst \ {i} : pc'[j] = pc[j]
      /\ pc'[i] = IF post'[r].http = 201 THEN "insert" ELSE "close"
  <2>1. pc[i] = "check"
    BY DEF Check
  <2>2. pc \in [Inst -> Pc]
    BY DEF IInv, TypeOK
  <2> QED
    BY <1>2, <1>3, <1>4, <2>1, <2>2
<1> QED
  BY <1>1, <1>2, <1>3, <1>4, <1>5, <1>6

\* The step of db_get_apelido_exists keeps IInv.
LEMMA CheckIInv ==
  ASSUME IInv, NEW i \in Inst, Check(i)
  PROVE  IInv'
<1> DEFINE r == exec[i]
<1>1. /\ r \in Req /\ at[r] = i /\ IsPost(r) /\ phase[r] \in {"body", "full"}
      /\ UNCHANGED <<rows, writer, excl, opened, exec, tries, ret, input, at, phase,
                     left, reply, seen, known, hurt, faults>>
      /\ post' \in [Req -> Post \cup {NoPost}]
      /\ \A q \in Req \ {r} : post'[q] = post[q]
      /\ post[r] \in Post /\ post[r].stage = 1
      /\ post'[r] \in Post /\ post'[r].stage = 1
      /\ \/ /\ post'[r].http = 201 /\ post'[r].pessoa = "id"
            /\ pc' = [pc EXCEPT ![i] = "insert"]
         \/ /\ post'[r].http = 422 /\ post'[r].pessoa = "filled"
            /\ pc' = [pc EXCEPT ![i] = "close"]
  BY CheckChanges
<1>2. TypeOK'
  BY <1>1 DEF IInv, TypeOK, SqliteTypeOK, Pc
<1>3. PostLifecycle'
  <2>1. phase' = phase /\ phase[r] \in {"body", "full"} /\ post'[r] # NoPost
    BY <1>1
  <2>2. ASSUME NEW q \in Req
        PROVE  /\ phase'[q] \in {"new", "sent", "headers", "done", "closed"}
                    => post'[q] = NoPost
               /\ phase'[q] \in {"body", "full"}
                    => post'[q] # NoPost /\ post'[q].stage \in {0, 1}
               /\ post'[q] # NoPost => (post'[q].http = 201 <=> post'[q].pessoa = "id")
    <3>1. CASE q = r
      BY <1>1, <2>1, <3>1
    <3>2. CASE q # r
      BY <1>1, <2>1, <3>2 DEF IInv, PostLifecycle
    <3> QED
      BY <3>1, <3>2
  <2> QED
    BY <2>2 DEF PostLifecycle
<1>4. Control'
  <2>1. ASSUME NEW j \in Inst PROVE Running(j)'
    <3>1. CASE j # i
      BY <1>1, <3>1, OthersRun DEF IInv, TypeOK
    <3>2. CASE j = i
      BY <1>1, <3>2 DEF IInv, TypeOK, Running, IsPost
    <3> QED
      BY <3>1, <3>2
  <2> QED
    BY <1>1, <2>1 DEF IInv, Control, IsPost
<1> QED
  BY <1>2, <1>3, <1>4 DEF IInv

\* handler.c:293-297.
LEMMA CheckFailIInv ==
  ASSUME IInv, NEW i \in Inst, CheckFail(i)
  PROVE  IInv'
<1> USE DEF IInv, CheckFail, Fault, Goto, IsPost, loopVars, db, connVars,
    histVars
<1>1. TypeOK'
  BY DEF TypeOK, PostLifecycle, Control, Running, SqliteTypeOK, Phase, Pc,
           Code, Post, Row, Request
<1>2. PostLifecycle'
  BY DEF TypeOK, PostLifecycle, Control, Running, Post
<1>3. Control'
  BY DEF TypeOK, PostLifecycle, Control, Running, Post, Request
<1> QED
  BY <1>1, <1>2, <1>3 DEF IInv

\* The INSERT gets the write lock.
LEMMA InsertBeginIInv ==
  ASSUME IInv, NEW i \in Inst, InsertBegin(i)
  PROVE  IInv'
<1> USE DEF IInv, InsertBegin, BeginWrite, Goto, IsPost, loopVars, db,
    connVars, histVars
<1>1. TypeOK'
  BY DEF TypeOK, PostLifecycle, Control, Running, SqliteTypeOK, Phase, Pc,
           Code, Post, Row, Request
<1>2. PostLifecycle'
  BY DEF TypeOK, PostLifecycle, Control, Running, Post
<1>3. Control'
  BY DEF TypeOK, PostLifecycle, Control, Running, Post, Request
<1> QED
  BY <1>1, <1>2, <1>3 DEF IInv

\* The INSERT commits.
LEMMA InsertCommitIInv ==
  ASSUME IInv, NEW i \in Inst, InsertCommit(i)
  PROVE  IInv'
<1> USE DEF IInv, InsertCommit, CommitRow, Goto, IsPost, loopVars, db,
    connVars, histVars
<1>1. TypeOK'
  BY DEF TypeOK, PostLifecycle, Control, Running, SqliteTypeOK, Phase, Pc,
           Code, Post, Row, Request
<1>2. PostLifecycle'
  BY DEF TypeOK, PostLifecycle, Control, Running, Post
<1>3. Control'
  BY DEF TypeOK, PostLifecycle, Control, Running, Post, Request
<1> QED
  BY <1>1, <1>2, <1>3 DEF IInv

\* The INSERT fails.
LEMMA InsertFailIInv ==
  ASSUME IInv, NEW i \in Inst, InsertFail(i)
  PROVE  IInv'
<1> USE DEF IInv, InsertFail, Rollback, Fault, Goto, IsPost, loopVars, db,
    connVars, histVars
<1>1. TypeOK'
  BY DEF TypeOK, PostLifecycle, Control, Running, SqliteTypeOK, Phase, Pc,
           Code, Post, Row, Request
<1>2. PostLifecycle'
  BY DEF TypeOK, PostLifecycle, Control, Running, Post
<1>3. Control'
  BY DEF TypeOK, PostLifecycle, Control, Running, Post, Request
<1> QED
  BY <1>1, <1>2, <1>3 DEF IInv

\* A SELECT of a GET.
LEMMA ReadIInv ==
  ASSUME IInv, NEW i \in Inst, Read(i)
  PROVE  IInv'
<1> USE DEF IInv, Read, Goto, IsPost, loopVars, db, connVars, histVars
<1>1. TypeOK'
  <2>1. exec[i] \in Req
    BY DEF Control, Running
  <2>2. CASE ~Spoilt(exec[i])
    <3>1. PICK s \in Selections(exec[i]) :
            /\ seen' = [seen EXCEPT ![exec[i]] = s]
            /\ ret' = [ret EXCEPT ![i] =
                         IF input[exec[i]].kind = "ID" /\ s = {} THEN "notfound" ELSE "ok"]
      BY <2>2
    <3>2. s \subseteq rows
      BY DEF Selections, Matching, kSubset
    <3> QED
      BY <2>1, <3>1, <3>2 DEF TypeOK, SqliteTypeOK, Pc
  <2>3. CASE Spoilt(exec[i])
    BY <2>1, <2>3 DEF TypeOK, SqliteTypeOK, Pc
  <2> QED
    BY <2>2, <2>3
<1>2. PostLifecycle'
  BY DEF TypeOK, PostLifecycle, Control, Running, Post, Selections, Matching
<1>3. Control'
  BY DEF TypeOK, PostLifecycle, Control, Running, Post, Request, Selections,
           Matching
<1> QED
  BY <1>1, <1>2, <1>3 DEF IInv

\* A SELECT fails.
LEMMA ReadFailIInv ==
  ASSUME IInv, NEW i \in Inst, ReadFail(i)
  PROVE  IInv'
<1> USE DEF IInv, ReadFail, Fault, Goto, IsPost, loopVars, db, connVars,
    histVars
<1>1. TypeOK'
  BY DEF TypeOK, PostLifecycle, Control, Running, SqliteTypeOK, Phase, Pc,
           Code, Post, Row, Request
<1>2. PostLifecycle'
  BY DEF TypeOK, PostLifecycle, Control, Running, Post
<1>3. Control'
  BY DEF TypeOK, PostLifecycle, Control, Running, Post, Request
<1> QED
  BY <1>1, <1>2, <1>3 DEF IInv

\* The last db_close.
LEMMA CloseLastIInv ==
  ASSUME IInv, NEW i \in Inst, CloseLast(i)
  PROVE  IInv'
<1> USE DEF IInv, CloseLast, BeginCheckpoint, Goto, IsPost, loopVars, db,
    connVars, histVars
<1>1. TypeOK'
  BY DEF TypeOK, PostLifecycle, Control, Running, SqliteTypeOK, Phase, Pc,
           Code, Post, Row, Request
<1>2. PostLifecycle'
  BY DEF TypeOK, PostLifecycle, Control, Running, Post
<1>3. Control'
  BY DEF TypeOK, PostLifecycle, Control, Running, Post, Request
<1> QED
  BY <1>1, <1>2, <1>3 DEF IInv

\* db_close, and the call returns.
LEMMA CloseIInv ==
  ASSUME IInv, NEW i \in Inst, Close(i)
  PROVE  IInv'
<1> USE DEF IInv, Close, Goto, Return, Disconnect, IsPost, loopVars, db,
    connVars, histVars
<1>1. TypeOK'
  <2>1. exec[i] \in Req
    BY DEF Control, Running
  <2>2. HistOK' /\ phase' \in [Req -> Phase] /\ reply' \in [Req -> Code \cup {0}]
    <3>1. CASE IsPost(exec[i])
      BY <3>1, <2>1, FaultType DEF TypeOK
    <3>2. CASE ~IsPost(exec[i])
      BY <3>2, <2>1, AnswerGetType, GetStatusType DEF Code
    <3> QED
      BY <3>1, <3>2
  <2>3. /\ tries' \in [Inst -> 0..(MaxTries - 1)]
        /\ opened' \subseteq Inst /\ excl' \in Inst \cup {NoInst}
    BY DEF TypeOK, SqliteTypeOK
  <2>4. /\ pc' \in [Inst -> Pc] /\ exec' \in [Inst -> Req \cup {NoReq}]
        /\ ret' \in [Inst -> {"none", "ok", "notfound", "error"}]
    BY DEF TypeOK, Pc
  <2> QED
    BY <2>2, <2>3, <2>4 DEF TypeOK, SqliteTypeOK, HistOK
<1>2. PostLifecycle'
  BY DEF TypeOK, PostLifecycle, Control, Running, Post, NoFault, Fault,
           AnswerGet, Queue, Refuse, GetStatus
<1>3. Control'
  <2>1. exec[i] \in Req /\ at[exec[i]] = i
    BY DEF Control, Running
  <2>2. \A q \in Req \ {exec[i]} : phase'[q] = phase[q] /\ reply'[q] = reply[q]
    BY <2>1 DEF TypeOK, AnswerGet, Queue, Refuse
  <2>3. ASSUME NEW j \in Inst PROVE Running(j)'
    <3>1. CASE j # i
      BY <2>1, <2>2, <3>1, OthersRun DEF TypeOK
    <3>2. CASE j = i
      BY <3>2 DEF TypeOK, Running
    <3> QED
      BY <3>1, <3>2
  <2>4. \/ phase'[exec[i]] = phase[exec[i]] /\ reply'[exec[i]] = reply[exec[i]]
        \/ phase'[exec[i]] = "queued"
        \/ phase'[exec[i]] = "failed" /\ reply'[exec[i]] = reply[exec[i]]
           /\ phase[exec[i]] = "headers"
    BY <2>1 DEF TypeOK, AnswerGet, Queue, Refuse, Control, Running
  <2> QED
    BY <2>1, <2>2, <2>3, <2>4 DEF Control
<1> QED
  BY <1>1, <1>2, <1>3 DEF IInv

\* IInv is inductive.
LEMMA IInvStep == IInv /\ [Next]_vars => IInv'
<1> SUFFICES ASSUME IInv, [Next]_vars PROVE IInv'
  OBVIOUS
<1>1. CASE UNCHANGED vars
  BY <1>1 DEF vars, loopVars, db, connVars, histVars, IInv, TypeOK, SqliteTypeOK,
             PostLifecycle, Control, Running, IsPost
<1>2. ASSUME NEW r \in Req, Send(r)
      PROVE  IInv'
  BY <1>2, SendIInv
<1>3. ASSUME NEW i \in Inst, NEW r \in Req, Receive(i, r)
      PROVE  IInv'
  BY <1>3, ReceiveIInv
<1>4. ASSUME NEW i \in Inst, NEW r \in Req, Abort(i, r)
      PROVE  IInv'
  BY <1>4, AbortIInv
<1>5. ASSUME NEW i \in Inst, NEW r \in Req, RequestCompleted(i, r)
      PROVE  IInv'
  BY <1>5, RequestCompletedIInv
<1>6. ASSUME NEW i \in Inst, NEW r \in Req, FirstCall(i, r)
      PROVE  IInv'
  BY <1>6, FirstCallIInv
<1>7. ASSUME NEW i \in Inst, NEW r \in Req, FirstChunk(i, r)
      PROVE  IInv'
  BY <1>7, FirstChunkIInv
<1>8. ASSUME NEW i \in Inst, NEW r \in Req, NextChunk(i, r)
      PROVE  IInv'
  BY <1>8, NextChunkIInv
<1>9. ASSUME NEW i \in Inst, NEW r \in Req, EmptyBody(i, r)
      PROVE  IInv'
  BY <1>9, EmptyBodyIInv
<1>10. ASSUME NEW i \in Inst, NEW r \in Req, Respond(i, r)
       PROVE  IInv'
  BY <1>10, RespondIInv
<1>11. ASSUME NEW i \in Inst, NEW r \in Req, RefuseGet(i, r)
       PROVE  IInv'
  BY <1>11, RefuseGetIInv
<1>12. ASSUME NEW i \in Inst, NEW r \in Req, StartGet(i, r)
       PROVE  IInv'
  BY <1>12, StartGetIInv
<1>13. ASSUME NEW i \in Inst, NEW r \in Req, OtherMethod(i, r)
       PROVE  IInv'
  BY <1>13, OtherMethodIInv
<1>14. ASSUME NEW i \in Inst, OpenOk(i)
       PROVE  IInv'
  BY <1>14, OpenOkIInv
<1>15. ASSUME NEW i \in Inst, OpenFail(i)
       PROVE  IInv'
  BY <1>15, OpenFailIInv
<1>16. ASSUME NEW i \in Inst, Check(i)
       PROVE  IInv'
  BY <1>16, CheckIInv
<1>17. ASSUME NEW i \in Inst, CheckFail(i)
       PROVE  IInv'
  BY <1>17, CheckFailIInv
<1>18. ASSUME NEW i \in Inst, InsertBegin(i)
       PROVE  IInv'
  BY <1>18, InsertBeginIInv
<1>19. ASSUME NEW i \in Inst, InsertCommit(i)
       PROVE  IInv'
  BY <1>19, InsertCommitIInv
<1>20. ASSUME NEW i \in Inst, InsertFail(i)
       PROVE  IInv'
  BY <1>20, InsertFailIInv
<1>21. ASSUME NEW i \in Inst, Read(i)
       PROVE  IInv'
  BY <1>21, ReadIInv
<1>22. ASSUME NEW i \in Inst, ReadFail(i)
       PROVE  IInv'
  BY <1>22, ReadFailIInv
<1>23. ASSUME NEW i \in Inst, CloseLast(i)
       PROVE  IInv'
  BY <1>23, CloseLastIInv
<1>24. ASSUME NEW i \in Inst, Close(i)
       PROVE  IInv'
  BY <1>24, CloseIInv
<1> QED
  BY <1>1, <1>2, <1>3, <1>4, <1>5, <1>6, <1>7, <1>8, <1>9, <1>10, <1>11,
       <1>12, <1>13, <1>14, <1>15, <1>16, <1>17, <1>18, <1>19, <1>20, <1>21,
       <1>22, <1>23, <1>24 DEF Next, Step, Call, Continue, Failure

\* Every reachable state satisfies IInv.
THEOREM Inductive == Spec => []IInv
  BY InitIInv, IInvStep, PTL DEF Spec

\* No step of the request path leaves a variable outside its type, the stage of
\* a Post outside Post_stage (handler.c:8-12) among them.
THEOREM TypeCorrect == Spec => []TypeOK
  BY Inductive, PTL DEF IInv

\* The branches handler.c marks unreachable are, request_completed frees every
\* Post once, and a Location header always has an id.
THEOREM PostsAreKept == Spec => []PostLifecycle
  BY Inductive, PTL DEF IInv

\* Nobody touches a request while a call of handler() for it uses the database.
THEOREM CallsAreUndisturbed == Spec => []Control
  BY Inductive, PTL DEF IInv

-----------------------------------------------------------------------------
(***************************************************************************)
(* Connections and locks                                                   *)
(***************************************************************************)

\* Every path of handler() closes what it opened, and releases what it locked.
LEMMA ConnectionStep ==
  IInv /\ ConnectionDiscipline /\ [Next]_vars => ConnectionDiscipline'
<1> SUFFICES ASSUME IInv, ConnectionDiscipline, [Next]_vars
             PROVE  ConnectionDiscipline'
  OBVIOUS
<1> USE DEF ConnectionDiscipline
<1>1. CASE UNCHANGED vars
  BY <1>1 DEF vars, loopVars, db
<1>2. ASSUME NEW r \in Req, Send(r)
      PROVE  ConnectionDiscipline'
  BY <1>2 DEF Send, loopVars, db
<1>3. ASSUME NEW i \in Inst, NEW r \in Req, Receive(i, r)
      PROVE  ConnectionDiscipline'
  BY <1>3 DEF Receive, loopVars, db
<1>4. ASSUME NEW i \in Inst, NEW r \in Req, Abort(i, r)
      PROVE  ConnectionDiscipline'
  BY <1>4 DEF Abort, loopVars, db
<1>5. ASSUME NEW i \in Inst, NEW r \in Req, RequestCompleted(i, r)
      PROVE  ConnectionDiscipline'
  BY <1>5 DEF RequestCompleted, loopVars, db
<1>6. ASSUME NEW i \in Inst, NEW r \in Req, FirstCall(i, r)
      PROVE  ConnectionDiscipline'
  BY <1>6 DEF FirstCall, loopVars, db
<1>7. ASSUME NEW i \in Inst, NEW r \in Req, FirstChunk(i, r)
      PROVE  ConnectionDiscipline'
  BY <1>7 DEF FirstChunk, Callable, Processing, Goto, loopVars, IInv, TypeOK,
      SqliteTypeOK, db
<1>8. ASSUME NEW i \in Inst, NEW r \in Req, NextChunk(i, r)
      PROVE  ConnectionDiscipline'
  BY <1>8 DEF NextChunk, loopVars, db
<1>9. ASSUME NEW i \in Inst, NEW r \in Req, EmptyBody(i, r)
      PROVE  ConnectionDiscipline'
  BY <1>9 DEF EmptyBody, Callable, Processing, Goto, loopVars, IInv, TypeOK,
      SqliteTypeOK, db
<1>10. ASSUME NEW i \in Inst, NEW r \in Req, Respond(i, r)
       PROVE  ConnectionDiscipline'
  BY <1>10 DEF Respond, loopVars, db
<1>11. ASSUME NEW i \in Inst, NEW r \in Req, RefuseGet(i, r)
       PROVE  ConnectionDiscipline'
  BY <1>11 DEF RefuseGet, loopVars, db
<1>12. ASSUME NEW i \in Inst, NEW r \in Req, StartGet(i, r)
       PROVE  ConnectionDiscipline'
  BY <1>12 DEF StartGet, Callable, Goto, loopVars, IInv, TypeOK, SqliteTypeOK,
      db
<1>13. ASSUME NEW i \in Inst, NEW r \in Req, OtherMethod(i, r)
       PROVE  ConnectionDiscipline'
  BY <1>13 DEF OtherMethod, loopVars, db
<1>14. ASSUME NEW i \in Inst, OpenOk(i)
       PROVE  ConnectionDiscipline'
  BY <1>14 DEF OpenOk, Connect, Goto, IInv, TypeOK, SqliteTypeOK, db
<1>15. ASSUME NEW i \in Inst, OpenFail(i)
       PROVE  ConnectionDiscipline'
  BY <1>15 DEF OpenFail, Return, Goto, IInv, TypeOK, SqliteTypeOK, db
<1>16. ASSUME NEW i \in Inst, Check(i)
       PROVE  ConnectionDiscipline'
  BY <1>16 DEF Check, Decision, Goto, IInv, TypeOK, SqliteTypeOK, db
<1>17. ASSUME NEW i \in Inst, CheckFail(i)
       PROVE  ConnectionDiscipline'
  BY <1>17 DEF CheckFail, Goto, IInv, TypeOK, SqliteTypeOK, db
<1>18. ASSUME NEW i \in Inst, InsertBegin(i)
       PROVE  ConnectionDiscipline'
  BY <1>18 DEF InsertBegin, BeginWrite, Goto, IInv, TypeOK, SqliteTypeOK, db
<1>19. ASSUME NEW i \in Inst, InsertCommit(i)
       PROVE  ConnectionDiscipline'
  BY <1>19 DEF InsertCommit, CommitRow, Goto, IInv, TypeOK, SqliteTypeOK, db
<1>20. ASSUME NEW i \in Inst, InsertFail(i)
       PROVE  ConnectionDiscipline'
  BY <1>20 DEF InsertFail, Rollback, Goto, IInv, TypeOK, SqliteTypeOK, db
<1>21. ASSUME NEW i \in Inst, Read(i)
       PROVE  ConnectionDiscipline'
  BY <1>21 DEF Read, Goto, IInv, TypeOK, SqliteTypeOK, db
<1>22. ASSUME NEW i \in Inst, ReadFail(i)
       PROVE  ConnectionDiscipline'
  BY <1>22 DEF ReadFail, Goto, IInv, TypeOK, SqliteTypeOK, db
<1>23. ASSUME NEW i \in Inst, CloseLast(i)
       PROVE  ConnectionDiscipline'
  BY <1>23 DEF CloseLast, BeginCheckpoint, Goto, IInv, TypeOK, SqliteTypeOK,
      db
<1>24. ASSUME NEW i \in Inst, Close(i)
       PROVE  ConnectionDiscipline'
  BY <1>24 DEF Close, Disconnect, Return, Goto, IInv, TypeOK, SqliteTypeOK, db
<1> QED
  BY <1>1, <1>2, <1>3, <1>4, <1>5, <1>6, <1>7, <1>8, <1>9, <1>10, <1>11,
       <1>12, <1>13, <1>14, <1>15, <1>16, <1>17, <1>18, <1>19, <1>20, <1>21,
       <1>22, <1>23, <1>24 DEF Next, Step, Call, Continue, Failure

\* For any number of instances: connections and locks are where the code says
\* they are, and nobody is connected while the last one out checkpoints.
THEOREM Connections == Spec => []ConnectionDiscipline
<1>1. Init => ConnectionDiscipline
  BY DEF Init, SqliteInit, ConnectionDiscipline
<1> QED
  BY <1>1, ConnectionStep, Inductive, PTL DEF Spec

-----------------------------------------------------------------------------
(***************************************************************************)
(* Rows                                                                    *)
(***************************************************************************)

\* Rows are only added, what went wrong is remembered, and what was asked for
\* does not change.
Growth ==
  /\ rows \subseteq rows'
  /\ \A q \in Req : hurt[q] \subseteq hurt'[q]
  /\ input' = input

\* Every step grows: of the statements that requests lead to, the INSERT writes.
LEMMA GrowthStep ==
  ASSUME IInv, [Next]_vars
  PROVE  Growth
<1> USE DEF Growth
<1>1. CASE UNCHANGED vars
  BY <1>1 DEF vars, db, connVars, histVars
<1>2. ASSUME NEW r \in Req, Send(r)
      PROVE  Growth
  BY <1>2 DEF Send, IInv, TypeOK, db, connVars, histVars
<1>3. ASSUME NEW i \in Inst, NEW r \in Req, Receive(i, r)
      PROVE  Growth
  BY <1>3 DEF Receive, IInv, TypeOK, db, connVars, histVars
<1>4. ASSUME NEW i \in Inst, NEW r \in Req, Abort(i, r)
      PROVE  Growth
  BY <1>4 DEF Abort, IInv, TypeOK, db, connVars, histVars
<1>5. ASSUME NEW i \in Inst, NEW r \in Req, RequestCompleted(i, r)
      PROVE  Growth
  BY <1>5 DEF RequestCompleted, IInv, TypeOK, db, connVars, histVars
<1>6. ASSUME NEW i \in Inst, NEW r \in Req, FirstCall(i, r)
      PROVE  Growth
  BY <1>6 DEF FirstCall, NoFault, Fault, IInv, TypeOK, db, connVars, histVars
<1>7. ASSUME NEW i \in Inst, NEW r \in Req, FirstChunk(i, r)
      PROVE  Growth
  BY <1>7 DEF FirstChunk, Processing, NoFault, Fault, IInv, TypeOK, db,
      connVars, histVars
<1>8. ASSUME NEW i \in Inst, NEW r \in Req, NextChunk(i, r)
      PROVE  Growth
  BY <1>8 DEF NextChunk, IInv, TypeOK, db, connVars, histVars
<1>9. ASSUME NEW i \in Inst, NEW r \in Req, EmptyBody(i, r)
      PROVE  Growth
  BY <1>9 DEF EmptyBody, Processing, NoFault, Fault, IInv, TypeOK, db,
      connVars, histVars
<1>10. ASSUME NEW i \in Inst, NEW r \in Req, Respond(i, r)
       PROVE  Growth
  BY <1>10 DEF Respond, NoFault, Fault, IInv, TypeOK, db, connVars, histVars
<1>11. ASSUME NEW i \in Inst, NEW r \in Req, RefuseGet(i, r)
       PROVE  Growth
  BY <1>11 DEF RefuseGet, AnswerGet, NoFault, Fault, IInv, TypeOK, db,
      connVars, histVars
<1>12. ASSUME NEW i \in Inst, NEW r \in Req, StartGet(i, r)
       PROVE  Growth
  BY <1>12 DEF StartGet, IInv, TypeOK, db, connVars, histVars
<1>13. ASSUME NEW i \in Inst, NEW r \in Req, OtherMethod(i, r)
       PROVE  Growth
  BY <1>13 DEF OtherMethod, IInv, TypeOK, db, connVars, histVars
<1>14. ASSUME NEW i \in Inst, OpenOk(i)
       PROVE  Growth
  BY <1>14 DEF OpenOk, Connect, IInv, TypeOK, db, connVars, histVars
<1>15. ASSUME NEW i \in Inst, OpenFail(i)
       PROVE  Growth
  BY <1>15 DEF OpenFail, Fault, GetFailsTwice, IInv, TypeOK, db, connVars, histVars
<1>16. ASSUME NEW i \in Inst, Check(i)
       PROVE  Growth
  BY <1>16 DEF Check, IInv, TypeOK, db, connVars, histVars
<1>17. ASSUME NEW i \in Inst, CheckFail(i)
       PROVE  Growth
  BY <1>17 DEF CheckFail, Fault, IInv, TypeOK, db, connVars, histVars
<1>18. ASSUME NEW i \in Inst, InsertBegin(i)
       PROVE  Growth
  BY <1>18 DEF InsertBegin, BeginWrite, IInv, TypeOK, db, connVars, histVars
<1>19. ASSUME NEW i \in Inst, InsertCommit(i)
       PROVE  Growth
  BY <1>19 DEF InsertCommit, CommitRow, IInv, TypeOK, db, connVars, histVars
<1>20. ASSUME NEW i \in Inst, InsertFail(i)
       PROVE  Growth
  BY <1>20 DEF InsertFail, Rollback, Fault, IInv, TypeOK, db, connVars,
      histVars
<1>21. ASSUME NEW i \in Inst, Read(i)
       PROVE  Growth
  BY <1>21 DEF Read, IInv, TypeOK, db, connVars, histVars
<1>22. ASSUME NEW i \in Inst, ReadFail(i)
       PROVE  Growth
  BY <1>22 DEF ReadFail, Fault, IInv, TypeOK, db, connVars, histVars
<1>23. ASSUME NEW i \in Inst, CloseLast(i)
       PROVE  Growth
  BY <1>23 DEF CloseLast, BeginCheckpoint, IInv, TypeOK, db, connVars,
      histVars
<1>24. ASSUME NEW i \in Inst, Close(i)
       PROVE  Growth
  BY <1>24 DEF Close, Disconnect, NoFault, Fault, AnswerGet, IInv, TypeOK, db,
      connVars, histVars
<1> QED
  BY <1>1, <1>2, <1>3, <1>4, <1>5, <1>6, <1>7, <1>8, <1>9, <1>10, <1>11,
       <1>12, <1>13, <1>14, <1>15, <1>16, <1>17, <1>18, <1>19, <1>20, <1>21,
       <1>22, <1>23, <1>24 DEF Next, Step, Call, Continue, Failure

\* Only a commit adds a row.
LEMMA RowsStep ==
  ASSUME IInv, [Next]_vars
  PROVE  \/ rows' = rows
         \/ \E i \in Inst : InsertCommit(i)
<1>1. CASE UNCHANGED vars
  BY <1>1 DEF vars, db
<1>2. ASSUME NEW r \in Req, Send(r)
      PROVE  rows' = rows \/ \E j \in Inst : InsertCommit(j)
  BY <1>2 DEF Send, db
<1>3. ASSUME NEW i \in Inst, NEW r \in Req, Receive(i, r)
      PROVE  rows' = rows \/ \E j \in Inst : InsertCommit(j)
  BY <1>3 DEF Receive, db
<1>4. ASSUME NEW i \in Inst, NEW r \in Req, Abort(i, r)
      PROVE  rows' = rows \/ \E j \in Inst : InsertCommit(j)
  BY <1>4 DEF Abort, db
<1>5. ASSUME NEW i \in Inst, NEW r \in Req, RequestCompleted(i, r)
      PROVE  rows' = rows \/ \E j \in Inst : InsertCommit(j)
  BY <1>5 DEF RequestCompleted, db
<1>6. ASSUME NEW i \in Inst, NEW r \in Req, FirstCall(i, r)
      PROVE  rows' = rows \/ \E j \in Inst : InsertCommit(j)
  BY <1>6 DEF FirstCall, db
<1>7. ASSUME NEW i \in Inst, NEW r \in Req, FirstChunk(i, r)
      PROVE  rows' = rows \/ \E j \in Inst : InsertCommit(j)
  BY <1>7 DEF FirstChunk, db
<1>8. ASSUME NEW i \in Inst, NEW r \in Req, NextChunk(i, r)
      PROVE  rows' = rows \/ \E j \in Inst : InsertCommit(j)
  BY <1>8 DEF NextChunk, db
<1>9. ASSUME NEW i \in Inst, NEW r \in Req, EmptyBody(i, r)
      PROVE  rows' = rows \/ \E j \in Inst : InsertCommit(j)
  BY <1>9 DEF EmptyBody, db
<1>10. ASSUME NEW i \in Inst, NEW r \in Req, Respond(i, r)
       PROVE  rows' = rows \/ \E j \in Inst : InsertCommit(j)
  BY <1>10 DEF Respond, db
<1>11. ASSUME NEW i \in Inst, NEW r \in Req, RefuseGet(i, r)
       PROVE  rows' = rows \/ \E j \in Inst : InsertCommit(j)
  BY <1>11 DEF RefuseGet, db
<1>12. ASSUME NEW i \in Inst, NEW r \in Req, StartGet(i, r)
       PROVE  rows' = rows \/ \E j \in Inst : InsertCommit(j)
  BY <1>12 DEF StartGet, db
<1>13. ASSUME NEW i \in Inst, NEW r \in Req, OtherMethod(i, r)
       PROVE  rows' = rows \/ \E j \in Inst : InsertCommit(j)
  BY <1>13 DEF OtherMethod, db
<1>14. ASSUME NEW i \in Inst, OpenOk(i)
       PROVE  rows' = rows \/ \E j \in Inst : InsertCommit(j)
  BY <1>14 DEF OpenOk, Connect, db
<1>15. ASSUME NEW i \in Inst, OpenFail(i)
       PROVE  rows' = rows \/ \E j \in Inst : InsertCommit(j)
  BY <1>15 DEF OpenFail, db
<1>16. ASSUME NEW i \in Inst, Check(i)
       PROVE  rows' = rows \/ \E j \in Inst : InsertCommit(j)
  BY <1>16 DEF Check, db
<1>17. ASSUME NEW i \in Inst, CheckFail(i)
       PROVE  rows' = rows \/ \E j \in Inst : InsertCommit(j)
  BY <1>17 DEF CheckFail, db
<1>18. ASSUME NEW i \in Inst, InsertBegin(i)
       PROVE  rows' = rows \/ \E j \in Inst : InsertCommit(j)
  BY <1>18 DEF InsertBegin, BeginWrite, db
<1>19. ASSUME NEW i \in Inst, InsertCommit(i)
       PROVE  rows' = rows \/ \E j \in Inst : InsertCommit(j)
  BY <1>19
<1>20. ASSUME NEW i \in Inst, InsertFail(i)
       PROVE  rows' = rows \/ \E j \in Inst : InsertCommit(j)
  BY <1>20 DEF InsertFail, Rollback, db
<1>21. ASSUME NEW i \in Inst, Read(i)
       PROVE  rows' = rows \/ \E j \in Inst : InsertCommit(j)
  BY <1>21 DEF Read, db
<1>22. ASSUME NEW i \in Inst, ReadFail(i)
       PROVE  rows' = rows \/ \E j \in Inst : InsertCommit(j)
  BY <1>22 DEF ReadFail, db
<1>23. ASSUME NEW i \in Inst, CloseLast(i)
       PROVE  rows' = rows \/ \E j \in Inst : InsertCommit(j)
  BY <1>23 DEF CloseLast, BeginCheckpoint, db
<1>24. ASSUME NEW i \in Inst, Close(i)
       PROVE  rows' = rows \/ \E j \in Inst : InsertCommit(j)
  BY <1>24 DEF Close, Disconnect, db
<1> QED
  BY <1>1, <1>2, <1>3, <1>4, <1>5, <1>6, <1>7, <1>8, <1>9, <1>10, <1>11,
       <1>12, <1>13, <1>14, <1>15, <1>16, <1>17, <1>18, <1>19, <1>20, <1>21,
       <1>22, <1>23, <1>24 DEF Next, Step, Call, Continue, Failure

\* Two instances that both found the nickname free cannot both store it.
THEOREM Unique == Spec => []UniqueApelido
<1>1. Init => UniqueApelido
  BY DEF Init, SqliteInit, UniqueApelido
<1>2. IInv /\ UniqueApelido /\ [Next]_vars => UniqueApelido'
  BY RowsStep DEF UniqueApelido, InsertCommit, CommitRow, Conflict
<1> QED
  BY <1>1, <1>2, Inductive, PTL DEF Spec

-----------------------------------------------------------------------------
(***************************************************************************)
(* The 201                                                                 *)
(***************************************************************************)

\* POST_STAGE_PROCESSING happens once for a request.
LEMMA OnceStep ==
  IInv /\ CreatedOnce /\ [Next]_vars => CreatedOnce'
<1> SUFFICES ASSUME IInv, CreatedOnce, [Next]_vars
             PROVE  CreatedOnce'
  OBVIOUS
<1>0. input' = input
  BY GrowthStep DEF Growth
<1> USE <1>0 DEF CreatedOnce
<1>1. CASE UNCHANGED vars
  BY <1>1 DEF vars, loopVars, db, connVars, histVars, IsPost
<1>2. ASSUME NEW r \in Req, Send(r)
      PROVE  CreatedOnce'
  BY <1>2 DEF Send, IsPost, IInv, TypeOK, PostLifecycle, Control, Running,
      Post, Row, Request, loopVars, db, connVars, histVars
<1>3. ASSUME NEW i \in Inst, NEW r \in Req, Receive(i, r)
      PROVE  CreatedOnce'
  BY <1>3 DEF Receive, IsPost, IInv, TypeOK, PostLifecycle, Control, Running,
      Post, Row, Request, loopVars, db, connVars, histVars
<1>4. ASSUME NEW i \in Inst, NEW r \in Req, Abort(i, r)
      PROVE  CreatedOnce'
  BY <1>4 DEF Abort, Callable, IsPost, IInv, TypeOK, PostLifecycle, Control,
      Running, Post, Row, Request, loopVars, db, connVars, histVars
<1>5. ASSUME NEW i \in Inst, NEW r \in Req, RequestCompleted(i, r)
      PROVE  CreatedOnce'
  BY <1>5 DEF RequestCompleted, Callable, Release, IsPost, IInv, TypeOK,
      PostLifecycle, Control, Running, Post, Row, Request, loopVars, db,
      connVars, histVars
<1>6. ASSUME NEW i \in Inst, NEW r \in Req, FirstCall(i, r)
      PROVE  CreatedOnce'
  BY <1>6 DEF FirstCall, Callable, NewPost, Upload, NoFault, Fault, Refuse,
      IsPost, IInv, TypeOK, PostLifecycle, Control, Running, Post, Row,
      Request, loopVars, db, connVars, histVars
<1>7. ASSUME NEW i \in Inst, NEW r \in Req, FirstChunk(i, r)
      PROVE  CreatedOnce'
  <2>1. PICK code \in {404, 422, 500}, p \in {"null", "filled"} :
          post' = [post EXCEPT ![r] = [stage |-> 1, http |-> code, pessoa |-> p]]
    BY <1>7, ProcessingType DEF FirstChunk, IInv
  <2>2. \/ UNCHANGED <<pc, exec>>
        \/ /\ input[r].url /\ input[r].ok /\ 1 > 0
           /\ pc' = [pc EXCEPT ![i] = "open"]
           /\ exec' = [exec EXCEPT ![i] = r]
    BY <1>7, ProcessingType DEF FirstChunk, IInv
  <2>3. /\ rows' = rows /\ pc[i] = "loop" /\ phase[r] = "body" /\ post[r] # NoPost
        /\ post[r].stage = 0 /\ left[r] > 0
        /\ left' = [left EXCEPT ![r] = @ - 1]
        /\ phase' = [phase EXCEPT ![r] = Upload(left[r] - 1)]
    BY <1>7 DEF FirstChunk, Callable, IInv, PostLifecycle, Control, db
  <2>4. /\ ~ \E x \in rows : x.uuid = r
        /\ left[r] <= input[r].chunks /\ left[r] \in Nat /\ input[r].chunks \in Nat
    BY <2>3 DEF IInv, TypeOK, Request
  <2>5. ASSUME NEW j \in Inst, pc'[j] \in {"open", "check", "insert", "commit"},
               input[exec'[j]].kind = "POST"
        PROVE  /\ input[exec'[j]].url /\ input[exec'[j]].ok /\ input[exec'[j]].chunks > 0
               /\ ~ \E x \in rows : x.uuid = exec'[j]
    BY <2>2, <2>3, <2>4, <2>5 DEF IInv, TypeOK, IsPost
  <2>6. ASSUME NEW q \in Req
        PROVE  /\ left'[q] <= input[q].chunks
               /\ (\E x \in rows : x.uuid = q)
                    => /\ phase'[q] \notin {"new", "sent", "headers"}
                       /\ post'[q] # NoPost => post'[q].stage > 0
    BY <2>1, <2>3, <2>4 DEF IInv, TypeOK
  <2> QED
    BY <2>3, <2>5, <2>6 DEF IsPost
<1>8. ASSUME NEW i \in Inst, NEW r \in Req, NextChunk(i, r)
      PROVE  CreatedOnce'
  BY <1>8 DEF NextChunk, Callable, Refuse, IsPost, IInv, TypeOK,
      PostLifecycle, Control, Running, Post, Row, Request, loopVars, db,
      connVars, histVars
<1>9. ASSUME NEW i \in Inst, NEW r \in Req, EmptyBody(i, r)
      PROVE  CreatedOnce'
  <2>1. PICK code \in {404, 422, 500}, p \in {"null", "filled"} :
          post' = [post EXCEPT ![r] = [stage |-> 1, http |-> code, pessoa |-> p]]
    BY <1>9, ProcessingType DEF EmptyBody, IInv
  <2>2. \/ UNCHANGED <<pc, exec>>
        \/ /\ input[r].url /\ input[r].ok /\ 0 > 0
           /\ pc' = [pc EXCEPT ![i] = "open"]
           /\ exec' = [exec EXCEPT ![i] = r]
    BY <1>9, ProcessingType DEF EmptyBody, IInv
  <2> QED
    BY <1>9, <2>1, <2>2
    DEF EmptyBody, Callable, Upload, IInv, TypeOK, PostLifecycle, Control, Running,
        IsPost, Request, db
<1>10. ASSUME NEW i \in Inst, NEW r \in Req, Respond(i, r)
       PROVE  CreatedOnce'
  BY <1>10 DEF Respond, Callable, Queue, NoFault, Fault, Refuse, IsPost, IInv,
      TypeOK, PostLifecycle, Control, Running, Post, Row, Request, loopVars,
      db, connVars, histVars
<1>11. ASSUME NEW i \in Inst, NEW r \in Req, RefuseGet(i, r)
       PROVE  CreatedOnce'
  BY <1>11 DEF RefuseGet, Callable, NoQuery, AnswerGet, Queue, NoFault, Fault,
      Refuse, IsPost, IInv, TypeOK, PostLifecycle, Control, Running, Post,
      Row, Request, loopVars, db, connVars, histVars
<1>12. ASSUME NEW i \in Inst, NEW r \in Req, StartGet(i, r)
       PROVE  CreatedOnce'
  BY <1>12 DEF StartGet, Callable, NoQuery, Goto, IsPost, IInv, TypeOK,
      PostLifecycle, Control, Running, Post, Row, Request, loopVars, db,
      connVars, histVars
<1>13. ASSUME NEW i \in Inst, NEW r \in Req, OtherMethod(i, r)
       PROVE  CreatedOnce'
  BY <1>13 DEF OtherMethod, Callable, Refuse, IsPost, IInv, TypeOK,
      PostLifecycle, Control, Running, Post, Row, Request, loopVars, db,
      connVars, histVars
<1>14. ASSUME NEW i \in Inst, OpenOk(i)
       PROVE  CreatedOnce'
  BY <1>14 DEF OpenOk, Connect, Goto, IsPost, IInv, TypeOK, PostLifecycle,
      Control, Running, Post, Row, Request, loopVars, db, connVars, histVars
<1>15. ASSUME NEW i \in Inst, OpenFail(i)
       PROVE  CreatedOnce'
  <2>1. \A q \in Req : phase'[q] # phase[q] => phase'[q] \in {"queued", "failed"}
    BY <1>15 DEF OpenFail, GetFailsTwice, Queue, Refuse, IInv, TypeOK
  <2>2. \A q \in Req : phase'[q] # phase[q] => q = exec[i] /\ ~IsPost(q)
    BY <1>15 DEF OpenFail, GetFailsTwice, Queue, Refuse, IInv, TypeOK
  <2>3. \A j \in Inst : UNCHANGED <<pc[j], exec[j]>> \/ pc'[j] = "loop"
    BY <1>15 DEF OpenFail, Return, Goto, IInv, TypeOK
  <2> QED
    BY <1>15, <2>1, <2>2, <2>3 DEF OpenFail, IsPost, db
<1>16. ASSUME NEW i \in Inst, Check(i)
       PROVE  CreatedOnce'
  <2> DEFINE r == exec[i]
  <2>1. /\ r \in Req /\ IsPost(r) /\ pc[i] = "check" /\ phase[r] \in {"body", "full"}
        /\ \A j \in Inst \ {i} : pc'[j] = pc[j]
        /\ \A q \in Req \ {r} : post'[q] = post[q]
        /\ post[r] # NoPost /\ post'[r] # NoPost /\ post'[r].stage = 1
        /\ post'[r].http \in {201, 422}
        /\ pc'[i] = IF post'[r].http = 201 THEN "insert" ELSE "close"
    BY <1>16, CheckChanges
  <2>2. UNCHANGED <<rows, exec, input, phase, left, reply, hurt>>
    BY <1>16, CheckChanges
  <2> QED
    BY <2>1, <2>2 DEF IsPost
<1>17. ASSUME NEW i \in Inst, CheckFail(i)
       PROVE  CreatedOnce'
  BY <1>17 DEF CheckFail, Fault, Goto, IsPost, IInv, TypeOK, PostLifecycle,
      Control, Running, Post, Row, Request, loopVars, db, connVars, histVars
<1>18. ASSUME NEW i \in Inst, InsertBegin(i)
       PROVE  CreatedOnce'
  BY <1>18 DEF InsertBegin, BeginWrite, Goto, IsPost, IInv, TypeOK,
      PostLifecycle, Control, Running, Post, Row, Request, loopVars, db,
      connVars, histVars
<1>19. ASSUME NEW i \in Inst, InsertCommit(i)
       PROVE  CreatedOnce'
  BY <1>19 DEF InsertCommit, CommitRow, Goto, IsPost, IInv, TypeOK,
      PostLifecycle, Control, Running, Post, Row, Request, loopVars, db,
      connVars, histVars
<1>20. ASSUME NEW i \in Inst, InsertFail(i)
       PROVE  CreatedOnce'
  BY <1>20 DEF InsertFail, Rollback, Fault, Goto, IsPost, IInv, TypeOK,
      PostLifecycle, Control, Running, Post, Row, Request, loopVars, db,
      connVars, histVars
<1>21. ASSUME NEW i \in Inst, Read(i)
       PROVE  CreatedOnce'
  BY <1>21 DEF Read, Selections, Matching, Goto, IsPost, IInv, TypeOK,
      PostLifecycle, Control, Running, Post, Row, Request, loopVars, db,
      connVars, histVars
<1>22. ASSUME NEW i \in Inst, ReadFail(i)
       PROVE  CreatedOnce'
  BY <1>22 DEF ReadFail, Fault, Goto, IsPost, IInv, TypeOK, PostLifecycle,
      Control, Running, Post, Row, Request, loopVars, db, connVars, histVars
<1>23. ASSUME NEW i \in Inst, CloseLast(i)
       PROVE  CreatedOnce'
  BY <1>23 DEF CloseLast, BeginCheckpoint, Goto, IsPost, IInv, TypeOK,
      PostLifecycle, Control, Running, Post, Row, Request, loopVars, db,
      connVars, histVars
<1>24. ASSUME NEW i \in Inst, Close(i)
       PROVE  CreatedOnce'
  BY <1>24 DEF Close, Disconnect, Return, Goto, NoFault, Fault, AnswerGet,
      Queue, Refuse, GetStatus, IsPost, IInv, TypeOK, PostLifecycle, Control,
      Running, Post, Row, Request, loopVars, db, connVars, histVars
<1> HIDE DEF CreatedOnce
<1> QED
  BY <1>1, <1>2, <1>3, <1>4, <1>5, <1>6, <1>7, <1>8, <1>9, <1>10, <1>11,
       <1>12, <1>13, <1>14, <1>15, <1>16, <1>17, <1>18, <1>19, <1>20, <1>21,
       <1>22, <1>23, <1>24 DEF Next, Step, Call, Continue, Failure

\* After the COMMIT, or the constraint that refused it, the nickname is taken.
LEMMA CommitExplained ==
  ASSUME IInv, CreatedOnce, CreatedIsExplained, NEW i \in Inst, InsertCommit(i)
  PROVE  CreatedIsExplained'
<1> DEFINE a == input[exec[i]].apelido
<1>1. ~ \E x \in rows : x.uuid = exec[i]
  BY DEF InsertCommit, IInv, Control, Running, CreatedOnce
<1>2. rows \subseteq rows' /\ \E x \in rows' : x.apelido = a
  <2>1. CASE Conflict(exec[i], a)
    BY <1>1, <2>1 DEF InsertCommit, CommitRow, Conflict
  <2>2. CASE ~Conflict(exec[i], a)
    <3>1. rows' = rows \cup {[uuid |-> exec[i], apelido |-> a]}
      BY <2>2 DEF InsertCommit, CommitRow
    <3>2. [uuid |-> exec[i], apelido |-> a] \in rows' /\ rows \subseteq rows'
      BY <3>1
    <3>3. [uuid |-> exec[i], apelido |-> a].apelido = a
      OBVIOUS
    <3> QED
      BY <3>2, <3>3
  <2> QED
    BY <2>1, <2>2
<1>3. UNCHANGED <<post, reply, input, hurt, exec>>
  BY DEF InsertCommit, connVars, histVars
<1>4. \A j \in Inst : j # i => pc'[j] = pc[j]
  BY DEF InsertCommit, Goto, IInv, TypeOK
<1> QED
  BY <1>2, <1>3, <1>4 DEF CreatedIsExplained, HasApelido

\* A decided 201 stays explained: the check found the nickname free, and from
\* there on an INSERT is ahead, has failed, or has left the nickname taken.
LEMMA CreatedStep ==
  IInv /\ CreatedOnce /\ CreatedIsExplained /\ [Next]_vars => CreatedIsExplained'
<1> SUFFICES ASSUME IInv, CreatedOnce, CreatedIsExplained, [Next]_vars
             PROVE  CreatedIsExplained'
  OBVIOUS
<1>0. Growth
  BY GrowthStep
<1> USE <1>0 DEF Growth, CreatedIsExplained, HasApelido
<1>1. CASE UNCHANGED vars
  BY <1>1 DEF vars, loopVars, db, connVars, histVars
<1>2. ASSUME NEW r \in Req, Send(r)
      PROVE  CreatedIsExplained'
  BY <1>2 DEF Send, IsPost, IInv, TypeOK, PostLifecycle, Control, Running,
      Post, Row, loopVars, db, connVars, histVars
<1>3. ASSUME NEW i \in Inst, NEW r \in Req, Receive(i, r)
      PROVE  CreatedIsExplained'
  BY <1>3 DEF Receive, IsPost, IInv, TypeOK, PostLifecycle, Control, Running,
      Post, Row, loopVars, db, connVars, histVars
<1>4. ASSUME NEW i \in Inst, NEW r \in Req, Abort(i, r)
      PROVE  CreatedIsExplained'
  BY <1>4 DEF Abort, Callable, IsPost, IInv, TypeOK, PostLifecycle, Control,
      Running, Post, Row, loopVars, db, connVars, histVars
<1>5. ASSUME NEW i \in Inst, NEW r \in Req, RequestCompleted(i, r)
      PROVE  CreatedIsExplained'
  BY <1>5 DEF RequestCompleted, Callable, Release, IsPost, IInv, TypeOK,
      PostLifecycle, Control, Running, Post, Row, loopVars, db, connVars,
      histVars
<1>6. ASSUME NEW i \in Inst, NEW r \in Req, FirstCall(i, r)
      PROVE  CreatedIsExplained'
  BY <1>6 DEF FirstCall, Callable, NewPost, NoFault, Fault, Refuse, IsPost,
      IInv, TypeOK, PostLifecycle, Control, Running, Post, Row, loopVars, db,
      connVars, histVars
<1>7. ASSUME NEW i \in Inst, NEW r \in Req, FirstChunk(i, r)
      PROVE  CreatedIsExplained'
  <2>1. PICK code \in {404, 422, 500}, p \in {"null", "filled"} :
          post' = [post EXCEPT ![r] = [stage |-> 1, http |-> code, pessoa |-> p]]
    BY <1>7, ProcessingType DEF FirstChunk, IInv
  <2>2. \/ UNCHANGED <<pc, exec>>
        \/ /\ input[r].url /\ input[r].ok /\ 1 > 0
           /\ pc' = [pc EXCEPT ![i] = "open"]
           /\ exec' = [exec EXCEPT ![i] = r]
    BY <1>7, ProcessingType DEF FirstChunk, IInv
  <2> QED
    BY <1>7, <2>1, <2>2
    DEF FirstChunk, Callable, Upload, IInv, TypeOK, PostLifecycle, Control, Running,
        IsPost, Request, db
<1>8. ASSUME NEW i \in Inst, NEW r \in Req, NextChunk(i, r)
      PROVE  CreatedIsExplained'
  BY <1>8 DEF NextChunk, Callable, Refuse, IsPost, IInv, TypeOK,
      PostLifecycle, Control, Running, Post, Row, loopVars, db, connVars,
      histVars
<1>9. ASSUME NEW i \in Inst, NEW r \in Req, EmptyBody(i, r)
      PROVE  CreatedIsExplained'
  <2>1. PICK code \in {404, 422, 500}, p \in {"null", "filled"} :
          post' = [post EXCEPT ![r] = [stage |-> 1, http |-> code, pessoa |-> p]]
    BY <1>9, ProcessingType DEF EmptyBody, IInv
  <2>2. \/ UNCHANGED <<pc, exec>>
        \/ /\ input[r].url /\ input[r].ok /\ 0 > 0
           /\ pc' = [pc EXCEPT ![i] = "open"]
           /\ exec' = [exec EXCEPT ![i] = r]
    BY <1>9, ProcessingType DEF EmptyBody, IInv
  <2> QED
    BY <1>9, <2>1, <2>2
    DEF EmptyBody, Callable, Upload, IInv, TypeOK, PostLifecycle, Control, Running,
        IsPost, Request, db
<1>10. ASSUME NEW i \in Inst, NEW r \in Req, Respond(i, r)
       PROVE  CreatedIsExplained'
  <2>1. /\ pc[i] = "loop" /\ at[r] = i /\ post[r] # NoPost
        /\ UNCHANGED <<rows, pc, exec>>
        /\ \A q \in Req : post'[q] # NoPost => post[q] # NoPost /\ post'[q].http = post[q].http
        /\ \A q \in Req \ {r} : reply'[q] = reply[q]
        /\ reply'[r] = 201 => reply[r] = 201 \/ post[r].http = 201
    BY <1>10 DEF Respond, Callable, Queue, Refuse, IInv, TypeOK, PostLifecycle, Post, db,
       loopVars
  <2>2. \A j \in Inst : exec[j] = r => pc[j] \notin {"insert", "commit"}
    BY <2>1 DEF IInv, Control, Running
  <2> QED
    BY <2>1, <2>2
<1>11. ASSUME NEW i \in Inst, NEW r \in Req, RefuseGet(i, r)
       PROVE  CreatedIsExplained'
  BY <1>11 DEF RefuseGet, Callable, NoQuery, AnswerGet, Queue, NoFault, Fault,
      Refuse, IsPost, IInv, TypeOK, PostLifecycle, Control, Running, Post,
      Row, loopVars, db, connVars, histVars
<1>12. ASSUME NEW i \in Inst, NEW r \in Req, StartGet(i, r)
       PROVE  CreatedIsExplained'
  BY <1>12 DEF StartGet, Callable, NoQuery, Goto, IsPost, IInv, TypeOK,
      PostLifecycle, Control, Running, Post, Row, loopVars, db, connVars,
      histVars
<1>13. ASSUME NEW i \in Inst, NEW r \in Req, OtherMethod(i, r)
       PROVE  CreatedIsExplained'
  BY <1>13 DEF OtherMethod, Callable, Refuse, IsPost, IInv, TypeOK,
      PostLifecycle, Control, Running, Post, Row, loopVars, db, connVars,
      histVars
<1>14. ASSUME NEW i \in Inst, OpenOk(i)
       PROVE  CreatedIsExplained'
  BY <1>14 DEF OpenOk, Connect, Goto, IsPost, IInv, TypeOK, PostLifecycle,
      Control, Running, Post, Row, loopVars, db, connVars, histVars
<1>15. ASSUME NEW i \in Inst, OpenFail(i)
       PROVE  CreatedIsExplained'
  <2>1. /\ exec[i] \in Req
        /\ ~IsPost(exec[i]) => post[exec[i]] = NoPost
    BY <1>15 DEF OpenFail, IInv, Control, Running, PostLifecycle
  <2>2. /\ post' = post /\ rows' = rows /\ pc[i] = "open"
        /\ \A j \in Inst \ {i} : pc'[j] = pc[j] /\ exec'[j] = exec[j]
        /\ \A q \in Req : hurt[q] \subseteq hurt'[q]
        /\ \A q \in Req : reply'[q] = 201 => reply[q] = 201
    BY <1>15, <2>1, GetStatusType
    DEF OpenFail, Fault, GetFailsTwice, Return, Goto, Queue, Refuse, IInv, TypeOK, db
  <2> QED
    BY <2>2
<1>16. ASSUME NEW i \in Inst, Check(i)
       PROVE  CreatedIsExplained'
  <2> DEFINE r == exec[i]
  <2>1. /\ r \in Req /\ IsPost(r) /\ pc[i] = "check" /\ phase[r] \in {"body", "full"}
        /\ \A j \in Inst \ {i} : pc'[j] = pc[j]
        /\ \A q \in Req \ {r} : post'[q] = post[q]
        /\ post[r] # NoPost /\ post'[r] # NoPost /\ post'[r].stage = 1
        /\ post'[r].http \in {201, 422}
        /\ pc'[i] = IF post'[r].http = 201 THEN "insert" ELSE "close"
    BY <1>16, CheckChanges
  <2>2. UNCHANGED <<rows, exec, input, phase, left, reply, hurt>>
    BY <1>16, CheckChanges
  <2> QED
    BY <2>1, <2>2
<1>17. ASSUME NEW i \in Inst, CheckFail(i)
       PROVE  CreatedIsExplained'
  BY <1>17 DEF CheckFail, Fault, Goto, IsPost, IInv, TypeOK, PostLifecycle,
      Control, Running, Post, Row, loopVars, db, connVars, histVars
<1>18. ASSUME NEW i \in Inst, InsertBegin(i)
       PROVE  CreatedIsExplained'
  BY <1>18 DEF InsertBegin, BeginWrite, Goto, IsPost, IInv, TypeOK,
      PostLifecycle, Control, Running, Post, Row, loopVars, db, connVars,
      histVars
<1>19. ASSUME NEW i \in Inst, InsertCommit(i)
       PROVE  CreatedIsExplained'
  BY <1>19, CommitExplained
<1>20. ASSUME NEW i \in Inst, InsertFail(i)
       PROVE  CreatedIsExplained'
  BY <1>20 DEF InsertFail, Rollback, Fault, Goto, IsPost, IInv, TypeOK,
      PostLifecycle, Control, Running, Post, Row, loopVars, db, connVars,
      histVars
<1>21. ASSUME NEW i \in Inst, Read(i)
       PROVE  CreatedIsExplained'
  BY <1>21 DEF Read, Selections, Matching, Goto, IsPost, IInv, TypeOK,
      PostLifecycle, Control, Running, Post, Row, loopVars, db, connVars,
      histVars
<1>22. ASSUME NEW i \in Inst, ReadFail(i)
       PROVE  CreatedIsExplained'
  BY <1>22 DEF ReadFail, Fault, Goto, IsPost, IInv, TypeOK, PostLifecycle,
      Control, Running, Post, Row, loopVars, db, connVars, histVars
<1>23. ASSUME NEW i \in Inst, CloseLast(i)
       PROVE  CreatedIsExplained'
  BY <1>23 DEF CloseLast, BeginCheckpoint, Goto, IsPost, IInv, TypeOK,
      PostLifecycle, Control, Running, Post, Row, loopVars, db, connVars,
      histVars
<1>24. ASSUME NEW i \in Inst, Close(i)
       PROVE  CreatedIsExplained'
  BY <1>24 DEF Close, Disconnect, Return, Goto, NoFault, Fault, AnswerGet,
      Queue, Refuse, GetStatus, IsPost, IInv, TypeOK, PostLifecycle, Control,
      Running, Post, Row, loopVars, db, connVars, histVars
<1> HIDE DEF CreatedIsExplained, HasApelido, Growth
<1> QED
  BY <1>1, <1>2, <1>3, <1>4, <1>5, <1>6, <1>7, <1>8, <1>9, <1>10, <1>11,
       <1>12, <1>13, <1>14, <1>15, <1>16, <1>17, <1>18, <1>19, <1>20, <1>21,
       <1>22, <1>23, <1>24 DEF Next, Step, Call, Continue, Failure

\* One INSERT at most stands behind a 201, from the stage that decides on it to
\* the callback that sends it.
THEOREM Explained == Spec => []CreationsAreExplained
<1>1. Init => CreationsAreExplained
  BY DEF Init, SqliteInit, CreationsAreExplained, CreatedOnce,
     CreatedIsExplained, Request, IsPost
<1>2. IInv /\ CreationsAreExplained /\ [Next]_vars => CreationsAreExplained'
  BY OnceStep, CreatedStep DEF CreationsAreExplained
<1> QED
  BY <1>1, <1>2, Inductive, PTL DEF Spec

\* However the instances interleave, a client told 201 finds its nickname taken,
\* unless the INSERT itself failed: the row that took it may be another's.
THEOREM Created == Spec => []CreatedIsTaken
<1>1. CreationsAreExplained => CreatedIsTaken
  BY DEF CreationsAreExplained, CreatedIsExplained, CreatedIsTaken, Delivered
<1> QED
  BY <1>1, Explained, PTL

\* The row that a COMMIT adds belongs to an unanswered POST with 201 decided.
LEMMA CommitCreated ==
  ASSUME IInv, CreatedOnce, RowsAreCreated, NEW i \in Inst, InsertCommit(i)
  PROVE  RowsAreCreated'
<1>1. exec[i] \in Req /\ IsPost(exec[i]) /\ post[exec[i]].http = 201
  BY DEF InsertCommit, IInv, Control, Running
<1>2. UNCHANGED <<post, reply, input>>
  BY DEF InsertCommit, connVars
<1>3. reply[exec[i]] \in {0, 201}
  BY DEF InsertCommit, IInv, Control, Running
<1> QED
  BY <1>1, <1>2, <1>3
  DEF InsertCommit, CommitRow, CreatedOnce, RowsAreCreated, IsPost

\* A row and the status of its POST agree from the INSERT to the answer.
LEMMA RowsCreatedStep ==
  IInv /\ CreatedOnce /\ RowsAreCreated /\ [Next]_vars => RowsAreCreated'
<1> SUFFICES ASSUME IInv, CreatedOnce, RowsAreCreated, [Next]_vars
             PROVE  RowsAreCreated'
  OBVIOUS
<1>0. input' = input
  BY GrowthStep DEF Growth
<1> USE <1>0 DEF RowsAreCreated
<1>1. CASE UNCHANGED vars
  BY <1>1 DEF vars, loopVars, db, connVars, histVars, IsPost
<1>2. ASSUME NEW r \in Req, Send(r)
      PROVE  RowsAreCreated'
  BY <1>2 DEF Send, IsPost, IInv, TypeOK, PostLifecycle, Control, Running,
      Post, Row, Request, loopVars, db, connVars, histVars, CreatedOnce,
      SqliteTypeOK
<1>3. ASSUME NEW i \in Inst, NEW r \in Req, Receive(i, r)
      PROVE  RowsAreCreated'
  BY <1>3 DEF Receive, IsPost, IInv, TypeOK, PostLifecycle, Control, Running,
      Post, Row, Request, loopVars, db, connVars, histVars, CreatedOnce,
      SqliteTypeOK
<1>4. ASSUME NEW i \in Inst, NEW r \in Req, Abort(i, r)
      PROVE  RowsAreCreated'
  BY <1>4 DEF Abort, Callable, IsPost, IInv, TypeOK, PostLifecycle, Control,
      Running, Post, Row, Request, loopVars, db, connVars, histVars,
      CreatedOnce, SqliteTypeOK
<1>5. ASSUME NEW i \in Inst, NEW r \in Req, RequestCompleted(i, r)
      PROVE  RowsAreCreated'
  BY <1>5 DEF RequestCompleted, Callable, Release, IsPost, IInv, TypeOK,
      PostLifecycle, Control, Running, Post, Row, Request, loopVars, db,
      connVars, histVars, CreatedOnce, SqliteTypeOK
<1>6. ASSUME NEW i \in Inst, NEW r \in Req, FirstCall(i, r)
      PROVE  RowsAreCreated'
  BY <1>6 DEF FirstCall, Callable, NewPost, Upload, NoFault, Fault, Refuse,
      IsPost, IInv, TypeOK, PostLifecycle, Control, Running, Post, Row,
      Request, loopVars, db, connVars, histVars, CreatedOnce, SqliteTypeOK
<1>7. ASSUME NEW i \in Inst, NEW r \in Req, FirstChunk(i, r)
      PROVE  RowsAreCreated'
  <2>1. PICK code \in {404, 422, 500}, p \in {"null", "filled"} :
          post' = [post EXCEPT ![r] = [stage |-> 1, http |-> code, pessoa |-> p]]
    BY <1>7, ProcessingType DEF FirstChunk, IInv
  <2>2. \/ UNCHANGED <<pc, exec>>
        \/ /\ input[r].url /\ input[r].ok /\ 1 > 0
           /\ pc' = [pc EXCEPT ![i] = "open"]
           /\ exec' = [exec EXCEPT ![i] = r]
    BY <1>7, ProcessingType DEF FirstChunk, IInv
  <2> QED
    BY <1>7, <2>1, <2>2
    DEF FirstChunk, Callable, IInv, TypeOK, SqliteTypeOK, Row, CreatedOnce, PostLifecycle,
        IsPost, db
<1>8. ASSUME NEW i \in Inst, NEW r \in Req, NextChunk(i, r)
      PROVE  RowsAreCreated'
  BY <1>8 DEF NextChunk, Callable, Refuse, IsPost, IInv, TypeOK,
      PostLifecycle, Control, Running, Post, Row, Request, loopVars, db,
      connVars, histVars, CreatedOnce, SqliteTypeOK
<1>9. ASSUME NEW i \in Inst, NEW r \in Req, EmptyBody(i, r)
      PROVE  RowsAreCreated'
  <2>1. PICK code \in {404, 422, 500}, p \in {"null", "filled"} :
          post' = [post EXCEPT ![r] = [stage |-> 1, http |-> code, pessoa |-> p]]
    BY <1>9, ProcessingType DEF EmptyBody, IInv
  <2>2. \/ UNCHANGED <<pc, exec>>
        \/ /\ input[r].url /\ input[r].ok /\ 0 > 0
           /\ pc' = [pc EXCEPT ![i] = "open"]
           /\ exec' = [exec EXCEPT ![i] = r]
    BY <1>9, ProcessingType DEF EmptyBody, IInv
  <2> QED
    BY <1>9, <2>1, <2>2
    DEF EmptyBody, Callable, IInv, TypeOK, SqliteTypeOK, Row, CreatedOnce, PostLifecycle,
        IsPost, db
<1>10. ASSUME NEW i \in Inst, NEW r \in Req, Respond(i, r)
       PROVE  RowsAreCreated'
  BY <1>10 DEF Respond, Callable, Queue, NoFault, Fault, Refuse, IsPost, IInv,
      TypeOK, PostLifecycle, Control, Running, Post, Row, Request, loopVars,
      db, connVars, histVars, CreatedOnce, SqliteTypeOK
<1>11. ASSUME NEW i \in Inst, NEW r \in Req, RefuseGet(i, r)
       PROVE  RowsAreCreated'
  BY <1>11 DEF RefuseGet, Callable, NoQuery, AnswerGet, Queue, NoFault, Fault,
      Refuse, IsPost, IInv, TypeOK, PostLifecycle, Control, Running, Post,
      Row, Request, loopVars, db, connVars, histVars, CreatedOnce,
      SqliteTypeOK
<1>12. ASSUME NEW i \in Inst, NEW r \in Req, StartGet(i, r)
       PROVE  RowsAreCreated'
  BY <1>12 DEF StartGet, Callable, NoQuery, Goto, IsPost, IInv, TypeOK,
      PostLifecycle, Control, Running, Post, Row, Request, loopVars, db,
      connVars, histVars, CreatedOnce, SqliteTypeOK
<1>13. ASSUME NEW i \in Inst, NEW r \in Req, OtherMethod(i, r)
       PROVE  RowsAreCreated'
  BY <1>13 DEF OtherMethod, Callable, Refuse, IsPost, IInv, TypeOK,
      PostLifecycle, Control, Running, Post, Row, Request, loopVars, db,
      connVars, histVars, CreatedOnce, SqliteTypeOK
<1>14. ASSUME NEW i \in Inst, OpenOk(i)
       PROVE  RowsAreCreated'
  BY <1>14 DEF OpenOk, Connect, Goto, IsPost, IInv, TypeOK, PostLifecycle,
      Control, Running, Post, Row, Request, loopVars, db, connVars, histVars,
      CreatedOnce, SqliteTypeOK
<1>15. ASSUME NEW i \in Inst, OpenFail(i)
       PROVE  RowsAreCreated'
  BY <1>15 DEF OpenFail, GivesUp, Fault, GetFailsTwice, Return, Goto, Queue, Refuse, GetStatus,
      IsPost, IInv, TypeOK, PostLifecycle, Control, Running, Post, Row,
      Request, loopVars, db, connVars, histVars, CreatedOnce, SqliteTypeOK
<1>16. ASSUME NEW i \in Inst, Check(i)
       PROVE  RowsAreCreated'
  <2> DEFINE r == exec[i]
  <2>1. /\ r \in Req /\ IsPost(r) /\ pc[i] = "check" /\ phase[r] \in {"body", "full"}
        /\ \A j \in Inst \ {i} : pc'[j] = pc[j]
        /\ \A q \in Req \ {r} : post'[q] = post[q]
        /\ post[r] # NoPost /\ post'[r] # NoPost /\ post'[r].stage = 1
        /\ post'[r].http \in {201, 422}
        /\ pc'[i] = IF post'[r].http = 201 THEN "insert" ELSE "close"
    BY <1>16, CheckChanges
  <2>2. UNCHANGED <<rows, exec, input, phase, left, reply, hurt>>
    BY <1>16, CheckChanges
  <2>3. \A x \in rows : x.uuid # r
    BY <2>1 DEF CreatedOnce
  <2>4. \A x \in rows : x.uuid \in Req
    BY DEF IInv, TypeOK, SqliteTypeOK, Row
  <2> QED
    BY <2>1, <2>2, <2>3, <2>4 DEF IsPost
<1>17. ASSUME NEW i \in Inst, CheckFail(i)
       PROVE  RowsAreCreated'
  BY <1>17 DEF CheckFail, Fault, Goto, IsPost, IInv, TypeOK, PostLifecycle,
      Control, Running, Post, Row, Request, loopVars, db, connVars, histVars,
      CreatedOnce, SqliteTypeOK
<1>18. ASSUME NEW i \in Inst, InsertBegin(i)
       PROVE  RowsAreCreated'
  BY <1>18 DEF InsertBegin, BeginWrite, Goto, IsPost, IInv, TypeOK,
      PostLifecycle, Control, Running, Post, Row, Request, loopVars, db,
      connVars, histVars, CreatedOnce, SqliteTypeOK
<1>19. ASSUME NEW i \in Inst, InsertCommit(i)
       PROVE  RowsAreCreated'
  BY <1>19, CommitCreated
<1>20. ASSUME NEW i \in Inst, InsertFail(i)
       PROVE  RowsAreCreated'
  BY <1>20 DEF InsertFail, Rollback, Fault, Goto, IsPost, IInv, TypeOK,
      PostLifecycle, Control, Running, Post, Row, Request, loopVars, db,
      connVars, histVars, CreatedOnce, SqliteTypeOK
<1>21. ASSUME NEW i \in Inst, Read(i)
       PROVE  RowsAreCreated'
  BY <1>21 DEF Read, Selections, Matching, Goto, IsPost, IInv, TypeOK,
      PostLifecycle, Control, Running, Post, Row, Request, loopVars, db,
      connVars, histVars, CreatedOnce, SqliteTypeOK
<1>22. ASSUME NEW i \in Inst, ReadFail(i)
       PROVE  RowsAreCreated'
  BY <1>22 DEF ReadFail, Fault, Goto, IsPost, IInv, TypeOK, PostLifecycle,
      Control, Running, Post, Row, Request, loopVars, db, connVars, histVars,
      CreatedOnce, SqliteTypeOK
<1>23. ASSUME NEW i \in Inst, CloseLast(i)
       PROVE  RowsAreCreated'
  BY <1>23 DEF CloseLast, BeginCheckpoint, Goto, IsPost, IInv, TypeOK,
      PostLifecycle, Control, Running, Post, Row, Request, loopVars, db,
      connVars, histVars, CreatedOnce, SqliteTypeOK
<1>24. ASSUME NEW i \in Inst, Close(i)
       PROVE  RowsAreCreated'
  BY <1>24 DEF Close, Disconnect, Return, Goto, NoFault, Fault, AnswerGet,
      Queue, Refuse, GetStatus, IsPost, IInv, TypeOK, PostLifecycle, Control,
      Running, Post, Row, Request, loopVars, db, connVars, histVars,
      CreatedOnce, SqliteTypeOK
<1> HIDE DEF RowsAreCreated
<1> QED
  BY <1>1, <1>2, <1>3, <1>4, <1>5, <1>6, <1>7, <1>8, <1>9, <1>10, <1>11,
       <1>12, <1>13, <1>14, <1>15, <1>16, <1>17, <1>18, <1>19, <1>20, <1>21,
       <1>22, <1>23, <1>24 DEF Next, Step, Call, Continue, Failure

\* No client is ever refused a resource that was created, and every row comes
\* from a well-formed POST.
THEOREM RowsHaveOrigin == Spec => []RowsAreCreated
<1>1. Init => CreatedOnce /\ RowsAreCreated
  BY DEF Init, SqliteInit, CreatedOnce, RowsAreCreated, Request, IsPost
<1> QED
  BY <1>1, OnceStep, RowsCreatedStep, Inductive, PTL DEF Spec
=============================================================================
