-------------------------- MODULE DeploymentProofs --------------------------
(***************************************************************************)
(* What holds when the instances boot, die and are started again, and      *)
(* nginx hands their requests on, for every number of instances, requests, *)
(* failing calls and deaths: the invariants of the request path, what      *)
(* main() and the death of a process add to them, and Registry still.      *)
(***************************************************************************)
EXTENDS AnswerProofs, Deployment

USE NoInstAssumption, HandlerAssumption, NoPostAssumption, DeploymentAssumption

\* Where main() has the table behind it, and what an instance that does not serve
\* has of the requests: nothing.
Booted ==
  \A i \in Inst :
    /\ up[i] \in {"list", "close", "checkpoint", "serving"} => table
    /\ ~Alive(i) => pc[i] = "loop" /\ Connected(i) = {}

PathInv == RInv /\ UniqueApelido

-----------------------------------------------------------------------------
(***************************************************************************)
(* The steps that main() and nginx add                                     *)
(***************************************************************************)

\* main() uses the database and nothing else of the request path.
Aside ==
  /\ UNCHANGED <<rows, writer, loopVars, connVars, known, hurt>>
  /\ opened' \subseteq Inst /\ excl' \in Inst \cup {NoInst}
  /\ faults' \in 0..MaxFaults /\ faults <= faults'

\* Which changes none of it.
LEMMA AsidePath ==
  ASSUME PathInv, Aside
  PROVE  PathInv' /\ Growth /\ Promised
<1> USE DEF PathInv, RInv, Aside, loopVars, connVars
<1>1. Growth
  BY DEF Growth
<1>2. IInv'
  BY DEF IInv, TypeOK, SqliteTypeOK, PostLifecycle, Control, Running, IsPost
<1>3. CreatedOnce' /\ CreatedIsExplained' /\ RowsAreCreated' /\ UniqueApelido'
  BY DEF CreatedOnce, CreatedIsExplained, RowsAreCreated, UniqueApelido, HasApelido, IsPost
<1>4. Within({}, {})
  BY <1>1 DEF Within, Untouched, Resting
<1>5. AInv'
  BY <1>2, <1>4, Elsewhere
<1>6. Promised
  BY DEF Promised, Promise!vars, StateMap, HitMap, AnswerMap
<1> QED
  BY <1>1, <1>2, <1>3, <1>5, <1>6

\* A step of the request path, of whichever instance.
LEMMA NextPath ==
  ASSUME PathInv, Next
  PROVE  PathInv' /\ Growth /\ Promised
<1> USE DEF PathInv, RInv
<1>1. RInv' /\ Growth
  BY IInvStep, OnceStep, CreatedStep, RowsCreatedStep, AInvStep, GrowthStep
<1>2. UniqueApelido'
  BY RowsStep DEF UniqueApelido, InsertCommit, CommitRow, Conflict
<1> QED
  BY <1>1, <1>2, PromisedStep

\* A step of nginx for one request that no instance works on.
LEMMA SkipPath ==
  ASSUME PathInv, NEW i \in Inst, NEW r \in Req, Skip(i, r)
  PROVE  PathInv' /\ Growth /\ Promised
<1> USE DEF PathInv, RInv, Skip, db, loopVars
<1>1. /\ TypeOK /\ phase[r] = "sent" /\ phase'[r] \in {"sent", "closed"}
      /\ \A q \in Req \ {r} : phase'[q] = phase[q] /\ hurt'[q] = hurt[q]
      /\ hurt'[r] \in {hurt[r], hurt[r] \cup {"crash"}}
      /\ hurt' = hurt \/ hurt' = [hurt EXCEPT ![r] = @ \cup {"crash"}]
  BY DEF IInv, TypeOK
<1>2. Growth /\ Hurts(r)
  BY <1>1 DEF Growth, Hurts
<1>3. IInv'
  <2>1. TypeOK'
    BY DEF IInv, TypeOK, SqliteTypeOK, Phase
  <2>2. PostLifecycle'
    BY <1>1 DEF IInv, PostLifecycle
  <2>3. Control'
    BY <1>1 DEF IInv, Control, Running, IsPost
  <2> QED
    BY <2>1, <2>2, <2>3 DEF IInv
<1>4. CreatedOnce' /\ CreatedIsExplained' /\ RowsAreCreated' /\ UniqueApelido'
  BY <1>1 DEF CreatedOnce, CreatedIsExplained, RowsAreCreated, UniqueApelido, HasApelido,
              IsPost
<1>5. Touches({}, r)
  <2>1. \A j \in Inst : pc[j] # "loop" => exec[j] # r
    BY <1>1, NotRunning
  <2>2. faults <= faults'
    BY <1>1 DEF TypeOK
  <2> QED
    BY <1>1, <1>2, <2>1, <2>2 DEF Touches, Untouched, Resting
<1>6. Explanation(r)'
  BY <1>1, <1>2, <1>3, Unanswered DEF AInv, IInv, Control, PostLifecycle
<1>7. AInv'
  BY <1>3, <1>5, <1>6, Locally
<1>8. Promised
  BY <1>1, <1>2, Inside DEF Unseen
<1> QED
  BY <1>2, <1>3, <1>4, <1>7, <1>8

\* A request that is handed on begins again, with nothing left of its first try.
LEMMA PassOnPath ==
  ASSUME PathInv, NEW r \in Req, PassOn(r)
  PROVE  PathInv' /\ Growth /\ Promised
<1> USE DEF PathInv, RInv, PassOn, db, loopVars, histVars
<1>1. /\ TypeOK /\ phase[r] = "closed" /\ ~IsPost(r)
      /\ phase' = [phase EXCEPT ![r] = "sent"] /\ seen' = [seen EXCEPT ![r] = {}]
      /\ at' = [at EXCEPT ![r] = NoInst]
      /\ UNCHANGED <<rows, input, left, post, reply, known, hurt, faults>>
  BY DEF IInv, CanPassOn, MayPassOn
<1>2. phase'[r] = "sent" /\ seen'[r] = {} /\ at'[r] = NoInst
      /\ \A q \in Req \ {r} : phase'[q] = phase[q] /\ seen'[q] = seen[q] /\ at'[q] = at[q]
  BY <1>1 DEF TypeOK
<1>3. Growth /\ Hurts(r)
  BY <1>1 DEF Growth, Hurts
<1>4. reply[r] = 0 /\ post[r] = NoPost /\ \A j \in Inst : pc[j] # "loop" => exec[j] # r
  BY <1>1 DEF IInv, Control, PostLifecycle, Running
<1>5. IInv'
  <2>1. TypeOK'
    BY <1>1 DEF TypeOK, SqliteTypeOK, Phase
  <2>2. PostLifecycle'
    BY <1>1, <1>2, <1>4 DEF IInv, PostLifecycle
  <2>3. Control'
    BY <1>1, <1>2, <1>4 DEF IInv, Control, Running, IsPost
  <2> QED
    BY <2>1, <2>2, <2>3 DEF IInv
<1>6. CreatedOnce'
  <2>1. \A x \in rows : x.uuid # r
    BY <1>1 DEF RowsAreCreated
  <2> QED
    BY <1>1, <1>2, <2>1 DEF CreatedOnce, IsPost
<1>7. CreatedIsExplained' /\ RowsAreCreated' /\ UniqueApelido'
  BY <1>1 DEF CreatedIsExplained, RowsAreCreated, UniqueApelido, HasApelido, IsPost
<1>8. Touches({}, r)
  BY <1>1, <1>2, <1>3, <1>4 DEF Touches, Untouched, Resting, TypeOK
<1>9. Explanation(r)'
  <2>1. Pieces(r)' /\ PostExplained(r)' /\ GetExplained(r)'
    BY <1>1, <1>2, <1>4 DEF Pieces, PostExplained, GetExplained, IsPost
  <2> QED
    BY <1>1, <1>2, <2>1 DEF AInv, Explanation
<1>10. AInv'
  BY <1>5, <1>8, <1>9, Locally
<1>11. Promised
  <2>1. StateMap' = StateMap /\ AnswerMap' = AnswerMap /\ HitMap' = HitMap
    BY <1>1, <1>2 DEF StateMap, AnswerMap, HitMap
  <2> QED
    BY <1>1, <2>1 DEF Promised, Promise!vars
<1> QED
  BY <1>3, <1>5, <1>6, <1>7, <1>10, <1>11

\* A request of a process that dies loses its connection, and what was being
\* decided for it.
LEMMA CrashChanges ==
  ASSUME IInv, NEW i \in Inst, Crash(i)
  PROVE  /\ UNCHANGED <<rows, input, at, left, seen, known, faults, table, tried>>
         /\ Connected(i) \subseteq Req
         /\ \A r \in Connected(i) :
              /\ phase[r] \notin {"new", "sent", "done", "closed"} /\ at[r] = i
              /\ phase'[r] = "closed" /\ reply'[r] = 0 /\ post'[r] = NoPost
              /\ hurt'[r] = hurt[r] \cup (IF MayPassOn(r, i) THEN {} ELSE {"crash"})
         /\ \A r \in Req \ Connected(i) :
              /\ phase'[r] = phase[r] /\ reply'[r] = reply[r] /\ post'[r] = post[r]
              /\ hurt'[r] = hurt[r]
         /\ pc'[i] = "loop" /\ exec'[i] = NoReq /\ tries'[i] = 0 /\ ret'[i] = "none"
         /\ pc[i] # "loop" => exec[i] \in Connected(i)
         /\ \A j \in Inst \ {i} :
              /\ Resting(j)
              /\ pc[j] # "loop" => exec[j] \in Req /\ exec[j] \notin Connected(i)
<1> USE DEF IInv, Crash
<1>1. /\ UNCHANGED <<rows, input, at, left, seen, known, faults, table, tried>>
      /\ Connected(i) \subseteq Req
  BY DEF DropLocks, Connected
<1>2. \A r \in Req : r \in Connected(i) <=>
        at[r] = i /\ phase[r] \in {"headers", "body", "full", "queued", "failed"}
  BY DEF Connected
<1>3. /\ pc[i] # "loop" => exec[i] \in Connected(i)
      /\ \A j \in Inst \ {i} :
           pc[j] # "loop" => exec[j] \in Req /\ exec[j] \notin Connected(i)
  BY <1>2 DEF Control, Running
<1>4. /\ pc'[i] = "loop" /\ exec'[i] = NoReq /\ tries'[i] = 0 /\ ret'[i] = "none"
      /\ \A j \in Inst \ {i} : Resting(j)
  BY DEF Return, Goto, Resting, TypeOK
<1> DEFINE lost == Connected(i)
<1>5. /\ phase' = [r \in Req |-> IF r \in lost THEN "closed" ELSE phase[r]]
      /\ reply' = [r \in Req |-> IF r \in lost THEN 0 ELSE reply[r]]
      /\ post' = [r \in Req |-> IF r \in lost THEN NoPost ELSE post[r]]
      /\ hurt' = [r \in Req |-> IF r \in lost /\ ~MayPassOn(r, i)
                                THEN hurt[r] \cup {"crash"} ELSE hurt[r]]
  OBVIOUS
<1> HIDE DEF lost, Crash
<1>6. \A r \in lost : /\ r \in Req
                       /\ phase[r] \notin {"new", "sent", "done", "closed"} /\ at[r] = i
  BY <1>1, <1>2 DEF lost
<1>7. /\ \A r \in lost :
           /\ phase'[r] = "closed" /\ reply'[r] = 0 /\ post'[r] = NoPost
           /\ hurt'[r] = hurt[r] \cup (IF MayPassOn(r, i) THEN {} ELSE {"crash"})
      /\ \A r \in Req \ lost :
           /\ phase'[r] = phase[r] /\ reply'[r] = reply[r] /\ post'[r] = post[r]
           /\ hurt'[r] = hurt[r]
  BY <1>5, <1>6
<1> QED
  BY <1>1, <1>3, <1>4, <1>6, <1>7 DEF lost

\* A process dies with all that it had in memory: what is stored stays as it was
\* and no promise is broken but the answer.
LEMMA CrashIInv ==
  ASSUME IInv, NEW i \in Inst, Crash(i)
  PROVE  IInv'
<1> USE DEF IInv
<1>1. TypeOK'
  <2>1. SqliteTypeOK'
    BY DEF Crash, DropLocks, TypeOK, SqliteTypeOK
  <2>2. /\ pc' \in [Inst -> Pc] /\ exec' \in [Inst -> Req \cup {NoReq}]
        /\ tries' \in [Inst -> 0..(MaxTries - 1)]
        /\ ret' \in [Inst -> {"none", "ok", "notfound", "error"}]
    BY DEF Crash, Return, Goto, TypeOK, Pc
  <2>3. phase' \in [Req -> Phase] /\ reply' \in [Req -> Code \cup {0}]
    BY DEF Crash, TypeOK, Phase
  <2>4. /\ post' \in [Req -> Post \cup {NoPost}]
        /\ \A r \in Req : post'[r] # NoPost => post'[r].stage \in 0..2
    BY DEF Crash, TypeOK
  <2>5. hurt' \in [Req -> SUBSET {"memory", "open", "query", "insert", "abort", "crash"}]
    BY DEF Crash, TypeOK
  <2> QED
    BY <2>1, <2>2, <2>3, <2>4, <2>5 DEF Crash, TypeOK
<1>2. PostLifecycle'
  BY CrashChanges DEF PostLifecycle
<1>3. Control'
  <2>1. ASSUME NEW j \in Inst PROVE Running(j)'
    <3>1. CASE j = i
      BY <3>1, CrashChanges DEF Running
    <3>2. CASE j # i
      BY <3>2, CrashChanges DEF Control, Running, Resting, IsPost
    <3> QED
      BY <3>1, <3>2
  <2>2. ASSUME NEW q \in Req
        PROVE  /\ phase'[q] \in {"body", "full"} => IsPost(q)'
               /\ phase'[q] = "body" => left'[q] > 0
               /\ reply'[q] # 0 => phase'[q] \in {"queued", "done"}
    BY CrashChanges DEF Control, IsPost
  <2> QED
    BY <2>1, <2>2 DEF Control
<1> QED
  BY <1>1, <1>2, <1>3

\* The clients of the dead process have failed; all that was said before holds.
LEMMA CrashPath ==
  ASSUME PathInv, NEW i \in Inst, Crash(i)
  PROVE  PathInv' /\ Growth /\ Promised
<1> USE DEF PathInv, RInv
<1> DEFINE lost == Connected(i)
<1>1. IInv' /\ TypeOK
  BY CrashIInv DEF IInv
<1>2. Growth
  BY CrashChanges DEF Growth
<1>3. CreatedOnce'
  BY CrashChanges DEF CreatedOnce, Resting, IsPost
<1>4. CreatedIsExplained'
  BY CrashChanges DEF CreatedIsExplained, Resting, HasApelido
<1>5. RowsAreCreated' /\ UniqueApelido'
  <2>1. \A r \in Req : /\ post'[r] \in {post[r], NoPost} /\ reply'[r] \in {reply[r], 0}
    BY CrashChanges
  <2>2. rows' = rows /\ input' = input /\ \A x \in rows : x.uuid \in Req
    BY <1>1, CrashChanges DEF TypeOK, SqliteTypeOK, Row
  <2> QED
    BY <2>1, <2>2 DEF RowsAreCreated, UniqueApelido, IsPost
<1>6. Within({i}, lost)
  <2>1. faults <= faults'
    BY <1>1, CrashChanges DEF TypeOK
  <2> QED
    BY <1>2, <2>1, CrashChanges DEF Within, Untouched
<1>7. ASSUME NEW r \in lost PROVE Explanation(r)'
  <2>1. r \in Req /\ Explanation(r)
    BY CrashChanges DEF AInv
  <2>2. /\ reply'[r] = 0 /\ post'[r] = NoPost /\ phase'[r] = "closed"
        /\ seen'[r] = seen[r] /\ known'[r] = known[r]
    BY CrashChanges
  <2>3. TypeOK'
    BY <1>1 DEF IInv
  <2> QED
    BY <1>1, <1>2, <2>1, <2>2, <2>3, Unanswered
<1>8. CallExplained(i)'
  BY <1>1, CrashChanges DEF CallExplained, IInv, TypeOK
<1>9. AInv'
  BY <1>1, <1>6, <1>7, <1>8, CrashChanges, Elsewhere
<1>10. Promised
  <2> DEFINE S == {r \in lost : ~MayPassOn(r, i)}
  <2>1. S \in SUBSET Req
    BY CrashChanges
  <2>2. StateMap' = StateMap /\ AnswerMap' = AnswerMap
    BY CrashChanges DEF StateMap, AnswerMap
  <2>3. \A r \in Req : hurt'[r] # {} <=> hurt[r] # {} \/ r \in S
    BY CrashChanges
  <2>4. HitMap' = HitMap \cup S
    BY <2>1, <2>3 DEF HitMap
  <2>5. \A r \in S : StateMap[r] = "waiting"
    BY CrashChanges DEF StateMap
  <2>6. UNCHANGED <<input, rows, known>>
    BY CrashChanges
  <2> HIDE DEF S
  <2>7. Promise!Fail(S)
    BY <2>2, <2>4, <2>5, <2>6 DEF Promise!Fail
  <2> QED
    BY <2>1, <2>7 DEF Promised, Promise!Next
<1> QED
  BY <1>1, <1>2, <1>3, <1>4, <1>5, <1>9, <1>10

\* What main() does to the request path, whichever of its calls fail.
LEMMA MainAside ==
  ASSUME PathInv, NEW i \in Inst, Main(i) \/ BootFail(i) \/ Forget(i)
  PROVE  Aside
<1>1. /\ opened \subseteq Inst /\ excl \in Inst \cup {NoInst} /\ faults \in 0..MaxFaults
      /\ MaxFaults \in Nat /\ faults <= faults
  BY DEF PathInv, RInv, IInv, TypeOK, SqliteTypeOK
<1>2. CASE UNCHANGED vars
  BY <1>1, <1>2 DEF vars, db, histVars, Aside
<1>3. CASE BootOpen(i)
  BY <1>1, <1>3 DEF BootOpen, Connect, histVars, Aside
<1>4. CASE BootCloseLast(i)
  BY <1>1, <1>4 DEF BootCloseLast, BeginCheckpoint, histVars, Aside
<1>5. CASE BootServe(i)
  BY <1>1, <1>5 DEF BootServe, Disconnect, histVars, Aside
<1>6. CASE BootFail(i)
  BY <1>1, <1>6 DEF BootFail, Disconnect, Aside
<1> QED
  BY <1>2, <1>3, <1>4, <1>5, <1>6 DEF Main, Boot, BootCreate, BootList, Forget

\* Booting, serving, dying and being handed on keep what the request path keeps.
LEMMA DeployPathStep ==
  ASSUME PathInv, [DeployNext]_allVars
  PROVE  PathInv' /\ Growth /\ Promised
<1>1. CASE UNCHANGED allVars
  <2>1. Aside
    BY <1>1
    DEF allVars, vars, db, histVars, Aside, PathInv, RInv, IInv, TypeOK, SqliteTypeOK
  <2> QED
    BY <2>1, AsidePath
<1>2. ASSUME NEW i \in Inst, Main(i) \/ BootFail(i) \/ Forget(i)
      PROVE  PathInv' /\ Growth /\ Promised
  BY <1>2, MainAside, AsidePath
<1>3. ASSUME NEW i \in Inst, Crash(i)
      PROVE  PathInv' /\ Growth /\ Promised
  BY <1>3, CrashPath
<1>4. ASSUME NEW i \in Inst, NEW r \in Req, Refused(i, r) \/ Shun(i, r)
      PROVE  PathInv' /\ Growth /\ Promised
  BY <1>4, SkipPath DEF Refused, Shun
<1>5. ASSUME NEW r \in Req, PassOn(r)
      PROVE  PathInv' /\ Growth /\ Promised
  BY <1>5, PassOnPath
<1>6. ASSUME \/ \E r \in Req : Send(r)
             \/ \E i \in Inst : Serve(i) \/ Trouble(i) \/ \E r \in Req : Dispatch(i, r)
      PROVE  PathInv' /\ Growth /\ Promised
  <2>1. Next
    BY <1>6 DEF Serve, Trouble, Dispatch, Next
  <2> QED
    BY <2>1, NextPath
<1> QED
  BY <1>1, <1>2, <1>3, <1>4, <1>5, <1>6 DEF DeployNext, Proxy

\* The request path keeps its invariants whichever processes die.
THEOREM DeployInductive == DeploySpec => []PathInv
<1>1. DeployInit => PathInv
  <2>1. Init => CreatedOnce /\ CreatedIsExplained /\ RowsAreCreated /\ UniqueApelido
    BY DEF Init, SqliteInit, CreatedOnce, CreatedIsExplained, RowsAreCreated, UniqueApelido,
           Request, IsPost
  <2> QED
    BY <2>1, InitIInv, InitAInv DEF DeployInit, PathInv, RInv
<1> QED
  BY <1>1, DeployPathStep, PTL DEF DeploySpec

\* Clients see the registry that they are promised also when instances die at
\* any step, are started again, and nginx hands their queries on to others.
THEOREM DeployImplements == DeploySpec => ImplementsRegistry
<1>1. DeployInit => Promise!Init
  BY DEF DeployInit, Init, SqliteInit, Promise!Init, StateMap, HitMap, AnswerMap
<1>2. PathInv /\ [DeployNext]_allVars => [Promise!Next]_(Promise!vars)
  BY DeployPathStep DEF Promised
<1> QED
  BY <1>1, <1>2, DeployInductive, PTL DEF DeploySpec, ImplementsRegistry, Promise!Spec

\* Deaths and requests that are handed on change nothing in why a client is told
\* what it is told.
THEOREM DeployAnswers ==
  DeploySpec => [](DuplicateIsTrue /\ DuplicateIsRefused /\ ReadsAreFresh /\ ErrorHasCause)
<1>1. PathInv => IInv /\ AInv
  BY DEF PathInv, RInv
<1> QED
  BY <1>1, TrueDuplicates, RefusedDuplicates, FreshReads, CausedErrors, DeployInductive, PTL

\* With deaths at any step, between the check and the INSERT or in its middle, a
\* nickname is still stored once, and whoever was told 201 finds it taken.
THEOREM DeployRows == DeploySpec => []UniqueApelido /\ []CreatedIsTaken
<1>1. PathInv => UniqueApelido /\ CreatedIsTaken
  BY DEF PathInv, RInv, CreatedIsExplained, CreatedIsTaken, Delivered
<1> QED
  BY <1>1, DeployInductive, PTL

-----------------------------------------------------------------------------
(***************************************************************************)
(* main(), the proxy and the locks                                         *)
(***************************************************************************)

\* An instance works on its own requests only.
Only(i) ==
  /\ \A j \in Inst \ {i} : pc'[j] = pc[j]
  /\ \A q \in Req : (at'[q] = at[q] /\ phase'[q] = phase[q]) \/ at'[q] = i

\* MHD calls handler() for a request of its own.
LEMMA CallOnly ==
  ASSUME TypeOK, NEW i \in Inst, NEW r \in Req,
         Receive(i, r) \/ Abort(i, r) \/ RequestCompleted(i, r) \/ Call(i, r)
  PROVE  Only(i)
<1> USE DEF TypeOK, Only, Callable, loopVars
<1>1. ASSUME Receive(i, r) PROVE Only(i)
  BY <1>1 DEF Receive
<1>2. ASSUME Abort(i, r) PROVE Only(i)
  BY <1>2 DEF Abort
<1>3. ASSUME RequestCompleted(i, r) PROVE Only(i)
  BY <1>3 DEF RequestCompleted
<1>4. ASSUME FirstCall(i, r) PROVE Only(i)
  BY <1>4 DEF FirstCall, Refuse
<1>5. ASSUME FirstChunk(i, r) PROVE Only(i)
  BY <1>5 DEF FirstChunk, Processing, Goto
<1>6. ASSUME NextChunk(i, r) PROVE Only(i)
  BY <1>6 DEF NextChunk, Refuse
<1>7. ASSUME EmptyBody(i, r) PROVE Only(i)
  BY <1>7 DEF EmptyBody, Processing, Goto
<1>8. ASSUME Respond(i, r) PROVE Only(i)
  BY <1>8 DEF Respond, Queue, Refuse
<1>9. ASSUME RefuseGet(i, r) PROVE Only(i)
  BY <1>9 DEF RefuseGet, AnswerGet, Queue, Refuse
<1>10. ASSUME StartGet(i, r) PROVE Only(i)
  BY <1>10 DEF StartGet, Goto, connVars
<1>11. ASSUME OtherMethod(i, r) PROVE Only(i)
  BY <1>11 DEF OtherMethod, Refuse
<1> QED
  BY <1>1, <1>2, <1>3, <1>4, <1>5, <1>6, <1>7, <1>8, <1>9, <1>10, <1>11 DEF Call

\* And so does a call that uses the database.
LEMMA AccessOnly ==
  ASSUME IInv, NEW i \in Inst, Continue(i) \/ Failure(i)
  PROVE  Only(i) /\ pc[i] # "loop"
<1> USE DEF TypeOK, IInv, Only, Goto, connVars
<1>1. pc[i] # "loop"
  BY DEF Continue, Failure, OpenOk, Check, InsertBegin, InsertCommit, Read, CloseLast, Close,
         OpenFail, CheckFail, InsertFail, ReadFail
<1>2. exec[i] \in Req /\ at[exec[i]] = i
  BY <1>1 DEF Control, Running
<1>3. CASE OpenOk(i) \/ InsertBegin(i) \/ InsertCommit(i) \/ CloseLast(i) \/ CheckFail(i)
           \/ InsertFail(i) \/ ReadFail(i)
  BY <1>1, <1>3
  DEF OpenOk, InsertBegin, InsertCommit, CloseLast, CheckFail, InsertFail, ReadFail
<1>4. CASE Check(i) \/ Read(i)
  BY <1>1, <1>4 DEF Check, Read
<1>5. CASE OpenFail(i)
  BY <1>1, <1>2, <1>5 DEF OpenFail, GetFailsTwice, Return, Queue, Refuse
<1>6. CASE Close(i)
  BY <1>1, <1>2, <1>6 DEF Close, Return, AnswerGet, Queue, Refuse
<1> QED
  BY <1>1, <1>3, <1>4, <1>5, <1>6 DEF Continue, Failure

\* An instance that does not serve stays without requests while others work.
LEMMA OnlyBooted ==
  ASSUME Booted, NEW i \in Inst, Alive(i), Only(i), UNCHANGED <<up, table>>
  PROVE  Booted'
<1>1. ASSUME NEW j \in Inst, ~Alive(j) PROVE pc'[j] = "loop" /\ Connected(j)' = {}
  <2>1. j # i /\ pc[j] = "loop" /\ Connected(j) = {}
    BY <1>1 DEF Booted
  <2>2. \A q \in Req : q \in Connected(j)' => q \in Connected(j)
    BY <2>1 DEF Only, Connected
  <2> QED
    BY <2>1, <2>2 DEF Only, Connected
<1> QED
  BY <1>1 DEF Booted, Alive

\* The table is there before the first request, and a process that died has
\* nothing of a request left.
LEMMA BootedStep ==
  ASSUME DeployTypeOK, IInv, Booted, [DeployNext]_allVars
  PROVE  Booted'
<1> USE DEF IInv
<1>1. CASE UNCHANGED allVars
  BY <1>1 DEF allVars, vars, deployVars, loopVars, connVars, Booted, Alive, Connected
<1>2. ASSUME NEW i \in Inst, Main(i) \/ BootFail(i) \/ Forget(i)
      PROVE  Booted'
  <2>1. UNCHANGED <<pc, at, phase>>
    BY <1>2
    DEF Main, Boot, BootOpen, BootCreate, BootList, BootCloseLast, BootServe, BootFail, Forget,
        vars, loopVars, connVars
  <2>2. /\ table => table'
        /\ \A j \in Inst \ {i} : up'[j] = up[j]
        /\ up'[i] \in {"list", "close", "checkpoint", "serving"} => table'
        /\ up'[i] # "serving" => up[i] # "serving"
    BY <1>2
    DEF Main, Boot, BootOpen, BootCreate, BootList, BootCloseLast, BootServe, BootFail, Forget,
        Enter, Booted, DeployTypeOK
  <2> QED
    BY <2>1, <2>2 DEF Booted, Alive, Connected
<1>3. ASSUME NEW i \in Inst, Crash(i)
      PROVE  Booted'
  <2>1. /\ table' = table /\ up'[i] = "down" /\ \A j \in Inst \ {i} : up'[j] = up[j]
    BY <1>3 DEF Crash, Enter, DeployTypeOK
  <2>2. ASSUME NEW j \in Inst, NEW q \in Req, q \in Connected(j)'
        PROVE  q \in Connected(j) /\ j # i
    BY <1>3, <2>2, CrashChanges DEF Connected
  <2>3. ASSUME NEW j \in Inst PROVE pc'[j] \in {"loop", pc[j]}
    BY <1>3, CrashChanges DEF Resting
  <2>4. pc'[i] = "loop" /\ Connected(i)' = {}
    BY <1>3, <2>2, CrashChanges DEF Connected
  <2>5. ASSUME NEW j \in Inst \ {i}, ~Alive(j) PROVE pc'[j] = "loop" /\ Connected(j)' = {}
    BY <2>2, <2>3, <2>5 DEF Booted, Connected
  <2> QED
    BY <2>1, <2>4, <2>5 DEF Booted, Alive
<1>4. ASSUME NEW i \in Inst, NEW r \in Req, Skip(i, r)
      PROVE  Booted'
  BY <1>4 DEF Skip, Booted, Alive, Connected, loopVars, TypeOK
<1>5. ASSUME NEW r \in Req, PassOn(r)
      PROVE  Booted'
  BY <1>5 DEF PassOn, CanPassOn, Booted, Alive, Connected, loopVars, TypeOK
<1>6. ASSUME NEW r \in Req, Send(r), UNCHANGED deployVars
      PROVE  Booted'
  BY <1>6 DEF Send, deployVars, Booted, Alive, Connected, loopVars, TypeOK
<1>7. ASSUME NEW i \in Inst, Alive(i), UNCHANGED <<up, table>>,
             \/ Step(i) \/ Failure(i)
             \/ \E r \in Req : Receive(i, r) \/ Abort(i, r)
      PROVE  Booted'
  <2>1. Only(i)
    BY <1>7, CallOnly, AccessOnly DEF Step
  <2> QED
    BY <1>7, <2>1, OnlyBooted
<1> QED
  BY <1>1, <1>2, <1>3, <1>4, <1>5, <1>6, <1>7
  DEF DeployNext, Proxy, Dispatch, Refused, Shun, Serve, Trouble, deployVars

\* MHD's part of a request leaves the database alone.
LEMMA CallConnections ==
  ASSUME IInv, DeployConnections, UNCHANGED up, NEW i \in Inst, NEW r \in Req,
         Receive(i, r) \/ Abort(i, r) \/ RequestCompleted(i, r) \/ Call(i, r)
  PROVE  DeployConnections'
<1> USE DEF IInv, TypeOK, DeployConnections, db, loopVars
<1>1. UNCHANGED db
  BY DEF Receive, Abort, RequestCompleted, Call, FirstCall, FirstChunk, NextChunk, EmptyBody,
         Respond, RefuseGet, StartGet, OtherMethod
<1>2. pc' = pc \/ (pc[i] = "loop" /\ pc' = [pc EXCEPT ![i] = "open"])
  BY DEF Receive, Abort, RequestCompleted, Call, FirstCall, FirstChunk, NextChunk, EmptyBody,
         Respond, RefuseGet, StartGet, OtherMethod, Processing, Goto, Callable
<1> QED
  BY <1>1, <1>2

\* A call of an instance that serves closes and releases what it opened and locked.
LEMMA AccessConnections ==
  ASSUME IInv, DeployConnections, UNCHANGED up, NEW i \in Inst, Alive(i),
         Continue(i) \/ Failure(i)
  PROVE  DeployConnections'
<1> USE DEF IInv, TypeOK, SqliteTypeOK, DeployConnections, Goto, db
<1>0. up[i] \notin Booting /\ up[i] # "checkpoint"
  BY DEF Alive, Booting
<1>1. ASSUME OpenOk(i) PROVE DeployConnections'
  BY <1>0, <1>1 DEF OpenOk, Connect
<1>2. ASSUME Check(i) PROVE DeployConnections'
  BY <1>0, <1>2 DEF Check, Decision
<1>3. ASSUME InsertBegin(i) PROVE DeployConnections'
  BY <1>0, <1>3 DEF InsertBegin, BeginWrite
<1>4. ASSUME InsertCommit(i) PROVE DeployConnections'
  BY <1>0, <1>4 DEF InsertCommit, CommitRow
<1>5. ASSUME Read(i) PROVE DeployConnections'
  BY <1>0, <1>5 DEF Read
<1>6. ASSUME CloseLast(i) PROVE DeployConnections'
  BY <1>0, <1>6 DEF CloseLast, BeginCheckpoint
<1>7. ASSUME Close(i) PROVE DeployConnections'
  <2>1. /\ pc[i] \in {"close", "checkpoint"} /\ pc' = [pc EXCEPT ![i] = "loop"]
        /\ opened' = opened \ {i} /\ excl' = (IF excl = i THEN NoInst ELSE excl)
        /\ writer' = writer
    BY <1>7 DEF Close, Disconnect, Return
  <2>2. excl \in {NoInst, i}
    BY <2>1
  <2>3. writer' # i /\ excl' = NoInst
    BY <2>1, <2>2
  <2>4. \A j \in Inst \ {i} : pc'[j] = pc[j] /\ (excl = j <=> excl' = j)
    BY <2>1, <2>2
  <2>5. pc'[i] = "loop"
    BY <2>1
  <2> QED
    BY <1>0, <2>1, <2>3, <2>4, <2>5
<1>8. ASSUME OpenFail(i) PROVE DeployConnections'
  BY <1>0, <1>8 DEF OpenFail, Return
<1>9. ASSUME CheckFail(i) PROVE DeployConnections'
  BY <1>0, <1>9 DEF CheckFail
<1>10. ASSUME InsertFail(i) PROVE DeployConnections'
  BY <1>0, <1>10 DEF InsertFail, Rollback
<1>11. ASSUME ReadFail(i) PROVE DeployConnections'
  BY <1>0, <1>11 DEF ReadFail
<1> QED
  BY <1>1, <1>2, <1>3, <1>4, <1>5, <1>6, <1>7, <1>8, <1>9, <1>10, <1>11
  DEF Continue, Failure

\* So does main(), and the system does it for a process that dies.
LEMMA MainConnections ==
  ASSUME DeployTypeOK, Booted, DeployConnections, NEW i \in Inst,
         Main(i) \/ BootFail(i) \/ Crash(i)
  PROVE  DeployConnections'
<1> USE DEF DeployTypeOK, TypeOK, SqliteTypeOK, DeployConnections, Enter, Booting, vars, db,
            loopVars
<1>0. up[i] \in Booting \cup {"down"} => pc[i] = "loop"
  BY DEF Booted, Alive
<1>1. ASSUME Boot(i) PROVE DeployConnections'
  BY <1>0, <1>1 DEF Boot
<1>2. ASSUME BootOpen(i) PROVE DeployConnections'
  BY <1>0, <1>2 DEF BootOpen, Connect
<1>3. ASSUME BootCreate(i) PROVE DeployConnections'
  BY <1>0, <1>3 DEF BootCreate
<1>4. ASSUME BootList(i) PROVE DeployConnections'
  BY <1>0, <1>4 DEF BootList
<1>5. ASSUME BootCloseLast(i) PROVE DeployConnections'
  BY <1>0, <1>5 DEF BootCloseLast, BeginCheckpoint
<1>6. ASSUME BootServe(i) PROVE DeployConnections'
  BY <1>0, <1>6 DEF BootServe, Disconnect
<1>7. ASSUME BootFail(i) PROVE DeployConnections'
  BY <1>0, <1>7 DEF BootFail, Disconnect
<1>8. ASSUME Crash(i) PROVE DeployConnections'
  BY <1>0, <1>8 DEF Crash, DropLocks, Return, Goto
<1> QED
  BY <1>1, <1>2, <1>3, <1>4, <1>5, <1>6, <1>7, <1>8 DEF Main

\* The locks and the connections of all processes, from their start to their end.
LEMMA DeployConnectionsStep ==
  ASSUME DeployTypeOK, IInv, Booted, DeployConnections, [DeployNext]_allVars
  PROVE  DeployConnections'
<1>1. CASE UNCHANGED <<pc, db, up>>
  BY <1>1 DEF DeployConnections, db
<1>2. ASSUME NEW i \in Inst, Main(i) \/ BootFail(i) \/ Crash(i)
      PROVE  DeployConnections'
  BY <1>2, MainConnections
<1>3. ASSUME NEW i \in Inst, Alive(i), UNCHANGED up,
             \/ Step(i) \/ Failure(i)
             \/ \E r \in Req : Receive(i, r) \/ Abort(i, r)
      PROVE  DeployConnections'
  BY <1>3, CallConnections, AccessConnections DEF Step
<1>4. ASSUME NEW i \in Inst, NEW r \in Req, Skip(i, r) PROVE UNCHANGED <<pc, db, up>>
  BY <1>4 DEF Skip, loopVars
<1>5. ASSUME NEW r \in Req, PassOn(r) PROVE UNCHANGED <<pc, db, up>>
  BY <1>5 DEF PassOn, loopVars
<1>6. ASSUME NEW r \in Req, Send(r), UNCHANGED deployVars PROVE UNCHANGED <<pc, db, up>>
  BY <1>6 DEF Send, loopVars, deployVars
<1>7. ASSUME NEW i \in Inst, Forget(i) PROVE UNCHANGED <<pc, db, up>>
  BY <1>7 DEF Forget, vars, loopVars
<1>8. UNCHANGED allVars => UNCHANGED <<pc, db, up>>
  BY DEF allVars, vars, loopVars, deployVars
<1> QED
  BY <1>1, <1>2, <1>3, <1>4, <1>5, <1>6, <1>7, <1>8
  DEF DeployNext, Proxy, Dispatch, Refused, Shun, Serve, Trouble, deployVars

\* Who has left the queue of nginx has been given to an instance, or lost.
Handed ==
  \A r \in Req : at[r] \in Inst \/ phase[r] \in {"new", "sent"} \/ "crash" \in hurt[r]

\* nginx hands a request on from the instance that had it.
LEMMA HandedStep ==
  ASSUME IInv, Handed, Growth, [DeployNext]_allVars
  PROVE  Handed'
<1> USE DEF IInv, TypeOK, Handed, Growth
<1>1. CASE UNCHANGED <<at, phase>>
  BY <1>1
<1>2. ASSUME NEW i \in Inst, Crash(i) PROVE Handed'
  <2>1. \A r \in Connected(i) : at[r] = i
    BY DEF Connected
  <2> QED
    BY <1>2, <2>1, CrashChanges
<1>3. ASSUME NEW i \in Inst, NEW r \in Req, Skip(i, r) PROVE Handed'
  BY <1>3 DEF Skip
<1>4. ASSUME NEW r \in Req, PassOn(r) \/ Send(r) PROVE Handed'
  BY <1>4 DEF PassOn, Send
<1>5. ASSUME NEW i \in Inst,
             \/ Step(i) \/ Failure(i)
             \/ \E r \in Req : Receive(i, r) \/ Abort(i, r)
      PROVE  Handed'
  <2>1. Only(i)
    BY <1>5, CallOnly, AccessOnly DEF Step
  <2> QED
    BY <2>1 DEF Only
<1>6. ASSUME NEW i \in Inst, Main(i) \/ BootFail(i) \/ Forget(i)
      PROVE  UNCHANGED <<at, phase>>
  BY <1>6
  DEF Main, Boot, BootOpen, BootCreate, BootList, BootCloseLast, BootServe, BootFail, Forget,
      vars, connVars
<1>7. UNCHANGED allVars => UNCHANGED <<at, phase>>
  BY DEF allVars, vars, connVars
<1> QED
  BY <1>1, <1>2, <1>3, <1>4, <1>5, <1>6, <1>7
  DEF DeployNext, Proxy, Dispatch, Refused, Shun, Serve, Trouble

\* The states of main() and of nginx.
LEMMA DeployTypeStep ==
  ASSUME DeployTypeOK, Handed, TypeOK', [DeployNext]_allVars
  PROVE  DeployTypeOK'
<1> USE DEF DeployTypeOK, Booting, Enter
<1>1. CASE UNCHANGED deployVars
  BY <1>1 DEF deployVars
<1>2. ASSUME NEW i \in Inst, Main(i) \/ BootFail(i) \/ Forget(i)
      PROVE  DeployTypeOK'
  <2>1. /\ \E s \in Booting \cup {"down", "serving"} : up' = [up EXCEPT ![i] = s] \/ up' = up
        /\ table' \in BOOLEAN /\ tried' = tried /\ crashes' = crashes
        /\ shunned' \subseteq shunned
    BY <1>2
    DEF Main, Boot, BootOpen, BootCreate, BootList, BootCloseLast, BootServe, BootFail, Forget
  <2> QED
    BY <2>1
<1>3. ASSUME NEW i \in Inst, Crash(i)
      PROVE  DeployTypeOK'
  BY <1>3 DEF Crash
<1>4. ASSUME NEW i \in Inst, NEW r \in Req, Refused(i, r) \/ Shun(i, r)
      PROVE  DeployTypeOK'
  BY <1>4 DEF Refused, Shun, Skip
<1>5. ASSUME NEW r \in Req, PassOn(r)
      PROVE  DeployTypeOK'
  <2>1. at[r] \in Inst
    BY <1>5 DEF PassOn, CanPassOn, Handed
  <2> QED
    BY <1>5, <2>1 DEF PassOn
<1>6. ASSUME NEW i \in Inst, Serve(i)
      PROVE  DeployTypeOK'
  BY <1>6 DEF Serve
<1>7. UNCHANGED allVars => UNCHANGED deployVars
  BY DEF allVars
<1> QED
  BY <1>1, <1>2, <1>3, <1>4, <1>5, <1>6, <1>7 DEF DeployNext, Proxy, Dispatch, Trouble

\* The inductive invariant of the processes.
THEOREM ProcessesInductive ==
  DeploySpec => [](DeployTypeOK /\ Handed /\ Booted /\ DeployConnections)
<1> DEFINE Processes == DeployTypeOK /\ Handed /\ Booted /\ DeployConnections
<1>1. DeployInit => Processes
  <2> SUFFICES ASSUME DeployInit PROVE Processes
    OBVIOUS
  <2>0. Init /\ TypeOK
    BY InitIInv DEF DeployInit, IInv
  <2>1. DeployTypeOK /\ Handed
    <3>1. Handed
      BY <2>0 DEF Init, Handed
    <3>2. DeployTypeOK
      <4>1. up \in [Inst -> Booting \cup {"down", "serving"}]
        BY DEF DeployInit
      <4>2. tried \in [Req -> SUBSET Inst] /\ shunned \subseteq Inst /\ table \in BOOLEAN
        BY DEF DeployInit
      <4>3. crashes \in 0..MaxCrashes
        BY DEF DeployInit
      <4> QED
        BY <2>0, <4>1, <4>2, <4>3 DEF DeployTypeOK
    <3> QED
      BY <3>1, <3>2
  <2>2. Booted
    BY DEF DeployInit, Init, Booted, Alive, Connected
  <2>3. DeployConnections
    BY DEF DeployInit, Init, SqliteInit, DeployConnections, Booting
  <2> QED
    BY <2>1, <2>2, <2>3
<1>2. PathInv /\ Processes /\ [DeployNext]_allVars => Processes'
  <2> SUFFICES ASSUME PathInv, Processes, [DeployNext]_allVars
               PROVE  Processes'
    OBVIOUS
  <2>1. IInv /\ Growth /\ TypeOK'
    BY DeployPathStep DEF PathInv, RInv, IInv
  <2> QED
    BY <2>1, DeployTypeStep, HandedStep, BootedStep, DeployConnectionsStep
<1> QED
  BY <1>1, <1>2, DeployInductive, PTL DEF DeploySpec

\* No process and no proxy leaves a variable outside its type; nginx hands a
\* request on from an instance that had it.
THEOREM DeployTyped == DeploySpec => []DeployTypeOK
  BY ProcessesInductive, PTL

\* Whichever instance boots first and however often they die, no request is served
\* before the table is there, and a dead process has nothing of a request left
\* (main.c:34-42).
THEOREM TableFirst == DeploySpec => []Bootstrapped
<1>1. Booted => Bootstrapped
  BY DEF Booted, Bootstrapped, Alive
<1> QED
  BY <1>1, ProcessesInductive, PTL

\* A lock is held by a live process at the step that needs it, and nobody is
\* connected while the last one out checkpoints: neither a boot nor a query waits
\* for the dead.
THEOREM DeployLocks == DeploySpec => []DeployConnections
  BY ProcessesInductive, PTL
=============================================================================
