---------------------------- MODULE Deployment ----------------------------
(***************************************************************************)
(* The instances as processes: main() of src/src/main.c, the containers of *)
(* src/docker-compose.yml that are always started again, and the nginx of  *)
(* src/nginx.conf that spreads the requests over them.  While an instance  *)
(* serves it behaves as in module Handler; it may die between any two      *)
(* steps, and SQLite then drops its locks and its unfinished statement.    *)
(*                                                                         *)
(* nginx, by default (proxy_next_upstream error timeout), hands a request  *)
(* to the next server when the connection was refused or broke before an   *)
(* answer, but not a POST that it has already passed on.                   *)
(***************************************************************************)
EXTENDS Handler

CONSTANT MaxCrashes   \* bound: how often a process dies

ASSUME DeploymentAssumption == MaxCrashes \in Nat

VARIABLES
  up,       \* where main() of each instance is
  table,    \* CREATE TABLE has been committed
  tried,    \* the servers nginx has given up on for a request
  shunned,  \* the servers nginx leaves out because they failed
  crashes

deployVars == <<up, table, tried, shunned, crashes>>
allVars == <<vars, deployVars>>

DeployInit ==
  /\ Init
  /\ up = [i \in Inst |-> "down"]
  /\ table = FALSE
  /\ tried = [r \in Req |-> {}]
  /\ shunned = {}
  /\ crashes = 0

Alive(i) == up[i] = "serving"

Enter(i, s) == up' = [up EXCEPT ![i] = s]

(***************************************************************************)
(* main()                                                                  *)
(***************************************************************************)

\* docker starts the container, and main() sets its signal handlers.
Boot(i) ==
  /\ up[i] = "down"
  /\ Enter(i, "open")
  /\ UNCHANGED <<vars, table, tried, shunned, crashes>>

\* Mutant: the daemon is started before the table is made.
BootServeFirst(i) ==
  /\ up[i] = "open"
  /\ Enter(i, "serving")
  /\ UNCHANGED <<vars, table, tried, shunned, crashes>>

\* db_open(&g_db).
BootOpen(i) ==
  /\ up[i] = "open"
  /\ Connect(i)
  /\ Enter(i, "create")
  /\ UNCHANGED <<loopVars, connVars, histVars, table, tried, shunned, crashes>>

\* db_create_tables, which writes only the first time.
BootCreate(i) ==
  /\ up[i] = "create"
  /\ table \/ writer = NoInst
  /\ table' = TRUE
  /\ Enter(i, "list")
  /\ UNCHANGED <<vars, tried, shunned, crashes>>

\* db_list_tables.
BootList(i) ==
  /\ up[i] = "list"
  /\ Enter(i, "close")
  /\ UNCHANGED <<vars, table, tried, shunned, crashes>>

\* db_close(&g_db) and MHD_start_daemon.
BootCloseLast(i) ==
  /\ up[i] = "close"
  /\ BeginCheckpoint(i)
  /\ Enter(i, "checkpoint")
  /\ UNCHANGED <<loopVars, connVars, histVars, table, tried, shunned, crashes>>

BootServe(i) ==
  /\ \/ up[i] = "close" /\ opened # {i}
     \/ up[i] = "checkpoint"
  /\ Disconnect(i)
  /\ Enter(i, "serving")
  /\ UNCHANGED <<loopVars, connVars, histVars, table, tried, shunned, crashes>>

\* A call of main() fails: EXIT_FAILURE, and the file is closed by the exit.
BootFail(i) ==
  /\ up[i] \in {"open", "create", "list", "close", "checkpoint"}
  /\ faults < MaxFaults
  /\ faults' = faults + 1
  /\ Disconnect(i)
  /\ Enter(i, "down")
  /\ UNCHANGED <<loopVars, connVars, known, hurt, table, tried, shunned, crashes>>

(***************************************************************************)
(* The end of a process                                                    *)
(***************************************************************************)

\* The requests whose connection is to instance i.
Connected(i) ==
  {r \in Req : at[r] = i /\ phase[r] \in {"headers", "body", "full", "queued", "failed"}}

\* Mutant: nginx passes every request on (proxy_next_upstream non_idempotent).
MayPassOnAll(r, i) == tried[r] \cup {i} # Inst

\* nginx has another server for r, which it gave to i.
MayPassOn(r, i) == ~IsPost(r) /\ tried[r] \cup {i} # Inst

\* Mutant: the dead process keeps its locks.
DropLocksNot(i) ==
  /\ opened' = opened \ {i}
  /\ UNCHANGED <<rows, writer, excl>>

\* The system closes the files of a process that ended: an INSERT that had not
\* committed never happened, and its locks are free.
DropLocks(i) ==
  /\ opened' = opened \ {i}
  /\ writer' = IF writer = i THEN NoInst ELSE writer
  /\ excl' = IF excl = i THEN NoInst ELSE excl
  /\ UNCHANGED rows

\* sighandler's _exit, a kill, or the end of getchar(): everything in memory is
\* gone, at whatever step the thread of the daemon is.
Crash(i) ==
  /\ up[i] # "down" /\ crashes < MaxCrashes
  /\ crashes' = crashes + 1
  /\ Enter(i, "down")
  /\ Return(i)
  /\ DropLocks(i)
  /\ LET lost == Connected(i) IN
     /\ phase' = [r \in Req |-> IF r \in lost THEN "closed" ELSE phase[r]]
     /\ reply' = [r \in Req |-> IF r \in lost THEN 0 ELSE reply[r]]
     /\ post' = [r \in Req |-> IF r \in lost THEN NoPost ELSE post[r]]
     /\ hurt' = [r \in Req |-> IF r \in lost /\ ~MayPassOn(r, i)
                               THEN hurt[r] \cup {"crash"} ELSE hurt[r]]
     /\ shunned' = IF lost = {} THEN shunned ELSE shunned \cup {i}
  /\ UNCHANGED <<input, at, left, seen, known, faults, table, tried>>

(***************************************************************************)
(* nginx                                                                   *)
(***************************************************************************)

\* nginx gives r to a server that accepts the connection.
Dispatch(i, r) ==
  /\ Alive(i) /\ i \notin tried[r] \cup shunned
  /\ Receive(i, r)
  /\ UNCHANGED deployVars

\* The next server for r, and with no server left a 502 or 504.
Skip(i, r) ==
  /\ phase[r] = "sent" /\ i \notin tried[r]
  /\ tried' = [tried EXCEPT ![r] = @ \cup {i}]
  /\ IF tried'[r] = Inst
     THEN /\ phase' = [phase EXCEPT ![r] = "closed"]
          /\ hurt' = [hurt EXCEPT ![r] = @ \cup {"crash"}]
     ELSE UNCHANGED <<phase, hurt>>
  /\ UNCHANGED <<db, loopVars, input, at, left, post, reply, seen, known, faults,
                 up, table, crashes>>

\* Connection refused.
Refused(i, r) == ~Alive(i) /\ Skip(i, r) /\ shunned' = shunned \cup {i}

\* A server that failed (max_fails=1) is left out for a while (fail_timeout=10s).
Shun(i, r) == i \in shunned /\ Skip(i, r) /\ UNCHANGED shunned

Forget(i) ==
  /\ i \in shunned
  /\ shunned' = shunned \ {i}
  /\ UNCHANGED <<vars, up, table, tried, crashes>>

\* The server closed the connection without an answer or took too long.
CanPassOn(r) ==
  /\ phase[r] = "closed"
  /\ "crash" \notin hurt[r]
  /\ MayPassOn(r, at[r])

PassOn(r) ==
  /\ CanPassOn(r)
  /\ tried' = [tried EXCEPT ![r] = @ \cup {at[r]}]
  /\ phase' = [phase EXCEPT ![r] = "sent"]
  /\ at' = [at EXCEPT ![r] = NoInst]
  /\ seen' = [seen EXCEPT ![r] = {}]
  /\ UNCHANGED <<db, loopVars, input, left, post, reply, histVars, up, table, shunned,
                 crashes>>

-----------------------------------------------------------------------------

Main(i) ==
  \/ Boot(i) \/ BootOpen(i) \/ BootCreate(i) \/ BootList(i)
  \/ BootCloseLast(i) \/ BootServe(i)

\* A connection that i closes without an answer counts as a failure of i.
Serve(i) ==
  /\ Alive(i) /\ Step(i)
  /\ shunned' = IF \E r \in Req : phase[r] = "failed" /\ phase'[r] = "closed"
                THEN shunned \cup {i} ELSE shunned
  /\ UNCHANGED <<up, table, tried, crashes>>

Trouble(i) ==
  /\ Alive(i)
  /\ Failure(i) \/ \E r \in Req : Abort(i, r)
  /\ UNCHANGED deployVars

Proxy(r) ==
  PassOn(r) \/ \E i \in Inst : Dispatch(i, r) \/ Refused(i, r) \/ Shun(i, r)

DeployNext ==
  \/ \E r \in Req : (Send(r) /\ UNCHANGED deployVars) \/ Proxy(r)
  \/ \E i \in Inst : Main(i) \/ Serve(i) \/ Trouble(i) \/ BootFail(i) \/ Crash(i)
                     \/ Forget(i)

DeploySpec == DeployInit /\ [][DeployNext]_allVars

\* docker restarts what ended, main() and the daemon's thread run, and nginx
\* finds a server or gives up; deaths and failures are never due.
FairDeploySpec ==
  /\ DeploySpec
  /\ \A i \in Inst : WF_allVars(Main(i)) /\ WF_allVars(Serve(i))
  /\ \A r \in Req : WF_allVars(Proxy(r))
(***************************************************************************)
(* Properties                                                              *)
(***************************************************************************)

Booting == {"open", "create", "list", "close", "checkpoint"}

\* Every variable has its type.
DeployTypeOK ==
  /\ TypeOK
  /\ up \in [Inst -> Booting \cup {"down", "serving"}]
  /\ table \in BOOLEAN
  /\ tried \in [Req -> SUBSET Inst]
  /\ shunned \subseteq Inst
  /\ crashes \in 0..MaxCrashes

\* No request is served before the table is there, whichever instance boots
\* first, and an instance that died or boots has nothing of a request left
\* (main.c:34-42: db_create_tables before MHD_start_daemon).
Bootstrapped ==
  \A i \in Inst :
    /\ Alive(i) => table
    /\ ~Alive(i) => pc[i] = "loop" /\ Connected(i) = {}

\* ConnectionDiscipline with main()'s own connection and dead processes: a
\* lock is held by a live process at the step that needs it, so neither the
\* bootstrap nor a query waits for the dead (main.c:8-17, 34-37).
DeployConnections ==
  /\ opened = {i \in Inst : pc[i] \notin {"loop", "open"}
                           \/ up[i] \in Booting \ {"open"}}
  /\ \A i \in Inst :
       /\ writer = i <=> pc[i] = "commit"
       /\ excl = i <=> pc[i] = "checkpoint" \/ up[i] = "checkpoint"
  /\ excl # NoInst => opened = {excl}

\* A request that was sent is answered or its connection closed for good,
\* whoever dies meanwhile, with nginx passing it on.
Settles ==
  \A r \in Req :
    phase[r] = "sent"
      ~> [](phase[r] = "done" \/ (phase[r] = "closed" /\ ~CanPassOn(r)))

\* An instance that died serves again, once no more calls of main() fail
\* (restart: always; db_open and db_create_tables outwait every lock).
ServesAgain == \A i \in Inst : up[i] = "down" ~> up[i] = "serving"
=============================================================================
