------------------------------- MODULE Sqlite -------------------------------
(***************************************************************************)
(* The database file db/db.sqlite that the API instances share.  SQLite    *)
(* is not part of the repository (src/src/get_sqlite3.sh fetches it), so   *)
(* it is modelled from how src/src/db.c uses it: WAL journal, one writer   *)
(* at a time, readers that see the last commit, a connection that is the   *)
(* last to close and then checkpoints alone.                               *)
(*                                                                         *)
(* A step whose lock is taken is not enabled: the call returned            *)
(* SQLITE_BUSY and the loop of DB_COMMAND_INNER (db.c:28-33) sleeps and    *)
(* repeats it.  Every other error is a fault, added by module Handler.     *)
(***************************************************************************)

CONSTANTS
  Inst,      \* the processes that open the file: the API instances
  NoInst,    \* nobody
  Req,       \* client requests; the uuid drawn for request r is written r
  Apelido    \* the nickname texts that are told apart

ASSUME NoInstAssumption == NoInst \notin Inst

VARIABLES
  rows,      \* the committed rows of table pessoa
  writer,    \* who holds the write lock, inside sqlite3_step of an INSERT
  excl,      \* who holds the exclusive lock, inside sqlite3_close
  opened     \* the processes whose connection has touched the file

db == <<rows, writer, excl, opened>>

\* The columns the properties tell apart: uuid BLOB PRIMARY KEY and
\* apelido TEXT UNIQUE.
Row == [uuid : Req, apelido : Apelido]

SqliteTypeOK ==
  /\ rows \subseteq Row
  /\ writer \in Inst \cup {NoInst}
  /\ excl \in Inst \cup {NoInst}
  /\ opened \subseteq Inst

SqliteInit ==
  /\ rows = {}
  /\ writer = NoInst
  /\ excl = NoInst
  /\ opened = {}

\* Mutant: a table without the UNIQUE constraint.
PrimaryKeyOnly(u, a) == \E x \in rows : x.uuid = u

\* PRIMARY KEY or UNIQUE refuses the row.
Conflict(u, a) == \E x \in rows : x.uuid = u \/ x.apelido = a

\* The SELECTs see every row committed when they start.
HasApelido(a) == \E x \in rows : x.apelido = a

\* sqlite3_open is lazy: the PRAGMA is the first access to the file, and it
\* is BUSY while the last connection is being closed.
Connect(p) ==
  /\ excl = NoInst
  /\ opened' = opened \cup {p}
  /\ UNCHANGED <<rows, writer, excl>>

BeginWrite(p) ==
  /\ writer = NoInst
  /\ writer' = p
  /\ UNCHANGED <<rows, excl, opened>>

\* The INSERT commits on its own (no BEGIN): the row is there or the
\* constraint refused it, and the write lock is released either way.
CommitRow(p, u, a) ==
  /\ writer = p
  /\ rows' = IF Conflict(u, a) THEN rows
             ELSE rows \cup {[uuid |-> u, apelido |-> a]}
  /\ writer' = NoInst
  /\ UNCHANGED <<excl, opened>>

\* Mutant: the failed statement is not finalized and keeps its lock.
RollbackForgotten(p) == UNCHANGED db

\* sqlite3_finalize of the failed statement.
Rollback(p) ==
  /\ writer' = IF writer = p THEN NoInst ELSE writer
  /\ UNCHANGED <<rows, excl, opened>>

\* The last connection locks everybody out, checkpoints and drops the WAL.
BeginCheckpoint(p) ==
  /\ opened = {p}
  /\ excl' = p
  /\ UNCHANGED <<rows, writer, opened>>

Disconnect(p) ==
  /\ opened' = opened \ {p}
  /\ excl' = IF excl = p THEN NoInst ELSE excl
  /\ UNCHANGED <<rows, writer>>

=============================================================================
