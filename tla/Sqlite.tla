-------------------------------- MODULE Sqlite --------------------------------
(***************************************************************************)
(* The SQLite backend, storage/sqlite/src/lib.rs: one connection behind a  *)
(* mutex.  A transaction of either kind, DbTx, is the mutex guard and an   *)
(* SQLite transaction begun on the connection; its destructor rolls back   *)
(* whatever the connection still has open, then lets go of the mutex.      *)
(*                                                                         *)
(* SQLite itself is external and modelled by what the code uses of it: a   *)
(* connection is in autocommit mode or inside a transaction; a statement   *)
(* may fail, and some failures roll the whole transaction back and return  *)
(* the connection to autocommit mode, where each statement commits by      *)
(* itself.  Faults says which failures a model includes.                   *)
(***************************************************************************)
EXTENDS Integers, FiniteSets

CONSTANTS Clients, MapIds, Keys, Vals, None,
          NoClient,   \* nobody holds the mutex
          MaxTx,      \* bound: transactions a client attempts
          MaxFaults,  \* bound: failures in all
          Faults,     \* the failures that may happen, of AllFaults
          Unwind      \* panics unwind (test profile) instead of aborting

AllFaults == {"begin", "statement", "autorollback", "commit", "rollback", "crash"}

ASSUME SentinelsAssumption == None \notin Vals /\ NoClient \notin Clients
ASSUME BoundsAssumption == /\ MaxTx \in Nat /\ MaxFaults \in Nat
                           /\ Faults \subseteq AllFaults
                           /\ Unwind \in BOOLEAN

VARIABLES file,      \* committed contents of the database
          inTx,      \* the connection is inside a transaction (not autocommit)
          work,      \* contents as that transaction sees them
          guard,     \* the client that holds the connection's mutex
          poisoned,  \* the mutex's poison flag
          pc,        \* where each client is
          kind,      \* which call began the client's transaction
          result,    \* what the client's last call to begin or commit returned
          left,      \* transactions the client has yet to attempt
          faults,    \* failures so far
          refused,   \* history: starts that a failing BEGIN refused
          base,      \* history: committed contents when the transaction began
          acked      \* history: base with every write that returned Ok

sqliteVars == <<file, inTx, work>>
mutexVars == <<guard, poisoned>>
histVars == <<refused, base, acked>>
vars == <<file, inTx, work, guard, poisoned, pc, kind, result, left, faults,
          refused, base, acked>>

OptVals == Vals \cup {None}
Contents == [MapIds -> [Keys -> OptVals]]
\* Mutant of EmptyContents: the tables are not created.
NoTables == [m \in {} |-> [k \in Keys |-> None]]

EmptyContents == [m \in MapIds |-> [k \in Keys |-> None]]

Init ==
  /\ file = EmptyContents /\ inTx = FALSE /\ work = EmptyContents
  /\ guard = NoClient /\ poisoned = FALSE
  /\ pc = [c \in Clients |-> "idle"]
  /\ kind = [c \in Clients |-> "none"]
  /\ result = [c \in Clients |-> "none"]
  /\ left = [c \in Clients |-> MaxTx]
  /\ faults = 0 /\ refused = 0
  /\ base = [c \in Clients |-> EmptyContents]
  /\ acked = [c \in Clients |-> EmptyContents]

\* A failure of the kind f happens in this step.
Fault(f) == f \in Faults /\ faults < MaxFaults /\ faults' = faults + 1
NoFault == UNCHANGED faults

Goto(c, state) == pc' = [pc EXCEPT ![c] = state]
Return(c, r) == result' = [result EXCEPT ![c] = r]

-----------------------------------------------------------------------------
(* DbTx::start_transaction: lock the mutex, then BEGIN TRANSACTION.         *)

Lock(c, rw) ==
  /\ pc[c] = "idle" /\ left[c] > 0
  /\ guard = NoClient /\ ~poisoned
  /\ guard' = c
  /\ Goto(c, "begin")
  /\ kind' = [kind EXCEPT ![c] = rw]
  /\ left' = [left EXCEPT ![c] = @ - 1]
  /\ NoFault /\ UNCHANGED <<sqliteVars, poisoned, result, histVars>>

\* The lock is poisoned: the call returns a fatal error and no transaction.
LockPoisoned(c) ==
  /\ pc[c] = "idle" /\ left[c] > 0
  /\ guard = NoClient /\ poisoned
  /\ Return(c, "err")
  /\ left' = [left EXCEPT ![c] = @ - 1]
  /\ NoFault /\ UNCHANGED <<sqliteVars, mutexVars, pc, kind, histVars>>

\* Mutant of BeginOk: no BEGIN is executed.
BeginOkAutocommit(c) ==
  /\ pc[c] = "begin" /\ ~inTx
  /\ Goto(c, "tx") /\ Return(c, "ok")
  /\ base' = [base EXCEPT ![c] = file]
  /\ acked' = [acked EXCEPT ![c] = file]
  /\ NoFault /\ UNCHANGED <<sqliteVars, mutexVars, kind, left, refused>>

BeginOk(c) ==
  /\ pc[c] = "begin" /\ ~inTx
  /\ inTx' = TRUE /\ work' = file
  /\ Goto(c, "tx") /\ Return(c, "ok")
  /\ base' = [base EXCEPT ![c] = file]
  /\ acked' = [acked EXCEPT ![c] = file]
  /\ NoFault /\ UNCHANGED <<file, mutexVars, kind, left, refused>>

\* Mutant of BeginErr: the DbTx is only built once BEGIN has succeeded, so that a
\* refused call drops the guard and rolls nothing back.
BeginErrNoDrop(c) ==
  /\ pc[c] = "begin"
  /\ IF inTx THEN NoFault ELSE Fault("begin")
  /\ guard' = NoClient
  /\ Goto(c, "idle") /\ Return(c, "err")
  /\ refused' = refused + 1
  /\ UNCHANGED <<sqliteVars, poisoned, kind, left, base, acked>>

\* Mutant of BeginErr: BEGIN is tried again until it succeeds.
BeginErrRetried(c) ==
  /\ pc[c] = "begin"
  /\ IF inTx THEN NoFault ELSE Fault("begin")
  /\ UNCHANGED <<sqliteVars, mutexVars, pc, kind, result, left, histVars>>

\* BEGIN fails, always if an earlier transaction is still open on the
\* connection.  The DbTx built before it is dropped.
BeginErr(c) ==
  /\ pc[c] = "begin"
  /\ IF inTx THEN NoFault ELSE Fault("begin")
  /\ Goto(c, "drop") /\ Return(c, "err")
  /\ refused' = refused + 1
  /\ UNCHANGED <<sqliteVars, mutexVars, kind, left, base, acked>>

-----------------------------------------------------------------------------
(* The operations of a transaction.                                         *)

\* What get and prefix_iter read.
Observed == IF inTx THEN work ELSE file

\* put (v is a value) and del (v is None).  In autocommit mode the statement is
\* a transaction of its own.
Write(c, m, k, v) ==
  /\ pc[c] = "tx" /\ kind[c] = "rw"
  /\ IF inTx
     THEN work' = [work EXCEPT ![m][k] = v] /\ UNCHANGED file
     ELSE file' = [file EXCEPT ![m][k] = v] /\ UNCHANGED work
  /\ acked' = [acked EXCEPT ![c][m][k] = v]
  /\ NoFault /\ UNCHANGED <<inTx, mutexVars, pc, kind, result, left, refused, base>>

\* get, prefix_iter, put or del returns an error.  The statement is undone ...
StatementErr(c) ==
  /\ pc[c] = "tx"
  /\ Fault("statement")
  /\ UNCHANGED <<sqliteVars, mutexVars, pc, kind, result, left, histVars>>

\* ... or, for a full disk, an I/O error or the like, the whole transaction.
AutoRollback(c) ==
  /\ pc[c] = "tx" /\ inTx
  /\ Fault("autorollback")
  /\ inTx' = FALSE
  /\ UNCHANGED <<file, work, mutexVars, pc, kind, result, left, histVars>>

CommitOk(c) ==
  /\ pc[c] = "tx" /\ kind[c] = "rw" /\ inTx
  /\ file' = work /\ inTx' = FALSE
  /\ Goto(c, "drop") /\ Return(c, "ok")
  /\ NoFault /\ UNCHANGED <<work, mutexVars, kind, left, histVars>>

\* Mutant of CommitErr: the error of COMMIT is ignored.
CommitErrIgnored(c) ==
  /\ pc[c] = "tx" /\ kind[c] = "rw"
  /\ \/ ~inTx /\ NoFault /\ UNCHANGED inTx
     \/ inTx /\ Fault("commit") /\ inTx' \in BOOLEAN
  /\ Goto(c, "drop") /\ Return(c, "ok")
  /\ UNCHANGED <<file, work, mutexVars, kind, left, histVars>>

\* COMMIT fails: no transaction is active, or it fails and leaves the
\* transaction open, or it fails and rolls it back.
CommitErr(c) ==
  /\ pc[c] = "tx" /\ kind[c] = "rw"
  /\ \/ ~inTx /\ NoFault /\ UNCHANGED inTx
     \/ inTx /\ Fault("commit") /\ inTx' \in BOOLEAN
  /\ Goto(c, "drop") /\ Return(c, "err")
  /\ UNCHANGED <<file, work, mutexVars, kind, left, histVars>>

\* close, abort, or a plain drop of the transaction.
Abandon(c) ==
  /\ pc[c] = "tx"
  /\ Goto(c, "drop") /\ Return(c, "none")
  /\ NoFault /\ UNCHANGED <<sqliteVars, mutexVars, kind, left, histVars>>

\* The client's own code panics inside the transaction.
Panic(c) ==
  /\ Unwind /\ pc[c] = "tx"
  /\ Goto(c, "unwind") /\ Return(c, "none")
  /\ NoFault /\ UNCHANGED <<sqliteVars, mutexVars, kind, left, histVars>>

\* Letting go of the mutex.
Unlock(c) ==
  /\ guard' = NoClient
  /\ poisoned' = (poisoned \/ pc[c] = "unwind")
  /\ Goto(c, IF pc[c] = "unwind" THEN "dead" ELSE "idle")
  /\ kind' = [kind EXCEPT ![c] = "none"]
  /\ base' = [base EXCEPT ![c] = EmptyContents]
  /\ acked' = [acked EXCEPT ![c] = EmptyContents]

\* Mutants of DropTx: COMMIT in place of ROLLBACK; no Drop at all.
DropTxCommits(c) ==
  /\ pc[c] \in {"drop", "unwind"}
  /\ inTx' = FALSE /\ NoFault
  /\ file' = IF inTx THEN work ELSE file
  /\ Unlock(c)
  /\ UNCHANGED <<work, result, left, refused>>

DropTxNothing(c) ==
  /\ pc[c] \in {"drop", "unwind"}
  /\ NoFault /\ Unlock(c)
  /\ UNCHANGED <<sqliteVars, result, left, refused>>

\* Drop for DbTx: unless the connection is in autocommit mode, ROLLBACK, whose
\* error is ignored.  Then the guard goes, and poisons the mutex if the thread
\* is unwinding.
DropTx(c) ==
  /\ pc[c] \in {"drop", "unwind"}
  /\ \/ inTx' = FALSE /\ NoFault
     \/ inTx /\ Fault("rollback") /\ UNCHANGED inTx
  /\ Unlock(c)
  /\ UNCHANGED <<file, work, result, left, refused>>

\* The process dies, at any moment, and the database file is opened again: the
\* journal undoes what was not committed.
Crash ==
  /\ Fault("crash")
  /\ inTx' = FALSE
  /\ guard' = NoClient /\ poisoned' = FALSE
  /\ pc' = [c \in Clients |-> "idle"]
  /\ kind' = [c \in Clients |-> "none"]
  /\ result' = [c \in Clients |-> "none"]
  /\ base' = [c \in Clients |-> EmptyContents]
  /\ acked' = [c \in Clients |-> EmptyContents]
  /\ UNCHANGED <<file, work, left, refused>>

Stopped(c) == pc[c] = "dead" \/ (pc[c] = "idle" /\ left[c] = 0)
AllStopped == (\A c \in Clients : Stopped(c)) /\ UNCHANGED vars

ClientNext(c) ==
  \/ \E rw \in {"ro", "rw"} : Lock(c, rw)
  \/ LockPoisoned(c) \/ BeginOk(c) \/ BeginErr(c)
  \/ \E m \in MapIds, k \in Keys, v \in OptVals : Write(c, m, k, v)
  \/ StatementErr(c) \/ AutoRollback(c)
  \/ CommitOk(c) \/ CommitErr(c) \/ Abandon(c) \/ Panic(c) \/ DropTx(c)

Next == (\E c \in Clients : ClientNext(c)) \/ Crash \/ AllStopped

Spec == Init /\ [][Next]_vars

-----------------------------------------------------------------------------
(* Fairness: a thread that may run does, a caller ends the transaction it   *)
(* began, and a thread that can always take the mutex takes it.             *)

Fairness ==
  \A c \in Clients :
    /\ WF_vars((\E rw \in {"ro", "rw"} : Lock(c, rw)) \/ LockPoisoned(c))
    /\ WF_vars(BeginOk(c) \/ BeginErr(c))
    /\ WF_vars(CommitOk(c) \/ CommitErr(c) \/ Abandon(c))
    /\ WF_vars(DropTx(c))

FairSpec == Spec /\ Fairness

-----------------------------------------------------------------------------

TypeOK ==
  /\ file \in Contents /\ work \in Contents /\ inTx \in BOOLEAN
  /\ guard \in Clients \cup {NoClient} /\ poisoned \in BOOLEAN
  /\ pc \in [Clients -> {"idle", "begin", "tx", "drop", "unwind", "dead"}]
  /\ kind \in [Clients -> {"none", "ro", "rw"}]
  /\ result \in [Clients -> {"none", "ok", "err"}]
  /\ left \in [Clients -> 0 .. MaxTx]
  /\ faults \in 0 .. MaxFaults /\ refused \in Nat
  /\ base \in [Clients -> Contents] /\ acked \in [Clients -> Contents]

\* A transaction that ends without a successful commit has changed nothing:
\* abort, a plain drop, a failed commit, a panic and a crash all leave the
\* contents it began with.
AbandonedHasNoEffect ==
  [][\A c \in Clients :
       pc[c] = "tx" /\ pc'[c] # "tx" /\ result'[c] # "ok" => file' = base[c]]_vars

\* A commit that returns Ok has installed every write that returned Ok, even
\* when failures undid some of them on the way.
OkMeansInstalled ==
  [][\A c \in Clients :
       pc[c] = "tx" /\ pc'[c] # "tx" /\ result'[c] = "ok" => file' = acked[c]]_vars

\* Whoever lets go of the connection leaves it in autocommit mode, unless the
\* rollback itself failed.
ConnectionReturnedClean ==
  guard = NoClient /\ inTx => "rollback" \in Faults

\* A failed rollback costs one refused start: the refused call rolls back what
\* it found, so that starts are refused no more often than something failed.
RefusedOnlyByFailure == refused <= faults

\* Every call returns, whatever fails.
AllClientsStop == \A c \in Clients : <>[]Stopped(c)

-----------------------------------------------------------------------------
(* The backend implements KVStore as long as SQLite rolls no transaction    *)
(* back behind the caller's back ("autorollback" is not in Faults).         *)

AbsMode == [c \in Clients |-> IF pc[c] = "tx" THEN kind[c] ELSE "idle"]
AbsBase == [c \in Clients |-> IF pc[c] = "tx" THEN base[c] ELSE EmptyContents]
AbsView == [c \in Clients |-> IF pc[c] = "tx" THEN Observed ELSE EmptyContents]
AbsResult == [c \in Clients |-> IF pc[c] = "tx" THEN "none" ELSE result[c]]

KV == INSTANCE KVStore WITH store <- file, mode <- AbsMode,
                            base <- AbsBase, view <- AbsView, result <- AbsResult

\* Reads, writes and commits on the connection are those of KVStore, through
\* failures of statements, commits and rollbacks, panics and crashes.
KVSpec == KV!Spec
=============================================================================
