------------------------------- MODULE Locking -------------------------------
(***************************************************************************)
(* The locking adaptor, storage/core/src/adaptor/locking: it turns a bare  *)
(* key-value store (the in-memory one) into a transactional backend with   *)
(* one reader-writer lock.  A read-only transaction is a read guard.  A    *)
(* read-write transaction is a write guard with a list of changes, the     *)
(* deltas, that a commit copies into the store one key at a time.          *)
(*                                                                         *)
(* A client is a thread that runs its transactions one after another.  The *)
(* lock is the standard library's: it is not fair, and it is poisoned when *)
(* a thread unwinds while it holds the write guard.                        *)
(***************************************************************************)
EXTENDS Integers, FiniteSets

CONSTANTS Clients,       \* threads sharing one handle
          NumMaps,       \* db_map_count of the database description
          Keys,          \* keys, ordered as numbers are
          Vals,          \* values
          None,          \* an unset key, and the delta of a deletion
          Absent,        \* no delta for the key
          NoClient,      \* nobody holds the write guard
          MaxTx,         \* bound: transactions a client runs
          InnerMayFail,  \* the wrapped store's put and del may return an error
          Unwind         \* panics unwind (test profile) instead of aborting

ASSUME NumMapsAssumption == NumMaps \in Nat \ {0}
ASSUME KeysAssumption == Keys \subseteq Int
ASSUME SentinelsAssumption == /\ None \notin Vals
                              /\ Absent \notin Vals \cup {None}
                              /\ NoClient \notin Clients
ASSUME BoundsAssumption == /\ MaxTx \in Nat
                           /\ InnerMayFail \in BOOLEAN
                           /\ Unwind \in BOOLEAN

VARIABLES db,        \* contents of the wrapped store
          readers,   \* clients that hold a read guard
          writer,    \* the client that holds the write guard
          poisoned,  \* the lock's poison flag
          pc,        \* where each client is
          deltas,    \* changes made by the client's read-write transaction
          result,    \* what the client's last commit returned
          left,      \* transactions the client has yet to run
          base       \* history: contents when the client's transaction began

lockVars == <<readers, writer, poisoned>>
vars == <<db, readers, writer, poisoned, pc, deltas, result, left, base>>

MapIds == 0 .. NumMaps - 1
OptVals == Vals \cup {None}
Contents == [MapIds -> [Keys -> OptVals]]
EmptyContents == [m \in MapIds |-> [k \in Keys |-> None]]
DeltaMaps == [MapIds -> [Keys -> OptVals \cup {Absent}]]

\* Mutant of EmptyDeltas: map ids counted from one.
EmptyDeltasFromOne == [m \in 1 .. NumMaps |-> [k \in Keys |-> Absent]]

\* DbMapsData::new(num_maps, |_| BTreeMap::new())
EmptyDeltas == [m \in 0 .. NumMaps - 1 |-> [k \in Keys |-> Absent]]

Init ==
  /\ db = EmptyContents
  /\ readers = {} /\ writer = NoClient /\ poisoned = FALSE
  /\ pc = [c \in Clients |-> "idle"]
  /\ deltas = [c \in Clients |-> EmptyDeltas]
  /\ result = [c \in Clients |-> "none"]
  /\ left = [c \in Clients |-> MaxTx]
  /\ base = [c \in Clients |-> EmptyContents]

\* TxRw::get: a delta, if there is one, hides the wrapped store.
Get(c, m, k) == IF deltas[c][m][k] = Absent THEN db[m][k] ELSE deltas[c][m][k]

\* Everything the client's open transaction would read.
Observed(c) ==
  IF pc[c] \in {"rw", "committing"}
  THEN [m \in MapIds |-> [k \in Keys |-> Get(c, m, k)]]
  ELSE db

Idle(c) == pc[c] = "idle" /\ left[c] > 0

Enter(c, state) ==
  /\ pc' = [pc EXCEPT ![c] = state]
  /\ left' = [left EXCEPT ![c] = @ - 1]
  /\ base' = [base EXCEPT ![c] = db]
  /\ result' = [result EXCEPT ![c] = "none"]

\* transaction_ro: blocks while there is a writer.
BeginRo(c) ==
  /\ Idle(c) /\ ~poisoned
  /\ writer = NoClient
  /\ readers' = readers \cup {c}
  /\ Enter(c, "ro")
  /\ UNCHANGED <<db, writer, poisoned, deltas>>

\* Mutant of BeginRw: a writer does not wait for readers.
BeginRwNoWait(c) ==
  /\ Idle(c) /\ ~poisoned
  /\ writer = NoClient
  /\ writer' = c
  /\ deltas' = [deltas EXCEPT ![c] = EmptyDeltas]
  /\ Enter(c, "rw")
  /\ UNCHANGED <<db, readers, poisoned>>

\* Mutant of BeginRw: the guard is taken out of the poison error.
BeginRwDespitePoison(c) ==
  /\ Idle(c)
  /\ writer = NoClient /\ readers = {}
  /\ writer' = c
  /\ deltas' = [deltas EXCEPT ![c] = EmptyDeltas]
  /\ Enter(c, "rw")
  /\ UNCHANGED <<db, readers, poisoned>>

\* transaction_rw: blocks while anyone holds a guard.
BeginRw(c) ==
  /\ Idle(c) /\ ~poisoned
  /\ writer = NoClient /\ readers = {}
  /\ writer' = c
  /\ deltas' = [deltas EXCEPT ![c] = EmptyDeltas]
  /\ Enter(c, "rw")
  /\ UNCHANGED <<db, readers, poisoned>>

\* Both on a poisoned lock: expect("lock to be alive") panics.
BeginPoisoned(c) ==
  /\ Idle(c) /\ poisoned
  /\ writer = NoClient
  /\ pc' = [pc EXCEPT ![c] = "dead"]
  /\ UNCHANGED <<db, readers, writer, poisoned, deltas, result, left, base>>

\* put (v is a value) and del (v is None) both record a delta.
Update(c, m, k, v) ==
  /\ pc[c] = "rw"
  /\ deltas' = [deltas EXCEPT ![c][m][k] = v]
  /\ UNCHANGED <<db, readers, writer, poisoned, pc, result, left, base>>

\* The client's transaction value is dropped, and its guard with it.
Leave(c, state) ==
  /\ pc' = [pc EXCEPT ![c] = state]
  /\ readers' = readers \ {c}
  /\ writer' = IF writer = c THEN NoClient ELSE writer
  /\ deltas' = [deltas EXCEPT ![c] = EmptyDeltas]
  /\ base' = [base EXCEPT ![c] = EmptyContents]

\* A transaction ends without a commit: close, abort, or a plain drop.
Drop(c) ==
  /\ pc[c] \in {"ro", "rw"}
  /\ Leave(c, "idle")
  /\ UNCHANGED <<db, poisoned, result, left>>

\* The client's own code panics inside a transaction.  The guards are dropped
\* by the unwinding; only the write guard poisons the lock.
Panic(c) ==
  /\ Unwind
  /\ pc[c] \in {"ro", "rw"}
  /\ Leave(c, "dead")
  /\ poisoned' = (poisoned \/ pc[c] = "rw")
  /\ UNCHANGED <<db, result, left>>

CommitStart(c) ==
  /\ pc[c] = "rw"
  /\ pc' = [pc EXCEPT ![c] = "committing"]
  /\ UNCHANGED <<db, readers, writer, poisoned, deltas, result, left, base>>

\* put and del of the wrapped store, StorageMaps for the in-memory backend.
InnerWrite(m, k, v) == [db EXCEPT ![m][k] = v]

\* The loops of TxRw::commit: the maps in index order, in each the keys in order.
Pending(c) == {p \in MapIds \X Keys : deltas[c][p[1]][p[2]] # Absent}
Before(p, q) == p[1] < q[1] \/ (p[1] = q[1] /\ p[2] < q[2])
IsNext(c, p) == p \in Pending(c) /\ \A q \in Pending(c) : q = p \/ Before(p, q)

\* Mutants of CommitStep: deletions are not passed on; keys in any order; a turn
\* that does not move on.
CommitStepNoDel(c, m, k) ==
  /\ pc[c] = "committing"
  /\ IsNext(c, <<m, k>>)
  /\ db' = IF deltas[c][m][k] = None THEN db
           ELSE InnerWrite(m, k, deltas[c][m][k])
  /\ deltas' = [deltas EXCEPT ![c][m][k] = Absent]
  /\ UNCHANGED <<readers, writer, poisoned, pc, result, left, base>>

CommitStepAnyOrder(c, m, k) ==
  /\ pc[c] = "committing"
  /\ <<m, k>> \in Pending(c)
  /\ db' = InnerWrite(m, k, deltas[c][m][k])
  /\ deltas' = [deltas EXCEPT ![c][m][k] = Absent]
  /\ UNCHANGED <<readers, writer, poisoned, pc, result, left, base>>

CommitStepStuck(c, m, k) ==
  /\ pc[c] = "committing"
  /\ IsNext(c, <<m, k>>)
  /\ db' = InnerWrite(m, k, deltas[c][m][k])
  /\ UNCHANGED <<readers, writer, poisoned, pc, deltas, result, left, base>>

\* One turn of the inner loop: put or del on the wrapped store succeeds.
CommitStep(c, m, k) ==
  /\ pc[c] = "committing"
  /\ IsNext(c, <<m, k>>)
  /\ db' = InnerWrite(m, k, deltas[c][m][k])
  /\ deltas' = [deltas EXCEPT ![c][m][k] = Absent]
  /\ UNCHANGED <<readers, writer, poisoned, pc, result, left, base>>

\* put or del returns an error, and so does commit.  What the earlier turns
\* wrote stays written.
CommitFail(c) ==
  /\ InnerMayFail
  /\ pc[c] = "committing" /\ Pending(c) # {}
  /\ result' = [result EXCEPT ![c] = "err"]
  /\ Leave(c, "idle")
  /\ UNCHANGED <<db, poisoned, left>>

CommitEnd(c) ==
  /\ pc[c] = "committing" /\ Pending(c) = {}
  /\ result' = [result EXCEPT ![c] = "ok"]
  /\ Leave(c, "idle")
  /\ UNCHANGED <<db, poisoned, left>>

\* A client with no more transactions to run, or that panicked, has stopped.
Stopped(c) == pc[c] = "dead" \/ (pc[c] = "idle" /\ left[c] = 0)
AllStopped == (\A c \in Clients : Stopped(c)) /\ UNCHANGED vars

ClientNext(c) ==
  \/ BeginRo(c) \/ BeginRw(c) \/ BeginPoisoned(c)
  \/ \E m \in MapIds, k \in Keys, v \in OptVals : Update(c, m, k, v)
  \/ Drop(c) \/ Panic(c)
  \/ CommitStart(c) \/ CommitFail(c) \/ CommitEnd(c)
  \/ \E m \in MapIds, k \in Keys : CommitStep(c, m, k)

Next == (\E c \in Clients : ClientNext(c)) \/ AllStopped

Spec == Init /\ [][Next]_vars

-----------------------------------------------------------------------------
(* Fairness.  A runnable thread runs, and the caller ends what it began: it *)
(* does not hold a transaction for ever.  Nothing is assumed of the lock    *)
(* but that a thread which could take it all the time does so in the end.   *)

Fairness ==
  \A c \in Clients :
    /\ WF_vars(BeginRo(c) \/ BeginRw(c) \/ BeginPoisoned(c))
    /\ WF_vars(Drop(c) \/ CommitStart(c))
    /\ WF_vars(CommitEnd(c) \/ \E m \in MapIds, k \in Keys : CommitStep(c, m, k))

FairSpec == Spec /\ Fairness

-----------------------------------------------------------------------------

\* Every variable has its type.
TypeOK ==
  /\ db \in Contents
  /\ readers \subseteq Clients
  /\ writer \in Clients \cup {NoClient}
  /\ poisoned \in BOOLEAN
  /\ pc \in [Clients -> {"idle", "ro", "rw", "committing", "dead"}]
  /\ deltas \in [Clients -> DeltaMaps]
  /\ result \in [Clients -> {"none", "ok", "err"}]
  /\ left \in [Clients -> 0 .. MaxTx]
  /\ base \in [Clients -> Contents]

\* The wrapped store does not change under an open transaction, read-only or
\* read-write, until that transaction itself commits: reads are repeatable,
\* and a commit is computed from the newest contents.
SnapshotStable ==
  \A c \in Clients : pc[c] \in {"ro", "rw"} => db = base[c]

\* A lock poisoned by a writer that panicked shuts the database for good: no
\* transaction is open, none ever begins, and the store never changes again.
PoisonFreezes ==
  [][poisoned => /\ poisoned' /\ db' = db
                 /\ \A c \in Clients : pc'[c] \in {"idle", "dead"}]_vars

\* A commit that fails part way leaves the changes it had made before the
\* failing one, in the order of maps and keys, and none after it.
FailedCommitIsPrefix ==
  [][\A c \in Clients : result[c] = "none" /\ result'[c] = "err" =>
       \A m \in MapIds, k \in Keys : db'[m][k] # base[c][m][k] =>
         \A q \in Pending(c) : Before(<<m, k>>, q)]_vars

\* Every call returns and every client gets through its transactions: nobody
\* waits for a guard for ever, whatever the others commit, abort or panic.
AllClientsStop == \A c \in Clients : <>[]Stopped(c)

-----------------------------------------------------------------------------
(* The adaptor implements the promise of the backend traits.  A commit      *)
(* takes effect, for everyone else, when it releases the write guard: until *)
(* then the store is the one the transaction began with.                    *)

Committing(c) == pc[c] = "committing"

AbsStore ==
  IF \E c \in Clients : Committing(c)
  THEN base[CHOOSE c \in Clients : Committing(c)]
  ELSE db

AbsMode == [c \in Clients |->
              CASE pc[c] = "ro" -> "ro"
                [] pc[c] = "rw" -> "rw"
                [] pc[c] = "committing" -> "committing"
                [] OTHER -> "idle"]

AbsView == [c \in Clients |->
              IF pc[c] \in {"ro", "rw", "committing"}
              THEN Observed(c) ELSE EmptyContents]

KV == INSTANCE KVStore WITH store <- AbsStore, mode <- AbsMode, view <- AbsView

\* Reads, writes and commits through the adaptor are those of KVStore, as long
\* as the wrapped store returns no errors (the in-memory store never does).
KVSpec == KV!Spec
=============================================================================
