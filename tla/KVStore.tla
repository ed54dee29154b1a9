------------------------------- MODULE KVStore -------------------------------
(***************************************************************************)
(* What every storage backend promises through the traits of               *)
(* storage/core/src/backend.rs: a collection of key-value maps that is     *)
(* read and written in transactions.  A read-only transaction sees the     *)
(* contents the database had when it began; a read-write transaction sees  *)
(* those contents with its own writes on top, is the only one of its kind, *)
(* and installs what it sees, all at once, by a commit that returns Ok.    *)
(* The call of commit consumes the transaction: there is no write after it.*)
(*                                                                         *)
(* The locking adaptor, the SQLite backend and the LMDB backend are each   *)
(* shown to implement this specification (modules Locking, Sqlite, Lmdb).  *)
(***************************************************************************)
CONSTANTS Clients,  \* the threads that use one handle of the database
          MapIds,   \* DbMapId: which key-value map
          Keys,     \* keys of the maps
          Vals,     \* values stored under the keys
          None      \* what a read of an unset key returns

ASSUME KVNoneAssumption == None \notin Vals

VARIABLES store,  \* the committed contents
          mode,   \* what kind of transaction a client has open, if any
          base,   \* the committed contents when that transaction began
          view,   \* the contents that transaction observes
          result  \* what the client's last begin or commit returned

vars == <<store, mode, base, view, result>>

OptVals == Vals \cup {None}
Contents == [MapIds -> [Keys -> OptVals]]
\* Mutant of EmptyContents: opening the database sets up no maps.
NoMaps == [m \in {} |-> [k \in Keys |-> None]]

EmptyContents == [m \in MapIds |-> [k \in Keys |-> None]]
Modes == {"idle", "ro", "rw", "committing"}
Results == {"none", "ok", "err"}

Init ==
  /\ store = EmptyContents
  /\ mode = [c \in Clients |-> "idle"]
  /\ base = [c \in Clients |-> EmptyContents]
  /\ view = [c \in Clients |-> EmptyContents]
  /\ result = [c \in Clients |-> "none"]

Writing(c) == mode[c] \in {"rw", "committing"}
Return(c, r) == result' = [result EXCEPT ![c] = r]

\* Mutant of Begin: read-write transactions run side by side.
BeginConcurrent(c, kind) ==
  /\ mode[c] = "idle"
  /\ mode' = [mode EXCEPT ![c] = kind]
  /\ base' = [base EXCEPT ![c] = store]
  /\ view' = [view EXCEPT ![c] = store]
  /\ Return(c, "none")
  /\ UNCHANGED store

\* transaction_ro, transaction_rw: the transaction starts from the committed
\* contents.  No second read-write transaction runs at the same time.
Begin(c, kind) ==
  /\ mode[c] = "idle"
  /\ kind = "rw" => \A d \in Clients : ~Writing(d)
  /\ mode' = [mode EXCEPT ![c] = kind]
  /\ base' = [base EXCEPT ![c] = store]
  /\ view' = [view EXCEPT ![c] = store]
  /\ Return(c, "none")
  /\ UNCHANGED store

\* Either call returns an error and no transaction.
BeginErr(c) ==
  /\ mode[c] = "idle"
  /\ Return(c, "err")
  /\ UNCHANGED <<store, mode, base, view>>

\* Mutant of Write: the write goes to the committed contents at once.
WriteThrough(c, m, k, v) ==
  /\ mode[c] = "rw"
  /\ view' = [view EXCEPT ![c][m][k] = v]
  /\ store' = [store EXCEPT ![m][k] = v]
  /\ UNCHANGED <<mode, base, result>>

\* put (v is a value) and del (v is None).
Write(c, m, k, v) ==
  /\ mode[c] = "rw"
  /\ view' = [view EXCEPT ![c][m][k] = v]
  /\ UNCHANGED <<store, mode, base, result>>

Release(c) ==
  /\ mode' = [mode EXCEPT ![c] = "idle"]
  /\ base' = [base EXCEPT ![c] = EmptyContents]
  /\ view' = [view EXCEPT ![c] = EmptyContents]

\* The call of TxRw::commit, ...
CommitCall(c) ==
  /\ mode[c] = "rw"
  /\ mode' = [mode EXCEPT ![c] = "committing"]
  /\ UNCHANGED <<store, base, view, result>>

\* ... and its return: Ok, or an error that leaves nothing behind.
Commit(c) ==
  /\ Writing(c)
  /\ store' = view[c]
  /\ Release(c) /\ Return(c, "ok")

CommitErr(c) ==
  /\ Writing(c)
  /\ Release(c) /\ Return(c, "err")
  /\ UNCHANGED store

\* A transaction is dropped.
End(c) ==
  /\ mode[c] \in {"ro", "rw"}
  /\ Release(c)
  /\ UNCHANGED <<store, result>>

\* The process dies and the database is opened again.
Restart ==
  /\ mode' = [c \in Clients |-> "idle"]
  /\ base' = [c \in Clients |-> EmptyContents]
  /\ view' = [c \in Clients |-> EmptyContents]
  /\ result' = [c \in Clients |-> "none"]
  /\ UNCHANGED store

Next ==
  \/ \E c \in Clients :
       \/ \E kind \in {"ro", "rw"} : Begin(c, kind)
       \/ \E m \in MapIds, k \in Keys, v \in OptVals : Write(c, m, k, v)
       \/ BeginErr(c) \/ CommitCall(c) \/ Commit(c) \/ CommitErr(c) \/ End(c)
  \/ Restart

Spec == Init /\ [][Next]_vars

-----------------------------------------------------------------------------

TypeOK ==
  /\ store \in Contents
  /\ mode \in [Clients -> Modes]
  /\ base \in [Clients -> Contents]
  /\ view \in [Clients -> Contents]
  /\ result \in [Clients -> Results]

\* A read-only transaction reads the same contents from its begin to its end,
\* whatever is committed meanwhile, and a read-write transaction, as long as it
\* lasts, is based on the newest committed contents, so that what it commits
\* loses nobody's update.
Isolation ==
  \A c \in Clients :
    /\ mode[c] = "ro" => view[c] = base[c]
    /\ Writing(c) => base[c] = store

\* The committed contents change only by a commit that returns Ok, from the
\* contents the committing transaction began with to exactly what it saw.
CommitsSerially ==
  [][store' # store =>
       \E c \in Clients :
         /\ Writing(c) /\ mode'[c] = "idle" /\ result'[c] = "ok"
         /\ store = base[c]
         /\ store' = view[c]]_vars
=============================================================================
