--------------------------------- MODULE Lmdb ---------------------------------
(***************************************************************************)
(* The LMDB backend, storage/lmdb/src/lib.rs, and how it grows the memory  *)
(* map.  A write that does not fit fails with MapFull; the code then asks  *)
(* for a resize, at once after a commit, or by a flag that the next        *)
(* transaction_rw tests and clears after a put or del.  A caller that      *)
(* retries should get through.                                             *)
(*                                                                         *)
(* LMDB, with the resize operation of the fork the crate depends on, is    *)
(* external: readers see the snapshot they began with, there is one writer *)
(* at a time, a failed write breaks its transaction, and do_resize keeps   *)
(* new transactions out and waits for the open ones to end.  Space is      *)
(* counted in pages: one for each key stored and each write pending, and   *)
(* a spare one.                                                            *)
(***************************************************************************)
EXTENDS Integers, FiniteSets

CONSTANTS Clients, MapIds, Keys, Vals, None,
          NoClient,
          InitCap,     \* initial size of the map
          MaxCap,      \* bound: its largest size
          MaxWrites,   \* bound: writes in a transaction
          MaxReaders,  \* reader slots of the environment
          MaxTx,       \* bound: transactions a client has to complete
          MaxCrashes   \* bound: crashes

ASSUME SentinelsAssumption == None \notin Vals /\ NoClient \notin Clients
ASSUME SpaceAssumption == IsFiniteSet(MapIds \X Keys)
ASSUME BoundsAssumption ==
  /\ InitCap \in Nat \ {0} /\ MaxWrites \in Nat /\ MaxReaders \in Nat \ {0}
  /\ MaxTx \in Nat /\ MaxCrashes \in Nat /\ MaxCap \in Nat
  /\ MaxCap > InitCap + Cardinality(MapIds \X Keys) + MaxWrites

VARIABLES store,      \* committed contents
          cap,        \* pages in the map
          scheduled,  \* map_resize_scheduled
          active,     \* clients with an open LMDB transaction
          writer,     \* the one with a write transaction
          resizer,    \* the client inside do_resize
          pc,         \* where each client is
          next,       \* where a client goes on after do_resize
          view,       \* what the client's transaction reads
          dirty,      \* writes the client's transaction has pending
          broken,     \* a write of the client's transaction has failed
          answer,     \* what the client was told of its last operation
          want,       \* the kind of transaction the client is to retry
          left,       \* transactions the client has yet to complete
          crashes,    \* crashes so far
          base,       \* history: committed contents when the transaction began
          failedAt    \* history: map size when a write of the client's failed

envVars == <<store, cap, scheduled>>
gateVars == <<active, writer, resizer>>
txVars == <<view, dirty, broken, base>>
vars == <<store, cap, scheduled, active, writer, resizer, pc, next, view, dirty,
          broken, answer, want, left, crashes, base, failedAt>>

OptVals == Vals \cup {None}
Contents == [MapIds -> [Keys -> OptVals]]
EmptyContents == [m \in MapIds |-> [k \in Keys |-> None]]
Pages(contents) == Cardinality({p \in MapIds \X Keys : contents[p[1]][p[2]] # None})

NoTx == [c \in Clients |-> EmptyContents]

Init ==
  /\ store = EmptyContents /\ cap = InitCap /\ scheduled = FALSE
  /\ active = {} /\ writer = NoClient /\ resizer = NoClient
  /\ pc = [c \in Clients |-> "idle"] /\ next = [c \in Clients |-> "begin"]
  /\ view = NoTx /\ base = NoTx
  /\ dirty = [c \in Clients |-> 0] /\ broken = [c \in Clients |-> FALSE]
  /\ answer = [c \in Clients |-> "none"]
  /\ want = [c \in Clients |-> "any"] /\ left = [c \in Clients |-> MaxTx]
  /\ crashes = 0 /\ failedAt = [c \in Clients |-> 0]

\* error.rs, process: what the caller is told of an LMDB error.
Classify(err) ==
  CASE err \in {"Success", "NotFound", "KeyExist"} -> "ok"
    [] err \in {"Invalid", "VersionMismatch", "BadTxn", "ReadersFull", "TxnFull",
                "TlsFull"} -> "recoverable"
    [] OTHER -> "fatal"

Goto(c, state) == pc' = [pc EXCEPT ![c] = state]
Answer(c, err) == answer' = [answer EXCEPT ![c] = Classify(err)]
May(c, kind) == pc[c] = "idle" /\ left[c] > 0 /\ want[c] \in {"any", kind}

Open(c, state) ==
  /\ resizer = NoClient
  /\ active' = active \cup {c}
  /\ Goto(c, state) /\ Answer(c, "Success")
  /\ view' = [view EXCEPT ![c] = store]
  /\ base' = [base EXCEPT ![c] = store]
  /\ dirty' = [dirty EXCEPT ![c] = 0]
  /\ broken' = [broken EXCEPT ![c] = FALSE]

\* The LMDB transaction ends, and the client goes on elsewhere.
Close(c, state) ==
  /\ active' = active \ {c}
  /\ writer' = IF writer = c THEN NoClient ELSE writer
  /\ Goto(c, state)
  /\ view' = [view EXCEPT ![c] = EmptyContents]
  /\ base' = [base EXCEPT ![c] = EmptyContents]
  /\ dirty' = [dirty EXCEPT ![c] = 0]
  /\ broken' = [broken EXCEPT ![c] = FALSE]

\* The client is through with this transaction, or will try it again.
Completed(c) ==
  /\ left' = [left EXCEPT ![c] = @ - 1]
  /\ want' = [want EXCEPT ![c] = "any"]
  /\ failedAt' = [failedAt EXCEPT ![c] = 0]
Retry == UNCHANGED <<left, want, failedAt>>

-----------------------------------------------------------------------------
(* transaction_ro *)

Readers == {c \in Clients : pc[c] = "ro"}

BeginRo(c) ==
  /\ May(c, "ro")
  /\ Cardinality(Readers) < MaxReaders
  /\ Open(c, "ro")
  /\ UNCHANGED <<envVars, writer, resizer, next, want, left, crashes, failedAt>>

BeginRoErr(c) ==
  /\ May(c, "ro")
  /\ resizer = NoClient /\ Cardinality(Readers) = MaxReaders
  /\ Answer(c, "ReadersFull")
  /\ want' = [want EXCEPT ![c] = "ro"]
  /\ UNCHANGED <<envVars, gateVars, txVars, pc, next, left, crashes, failedAt>>

-----------------------------------------------------------------------------
(* transaction_rw: resize_if_resize_scheduled, then begin_rw_txn.           *)

\* The compare_exchange of true by false.
TestAndClear(c) ==
  /\ May(c, "rw")
  /\ want' = [want EXCEPT ![c] = "rw"]
  /\ Goto(c, IF scheduled THEN "resize" ELSE "begin")
  /\ next' = [next EXCEPT ![c] = "begin"]
  /\ scheduled' = FALSE
  /\ UNCHANGED <<store, cap, gateVars, txVars, answer, left, crashes, failedAt>>

\* begin_rw_txn itself resizes a map it finds nearly full.
LowSpace(c) ==
  /\ pc[c] = "begin" /\ cap < MaxCap
  /\ Goto(c, "resize")
  /\ UNCHANGED <<envVars, gateVars, txVars, next, answer, want, left, crashes, failedAt>>

BeginRw(c) ==
  /\ pc[c] = "begin"
  /\ writer = NoClient /\ writer' = c
  /\ Open(c, "rw")
  /\ UNCHANGED <<envVars, resizer, next, want, left, crashes, failedAt>>

-----------------------------------------------------------------------------
(* do_resize *)

ResizeEnter(c) ==
  /\ pc[c] = "resize"
  /\ resizer = NoClient /\ resizer' = c
  /\ Goto(c, "resizing")
  /\ UNCHANGED <<envVars, active, writer, next, txVars, answer, want, left, crashes,
                 failedAt>>

ResizeDone(c) ==
  /\ pc[c] = "resizing"
  /\ active = {}
  /\ cap' = IF cap < MaxCap THEN cap + 1 ELSE cap
  /\ resizer' = NoClient
  /\ Goto(c, next[c])
  /\ UNCHANGED <<store, scheduled, active, writer, next, txVars, answer, want, left,
                 crashes, failedAt>>

-----------------------------------------------------------------------------
(* The operations of a read-write transaction.                              *)

\* There is no page for one more write.
Full(c) == Pages(store) + dirty[c] + 1 > cap

Writable(c) == pc[c] = "rw" /\ ~broken[c] /\ dirty[c] < MaxWrites

\* put (v is a value) and del (v is None).  Deleting what is not there is
\* NotFound, which counts as success and writes nothing.
Write(c, m, k, v) ==
  /\ Writable(c) /\ ~Full(c)
  /\ v # None \/ view[c][m][k] # None
  /\ view' = [view EXCEPT ![c][m][k] = v]
  /\ dirty' = [dirty EXCEPT ![c] = @ + 1]
  /\ Answer(c, "Success")
  /\ UNCHANGED <<envVars, gateVars, pc, next, broken, want, left, crashes, base, failedAt>>

\* Mutant of WriteFull: no resize is scheduled.
WriteFullForgotten(c) ==
  /\ Writable(c) /\ Full(c)
  /\ broken' = [broken EXCEPT ![c] = TRUE]
  /\ Answer(c, "MapFull")
  /\ failedAt' = [failedAt EXCEPT ![c] = cap]
  /\ UNCHANGED <<envVars, gateVars, pc, next, view, dirty, want, left, crashes, base>>

\* put or del fails: schedule_map_resize_if_map_full.
WriteFull(c) ==
  /\ Writable(c) /\ Full(c)
  /\ broken' = [broken EXCEPT ![c] = TRUE]
  /\ scheduled' = TRUE
  /\ Answer(c, "MapFull")
  /\ failedAt' = [failedAt EXCEPT ![c] = cap]
  /\ UNCHANGED <<store, cap, gateVars, pc, next, view, dirty, want, left, crashes, base>>

\* Any operation on a broken transaction.
BrokenOp(c) ==
  /\ pc[c] = "rw" /\ broken[c]
  /\ Answer(c, "BadTxn")
  /\ UNCHANGED <<envVars, gateVars, txVars, pc, next, want, left, crashes, failedAt>>

CommitOk(c) ==
  /\ pc[c] = "rw" /\ ~broken[c]
  /\ dirty[c] = 0 \/ ~Full(c)
  /\ store' = view[c]
  /\ Close(c, "idle") /\ Answer(c, "Success") /\ Completed(c)
  /\ UNCHANGED <<cap, scheduled, resizer, next, crashes>>

\* Mutant of CommitBroken: what was written before the failure is kept.
CommitBrokenInstalls(c) ==
  /\ pc[c] = "rw" /\ broken[c]
  /\ store' = view[c]
  /\ Close(c, "idle") /\ Answer(c, "BadTxn") /\ Retry
  /\ UNCHANGED <<cap, scheduled, resizer, next, crashes>>

CommitBroken(c) ==
  /\ pc[c] = "rw" /\ broken[c]
  /\ Close(c, "idle") /\ Answer(c, "BadTxn") /\ Retry
  /\ UNCHANGED <<envVars, resizer, next, crashes>>

\* The commit does not fit: resize_if_map_full, do_resize ...
CommitFull(c) ==
  /\ pc[c] = "rw" /\ ~broken[c]
  /\ dirty[c] > 0 /\ Full(c)
  /\ Close(c, "resize") /\ Answer(c, "MapFull") /\ Retry
  /\ next' = [next EXCEPT ![c] = "unschedule"]
  /\ UNCHANGED <<envVars, resizer, crashes>>

\* ... and then unschedule_map_resize.
Unschedule(c) ==
  /\ pc[c] = "unschedule"
  /\ scheduled' = FALSE
  /\ Goto(c, "idle") /\ Retry
  /\ UNCHANGED <<store, cap, gateVars, next, txVars, answer, crashes>>

\* close, abort or a plain drop; after a failed write, to try again.
Drop(c) ==
  /\ pc[c] \in {"ro", "rw"}
  /\ IF broken[c] THEN Retry ELSE Completed(c)
  /\ Close(c, "idle")
  /\ answer' = [answer EXCEPT ![c] = "none"]
  /\ UNCHANGED <<envVars, resizer, next, crashes>>

-----------------------------------------------------------------------------

\* Mutant of Reopened: the map is opened no larger than its data.
ReopenedTight == {Pages(store)}

\* The sizes the map may have when the environment is opened again: at least the
\* initial size, and large enough for the data.
Reopened == {n \in InitCap .. cap : n >= Pages(store)}

\* The process dies and the environment is opened again.  The flag is not
\* persisted.
Crash ==
  /\ crashes < MaxCrashes /\ crashes' = crashes + 1
  /\ scheduled' = FALSE
  /\ cap' \in Reopened
  /\ active' = {} /\ writer' = NoClient /\ resizer' = NoClient
  /\ pc' = [c \in Clients |-> "idle"] /\ next' = [c \in Clients |-> "begin"]
  /\ view' = NoTx /\ base' = NoTx
  /\ dirty' = [c \in Clients |-> 0] /\ broken' = [c \in Clients |-> FALSE]
  /\ answer' = [c \in Clients |-> "none"]
  /\ want' = [c \in Clients |-> "any"]
  /\ failedAt' = [c \in Clients |-> 0]
  /\ UNCHANGED <<store, left>>

AllCompleted == \A c \in Clients : pc[c] = "idle" /\ left[c] = 0
Finished == AllCompleted /\ UNCHANGED vars

CommitNext(c) == CommitOk(c) \/ CommitBroken(c) \/ CommitFull(c)

ClientNext(c) ==
  \/ BeginRo(c) \/ BeginRoErr(c) \/ TestAndClear(c) \/ LowSpace(c) \/ BeginRw(c)
  \/ ResizeEnter(c) \/ ResizeDone(c) \/ Unschedule(c)
  \/ \E m \in MapIds, k \in Keys, v \in OptVals : Write(c, m, k, v)
  \/ WriteFull(c) \/ BrokenOp(c) \/ CommitNext(c) \/ Drop(c)

Next == (\E c \in Clients : ClientNext(c)) \/ Crash \/ Finished

Spec == Init /\ [][Next]_vars

-----------------------------------------------------------------------------
(* Fairness.  Threads run, and a caller closes a read-only transaction and  *)
(* commits or drops a read-write one; one that failed is tried again.       *)

Fairness ==
  \A c \in Clients :
    /\ WF_vars(BeginRo(c) \/ BeginRoErr(c) \/ TestAndClear(c))
    /\ WF_vars(BeginRw(c))
    /\ WF_vars(ResizeEnter(c)) /\ WF_vars(ResizeDone(c)) /\ WF_vars(Unschedule(c))
    /\ WF_vars(CommitNext(c) \/ Drop(c))

FairSpec == Spec /\ Fairness

-----------------------------------------------------------------------------

TypeOK ==
  /\ store \in Contents /\ cap \in InitCap .. MaxCap /\ scheduled \in BOOLEAN
  /\ active \subseteq Clients
  /\ writer \in Clients \cup {NoClient} /\ resizer \in Clients \cup {NoClient}
  /\ pc \in [Clients -> {"idle", "ro", "begin", "rw", "resize", "resizing",
                         "unschedule"}]
  /\ next \in [Clients -> {"begin", "unschedule"}]
  /\ view \in [Clients -> Contents] /\ base \in [Clients -> Contents]
  /\ dirty \in [Clients -> 0 .. MaxWrites] /\ broken \in [Clients -> BOOLEAN]
  /\ answer \in [Clients -> {"none", "ok", "recoverable", "fatal"}]
  /\ want \in [Clients -> {"any", "ro", "rw"}]
  /\ left \in [Clients -> 0 .. MaxTx]
  /\ crashes \in 0 .. MaxCrashes
  /\ failedAt \in [Clients -> 0 .. MaxCap]

\* Nobody waits for ever, and retrying makes every transaction succeed: "fixing
\* a recoverable error of MDB_MAP_FULL ... by just retrying one or more times".
RetriesSucceed == <>[]AllCompleted

\* "on failure, we expect a resize to happen after trying again": when the
\* retry of a failed write begins, the map is larger than it was.
RetryFindsLargerMap ==
  [][\A c \in Clients :
       pc[c] = "begin" /\ pc'[c] = "rw" /\ failedAt[c] > 0 => cap > failedAt[c]]_vars

-----------------------------------------------------------------------------
(* The backend implements KVStore, through full maps, resizes and crashes.  *)

AbsMode == [c \in Clients |-> IF pc[c] \in {"ro", "rw"} THEN pc[c] ELSE "idle"]
AbsResult == [c \in Clients |->
                CASE pc[c] \in {"ro", "rw"} \/ answer[c] = "none" -> "none"
                  [] pc[c] \notin {"ro", "rw"} /\ answer[c] = "ok" -> "ok"
                  [] OTHER -> "err"]

KV == INSTANCE KVStore WITH mode <- AbsMode, result <- AbsResult

\* Reads, writes and commits through LMDB are those of KVStore, whatever is
\* resized meanwhile.
KVSpec == KV!Spec
=============================================================================
