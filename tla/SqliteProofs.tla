----------------------------- MODULE SqliteProofs -----------------------------
(***************************************************************************)
(* Proofs about the SQLite backend, for any number of threads, maps, keys  *)
(* and values and any number of failures: what a transaction that ends     *)
(* leaves behind, what a failed rollback costs, and that the backend       *)
(* implements KVStore unless SQLite rolls a transaction back on its own.   *)
(***************************************************************************)
EXTENDS Sqlite, TLAPS

\* The mutex guard is where the program counters say.
Holding == {"begin", "tx", "drop", "unwind"}
MutexInv == \A c \in Clients : guard = c <=> pc[c] \in Holding

\* A transaction has a kind, and is not begun by halves.
KindInv == \A c \in Clients : pc[c] \in {"begin", "tx"} => kind[c] \in {"ro", "rw"}

\* What the connection has not committed is what the client was told is written.
AckedInv == \A c \in Clients : pc[c] = "tx" /\ inTx => work = acked[c]

\* Unless SQLite rolls back on its own, an open transaction is open on the
\* connection too, and the file is as it was when it began.
KeptInv ==
  "autorollback" \notin Faults =>
    \A c \in Clients : pc[c] = "tx" => inTx /\ file = base[c]

\* A transaction that nobody owns is left on the connection: the next BEGIN will
\* fail for it, once.
Stray == inTx /\ \A c \in Clients : pc[c] \notin {"tx", "drop", "unwind"}
RefusedInv == refused <= faults /\ (Stray => refused < faults)

Inv == /\ TypeOK /\ MutexInv /\ KindInv /\ AckedInv /\ KeptInv /\ RefusedInv
       /\ ConnectionReturnedClean

-----------------------------------------------------------------------------
(* Types *)

LEMMA EmptyType == EmptyContents \in Contents
BY DEF EmptyContents, Contents, OptVals

LEMMA WrittenType ==
  ASSUME NEW contents \in Contents, NEW m \in MapIds, NEW k \in Keys, NEW v \in OptVals
  PROVE  [contents EXCEPT ![m][k] = v] \in Contents
BY DEF Contents

LEMMA FaultType ==
  ASSUME TypeOK, NEW f \in AllFaults, Fault(f)
  PROVE  faults' \in 0 .. MaxFaults /\ faults' = faults + 1
BY BoundsAssumption DEF Fault, TypeOK

LEMMA InitTypeOK == Init => TypeOK
<1> SUFFICES ASSUME Init PROVE TypeOK
  OBVIOUS
<1>1. left \in [Clients -> 0 .. MaxTx] /\ faults \in 0 .. MaxFaults /\ refused \in Nat
  BY BoundsAssumption DEF Init
<1>2. inTx \in BOOLEAN /\ poisoned \in BOOLEAN
  BY DEF Init
<1> QED
  BY <1>1, <1>2, EmptyType DEF Init, TypeOK

LEMMA UnlockType ==
  ASSUME TypeOK, NEW c \in Clients, Unlock(c)
  PROVE  /\ guard' \in Clients \cup {NoClient} /\ poisoned' \in BOOLEAN
         /\ pc' \in [Clients -> {"idle", "begin", "tx", "drop", "unwind", "dead"}]
         /\ kind' \in [Clients -> {"none", "ro", "rw"}]
         /\ base' \in [Clients -> Contents] /\ acked' \in [Clients -> Contents]
<1>1. poisoned' \in BOOLEAN
  <2>1. poisoned' = (poisoned \/ pc[c] = "unwind")
    BY DEF Unlock
  <2> QED
    BY <2>1, Zenon
<1> QED
  BY <1>1, EmptyType DEF Unlock, TypeOK, Goto

LEMMA NextTypeOK == TypeOK /\ [Next]_vars => TypeOK'
<1> SUFFICES ASSUME TypeOK, [Next]_vars PROVE TypeOK'
  OBVIOUS
<1> USE DEF TypeOK, Goto, Return, NoFault, sqliteVars, mutexVars, histVars
<1>1. ASSUME NEW c \in Clients, NEW rw \in {"ro", "rw"}, Lock(c, rw) PROVE TypeOK'
  BY <1>1, BoundsAssumption DEF Lock
<1>2. ASSUME NEW c \in Clients, LockPoisoned(c) PROVE TypeOK'
  BY <1>2, BoundsAssumption DEF LockPoisoned
<1>3. ASSUME NEW c \in Clients, BeginOk(c) PROVE TypeOK'
  BY <1>3 DEF BeginOk
<1>4. ASSUME NEW c \in Clients, BeginErr(c) PROVE TypeOK'
  <2>1. faults' \in 0 .. MaxFaults
    BY <1>4, FaultType DEF BeginErr, AllFaults
  <2> QED
    BY <1>4, <2>1 DEF BeginErr
<1>5. ASSUME NEW c \in Clients, NEW m \in MapIds, NEW k \in Keys, NEW v \in OptVals,
             Write(c, m, k, v)
      PROVE  TypeOK'
  <2>1. /\ file' \in {file, [file EXCEPT ![m][k] = v]}
        /\ work' \in {work, [work EXCEPT ![m][k] = v]}
        /\ acked' = [acked EXCEPT ![c] = [acked[c] EXCEPT ![m][k] = v]]
    BY <1>5 DEF Write
  <2>2. file' \in Contents /\ work' \in Contents
    BY <2>1, WrittenType
  <2>3. acked' \in [Clients -> Contents]
    <3>1. [acked[c] EXCEPT ![m][k] = v] \in Contents
      BY WrittenType
    <3> QED
      BY <2>1, <3>1
  <2> QED
    BY <1>5, <2>2, <2>3 DEF Write
<1>6. ASSUME NEW c \in Clients, StatementErr(c) \/ AutoRollback(c) PROVE TypeOK'
  <2>1. faults' \in 0 .. MaxFaults
    BY <1>6, FaultType DEF StatementErr, AutoRollback, AllFaults
  <2> QED
    BY <1>6, <2>1 DEF StatementErr, AutoRollback
<1>7. ASSUME NEW c \in Clients, CommitOk(c) PROVE TypeOK'
  BY <1>7 DEF CommitOk
<1>8. ASSUME NEW c \in Clients, CommitErr(c) PROVE TypeOK'
  <2>1. faults' \in 0 .. MaxFaults /\ inTx' \in BOOLEAN
    BY <1>8, FaultType DEF CommitErr, AllFaults
  <2> QED
    BY <1>8, <2>1 DEF CommitErr
<1>9. ASSUME NEW c \in Clients, Abandon(c) \/ Panic(c) PROVE TypeOK'
  BY <1>9 DEF Abandon, Panic
<1>10. ASSUME NEW c \in Clients, DropTx(c) PROVE TypeOK'
  <2>1. faults' \in 0 .. MaxFaults /\ inTx' \in BOOLEAN
    BY <1>10, FaultType DEF DropTx, AllFaults
  <2> QED
    BY <1>10, <2>1, UnlockType DEF DropTx
<1>11. CASE Crash
  <2>1. faults' \in 0 .. MaxFaults
    BY <1>11, FaultType DEF Crash, AllFaults
  <2> QED
    BY <1>11, <2>1, EmptyType DEF Crash
<1>12. CASE AllStopped \/ UNCHANGED vars
  BY <1>12 DEF AllStopped, vars
<1> QED
  BY <1>1, <1>2, <1>3, <1>4, <1>5, <1>6, <1>7, <1>8, <1>9, <1>10, <1>11, <1>12
  DEF Next, ClientNext

-----------------------------------------------------------------------------
(* The invariant.  The steps of one client leave the others outside.        *)

\* Nobody is inside but the client with the guard.
LEMMA OthersOutside ==
  ASSUME Inv, NEW c \in Clients, pc[c] \in Holding, NEW d \in Clients, d # c
  PROVE  pc[d] \in {"idle", "dead"}
BY DEF Inv, MutexInv, TypeOK, Holding

LEMMA InitInv == Init => Inv
<1> SUFFICES ASSUME Init PROVE Inv
  OBVIOUS
<1>1. TypeOK
  BY InitTypeOK
<1> QED
  BY <1>1, SentinelsAssumption
  DEF Init, Inv, MutexInv, KindInv, AckedInv, KeptInv, RefusedInv, Stray, Holding,
      ConnectionReturnedClean

LEMMA LockInv ==
  ASSUME Inv, NEW c \in Clients, NEW rw \in {"ro", "rw"}, Lock(c, rw)
  PROVE  (MutexInv /\ KindInv /\ AckedInv /\ KeptInv /\ RefusedInv
          /\ ConnectionReturnedClean)'
<1> USE DEF Inv, TypeOK
<1>1. /\ pc[c] = "idle" /\ guard = NoClient /\ guard' = c
      /\ UNCHANGED <<file, inTx, work, base, acked, faults, refused>>
  BY DEF Lock, NoFault, sqliteVars, histVars
<1>2. /\ \A d \in Clients : pc'[d] = IF d = c THEN "begin" ELSE pc[d]
      /\ \A d \in Clients : kind'[d] = IF d = c THEN rw ELSE kind[d]
  BY DEF Lock, Goto
<1>3. \A d \in Clients : pc[d] \notin Holding
  BY <1>1, SentinelsAssumption DEF MutexInv
<1>4. MutexInv' /\ ConnectionReturnedClean'
  BY <1>1, <1>2, <1>3, SentinelsAssumption DEF MutexInv, Holding, ConnectionReturnedClean
<1>5. KindInv' /\ AckedInv' /\ KeptInv'
  BY <1>1, <1>2 DEF KindInv, AckedInv, KeptInv
<1>6. RefusedInv'
  BY <1>1, <1>2 DEF RefusedInv, Stray
<1> QED
  BY <1>4, <1>5, <1>6

\* A step of the client with the guard that keeps it, and where it leads.
LEMMA HolderInv ==
  ASSUME Inv, NEW c \in Clients, pc[c] \in Holding, UNCHANGED <<guard, kind>>,
         NEW s \in Holding, pc' = [pc EXCEPT ![c] = s],
         s = "tx" => /\ kind[c] \in {"ro", "rw"}
                     /\ inTx' => work' = acked'[c]
                     /\ "autorollback" \notin Faults => inTx' /\ file' = base'[c],
         s # "begin", refused' <= faults'
  PROVE  (MutexInv /\ KindInv /\ AckedInv /\ KeptInv /\ RefusedInv
          /\ ConnectionReturnedClean)'
<1>1. \A d \in Clients : d # c => pc'[d] = pc[d] /\ pc[d] \in {"idle", "dead"}
  BY OthersOutside DEF Inv, TypeOK
<1>2. pc'[c] = s /\ guard = c /\ guard' = c
  BY DEF Inv, TypeOK, MutexInv
<1>3. MutexInv' /\ ConnectionReturnedClean'
  BY <1>1, <1>2, SentinelsAssumption DEF MutexInv, Holding, ConnectionReturnedClean
<1>4. KindInv' /\ AckedInv' /\ KeptInv'
  BY <1>1, <1>2 DEF KindInv, AckedInv, KeptInv
<1>5. ~Stray'
  BY <1>2 DEF Stray, Holding
<1> QED
  BY <1>3, <1>4, <1>5 DEF RefusedInv

LEMMA DropTxInv ==
  ASSUME Inv, NEW c \in Clients, DropTx(c)
  PROVE  (MutexInv /\ KindInv /\ AckedInv /\ KeptInv /\ RefusedInv
          /\ ConnectionReturnedClean)'
<1>1. pc[c] \in Holding /\ guard' = NoClient /\ refused' = refused
  BY DEF DropTx, Unlock, Holding
<1>2. pc'[c] \in {"idle", "dead"} /\ \A d \in Clients : d # c => pc'[d] = pc[d]
  BY DEF DropTx, Unlock, Goto, Inv, TypeOK
<1>3. \A d \in Clients : pc'[d] \in {"idle", "dead"}
  BY <1>1, <1>2, OthersOutside
<1>4. \/ inTx' = FALSE /\ faults' = faults
      \/ "rollback" \in Faults /\ faults' = faults + 1
  BY DEF DropTx, Fault, NoFault
<1>5. MutexInv' /\ ConnectionReturnedClean'
  BY <1>1, <1>3, <1>4, SentinelsAssumption DEF MutexInv, Holding, ConnectionReturnedClean
<1>6. KindInv' /\ AckedInv' /\ KeptInv'
  BY <1>3 DEF KindInv, AckedInv, KeptInv
<1>7. RefusedInv'
  BY <1>1, <1>4 DEF RefusedInv, Stray, Inv, TypeOK
<1> QED
  BY <1>5, <1>6, <1>7

LEMMA NextInv == Inv /\ [Next]_vars => Inv'
<1> SUFFICES ASSUME Inv, [Next]_vars PROVE Inv'
  OBVIOUS
<1> DEFINE Rest == MutexInv /\ KindInv /\ AckedInv /\ KeptInv /\ RefusedInv
                   /\ ConnectionReturnedClean
<1>1. ASSUME NEW c \in Clients, NEW rw \in {"ro", "rw"}, Lock(c, rw) PROVE Rest'
  BY <1>1, LockInv
<1>2. ASSUME NEW c \in Clients, LockPoisoned(c) PROVE Rest'
  <2>1. UNCHANGED <<file, inTx, work, guard, pc, kind, base, acked, faults, refused>>
    BY <1>2 DEF LockPoisoned, NoFault, sqliteVars, mutexVars, histVars
  <2> QED
    BY <2>1 DEF Inv, MutexInv, KindInv, AckedInv, KeptInv, RefusedInv, Stray,
                ConnectionReturnedClean
<1>3. ASSUME NEW c \in Clients, BeginOk(c) PROVE Rest'
  <2>1. /\ pc[c] = "begin" /\ kind[c] \in {"ro", "rw"}
        /\ pc' = [pc EXCEPT ![c] = "tx"]
        /\ inTx' = TRUE /\ work' = file /\ acked'[c] = file /\ base'[c] = file
        /\ UNCHANGED <<file, guard, kind, refused, faults>>
    BY <1>3 DEF BeginOk, Goto, NoFault, mutexVars, Inv, KindInv, TypeOK
  <2> QED
    BY <2>1, HolderInv DEF Holding, Inv, RefusedInv
<1>4. ASSUME NEW c \in Clients, BeginErr(c) PROVE Rest'
  <2>1. /\ pc[c] = "begin" /\ pc' = [pc EXCEPT ![c] = "drop"]
        /\ UNCHANGED <<guard, kind>> /\ refused' = refused + 1
    BY <1>4 DEF BeginErr, Goto, mutexVars
  <2>2. refused' <= faults'
    <3>1. CASE inTx
      <4>1. faults' = faults
        BY <1>4, <3>1 DEF BeginErr, NoFault
      <4>2. \A d \in Clients : pc[d] \notin {"tx", "drop", "unwind"}
        BY <2>1, OthersOutside DEF Holding
      <4> QED
        BY <2>1, <3>1, <4>1, <4>2 DEF Inv, RefusedInv, Stray, TypeOK
    <3>2. CASE ~inTx
      BY <1>4, <2>1, <3>2 DEF BeginErr, Fault, Inv, RefusedInv, TypeOK
    <3> QED
      BY <3>1, <3>2
  <2> QED
    BY <2>1, <2>2, HolderInv DEF Holding
<1>5. ASSUME NEW c \in Clients, NEW m \in MapIds, NEW k \in Keys, NEW v \in OptVals,
             Write(c, m, k, v)
      PROVE  Rest'
  <2>1. /\ pc[c] = "tx" /\ kind[c] = "rw" /\ pc' = [pc EXCEPT ![c] = "tx"]
        /\ UNCHANGED <<inTx, guard, kind, refused, faults, base>>
    BY <1>5 DEF Write, NoFault, mutexVars, Inv, TypeOK
  <2>2. acked'[c] = [acked[c] EXCEPT ![m][k] = v]
    BY <1>5 DEF Write, Inv, TypeOK
  <2>3. inTx => work' = [work EXCEPT ![m][k] = v] /\ file' = file /\ work = acked[c]
    BY <1>5, <2>1 DEF Write, Inv, AckedInv
  <2>4. "autorollback" \notin Faults => inTx' /\ file' = base'[c]
    BY <2>1, <2>3 DEF Inv, KeptInv
  <2> QED
    BY <2>1, <2>2, <2>3, <2>4, HolderInv DEF Holding, Inv, RefusedInv
<1>6. ASSUME NEW c \in Clients, StatementErr(c) \/ AutoRollback(c) PROVE Rest'
  <2>1. /\ pc[c] = "tx" /\ pc' = [pc EXCEPT ![c] = "tx"] /\ faults' = faults + 1
        /\ UNCHANGED <<file, work, guard, kind, refused, base, acked>>
    BY <1>6 DEF StatementErr, AutoRollback, Fault, sqliteVars, mutexVars, histVars, Inv, TypeOK
  <2>2. /\ inTx' => inTx
        /\ "autorollback" \notin Faults => inTx' = inTx
    BY <1>6 DEF StatementErr, AutoRollback, Fault, sqliteVars
  <2>3. kind[c] \in {"ro", "rw"} /\ refused <= faults + 1
    BY <2>1 DEF Inv, KindInv, RefusedInv, TypeOK
  <2>4. /\ inTx' => work' = acked'[c]
        /\ "autorollback" \notin Faults => inTx' /\ file' = base'[c]
    BY <2>1, <2>2 DEF Inv, AckedInv, KeptInv
  <2> QED
    BY <2>1, <2>3, <2>4, HolderInv DEF Holding
<1>7. ASSUME NEW c \in Clients, NEW s \in {"drop", "unwind"}, pc[c] = "tx", Goto(c, s),
             UNCHANGED <<guard, kind, refused>>, faults' \in {faults, faults + 1}
      PROVE  Rest'
  <2>1. pc' = [pc EXCEPT ![c] = s]
    BY <1>7 DEF Goto
  <2>2. refused' <= faults'
    BY <1>7 DEF Inv, RefusedInv, TypeOK
  <2> QED
    BY <1>7, <2>1, <2>2, HolderInv DEF Holding
<1>8. ASSUME NEW c \in Clients, CommitOk(c) \/ CommitErr(c) \/ Abandon(c) \/ Panic(c)
      PROVE  Rest'
  <2>1. /\ pc[c] = "tx"
        /\ Goto(c, "drop") \/ Goto(c, "unwind")
        /\ UNCHANGED <<guard, kind, refused>> /\ faults' \in {faults, faults + 1}
    BY <1>8 DEF CommitOk, CommitErr, Abandon, Panic, Fault, NoFault, mutexVars, histVars
  <2> QED
    BY <1>7, <2>1
<1>9. ASSUME NEW c \in Clients, DropTx(c) PROVE Rest'
  BY <1>9, DropTxInv
<1>10. CASE Crash
  <2>1. /\ inTx' = FALSE /\ guard' = NoClient /\ refused' = refused /\ faults' = faults + 1
        /\ \A d \in Clients : pc'[d] = "idle"
    BY <1>10 DEF Crash, Fault
  <2>2. MutexInv' /\ KindInv' /\ AckedInv' /\ KeptInv' /\ ConnectionReturnedClean'
    BY <2>1, SentinelsAssumption DEF MutexInv, KindInv, AckedInv, KeptInv, Holding,
                                     ConnectionReturnedClean
  <2>3. RefusedInv'
    BY <2>1 DEF Inv, RefusedInv, Stray, TypeOK
  <2> QED
    BY <2>2, <2>3, NextTypeOK DEF Inv
<1>11. CASE AllStopped \/ UNCHANGED vars
  <2>1. UNCHANGED <<file, inTx, work, guard, pc, kind, base, acked, faults, refused>>
    BY <1>11 DEF AllStopped, vars
  <2>2. Rest'
    BY <2>1 DEF Inv, MutexInv, KindInv, AckedInv, KeptInv, RefusedInv, Stray,
                ConnectionReturnedClean
  <2> QED
    BY <2>2, NextTypeOK DEF Inv
<1> QED
  BY <1>1, <1>2, <1>3, <1>4, <1>5, <1>6, <1>8, <1>9, <1>10, <1>11, NextTypeOK
  DEF Next, ClientNext, Inv

LEMMA InvHolds == Spec => []Inv
<1> QED
  BY InitInv, NextInv, PTL DEF Spec

-----------------------------------------------------------------------------
(* Theorems about one backend *)

\* Types, for all threads, maps, keys and values.
THEOREM SqliteTypes == Spec => []TypeOK
<1>1. Inv => TypeOK
  BY DEF Inv
<1> QED
  BY <1>1, InvHolds, PTL

\* DbTx::start_transaction is refused no more often than something has failed: the
\* transaction that a failed ROLLBACK leaves on the connection costs one start.
THEOREM RefusalsAreFailures == Spec => []RefusedOnlyByFailure
<1>1. Inv => RefusedOnlyByFailure
  BY DEF Inv, RefusedInv, RefusedOnlyByFailure
<1> QED
  BY <1>1, InvHolds, PTL

\* Whenever nobody holds the connection's mutex, the connection is in autocommit
\* mode, if no ROLLBACK in the destructor fails.
THEOREM ConnectionIsClean == Spec => []ConnectionReturnedClean
<1>1. Inv => ConnectionReturnedClean
  BY DEF Inv
<1> QED
  BY <1>1, InvHolds, PTL

\* How a client leaves its transaction: by a commit or without one.
LEMMA LeavesTx ==
  ASSUME Inv, [Next]_vars, NEW c \in Clients, pc[c] = "tx", pc'[c] # "tx"
  PROVE  \/ CommitOk(c) /\ result'[c] = "ok"
         \/ UNCHANGED file /\ result'[c] # "ok"
<1> USE DEF Inv, TypeOK
<1>1. ASSUME NEW d \in Clients, ClientNext(d)
      PROVE  \/ CommitOk(c) /\ result'[c] = "ok"
             \/ UNCHANGED file /\ result'[c] # "ok"
  <2>1. CASE d = c
    <3>1. CommitOk(c) \/ CommitErr(c) \/ Abandon(c) \/ Panic(c)
      BY <1>1, <2>1 DEF ClientNext, Lock, LockPoisoned, BeginOk, BeginErr, Write,
           StatementErr, AutoRollback, DropTx
    <3> QED
      BY <3>1 DEF CommitOk, CommitErr, Abandon, Panic, Return, sqliteVars
  <2>2. CASE d # c
    <3>1. pc[d] \in {"idle", "dead"}
      BY <2>2, OthersOutside DEF Holding
    <3>2. \A s \in {"begin", "tx", "drop", "unwind", "idle", "dead"} :
            pc' = [pc EXCEPT ![d] = s] => pc'[c] = pc[c]
      BY <2>2
    <3>3. pc'[c] = pc[c]
      BY <1>1, <3>1, <3>2 DEF ClientNext, Lock, LockPoisoned, BeginOk, BeginErr, Write,
           StatementErr, AutoRollback, CommitOk, CommitErr, Abandon, Panic, DropTx, Goto
    <3> QED
      BY <3>3
  <2> QED
    BY <2>1, <2>2
<1>2. CASE Crash
  BY <1>2 DEF Crash
<1>3. CASE AllStopped \/ UNCHANGED vars
  BY <1>3 DEF AllStopped, vars
<1> QED
  BY <1>1, <1>2, <1>3 DEF Next

\* TxRw::commit that returns Ok has installed every write that returned Ok, even if
\* SQLite has rolled transactions back on its own.
THEOREM OkIsInstalled == Spec => OkMeansInstalled
<1> DEFINE Installed ==
      \A c \in Clients :
        pc[c] = "tx" /\ pc'[c] # "tx" /\ result'[c] = "ok" => file' = acked[c]
<1>1. ASSUME Inv, [Next]_vars
      PROVE  [Installed]_vars
  <2> SUFFICES ASSUME NEW c \in Clients, pc[c] = "tx", pc'[c] # "tx", result'[c] = "ok"
               PROVE  file' = acked[c]
    OBVIOUS
  <2>1. CommitOk(c)
    BY <1>1, LeavesTx
  <2> QED
    BY <1>1, <2>1 DEF CommitOk, Inv, AckedInv
<1>2. Spec => [][Installed]_vars
  BY <1>1, InvHolds, PTL DEF Spec
<1> QED
  BY <1>2, PTL DEF OkMeansInstalled

\* A transaction that ends without a successful commit (abort, drop, failed commit,
\* panic, crash) has changed nothing, unless SQLite rolled it back on its own.
THEOREM AbandonedIsUndone == "autorollback" \notin Faults => (Spec => AbandonedHasNoEffect)
<1> SUFFICES ASSUME "autorollback" \notin Faults PROVE Spec => AbandonedHasNoEffect
  OBVIOUS
<1> DEFINE Undone ==
      \A c \in Clients :
        pc[c] = "tx" /\ pc'[c] # "tx" /\ result'[c] # "ok" => file' = base[c]
<1>1. ASSUME Inv, [Next]_vars
      PROVE  [Undone]_vars
  <2> SUFFICES ASSUME NEW c \in Clients, pc[c] = "tx", pc'[c] # "tx", result'[c] # "ok"
               PROVE  file' = base[c]
    OBVIOUS
  <2>1. UNCHANGED file
    BY <1>1, LeavesTx
  <2> QED
    BY <1>1, <2>1 DEF Inv, KeptInv
<1>2. Spec => [][Undone]_vars
  BY <1>1, InvHolds, PTL DEF Spec
<1> QED
  BY <1>2, PTL DEF AbandonedHasNoEffect

-----------------------------------------------------------------------------
(* The refinement.  Only the client with the guard has a transaction, so    *)
(* that a step changes at most its own part of the abstract state.          *)

LEMMA AbsMove ==
  ASSUME NEW c \in Clients,
         \A d \in Clients : d # c => /\ pc[d] # "tx" /\ pc'[d] # "tx"
                                     /\ result'[d] = result[d]
  PROVE  /\ AbsMode' = [AbsMode EXCEPT ![c] = AbsMode'[c]]
         /\ AbsBase' = [AbsBase EXCEPT ![c] = AbsBase'[c]]
         /\ AbsView' = [AbsView EXCEPT ![c] = AbsView'[c]]
         /\ AbsResult' = [AbsResult EXCEPT ![c] = AbsResult'[c]]
BY DEF AbsMode, AbsBase, AbsView, AbsResult

LEMMA AbsOf ==
  ASSUME NEW c \in Clients
  PROVE  /\ pc[c] = "tx" => /\ AbsMode[c] = kind[c] /\ AbsBase[c] = base[c]
                            /\ AbsView[c] = Observed /\ AbsResult[c] = "none"
         /\ pc[c] # "tx" => /\ AbsMode[c] = "idle" /\ AbsBase[c] = EmptyContents
                            /\ AbsView[c] = EmptyContents /\ AbsResult[c] = result[c]
         /\ pc'[c] = "tx" => /\ AbsMode'[c] = kind'[c] /\ AbsBase'[c] = base'[c]
                             /\ AbsView'[c] = Observed' /\ AbsResult'[c] = "none"
         /\ pc'[c] # "tx" => /\ AbsMode'[c] = "idle" /\ AbsBase'[c] = EmptyContents
                             /\ AbsView'[c] = EmptyContents /\ AbsResult'[c] = result'[c]
BY DEF AbsMode, AbsBase, AbsView, AbsResult

LEMMA EmptyIsEmpty == KV!EmptyContents = EmptyContents
BY DEF KV!EmptyContents, EmptyContents

LEMMA InitImplements == Init => KV!Init
BY EmptyIsEmpty DEF Init, KV!Init, AbsMode, AbsBase, AbsView, AbsResult

\* Outside its transaction a client does nothing that KVStore knows of.
LEMMA QuietImplements ==
  ASSUME NEW c \in Clients, pc[c] # "tx", pc'[c] # "tx",
         \A d \in Clients : d # c => pc[d] # "tx" /\ pc'[d] # "tx",
         UNCHANGED <<file, result>>
  PROVE  UNCHANGED KV!vars
<1>1. AbsMode' = AbsMode /\ AbsBase' = AbsBase /\ AbsView' = AbsView /\ AbsResult' = AbsResult
  BY DEF AbsMode, AbsBase, AbsView, AbsResult
<1> QED
  BY <1>1 DEF KV!vars

\* A begin that returns an error.
LEMMA RefusalImplements ==
  ASSUME TypeOK, NEW c \in Clients, pc[c] # "tx", pc'[c] # "tx", Return(c, "err"),
         \A d \in Clients : d # c => pc[d] # "tx" /\ pc'[d] # "tx",
         UNCHANGED file
  PROVE  KV!BeginErr(c)
<1>1. AbsMode' = AbsMode /\ AbsBase' = AbsBase /\ AbsView' = AbsView
  BY DEF AbsMode, AbsBase, AbsView
<1>2. AbsResult' = [AbsResult EXCEPT ![c] = "err"]
  BY DEF AbsResult, Return, TypeOK
<1> QED
  BY <1>1, <1>2, AbsOf DEF KV!BeginErr, KV!Return

\* The end of a transaction that installs nothing, or an error of its commit.
LEMMA EndImplements ==
  ASSUME Inv, NEW c \in Clients, pc[c] = "tx", NEW s \in {"drop", "unwind"}, Goto(c, s),
         NEW r \in {"none", "err"}, Return(c, r), UNCHANGED file,
         r = "err" => kind[c] = "rw"
  PROVE  KV!CommitErr(c) \/ KV!End(c)
<1> USE DEF Inv, TypeOK
<1>1. pc'[c] = s /\ result'[c] = r /\ kind[c] \in {"ro", "rw"}
  BY DEF Goto, Return, KindInv
<1>2. \A d \in Clients : d # c => /\ pc[d] # "tx" /\ pc'[d] # "tx" /\ result'[d] = result[d]
  BY OthersOutside DEF Goto, Return, Holding
<1>3. /\ AbsMode' = [AbsMode EXCEPT ![c] = "idle"]
      /\ AbsBase' = [AbsBase EXCEPT ![c] = EmptyContents]
      /\ AbsView' = [AbsView EXCEPT ![c] = EmptyContents]
      /\ AbsResult' = [AbsResult EXCEPT ![c] = r]
  BY <1>1, <1>2, AbsMove, AbsOf
<1>4. AbsMode[c] = kind[c] /\ AbsResult[c] = "none" /\ AbsResult = [AbsResult EXCEPT ![c] = AbsResult[c]]
  BY AbsOf DEF AbsResult
<1>5. KV!Release(c)
  BY <1>3, EmptyIsEmpty DEF KV!Release
<1>6. CASE r = "none"
  BY <1>1, <1>3, <1>4, <1>5, <1>6 DEF KV!End
<1>7. CASE r = "err"
  BY <1>3, <1>4, <1>5, <1>7 DEF KV!CommitErr, KV!Writing, KV!Return
<1> QED
  BY <1>6, <1>7

LEMMA BeginOkImplements ==
  ASSUME Inv, NEW c \in Clients, BeginOk(c)
  PROVE  KV!Begin(c, kind[c]) /\ kind[c] \in {"ro", "rw"}
<1> USE DEF Inv, TypeOK
<1>1. /\ pc[c] = "begin" /\ pc'[c] = "tx" /\ kind' = kind /\ kind[c] \in {"ro", "rw"}
      /\ file' = file /\ inTx' /\ work' = file /\ base'[c] = file
  BY DEF BeginOk, Goto, KindInv
<1>2. \A d \in Clients : d # c => /\ pc[d] # "tx" /\ pc'[d] # "tx" /\ result'[d] = result[d]
  BY <1>1, OthersOutside DEF BeginOk, Goto, Return, Holding
<1>3. Observed' = file
  BY <1>1 DEF Observed
<1>4. /\ AbsMode' = [AbsMode EXCEPT ![c] = kind[c]]
      /\ AbsBase' = [AbsBase EXCEPT ![c] = file]
      /\ AbsView' = [AbsView EXCEPT ![c] = file]
      /\ AbsResult' = [AbsResult EXCEPT ![c] = "none"]
  BY <1>1, <1>2, <1>3, AbsMove, AbsOf
<1>5. \A d \in Clients : AbsMode[d] = "idle"
  BY <1>1, <1>2, AbsOf
<1> QED
  BY <1>1, <1>4, <1>5 DEF KV!Begin, KV!Writing, KV!Return

LEMMA WriteImplements ==
  ASSUME Inv, "autorollback" \notin Faults, NEW c \in Clients, NEW m \in MapIds,
         NEW k \in Keys, NEW v \in OptVals, Write(c, m, k, v)
  PROVE  KV!Write(c, m, k, v)
<1> USE DEF Inv, TypeOK
<1>1. /\ pc[c] = "tx" /\ kind[c] = "rw" /\ inTx
      /\ UNCHANGED <<file, inTx, pc, kind, result, base>>
      /\ work' = [work EXCEPT ![m][k] = v]
  BY DEF Write, KeptInv
<1>2. \A d \in Clients : d # c => /\ pc[d] # "tx" /\ pc'[d] # "tx" /\ result'[d] = result[d]
  BY <1>1, OthersOutside DEF Holding
<1>3. Observed = work /\ Observed' = work'
  BY <1>1 DEF Observed
<1>4. AbsMode' = AbsMode /\ AbsBase' = AbsBase /\ AbsResult' = AbsResult
  BY <1>1 DEF AbsMode, AbsBase, AbsResult
<1>5. AbsMode[c] = "rw" /\ AbsView[c] = work
  BY <1>1, <1>3, AbsOf
<1>6. AbsView' = [AbsView EXCEPT ![c] = work']
  <2>1. AbsView' = [AbsView EXCEPT ![c] = AbsView'[c]]
    BY <1>2, AbsMove
  <2>2. AbsView'[c] = work'
    BY <1>1, <1>3, AbsOf
  <2> QED
    BY <2>1, <2>2
<1>7. AbsView' = [AbsView EXCEPT ![c][m][k] = v]
  <2>1. work' = [AbsView[c] EXCEPT ![m][k] = v]
    BY <1>1, <1>5
  <2> QED
    BY <1>6, <2>1
<1> QED
  BY <1>1, <1>4, <1>5, <1>7 DEF KV!Write

LEMMA CommitOkImplements ==
  ASSUME Inv, NEW c \in Clients, CommitOk(c)
  PROVE  KV!Commit(c)
<1> USE DEF Inv, TypeOK
<1>1. /\ pc[c] = "tx" /\ kind[c] = "rw" /\ inTx /\ file' = work
      /\ pc'[c] = "drop" /\ result'[c] = "ok"
  BY DEF CommitOk, Goto, Return
<1>2. \A d \in Clients : d # c => /\ pc[d] # "tx" /\ pc'[d] # "tx" /\ result'[d] = result[d]
  BY <1>1, OthersOutside DEF CommitOk, Goto, Return, Holding
<1>3. /\ AbsMode' = [AbsMode EXCEPT ![c] = "idle"]
      /\ AbsBase' = [AbsBase EXCEPT ![c] = EmptyContents]
      /\ AbsView' = [AbsView EXCEPT ![c] = EmptyContents]
      /\ AbsResult' = [AbsResult EXCEPT ![c] = "ok"]
  BY <1>1, <1>2, AbsMove, AbsOf
<1>4. AbsMode[c] = "rw" /\ AbsView[c] = work
  BY <1>1, AbsOf DEF Observed
<1> QED
  BY <1>1, <1>3, <1>4, EmptyIsEmpty DEF KV!Commit, KV!Writing, KV!Release, KV!Return

LEMMA CrashImplements == Crash => KV!Restart
BY EmptyIsEmpty DEF Crash, KV!Restart, AbsMode, AbsBase, AbsView, AbsResult

\* Every step maps to a step of KVStore or to none.
LEMMA NextImplements ==
  ASSUME "autorollback" \notin Faults, Inv, Inv', [Next]_vars
  PROVE  [KV!Next]_(KV!vars)
<1> USE DEF Inv, TypeOK
<1>1. ASSUME NEW c \in Clients, pc[c] \in {"idle", "begin", "drop", "unwind"},
             pc[c] = "idle" => guard = NoClient, NEW s, s # "tx", Goto(c, s)
      PROVE  /\ pc[c] # "tx" /\ pc'[c] # "tx"
             /\ \A d \in Clients : d # c => pc[d] # "tx" /\ pc'[d] # "tx"
  <2>1. \A d \in Clients : d # c => pc[d] # "tx"
    BY <1>1, SentinelsAssumption DEF MutexInv, Holding
  <2> QED
    BY <1>1, <2>1 DEF Goto
<1>2. ASSUME NEW c \in Clients, NEW rw \in {"ro", "rw"}, Lock(c, rw)
      PROVE  UNCHANGED KV!vars
  <2>1. /\ pc[c] = "idle" /\ guard = NoClient /\ Goto(c, "begin")
        /\ UNCHANGED <<file, result>>
    BY <1>2 DEF Lock, sqliteVars
  <2> QED
    BY <2>1, <1>1, QuietImplements
<1>3. ASSUME NEW c \in Clients, LockPoisoned(c) PROVE KV!Next
  <2>1. /\ pc[c] = "idle" /\ guard = NoClient /\ pc' = pc /\ Return(c, "err")
        /\ UNCHANGED file
    BY <1>3 DEF LockPoisoned, sqliteVars
  <2>2. \A d \in Clients : pc[d] # "tx" /\ pc'[d] # "tx"
    BY <2>1, SentinelsAssumption DEF MutexInv, Holding
  <2> QED
    BY <2>1, <2>2, RefusalImplements DEF KV!Next
<1>4. ASSUME NEW c \in Clients, BeginOk(c) PROVE KV!Next
  BY <1>4, BeginOkImplements DEF KV!Next
<1>5. ASSUME NEW c \in Clients, BeginErr(c) PROVE KV!Next
  <2>1. /\ pc[c] = "begin" /\ Goto(c, "drop") /\ Return(c, "err") /\ UNCHANGED file
    BY <1>5 DEF BeginErr, sqliteVars
  <2> QED
    BY <2>1, <1>1, RefusalImplements DEF KV!Next
<1>6. ASSUME NEW c \in Clients, NEW m \in MapIds, NEW k \in Keys, NEW v \in OptVals,
             Write(c, m, k, v)
      PROVE  KV!Next
  BY <1>6, WriteImplements DEF KV!Next, KV!OptVals, OptVals
<1>7. ASSUME NEW c \in Clients, CommitOk(c) PROVE KV!Next
  BY <1>7, CommitOkImplements DEF KV!Next
<1>8. ASSUME NEW c \in Clients, CommitErr(c) \/ Abandon(c) \/ Panic(c) PROVE KV!Next
  <2>1. PICK s \in {"drop", "unwind"}, r \in {"none", "err"} :
          /\ pc[c] = "tx" /\ Goto(c, s) /\ Return(c, r) /\ UNCHANGED file
          /\ r = "err" => kind[c] = "rw"
    BY <1>8 DEF CommitErr, Abandon, Panic, sqliteVars
  <2> QED
    BY <2>1, EndImplements DEF KV!Next
<1>9. ASSUME NEW c \in Clients, StatementErr(c) PROVE UNCHANGED KV!vars
  <2>1. UNCHANGED <<file, inTx, work, pc, kind, result, base>>
    BY <1>9 DEF StatementErr, sqliteVars, histVars
  <2> QED
    BY <2>1 DEF KV!vars, AbsMode, AbsBase, AbsView, AbsResult, Observed
<1>10. ASSUME NEW c \in Clients, AutoRollback(c) PROVE FALSE
  BY <1>10 DEF AutoRollback, Fault
<1>11. ASSUME NEW c \in Clients, DropTx(c) PROVE UNCHANGED KV!vars
  <2>1. PICK s \in {"idle", "dead"} : Goto(c, s)
    BY <1>11 DEF DropTx, Unlock
  <2>2. pc[c] \in {"drop", "unwind"} /\ UNCHANGED <<file, result>>
    BY <1>11 DEF DropTx
  <2> QED
    BY <2>1, <2>2, <1>1, QuietImplements
<1>12. CASE Crash
  BY <1>12, CrashImplements DEF KV!Next
<1>13. CASE AllStopped \/ UNCHANGED vars
  BY <1>13 DEF AllStopped, vars, KV!vars, AbsMode, AbsBase, AbsView, AbsResult, Observed
<1> QED
  BY <1>2, <1>3, <1>4, <1>5, <1>6, <1>7, <1>8, <1>9, <1>10, <1>11, <1>12, <1>13
  DEF Next, ClientNext

\* The SQLite backend keeps the promises of the backend traits through failing
\* begins, statements, commits and rollbacks, panics and crashes, unless SQLite
\* rolls a transaction back on its own.
THEOREM SqliteImplementsKV == "autorollback" \notin Faults => (Spec => KVSpec)
<1> SUFFICES ASSUME "autorollback" \notin Faults PROVE Spec => KVSpec
  OBVIOUS
<1>1. Inv /\ Inv' /\ [Next]_vars => [KV!Next]_(KV!vars)
  BY NextImplements
<1> QED
  BY <1>1, InitImplements, InvHolds, PTL DEF Spec, KVSpec, KV!Spec
=============================================================================
