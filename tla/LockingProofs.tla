---------------------------- MODULE LockingProofs ----------------------------
(***************************************************************************)
(* Proofs about the locking adaptor, for every number of threads, maps,    *)
(* keys and values: its types, that no other thread can change the store   *)
(* under an open transaction, that poison is final, and that it implements *)
(* the promise of the backend traits, KVStore.                             *)
(***************************************************************************)
EXTENDS Locking, TLAPS

\* The guards are what the clients' program counters say, and the write guard
\* excludes every other guard.  A poisoned lock is held by nobody.
LockInv ==
  /\ \A c \in Clients : c \in readers <=> pc[c] = "ro"
  /\ \A c \in Clients : writer = c <=> pc[c] \in {"rw", "committing"}
  /\ writer # NoClient => readers = {}
  /\ poisoned => writer = NoClient /\ readers = {}

Inv == TypeOK /\ LockInv /\ SnapshotStable

-----------------------------------------------------------------------------
(* Types. *)

LEMMA EmptyTypes ==
  /\ EmptyContents \in Contents
  /\ EmptyDeltas \in DeltaMaps
BY DEF EmptyContents, Contents, EmptyDeltas, DeltaMaps, MapIds, OptVals

LEMMA InitTypeOK == Init => TypeOK
<1> SUFFICES ASSUME Init PROVE TypeOK
  OBVIOUS
<1>1. left \in [Clients -> 0 .. MaxTx]
  BY BoundsAssumption DEF Init
<1>2. /\ deltas \in [Clients -> DeltaMaps]
      /\ base \in [Clients -> Contents]
      /\ db \in Contents
  BY EmptyTypes DEF Init
<1>3. /\ pc \in [Clients -> {"idle", "ro", "rw", "committing", "dead"}]
      /\ result \in [Clients -> {"none", "ok", "err"}]
      /\ readers \subseteq Clients
      /\ writer \in Clients \cup {NoClient}
      /\ poisoned \in BOOLEAN
  BY DEF Init
<1> QED
  BY <1>1, <1>2, <1>3 DEF TypeOK

LEMMA NextTypeOK == TypeOK /\ [Next]_vars => TypeOK'
<1> SUFFICES ASSUME TypeOK, [Next]_vars PROVE TypeOK'
  OBVIOUS
<1> USE EmptyTypes DEF TypeOK
<1>1. ASSUME NEW c \in Clients, BeginRo(c) PROVE TypeOK'
  BY <1>1, BoundsAssumption DEF BeginRo, Idle, Enter
<1>2. ASSUME NEW c \in Clients, BeginRw(c) PROVE TypeOK'
  BY <1>2, BoundsAssumption DEF BeginRw, Idle, Enter
<1>3. ASSUME NEW c \in Clients, BeginPoisoned(c) PROVE TypeOK'
  BY <1>3 DEF BeginPoisoned
<1>4. ASSUME NEW c \in Clients, NEW m \in MapIds, NEW k \in Keys,
             NEW v \in OptVals, Update(c, m, k, v)
      PROVE  TypeOK'
  BY <1>4 DEF Update, DeltaMaps
<1>5. ASSUME NEW c \in Clients, Drop(c) PROVE TypeOK'
  BY <1>5 DEF Drop, Leave
<1>6. ASSUME NEW c \in Clients, Panic(c) PROVE TypeOK'
  BY <1>6 DEF Panic, Leave
<1>7. ASSUME NEW c \in Clients, CommitStart(c) PROVE TypeOK'
  BY <1>7 DEF CommitStart
<1>8. ASSUME NEW c \in Clients, CommitFail(c) PROVE TypeOK'
  BY <1>8 DEF CommitFail, Leave
<1>9. ASSUME NEW c \in Clients, CommitEnd(c) PROVE TypeOK'
  BY <1>9 DEF CommitEnd, Leave
<1>10. ASSUME NEW c \in Clients, NEW m \in MapIds, NEW k \in Keys,
              CommitStep(c, m, k)
       PROVE  TypeOK'
  <2>1. deltas[c][m][k] \in OptVals
    BY <1>10 DEF CommitStep, IsNext, Pending, DeltaMaps
  <2>2. db' \in Contents
    BY <1>10, <2>1 DEF CommitStep, InnerWrite, Contents
  <2>3. deltas' \in [Clients -> DeltaMaps]
    BY <1>10 DEF CommitStep, DeltaMaps
  <2> QED
    BY <1>10, <2>2, <2>3 DEF CommitStep
<1>11. CASE AllStopped \/ UNCHANGED vars
  BY <1>11 DEF AllStopped, vars
<1> QED
  BY <1>1, <1>2, <1>3, <1>4, <1>5, <1>6, <1>7, <1>8, <1>9, <1>10, <1>11
  DEF Next, ClientNext

\* Type correctness of the adaptor.
THEOREM TypeCorrect == Spec => []TypeOK
BY InitTypeOK, NextTypeOK, PTL DEF Spec

-----------------------------------------------------------------------------
(* The guards, and what they protect.  SnapshotStable alone is not           *)
(* inductive: a commit turn keeps it only because the write guard shows that *)
(* no other transaction is open, which is what LockInv adds.                 *)

LEMMA InitInv == Init => Inv
BY InitTypeOK, SentinelsAssumption DEF Init, Inv, LockInv, SnapshotStable

\* What a client that lets go of its guards does to the lock.
LEMMA LeaveInv ==
  ASSUME Inv, NEW c \in Clients, NEW s \in {"idle", "dead"},
         pc[c] \in {"ro", "rw", "committing"},
         Leave(c, s), db' = db, poisoned' \in {poisoned, TRUE},
         poisoned' # poisoned => pc[c] = "rw"
  PROVE  LockInv' /\ SnapshotStable'
<1> USE SentinelsAssumption DEF Inv, TypeOK
<1>1. pc' = [pc EXCEPT ![c] = s]
  BY DEF Leave
<1>2. /\ readers' = readers \ {c}
      /\ writer' = IF writer = c THEN NoClient ELSE writer
  BY DEF Leave
<1>3. LockInv'
  BY <1>1, <1>2 DEF LockInv
<1>4. \A d \in Clients : d # c => base'[d] = base[d] /\ pc'[d] = pc[d]
  BY <1>1 DEF Leave
<1>5. pc'[c] = s
  BY <1>1
<1>6. SnapshotStable'
  BY <1>4, <1>5 DEF SnapshotStable
<1> QED
  BY <1>3, <1>6

LEMMA NextInv == Inv /\ [Next]_vars => Inv'
<1> SUFFICES ASSUME Inv, [Next]_vars PROVE LockInv' /\ SnapshotStable'
  BY NextTypeOK DEF Inv
<1> USE SentinelsAssumption DEF Inv, TypeOK
<1>1. ASSUME NEW c \in Clients, BeginRo(c) PROVE LockInv' /\ SnapshotStable'
  BY <1>1 DEF BeginRo, Idle, Enter, LockInv, SnapshotStable
<1>2. ASSUME NEW c \in Clients, BeginRw(c) PROVE LockInv' /\ SnapshotStable'
  BY <1>2 DEF BeginRw, Idle, Enter, LockInv, SnapshotStable
<1>3. ASSUME NEW c \in Clients, BeginPoisoned(c) PROVE LockInv' /\ SnapshotStable'
  BY <1>3 DEF BeginPoisoned, Idle, LockInv, SnapshotStable
<1>4. ASSUME NEW c \in Clients, NEW m \in MapIds, NEW k \in Keys,
             NEW v \in OptVals, Update(c, m, k, v)
      PROVE  LockInv' /\ SnapshotStable'
  BY <1>4 DEF Update, LockInv, SnapshotStable
<1>5. ASSUME NEW c \in Clients, Drop(c) PROVE LockInv' /\ SnapshotStable'
  BY <1>5, LeaveInv DEF Drop
<1>6. ASSUME NEW c \in Clients, Panic(c) PROVE LockInv' /\ SnapshotStable'
  BY <1>6, LeaveInv DEF Panic
<1>7. ASSUME NEW c \in Clients, CommitStart(c) PROVE LockInv' /\ SnapshotStable'
  BY <1>7 DEF CommitStart, LockInv, SnapshotStable
<1>8. ASSUME NEW c \in Clients, CommitFail(c) PROVE LockInv' /\ SnapshotStable'
  BY <1>8, LeaveInv DEF CommitFail
<1>9. ASSUME NEW c \in Clients, CommitEnd(c) PROVE LockInv' /\ SnapshotStable'
  BY <1>9, LeaveInv DEF CommitEnd
<1>10. ASSUME NEW c \in Clients, NEW m \in MapIds, NEW k \in Keys,
              CommitStep(c, m, k)
       PROVE  LockInv' /\ SnapshotStable'
  <2>1. LockInv'
    BY <1>10 DEF CommitStep, LockInv
  <2>2. \A d \in Clients : pc[d] \notin {"ro", "rw"}
    BY <1>10 DEF CommitStep, LockInv
  <2> QED
    BY <1>10, <2>1, <2>2 DEF CommitStep, SnapshotStable
<1>11. CASE AllStopped \/ UNCHANGED vars
  BY <1>11 DEF AllStopped, vars, LockInv, SnapshotStable
<1> QED
  BY <1>1, <1>2, <1>3, <1>4, <1>5, <1>6, <1>7, <1>8, <1>9, <1>10, <1>11
  DEF Next, ClientNext

LEMMA InvHolds == Spec => []Inv
BY InitInv, NextInv, PTL DEF Spec

\* Reads are repeatable and no update is lost: nothing but the transaction
\* itself changes the store while it is open.
THEOREM SnapshotsAreStable == Spec => []SnapshotStable
<1>1. Inv => SnapshotStable
  BY DEF Inv
<1> QED
  BY <1>1, InvHolds, PTL

\* A poisoned lock stays poisoned and the store is never written again.
THEOREM PoisonIsFinal == Spec => PoisonFreezes
<1> DEFINE Freeze == poisoned => /\ poisoned' /\ db' = db
                                 /\ \A c \in Clients : pc'[c] \in {"idle", "dead"}
<1>1. Inv /\ [Next]_vars => [Freeze]_vars
  <2> SUFFICES ASSUME Inv, [Next]_vars, poisoned
               PROVE  /\ poisoned' /\ db' = db
                      /\ \A c \in Clients : pc'[c] \in {"idle", "dead"}
    BY DEF Inv
  <2> USE DEF Inv, TypeOK
  <2>1. \A c \in Clients : pc[c] \in {"idle", "dead"}
    BY SentinelsAssumption DEF LockInv
  <2>2. ASSUME NEW c \in Clients, BeginPoisoned(c)
        PROVE  /\ poisoned' /\ db' = db
               /\ \A d \in Clients : pc'[d] \in {"idle", "dead"}
    BY <2>1, <2>2 DEF BeginPoisoned
  <2>3. CASE AllStopped \/ UNCHANGED vars
    BY <2>1, <2>3 DEF AllStopped, vars
  <2> QED
    BY <2>1, <2>2, <2>3 DEF Next, ClientNext, BeginRo, BeginRw, Update, Drop, Panic,
       CommitStart, CommitFail, CommitEnd, CommitStep
<1> QED
  BY <1>1, InvHolds, PTL DEF Spec, PoisonFreezes

-----------------------------------------------------------------------------
(* What a failing commit leaves.  While a client commits, whatever differs   *)
(* from the contents it began with comes before all that is yet to be       *)
(* copied.                                                                   *)

PrefixInv ==
  \A c \in Clients : pc[c] = "committing" =>
    \A m \in MapIds, k \in Keys : db[m][k] # base[c][m][k] =>
      \A q \in Pending(c) : Before(<<m, k>>, q)

\* One turn of the loops.
LEMMA PrefixStep ==
  ASSUME Inv, PrefixInv, NEW c \in Clients, NEW m \in MapIds, NEW k \in Keys,
         CommitStep(c, m, k)
  PROVE  PrefixInv'
<1> USE DEF Inv, TypeOK
<1>1. /\ pc[c] = "committing" /\ pc' = pc /\ base' = base
      /\ db' = [db EXCEPT ![m][k] = deltas[c][m][k]]
      /\ deltas' = [deltas EXCEPT ![c][m][k] = Absent]
      /\ IsNext(c, <<m, k>>)
  BY DEF CommitStep, InnerWrite
<1>2. \A d \in Clients : pc'[d] = "committing" => d = c
  BY <1>1, SentinelsAssumption DEF LockInv
<1>3. \A q \in Pending(c)' : q \in Pending(c) /\ q # <<m, k>>
  BY <1>1 DEF Pending, DeltaMaps
<1>4. ASSUME NEW i \in MapIds, NEW j \in Keys, db'[i][j] # base'[c][i][j],
             NEW q \in Pending(c)'
      PROVE  Before(<<i, j>>, q)
  <2>1. CASE i = m /\ j = k
    BY <1>1, <1>3, <2>1, <1>4 DEF IsNext
  <2>2. CASE i # m \/ j # k
    <3>1. db'[i][j] = db[i][j]
      BY <1>1, <2>2 DEF Contents
    <3> QED
      BY <1>1, <1>3, <1>4, <3>1 DEF PrefixInv
  <2> QED
    BY <2>1, <2>2
<1>5. Pending(c)' = {p \in MapIds \X Keys : deltas'[c][p[1]][p[2]] # Absent}
  BY DEF Pending
<1> QED
  BY <1>2, <1>4, <1>5 DEF PrefixInv, Pending

\* Any other step leaves a commit in progress alone.
LEMMA OthersKeepCommit ==
  ASSUME Inv, [Next]_vars,
         \A c \in Clients, m \in MapIds, k \in Keys : ~CommitStep(c, m, k),
         NEW d \in Clients, pc'[d] = "committing"
  PROVE  /\ db' = db /\ base'[d] = base[d] /\ deltas'[d] = deltas[d]
         /\ pc[d] \in {"rw", "committing"}
<1> USE DEF Inv, TypeOK
<1>1. ASSUME NEW c \in Clients, BeginRo(c) \/ BeginRw(c)
      PROVE  /\ db' = db /\ base'[d] = base[d] /\ deltas'[d] = deltas[d]
             /\ pc[d] = "committing"
  BY <1>1 DEF BeginRo, BeginRw, Enter
<1>2. ASSUME NEW c \in Clients, NEW s \in {"idle", "dead"}, Leave(c, s), db' = db
      PROVE  /\ db' = db /\ base'[d] = base[d] /\ deltas'[d] = deltas[d]
             /\ pc[d] = "committing"
  BY <1>2 DEF Leave
<1>3. ASSUME NEW c \in Clients, BeginPoisoned(c)
      PROVE  /\ db' = db /\ base'[d] = base[d] /\ deltas'[d] = deltas[d]
             /\ pc[d] = "committing"
  BY <1>3 DEF BeginPoisoned
<1>4. ASSUME NEW c \in Clients, NEW m \in MapIds, NEW k \in Keys, NEW v \in OptVals,
             Update(c, m, k, v)
      PROVE  /\ db' = db /\ base'[d] = base[d] /\ deltas'[d] = deltas[d]
             /\ pc[d] = "committing"
  BY <1>4 DEF Update
<1>5. ASSUME NEW c \in Clients, CommitStart(c)
      PROVE  /\ db' = db /\ base' = base /\ deltas'[d] = deltas[d]
             /\ pc[d] \in {"rw", "committing"}
  BY <1>5 DEF CommitStart
<1>6. CASE AllStopped \/ UNCHANGED vars
  BY <1>6 DEF AllStopped, vars
<1> QED
  BY <1>1, <1>2, <1>3, <1>4, <1>5, <1>6
  DEF Next, ClientNext, Drop, Panic, CommitFail, CommitEnd

LEMMA PrefixNext == Inv /\ PrefixInv /\ [Next]_vars => PrefixInv'
<1> SUFFICES ASSUME Inv, PrefixInv, [Next]_vars PROVE PrefixInv'
  OBVIOUS
<1>1. ASSUME NEW c \in Clients, NEW m \in MapIds, NEW k \in Keys, CommitStep(c, m, k)
      PROVE  PrefixInv'
  BY <1>1, PrefixStep
<1>2. CASE \A c \in Clients, m \in MapIds, k \in Keys : ~CommitStep(c, m, k)
  <2> SUFFICES ASSUME NEW d \in Clients, pc'[d] = "committing",
                      NEW m \in MapIds, NEW k \in Keys, db'[m][k] # base'[d][m][k],
                      NEW q \in MapIds \X Keys, deltas'[d][q[1]][q[2]] # Absent
               PROVE  Before(<<m, k>>, q)
    BY DEF PrefixInv, Pending
  <2>1. db' = db /\ base'[d] = base[d] /\ deltas'[d] = deltas[d]
        /\ pc[d] \in {"rw", "committing"}
    BY <1>2, OthersKeepCommit
  <2>2. pc[d] = "committing"
    BY <2>1 DEF Inv, SnapshotStable
  <2>3. q \in Pending(d)
    BY <2>1 DEF Pending
  <2> QED
    BY <2>1, <2>2, <2>3 DEF PrefixInv
<1> QED
  BY <1>1, <1>2

LEMMA PrefixHolds == Spec => []PrefixInv
<1>1. Init => PrefixInv
  BY DEF Init, PrefixInv
<1> QED
  BY <1>1, PrefixNext, InvHolds, PTL DEF Spec

\* A commit that fails part way, on an error of the wrapped store's put or del,
\* leaves exactly changes that come before the failing one in the order of the
\* loops of TxRw::commit.
THEOREM FailedCommitsArePrefixes == Spec => FailedCommitIsPrefix
<1> DEFINE Prefix ==
      \A c \in Clients : result[c] = "none" /\ result'[c] = "err" =>
        \A m \in MapIds, k \in Keys : db'[m][k] # base[c][m][k] =>
          \A q \in Pending(c) : Before(<<m, k>>, q)
<1>1. ASSUME Inv, PrefixInv, [Next]_vars PROVE [Prefix]_vars
  <2> USE <1>1 DEF Inv, TypeOK
  <2> SUFFICES ASSUME NEW c \in Clients, result[c] = "none", result'[c] = "err"
               PROVE  \A m \in MapIds, k \in Keys : db'[m][k] # base[c][m][k] =>
                        \A q \in Pending(c) : Before(<<m, k>>, q)
    OBVIOUS
  <2>1. CommitFail(c)
    <3>1. ASSUME NEW d \in Clients, CommitFail(d) PROVE d = c
      BY <3>1 DEF CommitFail
    <3>2. ASSUME NEW d \in Clients, BeginRo(d) \/ BeginRw(d) PROVE FALSE
      BY <3>2 DEF BeginRo, BeginRw, Enter
    <3>3. ASSUME NEW d \in Clients, CommitEnd(d) PROVE FALSE
      BY <3>3 DEF CommitEnd
    <3> QED
      BY <3>1, <3>2, <3>3 DEF Next, ClientNext, BeginPoisoned, Update, Drop, Panic,
           CommitStart, CommitStep, AllStopped, vars
  <2> QED
    BY <2>1 DEF CommitFail, PrefixInv
<1>2. Spec => [][Prefix]_vars
  BY <1>1, InvHolds, PrefixHolds, PTL DEF Spec
<1> QED
  BY <1>2, PTL DEF FailedCommitIsPrefix

-----------------------------------------------------------------------------
(* The adaptor implements KVStore when the wrapped store does not fail.  The *)
(* argument turns on one fact: copying a delta into the store and forgetting *)
(* it changes nothing that the transaction observes.                         *)

\* While someone commits, the abstract store is what the commit started from;
\* otherwise it is the wrapped store.
LEMMA AbsStoreCommitting ==
  ASSUME Inv, NEW c \in Clients, pc[c] = "committing"
  PROVE  AbsStore = base[c]
<1>1. \A d \in Clients : Committing(d) <=> d = c
  BY DEF Inv, LockInv, Committing
<1>2. (CHOOSE d \in Clients : Committing(d)) = c
  BY <1>1
<1> QED
  BY <1>1, <1>2 DEF AbsStore

LEMMA AbsStoreQuiet ==
  ASSUME \A c \in Clients : pc[c] # "committing"
  PROVE  AbsStore = db
BY DEF AbsStore, Committing

LEMMA InitImplements == Init => KV!Init
<1> SUFFICES ASSUME Init PROVE KV!Init
  OBVIOUS
<1>1. AbsStore = db
  BY AbsStoreQuiet DEF Init
<1>2. /\ EmptyContents = KV!EmptyContents
      /\ AbsMode = [c \in Clients |-> "idle"]
      /\ AbsView = [c \in Clients |-> EmptyContents]
  BY DEF Init, AbsMode, AbsView, EmptyContents, KV!EmptyContents
<1> QED
  BY <1>1, <1>2 DEF Init, KV!Init

\* A transaction ends here and ends there.
LEMMA LeaveImplements ==
  ASSUME Inv, NEW c \in Clients, NEW s \in {"idle", "dead"},
         pc[c] \in {"ro", "rw", "committing"}, Leave(c, s), db' = db
  PROVE  KV!Release(c)
<1> USE DEF Inv, TypeOK
<1>1. /\ pc' = [pc EXCEPT ![c] = s]
      /\ deltas' = [deltas EXCEPT ![c] = EmptyDeltas]
      /\ base' = [base EXCEPT ![c] = EmptyContents]
  BY DEF Leave
<1>2. AbsMode' = [AbsMode EXCEPT ![c] = "idle"]
  BY <1>1 DEF AbsMode
<1>3. \A d \in Clients \ {c} : deltas'[d] = deltas[d] /\ pc'[d] = pc[d]
  BY <1>1
<1>4. \A d \in Clients \ {c} : Observed(d)' = Observed(d)
  <2> SUFFICES ASSUME NEW d \in Clients \ {c} PROVE Observed(d)' = Observed(d)
    OBVIOUS
  <2>1. \A m \in MapIds, k \in Keys : Get(d, m, k)' = Get(d, m, k)
    BY <1>3 DEF Get
  <2> QED
    BY <1>3, <2>1 DEF Observed
<1>5. AbsView' = [AbsView EXCEPT ![c] = EmptyContents]
  BY <1>1, <1>3, <1>4 DEF AbsView
<1> QED
  BY <1>1, <1>2, <1>5 DEF KV!Release, KV!EmptyContents, EmptyContents

\* A transaction that ends without a successful commit.
LEMMA EndImplements ==
  ASSUME Inv, NEW c \in Clients, NEW s \in {"idle", "dead"},
         pc[c] \in {"ro", "rw"}, Leave(c, s), db' = db, result' = result
  PROVE  KV!End(c)
<1> USE DEF Inv, TypeOK
<1>1. \A d \in Clients : pc[d] # "committing" /\ pc'[d] # "committing"
  BY SentinelsAssumption DEF LockInv, Leave
<1>2. AbsStore' = AbsStore
  <2>1. AbsStore = db
    BY <1>1, AbsStoreQuiet
  <2>2. AbsStore' = db'
    BY <1>1 DEF AbsStore, Committing
  <2> QED
    BY <2>1, <2>2
<1>3. AbsMode[c] \in {"ro", "rw"}
  BY DEF AbsMode
<1> QED
  BY <1>2, <1>3, LeaveImplements DEF KV!End

\* The end of a commit: nothing is left to copy, so the store is what the
\* transaction observed.
LEMMA CommitEndImplements ==
  ASSUME Inv, NEW c \in Clients, CommitEnd(c)
  PROVE  KV!Commit(c)
<1> USE DEF Inv, TypeOK
<1>1. pc[c] = "committing" /\ Pending(c) = {} /\ Leave(c, "idle") /\ db' = db
  BY DEF CommitEnd
<1>2. \A m \in MapIds, k \in Keys : deltas[c][m][k] = Absent
  <2> SUFFICES ASSUME NEW m \in MapIds, NEW k \in Keys, deltas[c][m][k] # Absent
               PROVE  FALSE
    OBVIOUS
  <2>1. <<m, k>> \in Pending(c)
    BY DEF Pending
  <2> QED
    BY <1>1, <2>1
<1>3. Observed(c) = [m \in MapIds |-> [k \in Keys |-> db[m][k]]]
  BY <1>1, <1>2 DEF Observed, Get
<1>4. Observed(c) = db
  BY <1>3 DEF Contents
<1>5. \A d \in Clients : pc'[d] # "committing"
  BY <1>1, SentinelsAssumption DEF LockInv, Leave
<1>6. AbsStore' = db'
  BY <1>5 DEF AbsStore, Committing
<1>7. AbsView[c] = Observed(c) /\ AbsMode[c] = "committing"
  BY <1>1 DEF AbsView, AbsMode
<1>8. KV!Release(c)
  BY <1>1, LeaveImplements
<1>9. KV!Return(c, "ok")
  BY DEF CommitEnd, KV!Return
<1> QED
  BY <1>1, <1>4, <1>6, <1>7, <1>8, <1>9 DEF KV!Commit, KV!Writing

\* A turn of the commit's loops is invisible.
LEMMA CommitStepImplements ==
  ASSUME Inv, NEW c \in Clients, NEW m \in MapIds, NEW k \in Keys,
         CommitStep(c, m, k)
  PROVE  UNCHANGED KV!vars
<1> USE DEF Inv, TypeOK
<1>1. /\ pc[c] = "committing" /\ pc' = pc /\ base' = base
      /\ deltas[c][m][k] # Absent
      /\ db' = [db EXCEPT ![m][k] = deltas[c][m][k]]
      /\ deltas' = [deltas EXCEPT ![c][m][k] = Absent]
  BY DEF CommitStep, InnerWrite, IsNext, Pending
<1>2. AbsStore = base[c]
  BY <1>1, AbsStoreCommitting
<1>3. AbsStore' = AbsStore
  <2>1. \A d \in Clients : Committing(d)' <=> Committing(d)
    BY <1>1 DEF Committing
  <2>2. \A d \in Clients : Committing(d)' <=> d = c
    BY <1>1 DEF Committing, LockInv
  <2>3. (CHOOSE d \in Clients : Committing(d)') = c
    BY <2>2
  <2> QED
    BY <1>1, <1>2, <2>2, <2>3 DEF AbsStore
<1>4. \A i \in MapIds, j \in Keys : Get(c, i, j)' = Get(c, i, j)
  <2> SUFFICES ASSUME NEW i \in MapIds, NEW j \in Keys
               PROVE  Get(c, i, j)' = Get(c, i, j)
    OBVIOUS
  <2>1. CASE i = m /\ j = k
    <3>1. db'[m][k] = deltas[c][m][k] /\ deltas'[c][m][k] = Absent
      BY <1>1 DEF Contents, DeltaMaps
    <3> QED
      BY <1>1, <2>1, <3>1 DEF Get
  <2>2. CASE i # m \/ j # k
    <3>1. db'[i][j] = db[i][j] /\ deltas'[c][i][j] = deltas[c][i][j]
      BY <1>1, <2>2 DEF Contents, DeltaMaps
    <3> QED
      BY <3>1 DEF Get
  <2> QED
    BY <2>1, <2>2
<1>5. Observed(c)' = Observed(c)
  BY <1>1, <1>4 DEF Observed
<1>6. \A d \in Clients : d # c => pc[d] \in {"idle", "dead"}
  BY <1>1, SentinelsAssumption DEF LockInv
<1>7. AbsView' = AbsView
  BY <1>1, <1>5, <1>6 DEF AbsView
<1>8. AbsMode' = AbsMode /\ result' = result
  BY <1>1 DEF AbsMode, CommitStep
<1> QED
  BY <1>1, <1>3, <1>7, <1>8 DEF KV!vars

LEMMA BeginImplements ==
  ASSUME Inv, NEW c \in Clients, BeginRo(c) \/ BeginRw(c)
  PROVE  \E kind \in {"ro", "rw"} : KV!Begin(c, kind)
<1> USE DEF Inv, TypeOK
<1>1. PICK kind \in {"ro", "rw"} :
         /\ kind = "ro" => BeginRo(c)
         /\ kind = "rw" => BeginRw(c)
  OBVIOUS
<1>2. /\ pc[c] = "idle" /\ pc' = [pc EXCEPT ![c] = kind]
      /\ base' = [base EXCEPT ![c] = db] /\ db' = db
      /\ writer = NoClient
      /\ kind = "rw" => readers = {} /\ deltas' = [deltas EXCEPT ![c] = EmptyDeltas]
      /\ kind = "ro" => deltas' = deltas
  BY <1>1 DEF BeginRo, BeginRw, Idle, Enter
<1>3. \A d \in Clients : pc[d] \notin {"rw", "committing"}
  BY <1>2, SentinelsAssumption DEF LockInv
<1>4. AbsStore = db
  BY <1>3, AbsStoreQuiet
<1>5. AbsStore' = db'
  BY <1>2, <1>3 DEF AbsStore, Committing
<1>6. AbsMode' = [AbsMode EXCEPT ![c] = kind]
  BY <1>2 DEF AbsMode
<1>7. Observed(c)' = db
  <2>1. CASE kind = "ro"
    BY <1>2, <2>1 DEF Observed
  <2>2. CASE kind = "rw"
    <3>1. Observed(c)' = [m \in MapIds |-> [k \in Keys |-> db[m][k]]]
      BY <1>2, <2>2 DEF Observed, Get, EmptyDeltas, MapIds
    <3> QED
      BY <3>1 DEF Contents
  <2> QED
    BY <2>1, <2>2
<1>8. \A d \in Clients \ {c} : Observed(d)' = Observed(d) /\ pc'[d] = pc[d]
  BY <1>2, <1>3 DEF Observed
<1>9. AbsView' = [AbsView EXCEPT ![c] = db]
  BY <1>2, <1>7, <1>8 DEF AbsView
<1>10. /\ AbsMode[c] = "idle"
       /\ \A d \in Clients : AbsMode[d] \notin {"rw", "committing"}
  BY <1>2, <1>3 DEF AbsMode
<1>11. KV!Return(c, "none")
  BY <1>1 DEF BeginRo, BeginRw, Enter, KV!Return
<1> QED
  BY <1>2, <1>4, <1>5, <1>6, <1>9, <1>10, <1>11 DEF KV!Begin, KV!Writing

LEMMA UpdateImplements ==
  ASSUME Inv, NEW c \in Clients, NEW m \in MapIds, NEW k \in Keys,
         NEW v \in OptVals, Update(c, m, k, v)
  PROVE  KV!Write(c, m, k, v)
<1> USE DEF Inv, TypeOK
<1>1. /\ pc[c] = "rw" /\ pc' = pc /\ db' = db /\ base' = base
      /\ deltas' = [deltas EXCEPT ![c][m][k] = v]
      /\ v # Absent
  BY SentinelsAssumption DEF Update, OptVals
<1>2. AbsMode[c] = "rw" /\ AbsMode' = AbsMode /\ result' = result
  BY <1>1 DEF AbsMode, Update
<1>3. AbsStore' = AbsStore
  BY <1>1 DEF AbsStore, Committing
<1>4. \A i \in MapIds, j \in Keys :
         Get(c, i, j)' = IF i = m /\ j = k THEN v ELSE Get(c, i, j)
  BY <1>1 DEF Get, DeltaMaps
<1>5. AbsView[c] = [i \in MapIds |-> [j \in Keys |-> Get(c, i, j)]]
  BY <1>1 DEF AbsView, Observed
<1>6. AbsView'[c] = [i \in MapIds |-> [j \in Keys |-> Get(c, i, j)']]
  BY <1>1 DEF AbsView, Observed
<1>7. AbsView'[c] = [AbsView[c] EXCEPT ![m][k] = v]
  <2> DEFINE g(i, j) == Get(c, i, j)
             w == [i \in MapIds |-> [j \in Keys |-> IF i = m /\ j = k THEN v ELSE g(i, j)]]
  <2>1. AbsView'[c] = w
    BY <1>4, <1>6
  <2>2. AbsView[c] = [i \in MapIds |-> [j \in Keys |-> g(i, j)]]
    BY <1>5
  <2> HIDE DEF g
  <2>3. [[i \in MapIds |-> [j \in Keys |-> g(i, j)]] EXCEPT ![m][k] = v] = w
    OBVIOUS
  <2> HIDE DEF w
  <2> QED
    BY <2>1, <2>2, <2>3, Zenon
<1>8. \A d \in Clients \ {c} : Observed(d)' = Observed(d)
  BY <1>1 DEF Observed, Get
<1>9. \A d \in Clients \ {c} : AbsView'[d] = AbsView[d]
  BY <1>1, <1>8 DEF AbsView
<1>10. AbsView' = [AbsView EXCEPT ![c][m][k] = v]
  BY <1>7, <1>9 DEF AbsView
<1> QED
  BY <1>1, <1>2, <1>3, <1>10 DEF KV!Write

\* A step that only moves a client on, to its commit or to its end.
LEMMA MoveChangesNothing ==
  ASSUME Inv, pc' = pc \/ (\E c \in Clients : CommitStart(c) \/ BeginPoisoned(c)),
         UNCHANGED <<db, deltas, base>>
  PROVE  AbsStore' = AbsStore /\ AbsView' = AbsView
<1> USE DEF Inv, TypeOK
<1>1. \A d \in Clients : \/ pc'[d] = pc[d]
                         \/ pc[d] = "rw" /\ pc'[d] = "committing"
                         \/ pc[d] = "idle" /\ pc'[d] = "dead"
  BY DEF CommitStart, BeginPoisoned, Idle
<1>3. \A d \in Clients : Observed(d)' = Observed(d)
  BY <1>1 DEF Observed, Get
<1>4. AbsView' = AbsView
  BY <1>1, <1>3 DEF AbsView
<1>5. AbsStore' = AbsStore
  <2>1. CASE pc' = pc
    BY <2>1 DEF AbsStore, Committing
  <2>2. ASSUME NEW c \in Clients, BeginPoisoned(c) PROVE AbsStore' = AbsStore
    <3>1. \A d \in Clients : pc[d] # "committing" /\ pc'[d] # "committing"
      BY <2>2, SentinelsAssumption DEF BeginPoisoned, LockInv
    <3> QED
      BY <3>1 DEF AbsStore, Committing
  <2>3. ASSUME NEW c \in Clients, CommitStart(c) PROVE AbsStore' = AbsStore
    <3>1. /\ pc[c] = "rw" /\ pc' = [pc EXCEPT ![c] = "committing"]
          /\ \A d \in Clients : pc[d] # "committing"
      BY <2>3 DEF CommitStart, LockInv
    <3>2. \A d \in Clients : Committing(d)' <=> d = c
      BY <3>1 DEF Committing
    <3>3. (CHOOSE d \in Clients : Committing(d)') = c
      BY <3>2
    <3>4. AbsStore' = base[c]
      BY <3>2, <3>3 DEF AbsStore
    <3>5. AbsStore = db /\ base[c] = db
      BY <3>1, AbsStoreQuiet DEF SnapshotStable
    <3> QED
      BY <3>4, <3>5
  <2> QED
    BY <2>1, <2>2, <2>3
<1> QED
  BY <1>4, <1>5

LEMMA StutterImplements ==
  ASSUME Inv, pc' = pc \/ (\E c \in Clients : BeginPoisoned(c)),
         UNCHANGED <<db, deltas, base, result>>
  PROVE  UNCHANGED KV!vars
<1> USE DEF Inv, TypeOK
<1>1. \A d \in Clients : \/ pc'[d] = pc[d]
                         \/ pc[d] = "idle" /\ pc'[d] = "dead"
  BY DEF BeginPoisoned, Idle
<1>2. AbsMode' = AbsMode
  BY <1>1 DEF AbsMode
<1> QED
  BY <1>2, MoveChangesNothing DEF KV!vars

LEMMA CommitStartImplements ==
  ASSUME Inv, NEW c \in Clients, CommitStart(c)
  PROVE  KV!CommitCall(c)
<1> USE DEF Inv, TypeOK
<1>1. /\ pc[c] = "rw" /\ pc' = [pc EXCEPT ![c] = "committing"]
      /\ UNCHANGED <<db, deltas, base, result>>
  BY DEF CommitStart
<1>2. AbsMode[c] = "rw" /\ AbsMode' = [AbsMode EXCEPT ![c] = "committing"]
  BY <1>1 DEF AbsMode
<1> QED
  BY <1>1, <1>2, MoveChangesNothing DEF KV!CommitCall

LEMMA NextImplements ==
  ASSUME ~InnerMayFail, Inv, [Next]_vars
  PROVE  [KV!Next]_(KV!vars)
<1>1. ASSUME NEW c \in Clients, BeginRo(c) \/ BeginRw(c) PROVE KV!Next
  BY <1>1, BeginImplements DEF KV!Next
<1>2. ASSUME NEW c \in Clients, NEW m \in MapIds, NEW k \in Keys,
             NEW v \in OptVals, Update(c, m, k, v)
      PROVE  KV!Next
  BY <1>2, UpdateImplements DEF KV!Next, KV!OptVals, OptVals
<1>3. ASSUME NEW c \in Clients, Drop(c) \/ Panic(c) PROVE KV!Next
  <2>1. PICK s \in {"idle", "dead"} :
          Leave(c, s) /\ db' = db /\ pc[c] \in {"ro", "rw"} /\ result' = result
    BY <1>3 DEF Drop, Panic
  <2> QED
    BY <2>1, EndImplements DEF KV!Next
<1>4. ASSUME NEW c \in Clients, CommitEnd(c) PROVE KV!Next
  BY <1>4, CommitEndImplements DEF KV!Next
<1>5. ASSUME NEW c \in Clients, NEW m \in MapIds, NEW k \in Keys,
             CommitStep(c, m, k)
      PROVE  UNCHANGED KV!vars
  BY <1>5, CommitStepImplements
<1>6. ASSUME NEW c \in Clients, BeginPoisoned(c)
      PROVE  UNCHANGED KV!vars
  BY <1>6, StutterImplements DEF BeginPoisoned
<1>9. ASSUME NEW c \in Clients, CommitStart(c) PROVE KV!Next
  BY <1>9, CommitStartImplements DEF KV!Next
<1>7. CASE AllStopped \/ UNCHANGED vars
  BY <1>7, StutterImplements DEF AllStopped, vars
<1>8. ASSUME NEW c \in Clients, CommitFail(c) PROVE FALSE
  BY <1>8 DEF CommitFail
<1> QED
  BY <1>1, <1>2, <1>3, <1>4, <1>5, <1>6, <1>7, <1>8, <1>9 DEF Next, ClientNext

\* The locking adaptor over a store whose put and del never fail, such as the
\* in-memory one, implements the transactional store of KVStore.
THEOREM LockingImplementsKV == ~InnerMayFail => (Spec => KVSpec)
<1> SUFFICES ASSUME ~InnerMayFail PROVE Spec => KVSpec
  OBVIOUS
<1>1. Inv /\ [Next]_vars => [KV!Next]_(KV!vars)
  BY NextImplements
<1> QED
  BY <1>1, InitImplements, InvHolds, PTL DEF Spec, KVSpec, KV!Spec

=============================================================================
