---------------------------- MODULE StorageProofs ----------------------------
(***************************************************************************)
(* Proofs for any number of threads, maps, keys and values.  First what    *)
(* KVStore promises, the isolation of the open transactions and the serial *)
(* order of commits; a backend shown to implement KVStore inherits both.   *)
(* Then the copy of a whole database over any backend that keeps these     *)
(* promises, whose invariant the proofs take over.                         *)
(***************************************************************************)
EXTENDS Storage, TLAPS

-----------------------------------------------------------------------------
(* The promises of a backend *)

LEMMA EmptyIsContents == EmptyContents \in Contents
  BY DEF EmptyContents, Contents, OptVals

LEMMA WrittenIsContents ==
  ASSUME NEW contents \in Contents, NEW m \in MapIds, NEW k \in Keys,
         NEW v \in OptVals
  PROVE  [contents EXCEPT ![m][k] = v] \in Contents
  BY DEF Contents

\* Each step keeps the state well typed.
LEMMA TypeStep ==
  ASSUME TypeOK, [Next]_vars
  PROVE  TypeOK'
<1> USE DEF TypeOK
<1>1. CASE UNCHANGED vars
  BY <1>1 DEF vars
<1>2. ASSUME NEW c \in Clients, NEW kind \in {"ro", "rw"}, Begin(c, kind)
      PROVE  TypeOK'
  BY <1>2 DEF Begin, Return, Modes, Results
<1>3. ASSUME NEW c \in Clients, NEW m \in MapIds, NEW k \in Keys, NEW v \in OptVals,
             Write(c, m, k, v)
      PROVE  TypeOK'
  <2>1. [view[c] EXCEPT ![m][k] = v] \in Contents
    BY WrittenIsContents
  <2>2. view' = [view EXCEPT ![c] = [view[c] EXCEPT ![m][k] = v]]
    BY <1>3 DEF Write
  <2> QED
    BY <1>3, <2>1, <2>2 DEF Write
<1>4. ASSUME NEW c \in Clients, Commit(c) \/ CommitErr(c)
      PROVE  TypeOK'
  BY <1>4, EmptyIsContents DEF Commit, CommitErr, Release, Return, Modes, Results
<1>5. ASSUME NEW c \in Clients, End(c)
      PROVE  TypeOK'
  BY <1>5, EmptyIsContents DEF End, Release, Modes
<1>7. ASSUME NEW c \in Clients, BeginErr(c) \/ CommitCall(c)
      PROVE  TypeOK'
  BY <1>7 DEF BeginErr, CommitCall, Return, Modes, Results
<1>6. CASE Restart
  BY <1>6, EmptyIsContents DEF Restart, Modes, Results
<1> QED
  BY <1>1, <1>2, <1>3, <1>4, <1>5, <1>6, <1>7 DEF Next

\* Type correctness of the abstract store.
THEOREM TypeCorrect == Spec => []TypeOK
<1>1. Init => TypeOK
  BY EmptyIsContents DEF Init, TypeOK, Modes, Results
<1>2. TypeOK /\ [Next]_vars => TypeOK'
  BY TypeStep
<1> QED
  BY <1>1, <1>2, PTL DEF Spec

-----------------------------------------------------------------------------
(* Isolation is inductive only with the writer being alone: otherwise one   *)
(* writer's commit would leave another's base behind.                       *)

OneWriter == \A c, d \in Clients : Writing(c) /\ Writing(d) => c = d

KVInv == OneWriter /\ Isolation

LEMMA InvStep ==
  ASSUME TypeOK, KVInv, [Next]_vars
  PROVE  KVInv'
<1> USE DEF TypeOK, KVInv, OneWriter, Isolation, Writing
<1>1. CASE UNCHANGED vars
  BY <1>1 DEF vars
<1>2. ASSUME NEW c \in Clients, NEW kind \in {"ro", "rw"}, Begin(c, kind)
      PROVE  KVInv'
  <2>1. OneWriter'
    BY <1>2 DEF Begin, Modes
  <2>2. Isolation'
    BY <1>2 DEF Begin, Modes
  <2> QED
    BY <2>1, <2>2
<1>3. ASSUME NEW c \in Clients, NEW m \in MapIds, NEW k \in Keys, NEW v \in OptVals,
             Write(c, m, k, v)
      PROVE  KVInv'
  <2>1. \A d \in Clients : d # c => view'[d] = view[d]
    BY <1>3 DEF Write
  <2> QED
    BY <1>3, <2>1 DEF Write
<1>4. ASSUME NEW c \in Clients, Commit(c) \/ CommitErr(c)
      PROVE  KVInv'
  <2>1. \A d \in Clients : mode'[d] = IF d = c THEN "idle" ELSE mode[d]
    BY <1>4 DEF Commit, CommitErr, Release
  <2>2. \A d \in Clients : ~Writing(d)'
    BY <1>4, <2>1 DEF Commit, CommitErr
  <2>3. \A d \in Clients : mode'[d] = "ro" => view'[d] = view[d] /\ base'[d] = base[d]
    BY <1>4, <2>1 DEF Commit, CommitErr, Release
  <2> QED
    BY <2>1, <2>2, <2>3
<1>5. ASSUME NEW c \in Clients, End(c)
      PROVE  KVInv'
  <2>1. \A d \in Clients : mode'[d] = IF d = c THEN "idle" ELSE mode[d]
    BY <1>5 DEF End, Release
  <2>2. \A d \in Clients : d # c => view'[d] = view[d] /\ base'[d] = base[d]
    BY <1>5 DEF End, Release
  <2> QED
    BY <1>5, <2>1, <2>2 DEF End
<1>6. CASE Restart
  BY <1>6 DEF Restart
<1>7. ASSUME NEW c \in Clients, BeginErr(c)
      PROVE  KVInv'
  BY <1>7 DEF BeginErr
<1>8. ASSUME NEW c \in Clients, CommitCall(c)
      PROVE  KVInv'
  <2>1. \A d \in Clients : mode'[d] = IF d = c THEN "committing" ELSE mode[d]
    BY <1>8 DEF CommitCall
  <2>2. view' = view /\ base' = base /\ store' = store /\ mode[c] = "rw"
    BY <1>8 DEF CommitCall
  <2> QED
    BY <2>1, <2>2
<1> QED
  BY <1>1, <1>2, <1>3, <1>4, <1>5, <1>6, <1>7, <1>8 DEF Next

LEMMA Invariant == Spec => [](TypeOK /\ KVInv)
<1>1. Init => TypeOK /\ KVInv
  BY EmptyIsContents
  DEF Init, TypeOK, Modes, Results, KVInv, OneWriter, Isolation, Writing
<1>2. TypeOK /\ KVInv /\ [Next]_vars => (TypeOK /\ KVInv)'
  BY TypeStep, InvStep
<1> QED
  BY <1>1, <1>2, PTL DEF Spec

\* Readers keep their snapshot and a writer is based on the newest contents.
THEOREM TransactionsAreIsolated == Spec => []Isolation
<1>1. TypeOK /\ KVInv => Isolation
  BY DEF KVInv
<1> QED
  BY <1>1, Invariant, PTL

\* The committed contents change by commits alone, one after the other.
THEOREM CommitsAreSerial == Spec => CommitsSerially
<1> DEFINE Serial ==
      store' # store =>
        \E c \in Clients :
          /\ Writing(c) /\ mode'[c] = "idle" /\ result'[c] = "ok"
          /\ store = base[c]
          /\ store' = view[c]
<1>1. ASSUME TypeOK, KVInv, [Next]_vars
      PROVE  [Serial]_vars
  <2> SUFFICES ASSUME store' # store
               PROVE  Serial
    OBVIOUS
  <2>1. PICK c \in Clients : Commit(c)
    BY <1>1 DEF Next, vars, Begin, BeginErr, Write, CommitCall, CommitErr, End, Restart
  <2>2. mode'[c] = "idle" /\ result'[c] = "ok"
    BY <1>1, <2>1 DEF TypeOK, Commit, Release, Return
  <2>3. Writing(c) /\ store = base[c] /\ store' = view[c]
    BY <1>1, <2>1 DEF KVInv, Isolation, Commit
  <2> QED
    BY <2>2, <2>3
<1>2. Spec => [][Serial]_vars
  BY <1>1, Invariant, PTL DEF Spec
<1> QED
  BY <1>2 DEF CommitsSerially

-----------------------------------------------------------------------------
(* The copy of a database *)

\* The database layer takes no step in the backend that KVStore does not allow.
LEMMA StepIsKVStep == [StorageNext]_allVars => [Next]_vars
<1> SUFFICES ASSUME [StorageNext]_allVars PROVE [Next]_vars
  OBVIOUS
<1>1. ASSUME NEW c \in Clients, TxBegin(c) PROVE Next
  BY <1>1 DEF TxBegin, Next
<1>2. ASSUME NEW c \in Clients, TxWrite(c) PROVE Next
  BY <1>2 DEF TxWrite, Next
<1>3. ASSUME NEW c \in Clients, TxCommit(c) PROVE Next
  BY <1>3 DEF TxCommit, Next
<1>4. ASSUME NEW c \in Clients, TxEnd(c) PROVE Next
  BY <1>4 DEF TxEnd, Next
<1>5. ASSUME NEW c \in Clients, DumpStep(c) \/ DumpDone(c) \/ DumpErr(c)
      PROVE  UNCHANGED vars
  BY <1>5 DEF DumpStep, DumpDone, DumpErr, DumpReturn
<1>6. CASE LoadBegin \/ LoadPut \/ LoadCommit \/ LoadErr
  BY <1>6 DEF LoadBegin, LoadPut, LoadCommit, LoadErr
<1>7. CASE StorageRestart
  BY <1>7 DEF StorageRestart, Next
<1>8. CASE UNCHANGED allVars
  BY <1>8 DEF allVars
<1> QED
  BY <1>1, <1>2, <1>3, <1>4, <1>5, <1>6, <1>7, <1>8 DEF StorageNext

\* So whatever is promised of a backend's transactions holds of the typed layer's,
\* dumps and loads included.
THEOREM StorageKeepsPromises == StorageSpec => Spec
<1>1. StorageInit => Init
  BY DEF StorageInit
<1> QED
  BY <1>1, StepIsKVStep, PTL DEF StorageSpec, Spec

-----------------------------------------------------------------------------
(* The dump.  What dump_raw has read is what its transaction shows, and     *)
(* that is one of the contents the database had.                            *)

DumpInv ==
  /\ EmptyContents \in history /\ store \in history
  /\ \A c \in Clients :
       /\ mode[c] = "ro" => view[c] \in history
       /\ Dumping(c) => mode[c] = "ro"
       /\ \A m \in MapIds : m < next[c] => dump[c][m] = view[c][m]
  /\ DumpIsCommittedState

(* The load.  What new_from_dump would commit is the dump laid over the     *)
(* target, but for the entries it has yet to put.                           *)

Overlay(over, under) ==
  [m \in MapIds |-> [k \in Keys |->
     IF over[m][k] # None THEN over[m][k] ELSE under[m][k]]]

LoadInv ==
  /\ Loading =>
       /\ loading \in history
       /\ todo \subseteq Entries(loading)
       /\ pending = [m \in MapIds |-> [k \in Keys |->
            IF <<m, k>> \in todo THEN target[m][k] ELSE Overlay(loading, target)[m][k]]]
  /\ loads = 0 => ~Loading
  /\ loads = 0 \/ (loads = 1 /\ Loading) => target = EmptyContents
  /\ CopyIsCommittedState

StorageInv == TypeOK /\ KVInv /\ StorageTypeOK /\ DumpInv /\ LoadInv

-----------------------------------------------------------------------------
(* Types *)

LEMMA StorageInitInv == StorageInit => StorageInv
<1> SUFFICES ASSUME StorageInit PROVE StorageInv
  OBVIOUS
<1> USE DEF StorageInit
<1>1. TypeOK /\ KVInv
  BY EmptyIsContents
  DEF Init, TypeOK, Modes, Results, KVInv, OneWriter, Isolation, Writing
<1>2. StorageTypeOK
  BY <1>1, EmptyIsContents, MapIdsAssumption, LoadsAssumption DEF StorageTypeOK
<1>3. DumpInv
  BY MapIdsAssumption DEF Init, DumpInv, Dumping, DumpIsCommittedState
<1>4. LoadInv
  BY DEF LoadInv, Loading, CopyIsCommittedState
<1> QED
  BY <1>1, <1>2, <1>3, <1>4 DEF StorageInv

\* Laying contents over contents gives contents.
LEMMA OverlayIsContents ==
  ASSUME NEW over \in Contents, NEW under \in Contents
  PROVE  Overlay(over, under) \in Contents
BY DEF Overlay, Contents

LEMMA StorageTypeStep ==
  ASSUME StorageInv, [StorageNext]_allVars
  PROVE  StorageTypeOK'
<1>1. TypeOK'
  BY StepIsKVStep, TypeStep DEF StorageInv
<1> USE DEF StorageInv, StorageTypeOK
<1>2. ASSUME NEW c \in Clients, TxBegin(c) \/ TxWrite(c) \/ TxEnd(c)
      PROVE  StorageTypeOK'
  BY <1>1, <1>2 DEF TxBegin, TxWrite, TxEnd, dumpVars, loadVars
<1>3. ASSUME NEW c \in Clients, TxCommit(c) PROVE StorageTypeOK'
  <2>1. store' \in Contents
    BY <1>1 DEF TypeOK
  <2> QED
    BY <1>1, <1>3, <2>1 DEF TxCommit, dumpVars, loadVars
<1>4. ASSUME NEW c \in Clients, DumpStep(c) PROVE StorageTypeOK'
  <2>1. next' \in [Clients -> 0 .. NumMaps - 1]
    BY <1>4, MapIdsAssumption DEF DumpStep
  <2>2. /\ dump[c] \in [MapIds -> [Keys -> OptVals]]
        /\ ReadMap(c, next[c]) \in [Keys -> OptVals]
    BY <1>4, MapIdsAssumption DEF DumpStep, ReadMap, Contents, TypeOK
  <2>3. [dump[c] EXCEPT ![next[c]] = ReadMap(c, next[c])] \in Contents
    BY <2>2 DEF Contents
  <2>4. dump' = [dump EXCEPT ![c] = [dump[c] EXCEPT ![next[c]] = ReadMap(c, next[c])]]
    BY <1>4 DEF DumpStep
  <2>5. dump' \in [Clients -> Contents]
    BY <2>3, <2>4
  <2> QED
    BY <1>1, <1>4, <2>1, <2>5 DEF DumpStep, loadVars
<1>5. ASSUME NEW c \in Clients, DumpReturn(c) PROVE (next' \in [Clients -> 0 .. NumMaps - 1] /\ dump' \in [Clients -> Contents])
  BY <1>5, MapIdsAssumption, EmptyIsContents DEF DumpReturn
<1>6. ASSUME NEW c \in Clients, DumpDone(c) PROVE StorageTypeOK'
  <2>1. /\ dump[c] \in [MapIds -> [Keys -> OptVals]]
        /\ ReadMap(c, next[c]) \in [Keys -> OptVals]
    BY <1>6, MapIdsAssumption DEF DumpDone, ReadMap, Contents, TypeOK
  <2>2. saved' \in Contents
    BY <1>6, <2>1 DEF DumpDone, Contents
  <2> QED
    BY <1>1, <1>5, <1>6, <2>2 DEF DumpDone, DumpReturn, loadVars
<1>7. ASSUME NEW c \in Clients, DumpErr(c) PROVE StorageTypeOK'
  BY <1>1, <1>5, <1>7 DEF DumpErr, DumpReturn, loadVars
<1>8. CASE LoadBegin
  BY <1>1, <1>8, LoadsAssumption DEF LoadBegin, Entries, dumpVars
<1>9. CASE LoadPut
  <2>1. PICK e \in todo : /\ pending' = [pending EXCEPT ![e[1]][e[2]] = loading[e[1]][e[2]]]
                          /\ todo' = todo \ {e}
    BY <1>9 DEF LoadPut
  <2>2. e[1] \in MapIds /\ e[2] \in Keys /\ loading \in Contents
    BY <1>9 DEF LoadPut, Loading
  <2>3. loading[e[1]][e[2]] \in OptVals
    BY <2>2 DEF Contents
  <2>4. pending' \in Contents
    BY <2>1, <2>2, <2>3, WrittenIsContents
  <2> QED
    BY <1>1, <1>9, <2>1, <2>4 DEF LoadPut, dumpVars
<1>10. CASE LoadCommit \/ LoadErr
  BY <1>1, <1>10, EmptyIsContents DEF LoadCommit, LoadErr, LoadReturn, dumpVars
<1>11. CASE StorageRestart
  BY <1>1, <1>11, EmptyIsContents, MapIdsAssumption DEF StorageRestart, loadVars
<1>12. CASE UNCHANGED allVars
  BY <1>1, <1>12 DEF allVars, dumpVars, loadVars
<1> QED
  BY <1>2, <1>3, <1>4, <1>6, <1>7, <1>8, <1>9, <1>10, <1>11, <1>12 DEF StorageNext

-----------------------------------------------------------------------------
(* A dump is one moment *)

\* A step of one transaction leaves those of the others, and their dumps, alone.
LEMMA DumpInvUnderTx ==
  ASSUME StorageInv, NEW c \in Clients, ~Dumping(c), UNCHANGED dumpVars,
         history \subseteq history', store' \in history',
         mode'[c] = "ro" => view'[c] \in history',
         \A d \in Clients : d # c => mode'[d] = mode[d] /\ view'[d] = view[d]
  PROVE  DumpInv'
<1>1. UNCHANGED <<next, dump, saved>>
  BY DEF dumpVars
<1>2. \A m \in MapIds : ~(m < next[c])
  BY MapIdsAssumption DEF Dumping, StorageInv, StorageTypeOK
<1>3. \A d \in Clients :
        /\ mode'[d] = "ro" => view'[d] \in history'
        /\ Dumping(d)' => mode'[d] = "ro"
        /\ \A m \in MapIds : m < next'[d] => dump'[d][m] = view'[d][m]
  <2> TAKE d \in Clients
  <2>1. CASE d = c
    BY <2>1, <1>1, <1>2 DEF Dumping
  <2>2. CASE d # c
    BY <2>2, <1>1 DEF Dumping, StorageInv, DumpInv
  <2> QED
    BY <2>1, <2>2
<1>4. DumpIsCommittedState'
  BY <1>1 DEF DumpIsCommittedState, StorageInv, DumpInv
<1> QED
  BY <1>3, <1>4 DEF StorageInv, DumpInv

\* A step of one thread's dump_raw that leaves no dump behind it.
LEMMA DumpInvUnderReturn ==
  ASSUME StorageInv, NEW c \in Clients, DumpReturn(c), DumpIsCommittedState'
  PROVE  DumpInv'
<1>1. UNCHANGED <<store, mode, view, history>>
  BY DEF DumpReturn, vars
<1>2. next'[c] = 0 /\ \A d \in Clients : d # c => next'[d] = next[d] /\ dump'[d] = dump[d]
  BY DEF DumpReturn, StorageInv, StorageTypeOK
<1>3. \A m \in MapIds : ~(m < 0)
  BY MapIdsAssumption
<1> QED
  BY <1>1, <1>2, <1>3 DEF StorageInv, DumpInv, Dumping

\* The dump that is returned is what the transaction of dump_raw shows.
LEMMA DumpIsView ==
  ASSUME StorageInv, NEW c \in Clients, DumpDone(c)
  PROVE  saved' = view[c]
<1>1. dump[c] \in [MapIds -> [Keys -> OptVals]] /\ view[c] \in [MapIds -> [Keys -> OptVals]]
  BY DEF StorageInv, StorageTypeOK, TypeOK, Contents
<1>2. saved' = [dump[c] EXCEPT ![NumMaps - 1] = view[c][NumMaps - 1]]
  BY DEF DumpDone, ReadMap
<1>3. \A m \in MapIds : m # NumMaps - 1 => dump[c][m] = view[c][m]
  BY MapIdsAssumption DEF DumpDone, StorageInv, DumpInv
<1> QED
  BY <1>1, <1>2, <1>3

LEMMA DumpInvStep ==
  ASSUME StorageInv, [StorageNext]_allVars
  PROVE  DumpInv'
<1> USE DEF StorageInv, TypeOK
<1>1. ASSUME NEW c \in Clients, TxBegin(c) PROVE DumpInv'
  <2>1. mode[c] = "idle" /\ store' = store /\ history' = history /\ UNCHANGED dumpVars
    BY <1>1 DEF TxBegin, Begin, BeginErr
  <2>2. ~Dumping(c) /\ store \in history
    BY <2>1 DEF DumpInv
  <2>3. /\ mode'[c] = "ro" => view'[c] = store
        /\ \A d \in Clients : d # c => mode'[d] = mode[d] /\ view'[d] = view[d]
    BY <1>1, <2>1 DEF TxBegin, Begin, BeginErr
  <2> QED
    BY <2>1, <2>2, <2>3, DumpInvUnderTx
<1>2. ASSUME NEW c \in Clients, TxWrite(c) PROVE DumpInv'
  <2>1. PICK m \in MapIds, k \in Keys, v \in OptVals : Write(c, m, k, v)
    BY <1>2 DEF TxWrite
  <2>2. mode[c] = "rw" /\ store' = store /\ history' = history /\ UNCHANGED dumpVars
    BY <1>2, <2>1 DEF TxWrite, Write
  <2>3. ~Dumping(c) /\ store \in history
    BY <2>2 DEF DumpInv
  <2>4. /\ mode'[c] # "ro"
        /\ \A d \in Clients : d # c => mode'[d] = mode[d] /\ view'[d] = view[d]
    BY <2>1 DEF Write
  <2> QED
    BY <2>2, <2>3, <2>4, DumpInvUnderTx
<1>3. ASSUME NEW c \in Clients, TxCommit(c) PROVE DumpInv'
  <2>1. /\ mode[c] \in {"rw", "committing"} /\ history' = history \cup {store'}
        /\ UNCHANGED dumpVars
    BY <1>3 DEF TxCommit, Commit, Writing
  <2>2. ~Dumping(c)
    BY <2>1 DEF DumpInv
  <2>3. /\ mode'[c] # "ro"
        /\ \A d \in Clients : d # c => mode'[d] = mode[d] /\ view'[d] = view[d]
    BY <1>3 DEF TxCommit, Commit, Release
  <2> QED
    BY <2>1, <2>2, <2>3, DumpInvUnderTx
<1>4. ASSUME NEW c \in Clients, TxEnd(c) PROVE DumpInv'
  <2>1. ~Dumping(c) /\ store' = store /\ history' = history /\ UNCHANGED dumpVars
    BY <1>4 DEF TxEnd, End, CommitCall, CommitErr
  <2>2. /\ mode'[c] # "ro"
        /\ \A d \in Clients : d # c => mode'[d] = mode[d] /\ view'[d] = view[d]
    BY <1>4 DEF TxEnd, End, CommitCall, CommitErr, Release
  <2>3. store \in history
    BY DEF DumpInv
  <2> QED
    BY <2>1, <2>2, <2>3, DumpInvUnderTx
<1>5. ASSUME NEW c \in Clients, DumpStep(c) PROVE DumpInv'
  <2>1. /\ UNCHANGED <<store, mode, view, saved, history>> /\ mode[c] = "ro"
        /\ next[c] < NumMaps - 1
    BY <1>5 DEF DumpStep, vars
  <2>2. /\ next[c] \in MapIds
        /\ next' = [next EXCEPT ![c] = next[c] + 1]
        /\ dump' = [dump EXCEPT ![c] = [dump[c] EXCEPT ![next[c]] = view[c][next[c]]]]
    BY <1>5, MapIdsAssumption DEF DumpStep, ReadMap, StorageTypeOK
  <2>3. dump[c] \in [MapIds -> [Keys -> OptVals]]
    BY DEF StorageTypeOK, Contents
  <2>4. dump'[c] = [dump[c] EXCEPT ![next[c]] = view[c][next[c]]] /\ next'[c] = next[c] + 1
    BY <2>2 DEF StorageTypeOK
  <2>5. \A m \in MapIds : m < next'[c] => dump'[c][m] = view[c][m]
    <3> SUFFICES ASSUME NEW m \in MapIds, m < next[c] + 1 PROVE dump'[c][m] = view[c][m]
      BY <2>4
    <3>1. m = next[c] \/ (m # next[c] /\ m < next[c])
      BY MapIdsAssumption DEF StorageTypeOK
    <3> QED
      BY <3>1, <2>3, <2>4 DEF DumpInv
  <2>6. \A d \in Clients : d # c => next'[d] = next[d] /\ dump'[d] = dump[d]
    BY <2>2 DEF StorageTypeOK
  <2> QED
    BY <2>1, <2>5, <2>6 DEF DumpInv, Dumping, DumpIsCommittedState
<1>6. ASSUME NEW c \in Clients, DumpDone(c) PROVE DumpInv'
  <2>1. DumpReturn(c) /\ mode[c] = "ro" /\ history' = history
    BY <1>6 DEF DumpDone, DumpReturn
  <2>2. DumpIsCommittedState'
    BY <1>6, <2>1, DumpIsView DEF DumpInv, DumpIsCommittedState
  <2> QED
    BY <2>1, <2>2, DumpInvUnderReturn
<1>7. ASSUME NEW c \in Clients, DumpErr(c) PROVE DumpInv'
  <2>1. DumpReturn(c) /\ history' = history /\ saved' = saved
    BY <1>7 DEF DumpErr, DumpReturn
  <2>2. DumpIsCommittedState'
    BY <2>1 DEF DumpInv, DumpIsCommittedState
  <2> QED
    BY <2>1, <2>2, DumpInvUnderReturn
<1>8. CASE LoadBegin \/ LoadPut \/ LoadCommit \/ LoadErr \/ UNCHANGED allVars
  <2>1. UNCHANGED <<store, mode, view, next, dump, saved, history>>
    BY <1>8 DEF LoadBegin, LoadPut, LoadCommit, LoadErr, allVars, vars, dumpVars
  <2> QED
    BY <2>1 DEF DumpInv, Dumping, DumpIsCommittedState
<1>9. CASE StorageRestart
  <2>1. UNCHANGED <<store, saved, history>>
    BY <1>9 DEF StorageRestart, Restart
  <2>2. \A d \in Clients : mode'[d] = "idle" /\ next'[d] = 0
    BY <1>9 DEF StorageRestart, Restart
  <2>3. \A m \in MapIds : ~(m < 0)
    BY MapIdsAssumption
  <2> QED
    BY <2>1, <2>2, <2>3 DEF DumpInv, Dumping, DumpIsCommittedState
<1> QED
  BY <1>1, <1>2, <1>3, <1>4, <1>5, <1>6, <1>7, <1>8, <1>9 DEF StorageNext

-----------------------------------------------------------------------------
(* A load is all or nothing *)

\* When nothing is left to put, what new_from_dump commits is the dump laid over
\* the target.
LEMMA PendingIsOverlay ==
  ASSUME StorageInv, LoadCommit
  PROVE  /\ target' = Overlay(loading, target)
         /\ target = EmptyContents => target' = loading
<1>1. /\ loading \in Contents /\ target' = pending
      /\ \A m \in MapIds, k \in Keys : <<m, k>> \notin todo
  BY DEF LoadCommit, Loading, StorageInv, StorageTypeOK
<1>2. pending = [m \in MapIds |-> [k \in Keys |-> Overlay(loading, target)[m][k]]]
  BY <1>1 DEF LoadCommit, StorageInv, LoadInv
<1>3. pending = Overlay(loading, target)
  BY <1>2 DEF Overlay
<1>4. ASSUME target = EmptyContents PROVE Overlay(loading, target) = loading
  BY <1>1, <1>4 DEF Overlay, EmptyContents, Contents
<1> QED
  BY <1>1, <1>3, <1>4

LEMMA LoadInvStep ==
  ASSUME StorageInv, [StorageNext]_allVars
  PROVE  LoadInv'
<1> USE DEF StorageInv
<1>1. ASSUME UNCHANGED loadVars, history \subseteq history' PROVE LoadInv'
  BY <1>1 DEF loadVars, LoadInv, Loading, CopyIsCommittedState, Entries, Overlay
<1>2. CASE LoadBegin
  <2>1. /\ UNCHANGED <<target, history>> /\ ~Loading /\ saved # NoDump
        /\ loading' = saved /\ todo' = Entries(saved) /\ pending' = target
        /\ loads' = loads + 1
    BY <1>2 DEF LoadBegin
  <2>2. saved \in history /\ saved \in Contents
    BY <2>1 DEF DumpInv, DumpIsCommittedState, StorageTypeOK
  <2>3. target = [m \in MapIds |-> [k \in Keys |->
          IF <<m, k>> \in Entries(saved) THEN target[m][k] ELSE Overlay(saved, target)[m][k]]]
    <3>1. target \in [MapIds -> [Keys -> OptVals]]
      BY DEF StorageTypeOK, Contents
    <3>2. \A m \in MapIds, k \in Keys : <<m, k>> \notin Entries(saved) => saved[m][k] = None
      BY DEF Entries
    <3>3. \A m \in MapIds, k \in Keys :
            <<m, k>> \notin Entries(saved) => Overlay(saved, target)[m][k] = target[m][k]
      BY <3>2 DEF Overlay
    <3> QED
      BY <3>1, <3>3
  <2>4. loads \in Nat /\ (loads = 0 => target = EmptyContents)
    BY LoadsAssumption DEF StorageTypeOK, LoadInv
  <2>5. CopyIsCommittedState'
    BY <2>1, <2>4 DEF LoadInv, CopyIsCommittedState
  <2>6. loads' # 0 /\ (loads' = 1 => target' = EmptyContents)
    BY <2>1, <2>4
  <2>7. pending' = [m \in MapIds |-> [k \in Keys |->
          IF <<m, k>> \in todo' THEN target'[m][k] ELSE Overlay(loading', target')[m][k]]]
    <3>1. /\ pending' = target /\ todo' = Entries(saved)
          /\ loading' = saved /\ target' = target
      BY <2>1
    <3> QED
      BY <2>3, <3>1, Zenon DEF Overlay
  <2>8. loading' \in history' /\ todo' \subseteq Entries(loading')
    BY <2>1, <2>2 DEF Entries
  <2> QED
    BY <2>5, <2>6, <2>7, <2>8 DEF LoadInv, Loading, Overlay, Entries
<1>3. CASE LoadPut
  <2>1. PICK e \in todo : /\ pending' = [pending EXCEPT ![e[1]][e[2]] = loading[e[1]][e[2]]]
                          /\ todo' = todo \ {e}
    BY <1>3 DEF LoadPut
  <2>2. UNCHANGED <<target, loading, loads, history>> /\ Loading
    BY <1>3 DEF LoadPut
  <2>3. e \in Entries(loading)
    BY <2>2 DEF LoadInv
  <2>4. PICK n \in MapIds, j \in Keys : e = <<n, j>> /\ loading[n][j] # None
    BY <2>3 DEF Entries
  <2> DEFINE Expected(rest) ==
        [m \in MapIds |-> [k \in Keys |->
           IF <<m, k>> \in rest THEN target[m][k] ELSE Overlay(loading, target)[m][k]]]
  <2>5. pending = Expected(todo)
    BY <2>2 DEF LoadInv
  <2>6. pending' = [pending EXCEPT ![n][j] = loading[n][j]]
    BY <2>1, <2>4
  <2>7. Overlay(loading, target)[n][j] = loading[n][j]
    BY <2>4 DEF Overlay
  <2>8. pending' = [m \in MapIds |-> [k \in Keys |->
                      IF m = n /\ k = j THEN loading[n][j] ELSE Expected(todo)[m][k]]]
    BY <2>5, <2>6
  <2>9. \A m \in MapIds, k \in Keys :
          (IF m = n /\ k = j THEN loading[n][j] ELSE Expected(todo)[m][k])
            = (IF <<m, k>> \in todo' THEN target[m][k] ELSE Overlay(loading, target)[m][k])
    <3> TAKE m \in MapIds, k \in Keys
    <3>1. <<m, k>> \in todo' <=> <<m, k>> \in todo /\ ~(m = n /\ k = j)
      BY <2>1, <2>4
    <3> QED
      BY <3>1, <2>7
  <2>10. pending' = Expected(todo')
    BY <2>8, <2>9, Zenon
  <2>11. todo' \subseteq Entries(loading)
    BY <2>1, <2>2 DEF LoadInv
  <2> QED
    BY <2>2, <2>10, <2>11 DEF LoadInv, Loading, CopyIsCommittedState, Overlay, Entries
<1>4. CASE LoadCommit
  <2>1. Loading /\ ~Loading' /\ UNCHANGED <<loads, history>> /\ loads \in Nat
    BY <1>4, LoadsAssumption DEF LoadCommit, LoadReturn, Loading, StorageTypeOK
  <2>2. loads # 0 /\ loading \in history /\ (loads = 1 => target = EmptyContents)
    BY <2>1 DEF LoadInv
  <2>3. loads <= 1 => target' = loading
    BY <1>4, <2>1, <2>2, PendingIsOverlay
  <2> QED
    BY <2>1, <2>2, <2>3 DEF LoadInv, CopyIsCommittedState
<1>5. CASE LoadErr
  <2>1. Loading /\ ~Loading' /\ UNCHANGED <<target, loads, history>>
    BY <1>5 DEF LoadErr, LoadReturn, Loading
  <2>2. loads # 0
    BY <2>1 DEF LoadInv
  <2> QED
    BY <2>1, <2>2 DEF LoadInv, CopyIsCommittedState
<1>6. ASSUME NEW c \in Clients, TxBegin(c) \/ TxWrite(c) \/ TxCommit(c) \/ TxEnd(c)
      PROVE  LoadInv'
  BY <1>1, <1>6 DEF TxBegin, TxWrite, TxCommit, TxEnd
<1>7. ASSUME NEW c \in Clients, DumpStep(c) \/ DumpDone(c) \/ DumpErr(c) PROVE LoadInv'
  BY <1>1, <1>7 DEF DumpStep, DumpDone, DumpErr, DumpReturn
<1>8. CASE StorageRestart \/ UNCHANGED allVars
  BY <1>1, <1>8 DEF StorageRestart, allVars
<1> QED
  BY <1>2, <1>3, <1>4, <1>5, <1>6, <1>7, <1>8 DEF StorageNext

-----------------------------------------------------------------------------
(* The theorems *)

\* Every state of the database layer, whatever is dumped, loaded and committed at
\* once and whatever fails, satisfies the invariant.
THEOREM StorageInvariant == StorageSpec => []StorageInv
<1>1. StorageInv /\ [StorageNext]_allVars => StorageInv'
  BY StepIsKVStep, TypeStep, InvStep, StorageTypeStep, DumpInvStep, LoadInvStep
  DEF StorageInv
<1> QED
  BY <1>1, StorageInitInv, PTL DEF StorageSpec

\* Types of dumps and loads.
THEOREM StorageTypeCorrect == StorageSpec => []StorageTypeOK
<1>1. StorageInv => StorageTypeOK
  BY DEF StorageInv
<1> QED
  BY <1>1, StorageInvariant, PTL

\* The maps that dump_raw reads one after the other are all of one moment, however
\* many commits fall between them.
THEOREM DumpsAreCommittedStates == StorageSpec => []DumpIsCommittedState
<1>1. StorageInv => DumpIsCommittedState
  BY DEF StorageInv, DumpInv
<1> QED
  BY <1>1, StorageInvariant, PTL

\* new_from_dump into an empty database leaves it empty or makes it a copy of one
\* moment, even when it fails halfway.
THEOREM CopiesAreCommittedStates == StorageSpec => []CopyIsCommittedState
<1>1. StorageInv => CopyIsCommittedState
  BY DEF StorageInv, LoadInv
<1> QED
  BY <1>1, StorageInvariant, PTL

\* new_from_dump changes its database in one step, to the dump laid over what was
\* there, or not at all.
THEOREM LoadsOverlayDumps == StorageSpec => LoadOverlaysDump
<1> DEFINE Laid ==
      target' # target =>
        target' = [m \in MapIds |-> [k \in Keys |->
                     IF loading[m][k] # None THEN loading[m][k]
                     ELSE target[m][k]]]
<1>1. ASSUME StorageInv, [StorageNext]_allVars
      PROVE  [Laid]_allVars
  <2> SUFFICES ASSUME target' # target PROVE Laid
    OBVIOUS
  <2>1. LoadCommit
    BY <1>1 DEF StorageNext, allVars, loadVars, TxBegin, TxWrite, TxCommit, TxEnd, DumpStep,
                DumpDone, DumpErr, DumpReturn, LoadBegin, LoadPut, LoadErr, StorageRestart
  <2> QED
    BY <1>1, <2>1, PendingIsOverlay DEF Overlay
<1>2. StorageSpec => [][Laid]_allVars
  BY <1>1, StorageInvariant, PTL DEF StorageSpec
<1> QED
  BY <1>2, PTL DEF LoadOverlaysDump
=============================================================================
