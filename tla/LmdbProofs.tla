------------------------------ MODULE LmdbProofs ------------------------------
(***************************************************************************)
(* Proofs about the LMDB backend, for any number of threads, maps, keys,   *)
(* values and reader slots and any sizes of the map: its types, and that   *)
(* it implements KVStore through full maps, resizes, retries and crashes.  *)
(***************************************************************************)
EXTENDS Lmdb, FiniteSetTheorems, TLAPS

\* The environment's writer is the client with a read-write transaction, whose
\* snapshot nobody has overtaken.
WriterInv == \A c \in Clients : writer = c <=> pc[c] = "rw"

\* Without a transaction a client reads nothing.
ViewInv ==
  \A c \in Clients : pc[c] \notin {"ro", "rw"} =>
    view[c] = EmptyContents /\ base[c] = EmptyContents

\* Who is inside a call has a transaction left to complete.
LeftInv == \A c \in Clients : pc[c] # "idle" => left[c] > 0

Inv == TypeOK /\ WriterInv /\ ViewInv /\ LeftInv

-----------------------------------------------------------------------------
(* Types *)

LEMMA EmptyType == EmptyContents \in Contents
BY DEF EmptyContents, Contents, OptVals

LEMMA WrittenType ==
  ASSUME NEW contents \in Contents, NEW m \in MapIds, NEW k \in Keys, NEW v \in OptVals
  PROVE  [contents EXCEPT ![m][k] = v] \in Contents
BY DEF Contents

\* The answers of error.rs, process, that the backend gives.
LEMMA Classes ==
  /\ Classify("Success") = "ok"
  /\ Classify("ReadersFull") = "recoverable" /\ Classify("BadTxn") = "recoverable"
  /\ Classify("MapFull") = "fatal"
BY DEF Classify

LEMMA OpenType ==
  ASSUME TypeOK, NEW c \in Clients, NEW s \in {"ro", "rw"}, Open(c, s)
  PROVE  /\ active' \subseteq Clients
         /\ pc' \in [Clients -> {"idle", "ro", "begin", "rw", "resize", "resizing",
                                 "unschedule"}]
         /\ view' \in [Clients -> Contents] /\ base' \in [Clients -> Contents]
         /\ dirty' \in [Clients -> 0 .. MaxWrites] /\ broken' \in [Clients -> BOOLEAN]
         /\ answer' \in [Clients -> {"none", "ok", "recoverable", "fatal"}]
BY Classes, BoundsAssumption DEF Open, Goto, Answer, TypeOK

LEMMA CloseType ==
  ASSUME TypeOK, NEW c \in Clients, NEW s \in {"idle", "resize"}, Close(c, s)
  PROVE  /\ active' \subseteq Clients /\ writer' \in Clients \cup {NoClient}
         /\ pc' \in [Clients -> {"idle", "ro", "begin", "rw", "resize", "resizing",
                                 "unschedule"}]
         /\ view' \in [Clients -> Contents] /\ base' \in [Clients -> Contents]
         /\ dirty' \in [Clients -> 0 .. MaxWrites] /\ broken' \in [Clients -> BOOLEAN]
BY EmptyType, BoundsAssumption DEF Close, Goto, TypeOK

LEMMA CompletedType ==
  ASSUME TypeOK, LeftInv, NEW c \in Clients, pc[c] # "idle", Completed(c) \/ Retry
  PROVE  /\ left' \in [Clients -> 0 .. MaxTx]
         /\ want' \in [Clients -> {"any", "ro", "rw"}]
         /\ failedAt' \in [Clients -> 0 .. MaxCap]
         /\ \A d \in Clients : d # c => left'[d] = left[d]
<1>1. left[c] \in 0 .. MaxTx /\ left[c] - 1 \in 0 .. MaxTx
  BY BoundsAssumption DEF LeftInv, TypeOK
<1> QED
  BY <1>1, BoundsAssumption DEF Completed, Retry, TypeOK

LEMMA InitTypeOK == Init => TypeOK
<1> SUFFICES ASSUME Init PROVE TypeOK
  OBVIOUS
<1>1. InitCap \in InitCap .. MaxCap
  <2>1. Cardinality(MapIds \X Keys) \in Nat
    BY SpaceAssumption, FS_CardinalityType
  <2> QED
    BY <2>1, BoundsAssumption
<1>2. 0 \in 0 .. MaxTx /\ MaxTx \in 0 .. MaxTx /\ 0 \in 0 .. MaxWrites /\ 0 \in 0 .. MaxCrashes
      /\ 0 \in 0 .. MaxCap
  BY BoundsAssumption
<1>3. /\ store \in Contents /\ view \in [Clients -> Contents] /\ base \in [Clients -> Contents]
      /\ cap \in InitCap .. MaxCap
  BY <1>1, EmptyType DEF Init, NoTx
<1> QED
  BY <1>2, <1>3 DEF Init, TypeOK

LEMMA NextTypeOK == Inv /\ [Next]_vars => TypeOK'
<1> SUFFICES ASSUME Inv, [Next]_vars PROVE TypeOK'
  OBVIOUS
<1> USE DEF Inv, envVars, gateVars, txVars
<1>1. ASSUME NEW c \in Clients, BeginRo(c) \/ BeginRw(c) PROVE TypeOK'
  <2>1. PICK s \in {"ro", "rw"} : Open(c, s)
    BY <1>1 DEF BeginRo, BeginRw
  <2>2. /\ writer' \in Clients \cup {NoClient}
        /\ UNCHANGED <<store, cap, scheduled, resizer, next, want, left, crashes, failedAt>>
    BY <1>1 DEF BeginRo, BeginRw, TypeOK
  <2> QED
    BY <2>1, <2>2, OpenType DEF TypeOK
<1>2. ASSUME NEW c \in Clients, BeginRoErr(c) PROVE TypeOK'
  BY <1>2, Classes DEF BeginRoErr, Answer, TypeOK
<1>3. ASSUME NEW c \in Clients, TestAndClear(c) PROVE TypeOK'
  BY <1>3 DEF TestAndClear, Goto, TypeOK
<1>4. ASSUME NEW c \in Clients, LowSpace(c) \/ ResizeEnter(c) PROVE TypeOK'
  BY <1>4 DEF LowSpace, ResizeEnter, Goto, TypeOK
<1>5. ASSUME NEW c \in Clients, ResizeDone(c) PROVE TypeOK'
  <2>1. cap' \in InitCap .. MaxCap
    BY <1>5, BoundsAssumption DEF ResizeDone, TypeOK
  <2>2. next[c] \in {"begin", "unschedule"}
    BY DEF TypeOK
  <2> QED
    BY <1>5, <2>1, <2>2 DEF ResizeDone, Goto, TypeOK
<1>6. ASSUME NEW c \in Clients, Unschedule(c) PROVE TypeOK'
  BY <1>6 DEF Unschedule, Goto, Retry, TypeOK
<1>7. ASSUME NEW c \in Clients, NEW m \in MapIds, NEW k \in Keys, NEW v \in OptVals,
             Write(c, m, k, v)
      PROVE  TypeOK'
  <2>1. [view[c] EXCEPT ![m][k] = v] \in Contents
    BY WrittenType DEF TypeOK
  <2>2. view' = [view EXCEPT ![c] = [view[c] EXCEPT ![m][k] = v]]
    BY <1>7 DEF Write
  <2>3. view' \in [Clients -> Contents]
    BY <2>1, <2>2 DEF TypeOK
  <2>4. dirty' \in [Clients -> 0 .. MaxWrites]
    BY <1>7, BoundsAssumption DEF Write, Writable, TypeOK
  <2>5. answer' \in [Clients -> {"none", "ok", "recoverable", "fatal"}]
    BY <1>7, Classes DEF Write, Answer, TypeOK
  <2> QED
    BY <1>7, <2>3, <2>4, <2>5 DEF Write, TypeOK
<1>8. ASSUME NEW c \in Clients, WriteFull(c) PROVE TypeOK'
  <2>1. answer' \in [Clients -> {"none", "ok", "recoverable", "fatal"}]
    BY <1>8, Classes DEF WriteFull, Answer, TypeOK
  <2>2. failedAt' \in [Clients -> 0 .. MaxCap]
    BY <1>8, BoundsAssumption DEF WriteFull, TypeOK
  <2> QED
    BY <1>8, <2>1, <2>2 DEF WriteFull, TypeOK
<1>9. ASSUME NEW c \in Clients, BrokenOp(c) PROVE TypeOK'
  BY <1>9, Classes DEF BrokenOp, Answer, TypeOK
<1>10. ASSUME NEW c \in Clients, CommitNext(c) \/ Drop(c) PROVE TypeOK'
  <2>1. /\ pc[c] # "idle"
        /\ Close(c, "idle") \/ Close(c, "resize")
        /\ Completed(c) \/ Retry
    BY <1>10 DEF CommitNext, CommitOk, CommitBroken, CommitFull, Drop
  <2>2. store' \in Contents
    BY <1>10 DEF CommitNext, CommitOk, CommitBroken, CommitFull, Drop, TypeOK
  <2>3. answer' \in [Clients -> {"none", "ok", "recoverable", "fatal"}]
    BY <1>10, Classes DEF CommitNext, CommitOk, CommitBroken, CommitFull, Drop, Answer, TypeOK
  <2>4. next' \in [Clients -> {"begin", "unschedule"}]
    BY <1>10 DEF CommitNext, CommitOk, CommitBroken, CommitFull, Drop, TypeOK
  <2>5. UNCHANGED <<cap, scheduled, resizer, crashes>>
    BY <1>10 DEF CommitNext, CommitOk, CommitBroken, CommitFull, Drop
  <2> QED
    BY <2>1, <2>2, <2>3, <2>4, <2>5, CloseType, CompletedType DEF TypeOK
<1>11. CASE Crash
  <2>1. cap' \in InitCap .. MaxCap
    BY <1>11, BoundsAssumption DEF Crash, Reopened, TypeOK
  <2>2. view' \in [Clients -> Contents] /\ base' \in [Clients -> Contents]
    BY <1>11, EmptyType DEF Crash, NoTx
  <2>3. crashes' \in 0 .. MaxCrashes /\ 0 \in 0 .. MaxWrites /\ 0 \in 0 .. MaxCap
    BY <1>11, BoundsAssumption DEF Crash, TypeOK
  <2> QED
    BY <1>11, <2>1, <2>2, <2>3 DEF Crash, TypeOK
<1>12. CASE Finished \/ UNCHANGED vars
  BY <1>12 DEF Finished, vars, TypeOK
<1> QED
  BY <1>1, <1>2, <1>3, <1>4, <1>5, <1>6, <1>7, <1>8, <1>9, <1>10, <1>11, <1>12
  DEF Next, ClientNext

-----------------------------------------------------------------------------
(* The invariant *)

LEMMA InitInv == Init => Inv
<1> SUFFICES ASSUME Init PROVE Inv
  OBVIOUS
<1>1. WriterInv /\ ViewInv /\ LeftInv
  BY SentinelsAssumption DEF Init, WriterInv, ViewInv, LeftInv, NoTx
<1> QED
  BY <1>1, InitTypeOK DEF Inv

\* A step in which a client goes from one place outside a transaction to another.
LEMMA OutsideInv ==
  ASSUME Inv, NEW c \in Clients, pc[c] \notin {"ro", "rw"},
         NEW s, s \notin {"ro", "rw"}, Goto(c, s), s # "idle" => left[c] > 0,
         UNCHANGED <<writer, view, base, left>>
  PROVE  (WriterInv /\ ViewInv /\ LeftInv)'
<1>1. pc'[c] = s /\ \A d \in Clients : d # c => pc'[d] = pc[d]
  BY DEF Goto, Inv, TypeOK
<1> QED
  BY <1>1 DEF Inv, WriterInv, ViewInv, LeftInv

\* The begin of a transaction.
LEMMA OpenInv ==
  ASSUME Inv, NEW c \in Clients, BeginRo(c) \/ BeginRw(c)
  PROVE  (WriterInv /\ ViewInv /\ LeftInv)'
<1> USE DEF Inv, TypeOK
<1>1. PICK s \in {"ro", "rw"} : /\ Open(c, s) /\ left' = left /\ pc[c] \notin {"ro", "rw"}
                                /\ writer' = IF s = "rw" THEN c ELSE writer
                                /\ s = "rw" => writer = NoClient
  BY DEF BeginRo, BeginRw, May
<1>2. pc'[c] = s /\ \A d \in Clients : d # c => /\ pc'[d] = pc[d]
                                                 /\ view'[d] = view[d] /\ base'[d] = base[d]
  BY <1>1 DEF Open, Goto
<1>3. WriterInv'
  BY <1>1, <1>2, SentinelsAssumption DEF WriterInv
<1>4. left[c] > 0
  BY DEF BeginRo, BeginRw, May, LeftInv
<1> QED
  BY <1>1, <1>2, <1>3, <1>4 DEF ViewInv, LeftInv

\* The end of a transaction.
LEMMA CloseInv ==
  ASSUME Inv, NEW c \in Clients, pc[c] \in {"ro", "rw"}, NEW s \in {"idle", "resize"},
         Close(c, s), Completed(c) \/ Retry, s # "idle" => Retry
  PROVE  (WriterInv /\ ViewInv /\ LeftInv)'
<1> USE DEF Inv, TypeOK
<1>1. /\ pc'[c] = s /\ view'[c] = EmptyContents /\ base'[c] = EmptyContents
      /\ \A d \in Clients : d # c => /\ pc'[d] = pc[d]
                                     /\ view'[d] = view[d] /\ base'[d] = base[d]
  BY DEF Close, Goto
<1>2. \A d \in Clients : d # c => left'[d] = left[d]
  BY CompletedType
<1>3. s # "idle" => left'[c] = left[c]
  BY DEF Retry
<1>4. WriterInv'
  BY <1>1, SentinelsAssumption DEF WriterInv, Close
<1> QED
  BY <1>1, <1>2, <1>3, <1>4 DEF ViewInv, LeftInv

\* A step inside a read-write transaction, which stays open.
LEMMA InsideInv ==
  ASSUME Inv, NEW c \in Clients, pc[c] = "rw", UNCHANGED <<writer, pc, base, left>>,
         \A d \in Clients : d # c => view'[d] = view[d]
  PROVE  (WriterInv /\ ViewInv /\ LeftInv)'
BY DEF Inv, WriterInv, ViewInv, LeftInv

LEMMA NextInv == Inv /\ [Next]_vars => Inv'
<1> SUFFICES ASSUME Inv, [Next]_vars PROVE Inv'
  OBVIOUS
<1> DEFINE Rest == WriterInv /\ ViewInv /\ LeftInv
<1> USE DEF envVars, gateVars, txVars
<1>1. ASSUME NEW c \in Clients, BeginRo(c) \/ BeginRw(c) PROVE Rest'
  BY <1>1, OpenInv
<1>2. ASSUME NEW c \in Clients, BeginRoErr(c) PROVE Rest'
  BY <1>2 DEF BeginRoErr, Inv, WriterInv, ViewInv, LeftInv
<1>3. ASSUME NEW c \in Clients, TestAndClear(c) PROVE Rest'
  <2>1. PICK s \in {"resize", "begin"} : Goto(c, s)
    BY <1>3 DEF TestAndClear
  <2>2. pc[c] = "idle" /\ left[c] > 0 /\ UNCHANGED <<writer, view, base, left>>
    BY <1>3 DEF TestAndClear, May
  <2> QED
    BY <2>1, <2>2, OutsideInv
<1>4. ASSUME NEW c \in Clients, LowSpace(c) PROVE Rest'
  <2>1. /\ pc[c] = "begin" /\ Goto(c, "resize") /\ UNCHANGED <<writer, view, base, left>>
        /\ left[c] > 0
    BY <1>4 DEF LowSpace, Inv, LeftInv
  <2> QED
    BY <2>1, OutsideInv
<1>5. ASSUME NEW c \in Clients, ResizeEnter(c) PROVE Rest'
  <2>1. /\ pc[c] = "resize" /\ Goto(c, "resizing") /\ UNCHANGED <<writer, view, base, left>>
        /\ left[c] > 0
    BY <1>5 DEF ResizeEnter, Inv, LeftInv
  <2> QED
    BY <2>1, OutsideInv
<1>6. ASSUME NEW c \in Clients, ResizeDone(c) PROVE Rest'
  <2>1. /\ pc[c] = "resizing" /\ Goto(c, next[c]) /\ UNCHANGED <<writer, view, base, left>>
        /\ left[c] > 0 /\ next[c] \in {"begin", "unschedule"}
    BY <1>6 DEF ResizeDone, Inv, LeftInv, TypeOK
  <2> QED
    BY <2>1, OutsideInv
<1>7. ASSUME NEW c \in Clients, Unschedule(c) PROVE Rest'
  <2>1. pc[c] = "unschedule" /\ Goto(c, "idle") /\ UNCHANGED <<writer, view, base, left>>
    BY <1>7 DEF Unschedule, Retry
  <2> QED
    BY <2>1, OutsideInv
<1>8. ASSUME NEW c \in Clients, NEW m \in MapIds, NEW k \in Keys, NEW v \in OptVals,
             Write(c, m, k, v)
      PROVE  Rest'
  <2>1. /\ pc[c] = "rw" /\ UNCHANGED <<writer, pc, base, left>>
        /\ \A d \in Clients : d # c => view'[d] = view[d]
    BY <1>8 DEF Write, Writable, Inv, TypeOK
  <2> QED
    BY <2>1, InsideInv
<1>9. ASSUME NEW c \in Clients, WriteFull(c) \/ BrokenOp(c) PROVE Rest'
  <2>1. pc[c] = "rw" /\ UNCHANGED <<writer, pc, view, base, left>>
    BY <1>9 DEF WriteFull, Writable, BrokenOp
  <2> QED
    BY <2>1, InsideInv
<1>10. ASSUME NEW c \in Clients, CommitNext(c) \/ Drop(c) PROVE Rest'
  <2>1. /\ pc[c] \in {"ro", "rw"}
        /\ \/ Close(c, "idle") /\ (Completed(c) \/ Retry)
           \/ Close(c, "resize") /\ Retry
    BY <1>10 DEF CommitNext, CommitOk, CommitBroken, CommitFull, Drop
  <2> QED
    BY <2>1, CloseInv
<1>11. CASE Crash
  <2>1. Rest'
    BY <1>11, SentinelsAssumption DEF Crash, NoTx, WriterInv, ViewInv, LeftInv
  <2> QED
    BY <2>1, NextTypeOK DEF Inv
<1>12. CASE Finished \/ UNCHANGED vars
  <2>1. UNCHANGED <<writer, pc, view, base, left>>
    BY <1>12 DEF Finished, vars
  <2>2. Rest'
    BY <2>1 DEF Inv, WriterInv, ViewInv, LeftInv
  <2> QED
    BY <2>2, NextTypeOK DEF Inv
<1> QED
  BY <1>1, <1>2, <1>3, <1>4, <1>5, <1>6, <1>7, <1>8, <1>9, <1>10, <1>11, <1>12, NextTypeOK
  DEF Next, ClientNext, Inv

LEMMA InvHolds == Spec => []Inv
<1> QED
  BY InitInv, NextInv, PTL DEF Spec

\* Types, for all threads, maps, keys, values and sizes of the map.
THEOREM LmdbTypes == Spec => []TypeOK
<1>1. Inv => TypeOK
  BY DEF Inv
<1> QED
  BY <1>1, InvHolds, PTL

-----------------------------------------------------------------------------
(* The refinement.  Store, view and base are KVStore's own; a step of one   *)
(* client moves at most its own mode and result.                            *)

LEMMA EmptyIsEmpty == KV!EmptyContents = EmptyContents
BY DEF KV!EmptyContents, EmptyContents

LEMMA InitImplements == Init => KV!Init
BY EmptyIsEmpty DEF Init, KV!Init, NoTx, AbsMode, AbsResult

LEMMA AbsOf ==
  ASSUME NEW c \in Clients
  PROVE  /\ pc[c] \in {"ro", "rw"} => AbsMode[c] = pc[c] /\ AbsResult[c] = "none"
         /\ pc[c] \notin {"ro", "rw"} => AbsMode[c] = "idle"
         /\ pc'[c] \in {"ro", "rw"} => AbsMode'[c] = pc'[c] /\ AbsResult'[c] = "none"
         /\ pc'[c] \notin {"ro", "rw"} =>
              /\ AbsMode'[c] = "idle"
              /\ answer'[c] = "none" => AbsResult'[c] = "none"
              /\ answer'[c] = "ok" => AbsResult'[c] = "ok"
              /\ answer'[c] \in {"recoverable", "fatal"} => AbsResult'[c] = "err"
BY DEF AbsMode, AbsResult

LEMMA AbsMove ==
  ASSUME NEW c \in Clients,
         \A d \in Clients : d # c => pc'[d] = pc[d] /\ answer'[d] = answer[d]
  PROVE  /\ AbsMode' = [AbsMode EXCEPT ![c] = AbsMode'[c]]
         /\ AbsResult' = [AbsResult EXCEPT ![c] = AbsResult'[c]]
BY DEF AbsMode, AbsResult

\* Between its transactions, and waiting for a resize, a client does nothing that
\* KVStore knows of.
LEMMA QuietImplements ==
  ASSUME TypeOK, NEW c \in Clients, pc[c] \notin {"ro", "rw"}, NEW s, s \notin {"ro", "rw"},
         Goto(c, s), UNCHANGED <<store, view, base, answer>>
  PROVE  UNCHANGED KV!vars
<1>1. \A d \in Clients : \/ pc'[d] = pc[d]
                         \/ pc[d] \notin {"ro", "rw"} /\ pc'[d] \notin {"ro", "rw"}
  BY DEF Goto, TypeOK
<1>2. AbsMode' = AbsMode /\ AbsResult' = AbsResult
  BY <1>1 DEF AbsMode, AbsResult
<1> QED
  BY <1>2 DEF KV!vars

LEMMA BeginImplements ==
  ASSUME Inv, NEW c \in Clients, BeginRo(c) \/ BeginRw(c)
  PROVE  \E kind \in {"ro", "rw"} : KV!Begin(c, kind)
<1> USE DEF Inv, TypeOK
<1>1. PICK kind \in {"ro", "rw"} : /\ Open(c, kind) /\ store' = store
                                   /\ pc[c] \notin {"ro", "rw"}
                                   /\ kind = "rw" => writer = NoClient
  BY DEF BeginRo, BeginRw, May, envVars
<1>2. /\ pc'[c] = kind
      /\ \A d \in Clients : d # c => pc'[d] = pc[d] /\ answer'[d] = answer[d]
  BY <1>1 DEF Open, Goto, Answer
<1>3. /\ AbsMode' = [AbsMode EXCEPT ![c] = kind]
      /\ AbsResult' = [AbsResult EXCEPT ![c] = "none"]
      /\ AbsMode[c] = "idle"
  BY <1>1, <1>2, AbsOf, AbsMove
<1>4. kind = "rw" => \A d \in Clients : AbsMode[d] \notin {"rw", "committing"}
  BY <1>1, SentinelsAssumption DEF WriterInv, AbsMode
<1> QED
  BY <1>1, <1>3, <1>4 DEF KV!Begin, KV!Writing, KV!Return, Open

\* The end of a transaction, by whichever way.
LEMMA CloseImplements ==
  ASSUME Inv, NEW c \in Clients, pc[c] \in {"ro", "rw"}, NEW s \in {"idle", "resize"},
         Close(c, s), NEW a, answer' = [answer EXCEPT ![c] = a]
  PROVE  /\ KV!Release(c)
         /\ AbsMode[c] = pc[c] /\ AbsResult[c] = "none"
         /\ a = "none" => AbsResult' = AbsResult
         /\ a = "ok" => KV!Return(c, "ok")
         /\ a \in {"recoverable", "fatal"} => KV!Return(c, "err")
<1> USE DEF Inv, TypeOK
<1>1. /\ pc'[c] = s /\ answer'[c] = a
      /\ \A d \in Clients : d # c => pc'[d] = pc[d] /\ answer'[d] = answer[d]
  BY DEF Close, Goto
<1>2. /\ AbsMode' = [AbsMode EXCEPT ![c] = "idle"]
      /\ AbsResult' = [AbsResult EXCEPT ![c] = AbsResult'[c]]
  BY <1>1, AbsOf, AbsMove
<1>3. AbsResult = [AbsResult EXCEPT ![c] = AbsResult[c]]
  BY DEF AbsResult
<1>4. KV!Release(c)
  BY <1>2, EmptyIsEmpty DEF KV!Release, Close
<1>5. AbsMode[c] = pc[c] /\ AbsResult[c] = "none"
  BY AbsOf
<1>6. /\ a = "none" => AbsResult'[c] = "none"
      /\ a = "ok" => AbsResult'[c] = "ok"
      /\ a \in {"recoverable", "fatal"} => AbsResult'[c] = "err"
  BY <1>1, AbsOf
<1> QED
  BY <1>2, <1>3, <1>4, <1>5, <1>6 DEF KV!Return

LEMMA EndsImplement ==
  ASSUME Inv, NEW c \in Clients, CommitNext(c) \/ Drop(c)
  PROVE  KV!Commit(c) \/ KV!CommitErr(c) \/ KV!End(c)
<1>1. CASE CommitOk(c)
  <2>1. /\ pc[c] = "rw" /\ Close(c, "idle") /\ store' = view[c]
        /\ answer' = [answer EXCEPT ![c] = "ok"]
    BY <1>1, Classes DEF CommitOk, Answer
  <2> QED
    BY <2>1, CloseImplements DEF KV!Commit, KV!Writing
<1>2. CASE CommitBroken(c)
  <2>1. /\ pc[c] = "rw" /\ Close(c, "idle") /\ store' = store
        /\ answer' = [answer EXCEPT ![c] = "recoverable"]
    BY <1>2, Classes DEF CommitBroken, Answer, envVars
  <2> QED
    BY <2>1, CloseImplements DEF KV!CommitErr, KV!Writing
<1>3. CASE CommitFull(c)
  <2>1. /\ pc[c] = "rw" /\ Close(c, "resize") /\ store' = store
        /\ answer' = [answer EXCEPT ![c] = "fatal"]
    BY <1>3, Classes DEF CommitFull, Answer, envVars
  <2> QED
    BY <2>1, CloseImplements DEF KV!CommitErr, KV!Writing
<1>4. CASE Drop(c)
  <2>1. /\ pc[c] \in {"ro", "rw"} /\ Close(c, "idle") /\ store' = store
        /\ answer' = [answer EXCEPT ![c] = "none"]
    BY <1>4 DEF Drop, envVars
  <2> QED
    BY <2>1, CloseImplements DEF KV!End
<1> QED
  BY <1>1, <1>2, <1>3, <1>4 DEF CommitNext

\* A failed write, and an operation on the transaction it broke, change nothing
\* that is read or committed.
LEMMA FailureImplements ==
  ASSUME TypeOK, NEW c \in Clients, WriteFull(c) \/ BrokenOp(c)
  PROVE  UNCHANGED KV!vars
<1>1. /\ pc[c] = "rw" /\ UNCHANGED <<store, view, base, pc>>
      /\ \A d \in Clients : d # c => answer'[d] = answer[d]
  BY DEF WriteFull, Writable, BrokenOp, Answer, envVars, txVars, TypeOK
<1>2. AbsMode' = AbsMode /\ AbsResult' = AbsResult
  BY <1>1 DEF AbsMode, AbsResult
<1> QED
  BY <1>1, <1>2 DEF KV!vars

LEMMA WriteImplements ==
  ASSUME TypeOK, NEW c \in Clients, NEW m \in MapIds, NEW k \in Keys, NEW v \in OptVals,
         Write(c, m, k, v)
  PROVE  KV!Write(c, m, k, v)
<1>1. /\ pc[c] = "rw" /\ UNCHANGED <<store, base, pc>>
      /\ view' = [view EXCEPT ![c][m][k] = v]
      /\ \A d \in Clients : d # c => answer'[d] = answer[d]
  BY DEF Write, Writable, Answer, envVars, TypeOK
<1>2. AbsMode' = AbsMode /\ AbsResult' = AbsResult /\ AbsMode[c] = "rw"
  BY <1>1 DEF AbsMode, AbsResult
<1> QED
  BY <1>1, <1>2 DEF KV!Write

LEMMA RefusalImplements ==
  ASSUME TypeOK, NEW c \in Clients, BeginRoErr(c)
  PROVE  KV!BeginErr(c)
<1>1. /\ pc[c] = "idle" /\ UNCHANGED <<store, view, base, pc>>
      /\ answer' = [answer EXCEPT ![c] = "recoverable"]
  BY Classes DEF BeginRoErr, May, Answer, envVars, txVars
<1>2. /\ answer'[c] = "recoverable"
      /\ \A d \in Clients : d # c => pc'[d] = pc[d] /\ answer'[d] = answer[d]
  BY <1>1 DEF TypeOK
<1>3. AbsMode' = AbsMode /\ AbsMode[c] = "idle"
  BY <1>1 DEF AbsMode
<1>4. AbsResult'[c] = "err"
  BY <1>1, <1>2, AbsOf
<1>5. AbsResult' = [AbsResult EXCEPT ![c] = "err"]
  BY <1>2, <1>4, AbsMove
<1> QED
  BY <1>1, <1>3, <1>5 DEF KV!BeginErr, KV!Return

LEMMA CrashImplements == Crash => KV!Restart
BY EmptyIsEmpty DEF Crash, KV!Restart, NoTx, AbsMode, AbsResult

\* Every step maps to a step of KVStore or to none.
LEMMA NextImplements ==
  ASSUME Inv, [Next]_vars
  PROVE  [KV!Next]_(KV!vars)
<1> USE DEF Inv
<1>1. ASSUME NEW c \in Clients, BeginRo(c) \/ BeginRw(c) PROVE KV!Next
  BY <1>1, BeginImplements DEF KV!Next
<1>2. ASSUME NEW c \in Clients, BeginRoErr(c) PROVE KV!Next
  BY <1>2, RefusalImplements DEF KV!Next
<1>3. ASSUME NEW c \in Clients, NEW m \in MapIds, NEW k \in Keys, NEW v \in OptVals,
             Write(c, m, k, v)
      PROVE  KV!Next
  BY <1>3, WriteImplements DEF KV!Next, KV!OptVals, OptVals
<1>4. ASSUME NEW c \in Clients, CommitNext(c) \/ Drop(c) PROVE KV!Next
  BY <1>4, EndsImplement DEF KV!Next
<1>5. ASSUME NEW c \in Clients, TestAndClear(c) PROVE UNCHANGED KV!vars
  <2>1. PICK s \in {"resize", "begin"} : Goto(c, s)
    BY <1>5 DEF TestAndClear
  <2>2. pc[c] = "idle" /\ UNCHANGED <<store, view, base, answer>>
    BY <1>5 DEF TestAndClear, May, txVars
  <2> QED
    BY <2>1, <2>2, QuietImplements
<1>6. ASSUME NEW c \in Clients,
             LowSpace(c) \/ ResizeEnter(c) \/ ResizeDone(c) \/ Unschedule(c)
      PROVE  UNCHANGED KV!vars
  <2>1. PICK s \in {"resize", "resizing", "begin", "unschedule", "idle"} : Goto(c, s)
    BY <1>6 DEF LowSpace, ResizeEnter, ResizeDone, Unschedule, TypeOK
  <2>2. pc[c] \notin {"ro", "rw"} /\ UNCHANGED <<store, view, base, answer>>
    BY <1>6 DEF LowSpace, ResizeEnter, ResizeDone, Unschedule, envVars, txVars
  <2> QED
    BY <2>1, <2>2, QuietImplements
<1>7. ASSUME NEW c \in Clients, WriteFull(c) \/ BrokenOp(c) PROVE UNCHANGED KV!vars
  BY <1>7, FailureImplements
<1>8. CASE Crash
  BY <1>8, CrashImplements DEF KV!Next
<1>9. CASE Finished \/ UNCHANGED vars
  BY <1>9 DEF Finished, vars, KV!vars, AbsMode, AbsResult
<1> QED
  BY <1>1, <1>2, <1>3, <1>4, <1>5, <1>6, <1>7, <1>8, <1>9 DEF Next, ClientNext

\* The LMDB backend keeps the promises of the backend traits, whatever writes do
\* not fit, whoever resizes the map meanwhile, and wherever the process dies.
THEOREM LmdbImplementsKV == Spec => KVSpec
<1>1. Inv /\ [Next]_vars => [KV!Next]_(KV!vars)
  BY NextImplements
<1> QED
  BY <1>1, InitImplements, InvHolds, PTL DEF Spec, KVSpec, KV!Spec
=============================================================================
