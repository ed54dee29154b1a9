--------------------------- MODULE TestRootProofs ----------------------------
(***************************************************************************)
(* Proofs about test directories, for any number of processes, threads and *)
(* names: no two processes share a root, and fresh_test_dir always finds   *)
(* its directory free.                                                     *)
(***************************************************************************)
EXTENDS TestRoot, TLAPS

\* There are numbered directories only below roots that exist.
CasesHaveRoots == \A dir \in cases : dir[1] \in roots

\* A number that a thread has drawn is below the counter, is no other thread's,
\* and belongs to no directory yet; nor does any number from the counter on.
NumbersAreNew ==
  \A p \in Procs : pc[p] = "running" =>
    /\ \A dir \in cases : dir[1] = root[p] => dir[2] < counter[p]
    /\ \A t \in Threads : drawn[p][t] # NoNumber =>
         /\ drawn[p][t] < counter[p]
         /\ <<root[p], drawn[p][t]>> \notin cases
         /\ \A u \in Threads : drawn[p][u] = drawn[p][t] => u = t

\* Nobody has drawn a number before there is a root.
NoneDrawnEarly ==
  \A p \in Procs : pc[p] \in {"idle", "trying"} =>
    \A t \in Threads : drawn[p][t] = NoNumber

\* A name is looked up only if there is an attempt left for it.
AttemptLeft ==
  \A p \in Procs :
    pc[p] \in {"idle", "trying"} /\ root[p] # NoName => attempts[p] < MaxAttempts

NumInv == CasesHaveRoots /\ NumbersAreNew /\ NoneDrawnEarly

Inv == TypeOK /\ AttemptLeft /\ RootsAreExclusive /\ NumInv /\ FreshDirSucceeds

-----------------------------------------------------------------------------
(* Types. *)

LEMMA InitInv == Init => Inv
<1> SUFFICES ASSUME Init PROVE Inv
  OBVIOUS
<1>1. TypeOK
  BY TestRootAssumption DEF Init, TypeOK, NoNumber, Numbers
<1>2. \A p \in Procs : pc[p] = "idle" /\ root[p] = NoName /\ ~panicked[p]
                       /\ \A t \in Threads : drawn[p][t] = NoNumber
  BY DEF Init
<1>3. cases = {}
  BY DEF Init
<1> QED
  BY <1>1, <1>2, <1>3 DEF Inv, AttemptLeft, RootsAreExclusive, HasRoot, NumInv, CasesHaveRoots,
     NumbersAreNew, NoneDrawnEarly, FreshDirSucceeds

LEMMA NextTypeOK == TypeOK /\ AttemptLeft /\ [Next]_vars => (TypeOK /\ AttemptLeft)'
<1> SUFFICES ASSUME TypeOK, AttemptLeft, [Next]_vars PROVE (TypeOK /\ AttemptLeft)'
  OBVIOUS
<1> USE TestRootAssumption
    DEF TypeOK, AttemptLeft, Goto, procVars, threadVars, fsVars, NoNumber, Numbers
<1>1. ASSUME NEW p \in Procs, Start(p) \/ CreateErr(p) PROVE (TypeOK /\ AttemptLeft)'
  BY <1>1 DEF Start, CreateErr
<1>2. ASSUME NEW p \in Procs, NEW n \in Names, Pick(p, n) PROVE (TypeOK /\ AttemptLeft)'
  BY <1>2 DEF Pick
<1>3. ASSUME NEW p \in Procs, Created(p) PROVE (TypeOK /\ AttemptLeft)'
  BY <1>3 DEF Created, Adopt
<1>4. ASSUME NEW p \in Procs, AlreadyExists(p) PROVE (TypeOK /\ AttemptLeft)'
  BY <1>4 DEF AlreadyExists
<1>5. ASSUME NEW p \in Procs, NEW t \in Threads, NEW u \in Threads, Clone(p, t, u)
      PROVE  (TypeOK /\ AttemptLeft)'
  BY <1>5 DEF Clone
<1>6. ASSUME NEW p \in Procs, NEW t \in Threads, DropHandle(p, t) \/ Delete(p, t)
      PROVE  (TypeOK /\ AttemptLeft)'
  <2>1. CASE DropHandle(p, t)
    <3>1. /\ handles' \in [Procs -> SUBSET Threads]
          /\ UNCHANGED <<pc, attempts, root, counter, drawn, live, panicked, roots, cases>>
      BY <2>1 DEF DropHandle
    <3> QED
      BY <3>1
  <2>2. CASE Delete(p, t)
    <3>1. /\ handles' \in [Procs -> SUBSET Threads]
          /\ pc' = [pc EXCEPT ![p] = "deleting"]
          /\ UNCHANGED <<attempts, root, counter, drawn, live, panicked, roots, cases>>
      BY <2>2 DEF Delete
    <3> QED
      BY <3>1
  <2> QED
    BY <1>6, <2>1, <2>2
<1>7. ASSUME NEW p \in Procs, NEW t \in Threads, Draw(p, t) PROVE (TypeOK /\ AttemptLeft)'
  BY <1>7 DEF Draw
<1>8. ASSUME NEW p \in Procs, NEW t \in Threads, MakeDir(p, t) PROVE (TypeOK /\ AttemptLeft)'
  <2>1. drawn[p][t] \in Numbers /\ root[p] \in Names \cup {NoName}
    BY <1>8 DEF MakeDir
  <2>2. cases' \subseteq Names \X Numbers
    BY <1>8, <2>1 DEF MakeDir
  <2>3. live' \in [Procs -> SUBSET Numbers]
    <3>1. live[p] \cup {drawn[p][t]} \in SUBSET Numbers
      BY <2>1
    <3>2. live' = live \/ live' = [live EXCEPT ![p] = @ \cup {drawn[p][t]}]
      BY <1>8 DEF MakeDir
    <3> QED
      BY <3>1, <3>2
  <2>4. panicked' \in [Procs -> BOOLEAN]
    <3>1. panicked' = panicked \/ panicked' = [panicked EXCEPT ![p] = TRUE]
      BY <1>8 DEF MakeDir
    <3> QED
      BY <3>1
  <2>5. drawn' \in [Procs -> [Threads -> Numbers \cup {NoNumber}]]
    BY <1>8 DEF MakeDir
  <2> QED
    BY <1>8, <2>2, <2>3, <2>4, <2>5 DEF MakeDir
<1>9. ASSUME NEW p \in Procs, DropTestDir(p) PROVE (TypeOK /\ AttemptLeft)'
  BY <1>9 DEF DropTestDir
<1>10. ASSUME NEW p \in Procs, RemoveCase(p) \/ RemoveRoot(p) PROVE (TypeOK /\ AttemptLeft)'
  BY <1>10 DEF RemoveCase, RemoveRoot
<1>11. ASSUME NEW p \in Procs, Stop(p) PROVE (TypeOK /\ AttemptLeft)'
  BY <1>11 DEF Stop
<1>12. CASE AllStopped \/ UNCHANGED vars
  BY <1>12 DEF AllStopped, vars
<1> QED
  BY <1>1, <1>2, <1>3, <1>4, <1>5, <1>6, <1>7, <1>8, <1>9, <1>10, <1>11, <1>12
  DEF Next, ProcNext

-----------------------------------------------------------------------------
(* The numbers, the roots and the directories. *)

LEMMA NextExclusive ==
  Inv /\ [Next]_vars => (RootsAreExclusive /\ CasesHaveRoots /\ NoneDrawnEarly)'
<1> SUFFICES ASSUME Inv, [Next]_vars
             PROVE  (RootsAreExclusive /\ CasesHaveRoots /\ NoneDrawnEarly)'
  OBVIOUS
<1> USE DEF Inv, NumInv, RootsAreExclusive, HasRoot, CasesHaveRoots, NoneDrawnEarly,
            TypeOK, Goto, procVars, threadVars, fsVars
<1> DEFINE Goal == RootsAreExclusive /\ CasesHaveRoots /\ NoneDrawnEarly
<1>1. ASSUME NEW p \in Procs, Start(p) \/ CreateErr(p) PROVE Goal'
  <2>1. PICK state \in {"trying", "stopped"} : pc' = [pc EXCEPT ![p] = state]
    BY <1>1 DEF Start, CreateErr
  <2>2. pc[p] \in {"idle", "trying"} /\ UNCHANGED <<root, roots, cases, drawn>>
    BY <1>1 DEF Start, CreateErr
  <2>3. \A q \in Procs : HasRoot(q)' => HasRoot(q)
    BY <2>1
  <2>4. \A q \in Procs : pc'[q] \in {"idle", "trying"} => pc[q] \in {"idle", "trying"}
    BY <2>1, <2>2
  <2>5. RootsAreExclusive'
    BY <2>2, <2>3
  <2>6. CasesHaveRoots' /\ NoneDrawnEarly'
    BY <2>2, <2>4
  <2> QED
    BY <2>5, <2>6
<1>2. ASSUME NEW p \in Procs, NEW n \in Names, Pick(p, n) PROVE Goal'
  BY <1>2 DEF Pick
<1>3. ASSUME NEW p \in Procs, Created(p) PROVE Goal'
  BY <1>3 DEF Created, Adopt
<1>4. ASSUME NEW p \in Procs, AlreadyExists(p) PROVE Goal'
  BY <1>4 DEF AlreadyExists
<1>5. ASSUME NEW p \in Procs, NEW t \in Threads, NEW u \in Threads, Clone(p, t, u)
      PROVE  Goal'
  BY <1>5 DEF Clone
<1>6. ASSUME NEW p \in Procs, NEW t \in Threads, DropHandle(p, t) \/ Delete(p, t)
      PROVE  Goal'
  BY <1>6 DEF DropHandle, Delete, Idle
<1>7. ASSUME NEW p \in Procs, NEW t \in Threads, Draw(p, t) PROVE Goal'
  BY <1>7 DEF Draw, Idle
<1>8. ASSUME NEW p \in Procs, NEW t \in Threads, MakeDir(p, t) PROVE Goal'
  BY <1>8 DEF MakeDir
<1>9. ASSUME NEW p \in Procs, DropTestDir(p) PROVE Goal'
  BY <1>9 DEF DropTestDir
<1>10. ASSUME NEW p \in Procs, RemoveCase(p) \/ RemoveRoot(p) PROVE Goal'
  BY <1>10 DEF RemoveCase, RemoveRoot
<1>11. ASSUME NEW p \in Procs, Stop(p) PROVE Goal'
  BY <1>11 DEF Stop
<1>12. CASE AllStopped \/ UNCHANGED vars
  BY <1>12 DEF AllStopped, vars
<1> QED
  BY <1>1, <1>2, <1>3, <1>4, <1>5, <1>6, <1>7, <1>8, <1>9, <1>10, <1>11, <1>12
  DEF Next, ProcNext

LEMMA NextNumbers ==
  Inv /\ [Next]_vars => (NumbersAreNew /\ FreshDirSucceeds)'
<1> SUFFICES ASSUME Inv, [Next]_vars PROVE (NumbersAreNew /\ FreshDirSucceeds)'
  OBVIOUS
<1> USE DEF Inv, NumInv, NumbersAreNew, FreshDirSucceeds,
            TypeOK, Goto, procVars, threadVars, fsVars
<1> DEFINE Goal == NumbersAreNew /\ FreshDirSucceeds
<1>1. ASSUME NEW p \in Procs, Start(p) \/ CreateErr(p) PROVE Goal'
  BY <1>1 DEF Start, CreateErr
<1>2. ASSUME NEW p \in Procs, NEW n \in Names, Pick(p, n) PROVE Goal'
  BY <1>2 DEF Pick
<1>3. ASSUME NEW p \in Procs, Created(p) PROVE Goal'
  BY <1>3 DEF Created, Adopt, CasesHaveRoots, NoneDrawnEarly
<1>4. ASSUME NEW p \in Procs, AlreadyExists(p) PROVE Goal'
  BY <1>4 DEF AlreadyExists
<1>5. ASSUME NEW p \in Procs, NEW t \in Threads, NEW u \in Threads, Clone(p, t, u)
      PROVE  Goal'
  BY <1>5 DEF Clone
<1>6. ASSUME NEW p \in Procs, NEW t \in Threads, DropHandle(p, t) \/ Delete(p, t)
      PROVE  Goal'
  BY <1>6 DEF DropHandle, Delete, Idle
<1>7. ASSUME NEW p \in Procs, NEW t \in Threads, Draw(p, t) PROVE Goal'
  <2> USE <1>7 DEF Draw, Idle
  <2>1. counter[p] \in Nat /\ counter[p] # NoNumber /\ drawn[p] \in [Threads -> Int]
    BY TestRootAssumption DEF NoNumber, Numbers
  <2>2. /\ counter'[p] = counter[p] + 1 /\ drawn'[p] = [drawn[p] EXCEPT ![t] = counter[p]]
        /\ pc' = pc /\ root' = root /\ cases' = cases /\ panicked' = panicked
        /\ \A q \in Procs \ {p} : counter'[q] = counter[q] /\ drawn'[q] = drawn[q]
    OBVIOUS
  <2>3. \A dir \in cases : dir[1] = root[p] =>
          dir[2] \in Int /\ dir[2] < counter[p] /\ dir[2] < counter[p] + 1
    BY <2>1, TestRootAssumption DEF Numbers
  <2>4. <<root[p], counter[p]>> \notin cases
    <3> SUFFICES ASSUME <<root[p], counter[p]>> \in cases PROVE FALSE
      OBVIOUS
    <3>1. counter[p] < counter[p]
      BY <2>3
    <3> QED
      BY <3>1, <2>1
  <2>5. ASSUME NEW v \in Threads, drawn'[p][v] # NoNumber
        PROVE  /\ drawn'[p][v] < counter[p] + 1 /\ <<root[p], drawn'[p][v]>> \notin cases
               /\ \A u \in Threads : drawn'[p][u] = drawn'[p][v] => u = v
    <3>1. CASE v = t
      BY <3>1, <2>1, <2>2, <2>4
    <3>2. CASE v # t
      BY <3>2, <2>1, <2>2, <2>5
    <3> QED
      BY <3>1, <3>2
  <2> QED
    BY <2>2, <2>3, <2>5
<1>8. ASSUME NEW p \in Procs, NEW t \in Threads, MakeDir(p, t) PROVE Goal'
  <2> USE <1>8 DEF MakeDir
  <2> DEFINE dir == <<root[p], drawn[p][t]>>
  <2>1. /\ pc' = pc /\ root' = root /\ counter' = counter
        /\ drawn'[p] = [drawn[p] EXCEPT ![t] = NoNumber]
        /\ \A q \in Procs \ {p} : drawn'[q] = drawn[q]
    OBVIOUS
  <2>2. root[p] \in roots /\ dir \notin cases
    BY DEF RootsAreExclusive, HasRoot
  <2>3. cases' = cases \cup {dir} /\ panicked' = panicked
    BY <2>2
  <2>4. \A q \in Procs \ {p} : pc[q] = "running" => root[q] # root[p]
    BY DEF RootsAreExclusive, HasRoot
  <2>5. \A q \in Procs, d \in cases' : pc[q] = "running" /\ d[1] = root[q] => d[2] < counter[q]
    BY <2>3, <2>4
  <2>6. ASSUME NEW v \in Threads, drawn'[p][v] # NoNumber
        PROVE  /\ drawn'[p][v] < counter[p] /\ <<root[p], drawn'[p][v]>> \notin cases'
               /\ \A u \in Threads : drawn'[p][u] = drawn'[p][v] => u = v
    <3>1. v # t /\ drawn'[p][v] = drawn[p][v]
      BY <2>1, <2>6
    <3>2. drawn[p][v] < counter[p] /\ <<root[p], drawn[p][v]>> \notin cases
          /\ \A u \in Threads : drawn[p][u] = drawn[p][v] => u = v
      BY <2>6, <3>1
    <3>3. <<root[p], drawn[p][v]>> # dir
      BY <3>1, <3>2
    <3>4. \A u \in Threads : drawn'[p][u] = drawn'[p][v] => u # t /\ drawn'[p][u] = drawn[p][u]
      BY <2>1, <2>6
    <3> QED
      BY <2>3, <3>1, <3>2, <3>3, <3>4
  <2>7. ASSUME NEW q \in Procs \ {p}, pc[q] = "running", NEW v \in Threads,
               drawn[q][v] # NoNumber
        PROVE  <<root[q], drawn[q][v]>> \notin cases'
    BY <2>3, <2>4, <2>7
  <2> QED
    BY <2>1, <2>3, <2>5, <2>6, <2>7
<1>9. ASSUME NEW p \in Procs, DropTestDir(p) PROVE Goal'
  BY <1>9 DEF DropTestDir
<1>10. ASSUME NEW p \in Procs, RemoveCase(p) \/ RemoveRoot(p) PROVE Goal'
  BY <1>10 DEF RemoveCase, RemoveRoot
<1>11. ASSUME NEW p \in Procs, Stop(p) PROVE Goal'
  BY <1>11 DEF Stop
<1>12. CASE AllStopped \/ UNCHANGED vars
  BY <1>12 DEF AllStopped, vars
<1> QED
  BY <1>1, <1>2, <1>3, <1>4, <1>5, <1>6, <1>7, <1>8, <1>9, <1>10, <1>11, <1>12
  DEF Next, ProcNext

-----------------------------------------------------------------------------

LEMMA InvHolds == Spec => []Inv
<1>1. Inv /\ [Next]_vars => Inv'
  BY NextTypeOK, NextExclusive, NextNumbers DEF Inv, NumInv
<1> QED
  BY InitInv, <1>1, PTL DEF Spec

\* The types of the variables: in particular, create never tries more than
\* MaxAttempts names.
THEOREM TestRootTypes == Spec => []TypeOK
<1>1. Inv => TypeOK
  BY DEF Inv
<1> QED
  BY InvHolds, <1>1, PTL

\* However many processes make roots in one place, whatever names come up and
\* whatever dead processes have left, no two work in the same root at once, and
\* a root is there until its own process removes it.
THEOREM RootsStayExclusive == Spec => []RootsAreExclusive
<1>1. Inv => RootsAreExclusive
  BY DEF Inv
<1> QED
  BY InvHolds, <1>1, PTL

\* However many threads call fresh_test_dir on clones of a root, the directory
\* it makes is new and its root is there: its expect never fails.
THEOREM FreshDirsSucceed == Spec => []FreshDirSucceeds
<1>1. Inv => FreshDirSucceeds
  BY DEF Inv
<1> QED
  BY InvHolds, <1>1, PTL
=============================================================================
