------------------------------- MODULE TestRoot ------------------------------
(***************************************************************************)
(* Test directories, test-utils/src/test_dir.rs: each run of a test binary *)
(* makes itself a root directory with a random name, and each test in it a *)
(* numbered directory below that.  Runs are processes that know nothing of *)
(* each other but the file system; a process may die and leave its root    *)
(* behind.  The tests of one run are threads that share the root in an Arc *)
(* and draw their numbers from one counter.                                *)
(***************************************************************************)
EXTENDS Integers

CONSTANTS Procs,        \* runs of test binaries
          Threads,      \* threads of each
          Names,        \* the random names that may come up
          NoName,
          MaxAttempts,  \* the length of backoff_delays: 10 in the code
          MaxCases      \* bound: directories a run asks for

ASSUME TestRootAssumption == /\ MaxAttempts \in Nat \ {0} /\ MaxCases \in Nat
                             /\ NoName \notin Names

VARIABLES pc,        \* where each process is
          attempts,  \* names it has tried in vain
          root,      \* its root's name
          handles,   \* threads that hold a clone of its TestRoot
          counter,   \* TestRootImpl::counter
          drawn,     \* the number a thread has drawn for its next directory
          live,      \* numbers of the TestDirs that its threads hold
          panicked,  \* create_dir has failed in fresh_test_dir
          roots,     \* file system: the roots that exist
          cases      \* file system: the numbered directories below them

procVars == <<attempts, root>>
threadVars == <<handles, counter, drawn, live, panicked>>
fsVars == <<roots, cases>>
vars == <<pc, procVars, threadVars, fsVars>>

NoNumber == -1
Numbers == 0 .. MaxCases - 1

Init ==
  /\ pc = [p \in Procs |-> "idle"]
  /\ attempts = [p \in Procs |-> 0] /\ root = [p \in Procs |-> NoName]
  /\ handles = [p \in Procs |-> {}] /\ counter = [p \in Procs |-> 0]
  /\ drawn = [p \in Procs |-> [t \in Threads |-> NoNumber]]
  /\ live = [p \in Procs |-> {}] /\ panicked = [p \in Procs |-> FALSE]
  /\ roots = {} /\ cases = {}

Goto(p, state) == pc' = [pc EXCEPT ![p] = state]

-----------------------------------------------------------------------------
(* TestRoot::create *)

Start(p) ==
  /\ pc[p] = "idle"
  /\ Goto(p, "trying")
  /\ UNCHANGED <<procVars, threadVars, fsVars>>

\* A random name for the next attempt.
Pick(p, n) ==
  /\ pc[p] = "trying" /\ attempts[p] < MaxAttempts
  /\ root[p] = NoName
  /\ root' = [root EXCEPT ![p] = n]
  /\ UNCHANGED <<pc, attempts, threadVars, fsVars>>

\* The directory is this process's own: a handle for the calling thread.
Adopt(p) ==
  /\ pc[p] = "trying" /\ root[p] # NoName
  /\ Goto(p, "running")
  /\ \E t \in Threads : handles' = [handles EXCEPT ![p] = {t}]
  /\ counter' = [counter EXCEPT ![p] = 0]
  /\ roots' = roots \cup {root[p]}
  /\ UNCHANGED <<procVars, drawn, live, panicked, cases>>

\* Mutant of Created: a directory that exists is as good.
CreatedOrFound(p) == Adopt(p)

\* DirCreationOutcome::Created
Created(p) == root[p] \notin roots /\ Adopt(p)

\* Mutants of AlreadyExists: attempts are not counted; the same name is tried
\* again for ever.
AlreadyExistsUncounted(p) ==
  /\ pc[p] = "trying" /\ root[p] \in roots
  /\ root' = [root EXCEPT ![p] = NoName]
  /\ UNCHANGED <<pc, attempts, threadVars, fsVars>>

AlreadyExistsSameName(p) ==
  /\ pc[p] = "trying" /\ root[p] \in roots
  /\ attempts' = [attempts EXCEPT ![p] = @ + 1]
  /\ UNCHANGED <<pc, root, threadVars, fsVars>>

\* DirCreationOutcome::AlreadyExists: sleep, then try another name.
AlreadyExists(p) ==
  /\ pc[p] = "trying" /\ root[p] \in roots
  /\ attempts' = [attempts EXCEPT ![p] = @ + 1]
  /\ root' = [root EXCEPT ![p] = NoName]
  /\ UNCHANGED <<pc, threadVars, fsVars>>

\* "All attempted directory names exist", or any other error.
CreateErr(p) ==
  /\ pc[p] = "trying"
  /\ Goto(p, "stopped")
  /\ UNCHANGED <<procVars, threadVars, fsVars>>

-----------------------------------------------------------------------------
(* TestRoot::fresh_test_dir, and the life of the handles *)

Idle(p, t) == pc[p] = "running" /\ t \in handles[p] /\ drawn[p][t] = NoNumber

Clone(p, t, u) ==
  /\ Idle(p, t) /\ u \notin handles[p]
  /\ handles' = [handles EXCEPT ![p] = @ \cup {u}]
  /\ UNCHANGED <<pc, procVars, counter, drawn, live, panicked, fsVars>>

\* Also what a call of delete comes to if there are other clones: it panics,
\* and its own is dropped.
DropHandle(p, t) ==
  /\ Idle(p, t)
  /\ handles' = [handles EXCEPT ![p] = @ \ {t}]
  /\ UNCHANGED <<pc, procVars, counter, drawn, live, panicked, fsVars>>

\* Mutant of Draw: the number of the directories so far, which another thread
\* may be about to add to.
DrawUnreserved(p, t) ==
  /\ Idle(p, t) /\ counter[p] < MaxCases
  /\ \E i \in Numbers :
       /\ \A j \in Numbers : j < i <=> <<root[p], j>> \in cases
       /\ drawn' = [drawn EXCEPT ![p][t] = i]
  /\ counter' = [counter EXCEPT ![p] = @ + 1]
  /\ UNCHANGED <<pc, procVars, handles, live, panicked, fsVars>>

\* counter.fetch_add(1)
Draw(p, t) ==
  /\ Idle(p, t) /\ counter[p] < MaxCases
  /\ drawn' = [drawn EXCEPT ![p][t] = counter[p]]
  /\ counter' = [counter EXCEPT ![p] = @ + 1]
  /\ UNCHANGED <<pc, procVars, handles, live, panicked, fsVars>>

\* create_dir(..).expect("directory creation to succeed").  The path also has the
\* test's name, which may be the same for all.
MakeDir(p, t) ==
  LET dir == <<root[p], drawn[p][t]>> IN
  /\ pc[p] = "running" /\ drawn[p][t] # NoNumber
  /\ IF root[p] \in roots /\ dir \notin cases
     THEN /\ cases' = cases \cup {dir}
          /\ live' = [live EXCEPT ![p] = @ \cup {drawn[p][t]}]
          /\ UNCHANGED panicked
     ELSE /\ panicked' = [panicked EXCEPT ![p] = TRUE]
          /\ UNCHANGED <<cases, live>>
  /\ drawn' = [drawn EXCEPT ![p][t] = NoNumber]
  /\ UNCHANGED <<pc, procVars, handles, counter, roots>>

\* A test is over and drops its TestDir; the directory stays.
DropTestDir(p) ==
  /\ pc[p] # "stopped"
  /\ \E i \in live[p] : live' = [live EXCEPT ![p] = @ \ {i}]
  /\ UNCHANGED <<pc, procVars, handles, counter, drawn, panicked, fsVars>>

-----------------------------------------------------------------------------
(* TestRoot::delete, and the end of a process *)

\* Arc::try_unwrap succeeds.
Delete(p, t) ==
  /\ Idle(p, t)
  /\ handles[p] = {t}
  /\ Goto(p, "deleting")
  /\ handles' = [handles EXCEPT ![p] = {}]
  /\ UNCHANGED <<procVars, counter, drawn, live, panicked, fsVars>>

\* remove_dir_all takes what is below the root first.
RemoveCase(p) ==
  /\ pc[p] = "deleting"
  /\ \E dir \in cases : dir[1] = root[p] /\ cases' = cases \ {dir}
  /\ UNCHANGED <<pc, procVars, threadVars, roots>>

RemoveRoot(p) ==
  /\ pc[p] = "deleting"
  /\ \A dir \in cases : dir[1] # root[p]
  /\ Goto(p, "deleted")
  /\ roots' = roots \ {root[p]}
  /\ UNCHANGED <<procVars, threadVars, cases>>

\* The end of the process, after a panic in one of its tests or anywhere; also
\* an error of remove_dir_all, which is only printed.
Stop(p) ==
  /\ pc[p] \notin {"idle", "stopped"}
  /\ Goto(p, "stopped")
  /\ handles' = [handles EXCEPT ![p] = {}]
  /\ live' = [live EXCEPT ![p] = {}]
  /\ drawn' = [drawn EXCEPT ![p] = [t \in Threads |-> NoNumber]]
  /\ UNCHANGED <<procVars, counter, panicked, fsVars>>

AllStopped == (\A p \in Procs : pc[p] = "stopped") /\ UNCHANGED vars

ProcNext(p) ==
  \/ Start(p) \/ CreateErr(p)
  \/ \E n \in Names : Pick(p, n)
  \/ Created(p) \/ AlreadyExists(p)
  \/ \E t \in Threads :
       \/ \E u \in Threads : Clone(p, t, u)
       \/ DropHandle(p, t) \/ Draw(p, t) \/ MakeDir(p, t) \/ Delete(p, t)
  \/ DropTestDir(p) \/ RemoveCase(p) \/ RemoveRoot(p) \/ Stop(p)

Next == (\E p \in Procs : ProcNext(p)) \/ AllStopped

Spec == Init /\ [][Next]_vars

\* A process that is looking for a name goes on.
Fairness ==
  \A p \in Procs :
    /\ WF_vars(CreateErr(p) /\ attempts[p] = MaxAttempts)
    /\ WF_vars(\E n \in Names : Pick(p, n))
    /\ WF_vars(Created(p) \/ AlreadyExists(p))

FairSpec == Spec /\ Fairness

-----------------------------------------------------------------------------

TypeOK ==
  /\ pc \in [Procs -> {"idle", "trying", "running", "deleting", "deleted", "stopped"}]
  /\ attempts \in [Procs -> 0 .. MaxAttempts]
  /\ root \in [Procs -> Names \cup {NoName}]
  /\ handles \in [Procs -> SUBSET Threads]
  /\ counter \in [Procs -> 0 .. MaxCases]
  /\ drawn \in [Procs -> [Threads -> Numbers \cup {NoNumber}]]
  /\ live \in [Procs -> SUBSET Numbers]
  /\ panicked \in [Procs -> BOOLEAN]
  /\ roots \subseteq Names /\ cases \subseteq Names \X Numbers

HasRoot(p) == pc[p] \in {"running", "deleting"}

\* No two processes that run at the same time work below, or delete, the same
\* root, whatever names come up and whatever dead processes have left behind;
\* and a root stays until its own process removes it.
RootsAreExclusive ==
  \A p, q \in Procs :
    /\ HasRoot(p) => root[p] \in roots
    /\ HasRoot(p) /\ HasRoot(q) /\ root[p] = root[q] => p = q

\* fresh_test_dir never finds its directory taken or its root gone.
FreshDirSucceeds == \A p \in Procs : ~panicked[p]

\* The call of create returns, however many names are taken.
CreateReturns == \A p \in Procs : pc[p] = "trying" ~> pc[p] # "trying"
=============================================================================
