------------------------------- MODULE Storage -------------------------------
(***************************************************************************)
(* The typed database layer, storage/src/database, over any backend that   *)
(* keeps the promises of KVStore.  Its transactions are the backend's.     *)
(* What it adds is the copy of a whole database: dump_raw reads the maps   *)
(* one after the other in a read-only transaction, while other threads     *)
(* commit, and new_from_dump writes a dump into another database, the      *)
(* target, in one transaction that may fail anywhere.                      *)
(***************************************************************************)
EXTENDS KVStore, Integers

CONSTANTS NumMaps,   \* maps in the schema
          NoDump,    \* there is no dump at hand
          MaxLoads   \* bound: calls of new_from_dump

ASSUME MapIdsAssumption == NumMaps \in Nat \ {0} /\ MapIds = 0 .. NumMaps - 1
ASSUME LoadsAssumption == MaxLoads \in Nat /\ NoDump \notin Contents

VARIABLES next,     \* the map a client's dump_raw reads next
          dump,     \* what it has read so far
          saved,    \* the last dump that was returned
          target,   \* committed contents of the target
          loading,  \* the dump that new_from_dump is writing, if it runs
          todo,     \* the entries it has yet to put
          pending,  \* what its transaction would commit
          loads,    \* calls of new_from_dump so far
          history   \* history: all contents the database ever had

dumpVars == <<next, dump, saved>>
loadVars == <<target, loading, todo, pending, loads>>
allVars == <<vars, dumpVars, loadVars, history>>

Entries(contents) ==
  {e \in MapIds \X Keys : contents[e[1]][e[2]] # None}

StorageInit ==
  /\ Init
  /\ next = [c \in Clients |-> 0]
  /\ dump = [c \in Clients |-> EmptyContents]
  /\ saved = NoDump
  /\ target = EmptyContents /\ loading = NoDump
  /\ todo = {} /\ pending = EmptyContents /\ loads = 0
  /\ history = {EmptyContents}

-----------------------------------------------------------------------------
(* Transactions.  dump_raw borrows its transaction, which cannot end before. *)

Dumping(c) == next[c] > 0

TxBegin(c) ==
  /\ (\E kind \in {"ro", "rw"} : Begin(c, kind)) \/ BeginErr(c)
  /\ UNCHANGED <<dumpVars, loadVars, history>>

TxWrite(c) ==
  /\ \E m \in MapIds, k \in Keys, v \in OptVals : Write(c, m, k, v)
  /\ UNCHANGED <<dumpVars, loadVars, history>>

TxCommit(c) ==
  /\ Commit(c)
  /\ history' = history \cup {store'}
  /\ UNCHANGED <<dumpVars, loadVars>>

TxEnd(c) ==
  /\ ~Dumping(c)
  /\ End(c) \/ CommitCall(c) \/ CommitErr(c)
  /\ UNCHANGED <<dumpVars, loadVars, history>>

-----------------------------------------------------------------------------
(* dump_raw *)

\* Mutant of ReadMap: each map is read from the newest contents.
ReadNewest(c, m) == store[m]

\* Everything in one map: prefix_iter with the empty prefix.
ReadMap(c, m) == view[c][m]

DumpStep(c) ==
  /\ mode[c] = "ro"
  /\ next[c] < NumMaps - 1
  /\ dump' = [dump EXCEPT ![c][next[c]] = ReadMap(c, next[c])]
  /\ next' = [next EXCEPT ![c] = @ + 1]
  /\ UNCHANGED <<vars, saved, loadVars, history>>

DumpReturn(c) ==
  /\ next' = [next EXCEPT ![c] = 0]
  /\ dump' = [dump EXCEPT ![c] = EmptyContents]
  /\ UNCHANGED <<vars, loadVars, history>>

\* The last map is read, and the dump returned.
DumpDone(c) ==
  /\ mode[c] = "ro"
  /\ next[c] = NumMaps - 1
  /\ saved' = [dump[c] EXCEPT ![next[c]] = ReadMap(c, next[c])]
  /\ DumpReturn(c)

\* prefix_iter fails: the maps read so far are forgotten.
DumpErr(c) ==
  /\ Dumping(c)
  /\ DumpReturn(c)
  /\ UNCHANGED saved

-----------------------------------------------------------------------------
(* new_from_dump *)

Loading == loading # NoDump

LoadBegin ==
  /\ ~Loading /\ saved # NoDump /\ loads < MaxLoads
  /\ loading' = saved
  /\ todo' = Entries(saved)
  /\ pending' = target
  /\ loads' = loads + 1
  /\ UNCHANGED <<vars, dumpVars, target, history>>

\* One put; the maps are taken in the order of their indices.
LoadPut ==
  /\ Loading
  /\ \E e \in todo :
       /\ \A f \in todo : e[1] <= f[1]
       /\ pending' = [pending EXCEPT ![e[1]][e[2]] = loading[e[1]][e[2]]]
       /\ todo' = todo \ {e}
  /\ UNCHANGED <<vars, dumpVars, target, loading, loads, history>>

LoadReturn ==
  /\ loading' = NoDump /\ todo' = {} /\ pending' = EmptyContents

\* Mutant of LoadCommit: the commit is inside the loop over the maps.
LoadCommitFirstMap ==
  /\ Loading /\ \A e \in todo : e[1] > 0
  /\ target' = pending
  /\ LoadReturn
  /\ UNCHANGED <<vars, dumpVars, loads, history>>

LoadCommit ==
  /\ Loading /\ todo = {}
  /\ target' = pending
  /\ LoadReturn
  /\ UNCHANGED <<vars, dumpVars, loads, history>>

\* Mutant of LoadErr: what was put before the failure is kept.
LoadErrKeeps ==
  /\ Loading
  /\ target' = pending
  /\ LoadReturn
  /\ UNCHANGED <<vars, dumpVars, loads, history>>

\* A put or the commit fails, or the process of the target dies: new_from_dump
\* returns the error, and its transaction and its handle are dropped.
LoadErr ==
  /\ Loading
  /\ LoadReturn
  /\ UNCHANGED <<vars, dumpVars, target, loads, history>>

\* The process dies and the database is opened again.
StorageRestart ==
  /\ Restart
  /\ next' = [c \in Clients |-> 0]
  /\ dump' = [c \in Clients |-> EmptyContents]
  /\ UNCHANGED <<saved, loadVars, history>>

StorageNext ==
  \/ \E c \in Clients :
       \/ TxBegin(c) \/ TxWrite(c) \/ TxCommit(c) \/ TxEnd(c)
       \/ DumpStep(c) \/ DumpDone(c) \/ DumpErr(c)
  \/ LoadBegin \/ LoadPut \/ LoadCommit \/ LoadErr
  \/ StorageRestart

StorageSpec == StorageInit /\ [][StorageNext]_allVars

-----------------------------------------------------------------------------

StorageTypeOK ==
  /\ TypeOK
  /\ next \in [Clients -> 0 .. NumMaps - 1]
  /\ dump \in [Clients -> Contents]
  /\ saved \in Contents \cup {NoDump} /\ loading \in Contents \cup {NoDump}
  /\ target \in Contents /\ pending \in Contents
  /\ todo \subseteq MapIds \X Keys
  /\ loads \in 0 .. MaxLoads
  /\ history \subseteq Contents

\* A dump shows all maps as they were at one moment: it is one of the contents
\* the database had, whatever was committed between the maps that dump_raw read.
DumpIsCommittedState == saved # NoDump => saved \in history

\* A target that started empty and into which at most one call has written is
\* empty or holds a state the database had, even when the call failed halfway.
CopyIsCommittedState == loads <= 1 => target \in history

\* new_from_dump is all or nothing, and on a target that is not empty it lays
\* the dump over what is there: an entry that the dump lacks stays.
LoadOverlaysDump ==
  [][target' # target =>
       target' = [m \in MapIds |-> [k \in Keys |->
                    IF loading[m][k] # None THEN loading[m][k]
                    ELSE target[m][k]]]]_allVars
=============================================================================
