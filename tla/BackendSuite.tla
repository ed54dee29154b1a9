----------------------------- MODULE BackendSuite -----------------------------
(***************************************************************************)
(* The test suite that every backend has to pass,                          *)
(* storage/backend-test-suite: its tests as programs of transactions, run  *)
(* by up to three threads against a backend of which nothing is known but  *)
(* the contract, KVStore, and for which open transactions a begin waits.   *)
(* A run of a test sees one schedule of one backend; here every test meets *)
(* every schedule of every backend.                                        *)
(*                                                                         *)
(* What a test draws at random is part of its program, from small sets;    *)
(* values are numbers, because the tests only compare them.  Backends do   *)
(* not fail: a test that meets an error fails by unwrapping it.            *)
(***************************************************************************)
EXTENDS KVStore, KeyOrder, SequencesExt

CONSTANTS NumDbs,         \* maps of a database with several
          RandomKeys, RandomVals,  \* what the generators draw from
          RandomCells,    \* pairs of a map and a key
          RandomActions,  \* pairs of a key and a value to put, or None to delete it
          MaxActions      \* bound: length of a random sequence

ASSUME ThreadsAssumption == Clients = {"main", "thr0", "thr1"}
ASSUME SuiteMapsAssumption == NumDbs \in Nat \ {0, 1} /\ MapIds = 0 .. NumDbs - 1
ASSUME SuiteDataAssumption ==
  /\ Keys \subseteq Data /\ Vals \subseteq Nat /\ 0 .. 11 \subseteq Vals
  /\ RandomKeys \subseteq Keys /\ RandomVals \subseteq Vals
  /\ RandomCells \subseteq MapIds \X Keys /\ IsFiniteSet(RandomCells)
  /\ RandomActions \subseteq Keys \X (Vals \cup {None})
  /\ MaxActions \in Nat

VARIABLES program,   \* the steps of each thread
          blocking,  \* when a begin waits: pairs of the kinds begun and open
          pc,        \* the step each thread is at; 0 before it is spawned
          kept       \* models that a test has dumped and remembered

suiteVars == <<program, blocking, pc, kept>>

-----------------------------------------------------------------------------
(* model.rs: the reference implementation of one map.                       *)

Model == [k \in Keys |-> None]
ApplyAction(model, act) == [model EXCEPT ![act[1]] = act[2]]
Extend(model, acts) ==
  LET after[n \in 0 .. Len(acts)] ==
        IF n = 0 THEN model ELSE ApplyAction(after[n - 1], acts[n])
  IN  after[Len(acts)]
FromActions(acts) == Extend(Model, acts)

\* The entries in order whose key has the prefix: of a model, and of a map as
\* a transaction iterates over it.
Matching(model, p) == {k \in Keys : model[k] # None /\ StartsWith(k, p)}
Iter(model, p) ==
  LET found == Restrict(model, Matching(model, p))
      keys == Sorted(DOMAIN found)
  IN  [i \in DOMAIN keys |-> <<keys[i], found[keys[i]]>>]

MapKey(act, pfx) == <<pfx \o act[1], act[2]>>

-----------------------------------------------------------------------------
(* The steps that tests are made of, each a sequence of one.                *)

Ro == <<[op |-> "begin", kind |-> "ro"]>>
Rw == <<[op |-> "begin", kind |-> "rw"]>>
Drop == <<[op |-> "drop"]>>
Committed == <<[op |-> "commit"]>>
Put(m, k, v) == <<[op |-> "write", map |-> m, key |-> k, val |-> v]>>
Del(m, k) == Put(m, k, None)
Add(k, n) == <<[op |-> "add", key |-> k, addend |-> n]>>
DelAll(p) == <<[op |-> "delall", prefix |-> p]>>

\* Assertions on what get returns, and on what prefix_iter yields.
Get(m, k, among) == <<[op |-> "get", map |-> m, key |-> k, among |-> among]>>
Iterate(p, entries) == <<[op |-> "iter", prefix |-> p, entries |-> entries]>>
IterateVals(p, vals) == <<[op |-> "vals", prefix |-> p, vals |-> vals]>>
Count(n) == <<[op |-> "count", count |-> n]>>

\* Model::from_tx, remembered under a name, and compared with the one that is.
FromTx(name) == <<[op |-> "keep", name |-> name]>>
IsFromTx(name) == <<[op |-> "same", name |-> name]>>

Spawn(t) == <<[op |-> "spawn", thread |-> t]>>
Join(t) == <<[op |-> "join", thread |-> t]>>

\* A loop over the elements of a sequence, with one step for each.
Each(s, One(_)) == [i \in DOMAIN s |-> Head(One(s[i]))]

ApplyActions(m, acts) == Each(acts, LAMBDA a : Put(m, a[1], a[2]))
IsModel(model) == Iterate(<<>>, Iter(model, <<>>))

\* Model::from_db: a dump in a transaction of its own.
FromDb(name) == Ro \o FromTx(name) \o Drop
IsFromDb(name) == Ro \o IsFromTx(name) \o Drop
DbIsModel(model) == Ro \o IsModel(model) \o Drop

-----------------------------------------------------------------------------
(* basic.rs.  Keys are spelt in bytes; 10 and 11 are the values "00", "11". *)

Ka == <<97>>
Kb == <<98>>
Kc == <<99>>
Kf == <<102>>
Kx == <<120>>
Kz == <<122>>
Hello == <<104>>

ASSUME FixedKeysAssumption ==
  {<<n>> : n \in 0 .. 3} \cup
    {Ka, Kb, Kf, Kx, Hello, Ka \o Ka, Ka \o Kb, Ka \o Kc, Ka \o Kc \o Ka,
     Ka \o Kc \o Kb, Kb \o Kb, Kb \o Kf, Kb \o Kz} \subseteq Keys

put_and_commit ==
  Rw \o Put(0, Hello, 1) \o Committed \o Ro \o Get(0, Hello, {1}) \o Drop

put_and_abort ==
  Rw \o Put(0, Hello, 1) \o Drop \o Ro \o Get(0, Hello, {None}) \o Drop

put_two_under_different_keys ==
  LET Two == Ro \o Get(0, Ka, {0}) \o Get(0, Kb, {1}) \o Drop
  IN  Rw \o Put(0, Ka, 0) \o Put(0, Kb, 1) \o Committed \o Two
      \o Rw \o Put(0, Ka, 10) \o Put(0, Kb, 11) \o Drop \o Two

put_twice_then_commit_read_last ==
  Rw \o Put(0, Hello, 1) \o Get(0, Hello, {1})
     \o Put(0, Hello, 2) \o Get(0, Hello, {2}) \o Committed
  \o Ro \o Get(0, Hello, {2}) \o Drop

put_iterator_count_matches ==
  Rw \o Each(<<0, 1, 2, 3>>, LAMBDA n : Put(0, <<n>>, 0)) \o Committed
  \o Ro \o Count(4) \o Drop

put_and_iterate_over_prefixes ==
  LET entries == << <<Ka \o Kc, 2>>, <<Kb \o Kf, 7>>, <<Ka \o Kb, 1>>,
                    <<Ka \o Kc \o Ka, 3>>, <<Kb \o Kz, 8>>, <<Kx, 9>>, <<Kb \o Kb, 6>>,
                    <<Kb, 5>>, <<Ka \o Kc \o Kb, 4>>, <<Ka \o Ka, 0>> >>
      check(lo, hi, p) ==
        Ro \o IterateVals(p, [i \in 1 .. hi - lo + 1 |-> lo + i - 1]) \o Drop
  IN  Rw \o ApplyActions(0, entries) \o Committed
      \o Ro \o IterateVals(Kf, <<>>) \o Drop
      \o check(0, 9, <<>>) \o check(0, 4, Ka) \o check(0, 0, Ka \o Ka)
      \o check(2, 4, Ka \o Kc) \o check(5, 8, Kb) \o check(9, 9, Kx)

put_and_iterate_delete_some ==
  LET full0 == << <<Ka \o Ka, 0>>, <<Ka \o Kb, 1>>, <<Ka \o Kc, 2>>,
                  <<Ka \o Kc \o Ka, 3>>, <<Ka \o Kc \o Kb, 4>>, <<Kb, 5>> >>
      full1 == << full0[1], full0[3], full0[5], full0[6] >>
      \* check_prefix for the three prefixes
      Contents0 == Iterate(<<>>, full0) \o Iterate(Ka \o Ka, <<full0[1]>>)
                   \o Iterate(Ka \o Kc, <<full0[3], full0[4], full0[5]>>)
      Contents1 == Iterate(<<>>, full1) \o Iterate(Ka \o Ka, <<full0[1]>>)
                   \o Iterate(Ka \o Kc, <<full0[3], full0[5]>>)
      DelSome == Del(0, Ka \o Kc \o Ka) \o Del(0, Ka \o Kb)
  IN  Rw \o ApplyActions(0, full0) \o Contents0 \o Committed
      \o Ro \o Contents0 \o Drop
      \o Rw \o DelSome \o Contents1 \o Drop \o Ro \o Contents0 \o Drop
      \o Rw \o DelSome \o Contents1 \o Committed \o Ro \o Contents1 \o Drop

-----------------------------------------------------------------------------
(* concurrent.rs                                                            *)

TEST_KEY == Kf

Alone(steps) == [main |-> steps, thr0 |-> <<>>, thr1 |-> <<>>]

setup(init) == Rw \o Put(0, TEST_KEY, init) \o Committed
Writer(k, v) == Rw \o Put(0, k, v) \o Committed
Adder(n) == Rw \o Add(TEST_KEY, n) \o Committed
Reader(among) == Ro \o Get(0, TEST_KEY, among) \o Drop

read_initialize_race ==
  [Alone(Spawn("thr0") \o Reader({None, 2}) \o Join("thr0"))
     EXCEPT !.thr0 = Writer(TEST_KEY, 2)]

\* Mutant of read_write_race: the transaction is dropped after the join.
read_write_race_late_drop ==
  [Alone(setup(0) \o Spawn("thr0") \o Ro \o Get(0, TEST_KEY, {0, 2})
         \o Join("thr0") \o Drop)
     EXCEPT !.thr0 = Writer(TEST_KEY, 2)]

read_write_race ==
  [Alone(setup(0) \o Spawn("thr0") \o Reader({0, 2}) \o Join("thr0"))
     EXCEPT !.thr0 = Writer(TEST_KEY, 2)]

commutative_read_modify_write ==
  [main |-> setup(0) \o Spawn("thr0") \o Spawn("thr1") \o Join("thr0") \o Join("thr1")
            \o Reader({8}),
   thr0 |-> Adder(5), thr1 |-> Adder(3)]

threaded_reads_consistent ==
  [main |-> setup(7) \o Spawn("thr0") \o Spawn("thr1") \o Join("thr0") \o Join("thr1"),
   thr0 |-> Reader({7}), thr1 |-> Reader({7})]

write_different_keys_and_iterate ==
  [main |-> Spawn("thr0") \o Spawn("thr1") \o Join("thr0") \o Join("thr1")
            \o Ro \o Iterate(<<>>, << <<<<1>>, 1>>, <<<<2>>, 2>> >>) \o Drop,
   thr0 |-> Writer(<<1>>, 1), thr1 |-> Writer(<<2>>, 2)]

-----------------------------------------------------------------------------
(* property.rs: a set of programs for each test, one for every input.       *)

actions == SeqOf(RandomActions, MaxActions)
entries == UNION {[cells -> RandomVals] : cells \in SUBSET RandomCells}

\* The keys of a BTreeMap of entries, in an order: each occurs once, so that it
\* does not matter in which.
Listed(es) == SetToSeq(DOMAIN es)

PutAll(es) == Each(Listed(es), LAMBDA e : Put(e[1], e[2], es[e]))
GetAll(es) == Each(Listed(es), LAMBDA e : Get(e[1], e[2], {es[e]}))
DelKeys(es) == Each(Listed(es), LAMBDA e : Del(e[1], e[2]))
AbsentKeys(es) == Each(Listed(es), LAMBDA e : Get(e[1], e[2], {None}))

overwrite_and_abort ==
  LET test(k, v, w) ==
        Ro \o Get(0, k, {None}) \o Drop
        \o Rw \o Put(0, k, v) \o Committed \o Ro \o Get(0, k, {v}) \o Drop
        \o Rw \o Put(0, k, w) \o Drop \o Ro \o Get(0, k, {v}) \o Drop
        \o Rw \o Put(0, k, w) \o Committed \o Ro \o Get(0, k, {w}) \o Drop
  IN  {test(in[1], in[2], in[3]) :
         in \in {x \in RandomKeys \X RandomVals \X RandomVals : x[2] # x[3]}}

add_and_delete ==
  {Rw \o PutAll(es) \o Committed \o Ro \o GetAll(es) \o Drop
   \o Rw \o DelKeys(es) \o Committed \o Ro \o AbsentKeys(es) \o Drop : es \in entries}

last_write_wins ==
  LET test(k, vs) ==
        Rw \o Each(vs, LAMBDA v : Put(0, k, v)) \o Committed
        \o Ro \o Get(0, k, {IF vs = <<>> THEN None ELSE vs[Len(vs)]}) \o Drop
  IN  {test(in[1], in[2]) : in \in RandomKeys \X SeqOf(RandomVals, MaxActions)}

\* The expected value of a key is that of the second set before the first's.
add_and_delete_some ==
  LET Expected(es, e) ==
        {IF e \in DOMAIN es[2] THEN es[2][e]
         ELSE IF e \in DOMAIN es[1] THEN es[1][e] ELSE None}
      test(es, extra) ==
        LET all == Listed(es[1]) \o Listed(es[2]) \o extra
            remain == Restrict(es[1], DOMAIN es[1] \ DOMAIN es[2])
        IN  Rw \o PutAll(es[1]) \o PutAll(es[2]) \o Committed
            \o Ro \o Each(all, LAMBDA e : Get(e[1], e[2], Expected(es, e))) \o Drop
            \o Rw \o DelKeys(es[2]) \o Committed
            \o Ro \o AbsentKeys(es[2]) \o GetAll(remain) \o Drop
  IN  {test(in[1], in[2]) : in \in (entries \X entries) \X SeqOf(RandomCells, 1)}

add_modify_abort_modify_commit ==
  {LET model == FromActions(as[1])
   IN  Rw \o ApplyActions(0, as[1]) \o Committed \o DbIsModel(model)
       \o Rw \o ApplyActions(0, as[2]) \o IsModel(Extend(model, as[2])) \o Drop
       \o DbIsModel(model)
       \o Rw \o ApplyActions(0, as[3]) \o Committed \o DbIsModel(Extend(model, as[3])) :
     as \in actions \X actions \X actions}

add_modify_abort_replay_commit ==
  {Rw \o ApplyActions(0, as[1]) \o Committed \o FromDb("initial")
   \o Rw \o ApplyActions(0, as[2]) \o FromTx("modified") \o Drop \o IsFromDb("initial")
   \o Rw \o ApplyActions(0, as[2]) \o Committed \o IsFromDb("modified") :
     as \in actions \X actions}

db_writes_do_not_interfere ==
  {Rw \o ApplyActions(0, as[1]) \o Committed \o FromDb("initial")
   \o Rw \o ApplyActions(1, as[2]) \o Committed \o IsFromDb("initial") :
     as \in actions \X actions}

empty_after_abort ==
  LET test(acts, ks) ==
        Rw \o ApplyActions(0, acts)
        \o Each(ks, LAMBDA k : Get(0, k, {FromActions(acts)[k]})) \o Drop
        \o Ro \o Each(ks, LAMBDA k : Get(0, k, {None})) \o Drop
  IN  {test(in[1], in[2]) : in \in actions \X SeqOf(RandomKeys, MaxActions)}

prefix_iteration ==
  {LET add_prefix(acts, pfx) == [i \in DOMAIN acts |-> MapKey(acts[i], pfx)]
       actions_a == add_prefix(as[1], Ka)
       actions_b == add_prefix(as[2], Kb)
       Check(p, model) == Ro \o Iterate(p, Iter(model, <<>>)) \o Drop
   IN  Rw \o ApplyActions(0, actions_a \o actions_b) \o Committed
       \o Check(Ka, FromActions(actions_a)) \o Check(Kb, FromActions(actions_b))
       \o Check(Kc, Model)
       \o Rw \o DelAll(Ka) \o Committed \o Check(Ka, Model) :
     as \in actions \X actions}

post_commit_consistency ==
  {Rw \o ApplyActions(0, acts) \o FromTx("modified") \o Committed
   \o IsFromDb("modified") : acts \in actions}

-----------------------------------------------------------------------------
(* Running a test.                                                          *)

\* For which open transactions, of other threads or its own, a begin waits.
Mutex == {"ro", "rw"} \X {"ro", "rw"}                       \* SQLite
RwLock == {<<"ro", "rw">>, <<"rw", "ro">>, <<"rw", "rw">>}  \* the locking adaptor
OneWriter == {<<"rw", "rw">>}                               \* LMDB
Resizing == {<<"rw", "ro">>, <<"rw", "rw">>}                \* LMDB, a resize is scheduled

basic ==
  {put_and_abort, put_and_commit, put_and_iterate_delete_some,
   put_and_iterate_over_prefixes, put_iterator_count_matches,
   put_twice_then_commit_read_last, put_two_under_different_keys}
concurrent ==
  {commutative_read_modify_write, read_initialize_race, read_write_race,
   threaded_reads_consistent, write_different_keys_and_iterate}
property ==
  UNION {add_and_delete, add_and_delete_some, add_modify_abort_modify_commit,
         add_modify_abort_replay_commit, db_writes_do_not_interfere,
         empty_after_abort, last_write_wins, overwrite_and_abort,
         post_commit_consistency, prefix_iteration}

\* One thread alone waits at most for itself, and under Mutex for all it has open.
SuiteInit ==
  /\ Init
  /\ \/ program \in {Alone(steps) : steps \in basic \cup property} /\ blocking = Mutex
     \/ program \in concurrent /\ blocking \in {Mutex, RwLock, OneWriter, Resizing}
  /\ pc = [c \in Clients |-> IF c = "main" THEN 1 ELSE 0]
  /\ kept = [name \in {"initial", "modified"} |-> <<>>]

Finished(c) == pc[c] > Len(program[c])
Running(c) == pc[c] > 0 /\ ~Finished(c)
Step(c) == program[c][pc[c]]
At(c, op) == Running(c) /\ Step(c).op = op

Advance(c) ==
  /\ pc' = [pc EXCEPT ![c] = @ + 1]
  /\ UNCHANGED <<program, blocking>>

\* The threads a thread waits for, at a begin and at a join.
WaitsFor(c) ==
  CASE At(c, "begin") -> {d \in Clients : <<Step(c).kind, mode[d]>> \in blocking}
    [] At(c, "join") -> {Step(c).thread} \ {d \in Clients : Finished(d)}
    [] OTHER -> {}

\* prefix_iter of a thread's transaction over map 0, collected.
PrefixIter(c, p) == Iter(view[c][0], p)

Asserts == {"get", "iter", "vals", "count", "same"}

Holds(c) ==
  LET s == Step(c)
  IN  CASE s.op = "get" -> view[c][s.map][s.key] \in s.among
        [] s.op = "iter" -> PrefixIter(c, s.prefix) = s.entries
        [] s.op = "vals" -> LET found == PrefixIter(c, s.prefix)
                            IN  [i \in DOMAIN found |-> found[i][2]] = s.vals
        [] s.op = "count" -> Len(PrefixIter(c, <<>>)) = s.count
        [] s.op = "same" -> PrefixIter(c, <<>>) = kept[s.name]

DoBegin(c) ==
  /\ At(c, "begin") /\ WaitsFor(c) = {}
  /\ Begin(c, Step(c).kind)
  /\ Advance(c) /\ UNCHANGED kept

DoWrite(c) ==
  /\ At(c, "write")
  /\ Write(c, Step(c).map, Step(c).key, Step(c).val)
  /\ Advance(c) /\ UNCHANGED kept

\* A value is read, added to and put back.
DoAdd(c) ==
  /\ At(c, "add")
  /\ Write(c, 0, Step(c).key, view[c][0][Step(c).key] + Step(c).addend)
  /\ Advance(c) /\ UNCHANGED kept

\* The entries with a prefix are deleted one after the other, in their order.
DoDelAll(c) ==
  /\ At(c, "delall")
  /\ LET found == Matching(view[c][0], Step(c).prefix)
     IN  \/ found = {} /\ Advance(c) /\ UNCHANGED vars
         \/ \E k \in found :
              /\ \A j \in found \ {k} : Less(k, j)
              /\ Write(c, 0, k, None) /\ UNCHANGED <<program, blocking, pc>>
  /\ UNCHANGED kept

DoCommit(c) == At(c, "commit") /\ Commit(c) /\ Advance(c) /\ UNCHANGED kept
DoDrop(c) == At(c, "drop") /\ End(c) /\ Advance(c) /\ UNCHANGED kept

DoAssert(c) ==
  /\ Running(c) /\ Step(c).op \in Asserts
  /\ Holds(c)
  /\ Advance(c) /\ UNCHANGED <<vars, kept>>

DoKeep(c) ==
  /\ At(c, "keep")
  /\ kept' = [kept EXCEPT ![Step(c).name] = PrefixIter(c, <<>>)]
  /\ Advance(c) /\ UNCHANGED vars

DoSpawn(c) ==
  /\ At(c, "spawn")
  /\ pc' = [pc EXCEPT ![c] = @ + 1, ![Step(c).thread] = 1]
  /\ UNCHANGED <<vars, program, blocking, kept>>

DoJoin(c) ==
  /\ At(c, "join") /\ WaitsFor(c) = {}
  /\ Advance(c) /\ UNCHANGED <<vars, kept>>

\* The test has returned.
Passed == Finished("main") /\ UNCHANGED <<vars, suiteVars>>

SuiteNext ==
  \/ \E c \in Clients :
       \/ DoBegin(c) \/ DoWrite(c) \/ DoAdd(c) \/ DoDelAll(c) \/ DoCommit(c)
       \/ DoDrop(c) \/ DoAssert(c) \/ DoKeep(c) \/ DoSpawn(c) \/ DoJoin(c)
  \/ Passed

SuiteSpec == SuiteInit /\ [][SuiteNext]_<<vars, suiteVars>>

-----------------------------------------------------------------------------

\* No backend that keeps the contract, however it schedules the transactions
\* of a test's threads, fails a test: every assertion holds when it is reached.
NoTestFails == \A c \in Clients : Running(c) /\ Step(c).op \in Asserts => Holds(c)

\* No test hangs: while threads run, one of them waits for nobody.  A thread
\* that begins a transaction with another one open, or joins a thread that
\* waits for its transaction, would hang a backend that has fewer at a time.
NoTestHangs ==
  (\E c \in Clients : Running(c)) =>
    \E c \in Clients : Running(c) /\ WaitsFor(c) = {}
=============================================================================
