# A TLA+ model of the storage layer

The repository is the storage layer of a blockchain node: traits for a
transactional key-value backend, an adaptor that makes any bare store
transactional with a lock, three backends (in memory, SQLite, LMDB), a typed
database layer on top, and a few tools for its tests. This directory holds TLA+ modules for it, TLC
configurations that check them on small instances, and TLAPS proofs of the
results that matter most for every size of instance.

`PROJECT.json` lists the components, runs, theorems, findings and hazards, and
maps each definition to the lines it models.

## 1. The system

### Components, their state and their operations

| component | source | state | operations |
|---|---|---|---|
| backend traits | `storage/core/src/backend.rs` | none; a contract | `open`, `transaction_ro/rw`, `get`, `prefix_iter`, `put`, `del`, `commit`, drop |
| locking adaptor | `storage/core/src/adaptor/locking` | an `RwLock` around the wrapped store; per read-write transaction, the deltas | the same, over a store with bare `get`, `put`, `del` |
| prefix iteration | `storage/core/src/util.rs`, `prefix_iter_rw.rs` | two positions in sorted ranges | `next` of the merged iterator |
| in-memory store | `storage/inmemory` | a `BTreeMap` per map | `get`, `put`, `del`, `prefix_iter`; never fails |
| SQLite backend | `storage/sqlite` | a connection in a `Mutex`; the file; per thread an open `DbTx` | the traits' operations; `Drop` rolls back |
| SQLite opening | `open`, `open_db` in the same file | the file's lock and tables | lock, check and create each table |
| LMDB backend | `storage/lmdb` | the environment, the size of its map, `map_resize_scheduled` | the traits' operations; `do_resize` |
| typed layer | `storage/src` | a backend handle and a schema | typed transactions, `dump_raw`, `new_from_dump` |
| encoded keys | `serialization`, `storage/src/database/internal.rs` | none | encode, decode, iterate over a typed prefix |
| schemas | `storage/src/schema.rs`, `storage/core/src/types.rs` | none; a list of maps | look a map up by type, name or number; check the names for duplicates |
| test suite of the backends | `storage/backend-test-suite` | per test, the transactions of its threads | 22 tests, with random inputs, and a reference model of one map |
| test directories | `test-utils/src/test_dir.rs` | the file system; per process a root in an `Arc` and a counter | `create`, `fresh_test_dir`, `delete` |
| the rest of `test-utils`, `utils`, `crypto`, `typename` | | see section 7 | |

### How they interact

The typed layer calls a backend through the traits and adds nothing to a
transaction but an index per map and an encoding. The locking adaptor is itself a
backend and wraps a store; with the in-memory store inside it is the `InMemory`
backend. A transaction is an object that borrows the handle: to commit consumes it,
to drop it is to abort. Threads share a handle by cloning an `Arc`. What they share
behind it is, in the adaptor, the lock and the store; in SQLite, one mutex for
readers and writers alike; in LMDB, the environment with its single writer and the
resize flag. Test processes share nothing but the file system.

### What is hard

* Many threads: a commit of the adaptor is a loop of single writes that nobody may
  observe; a SQLite transaction of either kind shuts out every other; LMDB's readers
  run beside the writer but not beside a resize.
* Failure in the middle: of a write in the adaptor's commit loop; of BEGIN, a
  statement, COMMIT or ROLLBACK in SQLite, and SQLite's own rollbacks; of a write or a
  commit that finds LMDB's map full.
* Panics: they abort in the shipped profiles and unwind in tests, where they poison a
  lock.
* Crashes: between the statements of an open, and anywhere in a transaction.
* Retries: LMDB's callers are expected to retry a write that found the map full, and
  a flag, tested by one thread and cleared by another, decides who enlarges it.
* Tests with threads: each run meets one schedule of one backend, and a test that keeps a
  transaction open while it waits for another thread hangs some backends and not others.
* Names: a map has a place in a schema, a name in a file, and SQLite compares names otherwise
  than the rest of the code.
* Ordering: prefix iteration stops at the first key without the prefix, which is
  right only in the right order of keys, and merges two streams by that order.

### What makes each part correct

* Contract: a read-only transaction sees one committed state for as long as it lasts;
  a read-write transaction loses nobody's update; the committed contents change by
  whole commits, one after the other.
* Adaptor, SQLite, LMDB: each implements that contract; a failed or abandoned
  transaction leaves nothing behind; every call returns.
* Iteration: yields what `get` would yield for each key, in order, in every backend.
* LMDB: retrying gets through.
* Opening: no table is created twice, none loses, swaps or shares its contents.
* Test suite: a backend that keeps the contract passes each test, whatever its locking and
  its schedule.
* Typed layer: a dump is one committed state; a reload is all or nothing; a typed prefix
  finds the keys that have its components, and no others.
* Test directories: no two processes share a root, no two tests a directory.

## 2. Modules

| module | models | instantiated for TLC by |
|---|---|---|
| `KVStore` | the contract: `store`, and per client a `mode`, the contents at `base`, its `view` and the `result` of its last call | extended by `Storage` and `BackendSuite` |
| `Locking` | the adaptor over the in-memory store | `MCLocking` |
| `LockingProofs` | proofs about it, that it implements `KVStore` among them | |
| `KeyOrder` | byte strings in order | extended by `PrefixIter` and `BackendSuite` |
| `PrefixIter` | the merge, step by step, and each backend's iterator | extended by `TypedMap` |
| `TypedKey` | encoded keys and prefixes | extended by `TypedMap` |
| `TypedMap` | typed get and iteration: it extends `PrefixIter` and `TypedKey` | `MCPrefixIter` |
| `PrefixIterProofs` | proofs about all four: the order of keys, encoded keys, the merge and the iterators | |
| `Sqlite` | transactions on one connection | `MCSqlite` |
| `SqliteProofs` | proofs about it, that it implements `KVStore` among them | |
| `Schema` | the maps of a schema and the ways to refer to one | extended by `SqliteOpen` |
| `SqliteOpen` | opening a file | `MCSqliteOpen` |
| `SqliteOpenProofs` | proofs about it and about `Schema` | |
| `Lmdb` | transactions and the resize protocol | `MCLmdb` |
| `LmdbProofs` | proofs about it, that it implements `KVStore` among them | |
| `Storage` | the typed layer over `KVStore`: it extends it with dump and reload | `MCStorage` |
| `StorageProofs` | proofs about it and about `KVStore` | |
| `BackendSuite` | the backends' tests as programs over `KVStore` | `MCBackendSuite` |
| `BackendSuiteProofs` | that no test fails or hangs | |
| `TestRoot`, `TestRootProofs` | test directories, and proofs about them | `MCTestRoot` |

`Locking`, `Sqlite` and `Lmdb` each hold an `INSTANCE KVStore WITH ...` whose
`Spec` is a property of their runs, named `KVSpec`, and a theorem. `Storage` and `BackendSuite`
are users of the contract and not of one backend: what they show holds over each backend that
implements it.

Definitions preceded by `Mutant of X` are variants of `X` with a plausible mistake.
No specification uses them. Putting one in place of `X` makes a property fail, which
shows that the property has something to say about the code.

### From code to state and actions

**KVStore.** `Begin` is `transaction_ro` or `transaction_rw`, `BeginErr` their error;
`Write` is `put` (of a value) or `del` (of `None`); `CommitCall` is the call of `commit`,
after which nothing is written, `Commit` and `CommitErr` are its return; `End` is a drop;
`Restart` is the end of the process. A read is not an action: `view` is everything that
the transaction could read. `result` is there so that an implementation cannot pass off an
`Ok` that installs nothing as a drop, nor an error that installs something as a commit.

**Locking.** `readers`, `writer` and `poisoned` are the `RwLock`; `deltas` is the
field of `TxRw`; `base` is history, namely the store when the transaction began.
`BeginRo` and `BeginRw` wait for the guard; `BeginPoisoned` is
the `expect` on a poisoned lock. `Update` is `put` and `del`, which in this adaptor
only touch the deltas. `CommitStart` is the call of `commit`; each `CommitStep` is
one turn of its double loop, in the order of map ids and keys (`IsNext`), ending in a
write to the wrapped store or, if `InnerMayFail`, in its error; `CommitEnd` releases
the guard. `Panic` unwinds through the guard if `Unwind` holds.

**PrefixIter.** `dbRest` and `deltaRest` are the keys that the two `BTreeMap` ranges have yet
to yield; a range yields the least first, and `Sorted` puts a set of keys in order. `TakeDb`, `TakeDelta` and `TakeBoth` are the three outcomes of a comparison
in `merge_join_by`, each followed by what `merger` makes of it. `InMemoryIter`,
`SqliteIter` and `LmdbIter` compute the iterators of the backends at once.

**TypedKey, TypedMap.** A typed key is a tuple of up to three byte vectors; `EncodePart` is
SCALE's encoding of one, its length and its bytes, and `Encode` that of the tuple.
`HasPrefix` holds between the types for which the trait of that name is implemented.
`TypedIter` decodes what the merge of `PrefixIter` has yielded.

**Sqlite.** `guard` and `poisoned` are the mutex; `inTx` says whether the connection
is inside a transaction (that is, not in autocommit mode); `file` is what is
committed and `work` what the connection sees. `Lock` takes the mutex, `BeginOk` and
`BeginErr` are the outcomes of `BEGIN TRANSACTION`; when it fails, the half-made
`DbTx` is dropped like any other. `DropTx` is the destructor, with its check for
autocommit mode and its ignored error. `AutoRollback` is SQLite's own rollback after a
disk or I/O error; from then on each statement commits by itself.

**Schema.** A schema is a sequence of names. `Index` is `HasDbMap::INDEX`, which the type
system computes; `FromUsize`, `Name` and `FromName` are the functions of `DbMapId` in `raw.rs`;
`NamesUnique` is `assert_names_unique`.

**SqliteOpen.** `file` gives each name a table, with one row, or none; `pc` is the
position in `open_db`, `idx` the position in its loop. `Check` and `Create` are the two
statements of a turn. `Connect` includes the assertion that names are unique. `Fold` maps a name
to what SQLite compares: `Twins` are the tables it takes for the one of a name, so that
`Create` needs that there are none, `CreateErr` is the error if there are, and `Resolved` is the
table that a statement names. The check looks for the exact name, since there the code compares
strings. `Leave` is every way to lose the connection: a drop, an error that `open` returns, a
death.

**Lmdb.** `scheduled` is `map_resize_scheduled`; `active`, `writer` and `resizer` are
who is inside the environment and how. `TestAndClear` is the `compare_exchange` at the
start of `transaction_rw`; `ResizeEnter` and `ResizeDone` are `do_resize`; `WriteFull` is
a `put` or `del` that fails with `MapFull` and sets the flag; `CommitFull` and `Unschedule`
are a commit that fails, resizes at once and clears the flag. `want` makes a client
retry what failed. `Classify` is the table of `error.rs`.

**Storage.** `DumpStep` and `DumpDone` read one map each; `LoadPut` is one `put` of
`new_from_dump`; `LoadErr` is a failure anywhere in it. `history` holds all contents the
database ever had.

**BackendSuite.** A test is a `program`: for each thread a sequence of steps, named and put
together as in `basic.rs`, `concurrent.rs` and `property.rs`; what a property test draws at
random makes it a set of programs. A step that begins, writes or ends a transaction is an action
of `KVStore` beside an `Advance` of the thread's `pc`; `DoAssert` passes an assertion that `Holds`,
and an assertion that does not is what `NoTestFails` excludes. `Model`, `Extend` and `Iter` are the
reference model of `model.rs`. `blocking` says for which open transactions a begin waits:
`Mutex` is SQLite, `RwLock` the adaptor, `OneWriter` LMDB, and `Resizing` LMDB with a
resize scheduled, whose begin of a writer waits for readers too. `WaitsFor` makes the wait-for
graph out of it: a thread with a transaction of its own open may wait for itself.

**TestRoot.** `roots` and `cases` are the file system. `Pick` draws a name, `Created` and
`AlreadyExists` are the two outcomes of `try_create_dir`, `CreateErr` is every error of
`create`. `Draw` is the `fetch_add` on the counter and `MakeDir` the creation of the
directory: other threads may come between. `handles` are the clones of the `Arc`, `live` the
`TestDir`s in use. `Delete` is a `try_unwrap` that succeeds, `RemoveCase` and `RemoveRoot` the
steps of `remove_dir_all`, which a death may interrupt (`Stop`).

## 3. Runs

Sizes are of the reachable state space.

| run | states | shows |
|---|---|---|
| `storage` | 207 833 | `Isolation`, `CommitsSerially`: the contract. `DumpIsCommittedState`: a dump is one moment's state though other threads commit between the maps it reads. `CopyIsCommittedState`: whatever fails, the copy is empty or a state the original had. `LoadOverlaysDump`: a load is all or nothing and, into a target that is not empty, an overlay |
| `locking` | 5 632 | `KVSpec`: the adaptor over the in-memory store implements the contract, with panics. `PoisonFreezes`: after a writer's panic nothing is read or written any more |
| `locking_fail` | 108 881 | over a store whose writes may fail: `SnapshotStable` for all other transactions; `FailedCommitIsPrefix`: a failed commit leaves exactly the writes before the failing one; `AllClientsStop`: no call blocks for ever |
| `prefix_iter` | 167 396 | `MergeAgreesWithGet` and `BackendsAgree`, for all maps and changes over the keys of the instance; `TypedIterAgrees`: iterating over an encoded prefix gives the typed keys that have its components |
| `sqlite` | 24 927 | `KVSpec`, `AbandonedHasNoEffect`, `RefusedOnlyByFailure` (a failed rollback in a destructor costs one refused begin and no more), `AllClientsStop`; with failing BEGIN, statements, COMMIT and ROLLBACK, panics and crashes |
| `sqlite_auto` | 8 950 | with automatic rollbacks: `OkMeansInstalled`, `ConnectionReturnedClean` |
| `sqlite_auto_abort` | violation | `AbandonedHasNoEffect`, finding 1 |
| `sqlite_open` | 9 964 | `CreateFindsNoTable`; `MapsKeepContents`: no map loses, swaps or shares its contents, with changing schemas and names that differ in case alone; `OpenReturns` |
| `lmdb` | 379 662 | `KVSpec` through full maps, resizes, too many readers and a crash; `RetriesSucceed`: the resize protocol neither deadlocks nor forgets to enlarge the map |
| `lmdb_larger` | violation | `RetryFindsLargerMap`, finding 2 |
| `test_root` | 57 471 | `RootsAreExclusive` and `FreshDirSucceeds`, with equal names, leftovers of dead processes and deletion; `CreateReturns`, even when all names are taken |
| `backend_suite` | 298 810 | `NoTestFails`: the contract is all that the tests ask of a backend; `NoTestHangs`: no thread of a test waits for itself, nor in a circle, on any backend. There are 13 713 initial states: each test, with each of its small inputs, and each way to wait |

Each module's `TypeOK` is checked with its runs; the programs of `BackendSuite` have none.

### Bounds, and why they are enough

* Clients: two, three in `locking`. Conflicts in this code are between pairs (reader
  and writer, two writers, resizer and transaction); the third client in `locking` is
  there for a reader that comes while a writer waits behind another reader. In
  `lmdb` the two clients can be writer and resizer, or two retriers; the second
  reader meets `MaxReaders = 1`.
* Transactions: `MaxTx = 2` for each client, so that each begins after, before and
  during the other's, and once more after its own failure. In LMDB only completed
  transactions count; retries are not bounded.
* Maps and keys: two maps with two keys in `locking_fail`, for the order of the commit
  loop; two maps in `storage`, for a dump between which a commit may fall. Elsewhere
  one map with two keys: maps are independent in that code.
* Values: one besides `None`; nothing in the code looks at a value. In `prefix_iter`
  two, one for the store and one for the deltas, so that it shows whose entry was
  yielded.
* Keys of `prefix_iter`: the empty key, a key, two of its extensions (one with byte
  255) and a later key; prefixes with and without entries. Typed keys are triples of the empty and
  a one-byte vector, so that equal bytes come from different components; components have fewer
  than 64 bytes, below which SCALE writes a length in one byte.
* `MaxCap` in LMDB exceeds what all data and one transaction's writes need by an assumption,
  `BoundsAssumption`; the map starts with one page, so that it fills up on
  the first write. `MaxWrites = 2` lets a transaction meet the full map after a write
  that did fit.
* `MaxFaults = 2`: a failure, and another in its handling (a COMMIT that fails,
  then the ROLLBACK).
* `MaxLoads = 2`: into an empty target, and into one that is not.
* `MaxOpens = 2`: with one version of the schema, then with another. The versions are a
  program with one map, with a second map added behind it, or before it, one that spells the
  name of its map otherwise, and two with one name twice, spelt alike or not.
* `backend_suite`: random inputs of two keys, at most two actions out of four, and three cells
  (pairs of a map and a key), so that an action can overwrite or delete what another has put, in
  the same sequence and in the next. The keys of fixed tests are the tests' own. A test of one thread
  runs under `Mutex` only: alone, a thread waits at most for its own transactions, and `Mutex` makes it wait
  for all of them.

* `test_root`: two processes with two threads, two names, `MaxAttempts = 2` (10 in the code, which
  changes nothing but the number of turns) and `MaxCases = 2` directories for each process, so that
  two threads can race for each. The counter's wrap after 2^32 directories is out of bounds.

`SYMMETRY` is used only in runs that check no liveness property.

### Fairness

All fairness is weak, and it is of two kinds. First, a thread that can go on inside a call of
the library does. Second, a caller ends what it began: it closes, commits or drops its
transaction (`Drop`, `CommitStart`, `Abandon`), which Rust's ownership ensures unless
the caller loops or leaks. The locks of the standard library promise no fairness
and none is assumed: a waiting thread may be overtaken each time, but the others' transactions
are finitely many (`MaxTx`). In LMDB a client that failed tries again; nothing makes a full map
grow but the code's own flag, and `LowSpace`, the engine's own early
resize, gets no fairness. In `SqliteOpen` nobody is made to close the database: SQLite's
busy handler answers in the end, and a table that cannot be created is an error of `open`. In `TestRoot` only a call of `create` has to go on. No fairness is put on writes, panics, failures or
crashes.

`BackendSuite` has no fairness and needs none: its programs end, so that a test hangs only in a state in
which every thread waits, and that is an invariant. The backends' own waiting, which is shown to end in the
runs above, is there a guard; backends do not fail in it.

A client does not end in a deadlock by design: where all clients are through, `Finished`
stutters, and TLC's deadlock check is on in every run.

## 4. Theorems

The proofs assume of the constants only the named `ASSUME`s of the modules: that the
sentinels are not values, that bounds are naturals, that keys are integers where their order
counts, that schemas are sequences of names, in `Lmdb` that maps and keys are
finitely many and the map may grow large enough for them, in `PrefixIter` that the keys are finitely many byte
strings, in `TypedMap` that the encoded keys are among them, and in `BackendSuite` that a test draws its entries
from finitely many cells, and that the keys and values the tests spell out are among the keys and values.

* `StorageProofs`, about `KVStore`: `TransactionsAreIsolated` and `CommitsAreSerial`, from the
  invariant `KVInv`: `Isolation` is not inductive alone, since a commit beside a
  second writer would leave the other's `base` behind; `OneWriter` adds that there is none.
* `LockingProofs`: `TypeCorrect`; `SnapshotsAreStable`, for any number of threads, maps
  and keys, with failing commits and panics. The invariant is
  `Inv == TypeOK /\ LockInv /\ SnapshotStable`. `SnapshotStable` alone is not preserved by
  a turn of the commit loop; `LockInv` says what the guards are worth, namely that the
  holder of the write guard is the only one with a transaction open. `PoisonIsFinal` follows
  from the same invariant. `FailedCommitsArePrefixes` needs `PrefixInv` besides: while a
  client commits, every key whose entry differs from `base` comes before every delta that is left. A
  turn of the loop takes the first delta left, so that what it writes comes before the rest.
* `LockingImplementsKV`: `~InnerMayFail => (Spec => KVSpec)`. The abstract store is
  the base of the committing client while there is one, and the store itself
  otherwise; a commit takes effect when the guard is released. So each turn
  of the loop must be a stuttering step: copying a delta into the store and forgetting
  it changes nothing that the transaction observes (deltas hide the store), and nobody
  else observes anything (`LockInv`). `CommitStart` is `CommitCall`, and at `CommitEnd` no deltas are left and the
  store is what the transaction saw.
* `SqliteProofs`: `SqliteTypes`, `ConnectionIsClean`, `RefusalsAreFailures`, `OkIsInstalled`, `AbandonedIsUndone` and
  `SqliteImplementsKV`, the last two `"autorollback" \notin Faults =>`, since with automatic rollbacks they are false
  (finding 1). `MutexInv` says who holds the mutex, so that a step of its holder disturbs nobody; `AckedInv` that the
  connection sees what the client was told is written, as long as its transaction is open there;
  `KeptInv` that it is open, and the file unchanged, if SQLite does not roll back on its own. `RefusedInv` counts: a
  transaction that nobody owns (`Stray`) stands for one failure that has not yet cost a begin.
* `LmdbProofs`: `LmdbTypes` and `LmdbImplementsKV`, without a condition. `WriterInv` ties the environment's
  writer to the client with a read-write transaction; `ViewInv` says that a client without one sees
  nothing; `LeftInv` that a client inside a call has a transaction to complete. `Open` is a begin,
  `Close` an end, with an answer that says which; the flag, the resize and the retry are
  stuttering steps, which is the point: nothing that enlarges the map is seen by any transaction.
* `SqliteOpenProofs`: `TypeCorrect`, `CreateFindsNone`, `ContentsAreKept` and `LookupsAgree`, for any number of
  processes, any schemas and any idea of which names are equal. A process has the lock from BEGIN EXCLUSIVE on
  (`LockInv`), so that the tables it has seen are still there (`TablesBefore`) and the one it did not see is not;
  SQLite never takes two tables of the file for the same (`NoTwins`), so that in an open database each name leads
  to its own table; and that holds what was last written (`FileIsLast`), at every moment and not only in an open
  database, which is what makes a death between two statements harmless.
* `StorageProofs`, about `Storage`: `StorageKeepsPromises`, that each step of the typed layer is a step of `KVStore` or none, and so
  `StorageTypeCorrect`, `DumpsAreCommittedStates`, `CopiesAreCommittedStates` and `LoadsOverlayDumps` on top of
  `KVInv`. A dump is what its transaction's view shows up to the next map, and the view of a reader is
  one of the contents in `history` (`DumpInv`); what a load would commit is the dump laid over the target but for the
  entries it has yet to put (`LoadInv`).
* `PrefixIterProofs`, about keys: `SeekFindsPrefix` and `PrefixRangeIsContiguous`, for all byte
  strings: the keys with a prefix are a run without gaps, which begins where a seek to
  the prefix ends. It is why an iterator may stop at the first key without the prefix.
  The order is that of the first position at which two keys differ (`LessIsFirstDifference`), from which it
  follows that it is total and transitive; so each finite set of keys has one sequence in order
  (`SortedProperties`), from which the keys can be taken one by one (`SortedAppend`).
  `TypedPrefixIsBytePrefix` and `EncodeInjective`, for all tuples of up to three byte vectors: one component
  after the other, equal bytes mean equal lengths, and these equal components (`FirstPartDecides`,
  `PartAndRest`).
* `PrefixIterProofs`, about the iterators: `IterTypes`, `MergeIsGet`, `IteratorsAgree` and `TypedIteratorsAgree`, for
  any finite set of keys, any contents, changes and prefixes. The invariant `IterInv` compares what was
  taken from the ranges with what is left: all keys taken have the prefix and come before all that are left
  (`RestInv`), `out` is the entries of those taken that `get` finds, in order (`OutInv`), and the merge is done only
  when neither range has anything to yield (`DoneInv`). A step takes the least key of both ranges
  (`LeastOfBoth`), so that its entry comes after all of `out`; at the end everything not taken lacks the
  prefix, by `PrefixRangeIsContiguous`. The typed iterator is the merge of the encoded prefix, decoded entry
  by entry, and there is one typed key to each encoded key by `EncodeInjective`.
* `BackendSuiteProofs`: `TestsAreOrderly`, `TestsDoNotHang`, `TestsSeeTheirData` and `TestsDoNotFail`, for any inputs of
  the property tests and any way to wait, not only that of a backend in the repository. A thread is in a place: the
  transaction it has open, if any, the threads it has spawned, and what is known of the data. `Leads` says from
  which place to which a step leads. It has to be orderly (`Moves`): a transaction begins where none is open and ends where
  one is, and only "main" joins threads, those it has spawned, with no transaction open. And an assertion has to be
  satisfied by what is known. Every program of the suite is a walk of such steps (`Walk`), put together from
  the walks of its parts (`Walks`), the loops over random inputs included (`Loops`), so that it has a route, a place before
  each step.
  * Not to hang: `OrderInv` says that the state agrees with the routes, and so that a thread with a transaction open
    waits for nobody; if no transaction is open, nobody waits but "main" at a join, for a thread that runs.
  * Not to fail, with one thread: all is known, the committed contents, the view of the open transaction and the
    models kept (`World`), and each step leads from one world to the next (`Sees`). What is left to show is about the data: that
    the models `Extend` and `FromActions` compute are the contents the same writes leave, that the maps drawn at random
    read back in whatever order they are listed, that what is put under one prefix is what an iteration over it
    yields, and that the entries which the tests spell out are the ones found, in order.
    `AloneInv` says that the world of the place is the state, up to the entries a running `DoDelAll` has deleted.
  * Not to fail, with several threads: what is known is which threads have certainly committed, and how far the thread is
    with its own writes (`Known`). Each of the five tests has the contents that any set of committed threads leaves
    (`ContentsAfter`), and an assertion has to hold for all sets that are possible and include the known ones
    (`Shares`). `SharedInv` says that the store is `ContentsAfter` the threads that are done, and that a writer sees
    exactly these, with its own write on top. That is why no update is lost, and needs `SingleWriter`, which
    needs the contract's `Begin`.

  A route is chosen among all walks (an unbounded `CHOOSE`), so that TLC cannot evaluate `OrderInv` and `DataInv`; it
  checks the properties that follow from them.
* `TestRootProofs`: `TestRootTypes`, `RootsStayExclusive` and `FreshDirsSucceed`, for any number of processes, threads
  and names. `RootsAreExclusive` is nearly inductive; `FreshDirSucceeds` needs `NumbersAreNew`, that drawn
  numbers are distinct, below the counter, and belong to no directory yet, which in turn holds in a fresh root because
  there are directories only below roots that exist (`CasesHaveRoots`).

### Only model-checked

Liveness (`AllClientsStop`, `RetriesSucceed`, `OpenReturns`, `CreateReturns`) is out of reach of TLAPS. Every safety
invariant and every action property of the passing runs is proved, and so is each refinement.

## 5. Findings

1. **SQLite: writes after an automatic rollback commit by themselves.** After a disk-full or
   an I/O error SQLite has rolled back and is in autocommit mode. `DbTx::drop` knows that case; `put`
   and `del` do not, and a write through the same `DbTx` survives its drop
   (`storage/sqlite/src/lib.rs:89`). Run `sqlite_auto_abort`.
2. **LMDB: a retry may find the map no larger.** `transaction_rw` clears the flag before
   the resize it stands for; another writer that has taken it may be overtaken by the
   retry, which then fails once more (`storage/lmdb/src/lib.rs:163`). A test
   expects the resize on the first retry (`storage/lmdb/src/resize_tests.rs:183`). More retries do
   succeed (`RetriesSucceed`). Run `lmdb_larger`.

Without a run of their own:

* `TxRw::commit` of the locking adaptor returns at the first error of the wrapped store and cannot undo the
  writes before it (`storage/core/src/adaptor/locking/mod.rs:93`), although `storage/core/src/error.rs:21` says of the
  error that the transaction's "effects have not taken place". `FailedCommitIsPrefix` says what is left. The in-memory
  store never fails, so no backend in the repository shows it today.
* `TestRoot::delete` counts the clones of the root, but a `TestDir`
  holds a path only, so the directories of running tests are removed
  (`test-utils/src/test_dir.rs:124`), although the comment at line 122 promises a panic "if it is still
  in use".
* A schema with two maps whose names differ in case alone passes `assert_names_unique`
  (`storage/core/src/types.rs:172`) and can then never be opened with SQLite: `CREATE TABLE` fails. No map
  comes to harm by it (`MapsKeepContents`). No schema in the repository has such names.

## 6. External parts

SQLite (transactions, autocommit and automatic rollback, the lock of locking mode
"exclusive", recovery of the journal), LMDB (snapshots, one writer, a failed write breaks
its transaction, `MapFull`) with the `do_resize` of the fork the crate depends on (it keeps new
transactions out and waits for the open ones), `std::sync` locks with poisoning, and
`itertools::merge_join_by` are not in the repository. They are modelled from what the code
relies on, and marked `external` in the map.

## 7. Not modelled

* The harness of `storage/backend-test-suite` that names and starts the tests.
* `storage/lmdb`'s size arithmetic (`memsize.rs`) and the user's resize callback: unit
  conversions, and a callback that the engine calls.
* Encoded values, and keys that are not tuples of byte vectors: nothing in the code depends on
  their bytes. SCALE is an external codec.
* `utils`, `crypto`, `typename`: wrappers, macros and re-exports without state of their own.
* `test-utils` besides test directories: pure functions for tests (a shuffle, a split of a value, random
  texts), which nothing else in the repository calls.
* One thread with two transactions at once, outside the test suite: it blocks on itself in the adaptor and in
  SQLite. The API neither forbids nor documents it; clients of the other modules run one at a time.
* The errors' own classes and texts: `Classify` in `Lmdb` is the table of LMDB's, and nobody in the
  repository looks at a class.

## 8. Plan

Done, in this order: `KVStore`; `Locking` and its proofs; `KeyOrder` and
`PrefixIter`; `Sqlite`; `Lmdb`; `Storage`; `SqliteOpen`; the proofs of `KVStore`;
`TypedKey` and `TypedMap`; `TestRoot`; `BackendSuite`; `Schema`, with names that SQLite
takes for equal; the proofs of `SqliteOpen`, `Storage`, `Sqlite` and `Lmdb`, and of
`FailedCommitIsPrefix`; the proofs of `PrefixIter` and `TypedMap`; the proofs that no test of `BackendSuite`
hangs, and that none fails.

Next:

1. `Lmdb`: opening and the named databases; a reload of a dump that fills the map, whose handle
   goes with the request to resize, so that a repeated reload has only LMDB's own early resize to grow by.
