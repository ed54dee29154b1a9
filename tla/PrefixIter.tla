----------------------------- MODULE PrefixIter ------------------------------
(***************************************************************************)
(* Iteration over the entries of one map whose keys have a given prefix.   *)
(*                                                                         *)
(* The locking adaptor's read-write transaction merges two sorted streams: *)
(* the wrapped store's entries and the transaction's own changes, of which *)
(* a deletion must hide an entry and a new value must replace it           *)
(* (storage/core/src/adaptor/locking/prefix_iter_rw.rs).  Both streams are *)
(* ranges of a BTreeMap cut off at the first key without the prefix        *)
(* (storage/core/src/util.rs).  SQLite filters a sorted table and LMDB     *)
(* walks a cursor; all four must give what get gives key by key.           *)
(***************************************************************************)
EXTENDS KeyOrder, SequencesExt

CONSTANTS Keys,      \* the keys that may occur
          PrefixArgs, \* the prefixes iterated over
          Vals,      \* values
          None,      \* an unset key, and the delta of a deletion
          Absent     \* no delta for the key

ASSUME KeysAssumption ==
  Keys \subseteq Data /\ IsFiniteSet(Keys) /\ PrefixArgs \subseteq Data
ASSUME SentinelsAssumption == None \notin Vals /\ Absent \notin Vals \cup {None}

VARIABLES db,         \* the map in the wrapped store
          delta,      \* the transaction's changes to it
          prefix,     \* the argument of prefix_iter
          dbRest,     \* keys the store's range has yet to yield
          deltaRest,  \* keys the deltas' range has yet to yield
          out,        \* entries the iterator has yielded
          done        \* it has yielded None

vars == <<db, delta, prefix, dbRest, deltaRest, out, done>>

\* BTreeMap::range(prefix..) over the keys that are present: a range is the set
\* of the keys it has yet to yield, and yields the least.
RangeFrom(present, p) == {k \in present : AtLeast(k, p)}

DbRange(p) == RangeFrom({k \in Keys : db[k] # None}, p)
DeltaRange(p) == RangeFrom({k \in Keys : delta[k] # Absent}, p)

Init ==
  /\ db \in [Keys -> Vals \cup {None}]
  /\ delta \in [Keys -> Vals \cup {None, Absent}]
  /\ prefix \in PrefixArgs
  /\ dbRest = DbRange(prefix)
  /\ deltaRest = DeltaRange(prefix)
  /\ out = <<>>
  /\ done = FALSE

\* Mutant of Yields: a range is iterated over to its end.
YieldsToTheEnd(rest) == rest # {}

\* util::PrefixIter::next: the next entry of the range, None as soon as it has
\* not the prefix.  (The merge fuses both streams: after a None they end.)
Yields(rest) == rest # {} /\ StartsWith(Least(rest), prefix)

\* merger, for an entry of the store and for a change: deletions are filtered out.
EmitDb(k) == out' = Append(out, <<k, db[k]>>)
\* Mutant of EmitDelta: a deletion is yielded.
EmitAnyDelta(k) == out' = Append(out, <<k, delta[k]>>)
EmitDelta(k) ==
  out' = IF delta[k] = None THEN out ELSE Append(out, <<k, delta[k]>>)

\* One step of merge_join_by.  An entry that compares greater is put back.
TakeDb ==
  /\ Yields(dbRest)
  /\ Yields(deltaRest) => Less(Least(dbRest), Least(deltaRest))
  /\ EmitDb(Least(dbRest))
  /\ dbRest' = dbRest \ {Least(dbRest)}
  /\ UNCHANGED <<db, delta, prefix, deltaRest, done>>

TakeDelta ==
  /\ Yields(deltaRest)
  /\ Yields(dbRest) => Less(Least(deltaRest), Least(dbRest))
  /\ EmitDelta(Least(deltaRest))
  /\ deltaRest' = deltaRest \ {Least(deltaRest)}
  /\ UNCHANGED <<db, delta, prefix, dbRest, done>>

TakeBoth ==
  /\ Yields(dbRest) /\ Yields(deltaRest)
  /\ Least(dbRest) = Least(deltaRest)
  /\ EmitDelta(Least(deltaRest))
  /\ dbRest' = dbRest \ {Least(dbRest)}
  /\ deltaRest' = deltaRest \ {Least(deltaRest)}
  /\ UNCHANGED <<db, delta, prefix, done>>

End ==
  /\ ~done
  /\ ~Yields(dbRest) /\ ~Yields(deltaRest)
  /\ done' = TRUE
  /\ UNCHANGED <<db, delta, prefix, dbRest, deltaRest, out>>

\* The merge is fused: calling next again yields None again.
AfterEnd == done /\ UNCHANGED vars

Next == TakeDb \/ TakeDelta \/ TakeBoth \/ End \/ AfterEnd

Spec == Init /\ [][Next]_vars

-----------------------------------------------------------------------------
(* The other iterators, over the contents a transaction of theirs sees.     *)

\* TxRw::get of the locking adaptor.
Get(k) == IF delta[k] = Absent THEN db[k] ELSE delta[k]

\* The keys the transaction finds.
Present == {k \in Keys : Get(k) # None}

Entry(k) == <<k, Get(k)>>
Entries(keys) == [i \in DOMAIN keys |-> Entry(keys[i])]

\* The keys before the first that has not the prefix.
TakeWhilePrefix(keys, p) ==
  {k \in keys : \A j \in keys : ~StartsWith(j, p) => Less(k, j)}

\* In-memory, read-only: util::PrefixIter over the map itself.
InMemoryIter(p) == Entries(Sorted(TakeWhilePrefix(RangeFrom(Present, p), p)))

\* SQLite: the rows of SELECT ... ORDER BY key that have the prefix are
\* collected, and the iterator checks each again.
SqliteIter(p) ==
  LET kv == {k \in Present : StartsWith(k, p)}
  IN  Entries(Sorted(TakeWhilePrefix(kv, p)))

\* Mutant of LmdbIter: the cursor always starts at the first key.
LmdbIterFromStart(p) == Entries(Sorted(TakeWhilePrefix(Present, p)))

\* LMDB: the cursor starts at the first key not below the prefix, or at the
\* first of all for an empty prefix.
LmdbIter(p) ==
  LET walk == IF p = <<>> THEN Present ELSE RangeFrom(Present, p)
  IN  Entries(Sorted(TakeWhilePrefix(walk, p)))

-----------------------------------------------------------------------------

TypeOK ==
  /\ db \in [Keys -> Vals \cup {None}]
  /\ delta \in [Keys -> Vals \cup {None, Absent}]
  /\ prefix \in PrefixArgs
  /\ dbRest \in SUBSET Keys /\ deltaRest \in SUBSET Keys
  /\ out \in Seq(Keys \X Vals)
  /\ done \in BOOLEAN

\* What the iteration should yield: every key with the prefix for which get
\* returns a value, with that value, in key order.
Expected ==
  Entries(Sorted({k \in Keys : StartsWith(k, prefix) /\ Get(k) # None}))

\* The merged iterator agrees with get: it never yields an entry the
\* transaction deleted or replaced, never skips, repeats or reorders one, and
\* does not stop early.
MergeAgreesWithGet ==
  /\ IsPrefix(out, Expected)
  /\ done => out = Expected

\* The same contents give the same iteration whichever backend holds them, so
\* that stopping at the first key without the prefix loses nothing.
BackendsAgree ==
  done => /\ InMemoryIter(prefix) = out
          /\ SqliteIter(prefix) = out
          /\ LmdbIter(prefix) = out
=============================================================================
