------------------------------ MODULE KeyOrder -------------------------------
(***************************************************************************)
(* Keys are byte strings (storage_core::Data).  Every backend keeps them   *)
(* in the same order, bytewise with a shorter key before its extensions:   *)
(* the order of Vec<u8> in a BTreeMap, of SQLite BLOBs, of LMDB keys.      *)
(* Prefix iteration is built on that order.                                *)
(***************************************************************************)
EXTENDS Integers, Sequences, FiniteSets

Bytes == 0 .. 255
Data == Seq(Bytes)

\* <[u8]>::starts_with
StartsWith(k, p) == Len(p) <= Len(k) /\ \A i \in 1 .. Len(p) : k[i] = p[i]

\* The keys agree before position i.
SameBefore(a, b, i) == \A j \in 1 .. i - 1 : a[j] = b[j]

\* <[u8] as Ord>::cmp
Less(a, b) ==
  \/ Len(a) < Len(b) /\ StartsWith(b, a)
  \/ \E i \in 1 .. Len(a) :
       /\ i <= Len(b)
       /\ SameBefore(a, b, i) /\ a[i] < b[i]

AtLeast(a, p) == a = p \/ Less(p, a)

\* How many of the keys come before k.
Rank(keys, k) == Cardinality({j \in keys : Less(j, k)})

\* The keys in order: before the i-th there are i - 1 others.
Sorted(keys) ==
  [i \in 1 .. Cardinality(keys) |-> CHOOSE k \in keys : Rank(keys, k) = i - 1]

\* The first of them.
Least(keys) == CHOOSE k \in keys : \A j \in keys \ {k} : Less(k, j)
=============================================================================
