------------------------------ MODULE TypedKey -------------------------------
(***************************************************************************)
(* Keys of the typed layer, storage/src/database.  A typed key is encoded  *)
(* before it goes to the backend, and a typed prefix, the first components *)
(* of a tuple, becomes a prefix of bytes.  The encoding is SCALE's, an     *)
(* external crate: a tuple is its components one after the other, and a    *)
(* byte vector is its length and its bytes.                                *)
(*                                                                         *)
(* A typed key or prefix is modelled as a sequence of byte vectors, each   *)
(* of fewer than 64 bytes: SCALE then writes the length, times four, in    *)
(* one byte.  () is the empty sequence.                                    *)
(***************************************************************************)
EXTENDS KeyOrder

Part == {t \in Data : Len(t) < 64}

EncodePart(t) == <<4 * Len(t)>> \o t

\* Tuples have up to three components.
TypedKeyOf(parts) == UNION {[1 .. n -> parts] : n \in 0 .. 3}

EncodedAt(key, i) == IF i <= Len(key) THEN EncodePart(key[i]) ELSE <<>>

\* Mutant of Encode: the last component first.
EncodeBackwards(key) == EncodedAt(key, 3) \o EncodedAt(key, 2) \o EncodedAt(key, 1)

Encode(key) == EncodedAt(key, 1) \o EncodedAt(key, 2) \o EncodedAt(key, 3)

\* The types between which HasPrefix is implemented: () and any type; some
\* components of a tuple, but not all, from the first on.
HasPrefix(p, key) == p = <<>> \/ Len(p) < Len(key)

\* The key has the components of the prefix.
Agrees(p, key) == \A i \in 1 .. Len(p) : p[i] = key[i]
=============================================================================
