-------------------------------- MODULE Schema --------------------------------
(***************************************************************************)
(* A schema is a list of maps.  The typed layer refers to a map by its     *)
(* place in the list, which the type system computes                       *)
(* (storage/src/schema.rs), a tool that inspects a dump by its name        *)
(* (storage/src/database/raw.rs), and a database file stores it under its  *)
(* name.  Places count from one here.                                      *)
(***************************************************************************)
EXTENDS Integers, Sequences

CONSTANTS Names,   \* names of maps
          NoIndex  \* Option::None, for an index

ASSUME NoIndexAssumption == NoIndex \notin Nat

\* HasDbMap is implemented, for the map of that name.
HasDbMap(s, n) == \E i \in 1 .. Len(s) : s[i] = n

\* HasDbMap::INDEX
Index(s, n) == CHOOSE i \in 1 .. Len(s) : s[i] = n

\* DbMapId::from_usize, name and from_name.
FromUsize(s, i) == IF i \in 1 .. Len(s) THEN i ELSE NoIndex
Name(s, i) == s[i]
FromName(s, n) ==
  IF HasDbMap(s, n)
  THEN CHOOSE i \in 1 .. Len(s) : s[i] = n /\ \A j \in 1 .. i - 1 : s[j] # n
  ELSE NoIndex

\* assert_names_unique
NamesUnique(s) == \A i, j \in 1 .. Len(s) : s[i] = s[j] => i = j
=============================================================================
