------------------------------- MODULE MCSqlite -------------------------------
(* Sqlite on small instances. *)
EXTENDS Sqlite, TLC

Symmetry == Permutations(Clients) \cup Permutations(Keys)
=============================================================================
