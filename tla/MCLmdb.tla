-------------------------------- MODULE MCLmdb --------------------------------
(* Lmdb on small instances. *)
EXTENDS Lmdb, TLC

Symmetry == Permutations(Clients) \cup Permutations(Keys)
=============================================================================
