------------------------------ MODULE MCLocking ------------------------------
(* Locking on small instances. *)
EXTENDS Locking, TLC

Symmetry == Permutations(Clients)
=============================================================================
