------------------------------ MODULE MCTestRoot -----------------------------
(* TestRoot on a small instance: Procs, Threads and Names are model values.   *)
EXTENDS TestRoot
=============================================================================
