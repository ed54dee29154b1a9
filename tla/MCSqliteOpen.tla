----------------------------- MODULE MCSqliteOpen -----------------------------
(* SqliteOpen on a small instance. *)
EXTENDS SqliteOpen

CONSTANTS a, A, b

\* The names a and A differ in case alone.
MCFold == [n \in Names |-> IF n = A THEN a ELSE n]

\* A program with one map, its successors with a second one before or after it,
\* one that spells its name otherwise, and two that declare it twice.
SchemaVersions == {<<a>>, <<a, b>>, <<b, a>>, <<A>>, <<a, a>>, <<a, A>>}
=============================================================================
