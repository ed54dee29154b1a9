------------------------------ MODULE SqliteOpen ------------------------------
(***************************************************************************)
(* Opening a SQLite database file, Sqlite::open and open_db in             *)
(* storage/sqlite/src/lib.rs, by several processes and by programs with    *)
(* different schemas, one after the other.  A process takes the file's     *)
(* exclusive lock and then, table by table, asks whether a table of its    *)
(* schema exists and creates it if not; each is a statement of its own,    *)
(* and the process may fail or die between any two.  The typed layer knows *)
(* a map by its position in the schema, the file by its name; and SQLite   *)
(* compares the names of tables without regard to case, except where the   *)
(* code compares them itself, as it does in the check.                     *)
(*                                                                         *)
(* A table holds one row here; its transactions are the matter of module   *)
(* Sqlite and are one step each.                                           *)
(***************************************************************************)
EXTENDS Schema

CONSTANTS Procs,
          Fold,      \* a name as SQLite compares it
          Vals, None,
          Missing,   \* there is no table of that name
          NoProc,
          Schemas,   \* sequences of names, one for each program in use
          MaxOpens   \* bound: times a process opens the database

ASSUME SentinelsAssumption ==
  /\ None \notin Vals /\ Missing \notin Vals \cup {None} /\ NoProc \notin Procs
ASSUME FoldAssumption == DOMAIN Fold = Names
ASSUME SchemasAssumption == \A s \in Schemas : s \in Seq(Names)
ASSUME OpensAssumption == MaxOpens \in Nat

VARIABLES file,    \* the row of each table
          locked,  \* the process with the exclusive lock
          pc,      \* how far a process has got
          schema,  \* its schema
          idx,     \* position in the schema of the table it is at
          opens,   \* times it has opened the database
          last     \* history: what was last written to each map

vars == <<file, locked, pc, schema, idx, opens, last>>

\* Mutant of Init: positions are counted from zero.
InitFromZero ==
  /\ file = [n \in Names |-> Missing]
  /\ locked = NoProc
  /\ pc = [p \in Procs |-> "closed"]
  /\ schema = [p \in Procs |-> <<>>]
  /\ idx = [p \in Procs |-> 0]
  /\ opens = [p \in Procs |-> 0]
  /\ last = [n \in Names |-> None]

Init ==
  /\ file = [n \in Names |-> Missing]
  /\ locked = NoProc
  /\ pc = [p \in Procs |-> "closed"]
  /\ schema = [p \in Procs |-> <<>>]
  /\ idx = [p \in Procs |-> 1]
  /\ opens = [p \in Procs |-> 0]
  /\ last = [n \in Names |-> None]

Goto(p, state) == pc' = [pc EXCEPT ![p] = state]

\* There is a table that SQLite takes for the one of that name; and which.
Twins(n) == {t \in Names : Fold[t] = Fold[n] /\ file[t] # Missing}
Resolved(n) == CHOOSE t \in Twins(n) : TRUE

-----------------------------------------------------------------------------
(* Storage::new, up to the open connection.                                 *)

Connect(p, s) ==
  /\ pc[p] = "closed" /\ opens[p] < MaxOpens
  /\ opens' = [opens EXCEPT ![p] = @ + 1]
  /\ \/ /\ NamesUnique(s)
        /\ Goto(p, "connected")
        /\ schema' = [schema EXCEPT ![p] = s]
     \/ /\ ~NamesUnique(s)  \* "Duplicate map names found"
        /\ UNCHANGED <<pc, schema>>
  /\ UNCHANGED <<file, locked, idx, last>>

\* BEGIN EXCLUSIVE TRANSACTION
BeginExclusive(p) ==
  /\ pc[p] = "connected"
  /\ locked = NoProc /\ locked' = p
  /\ Goto(p, "exclusive")
  /\ UNCHANGED <<file, schema, idx, opens, last>>

\* The connection goes, and the lock with it.
Disconnect(p) ==
  /\ Goto(p, "closed")
  /\ locked' = IF locked = p THEN NoProc ELSE locked
  /\ schema' = [schema EXCEPT ![p] = <<>>]
  /\ idx' = [idx EXCEPT ![p] = 1]
  /\ UNCHANGED <<file, opens, last>>

\* BEGIN EXCLUSIVE TRANSACTION gives up: another process keeps the lock.
Busy(p) ==
  /\ pc[p] = "connected"
  /\ locked # NoProc
  /\ Disconnect(p)

\* Mutant of CommitExclusive: locking_mode is not set to exclusive.
CommitExclusiveUnlocks(p) ==
  /\ pc[p] = "exclusive"
  /\ Goto(p, "check")
  /\ locked' = NoProc
  /\ UNCHANGED <<file, schema, idx, opens, last>>

\* COMMIT.  In locking mode "exclusive" the lock stays with the connection.
CommitExclusive(p) ==
  /\ pc[p] = "exclusive"
  /\ Goto(p, "check")
  /\ UNCHANGED <<file, locked, schema, idx, opens, last>>

-----------------------------------------------------------------------------
(* The loop over the tables                                                 *)

Table(p) == schema[p][idx[p]]

\* Mutant of Check: a table that is there is looked at again.
CheckAgain(p) ==
  /\ pc[p] = "check" /\ idx[p] <= Len(schema[p])
  /\ IF file[Table(p)] = Missing THEN Goto(p, "create") ELSE UNCHANGED pc
  /\ UNCHANGED <<file, locked, schema, idx, opens, last>>

\* SELECT name FROM sqlite_master ...
Check(p) ==
  /\ pc[p] = "check" /\ idx[p] <= Len(schema[p])
  /\ \/ /\ file[Table(p)] = Missing
        /\ Goto(p, "create")
        /\ UNCHANGED idx
     \/ /\ file[Table(p)] # Missing
        /\ idx' = [idx EXCEPT ![p] = @ + 1]
        /\ UNCHANGED pc
  /\ UNCHANGED <<file, locked, schema, opens, last>>

\* Mutant of Create: CREATE TABLE IF NOT EXISTS.
CreateIfNotExists(p) ==
  /\ pc[p] = "create"
  /\ file' = IF Twins(Table(p)) = {} THEN [file EXCEPT ![Table(p)] = None] ELSE file
  /\ idx' = [idx EXCEPT ![p] = @ + 1]
  /\ Goto(p, "check")
  /\ UNCHANGED <<locked, schema, opens, last>>

\* CREATE TABLE
Create(p) ==
  /\ pc[p] = "create" /\ Twins(Table(p)) = {}
  /\ file' = [file EXCEPT ![Table(p)] = None]
  /\ idx' = [idx EXCEPT ![p] = @ + 1]
  /\ Goto(p, "check")
  /\ UNCHANGED <<locked, schema, opens, last>>

\* There is such a table, by SQLite's lights: open returns the error.
CreateErr(p) ==
  /\ pc[p] = "create" /\ Twins(Table(p)) # {}
  /\ Disconnect(p)

Opened(p) ==
  /\ pc[p] = "check" /\ idx[p] > Len(schema[p])
  /\ Goto(p, "open")
  /\ UNCHANGED <<file, locked, schema, idx, opens, last>>

\* Mutant of TableAt: tables are named by their position.
TableNumbered(p, i) == (CHOOSE s \in Schemas : Len(s) >= i)[i]

\* SqliteQueries: the table that the statements of a map id name.
TableAt(p, i) == Resolved(Name(schema[p], i))

\* A transaction that puts (v is a value) or deletes (v is None) and commits.
Write(p, n, v) ==
  LET i == Index(schema[p], n) IN
  /\ pc[p] = "open"
  /\ HasDbMap(schema[p], n)
  /\ file' = [file EXCEPT ![TableAt(p, i)] = v]
  /\ last' = [last EXCEPT ![n] = v]
  /\ UNCHANGED <<locked, pc, schema, idx, opens>>

\* The last handle is dropped; or a statement fails and open returns its error;
\* or the process dies.
Leave(p) ==
  /\ pc[p] # "closed"
  /\ Disconnect(p)

AllClosed == \A p \in Procs : pc[p] = "closed" /\ opens[p] = MaxOpens
Finished == AllClosed /\ UNCHANGED vars

Next ==
  \/ \E p \in Procs :
       \/ \E s \in Schemas : Connect(p, s)
       \/ BeginExclusive(p) \/ Busy(p) \/ CommitExclusive(p)
       \/ Check(p) \/ Create(p) \/ CreateErr(p) \/ Opened(p) \/ Leave(p)
       \/ \E n \in Names, v \in Vals \cup {None} : Write(p, n, v)
  \/ Finished

Spec == Init /\ [][Next]_vars

\* A process goes on with the statements of open; SQLite's busy handler gives
\* up waiting for the lock after a while.  Nobody has to close the database.
Fairness ==
  \A p \in Procs :
    WF_vars(\/ BeginExclusive(p) \/ Busy(p) \/ CommitExclusive(p)
            \/ Check(p) \/ Create(p) \/ CreateErr(p) \/ Opened(p))

FairSpec == Spec /\ Fairness

-----------------------------------------------------------------------------

TypeOK ==
  /\ file \in [Names -> Vals \cup {None, Missing}]
  /\ locked \in Procs \cup {NoProc}
  /\ pc \in [Procs -> {"closed", "connected", "exclusive", "check", "create", "open"}]
  /\ schema \in [Procs -> Schemas \cup {<<>>}]
  /\ idx \in [Procs -> Nat]
  /\ \A p \in Procs : idx[p] \in 1 .. Len(schema[p]) + 1
  /\ opens \in [Procs -> 0 .. MaxOpens]
  /\ last \in [Names -> Vals \cup {None}]

\* The answer of the check for a table is still true when the table is created,
\* so that CREATE TABLE fails for no table that the check could have found.
CreateFindsNoTable ==
  \A p \in Procs : pc[p] = "create" => file[Table(p)] = Missing

\* In an open database each map of the schema, found by its name, leads to a
\* table that holds what was last written to the map of that name, by whatever
\* process with whatever schema, and however often opening it failed halfway.
\* So no two maps share a table, even if their names differ in case alone.
MapsKeepContents ==
  \A p \in Procs : pc[p] = "open" =>
    \A n \in Names : HasDbMap(schema[p], n) =>
      LET t == TableAt(p, FromName(schema[p], n))
      IN  t \in Names /\ file[t] = last[n]

\* Opening a database comes to an end, with a handle or an error.
OpenReturns ==
  \A p \in Procs : pc[p] = "connected" ~> pc[p] \in {"open", "closed"}
=============================================================================
