--------------------------- MODULE SqliteOpenProofs ---------------------------
(***************************************************************************)
(* Proofs about opening a SQLite file, for any number of processes, names  *)
(* and schemas, and whatever names SQLite takes for equal.                 *)
(***************************************************************************)
EXTENDS SqliteOpen, TLAPS

-----------------------------------------------------------------------------
(* Looking maps up                                                          *)

\* In a schema with unique names the three ways to refer to a map agree: by its
\* type (HasDbMap::INDEX), by its name (DbMapId::from_name) and by a number
\* (DbMapId::from_usize); and name leads back.
THEOREM LookupsAgree ==
  ASSUME NEW s \in Seq(Names), NamesUnique(s), NEW n \in Names, HasDbMap(s, n)
  PROVE  /\ Index(s, n) \in 1 .. Len(s)
         /\ Name(s, Index(s, n)) = n
         /\ FromName(s, n) = Index(s, n)
         /\ FromUsize(s, Index(s, n)) = Index(s, n)
<1>1. PICK i \in 1 .. Len(s) : s[i] = n
  BY DEF HasDbMap
<1>2. Index(s, n) \in 1 .. Len(s) /\ s[Index(s, n)] = n
  BY <1>1 DEF Index
<1>3. \A j \in 1 .. i - 1 : s[j] # n
  BY <1>1 DEF NamesUnique
<1>4. /\ FromName(s, n) \in 1 .. Len(s)
      /\ s[FromName(s, n)] = n
  BY <1>1, <1>3 DEF FromName
<1> QED
  BY <1>2, <1>4 DEF NamesUnique, Name, FromUsize

-----------------------------------------------------------------------------
(* The invariant                                                            *)

\* From the exclusive transaction on, a process has the lock.
LockInv ==
  \A p \in Procs : pc[p] \in {"exclusive", "check", "create", "open"} => locked = p

\* A schema that is in use has passed the check of its names.
SchemaInv == \A p \in Procs : pc[p] # "closed" => NamesUnique(schema[p])

\* SQLite takes no two tables of the file for the same.
NoTwins ==
  \A t, u \in Names : file[t] # Missing /\ file[u] # Missing /\ Fold[t] = Fold[u] => t = u

\* A table holds what was last written to its map; without one nothing was.
FileIsLast ==
  \A n \in Names : last[n] = IF file[n] = Missing THEN None ELSE file[n]

\* The tables before the one the loop is at exist.
TablesBefore ==
  \A p \in Procs :
    /\ \A i \in 1 .. idx[p] - 1 : file[schema[p][i]] # Missing
    /\ pc[p] = "create" => idx[p] <= Len(schema[p])
    /\ pc[p] = "open" => idx[p] = Len(schema[p]) + 1
    /\ pc[p] \in {"closed", "connected", "exclusive"} => idx[p] = 1

Inv == /\ TypeOK /\ LockInv /\ SchemaInv /\ NoTwins /\ FileIsLast /\ TablesBefore
       /\ CreateFindsNoTable

\* A schema in use is a sequence of names.
LEMMA SchemasAreSeqs ==
  \A s \in Schemas \cup {<<>>} : s \in Seq(Names) /\ Len(s) \in Nat
<1>1. <<>> \in Seq(Names)
  OBVIOUS
<1>2. \A s \in Seq(Names) : Len(s) \in Nat
  OBVIOUS
<1> QED
  BY <1>1, <1>2, SchemasAssumption

LEMMA SchemaIsSeq ==
  ASSUME TypeOK, NEW p \in Procs
  PROVE  schema[p] \in Seq(Names) /\ Len(schema[p]) \in Nat
BY SchemasAreSeqs DEF TypeOK

LEMMA TableIsName ==
  ASSUME TypeOK, NEW p \in Procs, idx[p] <= Len(schema[p])
  PROVE  Table(p) \in Names
<1>1. idx[p] \in 1 .. Len(schema[p])
  BY SchemaIsSeq DEF TypeOK
<1> QED
  BY <1>1, SchemaIsSeq DEF Table

\* The tables that a statement names in an open database are those of the map.
LEMMA OpenMapHasTable ==
  ASSUME Inv, NEW p \in Procs, pc[p] = "open", NEW n \in Names, HasDbMap(schema[p], n)
  PROVE  /\ file[n] # Missing
         /\ Resolved(n) = n
<1>1. PICK i \in 1 .. Len(schema[p]) : schema[p][i] = n
  BY DEF HasDbMap
<1>2. file[n] # Missing
  <2>1. idx[p] = Len(schema[p]) + 1
    BY DEF Inv, TablesBefore
  <2>2. Len(schema[p]) \in Nat
    BY SchemaIsSeq DEF Inv
  <2> QED
    BY <1>1, <2>1, <2>2 DEF Inv, TablesBefore
<1>3. Twins(n) = {n}
  BY <1>2 DEF Twins, Inv, NoTwins
<1> QED
  BY <1>2, <1>3 DEF Resolved

LEMMA InitInv == Init => Inv
<1> SUFFICES ASSUME Init PROVE Inv
  OBVIOUS
<1>1. TypeOK
  <2>1. \A p \in Procs : schema[p] = <<>> /\ idx[p] = 1
    BY DEF Init
  <2>2. Len(<<>>) = 0
    OBVIOUS
  <2> QED
    BY <2>1, <2>2, OpensAssumption DEF Init, TypeOK
<1> QED
  BY <1>1 DEF Inv, Init, LockInv, SchemaInv, NoTwins, FileIsLast, TablesBefore,
              CreateFindsNoTable

-----------------------------------------------------------------------------
(* Types *)

\* The end of a connection puts a process back to the start.
LEMMA DisconnectTypeOK ==
  ASSUME TypeOK, NEW p \in Procs, Disconnect(p) PROVE TypeOK'
<1>1. \A q \in Procs : idx'[q] \in 1 .. Len(schema'[q]) + 1
  <2> TAKE q \in Procs
  <2>1. CASE q = p
    <3>1. schema'[q] = <<>> /\ idx'[q] = 1
      BY <2>1 DEF TypeOK, Disconnect
    <3> QED
      BY <3>1
  <2>2. CASE q # p
    BY <2>2 DEF TypeOK, Disconnect
  <2> QED
    BY <2>1, <2>2
<1> QED
  BY <1>1 DEF TypeOK, Disconnect, Goto

LEMMA NextTypeOK == Inv /\ [Next]_vars => TypeOK'
<1> SUFFICES ASSUME Inv, [Next]_vars PROVE TypeOK'
  OBVIOUS
<1> USE DEF Inv
<1>1. ASSUME NEW p \in Procs, NEW s \in Schemas, Connect(p, s) PROVE TypeOK'
  <2>1. idx[p] = 1
    BY <1>1 DEF Connect, TablesBefore
  <2>2. Len(s) \in Nat
    BY SchemasAreSeqs
  <2>3. opens' \in [Procs -> 0 .. MaxOpens]
    BY <1>1, OpensAssumption DEF Connect, TypeOK
  <2>4. schema' \in [Procs -> Schemas \cup {<<>>}]
    BY <1>1 DEF Connect, TypeOK
  <2>5. \A q \in Procs : idx'[q] \in 1 .. Len(schema'[q]) + 1
    <3> TAKE q \in Procs
    <3>1. idx'[q] = idx[q] /\ schema'[q] \in {schema[q], IF q = p THEN s ELSE schema[q]}
      BY <1>1 DEF Connect, TypeOK
    <3> QED
      BY <2>1, <2>2, <3>1 DEF TypeOK
  <2> QED
    BY <1>1, <2>3, <2>4, <2>5 DEF Connect, TypeOK, Goto
<1>2. ASSUME NEW p \in Procs, BeginExclusive(p) \/ CommitExclusive(p) \/ Opened(p)
      PROVE  TypeOK'
  BY <1>2 DEF BeginExclusive, CommitExclusive, Opened, TypeOK, Goto
<1>3. ASSUME NEW p \in Procs, Busy(p) \/ CreateErr(p) \/ Leave(p) PROVE TypeOK'
  BY <1>3, DisconnectTypeOK DEF Busy, CreateErr, Leave
<1>4. ASSUME NEW p \in Procs, Check(p) PROVE TypeOK'
  <2>1. CASE idx' = idx
    BY <1>4, <2>1 DEF Check, TypeOK, Goto
  <2>2. CASE idx' = [idx EXCEPT ![p] = @ + 1]
    <3>1. idx[p] \in Nat /\ idx[p] + 1 \in Nat /\ idx \in [Procs -> Nat]
      BY DEF TypeOK
    <3>2. idx' \in [Procs -> Nat]
      BY <2>2, <3>1
    <3>3. idx[p] <= Len(schema[p]) /\ schema' = schema
      BY <1>4 DEF Check
    <3>4. \A q \in Procs : idx'[q] = IF q = p THEN idx[p] + 1 ELSE idx[q]
      BY <2>2, <3>1
    <3>5. ASSUME NEW q \in Procs PROVE idx'[q] \in 1 .. Len(schema'[q]) + 1
      <4>1. Len(schema[q]) \in Nat /\ idx[q] \in 1 .. Len(schema[q]) + 1
        BY SchemaIsSeq DEF TypeOK
      <4>2. CASE q = p
        <5>1. idx'[q] = idx[q] + 1 /\ schema'[q] = schema[q] /\ idx[q] <= Len(schema[q])
          BY <3>3, <3>4, <4>2
        <5> QED
          BY <4>1, <5>1
      <4>3. CASE q # p
        <5>1. idx'[q] = idx[q] /\ schema'[q] = schema[q]
          BY <3>3, <3>4, <4>3
        <5> QED
          BY <4>1, <5>1
      <4> QED
        BY <4>2, <4>3
    <3> QED
      BY <1>4, <3>2, <3>5 DEF Check, TypeOK, Goto
  <2> QED
    BY <1>4, <2>1, <2>2 DEF Check
<1>5. ASSUME NEW p \in Procs, Create(p) PROVE TypeOK'
  <2>1. idx' \in [Procs -> Nat]
    BY <1>5 DEF Create, TypeOK
  <2>2. \A q \in Procs : idx'[q] \in 1 .. Len(schema'[q]) + 1
    BY <1>5, SchemaIsSeq DEF Create, TypeOK, TablesBefore
  <2>3. file' \in [Names -> Vals \cup {None, Missing}]
    BY <1>5 DEF Create, TypeOK
  <2> QED
    BY <1>5, <2>1, <2>2, <2>3 DEF Create, TypeOK, Goto
<1>6. ASSUME NEW p \in Procs, NEW n \in Names, NEW v \in Vals \cup {None}, Write(p, n, v)
      PROVE  TypeOK'
  BY <1>6 DEF Write, TypeOK
<1>7. CASE Finished \/ UNCHANGED vars
  BY <1>7 DEF Finished, vars, TypeOK
<1> QED
  BY <1>1, <1>2, <1>3, <1>4, <1>5, <1>6, <1>7 DEF Next

-----------------------------------------------------------------------------
(* The file and the lock *)

\* What Disconnect leaves: a process that is closed and has no lock.
LEMMA DisconnectInv ==
  ASSUME Inv, NEW p \in Procs, Disconnect(p)
  PROVE  (LockInv /\ SchemaInv /\ NoTwins /\ FileIsLast /\ TablesBefore
          /\ CreateFindsNoTable)'
<1> USE DEF Inv, Disconnect, Goto, TypeOK
<1>1. pc'[p] = "closed" /\ idx'[p] = 1
  OBVIOUS
<1>2. \A q \in Procs : q # p => /\ pc'[q] = pc[q] /\ schema'[q] = schema[q]
                                /\ idx'[q] = idx[q]
  OBVIOUS
<1>3. LockInv'
  <2> SUFFICES ASSUME NEW q \in Procs, pc'[q] \in {"exclusive", "check", "create", "open"}
               PROVE  locked' = q
    BY DEF LockInv
  <2>1. q # p /\ locked = q
    BY <1>1, <1>2 DEF LockInv
  <2> QED
    BY <2>1
<1>4. SchemaInv'
  BY <1>1, <1>2 DEF SchemaInv
<1>5. NoTwins' /\ FileIsLast'
  BY DEF NoTwins, FileIsLast
<1>6. TablesBefore'
  <2> SUFFICES ASSUME NEW q \in Procs
               PROVE  /\ \A i \in 1 .. idx'[q] - 1 : file[schema'[q][i]] # Missing
                      /\ pc'[q] = "create" => idx'[q] <= Len(schema'[q])
                      /\ pc'[q] = "open" => idx'[q] = Len(schema'[q]) + 1
                      /\ pc'[q] \in {"closed", "connected", "exclusive"} => idx'[q] = 1
    BY DEF TablesBefore
  <2>1. CASE q = p
    BY <2>1, <1>1
  <2>2. CASE q # p
    BY <2>2, <1>2 DEF TablesBefore
  <2> QED
    BY <2>1, <2>2
<1>7. CreateFindsNoTable'
  <2> SUFFICES ASSUME NEW q \in Procs, pc'[q] = "create" PROVE file[Table(q)'] = Missing
    BY DEF CreateFindsNoTable
  <2>1. q # p
    BY <1>1
  <2> QED
    BY <2>1, <1>2 DEF CreateFindsNoTable, Table
<1> QED
  BY <1>3, <1>4, <1>5, <1>6, <1>7

\* Nobody is at the tables but the process with the lock.
LEMMA OthersAway ==
  ASSUME Inv, NEW p \in Procs, pc[p] \in {"exclusive", "check", "create", "open"},
         NEW q \in Procs, q # p
  PROVE  pc[q] \in {"closed", "connected"} /\ idx[q] = 1
<1>1. pc[q] \in {"closed", "connected"}
  BY DEF Inv, TypeOK, LockInv
<1> QED
  BY <1>1 DEF Inv, TablesBefore

LEMMA CreateInv ==
  ASSUME Inv, NEW p \in Procs, Create(p)
  PROVE  (LockInv /\ SchemaInv /\ NoTwins /\ FileIsLast /\ TablesBefore
          /\ CreateFindsNoTable)'
<1>1. Table(p) \in Names /\ file[Table(p)] = Missing
  BY TableIsName DEF Inv, TablesBefore, CreateFindsNoTable, Create
<1>2. \A t \in Names : t # Table(p) => file'[t] = file[t]
  BY DEF Inv, TypeOK, Create
<1>3. file'[Table(p)] = None /\ None # Missing
  BY <1>1, SentinelsAssumption DEF Inv, TypeOK, Create
<1>4. pc'[p] = "check" /\ \A q \in Procs : q # p => pc'[q] = pc[q] /\ idx'[q] = idx[q]
  BY DEF Inv, TypeOK, Create, Goto
<1>5. schema' = schema /\ locked' = locked /\ last' = last /\ idx'[p] = idx[p] + 1
  BY DEF Inv, TypeOK, Create
<1>6. \A q \in Procs : q # p => pc[q] \in {"closed", "connected"} /\ idx[q] = 1
  BY OthersAway DEF Create
<1>7. LockInv' /\ SchemaInv'
  BY <1>4, <1>5 DEF Inv, LockInv, SchemaInv, Create
<1>8. NoTwins'
  <2> SUFFICES ASSUME NEW t \in Names, NEW u \in Names, file'[t] # Missing,
                      file'[u] # Missing, Fold[t] = Fold[u]
               PROVE  t = u
    BY DEF NoTwins
  <2>1. \A w \in Names : Fold[w] = Fold[Table(p)] => file[w] = Missing
    BY DEF Create, Twins
  <2> QED
    BY <1>1, <1>2, <2>1 DEF Inv, NoTwins
<1>9. FileIsLast'
  BY <1>1, <1>2, <1>3, <1>5 DEF Inv, FileIsLast
<1>10. TablesBefore'
  <2>1. ASSUME NEW i \in 1 .. idx'[p] - 1 PROVE file'[schema[p][i]] # Missing
    <3>1. i \in 1 .. idx[p]
      BY <1>5 DEF Inv, TypeOK
    <3>2. i \in 1 .. Len(schema[p]) /\ schema[p][i] \in Names
      BY <3>1, SchemaIsSeq DEF Inv, TypeOK, TablesBefore, Create
    <3>3. CASE i = idx[p]
      BY <3>3, <1>3 DEF Table
    <3>4. CASE i # idx[p]
      <4>1. i \in 1 .. idx[p] - 1
        BY <3>1, <3>4 DEF Inv, TypeOK
      <4> QED
        BY <4>1, <3>2, <1>1, <1>2 DEF Inv, TablesBefore
    <3> QED
      BY <3>3, <3>4
  <2> SUFFICES ASSUME NEW q \in Procs
               PROVE  /\ \A i \in 1 .. idx'[q] - 1 : file'[schema[q][i]] # Missing
                      /\ pc'[q] = "create" => idx'[q] <= Len(schema[q])
                      /\ pc'[q] = "open" => idx'[q] = Len(schema[q]) + 1
                      /\ pc'[q] \in {"closed", "connected", "exclusive"} => idx'[q] = 1
    BY <1>5 DEF TablesBefore
  <2>2. CASE q = p
    BY <2>1, <2>2, <1>4
  <2>3. CASE q # p
    BY <2>3, <1>4, <1>6
  <2> QED
    BY <2>2, <2>3
<1>11. CreateFindsNoTable'
  BY <1>4, <1>6 DEF CreateFindsNoTable
<1> QED
  BY <1>7, <1>8, <1>9, <1>10, <1>11

LEMMA WriteInv ==
  ASSUME Inv, NEW p \in Procs, NEW n \in Names, NEW v \in Vals \cup {None}, Write(p, n, v)
  PROVE  (LockInv /\ SchemaInv /\ NoTwins /\ FileIsLast /\ TablesBefore
          /\ CreateFindsNoTable)'
<1>1. file[n] # Missing /\ Resolved(n) = n
  BY OpenMapHasTable DEF Write
<1>2. TableAt(p, Index(schema[p], n)) = n
  <2>1. Name(schema[p], Index(schema[p], n)) = n
    BY LookupsAgree, SchemaIsSeq DEF Write, Inv, SchemaInv
  <2> QED
    BY <1>1, <2>1 DEF TableAt
<1>3. file' = [file EXCEPT ![n] = v] /\ last' = [last EXCEPT ![n] = v] /\ v # Missing
  BY <1>2, SentinelsAssumption DEF Write
<1>4. UNCHANGED <<locked, pc, schema, idx>>
  BY DEF Write
<1>5. \A t \in Names : file'[t] = Missing <=> file[t] = Missing
  BY <1>1, <1>3 DEF Inv, TypeOK
<1>6. FileIsLast'
  BY <1>1, <1>3 DEF Inv, TypeOK, FileIsLast
<1>7. \A q \in Procs : \A i \in 1 .. idx[q] - 1 : schema[q][i] \in Names
  BY SchemaIsSeq DEF Inv, TypeOK
<1>8. TablesBefore'
  BY <1>4, <1>5, <1>7 DEF Inv, TablesBefore
<1>9. CreateFindsNoTable'
  <2> SUFFICES ASSUME NEW q \in Procs, pc[q] = "create" PROVE file'[Table(q)] = Missing
    BY <1>4 DEF CreateFindsNoTable, Table
  <2>1. Table(q) \in Names
    BY TableIsName DEF Inv, TablesBefore
  <2> QED
    BY <2>1, <1>5 DEF Inv, CreateFindsNoTable
<1> QED
  BY <1>4, <1>5, <1>6, <1>8, <1>9 DEF Inv, LockInv, SchemaInv, NoTwins

LEMMA NextInv == Inv /\ [Next]_vars => Inv'
<1> SUFFICES ASSUME Inv, [Next]_vars PROVE Inv'
  OBVIOUS
<1> DEFINE Rest == LockInv /\ SchemaInv /\ NoTwins /\ FileIsLast /\ TablesBefore
                   /\ CreateFindsNoTable
<1>1. ASSUME NEW p \in Procs, NEW s \in Schemas, Connect(p, s) PROVE Rest'
  <2>1. /\ pc[p] = "closed" /\ idx[p] = 1
        /\ UNCHANGED <<file, locked, idx, last>>
    BY <1>1 DEF Connect, Inv, TablesBefore
  <2>2. \A q \in Procs : q # p => pc'[q] = pc[q] /\ schema'[q] = schema[q]
    BY <1>1 DEF Connect, Inv, TypeOK, Goto
  <2>3. pc'[p] \in {"closed", "connected"} /\ (pc'[p] # "closed" => NamesUnique(schema'[p]))
    BY <1>1 DEF Connect, Inv, TypeOK, Goto
  <2>4. LockInv' /\ SchemaInv' /\ NoTwins' /\ FileIsLast'
    BY <2>1, <2>2, <2>3 DEF Inv, LockInv, SchemaInv, NoTwins, FileIsLast
  <2>5. TablesBefore'
    BY <2>1, <2>2, <2>3 DEF Inv, TablesBefore
  <2>6. CreateFindsNoTable'
    BY <2>1, <2>2, <2>3 DEF Inv, CreateFindsNoTable, Table
  <2> QED
    BY <2>4, <2>5, <2>6
<1>2. ASSUME NEW p \in Procs, BeginExclusive(p) PROVE Rest'
  <2>1. /\ pc[p] = "connected" /\ pc' = [pc EXCEPT ![p] = "exclusive"]
        /\ locked = NoProc /\ locked' = p
        /\ UNCHANGED <<file, schema, idx, last>>
    BY <1>2 DEF BeginExclusive, Goto
  <2>2. \A q \in Procs : pc'[q] = IF q = p THEN "exclusive" ELSE pc[q]
    BY <2>1 DEF Inv, TypeOK
  <2>3. \A q \in Procs : pc[q] \notin {"exclusive", "check", "create", "open"}
    BY <2>1, SentinelsAssumption DEF Inv, LockInv
  <2>4. LockInv' /\ CreateFindsNoTable'
    BY <2>1, <2>2, <2>3 DEF LockInv, CreateFindsNoTable
  <2>5. SchemaInv' /\ NoTwins' /\ FileIsLast'
    BY <2>1, <2>2 DEF Inv, SchemaInv, NoTwins, FileIsLast
  <2>6. TablesBefore'
    BY <2>1, <2>2 DEF Inv, TablesBefore
  <2> QED
    BY <2>4, <2>5, <2>6
<1>3. ASSUME NEW p \in Procs, CommitExclusive(p) PROVE Rest'
  BY <1>3 DEF CommitExclusive, Goto, Inv, TypeOK, LockInv, SchemaInv, NoTwins, FileIsLast,
              TablesBefore, CreateFindsNoTable, Table
<1>4. ASSUME NEW p \in Procs, Busy(p) \/ CreateErr(p) \/ Leave(p) PROVE Rest'
  BY <1>4, DisconnectInv DEF Busy, CreateErr, Leave
<1>5. ASSUME NEW p \in Procs, Check(p), file[Table(p)] = Missing PROVE Rest'
  BY <1>5 DEF Check, Goto, Inv, TypeOK, LockInv, SchemaInv, NoTwins, FileIsLast,
              TablesBefore, CreateFindsNoTable, Table
<1>6. ASSUME NEW p \in Procs, Check(p), file[Table(p)] # Missing PROVE Rest'
  <2>1. /\ UNCHANGED <<file, locked, pc, schema, last>> /\ pc[p] = "check"
        /\ idx' = [idx EXCEPT ![p] = @ + 1]
    BY <1>6 DEF Check
  <2>2. \A q \in Procs : q # p => idx'[q] = idx[q]
    BY <2>1 DEF Inv, TypeOK
  <2>3. \A i \in 1 .. idx'[p] - 1 : i = idx[p] \/ i \in 1 .. idx[p] - 1
    BY <2>1 DEF Inv, TypeOK
  <2>4. TablesBefore'
    BY <1>6, <2>1, <2>2, <2>3 DEF Inv, TablesBefore, Table
  <2>5. CreateFindsNoTable'
    BY <2>1, <2>2 DEF Inv, CreateFindsNoTable, Table
  <2> QED
    BY <2>1, <2>4, <2>5 DEF Inv, LockInv, SchemaInv, NoTwins, FileIsLast
<1>7. ASSUME NEW p \in Procs, Create(p) PROVE Rest'
  BY <1>7, CreateInv
<1>8. ASSUME NEW p \in Procs, Opened(p) PROVE Rest'
  <2>1. idx[p] = Len(schema[p]) + 1
    BY <1>8, SchemaIsSeq DEF Opened, Inv, TypeOK
  <2> QED
    BY <1>8, <2>1 DEF Opened, Goto, Inv, TypeOK, LockInv, SchemaInv, NoTwins, FileIsLast,
                      TablesBefore, CreateFindsNoTable, Table
<1>9. ASSUME NEW p \in Procs, NEW n \in Names, NEW v \in Vals \cup {None}, Write(p, n, v)
      PROVE  Rest'
  BY <1>9, WriteInv
<1>10. ASSUME Finished \/ UNCHANGED vars PROVE Rest'
  <2>1. UNCHANGED <<file, locked, pc, schema, idx, last>>
    BY <1>10 DEF Finished, vars
  <2>2. LockInv' /\ SchemaInv' /\ NoTwins' /\ FileIsLast'
    BY <2>1 DEF Inv, LockInv, SchemaInv, NoTwins, FileIsLast
  <2>3. TablesBefore' /\ CreateFindsNoTable'
    BY <2>1 DEF Inv, TablesBefore, CreateFindsNoTable, Table
  <2> QED
    BY <2>2, <2>3
<1> QED
  BY <1>1, <1>2, <1>3, <1>4, <1>5, <1>6, <1>7, <1>8, <1>9, <1>10, NextTypeOK DEF Next, Inv

\* Every state of Sqlite::open, by whatever processes, satisfies the invariant: the
\* lock, the loop over the tables and the contents of the file are as it says.
THEOREM SpecInv == Spec => []Inv
<1> QED
  BY InitInv, NextInv, PTL DEF Spec

-----------------------------------------------------------------------------

\* Types, for all processes, names and schemas.
THEOREM TypeCorrect == Spec => []TypeOK
<1>1. Inv => TypeOK
  BY DEF Inv
<1> QED
  BY <1>1, SpecInv, PTL

\* Between the check for a table and its creation nobody creates it: nobody else
\* is past the exclusive transaction.
THEOREM CreateFindsNone == Spec => []CreateFindsNoTable
<1>1. Inv => CreateFindsNoTable
  BY DEF Inv
<1> QED
  BY <1>1, SpecInv, PTL

\* No map loses, swaps or shares its contents, whatever schemas open the file, in
\* whatever order, and wherever opening it stopped.
THEOREM ContentsAreKept == Spec => []MapsKeepContents
<1>1. Inv => MapsKeepContents
  <2> SUFFICES ASSUME Inv, NEW p \in Procs, pc[p] = "open", NEW n \in Names,
                      HasDbMap(schema[p], n)
               PROVE  LET t == TableAt(p, FromName(schema[p], n))
                      IN  t \in Names /\ file[t] = last[n]
    BY DEF MapsKeepContents
  <2>1. file[n] # Missing /\ Resolved(n) = n
    BY OpenMapHasTable
  <2>2. Name(schema[p], FromName(schema[p], n)) = n
    BY LookupsAgree, SchemaIsSeq DEF Inv, SchemaInv
  <2> QED
    BY <2>1, <2>2 DEF TableAt, Inv, FileIsLast
<1> QED
  BY <1>1, SpecInv, PTL
=============================================================================
