-------------------------- MODULE BackendSuiteProofs --------------------------
(***************************************************************************)
(* No test of the suite fails or hangs, on any backend that keeps the      *)
(* contract, with any random input.                                        *)
(*                                                                         *)
(* A thread of a test walks from place to place: a place is the            *)
(* transaction that it has open, the threads that it has spawned, and what *)
(* is known of the data.  The first part of the module defines which step  *)
(* leads from which place to which; the parts after it, one for each kind  *)
(* of test, show that every program of the suite is a walk on which every  *)
(* assertion is satisfied by what is known; the last parts show, by an     *)
(* invariant of the schedules, that a thread that runs is at its place and *)
(* that what is known of the data there is so.                             *)
(*                                                                         *)
(* No test hangs because a thread has at most one transaction open, ends   *)
(* each that it begins, and only "main", with no transaction open, joins a *)
(* thread, one that it has spawned: no thread that has a transaction open  *)
(* waits, and those that wait for a transaction wait for one that is going *)
(* to end, whichever transactions a backend lets run side by side.         *)
(***************************************************************************)
EXTENDS BackendSuite, SequenceTheorems, FiniteSetTheorems, NaturalsInduction,
        WellFoundedInduction, TLAPS

Workers == Clients \ {"main"}
Kinds == {"ro", "rw"}

\* A place is where a thread is between two steps: the transaction it has open, if
\* any, the threads it has spawned, and what is known of the data.
\*
\* A step leads on from place x to place y if it is in order: a thread has at most
\* one transaction open, and only "main", with none open, joins a thread, one that
\* it has spawned.
Moves(c, step, x, y) ==
  \/ /\ step.op = "begin" /\ step.kind \in Kinds
     /\ x[1] = "idle" /\ y[1] = step.kind /\ y[2] = x[2]
  \/ /\ step.op = "commit"
     /\ x[1] = "rw" /\ y[1] = "idle" /\ y[2] = x[2]
  \/ /\ step.op = "drop"
     /\ x[1] \in Kinds /\ y[1] = "idle" /\ y[2] = x[2]
  \/ /\ step.op \in {"write", "add", "delall"}
     /\ x[1] = "rw" /\ y[1] = x[1] /\ y[2] = x[2]
  \/ /\ step.op \in Asserts \cup {"keep"}
     /\ x[1] \in Kinds /\ y[1] = x[1] /\ y[2] = x[2]
  \/ /\ step.op = "spawn" /\ c = "main" /\ step.thread \in Workers \ x[2]
     /\ y[1] = x[1] /\ y[2] = x[2] \cup {step.thread}
  \/ /\ step.op = "join" /\ c = "main" /\ step.thread \in x[2]
     /\ x[1] = "idle" /\ y[1] = x[1] /\ y[2] = x[2]

\* In a test of one thread everything is known: the committed contents, those
\* that its transaction sees, and the models it has kept.
World(S, V, K) == [store |-> S, view |-> V, kept |-> K]

Written(V, m, k, v) == [V EXCEPT ![m][k] = v]
Cleared(V, p) == [V EXCEPT ![0] = [k \in Keys |-> IF StartsWith(k, p) THEN None ELSE V[0][k]]]

Satisfied(step, w) ==
  /\ step.op = "get" => w.view[step.map][step.key] \in step.among
  /\ step.op = "iter" => Iter(w.view[0], step.prefix) = step.entries
  /\ step.op = "vals" =>
       LET found == Iter(w.view[0], step.prefix)
       IN  [i \in DOMAIN found |-> found[i][2]] = step.vals
  /\ step.op = "count" => Len(Iter(w.view[0], <<>>)) = step.count
  /\ step.op = "same" => Iter(w.view[0], <<>>) = w.kept[step.name]

Sees(step, a, b) ==
  /\ step.op \notin {"add", "spawn", "join"}
  /\ step.op = "begin" => b = World(a.store, a.store, a.kept)
  /\ step.op = "commit" => b = World(a.view, EmptyContents, a.kept)
  /\ step.op = "drop" => b = World(a.store, EmptyContents, a.kept)
  /\ step.op = "write" =>
       b = World(a.store, Written(a.view, step.map, step.key, step.val), a.kept)
  /\ step.op = "delall" => b = World(a.store, Cleared(a.view, step.prefix), a.kept)
  /\ step.op = "keep" =>
       b = World(a.store, a.view, [a.kept EXCEPT ![step.name] = Iter(a.view[0], <<>>)])
  /\ step.op \in Asserts => b = a /\ Satisfied(step, a)

\* In a test of several threads what a transaction sees depends on the threads that
\* have committed before it began; of some of them it is known that they have.
\* stage tells how far the thread is with what it writes.
Tests == {"initialize race", "write race", "read modify write", "consistent reads",
          "different keys"}

\* What map 0 holds under a key when the threads in C have committed.
ValueAfter(t, C, k) ==
  CASE t = "initialize race" /\ k = TEST_KEY /\ "thr0" \in C -> 2
    [] t = "write race" /\ k = TEST_KEY /\ "main" \in C -> IF "thr0" \in C THEN 2 ELSE 0
    [] t = "read modify write" /\ k = TEST_KEY /\ "main" \in C ->
         (IF "thr0" \in C THEN 5 ELSE 0) + (IF "thr1" \in C THEN 3 ELSE 0)
    [] t = "consistent reads" /\ k = TEST_KEY /\ "main" \in C -> 7
    [] t = "different keys" /\ k = <<1>> /\ "thr0" \in C -> 1
    [] t = "different keys" /\ k = <<2>> /\ "thr1" \in C -> 2
    [] OTHER -> None
ContentsAfter(t, C) ==
  [m \in MapIds |-> [k \in Keys |-> IF m = 0 THEN ValueAfter(t, C, k) ELSE None]]

\* The threads that commit, and those that have before the others start.
Commits(t) ==
  CASE t = "initialize race" -> {"thr0"}
    [] t = "write race" -> {"main", "thr0"}
    [] t = "read modify write" -> {"main", "thr0", "thr1"}
    [] t = "consistent reads" -> {"main"}
    [] t = "different keys" -> {"thr0", "thr1"}
    [] OTHER -> {}
Before(t) == Commits(t) \cap {"main"}
Possible(t) == {C \in SUBSET Commits(t) : C = {} \/ Before(t) \subseteq C}

Known(stage, C) == [stage |-> stage, known |-> C]

Shares(t, c, step, a, b) ==
  /\ step.op \in {"begin", "drop", "write", "add", "commit", "get", "iter", "spawn", "join"}
  /\ step.op \in {"begin", "drop", "get", "iter"} => b = a
  /\ step.op \in {"drop", "get", "iter"} => a.stage # "wrote"
  /\ step.op = "commit" =>
       /\ a.stage = "wrote" /\ b = Known("done", a.known \cup {c})
       /\ c \in Commits(t) /\ Before(t) \subseteq a.known \cup {c}
  /\ step.op = "write" =>
       /\ a.stage = "none" /\ b = Known("wrote", a.known)
       /\ \A C \in Possible(t) : a.known \subseteq C /\ c \notin C =>
            Written(ContentsAfter(t, C), step.map, step.key, step.val)
              = ContentsAfter(t, C \cup {c})
  /\ step.op = "add" =>
       /\ a.stage = "none" /\ b = Known("wrote", a.known)
       /\ \A C \in Possible(t) : a.known \subseteq C /\ c \notin C =>
            Written(ContentsAfter(t, C), 0, step.key,
                    ContentsAfter(t, C)[0][step.key] + step.addend)
              = ContentsAfter(t, C \cup {c})
  /\ step.op = "get" =>
       \A C \in Possible(t) : a.known \subseteq C =>
         ContentsAfter(t, C)[step.map][step.key] \in step.among
  /\ step.op = "iter" =>
       \A C \in Possible(t) : a.known \subseteq C =>
         Iter(ContentsAfter(t, C)[0], step.prefix) = step.entries
  /\ step.op = "spawn" => b = a /\ Before(t) \subseteq a.known
  /\ step.op = "join" => b = Known(a.stage, a.known \cup ({step.thread} \cap Commits(t)))

Leads(t, c, step, x, y) ==
  /\ Moves(c, step, x, y)
  /\ t = "alone" => Sees(step, x[3], y[3])
  /\ t \in Tests => Shares(t, c, step, x[3], y[3])

\* The steps s lead a thread from x to y, by way of the places p.
Path(t, c, s, p) ==
  /\ \E P : p \in [1 .. Len(s) + 1 -> P]
  /\ \A i \in 1 .. Len(s) : Leads(t, c, s[i], p[i], p[i + 1])

IsSequence(s) == \E S : s \in Seq(S)

Walk(t, c, s, x, y) ==
  /\ IsSequence(s)
  /\ \E p : Path(t, c, s, p) /\ p[1] = x /\ p[Len(s) + 1] = y

-----------------------------------------------------------------------------
(* Walks *)

LEMMA Walks ==
  ASSUME NEW t, NEW c, NEW s, NEW u, NEW x, NEW y, NEW z,
         Walk(t, c, s, x, y), Walk(t, c, u, y, z)
  PROVE  Walk(t, c, s \o u, x, z)
<1> DEFINE m == Len(s)
           n == Len(u)
           su == s \o u
<1>1. PICK S : s \in Seq(S) /\ u \in Seq(S)
  <2>1. PICK S1 : s \in Seq(S1)
    BY DEF Walk, IsSequence
  <2>2. PICK S2 : u \in Seq(S2)
    BY DEF Walk, IsSequence
  <2>3. s \in Seq(S1 \cup S2) /\ u \in Seq(S1 \cup S2)
    BY <2>1, <2>2
  <2> QED
    BY <2>3
<1>2. /\ m \in Nat /\ n \in Nat /\ IsSequence(su) /\ Len(su) = m + n
      /\ \A i \in 1 .. m : su[i] = s[i]
      /\ \A i \in 1 .. n : su[m + i] = u[i]
  BY <1>1 DEF IsSequence
<1>3. PICK p : Path(t, c, s, p) /\ p[1] = x /\ p[m + 1] = y
  BY DEF Walk
<1>4. PICK q : Path(t, c, u, q) /\ q[1] = y /\ q[n + 1] = z
  BY DEF Walk
<1>5. PICK P : p \in [1 .. m + 1 -> P]
  BY <1>3 DEF Path
<1>6. PICK Q : q \in [1 .. n + 1 -> Q]
  BY <1>4 DEF Path
<1>7. /\ \A i \in 1 .. m : Leads(t, c, s[i], p[i], p[i + 1])
      /\ \A i \in 1 .. n : Leads(t, c, u[i], q[i], q[i + 1])
  BY <1>3, <1>4 DEF Path
<1> HIDE DEF m, n, su
<1> DEFINE r == [i \in 1 .. m + n + 1 |-> IF i <= m THEN p[i] ELSE q[i - m]]
<1>8. r \in [1 .. m + n + 1 -> P \cup Q]
  <2>1. ASSUME NEW i \in 1 .. m + n + 1
        PROVE  r[i] \in P \cup Q
    <3>1. CASE i <= m
      <4>1. i \in 1 .. m + 1
        BY <1>2, <3>1
      <4> QED
        BY <1>5, <3>1, <4>1
    <3>2. CASE ~(i <= m)
      <4>1. i - m \in 1 .. n + 1
        BY <1>2, <3>2
      <4> QED
        BY <1>6, <3>2, <4>1
    <3> QED
      BY <3>1, <3>2
  <2> QED
    BY <2>1
<1>9. ASSUME NEW i \in 1 .. m + n
      PROVE  Leads(t, c, su[i], r[i], r[i + 1])
  <2>1. CASE i < m
    <3>1. r[i] = p[i] /\ r[i + 1] = p[i + 1] /\ su[i] = s[i] /\ i \in 1 .. m
      BY <1>2, <2>1
    <3> QED
      BY <1>7, <3>1
  <2>2. CASE i = m
    <3>1. r[i] = p[i] /\ r[i + 1] = q[1] /\ su[i] = s[i] /\ i \in 1 .. m
      BY <1>2, <2>2
    <3> QED
      BY <1>3, <1>4, <1>7, <2>2, <3>1
  <2>3. CASE i > m
    <3> DEFINE j == i - m
    <3>1. j \in 1 .. n /\ i = m + j
      BY <1>2, <2>3
    <3>2. r[i] = q[j] /\ r[i + 1] = q[j + 1] /\ su[i] = u[j]
      BY <1>2, <3>1
    <3> QED
      BY <1>7, <3>1, <3>2
  <2> QED
    BY <1>2, <2>1, <2>2, <2>3
<1>10. Path(t, c, su, r)
  BY <1>2, <1>8, <1>9 DEF Path
<1>11. r[1] = x /\ r[Len(su) + 1] = z
  BY <1>2, <1>3, <1>4
<1>12. Walk(t, c, su, x, z)
  BY <1>2, <1>10, <1>11 DEF Walk
<1> QED
  BY <1>12 DEF su

\* A loop with a place before and after each turn.
LEMMA Loops ==
  ASSUME NEW t, NEW c, NEW n \in Nat, NEW f, NEW p,
         \A i \in 1 .. n : Leads(t, c, f[i], p[i], p[i + 1])
  PROVE  Walk(t, c, [i \in 1 .. n |-> f[i]], p[1], p[n + 1])
<1> DEFINE s == [i \in 1 .. n |-> f[i]]
           q == [i \in 1 .. n + 1 |-> p[i]]
<1>1. s \in Seq({f[i] : i \in 1 .. n}) /\ Len(s) = n
  OBVIOUS
<1>2. q \in [1 .. n + 1 -> {p[i] : i \in 1 .. n + 1}]
  OBVIOUS
<1>3. \A i \in 1 .. n : s[i] = f[i] /\ q[i] = p[i] /\ q[i + 1] = p[i + 1]
  OBVIOUS
<1>4. q[1] = p[1] /\ q[n + 1] = p[n + 1]
  OBVIOUS
<1> HIDE DEF s, q
<1>5. Path(t, c, s, q)
  BY <1>1, <1>2, <1>3 DEF Path
<1>6. Walk(t, c, s, p[1], p[n + 1])
  BY <1>1, <1>4, <1>5 DEF Walk, IsSequence
<1> QED
  BY <1>6 DEF s

LEMMA OneStep ==
  ASSUME NEW t, NEW c, NEW step, NEW x, NEW y, Leads(t, c, step, x, y)
  PROVE  Walk(t, c, <<step>>, x, y)
<1> DEFINE f == [i \in 1 .. 1 |-> step]
           p == [i \in 1 .. 2 |-> IF i = 1 THEN x ELSE y]
<1>1. \A i \in 1 .. 1 : Leads(t, c, f[i], p[i], p[i + 1])
  OBVIOUS
<1>2. p[1] = x /\ p[1 + 1] = y
  OBVIOUS
<1>3. [i \in 1 .. 1 |-> f[i]] = <<step>>
  OBVIOUS
<1> HIDE DEF f, p
<1>4. Walk(t, c, [i \in 1 .. 1 |-> f[i]], p[1], p[1 + 1])
  BY <1>1, Loops
<1> QED
  BY <1>2, <1>3, <1>4

LEMMA NoStep ==
  ASSUME NEW t, NEW c, NEW x
  PROVE  Walk(t, c, <<>>, x, x)
<1> DEFINE f == [i \in Nat |-> i]
           p == [i \in Nat |-> x]
<1>1. \A i \in 1 .. 0 : Leads(t, c, f[i], p[i], p[i + 1])
  OBVIOUS
<1>2. [i \in 1 .. 0 |-> f[i]] = <<>> /\ p[1] = x /\ p[0 + 1] = x
  OBVIOUS
<1> HIDE DEF f, p
<1>3. Walk(t, c, [i \in 1 .. 0 |-> f[i]], p[1], p[0 + 1])
  BY <1>1, Loops
<1> QED
  BY <1>2, <1>3

-----------------------------------------------------------------------------
(* Tests of one thread, step by step *)

Goes(s, x, y) == Walk("alone", "main", s, x, y)

Idle(S, K) == <<"idle", {}, World(S, EmptyContents, K)>>
Open(kind, S, V, K) == <<kind, {}, World(S, V, K)>>

LEMMA Goings ==
  ASSUME NEW s, NEW u, NEW x, NEW y, NEW z, Goes(s, x, y), Goes(u, y, z)
  PROVE  Goes(s \o u, x, z)
BY Walks DEF Goes

LEMMA Begins ==
  ASSUME NEW S, NEW K
  PROVE  /\ Goes(Ro, Idle(S, K), Open("ro", S, S, K))
         /\ Goes(Rw, Idle(S, K), Open("rw", S, S, K))
<1>1. ASSUME NEW kind \in Kinds
      PROVE  Leads("alone", "main", [op |-> "begin", kind |-> kind],
                   Idle(S, K), Open(kind, S, S, K))
  BY DEF Leads, Moves, Sees, Idle, Open, World, Asserts, Tests
<1> QED
  BY <1>1, OneStep DEF Goes, Ro, Rw, Kinds

LEMMA Ends ==
  ASSUME NEW S, NEW V, NEW K
  PROVE  /\ Goes(Drop, Open("ro", S, V, K), Idle(S, K))
         /\ Goes(Drop, Open("rw", S, V, K), Idle(S, K))
         /\ Goes(Committed, Open("rw", S, V, K), Idle(V, K))
<1>1. ASSUME NEW kind \in Kinds
      PROVE  Leads("alone", "main", [op |-> "drop"], Open(kind, S, V, K), Idle(S, K))
  BY DEF Leads, Moves, Sees, Idle, Open, World, Asserts, Tests
<1>2. Leads("alone", "main", [op |-> "commit"], Open("rw", S, V, K), Idle(V, K))
  BY DEF Leads, Moves, Sees, Idle, Open, World, Asserts, Tests
<1> QED
  BY <1>1, <1>2, OneStep DEF Goes, Drop, Committed, Kinds

LEMMA PutLeads ==
  ASSUME NEW S, NEW V, NEW K, NEW m, NEW k, NEW v
  PROVE  Leads("alone", "main", Head(Put(m, k, v)),
               Open("rw", S, V, K), Open("rw", S, Written(V, m, k, v), K))
BY DEF Leads, Moves, Sees, Open, World, Asserts, Tests, Put

LEMMA Writes ==
  ASSUME NEW S, NEW V, NEW K
  PROVE  /\ \A m, k, v : Goes(Put(m, k, v), Open("rw", S, V, K),
                              Open("rw", S, Written(V, m, k, v), K))
         /\ \A m, k : Goes(Del(m, k), Open("rw", S, V, K),
                           Open("rw", S, Written(V, m, k, None), K))
         /\ \A p : Goes(DelAll(p), Open("rw", S, V, K), Open("rw", S, Cleared(V, p), K))
<1>1. \A m, k, v : Goes(Put(m, k, v), Open("rw", S, V, K),
                        Open("rw", S, Written(V, m, k, v), K))
  BY PutLeads, OneStep DEF Goes, Put
<1>2. ASSUME NEW p
      PROVE  Goes(DelAll(p), Open("rw", S, V, K), Open("rw", S, Cleared(V, p), K))
  <2>1. Leads("alone", "main", [op |-> "delall", prefix |-> p],
              Open("rw", S, V, K), Open("rw", S, Cleared(V, p), K))
    BY DEF Leads, Moves, Sees, Open, World, Asserts, Tests
  <2> QED
    BY <2>1, OneStep DEF Goes, DelAll
<1> QED
  BY <1>1, <1>2 DEF Del

LEMMA GetLeads ==
  ASSUME NEW kind \in Kinds, NEW S, NEW V, NEW K, NEW m, NEW k, NEW among,
         V[m][k] \in among
  PROVE  Leads("alone", "main", Head(Get(m, k, among)), Open(kind, S, V, K),
               Open(kind, S, V, K))
BY DEF Leads, Moves, Sees, Satisfied, Open, World, Asserts, Tests, Get, Kinds

LEMMA Reads ==
  ASSUME NEW kind \in Kinds, NEW S, NEW V, NEW K
  PROVE  /\ \A m, k, among : V[m][k] \in among =>
              Goes(Get(m, k, among), Open(kind, S, V, K), Open(kind, S, V, K))
         /\ \A p, es : Iter(V[0], p) = es =>
              Goes(Iterate(p, es), Open(kind, S, V, K), Open(kind, S, V, K))
         /\ \A p, vals : [i \in DOMAIN Iter(V[0], p) |-> Iter(V[0], p)[i][2]] = vals =>
              Goes(IterateVals(p, vals), Open(kind, S, V, K), Open(kind, S, V, K))
         /\ \A n : Len(Iter(V[0], <<>>)) = n =>
              Goes(Count(n), Open(kind, S, V, K), Open(kind, S, V, K))
<1> DEFINE x == Open(kind, S, V, K)
<1>1. ASSUME NEW m, NEW k, NEW among, V[m][k] \in among
      PROVE  Goes(Get(m, k, among), x, x)
  BY <1>1, GetLeads, OneStep DEF Goes, Get
<1>2. ASSUME NEW p, NEW es, Iter(V[0], p) = es
      PROVE  Goes(Iterate(p, es), x, x)
  <2>1. Leads("alone", "main", [op |-> "iter", prefix |-> p, entries |-> es], x, x)
    BY <1>2 DEF Leads, Moves, Sees, Satisfied, Open, World, Asserts, Tests, Kinds
  <2> QED
    BY <2>1, OneStep DEF Goes, Iterate
<1>3. ASSUME NEW p, NEW vals, [i \in DOMAIN Iter(V[0], p) |-> Iter(V[0], p)[i][2]] = vals
      PROVE  Goes(IterateVals(p, vals), x, x)
  <2>1. Leads("alone", "main", [op |-> "vals", prefix |-> p, vals |-> vals], x, x)
    BY <1>3 DEF Leads, Moves, Sees, Satisfied, Open, World, Asserts, Tests, Kinds
  <2> QED
    BY <2>1, OneStep DEF Goes, IterateVals
<1>4. ASSUME NEW n, Len(Iter(V[0], <<>>)) = n
      PROVE  Goes(Count(n), x, x)
  <2>1. Leads("alone", "main", [op |-> "count", count |-> n], x, x)
    BY <1>4 DEF Leads, Moves, Sees, Satisfied, Open, World, Asserts, Tests, Kinds
  <2> QED
    BY <2>1, OneStep DEF Goes, Count
<1> QED
  BY <1>1, <1>2, <1>3, <1>4

\* What kept holds after FromTx, which a dump is compared with.
Keeping(K, name, V) == [K EXCEPT ![name] = Iter(V[0], <<>>)]

LEMMA Keeps ==
  ASSUME NEW kind \in Kinds, NEW S, NEW V, NEW K, NEW name
  PROVE  /\ Goes(FromTx(name), Open(kind, S, V, K), Open(kind, S, V, Keeping(K, name, V)))
         /\ Iter(V[0], <<>>) = K[name] =>
              Goes(IsFromTx(name), Open(kind, S, V, K), Open(kind, S, V, K))
<1>1. Leads("alone", "main", [op |-> "keep", name |-> name],
            Open(kind, S, V, K), Open(kind, S, V, Keeping(K, name, V)))
  BY DEF Leads, Moves, Sees, Open, World, Asserts, Tests, Kinds, Keeping
<1>2. ASSUME Iter(V[0], <<>>) = K[name]
      PROVE  Leads("alone", "main", [op |-> "same", name |-> name],
                   Open(kind, S, V, K), Open(kind, S, V, K))
  BY <1>2 DEF Leads, Moves, Sees, Satisfied, Open, World, Asserts, Tests, Kinds
<1> QED
  BY <1>1, <1>2, OneStep DEF Goes, FromTx, IsFromTx

LEMMA Dumps ==
  ASSUME NEW S, NEW K
  PROVE  /\ \A name : Goes(FromDb(name), Idle(S, K), Idle(S, Keeping(K, name, S)))
         /\ \A name : Iter(S[0], <<>>) = K[name] =>
              Goes(IsFromDb(name), Idle(S, K), Idle(S, K))
         /\ \A model : S[0] = model => Goes(DbIsModel(model), Idle(S, K), Idle(S, K))
<1>0. "ro" \in Kinds
  BY DEF Kinds
<1>1. ASSUME NEW name
      PROVE  Goes(FromDb(name), Idle(S, K), Idle(S, Keeping(K, name, S)))
  <2>1. Goes(Ro \o FromTx(name), Idle(S, K), Open("ro", S, S, Keeping(K, name, S)))
    BY <1>0, Begins, Keeps, Goings
  <2> QED
    BY <2>1, Ends, Goings DEF FromDb
<1>2. ASSUME NEW name, Iter(S[0], <<>>) = K[name]
      PROVE  Goes(IsFromDb(name), Idle(S, K), Idle(S, K))
  <2>1. Goes(Ro \o IsFromTx(name), Idle(S, K), Open("ro", S, S, K))
    BY <1>0, <1>2, Begins, Keeps, Goings
  <2> QED
    BY <2>1, Ends, Goings DEF IsFromDb
<1>3. ASSUME NEW model, S[0] = model
      PROVE  Goes(DbIsModel(model), Idle(S, K), Idle(S, K))
  <2>1. Goes(Ro \o Iterate(<<>>, Iter(model, <<>>)), Idle(S, K), Open("ro", S, S, K))
    BY <1>0, <1>3, Begins, Reads, Goings
  <2> QED
    BY <2>1, Ends, Goings DEF DbIsModel, IsModel
<1> QED
  BY <1>1, <1>2, <1>3

-----------------------------------------------------------------------------
(* Contents *)

LEMMA Maps ==
  /\ 0 \in MapIds /\ 1 \in MapIds /\ None \in OptVals
  /\ EmptyContents \in Contents /\ Model \in [Keys -> OptVals]
  /\ \A m \in MapIds : EmptyContents[m] = Model
BY SuiteMapsAssumption DEF EmptyContents, Contents, Model, OptVals

LEMMA WrittenTypes ==
  ASSUME NEW V \in Contents, NEW m \in MapIds, NEW k, NEW v \in OptVals
  PROVE  /\ Written(V, m, k, v) \in Contents
         /\ k \in Keys => Written(V, m, k, v)[m][k] = v
         /\ \A n \in MapIds, j \in Keys :
              n # m \/ j # k => Written(V, m, k, v)[n][j] = V[n][j]
         /\ Written(V, m, k, v)[m] = [V[m] EXCEPT ![k] = v]
         /\ \A n \in MapIds \ {m} : Written(V, m, k, v)[n] = V[n]
BY DEF Written, Contents

\* The entries of a set of cells laid over the contents.
Laid(V, es, cells) ==
  [m \in MapIds |-> [k \in Keys |-> IF <<m, k>> \in cells THEN es[<<m, k>>] ELSE V[m][k]]]

LEMMA LaidTypes ==
  ASSUME NEW V \in Contents, NEW cells, NEW es, \A e \in cells : es[e] \in OptVals
  PROVE  Laid(V, es, cells) \in Contents
BY DEF Laid, Contents

LEMMA LaidMore ==
  ASSUME NEW V \in Contents, NEW cells, NEW es, NEW m \in MapIds, NEW k \in Keys
  PROVE  Written(Laid(V, es, cells), m, k, es[<<m, k>>]) = Laid(V, es, cells \cup {<<m, k>>})
<1> DEFINE X == Laid(V, es, cells)
           Y == Laid(V, es, cells \cup {<<m, k>>})
           W == Written(X, m, k, es[<<m, k>>])
<1>1. /\ W = [n \in MapIds |-> W[n]] /\ Y = [n \in MapIds |-> Y[n]]
      /\ \A n \in MapIds : W[n] = [j \in Keys |-> W[n][j]] /\ Y[n] = [j \in Keys |-> Y[n][j]]
  BY DEF Laid, Written
<1>2. ASSUME NEW n \in MapIds, NEW j \in Keys
      PROVE  W[n][j] = Y[n][j]
  BY DEF Laid, Written
<1> HIDE DEF W, Y
<1>3. \A n \in MapIds : W[n] = Y[n]
  BY <1>1, <1>2
<1>4. W = Y
  BY <1>1, <1>3
<1> QED
  BY <1>4 DEF W, Y

-----------------------------------------------------------------------------
(* Iteration over entries that are listed in order *)

\* A number for each key of up to three bytes, in the order of the keys.
Short == {k \in Keys : Len(k) \in 0 .. 3}
Digits(k) == [i \in 1 .. 3 |-> IF i \in 1 .. Len(k) THEN k[i] ELSE -1]
Number(x, y, z) == 300 * (300 * x + y) + z
Code == [k \in Short |-> Number(Digits(k)[1], Digits(k)[2], Digits(k)[3])]

\* A short key, its length, its digits, and its number.
Digital(k, n, d) ==
  /\ n \in 0 .. 3 /\ d \in [1 .. 3 -> -1 .. 255]
  /\ \A i \in 1 .. 3 : /\ i <= n => d[i] = k[i] /\ k[i] \in 0 .. 255
                       /\ i > n => d[i] = -1
  /\ Code[k] = Number(d[1], d[2], d[3]) /\ Code[k] \in Int

LEMMA NumberIsInt ==
  ASSUME NEW d1 \in -1 .. 255, NEW d2 \in -1 .. 255, NEW d3 \in -1 .. 255
  PROVE  Number(d1, d2, d3) \in Int
BY DEF Number

LEMMA Lexicographic ==
  ASSUME NEW d, NEW e,
         d[1] \in -1 .. 255, d[2] \in -1 .. 255, d[3] \in -1 .. 255,
         e[1] \in -1 .. 255, e[2] \in -1 .. 255, e[3] \in -1 .. 255
  PROVE  (Number(d[1], d[2], d[3]) < Number(e[1], e[2], e[3]))
              <=> \/ d[1] < e[1]
                  \/ d[1] = e[1] /\ d[2] < e[2]
                  \/ d[1] = e[1] /\ d[2] = e[2] /\ d[3] < e[3]
<1>1. PICK d1 \in -1 .. 255, d2 \in -1 .. 255, d3 \in -1 .. 255 :
        d1 = d[1] /\ d2 = d[2] /\ d3 = d[3]
  BY Zenon
<1>2. PICK e1 \in -1 .. 255, e2 \in -1 .. 255, e3 \in -1 .. 255 :
        e1 = e[1] /\ e2 = e[2] /\ e3 = e[3]
  BY Zenon
<1>3. (Number(d1, d2, d3) < Number(e1, e2, e3))
         <=> d1 < e1 \/ (d1 = e1 /\ d2 < e2) \/ (d1 = e1 /\ d2 = e2 /\ d3 < e3)
  BY DEF Number
<1> QED
  BY <1>1, <1>2, <1>3, Zenon

LEMMA ShortIsDigital ==
  ASSUME NEW k \in Short
  PROVE  \E n, d : n = Len(k) /\ Digital(k, n, d)
<1>1. k \in Seq(0 .. 255) /\ Len(k) \in 0 .. 3
  BY SuiteDataAssumption DEF Short, Data, Bytes
<1>2. PICK n : n = Len(k)
  OBVIOUS
<1>3. PICK d : d = Digits(k)
  OBVIOUS
<1>4. n \in 0 .. 3 /\ \A i \in 1 .. n : k[i] \in 0 .. 255
  BY <1>1, <1>2, ElementOfSeq, Zenon
<1>5. d = [i \in 1 .. 3 |-> IF i \in 1 .. n THEN k[i] ELSE -1]
  BY <1>2, <1>3, Zenon DEF Digits
<1>6. ASSUME NEW i \in 1 .. 3
      PROVE  /\ i <= n => d[i] = k[i] /\ k[i] \in 0 .. 255
             /\ i > n => d[i] = -1
             /\ d[i] \in -1 .. 255
  <2>1. CASE i \in 1 .. n
    <3>1. d[i] = k[i] /\ k[i] \in 0 .. 255
      BY <1>4, <1>5, <2>1
    <3> QED
      BY <1>4, <2>1, <3>1
  <2>2. CASE i \notin 1 .. n
    <3>1. d[i] = -1
      BY <1>5, <2>2, Zenon
    <3> QED
      BY <1>4, <2>2, <3>1
  <2> QED
    BY <2>1, <2>2
<1>7. d \in [1 .. 3 -> -1 .. 255]
  <2>1. d = [i \in 1 .. 3 |-> d[i]]
    BY <1>5
  <2> QED
    BY <1>6, <2>1
<1>8. Code[k] = Number(d[1], d[2], d[3])
  BY <1>3, Zenon DEF Code
<1>9. Code[k] \in Int
  <2>1. d[1] \in -1 .. 255 /\ d[2] \in -1 .. 255 /\ d[3] \in -1 .. 255
    BY <1>7
  <2> QED
    BY <1>8, <2>1, NumberIsInt, Zenon
<1> HIDE DEF Code, Number
<1>10. Digital(k, n, d)
  <2>1. \A i \in 1 .. 3 : /\ i <= n => d[i] = k[i] /\ k[i] \in 0 .. 255
                          /\ i > n => d[i] = -1
    BY <1>6
  <2>2. n \in 0 .. 3
    BY <1>4
  <2> QED
    <3>1. Code[k] = Number(d[1], d[2], d[3]) /\ Code[k] \in Int
      BY <1>8, <1>9
    <3>2. n \in 0 .. 3 /\ d \in [1 .. 3 -> -1 .. 255]
      BY <1>7, <2>2
    <3> QED
      BY <2>1, <3>1, <3>2, Zenon DEF Digital
<1> QED
  BY <1>2, <1>10

LEMMA CodeIsOrder ==
  ASSUME NEW a \in Short, NEW b \in Short
  PROVE  Less(a, b) <=> Code[a] < Code[b]
<1>1. PICK m, d : m = Len(a) /\ Digital(a, m, d)
  BY ShortIsDigital
<1>2. PICK n, e : n = Len(b) /\ Digital(b, n, e)
  BY ShortIsDigital
<1>3. Less(a, b) <=>
        \/ m < n /\ m <= n /\ \A i \in 1 .. m : b[i] = a[i]
        \/ \E i \in 1 .. m : i <= n /\ (\A j \in 1 .. i - 1 : a[j] = b[j]) /\ a[i] < b[i]
  BY <1>1, <1>2 DEF Less, StartsWith, SameBefore
<1>4. /\ m \in 0 .. 3 /\ n \in 0 .. 3
      /\ \A i \in 1 .. 3 : /\ i <= m => d[i] = a[i] /\ a[i] \in 0 .. 255
                           /\ i > m => d[i] = -1
      /\ \A i \in 1 .. 3 : /\ i <= n => e[i] = b[i] /\ b[i] \in 0 .. 255
                           /\ i > n => e[i] = -1
      /\ d \in [1 .. 3 -> -1 .. 255] /\ e \in [1 .. 3 -> -1 .. 255]
      /\ Code[a] = Number(d[1], d[2], d[3])
      /\ Code[b] = Number(e[1], e[2], e[3])
  BY <1>1, <1>2, Zenon DEF Digital
<1> DEFINE D(i) == d[i] < e[i]
           E(i) == d[i] = e[i]
<1>7. (Code[a] < Code[b]) <=> (D(1) \/ (E(1) /\ D(2)) \/ (E(1) /\ E(2) /\ D(3)))
    <2>1. /\ d[1] \in -1 .. 255 /\ d[2] \in -1 .. 255 /\ d[3] \in -1 .. 255
        /\ e[1] \in -1 .. 255 /\ e[2] \in -1 .. 255 /\ e[3] \in -1 .. 255
    BY <1>4
  <2> QED
    <3>1. Code[a] < Code[b] <=> Number(d[1], d[2], d[3]) < Number(e[1], e[2], e[3])
      BY <1>4
    <3> QED
      BY <2>1, <3>1, Lexicographic, Zenon
<1>5. Less(a, b) => D(1) \/ (E(1) /\ D(2)) \/ (E(1) /\ E(2) /\ D(3))
  <2>1. CASE m < n /\ \A i \in 1 .. m : b[i] = a[i]
    BY <1>4, <2>1
  <2>2. CASE \E i \in 1 .. m : i <= n /\ (\A j \in 1 .. i - 1 : a[j] = b[j]) /\ a[i] < b[i]
    <3>1. PICK i \in 1 .. m : i <= n /\ (\A j \in 1 .. i - 1 : a[j] = b[j]) /\ a[i] < b[i]
      BY <2>2
    <3>2. i \in 1 .. 3 /\ D(i) /\ \A j \in 1 .. i - 1 : E(j)
      <4>1. i \in 1 .. 3
        BY <1>4, <3>1
      <4>2. D(i)
        BY <1>4, <3>1, <4>1
      <4>3. ASSUME NEW j \in 1 .. i - 1
            PROVE  E(j)
        <5>1. j \in 1 .. 3 /\ j <= m /\ j <= n /\ a[j] = b[j]
          BY <1>4, <3>1
        <5> QED
          BY <1>4, <5>1
      <4> QED
        BY <4>1, <4>2, <4>3
    <3> HIDE DEF D, E
    <3> QED
      BY <3>2
  <2> QED
    BY <1>3, <2>1, <2>2
<1>6. (D(1) \/ (E(1) /\ D(2)) \/ (E(1) /\ E(2) /\ D(3))) => Less(a, b)
  <2>1. ASSUME NEW i \in 1 .. 3, D(i), \A j \in 1 .. i - 1 : E(j)
        PROVE  Less(a, b)
    <3>1. i <= n
      BY <1>4, <2>1
    <3>2. ASSUME NEW j \in 1 .. i - 1
          PROVE  j <= m /\ j <= n /\ a[j] = b[j]
      <4>1. j \in 1 .. 3 /\ j <= n /\ d[j] = e[j]
        BY <1>4, <2>1, <3>1
      <4>2. e[j] = b[j] /\ b[j] \in 0 .. 255
        BY <1>4, <4>1
      <4>3. j <= m
        BY <1>4, <4>1, <4>2
      <4>4. d[j] = a[j] /\ a[j] \in 0 .. 255
        BY <1>4, <4>1, <4>3
      <4> QED
        BY <4>1, <4>2, <4>3, <4>4
    <3>3. CASE i <= m
      <4>1. d[i] = a[i] /\ e[i] = b[i] /\ a[i] \in 0 .. 255 /\ b[i] \in 0 .. 255
        BY <1>4, <3>1, <3>3
      <4>2. a[i] < b[i]
        BY <2>1, <4>1
      <4>3. i \in 1 .. m
        BY <1>4, <3>3
      <4> QED
        BY <1>3, <3>1, <3>2, <4>2, <4>3, Zenon
    <3>4. CASE ~(i <= m)
      <4>1. i = m + 1
        BY <1>4, <3>2, <3>4
      <4> QED
        BY <1>3, <1>4, <3>1, <3>2, <4>1
    <3> QED
      BY <3>3, <3>4
  <2> HIDE DEF D, E
  <2>2. CASE D(1)
    <3>1. \A j \in 1 .. 1 - 1 : E(j)
      OBVIOUS
    <3> QED
      BY <2>1, <2>2, <3>1
  <2>3. CASE E(1) /\ D(2)
    <3>1. \A j \in 1 .. 2 - 1 : E(j)
      BY <2>3
    <3> QED
      BY <2>1, <2>3, <3>1
  <2>4. CASE E(1) /\ E(2) /\ D(3)
    <3>1. \A j \in 1 .. 3 - 1 : E(j)
      BY <2>4
    <3> QED
      BY <2>1, <2>4, <3>1
  <2> QED
    BY <2>2, <2>3, <2>4
<1> QED
  BY <1>5, <1>6, <1>7

LEMMA SortedIs ==
  ASSUME NEW n \in Nat, NEW s \in [1 .. n -> Short],
         \A i, j \in 1 .. n : i < j => Code[s[i]] < Code[s[j]]
  PROVE  Sorted({s[i] : i \in 1 .. n}) = s
<1> DEFINE S == {s[i] : i \in 1 .. n}
<1>1. \A i, j \in 1 .. n : Less(s[i], s[j]) <=> i < j
  <2>0. \A i \in 1 .. n : s[i] \in Short /\ Code[s[i]] \in Int
    BY ShortIsDigital DEF Digital
  <2>1. \A i, j \in 1 .. n : Code[s[i]] < Code[s[j]] <=> i < j
    BY <2>0
  <2> QED
    BY <2>0, <2>1, CodeIsOrder
<1>2. \A i, j \in 1 .. n : s[i] = s[j] => i = j
  BY <1>1
<1>3. ASSUME NEW m \in 0 .. n
      PROVE  IsFiniteSet({s[i] : i \in 1 .. m}) /\ Cardinality({s[i] : i \in 1 .. m}) = m
  <2> DEFINE T == {s[i] : i \in 1 .. m}
             f == [i \in 1 .. m |-> s[i]]
  <2>1. f \in Bijection(1 .. m, T)
    <3>1. f \in [1 .. m -> T] /\ \A y \in T : \E i \in 1 .. m : f[i] = y
      OBVIOUS
    <3>2. \A i, j \in 1 .. m : f[i] = f[j] => i = j
      BY <1>2
    <3> HIDE DEF f, T
    <3> QED
      BY <3>1, <3>2 DEF Bijection, Injection, IsInjective, Surjection
  <2>2. ExistsBijection(1 .. m, T)
    BY <2>1 DEF ExistsBijection
  <2>3. IsFiniteSet(1 .. m)
    BY FS_Interval
  <2> QED
    BY <2>2, <2>3, FS_CountingElements, FS_Bijection
<1>4. ASSUME NEW i \in 1 .. n
      PROVE  Rank(S, s[i]) = i - 1
  <2>1. {k \in S : Less(k, s[i])} = {s[j] : j \in 1 .. i - 1}
    BY <1>1
  <2> QED
    <3>1. i - 1 \in 0 .. n
      OBVIOUS
    <3> QED
      BY <1>3, <2>1, <3>1, Zenon DEF Rank
<1>5. Cardinality(S) = n
  <2>1. n \in 0 .. n
    OBVIOUS
  <2> QED
    BY <1>3, <2>1, Zenon
<1>6. ASSUME NEW i \in 1 .. n
      PROVE  (CHOOSE k \in S : Rank(S, k) = i - 1) = s[i]
  <2>1. s[i] \in S /\ Rank(S, s[i]) = i - 1
    BY <1>4
  <2>2. \A k \in S : Rank(S, k) = i - 1 => k = s[i]
    BY <1>4
  <2> QED
    BY <2>1, <2>2
<1> HIDE DEF S
<1>7. Sorted(S) = [i \in 1 .. n |-> s[i]]
  BY <1>5, <1>6 DEF Sorted
<1> QED
  BY <1>7 DEF S

\* The entries es, in order, are all that a map has.
Lists(model, es) ==
  /\ es \in Seq(Short \X Vals)
  /\ \A i \in 1 .. Len(es) : model[es[i][1]] = es[i][2]
  /\ \A i, j \in 1 .. Len(es) : i < j => Code[es[i][1]] < Code[es[j][1]]
  /\ \A k \in Keys : model[k] # None => \E i \in 1 .. Len(es) : k = es[i][1]

\* A prefix picks those from lo to hi.
LEMMA IterIs ==
  ASSUME NEW model, NEW es, Lists(model, es), NEW p,
         NEW lo \in 1 .. Len(es) + 1, NEW hi \in lo - 1 .. Len(es),
         \A i \in 1 .. Len(es) : StartsWith(es[i][1], p) <=> lo <= i /\ i <= hi
  PROVE  Iter(model, p) = SubSeq(es, lo, hi)
<1> DEFINE n == hi - lo + 1
           sub == SubSeq(es, lo, hi)
           s == [i \in 1 .. n |-> es[lo + i - 1][1]]
<1>1. /\ n \in Nat /\ Len(es) \in Nat /\ lo \in Nat /\ hi \in Nat
      /\ sub = [i \in 1 .. n |-> es[lo + i - 1]]
  BY DEF Lists
<1>2. \A i \in 1 .. n : lo + i - 1 \in 1 .. Len(es) /\ lo <= lo + i - 1 /\ lo + i - 1 <= hi
  BY <1>1
<1>3. \A i \in 1 .. Len(es) : /\ es[i] = <<es[i][1], es[i][2]>>
                              /\ es[i][1] \in Short /\ es[i][2] \in Vals
  BY DEF Lists
<1>4. s \in [1 .. n -> Short]
  BY <1>2, <1>3
<1>5. \A i, j \in 1 .. n : i < j => Code[s[i]] < Code[s[j]]
  BY <1>1, <1>2, SMTT(30) DEF Lists
<1>6. Matching(model, p) = {s[i] : i \in 1 .. n}
  <2>1. ASSUME NEW k \in Matching(model, p)
        PROVE  k \in {s[i] : i \in 1 .. n}
    <3>1. k \in Keys /\ model[k] # None /\ StartsWith(k, p)
      BY DEF Matching
    <3>2. PICK j \in 1 .. Len(es) : k = es[j][1]
      BY <3>1 DEF Lists
    <3>3. lo <= j /\ j <= hi
      BY <3>1, <3>2
    <3>4. j - lo + 1 \in 1 .. n /\ lo + (j - lo + 1) - 1 = j
      BY <1>1, <3>3
    <3>5. k = s[j - lo + 1]
      BY <3>2, <3>4
    <3> QED
      BY <3>4, <3>5
  <2>2. ASSUME NEW i \in 1 .. n
        PROVE  s[i] \in Matching(model, p)
    <3> DEFINE j == lo + i - 1
    <3>1. j \in 1 .. Len(es) /\ lo <= j /\ j <= hi /\ s[i] = es[j][1]
      BY <1>2
    <3> HIDE DEF j
    <3>2. es[j][1] \in Keys /\ model[es[j][1]] = es[j][2] /\ es[j][2] # None
      BY <1>3, <3>1, KVNoneAssumption DEF Lists, Short
    <3>3. StartsWith(es[j][1], p)
      BY <3>1
    <3> QED
      BY <3>1, <3>2, <3>3 DEF Matching
  <2> QED
    BY <2>1, <2>2
<1>7. Sorted(Matching(model, p)) = s
  <2> HIDE DEF s
  <2> QED
    BY <1>1, <1>4, <1>5, <1>6, SortedIs
<1>8. Iter(model, p) = [i \in 1 .. n |-> <<s[i], model[s[i]]>>]
  <2> DEFINE found == Restrict(model, Matching(model, p))
  <2>1. DOMAIN found = Matching(model, p) /\ \A i \in 1 .. n : found[s[i]] = model[s[i]]
    BY <1>6 DEF Restrict
  <2>2. Iter(model, p) = [i \in DOMAIN Sorted(DOMAIN found) |->
                           <<Sorted(DOMAIN found)[i], found[Sorted(DOMAIN found)[i]]>>]
    BY Zenon DEF Iter
  <2> HIDE DEF found, s
  <2>3. Sorted(DOMAIN found) = s /\ DOMAIN s = 1 .. n
    BY <1>4, <1>7, <2>1
  <2> QED
    BY <2>1, <2>2, <2>3
<1>9. \A i \in 1 .. n : <<s[i], model[s[i]]>> = es[lo + i - 1]
  BY <1>2, <1>3 DEF Lists
<1> QED
  BY <1>1, <1>8, <1>9

-----------------------------------------------------------------------------
(* What a sequence of actions makes of a map *)

\* The last of the first n actions that is on key k is the i-th.
LastAt(acts, k, n, i) ==
  /\ i \in 1 .. n /\ acts[i][1] = k
  /\ \A j \in i + 1 .. n : acts[j][1] # k

Outcome(model, acts, n) ==
  [k \in Keys |-> IF \E i : LastAt(acts, k, n, i)
                  THEN acts[CHOOSE i : LastAt(acts, k, n, i)][2] ELSE model[k]]

LEMMA LastIsOne ==
  ASSUME NEW acts, NEW k, NEW n \in Nat, NEW i, LastAt(acts, k, n, i)
  PROVE  (CHOOSE j : LastAt(acts, k, n, j)) = i
<1>1. ASSUME NEW j, LastAt(acts, k, n, j)
      PROVE  j = i
  BY <1>1 DEF LastAt
<1> QED
  BY <1>1, Zenon

LEMMA OutcomeNext ==
  ASSUME NEW model \in [Keys -> OptVals], NEW acts, NEW n \in Nat \ {0}
  PROVE  Outcome(model, acts, n) = ApplyAction(Outcome(model, acts, n - 1), acts[n])
<1> DEFINE A == Outcome(model, acts, n)
           B == ApplyAction(Outcome(model, acts, n - 1), acts[n])
<1>1. ASSUME NEW k \in Keys
      PROVE  A[k] = B[k]
  <2>1. CASE acts[n][1] = k
    <3>1. LastAt(acts, k, n, n)
      BY <2>1 DEF LastAt
    <3>2. A[k] = acts[n][2]
      BY <3>1, LastIsOne, Zenon DEF Outcome
    <3>3. B[k] = acts[n][2]
      BY <2>1 DEF ApplyAction, Outcome
    <3> QED
      BY <3>2, <3>3
  <2>2. CASE acts[n][1] # k
    <3>1. \A i : LastAt(acts, k, n, i) <=> LastAt(acts, k, n - 1, i)
      BY <2>2 DEF LastAt
    <3>2. A[k] = Outcome(model, acts, n - 1)[k]
      <4>1. (\E i : LastAt(acts, k, n, i)) <=> (\E i : LastAt(acts, k, n - 1, i))
        BY <3>1, Zenon
      <4>2. (CHOOSE i : LastAt(acts, k, n, i)) = (CHOOSE i : LastAt(acts, k, n - 1, i))
        BY <3>1, Zenon
      <4> QED
        BY <4>1, <4>2, Zenon DEF Outcome
    <3>3. B[k] = Outcome(model, acts, n - 1)[k]
      BY <2>2, Zenon DEF ApplyAction, Outcome
    <3> QED
      BY <3>2, <3>3
  <2> QED
    BY <2>1, <2>2
<1>2. A = [k \in Keys |-> A[k]] /\ B = [k \in Keys |-> B[k]]
  <2>1. A = [k \in Keys |-> A[k]]
    BY DEF Outcome
  <2>2. PICK C : C = Outcome(model, acts, n - 1)
    OBVIOUS
  <2>3. DOMAIN C = Keys
    BY <2>2 DEF Outcome
  <2>4. B = [C EXCEPT ![acts[n][1]] = acts[n][2]]
    BY <2>2, Zenon DEF ApplyAction
  <2> HIDE DEF A, B
  <2>5. B = [k \in Keys |-> B[k]]
    BY <2>3, <2>4
  <2> QED
    BY <2>1, <2>5
<1> HIDE DEF A, B
<1>3. A = B
  BY <1>1, <1>2
<1> QED
  BY <1>3 DEF A, B

LEMMA OutcomeFirst ==
  ASSUME NEW model \in [Keys -> OptVals], NEW acts
  PROVE  Outcome(model, acts, 0) = model
<1>1. \A k, i : ~LastAt(acts, k, 0, i)
  BY DEF LastAt
<1> QED
  BY <1>1 DEF Outcome

LEMMA LeastNumber ==
  ASSUME NEW S \in SUBSET Nat, S # {}
  PROVE  \E n \in S : \A m \in S : n <= m
<1> DEFINE R == OpToRel(<, Nat)
<1>1. IsWellFoundedOn(R, Nat)
  BY NatLessThanWellFounded
<1> HIDE DEF R
<1>2. PICK n \in S : \A m \in S : <<m, n>> \notin R
  BY <1>1, WFMin
<1>3. ASSUME NEW m \in S PROVE n <= m
  <2>1. m < n => <<m, n>> \in R
    BY DEF R, OpToRel
  <2>2. ~(m < n)
    BY <1>2, <2>1, Zenon
  <2> QED
    BY <2>2
<1> QED
  BY <1>3

LEMMA ExtendIs ==
  ASSUME NEW model \in [Keys -> OptVals], NEW acts, IsSequence(acts)
  PROVE  Extend(model, acts) = Outcome(model, acts, Len(acts))
<1> DEFINE n == Len(acts)
           Is(f) == f = [i \in 0 .. n |->
                           IF i = 0 THEN model ELSE ApplyAction(f[i - 1], acts[i])]
           W == [i \in 0 .. n |-> Outcome(model, acts, i)]
           after == CHOOSE f : Is(f)
<1>1. n \in Nat
  BY DEF IsSequence
<1>2. Extend(model, acts) = after[n]
  BY Zenon DEF Extend
<1> HIDE DEF n
<1>3. Is(W)
  <2>1. ASSUME NEW i \in 0 .. n
        PROVE  W[i] = IF i = 0 THEN model ELSE ApplyAction(W[i - 1], acts[i])
    <3>1. CASE i = 0
      BY <1>1, <3>1, OutcomeFirst
    <3>2. CASE i # 0
      <4>1. i \in Nat \ {0} /\ i - 1 \in 0 .. n
        BY <1>1, <3>2
      <4> QED
        BY <3>2, <4>1, OutcomeNext
    <3> QED
      BY <3>1, <3>2
  <2> QED
    BY <2>1
<1> HIDE DEF W
<1>4. Is(after)
  BY <1>3, Zenon
<1> HIDE DEF after
<1>5. ASSUME NEW m \in 0 .. n, after[m] # W[m]
      PROVE  FALSE
  <2> DEFINE S == {i \in 0 .. n : after[i] # W[i]}
  <2>1. S \in SUBSET Nat /\ m \in S
    BY <1>1, <1>5
  <2>2. PICK l \in S : \A i \in S : l <= i
    <3> HIDE DEF S
    <3> QED
      BY <2>1, LeastNumber
  <2>3. CASE l = 0
    <3>1. after[0] = model /\ W[0] = model
      BY <1>1, <1>3, <1>4
    <3> QED
      BY <2>2, <2>3, <3>1
  <2>4. CASE l # 0
    <3>1. l - 1 \in 0 .. n /\ l \in 0 .. n /\ l - 1 \notin S
      BY <1>1, <2>2, <2>4
    <3>2. after[l - 1] = W[l - 1]
      BY <3>1
    <3>3. /\ after[l] = ApplyAction(after[l - 1], acts[l])
          /\ W[l] = ApplyAction(W[l - 1], acts[l])
      BY <1>3, <1>4, <2>4, <3>1
    <3>4. after[l] = W[l]
      BY <3>2, <3>3, Zenon
    <3> QED
      BY <2>2, <3>4
  <2> QED
    BY <2>3, <2>4
<1>6. after[n] = W[n]
  BY <1>1, <1>5
<1> QED
  BY <1>1, <1>2, <1>6 DEF W, n

\* Actions: pairs of a key and what becomes of it.
AreActions(acts) == IsSequence(acts) /\ \A i \in 1 .. Len(acts) : acts[i][2] \in OptVals

LEMMA OutcomeTypes ==
  ASSUME NEW model \in [Keys -> OptVals], NEW acts, AreActions(acts), NEW n \in 0 .. Len(acts)
  PROVE  Outcome(model, acts, n) \in [Keys -> OptVals]
<1>1. Len(acts) \in Nat
  BY DEF AreActions, IsSequence
<1>2. ASSUME NEW k \in Keys
      PROVE  Outcome(model, acts, n)[k] \in OptVals
  <2>1. CASE \E i : LastAt(acts, k, n, i)
    <3>1. PICK i : LastAt(acts, k, n, i)
      BY <2>1
    <3>2. i \in 1 .. Len(acts) /\ Outcome(model, acts, n)[k] = acts[i][2]
      <4>1. i \in 1 .. Len(acts)
        BY <1>1, <3>1 DEF LastAt
      <4>2. (CHOOSE j : LastAt(acts, k, n, j)) = i
        BY <1>1, <3>1, LastIsOne
      <4> QED
        BY <2>1, <4>1, <4>2, Zenon DEF Outcome
    <3> QED
      BY <3>2 DEF AreActions
  <2>2. CASE ~\E i : LastAt(acts, k, n, i)
    BY <2>2 DEF Outcome
  <2> QED
    BY <2>1, <2>2
<1>3. Outcome(model, acts, n) = [k \in Keys |-> Outcome(model, acts, n)[k]]
  BY DEF Outcome
<1> QED
  BY <1>2, <1>3

LEMMA ExtendTypes ==
  ASSUME NEW model \in [Keys -> OptVals], NEW acts, AreActions(acts)
  PROVE  Extend(model, acts) \in [Keys -> OptVals]
<1>1. Len(acts) \in Nat /\ Len(acts) \in 0 .. Len(acts)
  BY DEF AreActions, IsSequence
<1> QED
  BY <1>1, ExtendIs, OutcomeTypes DEF AreActions

\* A key holds what the last action on it has put there.
LEMMA ExtendAt ==
  ASSUME NEW model \in [Keys -> OptVals], NEW acts, IsSequence(acts), NEW k \in Keys
  PROVE  /\ \A i \in 1 .. Len(acts) :
              acts[i][1] = k /\ (\A j \in i + 1 .. Len(acts) : acts[j][1] # k)
                => Extend(model, acts)[k] = acts[i][2]
         /\ (\A i \in 1 .. Len(acts) : acts[i][1] # k) => Extend(model, acts)[k] = model[k]
<1>1. Len(acts) \in Nat
  BY DEF IsSequence
<1>2. ASSUME NEW i \in 1 .. Len(acts), acts[i][1] = k,
             \A j \in i + 1 .. Len(acts) : acts[j][1] # k
      PROVE  Extend(model, acts)[k] = acts[i][2]
  <2>1. LastAt(acts, k, Len(acts), i)
    BY <1>2 DEF LastAt
  <2>2. (CHOOSE j : LastAt(acts, k, Len(acts), j)) = i
    BY <1>1, <2>1, LastIsOne
  <2> QED
    BY <2>1, <2>2, ExtendIs, Zenon DEF Outcome
<1>3. ASSUME \A i \in 1 .. Len(acts) : acts[i][1] # k
      PROVE  Extend(model, acts)[k] = model[k]
  <2>1. \A i : ~LastAt(acts, k, Len(acts), i)
    BY <1>3 DEF LastAt
  <2>2. Outcome(model, acts, Len(acts))[k] = model[k]
    BY <2>1 DEF Outcome
  <2> QED
    BY <2>2, ExtendIs
<1> QED
  BY <1>2, <1>3, Zenon

\* The loop over the actions, in a transaction that sees V.
Changed(V, m, model) == [V EXCEPT ![m] = model]

LEMMA ChangedTypes ==
  ASSUME NEW V \in Contents, NEW m \in MapIds, NEW model \in [Keys -> OptVals]
  PROVE  /\ Changed(V, m, model) \in Contents
         /\ Changed(V, m, model)[m] = model
         /\ \A n \in MapIds \ {m} : Changed(V, m, model)[n] = V[n]
         /\ V[m] \in [Keys -> OptVals]
BY DEF Changed, Contents

LEMMA Applies ==
  ASSUME NEW S, NEW V \in Contents, NEW K, NEW m \in MapIds, NEW acts, IsSequence(acts)
  PROVE  Goes(ApplyActions(m, acts), Open("rw", S, V, K),
              Open("rw", S, Changed(V, m, Extend(V[m], acts)), K))
<1> DEFINE n == Len(acts)
           After(i) == Changed(V, m, Outcome(V[m], acts, i))
           f == [i \in 1 .. n |-> Head(Put(m, acts[i][1], acts[i][2]))]
           p == [i \in 1 .. n + 1 |-> Open("rw", S, After(i - 1), K)]
<1>1. n \in Nat /\ DOMAIN acts = 1 .. n
  BY DEF IsSequence
<1>2. V[m] \in [Keys -> OptVals] /\ V = [x \in MapIds |-> V[x]]
  BY DEF Contents
<1>3. ApplyActions(m, acts) = [i \in 1 .. n |-> f[i]]
  BY <1>1 DEF ApplyActions, Each
<1>4. ASSUME NEW i \in 1 .. n
      PROVE  Leads("alone", "main", f[i], p[i], p[i + 1])
  <2>1. p[i] = Open("rw", S, After(i - 1), K) /\ p[i + 1] = Open("rw", S, After(i), K)
    <3>1. i \in 1 .. n + 1 /\ i + 1 \in 1 .. n + 1 /\ i + 1 - 1 = i
      BY <1>1
    <3> QED
      BY <3>1
  <2>2. Written(After(i - 1), m, acts[i][1], acts[i][2]) = After(i)
    <3>1. Outcome(V[m], acts, i) = ApplyAction(Outcome(V[m], acts, i - 1), acts[i])
      <4>1. i \in Nat \ {0}
        BY <1>1
      <4> QED
        BY <1>2, <4>1, OutcomeNext
    <3>2. PICK M : M = Outcome(V[m], acts, i - 1)
      OBVIOUS
    <3>3. /\ After(i - 1) = [V EXCEPT ![m] = M]
          /\ After(i) = [V EXCEPT ![m] = [M EXCEPT ![acts[i][1]] = acts[i][2]]]
      BY <3>1, <3>2, Zenon DEF ApplyAction, Changed
    <3> HIDE DEF After
    <3> QED
      BY <1>2, <3>3 DEF Written
  <2>3. f[i] = Head(Put(m, acts[i][1], acts[i][2]))
    BY Zenon
  <2> HIDE DEF After, f, p
  <2> QED
    BY <2>1, <2>2, <2>3, PutLeads
<1>5. /\ p[1] = Open("rw", S, V, K)
      /\ p[n + 1] = Open("rw", S, Changed(V, m, Extend(V[m], acts)), K)
  <2>1. After(0) = V
    <3>1. Outcome(V[m], acts, 0) = V[m]
      BY <1>2, OutcomeFirst
    <3> QED
      BY <1>2, <3>1 DEF Changed
  <2>2. After(n) = Changed(V, m, Extend(V[m], acts))
    BY <1>2, ExtendIs
  <2> HIDE DEF After
  <2>3. 1 \in 1 .. n + 1 /\ n + 1 \in 1 .. n + 1 /\ 1 - 1 = 0 /\ n + 1 - 1 = n
    BY <1>1
  <2> QED
    BY <2>1, <2>2, <2>3
<1> HIDE DEF f, p, n
<1>6. Walk("alone", "main", [i \in 1 .. n |-> f[i]], p[1], p[n + 1])
  BY <1>1, <1>4, Loops
<1> QED
  BY <1>3, <1>5, <1>6 DEF Goes

-----------------------------------------------------------------------------
(* Loops over entries *)

LEMMA ListedIs ==
  ASSUME NEW es \in entries
  PROVE  /\ Len(Listed(es)) \in Nat /\ DOMAIN Listed(es) = 1 .. Len(Listed(es))
         /\ DOMAIN es = {Listed(es)[i] : i \in 1 .. Len(Listed(es))}
         /\ IsSequence(Listed(es))
         /\ DOMAIN es \subseteq MapIds \X Keys
         /\ \A e \in DOMAIN es : es[e] \in OptVals /\ e = <<e[1], e[2]>>
<1> DEFINE S == DOMAIN es
           n == Cardinality(S)
           f == Listed(es)
<1>1. S \in SUBSET RandomCells /\ es \in [S -> RandomVals]
  BY DEF entries
<1>2. IsFiniteSet(S)
  BY <1>1, SuiteDataAssumption, FS_Subset
<1>3. n \in Nat
  BY <1>2, FS_CardinalityType
<1>4. f \in [1 .. n -> S] /\ IsInjective(f)
  <2>1. PICK m \in Nat : ExistsBijection(1 .. m, S)
    BY <1>2, FS_NatBijection
  <2>2. m = n
    BY <2>1, FS_CountingElements
  <2>3. PICK g : g \in [1 .. n -> S] /\ IsInjective(g)
    BY <2>1, <2>2, Zenon DEF ExistsBijection, Bijection, Injection
  <2> HIDE DEF n, S
  <2> QED
    BY <2>3, Zenon DEF Listed, SetToSeq, S, n
<1> HIDE DEF n, S, f
<1>5. Len(f) = n /\ DOMAIN f = 1 .. n /\ f \in Seq(S)
  BY <1>3, <1>4
<1>6. S = {f[i] : i \in 1 .. n}
  <2> DEFINE T == {f[i] : i \in 1 .. n}
  <2>1. T \in SUBSET S
    BY <1>4
  <2>2. f \in Bijection(1 .. n, T)
    <3>1. f \in [1 .. n -> T] /\ \A y \in T : \E i \in 1 .. n : f[i] = y
      BY <1>4
    <3> HIDE DEF T
    <3> QED
      BY <1>4, <3>1 DEF Bijection, Injection, Surjection
  <2> HIDE DEF T
  <2>3. Cardinality(T) = n
    BY <1>3, <2>2, FS_CountingElements DEF ExistsBijection
  <2>4. S = T
    BY <1>2, <2>1, <2>3, FS_Subset, Zenon DEF n
  <2> QED
    BY <2>4 DEF T
<1>7. S \subseteq MapIds \X Keys
  BY <1>1, SuiteDataAssumption
<1>8. ASSUME NEW e \in S
      PROVE  es[e] \in OptVals /\ e = <<e[1], e[2]>>
  <2>1. es[e] \in OptVals
    BY <1>1, SuiteDataAssumption DEF OptVals
  <2> QED
    BY <1>7, <2>1
<1> QED
  BY <1>3, <1>5, <1>6, <1>7, <1>8 DEF S, f, IsSequence

\* A transaction that gives the cells of a list the values g has for them.
LEMMA Lays ==
  ASSUME NEW S, NEW V \in Contents, NEW K, NEW g, NEW L, IsSequence(L),
         \A i \in 1 .. Len(L) : L[i] \in MapIds \X Keys,
         NEW f, f = [i \in 1 .. Len(L) |-> Head(Put(L[i][1], L[i][2], g[L[i]]))]
  PROVE  Goes(f, Open("rw", S, V, K),
              Open("rw", S, Laid(V, g, {L[i] : i \in 1 .. Len(L)}), K))
<1> DEFINE n == Len(L)
           Cells(i) == {L[j] : j \in 1 .. i}
           p == [i \in 1 .. n + 1 |-> Open("rw", S, Laid(V, g, Cells(i - 1)), K)]
<1>1. n \in Nat
  BY DEF IsSequence
<1>2. ASSUME NEW i \in 1 .. n
      PROVE  Leads("alone", "main", f[i], p[i], p[i + 1])
  <2>1. /\ p[i] = Open("rw", S, Laid(V, g, Cells(i - 1)), K)
        /\ p[i + 1] = Open("rw", S, Laid(V, g, Cells(i)), K)
    <3>1. i \in 1 .. n + 1 /\ i + 1 \in 1 .. n + 1 /\ i + 1 - 1 = i
      BY <1>1
    <3> HIDE DEF Cells
    <3> QED
      BY <3>1
  <2>2. PICK m \in MapIds, k \in Keys : L[i] = <<m, k>>
    BY <1>1
  <2>3. Cells(i) = Cells(i - 1) \cup {<<m, k>>}
    <3>1. 1 .. i = (1 .. i - 1) \cup {i}
      BY <1>1
    <3> QED
      BY <2>2, <3>1
  <2>4. f[i] = Head(Put(m, k, g[<<m, k>>]))
    BY <2>2, SMTT(30)
  <2> HIDE DEF Cells, p
  <2>5. Written(Laid(V, g, Cells(i - 1)), m, k, g[<<m, k>>]) = Laid(V, g, Cells(i))
    BY <2>3, LaidMore
  <2> QED
    BY <2>1, <2>4, <2>5, PutLeads
<1>3. /\ p[1] = Open("rw", S, V, K)
      /\ p[n + 1] = Open("rw", S, Laid(V, g, Cells(n)), K)
  <2>1. Cells(0) = {}
    OBVIOUS
  <2>2. Laid(V, g, {}) = V
    BY DEF Laid, Contents
  <2>3. 1 \in 1 .. n + 1 /\ n + 1 \in 1 .. n + 1 /\ 1 - 1 = 0 /\ n + 1 - 1 = n
    BY <1>1
  <2> HIDE DEF Cells
  <2>4. /\ p[1] = Open("rw", S, Laid(V, g, Cells(0)), K)
        /\ p[n + 1] = Open("rw", S, Laid(V, g, Cells(n)), K)
    BY <2>3
  <2> QED
    BY <2>1, <2>2, <2>4
<1>4. f = [i \in 1 .. n |-> f[i]]
  OBVIOUS
<1> HIDE DEF p
<1>5. Walk("alone", "main", [i \in 1 .. n |-> f[i]], p[1], p[n + 1])
  BY <1>1, <1>2, Loops
<1> QED
  BY <1>3, <1>4, <1>5 DEF Goes

LEMMA PutsAll ==
  ASSUME NEW S, NEW V \in Contents, NEW K, NEW es \in entries
  PROVE  /\ Goes(PutAll(es), Open("rw", S, V, K), Open("rw", S, Laid(V, es, DOMAIN es), K))
         /\ Laid(V, es, DOMAIN es) \in Contents
<1> DEFINE L == Listed(es)
<1>1. /\ Len(L) \in Nat /\ DOMAIN L = 1 .. Len(L) /\ IsSequence(L)
      /\ DOMAIN es = {L[i] : i \in 1 .. Len(L)}
      /\ \A i \in 1 .. Len(L) : L[i] \in MapIds \X Keys
  BY ListedIs
<1>2. PutAll(es) = [i \in 1 .. Len(L) |-> Head(Put(L[i][1], L[i][2], es[L[i]]))]
  BY <1>1 DEF PutAll, Each
<1>3. Laid(V, es, DOMAIN es) \in Contents
  BY ListedIs, LaidTypes
<1> HIDE DEF L
<1>4. Goes(PutAll(es), Open("rw", S, V, K), Open("rw", S, Laid(V, es, DOMAIN es), K))
  <2>1. Goes(PutAll(es), Open("rw", S, V, K),
             Open("rw", S, Laid(V, es, {L[i] : i \in 1 .. Len(L)}), K))
    <3>1. PICK f : f = PutAll(es)
      OBVIOUS
    <3>2. f = [i \in 1 .. Len(L) |-> Head(Put(L[i][1], L[i][2], es[L[i]]))]
      BY <1>2, <3>1, Zenon
    <3>3. IsSequence(L) /\ \A i \in 1 .. Len(L) : L[i] \in MapIds \X Keys
      BY <1>1
    <3>4. Goes(f, Open("rw", S, V, K),
               Open("rw", S, Laid(V, es, {L[i] : i \in 1 .. Len(L)}), K))
      BY <3>2, <3>3, Lays
    <3> QED
      BY <3>1, <3>4
  <2> QED
    BY <1>1, <2>1, Zenon
<1> QED
  BY <1>3, <1>4

LEMMA DelsKeys ==
  ASSUME NEW S, NEW V \in Contents, NEW K, NEW es \in entries
  PROVE  LET none == [e \in DOMAIN es |-> None]
         IN  /\ Goes(DelKeys(es), Open("rw", S, V, K),
                     Open("rw", S, Laid(V, none, DOMAIN es), K))
             /\ Laid(V, none, DOMAIN es) \in Contents
<1> DEFINE L == Listed(es)
           none == [e \in DOMAIN es |-> None]
<1>1. /\ Len(L) \in Nat /\ DOMAIN L = 1 .. Len(L) /\ IsSequence(L)
      /\ DOMAIN es = {L[i] : i \in 1 .. Len(L)}
      /\ \A i \in 1 .. Len(L) : L[i] \in MapIds \X Keys
  BY ListedIs
<1>2. DelKeys(es) = [i \in 1 .. Len(L) |-> Head(Del(L[i][1], L[i][2]))]
  BY <1>1 DEF DelKeys, Each
<1>3. ASSUME NEW i \in 1 .. Len(L)
      PROVE  Head(Del(L[i][1], L[i][2])) = Head(Put(L[i][1], L[i][2], none[L[i]]))
  <2>1. none[L[i]] = None
    BY <1>1
  <2> QED
    BY <2>1, Zenon DEF Del
<1>4. DelKeys(es) = [i \in 1 .. Len(L) |-> Head(Put(L[i][1], L[i][2], none[L[i]]))]
  BY <1>2, <1>3
<1>5. Laid(V, none, DOMAIN es) \in Contents
  BY Maps, LaidTypes
<1> HIDE DEF L, none
<1>6. Goes(DelKeys(es), Open("rw", S, V, K), Open("rw", S, Laid(V, none, DOMAIN es), K))
  BY <1>1, <1>4, Lays
<1> QED
  BY <1>5, <1>6 DEF none

\* A loop that reads.
LEMMA Looks ==
  ASSUME NEW kind \in Kinds, NEW S, NEW V, NEW K, NEW n \in Nat, NEW f,
         f = [i \in 1 .. n |-> f[i]],
         \A i \in 1 .. n : \E m, k, among :
           f[i] = Head(Get(m, k, among)) /\ V[m][k] \in among
  PROVE  Goes(f, Open(kind, S, V, K), Open(kind, S, V, K))
<1> DEFINE x == Open(kind, S, V, K)
           p == [i \in 1 .. n + 1 |-> x]
<1>1. ASSUME NEW i \in 1 .. n
      PROVE  Leads("alone", "main", f[i], x, x)
  <2>1. PICK m, k, among : f[i] = Head(Get(m, k, among)) /\ V[m][k] \in among
    OBVIOUS
  <2>2. Leads("alone", "main", Head(Get(m, k, among)), x, x)
    BY <2>1, GetLeads
  <2> QED
    BY <2>1, <2>2, Zenon
<1>2. \A i \in 1 .. n : p[i] = x /\ p[i + 1] = x
  OBVIOUS
<1>3. p[1] = x /\ p[n + 1] = x
  OBVIOUS
<1> HIDE DEF p, x
<1>4. \A i \in 1 .. n : Leads("alone", "main", f[i], p[i], p[i + 1])
  BY <1>1, <1>2
<1>5. Walk("alone", "main", [i \in 1 .. n |-> f[i]], p[1], p[n + 1])
  BY <1>4, Loops
<1> QED
  BY <1>3, <1>5 DEF Goes, x

-----------------------------------------------------------------------------
(* The tests of property.rs *)

NothingKept == [name \in {"initial", "modified"} |-> <<>>]
Start == Idle(EmptyContents, NothingKept)

\* No assertion of a test of one thread fails, and it ends with no transaction open.
Plays(s) == \E S, K : Goes(s, Start, Idle(S, K))

LEMMA FirstTransaction ==
  ASSUME NEW S, NEW V, NEW K, NEW K2, NEW b
  PROVE  /\ Goes(b, Open("ro", S, S, K), Open("ro", S, S, K2)) =>
              Goes(Ro \o b \o Drop, Idle(S, K), Idle(S, K2))
         /\ Goes(b, Open("rw", S, S, K), Open("rw", S, V, K2)) =>
              /\ Goes(Rw \o b \o Committed, Idle(S, K), Idle(V, K2))
              /\ Goes(Rw \o b \o Drop, Idle(S, K), Idle(S, K2))
<1>1. ASSUME Goes(b, Open("ro", S, S, K), Open("ro", S, S, K2))
      PROVE  Goes(Ro \o b \o Drop, Idle(S, K), Idle(S, K2))
  <2>1. Goes(Ro \o b, Idle(S, K), Open("ro", S, S, K2))
    BY <1>1, Begins, Goings
  <2> QED
    BY <2>1, Ends, Goings
<1>2. ASSUME Goes(b, Open("rw", S, S, K), Open("rw", S, V, K2))
      PROVE  /\ Goes(Rw \o b \o Committed, Idle(S, K), Idle(V, K2))
             /\ Goes(Rw \o b \o Drop, Idle(S, K), Idle(S, K2))
  <2>1. Goes(Rw \o b, Idle(S, K), Open("rw", S, V, K2))
    BY <1>2, Begins, Goings
  <2> QED
    BY <2>1, Ends, Goings
<1> QED
  BY <1>1, <1>2

\* A transaction after the steps s.
LEMMA NextTransaction ==
  ASSUME NEW x, NEW S, NEW V, NEW K, NEW K2, NEW s, NEW b, Goes(s, x, Idle(S, K))
  PROVE  /\ Goes(b, Open("ro", S, S, K), Open("ro", S, S, K2)) =>
              Goes(s \o Ro \o b \o Drop, x, Idle(S, K2))
         /\ Goes(b, Open("rw", S, S, K), Open("rw", S, V, K2)) =>
              /\ Goes(s \o Rw \o b \o Committed, x, Idle(V, K2))
              /\ Goes(s \o Rw \o b \o Drop, x, Idle(S, K2))
<1>1. ASSUME Goes(b, Open("ro", S, S, K), Open("ro", S, S, K2))
      PROVE  Goes(s \o Ro \o b \o Drop, x, Idle(S, K2))
  <2>1. Goes(s \o Ro, x, Open("ro", S, S, K))
    BY Begins, Goings
  <2>2. Goes(s \o Ro \o b, x, Open("ro", S, S, K2))
    BY <1>1, <2>1, Goings
  <2> QED
    BY <2>2, Ends, Goings
<1>2. ASSUME Goes(b, Open("rw", S, S, K), Open("rw", S, V, K2))
      PROVE  /\ Goes(s \o Rw \o b \o Committed, x, Idle(V, K2))
             /\ Goes(s \o Rw \o b \o Drop, x, Idle(S, K2))
  <2>1. Goes(s \o Rw, x, Open("rw", S, S, K))
    BY Begins, Goings
  <2>2. Goes(s \o Rw \o b, x, Open("rw", S, V, K2))
    BY <1>2, <2>1, Goings
  <2> QED
    BY <2>2, Ends, Goings
<1> QED
  BY <1>1, <1>2

\* One that writes, or reads, a single key.
LEMMA NextPut ==
  ASSUME NEW x, NEW S, NEW K, NEW s, Goes(s, x, Idle(S, K)), NEW m, NEW k, NEW v
  PROVE  /\ Goes(s \o Rw \o Put(m, k, v) \o Committed, x, Idle(Written(S, m, k, v), K))
         /\ Goes(s \o Rw \o Put(m, k, v) \o Drop, x, Idle(S, K))
BY Writes, NextTransaction

LEMMA NextGet ==
  ASSUME NEW x, NEW S, NEW K, NEW s, Goes(s, x, Idle(S, K)),
         NEW m, NEW k, NEW among, S[m][k] \in among
  PROVE  Goes(s \o Ro \o Get(m, k, among) \o Drop, x, Idle(S, K))
<1>1. "ro" \in Kinds
  BY DEF Kinds
<1>2. Goes(Get(m, k, among), Open("ro", S, S, K), Open("ro", S, S, K))
  BY <1>1, Reads
<1> QED
  BY <1>2, NextTransaction

LEMMA WrittenHere ==
  ASSUME NEW V \in Contents, NEW k \in Keys, NEW v \in OptVals
  PROVE  Written(V, 0, k, v) \in Contents /\ Written(V, 0, k, v)[0][k] = v
<1>1. 0 \in MapIds
  BY Maps
<1> QED
  BY <1>1 DEF Written, Contents

LEMMA overwrite_and_abort_plays ==
  ASSUME NEW s \in overwrite_and_abort
  PROVE  Plays(s)
<1> DEFINE test(k, v, w) ==
             Ro \o Get(0, k, {None}) \o Drop
             \o Rw \o Put(0, k, v) \o Committed \o Ro \o Get(0, k, {v}) \o Drop
             \o Rw \o Put(0, k, w) \o Drop \o Ro \o Get(0, k, {v}) \o Drop
             \o Rw \o Put(0, k, w) \o Committed \o Ro \o Get(0, k, {w}) \o Drop
<1>1. PICK in \in {x \in RandomKeys \X RandomVals \X RandomVals : x[2] # x[3]} :
        s = test(in[1], in[2], in[3])
  BY Zenon DEF overwrite_and_abort
<1>2. PICK k \in Keys, v \in OptVals, w \in OptVals : s = test(k, v, w)
  <2>1. in[1] \in Keys /\ in[2] \in OptVals /\ in[3] \in OptVals
    BY SuiteDataAssumption DEF OptVals
  <2> QED
    BY <1>1, <2>1, Zenon
<1> DEFINE E == EmptyContents
           K == NothingKept
           V == Written(E, 0, k, v)
           W == Written(V, 0, k, w)
           s1 == Ro \o Get(0, k, {None}) \o Drop
           s2 == s1 \o Rw \o Put(0, k, v) \o Committed
           s3 == s2 \o Ro \o Get(0, k, {v}) \o Drop
           s4 == s3 \o Rw \o Put(0, k, w) \o Drop
           s5 == s4 \o Ro \o Get(0, k, {v}) \o Drop
           s6 == s5 \o Rw \o Put(0, k, w) \o Committed
           s7 == s6 \o Ro \o Get(0, k, {w}) \o Drop
<1>3. E[0][k] = None /\ V[0][k] = v /\ W[0][k] = w
  <2>3. E \in Contents /\ E[0][k] = None
    BY Maps DEF EmptyContents
  <2> HIDE DEF E
  <2>1. V \in Contents /\ V[0][k] = v
    BY <2>3, WrittenHere
  <2> HIDE DEF V
  <2>2. W[0][k] = w
    BY <2>1, WrittenHere
  <2> QED
    BY <2>1, <2>2, <2>3
<1>4. s = s7
  BY <1>2, Zenon
<1> HIDE DEF E, K, V, W
<1>5. Goes(s1, Idle(E, K), Idle(E, K))
  <2>1. "ro" \in Kinds
    BY DEF Kinds
  <2>2. Goes(Get(0, k, {None}), Open("ro", E, E, K), Open("ro", E, E, K))
    BY <1>3, <2>1, Reads
  <2> QED
    BY <2>2, FirstTransaction
<1> HIDE DEF s1
<1>6. Goes(s2, Idle(E, K), Idle(V, K))
  BY <1>5, NextPut DEF V
<1> HIDE DEF s2
<1>7. Goes(s3, Idle(E, K), Idle(V, K))
  BY <1>3, <1>6, NextGet
<1> HIDE DEF s3
<1>8. Goes(s4, Idle(E, K), Idle(V, K))
  BY <1>7, NextPut
<1> HIDE DEF s4
<1>9. Goes(s5, Idle(E, K), Idle(V, K))
  BY <1>3, <1>8, NextGet
<1> HIDE DEF s5
<1>10. Goes(s6, Idle(E, K), Idle(W, K))
  BY <1>9, NextPut DEF W
<1> HIDE DEF s6
<1>11. Goes(s7, Idle(E, K), Idle(W, K))
  BY <1>3, <1>10, NextGet
<1> HIDE DEF s7
<1> QED
  BY <1>4, <1>11 DEF Plays, Start, E, K

LEMMA WrittenAgain ==
  ASSUME NEW V \in Contents, NEW k \in Keys, NEW v, NEW w
  PROVE  Written(Written(V, 0, k, v), 0, k, w) = Written(V, 0, k, w)
<1>1. 0 \in MapIds
  BY Maps
<1> QED
  BY <1>1 DEF Written, Contents

LEMMA last_write_wins_plays ==
  ASSUME NEW s \in last_write_wins
  PROVE  Plays(s)
<1> DEFINE test(k, vs) ==
             Rw \o Each(vs, LAMBDA v : Put(0, k, v)) \o Committed
             \o Ro \o Get(0, k, {IF vs = <<>> THEN None ELSE vs[Len(vs)]}) \o Drop
<1>1. PICK in \in RandomKeys \X SeqOf(RandomVals, MaxActions) : s = test(in[1], in[2])
  BY Zenon DEF last_write_wins
<1>2. PICK k, n, vs : k \in Keys /\ n \in Nat /\ vs \in [1 .. n -> OptVals] /\ s = test(k, vs)
  <2>1. in[1] \in Keys
    BY SuiteDataAssumption
  <2>2. PICK n \in 0 .. MaxActions : in[2] \in [1 .. n -> RandomVals]
    BY DEF SeqOf
  <2>3. n \in Nat /\ in[2] \in [1 .. n -> OptVals]
    <3>1. n \in Nat
      BY SuiteDataAssumption
    <3>2. \A v \in RandomVals : v \in OptVals
      BY SuiteDataAssumption DEF OptVals
    <3> QED
      BY <2>2, <3>1, <3>2
  <2> QED
    BY <1>1, <2>1, <2>3, Zenon
<1> DEFINE E == EmptyContents
           K == NothingKept
           W(i) == IF i = 0 THEN E ELSE Written(E, 0, k, vs[i])
           last == IF vs = <<>> THEN None ELSE vs[Len(vs)]
           b == Each(vs, LAMBDA v : Put(0, k, v))
           f == [i \in 1 .. n |-> Head(Put(0, k, vs[i]))]
           p == [i \in 1 .. n + 1 |-> Open("rw", E, W(i - 1), K)]
           s1 == Rw \o b \o Committed
           s2 == s1 \o Ro \o Get(0, k, {last}) \o Drop
<1>3. s = s2
  BY <1>2, Zenon
<1>4. E \in Contents /\ E[0][k] = None
  BY <1>2, Maps DEF EmptyContents
<1>5. b = [i \in 1 .. n |-> f[i]]
  BY <1>2 DEF Each
<1> HIDE DEF E
<1>6. W(n)[0][k] = last
  <2>1. CASE n = 0
    <3>1. vs = <<>>
      BY <1>2, <2>1
    <3> QED
      BY <1>4, <2>1, <3>1
  <2>2. CASE n # 0
    <3>1. vs # <<>> /\ Len(vs) = n /\ vs[n] \in OptVals
      BY <1>2, <2>2
    <3>2. Written(E, 0, k, vs[n])[0][k] = vs[n]
      BY <1>2, <1>4, <3>1, WrittenHere
    <3> QED
      BY <2>2, <3>1, <3>2
  <2> QED
    BY <2>1, <2>2
<1>7. ASSUME NEW i \in 1 .. n
      PROVE  Leads("alone", "main", f[i], p[i], p[i + 1])
  <2>1. Written(W(i - 1), 0, k, vs[i]) = W(i)
    <3>1. CASE i = 1
      BY <3>1
    <3>2. CASE i # 1
      <4>1. W(i - 1) = Written(E, 0, k, vs[i - 1]) /\ W(i) = Written(E, 0, k, vs[i])
        BY <1>2, <3>2
      <4> HIDE DEF W
      <4> QED
        BY <1>2, <1>4, <4>1, WrittenAgain
    <3> QED
      BY <3>1, <3>2
  <2> HIDE DEF W
  <2>2. p[i] = Open("rw", E, W(i - 1), K) /\ p[i + 1] = Open("rw", E, W(i), K)
    <3>1. i \in 1 .. n + 1 /\ i + 1 \in 1 .. n + 1 /\ i + 1 - 1 = i
      BY <1>2
    <3> QED
      BY <3>1
  <2>3. f[i] = Head(Put(0, k, vs[i]))
    BY <1>2
  <2> HIDE DEF p, f
  <2> QED
    BY <2>1, <2>2, <2>3, PutLeads
<1>8. p[1] = Open("rw", E, E, K) /\ p[n + 1] = Open("rw", E, W(n), K)
  <2>1. W(0) = E
    BY <1>2
  <2> HIDE DEF W
  <2>2. 1 \in 1 .. n + 1 /\ n + 1 \in 1 .. n + 1 /\ 1 - 1 = 0 /\ n + 1 - 1 = n
    BY <1>2
  <2>3. p[1] = Open("rw", E, W(0), K) /\ p[n + 1] = Open("rw", E, W(n), K)
    <3>1. n \in Nat
      BY <1>2
    <3> QED
      BY <2>2, <3>1
  <2> QED
    BY <2>1, <2>3, Zenon
<1> HIDE DEF p, f, W, last, K, b
<1>9. Goes(b, Open("rw", E, E, K), Open("rw", E, W(n), K))
  <2>1. Walk("alone", "main", [i \in 1 .. n |-> f[i]], p[1], p[n + 1])
    BY <1>2, <1>7, Loops
  <2> QED
    BY <1>5, <1>8, <2>1 DEF Goes
<1>10. Goes(s1, Idle(E, K), Idle(W(n), K))
  BY <1>9, FirstTransaction
<1> HIDE DEF s1
<1>11. Goes(s2, Idle(E, K), Idle(W(n), K))
  BY <1>6, <1>10, NextGet
<1> HIDE DEF s2
<1> QED
  BY <1>3, <1>11 DEF Plays, Start, E, K

LEMMA GetsAll ==
  ASSUME NEW kind \in Kinds, NEW S, NEW V, NEW K, NEW es \in entries
  PROVE  /\ (\A e \in DOMAIN es : V[e[1]][e[2]] = es[e]) =>
              Goes(GetAll(es), Open(kind, S, V, K), Open(kind, S, V, K))
         /\ (\A e \in DOMAIN es : V[e[1]][e[2]] = None) =>
              Goes(AbsentKeys(es), Open(kind, S, V, K), Open(kind, S, V, K))
<1> DEFINE L == Listed(es)
           n == Len(L)
           f == [i \in 1 .. n |-> Head(Get(L[i][1], L[i][2], {es[L[i]]}))]
           g == [i \in 1 .. n |-> Head(Get(L[i][1], L[i][2], {None}))]
<1>1. n \in Nat /\ DOMAIN L = 1 .. n /\ \A i \in 1 .. n : L[i] \in DOMAIN es
  BY ListedIs
<1>2. GetAll(es) = f
  BY <1>1 DEF GetAll, Each
<1>3. AbsentKeys(es) = g
  BY <1>1 DEF AbsentKeys, Each
<1>4. f = [i \in 1 .. n |-> f[i]] /\ g = [i \in 1 .. n |-> g[i]]
  OBVIOUS
<1>5. ASSUME \A e \in DOMAIN es : V[e[1]][e[2]] = es[e], NEW i \in 1 .. n
      PROVE  \E m, k, among : f[i] = Head(Get(m, k, among)) /\ V[m][k] \in among
  <2>1. f[i] = Head(Get(L[i][1], L[i][2], {es[L[i]]}))
    BY Zenon
  <2>2. V[L[i][1]][L[i][2]] \in {es[L[i]]}
    BY <1>1, <1>5
  <2> QED
    BY <2>1, <2>2, Zenon
<1>6. ASSUME \A e \in DOMAIN es : V[e[1]][e[2]] = None, NEW i \in 1 .. n
      PROVE  \E m, k, among : g[i] = Head(Get(m, k, among)) /\ V[m][k] \in among
  <2>1. g[i] = Head(Get(L[i][1], L[i][2], {None}))
    BY Zenon
  <2>2. V[L[i][1]][L[i][2]] \in {None}
    BY <1>1, <1>6
  <2> QED
    BY <2>1, <2>2, Zenon
<1> HIDE DEF L, n, f, g
<1>7. ASSUME \A e \in DOMAIN es : V[e[1]][e[2]] = es[e]
      PROVE  Goes(f, Open(kind, S, V, K), Open(kind, S, V, K))
  BY <1>1, <1>4, <1>5, <1>7, Looks
<1>8. ASSUME \A e \in DOMAIN es : V[e[1]][e[2]] = None
      PROVE  Goes(g, Open(kind, S, V, K), Open(kind, S, V, K))
  BY <1>1, <1>4, <1>6, <1>8, Looks
<1> QED
  BY <1>2, <1>3, <1>7, <1>8

LEMMA add_and_delete_plays ==
  ASSUME NEW s \in add_and_delete
  PROVE  Plays(s)
<1>1. PICK es \in entries :
        s = Rw \o PutAll(es) \o Committed \o Ro \o GetAll(es) \o Drop
            \o Rw \o DelKeys(es) \o Committed \o Ro \o AbsentKeys(es) \o Drop
  BY Zenon DEF add_and_delete
<1> DEFINE E == EmptyContents
           K == NothingKept
           none == [e \in DOMAIN es |-> None]
           V == Laid(E, es, DOMAIN es)
           W == Laid(V, none, DOMAIN es)
           s1 == Rw \o PutAll(es) \o Committed
           s2 == s1 \o Ro \o GetAll(es) \o Drop
           s3 == s2 \o Rw \o DelKeys(es) \o Committed
           s4 == s3 \o Ro \o AbsentKeys(es) \o Drop
<1>2. s = s4
  BY <1>1, Zenon
<1>3. DOMAIN es \subseteq MapIds \X Keys
  BY ListedIs
<1>4. \A e \in DOMAIN es : V[e[1]][e[2]] = es[e] /\ W[e[1]][e[2]] = None
  BY <1>3 DEF Laid
<1>5. "ro" \in Kinds
  BY DEF Kinds
<1>6. /\ Goes(PutAll(es), Open("rw", E, E, K), Open("rw", E, V, K)) /\ V \in Contents
  BY PutsAll, Maps
<1> HIDE DEF V, E, K
<1>7. Goes(DelKeys(es), Open("rw", V, V, K), Open("rw", V, W, K))
  BY <1>6, DelsKeys
<1> HIDE DEF W
<1>8. Goes(s1, Idle(E, K), Idle(V, K))
  BY <1>6, FirstTransaction
<1> HIDE DEF s1
<1>9. Goes(s2, Idle(E, K), Idle(V, K))
  <2>1. Goes(GetAll(es), Open("ro", V, V, K), Open("ro", V, V, K))
    BY <1>4, <1>5, GetsAll
  <2> QED
    BY <1>8, <2>1, NextTransaction
<1> HIDE DEF s2
<1>10. Goes(s3, Idle(E, K), Idle(W, K))
  BY <1>7, <1>9, NextTransaction
<1> HIDE DEF s3
<1>11. Goes(s4, Idle(E, K), Idle(W, K))
  <2>1. Goes(AbsentKeys(es), Open("ro", W, W, K), Open("ro", W, W, K))
    BY <1>4, <1>5, GetsAll
  <2> QED
    BY <1>10, <2>1, NextTransaction
<1> HIDE DEF s4
<1> QED
  BY <1>2, <1>11 DEF Plays, Start, E, K

\* Transactions of two parts.
LEMMA FirstTwo ==
  ASSUME NEW S, NEW V, NEW W, NEW K, NEW K2, NEW a, NEW b,
         Goes(a, Open("rw", S, S, K), Open("rw", S, V, K)),
         Goes(b, Open("rw", S, V, K), Open("rw", S, W, K2))
  PROVE  /\ Goes(Rw \o a \o b \o Committed, Idle(S, K), Idle(W, K2))
         /\ Goes(Rw \o a \o b \o Drop, Idle(S, K), Idle(S, K2))
<1>1. Goes(Rw \o a, Idle(S, K), Open("rw", S, V, K))
  BY Begins, Goings
<1>2. Goes(Rw \o a \o b, Idle(S, K), Open("rw", S, W, K2))
  BY <1>1, Goings
<1> QED
  BY <1>2, Ends, Goings

LEMMA NextTwo ==
  ASSUME NEW x, NEW S, NEW V, NEW W, NEW K, NEW K2, NEW s, NEW a, NEW b,
         Goes(s, x, Idle(S, K))
  PROVE  /\ (/\ Goes(a, Open("ro", S, S, K), Open("ro", S, S, K))
             /\ Goes(b, Open("ro", S, S, K), Open("ro", S, S, K)))
              => Goes(s \o Ro \o a \o b \o Drop, x, Idle(S, K))
         /\ (/\ Goes(a, Open("rw", S, S, K), Open("rw", S, V, K))
             /\ Goes(b, Open("rw", S, V, K), Open("rw", S, W, K2)))
              => /\ Goes(s \o Rw \o a \o b \o Committed, x, Idle(W, K2))
                 /\ Goes(s \o Rw \o a \o b \o Drop, x, Idle(S, K2))
<1>1. ASSUME Goes(a, Open("ro", S, S, K), Open("ro", S, S, K)),
             Goes(b, Open("ro", S, S, K), Open("ro", S, S, K))
      PROVE  Goes(s \o Ro \o a \o b \o Drop, x, Idle(S, K))
  <2>1. Goes(s \o Ro, x, Open("ro", S, S, K))
    BY Begins, Goings
  <2>2. Goes(s \o Ro \o a, x, Open("ro", S, S, K))
    BY <1>1, <2>1, Goings
  <2>3. Goes(s \o Ro \o a \o b, x, Open("ro", S, S, K))
    BY <1>1, <2>2, Goings
  <2> QED
    BY <2>3, Ends, Goings
<1>2. ASSUME Goes(a, Open("rw", S, S, K), Open("rw", S, V, K)),
             Goes(b, Open("rw", S, V, K), Open("rw", S, W, K2))
      PROVE  /\ Goes(s \o Rw \o a \o b \o Committed, x, Idle(W, K2))
             /\ Goes(s \o Rw \o a \o b \o Drop, x, Idle(S, K2))
  <2>1. Goes(s \o Rw, x, Open("rw", S, S, K))
    BY Begins, Goings
  <2>2. Goes(s \o Rw \o a, x, Open("rw", S, V, K))
    BY <1>2, <2>1, Goings
  <2>3. Goes(s \o Rw \o a \o b, x, Open("rw", S, W, K2))
    BY <1>2, <2>2, Goings
  <2> QED
    BY <2>3, Ends, Goings
<1> QED
  BY <1>1, <1>2, Zenon

LEMMA add_and_delete_some_plays ==
  ASSUME NEW s \in add_and_delete_some
  PROVE  Plays(s)
<1> DEFINE Expected(es, e) ==
             {IF e \in DOMAIN es[2] THEN es[2][e]
              ELSE IF e \in DOMAIN es[1] THEN es[1][e] ELSE None}
           test(es, extra) ==
             LET all == Listed(es[1]) \o Listed(es[2]) \o extra
                 remain == Restrict(es[1], DOMAIN es[1] \ DOMAIN es[2])
             IN  Rw \o PutAll(es[1]) \o PutAll(es[2]) \o Committed
                 \o Ro \o Each(all, LAMBDA e : Get(e[1], e[2], Expected(es, e))) \o Drop
                 \o Rw \o DelKeys(es[2]) \o Committed
                 \o Ro \o AbsentKeys(es[2]) \o GetAll(remain) \o Drop
<1>1. PICK in \in (entries \X entries) \X SeqOf(RandomCells, 1) : s = test(in[1], in[2])
  BY Zenon DEF add_and_delete_some
<1>2. PICK es \in entries \X entries, extra \in SeqOf(RandomCells, 1) : s = test(es, extra)
  BY <1>1, Zenon
<1> DEFINE E == EmptyContents
           K == NothingKept
           e1 == es[1]
           e2 == es[2]
           all == Listed(e1) \o Listed(e2) \o extra
           remain == Restrict(e1, DOMAIN e1 \ DOMAIN e2)
           Looking == Each(all, LAMBDA e : Get(e[1], e[2], Expected(es, e)))
           none == [e \in DOMAIN e2 |-> None]
           U == Laid(E, e1, DOMAIN e1)
           V == Laid(U, e2, DOMAIN e2)
           W == Laid(V, none, DOMAIN e2)
           s1 == Rw \o PutAll(e1) \o PutAll(e2) \o Committed
           s2 == s1 \o Ro \o Looking \o Drop
           s3 == s2 \o Rw \o DelKeys(e2) \o Committed
           s4 == s3 \o Ro \o AbsentKeys(e2) \o GetAll(remain) \o Drop
<1>3. s = s4
  BY <1>2, Zenon
<1>4. e1 \in entries /\ e2 \in entries
  OBVIOUS
<1>5. /\ DOMAIN e1 \subseteq MapIds \X Keys /\ DOMAIN e2 \subseteq MapIds \X Keys
      /\ RandomCells \subseteq MapIds \X Keys
      /\ DOMAIN e1 \subseteq RandomCells /\ DOMAIN e2 \subseteq RandomCells
  <2>1. DOMAIN e1 \subseteq RandomCells /\ DOMAIN e2 \subseteq RandomCells
    BY <1>4 DEF entries
  <2> QED
    BY <2>1, SuiteDataAssumption
<1>6. remain \in entries /\ DOMAIN remain = DOMAIN e1 \ DOMAIN e2
      /\ \A e \in DOMAIN remain : remain[e] = e1[e]
  <2>1. PICK C \in SUBSET RandomCells : e1 \in [C -> RandomVals]
    BY <1>4 DEF entries
  <2>2. remain \in [C \ DOMAIN e2 -> RandomVals]
    BY <2>1 DEF Restrict
  <2>3. C \ DOMAIN e2 \in SUBSET RandomCells
    BY <2>1
  <2>4. remain \in entries
    BY <2>2, <2>3, Zenon DEF entries
  <2>5. DOMAIN remain = DOMAIN e1 \ DOMAIN e2 /\ \A e \in DOMAIN remain : remain[e] = e1[e]
    BY DEF Restrict
  <2> QED
    BY <2>4, <2>5
<1>7. /\ \A m \in MapIds, k \in Keys : V[m][k] \in Expected(es, <<m, k>>)
      /\ \A e \in DOMAIN e2 : W[e[1]][e[2]] = None
      /\ \A e \in DOMAIN e1 \ DOMAIN e2 : W[e[1]][e[2]] = e1[e]
  <2>1. ASSUME NEW m \in MapIds, NEW k \in Keys
        PROVE  /\ V[m][k] \in Expected(es, <<m, k>>)
               /\ W[m][k] = IF <<m, k>> \in DOMAIN e2 THEN None ELSE V[m][k]
               /\ <<m, k>> \in DOMAIN e1 \ DOMAIN e2 => V[m][k] = e1[<<m, k>>]
    <3>1. U[m][k] = IF <<m, k>> \in DOMAIN e1 THEN e1[<<m, k>>] ELSE None
      BY DEF Laid, EmptyContents
    <3>2. V[m][k] = IF <<m, k>> \in DOMAIN e2 THEN e2[<<m, k>>] ELSE U[m][k]
      BY DEF Laid
    <3>3. W[m][k] = IF <<m, k>> \in DOMAIN e2 THEN None ELSE V[m][k]
      BY DEF Laid
    <3> HIDE DEF U, V, W
    <3> QED
      BY <3>1, <3>2, <3>3
  <2> HIDE DEF U, V, W
  <2> QED
    BY <1>5, <2>1
<1>8. all \in Seq(RandomCells)
  <2>1. Listed(e1) \in Seq(RandomCells) /\ Listed(e2) \in Seq(RandomCells)
    <3>1. ASSUME NEW e \in entries, DOMAIN e \subseteq RandomCells
          PROVE  Listed(e) \in Seq(RandomCells)
      <4>1. /\ Len(Listed(e)) \in Nat /\ IsSequence(Listed(e))
            /\ \A i \in 1 .. Len(Listed(e)) : Listed(e)[i] \in RandomCells
        BY <3>1, ListedIs
      <4> QED
        BY <4>1 DEF IsSequence
    <3> QED
      BY <1>4, <1>5, <3>1
  <2>2. extra \in Seq(RandomCells)
    <3>1. PICK m \in 0 .. 1 : extra \in [1 .. m -> RandomCells]
      BY DEF SeqOf
    <3> QED
      BY <3>1
  <2> QED
    BY <2>1, <2>2
<1> HIDE DEF all, Expected
<1>9. Goes(Looking, Open("ro", V, V, K), Open("ro", V, V, K))
  <2> DEFINE n == Len(all)
             f == [i \in 1 .. n |-> Head(Get(all[i][1], all[i][2], Expected(es, all[i])))]
  <2>1. n \in Nat /\ DOMAIN all = 1 .. n /\ \A i \in 1 .. n : all[i] \in RandomCells
    BY <1>8
  <2>2. Looking = f
    BY <2>1 DEF Each
  <2>3. ASSUME NEW i \in 1 .. n
        PROVE  \E m, k, among : f[i] = Head(Get(m, k, among)) /\ V[m][k] \in among
    <3>1. PICK m \in MapIds, k \in Keys : all[i] = <<m, k>>
      BY <1>5, <2>1
    <3>2. f[i] = Head(Get(m, k, Expected(es, <<m, k>>)))
      BY <3>1
    <3> HIDE DEF V
    <3> QED
      BY <1>7, <3>2, Zenon
  <2>4. f = [i \in 1 .. n |-> f[i]]
    OBVIOUS
  <2>5. "ro" \in Kinds
    BY DEF Kinds
  <2> HIDE DEF f, n, V, K
  <2>6. Goes(f, Open("ro", V, V, K), Open("ro", V, V, K))
    BY <2>1, <2>3, <2>4, <2>5, Looks
  <2> QED
    BY <2>2, <2>6
<1>10. "ro" \in Kinds /\ E \in Contents
  BY Maps DEF Kinds
<1>11. /\ Goes(PutAll(e1), Open("rw", E, E, K), Open("rw", E, U, K)) /\ U \in Contents
  BY <1>4, <1>10, PutsAll
<1> HIDE DEF U, E, K
<1>12. /\ Goes(PutAll(e2), Open("rw", E, U, K), Open("rw", E, V, K)) /\ V \in Contents
  BY <1>4, <1>11, PutsAll
<1> HIDE DEF V
<1>13. Goes(DelKeys(e2), Open("rw", V, V, K), Open("rw", V, W, K))
  BY <1>4, <1>12, DelsKeys
<1> HIDE DEF W, Looking
<1>14. Goes(s1, Idle(E, K), Idle(V, K))
  BY <1>11, <1>12, FirstTwo
<1> HIDE DEF s1
<1>15. Goes(s2, Idle(E, K), Idle(V, K))
  BY <1>9, <1>14, NextTransaction
<1> HIDE DEF s2
<1>16. Goes(s3, Idle(E, K), Idle(W, K))
  BY <1>13, <1>15, NextTransaction
<1> HIDE DEF s3
<1>17. Goes(s4, Idle(E, K), Idle(W, K))
  <2>1. Goes(AbsentKeys(e2), Open("ro", W, W, K), Open("ro", W, W, K))
    BY <1>4, <1>7, <1>10, GetsAll
  <2> HIDE DEF remain
  <2>2. \A e \in DOMAIN remain : W[e[1]][e[2]] = remain[e]
    BY <1>6, <1>7
  <2>3. Goes(GetAll(remain), Open("ro", W, W, K), Open("ro", W, W, K))
    BY <1>6, <1>10, <2>2, GetsAll
  <2> QED
    BY <1>16, <2>1, <2>3, NextTwo
<1> HIDE DEF s4
<1> QED
  BY <1>3, <1>17 DEF Plays, Start, E, K

LEMMA ActionsAre ==
  ASSUME NEW acts \in actions
  PROVE  AreActions(acts)
<1>1. PICK n \in 0 .. MaxActions : acts \in [1 .. n -> RandomActions]
  BY DEF actions, SeqOf
<1>2. n \in Nat
  BY SuiteDataAssumption
<1>3. \A a \in RandomActions : a[2] \in OptVals
  BY SuiteDataAssumption DEF OptVals
<1>4. Len(acts) = n /\ acts \in Seq(RandomActions)
  BY <1>1, <1>2
<1> QED
  BY <1>1, <1>3, <1>4 DEF AreActions, IsSequence

\* The contents after actions on a map.
LEMMA ActionsChange ==
  ASSUME NEW V \in Contents, NEW m \in MapIds, NEW acts \in actions
  PROVE  LET W == Changed(V, m, Extend(V[m], acts))
         IN  /\ W \in Contents /\ W[m] = Extend(V[m], acts)
             /\ \A n \in MapIds : n # m => W[n] = V[n]
<1>1. AreActions(acts) /\ IsSequence(acts)
  BY ActionsAre DEF AreActions
<1>2. V[m] \in [Keys -> OptVals]
  BY ChangedTypes DEF Contents
<1>3. Extend(V[m], acts) \in [Keys -> OptVals]
  BY <1>1, <1>2, ExtendTypes
<1> QED
  BY <1>1, <1>3, ChangedTypes

LEMMA AppliesActions ==
  ASSUME NEW S, NEW V \in Contents, NEW K, NEW m \in MapIds, NEW acts \in actions,
         NEW W, W = Changed(V, m, Extend(V[m], acts))
  PROVE  /\ Goes(ApplyActions(m, acts), Open("rw", S, V, K), Open("rw", S, W, K))
         /\ W \in Contents
<1>1. IsSequence(acts)
  BY ActionsAre DEF AreActions
<1> QED
  BY <1>1, Applies, ActionsChange

LEMMA EmptyHasModel ==
  /\ EmptyContents \in Contents /\ EmptyContents[0] = Model
  /\ 0 \in MapIds /\ 1 \in MapIds \ {0} /\ "ro" \in Kinds /\ "rw" \in Kinds
BY Maps, SuiteMapsAssumption DEF Kinds

LEMMA add_modify_abort_modify_commit_plays ==
  ASSUME NEW s \in add_modify_abort_modify_commit
  PROVE  Plays(s)
<1> DEFINE test(as) ==
             LET model == FromActions(as[1])
             IN  Rw \o ApplyActions(0, as[1]) \o Committed \o DbIsModel(model)
                 \o Rw \o ApplyActions(0, as[2]) \o IsModel(Extend(model, as[2])) \o Drop
                 \o DbIsModel(model)
                 \o Rw \o ApplyActions(0, as[3]) \o Committed
                 \o DbIsModel(Extend(model, as[3]))
<1>1. PICK as \in actions \X actions \X actions : s = test(as)
  BY Zenon DEF add_modify_abort_modify_commit
<1>2. as[1] \in actions /\ as[2] \in actions /\ as[3] \in actions
  OBVIOUS
<1> DEFINE E == EmptyContents
           K == NothingKept
           model == FromActions(as[1])
           U == Changed(E, 0, Extend(E[0], as[1]))
           V == Changed(U, 0, Extend(U[0], as[2]))
           W == Changed(U, 0, Extend(U[0], as[3]))
           s1 == Rw \o ApplyActions(0, as[1]) \o Committed
           s2 == s1 \o DbIsModel(model)
           s3 == s2 \o Rw \o ApplyActions(0, as[2]) \o IsModel(Extend(model, as[2])) \o Drop
           s4 == s3 \o DbIsModel(model)
           s5 == s4 \o Rw \o ApplyActions(0, as[3]) \o Committed
           s6 == s5 \o DbIsModel(Extend(model, as[3]))
<1>3. s = s6
  BY <1>1, Zenon
<1>4. E \in Contents /\ E[0] = Model /\ 0 \in MapIds /\ "rw" \in Kinds
  BY EmptyHasModel
<1> HIDE DEF E, K
<1>5. /\ Goes(ApplyActions(0, as[1]), Open("rw", E, E, K), Open("rw", E, U, K))
      /\ U \in Contents /\ U[0] = model
  <2>1. model = Extend(E[0], as[1])
    BY <1>4 DEF FromActions
  <2> HIDE DEF U, model
  <2>2. U = Changed(E, 0, Extend(E[0], as[1]))
    BY DEF U
  <2>3. U[0] = Extend(E[0], as[1]) /\ U \in Contents
    BY <1>2, <1>4, <2>2, ActionsChange
  <2>4. Goes(ApplyActions(0, as[1]), Open("rw", E, E, K), Open("rw", E, U, K))
    BY <1>2, <1>4, <2>2, AppliesActions
  <2> QED
    BY <2>1, <2>3, <2>4
<1> HIDE DEF U, model
<1>6. /\ Goes(ApplyActions(0, as[2]), Open("rw", U, U, K), Open("rw", U, V, K))
      /\ V[0] = Extend(model, as[2])
  <2>1. V = Changed(U, 0, Extend(U[0], as[2]))
    OBVIOUS
  <2> HIDE DEF V
  <2>2. V[0] = Extend(U[0], as[2])
    BY <1>2, <1>4, <1>5, <2>1, ActionsChange
  <2>3. Goes(ApplyActions(0, as[2]), Open("rw", U, U, K), Open("rw", U, V, K))
    BY <1>2, <1>4, <1>5, <2>1, AppliesActions
  <2> QED
    BY <1>5, <2>2, <2>3
<1>7. /\ Goes(ApplyActions(0, as[3]), Open("rw", U, U, K), Open("rw", U, W, K))
      /\ W[0] = Extend(model, as[3])
  <2>1. W = Changed(U, 0, Extend(U[0], as[3]))
    OBVIOUS
  <2> HIDE DEF W
  <2>2. W[0] = Extend(U[0], as[3])
    BY <1>2, <1>4, <1>5, <2>1, ActionsChange
  <2>3. Goes(ApplyActions(0, as[3]), Open("rw", U, U, K), Open("rw", U, W, K))
    BY <1>2, <1>4, <1>5, <2>1, AppliesActions
  <2> QED
    BY <1>5, <2>2, <2>3
<1> HIDE DEF V, W
<1>8. Goes(s1, Idle(E, K), Idle(U, K))
  BY <1>5, FirstTransaction
<1> HIDE DEF s1
<1>9. Goes(s2, Idle(E, K), Idle(U, K))
  BY <1>5, <1>8, Dumps, Goings
<1> HIDE DEF s2
<1>10. Goes(s3, Idle(E, K), Idle(U, K))
  <2>1. Goes(IsModel(Extend(model, as[2])), Open("rw", U, V, K), Open("rw", U, V, K))
    BY <1>4, <1>6, Reads DEF IsModel
  <2> QED
    BY <1>6, <1>9, <2>1, NextTwo
<1> HIDE DEF s3
<1>11. Goes(s4, Idle(E, K), Idle(U, K))
  BY <1>5, <1>10, Dumps, Goings
<1> HIDE DEF s4
<1>12. Goes(s5, Idle(E, K), Idle(W, K))
  BY <1>7, <1>11, NextTransaction
<1> HIDE DEF s5
<1>13. Goes(s6, Idle(E, K), Idle(W, K))
  BY <1>7, <1>12, Dumps, Goings
<1> HIDE DEF s6
<1> QED
  BY <1>3, <1>13 DEF Plays, Start, E, K

LEMMA add_modify_abort_replay_commit_plays ==
  ASSUME NEW s \in add_modify_abort_replay_commit
  PROVE  Plays(s)
<1>1. PICK as \in actions \X actions :
        s = Rw \o ApplyActions(0, as[1]) \o Committed \o FromDb("initial")
            \o Rw \o ApplyActions(0, as[2]) \o FromTx("modified") \o Drop
            \o IsFromDb("initial")
            \o Rw \o ApplyActions(0, as[2]) \o Committed \o IsFromDb("modified")
  BY Zenon DEF add_modify_abort_replay_commit
<1>2. as[1] \in actions /\ as[2] \in actions
  OBVIOUS
<1> DEFINE E == EmptyContents
           U == Changed(E, 0, Extend(E[0], as[1]))
           V == Changed(U, 0, Extend(U[0], as[2]))
           K == NothingKept
           K1 == Keeping(K, "initial", U)
           K2 == Keeping(K1, "modified", V)
           s1 == Rw \o ApplyActions(0, as[1]) \o Committed
           s2 == s1 \o FromDb("initial")
           s3 == s2 \o Rw \o ApplyActions(0, as[2]) \o FromTx("modified") \o Drop
           s4 == s3 \o IsFromDb("initial")
           s5 == s4 \o Rw \o ApplyActions(0, as[2]) \o Committed
           s6 == s5 \o IsFromDb("modified")
<1>3. s = s6
  BY <1>1, Zenon
<1>4. E \in Contents /\ 0 \in MapIds /\ "rw" \in Kinds
  BY EmptyHasModel
<1>5. Iter(U[0], <<>>) = K2["initial"] /\ Iter(V[0], <<>>) = K2["modified"]
  BY DEF NothingKept, Keeping
<1> HIDE DEF E, K
<1>6. /\ Goes(ApplyActions(0, as[1]), Open("rw", E, E, K), Open("rw", E, U, K))
      /\ U \in Contents
  BY <1>2, <1>4, AppliesActions
<1> HIDE DEF U
<1>7. \A k : Goes(ApplyActions(0, as[2]), Open("rw", U, U, k), Open("rw", U, V, k))
  BY <1>2, <1>4, <1>6, AppliesActions
<1> HIDE DEF V
<1>8. Goes(s1, Idle(E, K), Idle(U, K))
  BY <1>6, FirstTransaction
<1> HIDE DEF s1
<1>9. Goes(s2, Idle(E, K), Idle(U, K1))
  BY <1>8, Dumps, Goings
<1> HIDE DEF s2, K1
<1>10. Goes(s3, Idle(E, K), Idle(U, K2))
  <2>1. Goes(FromTx("modified"), Open("rw", U, V, K1), Open("rw", U, V, K2))
    BY <1>4, Keeps
  <2> QED
    BY <1>7, <1>9, <2>1, NextTwo
<1> HIDE DEF s3, K2
<1>11. Goes(s4, Idle(E, K), Idle(U, K2))
  BY <1>5, <1>10, Dumps, Goings
<1> HIDE DEF s4
<1>12. Goes(s5, Idle(E, K), Idle(V, K2))
  BY <1>7, <1>11, NextTransaction
<1> HIDE DEF s5
<1>13. Goes(s6, Idle(E, K), Idle(V, K2))
  BY <1>5, <1>12, Dumps, Goings
<1> HIDE DEF s6
<1> QED
  BY <1>3, <1>13 DEF Plays, Start, E, K

LEMMA db_writes_do_not_interfere_plays ==
  ASSUME NEW s \in db_writes_do_not_interfere
  PROVE  Plays(s)
<1>1. PICK as \in actions \X actions :
        s = Rw \o ApplyActions(0, as[1]) \o Committed \o FromDb("initial")
            \o Rw \o ApplyActions(1, as[2]) \o Committed \o IsFromDb("initial")
  BY Zenon DEF db_writes_do_not_interfere
<1>2. as[1] \in actions /\ as[2] \in actions
  OBVIOUS
<1> DEFINE E == EmptyContents
           U == Changed(E, 0, Extend(E[0], as[1]))
           V == Changed(U, 1, Extend(U[1], as[2]))
           K == NothingKept
           K1 == Keeping(K, "initial", U)
           s1 == Rw \o ApplyActions(0, as[1]) \o Committed
           s2 == s1 \o FromDb("initial")
           s3 == s2 \o Rw \o ApplyActions(1, as[2]) \o Committed
           s4 == s3 \o IsFromDb("initial")
<1>3. s = s4
  BY <1>1, Zenon
<1>4. E \in Contents /\ 0 \in MapIds /\ 1 \in MapIds /\ 0 \in MapIds \ {1} /\ "rw" \in Kinds
  BY EmptyHasModel
<1>5. Iter(U[0], <<>>) = K1["initial"]
  BY DEF NothingKept, Keeping
<1> HIDE DEF E, K
<1>6. /\ Goes(ApplyActions(0, as[1]), Open("rw", E, E, K), Open("rw", E, U, K))
      /\ U \in Contents
  BY <1>2, <1>4, AppliesActions
<1> HIDE DEF U, K1
\* The writes to map 1 leave map 0 alone.
<1>7. /\ Goes(ApplyActions(1, as[2]), Open("rw", U, U, K1), Open("rw", U, V, K1))
      /\ V[0] = U[0]
  <2>1. V = Changed(U, 1, Extend(U[1], as[2]))
    OBVIOUS
  <2> HIDE DEF V
  <2> QED
    <3>1. V[0] = U[0]
      <4>1. \A n \in MapIds : n # 1 => V[n] = U[n]
        BY <1>2, <1>4, <1>6, <2>1, ActionsChange, ZenonT(30)
      <4> QED
        BY <1>4, <4>1
    <3>2. Goes(ApplyActions(1, as[2]), Open("rw", U, U, K1), Open("rw", U, V, K1))
      BY <1>2, <1>4, <1>6, <2>1, AppliesActions
    <3> QED
      BY <3>1, <3>2
<1> HIDE DEF V
<1>8. Goes(s1, Idle(E, K), Idle(U, K))
  BY <1>6, FirstTransaction
<1> HIDE DEF s1
<1>9. Goes(s2, Idle(E, K), Idle(U, K1))
  BY <1>8, Dumps, Goings DEF K1
<1> HIDE DEF s2
<1>10. Goes(s3, Idle(E, K), Idle(V, K1))
  BY <1>7, <1>9, NextTransaction
<1> HIDE DEF s3
<1>11. Goes(s4, Idle(E, K), Idle(V, K1))
  BY <1>5, <1>7, <1>10, Dumps, Goings
<1> HIDE DEF s4
<1> QED
  BY <1>3, <1>11 DEF Plays, Start, E, K

LEMMA post_commit_consistency_plays ==
  ASSUME NEW s \in post_commit_consistency
  PROVE  Plays(s)
<1>1. PICK acts \in actions :
        s = Rw \o ApplyActions(0, acts) \o FromTx("modified") \o Committed
            \o IsFromDb("modified")
  BY Zenon DEF post_commit_consistency
<1> DEFINE E == EmptyContents
           U == Changed(E, 0, Extend(E[0], acts))
           K == NothingKept
           K1 == Keeping(K, "modified", U)
           s1 == Rw \o ApplyActions(0, acts) \o FromTx("modified") \o Committed
           s2 == s1 \o IsFromDb("modified")
<1>2. s = s2
  BY <1>1, Zenon
<1>3. E \in Contents /\ 0 \in MapIds /\ "rw" \in Kinds
  BY EmptyHasModel
<1>4. Iter(U[0], <<>>) = K1["modified"]
  BY DEF NothingKept, Keeping
<1> HIDE DEF E, K
<1>5. Goes(ApplyActions(0, acts), Open("rw", E, E, K), Open("rw", E, U, K))
  BY <1>3, AppliesActions
<1> HIDE DEF U
<1>6. Goes(FromTx("modified"), Open("rw", E, U, K), Open("rw", E, U, K1))
  BY <1>3, Keeps
<1> HIDE DEF K1
<1>7. Goes(s1, Idle(E, K), Idle(U, K1))
  BY <1>5, <1>6, FirstTwo
<1> HIDE DEF s1
<1>8. Goes(s2, Idle(E, K), Idle(U, K1))
  BY <1>4, <1>7, Dumps, Goings
<1> HIDE DEF s2
<1> QED
  BY <1>2, <1>8 DEF Plays, Start, E, K

LEMMA empty_after_abort_plays ==
  ASSUME NEW s \in empty_after_abort
  PROVE  Plays(s)
<1> DEFINE test(acts, ks) ==
             Rw \o ApplyActions(0, acts)
             \o Each(ks, LAMBDA k : Get(0, k, {FromActions(acts)[k]})) \o Drop
             \o Ro \o Each(ks, LAMBDA k : Get(0, k, {None})) \o Drop
<1>1. PICK in \in actions \X SeqOf(RandomKeys, MaxActions) : s = test(in[1], in[2])
  BY Zenon DEF empty_after_abort
<1>2. PICK acts \in actions, ks \in SeqOf(RandomKeys, MaxActions) : s = test(acts, ks)
  BY <1>1, Zenon
<1> DEFINE E == EmptyContents
           U == Changed(E, 0, Extend(E[0], acts))
           K == NothingKept
           n == Len(ks)
           f == [i \in 1 .. n |-> Head(Get(0, ks[i], {FromActions(acts)[ks[i]]}))]
           g == [i \in 1 .. n |-> Head(Get(0, ks[i], {None}))]
           s1 == Rw \o ApplyActions(0, acts)
                 \o Each(ks, LAMBDA k : Get(0, k, {FromActions(acts)[k]})) \o Drop
           s2 == s1 \o Ro \o Each(ks, LAMBDA k : Get(0, k, {None})) \o Drop
<1>3. s = s2
  BY <1>2, Zenon
<1>4. E \in Contents /\ E[0] = Model /\ 0 \in MapIds /\ "ro" \in Kinds /\ "rw" \in Kinds
  BY EmptyHasModel
<1>5. n \in Nat /\ DOMAIN ks = 1 .. n /\ \A i \in 1 .. n : ks[i] \in Keys
  <2>1. PICK m \in 0 .. MaxActions : ks \in [1 .. m -> RandomKeys]
    BY <1>2 DEF SeqOf
  <2>2. m \in Nat
    BY SuiteDataAssumption
  <2>3. RandomKeys \subseteq Keys
    BY SuiteDataAssumption
  <2>4. n = m
    BY <2>1, <2>2
  <2> QED
    BY <2>1, <2>2, <2>3, <2>4
<1>6. /\ Each(ks, LAMBDA k : Get(0, k, {FromActions(acts)[k]})) = f
      /\ Each(ks, LAMBDA k : Get(0, k, {None})) = g
  BY <1>5 DEF Each
<1> HIDE DEF E, K
<1>7. /\ Goes(ApplyActions(0, acts), Open("rw", E, E, K), Open("rw", E, U, K))
      /\ U[0] = FromActions(acts)
  <2>1. FromActions(acts) = Extend(E[0], acts)
    BY <1>4 DEF FromActions
  <2>2. U = Changed(E, 0, Extend(E[0], acts))
    OBVIOUS
  <2> HIDE DEF U
  <2> QED
    BY <1>2, <1>4, <2>1, <2>2, AppliesActions, ActionsChange
<1> HIDE DEF U
<1>8. Goes(f, Open("rw", E, U, K), Open("rw", E, U, K))
  <2>1. ASSUME NEW i \in 1 .. n
        PROVE  \E m, k, among : f[i] = Head(Get(m, k, among)) /\ U[m][k] \in among
    <3>1. f[i] = Head(Get(0, ks[i], {FromActions(acts)[ks[i]]}))
      BY Zenon
    <3>2. U[0][ks[i]] \in {FromActions(acts)[ks[i]]}
      BY <1>7
    <3> QED
      BY <3>1, <3>2, Zenon
  <2>2. f = [i \in 1 .. n |-> f[i]]
    OBVIOUS
  <2> HIDE DEF f, n
  <2> QED
    BY <1>4, <1>5, <2>1, <2>2, Looks
<1>9. Goes(g, Open("ro", E, E, K), Open("ro", E, E, K))
  <2>1. ASSUME NEW i \in 1 .. n
        PROVE  \E m, k, among : g[i] = Head(Get(m, k, among)) /\ E[m][k] \in among
    <3>1. g[i] = Head(Get(0, ks[i], {None}))
      BY Zenon
    <3>2. E[0][ks[i]] \in {None}
      BY <1>4, <1>5 DEF Model
    <3> QED
      BY <3>1, <3>2, Zenon
  <2>2. g = [i \in 1 .. n |-> g[i]]
    OBVIOUS
  <2> HIDE DEF g, n
  <2> QED
    BY <1>4, <1>5, <2>1, <2>2, Looks
<1> HIDE DEF f, g, n
<1>10. Goes(s1, Idle(E, K), Idle(E, K))
  BY <1>6, <1>7, <1>8, FirstTwo
<1> HIDE DEF s1
<1>11. Goes(s2, Idle(E, K), Idle(E, K))
  BY <1>6, <1>9, <1>10, NextTransaction
<1> HIDE DEF s2
<1> QED
  BY <1>3, <1>11 DEF Plays, Start, E, K

\* Two maps that hold the same under the keys with a prefix each.
LEMMA IterSame ==
  ASSUME NEW M, NEW N, NEW p, NEW q, Matching(M, p) = Matching(N, q),
         \A k \in Matching(M, p) : M[k] = N[k]
  PROVE  Iter(M, p) = Iter(N, q)
<1> DEFINE f == Restrict(M, Matching(M, p))
           g == Restrict(N, Matching(N, q))
<1>1. f = g
  BY DEF Restrict
<1>2. Iter(M, p) = [i \in DOMAIN Sorted(DOMAIN f) |->
                      <<Sorted(DOMAIN f)[i], f[Sorted(DOMAIN f)[i]]>>]
  BY Zenon DEF Iter
<1>3. Iter(N, q) = [i \in DOMAIN Sorted(DOMAIN g) |->
                      <<Sorted(DOMAIN g)[i], g[Sorted(DOMAIN g)[i]]>>]
  BY Zenon DEF Iter
<1> HIDE DEF f, g
<1> QED
  BY <1>1, <1>2, <1>3

LEMMA NothingIn ==
  ASSUME NEW M, NEW p, \A k \in Keys : StartsWith(k, p) => M[k] = None
  PROVE  Iter(M, p) = Iter(Model, <<>>)
<1>1. Matching(M, p) = {} /\ Matching(Model, <<>>) = {}
  BY DEF Matching, Model
<1>2. PICK N, q : N = Model /\ q = <<>>
  OBVIOUS
<1>3. Matching(M, p) = Matching(N, q) /\ \A k \in Matching(M, p) : M[k] = N[k]
  BY <1>1, <1>2, Zenon
<1>4. Iter(M, p) = Iter(N, q)
  BY <1>3, IterSame
<1> QED
  BY <1>2, <1>4

\* Of two sequences of actions, those that are not on a key do not matter to it.
LEMMA ExtendFront ==
  ASSUME NEW a, NEW b, IsSequence(a), IsSequence(b), NEW k \in Keys,
         \A i \in 1 .. Len(b) : b[i][1] # k
  PROVE  Extend(Model, a \o b)[k] = Extend(Model, a)[k]
<1> DEFINE m == Len(a)
           n == Len(b)
           ab == a \o b
<1>1. /\ m \in Nat /\ n \in Nat /\ IsSequence(ab) /\ Len(ab) = m + n
      /\ \A i \in 1 .. m : ab[i] = a[i]
      /\ \A i \in m + 1 .. m + n : ab[i] = b[i - m]
  <2>1. PICK S, T : a \in Seq(S) /\ b \in Seq(T)
    BY DEF IsSequence
  <2>2. a \in Seq(S \cup T) /\ b \in Seq(S \cup T)
    BY <2>1
  <2> QED
    BY <2>2 DEF IsSequence
<1>2. Model \in [Keys -> OptVals]
  BY Maps
<1>3. \A i : LastAt(ab, k, m + n, i) <=> LastAt(a, k, m, i)
  <2>1. \A i \in m + 1 .. m + n : ab[i][1] # k
    <3>1. \A i \in m + 1 .. m + n : i - m \in 1 .. n
      BY <1>1
    <3> QED
      BY <1>1, <3>1
  <2> HIDE DEF ab, m, n
  <2> QED
    BY <1>1, <2>1 DEF LastAt
<1>4. /\ (\E i : LastAt(ab, k, m + n, i)) <=> (\E i : LastAt(a, k, m, i))
      /\ (CHOOSE i : LastAt(ab, k, m + n, i)) = (CHOOSE i : LastAt(a, k, m, i))
  BY <1>3, Zenon
<1>5. Extend(Model, ab) = Outcome(Model, ab, m + n) /\ Extend(Model, a) = Outcome(Model, a, m)
  <2> HIDE DEF ab
  <2>1. Extend(Model, ab) = Outcome(Model, ab, Len(ab))
    BY <1>1, <1>2, ExtendIs
  <2>2. Extend(Model, a) = Outcome(Model, a, Len(a))
    BY <1>2, ExtendIs
  <2> QED
    BY <1>1, <2>1, <2>2
<1> HIDE DEF ab, m, n
<1>6. Outcome(Model, ab, m + n)[k] = Outcome(Model, a, m)[k]
  <2>1. CASE \E i : LastAt(a, k, m, i)
    <3>1. PICK j : LastAt(a, k, m, j)
      BY <2>1
    <3>2. (CHOOSE i : LastAt(a, k, m, i)) = j /\ ab[j] = a[j]
      BY <1>1, <3>1, LastIsOne DEF LastAt
    <3> QED
      BY <1>4, <2>1, <3>2, Zenon DEF Outcome
  <2>2. CASE ~\E i : LastAt(a, k, m, i)
    BY <1>4, <2>2, Zenon DEF Outcome
  <2> QED
    BY <2>1, <2>2
<1> QED
  BY <1>5, <1>6 DEF ab

LEMMA ExtendBack ==
  ASSUME NEW a, NEW b, IsSequence(a), IsSequence(b), NEW k \in Keys,
         \A i \in 1 .. Len(a) : a[i][1] # k
  PROVE  Extend(Model, a \o b)[k] = Extend(Model, b)[k]
<1> DEFINE m == Len(a)
           n == Len(b)
           ab == a \o b
<1>1. /\ m \in Nat /\ n \in Nat /\ IsSequence(ab) /\ Len(ab) = m + n
      /\ \A i \in 1 .. m : ab[i] = a[i]
      /\ \A i \in 1 .. n : ab[m + i] = b[i]
      /\ \A i \in m + 1 .. m + n : ab[i] = b[i - m]
  <2>1. PICK S, T : a \in Seq(S) /\ b \in Seq(T)
    BY DEF IsSequence
  <2>2. a \in Seq(S \cup T) /\ b \in Seq(S \cup T)
    BY <2>1
  <2> QED
    BY <2>2 DEF IsSequence
<1>2. Model \in [Keys -> OptVals]
  BY Maps
<1>5. Extend(Model, ab) = Outcome(Model, ab, m + n) /\ Extend(Model, b) = Outcome(Model, b, n)
  <2> HIDE DEF ab
  <2>1. Extend(Model, ab) = Outcome(Model, ab, Len(ab))
    BY <1>1, <1>2, ExtendIs
  <2>2. Extend(Model, b) = Outcome(Model, b, Len(b))
    BY <1>2, ExtendIs
  <2> QED
    BY <1>1, <2>1, <2>2
<1>7. \A i \in 1 .. m : ab[i][1] # k
  BY <1>1
<1> HIDE DEF ab, m, n
<1>6. Outcome(Model, ab, m + n)[k] = Outcome(Model, b, n)[k]
  <2>1. CASE \E i : LastAt(b, k, n, i)
    <3>1. PICK j : LastAt(b, k, n, j)
      BY <2>1
    <3>2. j \in 1 .. n /\ m + j \in 1 .. m + n /\ ab[m + j] = b[j]
      BY <1>1, <3>1 DEF LastAt
    <3>3. LastAt(ab, k, m + n, m + j)
      <4>1. ASSUME NEW i \in m + j + 1 .. m + n
            PROVE  ab[i][1] # k
        <5>1. i \in m + 1 .. m + n /\ i - m \in j + 1 .. n
          BY <1>1, <3>2
        <5> QED
          BY <1>1, <3>1, <5>1 DEF LastAt
      <4>2. ab[m + j][1] = k
        BY <3>1, <3>2 DEF LastAt
      <4> QED
        BY <3>2, <4>1, <4>2 DEF LastAt
    <3>4. (CHOOSE i : LastAt(b, k, n, i)) = j /\ (CHOOSE i : LastAt(ab, k, m + n, i)) = m + j
      <4>1. n \in Nat /\ m + n \in Nat
        BY <1>1
      <4> QED
        BY <3>1, <3>3, <4>1, LastIsOne
    <3> QED
      BY <3>1, <3>2, <3>3, <3>4, Zenon DEF Outcome
  <2>2. CASE ~\E i : LastAt(b, k, n, i)
    <3>1. ASSUME NEW i, LastAt(ab, k, m + n, i)
          PROVE  FALSE
      <4>1. i \in m + 1 .. m + n /\ ab[i][1] = k /\ \A j \in i + 1 .. m + n : ab[j][1] # k
        BY <1>1, <1>7, <3>1 DEF LastAt
      <4>2. i - m \in 1 .. n /\ b[i - m][1] = k
        BY <1>1, <4>1
      <4>3. ASSUME NEW j \in i - m + 1 .. n
            PROVE  b[j][1] # k
        <5>1. j \in 1 .. n /\ m + j \in i + 1 .. m + n
          BY <1>1, <4>1
        <5> QED
          BY <1>1, <4>1, <5>1
      <4>4. LastAt(b, k, n, i - m)
        BY <4>2, <4>3 DEF LastAt
      <4> QED
        BY <2>2, <4>4
    <3> QED
      BY <2>2, <3>1, Zenon DEF Outcome
  <2> QED
    BY <2>1, <2>2
<1> QED
  BY <1>5, <1>6 DEF ab

\* Actions on keys of which the first byte is n.
Prefixed(acts, n) == [i \in DOMAIN acts |-> MapKey(acts[i], <<n>>)]

AllUnder(a, n) ==
  /\ AreActions(a)
  /\ \A i \in 1 .. Len(a) : \A m \in 0 .. 255 : StartsWith(a[i][1], <<m>>) <=> m = n

LEMMA PrefixedKeys ==
  ASSUME NEW acts \in actions, NEW n \in 0 .. 255
  PROVE  AllUnder(Prefixed(acts, n), n)
<1> DEFINE b == Prefixed(acts, n)
<1>1. PICK l \in 0 .. MaxActions : acts \in [1 .. l -> RandomActions]
  BY DEF actions, SeqOf
<1>2. l \in Nat
  BY SuiteDataAssumption
<1>3. \A a \in RandomActions : a[1] \in Data /\ a[2] \in OptVals
  BY SuiteDataAssumption DEF OptVals
<1>4. b = [i \in 1 .. l |-> << <<n>> \o acts[i][1], acts[i][2]>>]
  BY <1>1 DEF Prefixed, MapKey
<1> HIDE DEF b
<1>5. IsSequence(b) /\ Len(b) = l
  <2>1. b \in [1 .. l -> {b[i] : i \in 1 .. l}]
    BY <1>4
  <2>2. b \in Seq({b[i] : i \in 1 .. l}) /\ Len(b) = l
    BY <1>2, <2>1
  <2> QED
    BY <2>2, Zenon DEF IsSequence
<1>6. ASSUME NEW i \in 1 .. l
      PROVE  b[i][2] \in OptVals /\ \A m \in 0 .. 255 : StartsWith(b[i][1], <<m>>) <=> m = n
  <2>1. acts[i][1] \in Data /\ acts[i][2] \in OptVals
    BY <1>1, <1>3
  <2>2. b[i][1] = <<n>> \o acts[i][1] /\ b[i][2] = acts[i][2]
    BY <1>4
  <2>3. PICK k \in Seq(0 .. 255) : k = acts[i][1]
    BY <2>1 DEF Data, Bytes
  <2>4. Len(<<n>> \o k) \in Nat /\ Len(<<n>> \o k) >= 1 /\ (<<n>> \o k)[1] = n
    OBVIOUS
  <2>5. PICK x : x = <<n>> \o k
    OBVIOUS
  <2>6. \A m \in 0 .. 255 : StartsWith(x, <<m>>) <=> m = n
    BY <2>4, <2>5 DEF StartsWith
  <2> QED
    BY <2>1, <2>2, <2>3, <2>5, <2>6
<1> QED
  BY <1>5, <1>6 DEF AreActions, AllUnder, b

LEMMA EverythingStartsWithNothing ==
  ASSUME NEW k \in Keys
  PROVE  StartsWith(k, <<>>)
<1>1. Len(k) \in Nat
  BY SuiteDataAssumption DEF Data
<1> QED
  BY <1>1 DEF StartsWith

\* The part of a map under a prefix.
LEMMA PartUnder ==
  ASSUME NEW M, NEW N, NEW p,
         \A k \in Keys : StartsWith(k, p) => M[k] = N[k],
         \A k \in Keys : ~StartsWith(k, p) => N[k] = None
  PROVE  Iter(M, p) = Iter(N, <<>>)
<1>1. PICK q : q = <<>>
  OBVIOUS
<1>2. Matching(M, p) = Matching(N, q)
  <2>1. \A k \in Keys : StartsWith(k, q)
    BY <1>1, EverythingStartsWithNothing
  <2> QED
    BY <2>1 DEF Matching
<1>3. \A k \in Matching(M, p) : M[k] = N[k]
  BY DEF Matching
<1>4. Iter(M, p) = Iter(N, q)
  BY <1>2, <1>3, IterSame
<1> QED
  BY <1>1, <1>4

\* Actions on keys with two different prefixes, applied together.
Parts(c, a, b, m, n) ==
  /\ AreActions(c) /\ IsSequence(c)
  /\ Iter(Extend(Model, c), <<m>>) = Iter(FromActions(a), <<>>)
  /\ Iter(Extend(Model, c), <<n>>) = Iter(FromActions(b), <<>>)
  /\ \A l \in 0 .. 255 : l # m /\ l # n => Iter(Extend(Model, c), <<l>>) = Iter(Model, <<>>)

LEMMA PrefixedParts ==
  ASSUME NEW m \in 0 .. 255, NEW n \in 0 .. 255, m # n, NEW a, NEW b,
         AllUnder(a, m), AllUnder(b, n)
  PROVE  Parts(a \o b, a, b, m, n)
<1> DEFINE c == a \o b
           M == Extend(Model, c)
<1>1. IsSequence(a) /\ IsSequence(b) /\ AreActions(a) /\ AreActions(b)
  BY DEF AllUnder, AreActions
<1>8. /\ \A i \in 1 .. Len(a) : \A l \in 0 .. 255 : StartsWith(a[i][1], <<l>>) <=> l = m
      /\ \A i \in 1 .. Len(b) : \A l \in 0 .. 255 : StartsWith(b[i][1], <<l>>) <=> l = n
  BY DEF AllUnder
<1>2. AreActions(c) /\ IsSequence(c)
  <2>1. PICK S, T : a \in Seq(S) /\ b \in Seq(T)
    BY <1>1 DEF IsSequence
  <2>2. a \in Seq(S \cup T) /\ b \in Seq(S \cup T)
    BY <2>1
  <2>3. c \in Seq(S \cup T) /\ Len(c) = Len(a) + Len(b) /\ Len(a) \in Nat /\ Len(b) \in Nat
    BY <2>2
  <2>4. ASSUME NEW i \in 1 .. Len(c)
        PROVE  c[i][2] \in OptVals
    <3>1. CASE i \in 1 .. Len(a)
      <4>1. c[i] = a[i]
        BY <2>2, <3>1
      <4> QED
        BY <1>1, <3>1, <4>1 DEF AreActions
    <3>2. CASE i \notin 1 .. Len(a)
      <4>1. c[i] = b[i - Len(a)] /\ i - Len(a) \in 1 .. Len(b)
        BY <2>2, <2>3, <3>2
      <4> QED
        BY <1>1, <4>1 DEF AreActions
    <3> QED
      BY <3>1, <3>2
  <2> QED
    BY <2>3, <2>4 DEF AreActions, IsSequence
<1>3. Model \in [Keys -> OptVals] /\ \A k \in Keys : Model[k] = None
  BY Maps DEF Model
<1>4. ASSUME NEW k \in Keys
      PROVE  /\ StartsWith(k, <<m>>) => M[k] = Extend(Model, a)[k]
             /\ ~StartsWith(k, <<m>>) => Extend(Model, a)[k] = None
             /\ StartsWith(k, <<n>>) => M[k] = Extend(Model, b)[k]
             /\ ~StartsWith(k, <<n>>) => Extend(Model, b)[k] = None
  <2>1. ASSUME StartsWith(k, <<m>>)
        PROVE  M[k] = Extend(Model, a)[k]
    <3>1. \A i \in 1 .. Len(b) : b[i][1] # k
      BY <1>8, <2>1
    <3> QED
      BY <3>1, <1>1, ExtendFront
  <2>2. ASSUME StartsWith(k, <<n>>)
        PROVE  M[k] = Extend(Model, b)[k]
    <3>1. \A i \in 1 .. Len(a) : a[i][1] # k
      BY <1>8, <2>2
    <3> QED
      BY <1>1, <3>1, ExtendBack
  <2>3. ASSUME ~StartsWith(k, <<m>>)
        PROVE  Extend(Model, a)[k] = None
    <3>1. \A i \in 1 .. Len(a) : a[i][1] # k
      BY <1>8, <2>3
    <3> QED
      BY <1>1, <1>3, <3>1, ExtendAt
  <2>4. ASSUME ~StartsWith(k, <<n>>)
        PROVE  Extend(Model, b)[k] = None
    <3>1. \A i \in 1 .. Len(b) : b[i][1] # k
      BY <1>8, <2>4
    <3> QED
      BY <1>1, <1>3, <3>1, ExtendAt
  <2> QED
    BY <2>1, <2>2, <2>3, <2>4
<1> HIDE DEF M
<1>5. Iter(M, <<m>>) = Iter(FromActions(a), <<>>)
  BY <1>4, PartUnder DEF FromActions
<1>6. Iter(M, <<n>>) = Iter(FromActions(b), <<>>)
  BY <1>4, PartUnder DEF FromActions
<1>7. ASSUME NEW l \in 0 .. 255, l # m, l # n
      PROVE  Iter(M, <<l>>) = Iter(Model, <<>>)
  <2>1. ASSUME NEW k \in Keys, StartsWith(k, <<l>>)
        PROVE  M[k] = None
    <3>1. ~StartsWith(k, <<m>>)
      <4>1. k[1] = l /\ (StartsWith(k, <<m>>) => k[1] = m)
        BY <2>1 DEF StartsWith
      <4> QED
        BY <1>7, <4>1
    <3>2. \A i \in 1 .. Len(a) : a[i][1] # k
      BY <1>7, <1>8, <2>1
    <3>3. M[k] = Extend(Model, b)[k]
      BY <1>1, <3>2, ExtendBack DEF M
    <3>4. \A i \in 1 .. Len(b) : b[i][1] # k
      BY <1>7, <1>8, <2>1
    <3>5. Extend(Model, b)[k] = None
      BY <1>1, <1>3, <3>4, ExtendAt
    <3> QED
      BY <3>3, <3>5
  <2> QED
    BY <2>1, NothingIn
<1> QED
  BY <1>2, <1>5, <1>6, <1>7 DEF M, Parts

LEMMA prefix_iteration_plays ==
  ASSUME NEW s \in prefix_iteration
  PROVE  Plays(s)
<1> DEFINE Check(p, model) == Ro \o Iterate(p, Iter(model, <<>>)) \o Drop
           add_prefix(acts, pfx) == [i \in DOMAIN acts |-> MapKey(acts[i], pfx)]
           test(as) ==
             LET actions_a == add_prefix(as[1], Ka)
                 actions_b == add_prefix(as[2], Kb)
             IN  Rw \o ApplyActions(0, actions_a \o actions_b) \o Committed
                 \o Check(Ka, FromActions(actions_a)) \o Check(Kb, FromActions(actions_b))
                 \o Check(Kc, Model)
                 \o Rw \o DelAll(Ka) \o Committed \o Check(Ka, Model)
<1>1. PICK as \in actions \X actions : s = test(as)
  BY Zenon DEF prefix_iteration
<1>2. as[1] \in actions /\ as[2] \in actions
  OBVIOUS
<1> DEFINE a == add_prefix(as[1], Ka)
           b == add_prefix(as[2], Kb)
           E == EmptyContents
           K == NothingKept
           U == Changed(E, 0, Extend(E[0], a \o b))
           V == Cleared(U, Ka)
           s1 == Rw \o ApplyActions(0, a \o b) \o Committed
           s2 == s1 \o Check(Ka, FromActions(a))
           s3 == s2 \o Check(Kb, FromActions(b))
           s4 == s3 \o Check(Kc, Model)
           s5 == s4 \o Rw \o DelAll(Ka) \o Committed
           s6 == s5 \o Check(Ka, Model)
<1>3. s = s6
  BY <1>1, Zenon
<1>4. E \in Contents /\ E[0] = Model /\ 0 \in MapIds /\ "ro" \in Kinds /\ "rw" \in Kinds
  BY EmptyHasModel
<1>5. /\ AreActions(a \o b) /\ IsSequence(a \o b)
      /\ Iter(Extend(Model, a \o b), Ka) = Iter(FromActions(a), <<>>)
      /\ Iter(Extend(Model, a \o b), Kb) = Iter(FromActions(b), <<>>)
      /\ Iter(Extend(Model, a \o b), Kc) = Iter(Model, <<>>)
  <2>1. a = Prefixed(as[1], 97) /\ b = Prefixed(as[2], 98)
    BY DEF Prefixed, Ka, Kb
  <2> HIDE DEF a, b
  <2>2. AllUnder(a, 97) /\ AllUnder(b, 98)
    <3>1. 97 \in 0 .. 255 /\ 98 \in 0 .. 255
      OBVIOUS
    <3> QED
      BY <1>2, <2>1, <3>1, PrefixedKeys
  <2> QED
    <3>1. Parts(a \o b, a, b, 97, 98)
      <4>1. 97 \in 0 .. 255 /\ 98 \in 0 .. 255 /\ 97 # 98
        OBVIOUS
      <4> QED
        BY <2>2, <4>1, PrefixedParts
    <3>2. Iter(Extend(Model, a \o b), <<99>>) = Iter(Model, <<>>)
      BY <3>1, SMTT(30) DEF Parts
    <3> QED
      BY <3>1, <3>2 DEF Parts, Ka, Kb, Kc
<1> HIDE DEF E, K, a, b
<1>6. Goes(ApplyActions(0, a \o b), Open("rw", E, E, K), Open("rw", E, U, K))
  BY <1>4, <1>5, Applies
<1>7. U \in Contents /\ U[0] = Extend(Model, a \o b)
  <2>1. Extend(Model, a \o b) \in [Keys -> OptVals]
    BY <1>5, ExtendTypes, Maps
  <2> QED
    BY <1>4, <2>1, ChangedTypes
<1>8. Iter(V[0], Ka) = Iter(Model, <<>>)
  <2>1. \A k \in Keys : StartsWith(k, Ka) => V[0][k] = None
    BY <1>4, <1>7 DEF Cleared, Contents
  <2> HIDE DEF V
  <2> QED
    BY <2>1, NothingIn
<1> HIDE DEF U
<1>9. Goes(DelAll(Ka), Open("rw", U, U, K), Open("rw", U, V, K))
  BY Writes
<1> HIDE DEF V
<1>10. ASSUME NEW u, NEW W, NEW p, NEW model, Goes(u, Idle(E, K), Idle(W, K)),
              Iter(W[0], p) = Iter(model, <<>>)
       PROVE  Goes(u \o Check(p, model), Idle(E, K), Idle(W, K))
  <2>1. Goes(Iterate(p, Iter(model, <<>>)), Open("ro", W, W, K), Open("ro", W, W, K))
    BY <1>4, <1>10, Reads
  <2>2. Goes(Check(p, model), Idle(W, K), Idle(W, K))
    BY <2>1, FirstTransaction
  <2> HIDE DEF Check
  <2> QED
    BY <1>10, <2>2, Goings
<1> HIDE DEF Check
<1>11. Goes(s1, Idle(E, K), Idle(U, K))
  BY <1>6, FirstTransaction
<1> HIDE DEF s1
<1>12. Goes(s2, Idle(E, K), Idle(U, K))
  BY <1>5, <1>7, <1>10, <1>11
<1> HIDE DEF s2
<1>13. Goes(s3, Idle(E, K), Idle(U, K))
  BY <1>5, <1>7, <1>10, <1>12
<1> HIDE DEF s3
<1>14. Goes(s4, Idle(E, K), Idle(U, K))
  BY <1>5, <1>7, <1>10, <1>13
<1> HIDE DEF s4
<1>15. Goes(s5, Idle(E, K), Idle(V, K))
  BY <1>9, <1>14, NextTransaction
<1> HIDE DEF s5
<1>16. Goes(s6, Idle(E, K), Idle(V, K))
  BY <1>8, <1>10, <1>15
<1> HIDE DEF s6
<1> QED
  BY <1>3, <1>16 DEF Plays, Start, E, K

-----------------------------------------------------------------------------
(* Maps of which all entries are listed *)

LEMMA LastExists ==
  ASSUME NEW acts, NEW k, NEW n \in Nat, NEW i \in 1 .. n, acts[i][1] = k
  PROVE  \E j : LastAt(acts, k, n, j)
<1> DEFINE S == {m \in 0 .. n : n - m \in 1 .. n /\ acts[n - m][1] = k}
<1>1. S \in SUBSET Nat /\ n - i \in S
  BY DEF S
<1>2. PICK m \in S : \A l \in S : m <= l
  <2> HIDE DEF S
  <2> QED
    BY <1>1, LeastNumber
<1>3. ASSUME NEW j \in n - m + 1 .. n, acts[j][1] = k
      PROVE  FALSE
  <2>1. n - j \in S /\ n - j < m
    BY <1>2, <1>3
  <2> QED
    BY <1>2, <2>1
<1>4. LastAt(acts, k, n, n - m)
  BY <1>2, <1>3 DEF LastAt
<1> QED
  BY <1>4

Rising(es) ==
  /\ es \in Seq(Short \X Vals)
  /\ \A i, j \in 1 .. Len(es) : i < j => Code[es[i][1]] < Code[es[j][1]]

LEMMA RisingKeys ==
  ASSUME NEW es, Rising(es), NEW i \in 1 .. Len(es), NEW j \in 1 .. Len(es),
         es[i][1] = es[j][1]
  PROVE  i = j
<1>1. Len(es) \in Nat /\ \A l \in 1 .. Len(es) : es[l][1] \in Short
  BY DEF Rising
<1>2. \A k \in Short : Code[k] \in Int
  BY ShortIsDigital DEF Digital
<1>3. ~(Code[es[i][1]] < Code[es[j][1]]) /\ ~(Code[es[j][1]] < Code[es[i][1]])
  BY <1>1, <1>2
<1> QED
  BY <1>1, <1>3 DEF Rising

\* The entries put in another order.
LEMMA ListsExtend ==
  ASSUME NEW es, Rising(es), NEW acts, IsSequence(acts),
         \A i \in 1 .. Len(acts) : \E j \in 1 .. Len(es) : acts[i] = es[j],
         \A j \in 1 .. Len(es) : \E i \in 1 .. Len(acts) : acts[i] = es[j]
  PROVE  Lists(Extend(Model, acts), es)
<1> DEFINE n == Len(acts)
           M == Extend(Model, acts)
<1>1. n \in Nat /\ Model \in [Keys -> OptVals] /\ \A k \in Keys : Model[k] = None
  BY Maps DEF IsSequence, Model
<1>2. M = Outcome(Model, acts, n)
  BY <1>1, ExtendIs
<1>3. \A i \in 1 .. Len(es) : es[i][1] \in Keys
  BY DEF Rising, Short
<1> HIDE DEF n, M
<1>4. ASSUME NEW j \in 1 .. Len(es)
      PROVE  M[es[j][1]] = es[j][2]
  <2>1. PICK i \in 1 .. n : acts[i] = es[j]
    BY DEF n
  <2>2. PICK l : LastAt(acts, es[j][1], n, l)
    BY <1>1, <2>1, LastExists
  <2>3. l \in 1 .. n /\ acts[l][1] = es[j][1]
    BY <2>2 DEF LastAt
  <2>4. PICK o \in 1 .. Len(es) : acts[l] = es[o]
    BY <2>3 DEF n
  <2>5. o = j
    BY <2>3, <2>4, RisingKeys
  <2>6. (CHOOSE x : LastAt(acts, es[j][1], n, x)) = l
    BY <1>1, <2>2, LastIsOne
  <2>7. M[es[j][1]] = acts[l][2]
    BY <1>2, <1>3, <2>2, <2>6, Zenon DEF Outcome
  <2> QED
    BY <2>4, <2>5, <2>7
<1>5. ASSUME NEW k \in Keys, M[k] # None
      PROVE  \E j \in 1 .. Len(es) : k = es[j][1]
  <2>1. PICK l : LastAt(acts, k, n, l)
    BY <1>1, <1>2, <1>5, Zenon DEF Outcome
  <2>2. l \in 1 .. n /\ acts[l][1] = k
    BY <2>1 DEF LastAt
  <2> QED
    BY <2>2 DEF n
<1> QED
  BY <1>4, <1>5 DEF Lists, Rising, M

\* The entries without the j-th.
Without(es, j) == [i \in 1 .. Len(es) - 1 |-> IF i < j THEN es[i] ELSE es[i + 1]]

LEMMA ListsWithout ==
  ASSUME NEW M, NEW es, Lists(M, es), DOMAIN M = Keys, NEW j \in 1 .. Len(es)
  PROVE  Lists([M EXCEPT ![es[j][1]] = None], Without(es, j))
<1> DEFINE n == Len(es) - 1
           k == es[j][1]
           N == [M EXCEPT ![k] = None]
           fs == Without(es, j)
<1>1. n \in Nat /\ \A i \in 1 .. Len(es) : es[i] \in Short \X Vals
  BY DEF Lists
<1>2. fs = [i \in 1 .. n |-> IF i < j THEN es[i] ELSE es[i + 1]]
  BY DEF Without
<1>3. Rising(es)
  BY DEF Lists, Rising
<1> HIDE DEF n, fs
<1>4. fs \in Seq(Short \X Vals) /\ Len(fs) = n
  <2>1. \A i \in 1 .. n : fs[i] \in Short \X Vals
    BY <1>1, <1>2 DEF n
  <2>2. fs \in [1 .. n -> Short \X Vals]
    BY <1>2, <2>1
  <2> QED
    BY <1>1, <2>2
<1>5. \A i \in 1 .. n : \E l \in 1 .. Len(es) :
        fs[i] = es[l] /\ l # j /\ (i < j => l = i) /\ (~(i < j) => l = i + 1)
  BY <1>1, <1>2 DEF n
<1>6. \A l \in 1 .. Len(es) : l # j => \E i \in 1 .. n : fs[i] = es[l]
  <2>1. ASSUME NEW l \in 1 .. Len(es), l < j
        PROVE  l \in 1 .. n /\ fs[l] = es[l]
    BY <1>1, <1>2, <2>1 DEF n
  <2>2. ASSUME NEW l \in 1 .. Len(es), l > j
        PROVE  l - 1 \in 1 .. n /\ fs[l - 1] = es[l]
    <3>1. l - 1 \in 1 .. n /\ ~(l - 1 < j) /\ l - 1 + 1 = l
      BY <1>1, <2>2 DEF n
    <3> QED
      BY <1>2, <3>1
  <2> QED
    BY <1>1, <2>1, <2>2
<1>7. ASSUME NEW i \in 1 .. n
      PROVE  N[fs[i][1]] = fs[i][2]
  <2>1. PICK l \in 1 .. Len(es) : fs[i] = es[l] /\ l # j
    BY <1>5
  <2>2. es[l][1] # k
    BY <1>3, <2>1, RisingKeys
  <2>3. M[es[l][1]] = es[l][2]
    BY DEF Lists
  <2> QED
    BY <2>1, <2>2, <2>3
<1>8. ASSUME NEW i \in 1 .. n, NEW o \in 1 .. n, i < o
      PROVE  Code[fs[i][1]] < Code[fs[o][1]]
  <2>1. PICK l \in 1 .. Len(es) :
          fs[i] = es[l] /\ l # j /\ (i < j => l = i) /\ (~(i < j) => l = i + 1)
    BY <1>5
  <2>2. PICK m \in 1 .. Len(es) :
          fs[o] = es[m] /\ m # j /\ (o < j => m = o) /\ (~(o < j) => m = o + 1)
    BY <1>5
  <2>3. l < m
    BY <1>1, <1>8, <2>1, <2>2 DEF n
  <2> QED
    BY <2>1, <2>2, <2>3 DEF Lists
<1>9. ASSUME NEW x \in Keys, N[x] # None
      PROVE  \E i \in 1 .. n : x = fs[i][1]
  <2>1. x # k /\ M[x] # None
    BY <1>9
  <2>2. PICK l \in 1 .. Len(es) : x = es[l][1]
    BY <2>1 DEF Lists
  <2>3. l # j
    BY <2>1, <2>2
  <2> QED
    BY <1>6, <2>2, <2>3
<1> HIDE DEF N
<1> QED
  BY <1>4, <1>7, <1>8, <1>9 DEF Lists, N, fs

\* A short key by its bytes, with -1 for those it does not have.
Spelt(k, x, y, z) ==
  /\ k \in Short /\ Code[k] = Number(x, y, z)
  /\ StartsWith(k, <<>>)
  /\ \A p : StartsWith(k, <<p>>) <=> p = x
  /\ \A p, q \in 0 .. 255 : StartsWith(k, <<p, q>>) <=> p = x /\ q = y

LEMMA OneByte ==
  ASSUME NEW x \in 0 .. 255, NEW k \in Keys, k = <<x>>
  PROVE  Spelt(k, x, -1, -1)
<1>1. Len(k) = 1 /\ k[1] = x
  OBVIOUS
<1>2. k \in Short
  BY <1>1 DEF Short
<1>3. Code[k] = Number(x, -1, -1)
  <2>1. Digits(k) = [i \in 1 .. 3 |-> IF i \in 1 .. 1 THEN k[i] ELSE -1]
    BY <1>1 DEF Digits
  <2>2. Digits(k)[1] = x /\ Digits(k)[2] = -1 /\ Digits(k)[3] = -1
    BY <1>1, <2>1
  <2> QED
    BY <1>2, <2>2, Zenon DEF Code
<1>4. StartsWith(k, <<>>) /\ \A p : StartsWith(k, <<p>>) <=> p = x
  BY <1>1 DEF StartsWith
<1>5. \A p, q \in 0 .. 255 : StartsWith(k, <<p, q>>) <=> p = x /\ q = -1
  BY <1>1 DEF StartsWith
<1> QED
  BY <1>2, <1>3, <1>4, <1>5, Zenon DEF Spelt

LEMMA TwoBytes ==
  ASSUME NEW x \in 0 .. 255, NEW y \in 0 .. 255, NEW k \in Keys, k = <<x, y>>
  PROVE  Spelt(k, x, y, -1)
<1>1. Len(k) = 2 /\ k[1] = x /\ k[2] = y
  OBVIOUS
<1>2. k \in Short
  BY <1>1 DEF Short
<1>3. Code[k] = Number(x, y, -1)
  <2>1. Digits(k) = [i \in 1 .. 3 |-> IF i \in 1 .. 2 THEN k[i] ELSE -1]
    BY <1>1 DEF Digits
  <2>2. Digits(k)[1] = x /\ Digits(k)[2] = y /\ Digits(k)[3] = -1
    BY <1>1, <2>1
  <2> QED
    BY <1>2, <2>2, Zenon DEF Code
<1>4. StartsWith(k, <<>>) /\ \A p : StartsWith(k, <<p>>) <=> p = x
  BY <1>1 DEF StartsWith
<1>5. \A p, q \in 0 .. 255 : StartsWith(k, <<p, q>>) <=> p = x /\ q = y
  BY <1>1 DEF StartsWith
<1> QED
  BY <1>2, <1>3, <1>4, <1>5, Zenon DEF Spelt

LEMMA ThreeBytes ==
  ASSUME NEW x \in 0 .. 255, NEW y \in 0 .. 255, NEW z \in 0 .. 255, NEW k \in Keys, k = <<x, y, z>>
  PROVE  Spelt(k, x, y, z)
<1>1. Len(k) = 3 /\ k[1] = x /\ k[2] = y /\ k[3] = z
  OBVIOUS
<1>2. k \in Short
  BY <1>1 DEF Short
<1>3. Code[k] = Number(x, y, z)
  <2>1. Digits(k) = [i \in 1 .. 3 |-> IF i \in 1 .. 3 THEN k[i] ELSE -1]
    BY <1>1 DEF Digits
  <2>2. Digits(k)[1] = x /\ Digits(k)[2] = y /\ Digits(k)[3] = z
    BY <1>1, <2>1
  <2> QED
    BY <1>2, <2>2, Zenon DEF Code
<1>4. StartsWith(k, <<>>) /\ \A p : StartsWith(k, <<p>>) <=> p = x
  BY <1>1 DEF StartsWith
<1>5. \A p, q \in 0 .. 255 : StartsWith(k, <<p, q>>) <=> p = x /\ q = y
  BY <1>1 DEF StartsWith
<1> QED
  BY <1>2, <1>3, <1>4, <1>5, Zenon DEF Spelt

LEMMA ConcatenationIs ==
  ASSUME NEW s \in Seq(Nat), NEW t \in Seq(Nat), NEW u \in Seq(Nat),
         Len(u) = Len(s) + Len(t),
         \A i \in 1 .. Len(s) : u[i] = s[i],
         \A i \in 1 .. Len(t) : u[Len(s) + i] = t[i]
  PROVE  s \o t = u
<1>1. PICK v : v = s \o t
  OBVIOUS
<1>2. /\ v \in Seq(Nat) /\ Len(v) = Len(u)
      /\ \A i \in 1 .. Len(u) : v[i] = IF i <= Len(s) THEN s[i] ELSE t[i - Len(s)]
  BY <1>1, ConcatProperties
<1>3. ASSUME NEW i \in 1 .. Len(u)
      PROVE  v[i] = u[i]
  <2>1. CASE i <= Len(s)
    <3>1. i \in 1 .. Len(s) /\ v[i] = s[i]
      BY <1>2, <2>1
    <3> QED
      BY <3>1
  <2>2. CASE ~(i <= Len(s))
    <3>1. i - Len(s) \in 1 .. Len(t) /\ i = Len(s) + (i - Len(s))
      BY <2>2
    <3> QED
      BY <1>2, <2>2, <3>1
  <2> QED
    BY <2>1, <2>2
<1> QED
  BY <1>1, <1>2, <1>3, SeqEqual

LEMMA Concatenated ==
  ASSUME NEW x \in 0 .. 255, NEW y \in 0 .. 255, NEW z \in 0 .. 255
  PROVE  <<x>> \o <<y>> = <<x, y>> /\ <<x>> \o <<y>> \o <<z>> = <<x, y, z>>
<1>1. PICK a : a = <<x>>
  OBVIOUS
<1>2. PICK b : b = <<y>>
  OBVIOUS
<1>3. PICK c : c = <<z>>
  OBVIOUS
<1>4. PICK ab : ab = <<x, y>>
  OBVIOUS
<1>5. PICK abc : abc = <<x, y, z>>
  OBVIOUS
<1>6. /\ a \in Seq(Nat) /\ Len(a) = 1 /\ a[1] = x
      /\ b \in Seq(Nat) /\ Len(b) = 1 /\ b[1] = y
      /\ c \in Seq(Nat) /\ Len(c) = 1 /\ c[1] = z
  BY <1>1, <1>2, <1>3
<1>7. ab \in Seq(Nat) /\ Len(ab) = 2 /\ ab[1] = x /\ ab[2] = y
  BY <1>4
<1>8. abc \in Seq(Nat) /\ Len(abc) = 3 /\ abc[1] = x /\ abc[2] = y /\ abc[3] = z
  BY <1>5
<1>9. a \o b = ab
  <2>1. /\ Len(ab) = Len(a) + Len(b) /\ \A i \in 1 .. Len(a) : ab[i] = a[i]
        /\ \A i \in 1 .. Len(b) : ab[Len(a) + i] = b[i]
    BY <1>6, <1>7
  <2> QED
    BY <1>6, <1>7, <2>1, ConcatenationIs
<1>10. ab \o c = abc
  <2>1. /\ Len(abc) = Len(ab) + Len(c) /\ \A i \in 1 .. Len(ab) : abc[i] = ab[i]
        /\ \A i \in 1 .. Len(c) : abc[Len(ab) + i] = c[i]
    BY <1>6, <1>7, <1>8
  <2> QED
    BY <1>6, <1>7, <1>8, <2>1, ConcatenationIs
<1> QED
  BY <1>1, <1>2, <1>3, <1>4, <1>5, <1>9, <1>10, Zenon

-----------------------------------------------------------------------------
(* The tests of basic.rs *)

LEMMA FirstPut ==
  ASSUME NEW S, NEW K, NEW m, NEW k, NEW v
  PROVE  /\ Goes(Rw \o Put(m, k, v) \o Committed, Idle(S, K), Idle(Written(S, m, k, v), K))
         /\ Goes(Rw \o Put(m, k, v) \o Drop, Idle(S, K), Idle(S, K))
BY Writes, FirstTransaction

LEMMA FixedKeys ==
  /\ Hello \in Keys /\ Ka \in Keys /\ Kb \in Keys /\ Ka # Kb /\ TEST_KEY \in Keys
  /\ 0 \in OptVals /\ 1 \in OptVals /\ 2 \in OptVals /\ 10 \in OptVals /\ 11 \in OptVals
<1>1. Hello \in Keys /\ Ka \in Keys /\ Kb \in Keys /\ TEST_KEY \in Keys
  BY FixedKeysAssumption, Zenon DEF TEST_KEY
<1>2. Ka # Kb
  <2>1. Ka[1] = 97 /\ Kb[1] = 98
    BY DEF Ka, Kb
  <2> QED
    BY <2>1
<1>3. /\ 0 \in OptVals /\ 1 \in OptVals /\ 2 \in OptVals /\ 10 \in OptVals
      /\ 11 \in OptVals
  BY SuiteDataAssumption DEF OptVals
<1> QED
  BY <1>1, <1>2, <1>3

LEMMA put_and_commit_plays == Plays(put_and_commit)
<1> DEFINE E == EmptyContents
           K == NothingKept
           V == Written(E, 0, Hello, 1)
           s1 == Rw \o Put(0, Hello, 1) \o Committed
           s2 == s1 \o Ro \o Get(0, Hello, {1}) \o Drop
<1>1. V[0][Hello] \in {1}
  BY FixedKeys, Maps, WrittenHere
<1>2. put_and_commit = s2
  BY Zenon DEF put_and_commit
<1> HIDE DEF E, K, V
<1>3. Goes(s1, Idle(E, K), Idle(V, K))
  BY FirstPut DEF V
<1> HIDE DEF s1
<1>4. Goes(s2, Idle(E, K), Idle(V, K))
  BY <1>1, <1>3, NextGet
<1> HIDE DEF s2
<1> QED
  BY <1>2, <1>4 DEF Plays, Start, E, K

LEMMA put_and_abort_plays == Plays(put_and_abort)
<1> DEFINE E == EmptyContents
           K == NothingKept
           s1 == Rw \o Put(0, Hello, 1) \o Drop
           s2 == s1 \o Ro \o Get(0, Hello, {None}) \o Drop
<1>1. E[0][Hello] \in {None}
  BY FixedKeys, Maps DEF EmptyContents
<1>2. put_and_abort = s2
  BY Zenon DEF put_and_abort
<1> HIDE DEF E, K
<1>3. Goes(s1, Idle(E, K), Idle(E, K))
  BY FirstPut
<1> HIDE DEF s1
<1>4. Goes(s2, Idle(E, K), Idle(E, K))
  BY <1>1, <1>3, NextGet
<1> HIDE DEF s2
<1> QED
  BY <1>2, <1>4 DEF Plays, Start, E, K

LEMMA put_two_under_different_keys_plays == Plays(put_two_under_different_keys)
<1> DEFINE E == EmptyContents
           K == NothingKept
           V == Written(E, 0, Ka, 0)
           W == Written(V, 0, Kb, 1)
           Two == Ro \o Get(0, Ka, {0}) \o Get(0, Kb, {1}) \o Drop
           s1 == Rw \o Put(0, Ka, 0) \o Put(0, Kb, 1) \o Committed
           s2 == s1 \o Two
           s3 == s2 \o Rw \o Put(0, Ka, 10) \o Put(0, Kb, 11) \o Drop
           s4 == s3 \o Two
<1>1. W[0][Ka] \in {0} /\ W[0][Kb] \in {1}
  <2>1. E \in Contents
    BY Maps
  <2> HIDE DEF E
  <2>2. V \in Contents /\ V[0][Ka] = 0
    BY <2>1, FixedKeys, WrittenHere
  <2> HIDE DEF V
  <2>3. W[0][Kb] = 1
    BY <2>2, FixedKeys, WrittenHere
  <2>4. W[0][Ka] = V[0][Ka]
    BY <2>2, FixedKeys, Maps DEF Written, Contents
  <2> QED
    BY <2>2, <2>3, <2>4
<1>2. put_two_under_different_keys = s4
  BY Zenon DEF put_two_under_different_keys
<1> HIDE DEF E, K
<1>3. Goes(s1, Idle(E, K), Idle(W, K))
  <2>1. Goes(Put(0, Ka, 0), Open("rw", E, E, K), Open("rw", E, V, K))
    BY Writes
  <2>2. Goes(Put(0, Kb, 1), Open("rw", E, V, K), Open("rw", E, W, K))
    BY Writes
  <2> QED
    BY <2>1, <2>2, FirstTwo
<1> HIDE DEF V, W, s1
<1>4. Goes(Two, Idle(W, K), Idle(W, K))
  <2>1. "ro" \in Kinds
    BY DEF Kinds
  <2>2. /\ Goes(Get(0, Ka, {0}), Open("ro", W, W, K), Open("ro", W, W, K))
        /\ Goes(Get(0, Kb, {1}), Open("ro", W, W, K), Open("ro", W, W, K))
    BY <1>1, <2>1, Reads
  <2>3. Goes(Ro \o Get(0, Ka, {0}), Idle(W, K), Open("ro", W, W, K))
    BY <2>2, Begins, Goings
  <2>4. Goes(Ro \o Get(0, Ka, {0}) \o Get(0, Kb, {1}), Idle(W, K), Open("ro", W, W, K))
    BY <2>2, <2>3, Goings
  <2> QED
    BY <2>4, Ends, Goings
<1> HIDE DEF Two
<1>5. Goes(s2, Idle(E, K), Idle(W, K))
  BY <1>3, <1>4, Goings
<1> HIDE DEF s2
<1>6. Goes(s3, Idle(E, K), Idle(W, K))
  <2> DEFINE X == Written(W, 0, Ka, 10)
             Y == Written(X, 0, Kb, 11)
  <2>1. Goes(Put(0, Ka, 10), Open("rw", W, W, K), Open("rw", W, X, K))
    BY Writes
  <2>2. Goes(Put(0, Kb, 11), Open("rw", W, X, K), Open("rw", W, Y, K))
    BY Writes
  <2> HIDE DEF X, Y
  <2> QED
    BY <1>5, <2>1, <2>2, NextTwo
<1> HIDE DEF s3
<1>7. Goes(s4, Idle(E, K), Idle(W, K))
  BY <1>4, <1>6, Goings
<1> HIDE DEF s4
<1> QED
  BY <1>2, <1>7 DEF Plays, Start, E, K

LEMMA put_twice_then_commit_read_last_plays == Plays(put_twice_then_commit_read_last)
<1> DEFINE E == EmptyContents
           K == NothingKept
           V == Written(E, 0, Hello, 1)
           W == Written(V, 0, Hello, 2)
           a == Put(0, Hello, 1) \o Get(0, Hello, {1})
           b == Put(0, Hello, 2) \o Get(0, Hello, {2})
           s1 == Rw \o a \o b \o Committed
           s2 == s1 \o Ro \o Get(0, Hello, {2}) \o Drop
<1>1. V[0][Hello] \in {1} /\ W[0][Hello] \in {2}
  <2>1. E \in Contents
    BY Maps
  <2> HIDE DEF E
  <2>2. V \in Contents /\ V[0][Hello] = 1
    BY <2>1, FixedKeys, WrittenHere
  <2> HIDE DEF V
  <2>3. W[0][Hello] = 2
    BY <2>2, FixedKeys, WrittenHere
  <2> QED
    BY <2>2, <2>3
<1>2. put_twice_then_commit_read_last = s2
  BY DEF put_twice_then_commit_read_last, Put, Get, Ro, Rw, Committed, Drop
<1>0. "rw" \in Kinds
  BY DEF Kinds
<1> HIDE DEF E, K
<1>3. Goes(a, Open("rw", E, E, K), Open("rw", E, V, K))
  <2>1. Goes(Put(0, Hello, 1), Open("rw", E, E, K), Open("rw", E, V, K))
    BY Writes
  <2> HIDE DEF V
  <2>2. Goes(Get(0, Hello, {1}), Open("rw", E, V, K), Open("rw", E, V, K))
    BY <1>0, <1>1, Reads
  <2> QED
    BY <2>1, <2>2, Goings
<1> HIDE DEF a, V
<1>4. Goes(b, Open("rw", E, V, K), Open("rw", E, W, K))
  <2>1. Goes(Put(0, Hello, 2), Open("rw", E, V, K), Open("rw", E, W, K))
    BY Writes
  <2> HIDE DEF W
  <2>2. Goes(Get(0, Hello, {2}), Open("rw", E, W, K), Open("rw", E, W, K))
    BY <1>0, <1>1, Reads
  <2> QED
    BY <2>1, <2>2, Goings
<1> HIDE DEF b, W
<1>5. Goes(s1, Idle(E, K), Idle(W, K))
  BY <1>3, <1>4, FirstTwo
<1> HIDE DEF s1
<1>6. Goes(s2, Idle(E, K), Idle(W, K))
  BY <1>1, <1>5, NextGet
<1> HIDE DEF s2
<1> QED
  BY <1>2, <1>6 DEF Plays, Start, E, K

LEMMA put_iterator_count_matches_plays == Plays(put_iterator_count_matches)
<1> DEFINE E == EmptyContents
           K == NothingKept
           es == [i \in 1 .. 4 |-> <<<<i - 1>>, 0>>]
           V == Changed(E, 0, Extend(E[0], es))
           b == ApplyActions(0, es)
           s1 == Rw \o b \o Committed
           s2 == s1 \o Ro \o Count(4) \o Drop
<1>1. put_iterator_count_matches = s2
  <2> DEFINE q == <<0, 1, 2, 3>>
             c == Each(q, LAMBDA n : Put(0, <<n>>, 0))
  <2>1. DOMAIN q = 1 .. 4 /\ \A i \in 1 .. 4 : q[i] = i - 1
    OBVIOUS
  <2> HIDE DEF q
  <2>2. c = [i \in 1 .. 4 |-> Head(Put(0, <<q[i]>>, 0))]
    BY <2>1, Zenon DEF Each
  <2>3. b = [i \in 1 .. 4 |-> Head(Put(0, es[i][1], es[i][2]))]
    <3>1. DOMAIN es = 1 .. 4
      OBVIOUS
    <3> HIDE DEF es
    <3> QED
      BY <3>1, Zenon DEF ApplyActions, Each
  <2>4. \A i \in 1 .. 4 : es[i][1] = <<q[i]>> /\ es[i][2] = 0
    BY <2>1
  <2> HIDE DEF es
  <2>5. c = b
    BY <2>2, <2>3, <2>4
  <2>6. put_iterator_count_matches = Rw \o c \o Committed \o Ro \o Count(4) \o Drop
    BY Zenon DEF put_iterator_count_matches, q
  <2> HIDE DEF b, c
  <2> QED
    BY <2>5, <2>6
<1>2. es \in Seq({<<<<i - 1>>, 0>> : i \in 1 .. 4}) /\ Len(es) = 4 /\ es = [i \in 1 .. 4 |-> es[i]]
  OBVIOUS
<1>3. \A i \in 1 .. 4 : es[i] = <<<<i - 1>>, 0>>
  OBVIOUS
<1> HIDE DEF es
<1>4. ASSUME NEW i \in 1 .. 4
      PROVE  /\ es[i][1] \in Short /\ es[i][2] \in Vals
             /\ Code[es[i][1]] = Number(i - 1, -1, -1) /\ StartsWith(es[i][1], <<>>)
             /\ es[i] = <<es[i][1], es[i][2]>>
  <2>1. PICK n \in 0 .. 3 : n = i - 1
    OBVIOUS
  <2>2. <<n>> \in Keys /\ 0 \in Vals /\ n \in 0 .. 255
    BY FixedKeysAssumption, SuiteDataAssumption
  <2>3. /\ <<n>> \in Short /\ Code[<<n>>] = Number(n, -1, -1)
        /\ StartsWith(<<n>>, <<>>)
    BY <2>2, OneByte, Zenon DEF Spelt
  <2>4. es[i][1] = <<n>> /\ es[i][2] = 0 /\ es[i] = <<<<n>>, 0>>
    BY <1>3, <2>1
  <2> QED
    BY <2>1, <2>2, <2>3, <2>4
<1>5. Rising(es)
  <2>1. es \in Seq(Short \X Vals)
    <3>1. ASSUME NEW i \in 1 .. 4
          PROVE  es[i] \in Short \X Vals
      <4>1. PICK k \in Short, v \in Vals : es[i] = <<k, v>>
        BY <1>4, Zenon
      <4> QED
        BY <4>1
    <3>2. PICK T : T = Short \X Vals
      OBVIOUS
    <3>3. \A i \in 1 .. 4 : es[i] \in T
      BY <3>1, <3>2, Zenon
    <3>4. es \in [1 .. 4 -> T]
      BY <1>2, <3>3
    <3>5. es \in Seq(T)
      <4>1. PICK n \in Nat : n = 4
        OBVIOUS
      <4>2. es \in [1 .. n -> T]
        BY <3>4, <4>1
      <4> QED
        BY <4>2
    <3> QED
      BY <3>2, <3>5
  <2>2. ASSUME NEW i \in 1 .. 4, NEW j \in 1 .. 4, i < j
        PROVE  Code[es[i][1]] < Code[es[j][1]]
    BY <1>4, <2>2 DEF Number
  <2> QED
    BY <1>2, <2>1, <2>2 DEF Rising
<1>6. IsSequence(es)
  BY <1>2 DEF IsSequence
<1>7. Lists(Extend(Model, es), es)
  BY <1>5, <1>6, ListsExtend
<1>8. Len(Iter(V[0], <<>>)) = 4
  <2>1. V[0] = Extend(Model, es)
    <3>1. E[0] = Model
      BY Maps
    <3>2. DOMAIN E = MapIds
      BY DEF EmptyContents
    <3> QED
      BY <3>1, <3>2, Maps DEF Changed
  <2>2. Iter(V[0], <<>>) = SubSeq(es, 1, 4)
    <3>1. PICK M : M = V[0]
      OBVIOUS
    <3>2. PICK p : p = <<>>
      OBVIOUS
    <3>3. PICK lo \in 1 .. Len(es) + 1, hi \in 0 .. Len(es) : lo = 1 /\ hi = 4
      BY <1>2
    <3>4. \A i \in 1 .. Len(es) : StartsWith(es[i][1], p) <=> lo <= i /\ i <= hi
      BY <1>2, <1>4, <3>2, <3>3
    <3>5. Lists(M, es) /\ hi \in lo - 1 .. Len(es)
      BY <1>7, <2>1, <3>1, <3>3
    <3>6. Iter(M, p) = SubSeq(es, lo, hi)
      BY <3>4, <3>5, IterIs
    <3> QED
      BY <3>1, <3>2, <3>3, <3>6
  <2> QED
    BY <1>2, <2>2
<1>9. E \in Contents /\ 0 \in MapIds
  BY Maps
<1> HIDE DEF E, K
<1>10. Goes(b, Open("rw", E, E, K), Open("rw", E, V, K))
  BY <1>6, <1>9, Applies
<1> HIDE DEF b, V
<1>11. Goes(s1, Idle(E, K), Idle(V, K))
  BY <1>10, FirstTransaction
<1> HIDE DEF s1
<1>12. Goes(Count(4), Open("ro", V, V, K), Open("ro", V, V, K))
  <2>1. "ro" \in Kinds
    BY DEF Kinds
  <2> QED
    BY <1>8, <2>1, Reads
<1>13. Goes(s2, Idle(E, K), Idle(V, K))
  BY <1>11, <1>12, NextTransaction
<1> HIDE DEF s2
<1> QED
  BY <1>1, <1>13 DEF Plays, Start, E, K

LEMMA RisingIs ==
  ASSUME NEW n \in Nat, NEW es, es = [i \in 1 .. n |-> es[i]],
         \A i \in 1 .. n : es[i] \in Short \X Vals,
         \A i, j \in 1 .. n : i < j => Code[es[i][1]] < Code[es[j][1]]
  PROVE  Rising(es) /\ Len(es) = n /\ IsSequence(es)
<1>1. PICK T : T = Short \X Vals
  OBVIOUS
<1>2. es \in Seq(T) /\ Len(es) = n
  BY <1>1
<1> QED
  BY <1>1, <1>2 DEF Rising, IsSequence

LEMMA SpeltKeys ==
  /\ Spelt(Ka \o Ka, 97, 97, -1) /\ Spelt(Ka \o Kb, 97, 98, -1)
  /\ Spelt(Ka \o Kc, 97, 99, -1) /\ Spelt(Ka \o Kc \o Ka, 97, 99, 97)
  /\ Spelt(Ka \o Kc \o Kb, 97, 99, 98) /\ Spelt(Kb, 98, -1, -1)
  /\ Spelt(Kb \o Kb, 98, 98, -1) /\ Spelt(Kb \o Kf, 98, 102, -1)
  /\ Spelt(Kb \o Kz, 98, 122, -1) /\ Spelt(Kx, 120, -1, -1)
<1>1. PICK a \in 0 .. 255, b \in 0 .. 255, c \in 0 .. 255, f \in 0 .. 255,
           x \in 0 .. 255, z \in 0 .. 255 :
        a = 97 /\ b = 98 /\ c = 99 /\ f = 102 /\ x = 120 /\ z = 122
  OBVIOUS
<1>2. Ka = <<a>> /\ Kb = <<b>> /\ Kc = <<c>> /\ Kf = <<f>> /\ Kx = <<x>> /\ Kz = <<z>>
  BY <1>1 DEF Ka, Kb, Kc, Kf, Kx, Kz
<1>3. /\ Ka \o Ka = <<a, a>> /\ Ka \o Kb = <<a, b>> /\ Ka \o Kc = <<a, c>>
      /\ Kb \o Kb = <<b, b>> /\ Kb \o Kf = <<b, f>> /\ Kb \o Kz = <<b, z>>
      /\ Ka \o Kc \o Ka = <<a, c, a>> /\ Ka \o Kc \o Kb = <<a, c, b>>
  <2>1. \A y \in 0 .. 255, w \in 0 .. 255 : <<y>> \o <<w>> = <<y, w>>
    BY Concatenated, Zenon
  <2>2. <<a>> \o <<c>> \o <<a>> = <<a, c, a>>
    BY Concatenated, ZenonT(40)
  <2>3. <<a>> \o <<c>> \o <<b>> = <<a, c, b>>
    BY Concatenated, ZenonT(40)
  <2> QED
    BY <1>2, <2>1, <2>2, <2>3, Zenon
<1>4. /\ Ka \o Ka \in Keys /\ Ka \o Kb \in Keys /\ Ka \o Kc \in Keys
      /\ Kb \o Kb \in Keys /\ Kb \o Kf \in Keys /\ Kb \o Kz \in Keys
      /\ Ka \o Kc \o Ka \in Keys /\ Ka \o Kc \o Kb \in Keys
      /\ Kb \in Keys /\ Kx \in Keys
  BY FixedKeysAssumption, Zenon
<1>5. /\ Spelt(Ka \o Ka, a, a, -1) /\ Spelt(Ka \o Kb, a, b, -1)
      /\ Spelt(Ka \o Kc, a, c, -1)
  BY <1>3, <1>4, OneByte, TwoBytes, ThreeBytes, Zenon
<1>6. Spelt(Ka \o Kc \o Ka, a, c, a) /\ Spelt(Ka \o Kc \o Kb, a, c, b)
  BY <1>3, <1>4, OneByte, TwoBytes, ThreeBytes, Zenon
<1>7. Spelt(Kb \o Kb, b, b, -1) /\ Spelt(Kb \o Kf, b, f, -1) /\ Spelt(Kb \o Kz, b, z, -1)
  BY <1>3, <1>4, OneByte, TwoBytes, ThreeBytes, Zenon
<1>8. Spelt(Kb, b, -1, -1) /\ Spelt(Kx, x, -1, -1)
  BY <1>2, <1>4, OneByte, TwoBytes, ThreeBytes, Zenon
<1> QED
  BY <1>1, <1>5, <1>6, <1>7, <1>8

\* A prefix picks the entries from lo to hi, of which the values are the numbers.
LEMMA NumbersOf ==
  ASSUME NEW M, NEW es, Lists(M, es), \A i \in 1 .. Len(es) : es[i][2] = i - 1,
         NEW p, NEW lo \in 0 .. Len(es), NEW hi \in lo - 1 .. Len(es) - 1,
         \A i \in 1 .. Len(es) : StartsWith(es[i][1], p) <=> lo <= i - 1 /\ i - 1 <= hi
  PROVE  [i \in DOMAIN Iter(M, p) |-> Iter(M, p)[i][2]]
           = [i \in 1 .. hi - lo + 1 |-> lo + i - 1]
<1>1. PICK n \in Nat : n = Len(es)
  BY DEF Lists
<1>2. PICK a \in 1 .. n + 1, b \in 0 .. n : a = lo + 1 /\ b = hi + 1
  BY <1>1
<1>3. b \in a - 1 .. n
  BY <1>1, <1>2
<1>4. \A i \in 1 .. n : StartsWith(es[i][1], p) <=> a <= i /\ i <= b
  BY <1>1, <1>2
<1>5. Iter(M, p) = SubSeq(es, a, b)
  <2>1. a \in 1 .. Len(es) + 1 /\ b \in a - 1 .. Len(es)
    BY <1>1, <1>3
  <2>2. \A i \in 1 .. Len(es) : StartsWith(es[i][1], p) <=> a <= i /\ i <= b
    BY <1>1, <1>4
  <2> QED
    BY <2>1, <2>2, IterIs
<1>6. SubSeq(es, a, b) = [i \in 1 .. b - a + 1 |-> es[a + i - 1]]
  BY <1>1, <1>2, <1>3 DEF Lists
<1>7. \A i \in 1 .. b - a + 1 : es[a + i - 1][2] = lo + i - 1
  <2>1. ASSUME NEW i \in 1 .. b - a + 1
        PROVE  es[a + i - 1][2] = lo + i - 1
    <3>1. PICK j \in 1 .. n : j = a + i - 1
      BY <1>2, <1>3
    <3> QED
      BY <1>1, <1>2, <3>1
  <2> QED
    BY <2>1
<1>8. b - a + 1 = hi - lo + 1
  BY <1>1, <1>2
<1>9. PICK m : m = b - a + 1
  OBVIOUS
<1>10. PICK found : found = Iter(M, p) /\ found = [i \in 1 .. m |-> es[a + i - 1]]
  BY <1>5, <1>6, <1>9
<1>11. DOMAIN found = 1 .. m /\ \A i \in 1 .. m : found[i][2] = lo + i - 1
  BY <1>7, <1>9, <1>10
<1>12. [i \in DOMAIN found |-> found[i][2]] = [i \in 1 .. m |-> lo + i - 1]
  BY <1>11
<1> QED
  BY <1>8, <1>9, <1>10, <1>12, Zenon

\* The entries of the tests of basic.rs in order, and the bytes of their keys.
InOrder ==
  << <<Ka \o Ka, 0>>, <<Ka \o Kb, 1>>, <<Ka \o Kc, 2>>, <<Ka \o Kc \o Ka, 3>>,
     <<Ka \o Kc \o Kb, 4>>, <<Kb, 5>>, <<Kb \o Kb, 6>>, <<Kb \o Kf, 7>>,
     <<Kb \o Kz, 8>>, <<Kx, 9>> >>
First == <<97, 97, 97, 97, 97, 98, 98, 98, 98, 120>>
Second == <<97, 98, 99, 99, 99, -1, 98, 102, 122, -1>>
Third == <<-1, -1, -1, 97, 98, -1, -1, -1, -1, -1>>

LEMMA InOrderSpelt ==
  ASSUME NEW i \in 1 .. 10
  PROVE  /\ Spelt(InOrder[i][1], First[i], Second[i], Third[i])
         /\ InOrder[i] = <<InOrder[i][1], i - 1>>
         /\ InOrder[i] \in Short \X Vals
<1>1. InOrder[i] = <<InOrder[i][1], i - 1>>
  BY DEF InOrder
<1>2. Spelt(InOrder[i][1], First[i], Second[i], Third[i])
  <2>1. CASE i = 1
    BY <2>1, SpeltKeys DEF InOrder, First, Second, Third
  <2>2. CASE i = 2
    BY <2>2, SpeltKeys DEF InOrder, First, Second, Third
  <2>3. CASE i = 3
    BY <2>3, SpeltKeys DEF InOrder, First, Second, Third
  <2>4. CASE i = 4
    BY <2>4, SpeltKeys DEF InOrder, First, Second, Third
  <2>5. CASE i = 5
    BY <2>5, SpeltKeys DEF InOrder, First, Second, Third
  <2>6. CASE i = 6
    BY <2>6, SpeltKeys DEF InOrder, First, Second, Third
  <2>7. CASE i = 7
    BY <2>7, SpeltKeys DEF InOrder, First, Second, Third
  <2>8. CASE i = 8
    BY <2>8, SpeltKeys DEF InOrder, First, Second, Third
  <2>9. CASE i = 9
    BY <2>9, SpeltKeys DEF InOrder, First, Second, Third
  <2>10. CASE i = 10
    BY <2>10, SpeltKeys DEF InOrder, First, Second, Third
  <2> QED
    BY <2>1, <2>2, <2>3, <2>4, <2>5, <2>6, <2>7, <2>8, <2>9, <2>10
<1>3. PICK k \in Short, v \in Vals : InOrder[i] = <<k, v>>
  <2>1. InOrder[i][1] \in Short
    BY <1>2 DEF Spelt
  <2>2. i - 1 \in Vals
    <3>1. i - 1 \in 0 .. 11
      OBVIOUS
    <3> QED
      BY <3>1, SuiteDataAssumption
  <2> QED
    BY <1>1, <2>1, <2>2, Zenon
<1> QED
  BY <1>1, <1>2, <1>3

LEMMA InOrderRises ==
  ASSUME NEW i \in 1 .. 10, NEW j \in 1 .. 10, i < j
  PROVE  Code[InOrder[i][1]] < Code[InOrder[j][1]]
<1>1. /\ Code[InOrder[i][1]] = Number(First[i], Second[i], Third[i])
      /\ Code[InOrder[j][1]] = Number(First[j], Second[j], Third[j])
  BY InOrderSpelt DEF Spelt
<1>2. Number(First[i], Second[i], Third[i]) < Number(First[j], Second[j], Third[j])
  BY DEF First, Second, Third, Number
<1> QED
  BY <1>1, <1>2

\* Which of them have the prefixes that the tests iterate over.
LEMMA InOrderPrefixes ==
  ASSUME NEW i \in 1 .. 10
  PROVE  LET k == InOrder[i][1]
         IN  /\ StartsWith(k, <<>>)
             /\ StartsWith(k, Ka) <=> 0 <= i - 1 /\ i - 1 <= 4
             /\ StartsWith(k, Ka \o Ka) <=> 0 <= i - 1 /\ i - 1 <= 0
             /\ StartsWith(k, Ka \o Kc) <=> 2 <= i - 1 /\ i - 1 <= 4
             /\ StartsWith(k, Kb) <=> 5 <= i - 1 /\ i - 1 <= 8
             /\ StartsWith(k, Kx) <=> 9 <= i - 1 /\ i - 1 <= 9
             /\ ~StartsWith(k, Kf)
<1> DEFINE k == InOrder[i][1]
<1>1. /\ StartsWith(k, <<>>)
      /\ \A p : StartsWith(k, <<p>>) <=> p = First[i]
      /\ \A p, q \in 0 .. 255 : StartsWith(k, <<p, q>>) <=> p = First[i] /\ q = Second[i]
  BY InOrderSpelt, Zenon DEF Spelt
<1> HIDE DEF k
<1>2. PICK a \in 0 .. 255, b \in 0 .. 255, c \in 0 .. 255, f \in 0 .. 255, x \in 0 .. 255 :
        a = 97 /\ b = 98 /\ c = 99 /\ f = 102 /\ x = 120
  OBVIOUS
<1>3. Ka = <<a>> /\ Kb = <<b>> /\ Kc = <<c>> /\ Kf = <<f>> /\ Kx = <<x>>
  BY <1>2 DEF Ka, Kb, Kc, Kf, Kx
<1>4. <<a>> \o <<a>> = <<a, a>> /\ <<a>> \o <<c>> = <<a, c>>
  BY Concatenated, ZenonT(40)
<1>5. /\ StartsWith(k, Ka) <=> a = First[i]
      /\ StartsWith(k, Kb) <=> b = First[i]
      /\ StartsWith(k, Kx) <=> x = First[i]
      /\ StartsWith(k, Kf) <=> f = First[i]
  BY <1>1, <1>3, Zenon
<1>6. /\ StartsWith(k, Ka \o Ka) <=> a = First[i] /\ a = Second[i]
      /\ StartsWith(k, Ka \o Kc) <=> a = First[i] /\ c = Second[i]
  <2>1. /\ StartsWith(k, <<a, a>>) <=> a = First[i] /\ a = Second[i]
        /\ StartsWith(k, <<a, c>>) <=> a = First[i] /\ c = Second[i]
    BY <1>1, Zenon
  <2>2. Ka \o Ka = <<a, a>> /\ Ka \o Kc = <<a, c>>
    BY <1>3, <1>4, Zenon
  <2> QED
    BY <2>1, <2>2, Zenon
<1>7. /\ a = First[i] <=> 0 <= i - 1 /\ i - 1 <= 4
      /\ b = First[i] <=> 5 <= i - 1 /\ i - 1 <= 8
      /\ x = First[i] <=> 9 <= i - 1 /\ i - 1 <= 9
      /\ f # First[i]
  BY <1>2 DEF First
<1>8. /\ a = First[i] /\ a = Second[i] <=> 0 <= i - 1 /\ i - 1 <= 0
      /\ a = First[i] /\ c = Second[i] <=> 2 <= i - 1 /\ i - 1 <= 4
  BY <1>2 DEF First, Second
<1> QED
  BY <1>1, <1>5, <1>6, <1>7, <1>8 DEF k

LEMMA Checked ==
  ASSUME NEW V, Lists(V[0], InOrder), NEW K, NEW p,
         NEW lo \in 0 .. 9, NEW hi \in lo - 1 .. 9,
         \A i \in 1 .. 10 : StartsWith(InOrder[i][1], p) <=> lo <= i - 1 /\ i - 1 <= hi
  PROVE  LET b == IterateVals(p, [i \in 1 .. hi - lo + 1 |-> lo + i - 1])
         IN  /\ Goes(b, Open("ro", V, V, K), Open("ro", V, V, K))
             /\ Goes(Ro \o b \o Drop, Idle(V, K), Idle(V, K))
<1>1. Len(InOrder) = 10 /\ \A i \in 1 .. 10 : InOrder[i][2] = i - 1
  BY DEF InOrder
<1>2. PICK vals : vals = [i \in 1 .. hi - lo + 1 |-> lo + i - 1]
  OBVIOUS
<1>3. [i \in DOMAIN Iter(V[0], p) |-> Iter(V[0], p)[i][2]] = vals
  <2>1. PICK M : M = V[0]
    OBVIOUS
  <2>2. PICK es : es = InOrder
    OBVIOUS
  <2>3. /\ Lists(M, es) /\ \A i \in 1 .. Len(es) : es[i][2] = i - 1
        /\ lo \in 0 .. Len(es) /\ hi \in lo - 1 .. Len(es) - 1
        /\ \A i \in 1 .. Len(es) : StartsWith(es[i][1], p) <=> lo <= i - 1 /\ i - 1 <= hi
    <3>1. Lists(M, es)
      BY <2>1, <2>2, Zenon
    <3>2. Len(es) = 10 /\ \A i \in 1 .. 10 : es[i][2] = i - 1
      BY <1>1, <2>2
    <3>3. \A i \in 1 .. 10 : StartsWith(es[i][1], p) <=> lo <= i - 1 /\ i - 1 <= hi
      BY <2>2, Zenon
    <3> QED
      BY <3>1, <3>2, <3>3
  <2>4. [i \in DOMAIN Iter(M, p) |-> Iter(M, p)[i][2]]
          = [i \in 1 .. hi - lo + 1 |-> lo + i - 1]
    BY <2>3, NumbersOf
  <2> QED
    BY <1>2, <2>1, <2>4, Zenon
<1>4. "ro" \in Kinds
  BY DEF Kinds
<1>5. Goes(IterateVals(p, vals), Open("ro", V, V, K), Open("ro", V, V, K))
  BY <1>3, <1>4, Reads, Zenon
<1>6. Goes(Ro \o IterateVals(p, vals) \o Drop, Idle(V, K), Idle(V, K))
  BY <1>5, FirstTransaction
<1> QED
  BY <1>2, <1>5, <1>6, Zenon

LEMMA put_and_iterate_over_prefixes_plays == Plays(put_and_iterate_over_prefixes)
<1> DEFINE E == EmptyContents
           K == NothingKept
           acts == << <<Ka \o Kc, 2>>, <<Kb \o Kf, 7>>, <<Ka \o Kb, 1>>,
                      <<Ka \o Kc \o Ka, 3>>, <<Kb \o Kz, 8>>, <<Kx, 9>>, <<Kb \o Kb, 6>>,
                      <<Kb, 5>>, <<Ka \o Kc \o Kb, 4>>, <<Ka \o Ka, 0>> >>
           V == Changed(E, 0, Extend(E[0], acts))
           check(lo, hi, p) ==
             Ro \o IterateVals(p, [i \in 1 .. hi - lo + 1 |-> lo + i - 1]) \o Drop
           s1 == Rw \o ApplyActions(0, acts) \o Committed
           s2 == s1 \o Ro \o IterateVals(Kf, <<>>) \o Drop
           s3 == s2 \o check(0, 9, <<>>)
           s4 == s3 \o check(0, 4, Ka)
           s5 == s4 \o check(0, 0, Ka \o Ka)
           s6 == s5 \o check(2, 4, Ka \o Kc)
           s7 == s6 \o check(5, 8, Kb)
           s8 == s7 \o check(9, 9, Kx)
<1>1. put_and_iterate_over_prefixes = s8
  BY Zenon DEF put_and_iterate_over_prefixes
<1>2. Len(acts) = 10 /\ IsSequence(acts)
  <2>1. Len(acts) = 10 /\ acts = [i \in 1 .. 10 |-> acts[i]]
    OBVIOUS
  <2> HIDE DEF acts
  <2>2. PICK n \in Nat : n = 10
    OBVIOUS
  <2>3. acts = [i \in 1 .. n |-> acts[i]]
    BY <2>1, <2>2
  <2>4. acts \in Seq({acts[i] : i \in 1 .. n})
    BY <2>3
  <2> QED
    BY <2>1, <2>4 DEF IsSequence
<1>3. /\ acts[1] = InOrder[3] /\ acts[2] = InOrder[8] /\ acts[3] = InOrder[2]
      /\ acts[4] = InOrder[4] /\ acts[5] = InOrder[9] /\ acts[6] = InOrder[10]
      /\ acts[7] = InOrder[7] /\ acts[8] = InOrder[6] /\ acts[9] = InOrder[5]
      /\ acts[10] = InOrder[1]
  BY DEF InOrder
<1>4. /\ \A i \in 1 .. 10 : \E j \in 1 .. 10 : acts[i] = InOrder[j]
      /\ \A j \in 1 .. 10 : \E i \in 1 .. 10 : acts[i] = InOrder[j]
  <2> HIDE DEF acts
  <2> QED
    BY <1>3
<1>5. Rising(InOrder) /\ Len(InOrder) = 10
  <2>0. PICK n \in Nat : n = 10
    OBVIOUS
  <2>1. PICK es : es = InOrder /\ n = 10
    BY <2>0
  <2>2. es = [i \in 1 .. n |-> es[i]]
    BY <2>1 DEF InOrder
  <2>3. \A i \in 1 .. n : es[i] \in Short \X Vals
    BY <2>1, InOrderSpelt
  <2>4. \A i, j \in 1 .. n : i < j => Code[es[i][1]] < Code[es[j][1]]
    BY <2>1, InOrderRises
  <2>5. Rising(es) /\ Len(es) = n
    BY <2>2, <2>3, <2>4, RisingIs
  <2> QED
    BY <2>1, <2>5
<1> HIDE DEF acts
<1>6. Lists(Extend(Model, acts), InOrder)
  <2>1. PICK es : es = InOrder
    OBVIOUS
  <2>2. Rising(es) /\ Len(es) = 10
    BY <1>5, <2>1
  <2>3. /\ \A i \in 1 .. Len(acts) : \E j \in 1 .. Len(es) : acts[i] = es[j]
        /\ \A j \in 1 .. Len(es) : \E i \in 1 .. Len(acts) : acts[i] = es[j]
    BY <1>2, <1>4, <2>1, <2>2, Zenon
  <2>4. Lists(Extend(Model, acts), es)
    BY <1>2, <2>2, <2>3, ListsExtend
  <2> QED
    BY <2>1, <2>4
<1>7. E \in Contents /\ 0 \in MapIds
  BY Maps
<1>8. Lists(V[0], InOrder)
  <2>1. E[0] = Model
    BY Maps
  <2>2. DOMAIN E = MapIds
    BY DEF EmptyContents
  <2>3. V[0] = Extend(Model, acts)
    BY <1>7, <2>1, <2>2 DEF Changed
  <2> QED
    BY <1>6, <2>3
<1> HIDE DEF E, K
<1>9. Goes(s1, Idle(E, K), Idle(V, K))
  <2>1. Goes(ApplyActions(0, acts), Open("rw", E, E, K), Open("rw", E, V, K))
    BY <1>2, <1>7, Applies
  <2> QED
    BY <2>1, FirstTransaction
<1> HIDE DEF s1, V
<1>10. Goes(s2, Idle(E, K), Idle(V, K))
  <2>1. PICK lo \in 0 .. 9, hi \in -1 .. 9 : lo = 0 /\ hi = -1 /\ hi \in lo - 1 .. 9
    OBVIOUS
  <2>2. \A i \in 1 .. 10 : StartsWith(InOrder[i][1], Kf) <=> lo <= i - 1 /\ i - 1 <= hi
    BY <2>1, InOrderPrefixes
  <2>3. PICK vals : vals = [i \in 1 .. hi - lo + 1 |-> lo + i - 1]
    OBVIOUS
  <2>4. Goes(IterateVals(Kf, vals), Open("ro", V, V, K), Open("ro", V, V, K))
    BY <1>8, <2>1, <2>2, <2>3, Checked, Zenon
  <2>5. vals = <<>>
    BY <2>1, <2>3
  <2> QED
    BY <1>9, <2>4, <2>5, NextTransaction
<1> HIDE DEF s2
<1>11. /\ Goes(check(0, 9, <<>>), Idle(V, K), Idle(V, K))
       /\ Goes(check(0, 4, Ka), Idle(V, K), Idle(V, K))
       /\ Goes(check(0, 0, Ka \o Ka), Idle(V, K), Idle(V, K))
       /\ Goes(check(2, 4, Ka \o Kc), Idle(V, K), Idle(V, K))
       /\ Goes(check(5, 8, Kb), Idle(V, K), Idle(V, K))
       /\ Goes(check(9, 9, Kx), Idle(V, K), Idle(V, K))
  <2> DEFINE Within(lo, hi, p) ==
               \A i \in 1 .. 10 : StartsWith(InOrder[i][1], p) <=> lo <= i - 1 /\ i - 1 <= hi
  <2>1. ASSUME NEW p, NEW lo \in 0 .. 9, NEW hi \in lo - 1 .. 9, Within(lo, hi, p)
        PROVE  Goes(check(lo, hi, p), Idle(V, K), Idle(V, K))
    BY <1>8, <2>1, Checked, Zenon
  <2>2. Within(0, 9, <<>>)
    BY InOrderPrefixes
  <2>3. Within(0, 4, Ka) /\ Within(0, 0, Ka \o Ka) /\ Within(2, 4, Ka \o Kc)
    BY InOrderPrefixes
  <2>4. Within(5, 8, Kb) /\ Within(9, 9, Kx)
    BY InOrderPrefixes
  <2>5. /\ 0 \in 0 .. 9 /\ 2 \in 0 .. 9 /\ 5 \in 0 .. 9 /\ 9 \in 0 .. 9
        /\ 9 \in 0 - 1 .. 9 /\ 4 \in 0 - 1 .. 9 /\ 0 \in 0 - 1 .. 9 /\ 4 \in 2 - 1 .. 9
        /\ 8 \in 5 - 1 .. 9 /\ 9 \in 9 - 1 .. 9
    OBVIOUS
  <2> HIDE DEF Within, check
  <2>6. /\ Goes(check(0, 9, <<>>), Idle(V, K), Idle(V, K))
        /\ Goes(check(0, 4, Ka), Idle(V, K), Idle(V, K))
        /\ Goes(check(0, 0, Ka \o Ka), Idle(V, K), Idle(V, K))
    BY <2>1, <2>2, <2>3, <2>5, Zenon
  <2>7. /\ Goes(check(2, 4, Ka \o Kc), Idle(V, K), Idle(V, K))
        /\ Goes(check(5, 8, Kb), Idle(V, K), Idle(V, K))
        /\ Goes(check(9, 9, Kx), Idle(V, K), Idle(V, K))
    BY <2>1, <2>3, <2>4, <2>5, Zenon
  <2> QED
    BY <2>6, <2>7
<1> HIDE DEF check
<1>12. Goes(s3, Idle(E, K), Idle(V, K))
  BY <1>10, <1>11, Goings
<1> HIDE DEF s3
<1>13. Goes(s4, Idle(E, K), Idle(V, K))
  BY <1>11, <1>12, Goings
<1> HIDE DEF s4
<1>14. Goes(s5, Idle(E, K), Idle(V, K))
  BY <1>11, <1>13, Goings
<1> HIDE DEF s5
<1>15. Goes(s6, Idle(E, K), Idle(V, K))
  BY <1>11, <1>14, Goings
<1> HIDE DEF s6
<1>16. Goes(s7, Idle(E, K), Idle(V, K))
  BY <1>11, <1>15, Goings
<1> HIDE DEF s7
<1>17. Goes(s8, Idle(E, K), Idle(V, K))
  BY <1>11, <1>16, Goings
<1> HIDE DEF s8
<1> QED
  BY <1>1, <1>17 DEF Plays, Start, E, K

\* The m entries with a prefix are found from the lo-th of the list to the hi-th.
Finds(es, p, lo, hi, m, found) ==
  /\ lo \in 1 .. Len(es) + 1 /\ hi \in lo - 1 .. Len(es)
  /\ \A i \in 1 .. Len(es) : StartsWith(es[i][1], p) <=> lo <= i /\ i <= hi
  /\ m = hi - lo + 1
  /\ found = [i \in 1 .. m |-> found[i]]
  /\ \A i \in 1 .. m : found[i] = es[lo + i - 1]

LEMMA Picks ==
  ASSUME NEW M, NEW es, Lists(M, es), NEW p, NEW lo, NEW hi, NEW m, NEW found,
         Finds(es, p, lo, hi, m, found)
  PROVE  Iter(M, p) = found
<1>1. /\ lo \in 1 .. Len(es) + 1 /\ hi \in lo - 1 .. Len(es)
      /\ \A i \in 1 .. Len(es) : StartsWith(es[i][1], p) <=> lo <= i /\ i <= hi
  BY Zenon DEF Finds
<1>2. Iter(M, p) = SubSeq(es, lo, hi)
  BY <1>1, IterIs, SMTT(30)
<1>3. SubSeq(es, lo, hi) = [i \in 1 .. m |-> es[lo + i - 1]]
  BY <1>1 DEF Lists, Finds
<1> QED
  BY <1>2, <1>3 DEF Finds

LEMMA ThreeIters ==
  ASSUME NEW kind \in Kinds, NEW S, NEW V, NEW K, NEW p1, NEW p2, NEW p3,
         NEW e1, NEW e2, NEW e3,
         Iter(V[0], p1) = e1, Iter(V[0], p2) = e2, Iter(V[0], p3) = e3
  PROVE  Goes(Iterate(p1, e1) \o Iterate(p2, e2) \o Iterate(p3, e3),
              Open(kind, S, V, K), Open(kind, S, V, K))
<1>1. /\ Goes(Iterate(p1, e1), Open(kind, S, V, K), Open(kind, S, V, K))
      /\ Goes(Iterate(p2, e2), Open(kind, S, V, K), Open(kind, S, V, K))
      /\ Goes(Iterate(p3, e3), Open(kind, S, V, K), Open(kind, S, V, K))
  BY Reads, Zenon
<1>2. Goes(Iterate(p1, e1) \o Iterate(p2, e2), Open(kind, S, V, K), Open(kind, S, V, K))
  BY <1>1, Goings
<1> QED
  BY <1>1, <1>2, Goings

\* The first six entries, and what is left of them without the fourth and the second.
Full0 == << <<Ka \o Ka, 0>>, <<Ka \o Kb, 1>>, <<Ka \o Kc, 2>>,
            <<Ka \o Kc \o Ka, 3>>, <<Ka \o Kc \o Kb, 4>>, <<Kb, 5>> >>
Full1 == << Full0[1], Full0[3], Full0[5], Full0[6] >>

LEMMA FullAre ==
  /\ Full0 = [i \in 1 .. 6 |-> InOrder[i]]
  /\ Full1 = [i \in 1 .. 4 |-> InOrder[<<1, 3, 5, 6>>[i]]]
  /\ Full1 = Without(Without(Full0, 4), 2)
<1>2. PICK es : es = Full0
  OBVIOUS
<1>3. Len(es) = 6 /\ es = [i \in 1 .. 6 |-> InOrder[i]]
  <2>1. Len(es) = 6 /\ es = [i \in 1 .. 6 |-> es[i]]
    BY <1>2 DEF Full0
  <2>2. /\ es[1] = InOrder[1] /\ es[2] = InOrder[2] /\ es[3] = InOrder[3]
        /\ es[4] = InOrder[4] /\ es[5] = InOrder[5] /\ es[6] = InOrder[6]
    BY <1>2 DEF Full0, InOrder
  <2>3. \A i \in 1 .. 6 : es[i] = InOrder[i]
    BY <2>2
  <2> QED
    BY <2>1, <2>3
<1>1. Full0 = [i \in 1 .. 6 |-> InOrder[i]]
  BY <1>2, <1>3
<1>4. Full1 = <<es[1], es[3], es[5], es[6]>>
  BY <1>2 DEF Full1
<1>5. Full1 = [i \in 1 .. 4 |-> InOrder[<<1, 3, 5, 6>>[i]]]
  BY <1>3, <1>4
<1>6. Full1 = Without(Without(es, 4), 2)
  <2>1. PICK fs : fs = Without(es, 4)
    OBVIOUS
  <2>2. fs = [i \in 1 .. 5 |-> IF i < 4 THEN es[i] ELSE es[i + 1]]
    BY <1>3, <2>1 DEF Without
  <2>3. /\ Len(fs) = 5 /\ fs[1] = es[1] /\ fs[2] = es[2] /\ fs[3] = es[3]
        /\ fs[4] = es[5] /\ fs[5] = es[6]
    BY <2>2
  <2>4. Without(fs, 2) = [i \in 1 .. 4 |-> IF i < 2 THEN fs[i] ELSE fs[i + 1]]
    BY <2>3 DEF Without
  <2>5. Without(fs, 2) = <<es[1], es[3], es[5], es[6]>>
    BY <2>3, <2>4
  <2> QED
    BY <1>4, <2>1, <2>5
<1> QED
  BY <1>1, <1>2, <1>5, <1>6

LEMMA ItersOfFull0 ==
  ASSUME NEW M, Lists(M, Full0)
  PROVE  /\ Iter(M, <<>>) = Full0 /\ Iter(M, Ka \o Ka) = <<Full0[1]>>
         /\ Iter(M, Ka \o Kc) = <<Full0[3], Full0[4], Full0[5]>>
<1>1. PICK es : es = Full0
  OBVIOUS
<1>2. Len(es) = 6 /\ es = [i \in 1 .. 6 |-> es[i]] /\ \A i \in 1 .. 6 : es[i] = InOrder[i]
  BY <1>1, FullAre
<1>3. PICK n \in Nat : n = 6
  OBVIOUS
<1>4. \A i \in 1 .. n : /\ StartsWith(es[i][1], <<>>)
                        /\ StartsWith(es[i][1], Ka \o Ka) <=> 1 <= i /\ i <= 1
                        /\ StartsWith(es[i][1], Ka \o Kc) <=> 3 <= i /\ i <= 5
  BY <1>2, <1>3, InOrderPrefixes
<1>5. Lists(M, es) /\ n = Len(es)
  BY <1>1, <1>2, <1>3
<1>6. Iter(M, <<>>) = es
  <2>1. PICK p : p = <<>>
    OBVIOUS
  <2>2. PICK lo \in 1 .. n, hi \in 1 .. n : lo = 1 /\ hi = n
    BY <1>3
  <2>3. PICK found, m : found = es /\ m = n
    OBVIOUS
  <2>4. /\ \A i \in 1 .. Len(es) : StartsWith(es[i][1], p) <=> lo <= i /\ i <= hi
        /\ lo \in 1 .. Len(es) + 1 /\ hi \in lo - 1 .. Len(es) /\ m = hi - lo + 1
        /\ found = [i \in 1 .. m |-> found[i]] /\ \A i \in 1 .. m : found[i] = es[lo + i - 1]
    BY <1>2, <1>3, <1>4, <2>1, <2>2, <2>3
  <2>5. Finds(es, p, lo, hi, m, found)
    BY <2>4, Zenon DEF Finds
  <2>6. Iter(M, p) = found
    BY <1>5, <2>5, Picks
  <2> QED
    BY <2>1, <2>3, <2>6
<1>7. Iter(M, Ka \o Ka) = <<es[1]>>
  <2>1. PICK found : found = <<es[1]>>
    OBVIOUS
  <2>2. PICK p : p = Ka \o Ka
    OBVIOUS
  <2>3. PICK lo \in 1 .. n, hi \in 1 .. n, m \in Nat : lo = 1 /\ hi = 1 /\ m = 1
    BY <1>3
  <2>4. /\ \A i \in 1 .. Len(es) : StartsWith(es[i][1], p) <=> lo <= i /\ i <= hi
        /\ lo \in 1 .. Len(es) + 1 /\ hi \in lo - 1 .. Len(es) /\ m = hi - lo + 1
        /\ found = [i \in 1 .. m |-> found[i]] /\ \A i \in 1 .. m : found[i] = es[lo + i - 1]
    BY <1>2, <1>3, <1>4, <2>1, <2>2, <2>3
  <2>5. Finds(es, p, lo, hi, m, found)
    BY <2>4, Zenon DEF Finds
  <2>6. Iter(M, p) = found
    BY <1>5, <2>5, Picks
  <2> QED
    BY <2>1, <2>2, <2>6
<1>8. Iter(M, Ka \o Kc) = <<es[3], es[4], es[5]>>
  <2>1. PICK found : found = <<es[3], es[4], es[5]>>
    OBVIOUS
  <2>2. PICK p : p = Ka \o Kc
    OBVIOUS
  <2>3. PICK lo \in 1 .. n, hi \in 1 .. n, m \in Nat : lo = 3 /\ hi = 5 /\ m = 3
    BY <1>3
  <2>4. /\ \A i \in 1 .. Len(es) : StartsWith(es[i][1], p) <=> lo <= i /\ i <= hi
        /\ lo \in 1 .. Len(es) + 1 /\ hi \in lo - 1 .. Len(es) /\ m = hi - lo + 1
        /\ found = [i \in 1 .. m |-> found[i]] /\ \A i \in 1 .. m : found[i] = es[lo + i - 1]
    BY <1>2, <1>3, <1>4, <2>1, <2>2, <2>3
  <2>5. Finds(es, p, lo, hi, m, found)
    BY <2>4, Zenon DEF Finds
  <2>6. Iter(M, p) = found
    BY <1>5, <2>5, Picks
  <2> QED
    BY <2>1, <2>2, <2>6
<1> QED
  BY <1>1, <1>6, <1>7, <1>8

LEMMA ItersOfFull1 ==
  ASSUME NEW M, Lists(M, Full1)
  PROVE  /\ Iter(M, <<>>) = Full1 /\ Iter(M, Ka \o Ka) = <<Full0[1]>>
         /\ Iter(M, Ka \o Kc) = <<Full0[3], Full0[5]>>
<1>1. PICK es : es = Full1
  OBVIOUS
<1>2. /\ Len(es) = 4 /\ es = [i \in 1 .. 4 |-> es[i]]
      /\ es[1] = InOrder[1] /\ es[2] = InOrder[3] /\ es[3] = InOrder[5] /\ es[4] = InOrder[6]
  <2>1. es = <<Full0[1], Full0[3], Full0[5], Full0[6]>>
    BY <1>1 DEF Full1
  <2>2. PICK fs : fs = Full0
    OBVIOUS
  <2>3. /\ fs[1] = InOrder[1] /\ fs[3] = InOrder[3] /\ fs[5] = InOrder[5]
        /\ fs[6] = InOrder[6]
    BY <2>2, FullAre
  <2>4. es = <<fs[1], fs[3], fs[5], fs[6]>>
    BY <2>1, <2>2
  <2> QED
    BY <2>2, <2>3, <2>4
<1>9. es[1] = Full0[1] /\ es[2] = Full0[3] /\ es[3] = Full0[5]
  BY <1>1 DEF Full1
<1>3. PICK n \in Nat : n = 4
  OBVIOUS
<1>4. \A i \in 1 .. n : /\ StartsWith(es[i][1], <<>>)
                        /\ StartsWith(es[i][1], Ka \o Ka) <=> 1 <= i /\ i <= 1
                        /\ StartsWith(es[i][1], Ka \o Kc) <=> 2 <= i /\ i <= 3
  <2>1. ASSUME NEW j \in 1 .. 10
        PROVE  /\ StartsWith(InOrder[j][1], <<>>)
               /\ StartsWith(InOrder[j][1], Ka \o Ka) <=> j = 1
               /\ StartsWith(InOrder[j][1], Ka \o Kc) <=> 3 <= j /\ j <= 5
    BY InOrderPrefixes
  <2>2. ASSUME NEW i \in 1 .. n
        PROVE  /\ StartsWith(es[i][1], <<>>)
               /\ StartsWith(es[i][1], Ka \o Ka) <=> 1 <= i /\ i <= 1
               /\ StartsWith(es[i][1], Ka \o Kc) <=> 2 <= i /\ i <= 3
    <3>1. CASE i = 1
      BY <1>2, <2>1, <3>1
    <3>2. CASE i = 2
      BY <1>2, <2>1, <3>2
    <3>3. CASE i = 3
      BY <1>2, <2>1, <3>3
    <3>4. CASE i = 4
      BY <1>2, <2>1, <3>4
    <3> QED
      BY <1>3, <3>1, <3>2, <3>3, <3>4
  <2> QED
    BY <2>2
<1>5. Lists(M, es) /\ n = Len(es)
  BY <1>1, <1>2, <1>3
<1>6. Iter(M, <<>>) = es
  <2>1. PICK p : p = <<>>
    OBVIOUS
  <2>2. PICK lo \in 1 .. n, hi \in 1 .. n : lo = 1 /\ hi = n
    BY <1>3
  <2>3. PICK found, m : found = es /\ m = n
    OBVIOUS
  <2>4. /\ \A i \in 1 .. Len(es) : StartsWith(es[i][1], p) <=> lo <= i /\ i <= hi
        /\ lo \in 1 .. Len(es) + 1 /\ hi \in lo - 1 .. Len(es) /\ m = hi - lo + 1
        /\ found = [i \in 1 .. m |-> found[i]] /\ \A i \in 1 .. m : found[i] = es[lo + i - 1]
    BY <1>2, <1>3, <1>4, <2>1, <2>2, <2>3
  <2>5. Finds(es, p, lo, hi, m, found)
    BY <2>4, Zenon DEF Finds
  <2>6. Iter(M, p) = found
    BY <1>5, <2>5, Picks
  <2> QED
    BY <2>1, <2>3, <2>6
<1>7. Iter(M, Ka \o Ka) = <<es[1]>>
  <2>1. PICK found : found = <<es[1]>>
    OBVIOUS
  <2>2. PICK p : p = Ka \o Ka
    OBVIOUS
  <2>3. PICK lo \in 1 .. n, hi \in 1 .. n, m \in Nat : lo = 1 /\ hi = 1 /\ m = 1
    BY <1>3
  <2>4. /\ \A i \in 1 .. Len(es) : StartsWith(es[i][1], p) <=> lo <= i /\ i <= hi
        /\ lo \in 1 .. Len(es) + 1 /\ hi \in lo - 1 .. Len(es) /\ m = hi - lo + 1
        /\ found = [i \in 1 .. m |-> found[i]] /\ \A i \in 1 .. m : found[i] = es[lo + i - 1]
    BY <1>2, <1>3, <1>4, <2>1, <2>2, <2>3
  <2>5. Finds(es, p, lo, hi, m, found)
    BY <2>4, Zenon DEF Finds
  <2>6. Iter(M, p) = found
    BY <1>5, <2>5, Picks
  <2> QED
    BY <2>1, <2>2, <2>6
<1>8. Iter(M, Ka \o Kc) = <<es[2], es[3]>>
  <2>1. PICK found : found = <<es[2], es[3]>>
    OBVIOUS
  <2>2. PICK p : p = Ka \o Kc
    OBVIOUS
  <2>3. PICK lo \in 1 .. n, hi \in 1 .. n, m \in Nat : lo = 2 /\ hi = 3 /\ m = 2
    BY <1>3
  <2>4. /\ \A i \in 1 .. Len(es) : StartsWith(es[i][1], p) <=> lo <= i /\ i <= hi
        /\ lo \in 1 .. Len(es) + 1 /\ hi \in lo - 1 .. Len(es) /\ m = hi - lo + 1
        /\ found = [i \in 1 .. m |-> found[i]] /\ \A i \in 1 .. m : found[i] = es[lo + i - 1]
    BY <1>2, <1>3, <1>4, <2>1, <2>2, <2>3
  <2>5. Finds(es, p, lo, hi, m, found)
    BY <2>4, Zenon DEF Finds
  <2>6. Iter(M, p) = found
    BY <1>5, <2>5, Picks
  <2> QED
    BY <2>1, <2>2, <2>6
<1> QED
  BY <1>1, <1>9, <1>6, <1>7, <1>8

LEMMA put_and_iterate_delete_some_plays == Plays(put_and_iterate_delete_some)
<1> DEFINE E == EmptyContents
           K == NothingKept
           k4 == Ka \o Kc \o Ka
           k2 == Ka \o Kb
           M == Extend(Model, Full0)
           V == Changed(E, 0, Extend(E[0], Full0))
           V4 == Written(V, 0, k4, None)
           W == Written(V4, 0, k2, None)
           c0 == Iterate(<<>>, Full0) \o Iterate(Ka \o Ka, <<Full0[1]>>)
                 \o Iterate(Ka \o Kc, <<Full0[3], Full0[4], Full0[5]>>)
           c1 == Iterate(<<>>, Full1) \o Iterate(Ka \o Ka, <<Full0[1]>>)
                 \o Iterate(Ka \o Kc, <<Full0[3], Full0[5]>>)
           d == Del(0, k4) \o Del(0, k2)
           s1 == Rw \o ApplyActions(0, Full0) \o c0 \o Committed
           s2 == s1 \o Ro \o c0 \o Drop
           s3 == s2 \o Rw \o d \o c1 \o Drop
           s4 == s3 \o Ro \o c0 \o Drop
           s5 == s4 \o Rw \o d \o c1 \o Committed
           s6 == s5 \o Ro \o c1 \o Drop
<1>1. put_and_iterate_delete_some = s6
  BY Zenon DEF put_and_iterate_delete_some, Full0, Full1
<1>2. Rising(Full0) /\ Len(Full0) = 6 /\ IsSequence(Full0)
  <2>1. PICK n \in Nat : n = 6
    OBVIOUS
  <2>2. PICK es : es = Full0
    OBVIOUS
  <2>3. es = [i \in 1 .. n |-> InOrder[i]]
    BY <2>1, <2>2, FullAre
  <2>4. es = [i \in 1 .. n |-> es[i]] /\ \A i \in 1 .. n : i \in 1 .. 10 /\ es[i] = InOrder[i]
    BY <2>1, <2>3
  <2>5. \A i \in 1 .. n : es[i] \in Short \X Vals
    BY <2>4, InOrderSpelt
  <2>6. \A i, j \in 1 .. n : i < j => Code[es[i][1]] < Code[es[j][1]]
    BY <2>4, InOrderRises
  <2>7. Rising(es) /\ Len(es) = n /\ IsSequence(es)
    BY <2>4, <2>5, <2>6, RisingIs
  <2> QED
    BY <2>1, <2>2, <2>7
<1>3. E \in Contents /\ 0 \in MapIds /\ E[0] = Model /\ DOMAIN E = MapIds
  BY Maps DEF EmptyContents
<1>4. Lists(M, Full0) /\ M \in [Keys -> OptVals]
  <2>1. PICK es : es = Full0
    OBVIOUS
  <2>2. Rising(es) /\ IsSequence(es)
    BY <1>2, <2>1
  <2>3. Lists(Extend(Model, es), es)
    BY <2>2, ListsExtend
  <2>4. AreActions(es)
    BY <2>2 DEF AreActions, Rising, OptVals
  <2>5. Extend(Model, es) \in [Keys -> OptVals]
    BY <2>4, Maps, ExtendTypes
  <2> QED
    BY <2>1, <2>3, <2>5
<1>5. V \in Contents /\ V[0] = M
  <2>1. V = [E EXCEPT ![0] = M]
    BY <1>3 DEF Changed
  <2> HIDE DEF E, M, V
  <2> QED
    BY <1>3, <1>4, <2>1 DEF Contents
<1>6. Lists(W[0], Full1)
  <2>1. W[0] = [[M EXCEPT ![k4] = None] EXCEPT ![k2] = None]
    <3> HIDE DEF V, M, k4, k2
    <3> QED
      BY <1>3, <1>5 DEF Written, Contents
  <2>2. PICK es : es = Full0
    OBVIOUS
  <2>3. Len(es) = 6 /\ es[4][1] = k4 /\ es[2][1] = k2
    BY <1>2, <2>2 DEF Full0
  <2>4. PICK fs : fs = Without(es, 4)
    OBVIOUS
  <2>5. Len(fs) = 5 /\ fs[2] = es[2]
    BY <2>3, <2>4 DEF Without
  <2> HIDE DEF M, k4, k2, W
  <2>6. PICK N : N = [M EXCEPT ![k4] = None]
    OBVIOUS
  <2>7. Lists(N, fs)
    <3>1. PICK j \in 1 .. Len(es) : j = 4
      BY <2>3
    <3>2. Lists([M EXCEPT ![es[j][1]] = None], Without(es, j))
      BY <1>4, <2>2, ListsWithout
    <3> QED
      BY <2>3, <2>4, <2>6, <3>1, <3>2
  <2>8. Lists(W[0], Without(fs, 2))
    <3>1. PICK j \in 1 .. Len(fs) : j = 2
      BY <2>5
    <3>2. DOMAIN N = Keys
      BY <1>4, <2>6
    <3>3. Lists([N EXCEPT ![fs[j][1]] = None], Without(fs, j))
      BY <2>7, <3>2, ListsWithout
    <3>4. W[0] = [N EXCEPT ![fs[j][1]] = None]
      BY <2>1, <2>3, <2>5, <2>6, <3>1
    <3> QED
      BY <3>1, <3>3, <3>4, Zenon
  <2> QED
    BY <2>2, <2>4, <2>8, FullAre, Zenon
<1>7. ASSUME NEW kind \in Kinds, NEW S, NEW X, X[0] = M
      PROVE  Goes(c0, Open(kind, S, X, K), Open(kind, S, X, K))
  <2>1. Lists(X[0], Full0)
    BY <1>4, <1>7, Zenon
  <2>2. /\ Iter(X[0], <<>>) = Full0 /\ Iter(X[0], Ka \o Ka) = <<Full0[1]>>
        /\ Iter(X[0], Ka \o Kc) = <<Full0[3], Full0[4], Full0[5]>>
    BY <2>1, ItersOfFull0, Zenon
  <2> QED
    BY <2>2, ThreeIters, Zenon
<1>8. ASSUME NEW kind \in Kinds, NEW S
      PROVE  Goes(c1, Open(kind, S, W, K), Open(kind, S, W, K))
  <2>1. /\ Iter(W[0], <<>>) = Full1 /\ Iter(W[0], Ka \o Ka) = <<Full0[1]>>
        /\ Iter(W[0], Ka \o Kc) = <<Full0[3], Full0[5]>>
    BY <1>6, ItersOfFull1, Zenon
  <2> HIDE DEF W
  <2> QED
    BY <2>1, ThreeIters, Zenon
<1>9. "ro" \in Kinds /\ "rw" \in Kinds
  BY DEF Kinds
<1> HIDE DEF E, K, M
<1>10. Goes(ApplyActions(0, Full0), Open("rw", E, E, K), Open("rw", E, V, K))
  BY <1>2, <1>3, Applies
<1> HIDE DEF c0, c1, V
<1>11. Goes(d, Open("rw", V, V, K), Open("rw", V, W, K))
  <2>1. Goes(Del(0, k4), Open("rw", V, V, K), Open("rw", V, V4, K))
    BY Writes
  <2>2. Goes(Del(0, k2), Open("rw", V, V4, K), Open("rw", V, W, K))
    BY Writes
  <2> QED
    BY <2>1, <2>2, Goings
<1> HIDE DEF d, W
<1>12. /\ Goes(c0, Open("rw", E, V, K), Open("rw", E, V, K))
       /\ Goes(c0, Open("ro", V, V, K), Open("ro", V, V, K))
       /\ Goes(c1, Open("rw", V, W, K), Open("rw", V, W, K))
       /\ Goes(c1, Open("ro", W, W, K), Open("ro", W, W, K))
  BY <1>5, <1>7, <1>8, <1>9, Zenon
<1>13. Goes(s1, Idle(E, K), Idle(V, K))
  BY <1>10, <1>12, FirstTwo
<1> HIDE DEF s1
<1>14. Goes(s2, Idle(E, K), Idle(V, K))
  BY <1>12, <1>13, NextTransaction
<1> HIDE DEF s2
<1>15. Goes(s3, Idle(E, K), Idle(V, K))
  BY <1>11, <1>12, <1>14, NextTwo
<1> HIDE DEF s3
<1>16. Goes(s4, Idle(E, K), Idle(V, K))
  BY <1>12, <1>15, NextTransaction
<1> HIDE DEF s4
<1>17. Goes(s5, Idle(E, K), Idle(W, K))
  BY <1>11, <1>12, <1>16, NextTwo
<1> HIDE DEF s5
<1>18. Goes(s6, Idle(E, K), Idle(W, K))
  BY <1>12, <1>17, NextTransaction
<1> HIDE DEF s6
<1> QED
  BY <1>1, <1>18 DEF Plays, Start, E, K

-----------------------------------------------------------------------------
(* The tests of concurrent.rs *)

Shared(kind, w, a) == <<kind, w, a>>

\* What a step needs of the data: that a read holds whoever has committed, of those
\* that may have, and that a write makes the contents those after the thread's commit.
ReadsWell(t, a, m, k, among) ==
  \A C \in Possible(t) : a.known \subseteq C => ContentsAfter(t, C)[m][k] \in among
WritesWell(t, c, known, k, v) ==
  \A C \in Possible(t) : known \subseteq C /\ c \notin C =>
    Written(ContentsAfter(t, C), 0, k, v) = ContentsAfter(t, C \cup {c})
AddsWell(t, c, known, k, n) ==
  \A C \in Possible(t) : known \subseteq C /\ c \notin C =>
    Written(ContentsAfter(t, C), 0, k, ContentsAfter(t, C)[0][k] + n)
      = ContentsAfter(t, C \cup {c})
ListsWell(t, a, p, es) ==
  \A C \in Possible(t) : a.known \subseteq C => Iter(ContentsAfter(t, C)[0], p) = es
CommitsWell(t, c, known) == c \in Commits(t) /\ Before(t) \subseteq known \cup {c}

LEMMA SharedBegins ==
  ASSUME NEW t \in Tests, NEW c, NEW w, NEW a
  PROVE  /\ Walk(t, c, Ro, Shared("idle", w, a), Shared("ro", w, a))
         /\ Walk(t, c, Rw, Shared("idle", w, a), Shared("rw", w, a))
<1>1. t # "alone"
  BY DEF Tests
<1>2. ASSUME NEW kind \in Kinds
      PROVE  Leads(t, c, [op |-> "begin", kind |-> kind], Shared("idle", w, a), Shared(kind, w, a))
  BY <1>1 DEF Leads, Moves, Shares, Shared, Asserts
<1> QED
  BY <1>2, OneStep DEF Ro, Rw, Kinds

LEMMA SharedDrops ==
  ASSUME NEW t \in Tests, NEW c, NEW w, NEW a, a.stage # "wrote"
  PROVE  Walk(t, c, Drop, Shared("ro", w, a), Shared("idle", w, a))
<1>1. t # "alone"
  BY DEF Tests
<1>2. Leads(t, c, [op |-> "drop"], Shared("ro", w, a), Shared("idle", w, a))
  BY <1>1 DEF Leads, Moves, Shares, Shared, Asserts, Kinds
<1> QED
  BY <1>2, OneStep DEF Drop

LEMMA SharedReads ==
  ASSUME NEW t \in Tests, NEW c, NEW w, NEW a, a.stage # "wrote"
  PROVE  /\ \A m, k, among : ReadsWell(t, a, m, k, among) =>
              Walk(t, c, Get(m, k, among), Shared("ro", w, a), Shared("ro", w, a))
         /\ \A p, es : ListsWell(t, a, p, es) =>
              Walk(t, c, Iterate(p, es), Shared("ro", w, a), Shared("ro", w, a))
<1>1. t # "alone"
  BY DEF Tests
<1>2. ASSUME NEW m, NEW k, NEW among, ReadsWell(t, a, m, k, among)
      PROVE  Walk(t, c, Get(m, k, among), Shared("ro", w, a), Shared("ro", w, a))
  <2>1. Leads(t, c, [op |-> "get", map |-> m, key |-> k, among |-> among],
              Shared("ro", w, a), Shared("ro", w, a))
    BY <1>1, <1>2 DEF Leads, Moves, Shares, Shared, Asserts, Kinds, ReadsWell
  <2> QED
    BY <2>1, OneStep DEF Get
<1>3. ASSUME NEW p, NEW es, ListsWell(t, a, p, es)
      PROVE  Walk(t, c, Iterate(p, es), Shared("ro", w, a), Shared("ro", w, a))
  <2>1. Leads(t, c, [op |-> "iter", prefix |-> p, entries |-> es],
              Shared("ro", w, a), Shared("ro", w, a))
    BY <1>1, <1>3 DEF Leads, Moves, Shares, Shared, Asserts, Kinds, ListsWell
  <2> QED
    BY <2>1, OneStep DEF Iterate
<1> QED
  BY <1>2, <1>3

LEMMA SharedWrites ==
  ASSUME NEW t \in Tests, NEW c, NEW w, NEW known
  PROVE  /\ \A k, v : WritesWell(t, c, known, k, v) =>
              Walk(t, c, Put(0, k, v), Shared("rw", w, Known("none", known)),
                   Shared("rw", w, Known("wrote", known)))
         /\ \A k, n : AddsWell(t, c, known, k, n) =>
              Walk(t, c, Add(k, n), Shared("rw", w, Known("none", known)),
                   Shared("rw", w, Known("wrote", known)))
         /\ CommitsWell(t, c, known) =>
              Walk(t, c, Committed, Shared("rw", w, Known("wrote", known)),
                   Shared("idle", w, Known("done", known \cup {c})))
<1>1. t # "alone"
  BY DEF Tests
<1>2. ASSUME NEW k, NEW v, WritesWell(t, c, known, k, v)
      PROVE  Walk(t, c, Put(0, k, v), Shared("rw", w, Known("none", known)),
                  Shared("rw", w, Known("wrote", known)))
  <2>1. Leads(t, c, [op |-> "write", map |-> 0, key |-> k, val |-> v],
              Shared("rw", w, Known("none", known)), Shared("rw", w, Known("wrote", known)))
    BY <1>1, <1>2 DEF Leads, Moves, Shares, Shared, Asserts, WritesWell, Known
  <2> QED
    BY <2>1, OneStep DEF Put
<1>3. ASSUME NEW k, NEW n, AddsWell(t, c, known, k, n)
      PROVE  Walk(t, c, Add(k, n), Shared("rw", w, Known("none", known)),
                  Shared("rw", w, Known("wrote", known)))
  <2>1. Leads(t, c, [op |-> "add", key |-> k, addend |-> n],
              Shared("rw", w, Known("none", known)), Shared("rw", w, Known("wrote", known)))
    BY <1>1, <1>3 DEF Leads, Moves, Shares, Shared, Asserts, AddsWell, Known
  <2> QED
    BY <2>1, OneStep DEF Add
<1>4. ASSUME CommitsWell(t, c, known)
      PROVE  Walk(t, c, Committed, Shared("rw", w, Known("wrote", known)),
                  Shared("idle", w, Known("done", known \cup {c})))
  <2>1. Leads(t, c, [op |-> "commit"], Shared("rw", w, Known("wrote", known)),
              Shared("idle", w, Known("done", known \cup {c})))
    BY <1>1, <1>4 DEF Leads, Moves, Shares, Shared, Asserts, CommitsWell, Known
  <2> QED
    BY <2>1, OneStep DEF Committed
<1> QED
  BY <1>2, <1>3, <1>4

LEMMA SharedThreads ==
  ASSUME NEW t \in Tests, NEW w, NEW u \in Workers, NEW stage, NEW known
  PROVE  /\ u \notin w /\ Before(t) \subseteq known =>
              Walk(t, "main", Spawn(u), Shared("idle", w, Known(stage, known)),
                   Shared("idle", w \cup {u}, Known(stage, known)))
         /\ u \in w =>
              Walk(t, "main", Join(u), Shared("idle", w, Known(stage, known)),
                   Shared("idle", w, Known(stage, known \cup ({u} \cap Commits(t)))))
<1>1. t # "alone"
  BY DEF Tests
<1>2. ASSUME u \notin w, Before(t) \subseteq known
      PROVE  Leads(t, "main", [op |-> "spawn", thread |-> u],
                   Shared("idle", w, Known(stage, known)),
                   Shared("idle", w \cup {u}, Known(stage, known)))
  BY <1>1, <1>2 DEF Leads, Moves, Shares, Shared, Asserts, Known
<1>3. ASSUME u \in w
      PROVE  Leads(t, "main", [op |-> "join", thread |-> u],
                   Shared("idle", w, Known(stage, known)),
                   Shared("idle", w, Known(stage, known \cup ({u} \cap Commits(t)))))
  BY <1>1, <1>3 DEF Leads, Moves, Shares, Shared, Asserts, Known
<1> QED
  BY <1>2, <1>3, OneStep DEF Spawn, Join

LEMMA SharedTransactions ==
  ASSUME NEW t \in Tests, NEW c, NEW w
  PROVE  /\ \A a, among : a.stage # "wrote" /\ ReadsWell(t, a, 0, TEST_KEY, among) =>
              Walk(t, c, Reader(among), Shared("idle", w, a), Shared("idle", w, a))
         /\ \A known, k, v : WritesWell(t, c, known, k, v) /\ CommitsWell(t, c, known) =>
              Walk(t, c, Writer(k, v), Shared("idle", w, Known("none", known)),
                   Shared("idle", w, Known("done", known \cup {c})))
         /\ \A known, n : AddsWell(t, c, known, TEST_KEY, n) /\ CommitsWell(t, c, known) =>
              Walk(t, c, Adder(n), Shared("idle", w, Known("none", known)),
                   Shared("idle", w, Known("done", known \cup {c})))
         /\ \A known, init : WritesWell(t, c, known, TEST_KEY, init) /\ CommitsWell(t, c, known) =>
              Walk(t, c, setup(init), Shared("idle", w, Known("none", known)),
                   Shared("idle", w, Known("done", known \cup {c})))
<1>1. ASSUME NEW a, NEW among, a.stage # "wrote", ReadsWell(t, a, 0, TEST_KEY, among)
      PROVE  Walk(t, c, Reader(among), Shared("idle", w, a), Shared("idle", w, a))
  <2>1. Walk(t, c, Ro \o Get(0, TEST_KEY, among), Shared("idle", w, a), Shared("ro", w, a))
    BY <1>1, SharedBegins, SharedReads, Walks
  <2> QED
    BY <1>1, <2>1, SharedDrops, Walks DEF Reader
<1>2. ASSUME NEW known, NEW k, NEW v, WritesWell(t, c, known, k, v), CommitsWell(t, c, known)
      PROVE  Walk(t, c, Rw \o Put(0, k, v) \o Committed,
                  Shared("idle", w, Known("none", known)),
                  Shared("idle", w, Known("done", known \cup {c})))
  <2>1. Walk(t, c, Rw \o Put(0, k, v), Shared("idle", w, Known("none", known)),
             Shared("rw", w, Known("wrote", known)))
    BY <1>2, SharedBegins, SharedWrites, Walks
  <2> QED
    BY <1>2, <2>1, SharedWrites, Walks
<1>3. ASSUME NEW known, NEW n, AddsWell(t, c, known, TEST_KEY, n), CommitsWell(t, c, known)
      PROVE  Walk(t, c, Adder(n), Shared("idle", w, Known("none", known)),
                  Shared("idle", w, Known("done", known \cup {c})))
  <2>1. Walk(t, c, Rw \o Add(TEST_KEY, n), Shared("idle", w, Known("none", known)),
             Shared("rw", w, Known("wrote", known)))
    BY <1>3, SharedBegins, SharedWrites, Walks
  <2> QED
    BY <1>3, <2>1, SharedWrites, Walks DEF Adder
<1> QED
  BY <1>1, <1>2, <1>3 DEF Writer, setup

\* Where a thread starts, and where it has to be when it ends.
StartOf(t, c) ==
  IF t = "alone" THEN Start
  ELSE Shared("idle", {}, Known("none", IF c = "main" THEN {} ELSE Before(t)))
EndOf(t, c, y) ==
  /\ y[1] = "idle"
  /\ t \in Tests /\ c \in Commits(t) => y[3].stage = "done"

\* The steps s are those of thread c of the test t.
Fit(t, c, s) == \E y : Walk(t, c, s, StartOf(t, c), y) /\ EndOf(t, c, y)

LEMMA ContentsAt ==
  ASSUME NEW t, NEW C, NEW k \in Keys
  PROVE  ContentsAfter(t, C)[0][k] = ValueAfter(t, C, k)
BY Maps DEF ContentsAfter

\* The threads in D leave what those in C do, but v under the key k.
Differ(t, C, D, k, v) ==
  \A j \in Keys : ValueAfter(t, D, j) = IF j = k THEN v ELSE ValueAfter(t, C, j)

LEMMA WritesIf ==
  ASSUME NEW t, NEW C, NEW D, NEW k, NEW v, k \in Keys, Differ(t, C, D, k, v)
  PROVE  Written(ContentsAfter(t, C), 0, k, v) = ContentsAfter(t, D)
<1> DEFINE X == ContentsAfter(t, C)
           Y == ContentsAfter(t, D)
           W == Written(X, 0, k, v)
<1>1. /\ W = [n \in MapIds |-> W[n]] /\ Y = [n \in MapIds |-> Y[n]]
      /\ \A n \in MapIds : W[n] = [j \in Keys |-> W[n][j]] /\ Y[n] = [j \in Keys |-> Y[n][j]]
  BY DEF ContentsAfter, Written
<1>2. ASSUME NEW n \in MapIds, NEW j \in Keys
      PROVE  W[n][j] = Y[n][j]
  BY DEF ContentsAfter, Written, Differ
<1> HIDE DEF W, Y
<1>3. W = Y
  BY <1>1, <1>2
<1> QED
  BY <1>3 DEF W, Y

\* What the tests have under their keys.
LEMMA ValuesOfTests ==
  ASSUME NEW C, NEW k
  PROVE  /\ ValueAfter("initialize race", C, k)
              = IF k = TEST_KEY /\ "thr0" \in C THEN 2 ELSE None
         /\ ValueAfter("write race", C, k)
              = IF k = TEST_KEY /\ "main" \in C THEN IF "thr0" \in C THEN 2 ELSE 0 ELSE None
         /\ ValueAfter("read modify write", C, k)
              = IF k = TEST_KEY /\ "main" \in C
                THEN (IF "thr0" \in C THEN 5 ELSE 0) + (IF "thr1" \in C THEN 3 ELSE 0)
                ELSE None
         /\ ValueAfter("consistent reads", C, k)
              = IF k = TEST_KEY /\ "main" \in C THEN 7 ELSE None
         /\ ValueAfter("different keys", C, k)
              = IF k = <<1>> /\ "thr0" \in C THEN 1
                ELSE IF k = <<2>> /\ "thr1" \in C THEN 2 ELSE None
<1>1. ValueAfter("initialize race", C, k) = IF k = TEST_KEY /\ "thr0" \in C THEN 2 ELSE None
  BY DEF ValueAfter
<1>2. ValueAfter("write race", C, k)
        = IF k = TEST_KEY /\ "main" \in C THEN IF "thr0" \in C THEN 2 ELSE 0 ELSE None
  BY DEF ValueAfter
<1>3. ValueAfter("read modify write", C, k)
        = IF k = TEST_KEY /\ "main" \in C
          THEN (IF "thr0" \in C THEN 5 ELSE 0) + (IF "thr1" \in C THEN 3 ELSE 0)
          ELSE None
  BY DEF ValueAfter
<1>4. ValueAfter("consistent reads", C, k) = IF k = TEST_KEY /\ "main" \in C THEN 7 ELSE None
  BY DEF ValueAfter
<1>5. ValueAfter("different keys", C, k)
        = IF k = <<1>> /\ "thr0" \in C THEN 1
          ELSE IF k = <<2>> /\ "thr1" \in C THEN 2 ELSE None
  <2>1. <<1>> # <<2>>
    <3>1. PICK a, b : a = <<1>> /\ b = <<2>>
      OBVIOUS
    <3>2. a[1] = 1 /\ b[1] = 2
      BY <3>1
    <3> QED
      BY <3>1, <3>2
  <2> QED
    BY <2>1 DEF ValueAfter
<1> QED
  BY <1>1, <1>2, <1>3, <1>4, <1>5

LEMMA TestNames ==
  /\ "initialize race" \in Tests /\ "write race" \in Tests /\ "read modify write" \in Tests
  /\ "consistent reads" \in Tests /\ "different keys" \in Tests
  /\ "thr0" \in Workers /\ "thr1" \in Workers /\ "main" \notin Workers
  /\ Clients = {"main", "thr0", "thr1"}
BY ThreadsAssumption DEF Tests, Workers

\* A writer's thread, that nothing but its own transaction keeps from its end.
LEMMA WorkerFits ==
  ASSUME NEW t \in Tests, NEW c \in Workers
  PROVE  /\ \A k, v : /\ WritesWell(t, c, Before(t), k, v)
                      /\ CommitsWell(t, c, Before(t))
              => Fit(t, c, Writer(k, v))
         /\ \A n : /\ AddsWell(t, c, Before(t), TEST_KEY, n)
                   /\ CommitsWell(t, c, Before(t))
              => Fit(t, c, Adder(n))
         /\ \A among : /\ ReadsWell(t, Known("none", Before(t)), 0, TEST_KEY, among)
                       /\ c \notin Commits(t)
              => Fit(t, c, Reader(among))
         /\ c \notin Commits(t) => Fit(t, c, <<>>)
<1> DEFINE x == Shared("idle", {}, Known("none", Before(t)))
           y == Shared("idle", {}, Known("done", Before(t) \cup {c}))
<1>1. StartOf(t, c) = x
  BY DEF StartOf, Tests, Workers
<1>2. EndOf(t, c, y) /\ (c \notin Commits(t) => EndOf(t, c, x))
  BY DEF EndOf, Shared, Known
<1>3. ASSUME NEW k, NEW v, WritesWell(t, c, Before(t), k, v), CommitsWell(t, c, Before(t))
      PROVE  Fit(t, c, Writer(k, v))
  <2>1. Walk(t, c, Writer(k, v), x, y)
    BY <1>3, SharedTransactions
  <2> QED
    BY <1>1, <1>2, <2>1, Zenon DEF Fit
<1>4. ASSUME NEW n, AddsWell(t, c, Before(t), TEST_KEY, n), CommitsWell(t, c, Before(t))
      PROVE  Fit(t, c, Adder(n))
  <2>1. Walk(t, c, Adder(n), x, y)
    BY <1>4, SharedTransactions
  <2> QED
    BY <1>1, <1>2, <2>1, Zenon DEF Fit
<1>5. ASSUME NEW among, ReadsWell(t, Known("none", Before(t)), 0, TEST_KEY, among),
             c \notin Commits(t)
      PROVE  Fit(t, c, Reader(among))
  <2>1. Known("none", Before(t)).stage # "wrote"
    BY DEF Known
  <2>2. Walk(t, c, Reader(among), x, x)
    BY <1>5, <2>1, SharedTransactions
  <2> QED
    BY <1>1, <1>2, <1>5, <2>2, Zenon DEF Fit
<1>6. ASSUME c \notin Commits(t)
      PROVE  Fit(t, c, <<>>)
  <2>1. Walk(t, c, <<>>, x, x)
    BY NoStep
  <2> QED
    BY <1>1, <1>2, <1>6, <2>1, Zenon DEF Fit
<1> QED
  BY <1>3, <1>4, <1>5, <1>6

Fits(t, prog) == \A c \in Clients : Fit(t, c, prog[c])

LEMMA FitsIf ==
  ASSUME NEW t, NEW prog, Fit(t, "main", prog["main"]), Fit(t, "thr0", prog["thr0"]),
         Fit(t, "thr1", prog["thr1"])
  PROVE  Fits(t, prog)
BY TestNames DEF Fits

LEMMA MainFits ==
  ASSUME NEW t \in Tests, NEW s, NEW w, NEW stage, NEW known,
         Walk(t, "main", s, Shared("idle", {}, Known("none", {})),
              Shared("idle", w, Known(stage, known))),
         "main" \in Commits(t) => stage = "done"
  PROVE  Fit(t, "main", s)
<1>1. StartOf(t, "main") = Shared("idle", {}, Known("none", {}))
  BY DEF StartOf, Tests
<1>2. EndOf(t, "main", Shared("idle", w, Known(stage, known)))
  BY DEF EndOf, Shared, Known
<1> QED
  BY <1>1, <1>2, Zenon DEF Fit

LEMMA WritesWellIf ==
  ASSUME NEW t, NEW c, NEW known, NEW k \in Keys, NEW v,
         \A C \in Possible(t), j \in Keys : known \subseteq C /\ c \notin C =>
           ValueAfter(t, C \cup {c}, j) = IF j = k THEN v ELSE ValueAfter(t, C, j)
  PROVE  WritesWell(t, c, known, k, v)
<1>1. ASSUME NEW C \in Possible(t), known \subseteq C, c \notin C
      PROVE  Written(ContentsAfter(t, C), 0, k, v) = ContentsAfter(t, C \cup {c})
  <2>1. Differ(t, C, C \cup {c}, k, v)
    BY <1>1 DEF Differ
  <2> QED
    BY <2>1, WritesIf
<1> QED
  BY <1>1 DEF WritesWell

LEMMA AddsWellIf ==
  ASSUME NEW t, NEW c, NEW known, NEW k \in Keys, NEW n,
         \A C \in Possible(t), j \in Keys : known \subseteq C /\ c \notin C =>
           ValueAfter(t, C \cup {c}, j)
             = IF j = k THEN ValueAfter(t, C, k) + n ELSE ValueAfter(t, C, j)
  PROVE  AddsWell(t, c, known, k, n)
<1>1. ASSUME NEW C \in Possible(t), known \subseteq C, c \notin C
      PROVE  Written(ContentsAfter(t, C), 0, k, ContentsAfter(t, C)[0][k] + n)
               = ContentsAfter(t, C \cup {c})
  <2>1. PICK v : v = ValueAfter(t, C, k) + n
    OBVIOUS
  <2>2. Differ(t, C, C \cup {c}, k, v)
    BY <1>1, <2>1 DEF Differ
  <2>3. Written(ContentsAfter(t, C), 0, k, v) = ContentsAfter(t, C \cup {c})
    BY <2>2, WritesIf
  <2>4. ContentsAfter(t, C)[0][k] = ValueAfter(t, C, k)
    BY ContentsAt
  <2> QED
    BY <2>1, <2>3, <2>4
<1> QED
  BY <1>1 DEF AddsWell

LEMMA InitializeRaceFits == Fits("initialize race", read_initialize_race)
<1>0. PICK t : t = "initialize race"
  OBVIOUS
<1> DEFINE x == Shared("idle", {}, Known("none", {}))
           y == Shared("idle", {"thr0"}, Known("none", {}))
           z == Shared("idle", {"thr0"}, Known("none", {} \cup ({"thr0"} \cap Commits(t))))
           s == Spawn("thr0") \o Reader({None, 2}) \o Join("thr0")
<1>1. Commits(t) = {"thr0"} /\ Before(t) = {}
  BY <1>0 DEF Commits, Before
<1>10. \A C, k : ValueAfter(t, C, k) = IF k = TEST_KEY /\ "thr0" \in C THEN 2 ELSE None
  BY <1>0, ValuesOfTests
<1>2. WritesWell(t, "thr0", Before(t), TEST_KEY, 2)
  <2>1. PICK c, k, v, known : c = "thr0" /\ k = TEST_KEY /\ v = 2 /\ known = Before(t)
    OBVIOUS
  <2>2. k \in Keys
    BY <2>1, FixedKeys
  <2>3. \A C, j : ValueAfter(t, C, j) = IF j = k /\ c \in C THEN v ELSE None
    BY <1>10, <2>1
  <2>4. \A C, j : known \subseteq C /\ c \notin C =>
          ValueAfter(t, C \cup {c}, j) = IF j = k THEN v ELSE ValueAfter(t, C, j)
    BY <2>3
  <2>5. WritesWell(t, c, known, k, v)
    BY <2>2, <2>4, WritesWellIf
  <2> QED
    BY <2>1, <2>5
<1>3. ReadsWell(t, Known("none", {}), 0, TEST_KEY, {None, 2})
  <2>1. \A C : ContentsAfter(t, C)[0][TEST_KEY] \in {None, 2}
    BY <1>10, FixedKeys, ContentsAt
  <2> QED
    BY <2>1 DEF ReadsWell
<1>4. CommitsWell(t, "thr0", Before(t)) /\ "thr1" \notin Commits(t) /\ "main" \notin Commits(t)
  BY <1>1 DEF CommitsWell
<1>5. t \in Tests
  BY <1>0, TestNames
<1>6. Walk(t, "main", s, x, z)
  <2>1. Walk(t, "main", Spawn("thr0"), x, y)
    <3>1. {} \cup {"thr0"} = {"thr0"}
      OBVIOUS
    <3>2. "thr0" \notin {} /\ Before(t) \subseteq {}
      BY <1>1
    <3>3. Walk(t, "main", Spawn("thr0"), x, Shared("idle", {} \cup {"thr0"}, Known("none", {})))
      BY <1>5, <3>2, TestNames, SharedThreads
    <3> QED
      BY <3>1, <3>3
  <2>2. Walk(t, "main", Reader({None, 2}), y, y)
    <3>1. Known("none", {}).stage # "wrote"
      BY DEF Known
    <3> QED
      BY <1>3, <1>5, <3>1, SharedTransactions
  <2>3. Walk(t, "main", Join("thr0"), y, z)
    BY <1>5, TestNames, SharedThreads
  <2> HIDE DEF x, y, z
  <2>4. Walk(t, "main", Spawn("thr0") \o Reader({None, 2}), x, y)
    BY <2>1, <2>2, Walks
  <2> QED
    BY <2>3, <2>4, Walks
<1> HIDE DEF s
<1>7. Fit(t, "main", s)
  BY <1>4, <1>5, <1>6, MainFits
<1>8. Fit(t, "thr0", Writer(TEST_KEY, 2)) /\ Fit(t, "thr1", <<>>)
  BY <1>2, <1>4, <1>5, TestNames, WorkerFits
<1>9. /\ read_initialize_race["main"] = s /\ read_initialize_race["thr1"] = <<>>
      /\ read_initialize_race["thr0"] = Writer(TEST_KEY, 2)
  BY DEF read_initialize_race, Alone, s
<1> QED
  BY <1>7, <1>8, <1>9, <1>0, FitsIf

\* The contents that a test of two writers starts from.
LEMMA SetUpFits ==
  ASSUME NEW t \in Tests, NEW k, NEW v, NEW c, c = "main", k = TEST_KEY, c \in Commits(t),
         \A j \in Keys : /\ ValueAfter(t, {}, j) = None
                         /\ ValueAfter(t, {c}, j) = IF j = k THEN v ELSE None
  PROVE  Walk(t, c, setup(v), Shared("idle", {}, Known("none", {})),
              Shared("idle", {}, Known("done", {c})))
<1>1. Before(t) = {c}
  BY DEF Before
<1>2. ASSUME NEW C \in Possible(t), c \notin C
      PROVE  C = {}
  BY <1>1, <1>2 DEF Possible
<1>3. PICK none : none = {}
  OBVIOUS
<1>4. none \cup {c} = {c} /\ k \in Keys
  BY <1>3, FixedKeys
<1>5. \A C \in Possible(t), j \in Keys : none \subseteq C /\ c \notin C =>
        ValueAfter(t, C \cup {c}, j) = IF j = k THEN v ELSE ValueAfter(t, C, j)
  BY <1>2, <1>3, <1>4
<1>6. WritesWell(t, c, none, k, v)
  BY <1>4, <1>5, WritesWellIf
<1>7. CommitsWell(t, c, none)
  BY <1>1 DEF CommitsWell
<1>8. Walk(t, c, setup(v), Shared("idle", {}, Known("none", none)),
           Shared("idle", {}, Known("done", none \cup {c})))
  BY <1>6, <1>7, SharedTransactions
<1> QED
  BY <1>3, <1>4, <1>8

LEMMA WriteRaceFits == Fits("write race", read_write_race)
<1>0. PICK t : t = "write race"
  OBVIOUS
<1> DEFINE x == Shared("idle", {}, Known("none", {}))
           v == Shared("idle", {}, Known("done", {"main"}))
           y == Shared("idle", {} \cup {"thr0"}, Known("done", {"main"}))
           z == Shared("idle", {} \cup {"thr0"},
                       Known("done", {"main"} \cup ({"thr0"} \cap Commits(t))))
           s == setup(0) \o Spawn("thr0") \o Reader({0, 2}) \o Join("thr0")
<1>1. Commits(t) = {"main", "thr0"} /\ Before(t) = {"main"}
  BY <1>0 DEF Commits, Before
<1>2. \A C, k : ValueAfter(t, C, k)
                  = IF k = TEST_KEY /\ "main" \in C THEN IF "thr0" \in C THEN 2 ELSE 0 ELSE None
  BY <1>0, ValuesOfTests
<1>3. WritesWell(t, "thr0", Before(t), TEST_KEY, 2)
  <2>1. PICK c, k, u, known : c = "thr0" /\ k = TEST_KEY /\ u = 2 /\ known = Before(t)
    OBVIOUS
  <2>2. k \in Keys
    BY <2>1, FixedKeys
  <2>3. \A C, j : known \subseteq C /\ c \notin C =>
          ValueAfter(t, C \cup {c}, j) = IF j = k THEN u ELSE ValueAfter(t, C, j)
    BY <1>1, <1>2, <2>1
  <2>4. WritesWell(t, c, known, k, u)
    BY <2>2, <2>3, WritesWellIf
  <2> QED
    BY <2>1, <2>4
<1>4. ReadsWell(t, Known("done", {"main"}), 0, TEST_KEY, {0, 2})
  <2>1. \A C : "main" \in C => ContentsAfter(t, C)[0][TEST_KEY] \in {0, 2}
    BY <1>2, FixedKeys, ContentsAt
  <2> QED
    BY <2>1 DEF ReadsWell, Known
<1>5. t \in Tests
  BY <1>0, TestNames
<1>6. Walk(t, "main", setup(0), x, v)
  <2>1. PICK c, k, u : c = "main" /\ k = TEST_KEY /\ u = 0
    OBVIOUS
  <2>2. c \in Commits(t)
    BY <1>1, <2>1
  <2>3. \A j \in Keys : /\ ValueAfter(t, {}, j) = None
                        /\ ValueAfter(t, {c}, j) = IF j = k THEN u ELSE None
    BY <1>2, <2>1
  <2>4. Walk(t, c, setup(u), Shared("idle", {}, Known("none", {})),
             Shared("idle", {}, Known("done", {c})))
    BY <1>5, <2>1, <2>2, <2>3, SetUpFits
  <2> QED
    BY <2>1, <2>4
<1>7. Walk(t, "main", s, x, z)
  <2>1. Walk(t, "main", Spawn("thr0"), v, y)
    BY <1>1, <1>5, TestNames, SharedThreads
  <2>2. Walk(t, "main", Reader({0, 2}), y, y)
    <3>1. Known("done", {"main"}).stage # "wrote"
      BY DEF Known
    <3> QED
      BY <1>4, <1>5, <3>1, SharedTransactions
  <2>3. Walk(t, "main", Join("thr0"), y, z)
    BY <1>5, TestNames, SharedThreads
  <2> HIDE DEF x, y, z, v
  <2>4. Walk(t, "main", setup(0) \o Spawn("thr0"), x, y)
    BY <1>6, <2>1, Walks
  <2>5. Walk(t, "main", setup(0) \o Spawn("thr0") \o Reader({0, 2}), x, y)
    BY <2>2, <2>4, Walks
  <2> QED
    BY <2>3, <2>5, Walks
<1> HIDE DEF s
<1>8. Fit(t, "main", s)
  BY <1>5, <1>7, MainFits
<1>9. CommitsWell(t, "thr0", Before(t)) /\ "thr1" \notin Commits(t)
  BY <1>1 DEF CommitsWell
<1>10. Fit(t, "thr0", Writer(TEST_KEY, 2)) /\ Fit(t, "thr1", <<>>)
  BY <1>3, <1>5, <1>9, TestNames, WorkerFits
<1>11. /\ read_write_race["main"] = s /\ read_write_race["thr1"] = <<>>
       /\ read_write_race["thr0"] = Writer(TEST_KEY, 2)
  BY DEF read_write_race, Alone, s
<1> QED
  BY <1>0, <1>8, <1>10, <1>11, FitsIf

\* main spawns both threads and joins them.
LEMMA TwoThreads ==
  ASSUME NEW t \in Tests, NEW s, NEW x, NEW stage, NEW known, Before(t) \subseteq known,
         Walk(t, "main", s, x, Shared("idle", {} \cup {"thr0"}, Known(stage, known)))
  PROVE  Walk(t, "main", s \o Spawn("thr1") \o Join("thr0") \o Join("thr1"), x,
              Shared("idle", {"thr0", "thr1"},
                     Known(stage, known \cup (Commits(t) \cap Workers))))
<1> DEFINE w == {"thr0", "thr1"}
           k1 == known \cup ({"thr0"} \cap Commits(t))
           k2 == k1 \cup ({"thr1"} \cap Commits(t))
           v == Shared("idle", {} \cup {"thr0"}, Known(stage, known))
           y0 == Shared("idle", ({} \cup {"thr0"}) \cup {"thr1"}, Known(stage, known))
           y == Shared("idle", w, Known(stage, known))
           y1 == Shared("idle", w, Known(stage, k1))
           y2 == Shared("idle", w, Known(stage, k2))
<1>1. Walk(t, "main", Spawn("thr1"), v, y)
  <2>1. "thr1" \notin ({} \cup {"thr0"}) /\ ({} \cup {"thr0"}) \cup {"thr1"} = w
    OBVIOUS
  <2>2. Walk(t, "main", Spawn("thr1"), v, y0)
    BY <2>1, TestNames, SharedThreads
  <2> QED
    BY <2>1, <2>2
<1>2. Walk(t, "main", Join("thr0"), y, y1)
  BY TestNames, SharedThreads
<1>3. Walk(t, "main", Join("thr1"), y1, y2)
  BY TestNames, SharedThreads
<1>4. k2 = known \cup (Commits(t) \cap Workers)
  BY TestNames DEF Workers
<1> HIDE DEF v, y, y1, y2, k1, k2
<1>5. Walk(t, "main", s \o Spawn("thr1"), x, y)
  BY <1>1, Walks DEF v
<1>6. Walk(t, "main", s \o Spawn("thr1") \o Join("thr0"), x, y1)
  BY <1>2, <1>5, Walks
<1>7. Walk(t, "main", s \o Spawn("thr1") \o Join("thr0") \o Join("thr1"), x, y2)
  BY <1>3, <1>6, Walks
<1> QED
  BY <1>4, <1>7 DEF y2

LEMMA SetUpAndTwoThreads ==
  ASSUME NEW t \in Tests, NEW v, "main" \in Commits(t),
         Walk(t, "main", setup(v), Shared("idle", {}, Known("none", {})),
              Shared("idle", {}, Known("done", {"main"})))
  PROVE  Walk(t, "main",
              setup(v) \o Spawn("thr0") \o Spawn("thr1") \o Join("thr0") \o Join("thr1"),
              Shared("idle", {}, Known("none", {})),
              Shared("idle", {"thr0", "thr1"},
                     Known("done", {"main"} \cup (Commits(t) \cap Workers))))
<1>1. Before(t) \subseteq {"main"}
  BY DEF Before
<1>2. Walk(t, "main", Spawn("thr0"), Shared("idle", {}, Known("done", {"main"})),
           Shared("idle", {} \cup {"thr0"}, Known("done", {"main"})))
  BY <1>1, TestNames, SharedThreads
<1>3. Walk(t, "main", setup(v) \o Spawn("thr0"), Shared("idle", {}, Known("none", {})),
           Shared("idle", {} \cup {"thr0"}, Known("done", {"main"})))
  BY <1>2, Walks
<1> QED
  BY <1>1, <1>3, TwoThreads

LEMMA ConsistentReadsFits == Fits("consistent reads", threaded_reads_consistent)
<1>0. PICK t : t = "consistent reads"
  OBVIOUS
<1> DEFINE x == Shared("idle", {}, Known("none", {}))
           v == Shared("idle", {}, Known("done", {"main"}))
           s == setup(7) \o Spawn("thr0") \o Spawn("thr1") \o Join("thr0") \o Join("thr1")
<1>1. Commits(t) = {"main"} /\ Before(t) = {"main"}
  BY <1>0 DEF Commits, Before
<1>2. \A C, k : ValueAfter(t, C, k) = IF k = TEST_KEY /\ "main" \in C THEN 7 ELSE None
  BY <1>0, ValuesOfTests
<1>3. t \in Tests
  BY <1>0, TestNames
<1>4. ReadsWell(t, Known("none", Before(t)), 0, TEST_KEY, {7})
  <2>1. \A C : "main" \in C => ContentsAfter(t, C)[0][TEST_KEY] \in {7}
    BY <1>2, FixedKeys, ContentsAt
  <2> QED
    BY <1>1, <2>1 DEF ReadsWell, Known
<1>5. Walk(t, "main", setup(7), x, v)
  <2>1. PICK c, k, u : c = "main" /\ k = TEST_KEY /\ u = 7
    OBVIOUS
  <2>2. c \in Commits(t)
    BY <1>1, <2>1
  <2>3. \A j \in Keys : /\ ValueAfter(t, {}, j) = None
                        /\ ValueAfter(t, {c}, j) = IF j = k THEN u ELSE None
    BY <1>2, <2>1
  <2>4. Walk(t, c, setup(u), Shared("idle", {}, Known("none", {})),
             Shared("idle", {}, Known("done", {c})))
    BY <1>3, <2>1, <2>2, <2>3, SetUpFits
  <2> QED
    BY <2>1, <2>4
<1>6. Walk(t, "main", s, x,
           Shared("idle", {"thr0", "thr1"},
                  Known("done", {"main"} \cup (Commits(t) \cap Workers))))
  BY <1>1, <1>3, <1>5, SetUpAndTwoThreads
<1> HIDE DEF s
<1>7. Fit(t, "main", s)
  BY <1>3, <1>6, MainFits
<1>8. Fit(t, "thr0", Reader({7})) /\ Fit(t, "thr1", Reader({7}))
  BY <1>1, <1>3, <1>4, TestNames, WorkerFits
<1>9. /\ threaded_reads_consistent["main"] = s
      /\ threaded_reads_consistent["thr0"] = Reader({7})
      /\ threaded_reads_consistent["thr1"] = Reader({7})
  BY DEF threaded_reads_consistent, s
<1> QED
  BY <1>0, <1>7, <1>8, <1>9, FitsIf

LEMMA ReadModifyWriteFits == Fits("read modify write", commutative_read_modify_write)
<1>0. PICK t : t = "read modify write"
  OBVIOUS
<1> DEFINE x == Shared("idle", {}, Known("none", {}))
           v == Shared("idle", {}, Known("done", {"main"}))
           all == {"main"} \cup (Commits(t) \cap Workers)
           y == Shared("idle", {"thr0", "thr1"}, Known("done", all))
           s == setup(0) \o Spawn("thr0") \o Spawn("thr1") \o Join("thr0") \o Join("thr1")
           u == s \o Reader({8})
<1>1. Commits(t) = {"main", "thr0", "thr1"} /\ Before(t) = {"main"}
  BY <1>0 DEF Commits, Before
<1>2. \A C, k : ValueAfter(t, C, k)
                  = IF k = TEST_KEY /\ "main" \in C
                    THEN (IF "thr0" \in C THEN 5 ELSE 0) + (IF "thr1" \in C THEN 3 ELSE 0)
                    ELSE None
  BY <1>0, ValuesOfTests
<1>3. t \in Tests
  BY <1>0, TestNames
<1>4. /\ AddsWell(t, "thr0", Before(t), TEST_KEY, 5)
      /\ AddsWell(t, "thr1", Before(t), TEST_KEY, 3)
  <2>1. ASSUME NEW c, NEW n, (c = "thr0" /\ n = 5) \/ (c = "thr1" /\ n = 3)
        PROVE  AddsWell(t, c, Before(t), TEST_KEY, n)
    <3>1. PICK k, known : k = TEST_KEY /\ known = Before(t)
      OBVIOUS
    <3>2. k \in Keys
      BY <3>1, FixedKeys
    <3>3. \A C, j : known \subseteq C /\ c \notin C =>
            ValueAfter(t, C \cup {c}, j)
              = IF j = k THEN ValueAfter(t, C, k) + n ELSE ValueAfter(t, C, j)
      <4>1. ASSUME NEW C, NEW j, known \subseteq C, c \notin C
            PROVE  ValueAfter(t, C \cup {c}, j)
                     = IF j = k THEN ValueAfter(t, C, k) + n ELSE ValueAfter(t, C, j)
        <5>1. /\ "main" \in C
              /\ (c = "thr0" /\ n = 5) \/ (c = "thr1" /\ n = 3)
          BY <1>1, <2>1, <3>1, <4>1
        <5>2. CASE c = "thr0" /\ n = 5
          BY <1>2, <3>1, <4>1, <5>1, <5>2
        <5>3. CASE c = "thr1" /\ n = 3
          BY <1>2, <3>1, <4>1, <5>1, <5>3
        <5> QED
          BY <5>1, <5>2, <5>3
      <4> QED
        BY <4>1
    <3>4. AddsWell(t, c, known, k, n)
      BY <3>2, <3>3, AddsWellIf
    <3> QED
      BY <3>1, <3>4
  <2> QED
    BY <2>1
<1>5. Walk(t, "main", setup(0), x, v)
  <2>1. PICK c, k, z : c = "main" /\ k = TEST_KEY /\ z = 0
    OBVIOUS
  <2>2. c \in Commits(t)
    BY <1>1, <2>1
  <2>3. \A j \in Keys : /\ ValueAfter(t, {}, j) = None
                        /\ ValueAfter(t, {c}, j) = IF j = k THEN z ELSE None
    BY <1>2, <2>1
  <2>4. Walk(t, c, setup(z), Shared("idle", {}, Known("none", {})),
             Shared("idle", {}, Known("done", {c})))
    BY <1>3, <2>1, <2>2, <2>3, SetUpFits
  <2> QED
    BY <2>1, <2>4
<1>6. Walk(t, "main", s, x, y)
  BY <1>1, <1>3, <1>5, SetUpAndTwoThreads
<1>7. Walk(t, "main", Reader({8}), y, y)
  <2>1. Known("done", all).stage # "wrote" /\ Known("done", all).known = all
    BY DEF Known
  <2>2. "main" \in all /\ "thr0" \in all /\ "thr1" \in all
    BY <1>1, TestNames
  <2>3. \A C : all \subseteq C => ContentsAfter(t, C)[0][TEST_KEY] = 8
    BY <1>2, <2>2, FixedKeys, ContentsAt
  <2> HIDE DEF all
  <2>4. ReadsWell(t, Known("done", all), 0, TEST_KEY, {8})
    BY <2>1, <2>3 DEF ReadsWell
  <2> QED
    BY <1>3, <2>1, <2>4, SharedTransactions
<1> HIDE DEF s, y, all
<1>8. Walk(t, "main", u, x, y)
  BY <1>6, <1>7, Walks
<1> HIDE DEF u
<1>9. Fit(t, "main", u)
  BY <1>3, <1>8, MainFits DEF y
<1>10. CommitsWell(t, "thr0", Before(t)) /\ CommitsWell(t, "thr1", Before(t))
  BY <1>1 DEF CommitsWell
<1>11. Fit(t, "thr0", Adder(5)) /\ Fit(t, "thr1", Adder(3))
  BY <1>3, <1>4, <1>10, TestNames, WorkerFits
<1>12. /\ commutative_read_modify_write["main"] = u
       /\ commutative_read_modify_write["thr0"] = Adder(5)
       /\ commutative_read_modify_write["thr1"] = Adder(3)
  BY DEF commutative_read_modify_write, u, s
<1> QED
  BY <1>0, <1>9, <1>11, <1>12, FitsIf

\* The entries that write_different_keys_and_iterate expects.
LEMMA TwoEntries ==
  ASSUME NEW es, NEW k, NEW l, k = << 1 >>, l = << 2 >>, es = << <<k, 1>>, <<l, 2>> >>
  PROVE  /\ k \in Keys /\ l \in Keys /\ k # l
         /\ Rising(es) /\ Len(es) = 2 /\ es[1] = <<k, 1>> /\ es[2] = <<l, 2>>
         /\ Finds(es, <<>>, 1, 2, 2, es)
<1>1. k \in Keys /\ l \in Keys
  <2>1. PICK x, y : x = 1 /\ y = 2
    OBVIOUS
  <2>2. k = <<x>> /\ l = <<y>> /\ x \in 0 .. 3 /\ y \in 0 .. 3
    BY <2>1
  <2>3. \A z \in 0 .. 3 : <<z>> \in {<<z1>> : z1 \in 0 .. 3}
    OBVIOUS
  <2>4. <<x>> \in Keys /\ <<y>> \in Keys
    BY <2>2, <2>3, FixedKeysAssumption, Zenon
  <2> QED
    BY <2>2, <2>4
<1>2. Spelt(k, 1, -1, -1) /\ Spelt(l, 2, -1, -1)
  <2>1. PICK x \in 0 .. 255, y \in 0 .. 255 : x = 1 /\ y = 2
    OBVIOUS
  <2>2. Spelt(k, x, -1, -1) /\ Spelt(l, y, -1, -1)
    BY <1>1, <2>1, OneByte
  <2> QED
    BY <2>1, <2>2
<1>3. k \in Short /\ l \in Short /\ Code[k] < Code[l]
  <2>1. /\ k \in Short /\ Code[k] = Number(1, -1, -1)
        /\ l \in Short /\ Code[l] = Number(2, -1, -1)
    BY <1>2, Zenon DEF Spelt
  <2>2. Number(1, -1, -1) < Number(2, -1, -1)
    BY DEF Number
  <2> QED
    BY <2>1, <2>2
<1>4. es[1] = <<k, 1>> /\ es[2] = <<l, 2>> /\ Len(es) = 2
  OBVIOUS
<1>5. PICK n \in Nat : n = 2
  OBVIOUS
<1>6. es = [i \in 1 .. n |-> es[i]]
  BY <1>5
<1>7. \A i \in 1 .. n : es[i] \in Short \X Vals
  BY <1>3, <1>4, <1>5, SuiteDataAssumption
<1>8. ASSUME NEW i \in 1 .. n, NEW j \in 1 .. n, i < j
      PROVE  Code[es[i][1]] < Code[es[j][1]]
  <2>1. i = 1 /\ j = 2
    BY <1>5, <1>8
  <2>2. es[1][1] = k /\ es[2][1] = l
    BY <1>4
  <2>3. es[i][1] = k /\ es[j][1] = l
    BY <2>1, <2>2
  <2>4. Code[k] < Code[l]
    BY <1>3
  <2> QED
    BY <2>3, <2>4, Zenon
<1>9. Rising(es)
  <2>1. PICK fs : fs = es
    OBVIOUS
  <2>2. /\ fs = [i \in 1 .. n |-> fs[i]]
        /\ \A i \in 1 .. n : fs[i] \in Short \X Vals
    BY <1>6, <1>7, <2>1, Zenon
  <2>3. \A i, j \in 1 .. n : i < j => Code[fs[i][1]] < Code[fs[j][1]]
    BY <1>8, <2>1, Zenon
  <2>4. Rising(fs) /\ Len(fs) = n
    BY <2>2, <2>3, RisingIs
  <2> QED
    BY <2>1, <2>4
<1>10. k # l
  <2>1. k[1] = 1 /\ l[1] = 2
    OBVIOUS
  <2> QED
    BY <2>1
<1>11. \A i \in 1 .. Len(es) : StartsWith(es[i][1], <<>>)
  <2>1. StartsWith(k, <<>>) /\ StartsWith(l, <<>>)
    BY <1>2, Zenon DEF Spelt
  <2>2. \A i \in 1 .. Len(es) : i = 1 \/ i = 2
    BY <1>4
  <2> QED
    BY <1>4, <2>1, <2>2
<1>12. Finds(es, <<>>, 1, 2, 2, es)
  <2>1. /\ 1 \in 1 .. Len(es) + 1 /\ 2 \in 1 - 1 .. Len(es)
        /\ \A i \in 1 .. Len(es) : StartsWith(es[i][1], <<>>) <=> 1 <= i /\ i <= 2
        /\ 2 = 2 - 1 + 1
    BY <1>4, <1>11
  <2>2. es = [i \in 1 .. 2 |-> es[i]]
    BY <1>5, <1>6
  <2>3. \A i \in 1 .. 2 : es[i] = es[1 + i - 1]
    OBVIOUS
  <2> QED
    BY <2>1, <2>2, <2>3, Zenon DEF Finds
<1> QED
  BY <1>1, <1>4, <1>9, <1>10, <1>12, Zenon

LEMMA DifferentKeysFits == Fits("different keys", write_different_keys_and_iterate)
<1>0. PICK t : t = "different keys"
  OBVIOUS
<1>1. PICK k, l, es : k = <<1>> /\ l = <<2>> /\ es = << <<k, 1>>, <<l, 2>> >>
  OBVIOUS
<1> DEFINE x == Shared("idle", {}, Known("none", {}))
           v == Shared("idle", {} \cup {"thr0"}, Known("none", {}))
           all == {} \cup (Commits(t) \cap Workers)
           w == {"thr0", "thr1"}
           y == Shared("idle", w, Known("none", all))
           z == Shared("ro", w, Known("none", all))
           s == Spawn("thr0") \o Spawn("thr1") \o Join("thr0") \o Join("thr1")
           u == s \o Ro \o Iterate(<<>>, es) \o Drop
<1>2. Commits(t) = {"thr0", "thr1"} /\ Before(t) = {}
  BY <1>0 DEF Commits, Before
<1>3. \A C, j : ValueAfter(t, C, j) = IF j = k /\ "thr0" \in C THEN 1
                                      ELSE IF j = l /\ "thr1" \in C THEN 2 ELSE None
  BY <1>0, <1>1, ValuesOfTests
<1>4. t \in Tests
  BY <1>0, TestNames
<1>5. /\ k \in Keys /\ l \in Keys /\ k # l
      /\ Rising(es) /\ Len(es) = 2 /\ es[1] = <<k, 1>> /\ es[2] = <<l, 2>>
      /\ Finds(es, <<>>, 1, 2, 2, es)
  BY <1>1, TwoEntries
<1>6. WritesWell(t, "thr0", Before(t), k, 1) /\ WritesWell(t, "thr1", Before(t), l, 2)
  <2>1. ASSUME NEW c, NEW j, NEW n,
               (c = "thr0" /\ j = k /\ n = 1) \/ (c = "thr1" /\ j = l /\ n = 2)
        PROVE  WritesWell(t, c, Before(t), j, n)
    <3>1. ASSUME NEW C, NEW i, c \notin C
          PROVE  ValueAfter(t, C \cup {c}, i) = IF i = j THEN n ELSE ValueAfter(t, C, i)
      <4>1. CASE c = "thr0" /\ j = k /\ n = 1
        BY <1>3, <1>5, <3>1, <4>1
      <4>2. CASE c = "thr1" /\ j = l /\ n = 2
        BY <1>3, <1>5, <3>1, <4>2
      <4> QED
        BY <2>1, <4>1, <4>2
    <3>2. PICK known : known = Before(t)
      OBVIOUS
    <3>3. j \in Keys
      BY <1>5, <2>1
    <3>4. WritesWell(t, c, known, j, n)
      BY <3>1, <3>3, WritesWellIf
    <3> QED
      BY <3>2, <3>4
  <2> QED
    BY <2>1
<1>7. ListsWell(t, Known("none", all), <<>>, es)
  <2>1. ASSUME NEW C, "thr0" \in C, "thr1" \in C
        PROVE  Iter(ContentsAfter(t, C)[0], <<>>) = es
    <3> DEFINE M == ContentsAfter(t, C)[0]
    <3>1. \A j \in Keys : M[j] = IF j = k THEN 1 ELSE IF j = l THEN 2 ELSE None
      BY <1>3, <2>1, ContentsAt
    <3> HIDE DEF M
    <3>2. Lists(M, es)
      <4>1. \A i \in 1 .. Len(es) : M[es[i][1]] = es[i][2]
        BY <1>5, <3>1
      <4>2. \A j \in Keys : M[j] # None => \E i \in 1 .. Len(es) : j = es[i][1]
        BY <1>5, <3>1
      <4> QED
        BY <1>5, <4>1, <4>2 DEF Lists, Rising
    <3>3. Iter(M, <<>>) = es
      BY <1>5, <3>2, Picks, Zenon
    <3> QED
      BY <3>3 DEF M
  <2>2. Known("none", all).known = all /\ "thr0" \in all /\ "thr1" \in all
    BY <1>2, TestNames DEF Known
  <2> HIDE DEF all
  <2> QED
    BY <2>1, <2>2 DEF ListsWell
<1>8. Walk(t, "main", s, x, y)
  <2>1. Walk(t, "main", Spawn("thr0"), x, v)
    BY <1>2, <1>4, TestNames, SharedThreads
  <2>2. Before(t) \subseteq {}
    BY <1>2
  <2> QED
    BY <1>4, <2>1, <2>2, TwoThreads
<1>9. Walk(t, "main", u, x, y)
  <2>1. Known("none", all).stage # "wrote"
    BY DEF Known
  <2>2. Walk(t, "main", Ro, y, z)
    BY <1>4, SharedBegins
  <2>3. Walk(t, "main", Iterate(<<>>, es), z, z)
    BY <1>4, <1>7, <2>1, SharedReads
  <2>4. Walk(t, "main", Drop, z, y)
    BY <1>4, <2>1, SharedDrops
  <2> HIDE DEF s, x, y, z
  <2>5. Walk(t, "main", s \o Ro, x, z)
    BY <1>8, <2>2, Walks
  <2>6. Walk(t, "main", s \o Ro \o Iterate(<<>>, es), x, z)
    BY <2>3, <2>5, Walks
  <2> QED
    BY <2>4, <2>6, Walks
<1>10. "main" \notin Commits(t)
  BY <1>2
<1> HIDE DEF u, all
<1>11. Fit(t, "main", u)
  BY <1>4, <1>9, <1>10, MainFits
<1>12. CommitsWell(t, "thr0", Before(t)) /\ CommitsWell(t, "thr1", Before(t))
  BY <1>2 DEF CommitsWell
<1>13. Fit(t, "thr0", Writer(k, 1)) /\ Fit(t, "thr1", Writer(l, 2))
  BY <1>4, <1>6, <1>12, TestNames, WorkerFits
<1>14. /\ write_different_keys_and_iterate["main"] = u
       /\ write_different_keys_and_iterate["thr0"] = Writer(k, 1)
       /\ write_different_keys_and_iterate["thr1"] = Writer(l, 2)
  BY <1>1 DEF write_different_keys_and_iterate, u
<1> QED
  BY <1>0, <1>11, <1>13, <1>14, FitsIf

\* A test of one thread.
LEMMA AloneFits ==
  ASSUME NEW s, Plays(s)
  PROVE  Fits("alone", Alone(s))
<1>0. PICK t : t = "alone"
  OBVIOUS
<1>1. t \notin Tests
  BY <1>0 DEF Tests
<1>2. Fit(t, "main", s)
  <2>1. PICK S, K : Walk(t, "main", s, Start, Idle(S, K))
    BY <1>0 DEF Plays, Goes
  <2>2. StartOf(t, "main") = Start /\ EndOf(t, "main", Idle(S, K))
    BY <1>0, <1>1 DEF StartOf, EndOf, Idle
  <2> QED
    BY <2>1, <2>2, Zenon DEF Fit
<1>3. Fit(t, "thr0", <<>>) /\ Fit(t, "thr1", <<>>)
  <2>1. ASSUME NEW c
        PROVE  Fit(t, c, <<>>)
    <3>1. StartOf(t, c) = Start /\ EndOf(t, c, Start)
      BY <1>0, <1>1 DEF StartOf, EndOf, Start, Idle
    <3>2. Walk(t, c, <<>>, Start, Start)
      BY NoStep
    <3> QED
      BY <3>1, <3>2, Zenon DEF Fit
  <2> QED
    BY <2>1
<1>4. Alone(s)["main"] = s /\ Alone(s)["thr0"] = <<>> /\ Alone(s)["thr1"] = <<>>
  BY DEF Alone
<1> QED
  BY <1>0, <1>2, <1>3, <1>4, FitsIf

\* Every test fits.
LEMMA ProgramsFit ==
  ASSUME SuiteInit
  PROVE  \E t \in Tests \cup {"alone"} : Fits(t, program)
<1>1. ASSUME program \in concurrent
      PROVE  \E t \in Tests : Fits(t, program)
  BY <1>1, TestNames, InitializeRaceFits, WriteRaceFits, ReadModifyWriteFits,
     ConsistentReadsFits, DifferentKeysFits DEF concurrent
<1>2. ASSUME NEW s \in basic
      PROVE  Plays(s)
  BY put_and_commit_plays, put_and_abort_plays, put_two_under_different_keys_plays,
     put_twice_then_commit_read_last_plays, put_iterator_count_matches_plays,
     put_and_iterate_over_prefixes_plays, put_and_iterate_delete_some_plays DEF basic
<1>3. ASSUME NEW s \in property
      PROVE  Plays(s)
  BY overwrite_and_abort_plays, last_write_wins_plays, add_and_delete_plays,
     add_and_delete_some_plays, add_modify_abort_modify_commit_plays,
     add_modify_abort_replay_commit_plays, db_writes_do_not_interfere_plays,
     post_commit_consistency_plays, empty_after_abort_plays, prefix_iteration_plays
     DEF property
<1>4. CASE program \in {Alone(s) : s \in basic \cup property}
  <2>1. PICK s \in basic \cup property : program = Alone(s)
    BY <1>4
  <2> QED
    BY <1>2, <1>3, <2>1, AloneFits
<1> QED
  BY <1>1, <1>4 DEF SuiteInit

-----------------------------------------------------------------------------
(* Running a test: the order of its steps *)

\* Which test runs, the places that its threads pass, and where they are.
TestOf(prog) == CHOOSE t : t \in Tests \cup {"alone"} /\ Fits(t, prog)
Test == TestOf(program)

RouteOf(t, c, s) ==
  CHOOSE p : Path(t, c, s, p) /\ p[1] = StartOf(t, c) /\ EndOf(t, c, p[Len(s) + 1])
Route(c) == RouteOf(Test, c, program[c])
Place(c) == Route(c)[IF pc[c] = 0 THEN 1 ELSE pc[c]]

\* A thread that runs a test has its steps all before it or is on its way.
ProgramInv ==
  /\ Test \in Tests \cup {"alone"}
  /\ \A c \in Clients :
       /\ Len(program[c]) \in Nat
       /\ Path(Test, c, program[c], Route(c))
       /\ Route(c)[1] = StartOf(Test, c)
       /\ EndOf(Test, c, Route(c)[Len(program[c]) + 1])

StateInv ==
  /\ blocking \subseteq {"ro", "rw"} \X {"ro", "rw"}
  /\ mode \in [Clients -> Modes]
  /\ pc \in [Clients -> Nat]
  /\ \A c \in Clients : pc[c] <= Len(program[c]) + 1

\* It has the transaction open, and main has spawned the threads, that the steps
\* behind it have begun and spawned.
PlaceInv ==
  /\ \A c \in Clients : mode[c] = Place(c)[1]
  /\ pc["main"] > 0
  /\ Place("main")[2] = {t \in Workers : pc[t] > 0}

OrderInv == ProgramInv /\ StateInv /\ PlaceInv

LEMMA StartsIdle ==
  ASSUME NEW t, NEW c
  PROVE  StartOf(t, c)[1] = "idle" /\ StartOf(t, c)[2] = {}
BY DEF StartOf, Start, Idle, Shared

LEMMA RoutesOf ==
  ASSUME NEW t, NEW c, NEW s, Fit(t, c, s)
  PROVE  /\ Len(s) \in Nat
         /\ Path(t, c, s, RouteOf(t, c, s)) /\ RouteOf(t, c, s)[1] = StartOf(t, c)
         /\ EndOf(t, c, RouteOf(t, c, s)[Len(s) + 1])
<1>1. Len(s) \in Nat
  BY DEF Fit, Walk, IsSequence
<1>2. \E p : Path(t, c, s, p) /\ p[1] = StartOf(t, c) /\ EndOf(t, c, p[Len(s) + 1])
  BY DEF Fit, Walk
<1>3. /\ Path(t, c, s, RouteOf(t, c, s)) /\ RouteOf(t, c, s)[1] = StartOf(t, c)
      /\ EndOf(t, c, RouteOf(t, c, s)[Len(s) + 1])
  BY <1>2, Zenon DEF RouteOf
<1> QED
  BY <1>1, <1>3

LEMMA InitInv ==
  ASSUME SuiteInit
  PROVE  OrderInv
<1> USE ThreadsAssumption
<1>1. Test \in Tests \cup {"alone"} /\ Fits(Test, program)
  BY ProgramsFit, Zenon DEF Test, TestOf
<1>2. ProgramInv
  BY <1>1, RoutesOf DEF ProgramInv, Route, Fits
<1>3. StateInv
  <2>1. blocking \subseteq {"ro", "rw"} \X {"ro", "rw"}
    BY DEF SuiteInit, Mutex, RwLock, OneWriter, Resizing
  <2>2. mode \in [Clients -> Modes] /\ pc \in [Clients -> Nat]
    BY DEF SuiteInit, Init, Modes
  <2>3. \A c \in Clients : pc[c] <= Len(program[c]) + 1
    BY <1>2 DEF SuiteInit, ProgramInv
  <2> QED
    BY <2>1, <2>2, <2>3 DEF StateInv
<1>4. PlaceInv
  <2>1. \A c \in Clients : pc[c] \in {0, 1}
    BY DEF SuiteInit
  <2>2. \A c \in Clients : Place(c) = StartOf(Test, c)
    BY <1>2, <2>1 DEF ProgramInv, Place
  <2>3. \A c \in Clients : mode[c] = "idle"
    BY DEF SuiteInit, Init
  <2>4. pc["main"] = 1 /\ \A t \in Workers : pc[t] = 0
    BY DEF SuiteInit, Workers
  <2>5. Place("main")[2] = {}
    BY <2>2, StartsIdle
  <2>6. \A c \in Clients : mode[c] = Place(c)[1]
    BY <2>2, <2>3, StartsIdle
  <2> QED
    BY <2>4, <2>5, <2>6 DEF PlaceInv
<1> QED
  BY <1>2, <1>3, <1>4 DEF OrderInv

\* A running thread stands where its next step may be taken.
LEMMA NextStep ==
  ASSUME OrderInv, NEW c \in Clients, Running(c)
  PROVE  /\ pc[c] \in 1 .. Len(program[c]) /\ Len(program[c]) \in Nat
         /\ Place(c) = Route(c)[pc[c]]
         /\ mode[c] = Place(c)[1]
         /\ Leads(Test, c, Step(c), Place(c), Route(c)[pc[c] + 1])
         /\ Moves(c, Step(c), Place(c), Route(c)[pc[c] + 1])
<1>1. Len(program[c]) \in Nat /\ Path(Test, c, program[c], Route(c))
  BY DEF OrderInv, ProgramInv
<1>2. pc[c] \in 1 .. Len(program[c])
  BY <1>1 DEF OrderInv, StateInv, Running, Finished
<1>3. Place(c) = Route(c)[pc[c]]
  BY <1>2 DEF Place
<1>4. mode[c] = Place(c)[1]
  BY DEF OrderInv, PlaceInv
<1>5. Leads(Test, c, Step(c), Place(c), Route(c)[pc[c] + 1])
  BY <1>1, <1>2, <1>3 DEF Path, Step
<1> QED
  BY <1>1, <1>2, <1>3, <1>4, <1>5 DEF Leads

\* The program stays, and with it the routes.
LEMMA SameProgram ==
  ASSUME ProgramInv, program' = program
  PROVE  ProgramInv' /\ Test' = Test /\ \A c : Route(c)' = Route(c)
BY DEF ProgramInv, Route, Test

LEMMA PlacesMove ==
  ASSUME OrderInv, NEW c \in Clients, Running(c), Advance(c)
  PROVE  /\ ProgramInv' /\ Test' = Test /\ \A d : Route(d)' = Route(d)
         /\ pc' \in [Clients -> Nat] /\ pc'[c] = pc[c] + 1 /\ pc'[c] > 0
         /\ Place(c)' = Route(c)[pc[c] + 1]
         /\ \A d \in Clients \ {c} : pc'[d] = pc[d] /\ Place(d)' = Place(d)
<1>1. pc[c] \in 1 .. Len(program[c]) /\ Len(program[c]) \in Nat
  BY NextStep
<1>2. pc' = [pc EXCEPT ![c] = pc[c] + 1] /\ program' = program
  BY DEF Advance
<1>3. ProgramInv' /\ Test' = Test /\ \A d : Route(d)' = Route(d)
  BY <1>2, SameProgram DEF OrderInv
<1>4. pc' \in [Clients -> Nat] /\ pc'[c] = pc[c] + 1 /\ pc'[c] > 0
  BY <1>1, <1>2 DEF OrderInv, StateInv
<1>5. \A d \in Clients \ {c} : pc'[d] = pc[d]
  BY <1>2 DEF OrderInv, StateInv
<1>6. Place(c)' = Route(c)[pc[c] + 1]
  <2>1. pc'[c] # 0
    BY <1>1, <1>4
  <2> QED
    BY <1>3, <1>4, <2>1 DEF Place
<1>7. \A d \in Clients \ {c} : Place(d)' = Place(d)
  BY <1>3, <1>5 DEF Place
<1> QED
  BY <1>3, <1>4, <1>5, <1>6, <1>7

\* A step that leaves the others where they are.
LEMMA Moved ==
  ASSUME OrderInv, NEW c \in Clients, Running(c), Advance(c),
         mode' = [mode EXCEPT ![c] = Route(c)[pc[c] + 1][1]],
         Route(c)[pc[c] + 1][2] = Place(c)[2]
  PROVE  OrderInv'
<1>1. /\ pc[c] \in 1 .. Len(program[c]) /\ Len(program[c]) \in Nat
      /\ Moves(c, Step(c), Place(c), Route(c)[pc[c] + 1])
      /\ Place(c)[1] = mode[c]
  BY NextStep
<1>2. program' = program /\ blocking' = blocking
  BY DEF Advance
<1>3. /\ ProgramInv'
      /\ pc' \in [Clients -> Nat] /\ pc'[c] = pc[c] + 1 /\ pc'[c] > 0
      /\ Place(c)' = Route(c)[pc[c] + 1]
      /\ \A d \in Clients \ {c} : pc'[d] = pc[d] /\ Place(d)' = Place(d)
  BY PlacesMove
<1>4. StateInv'
  <2>1. Route(c)[pc[c] + 1][1] \in Modes
    <3>1. mode[c] \in Modes
      BY DEF OrderInv, StateInv
    <3> QED
      BY <1>1, <3>1 DEF Moves, Modes, Kinds
  <2>2. mode' \in [Clients -> Modes]
    BY <2>1 DEF OrderInv, StateInv
  <2>3. \A d \in Clients : pc'[d] <= Len(program[d]) + 1
    BY <1>1, <1>3 DEF OrderInv, StateInv
  <2> QED
    BY <1>2, <1>3, <2>2, <2>3 DEF OrderInv, StateInv
<1>5. PlaceInv'
  <2>1. ASSUME NEW d \in Clients
        PROVE  mode'[d] = Place(d)'[1]
    <3>1. CASE d = c
      BY <1>3, <3>1 DEF OrderInv, StateInv
    <3>2. CASE d # c
      BY <1>3, <3>2 DEF OrderInv, StateInv, PlaceInv
    <3> QED
      BY <3>1, <3>2
  <2>2. \A d \in Clients : pc'[d] > 0 <=> pc[d] > 0
    BY <1>1, <1>3
  <2>3. \A d \in Clients : Place(d)'[2] = Place(d)[2]
    BY <1>3
  <2>4. "main" \in Clients /\ Workers \subseteq Clients
    BY ThreadsAssumption DEF Workers
  <2>5. {t \in Workers : pc'[t] > 0} = {t \in Workers : pc[t] > 0}
    BY <2>2, <2>4
  <2>6. pc'["main"] > 0 /\ Place("main")'[2] = {t \in Workers : pc'[t] > 0}
    BY <2>2, <2>3, <2>4, <2>5 DEF OrderInv, PlaceInv
  <2> QED
    BY <2>1, <2>6 DEF PlaceInv
<1> QED
  BY <1>3, <1>4, <1>5 DEF OrderInv

\* A step within a transaction, or outside all of them.
LEMMA MovesInPlace ==
  ASSUME OrderInv, NEW c \in Clients, Running(c), Advance(c), mode' = mode,
         Step(c).op \in {"write", "add", "delall", "keep", "join"} \cup Asserts
  PROVE  OrderInv'
<1>1. Route(c)[pc[c] + 1][1] = Place(c)[1] /\ Route(c)[pc[c] + 1][2] = Place(c)[2]
  BY NextStep DEF Moves, Asserts
<1>2. mode' = [mode EXCEPT ![c] = Route(c)[pc[c] + 1][1]]
  BY <1>1, NextStep DEF OrderInv, StateInv
<1> QED
  BY <1>1, <1>2, Moved

LEMMA BeginInv ==
  ASSUME OrderInv, NEW c \in Clients, DoBegin(c)
  PROVE  OrderInv'
<1>1. Running(c) /\ Advance(c) /\ Step(c).op = "begin" /\ mode' = [mode EXCEPT ![c] = Step(c).kind]
  BY DEF DoBegin, At, Begin
<1>2. Route(c)[pc[c] + 1][1] = Step(c).kind /\ Route(c)[pc[c] + 1][2] = Place(c)[2]
  BY <1>1, NextStep DEF Moves, Asserts
<1>3. mode' = [mode EXCEPT ![c] = Route(c)[pc[c] + 1][1]]
  BY <1>1, <1>2
<1> QED
  BY <1>1, <1>2, <1>3, Moved

LEMMA EndInv ==
  ASSUME OrderInv, NEW c \in Clients, DoCommit(c) \/ DoDrop(c)
  PROVE  OrderInv'
<1>1. /\ Running(c) /\ Advance(c) /\ Step(c).op \in {"commit", "drop"}
      /\ mode' = [mode EXCEPT ![c] = "idle"]
  BY DEF DoCommit, DoDrop, At, Commit, End, Release
<1>2. Route(c)[pc[c] + 1][1] = "idle" /\ Route(c)[pc[c] + 1][2] = Place(c)[2]
  BY <1>1, NextStep DEF Moves, Asserts
<1>3. mode' = [mode EXCEPT ![c] = Route(c)[pc[c] + 1][1]]
  BY <1>1, <1>2
<1> QED
  BY <1>1, <1>2, <1>3, Moved

LEMMA StillInv ==
  ASSUME OrderInv, mode' = mode, pc' = pc, program' = program, blocking' = blocking
  PROVE  OrderInv' /\ Test' = Test /\ \A d : Place(d)' = Place(d)
<1>1. ProgramInv' /\ Test' = Test /\ \A d : Route(d)' = Route(d)
  BY SameProgram DEF OrderInv
<1>2. \A d : Place(d)' = Place(d)
  BY <1>1 DEF Place
<1> QED
  BY <1>1, <1>2 DEF OrderInv, StateInv, PlaceInv

\* main spawns a thread that does not run yet.
LEMMA SpawnPlaces ==
  ASSUME OrderInv, NEW c \in Clients, DoSpawn(c)
  PROVE  LET u == Step(c).thread
         IN  /\ Running(c) /\ c = "main" /\ u \in Workers \ Place(c)[2] /\ pc[u] = 0
             /\ Route(c)[pc[c] + 1][1] = Place(c)[1]
             /\ Route(c)[pc[c] + 1][2] = Place(c)[2] \cup {u}
             /\ program' = program /\ blocking' = blocking /\ kept' = kept /\ UNCHANGED vars
             /\ ProgramInv' /\ Test' = Test /\ \A d : Route(d)' = Route(d)
             /\ pc' \in [Clients -> Nat] /\ pc'[c] = pc[c] + 1 /\ pc'[u] = 1
             /\ \A d \in Clients \ {c, u} : pc'[d] = pc[d]
             /\ Place(c)' = Route(c)[pc[c] + 1]
             /\ \A d \in Clients \ {c} : Place(d)' = Place(d)
<1> DEFINE u == Step(c).thread
<1>1. Running(c) /\ Step(c).op = "spawn"
  BY DEF DoSpawn, At
<1>2. /\ c = "main" /\ u \in Workers \ Place(c)[2]
      /\ Route(c)[pc[c] + 1][1] = Place(c)[1]
      /\ Route(c)[pc[c] + 1][2] = Place(c)[2] \cup {u}
  BY <1>1, NextStep DEF Moves, Asserts
<1>3. pc[c] \in 1 .. Len(program[c]) /\ Len(program[c]) \in Nat /\ u \in Clients /\ u # c
  BY <1>1, <1>2, NextStep DEF Workers
<1>4. /\ pc' = [pc EXCEPT ![c] = pc[c] + 1, ![u] = 1]
      /\ program' = program /\ blocking' = blocking /\ kept' = kept /\ UNCHANGED vars
  BY DEF DoSpawn
<1>5. ProgramInv' /\ Test' = Test /\ \A d : Route(d)' = Route(d)
  BY <1>4, SameProgram DEF OrderInv
<1>6. pc[u] = 0
  <2>1. Place("main")[2] = {t \in Workers : pc[t] > 0}
    BY DEF OrderInv, PlaceInv
  <2>2. u \in Workers /\ ~(pc[u] > 0) /\ pc[u] \in Nat
    BY <1>2, <1>3, <2>1 DEF OrderInv, StateInv
  <2> QED
    BY <2>2
<1> HIDE DEF u
<1>7. /\ pc' \in [Clients -> Nat] /\ pc'[c] = pc[c] + 1 /\ pc'[u] = 1
      /\ \A d \in Clients \ {c, u} : pc'[d] = pc[d]
  BY <1>3, <1>4 DEF OrderInv, StateInv
<1>8. Place(c)' = Route(c)[pc[c] + 1]
  <2>1. pc'[c] # 0
    BY <1>3, <1>7
  <2> QED
    BY <1>5, <1>7, <2>1 DEF Place
<1>9. ASSUME NEW d \in Clients \ {c}
      PROVE  Place(d)' = Place(d)
  <2>1. CASE d = u
    BY <1>5, <1>6, <1>7, <2>1 DEF Place
  <2>2. CASE d # u
    BY <1>5, <1>7, <2>2 DEF Place
  <2> QED
    BY <2>1, <2>2
<1>10. QED
  BY <1>1, <1>2, <1>4, <1>5, <1>6, <1>7, <1>8, <1>9 DEF u

LEMMA SpawnInv ==
  ASSUME OrderInv, NEW c \in Clients, DoSpawn(c)
  PROVE  OrderInv'
<1>1. PICK u : u = Step(c).thread
  OBVIOUS
<1>2. /\ Running(c) /\ c = "main" /\ u \in Workers \ Place(c)[2] /\ pc[u] = 0
      /\ Route(c)[pc[c] + 1][1] = Place(c)[1]
      /\ Route(c)[pc[c] + 1][2] = Place(c)[2] \cup {u}
      /\ program' = program /\ blocking' = blocking /\ UNCHANGED vars
      /\ ProgramInv'
      /\ pc' \in [Clients -> Nat] /\ pc'[c] = pc[c] + 1 /\ pc'[u] = 1
      /\ \A d \in Clients \ {c, u} : pc'[d] = pc[d]
      /\ Place(c)' = Route(c)[pc[c] + 1]
      /\ \A d \in Clients \ {c} : Place(d)' = Place(d)
  BY <1>1, SpawnPlaces
<1>3. /\ pc[c] \in 1 .. Len(program[c]) /\ Len(program[c]) \in Nat
      /\ u \in Clients /\ u # c /\ Len(program[u]) \in Nat
  BY <1>2, NextStep DEF Workers, OrderInv, ProgramInv
<1>4. mode' = mode
  BY <1>2 DEF vars
<1>5. StateInv'
  <2>1. \A d \in Clients : pc'[d] <= Len(program[d]) + 1
    BY <1>2, <1>3 DEF OrderInv, StateInv
  <2> QED
    BY <1>2, <1>4, <2>1 DEF OrderInv, StateInv
<1>6. PlaceInv'
  <2>1. ASSUME NEW d \in Clients
        PROVE  mode'[d] = Place(d)'[1]
    <3>1. mode'[d] = Place(d)[1]
      BY <1>4 DEF OrderInv, PlaceInv
    <3>2. CASE d = c
      BY <1>2, <3>1, <3>2
    <3>3. CASE d # c
      BY <1>2, <3>1, <3>3
    <3> QED
      BY <3>2, <3>3
  <2>2. ASSUME NEW t \in Workers
        PROVE  (pc'[t] > 0) <=> (pc[t] > 0 \/ t = u)
    <3>1. CASE t = u
      BY <1>2, <3>1
    <3>2. CASE t # u
      <4>1. t \in Clients \ {c, u}
        BY <1>2, <3>2 DEF Workers
      <4> QED
        BY <1>2, <3>2, <4>1
    <3> QED
      BY <3>1, <3>2
  <2>3. Place("main")[2] = {t \in Workers : pc[t] > 0}
    BY DEF OrderInv, PlaceInv
  <2>4. Place(c)'[2] = Place("main")[2] \cup {u} /\ u \in Workers
    BY <1>2
  <2>5. Place(c)'[2] = {t \in Workers : pc'[t] > 0}
    BY <2>2, <2>3, <2>4
  <2>6. pc'["main"] > 0
    BY <1>2, <1>3
  <2>7. Place("main")'[2] = {t \in Workers : pc'[t] > 0}
    BY <1>2, <2>5
  <2> QED
    BY <2>1, <2>6, <2>7 DEF PlaceInv
<1> QED
  BY <1>2, <1>5, <1>6 DEF OrderInv

LEMMA NextInv ==
  ASSUME OrderInv, [SuiteNext]_<<vars, suiteVars>>
  PROVE  OrderInv'
<1>1. ASSUME NEW c \in Clients, DoWrite(c) \/ DoAdd(c)
      PROVE  OrderInv'
  BY <1>1, MovesInPlace DEF DoWrite, DoAdd, At, Write
<1>2. ASSUME NEW c \in Clients, DoDelAll(c)
      PROVE  OrderInv'
  <2>1. mode' = mode
    BY <1>2 DEF DoDelAll, Write, vars
  <2>2. CASE Advance(c)
    BY <1>2, <2>1, <2>2, MovesInPlace DEF DoDelAll, At
  <2>3. CASE UNCHANGED <<program, blocking, pc>>
    BY <2>1, <2>3, StillInv
  <2> QED
    BY <1>2, <2>2, <2>3 DEF DoDelAll
<1>3. ASSUME NEW c \in Clients, DoAssert(c) \/ DoKeep(c) \/ DoJoin(c)
      PROVE  OrderInv'
  BY <1>3, MovesInPlace DEF DoAssert, DoKeep, DoJoin, At, vars
<1>4. ASSUME UNCHANGED <<vars, suiteVars>>
      PROVE  OrderInv'
  BY <1>4, StillInv DEF vars, suiteVars
<1> QED
  BY <1>1, <1>2, <1>3, <1>4, BeginInv, EndInv, SpawnInv DEF SuiteNext, Passed

\* In every state of every test, each thread has the transaction open that the
\* steps behind it have begun and not ended, whatever the backend and the order
\* of the threads, and main has spawned exactly the threads that run.
THEOREM TestsAreOrderly == SuiteSpec => []OrderInv
<1>1. SuiteInit => OrderInv
  BY InitInv
<1>2. OrderInv /\ [SuiteNext]_<<vars, suiteVars>> => OrderInv'
  BY NextInv
<1> QED
  BY <1>1, <1>2, PTL DEF SuiteSpec

LEMMA OpenTransactionsGoOn ==
  ASSUME OrderInv, NEW c \in Clients, Running(c), mode[c] # "idle"
  PROVE  WaitsFor(c) = {}
<1>1. Step(c).op \notin {"begin", "join"}
  BY NextStep DEF Moves, Asserts
<1> QED
  BY <1>1 DEF WaitsFor, At

\* A thread that has run to its end is where it has to be.
LEMMA FinishedEnds ==
  ASSUME OrderInv, NEW c \in Clients, pc[c] > 0, Finished(c)
  PROVE  EndOf(Test, c, Place(c))
<1>1. pc[c] = Len(program[c]) + 1
  BY DEF Finished, OrderInv, StateInv, ProgramInv
<1>2. Place(c) = Route(c)[Len(program[c]) + 1]
  BY <1>1 DEF Place
<1> QED
  BY <1>2 DEF OrderInv, ProgramInv

LEMMA SomeoneGoesOn ==
  ASSUME OrderInv
  PROVE  NoTestHangs
<1> SUFFICES ASSUME NEW c \in Clients, Running(c)
             PROVE  \E d \in Clients : Running(d) /\ WaitsFor(d) = {}
  BY DEF NoTestHangs
<1>1. CASE \E d \in Clients : Running(d) /\ mode[d] # "idle"
  BY <1>1, OpenTransactionsGoOn
<1>2. CASE \A d \in Clients : Running(d) => mode[d] = "idle"
  <2>1. ASSUME NEW d \in Clients
        PROVE  mode[d] = "idle"
    <3>0. mode[d] = Place(d)[1]
      BY DEF OrderInv, PlaceInv
    <3>1. CASE Running(d)
      BY <1>2, <3>1
    <3>2. CASE pc[d] = 0
      <4>1. Place(d) = StartOf(Test, d)
        BY <3>2 DEF Place, OrderInv, ProgramInv
      <4> QED
        BY <3>0, <4>1, StartsIdle
    <3>3. CASE pc[d] > 0 /\ Finished(d)
      BY <3>0, <3>3, FinishedEnds DEF EndOf
    <3> QED
      BY <3>1, <3>2, <3>3 DEF Running, OrderInv, StateInv
  \* Nobody waits for a transaction, since none is open.
  <2>2. ASSUME NEW d \in Clients, ~At(d, "join")
        PROVE  WaitsFor(d) = {}
    <3>1. \A kind : <<kind, "idle">> \notin blocking
      BY DEF OrderInv, StateInv
    <3> QED
      BY <2>1, <2>2, <3>1 DEF WaitsFor
  <2>3. CASE At(c, "join")
    <3> DEFINE t == Step(c).thread
    <3>1. Step(c).op = "join" /\ c = "main" /\ t \in Place(c)[2]
      BY <2>3, NextStep DEF At, Moves, Asserts
    <3>2. t \in Workers /\ pc[t] > 0
      BY <3>1 DEF OrderInv, PlaceInv
    <3>3. CASE Finished(t)
      BY <2>3, <3>2, <3>3 DEF WaitsFor, At, Workers
    <3>4. CASE ~Finished(t)
      <4>1. t \in Clients /\ Running(t) /\ t # "main"
        BY <3>2, <3>4 DEF Running, Workers
      <4>2. ~At(t, "join")
        BY <4>1, NextStep DEF At, Moves, Asserts
      <4> QED
        BY <2>2, <4>1, <4>2
    <3> QED
      BY <3>3, <3>4
  <2> QED
    BY <2>2, <2>3
<1> QED
  BY <1>1, <1>2

\* No test hangs on any backend, whichever transactions it lets run side by side,
\* whatever the tests draw at random and however their threads are scheduled:
\* while threads run, one of them waits for nobody.
THEOREM TestsDoNotHang == SuiteSpec => []NoTestHangs
<1>1. OrderInv => NoTestHangs
  BY SomeoneGoesOn
<1> QED
  BY <1>1, TestsAreOrderly, PTL

-----------------------------------------------------------------------------
(* Running a test: the data that its steps see *)

Shaped(V) ==
  /\ V = [m \in MapIds |-> V[m]]
  /\ \A m \in MapIds : V[m] = [k \in Keys |-> V[m][k]]

LEMMA ShapedWritten ==
  ASSUME NEW V, Shaped(V), NEW m, NEW k, NEW v
  PROVE  Shaped(Written(V, m, k, v))
BY DEF Shaped, Written

LEMMA ShapedIs ==
  ASSUME NEW V, Shaped(V), NEW W, Shaped(W),
         \A m \in MapIds, k \in Keys : V[m][k] = W[m][k]
  PROVE  V = W
<1>1. \A m \in MapIds : V[m] = W[m]
  BY DEF Shaped
<1> QED
  BY <1>1 DEF Shaped

\* Deleting the entries with a prefix one by one deletes them all.
LEMMA ClearedInSteps ==
  ASSUME NEW V, Shaped(V), NEW p
  PROVE  /\ Matching(V[0], p) = {} => Cleared(V, p) = V
         /\ \A k \in Matching(V[0], p) :
              Cleared(Written(V, 0, k, None), p) = Cleared(V, p)
<1>1. \A W : Shaped(W) => Shaped(Cleared(W, p))
  BY Maps DEF Shaped, Cleared
<1>2. ASSUME Matching(V[0], p) = {}
      PROVE  Cleared(V, p) = V
  <2>1. \A m \in MapIds, k \in Keys : Cleared(V, p)[m][k] = V[m][k]
    <3>1. ASSUME NEW m \in MapIds, NEW k \in Keys
          PROVE  Cleared(V, p)[m][k] = V[m][k]
      <4>1. CASE m = 0
        <5>1. Cleared(V, p)[0][k] = IF StartsWith(k, p) THEN None ELSE V[0][k]
          BY Maps DEF Shaped, Cleared
        <5>2. StartsWith(k, p) => V[0][k] = None
          BY <1>2 DEF Matching
        <5> QED
          BY <4>1, <5>1, <5>2
      <4>2. CASE m # 0
        BY <4>2 DEF Shaped, Cleared
      <4> QED
        BY <4>1, <4>2
    <3> QED
      BY <3>1
  <2> QED
    BY <1>1, <2>1, ShapedIs
<1>3. ASSUME NEW k \in Matching(V[0], p)
      PROVE  Cleared(Written(V, 0, k, None), p) = Cleared(V, p)
  <2> DEFINE W == Written(V, 0, k, None)
  <2>1. k \in Keys /\ StartsWith(k, p)
    BY DEF Matching
  <2>2. Shaped(W)
    BY ShapedWritten
  <2>3. /\ \A j \in Keys \ {k} : W[0][j] = V[0][j]
        /\ \A m \in MapIds \ {0} : W[m] = V[m]
    BY Maps DEF Shaped, Written
  <2> HIDE DEF W
  <2>4. ASSUME NEW m \in MapIds, NEW j \in Keys
        PROVE  Cleared(W, p)[m][j] = Cleared(V, p)[m][j]
    <3>1. CASE m = 0
      <4>1. /\ Cleared(V, p)[0][j] = IF StartsWith(j, p) THEN None ELSE V[0][j]
            /\ Cleared(W, p)[0][j] = IF StartsWith(j, p) THEN None ELSE W[0][j]
        BY <2>2, Maps DEF Shaped, Cleared
      <4> QED
        BY <2>1, <2>3, <3>1, <4>1
    <3>2. CASE m # 0
      BY <2>2, <2>3, <3>2 DEF Shaped, Cleared
    <3> QED
      BY <3>1, <3>2
  <2>5. Cleared(W, p) = Cleared(V, p)
    BY <1>1, <2>2, <2>4, ShapedIs
  <2> QED
    BY <2>5 DEF W
<1> QED
  BY <1>2, <1>3

\* Every map has every key; transactions are those of the test's threads.
ShapeInv ==
  /\ Shaped(store)
  /\ view = [c \in Clients |-> view[c]]
  /\ \A c \in Clients : Shaped(view[c])

\* In a test of one thread the data is what is known of it, but that a loop that
\* deletes entries may have deleted some of them.
Agrees(S, V, K, w) == S = w.store /\ V = w.view /\ K = w.kept
AloneInv ==
  Test = "alone" =>
    /\ \A c \in Workers : pc[c] = 0
    /\ \/ Agrees(store, view["main"], kept, Place("main")[3])
       \/ /\ At("main", "delall")
          /\ store = Place("main")[3].store /\ kept = Place("main")[3].kept
          /\ Cleared(view["main"], Step("main").prefix)
               = Cleared(Place("main")[3].view, Step("main").prefix)

LEMMA ShapeOfWrite ==
  ASSUME ShapeInv, NEW c \in Clients, NEW m, NEW k, NEW v, Write(c, m, k, v)
  PROVE  /\ ShapeInv' /\ store' = store
         /\ view'[c] = Written(view[c], m, k, v)
         /\ \A d \in Clients \ {c} : view'[d] = view[d]
<1>1. view' = [view EXCEPT ![c][m][k] = v] /\ store' = store
  BY DEF Write
<1>2. view'[c] = Written(view[c], m, k, v)
  BY <1>1 DEF ShapeInv, Written
<1>3. /\ view' = [d \in Clients |-> view'[d]]
      /\ \A d \in Clients \ {c} : view'[d] = view[d]
  BY <1>1 DEF ShapeInv
<1>4. ShapeInv'
  <2>1. Shaped(view[c]) /\ Shaped(store) /\ \A d \in Clients : Shaped(view[d])
    BY DEF ShapeInv
  <2>2. Shaped(Written(view[c], m, k, v))
    BY <2>1, ShapedWritten
  <2>3. Shaped(store')
    BY <1>1, <2>1
  <2>4. \A d \in Clients : Shaped(view'[d])
    BY <1>2, <1>3, <2>1, <2>2
  <2> QED
    BY <1>3, <2>3, <2>4 DEF ShapeInv
<1> QED
  BY <1>1, <1>2, <1>3, <1>4

LEMMA ShapeOfBegin ==
  ASSUME ShapeInv, NEW c \in Clients, NEW kind, Begin(c, kind)
  PROVE  /\ ShapeInv' /\ store' = store /\ view'[c] = store
         /\ \A d \in Clients \ {c} : view'[d] = view[d]
BY DEF Begin, ShapeInv

LEMMA ShapeOfEnd ==
  ASSUME ShapeInv, NEW c \in Clients, Commit(c) \/ End(c)
  PROVE  /\ ShapeInv' /\ view'[c] = EmptyContents
         /\ Commit(c) => store' = view[c]
         /\ End(c) => store' = store
         /\ \A d \in Clients \ {c} : view'[d] = view[d]
<1>1. Shaped(EmptyContents)
  BY DEF Shaped, EmptyContents
<1>2. view' = [view EXCEPT ![c] = EmptyContents]
  BY DEF Commit, End, Release
<1>3. (Commit(c) => store' = view[c]) /\ (End(c) => store' = store)
  BY DEF Commit, End
<1>4. /\ view' = [d \in Clients |-> view'[d]] /\ view'[c] = EmptyContents
      /\ \A d \in Clients \ {c} : view'[d] = view[d]
  BY <1>2 DEF ShapeInv
<1>5. ShapeInv'
  BY <1>1, <1>3, <1>4 DEF ShapeInv
<1> QED
  BY <1>3, <1>4, <1>5

LEMMA NextShape ==
  ASSUME ShapeInv, [SuiteNext]_<<vars, suiteVars>>
  PROVE  ShapeInv'
<1>1. ASSUME UNCHANGED vars
      PROVE  ShapeInv'
  BY <1>1 DEF vars, ShapeInv
<1>2. ASSUME NEW c \in Clients, DoBegin(c)
      PROVE  ShapeInv'
  BY <1>2, ShapeOfBegin, Zenon DEF DoBegin
<1>3. ASSUME NEW c \in Clients, DoWrite(c) \/ DoAdd(c)
      PROVE  ShapeInv'
  BY <1>3, ShapeOfWrite, Zenon DEF DoWrite, DoAdd
<1>4. ASSUME NEW c \in Clients, DoDelAll(c)
      PROVE  ShapeInv'
  BY <1>1, <1>4, ShapeOfWrite, Zenon DEF DoDelAll
<1>5. ASSUME NEW c \in Clients, DoCommit(c) \/ DoDrop(c)
      PROVE  ShapeInv'
  BY <1>5, ShapeOfEnd, Zenon DEF DoCommit, DoDrop
<1>6. ASSUME NEW c \in Clients, DoAssert(c) \/ DoKeep(c) \/ DoSpawn(c) \/ DoJoin(c)
      PROVE  ShapeInv'
  BY <1>1, <1>6 DEF DoAssert, DoKeep, DoSpawn, DoJoin
<1>7. ASSUME Passed \/ UNCHANGED <<vars, suiteVars>>
      PROVE  ShapeInv'
  BY <1>1, <1>7 DEF Passed
<1> QED
  BY <1>2, <1>3, <1>4, <1>5, <1>6, <1>7 DEF SuiteNext

-----------------------------------------------------------------------------
(* A test of one thread *)

LEMMA AloneIsMain ==
  ASSUME AloneInv, Test = "alone", NEW c \in Clients, Running(c)
  PROVE  c = "main"
BY DEF AloneInv, Running, Workers

LEMMA AloneSees ==
  ASSUME OrderInv, Test = "alone", NEW c \in Clients, Running(c)
  PROVE  Sees(Step(c), Place(c)[3], Route(c)[pc[c] + 1][3])
BY NextStep DEF Leads

LEMMA AloneAgrees ==
  ASSUME AloneInv, Test = "alone", Step("main").op # "delall"
  PROVE  Agrees(store, view["main"], kept, Place("main")[3])
BY DEF AloneInv, At

LEMMA AloneAdvances ==
  ASSUME OrderInv, AloneInv, Test = "alone", Running("main"), Advance("main"),
         Agrees(store', view'["main"], kept', Route("main")[pc["main"] + 1][3])
  PROVE  AloneInv'
<1>1. "main" \in Clients /\ Workers = Clients \ {"main"}
  BY ThreadsAssumption DEF Workers
<1>2. Place("main")' = Route("main")[pc["main"] + 1] /\ \A d \in Workers : pc'[d] = pc[d]
  BY <1>1, PlacesMove
<1>3. \A d \in Workers : pc'[d] = 0
  BY <1>2 DEF AloneInv
<1>4. Agrees(store', view'["main"], kept', Place("main")'[3])
  BY <1>2
<1> QED
  BY <1>3, <1>4 DEF AloneInv

LEMMA AloneTransactions ==
  ASSUME OrderInv, ShapeInv, AloneInv, Test = "alone", NEW c \in Clients,
         DoBegin(c) \/ DoCommit(c) \/ DoDrop(c) \/ DoWrite(c)
  PROVE  AloneInv'
<1> DEFINE w == Place(c)[3]
           y == Route(c)[pc[c] + 1][3]
<1>1. Running(c) /\ Advance(c) /\ kept' = kept
  BY DEF DoBegin, DoCommit, DoDrop, DoWrite, At
<1>2. c = "main"
  BY <1>1, AloneIsMain
<1>3. Sees(Step(c), w, y)
  BY <1>1, AloneSees
<1>4. Step(c).op \in {"begin", "commit", "drop", "write"}
  BY DEF DoBegin, DoCommit, DoDrop, DoWrite, At
<1>5. store = w.store /\ view[c] = w.view /\ kept = w.kept
  BY <1>2, <1>4, AloneAgrees DEF Agrees
<1> HIDE DEF w, y
<1>6. store' = y.store /\ view'[c] = y.view /\ kept' = y.kept
  <2>1. CASE DoBegin(c)
    <3>1. store' = store /\ view'[c] = store
      BY <2>1, ShapeOfBegin, Zenon DEF DoBegin
    <3>2. y = World(w.store, w.store, w.kept)
      BY <1>3, <2>1 DEF Sees, DoBegin, At
    <3> QED
      BY <1>1, <1>5, <3>1, <3>2 DEF World
  <2>2. CASE DoCommit(c)
    <3>1. store' = view[c] /\ view'[c] = EmptyContents
      BY <2>2, ShapeOfEnd, Zenon DEF DoCommit
    <3>2. y = World(w.view, EmptyContents, w.kept)
      BY <1>3, <2>2 DEF Sees, DoCommit, At
    <3> QED
      BY <1>1, <1>5, <3>1, <3>2 DEF World
  <2>3. CASE DoDrop(c)
    <3>1. store' = store /\ view'[c] = EmptyContents
      BY <2>3, ShapeOfEnd, Zenon DEF DoDrop
    <3>2. y = World(w.store, EmptyContents, w.kept)
      BY <1>3, <2>3 DEF Sees, DoDrop, At
    <3> QED
      BY <1>1, <1>5, <3>1, <3>2 DEF World
  <2>4. CASE DoWrite(c)
    <3>1. store' = store /\ view'[c] = Written(view[c], Step(c).map, Step(c).key, Step(c).val)
      <4>1. PICK m, k, v : m = Step(c).map /\ k = Step(c).key /\ v = Step(c).val
        OBVIOUS
      <4>2. Write(c, m, k, v)
        BY <2>4, <4>1 DEF DoWrite
      <4>3. store' = store /\ view'[c] = Written(view[c], m, k, v)
        BY <4>2, ShapeOfWrite
      <4> QED
        BY <4>1, <4>3
    <3>2. y = World(w.store, Written(w.view, Step(c).map, Step(c).key, Step(c).val), w.kept)
      BY <1>3, <2>4 DEF Sees, DoWrite, At
    <3> QED
      BY <1>1, <1>5, <3>1, <3>2 DEF World
  <2> QED
    BY <2>1, <2>2, <2>3, <2>4
<1>7. Agrees(store', view'["main"], kept', y)
  BY <1>2, <1>6 DEF Agrees
<1> QED
  BY <1>1, <1>2, <1>7, AloneAdvances DEF y

LEMMA AloneDelAll ==
  ASSUME OrderInv, ShapeInv, AloneInv, Test = "alone", NEW c \in Clients, DoDelAll(c)
  PROVE  AloneInv'
<1> DEFINE w == Place(c)[3]
           y == Route(c)[pc[c] + 1][3]
           p == Step(c).prefix
           found == Matching(view[c][0], p)
<1>1. Running(c) /\ kept' = kept /\ Step(c).op = "delall" /\ Shaped(view[c])
  BY DEF DoDelAll, At, ShapeInv
<1>2. c = "main"
  BY <1>1, AloneIsMain
<1>3. y = World(w.store, Cleared(w.view, p), w.kept)
  BY <1>1, AloneSees DEF Sees
<1>4. store = w.store /\ kept = w.kept /\ Cleared(view[c], p) = Cleared(w.view, p)
  BY <1>2 DEF AloneInv, Agrees
<1> HIDE DEF w, y, p
<1>5. CASE found = {} /\ Advance(c) /\ UNCHANGED vars
  <2>1. Cleared(view[c], p) = view[c]
    BY <1>1, <1>5, ClearedInSteps
  <2>2. store' = y.store /\ view'[c] = y.view /\ kept' = y.kept
    BY <1>1, <1>3, <1>4, <1>5, <2>1 DEF World, vars
  <2>3. Agrees(store', view'["main"], kept', y)
    BY <1>2, <2>2 DEF Agrees
  <2> QED
    BY <1>1, <1>2, <1>5, <2>3, AloneAdvances DEF y
<1>6. ASSUME NEW k \in found, Write(c, 0, k, None), UNCHANGED <<program, blocking, pc>>
      PROVE  AloneInv'
  <2>1. view'[c] = Written(view[c], 0, k, None) /\ store' = store
    BY <1>6, ShapeOfWrite
  <2>2. Cleared(view'[c], p) = Cleared(w.view, p)
    BY <1>1, <1>4, <2>1, ClearedInSteps
  <2>3. mode' = mode
    BY <1>6 DEF Write
  <2>4. Test' = Test /\ \A d : Place(d)' = Place(d)
    BY <1>6, <2>3, StillInv
  <2>5. At("main", "delall")' /\ Step("main")' = Step("main")
    BY <1>1, <1>2, <1>6 DEF At, Running, Finished, Step
  <2>6. store' = Place("main")'[3].store /\ kept' = Place("main")'[3].kept
    BY <1>1, <1>2, <1>4, <2>1, <2>4 DEF w
  <2>7. Cleared(view'["main"], Step("main").prefix)
          = Cleared(Place("main")'[3].view, Step("main").prefix)
    BY <1>2, <2>2, <2>4 DEF w, p
  <2>8. \A d \in Workers : pc'[d] = 0
    BY <1>6 DEF AloneInv
  <2> QED
    BY <2>5, <2>6, <2>7, <2>8 DEF AloneInv
<1> QED
  BY <1>5, <1>6 DEF DoDelAll, p

LEMMA AloneReads ==
  ASSUME OrderInv, AloneInv, Test = "alone", NEW c \in Clients, DoAssert(c) \/ DoKeep(c)
  PROVE  AloneInv'
<1> DEFINE w == Place(c)[3]
           y == Route(c)[pc[c] + 1][3]
<1>1. Running(c) /\ Advance(c) /\ UNCHANGED vars
  BY DEF DoAssert, DoKeep, At
<1>2. c = "main"
  BY <1>1, AloneIsMain
<1>3. Sees(Step(c), w, y)
  BY <1>1, AloneSees
<1>4. Step(c).op \in Asserts \cup {"keep"}
  BY DEF DoAssert, DoKeep, At
<1>5. store = w.store /\ view[c] = w.view /\ kept = w.kept
  BY <1>2, <1>4, AloneAgrees DEF Agrees, Asserts
<1> HIDE DEF w, y
<1>6. store' = y.store /\ view'[c] = y.view /\ kept' = y.kept
  <2>1. CASE DoAssert(c)
    <3>1. y = w
      BY <1>3, <2>1 DEF Sees, DoAssert
    <3> QED
      BY <1>1, <1>5, <2>1, <3>1 DEF DoAssert, vars
  <2>2. CASE DoKeep(c)
    <3>1. y = World(w.store, w.view,
                    [w.kept EXCEPT ![Step(c).name] = Iter(w.view[0], <<>>)])
      BY <1>3, <2>2 DEF Sees, DoKeep, At
    <3>2. kept' = [kept EXCEPT ![Step(c).name] = Iter(view[c][0], <<>>)]
      BY <2>2 DEF DoKeep, PrefixIter
    <3> QED
      BY <1>1, <1>5, <3>1, <3>2 DEF World, vars
  <2> QED
    BY <2>1, <2>2
<1>7. Agrees(store', view'["main"], kept', y)
  BY <1>2, <1>6 DEF Agrees
<1> QED
  BY <1>1, <1>2, <1>7, AloneAdvances DEF y

LEMMA NextAlone ==
  ASSUME OrderInv, ShapeInv, AloneInv, [SuiteNext]_<<vars, suiteVars>>, Test' = Test
  PROVE  AloneInv'
<1> SUFFICES ASSUME Test = "alone"
             PROVE  AloneInv'
  BY DEF AloneInv
<1>1. ASSUME NEW c \in Clients, DoAdd(c) \/ DoSpawn(c) \/ DoJoin(c)
      PROVE  FALSE
  <2>1. Running(c) /\ Step(c).op \in {"add", "spawn", "join"}
    BY <1>1 DEF DoAdd, DoSpawn, DoJoin, At
  <2> QED
    BY <2>1, AloneSees DEF Sees
<1>2. ASSUME UNCHANGED <<vars, suiteVars>>
      PROVE  AloneInv'
  <2>1. Test' = Test /\ \A d : Place(d)' = Place(d)
    BY <1>2, StillInv DEF vars, suiteVars
  <2>2. At("main", "delall")' = At("main", "delall") /\ Step("main")' = Step("main")
    BY <1>2 DEF suiteVars, At, Running, Finished, Step
  <2> QED
    BY <1>2, <2>1, <2>2 DEF AloneInv, vars, suiteVars
<1> QED
  BY <1>1, <1>2, AloneTransactions, AloneDelAll, AloneReads DEF SuiteNext, Passed

-----------------------------------------------------------------------------
(* A test of several threads *)

SingleWriter == \A c, d \in Clients : mode[c] = "rw" /\ mode[d] = "rw" => c = d

\* The threads that have committed.
Done == {c \in Clients : pc[c] > 0 /\ Place(c)[3].stage = "done"}

\* What thread c, with the transaction m open that sees V, has of the data when the
\* threads in D have committed and a is known.
Holding(t, D, c, m, a, V) ==
  /\ a.known \subseteq D
  /\ a.stage = "wrote" => m = "rw" /\ V = ContentsAfter(t, D \cup {c})
  /\ a.stage # "wrote" /\ m # "idle" =>
       \E C \in Possible(t) :
         a.known \subseteq C /\ V = ContentsAfter(t, C) /\ (m = "rw" => C = D)

\* The committed contents are those that the threads leave that have committed, and
\* an open transaction sees what some of them have left, a writer all of them, with
\* its own write on top once it has written.
SharedInv ==
  Test \in Tests =>
    /\ Done \in Possible(Test) /\ store = ContentsAfter(Test, Done)
    /\ \A c \in Clients :
         pc[c] > 0 => Holding(Test, Done, c, mode[c], Place(c)[3], view[c])

LEMMA NextWriter ==
  ASSUME OrderInv, SingleWriter, [SuiteNext]_<<vars, suiteVars>>
  PROVE  SingleWriter'
<1>1. mode \in [Clients -> Modes]
  BY DEF OrderInv, StateInv
<1>2. CASE mode' = mode
  BY <1>2 DEF SingleWriter
<1>3. ASSUME NEW c \in Clients, DoBegin(c)
      PROVE  SingleWriter'
  <2>1. PICK kind : Begin(c, kind)
    BY <1>3 DEF DoBegin
  <2>2. /\ mode' = [mode EXCEPT ![c] = kind]
        /\ kind = "rw" => \A d \in Clients : mode[d] # "rw"
    BY <2>1 DEF Begin, Writing
  <2> QED
    BY <1>1, <2>2 DEF SingleWriter
<1>4. ASSUME NEW c \in Clients, DoCommit(c) \/ DoDrop(c)
      PROVE  SingleWriter'
  <2>1. mode' = [mode EXCEPT ![c] = "idle"]
    BY <1>4 DEF DoCommit, DoDrop, Commit, End, Release
  <2> QED
    BY <1>1, <2>1 DEF SingleWriter
<1>5. ASSUME NEW c \in Clients,
             \/ DoWrite(c) \/ DoAdd(c) \/ DoDelAll(c) \/ DoAssert(c) \/ DoKeep(c)
             \/ DoSpawn(c) \/ DoJoin(c)
      PROVE  mode' = mode
  BY <1>5 DEF DoWrite, DoAdd, DoDelAll, DoAssert, DoKeep, DoSpawn, DoJoin, Write, vars
<1>6. ASSUME Passed \/ UNCHANGED <<vars, suiteVars>>
      PROVE  mode' = mode
  BY <1>6 DEF Passed, vars
<1> QED
  BY <1>2, <1>3, <1>4, <1>5, <1>6 DEF SuiteNext

LEMMA HoldingOn ==
  ASSUME NEW t, NEW D, NEW E, NEW c, NEW m, NEW a, NEW V,
         Holding(t, D, c, m, a, V), m # "rw", D \subseteq E
  PROVE  Holding(t, E, c, m, a, V)
BY DEF Holding

LEMMA SharedStep ==
  ASSUME OrderInv, SharedInv, Test \in Tests, NEW c \in Clients, Running(c)
  PROVE  /\ Shares(Test, c, Step(c), Place(c)[3], Route(c)[pc[c] + 1][3])
         /\ Moves(c, Step(c), Place(c), Route(c)[pc[c] + 1])
         /\ mode[c] = Place(c)[1]
         /\ Holding(Test, Done, c, mode[c], Place(c)[3], view[c])
<1>1. pc[c] > 0
  BY DEF Running
<1> QED
  BY <1>1, NextStep DEF Leads, SharedInv

\* The threads that have committed stay the same, ...
LEMMA SharedStays ==
  ASSUME OrderInv, SharedInv, Test \in Tests, NEW c \in Clients, Running(c), Advance(c),
         Route(c)[pc[c] + 1][3].stage = "done" <=> Place(c)[3].stage = "done",
         store' = store,
         \A d \in Clients \ {c} : view'[d] = view[d] /\ mode'[d] = mode[d],
         Holding(Test, Done, c, mode'[c], Route(c)[pc[c] + 1][3], view'[c])
  PROVE  SharedInv'
<1>1. /\ Test' = Test /\ pc'[c] > 0 /\ Place(c)' = Route(c)[pc[c] + 1]
      /\ \A d \in Clients \ {c} : pc'[d] = pc[d] /\ Place(d)' = Place(d)
  BY PlacesMove
<1>2. pc[c] > 0
  BY DEF Running
<1>3. Done' = Done
  BY <1>1, <1>2 DEF Done
<1>4. ASSUME NEW d \in Clients, pc'[d] > 0
      PROVE  Holding(Test, Done, d, mode'[d], Place(d)'[3], view'[d])
  <2>1. CASE d = c
    BY <1>1, <2>1
  <2>2. CASE d # c
    <3>1. Holding(Test, Done, d, mode[d], Place(d)[3], view[d])
      BY <1>1, <1>4, <2>2 DEF SharedInv
    <3> QED
      BY <1>1, <2>2, <3>1
  <2> QED
    BY <2>1, <2>2
<1> QED
  BY <1>1, <1>3, <1>4 DEF SharedInv

\* ... or the thread is one of them from now on.
LEMMA SharedCommits ==
  ASSUME OrderInv, ShapeInv, SingleWriter, SharedInv, Test \in Tests,
         NEW c \in Clients, DoCommit(c)
  PROVE  SharedInv'
<1> DEFINE a == Place(c)[3]
           y == Route(c)[pc[c] + 1][3]
           E == Done \cup {c}
<1>1. Running(c) /\ Advance(c) /\ Step(c).op = "commit" /\ Commit(c)
  BY DEF DoCommit, At
<1>2. /\ Test' = Test /\ pc'[c] > 0 /\ Place(c)' = Route(c)[pc[c] + 1]
      /\ \A d \in Clients \ {c} : pc'[d] = pc[d] /\ Place(d)' = Place(d)
  BY <1>1, PlacesMove
<1>3. /\ store' = view[c] /\ mode' = [mode EXCEPT ![c] = "idle"]
      /\ \A d \in Clients \ {c} : view'[d] = view[d]
  BY <1>1, ShapeOfEnd DEF Commit, Release
<1>4. /\ Shares(Test, c, Step(c), a, y) /\ Moves(c, Step(c), Place(c), Route(c)[pc[c] + 1])
      /\ mode[c] = Place(c)[1] /\ Holding(Test, Done, c, mode[c], a, view[c])
  BY <1>1, SharedStep
<1>5. /\ a.stage = "wrote" /\ y = Known("done", a.known \cup {c})
      /\ c \in Commits(Test) /\ Before(Test) \subseteq a.known \cup {c}
  BY <1>1, <1>4 DEF Shares
<1>6. mode[c] = "rw" /\ view[c] = ContentsAfter(Test, E) /\ a.known \subseteq Done
  BY <1>4, <1>5 DEF Holding
<1>7. y.stage = "done" /\ y.known \subseteq E
  BY <1>5, <1>6 DEF Known
<1>8. Done' = E
  BY <1>2, <1>7 DEF Done
<1>9. E \in Possible(Test)
  BY <1>5, <1>6 DEF SharedInv, Possible
<1>10. mode' \in [Clients -> Modes] /\ mode'[c] = "idle"
       /\ \A d \in Clients \ {c} : mode'[d] = mode[d] /\ mode[d] # "rw"
  BY <1>3, <1>6 DEF OrderInv, StateInv, SingleWriter, Modes
<1>11. ASSUME NEW d \in Clients, pc'[d] > 0
       PROVE  Holding(Test, E, d, mode'[d], Place(d)'[3], view'[d])
  <2>1. CASE d = c
    BY <1>2, <1>7, <1>10, <2>1 DEF Holding
  <2>2. CASE d # c
    <3>1. Holding(Test, Done, d, mode[d], Place(d)[3], view[d])
      BY <1>2, <1>11, <2>2 DEF SharedInv
    <3>2. Holding(Test, E, d, mode[d], Place(d)[3], view[d])
      BY <1>10, <2>2, <3>1, HoldingOn
    <3> QED
      BY <1>2, <1>3, <1>10, <2>2, <3>2
  <2> QED
    BY <2>1, <2>2
<1> HIDE DEF E
<1> QED
  BY <1>2, <1>3, <1>6, <1>8, <1>9, <1>11 DEF SharedInv

LEMMA SharedBegin ==
  ASSUME OrderInv, ShapeInv, SharedInv, Test \in Tests, NEW c \in Clients, DoBegin(c)
  PROVE  SharedInv'
<1> DEFINE a == Place(c)[3]
           y == Route(c)[pc[c] + 1][3]
<1>1. Running(c) /\ Advance(c) /\ Step(c).op = "begin" /\ Begin(c, Step(c).kind)
  BY DEF DoBegin, At
<1>2. mode[c] = "idle" /\ \A d \in Clients \ {c} : mode'[d] = mode[d]
  BY <1>1 DEF Begin, OrderInv, StateInv
<1>3. /\ store' = store /\ view'[c] = store
      /\ \A d \in Clients \ {c} : view'[d] = view[d]
  BY <1>1, ShapeOfBegin
<1>4. y = a /\ Holding(Test, Done, c, mode[c], a, view[c])
  BY <1>1, SharedStep DEF Shares
<1>5. a.stage # "wrote" /\ a.known \subseteq Done
  BY <1>2, <1>4 DEF Holding
<1>6. Done \in Possible(Test) /\ store = ContentsAfter(Test, Done)
  BY DEF SharedInv
<1>7. Holding(Test, Done, c, mode'[c], y, view'[c])
  BY <1>3, <1>4, <1>5, <1>6 DEF Holding
<1> QED
  BY <1>1, <1>2, <1>3, <1>4, <1>7, SharedStays

LEMMA SharedDrop ==
  ASSUME OrderInv, ShapeInv, SharedInv, Test \in Tests, NEW c \in Clients, DoDrop(c)
  PROVE  SharedInv'
<1> DEFINE a == Place(c)[3]
           y == Route(c)[pc[c] + 1][3]
<1>1. Running(c) /\ Advance(c) /\ Step(c).op = "drop" /\ End(c)
  BY DEF DoDrop, At
<1>2. mode'[c] = "idle" /\ \A d \in Clients \ {c} : mode'[d] = mode[d]
  BY <1>1 DEF End, Release, OrderInv, StateInv
<1>3. store' = store /\ \A d \in Clients \ {c} : view'[d] = view[d]
  BY <1>1, ShapeOfEnd
<1>4. y = a /\ a.stage # "wrote" /\ Holding(Test, Done, c, mode[c], a, view[c])
  BY <1>1, SharedStep DEF Shares
<1>5. Holding(Test, Done, c, mode'[c], y, view'[c])
  BY <1>2, <1>4 DEF Holding
<1> QED
  BY <1>1, <1>2, <1>3, <1>4, <1>5, SharedStays

LEMMA SharedRead ==
  ASSUME OrderInv, SharedInv, Test \in Tests, NEW c \in Clients, DoAssert(c)
  PROVE  SharedInv'
<1> DEFINE a == Place(c)[3]
           y == Route(c)[pc[c] + 1][3]
<1>1. Running(c) /\ Advance(c) /\ Step(c).op \in Asserts /\ UNCHANGED vars
  BY DEF DoAssert
<1>2. /\ Shares(Test, c, Step(c), a, y) /\ Holding(Test, Done, c, mode[c], a, view[c])
  BY <1>1, SharedStep
<1>3. Step(c).op \in {"get", "iter"}
  BY <1>1, <1>2 DEF Shares, Asserts
<1>4. y = a
  BY <1>2, <1>3 DEF Shares
<1>5. Holding(Test, Done, c, mode'[c], y, view'[c])
  BY <1>1, <1>2, <1>4 DEF vars
<1>6. store' = store /\ \A d \in Clients \ {c} : view'[d] = view[d] /\ mode'[d] = mode[d]
  BY <1>1 DEF vars
<1> QED
  BY <1>1, <1>4, <1>5, <1>6, SharedStays

LEMMA SharedWrite ==
  ASSUME OrderInv, ShapeInv, SharedInv, Test \in Tests, NEW c \in Clients,
         DoWrite(c) \/ DoAdd(c)
  PROVE  SharedInv'
<1> DEFINE a == Place(c)[3]
           y == Route(c)[pc[c] + 1][3]
<1>1. Running(c) /\ Advance(c) /\ Step(c).op \in {"write", "add"}
  BY DEF DoWrite, DoAdd, At
<1>2. Shares(Test, c, Step(c), a, y) /\ Holding(Test, Done, c, mode[c], a, view[c])
  BY <1>1, SharedStep
<1>3. a.stage = "none" /\ y = Known("wrote", a.known)
  BY <1>1, <1>2 DEF Shares
<1>4. mode[c] = "rw" /\ mode' = mode
  BY DEF DoWrite, DoAdd, Write
<1>5. c \notin Done /\ Done \in Possible(Test) /\ a.known \subseteq Done
      /\ view[c] = ContentsAfter(Test, Done)
  BY <1>2, <1>3, <1>4 DEF Done, Holding
<1>6. /\ store' = store /\ view'[c] = ContentsAfter(Test, Done \cup {c})
      /\ \A d \in Clients \ {c} : view'[d] = view[d]
  <2>1. CASE DoWrite(c)
    <3>1. PICK m, k, v : m = Step(c).map /\ k = Step(c).key /\ v = Step(c).val
      OBVIOUS
    <3>2. Write(c, m, k, v)
      BY <2>1, <3>1 DEF DoWrite
    <3>3. Written(ContentsAfter(Test, Done), m, k, v) = ContentsAfter(Test, Done \cup {c})
      BY <1>2, <1>5, <2>1, <3>1 DEF Shares, DoWrite, At
    <3> QED
      BY <1>5, <3>2, <3>3, ShapeOfWrite
  <2>2. CASE DoAdd(c)
    <3>1. PICK k, v : k = Step(c).key /\ v = view[c][0][k] + Step(c).addend
      OBVIOUS
    <3>2. Write(c, 0, k, v)
      BY <2>2, <3>1 DEF DoAdd
    <3>3. Written(ContentsAfter(Test, Done), 0, k, v) = ContentsAfter(Test, Done \cup {c})
      BY <1>2, <1>5, <2>2, <3>1 DEF Shares, DoAdd, At
    <3> QED
      BY <1>5, <3>2, <3>3, ShapeOfWrite
  <2> QED
    BY <2>1, <2>2
<1>7. y.stage = "wrote" /\ y.known = a.known
  BY <1>3 DEF Known
<1>8. Holding(Test, Done, c, mode'[c], y, view'[c])
  BY <1>4, <1>5, <1>6, <1>7 DEF Holding
<1> QED
  BY <1>1, <1>3, <1>4, <1>6, <1>7, <1>8, SharedStays

LEMMA SharedJoin ==
  ASSUME OrderInv, SharedInv, Test \in Tests, NEW c \in Clients, DoJoin(c)
  PROVE  SharedInv'
<1> DEFINE a == Place(c)[3]
           y == Route(c)[pc[c] + 1][3]
           u == Step(c).thread
<1>1. /\ Running(c) /\ Advance(c) /\ Step(c).op = "join" /\ WaitsFor(c) = {}
      /\ UNCHANGED vars
  BY DEF DoJoin, At
<1>2. /\ Shares(Test, c, Step(c), a, y) /\ Moves(c, Step(c), Place(c), Route(c)[pc[c] + 1])
      /\ mode[c] = Place(c)[1] /\ Holding(Test, Done, c, mode[c], a, view[c])
  BY <1>1, SharedStep
<1>3. y = Known(a.stage, a.known \cup ({u} \cap Commits(Test)))
  BY <1>1, <1>2 DEF Shares
<1>4. mode[c] = "idle" /\ c = "main" /\ u \in Place(c)[2]
  BY <1>1, <1>2 DEF Moves, Asserts
<1>5. u \in Clients /\ pc[u] > 0 /\ Finished(u)
  <2>1. u \in Workers /\ pc[u] > 0
    BY <1>4 DEF OrderInv, PlaceInv
  <2>2. {u} \ {d \in Clients : Finished(d)} = {}
    BY <1>1 DEF WaitsFor, At
  <2> QED
    BY <2>1, <2>2 DEF Workers
<1>6. u \in Commits(Test) => u \in Done
  BY <1>5, FinishedEnds DEF EndOf, Done
<1>7. a.stage # "wrote" /\ a.known \subseteq Done
  BY <1>2, <1>4 DEF Holding
<1>8. y.stage = a.stage /\ y.known \subseteq Done
  BY <1>3, <1>6, <1>7 DEF Known
<1>9. Holding(Test, Done, c, mode'[c], y, view'[c])
  BY <1>1, <1>4, <1>7, <1>8 DEF Holding, vars
<1>10. store' = store /\ \A d \in Clients \ {c} : view'[d] = view[d] /\ mode'[d] = mode[d]
  BY <1>1 DEF vars
<1> QED
  BY <1>1, <1>8, <1>9, <1>10, SharedStays

LEMMA SharedSpawn ==
  ASSUME OrderInv, SharedInv, Test \in Tests, NEW c \in Clients, DoSpawn(c)
  PROVE  SharedInv'
<1>1. PICK u : u = Step(c).thread
  OBVIOUS
<1>2. /\ Running(c) /\ c = "main" /\ u \in Workers \ Place(c)[2] /\ pc[u] = 0
      /\ UNCHANGED vars /\ Test' = Test
      /\ pc'[c] = pc[c] + 1 /\ pc'[u] = 1
      /\ \A d \in Clients \ {c, u} : pc'[d] = pc[d]
      /\ Place(c)' = Route(c)[pc[c] + 1]
      /\ \A d \in Clients \ {c} : Place(d)' = Place(d)
  BY <1>1, SpawnPlaces
<1>3. /\ Shares(Test, c, Step(c), Place(c)[3], Place(c)'[3])
      /\ Holding(Test, Done, c, mode[c], Place(c)[3], view[c])
  BY <1>2, SharedStep
<1>4. Step(c).op = "spawn"
  BY DEF DoSpawn, At
<1>5. Place(c)'[3] = Place(c)[3] /\ Before(Test) \subseteq Place(c)[3].known
  BY <1>3, <1>4 DEF Shares
<1>6. pc[c] \in Nat /\ pc[c] > 0 /\ u \in Clients /\ u # c /\ u # "main"
  BY <1>2 DEF Running, OrderInv, StateInv, Workers
<1>7. Place(u) = Shared("idle", {}, Known("none", Before(Test)))
  <2>1. Place(u) = StartOf(Test, u)
    BY <1>2, <1>6 DEF Place, OrderInv, ProgramInv
  <2> QED
    BY <1>6, <2>1 DEF StartOf, Tests
<1>8. Place(u)[1] = "idle" /\ Place(u)[3].stage = "none" /\ Place(u)[3].known = Before(Test)
  BY <1>7 DEF Shared, Known
<1>9. mode[u] = "idle"
  BY <1>6, <1>8 DEF OrderInv, PlaceInv
<1>10. Done' = Done
  <2>1. ASSUME NEW d \in Clients
        PROVE  (pc'[d] > 0 /\ Place(d)'[3].stage = "done")
                 <=> (pc[d] > 0 /\ Place(d)[3].stage = "done")
    <3>1. CASE d = c
      BY <1>2, <1>5, <1>6, <3>1
    <3>2. CASE d = u
      BY <1>2, <1>6, <1>8, <3>2
    <3>3. CASE d \notin {c, u}
      BY <1>2, <3>3
    <3> QED
      BY <3>1, <3>2, <3>3
  <2> QED
    BY <2>1 DEF Done
<1>11. ASSUME NEW d \in Clients, pc'[d] > 0
       PROVE  Holding(Test, Done, d, mode[d], Place(d)'[3], view[d])
  <2>1. CASE d = c
    BY <1>3, <1>5, <2>1
  <2>2. CASE d = u
    <3>1. Before(Test) \subseteq Done
      BY <1>3, <1>5 DEF Holding
    <3> QED
      BY <1>2, <1>6, <1>8, <1>9, <2>2, <3>1 DEF Holding
  <2>3. CASE d \notin {c, u}
    BY <1>2, <1>11, <2>3 DEF SharedInv
  <2> QED
    BY <2>1, <2>2, <2>3
<1> QED
  BY <1>2, <1>10, <1>11 DEF SharedInv, vars

LEMMA NextShared ==
  ASSUME OrderInv, ShapeInv, SingleWriter, SharedInv, [SuiteNext]_<<vars, suiteVars>>,
         Test' = Test
  PROVE  SharedInv'
<1> SUFFICES ASSUME Test \in Tests
             PROVE  SharedInv'
  BY DEF SharedInv
<1>1. ASSUME NEW c \in Clients, DoDelAll(c) \/ DoKeep(c)
      PROVE  FALSE
  <2>1. Running(c) /\ Step(c).op \in {"delall", "keep"}
    BY <1>1 DEF DoDelAll, DoKeep, At
  <2> QED
    BY <2>1, SharedStep DEF Shares
<1>2. ASSUME UNCHANGED <<vars, suiteVars>>
      PROVE  SharedInv'
  <2>1. \A d : Place(d)' = Place(d)
    BY <1>2, StillInv DEF vars, suiteVars
  <2>2. Done' = Done
    BY <1>2, <2>1 DEF Done, suiteVars
  <2> QED
    BY <1>2, <2>1, <2>2 DEF SharedInv, vars, suiteVars
<1> QED
  BY <1>1, <1>2, SharedBegin, SharedDrop, SharedRead, SharedWrite, SharedJoin, SharedSpawn,
     SharedCommits DEF SuiteNext, Passed

DataInv == ShapeInv /\ SingleWriter /\ AloneInv /\ SharedInv

LEMMA InitData ==
  ASSUME SuiteInit
  PROVE  DataInv
<1>1. OrderInv
  BY InitInv
<1>2. /\ store = EmptyContents /\ view = [c \in Clients |-> EmptyContents]
      /\ mode = [c \in Clients |-> "idle"]
      /\ pc = [c \in Clients |-> IF c = "main" THEN 1 ELSE 0]
      /\ kept = NothingKept
  BY DEF SuiteInit, Init, NothingKept
<1>3. \A c \in Clients : Place(c) = StartOf(Test, c)
  BY <1>1, <1>2 DEF Place, OrderInv, ProgramInv
<1>4. "main" \in Clients /\ Workers = Clients \ {"main"}
  BY ThreadsAssumption DEF Workers
<1>5. ShapeInv
  <2>1. Shaped(EmptyContents)
    BY DEF Shaped, EmptyContents
  <2> QED
    BY <1>2, <2>1 DEF ShapeInv
<1>6. SingleWriter
  BY <1>2 DEF SingleWriter
<1>7. AloneInv
  <2>1. ASSUME Test = "alone"
        PROVE  Agrees(store, view["main"], kept, Place("main")[3])
    <3>1. Place("main")[3] = World(EmptyContents, EmptyContents, NothingKept)
      BY <1>3, <1>4, <2>1 DEF StartOf, Start, Idle
    <3> QED
      BY <1>2, <1>4, <3>1 DEF Agrees, World
  <2>2. \A c \in Workers : pc[c] = 0
    BY <1>2, <1>4
  <2> QED
    BY <2>1, <2>2 DEF AloneInv
<1>8. SharedInv
  <2> SUFFICES ASSUME Test \in Tests
               PROVE  /\ Done \in Possible(Test) /\ store = ContentsAfter(Test, Done)
                      /\ \A c \in Clients :
                           pc[c] > 0 => Holding(Test, Done, c, mode[c], Place(c)[3], view[c])
    BY DEF SharedInv
  <2>1. Place("main")[3] = Known("none", {})
    <3>1. Test # "alone"
      BY DEF Tests
    <3>2. StartOf(Test, "main") = Shared("idle", {}, Known("none", {}))
      BY <3>1 DEF StartOf
    <3> QED
      BY <1>3, <1>4, <3>2 DEF Shared
  <2>2. Place("main")[3].stage = "none" /\ Place("main")[3].known = {}
    BY <2>1 DEF Known
  <2>3. \A c \in Clients : pc[c] > 0 => c = "main"
    BY <1>2
  <2>4. Done = {}
    BY <2>2, <2>3 DEF Done
  <2>5. Done \in Possible(Test)
    BY <2>4 DEF Possible
  <2>6. store = ContentsAfter(Test, Done)
    <3>1. \A k : ValueAfter(Test, {}, k) = None
      <4>1. /\ \A k : ValueAfter("initialize race", {}, k) = None
            /\ \A k : ValueAfter("write race", {}, k) = None
            /\ \A k : ValueAfter("read modify write", {}, k) = None
            /\ \A k : ValueAfter("consistent reads", {}, k) = None
            /\ \A k : ValueAfter("different keys", {}, k) = None
        BY ValuesOfTests
      <4> QED
        BY <4>1 DEF Tests
    <3>2. ContentsAfter(Test, {}) = EmptyContents
      BY <3>1 DEF ContentsAfter, EmptyContents
    <3> QED
      BY <1>2, <2>4, <3>2
  <2>7. \A c \in Clients :
          pc[c] > 0 => Holding(Test, Done, c, mode[c], Place(c)[3], view[c])
    BY <1>2, <2>2, <2>3 DEF Holding
  <2> QED
    BY <2>5, <2>6, <2>7
<1> QED
  BY <1>5, <1>6, <1>7, <1>8 DEF DataInv

LEMMA NextData ==
  ASSUME OrderInv, DataInv, [SuiteNext]_<<vars, suiteVars>>
  PROVE  DataInv'
<1>1. program' = program
  BY DEF SuiteNext, DoBegin, DoWrite, DoAdd, DoDelAll, DoCommit, DoDrop, DoAssert, DoKeep,
     DoSpawn, DoJoin, Passed, Advance, suiteVars
<1>2. Test' = Test
  BY <1>1, SameProgram DEF OrderInv
<1> QED
  BY <1>2, NextShape, NextWriter, NextAlone, NextShared DEF DataInv

\* In every state of every test, of one thread or of several, the committed contents
\* are those that the threads leave that have committed, all at once and one after
\* the other, and an open transaction sees contents that were committed, with its
\* own writes on top: in a test of one thread, exactly the contents that the steps
\* behind it make.
THEOREM TestsSeeTheirData == SuiteSpec => [](OrderInv /\ DataInv)
<1>1. SuiteInit => OrderInv /\ DataInv
  BY InitInv, InitData
<1>2. OrderInv /\ DataInv /\ [SuiteNext]_<<vars, suiteVars>> => OrderInv' /\ DataInv'
  BY NextInv, NextData
<1> QED
  BY <1>1, <1>2, PTL DEF SuiteSpec

LEMMA AssertionsHold ==
  ASSUME OrderInv, DataInv
  PROVE  NoTestFails
<1> SUFFICES ASSUME NEW c \in Clients, Running(c), Step(c).op \in Asserts
             PROVE  Holds(c)
  BY DEF NoTestFails
<1>1. CASE Test = "alone"
  <2>1. c = "main"
    BY <1>1, AloneIsMain DEF DataInv
  <2>2. Step(c).op # "delall"
    BY DEF Asserts
  <2>3. Agrees(store, view[c], kept, Place(c)[3])
    BY <1>1, <2>1, <2>2, AloneAgrees DEF DataInv
  <2>4. Satisfied(Step(c), Place(c)[3])
    BY <1>1, AloneSees DEF Sees
  <2> QED
    BY <2>3, <2>4 DEF Agrees, Satisfied, Holds, PrefixIter, Asserts
<1>2. CASE Test \in Tests
  <2> DEFINE a == Place(c)[3]
  <2>1. /\ Shares(Test, c, Step(c), a, Route(c)[pc[c] + 1][3])
        /\ Moves(c, Step(c), Place(c), Route(c)[pc[c] + 1])
        /\ mode[c] = Place(c)[1] /\ Holding(Test, Done, c, mode[c], a, view[c])
    BY <1>2, SharedStep DEF DataInv
  <2>2. Step(c).op \in {"get", "iter"}
    BY <2>1 DEF Shares, Asserts
  <2>3. a.stage # "wrote" /\ mode[c] # "idle"
    BY <2>1, <2>2 DEF Shares, Moves, Kinds, Asserts
  <2>4. PICK C \in Possible(Test) : a.known \subseteq C /\ view[c] = ContentsAfter(Test, C)
    BY <2>1, <2>3 DEF Holding
  <2>5. CASE Step(c).op = "get"
    <3>1. view[c][Step(c).map][Step(c).key] \in Step(c).among
      BY <2>1, <2>4, <2>5 DEF Shares
    <3> QED
      BY <2>5, <3>1 DEF Holds
  <2>6. CASE Step(c).op = "iter"
    <3>1. Iter(view[c][0], Step(c).prefix) = Step(c).entries
      BY <2>1, <2>4, <2>6 DEF Shares
    <3> QED
      BY <2>6, <3>1 DEF Holds, PrefixIter
  <2> QED
    BY <2>2, <2>5, <2>6
<1> QED
  BY <1>1, <1>2 DEF OrderInv, ProgramInv

\* No test fails on any backend that keeps the contract, whatever the tests draw at
\* random and however the backend schedules the transactions of their threads:
\* every assertion holds when it is reached.
THEOREM TestsDoNotFail == SuiteSpec => []NoTestFails
<1>1. OrderInv /\ DataInv => NoTestFails
  BY AssertionsHold
<1> QED
  BY <1>1, TestsSeeTheirData, PTL
=============================================================================
