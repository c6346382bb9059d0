--------------------------- MODULE SqlModelProofs ---------------------------
(***************************************************************************)
(* SqlModel implements RowStore, and explains its errors, for any number   *)
(* of processes, threads, tables, keys, calls, faults and crashes.         *)
(*                                                                         *)
(* The invariant says where the shared classes and the database may        *)
(* differ: a table in the metadata or the pool of a process is missing     *)
(* from the database only while a thread of that process is about to       *)
(* create it, or after its CREATE failed there.                            *)
(***************************************************************************)
EXTENDS SqlModel, TLAPS

PCs == {"idle", "pool", "reflect", "define", "create", "session", "commit"}
Errors == {"none", "defined", "no_table", "fault"}

SqlTypeOK ==
  /\ tables \in SUBSET Names
  /\ rows \in [Names -> [Keys -> Store!Values \cup {NoRow}]]
  /\ seen \in [Callers -> Store!Values \cup {NoRow}]
  /\ metadata \in [Procs -> SUBSET Names]
  /\ pool \in [Procs -> SUBSET Names]
  /\ failed \in [Procs -> SUBSET Names]
  /\ pc \in [Callers -> PCs]
  /\ call \in [Callers -> Store!Calls \cup {Idle}]
  /\ answer \in [Callers -> Store!Values \cup {NoRow, Done, Raised, Idle}]
  /\ error \in [Callers -> Errors]

\* A thread is idle when it has no call.
IdleOK == \A t \in Callers : pc[t] = "idle" <=> call[t] = Idle

\* Two threads of one process never work on one table.
Apart ==
  \A t, u \in Callers :
    t # u /\ Process[t] = Process[u] /\ pc[t] # "idle" /\ pc[u] # "idle"
      => name(t) # name(u)

\* A table that is not there has no rows.
NoTableNoRows ==
  \A n \in Names \ tables : \A k \in Keys : rows[n][k] = NoRow

\* Only a put creates a table or commits.
PutsWrite ==
  \A t \in Callers : pc[t] \in {"define", "create", "commit"} => IsPut(t)

Creating(p, n) ==
  \E t \in Callers : Process[t] = p /\ pc[t] = "create" /\ name(t) = n

MetadataOK ==
  \A p \in Procs : \A n \in metadata[p] :
    n \in tables \/ n \in failed[p] \/ Creating(p, n)

PoolOK == \A p \in Procs : pool[p] \subseteq tables \cup failed[p]

SessionOK ==
  \A t \in Callers :
    /\ pc[t] = "session" => name(t) \in tables \cup failed[Process[t]]
    /\ pc[t] = "commit" => name(t) \in tables

DefineOK ==
  \A t \in Callers :
    pc[t] = "define" /\ name(t) \in metadata[Process[t]] => name(t) \in tables

\* Rows are never taken away: a row the merge found is still there.
SeenOK ==
  \A t \in Callers :
    pc[t] = "commit" /\ seen[t] # NoRow
      => rows[name(t)][call[t].key] # NoRow

SqlInv ==
  /\ SqlTypeOK /\ IdleOK /\ Apart /\ NoTableNoRows /\ PutsWrite
  /\ MetadataOK /\ PoolOK /\ SessionOK /\ DefineOK /\ SeenOK
-----------------------------------------------------------------------------
\* A thread that is not idle works on a call of the store.
LEMMA CallFields ==
  ASSUME SqlTypeOK, IdleOK, NEW t \in Callers, pc[t] # "idle"
  PROVE  /\ call[t] \in Store!Calls
         /\ name(t) \in Names
         /\ call[t].key \in Keys
         /\ call[t].value \in Store!Values \cup {NoRow}
BY DEF SqlTypeOK, IdleOK, Store!Calls, Store!Values, name

\* What a commit leaves in the row of its key.
Left(t) ==
  LET c == call[t] IN Committed(seen[t], rows[c.name][c.key], c.value)

\* It is a row: of the put, of another, or mixed from both.
LEMMA CommittedRow ==
  ASSUME SqlInv, NEW t \in Callers, pc[t] = "commit"
  PROVE  Left(t) \in Store!Values
<1> DEFINE row == rows[call[t].name][call[t].key]
           new == call[t].value
<1>1. new \in Store!Values
  BY CallFields DEF SqlInv, PutsWrite, IsPut
<1>2. row \in Store!Values \cup {NoRow}
  BY CallFields DEF SqlInv, SqlTypeOK, name
<1>3. CASE seen[t] = NoRow
  BY <1>1, <1>2, <1>3 DEF Left, Committed, Inserted
<1>4. CASE seen[t] # NoRow
  <2>1. row \in Store!Values
    BY <1>2, <1>4 DEF SqlInv, SeenOK, name
  <2>2. \A col \in Columns : new[col] \in Data /\ row[col] \in Data
    BY <1>1, <2>1 DEF Store!Values
  <2>3. Updated(seen[t], row, new) \in Store!Values
    BY <1>1, <2>2 DEF Updated, Store!Values
  <2>. QED BY <1>4, <2>3 DEF Left, Committed
<1>. QED BY <1>3, <1>4

\* Every step keeps the types: of what a get returns, in particular.
LEMMA TypeStep == SqlInv /\ [Next]_vars => SqlTypeOK'
<1> SUFFICES ASSUME SqlInv, [Next]_vars PROVE SqlTypeOK'
  OBVIOUS
<1> USE ProcessAssumption, IdleAssumption DEF SqlInv, SqlTypeOK, PCs, Errors,
  database, classes, counters
<1>1. ASSUME NEW t \in Callers, Call(t) PROVE SqlTypeOK'
  BY <1>1, CallFields DEF Call
<1>2. ASSUME NEW t \in Callers, Pool(t) PROVE SqlTypeOK'
  BY <1>2, CallFields DEF Pool, Goto
<1>3. ASSUME NEW t \in Callers, ReflectHit(t) PROVE SqlTypeOK'
  BY <1>3, CallFields DEF ReflectHit, Goto, Prepared
<1>4. ASSUME NEW t \in Callers, ReflectMiss(t) PROVE SqlTypeOK'
  BY <1>4, CallFields DEF ReflectMiss, Goto, Returns, Prepared
<1>5. ASSUME NEW t \in Callers, Define(t) PROVE SqlTypeOK'
  <2>1. name(t) \in Names
    BY <1>5, CallFields DEF Define
  <2>2. metadata' \in [Procs -> SUBSET Names]
    BY <1>5, <2>1 DEF Define
  <2>3. CASE Raises(t, "define", "defined")
    BY <1>5, <2>2, <2>3 DEF Define, Raises
  <2>4. CASE Goto(t, "define", "create")
    BY <1>5, <2>2, <2>4 DEF Define, Goto
  <2>. QED BY <1>5, <2>3, <2>4 DEF Define
<1>6. ASSUME NEW t \in Callers, Create(t) PROVE SqlTypeOK'
  BY <1>6, CallFields DEF Create, Goto
<1>7. ASSUME NEW t \in Callers, Get(t) PROVE SqlTypeOK'
  <2>1. rows[name(t)][call[t].key] \in Store!Values \cup {NoRow}
    BY <1>7, CallFields DEF Get, Returns
  <2>. QED BY <1>7, <2>1 DEF Get, Returns
<1>8. ASSUME NEW t \in Callers, Merge(t) PROVE SqlTypeOK'
  <2>1. rows[name(t)][call[t].key] \in Store!Values \cup {NoRow}
    BY <1>8, CallFields DEF Merge, Goto
  <2>. QED BY <1>8, <2>1 DEF Merge, Goto
<1>9. ASSUME NEW t \in Callers, NoTable(t) PROVE SqlTypeOK'
  BY <1>9, CallFields DEF NoTable, Raises
<1>10. ASSUME NEW t \in Callers, Commit(t) PROVE SqlTypeOK'
  <2>1. pc[t] = "commit"
    BY <1>10 DEF Commit, Returns
  <2>2. rows' = [rows EXCEPT ![name(t)][call[t].key] = Left(t)]
    BY <1>10, <2>1, CallFields DEF Commit, Left, name
  <2>3. rows' \in [Names -> [Keys -> Store!Values \cup {NoRow}]]
    BY <2>1, <2>2, CommittedRow, CallFields
  <2>. QED BY <1>10, <2>3 DEF Commit, Returns
<1>11. ASSUME NEW t \in Callers, Fail(t) PROVE SqlTypeOK'
  BY <1>11, CallFields DEF Fail, Raises
<1>12. ASSUME NEW p \in Procs, Crash(p) PROVE SqlTypeOK'
  BY <1>12, CallFields DEF Crash
<1>13. CASE UNCHANGED vars
  BY <1>13, CallFields DEF vars
<1>. QED BY <1>1, <1>2, <1>3, <1>4, <1>5, <1>6, <1>7, <1>8, <1>9, <1>10, <1>11,
     <1>12, <1>13 DEF Next, Terminated

\* A step starts or ends a call and its statements together.
LEMMA IdleStep == SqlInv /\ [Next]_vars => IdleOK'
<1> SUFFICES ASSUME SqlInv, [Next]_vars PROVE IdleOK'
  OBVIOUS
<1> USE ProcessAssumption, IdleAssumption DEF SqlInv, SqlTypeOK, IdleOK,
  database, classes, counters
<1>1. ASSUME NEW t \in Callers, Call(t) PROVE IdleOK'
  BY <1>1 DEF Call
<1>2. ASSUME NEW t \in Callers, Pool(t) PROVE IdleOK'
  BY <1>2 DEF Pool, Goto
<1>3. ASSUME NEW t \in Callers, ReflectHit(t) PROVE IdleOK'
  BY <1>3 DEF ReflectHit, Goto, Prepared
<1>4. ASSUME NEW t \in Callers, ReflectMiss(t) PROVE IdleOK'
  BY <1>4 DEF ReflectMiss, Goto, Returns, Prepared
<1>5. ASSUME NEW t \in Callers, Define(t) PROVE IdleOK'
  BY <1>5 DEF Define, Goto, Raises
<1>6. ASSUME NEW t \in Callers, Create(t) PROVE IdleOK'
  BY <1>6 DEF Create, Goto
<1>7. ASSUME NEW t \in Callers, Get(t) PROVE IdleOK'
  BY <1>7 DEF Get, Returns
<1>8. ASSUME NEW t \in Callers, Merge(t) PROVE IdleOK'
  BY <1>8 DEF Merge, Goto
<1>9. ASSUME NEW t \in Callers, NoTable(t) PROVE IdleOK'
  BY <1>9 DEF NoTable, Raises
<1>10. ASSUME NEW t \in Callers, Commit(t) PROVE IdleOK'
  BY <1>10 DEF Commit, Returns
<1>11. ASSUME NEW t \in Callers, Fail(t) PROVE IdleOK'
  BY <1>11 DEF Fail, Raises
<1>12. ASSUME NEW p \in Procs, Crash(p) PROVE IdleOK'
  BY <1>12 DEF Crash
<1>13. CASE UNCHANGED vars
  BY <1>13 DEF vars
<1>. QED BY <1>1, <1>2, <1>3, <1>4, <1>5, <1>6, <1>7, <1>8, <1>9, <1>10, <1>11,
     <1>12, <1>13 DEF Next, Terminated

\* Only Call gives a thread a name: one no other of its process has.
LEMMA ApartStep == SqlInv /\ [Next]_vars => Apart'
<1> SUFFICES ASSUME SqlInv, [Next]_vars PROVE Apart'
  OBVIOUS
<1> USE ProcessAssumption, IdleAssumption DEF SqlInv, SqlTypeOK, IdleOK, Apart,
  name, database, classes, counters
<1>1. ASSUME NEW t \in Callers, Call(t) PROVE Apart'
  BY <1>1 DEF Call
<1>2. ASSUME NEW t \in Callers, Pool(t) PROVE Apart'
  BY <1>2 DEF Pool, Goto
<1>3. ASSUME NEW t \in Callers, ReflectHit(t) PROVE Apart'
  BY <1>3 DEF ReflectHit, Goto, Prepared
<1>4. ASSUME NEW t \in Callers, ReflectMiss(t) PROVE Apart'
  BY <1>4 DEF ReflectMiss, Goto, Returns, Prepared
<1>5. ASSUME NEW t \in Callers, Define(t) PROVE Apart'
  BY <1>5 DEF Define, Goto, Raises
<1>6. ASSUME NEW t \in Callers, Create(t) PROVE Apart'
  BY <1>6 DEF Create, Goto
<1>7. ASSUME NEW t \in Callers, Get(t) PROVE Apart'
  BY <1>7 DEF Get, Returns
<1>8. ASSUME NEW t \in Callers, Merge(t) PROVE Apart'
  BY <1>8 DEF Merge, Goto
<1>9. ASSUME NEW t \in Callers, NoTable(t) PROVE Apart'
  BY <1>9 DEF NoTable, Raises
<1>10. ASSUME NEW t \in Callers, Commit(t) PROVE Apart'
  BY <1>10 DEF Commit, Returns
<1>11. ASSUME NEW t \in Callers, Fail(t) PROVE Apart'
  BY <1>11 DEF Fail, Raises
<1>12. ASSUME NEW p \in Procs, Crash(p) PROVE Apart'
  BY <1>12 DEF Crash
<1>13. CASE UNCHANGED vars
  BY <1>13 DEF vars
<1>. QED BY <1>1, <1>2, <1>3, <1>4, <1>5, <1>6, <1>7, <1>8, <1>9, <1>10, <1>11,
     <1>12, <1>13 DEF Next, Terminated

\* Only Commit writes rows, of a table that is there, and none is dropped.
LEMMA NoRowsStep == SqlInv /\ [Next]_vars => NoTableNoRows'
<1> SUFFICES ASSUME SqlInv, [Next]_vars PROVE NoTableNoRows'
  OBVIOUS
<1> USE ProcessAssumption, IdleAssumption DEF SqlInv, SqlTypeOK, NoTableNoRows,
  SessionOK, database, classes, counters
<1>1. ASSUME NEW t \in Callers, Call(t) PROVE NoTableNoRows'
  BY <1>1, CallFields DEF Call
<1>2. ASSUME NEW t \in Callers, Pool(t) PROVE NoTableNoRows'
  BY <1>2, CallFields DEF Pool, Goto
<1>3. ASSUME NEW t \in Callers, ReflectHit(t) PROVE NoTableNoRows'
  BY <1>3, CallFields DEF ReflectHit, Goto, Prepared
<1>4. ASSUME NEW t \in Callers, ReflectMiss(t) PROVE NoTableNoRows'
  BY <1>4, CallFields DEF ReflectMiss, Goto, Returns, Prepared
<1>5. ASSUME NEW t \in Callers, Define(t) PROVE NoTableNoRows'
  BY <1>5, CallFields DEF Define, Goto, Raises
<1>6. ASSUME NEW t \in Callers, Create(t) PROVE NoTableNoRows'
  BY <1>6, CallFields DEF Create, Goto
<1>7. ASSUME NEW t \in Callers, Get(t) PROVE NoTableNoRows'
  BY <1>7, CallFields DEF Get, Returns
<1>8. ASSUME NEW t \in Callers, Merge(t) PROVE NoTableNoRows'
  BY <1>8, CallFields DEF Merge, Goto
<1>9. ASSUME NEW t \in Callers, NoTable(t) PROVE NoTableNoRows'
  BY <1>9, CallFields DEF NoTable, Raises
<1>10. ASSUME NEW t \in Callers, Commit(t) PROVE NoTableNoRows'
  <2>1. name(t) \in tables
    BY <1>10 DEF Commit, Returns
  <2>2. \A n \in Names \ tables : rows'[n] = rows[n]
    BY <1>10, <2>1 DEF Commit, name
  <2>. QED BY <1>10, <2>2 DEF Commit
<1>11. ASSUME NEW t \in Callers, Fail(t) PROVE NoTableNoRows'
  BY <1>11, CallFields DEF Fail, Raises
<1>12. ASSUME NEW p \in Procs, Crash(p) PROVE NoTableNoRows'
  BY <1>12, CallFields DEF Crash
<1>13. CASE UNCHANGED vars
  BY <1>13, CallFields DEF vars
<1>. QED BY <1>1, <1>2, <1>3, <1>4, <1>5, <1>6, <1>7, <1>8, <1>9, <1>10, <1>11,
     <1>12, <1>13 DEF Next, Terminated

\* A get never goes beyond the reflection.
LEMMA PutsStep == SqlInv /\ [Next]_vars => PutsWrite'
<1> SUFFICES ASSUME SqlInv, [Next]_vars PROVE PutsWrite'
  OBVIOUS
<1> USE ProcessAssumption, IdleAssumption DEF SqlInv, SqlTypeOK, PutsWrite,
  IsPut, database, classes, counters
<1>1. ASSUME NEW t \in Callers, Call(t) PROVE PutsWrite'
  BY <1>1 DEF Call
<1>2. ASSUME NEW t \in Callers, Pool(t) PROVE PutsWrite'
  BY <1>2 DEF Pool, Goto
<1>3. ASSUME NEW t \in Callers, ReflectHit(t) PROVE PutsWrite'
  BY <1>3 DEF ReflectHit, Goto, Prepared
<1>4. ASSUME NEW t \in Callers, ReflectMiss(t) PROVE PutsWrite'
  BY <1>4 DEF ReflectMiss, Goto, Returns, Prepared
<1>5. ASSUME NEW t \in Callers, Define(t) PROVE PutsWrite'
  BY <1>5 DEF Define, Goto, Raises
<1>6. ASSUME NEW t \in Callers, Create(t) PROVE PutsWrite'
  BY <1>6 DEF Create, Goto
<1>7. ASSUME NEW t \in Callers, Get(t) PROVE PutsWrite'
  BY <1>7 DEF Get, Returns
<1>8. ASSUME NEW t \in Callers, Merge(t) PROVE PutsWrite'
  BY <1>8 DEF Merge, Goto
<1>9. ASSUME NEW t \in Callers, NoTable(t) PROVE PutsWrite'
  BY <1>9 DEF NoTable, Raises
<1>10. ASSUME NEW t \in Callers, Commit(t) PROVE PutsWrite'
  BY <1>10 DEF Commit, Returns
<1>11. ASSUME NEW t \in Callers, Fail(t) PROVE PutsWrite'
  BY <1>11 DEF Fail, Raises
<1>12. ASSUME NEW p \in Procs, Crash(p) PROVE PutsWrite'
  BY <1>12 DEF Crash
<1>13. CASE UNCHANGED vars
  BY <1>13 DEF vars
<1>. QED BY <1>1, <1>2, <1>3, <1>4, <1>5, <1>6, <1>7, <1>8, <1>9, <1>10, <1>11,
     <1>12, <1>13 DEF Next, Terminated

\* Reflection adds tables that exist, Define one that is to be created;
\* a thread that leaves its CREATE has made the table or has failed.
LEMMA MetadataStep == SqlInv /\ [Next]_vars => MetadataOK'
<1> SUFFICES ASSUME SqlInv, [Next]_vars PROVE MetadataOK'
  OBVIOUS
<1> USE ProcessAssumption, IdleAssumption DEF SqlInv, SqlTypeOK, MetadataOK,
  Creating, name, database, classes, counters
<1>1. ASSUME NEW t \in Callers, Call(t) PROVE MetadataOK'
  BY <1>1 DEF Call
<1>2. ASSUME NEW t \in Callers, Pool(t) PROVE MetadataOK'
  BY <1>2 DEF Pool, Goto
<1>3. ASSUME NEW t \in Callers, ReflectHit(t) PROVE MetadataOK'
  BY <1>3 DEF ReflectHit, Goto, Prepared
<1>4. ASSUME NEW t \in Callers, ReflectMiss(t) PROVE MetadataOK'
  BY <1>4 DEF ReflectMiss, Goto, Returns, Prepared
<1>5. ASSUME NEW t \in Callers, Define(t) PROVE MetadataOK'
  BY <1>5 DEF Define, Goto, Raises
<1>6. ASSUME NEW t \in Callers, Create(t) PROVE MetadataOK'
  BY <1>6 DEF Create, Goto
<1>7. ASSUME NEW t \in Callers, Get(t) PROVE MetadataOK'
  BY <1>7 DEF Get, Returns
<1>8. ASSUME NEW t \in Callers, Merge(t) PROVE MetadataOK'
  BY <1>8 DEF Merge, Goto
<1>9. ASSUME NEW t \in Callers, NoTable(t) PROVE MetadataOK'
  BY <1>9 DEF NoTable, Raises
<1>10. ASSUME NEW t \in Callers, Commit(t) PROVE MetadataOK'
  BY <1>10 DEF Commit, Returns
<1>11. ASSUME NEW t \in Callers, Fail(t) PROVE MetadataOK'
  BY <1>11 DEF Fail, Raises
<1>12. ASSUME NEW p \in Procs, Crash(p) PROVE MetadataOK'
  BY <1>12 DEF Crash
<1>13. CASE UNCHANGED vars
  BY <1>13 DEF vars
<1>. QED BY <1>1, <1>2, <1>3, <1>4, <1>5, <1>6, <1>7, <1>8, <1>9, <1>10, <1>11,
     <1>12, <1>13 DEF Next, Terminated

\* ReflectHit pools a class of the metadata: nobody else is creating it.
LEMMA PoolStep == SqlInv /\ [Next]_vars => PoolOK'
<1> SUFFICES ASSUME SqlInv, [Next]_vars PROVE PoolOK'
  OBVIOUS
<1> USE ProcessAssumption, IdleAssumption DEF SqlInv, SqlTypeOK, PoolOK,
  MetadataOK, Apart, IdleOK, Creating, name, database, classes, counters
<1>1. ASSUME NEW t \in Callers, Call(t) PROVE PoolOK'
  BY <1>1 DEF Call
<1>2. ASSUME NEW t \in Callers, Pool(t) PROVE PoolOK'
  BY <1>2 DEF Pool, Goto
<1>3. ASSUME NEW t \in Callers, ReflectHit(t) PROVE PoolOK'
  BY <1>3 DEF ReflectHit, Goto, Prepared
<1>4. ASSUME NEW t \in Callers, ReflectMiss(t) PROVE PoolOK'
  BY <1>4 DEF ReflectMiss, Goto, Returns, Prepared
<1>5. ASSUME NEW t \in Callers, Define(t) PROVE PoolOK'
  BY <1>5 DEF Define, Goto, Raises
<1>6. ASSUME NEW t \in Callers, Create(t) PROVE PoolOK'
  BY <1>6 DEF Create, Goto
<1>7. ASSUME NEW t \in Callers, Get(t) PROVE PoolOK'
  BY <1>7 DEF Get, Returns
<1>8. ASSUME NEW t \in Callers, Merge(t) PROVE PoolOK'
  BY <1>8 DEF Merge, Goto
<1>9. ASSUME NEW t \in Callers, NoTable(t) PROVE PoolOK'
  BY <1>9 DEF NoTable, Raises
<1>10. ASSUME NEW t \in Callers, Commit(t) PROVE PoolOK'
  BY <1>10 DEF Commit, Returns
<1>11. ASSUME NEW t \in Callers, Fail(t) PROVE PoolOK'
  BY <1>11 DEF Fail, Raises
<1>12. ASSUME NEW p \in Procs, Crash(p) PROVE PoolOK'
  BY <1>12 DEF Crash
<1>13. CASE UNCHANGED vars
  BY <1>13 DEF vars
<1>. QED BY <1>1, <1>2, <1>3, <1>4, <1>5, <1>6, <1>7, <1>8, <1>9, <1>10, <1>11,
     <1>12, <1>13 DEF Next, Terminated

\* The class a session uses comes from the pool, the metadata or a CREATE.
LEMMA SessionStep == SqlInv /\ [Next]_vars => SessionOK'
<1> SUFFICES ASSUME SqlInv, [Next]_vars PROVE SessionOK'
  OBVIOUS
<1> USE ProcessAssumption, IdleAssumption DEF SqlInv, SqlTypeOK, SessionOK,
  PoolOK, MetadataOK, Apart, IdleOK, Creating, name, database, classes,
  counters
<1>1. ASSUME NEW t \in Callers, Call(t) PROVE SessionOK'
  BY <1>1 DEF Call
<1>2. ASSUME NEW t \in Callers, Pool(t) PROVE SessionOK'
  BY <1>2 DEF Pool, Goto
<1>3. ASSUME NEW t \in Callers, ReflectHit(t) PROVE SessionOK'
  BY <1>3 DEF ReflectHit, Goto, Prepared
<1>4. ASSUME NEW t \in Callers, ReflectMiss(t) PROVE SessionOK'
  BY <1>4 DEF ReflectMiss, Goto, Returns, Prepared
<1>5. ASSUME NEW t \in Callers, Define(t) PROVE SessionOK'
  BY <1>5 DEF Define, Goto, Raises
<1>6. ASSUME NEW t \in Callers, Create(t) PROVE SessionOK'
  BY <1>6 DEF Create, Goto
<1>7. ASSUME NEW t \in Callers, Get(t) PROVE SessionOK'
  BY <1>7 DEF Get, Returns
<1>8. ASSUME NEW t \in Callers, Merge(t) PROVE SessionOK'
  BY <1>8 DEF Merge, Goto
<1>9. ASSUME NEW t \in Callers, NoTable(t) PROVE SessionOK'
  BY <1>9 DEF NoTable, Raises
<1>10. ASSUME NEW t \in Callers, Commit(t) PROVE SessionOK'
  BY <1>10 DEF Commit, Returns
<1>11. ASSUME NEW t \in Callers, Fail(t) PROVE SessionOK'
  BY <1>11 DEF Fail, Raises
<1>12. ASSUME NEW p \in Procs, Crash(p) PROVE SessionOK'
  BY <1>12 DEF Crash
<1>13. CASE UNCHANGED vars
  BY <1>13 DEF vars
<1>. QED BY <1>1, <1>2, <1>3, <1>4, <1>5, <1>6, <1>7, <1>8, <1>9, <1>10, <1>11,
     <1>12, <1>13 DEF Next, Terminated

\* What appears in the metadata while a thread is about to define its
\* class was reflected from the database.
LEMMA DefineStep == SqlInv /\ [Next]_vars => DefineOK'
<1> SUFFICES ASSUME SqlInv, [Next]_vars PROVE DefineOK'
  OBVIOUS
<1> USE ProcessAssumption, IdleAssumption DEF SqlInv, SqlTypeOK, DefineOK,
  Apart, name, database, classes, counters
<1>1. ASSUME NEW t \in Callers, Call(t) PROVE DefineOK'
  BY <1>1 DEF Call
<1>2. ASSUME NEW t \in Callers, Pool(t) PROVE DefineOK'
  BY <1>2 DEF Pool, Goto
<1>3. ASSUME NEW t \in Callers, ReflectHit(t) PROVE DefineOK'
  BY <1>3 DEF ReflectHit, Goto, Prepared
<1>4. ASSUME NEW t \in Callers, ReflectMiss(t) PROVE DefineOK'
  BY <1>4 DEF ReflectMiss, Goto, Returns, Prepared
<1>5. ASSUME NEW t \in Callers, Define(t) PROVE DefineOK'
  BY <1>5 DEF Define, Goto, Raises
<1>6. ASSUME NEW t \in Callers, Create(t) PROVE DefineOK'
  BY <1>6 DEF Create, Goto
<1>7. ASSUME NEW t \in Callers, Get(t) PROVE DefineOK'
  BY <1>7 DEF Get, Returns
<1>8. ASSUME NEW t \in Callers, Merge(t) PROVE DefineOK'
  BY <1>8 DEF Merge, Goto
<1>9. ASSUME NEW t \in Callers, NoTable(t) PROVE DefineOK'
  BY <1>9 DEF NoTable, Raises
<1>10. ASSUME NEW t \in Callers, Commit(t) PROVE DefineOK'
  BY <1>10 DEF Commit, Returns
<1>11. ASSUME NEW t \in Callers, Fail(t) PROVE DefineOK'
  BY <1>11 DEF Fail, Raises
<1>12. ASSUME NEW p \in Procs, Crash(p) PROVE DefineOK'
  BY <1>12 DEF Crash
<1>13. CASE UNCHANGED vars
  BY <1>13 DEF vars
<1>. QED BY <1>1, <1>2, <1>3, <1>4, <1>5, <1>6, <1>7, <1>8, <1>9, <1>10, <1>11,
     <1>12, <1>13 DEF Next, Terminated

\* The merge takes what it saw from the row, and no commit takes a row away.
LEMMA SeenStep == SqlInv /\ [Next]_vars => SeenOK'
<1> SUFFICES ASSUME SqlInv, [Next]_vars PROVE SeenOK'
  OBVIOUS
<1> USE ProcessAssumption, IdleAssumption DEF SqlInv, SqlTypeOK, SeenOK,
  name, database, classes, counters
<1>1. ASSUME NEW t \in Callers, Call(t) PROVE SeenOK'
  BY <1>1 DEF Call
<1>2. ASSUME NEW t \in Callers, Pool(t) PROVE SeenOK'
  BY <1>2 DEF Pool, Goto
<1>3. ASSUME NEW t \in Callers, ReflectHit(t) PROVE SeenOK'
  BY <1>3 DEF ReflectHit, Goto, Prepared
<1>4. ASSUME NEW t \in Callers, ReflectMiss(t) PROVE SeenOK'
  BY <1>4 DEF ReflectMiss, Goto, Returns, Prepared
<1>5. ASSUME NEW t \in Callers, Define(t) PROVE SeenOK'
  BY <1>5 DEF Define, Goto, Raises
<1>6. ASSUME NEW t \in Callers, Create(t) PROVE SeenOK'
  BY <1>6 DEF Create, Goto
<1>7. ASSUME NEW t \in Callers, Get(t) PROVE SeenOK'
  BY <1>7 DEF Get, Returns
<1>8. ASSUME NEW t \in Callers, Merge(t) PROVE SeenOK'
  BY <1>8 DEF Merge, Goto
<1>9. ASSUME NEW t \in Callers, NoTable(t) PROVE SeenOK'
  BY <1>9 DEF NoTable, Raises
<1>10. ASSUME NEW t \in Callers, Commit(t) PROVE SeenOK'
  <2> SUFFICES ASSUME NEW u \in Callers, pc'[u] = "commit", seen'[u] # NoRow
      PROVE  rows'[name(u)'][call'[u].key] # NoRow
    OBVIOUS
  <2>1. pc[t] = "commit" /\ u # t /\ pc[u] = "commit" /\ seen[u] # NoRow
        /\ call'[u] = call[u]
    BY <1>10 DEF Commit, Returns
  <2>2. rows[name(u)][call[u].key] # NoRow
    BY <2>1
  <2>3. rows' = [rows EXCEPT ![name(t)][call[t].key] = Left(t)]
    BY <1>10, <2>1, CallFields DEF Commit, Left
  <2>4. Left(t) # NoRow
    BY <2>1, CommittedRow, ValuesAssumption
  <2>5. /\ name(u) \in Names /\ call[u].key \in Keys
        /\ name(t) \in Names /\ call[t].key \in Keys
    BY <2>1, CallFields
  <2>. QED BY <2>1, <2>2, <2>3, <2>4, <2>5
<1>11. ASSUME NEW t \in Callers, Fail(t) PROVE SeenOK'
  BY <1>11 DEF Fail, Raises
<1>12. ASSUME NEW p \in Procs, Crash(p) PROVE SeenOK'
  BY <1>12 DEF Crash
<1>13. CASE UNCHANGED vars
  BY <1>13 DEF vars
<1>. QED BY <1>1, <1>2, <1>3, <1>4, <1>5, <1>6, <1>7, <1>8, <1>9, <1>10, <1>11,
     <1>12, <1>13 DEF Next, Terminated

\* The invariant holds before the first call.
LEMMA InitInv == Init => SqlInv
BY DEF Init, SqlInv, SqlTypeOK, PCs, Errors, IdleOK, Apart, NoTableNoRows,
       PutsWrite, MetadataOK, PoolOK, SessionOK, DefineOK, SeenOK

\* Where the classes of a process and the database may differ: get_model,
\* build_sql_model_by_db and build_sql_model_by_py never leave a class without
\* its table, but while a thread creates it or after its CREATE failed.
THEOREM SqlInvariant == Spec => []SqlInv
<1>1. SqlInv /\ [Next]_vars => SqlInv'
  BY TypeStep, IdleStep, ApartStep, NoRowsStep, PutsStep, MetadataStep,
     PoolStep, SessionStep, DefineStep, SeenStep DEF SqlInv
<1>. QED BY InitInv, <1>1, PTL DEF Spec

-----------------------------------------------------------------------------
\* The property of a step, for one thread.
Explained(t) ==
  LET why == error'[t] IN
  error[t] # why =>
    /\ why = "no_table" => name(t) \in failed[Process[t]]
    /\ why = "defined" => name(t) \in tables

\* Only NoTable and Define raise the two errors.
LEMMA ExplainedStep ==
  SqlInv /\ [Next]_vars => \A u \in Callers : Explained(u)
<1> SUFFICES ASSUME SqlInv, [Next]_vars, NEW u \in Callers PROVE Explained(u)
  OBVIOUS
<1> USE DEF SqlInv, SqlTypeOK, Explained
<1>1. ASSUME NEW t \in Callers, Call(t) PROVE Explained(u)
  BY <1>1 DEF Call
<1>2. ASSUME NEW t \in Callers, Pool(t) PROVE Explained(u)
  BY <1>2 DEF Pool, Goto
<1>3. ASSUME NEW t \in Callers, ReflectHit(t) PROVE Explained(u)
  BY <1>3 DEF ReflectHit, Goto
<1>4. ASSUME NEW t \in Callers, ReflectMiss(t) PROVE Explained(u)
  BY <1>4 DEF ReflectMiss, Goto, Returns
<1>5. ASSUME NEW t \in Callers, Define(t) PROVE Explained(u)
  BY <1>5 DEF Define, Goto, Raises, DefineOK
<1>6. ASSUME NEW t \in Callers, Create(t) PROVE Explained(u)
  BY <1>6 DEF Create, Goto
<1>7. ASSUME NEW t \in Callers, Get(t) PROVE Explained(u)
  BY <1>7 DEF Get, Returns
<1>8. ASSUME NEW t \in Callers, Merge(t) PROVE Explained(u)
  BY <1>8 DEF Merge, Goto
<1>9. ASSUME NEW t \in Callers, NoTable(t) PROVE Explained(u)
  BY <1>9 DEF NoTable, Raises, SessionOK
<1>10. ASSUME NEW t \in Callers, Commit(t) PROVE Explained(u)
  BY <1>10 DEF Commit, Returns
<1>11. ASSUME NEW t \in Callers, Fail(t) PROVE Explained(u)
  BY <1>11 DEF Fail, Raises
<1>12. ASSUME NEW p \in Procs, Crash(p) PROVE Explained(u)
  BY <1>12 DEF Crash
<1>13. CASE UNCHANGED vars
  BY <1>13 DEF vars
<1>. QED BY <1>1, <1>2, <1>3, <1>4, <1>5, <1>6, <1>7, <1>8, <1>9, <1>10, <1>11,
     <1>12, <1>13 DEF Next, Terminated

\* A call of get_config or put_config that meets "no such table" runs in a
\* process whose own CREATE of that table failed; one that is refused a second
\* definition of a table finds that table in the database.
THEOREM ErrorsAreExplained == Spec => ErrorsExplained
<1>1. SqlInv /\ [Next]_vars => [\A t \in Callers : Explained(t)]_vars
  BY ExplainedStep
<1>2. [][\A t \in Callers : Explained(t)]_vars => ErrorsExplained
  BY PTL DEF ErrorsExplained, Explained
<1>. QED BY SqlInvariant, <1>1, <1>2, PTL DEF Spec

-----------------------------------------------------------------------------
\* What each thread has looked at, as the store sees it.
Looked == [t \in Callers |-> IF pc[t] = "commit" THEN seen[t] ELSE Idle]

\* No row, no call, no look, no answer.
LEMMA InitRefines == Init => Store!Init
BY DEF Init, Store!Init

\* A thread that moves between other statements has looked at nothing.
LEMMA NotLooking ==
  ASSUME SqlTypeOK, NEW t \in Callers, NEW to \in PCs,
         pc' = [pc EXCEPT ![t] = to], pc[t] # "commit", to # "commit",
         seen' = seen
  PROVE  Looked' = Looked
BY DEF Looked, SqlTypeOK

\* A thread that ends its call forgets what it has looked at.
LEMMA Forgets ==
  ASSUME SqlTypeOK, NEW t \in Callers, pc' = [pc EXCEPT ![t] = "idle"],
         seen' = seen
  PROVE  Looked' = [Looked EXCEPT ![t] = Idle]
BY DEF Looked, SqlTypeOK

\* Each step is one of the store, or leaves rows, calls and answers alone:
\* Call a Call, Get and the ReflectMiss of a get a Get, Merge a Look, Commit a
\* Put, NoTable, Fail and a refused Define a Raise, Crash a Die.
LEMMA StepRefines == SqlInv /\ [Next]_vars => [Store!Next]_(Store!vars)
<1> SUFFICES ASSUME SqlInv, [Next]_vars PROVE [Store!Next]_(Store!vars)
  OBVIOUS
<1> USE DEF SqlInv, SqlTypeOK, database
<1>0. ASSUME NEW t \in Callers, NEW from \in PCs, NEW to \in PCs,
             Goto(t, from, to), from # "commit", to # "commit",
             UNCHANGED <<rows, seen>>
      PROVE  UNCHANGED Store!vars
  <2>1. Looked' = Looked
    BY <1>0, NotLooking DEF Goto
  <2>. QED BY <1>0, <2>1 DEF Goto, Looked, Store!vars
<1>1. ASSUME NEW t \in Callers, Call(t) PROVE Store!Next
  <2>1. PICK c \in Store!Calls : call' = [call EXCEPT ![t] = c]
    BY <1>1 DEF Call
  <2>2. Looked' = Looked
    BY <1>1, NotLooking DEF Call, PCs
  <2>3. Store!Call(t, c)
    BY <1>1, <2>1, <2>2 DEF Call, IdleOK, Looked, Store!Call
  <2>. QED BY <2>3 DEF Store!Next
<1>2. ASSUME NEW t \in Callers, Pool(t) PROVE UNCHANGED Store!vars
  BY <1>0, <1>2 DEF Pool, PCs
<1>3. ASSUME NEW t \in Callers, ReflectHit(t) PROVE UNCHANGED Store!vars
  BY <1>0, <1>3 DEF ReflectHit, PCs
<1>4. ASSUME NEW t \in Callers, ReflectMiss(t)
      PROVE Store!Next \/ UNCHANGED Store!vars
  <2>1. CASE IsPut(t)
    BY <1>0, <1>4, <2>1 DEF ReflectMiss, PCs
  <2>2. CASE ~IsPut(t)
    <3>1. Returns(t, "reflect", NoRow) /\ pc[t] = "reflect"
          /\ UNCHANGED <<rows, seen>>
      BY <1>4, <2>2 DEF ReflectMiss
    <3>2. call[t] # Idle
      BY <3>1 DEF IdleOK
    <3>3. rows[call[t].name][call[t].key] = NoRow
      BY <1>4, <3>1, CallFields DEF ReflectMiss, Prepared, NoTableNoRows, name
    <3>4. Looked' = [Looked EXCEPT ![t] = Idle]
      BY <3>1, Forgets DEF Returns
    <3>5. Store!Get(t)
      BY <2>2, <3>1, <3>2, <3>3, <3>4
         DEF IsPut, Returns, Looked, Store!Get, Store!Ends
    <3>. QED BY <3>5 DEF Store!Next
  <2>. QED BY <2>1, <2>2
<1>5. ASSUME NEW t \in Callers, NEW from, NEW why, Raises(t, from, why),
             from # "idle", UNCHANGED <<rows, seen>>
      PROVE  Store!Next
  <2>1. Looked' = [Looked EXCEPT ![t] = Idle]
    BY <1>5, Forgets DEF Raises
  <2>2. Store!Raise(t)
    BY <1>5, <2>1 DEF Raises, IdleOK, Looked, Store!Raise, Store!Ends
  <2>. QED BY <2>2 DEF Store!Next
<1>6. ASSUME NEW t \in Callers, Define(t)
      PROVE Store!Next \/ UNCHANGED Store!vars
  BY <1>0, <1>5, <1>6 DEF Define, PCs
<1>7. ASSUME NEW t \in Callers, Create(t) PROVE UNCHANGED Store!vars
  BY <1>0, <1>7 DEF Create, PCs
<1>8. ASSUME NEW t \in Callers, Get(t) PROVE Store!Next
  <2>1. Looked' = [Looked EXCEPT ![t] = Idle]
    BY <1>8, Forgets DEF Get, Returns
  <2>2. Store!Get(t)
    BY <1>8, <2>1
       DEF Get, Returns, IsPut, name, IdleOK, Looked, Store!Get, Store!Ends
  <2>. QED BY <2>2 DEF Store!Next
<1>9. ASSUME NEW t \in Callers, Merge(t) PROVE Store!Next
  <2> DEFINE row == rows[call[t].name][call[t].key]
  <2>1. pc[t] = "session" /\ IsPut(t) /\ pc' = [pc EXCEPT ![t] = "commit"]
        /\ seen' = [seen EXCEPT ![t] = row] /\ UNCHANGED <<rows, call, answer>>
    BY <1>9 DEF Merge, Goto, name
  <2>2. Looked[t] = Idle /\ Looked' = [Looked EXCEPT ![t] = row]
    BY <2>1 DEF Looked
  <2>3. Store!Look(t)
    BY <2>1, <2>2 DEF IdleOK, IsPut, Looked, Store!Look
  <2>. QED BY <2>3 DEF Store!Next
<1>10. ASSUME NEW t \in Callers, NoTable(t) PROVE Store!Next
  BY <1>5, <1>10 DEF NoTable, Raises
<1>11. ASSUME NEW t \in Callers, Commit(t) PROVE Store!Next
  <2> DEFINE c == call[t]
             row == rows[c.name][c.key]
  <2>1. pc[t] = "commit" /\ Returns(t, "commit", Done)
        /\ UNCHANGED <<tables, seen>>
    BY <1>11 DEF Commit, Returns
  <2>2. c # Idle /\ Looked[t] = seen[t] /\ Looked[t] # Idle
    BY <2>1, IdleAssumption DEF IdleOK, Looked
  <2>3. Looked' = [Looked EXCEPT ![t] = Idle]
    BY <2>1, Forgets DEF Returns
  <2>4. Store!Ends(t, Done)
    BY <2>1, <2>2, <2>3 DEF Returns, Looked, Store!Ends
  <2>0. c.value \in Store!Values /\ DOMAIN c.value = Columns
    BY <2>1, CallFields DEF PutsWrite, IsPut, Store!Values
  <2>5. Left(t) = Store!Written(row, seen[t], c.value)
    <3>1. CASE seen[t] = NoRow
      BY <3>1 DEF Left, Committed, Inserted, Store!Written
    <3>2. CASE seen[t] # NoRow
      <4>1. Updated(seen[t], row, c.value) =
              [col \in Columns |-> IF c.value[col] = seen[t][col]
                                   THEN row[col] ELSE c.value[col]]
        BY <2>0 DEF Updated
      <4>. QED BY <3>2, <4>1 DEF Left, Committed, Store!Written
    <3>. QED BY <3>1, <3>2
  <2>6. rows' = [rows EXCEPT ![c.name][c.key] = Left(t)]
    BY <1>11, <2>1, CallFields DEF Commit, Left, name
  <2>7. Store!Put(t)
    BY <2>2, <2>4, <2>5, <2>6 DEF Looked, Store!Put
  <2>. QED BY <2>7 DEF Store!Next
<1>12. ASSUME NEW t \in Callers, Fail(t) PROVE Store!Next
  BY <1>5, <1>12 DEF Fail
<1>13. ASSUME NEW p \in Procs, Crash(p) PROVE Store!Next
  <2> DEFINE dead == {t \in Callers : Process[t] = p}
  <2>1. Looked' = [t \in Callers |-> IF t \in dead THEN Idle ELSE Looked[t]]
    BY <1>13 DEF Crash, Looked
  <2>2. Store!Die(dead)
    BY <1>13, <2>1 DEF Crash, Looked, Store!Die
  <2>. QED BY <2>2 DEF Store!Next
<1>14. CASE UNCHANGED vars
  BY <1>14 DEF vars, Store!vars
<1>. QED
  BY <1>1, <1>2, <1>3, <1>4, <1>6, <1>7, <1>8, <1>9, <1>10, <1>11, <1>12,
     <1>13, <1>14 DEF Next, Terminated

\* SQLPersistantModel implements the rows a tuner relies on, RowStore: no
\* reflection, definition, creation, failed statement or killed process shows.
THEOREM ImplementsStore == Spec => StoreSpec
<1>. QED BY InitRefines, SqlInvariant, StepRefines, PTL
     DEF Spec, StoreSpec, Store!Spec
=============================================================================
