------------------------------ MODULE SqlModel ------------------------------
(***************************************************************************)
(* SQLPersistantModel (utils/models/sql.py): how a table comes to exist.   *)
(*                                                                         *)
(* Threads of processes that share one database call get_config and        *)
(* put_config, or the two of the benchmarks, which find their class in the *)
(* same way.  A class is looked for in the pool of the process, then among *)
(* the tables of the database, which are all reflected into the metadata   *)
(* of Base, then defined and its table created.  The pool and the metadata *)
(* belong to the process and are used without a lock; only for a single    *)
(* table the lock of the kernel's LibEntry keeps the threads apart.  Each  *)
(* statement of SQL is atomic, and so is AutoBase.prepare.                 *)
(***************************************************************************)
EXTENDS Naturals, RollbackSession

CONSTANTS
  Callers, Names, Keys, Columns, Data, Done, Raised, Idle,  \* as in RowStore
  Procs,       \* processes
  Process,     \* Process[t]: the process of thread t
  MaxCalls,    \* bound: calls of all threads
  MaxFaults,   \* bound: statements that fail (database locked, disk full)
  MaxCrashes   \* bound: processes killed

ASSUME ProcessAssumption == Process \in [Callers -> Procs]

VARIABLES
  tables,      \* database: the tables that exist
  rows,        \* database: rows[n][k]
  metadata,    \* metadata[p]: the tables Base.metadata knows
  pool,        \* pool[p]: the names in sql_model_pool
  pc,          \* pc[t]: next statement of the call
  call,        \* call[t]: name, key and value (NoRow: a get), or Idle
  seen,        \* seen[t]: the row session.merge found
  answer,      \* answer[t]: what the last call returned, or Raised
  error,       \* error[t]: why the last call raised (history)
  failed,      \* failed[p]: tables whose CREATE failed in p (history)
  calls, faults, crashes

vars == <<tables, rows, metadata, pool, pc, call, seen, answer, error, failed,
          calls, faults, crashes>>
database == <<tables, rows>>
classes == <<metadata, pool, failed>>
counters == <<calls, faults, crashes>>

\* A put has looked at its row when it is about to commit.
Store == INSTANCE RowStore WITH
  base <- [t \in Callers |-> IF pc[t] = "commit" THEN seen[t] ELSE Idle]

ASSUME ValuesAssumption == NoRow \notin Store!Values
ASSUME IdleAssumption == Idle \notin Store!Calls \cup Store!Values \cup {NoRow}

name(t) == call[t].name
IsPut(t) == call[t].value # NoRow

Init ==
  /\ tables = {}
  /\ rows = [n \in Names |-> [k \in Keys |-> NoRow]]
  /\ metadata = [p \in Procs |-> {}]
  /\ pool = [p \in Procs |-> {}]
  /\ pc = [t \in Callers |-> "idle"]
  /\ call = [t \in Callers |-> Idle]
  /\ seen = [t \in Callers |-> NoRow]
  /\ answer = [t \in Callers |-> Idle]
  /\ error = [t \in Callers |-> "none"]
  /\ failed = [p \in Procs |-> {}]
  /\ calls = 0
  /\ faults = 0
  /\ crashes = 0

Goto(t, from, to) ==
  /\ pc[t] = from
  /\ pc' = [pc EXCEPT ![t] = to]
  /\ UNCHANGED <<call, answer, error>>

Returns(t, from, a) ==
  /\ pc[t] = from
  /\ pc' = [pc EXCEPT ![t] = "idle"]
  /\ call' = [call EXCEPT ![t] = Idle]
  /\ answer' = [answer EXCEPT ![t] = a]
  /\ UNCHANGED error

Raises(t, from, why) ==
  /\ pc[t] = from
  /\ pc' = [pc EXCEPT ![t] = "idle"]
  /\ call' = [call EXCEPT ![t] = Idle]
  /\ answer' = [answer EXCEPT ![t] = Raised]
  /\ error' = [error EXCEPT ![t] = why]

-----------------------------------------------------------------------------
(***************************************************************************)
(* get_config, get_benchmark, put_config, put_benchmark                    *)
(***************************************************************************)
Call(t) ==
  /\ pc[t] = "idle" /\ calls < MaxCalls
  /\ \E c \in Store!Calls :
       /\ \A u \in Callers \ {t} :
            Process[u] = Process[t] /\ call[u] # Idle => name(u) # c.name
       /\ call' = [call EXCEPT ![t] = c]
  /\ pc' = [pc EXCEPT ![t] = "pool"]
  /\ answer' = [answer EXCEPT ![t] = Idle]
  /\ error' = [error EXCEPT ![t] = "none"]
  /\ calls' = calls + 1
  /\ UNCHANGED <<database, classes, seen, faults, crashes>>

\* ModelCls = self.sql_model_pool.get(name)
Pool(t) ==
  /\ Goto(t, "pool",
          IF name(t) \in pool[Process[t]] THEN "session" ELSE "reflect")
  /\ UNCHANGED <<database, classes, seen, counters>>

\* AutoBase.prepare(engine), which adds what it reflects to the metadata
\* shared by all bases and maps a class to every table it finds there.
Prepared(t) == metadata[Process[t]] \cup tables

ReflectHit(t) ==
  LET p == Process[t] IN
  /\ Goto(t, "reflect", "session")
  /\ name(t) \in Prepared(t)
  /\ metadata' = [metadata EXCEPT ![p] = Prepared(t)]
  /\ pool' = [pool EXCEPT ![p] = @ \cup {name(t)}]
  /\ UNCHANGED <<database, failed, seen, counters>>

\* What if a put, too, gave up when there is no table?
ReflectMissAlways(t) ==
  /\ Returns(t, "reflect", IF IsPut(t) THEN Done ELSE NoRow)
  /\ name(t) \notin Prepared(t)
  /\ metadata' = [metadata EXCEPT ![Process[t]] = Prepared(t)]
  /\ UNCHANGED <<database, pool, failed, seen, counters>>

\* if not keys or not values: return None.  Only the puts pass values.
ReflectMiss(t) ==
  /\ pc[t] = "reflect"
  /\ IF IsPut(t) THEN Goto(t, "reflect", "define")
                 ELSE Returns(t, "reflect", NoRow)
  /\ name(t) \notin Prepared(t)
  /\ metadata' = [metadata EXCEPT ![Process[t]] = Prepared(t)]
  /\ UNCHANGED <<database, pool, failed, seen, counters>>

\* build_sql_model_by_py: a name has one definition in the metadata.
Define(t) ==
  LET p == Process[t] IN
  /\ pc[t] = "define"
  /\ IF name(t) \in metadata[p] THEN Raises(t, "define", "defined")
                                ELSE Goto(t, "define", "create")
  /\ metadata' = [metadata EXCEPT ![p] = @ \cup {name(t)}]
  /\ UNCHANGED <<database, pool, failed, seen, counters>>

\* What if the transaction of the CREATE were not committed?
CreateUncommitted(t) ==
  /\ Goto(t, "create", "session")
  /\ pool' = [pool EXCEPT ![Process[t]] = @ \cup {name(t)}]
  /\ UNCHANGED <<database, metadata, failed, seen, counters>>

\* CREATE TABLE IF NOT EXISTS
Create(t) ==
  /\ Goto(t, "create", "session")
  /\ tables' = tables \cup {name(t)}
  /\ pool' = [pool EXCEPT ![Process[t]] = @ \cup {name(t)}]
  /\ UNCHANGED <<rows, metadata, failed, seen, counters>>

\* session.get of a get, session.merge of a put: SELECT, which raises when
\* the class stands for a table that does not exist.
Get(t) ==
  /\ pc[t] = "session"
  /\ name(t) \in tables /\ ~IsPut(t)
  /\ Returns(t, "session", rows[name(t)][call[t].key])
  /\ UNCHANGED <<database, classes, seen, counters>>

Merge(t) ==
  /\ pc[t] = "session"
  /\ name(t) \in tables /\ IsPut(t)
  /\ Goto(t, "session", "commit")
  /\ seen' = [seen EXCEPT ![t] = rows[name(t)][call[t].key]]
  /\ UNCHANGED <<database, classes, counters>>

NoTable(t) ==
  /\ pc[t] = "session"
  /\ name(t) \notin tables
  /\ Raises(t, "session", "no_table")
  /\ UNCHANGED <<database, classes, seen, counters>>

\* session.commit, which returns also when its INSERT has been rolled back.
Commit(t) ==
  /\ Returns(t, "commit", Done)
  /\ LET c == call[t] IN
     rows' = [rows EXCEPT ![c.name][c.key] = Committed(seen[t], @, c.value)]
  /\ UNCHANGED <<tables, classes, seen, counters>>

\* A statement fails.  A CREATE leaves its table in the metadata.
Fail(t) ==
  /\ faults < MaxFaults
  /\ pc[t] \in {"reflect", "create", "session", "commit"}
  /\ Raises(t, pc[t], "fault")
  /\ failed' = [failed EXCEPT ![Process[t]] =
                  IF pc[t] = "create" THEN @ \cup {name(t)} ELSE @]
  /\ faults' = faults + 1
  /\ UNCHANGED <<database, metadata, pool, seen, calls, crashes>>

\* The process is killed and started again.
Crash(p) ==
  LET dead == {t \in Callers : Process[t] = p} IN
  /\ crashes < MaxCrashes
  /\ \E t \in dead : pc[t] # "idle"
  /\ pc' = [t \in Callers |-> IF t \in dead THEN "idle" ELSE pc[t]]
  /\ call' = [t \in Callers |-> IF t \in dead THEN Idle ELSE call[t]]
  /\ answer' = [t \in Callers |-> IF t \in dead THEN Idle ELSE answer[t]]
  /\ error' = [t \in Callers |-> IF t \in dead THEN "none" ELSE error[t]]
  /\ metadata' = [metadata EXCEPT ![p] = {}]
  /\ pool' = [pool EXCEPT ![p] = {}]
  /\ failed' = [failed EXCEPT ![p] = {}]
  /\ crashes' = crashes + 1
  /\ UNCHANGED <<database, seen, calls, faults>>

Terminated ==
  /\ \A t \in Callers : pc[t] = "idle"
  /\ calls = MaxCalls
  /\ UNCHANGED vars

Next ==
  \/ \E t \in Callers :
       \/ Call(t) \/ Pool(t) \/ ReflectHit(t) \/ ReflectMiss(t) \/ Define(t)
       \/ Create(t) \/ Get(t) \/ Merge(t) \/ NoTable(t) \/ Commit(t) \/ Fail(t)
  \/ \E p \in Procs : Crash(p)
  \/ Terminated

Spec == Init /\ [][Next]_vars
-----------------------------------------------------------------------------
(***************************************************************************)
(* Properties                                                              *)
(***************************************************************************)
\* Whoever creates the tables, and whatever fails meanwhile, the model is the
\* store LibTuner is written over: a get of a table that is not there yet is
\* a get of no row; a put that returns has written what it changes in the row
\* as it saw it, and that column by column, or has left a row that another
\* inserted first; one that raises has written nothing.
StoreSpec == Store!Spec

\* The two errors that come of the unlocked classes are explained, and
\* harmless to others: "no_table" is met only in a process whose own
\* CREATE of that table failed, and a second definition is refused only when
\* another process has created the table meanwhile, so that a retry finds it.
ErrorsExplained ==
  [][\A t \in Callers :
       LET why == error'[t] IN
       error[t] # why =>
         /\ why = "no_table" => name(t) \in failed[Process[t]]
         /\ why = "defined" => name(t) \in tables]_vars
=============================================================================
