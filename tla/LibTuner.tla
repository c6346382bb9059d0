------------------------------ MODULE LibTuner ------------------------------
(***************************************************************************)
(* LibTuner (utils/libentry.py) over SQLPersistantModel and                *)
(* RollbackSession (utils/models): how processes that share one database   *)
(* tune one kernel.                                                        *)
(*                                                                         *)
(* A process runs the kernel for a tuning key.  If the configuration table *)
(* has no row for the key it measures every configuration, taking the      *)
(* measurements it finds in the benchmark table and adding its own, puts   *)
(* the fastest one in the configuration table and reads it back.  Within a *)
(* process the lock of the kernel's LibEntry makes these runs sequential;  *)
(* between processes nothing does, each SQL statement is atomic and a      *)
(* write is a SELECT (session.merge) followed by an INSERT or an UPDATE    *)
(* (session.commit), where another process may have written in between.    *)
(***************************************************************************)
EXTENDS Integers, FiniteSets, RollbackSession

CONSTANTS
  Procs,         \* processes sharing the database
  Keys,          \* tuning keys, what get_key returns
  NConfigs,      \* configurations of the kernel, in the order of self.configs
  Columns,       \* columns of a configuration: num_warps, a tile size, ...
  all_kwargs,    \* all_kwargs[c]: the values of configuration c
  Measurements,  \* what _bench may return, as tuples p50, p20, p80; the inf
                 \* of a configuration that does not fit the device is a
                 \* large number
  MaxRuns,       \* bound: runs per process
  MaxCrashes,    \* bound: processes killed
  MaxFaults      \* bound: runs that end with an exception

Configs == 1 .. NConfigs
Quantiles == 1 .. 3   \* p50, p20, p80

\* The rows whose columns each come from one of the rows in S.
Mixed(D, S) ==
  {r \in [D -> UNION {{s[d] : d \in D} : s \in S}] :
     \A d \in D : \E s \in S : r[d] = s[d]}

ConfigRows == {all_kwargs[c] : c \in Configs}
MixedConfigs == Mixed(Columns, ConfigRows)
MixedMeasurements == Mixed(Quantiles, Measurements)

ASSUME KeysAssumption == Keys # {}
ASSUME MeasurementsAssumption == Measurements \subseteq [Quantiles -> Nat]
ASSUME ConfigsAssumption ==
  /\ NConfigs \in Nat \ {0}
  /\ \A c \in Configs :
       all_kwargs[c] = [col \in Columns |-> all_kwargs[c][col]]
ASSUME NoRowAssumption == NoRow \notin MixedConfigs \cup MixedMeasurements
ASSUME BoundsAssumption ==
  MaxRuns \in Nat /\ MaxCrashes \in Nat /\ MaxFaults \in Nat

VARIABLES
  config_row,  \* database: config_row[k], best configuration of key k
  bench_row,   \* database: bench_row[k][c], measurement of configuration c
  pc,          \* pc[p]: next statement of LibTuner.run
  key,         \* key[p]: the tuning key of the run
  cursor,      \* cursor[p]: the configuration the policy measures next
  ret,         \* ret[p]: the measurement just made
  timings,     \* timings[p][c]: the policy's dictionary
  seen,        \* seen[p]: the row session.merge found, or NoRow
  config,      \* config[p]: best_config, then what the run launches with
  contended,   \* contended[k]: two processes tuned k at a time (history)
  crowded,     \* crowded[k]: three of them did (history)
  runs, crashes, faults

vars == <<config_row, bench_row, pc, key, cursor, ret, timings,
          seen, config, contended, crowded, runs, crashes, faults>>
database == <<config_row, bench_row>>
histories == <<contended, crowded>>
locals == <<key, cursor, ret, timings, seen, config>>
counters == <<runs, crashes, faults>>

Init ==
  /\ config_row = [k \in Keys |-> NoRow]
  /\ bench_row = [k \in Keys |-> [c \in Configs |-> NoRow]]
  /\ pc = [p \in Procs |-> "idle"]
  /\ key = [p \in Procs |-> CHOOSE k \in Keys : TRUE]
  /\ cursor = [p \in Procs |-> 1]
  /\ ret = [p \in Procs |-> NoRow]
  /\ timings = [p \in Procs |-> [c \in Configs |-> NoRow]]
  /\ seen = [p \in Procs |-> NoRow]
  /\ config = [p \in Procs |-> NoRow]
  /\ contended = [k \in Keys |-> FALSE]
  /\ crowded = [k \in Keys |-> FALSE]
  /\ runs = [p \in Procs |-> 0]
  /\ crashes = 0
  /\ faults = 0

Goto(p, from, to) ==
  /\ pc[p] = from
  /\ pc' = [pc EXCEPT ![p] = to]

-----------------------------------------------------------------------------
(***************************************************************************)
(* LibTuner.run                                                            *)
(***************************************************************************)
Tuning(p) ==
  pc[p] \in {"bench_get", "measure", "put_bench", "commit_bench", "choose",
             "put_config", "commit_config"}

\* The processes that are tuning key k.
Tuners(k) == {p \in Procs : Tuning(p) /\ key[p] = k}

\* However a run ends, its locals end with it.
Ends(p) ==
  /\ pc' = [pc EXCEPT ![p] = "idle"]
  /\ cursor' = [cursor EXCEPT ![p] = 1]
  /\ ret' = [ret EXCEPT ![p] = NoRow]
  /\ timings' = [timings EXCEPT ![p] = [c \in Configs |-> NoRow]]
  /\ seen' = [seen EXCEPT ![p] = NoRow]
  /\ config' = [config EXCEPT ![p] = NoRow]
  /\ UNCHANGED <<database, key, histories>>

Run(p, k) ==
  /\ runs[p] < MaxRuns
  /\ Goto(p, "idle", "lookup")
  /\ runs' = [runs EXCEPT ![p] = @ + 1]
  /\ key' = [key EXCEPT ![p] = k]
  /\ UNCHANGED <<database, cursor, ret, timings, seen, config, histories,
                 crashes, faults>>

\* if key not in self.cache
LookupHit(p) ==
  /\ Goto(p, "lookup", "read_config")
  /\ config_row[key[p]] # NoRow
  /\ UNCHANGED <<database, locals, histories, counters>>

LookupMiss(p) ==
  /\ Goto(p, "lookup", "bench_get")
  /\ config_row[key[p]] = NoRow
  /\ contended' = [contended EXCEPT ![key[p]] = @ \/ Tuners(key[p]) # {}]
  /\ crowded' = [crowded EXCEPT
       ![key[p]] = @ \/ \E q, r \in Tuners(key[p]) : q # r]
  /\ UNCHANGED <<database, locals, counters>>

\* bench: ret = cache.get(config)
BenchGetHit(p) ==
  /\ pc[p] = "bench_get"
  /\ bench_row[key[p]][cursor[p]] # NoRow
  /\ pc' = [pc EXCEPT
              ![p] = IF cursor[p] = NConfigs THEN "choose" ELSE "bench_get"]
  /\ timings' = [timings EXCEPT
                   ![p][cursor[p]] = bench_row[key[p]][cursor[p]]]
  /\ cursor' = [cursor EXCEPT ![p] = @ + 1]
  /\ UNCHANGED <<database, key, ret, seen, config, histories, counters>>

\* What if a configuration were measured again although it is stored?
BenchGetAlways(p) ==
  /\ Goto(p, "bench_get", "measure")
  /\ UNCHANGED <<database, locals, histories, counters>>

BenchGetMiss(p) ==
  /\ Goto(p, "bench_get", "measure")
  /\ bench_row[key[p]][cursor[p]] = NoRow
  /\ UNCHANGED <<database, locals, histories, counters>>

\* What if a configuration that does not fit were given the times 0?
MeasureZero(p) ==
  /\ Goto(p, "measure", "put_bench")
  /\ \E t \in Measurements \cup {<<0, 0, 0>>} : ret' = [ret EXCEPT ![p] = t]
  /\ UNCHANGED <<database, key, cursor, timings, seen, config, histories,
                 counters>>

\* ret = self._bench(*args, config=config, **kwargs)
Measure(p) ==
  /\ Goto(p, "measure", "put_bench")
  /\ \E t \in Measurements : ret' = [ret EXCEPT ![p] = t]
  /\ UNCHANGED <<database, key, cursor, timings, seen, config,
                 histories, counters>>

\* cache[config] = tuple(ret), up to session.merge ...
PutBench(p) ==
  /\ Goto(p, "put_bench", "commit_bench")
  /\ seen' = [seen EXCEPT ![p] = bench_row[key[p]][cursor[p]]]
  /\ UNCHANGED <<config_row, bench_row, key, cursor, ret, timings, config,
                 histories, counters>>

\* What if only the last measurement were committed?
CommitLastBench(p) ==
  /\ pc[p] = "commit_bench"
  /\ pc' = [pc EXCEPT
              ![p] = IF cursor[p] = NConfigs THEN "choose" ELSE "bench_get"]
  /\ bench_row' = IF cursor[p] # NConfigs THEN bench_row
                    ELSE [bench_row EXCEPT ![key[p]][cursor[p]] = ret[p]]
  /\ timings' = [timings EXCEPT ![p][cursor[p]] = ret[p]]
  /\ cursor' = [cursor EXCEPT ![p] = @ + 1]
  /\ ret' = [ret EXCEPT ![p] = NoRow]
  /\ seen' = [seen EXCEPT ![p] = NoRow]
  /\ UNCHANGED <<config_row, key, config, histories, counters>>

\* ... and session.commit; the policy gets the local measurement either way.
CommitBench(p) ==
  /\ pc[p] = "commit_bench"
  /\ pc' = [pc EXCEPT
              ![p] = IF cursor[p] = NConfigs THEN "choose" ELSE "bench_get"]
  /\ bench_row' = [bench_row EXCEPT
       ![key[p]][cursor[p]] = Committed(seen[p], @, ret[p])]
  /\ timings' = [timings EXCEPT ![p][cursor[p]] = ret[p]]
  /\ cursor' = [cursor EXCEPT ![p] = @ + 1]
  /\ ret' = [ret EXCEPT ![p] = NoRow]
  /\ seen' = [seen EXCEPT ![p] = NoRow]
  /\ UNCHANGED <<config_row, key, config, histories, counters>>

\* Lists of numbers are compared from the left.
Less(s, t) ==
  \E i \in Quantiles : s[i] < t[i] /\ \A j \in Quantiles : j < i => s[j] = t[j]

\* default_policy: min(timings, key=timings.get), the first of equal ones.
IsFastest(c, ts) ==
  \A d \in Configs : Less(ts[c], ts[d]) \/ (ts[c] = ts[d] /\ c <= d)

\* What if the last of equal ones were taken?
ChooseLastOfEquals(p) ==
  /\ Goto(p, "choose", "put_config")
  /\ \E c \in Configs :
       /\ \A d \in Configs : LET ts == timings[p] IN
            Less(ts[c], ts[d]) \/ (ts[c] = ts[d] /\ d <= c)
       /\ config' = [config EXCEPT ![p] = all_kwargs[c]]
  /\ UNCHANGED <<database, key, cursor, ret, timings, seen, histories,
                 counters>>

Choose(p) ==
  /\ Goto(p, "choose", "put_config")
  /\ \E c \in Configs :
       /\ IsFastest(c, timings[p])
       /\ config' = [config EXCEPT ![p] = all_kwargs[c]]
  /\ UNCHANGED <<database, key, cursor, ret, timings, seen, histories,
                 counters>>

\* What if the row were deleted and inserted instead of merged?
PutConfigDeleting(p) ==
  /\ Goto(p, "put_config", "commit_config")
  /\ config_row' = [config_row EXCEPT ![key[p]] = NoRow]
  /\ seen' = [seen EXCEPT ![p] = NoRow]
  /\ UNCHANGED <<bench_row, key, cursor, ret, timings, config, histories,
                 counters>>

\* self.cache[key] = best_config, up to session.merge ...
PutConfig(p) ==
  /\ Goto(p, "put_config", "commit_config")
  /\ seen' = [seen EXCEPT ![p] = config_row[key[p]]]
  /\ UNCHANGED <<config_row, bench_row, key, cursor, ret, timings, config,
                 histories, counters>>

\* What if the session were closed without a commit?
CommitNothing(p) ==
  /\ Goto(p, "commit_config", "read_back")
  /\ UNCHANGED <<database, locals, histories, counters>>

\* ... and session.commit.
CommitConfig(p) ==
  /\ Goto(p, "commit_config", "read_back")
  /\ config_row' = [config_row EXCEPT
       ![key[p]] = Committed(seen[p], @, config[p])]
  /\ seen' = [seen EXCEPT ![p] = NoRow]
  /\ UNCHANGED <<bench_row, key, cursor, ret, timings, config, histories,
                 counters>>

\* self.cache[key], read for the pre-hook and read again for the launch; a
\* missing row is a KeyError.
ReadBack(p) ==
  /\ Goto(p, "read_back",
          IF config_row[key[p]] = NoRow THEN "key_error" ELSE "read_config")
  /\ UNCHANGED <<database, locals, histories, counters>>

ReadConfig(p) ==
  /\ Goto(p, "read_config",
          IF config_row[key[p]] = NoRow THEN "key_error" ELSE "launch")
  /\ config' = [config EXCEPT ![p] = config_row[key[p]]]
  /\ UNCHANGED <<database, key, cursor, ret, timings, seen, histories,
                 counters>>

\* self.best_config = config; self.fn.run(...)
Launch(p) ==
  /\ pc[p] = "launch"
  /\ Ends(p)
  /\ UNCHANGED counters

\* A statement of the database (locked, unreachable), a benchmark or the
\* launch raises: the transaction is rolled back and the run ends.
Fail(p) ==
  /\ faults < MaxFaults
  /\ pc[p] \notin {"idle", "choose", "key_error"}
  /\ Ends(p)
  /\ faults' = faults + 1
  /\ UNCHANGED <<runs, crashes>>

\* The process is killed and started again.
Crash(p) ==
  /\ crashes < MaxCrashes
  /\ pc[p] # "idle"
  /\ Ends(p)
  /\ crashes' = crashes + 1
  /\ UNCHANGED <<runs, faults>>

Step(p) ==
  \/ LookupHit(p) \/ LookupMiss(p) \/ BenchGetHit(p) \/ BenchGetMiss(p)
  \/ Measure(p) \/ PutBench(p) \/ CommitBench(p) \/ Choose(p)
  \/ PutConfig(p) \/ CommitConfig(p) \/ ReadBack(p) \/ ReadConfig(p)
  \/ Launch(p)

Terminated ==
  /\ \A p \in Procs : pc[p] = "idle" /\ runs[p] = MaxRuns
  /\ UNCHANGED vars

Next ==
  \/ \E p \in Procs :
       \/ \E k \in Keys : Run(p, k)
       \/ Step(p) \/ Fail(p) \/ Crash(p)
  \/ Terminated

Spec == Init /\ [][Next]_vars
-----------------------------------------------------------------------------
(***************************************************************************)
(* Properties                                                              *)
(***************************************************************************)
PCs == {"idle", "lookup", "bench_get", "measure", "put_bench", "commit_bench",
        "choose", "put_config", "commit_config", "read_back", "read_config",
        "launch", "key_error"}

\* Every row and every local of LibTuner.run has its type; in particular each
\* column of a stored configuration is that of some configuration, and each
\* number of a stored measurement one that was measured in its place.
TypeOK ==
  /\ config_row \in [Keys -> MixedConfigs \cup {NoRow}]
  /\ bench_row \in [Keys -> [Configs -> MixedMeasurements \cup {NoRow}]]
  /\ pc \in [Procs -> PCs]
  /\ key \in [Procs -> Keys]
  /\ cursor \in [Procs -> 1 .. NConfigs + 1]
  /\ ret \in [Procs -> Measurements \cup {NoRow}]
  /\ timings \in [Procs -> [Configs -> MixedMeasurements \cup {NoRow}]]
  /\ seen \in [Procs -> MixedMeasurements \cup MixedConfigs \cup {NoRow}]
  /\ config \in [Procs -> MixedConfigs \cup {NoRow}]
  /\ contended \in [Keys -> BOOLEAN]
  /\ crowded \in [Keys -> BOOLEAN]
  /\ runs \in [Procs -> 0 .. MaxRuns]
  /\ crashes \in 0 .. MaxCrashes
  /\ faults \in 0 .. MaxFaults

\* The configuration a run has just stored is there when it is read back, and
\* still there when it is read for the launch: self.cache[key] never raises
\* KeyError, even when the run's own INSERT was the one rolled back.
NoKeyError == \A p \in Procs : pc[p] # "key_error"

\* A key has a best configuration only when all its configurations have a
\* stored measurement, whoever made them and whoever was killed in between.
FullyMeasured ==
  \A k \in Keys :
    config_row[k] # NoRow => \A c \in Configs : bench_row[k][c] # NoRow

\* As long as no two processes tuned a key at the same time, its stored
\* configuration is the fastest of its stored measurements, the first one of
\* equals, also when the tuning was interrupted and taken up by another run.
StoredIsFastest ==
  \A k \in Keys :
    (config_row[k] # NoRow /\ ~contended[k])
      => \E c \in Configs :
           config_row[k] = all_kwargs[c] /\ IsFastest(c, bench_row[k])

\* Rows are never lost, neither to a crash nor to a rollback, and the stored
\* measurements of a key do not change any more once it has a configuration,
\* unless processes tuned it at the same time (a late session.merge may
\* overwrite another process's row).
RowsKept ==
  [][\A k \in Keys :
       /\ config_row[k] # NoRow => config_row'[k] # NoRow
       /\ \A c \in Configs : bench_row[k][c] # NoRow => bench_row'[k][c] # NoRow
       /\ config_row[k] # NoRow /\ ~contended[k] =>
            config_row'[k] = config_row[k] /\ bench_row'[k] = bench_row[k]]_vars

\* An UPDATE writes single columns, and still a stored configuration is one of
\* the configurations and a stored measurement one that somebody made, never
\* columns of one with columns of another, unless three processes tuned the key
\* at the same time: one to INSERT the row and two to UPDATE what they both saw.
RowsWhole ==
  \A k \in Keys : ~crowded[k] =>
    /\ config_row[k] \in ConfigRows \cup {NoRow}
    /\ \A c \in Configs : bench_row[k][c] \in Measurements \cup {NoRow}
=============================================================================
