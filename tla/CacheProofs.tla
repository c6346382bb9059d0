----------------------------- MODULE CacheProofs -----------------------------
(***************************************************************************)
(* Theorems about what processes and threads keep for later calls: the     *)
(* measured configurations of LibTuner and the generated modules of        *)
(* PointwiseDynamic.                                                       *)
(***************************************************************************)
EXTENDS LibTuner, PointwiseDynamic, FiniteSetTheorems, TLAPS

-----------------------------------------------------------------------------
(***************************************************************************)
(* LibTuner over its shared database, for any number of processes, keys    *)
(* and configurations, any crashes and any failures.                       *)
(***************************************************************************)
Measuring(p) == pc[p] \in {"bench_get", "measure", "put_bench", "commit_bench"}
AllMeasured(k) == \A c \in Configs : bench_row[k][c] # NoRow

\* What a run knows at each statement, whatever the other processes do.
RunInv(p) ==
  /\ pc[p] \in {"idle", "lookup"} => cursor[p] = 1
  /\ Measuring(p) =>
       /\ cursor[p] \in Configs
       /\ \A c \in Configs : c < cursor[p] =>
            timings[p][c] \in MixedMeasurements /\ bench_row[key[p]][c] # NoRow
  /\ pc[p] \in {"put_bench", "commit_bench"} => ret[p] \in Measurements
  /\ pc[p] = "commit_bench" /\ seen[p] # NoRow =>
       bench_row[key[p]][cursor[p]] # NoRow
  /\ pc[p] \in {"choose", "put_config", "commit_config"} =>
       /\ \A c \in Configs : timings[p][c] \in MixedMeasurements
       /\ AllMeasured(key[p])
  /\ pc[p] \in {"put_config", "commit_config"} => config[p] \in ConfigRows
  /\ pc[p] = "commit_config" /\ seen[p] # NoRow => config_row[key[p]] # NoRow
  /\ pc[p] \in {"read_back", "read_config"} => config_row[key[p]] # NoRow
  /\ pc[p] # "key_error"

\* What it knows besides as long as it has been the only one tuning its key.
AloneInv(p) ==
  Tuning(p) /\ ~contended[key[p]] =>
    /\ config_row[key[p]] = NoRow
    /\ \A q \in Procs : Tuning(q) /\ key[q] = key[p] => q = p
    /\ Measuring(p) =>
         \A c \in Configs : c < cursor[p] => bench_row[key[p]][c] = timings[p][c]
    /\ pc[p] \in {"measure", "put_bench", "commit_bench"} =>
         bench_row[key[p]][cursor[p]] = NoRow
    /\ pc[p] \in {"choose", "put_config", "commit_config"} =>
         \A c \in Configs : bench_row[key[p]][c] = timings[p][c]
    /\ pc[p] \in {"put_config", "commit_config"} =>
         \E c \in Configs :
           config[p] = all_kwargs[c] /\ IsFastest(c, timings[p])

SafeInv ==
  /\ TypeOK
  /\ FullyMeasured
  /\ \A p \in Procs : RunInv(p)

IInv ==
  /\ SafeInv
  /\ StoredIsFastest
  /\ \A p \in Procs : AloneInv(p)

-----------------------------------------------------------------------------
\* A row is mixed when each of its columns is that of some row.
LEMMA InMixed ==
  ASSUME NEW D, NEW S, NEW r, r = [d \in D |-> r[d]],
         \A d \in D : \E s \in S : r[d] = s[d]
  PROVE  r \in Mixed(D, S)
  <1> DEFINE values == UNION {{s[d] : d \in D} : s \in S}
  <1>1. \A d \in D : r[d] \in values
    OBVIOUS
  <1> HIDE DEF values
  <1>2. r \in [D -> values]
    BY <1>1
  <1>. QED BY <1>2 DEF Mixed, values

\* A whole row is a mixed one, and no row is NoRow.
LEMMA WholeIsMixed ==
  /\ Measurements \subseteq MixedMeasurements
  /\ ConfigRows \subseteq MixedConfigs
  /\ NoRow \notin Measurements \cup ConfigRows
  <1>1. Measurements \subseteq MixedMeasurements
    BY InMixed, MeasurementsAssumption DEF MixedMeasurements
  <1>2. ConfigRows \subseteq MixedConfigs
    BY InMixed, ConfigsAssumption DEF MixedConfigs, ConfigRows
  <1>. QED BY <1>1, <1>2, NoRowAssumption

\* A commit leaves a row, of which each column is the put's or was there.
LEMMA CommittedMixed ==
  ASSUME NEW D, NEW S, NEW found, NEW new \in Mixed(D, S),
         NEW old \in Mixed(D, S) \cup {NoRow}, found # NoRow => old # NoRow
  PROVE  Committed(found, old, new) \in Mixed(D, S)
  <1>1. CASE found = NoRow
    BY <1>1 DEF Committed, Inserted
  <1>2. CASE found # NoRow
    <2> DEFINE row == Updated(found, old, new)
    <2>1. old \in Mixed(D, S) /\ DOMAIN new = D
      BY <1>2 DEF Mixed
    <2>2. \A d \in D : row[d] \in {new[d], old[d]}
      BY <2>1 DEF Updated
    <2>3. \A d \in D : (\E s \in S : new[d] = s[d]) /\ (\E s \in S : old[d] = s[d])
      BY <2>1 DEF Mixed
    <2>4. row = [d \in D |-> row[d]]
      BY <2>1 DEF Updated
    <2> HIDE DEF row
    <2>5. \A d \in D : \E s \in S : row[d] = s[d]
      BY <2>2, <2>3
    <2>6. row \in Mixed(D, S)
      BY <2>4, <2>5, InMixed
    <2>. QED BY <1>2, <2>6 DEF Committed, row
  <1>. QED BY <1>1, <1>2

\* What CommitBench and CommitConfig leave.
LEMMA CommittedRows ==
  ASSUME TypeOK, NEW p \in Procs, RunInv(p)
  PROVE  /\ pc[p] = "commit_bench" =>
              Committed(seen[p], bench_row[key[p]][cursor[p]], ret[p])
                \in MixedMeasurements
         /\ pc[p] = "commit_config" =>
              Committed(seen[p], config_row[key[p]], config[p]) \in MixedConfigs
  <1>1. CASE pc[p] = "commit_bench"
    <2>1. /\ ret[p] \in MixedMeasurements
          /\ bench_row[key[p]][cursor[p]] \in MixedMeasurements \cup {NoRow}
          /\ seen[p] # NoRow => bench_row[key[p]][cursor[p]] # NoRow
      BY <1>1, WholeIsMixed DEF RunInv, Measuring, TypeOK
    <2>. QED BY <1>1, <2>1, CommittedMixed DEF MixedMeasurements
  <1>2. CASE pc[p] = "commit_config"
    <2>1. /\ config[p] \in MixedConfigs
          /\ config_row[key[p]] \in MixedConfigs \cup {NoRow}
          /\ seen[p] # NoRow => config_row[key[p]] # NoRow
      BY <1>2, WholeIsMixed DEF RunInv, TypeOK
    <2>. QED BY <1>2, <2>1, CommittedMixed DEF MixedConfigs
  <1>. QED BY <1>1, <1>2

-----------------------------------------------------------------------------
\* Writes fill rows and never empty them.
LEMMA RowsOnlyFill ==
  ASSUME TypeOK, \A p \in Procs : RunInv(p), [Next]_vars
  PROVE  \A k \in Keys :
           /\ config_row[k] # NoRow => config_row'[k] # NoRow
           /\ \A c \in Configs : bench_row[k][c] # NoRow => bench_row'[k][c] # NoRow
  <1> USE NoRowAssumption, ConfigsAssumption
  <1>1. ASSUME NEW p \in Procs, CommitBench(p)
        PROVE \A k \in Keys : \A c \in Configs :
                bench_row[k][c] # NoRow => bench_row'[k][c] # NoRow
    <2>1. key[p] \in Keys /\ cursor[p] \in Configs
      BY <1>1 DEF CommitBench, RunInv, Measuring, TypeOK
    <2> DEFINE new == Committed(seen[p], bench_row[key[p]][cursor[p]], ret[p])
    <2>2. new # NoRow
      BY <1>1, CommittedRows DEF CommitBench
    <2>3. bench_row' = [bench_row EXCEPT ![key[p]][cursor[p]] = new]
      BY <1>1 DEF CommitBench
    <2> HIDE DEF new
    <2>4. QED
      BY <2>1, <2>2, <2>3 DEF TypeOK
  <1>2. ASSUME NEW p \in Procs, CommitConfig(p)
        PROVE \A k \in Keys : config_row[k] # NoRow => config_row'[k] # NoRow
    <2> DEFINE new == Committed(seen[p], config_row[key[p]], config[p])
    <2>1. new # NoRow
      BY <1>2, CommittedRows DEF CommitConfig, Goto
    <2>2. config_row' = [config_row EXCEPT ![key[p]] = new]
      BY <1>2 DEF CommitConfig
    <2> HIDE DEF new
    <2>. QED BY <2>1, <2>2 DEF TypeOK
  <1>3. UNCHANGED bench_row \/ \E p \in Procs : CommitBench(p)
    BY DEF Next, Step, Run, LookupHit, LookupMiss, BenchGetHit, BenchGetMiss,
           Measure, PutBench, Choose, PutConfig, CommitConfig, ReadBack,
           ReadConfig, Launch, Fail, Crash, Ends, Terminated, vars, database
  <1>4. UNCHANGED config_row \/ \E p \in Procs : CommitConfig(p)
    BY DEF Next, Step, Run, LookupHit, LookupMiss, BenchGetHit, BenchGetMiss,
           Measure, PutBench, CommitBench, Choose, PutConfig, ReadBack,
           ReadConfig, Launch, Fail, Crash, Ends, Terminated, vars, database
  <1>5. QED
    BY <1>1, <1>2, <1>3, <1>4

LEMMA InitSafe == Init => SafeInv
  <1> USE KeysAssumption, NoRowAssumption, ConfigsAssumption, BoundsAssumption
  <1> SUFFICES ASSUME Init PROVE SafeInv
    OBVIOUS
  <1>1. (CHOOSE k \in Keys : TRUE) \in Keys
    OBVIOUS
  <1>2. TypeOK
    BY <1>1 DEF Init, TypeOK, PCs, Configs
  <1>3. FullyMeasured /\ \A p \in Procs : RunInv(p)
    BY DEF Init, FullyMeasured, RunInv, Measuring
  <1>4. QED
    BY <1>2, <1>3 DEF SafeInv

LEMMA StepType == SafeInv /\ [Next]_vars => TypeOK'
  <1> USE KeysAssumption, NoRowAssumption, ConfigsAssumption, BoundsAssumption
  <1> SUFFICES ASSUME SafeInv, [Next]_vars PROVE TypeOK'
    OBVIOUS
  <1>0. TypeOK
    BY DEF SafeInv
  <1> USE <1>0 DEF TypeOK, PCs, Goto, Ends, locals, histories, counters, database
  <1>1. ASSUME NEW p \in Procs, NEW k \in Keys, Run(p, k) PROVE TypeOK'
    BY <1>1 DEF Run, Configs
  <1>2. ASSUME NEW p \in Procs, LookupHit(p) PROVE TypeOK'
    BY <1>2 DEF LookupHit
  <1>3. ASSUME NEW p \in Procs, LookupMiss(p) PROVE TypeOK'
    BY <1>3 DEF LookupMiss
  <1>4. ASSUME NEW p \in Procs, BenchGetHit(p) PROVE TypeOK'
    <2>1. cursor[p] \in Configs
      BY <1>4 DEF BenchGetHit, SafeInv, RunInv, Measuring
    <2>2. bench_row[key[p]][cursor[p]] \in MixedMeasurements \cup {NoRow}
      BY <2>1
    <2>3. timings' \in [Procs -> [Configs -> MixedMeasurements \cup {NoRow}]]
      BY <1>4, <2>1, <2>2 DEF BenchGetHit
    <2>4. cursor' \in [Procs -> 1 .. NConfigs + 1]
      BY <1>4, <2>1 DEF BenchGetHit, Configs
    <2>5. QED
      BY <1>4, <2>3, <2>4 DEF BenchGetHit
  <1>5. ASSUME NEW p \in Procs, BenchGetMiss(p) PROVE TypeOK'
    BY <1>5 DEF BenchGetMiss
  <1>6. ASSUME NEW p \in Procs, Measure(p) PROVE TypeOK'
    BY <1>6, WholeIsMixed DEF Measure
  <1>7. ASSUME NEW p \in Procs, PutBench(p) PROVE TypeOK'
    <2>1. cursor[p] \in Configs
      BY <1>7 DEF PutBench, SafeInv, RunInv, Measuring
    <2>2. bench_row[key[p]][cursor[p]] \in MixedMeasurements \cup {NoRow}
      BY <2>1
    <2>3. QED
      BY <1>7, <2>2 DEF PutBench
  <1>8. ASSUME NEW p \in Procs, CommitBench(p) PROVE TypeOK'
    <2>1. cursor[p] \in Configs /\ ret[p] \in MixedMeasurements
      BY <1>8, WholeIsMixed DEF CommitBench, SafeInv, RunInv, Measuring
    <2> DEFINE new == Committed(seen[p], bench_row[key[p]][cursor[p]], ret[p])
    <2>2. new \in MixedMeasurements
      BY <1>8, CommittedRows DEF CommitBench, SafeInv
    <2>3. bench_row' = [bench_row EXCEPT ![key[p]][cursor[p]] = new]
      BY <1>8 DEF CommitBench
    <2> HIDE DEF new
    <2>4. bench_row' \in [Keys -> [Configs -> MixedMeasurements \cup {NoRow}]]
      BY <2>1, <2>2, <2>3
    <2>5. timings' \in [Procs -> [Configs -> MixedMeasurements \cup {NoRow}]]
      BY <1>8, <2>1 DEF CommitBench
    <2>6. cursor' \in [Procs -> 1 .. NConfigs + 1]
      BY <1>8, <2>1 DEF CommitBench, Configs
    <2>7. QED
      BY <1>8, <2>4, <2>5, <2>6 DEF CommitBench
  <1>9. ASSUME NEW p \in Procs, Choose(p) PROVE TypeOK'
    <2>1. config' \in [Procs -> MixedConfigs \cup {NoRow}]
      BY <1>9, WholeIsMixed DEF Choose, ConfigRows
    <2>. QED BY <1>9, <2>1 DEF Choose
  <1>10. ASSUME NEW p \in Procs, PutConfig(p) PROVE TypeOK'
    BY <1>10 DEF PutConfig
  <1>11. ASSUME NEW p \in Procs, CommitConfig(p) PROVE TypeOK'
    <2> DEFINE new == Committed(seen[p], config_row[key[p]], config[p])
    <2>1. new \in MixedConfigs
      BY <1>11, CommittedRows DEF CommitConfig, SafeInv
    <2>2. config_row' = [config_row EXCEPT ![key[p]] = new]
      BY <1>11 DEF CommitConfig
    <2> HIDE DEF new
    <2>3. config_row' \in [Keys -> MixedConfigs \cup {NoRow}]
      BY <2>1, <2>2
    <2>. QED BY <1>11, <2>3 DEF CommitConfig
  <1>12. ASSUME NEW p \in Procs, ReadBack(p) PROVE TypeOK'
    BY <1>12 DEF ReadBack
  <1>13. ASSUME NEW p \in Procs, ReadConfig(p) PROVE TypeOK'
    BY <1>13 DEF ReadConfig
  <1>14. ASSUME NEW p \in Procs, Launch(p) PROVE TypeOK'
    BY <1>14 DEF Launch
  <1>15. ASSUME NEW p \in Procs, Fail(p) PROVE TypeOK'
    BY <1>15 DEF Fail
  <1>16. ASSUME NEW p \in Procs, Crash(p) PROVE TypeOK'
    BY <1>16 DEF Crash
  <1>17. CASE UNCHANGED vars
    BY <1>17 DEF vars
  <1> HIDE DEF TypeOK, PCs, Goto, Ends, locals, histories, counters, database
  <1>18. QED
    BY <1>1, <1>2, <1>3, <1>4, <1>5, <1>6, <1>7, <1>8, <1>9, <1>10, <1>11,
       <1>12, <1>13, <1>14, <1>15, <1>16, <1>17 DEF Next, Step, Terminated

\* A step of another process cannot take away what a run knows.
LEMMA OthersKeep ==
  ASSUME SafeInv, [Next]_vars, NEW q \in Procs,
         pc'[q] = pc[q], key'[q] = key[q], cursor'[q] = cursor[q],
         ret'[q] = ret[q], timings'[q] = timings[q], config'[q] = config[q],
         seen'[q] = seen[q]
  PROVE  RunInv(q)'
  <1>1. RunInv(q) /\ key[q] \in Keys
    BY DEF SafeInv, TypeOK
  <1>2. /\ config_row[key[q]] # NoRow => config_row'[key[q]] # NoRow
        /\ \A c \in Configs :
             bench_row[key[q]][c] # NoRow => bench_row'[key[q]][c] # NoRow
    BY <1>1, RowsOnlyFill DEF SafeInv
  <1>3. QED
    BY <1>1, <1>2 DEF RunInv, Measuring, AllMeasured

LEMMA StepRun == SafeInv /\ [Next]_vars => \A q \in Procs : RunInv(q)'
  <1> USE NoRowAssumption, ConfigsAssumption
  <1> SUFFICES ASSUME SafeInv, [Next]_vars, NEW q \in Procs PROVE RunInv(q)'
    OBVIOUS
  <1>0. TypeOK /\ FullyMeasured /\ RunInv(q) /\ key[q] \in Keys
    BY DEF SafeInv, TypeOK
  <1> USE <1>0 DEF TypeOK, Goto, Ends, locals, histories, counters, database
  <1>1. ASSUME NEW p \in Procs, NEW k \in Keys, Run(p, k) PROVE RunInv(q)'
    BY <1>1, OthersKeep DEF Run, RunInv, Measuring
  <1>2. ASSUME NEW p \in Procs, LookupHit(p) PROVE RunInv(q)'
    BY <1>2, OthersKeep DEF LookupHit, RunInv, Measuring
  <1>3. ASSUME NEW p \in Procs, LookupMiss(p) PROVE RunInv(q)'
    BY <1>3, OthersKeep DEF LookupMiss, RunInv, Measuring, Configs
  <1>4. ASSUME NEW p \in Procs, BenchGetHit(p) PROVE RunInv(q)'
    <2>1. CASE p = q
      <3>1. /\ cursor[q] \in Configs /\ cursor'[q] = cursor[q] + 1
            /\ bench_row' = bench_row /\ key' = key
            /\ bench_row[key[q]][cursor[q]] \in MixedMeasurements
            /\ timings'[q] = [timings[q] EXCEPT
                               ![cursor[q]] = bench_row[key[q]][cursor[q]]]
        BY <1>4, <2>1 DEF BenchGetHit, RunInv, Measuring
      <3>2. \A c \in Configs : c < cursor[q] + 1 =>
              timings'[q][c] \in MixedMeasurements /\ bench_row[key[q]][c] # NoRow
        <4> SUFFICES ASSUME NEW c \in Configs, c < cursor[q] + 1
            PROVE  /\ timings'[q][c] \in MixedMeasurements
                   /\ bench_row[key[q]][c] # NoRow
          OBVIOUS
        <4>1. CASE c = cursor[q]
          BY <1>4, <2>1, <3>1, <4>1 DEF BenchGetHit
        <4>2. CASE c # cursor[q]
          <5>1. c < cursor[q]
            BY <3>1, <4>2 DEF Configs
          <5>. QED BY <1>4, <2>1, <3>1, <4>2, <5>1
                   DEF BenchGetHit, RunInv, Measuring
        <4>. QED BY <4>1, <4>2
      <3>3. CASE cursor[q] = NConfigs
        <4>1. pc'[q] = "choose"
          BY <1>4, <2>1, <3>3 DEF BenchGetHit
        <4>2. \A c \in Configs : c < cursor[q] + 1
          BY <3>3 DEF Configs
        <4>3. QED
          BY <3>1, <3>2, <4>1, <4>2 DEF RunInv, Measuring, AllMeasured
      <3>4. CASE cursor[q] # NConfigs
        <4>1. pc'[q] = "bench_get" /\ cursor'[q] \in Configs
          BY <1>4, <2>1, <3>1, <3>4 DEF BenchGetHit, Configs
        <4>2. QED
          BY <3>1, <3>2, <4>1 DEF RunInv, Measuring
      <3>5. QED
        BY <3>3, <3>4
    <2>2. CASE p # q
      BY <1>4, <2>2, OthersKeep DEF BenchGetHit
    <2>3. QED
      BY <2>1, <2>2
  <1>5. ASSUME NEW p \in Procs, BenchGetMiss(p) \/ PutBench(p) PROVE RunInv(q)'
    BY <1>5, OthersKeep DEF BenchGetMiss, PutBench, RunInv, Measuring
  <1>6. ASSUME NEW p \in Procs, Measure(p) PROVE RunInv(q)'
    BY <1>6, OthersKeep DEF Measure, RunInv, Measuring
  <1>7. ASSUME NEW p \in Procs, CommitBench(p) PROVE RunInv(q)'
    <2>1. CASE p = q
      <3>1. /\ cursor[q] \in Configs /\ cursor'[q] = cursor[q] + 1
            /\ ret[q] \in MixedMeasurements /\ key' = key
            /\ timings'[q] = [timings[q] EXCEPT ![cursor[q]] = ret[q]]
        BY <1>7, <2>1, WholeIsMixed DEF CommitBench, RunInv, Measuring
      <3>2. bench_row'[key[q]][cursor[q]] # NoRow
        <4> DEFINE new == Committed(seen[q], bench_row[key[q]][cursor[q]], ret[q])
        <4>1. new # NoRow
          BY <1>7, <2>1, CommittedRows DEF CommitBench, SafeInv
        <4>2. bench_row' = [bench_row EXCEPT ![key[q]][cursor[q]] = new]
          BY <1>7, <2>1 DEF CommitBench
        <4> HIDE DEF new
        <4>3. QED
          BY <3>1, <4>1, <4>2
      <3>3. \A c \in Configs : c < cursor[q] =>
              timings[q][c] \in MixedMeasurements /\ bench_row'[key[q]][c] # NoRow
        BY <1>7, <2>1, RowsOnlyFill DEF SafeInv, CommitBench, RunInv, Measuring
      <3>4. \A c \in Configs : c < cursor[q] + 1 =>
              timings'[q][c] \in MixedMeasurements /\ bench_row'[key[q]][c] # NoRow
        BY <3>1, <3>2, <3>3 DEF Configs
      <3>5. CASE cursor[q] = NConfigs
        <4>1. pc'[q] = "choose"
          BY <1>7, <2>1, <3>5 DEF CommitBench
        <4>2. \A c \in Configs : c < cursor[q] + 1
          BY <3>5 DEF Configs
        <4>3. QED
          BY <3>1, <3>4, <4>1, <4>2 DEF RunInv, Measuring, AllMeasured
      <3>6. CASE cursor[q] # NConfigs
        <4>1. pc'[q] = "bench_get" /\ cursor'[q] \in Configs
          BY <1>7, <2>1, <3>1, <3>6 DEF CommitBench, Configs
        <4>2. QED
          BY <3>1, <3>4, <4>1 DEF RunInv, Measuring
      <3>7. QED
        BY <3>5, <3>6
    <2>2. CASE p # q
      BY <1>7, <2>2, OthersKeep DEF CommitBench
    <2>3. QED
      BY <2>1, <2>2
  <1>8. ASSUME NEW p \in Procs, Choose(p) PROVE RunInv(q)'
    BY <1>8, OthersKeep DEF Choose, RunInv, Measuring, AllMeasured, ConfigRows
  <1>9. ASSUME NEW p \in Procs, PutConfig(p) PROVE RunInv(q)'
    BY <1>9, OthersKeep DEF PutConfig, RunInv, Measuring, AllMeasured
  <1>10. ASSUME NEW p \in Procs, CommitConfig(p) PROVE RunInv(q)'
    <2>1. CASE p = q
      <3>1. Committed(seen[q], config_row[key[q]], config[q]) # NoRow
        BY <1>10, <2>1, CommittedRows DEF CommitConfig
      <3>. QED BY <1>10, <2>1, <3>1 DEF CommitConfig, RunInv, Measuring
    <2>2. CASE p # q
      BY <1>10, <2>2, OthersKeep DEF CommitConfig
    <2>3. QED
      BY <2>1, <2>2
  <1>11. ASSUME NEW p \in Procs, ReadBack(p) \/ ReadConfig(p) PROVE RunInv(q)'
    BY <1>11, OthersKeep DEF ReadBack, ReadConfig, RunInv, Measuring
  <1>12. ASSUME NEW p \in Procs, Launch(p) \/ Fail(p) \/ Crash(p) PROVE RunInv(q)'
    BY <1>12, OthersKeep DEF Launch, Fail, Crash, RunInv, Measuring
  <1>13. CASE UNCHANGED vars
    BY <1>13, OthersKeep DEF vars
  <1>14. QED
    BY <1>1, <1>2, <1>3, <1>4, <1>5, <1>6, <1>7, <1>8, <1>9, <1>10, <1>11,
       <1>12, <1>13 DEF Next, Step, Terminated

LEMMA StepMeasured == SafeInv /\ [Next]_vars => FullyMeasured'
  <1> SUFFICES ASSUME SafeInv, [Next]_vars, NEW k \in Keys, config_row'[k] # NoRow
               PROVE \A c \in Configs : bench_row'[k][c] # NoRow
    BY DEF FullyMeasured
  <1>1. CASE config_row[k] # NoRow
    BY <1>1, RowsOnlyFill DEF SafeInv, FullyMeasured
  <1>2. CASE config_row[k] = NoRow
    <2>1. PICK p \in Procs : CommitConfig(p)
      BY <1>2 DEF Next, Step, Run, LookupHit, LookupMiss, BenchGetHit,
           BenchGetMiss, Measure, PutBench, CommitBench, Choose, PutConfig,
           ReadBack, ReadConfig, Launch, Fail, Crash, Ends, Terminated, vars, database
    <2>2. key[p] = k
      BY <1>2, <2>1 DEF CommitConfig, SafeInv, TypeOK
    <2>3. AllMeasured(k)
      BY <2>1, <2>2 DEF CommitConfig, Goto, SafeInv, RunInv
    <2>4. QED
      BY <2>3, RowsOnlyFill DEF AllMeasured, SafeInv
  <1>3. QED
    BY <1>1, <1>2

LEMMA SafeInductive == Spec => []SafeInv
  <1>1. SafeInv /\ [Next]_vars => SafeInv'
    BY StepType, StepRun, StepMeasured DEF SafeInv
  <1>2. QED
    BY InitSafe, <1>1, PTL DEF Spec

\* The rows and the locals of LibTuner.run have their types in every
\* reachable state.
THEOREM TypeCorrect == Spec => []TypeOK
  <1>1. SafeInv => TypeOK
    BY DEF SafeInv
  <1>2. QED
    BY <1>1, SafeInductive, PTL

\* Reading back the configuration just stored never raises KeyError, whatever
\* the other processes commit, roll back or leave unfinished.
THEOREM NeverKeyError == Spec => []NoKeyError
  <1>1. SafeInv => NoKeyError
    BY DEF SafeInv, RunInv, NoKeyError
  <1>2. QED
    BY <1>1, SafeInductive, PTL

\* A stored configuration was stored after every measurement of its key.
THEOREM StoredIsMeasured == Spec => []FullyMeasured
  <1>1. SafeInv => FullyMeasured
    BY DEF SafeInv
  <1>2. QED
    BY <1>1, SafeInductive, PTL
-----------------------------------------------------------------------------
\* Only a run that is tuning a key writes rows of that key.
LEMMA RowsOfOthers ==
  ASSUME TypeOK, NEW p \in Procs, NEW k \in Keys,
         Step(p) \/ Fail(p) \/ Crash(p) \/ \E j \in Keys : Run(p, j),
         ~(Tuning(p) /\ key[p] = k)
  PROVE  config_row'[k] = config_row[k] /\ bench_row'[k] = bench_row[k]
  <1> USE DEF TypeOK
  <1>1. CASE CommitBench(p)
    <2>1. key[p] # k
      BY <1>1 DEF CommitBench, Tuning
    <2> DEFINE new == Committed(seen[p], bench_row[key[p]][cursor[p]], ret[p])
    <2>2. bench_row' = [bench_row EXCEPT ![key[p]][cursor[p]] = new]
      BY <1>1 DEF CommitBench
    <2> HIDE DEF new
    <2>3. QED
      BY <1>1, <2>1, <2>2 DEF CommitBench
  <1>2. CASE CommitConfig(p)
    BY <1>2 DEF CommitConfig, Goto, Tuning
  <1>3. CASE ~CommitBench(p) /\ ~CommitConfig(p)
    BY <1>3 DEF Step, Run, LookupHit, LookupMiss, BenchGetHit, BenchGetMiss,
         Measure, PutBench, Choose, PutConfig, ReadBack, ReadConfig, Launch,
         Fail, Crash, Ends, database
  <1>4. QED
    BY <1>1, <1>2, <1>3

\* A step moves the locals of the process that makes it, and nothing but a
\* missed lookup starts tuning; contended is never cleared.
LEMMA LocalsOfOthers ==
  ASSUME TypeOK, NEW p \in Procs,
         Step(p) \/ Fail(p) \/ Crash(p) \/ \E j \in Keys : Run(p, j)
  PROVE  /\ \A q \in Procs \ {p} :
              /\ pc'[q] = pc[q] /\ key'[q] = key[q] /\ cursor'[q] = cursor[q]
              /\ ret'[q] = ret[q] /\ timings'[q] = timings[q]
              /\ config'[q] = config[q] /\ seen'[q] = seen[q]
         /\ \A k \in Keys : contended[k] => contended'[k]
         /\ Tuning(p)' => LookupMiss(p) \/ (Tuning(p) /\ key'[p] = key[p])
  <1> USE DEF TypeOK, Goto, Ends, locals, histories, counters, database
  <1>1. CASE Step(p)
    <2>1. CASE LookupHit(p) \/ LookupMiss(p)
      BY <2>1 DEF LookupHit, LookupMiss, Tuning
    <2>2. CASE BenchGetHit(p) \/ BenchGetMiss(p) \/ Measure(p)
      BY <2>2 DEF BenchGetHit, BenchGetMiss, Measure, Tuning
    <2>3. CASE PutBench(p) \/ CommitBench(p)
      BY <2>3 DEF PutBench, CommitBench, Tuning
    <2>4. CASE Choose(p) \/ PutConfig(p) \/ CommitConfig(p)
      BY <2>4 DEF Choose, PutConfig, CommitConfig, Tuning
    <2>5. CASE ReadBack(p) \/ ReadConfig(p) \/ Launch(p)
      BY <2>5 DEF ReadBack, ReadConfig, Launch, Tuning
    <2>. QED BY <1>1, <2>1, <2>2, <2>3, <2>4, <2>5 DEF Step
  <1>2. CASE Fail(p) \/ Crash(p) \/ \E j \in Keys : Run(p, j)
    BY <1>2 DEF Fail, Crash, Run, Tuning
  <1>3. QED
    BY <1>1, <1>2

LEMMA AloneOthers ==
  ASSUME IInv, NEW p \in Procs, NEW q \in Procs, p # q,
         Step(p) \/ Fail(p) \/ Crash(p) \/ \E j \in Keys : Run(p, j)
  PROVE  AloneInv(q)'
  <1> SUFFICES ASSUME Tuning(q)', ~contended'[key'[q]]
               PROVE  AloneInv(q)'
    BY DEF AloneInv
  <1>0. TypeOK /\ AloneInv(q) /\ key[q] \in Keys
    BY DEF IInv, SafeInv, TypeOK
  <1>1. /\ pc'[q] = pc[q] /\ key'[q] = key[q] /\ cursor'[q] = cursor[q]
        /\ ret'[q] = ret[q] /\ timings'[q] = timings[q] /\ config'[q] = config[q]
    BY <1>0, LocalsOfOthers
  <1>2. Tuning(q) /\ ~contended[key[q]]
    BY <1>0, <1>1, LocalsOfOthers DEF Tuning
  <1>3. ~(Tuning(p) /\ key[p] = key[q])
    BY <1>0, <1>2 DEF AloneInv
  <1>4. ~(Tuning(p)' /\ key'[p] = key[q])
    <2>1. SUFFICES ASSUME LookupMiss(p), key[p] = key[q] PROVE contended'[key[q]]
      <3>1. LookupMiss(p) => key'[p] = key[p]
        BY DEF LookupMiss, locals
      <3>2. QED
        BY <2>1, <3>1, <1>0, <1>1, <1>3, LocalsOfOthers
    <2>2. contended' = [contended EXCEPT ![key[q]] = TRUE]
      BY <1>2, <2>1 DEF LookupMiss, Tuners
    <2>3. QED
      BY <1>0, <2>2 DEF TypeOK
  <1>5. config_row'[key[q]] = config_row[key[q]] /\ bench_row'[key[q]] = bench_row[key[q]]
    BY <1>0, <1>3, RowsOfOthers
  <1>6. \A r \in Procs : Tuning(r)' /\ key'[r] = key[q] => r = q
    BY <1>0, <1>2, <1>4, LocalsOfOthers DEF AloneInv, Tuning
  <1>7. QED
    BY <1>0, <1>1, <1>2, <1>5, <1>6 DEF AloneInv, Measuring, IsFastest

LEMMA AloneSelf ==
  ASSUME IInv, NEW p \in Procs,
         Step(p) \/ Fail(p) \/ Crash(p) \/ \E j \in Keys : Run(p, j)
  PROVE  AloneInv(p)'
  <1> USE NoRowAssumption, ConfigsAssumption
  <1> SUFFICES ASSUME Tuning(p)', ~contended'[key'[p]]
               PROVE  AloneInv(p)'
    BY DEF AloneInv
  <1>0. TypeOK /\ AloneInv(p) /\ RunInv(p) /\ key[p] \in Keys
    BY DEF IInv, SafeInv, TypeOK
  <1> USE <1>0 DEF TypeOK, Goto, Ends, locals, histories, counters, database
  <1>1. CASE LookupMiss(p)
    <2>1. /\ pc'[p] = "bench_get" /\ key' = key /\ cursor'[p] = 1
          /\ config_row' = config_row /\ config_row[key[p]] = NoRow
      BY <1>1 DEF LookupMiss, RunInv
    <2>2. \A q \in Procs : ~(Tuning(q) /\ key[q] = key[p])
      BY <1>1, <2>1 DEF LookupMiss, Tuners
    <2>3. \A q \in Procs : Tuning(q)' /\ key'[q] = key'[p] => q = p
      BY <2>1, <2>2, LocalsOfOthers DEF Tuning
    <2>4. QED
      BY <2>1, <2>3 DEF AloneInv, Measuring, Configs
  <1>2. CASE ~LookupMiss(p)
    <2>1. Tuning(p) /\ key'[p] = key[p] /\ ~contended[key[p]]
      BY <1>2, LocalsOfOthers
    <2>2. \A q \in Procs : Tuning(q)' /\ key'[q] = key'[p] => q = p
      BY <2>1, LocalsOfOthers DEF AloneInv, Tuning
    <2>3. config_row[key[p]] = NoRow
      BY <2>1 DEF AloneInv
    <2>4. \A c \in Configs : Measuring(p) /\ c < cursor[p] =>
            bench_row[key[p]][c] = timings[p][c]
      BY <2>1 DEF AloneInv
    <2>5. \A c \in Configs : pc[p] \in {"choose", "put_config", "commit_config"} =>
            bench_row[key[p]][c] = timings[p][c]
      BY <2>1 DEF AloneInv
    <2>6. CASE BenchGetHit(p)
      <3>1. /\ cursor[p] \in Configs /\ cursor'[p] = cursor[p] + 1
            /\ bench_row' = bench_row /\ config_row' = config_row /\ Measuring(p)
            /\ timings'[p] = [timings[p] EXCEPT
                               ![cursor[p]] = bench_row[key[p]][cursor[p]]]
        BY <2>6 DEF BenchGetHit, RunInv, Measuring
      <3>2. \A c \in Configs : c < cursor[p] + 1 =>
              bench_row[key[p]][c] = timings'[p][c]
        <4> SUFFICES ASSUME NEW c \in Configs, c < cursor[p] + 1
                     PROVE  bench_row[key[p]][c] = timings'[p][c]
          OBVIOUS
        <4>1. CASE c = cursor[p]
          BY <3>1, <4>1
        <4>2. CASE c # cursor[p]
          <5>1. c < cursor[p]
            BY <3>1, <4>2 DEF Configs
          <5>2. timings'[p][c] = timings[p][c]
            BY <3>1, <4>2
          <5>3. QED
            BY <2>4, <3>1, <5>1, <5>2
        <4>3. QED
          BY <4>1, <4>2
      <3>3. pc'[p] = "choose" => \A c \in Configs : c < cursor[p] + 1
        BY <2>6 DEF BenchGetHit, Configs
      <3>4. pc'[p] \in {"choose", "bench_get"}
        BY <2>6 DEF BenchGetHit
      <3>5. QED
        BY <2>1, <2>2, <2>3, <3>1, <3>2, <3>3, <3>4 DEF AloneInv, Measuring
    <2>7. CASE BenchGetMiss(p)
      BY <2>1, <2>2, <2>3, <2>4, <2>7 DEF BenchGetMiss, AloneInv, Measuring
    <2>8. CASE Measure(p)
      BY <2>1, <2>2, <2>3, <2>4, <2>8 DEF Measure, AloneInv, Measuring
    <2>9. CASE PutBench(p)
      BY <2>1, <2>2, <2>3, <2>4, <2>9 DEF PutBench, AloneInv, Measuring
    <2>10. CASE CommitBench(p)
      <3>1. /\ cursor[p] \in Configs /\ cursor'[p] = cursor[p] + 1
            /\ config_row' = config_row /\ Measuring(p)
            /\ timings'[p] = [timings[p] EXCEPT ![cursor[p]] = ret[p]]
            /\ bench_row[key[p]][cursor[p]] = NoRow /\ seen[p] = NoRow
        BY <2>1, <2>10 DEF CommitBench, RunInv, Measuring, AloneInv
      <3>2. bench_row' = [bench_row EXCEPT ![key[p]][cursor[p]] = ret[p]]
        BY <2>10, <3>1 DEF CommitBench, Committed, Inserted
      <3>3. \A c \in Configs : c < cursor[p] + 1 =>
              bench_row'[key[p]][c] = timings'[p][c]
        <4> SUFFICES ASSUME NEW c \in Configs, c < cursor[p] + 1
                     PROVE  bench_row'[key[p]][c] = timings'[p][c]
          OBVIOUS
        <4>1. CASE c = cursor[p]
          BY <3>1, <3>2, <4>1
        <4>2. CASE c # cursor[p]
          <5>1. c < cursor[p]
            BY <3>1, <4>2 DEF Configs
          <5>2. timings'[p][c] = timings[p][c]
                /\ bench_row'[key[p]][c] = bench_row[key[p]][c]
            BY <3>1, <3>2, <4>2
          <5>3. QED
            BY <2>4, <3>1, <5>1, <5>2
        <4>3. QED
          BY <4>1, <4>2
      <3>4. pc'[p] = "choose" => \A c \in Configs : c < cursor[p] + 1
        BY <2>10 DEF CommitBench, Configs
      <3>5. pc'[p] \in {"choose", "bench_get"}
        BY <2>10 DEF CommitBench
      <3>6. QED
        BY <2>1, <2>2, <2>3, <3>1, <3>3, <3>4, <3>5 DEF AloneInv, Measuring
    <2>11. CASE Choose(p)
      <3>1. /\ pc'[p] = "put_config" /\ timings' = timings /\ bench_row' = bench_row
            /\ config_row' = config_row
            /\ \E c \in Configs :
                 config'[p] = all_kwargs[c] /\ IsFastest(c, timings[p])
        BY <2>11 DEF Choose
      <3>2. \E c \in Configs :
              config'[p] = all_kwargs[c] /\ IsFastest(c, timings'[p])
        BY <3>1 DEF IsFastest
      <3>3. \A c \in Configs : bench_row'[key'[p]][c] = timings'[p][c]
        BY <2>1, <2>5, <2>11, <3>1 DEF Choose
      <3>4. QED
        BY <2>1, <2>2, <2>3, <3>1, <3>2, <3>3 DEF AloneInv, Measuring
    <2>12. CASE PutConfig(p)
      BY <2>1, <2>2, <2>3, <2>5, <2>12 DEF PutConfig, AloneInv, Measuring, IsFastest
    <2>13. QED
      BY <1>2, <2>1, <2>6, <2>7, <2>8, <2>9, <2>10, <2>11, <2>12
         DEF Step, Tuning, LookupHit, CommitConfig, ReadBack, ReadConfig,
             Launch, Fail, Crash, Run
  <1>3. QED
    BY <1>1, <1>2

\* What an uncontended run stores is the fastest of the stored measurements.
LEMMA StepFastest ==
  ASSUME IInv, NEW p \in Procs,
         Step(p) \/ Fail(p) \/ Crash(p) \/ \E j \in Keys : Run(p, j)
  PROVE  StoredIsFastest'
  <1> SUFFICES ASSUME NEW k \in Keys, config_row'[k] # NoRow, ~contended'[k]
               PROVE  \E c \in Configs : config_row'[k] = all_kwargs[c]
                                        /\ IsFastest(c, bench_row'[k])
    BY DEF StoredIsFastest
  <1>0. TypeOK /\ AloneInv(p) /\ RunInv(p) /\ StoredIsFastest /\ ~contended[k]
    BY LocalsOfOthers DEF IInv, SafeInv
  <1>1. CASE Tuning(p) /\ key[p] = k
    <2>1. config_row[k] = NoRow
      BY <1>0, <1>1 DEF AloneInv
    <2>2. CommitConfig(p)
      BY <2>1 DEF Step, Run, LookupHit, LookupMiss, BenchGetHit, BenchGetMiss,
           Measure, PutBench, CommitBench, Choose, PutConfig, ReadBack,
           ReadConfig, Launch, Fail, Crash, Ends, database
    <2>3. config_row'[k] = config[p] /\ bench_row' = bench_row
      <3>1. seen[p] = NoRow
        BY <1>0, <1>1, <2>1, <2>2 DEF CommitConfig, Goto, RunInv
      <3>. QED BY <1>0, <1>1, <2>1, <2>2, <3>1
               DEF CommitConfig, Committed, Inserted, TypeOK
    <2>4. /\ \E c \in Configs :
               config[p] = all_kwargs[c] /\ IsFastest(c, timings[p])
          /\ \A c \in Configs : bench_row[k][c] = timings[p][c]
      BY <1>0, <1>1, <2>2 DEF CommitConfig, Goto, AloneInv, RunInv
    <2>5. QED
      BY <2>3, <2>4 DEF IsFastest
  <1>2. CASE ~(Tuning(p) /\ key[p] = k)
    BY <1>0, <1>2, RowsOfOthers DEF StoredIsFastest
  <1>3. QED
    BY <1>1, <1>2

LEMMA Inductive == Spec => []IInv
  <1>1. Init => IInv
    <2>1. Init => StoredIsFastest
      BY DEF Init, StoredIsFastest
    <2>3. Init => \A p \in Procs : pc[p] = "idle"
      BY DEF Init
    <2>4. Init => \A p \in Procs : AloneInv(p)
      BY <2>3 DEF AloneInv, Tuning
    <2>2. QED
      BY <2>1, <2>4, InitSafe DEF IInv
  <1>2. IInv /\ [Next]_vars => IInv'
    <2> SUFFICES ASSUME IInv, [Next]_vars PROVE IInv'
      OBVIOUS
    <2>1. SafeInv'
      BY StepType, StepRun, StepMeasured DEF SafeInv, IInv
    <2>2. ASSUME NEW p \in Procs,
                 Step(p) \/ Fail(p) \/ Crash(p) \/ \E j \in Keys : Run(p, j)
          PROVE StoredIsFastest' /\ \A q \in Procs : AloneInv(q)'
      BY <2>2, StepFastest, AloneSelf, AloneOthers
    <2>3. CASE UNCHANGED vars
      <3>1. StoredIsFastest'
        BY <2>3 DEF vars, IInv, StoredIsFastest, IsFastest
      <3>2. \A p \in Procs : AloneInv(p)'
        BY <2>3 DEF vars, IInv, AloneInv, Tuning, Measuring, IsFastest
      <3>3. QED
        BY <2>1, <3>1, <3>2 DEF IInv
    <2>4. QED
      BY <2>1, <2>2, <2>3 DEF Next, Terminated, IInv
  <1>3. QED
    BY <1>1, <1>2, PTL DEF Spec

\* A configuration tuned by one process at a time is the fastest of the stored
\* measurements of its key, also when several runs took part in the tuning.
THEOREM FastestStored == Spec => []StoredIsFastest
  <1>1. IInv => StoredIsFastest
    BY DEF IInv
  <1>2. QED
    BY <1>1, Inductive, PTL

\* No step of any process, and no crash, loses a row, and an uncontended key
\* that has a configuration keeps it and its measurements.
THEOREM RowsAreKept == Spec => RowsKept
  <1> DEFINE Kept == \A k \in Keys :
       /\ config_row[k] # NoRow => config_row'[k] # NoRow
       /\ \A c \in Configs : bench_row[k][c] # NoRow => bench_row'[k][c] # NoRow
       /\ config_row[k] # NoRow /\ ~contended[k] =>
            config_row'[k] = config_row[k] /\ bench_row'[k] = bench_row[k]
  <1>1. IInv /\ [Next]_vars => [Kept]_vars
    <2> SUFFICES ASSUME IInv, Next PROVE Kept
      OBVIOUS
    <2>1. \A k \in Keys :
            /\ config_row[k] # NoRow => config_row'[k] # NoRow
            /\ \A c \in Configs : bench_row[k][c] # NoRow => bench_row'[k][c] # NoRow
      BY RowsOnlyFill DEF IInv, SafeInv
    <2>2. ASSUME NEW k \in Keys, config_row[k] # NoRow, ~contended[k]
          PROVE config_row'[k] = config_row[k] /\ bench_row'[k] = bench_row[k]
      <3>1. \A p \in Procs : ~(Tuning(p) /\ key[p] = k)
        BY <2>2 DEF IInv, AloneInv
      <3>2. ASSUME NEW p \in Procs,
                   Step(p) \/ Fail(p) \/ Crash(p) \/ \E j \in Keys : Run(p, j)
            PROVE config_row'[k] = config_row[k] /\ bench_row'[k] = bench_row[k]
        BY <3>1, <3>2, RowsOfOthers DEF IInv, SafeInv
      <3>3. QED
        BY <3>2 DEF Next, Terminated, vars
    <2>3. QED
      BY <2>1, <2>2
  <1>2. QED
    BY <1>1, Inductive, PTL DEF Spec, RowsKept

-----------------------------------------------------------------------------
(***************************************************************************)
(* Whole rows.  Unless a third process was tuning the key, whoever finds a *)
(* row to UPDATE is the only one left that will write it: another one that *)
(* could was tuning when the row was not there yet, and so was its author. *)
(***************************************************************************)
\* Process p is measuring configuration c of key k.
Measures(p, k, c) ==
  /\ pc[p] \in {"measure", "put_bench", "commit_bench"}
  /\ key[p] = k /\ cursor[p] = c

ConfigWhole(k) ==
  /\ config_row[k] \in ConfigRows \cup {NoRow}
  /\ config_row[k] # NoRow => \A p, q \in Tuners(k) : p = q
  /\ \A p \in Tuners(k) :
       pc[p] = "commit_config" /\ seen[p] # NoRow => seen[p] = config_row[k]

BenchWhole(k, c) ==
  /\ bench_row[k][c] \in Measurements \cup {NoRow}
  /\ bench_row[k][c] # NoRow =>
       \A p, q \in Procs : Measures(p, k, c) /\ Measures(q, k, c) => p = q
  /\ \A p \in Procs :
       Measures(p, k, c) /\ pc[p] = "commit_bench" /\ seen[p] # NoRow
         => seen[p] = bench_row[k][c]

WholeInv(k) ==
  ~crowded[k] =>
    /\ \A p, q, r \in Tuners(k) : p = q \/ p = r \/ q = r
    /\ ConfigWhole(k)
    /\ \A c \in Configs : BenchWhole(k, c)

\* An UPDATE of the row as it is leaves the values of the put.
LEMMA UpdatedWhole ==
  ASSUME NEW D, NEW new, new = [d \in D |-> new[d]], NEW old
  PROVE  Updated(old, old, new) = new
BY DEF Updated

\* A process that does not step stays what it was.
LEMMA OthersStay ==
  ASSUME TypeOK, NEW p \in Procs, NEW q \in Procs \ {p}, NEW k \in Keys,
         Step(p) \/ Fail(p) \/ Crash(p) \/ \E j \in Keys : Run(p, j)
  PROVE  /\ pc'[q] = pc[q] /\ seen'[q] = seen[q]
         /\ (q \in Tuners(k))' <=> q \in Tuners(k)
         /\ \A c \in Configs : Measures(q, k, c)' <=> Measures(q, k, c)
BY LocalsOfOthers DEF Tuners, Tuning, Measures

\* A process that is measuring is tuning.
LEMMA MeasurersTune ==
  ASSUME NEW p \in Procs, NEW k, NEW c, Measures(p, k, c)
  PROVE  p \in Tuners(k)
BY DEF Measures, Tuners, Tuning

\* A process that is not tuning k and does not begin to, leaves it alone.
LEMMA WholeOthers ==
  ASSUME TypeOK, NEW k \in Keys, WholeInv(k), NEW p \in Procs,
         Step(p) \/ Fail(p) \/ Crash(p) \/ \E j \in Keys : Run(p, j),
         p \notin Tuners(k), ~(LookupMiss(p) /\ key[p] = k)
  PROVE  WholeInv(k)'
  <1> SUFFICES ASSUME ~crowded'[k] PROVE WholeInv(k)'
    BY DEF WholeInv
  <1>1. ~crowded[k]
    BY DEF Step, Run, LookupHit, LookupMiss, BenchGetHit, BenchGetMiss, Measure,
       PutBench, CommitBench, Choose, PutConfig, CommitConfig, ReadBack,
       ReadConfig, Launch, Fail, Crash, Ends, histories, TypeOK
  <1>2. config_row'[k] = config_row[k] /\ bench_row'[k] = bench_row[k]
    BY RowsOfOthers DEF Tuners
  <1>3. ~(p \in Tuners(k))'
    <2>1. (p \in Tuners(k))' => Tuning(p)' /\ key'[p] = k
      BY DEF Tuners
    <2>2. Tuning(p) => key[p] # k
      BY DEF Tuners
    <2>3. LookupMiss(p) => key'[p] = key[p]
      BY DEF LookupMiss, locals
    <2>. QED BY <2>1, <2>2, <2>3, LocalsOfOthers
  <1>4. \A q \in Procs : (q \in Tuners(k))' =>
          q # p /\ q \in Tuners(k) /\ pc'[q] = pc[q] /\ seen'[q] = seen[q]
    BY <1>3, OthersStay
  <1>5. \A c \in Configs : \A q \in Procs : Measures(q, k, c)' =>
          Measures(q, k, c) /\ pc'[q] = pc[q] /\ seen'[q] = seen[q]
    <2> SUFFICES ASSUME NEW c \in Configs, NEW q \in Procs, Measures(q, k, c)'
        PROVE  Measures(q, k, c) /\ pc'[q] = pc[q] /\ seen'[q] = seen[q]
      OBVIOUS
    <2>1. (q \in Tuners(k))'
      BY DEF Measures, Tuners, Tuning
    <2>. QED BY <1>4, <2>1, OthersStay
  <1>6. Tuners(k)' \subseteq Procs
    BY DEF Tuners
  <1>7. ConfigWhole(k)'
    BY <1>1, <1>2, <1>4, <1>6 DEF WholeInv, ConfigWhole
  <1>8. ASSUME NEW c \in Configs PROVE BenchWhole(k, c)'
    BY <1>1, <1>2, <1>5 DEF WholeInv, BenchWhole
  <1>9. \A q, r, s \in Tuners(k)' : q = r \/ q = s \/ r = s
    BY <1>1, <1>4, <1>6 DEF WholeInv
  <1>. QED BY <1>7, <1>8, <1>9 DEF WholeInv

\* Who begins to tune k finds no configuration, and at most one other there.
LEMMA WholeMiss ==
  ASSUME TypeOK, NEW k \in Keys, WholeInv(k), NEW p \in Procs, LookupMiss(p),
         key[p] = k
  PROVE  WholeInv(k)'
  <1> SUFFICES ASSUME ~crowded'[k] PROVE WholeInv(k)'
    BY DEF WholeInv
  <1> USE DEF TypeOK
  <1>1. /\ ~crowded[k] /\ config_row[k] = NoRow
        /\ \A q, r \in Tuners(k) : q = r
        /\ UNCHANGED <<database, locals>>
        /\ pc' = [pc EXCEPT ![p] = "bench_get"]
    BY DEF LookupMiss, Goto
  <1>2. Step(p)
    BY DEF Step
  <1>3. \A q \in Procs \ {p} :
          /\ pc'[q] = pc[q]
          /\ (q \in Tuners(k))' <=> q \in Tuners(k)
          /\ \A c \in Configs : Measures(q, k, c)' <=> Measures(q, k, c)
    BY <1>2, OthersStay
  <1>4. \A c \in Configs : ~Measures(p, k, c)'
    BY <1>1 DEF Measures
  <1>5. Tuners(k)' \subseteq Procs
    BY DEF Tuners
  <1>6. ConfigWhole(k)'
    BY <1>1, <1>3, <1>5 DEF WholeInv, ConfigWhole, database, locals
  <1>7. ASSUME NEW c \in Configs PROVE BenchWhole(k, c)'
    <2>1. \A q \in Procs : Measures(q, k, c)' =>
            q # p /\ Measures(q, k, c) /\ pc'[q] = pc[q]
      BY <1>3, <1>4
    <2>2. bench_row' = bench_row /\ seen' = seen
      BY <1>1 DEF database, locals
    <2>. QED BY <1>1, <2>1, <2>2 DEF WholeInv, BenchWhole
  <1>8. \A q, r, s \in Tuners(k)' : q = r \/ q = s \/ r = s
    BY <1>1, <1>3, <1>5
  <1>. QED BY <1>6, <1>7, <1>8 DEF WholeInv

\* What a tuning process writes is whole.
LEMMA WholeBench ==
  ASSUME TypeOK, NEW k \in Keys, NEW p \in Procs, CommitBench(p), key[p] = k,
         \A q \in Procs : RunInv(q), ~crowded[k], WholeInv(k)
  PROVE  \A c \in Configs : BenchWhole(k, c)'
  <1>0. PICK c0 \in Configs : c0 = cursor[p]
    BY DEF CommitBench, RunInv, Measuring
  <1> DEFINE new == Committed(seen[p], bench_row[k][c0], ret[p])
  <1>1. /\ c0 \in Configs /\ ret[p] \in Measurements /\ Measures(p, k, c0)
        /\ seen[p] # NoRow => bench_row[k][c0] # NoRow
    BY <1>0 DEF CommitBench, RunInv, Measures
  <1>2. BenchWhole(k, c0)
    BY <1>1 DEF WholeInv
  <1>3. new \in Measurements
    <2>1. CASE seen[p] = NoRow
      BY <1>1, <1>2, <2>1 DEF Committed, Inserted, BenchWhole
    <2>2. CASE seen[p] # NoRow
      <3>1. seen[p] = bench_row[k][c0]
        BY <1>1, <1>2, <2>2 DEF BenchWhole, CommitBench
      <3>2. ret[p] = [i \in Quantiles |-> ret[p][i]]
        BY <1>1, MeasurementsAssumption
      <3>3. Updated(seen[p], bench_row[k][c0], ret[p]) = ret[p]
        BY <3>1, <3>2, UpdatedWhole
      <3>. QED BY <1>1, <2>2, <3>3 DEF Committed
    <2>. QED BY <2>1, <2>2
  <1>4. bench_row' = [bench_row EXCEPT ![k][c0] = new]
    BY <1>0 DEF CommitBench
  <1> HIDE DEF new
  <1>5. \A q \in Procs \ {p} :
          /\ pc'[q] = pc[q] /\ seen'[q] = seen[q]
          /\ \A c \in Configs : Measures(q, k, c)' <=> Measures(q, k, c)
    BY OthersStay DEF Step
  <1>6. \A c : ~Measures(p, k, c)'
    BY DEF CommitBench, Measures, TypeOK
  <1>7. ASSUME NEW c \in Configs, c # c0 PROVE BenchWhole(k, c)'
    <2>1. bench_row'[k][c] = bench_row[k][c]
      BY <1>4, <1>7 DEF TypeOK
    <2>2. \A q \in Procs : Measures(q, k, c)' =>
            Measures(q, k, c) /\ pc'[q] = pc[q] /\ seen'[q] = seen[q]
      BY <1>5, <1>6
    <2>. QED BY <2>1, <2>2 DEF WholeInv, BenchWhole
  <1>8. BenchWhole(k, c0)'
    <2>1. bench_row'[k][c0] = new
      BY <1>1, <1>4 DEF TypeOK
    <2>2. \A q \in Procs : Measures(q, k, c0)' =>
            q # p /\ Measures(q, k, c0) /\ pc'[q] = pc[q] /\ seen'[q] = seen[q]
      BY <1>1, <1>5, <1>6
    <2>3. ASSUME NEW q \in Procs, NEW r \in Procs,
                 Measures(q, k, c0)', Measures(r, k, c0)'
          PROVE  q = r
      BY <1>1, <2>2, <2>3, MeasurersTune DEF WholeInv
    <2>4. ASSUME NEW q \in Procs, Measures(q, k, c0)', pc'[q] = "commit_bench"
          PROVE  seen'[q] = NoRow
      <3>1. /\ q # p /\ Measures(q, k, c0) /\ pc[q] = "commit_bench"
            /\ seen'[q] = seen[q]
        BY <2>2, <2>4
      <3>2. bench_row[k][c0] = NoRow
        BY <1>1, <1>2, <3>1 DEF BenchWhole
      <3>. QED BY <3>1, <3>2 DEF RunInv, Measures
    <2>. QED BY <1>3, <2>1, <2>3, <2>4 DEF BenchWhole
  <1>. QED BY <1>7, <1>8

LEMMA WholeConfig ==
  ASSUME TypeOK, NEW k \in Keys, NEW p \in Procs, CommitConfig(p), key[p] = k,
         \A q \in Procs : RunInv(q), ~crowded[k], WholeInv(k)
  PROVE  ConfigWhole(k)'
  <1> DEFINE new == Committed(seen[p], config_row[k], config[p])
  <1>1. /\ config[p] \in ConfigRows /\ p \in Tuners(k) /\ pc[p] = "commit_config"
        /\ seen[p] # NoRow => config_row[k] # NoRow
    BY DEF CommitConfig, Goto, RunInv, Tuners, Tuning
  <1>2. ConfigWhole(k)
    BY DEF WholeInv
  <1>3. new \in ConfigRows
    <2>1. CASE seen[p] = NoRow
      BY <1>1, <1>2, <2>1 DEF Committed, Inserted, ConfigWhole
    <2>2. CASE seen[p] # NoRow
      <3>1. seen[p] = config_row[k]
        BY <1>1, <1>2, <2>2 DEF ConfigWhole
      <3>2. config[p] = [col \in Columns |-> config[p][col]]
        BY <1>1, ConfigsAssumption DEF ConfigRows
      <3>3. Updated(seen[p], config_row[k], config[p]) = config[p]
        BY <3>1, <3>2, UpdatedWhole
      <3>. QED BY <1>1, <2>2, <3>3 DEF Committed
    <2>. QED BY <2>1, <2>2
  <1>4. config_row'[k] = new
    BY DEF CommitConfig, TypeOK
  <1> HIDE DEF new
  <1>5. \A q \in Procs \ {p} :
          /\ pc'[q] = pc[q] /\ seen'[q] = seen[q]
          /\ (q \in Tuners(k))' <=> q \in Tuners(k)
    BY OthersStay DEF Step
  <1>6. ~(p \in Tuners(k))'
    BY DEF CommitConfig, Goto, Tuners, Tuning, TypeOK
  <1>7. \A q \in Tuners(k)' :
          q \in Procs /\ q # p /\ q \in Tuners(k) /\ pc'[q] = pc[q] /\ seen'[q] = seen[q]
    <2>1. Tuners(k)' \subseteq Procs
      BY DEF Tuners
    <2>. QED BY <1>5, <1>6, <2>1
  <1>8. \A q, r \in Tuners(k)' : q = r
    BY <1>1, <1>7 DEF WholeInv
  <1>9. ASSUME NEW q \in Tuners(k)', pc'[q] = "commit_config"
        PROVE  seen'[q] = NoRow
    <2>1. config_row[k] = NoRow
      BY <1>1, <1>2, <1>7, <1>9 DEF ConfigWhole
    <2>. QED BY <1>7, <1>9, <2>1 DEF RunInv, Tuners
  <1>. QED BY <1>3, <1>4, <1>8, <1>9 DEF ConfigWhole

LEMMA WholeSelf ==
  ASSUME SafeInv, NEW k \in Keys, WholeInv(k), NEW p \in Procs, p \in Tuners(k),
         Step(p) \/ Fail(p) \/ Crash(p) \/ \E j \in Keys : Run(p, j)
  PROVE  WholeInv(k)'
  <1> SUFFICES ASSUME ~crowded'[k] PROVE WholeInv(k)'
    BY DEF WholeInv
  <1>0. TypeOK /\ (\A q \in Procs : RunInv(q)) /\ key[p] = k /\ Tuning(p)
    BY DEF SafeInv, Tuners
  <1>1. ~crowded[k]
    BY <1>0 DEF Step, Run, LookupHit, LookupMiss, BenchGetHit, BenchGetMiss,
       Measure, PutBench, CommitBench, Choose, PutConfig, CommitConfig, ReadBack,
       ReadConfig, Launch, Fail, Crash, Ends, histories, TypeOK
  <1>2. /\ \A q, r, s \in Tuners(k) : q = r \/ q = s \/ r = s
        /\ ConfigWhole(k)
        /\ \A c \in Configs : BenchWhole(k, c)
    BY <1>1 DEF WholeInv
  <1>3. \A q \in Procs \ {p} :
          /\ pc'[q] = pc[q] /\ seen'[q] = seen[q]
          /\ (q \in Tuners(k))' <=> q \in Tuners(k)
          /\ \A c \in Configs : Measures(q, k, c)' <=> Measures(q, k, c)
    BY <1>0, OthersStay
  <1>4. Tuners(k)' \subseteq Tuners(k)
    <2>1. Tuners(k)' \subseteq Procs
      BY DEF Tuners
    <2>. QED BY <1>3, <2>1
  <1>5. ConfigWhole(k)'
    <2>1. CASE CommitConfig(p)
      BY <1>0, <1>1, <2>1, WholeConfig
    <2>2. CASE ~CommitConfig(p)
      <3>1. config_row' = config_row
        BY <2>2 DEF Step, Run, LookupHit, LookupMiss, BenchGetHit, BenchGetMiss,
           Measure, PutBench, CommitBench, Choose, PutConfig, ReadBack,
           ReadConfig, Launch, Fail, Crash, Ends, database
      <3>2. pc'[p] = "commit_config" => seen'[p] = config_row[k]
        BY <1>0, <2>2 DEF Step, Run, LookupHit, LookupMiss, BenchGetHit,
           BenchGetMiss, Measure, PutBench, CommitBench, Choose, PutConfig,
           ReadBack, ReadConfig, Launch, Fail, Crash, Ends, Goto, TypeOK
      <3>3. Tuners(k) \subseteq Procs
        BY DEF Tuners
      <3>. QED BY <1>2, <1>3, <1>4, <3>1, <3>2, <3>3 DEF ConfigWhole
    <2>. QED BY <2>1, <2>2
  <1>6. ASSUME NEW c \in Configs PROVE BenchWhole(k, c)'
    <2>1. CASE CommitBench(p)
      BY <1>0, <1>1, <2>1, WholeBench
    <2>2. CASE ~CommitBench(p)
      <3>1. bench_row' = bench_row
        BY <2>2 DEF Step, Run, LookupHit, LookupMiss, BenchGetHit, BenchGetMiss,
           Measure, PutBench, Choose, PutConfig, CommitConfig, ReadBack,
           ReadConfig, Launch, Fail, Crash, Ends, database
      <3>2. Measures(p, k, c)' =>
              /\ Measures(p, k, c) \/ bench_row[k][c] = NoRow
              /\ pc'[p] = "commit_bench" => seen'[p] = bench_row[k][c]
        <4>1. CASE BenchGetMiss(p)
          BY <1>0, <4>1 DEF BenchGetMiss, Goto, Measures, locals, TypeOK
        <4>2. CASE Measure(p)
          BY <1>0, <4>2 DEF Measure, Goto, Measures, TypeOK
        <4>3. CASE PutBench(p)
          BY <1>0, <4>3 DEF PutBench, Goto, Measures, TypeOK
        <4>4. CASE ~BenchGetMiss(p) /\ ~Measure(p) /\ ~PutBench(p)
          BY <1>0, <2>2, <4>4 DEF Step, Run, LookupHit, LookupMiss, BenchGetHit,
             Choose, PutConfig, CommitConfig, ReadBack, ReadConfig, Launch, Fail,
             Crash, Ends, Goto, Measures, TypeOK
        <4>. QED BY <4>1, <4>2, <4>3, <4>4
      <3>3. BenchWhole(k, c)
        BY <1>2
      <3>. QED BY <1>3, <3>1, <3>2, <3>3 DEF BenchWhole
    <2>. QED BY <2>1, <2>2
  <1>. QED BY <1>2, <1>4, <1>5, <1>6 DEF WholeInv

\* Columns of two configurations, or of two measurements, are never mixed in
\* one row unless three processes tuned its key at the same time, for any
\* number of processes, columns and configurations, any crashes and failures.
THEOREM RowsAreWhole == Spec => []RowsWhole
  <1> DEFINE Whole == \A k \in Keys : WholeInv(k)
  <1>1. Init => Whole
    <2> SUFFICES ASSUME Init, NEW k \in Keys PROVE WholeInv(k)
      OBVIOUS
    <2>1. Tuners(k) = {} /\ \A p \in Procs : \A c \in Configs : ~Measures(p, k, c)
      BY DEF Init, Tuners, Tuning, Measures
    <2>2. config_row[k] = NoRow /\ \A c \in Configs : bench_row[k][c] = NoRow
      BY DEF Init
    <2>. QED BY <2>1, <2>2 DEF WholeInv, ConfigWhole, BenchWhole
  <1>2. SafeInv /\ Whole /\ [Next]_vars => Whole'
    <2> SUFFICES ASSUME SafeInv, Whole, [Next]_vars, NEW k \in Keys
        PROVE  WholeInv(k)'
      OBVIOUS
    <2>1. ASSUME NEW p \in Procs,
                 Step(p) \/ Fail(p) \/ Crash(p) \/ \E j \in Keys : Run(p, j)
          PROVE  WholeInv(k)'
      <3>1. TypeOK /\ WholeInv(k)
        BY DEF SafeInv
      <3>2. CASE p \in Tuners(k)
        BY <2>1, <3>1, <3>2, WholeSelf
      <3>3. CASE LookupMiss(p) /\ key[p] = k
        BY <3>1, <3>3, WholeMiss
      <3>4. CASE p \notin Tuners(k) /\ ~(LookupMiss(p) /\ key[p] = k)
        BY <2>1, <3>1, <3>4, WholeOthers
      <3>. QED BY <3>2, <3>3, <3>4
    <2>2. CASE UNCHANGED vars
      BY <2>2 DEF vars, WholeInv, ConfigWhole, BenchWhole, Tuners, Tuning,
                  Measures
    <2>. QED BY <2>1, <2>2 DEF Next, Terminated
  <1>3. Whole => RowsWhole
    BY DEF WholeInv, ConfigWhole, BenchWhole, RowsWhole
  <1>. QED BY <1>1, <1>2, <1>3, SafeInductive, PTL DEF Spec

-----------------------------------------------------------------------------
(***************************************************************************)
(* PointwiseDynamic: the dictionary of overloads, for any number of        *)
(* threads and any calls.                                                  *)
(*                                                                         *)
(* A thread that is to load a module has missed it, and a thread that has  *)
(* loaded it publishes it before its next call, after which nobody misses  *)
(* it any more.  So until the first publication the loads are those of the *)
(* threads about to publish (Publishing), and from then on those still to come *)
(* are of threads that have missed it before (Loading).                    *)
(***************************************************************************)
Loading(o) == {t \in Threads : at[t] = "load" /\ Overload(t) = o}
Publishing(o) == {t \in Threads : at[t] = "publish" /\ Overload(t) = o}
LoadsOf(o) == IF o \in DOMAIN loads THEN loads[o] ELSE 0

CallStates ==
  {"idle", "lookup", "load", "publish", "run", "returned", "raised"}

CallTypes ==
  /\ at \in [Threads -> CallStates]
  /\ DOMAIN plan = Threads /\ DOMAIN task = Threads
  /\ \A o : LoadsOf(o) \in Nat

LoadsCounted ==
  \A o : IF o \in DOMAIN overloads
           THEN LoadsOf(o) + Cardinality(Loading(o)) <= Cardinality(Threads)
           ELSE LoadsOf(o) = Cardinality(Publishing(o))

CacheInv == CallTypes /\ LoadsCounted

LEMMA ThreadCounts ==
  /\ Cardinality(Threads) \in Nat
  /\ \A S \in SUBSET Threads :
       /\ IsFiniteSet(S) /\ Cardinality(S) \in Nat
       /\ Cardinality(S) <= Cardinality(Threads)
BY PointwiseAssumption, FS_CardinalityType, FS_Subset

LEMMA InitCache == PointwiseInit => CacheInv
<1> SUFFICES ASSUME PointwiseInit PROVE CacheInv
  OBVIOUS
<1>1. /\ at = [t \in Threads |-> "idle"] /\ task = [t \in Threads |-> Nothing]
      /\ overloads = Nothing /\ loads = Nothing /\ plan \in Workloads
  BY DEF PointwiseInit
<1>2. DOMAIN overloads = {} /\ DOMAIN loads = {}
  BY <1>1 DEF Nothing
<1>3. CallTypes
  BY <1>1, <1>2, PointwiseAssumption DEF CallTypes, CallStates, LoadsOf
<1>4. \A o : Publishing(o) = {} /\ LoadsOf(o) = 0
  BY <1>1, <1>2 DEF Publishing, LoadsOf
<1>5. LoadsCounted
  BY <1>2, <1>4, FS_EmptySet DEF LoadsCounted
<1>. QED BY <1>3, <1>5 DEF CacheInv

\* The call of a thread that takes no step, or keeps plan and task, stays.
LEMMA OverloadKept ==
  ASSUME NEW t, plan'[t] = plan[t], task'[t] = task[t]
  PROVE  Overload(t)' = Overload(t)
BY DEF Overload, Call, Rank

\* A step before the miss or after the publication.
LEMMA AsideStep ==
  ASSUME CacheInv, NEW t \in Threads, NEW s \in CallStates,
         at[t] \notin {"load", "publish"}, s \notin {"load", "publish"},
         at' = [at EXCEPT ![t] = s],
         DOMAIN plan' = Threads, DOMAIN task' = Threads,
         \A u \in Threads \ {t} : plan'[u] = plan[u] /\ task'[u] = task[u],
         UNCHANGED <<overloads, loads>>
  PROVE  CacheInv'
<1>1. at \in [Threads -> CallStates] /\ at' \in [Threads -> CallStates]
  BY DEF CacheInv, CallTypes
<1>2. \A o : LoadsOf(o)' = LoadsOf(o)
  BY DEF LoadsOf
<1>3. CallTypes'
  BY <1>1, <1>2 DEF CacheInv, CallTypes
<1>4. /\ \A u \in Threads \ {t} : at'[u] = at[u] /\ Overload(u)' = Overload(u)
      /\ at'[t] \notin {"load", "publish"}
  BY <1>1, OverloadKept
<1>5. \A o : Loading(o)' = Loading(o) /\ Publishing(o)' = Publishing(o)
  BY <1>4 DEF Loading, Publishing
<1>6. LoadsCounted'
  BY <1>2, <1>5 DEF CacheInv, LoadsCounted
<1>. QED BY <1>3, <1>6 DEF CacheInv

LEMMA WriteStep ==
  ASSUME CacheInv, NEW t \in Threads, Write(t)
  PROVE  CacheInv'
<1>1. /\ at[t] = "lookup" /\ at' = [at EXCEPT ![t] = "load"]
      /\ Overload(t) \notin DOMAIN overloads
      /\ UNCHANGED <<overloads, loads, plan, task>>
  BY DEF Write, Proceed
<1>2. at \in [Threads -> CallStates] /\ at' \in [Threads -> CallStates]
  BY <1>1 DEF CacheInv, CallTypes, CallStates
<1>3. \A o : LoadsOf(o)' = LoadsOf(o)
  BY <1>1 DEF LoadsOf
<1>4. CallTypes'
  BY <1>1, <1>2, <1>3 DEF CacheInv, CallTypes
<1>5. /\ \A u \in Threads : Overload(u)' = Overload(u)
      /\ \A u \in Threads \ {t} : at'[u] = at[u]
      /\ at'[t] = "load"
  BY <1>1, <1>2, OverloadKept
<1>6. \A o : Publishing(o)' = Publishing(o)
  BY <1>1, <1>5 DEF Publishing
<1>7. \A o \in DOMAIN overloads : Loading(o)' = Loading(o)
  BY <1>1, <1>5 DEF Loading
<1>8. LoadsCounted'
  BY <1>1, <1>3, <1>6, <1>7 DEF CacheInv, LoadsCounted
<1>. QED BY <1>4, <1>8 DEF CacheInv

LEMMA LoadStep ==
  ASSUME CacheInv, NEW t \in Threads, Load(t)
  PROVE  CacheInv'
<1> DEFINE k == Overload(t)
<1>1. /\ at[t] = "load" /\ at' = [at EXCEPT ![t] = "publish"]
      /\ loads' = Put(loads, k, 1 + LoadsOf(k))
      /\ UNCHANGED <<overloads, plan, task>>
  BY DEF Load, Proceed, LoadsOf
<1>2. at \in [Threads -> CallStates] /\ at' \in [Threads -> CallStates]
  BY <1>1 DEF CacheInv, CallTypes, CallStates
<1>3. /\ \A u \in Threads : Overload(u)' = Overload(u)
      /\ \A u \in Threads \ {t} : at'[u] = at[u]
      /\ at'[t] = "publish"
  BY <1>1, <1>2, OverloadKept
<1> HIDE DEF k
<1>4. \A o : LoadsOf(o)' = IF o = k THEN LoadsOf(k) + 1 ELSE LoadsOf(o)
  <2>1. \A o : LoadsOf(o) \in Nat
    BY DEF CacheInv, CallTypes
  <2>. QED BY <1>1, <2>1 DEF LoadsOf, Put
<1>5. CallTypes'
  BY <1>1, <1>2, <1>4 DEF CacheInv, CallTypes
<1>6. ASSUME NEW o
      PROVE  IF o \in DOMAIN overloads'
               THEN LoadsOf(o)' + Cardinality(Loading(o)') <= Cardinality(Threads)
               ELSE LoadsOf(o)' = Cardinality(Publishing(o)')
  <2>1. LoadsOf(o) \in Nat /\ IF o \in DOMAIN overloads
          THEN LoadsOf(o) + Cardinality(Loading(o)) <= Cardinality(Threads)
          ELSE LoadsOf(o) = Cardinality(Publishing(o))
    BY DEF CacheInv, CallTypes, LoadsCounted
  <2>2. Loading(o) \in SUBSET Threads /\ Publishing(o) \in SUBSET Threads
    BY DEF Loading, Publishing
  <2>3. CASE o # k
    <3>1. Loading(o)' = Loading(o) /\ Publishing(o)' = Publishing(o)
      BY <1>1, <1>3, <2>3 DEF Loading, Publishing, k
    <3>. QED BY <1>1, <1>4, <2>1, <2>3, <3>1
  <2>4. CASE o = k
    <3>1. /\ t \in Loading(o) /\ t \notin Publishing(o)
          /\ Loading(o)' = Loading(o) \ {t} /\ Publishing(o)' = Publishing(o) \cup {t}
      BY <1>1, <1>3, <2>4 DEF Loading, Publishing, k
    <3>2. /\ IsFiniteSet(Loading(o)) /\ Cardinality(Loading(o)) \in Nat
          /\ IsFiniteSet(Publishing(o)) /\ Cardinality(Publishing(o)) \in Nat
          /\ Cardinality(Threads) \in Nat
      BY <2>2, ThreadCounts
    <3>3. /\ Cardinality(Loading(o) \ {t}) = Cardinality(Loading(o)) - 1
          /\ Cardinality(Publishing(o) \cup {t}) = Cardinality(Publishing(o)) + 1
      BY <3>1, <3>2, FS_RemoveElement, FS_AddElement
    <3>. QED BY <1>1, <1>4, <2>1, <2>4, <3>1, <3>2, <3>3
  <2>. QED BY <2>3, <2>4
<1>7. LoadsCounted'
  BY <1>6 DEF LoadsCounted
<1>. QED BY <1>5, <1>7 DEF CacheInv

LEMMA PublishStep ==
  ASSUME CacheInv, NEW t \in Threads, Publish(t)
  PROVE  CacheInv'
<1> DEFINE k == Overload(t)
<1>1. /\ at[t] = "publish" /\ at' = [at EXCEPT ![t] = "run"]
      /\ DOMAIN overloads' = DOMAIN overloads \cup {k}
      /\ UNCHANGED <<loads, plan, task>>
  BY DEF Publish, Proceed, Put
<1>2. at \in [Threads -> CallStates] /\ at' \in [Threads -> CallStates]
  BY <1>1 DEF CacheInv, CallTypes, CallStates
<1>3. \A o : LoadsOf(o)' = LoadsOf(o)
  BY <1>1 DEF LoadsOf
<1>4. CallTypes'
  BY <1>1, <1>2, <1>3 DEF CacheInv, CallTypes
<1>5. /\ \A u \in Threads : Overload(u)' = Overload(u)
      /\ \A u \in Threads \ {t} : at'[u] = at[u]
      /\ at'[t] = "run"
  BY <1>1, <1>2, OverloadKept
<1>6. \A o : Loading(o)' = Loading(o)
  BY <1>1, <1>5 DEF Loading
<1>7. \A o : o # k => Publishing(o)' = Publishing(o)
  BY <1>1, <1>5 DEF Publishing
<1> HIDE DEF k
<1>8. ASSUME NEW o
      PROVE  IF o \in DOMAIN overloads'
               THEN LoadsOf(o)' + Cardinality(Loading(o)') <= Cardinality(Threads)
               ELSE LoadsOf(o)' = Cardinality(Publishing(o)')
  <2>1. LoadsOf(o) \in Nat /\ IF o \in DOMAIN overloads
          THEN LoadsOf(o) + Cardinality(Loading(o)) <= Cardinality(Threads)
          ELSE LoadsOf(o) = Cardinality(Publishing(o))
    BY DEF CacheInv, CallTypes, LoadsCounted
\* The first publication: who is about to publish does not load.
  <2>2. CASE o = k /\ o \notin DOMAIN overloads
    <3>1. /\ Loading(o) \in SUBSET Threads /\ Publishing(o) \in SUBSET Threads
          /\ Loading(o) \cap Publishing(o) = {}
          /\ Loading(o) \cup Publishing(o) \in SUBSET Threads
      BY DEF Loading, Publishing
    <3>2. /\ IsFiniteSet(Loading(o)) /\ Cardinality(Loading(o)) \in Nat
          /\ IsFiniteSet(Publishing(o)) /\ Cardinality(Publishing(o)) \in Nat
          /\ Cardinality(Loading(o) \cup Publishing(o)) <= Cardinality(Threads)
      BY <3>1, ThreadCounts
    <3>3. Cardinality(Loading(o) \cup Publishing(o))
            = Cardinality(Loading(o)) + Cardinality(Publishing(o))
                - Cardinality(Loading(o) \cap Publishing(o))
      BY <3>2, FS_Union
    <3>4. Cardinality(Loading(o) \cap Publishing(o)) = 0
      BY <3>1, FS_EmptySet
    <3>5. LoadsOf(o) + Cardinality(Loading(o)) <= Cardinality(Threads)
      BY <2>1, <2>2, <3>2, <3>3, <3>4
    <3>. QED BY <1>1, <1>3, <1>6, <2>2, <3>5
  <2>3. CASE o = k /\ o \in DOMAIN overloads
    BY <1>1, <1>3, <1>6, <2>1, <2>3
  <2>4. CASE o # k
    BY <1>1, <1>3, <1>6, <1>7, <2>1, <2>4
  <2>. QED BY <2>2, <2>3, <2>4
<1>9. LoadsCounted'
  BY <1>8 DEF LoadsCounted
<1>. QED BY <1>4, <1>9 DEF CacheInv

\* A step that moves no thread.
LEMMA IdleStep ==
  ASSUME CacheInv, UNCHANGED <<overloads, loads, plan, at, task>>
  PROVE  CacheInv'
BY DEF CacheInv, CallTypes, LoadsCounted, LoadsOf, Loading, Publishing, Overload, Call,
       Rank

LEMMA NextCache == CacheInv /\ [PointwiseNext]_pointwise_vars => CacheInv'
<1> SUFFICES ASSUME CacheInv, [PointwiseNext]_pointwise_vars PROVE CacheInv'
  OBVIOUS
<1>1. at \in [Threads -> CallStates] /\ DOMAIN plan = Threads /\ DOMAIN task = Threads
  BY DEF CacheInv, CallTypes
<1>2. ASSUME NEW t \in Threads, Prepare(t) PROVE CacheInv'
  <2>1. PICK s \in {"raised", "lookup"} : at' = [at EXCEPT ![t] = s]
    BY <1>2 DEF Prepare, Proceed
  <2>2. /\ at[t] = "idle" /\ UNCHANGED <<overloads, loads, plan>>
        /\ DOMAIN task' = Threads
        /\ \A u \in Threads \ {t} : task'[u] = task[u]
    BY <1>1, <1>2 DEF Prepare, Proceed, shared
  <2>3. s \in CallStates /\ s \notin {"load", "publish"}
    BY DEF CallStates
  <2>. QED BY <1>1, <2>1, <2>2, <2>3, AsideStep
<1>3. ASSUME NEW t \in Threads, Found(t) \/ Return(t) PROVE CacheInv'
  <2>1. PICK s \in {"run", "returned"} : at' = [at EXCEPT ![t] = s]
    BY <1>3 DEF Found, Return, Proceed
  <2>2. at[t] \in {"lookup", "run"} /\ UNCHANGED <<overloads, loads, plan, task>>
    BY <1>3 DEF Found, Return, Proceed, shared
  <2>3. s \in CallStates /\ s \notin {"load", "publish"}
    BY DEF CallStates
  <2>. QED BY <1>1, <2>1, <2>2, <2>3, AsideStep
<1>4. ASSUME NEW t \in Threads, NextCall(t) PROVE CacheInv'
  <2>1. /\ at[t] \in {"returned", "raised"} /\ at' = [at EXCEPT ![t] = "idle"]
        /\ UNCHANGED <<overloads, loads, task>> /\ DOMAIN plan' = Threads
        /\ \A u \in Threads \ {t} : plan'[u] = plan[u]
    BY <1>1, <1>4 DEF NextCall, shared
  <2>2. "idle" \in CallStates
    BY DEF CallStates
  <2>. QED BY <1>1, <2>1, <2>2, AsideStep
<1>5. ASSUME NEW t \in Threads, NEW pid, RunProgram(t, pid) PROVE CacheInv'
  <2>1. UNCHANGED <<overloads, loads, plan, at, task>>
    BY <1>5 DEF RunProgram, shared
  <2>. QED BY <2>1, IdleStep
<1>6. ASSUME UNCHANGED pointwise_vars PROVE CacheInv'
  BY <1>6, IdleStep DEF pointwise_vars
<1>. QED BY <1>2, <1>3, <1>4, <1>5, <1>6, WriteStep, LoadStep, PublishStep
         DEF PointwiseNext

\* The dictionary of overloads is read and written without a lock
\* (PointwiseDynamicFunction.instantiate), and still no function loads a module
\* for a rank more often than there are threads, whatever they call.
THEOREM LoadsAreFew == PointwiseSpec => []FewLoads
<1>1. CacheInv => FewLoads
  <2> SUFFICES ASSUME CacheInv, NEW o \in DOMAIN loads
               PROVE  loads[o] <= Cardinality(Threads)
    BY DEF FewLoads
  <2>1. LoadsOf(o) = loads[o] /\ LoadsOf(o) \in Nat
    BY DEF LoadsOf, CacheInv, CallTypes
  <2>2. Loading(o) \in SUBSET Threads /\ Publishing(o) \in SUBSET Threads
    BY DEF Loading, Publishing
  <2>3. /\ Cardinality(Loading(o)) \in Nat /\ Cardinality(Threads) \in Nat
        /\ Cardinality(Publishing(o)) <= Cardinality(Threads)
    BY <2>2, ThreadCounts
  <2>4. CASE o \in DOMAIN overloads
    BY <2>1, <2>3, <2>4 DEF CacheInv, LoadsCounted
  <2>5. CASE o \notin DOMAIN overloads
    BY <2>1, <2>3, <2>5 DEF CacheInv, LoadsCounted
  <2>. QED BY <2>4, <2>5
<1>. QED BY <1>1, InitCache, NextCache, PTL DEF PointwiseSpec
=============================================================================
