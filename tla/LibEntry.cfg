SPECIFICATION FairSpec
CONSTANTS
  Threads = {t1, t2}
  Kernels = {mm, bn, fill}
  Tuned = {mm, bn}
  Restoring = {bn}
  Devices = {d1, d2}
  Keys = {k1}
  Configs = {c1, c2}
  NoConfig = NoConfig
  NoEntry = NoEntry
  NoFrame = NoFrame
  MaxCalls = 1
  MaxBench = 1
  MaxNested = 1
  MaxFaults = 1
INVARIANTS
  TypeOK
  FirstRunSerialized
  EntryMatches
  AnsweredOnce
PROPERTIES
  TableSpec
  CallEnds
