--------------------------- MODULE LibEntryProofs ---------------------------
(***************************************************************************)
(* Theorems about LibEntry, for any number of threads, kernels, devices    *)
(* and keys, and any bound.                                                *)
(***************************************************************************)
EXTENDS LibEntry, TLAPS

\* The frame past the lock of a kernel is the one the lock names.
LockInv == \A f \in Frames : Held(f) => lock[call[f].kernel] = f

Filled(f) == Cached(f) # NoEntry

\* The frame holds a kernel of its own cell and that kernel's constexprs.
Matched(f) ==
  /\ kernel[f] \in Compiled
  /\ kernel[f].slot = call[f].slot
  /\ kernel[f].config = constexprs[f]

\* Under the lock and past the second test the entry is missing; between the
\* autotuner's choice and its reading best_config is the frame's own.
FrameInv(f) ==
  /\ pc[f] \in {"fn_run", "collect", "store"} => ~Filled(f)
  /\ pc[f] \in {"load", "launch", "done"} => Filled(f)
  /\ pc[f] = "collect" =>
       /\ kernel[f] \in Compiled
       /\ kernel[f].slot = call[f].slot
       /\ kernel[f].config = best_config[call[f].kernel]
  /\ pc[f] \in {"store", "launch", "done"} => Matched(f)
  /\ benched[f] > 0 => call[f].kernel \in Tuned
  /\ pc[f] \in {"check", "acquire", "recheck", "load", "launch"}
       => launches[f] = 0 /\ benched[f] = 0
  /\ pc[f] = "fn_run" => launches[f] = Traces(f)
  /\ pc[f] \in {"collect", "store", "done"} => launches[f] = 1 + Traces(f)
  /\ pc[f] = "raised" => launches[f] \in {Traces(f), 1 + Traces(f)}
  /\ pc[f] = "release" =>
       /\ exit[f] = "load" => Filled(f) /\ launches[f] = 0 /\ benched[f] = 0
       /\ exit[f] = "done" =>
            Filled(f) /\ Matched(f) /\ launches[f] = 1 + Traces(f)
       /\ exit[f] = "raised" => launches[f] \in {Traces(f), 1 + Traces(f)}

\* The frame has returned, or is about to, from a call that benchmarked.
Tuner(f) ==
  /\ pc[f] = "done" \/ (pc[f] = "release" /\ exit[f] = "done")
  /\ benched[f] > 0

\* Of two calls for one device and key at most one is answered by a first run.
OneTuner ==
  \A f \in Frames : \A g \in Frames \ {f} :
    Tuner(f) /\ Tuner(g) => call[f] # call[g]

IInv ==
  /\ TypeOK
  /\ LockInv
  /\ EntryMatches
  /\ \A f \in Frames : FrameInv(f)
  /\ OneTuner

-----------------------------------------------------------------------------
\* Type correctness: the locals of a frame and the entries stored in the
\* dictionaries of LibEntry.run keep their types in every reachable state.
LEMMA InitType == Init => TypeOK
  <1> USE SetsAssumption, BoundsAssumption
  <1> SUFFICES ASSUME Init PROVE TypeOK
    OBVIOUS
  <1>1. (CHOOSE c \in Calls : TRUE) \in Calls
    OBVIOUS
  <1>2. call \in [Frames -> Calls]
    BY <1>1 DEF Init
  <1>3. QED
    BY <1>2 DEF Init, TypeOK, PCs

LEMMA StepType == IInv /\ [Next]_vars => TypeOK'
  <1> USE SetsAssumption, BoundsAssumption
  <1> SUFFICES ASSUME IInv, [Next]_vars PROVE TypeOK'
    OBVIOUS
  <1>0. TypeOK
    BY DEF IInv
  <1> USE <1>0 DEF TypeOK, PCs, locals, counters, Transition
  <1>1. ASSUME NEW t \in Threads, NEW c \in Calls, Call(t, c) PROVE TypeOK'
    <2>1. <<t, "call">> \in Frames
      BY DEF Frames
    <2>2. QED
      BY <1>1, <2>1 DEF Call, Enter
  <1>2. ASSUME NEW t \in Threads, NEW c \in Calls, NestedCall(t, c) PROVE TypeOK'
    <2>1. <<t, "nested">> \in Frames
      BY DEF Frames
    <2>2. QED
      BY <1>2, <2>1 DEF NestedCall, Enter
  <1>3. ASSUME NEW f \in Frames, Check(f) PROVE TypeOK'
    BY <1>3 DEF Check
  <1>4. ASSUME NEW f \in Frames, Acquire(f) PROVE TypeOK'
    <2>1. call[f].kernel \in Kernels
      BY DEF Calls
    <2>2. QED
      BY <1>4, <2>1 DEF Acquire
  <1>5. ASSUME NEW f \in Frames, RecheckHit(f) \/ RecheckMiss(f) PROVE TypeOK'
    BY <1>5 DEF RecheckHit, RecheckMiss
  <1>15. ASSUME NEW f \in Frames, Benchmark(f) PROVE TypeOK'
    <2>1. benched[f] \in 0 .. MaxBench /\ benched[f] < MaxBench
      BY <1>15 DEF Benchmark
    <2>2. benched' \in [Frames -> 0 .. MaxBench] /\ launches' \in [Frames -> Nat]
      BY <1>15, <2>1 DEF Benchmark
    <2>3. QED
      BY <1>15, <2>2 DEF Benchmark
  <1>6. ASSUME NEW f \in Frames, FirstRun(f) PROVE TypeOK'
    <2>1. call[f].kernel \in Kernels /\ call[f].slot \in Slots
      BY DEF Calls
    <2>2. PICK c \in Configs \cup {NoConfig} :
            /\ best_config' = [best_config EXCEPT ![call[f].kernel] = c]
            /\ kernel' = [kernel EXCEPT
                            ![f] = [slot |-> call[f].slot, config |-> c]]
      BY <1>6 DEF FirstRun
    <2>3. [slot |-> call[f].slot, config |-> c] \in Compiled
      BY <2>1 DEF Compiled
    <2>4. kernel' \in [Frames -> Compiled \cup {NoEntry}]
      BY <2>2, <2>3
    <2>5. QED
      BY <1>6, <2>1, <2>2, <2>4 DEF FirstRun
  <1>7. ASSUME NEW f \in Frames, Collect(f) PROVE TypeOK'
    <2>1. call[f].kernel \in Kernels
      BY DEF Calls
    <2>2. QED
      BY <1>7, <2>1 DEF Collect
  <1>8. ASSUME NEW f \in Frames, Store(f) PROVE TypeOK'
    <2>1. call[f].kernel \in Kernels /\ call[f].slot \in Slots
      BY DEF Calls
    <2>2. kernel[f] \in Compiled
      BY <1>8 DEF Store, IInv, FrameInv, Matched
    <2> DEFINE e == [kernel |-> kernel[f], constexprs |-> constexprs[f]]
    <2>3. e \in Entries
      BY <2>2 DEF Entries
    <2>4. kernel_cache' \in [Kernels -> [Slots -> Entries \cup {NoEntry}]]
      <3>1. kernel_cache' =
              [kernel_cache EXCEPT ![call[f].kernel][call[f].slot] = e]
        BY <1>8 DEF Store
      <3> HIDE DEF e
      <3>2. QED
        BY <3>1, <2>3, <2>1
    <2>5. QED
      BY <1>8, <2>4 DEF Store
  <1>9. ASSUME NEW f \in Frames, RaiseFirstRun(f) \/ RaiseLaunch(f) PROVE TypeOK'
    BY <1>9 DEF RaiseFirstRun, RaiseLaunch
  <1>10. ASSUME NEW f \in Frames, Release(f) PROVE TypeOK'
    BY <1>10 DEF Release
  <1>11. ASSUME NEW f \in Frames, Load(f) PROVE TypeOK'
    <2>1. Cached(f) \in Entries
      <3>1. call[f].kernel \in Kernels /\ call[f].slot \in Slots
        BY DEF Calls
      <3>2. Cached(f) # NoEntry
        BY <1>11 DEF Load, IInv, FrameInv, Filled
      <3>3. QED
        BY <3>1, <3>2 DEF Cached
    <2>2. /\ Cached(f).kernel \in Compiled
          /\ Cached(f).constexprs \in Configs \cup {NoConfig}
      BY <2>1 DEF Entries
    <2>3. QED
      BY <1>11, <2>2 DEF Load
  <1>12. ASSUME NEW f \in Frames, Launch(f) \/ Return(f) PROVE TypeOK'
    <2>1. CASE Launch(f)
      BY <2>1 DEF Launch
    <2>2. CASE Return(f)
      BY <2>2 DEF Return
    <2>3. QED
      BY <1>12, <2>1, <2>2
  <1>13. CASE UNCHANGED vars
    BY <1>13 DEF vars
  <1> HIDE DEF TypeOK, PCs, locals, counters, Transition
  <1>14. QED
    BY <1>1, <1>2, <1>3, <1>4, <1>5, <1>6, <1>7, <1>8, <1>9, <1>10, <1>11,
       <1>12, <1>13, <1>15 DEF Next, Step, Raise, Terminated

-----------------------------------------------------------------------------
\* Two frames past the lock of one kernel would both be the lock's owner.
LEMMA Exclusion == LockInv => FirstRunSerialized
  BY DEF LockInv, FirstRunSerialized

\* The lock's owner does not change while a frame is past it.
LEMMA StepLock == IInv /\ [Next]_vars => LockInv'
  <1> SUFFICES ASSUME IInv, [Next]_vars, NEW g \in Frames, Held(g)'
               PROVE lock'[call'[g].kernel] = g
    BY DEF LockInv
  <1> USE SetsAssumption DEF TypeOK, LockInv, Held, Transition, locals, counters
  <1>0. TypeOK /\ LockInv
    BY DEF IInv
  <1>1. ASSUME NEW t \in Threads, NEW c \in Calls, Call(t, c) \/ NestedCall(t, c)
        PROVE lock'[call'[g].kernel] = g
    BY <1>0, <1>1 DEF Call, NestedCall, Enter, Frames
  <1>2. ASSUME NEW f \in Frames, Step(f) \/ Raise(f)
        PROVE lock'[call'[g].kernel] = g
    <2>1. call[f].kernel \in Kernels /\ call[g].kernel \in Kernels
      BY <1>0 DEF Calls
    <2>2. CASE Acquire(f)
      BY <1>0, <2>1, <2>2 DEF Acquire
    <2>3. CASE Release(f)
      BY <1>0, <2>1, <2>3 DEF Release
    <2>4. CASE Check(f) \/ RecheckHit(f) \/ RecheckMiss(f) \/ Benchmark(f)
                 \/ FirstRun(f)
                 \/ Collect(f) \/ Store(f) \/ Load(f) \/ Launch(f) \/ Return(f)
      BY <1>0, <2>1, <2>4
         DEF Check, RecheckHit, RecheckMiss, Benchmark, FirstRun, Collect, Store,
             Load, Launch, Return
    <2>5. CASE RaiseFirstRun(f) \/ RaiseLaunch(f)
      BY <1>0, <2>1, <2>5 DEF RaiseFirstRun, RaiseLaunch
    <2>6. QED
      BY <1>2, <2>2, <2>3, <2>4, <2>5 DEF Step, Raise
  <1>3. CASE UNCHANGED vars
    BY <1>0, <1>3 DEF vars
  <1>4. QED
    BY <1>1, <1>2, <1>3 DEF Next, Terminated

\* What Store writes: one cell, with the frame's matched kernel.
LEMMA StoreCell ==
  ASSUME IInv, NEW f \in Frames, Store(f), NEW k \in Kernels, NEW s \in Slots
  PROVE  kernel_cache'[k][s] =
           IF k = call[f].kernel /\ s = call[f].slot
             THEN [kernel |-> kernel[f], constexprs |-> constexprs[f]]
             ELSE kernel_cache[k][s]
  <1>1. call[f].kernel \in Kernels /\ call[f].slot \in Slots
    BY DEF IInv, TypeOK, Calls
  <1>2. kernel_cache \in [Kernels -> [Slots -> Entries \cup {NoEntry}]]
    BY DEF IInv, TypeOK
  <1> DEFINE e == [kernel |-> kernel[f], constexprs |-> constexprs[f]]
  <1>3. kernel_cache' = [kernel_cache EXCEPT ![call[f].kernel][call[f].slot] = e]
    BY DEF Store
  <1> HIDE DEF e
  <1>4. QED
    <2>1. kernel_cache'[k][s] = IF k = call[f].kernel /\ s = call[f].slot
                                 THEN e ELSE kernel_cache[k][s]
      BY <1>1, <1>2, <1>3
    <2>2. QED
      BY <2>1 DEF e

\* Only Store changes the dictionaries.
LEMMA OnlyStore ==
  ASSUME [Next]_vars
  PROVE  UNCHANGED kernel_cache \/ \E f \in Frames : Store(f)
  BY DEF Next, Step, Raise, Terminated, vars, Call, NestedCall, Enter, Check,
         Acquire, RecheckHit, RecheckMiss, Benchmark, FirstRun, Collect, Release,
         Load, Launch, Return, RaiseFirstRun, RaiseLaunch

\* The entry a frame is about to store is not there yet and is a matched one.
LEMMA StoreFacts ==
  ASSUME IInv, NEW f \in Frames, Store(f)
  PROVE  /\ ~Filled(f)
         /\ Matched(f)
         /\ [kernel |-> kernel[f], constexprs |-> constexprs[f]] \in Entries
         /\ [kernel |-> kernel[f], constexprs |-> constexprs[f]] # NoEntry
  <1>1. ~Filled(f) /\ Matched(f)
    BY DEF Store, Transition, IInv, FrameInv
  <1>2. constexprs[f] \in Configs \cup {NoConfig}
    BY DEF IInv, TypeOK
  <1>3. [kernel |-> kernel[f], constexprs |-> constexprs[f]] \in Entries
    BY <1>1, <1>2 DEF Entries, Matched
  <1>4. QED
    BY <1>1, <1>3, SetsAssumption

LEMMA StepEntries == IInv /\ [Next]_vars => EntryMatches'
  <1> SUFFICES ASSUME IInv, [Next]_vars,
                      NEW k \in Kernels, NEW s \in Slots,
                      kernel_cache'[k][s] # NoEntry
               PROVE /\ kernel_cache'[k][s].kernel.slot = s
                     /\ kernel_cache'[k][s].kernel.config
                          = kernel_cache'[k][s].constexprs
    BY DEF EntryMatches
  <1>1. EntryMatches
    BY DEF IInv
  <1>2. CASE UNCHANGED kernel_cache
    BY <1>1, <1>2 DEF EntryMatches
  <1>3. ASSUME NEW f \in Frames, Store(f)
        PROVE /\ kernel_cache'[k][s].kernel.slot = s
              /\ kernel_cache'[k][s].kernel.config = kernel_cache'[k][s].constexprs
    <2>1. Matched(f)
      BY <1>3, StoreFacts
    <2>2. CASE k = call[f].kernel /\ s = call[f].slot
      <3>1. kernel_cache'[k][s]
              = [kernel |-> kernel[f], constexprs |-> constexprs[f]]
        BY <1>3, <2>2, StoreCell
      <3>2. QED
        BY <2>1, <2>2, <3>1 DEF Matched
    <2>3. CASE ~(k = call[f].kernel /\ s = call[f].slot)
      <3>1. kernel_cache'[k][s] = kernel_cache[k][s]
        BY <1>3, <2>3, StoreCell
      <3>2. QED
        BY <1>1, <3>1 DEF EntryMatches
    <2>4. QED
      BY <2>2, <2>3
  <1>4. QED
    BY <1>2, <1>3, OnlyStore

\* A filled cell stays as it is.
LEMMA StepStable ==
  ASSUME IInv, [Next]_vars, NEW k \in Kernels, NEW s \in Slots,
         kernel_cache[k][s] # NoEntry
  PROVE  kernel_cache'[k][s] = kernel_cache[k][s]
  <1>1. ASSUME NEW f \in Frames, Store(f)
        PROVE kernel_cache'[k][s] = kernel_cache[k][s]
    <2>1. kernel_cache[call[f].kernel][call[f].slot] = NoEntry
      BY <1>1, StoreFacts DEF Filled, Cached
    <2>2. QED
      BY <1>1, <2>1, StoreCell
  <1>2. QED
    BY <1>1, OnlyStore

\* Frames that a step of frame f leaves alone keep FrameInv: nothing they
\* read under their lock can have changed.
LEMMA OthersKeep ==
  ASSUME IInv, [Next]_vars, NEW g \in Frames,
         pc'[g] = pc[g], call'[g] = call[g], kernel'[g] = kernel[g],
         constexprs'[g] = constexprs[g], exit'[g] = exit[g],
         launches'[g] = launches[g], benched'[g] = benched[g],
         pc[g] = "collect" =>
           best_config'[call[g].kernel] = best_config[call[g].kernel],
         pc[g] \in {"fn_run", "collect", "store"} /\ ~Filled(g) => ~Filled(g)'
  PROVE  FrameInv(g)'
  <1>1. FrameInv(g)
    BY DEF IInv
  <1>2. call[g].kernel \in Kernels /\ call[g].slot \in Slots
    BY DEF IInv, TypeOK, Calls
  <1>3. Filled(g) => Filled(g)'
    BY <1>2, StepStable DEF Filled, Cached
  <1>4. QED
    BY <1>1, <1>3 DEF FrameInv, Matched, Traces

\* A step that leaves the dictionaries and best_config alone disturbs no
\* frame but the one that makes it.
LEMMA QuietOthers ==
  ASSUME IInv, [Next]_vars, NEW f \in Frames, NEW g \in Frames, g # f,
         UNCHANGED <<kernel_cache, best_config>>,
         pc'[g] = pc[g], call'[g] = call[g], kernel'[g] = kernel[g],
         constexprs'[g] = constexprs[g], exit'[g] = exit[g],
         launches'[g] = launches[g], benched'[g] = benched[g]
  PROVE  FrameInv(g)'
  BY OthersKeep DEF Filled, Cached

LEMMA StepFrames == IInv /\ [Next]_vars => \A g \in Frames : FrameInv(g)'
  <1> SUFFICES ASSUME IInv, [Next]_vars, NEW g \in Frames
               PROVE FrameInv(g)'
    OBVIOUS
  <1>0. TypeOK /\ FrameInv(g) /\ LockInv
    BY DEF IInv
  <1> USE DEF TypeOK, Transition, locals, counters
  <1>1. ASSUME NEW t \in Threads, NEW c \in Calls, NEW f \in Frames, Enter(f, c)
        PROVE FrameInv(g)'
    <2>1. CASE g = f
      <3>1. pc'[g] = "check" /\ launches'[g] = 0 /\ benched'[g] = 0
        BY <1>0, <1>1, <2>1 DEF Enter
      <3>2. QED
        BY <3>1 DEF FrameInv
    <2>2. CASE g # f
      BY <1>0, <1>1, <2>2, QuietOthers DEF Enter
    <2>3. QED
      BY <2>1, <2>2
  <1>2. ASSUME NEW f \in Frames,
               \/ Check(f) \/ Acquire(f) \/ RecheckHit(f) \/ RecheckMiss(f)
               \/ Release(f) \/ Launch(f) \/ Return(f)
        PROVE FrameInv(g)'
    <2> USE DEF Check, Acquire, RecheckHit, RecheckMiss, Release, Launch, Return
    <2>1. CASE g = f
      <3> USE DEF FrameInv, Filled, Cached, Matched, Traces
      <3>1. CASE Check(f) \/ Acquire(f) \/ RecheckHit(f) \/ RecheckMiss(f)
        BY <1>0, <2>1, <3>1
      <3>2. CASE Release(f)
        <4>1. /\ pc[g] = "release" /\ pc'[g] = exit[g]
              /\ exit[g] \in {"load", "done", "raised"}
          BY <1>0, <2>1, <3>2
        <4>2. UNCHANGED <<kernel_cache, call, kernel, constexprs, exit,
                          launches, benched>>
          BY <3>2
        <4>3. FrameInv(g)
          BY <1>0
        <4>4. CASE exit[g] = "load"
          BY <4>1, <4>2, <4>3, <4>4
        <4>5. CASE exit[g] = "done"
          BY <4>1, <4>2, <4>3, <4>5
        <4>6. CASE exit[g] = "raised"
          BY <4>1, <4>2, <4>3, <4>6
        <4>7. QED
          BY <4>1, <4>4, <4>5, <4>6
      <3>3. CASE Launch(f)
        BY <1>0, <2>1, <3>3
      <3>4. CASE Return(f)
        BY <1>0, <2>1, <3>4
      <3> HIDE DEF FrameInv, Filled, Cached, Matched, Traces
      <3>5. QED
        BY <1>2, <3>1, <3>2, <3>3, <3>4
    <2>2. CASE g # f
      BY <1>0, <1>2, <2>2, QuietOthers
    <2>3. QED
      BY <2>1, <2>2
  <1>3. ASSUME NEW f \in Frames, RaiseFirstRun(f) \/ RaiseLaunch(f)
        PROVE FrameInv(g)'
    <2> USE DEF RaiseFirstRun, RaiseLaunch
    <2>1. CASE g = f
      BY <1>0, <1>3, <2>1 DEF FrameInv, Filled, Cached, Matched, Traces
    <2>2. CASE g # f
      BY <1>0, <1>3, <2>2, QuietOthers
    <2>3. QED
      BY <2>1, <2>2
  <1>11. ASSUME NEW f \in Frames, Benchmark(f) PROVE FrameInv(g)'
    <2>1. CASE g = f
      <3>1. /\ pc'[g] = "fn_run" /\ call'[g] = call[g]
            /\ kernel_cache' = kernel_cache /\ ~Filled(g)
            /\ call[g].kernel \in Tuned /\ launches[g] = Traces(g)
        BY <1>0, <1>11, <2>1 DEF Benchmark, FrameInv
      <3>2. benched'[g] = benched[g] + 1
        BY <1>0, <1>11, <2>1 DEF Benchmark
      <3>3. launches'[g] = IF call[g].kernel \in Restoring
                             THEN launches[g] ELSE launches[g] + 1
        BY <1>0, <1>11, <2>1 DEF Benchmark
      <3>4. launches'[g] = Traces(g)'
        BY <3>1, <3>2, <3>3 DEF Traces
      <3>5. QED
        BY <3>1, <3>4 DEF FrameInv, Filled, Cached
    <2>2. CASE g # f
      BY <1>0, <1>11, <2>2, QuietOthers DEF Benchmark
    <2>3. QED
      BY <2>1, <2>2
  <1>4. ASSUME NEW f \in Frames, FirstRun(f) PROVE FrameInv(g)'
    <2>1. call[f].kernel \in Kernels /\ call[g].kernel \in Kernels
          /\ call[f].slot \in Slots
      BY <1>0 DEF Calls
    <2>2. PICK c \in Configs \cup {NoConfig} :
            /\ best_config' = [best_config EXCEPT ![call[f].kernel] = c]
            /\ kernel' = [kernel EXCEPT
                            ![f] = [slot |-> call[f].slot, config |-> c]]
      BY <1>4 DEF FirstRun
    <2>3. CASE g = f
      <3>1. kernel'[g] = [slot |-> call[g].slot, config |-> c]
            /\ best_config'[call[g].kernel] = c
        BY <1>0, <2>1, <2>2, <2>3
      <3>2. kernel'[g] \in Compiled /\ kernel'[g].slot = call[g].slot
            /\ kernel'[g].config = c
        BY <3>1, <2>1, <2>3 DEF Compiled
      <3>3. /\ pc'[g] = "collect" /\ call'[g] = call[g]
            /\ benched'[g] = benched[g] /\ launches'[g] = launches[g] + 1
            /\ kernel_cache' = kernel_cache
        BY <1>0, <1>4, <2>3 DEF FirstRun
      <3>4. /\ launches[g] = Traces(g) /\ ~Filled(g)
            /\ benched[g] > 0 => call[g].kernel \in Tuned
        BY <1>0, <1>4, <2>3 DEF FirstRun, FrameInv
      <3>5. launches'[g] = 1 + Traces(g)'
        BY <1>0, <3>3, <3>4 DEF Traces
      <3>6. QED
        BY <3>1, <3>2, <3>3, <3>4, <3>5 DEF FrameInv, Filled, Cached
    <2>4. CASE g # f
      <3>1. pc[g] = "collect" => call[g].kernel # call[f].kernel
        BY <1>0, <1>4, <2>4, Exclusion DEF FirstRunSerialized, Held, FirstRun
      <3>2. pc[g] = "collect" =>
              best_config'[call[g].kernel] = best_config[call[g].kernel]
        BY <1>0, <2>1, <2>2, <3>1
      <3>3. QED
        BY <1>0, <1>4, <2>2, <2>4, <3>2, OthersKeep DEF FirstRun, Filled, Cached
    <2>5. QED
      BY <2>3, <2>4
  <1>5. ASSUME NEW f \in Frames, Collect(f) PROVE FrameInv(g)'
    <2>1. CASE g = f
      BY <1>0, <1>5, <2>1 DEF Collect, FrameInv, Filled, Cached, Matched, Traces
    <2>2. CASE g # f
      BY <1>0, <1>5, <2>2, QuietOthers DEF Collect
    <2>3. QED
      BY <2>1, <2>2
  <1>6. ASSUME NEW f \in Frames, Store(f) PROVE FrameInv(g)'
    <2>1. call[g].kernel \in Kernels /\ call[g].slot \in Slots
      BY <1>0 DEF Calls
    <2>2. CASE g = f
      <3>1. /\ pc'[g] = "release" /\ exit'[g] = "done" /\ call'[g] = call[g]
            /\ kernel'[g] = kernel[g] /\ constexprs'[g] = constexprs[g]
            /\ launches'[g] = launches[g] /\ benched'[g] = benched[g]
        BY <1>0, <1>6, <2>2 DEF Store
      <3>2. Filled(g)'
        <4>1. Cached(g)' = [kernel |-> kernel[f], constexprs |-> constexprs[f]]
          BY <1>6, <2>1, <2>2, <3>1, StoreCell DEF Cached
        <4>2. QED
          BY <1>6, <4>1, StoreFacts DEF Filled
      <3>3. /\ Matched(g) /\ launches[g] = 1 + Traces(g)
            /\ benched[g] > 0 => call[g].kernel \in Tuned
        BY <1>0, <1>6, <2>2 DEF Store, FrameInv
      <3>4. QED
        BY <3>1, <3>2, <3>3 DEF FrameInv, Matched, Traces
    <2>3. CASE g # f
      <3>1. pc[g] \in {"fn_run", "collect", "store"}
              => call[g].kernel # call[f].kernel
        BY <1>0, <1>6, <2>3, Exclusion DEF FirstRunSerialized, Held, Store
      <3>2. call'[g] = call[g]
        BY <1>6 DEF Store
      <3>3. pc[g] \in {"fn_run", "collect", "store"} /\ ~Filled(g) => ~Filled(g)'
        <4>1. call[g].kernel # call[f].kernel
                => kernel_cache'[call[g].kernel][call[g].slot]
                     = kernel_cache[call[g].kernel][call[g].slot]
          BY <1>6, <2>1, StoreCell
        <4>2. QED
          BY <3>1, <3>2, <4>1 DEF Filled, Cached
      <3>4. QED
        BY <1>0, <1>6, <2>3, <3>3, OthersKeep DEF Store
    <2>4. QED
      BY <2>2, <2>3
  <1>7. ASSUME NEW f \in Frames, Load(f) PROVE FrameInv(g)'
    <2>1. CASE g = f
      <3>1. call[f].kernel \in Kernels /\ call[f].slot \in Slots
        BY <1>0 DEF Calls
      <3>2. Cached(f) # NoEntry /\ launches[f] = 0 /\ benched[f] = 0
        BY <1>0, <1>7, <2>1 DEF Load, FrameInv, Filled
      <3>3. Cached(f) \in Entries /\ Cached(f).kernel.slot = call[f].slot
            /\ Cached(f).kernel.config = Cached(f).constexprs
        BY <1>0, <3>1, <3>2 DEF Cached, IInv, EntryMatches
      <3>4. Cached(f).kernel \in Compiled
        BY <3>3 DEF Entries
      <3>5. pc'[f] = "launch" /\ kernel'[f] = Cached(f).kernel
            /\ constexprs'[f] = Cached(f).constexprs
            /\ call'[f] = call[f] /\ launches'[f] = 0 /\ benched'[f] = 0
            /\ Cached(f)' = Cached(f)
        BY <1>0, <1>7, <3>2 DEF Load, Cached
      <3>6. QED
        BY <2>1, <3>2, <3>3, <3>4, <3>5 DEF FrameInv, Matched, Filled
    <2>2. CASE g # f
      BY <1>0, <1>7, <2>2, QuietOthers DEF Load
    <2>3. QED
      BY <2>1, <2>2
  <1>8. CASE UNCHANGED vars
    BY <1>0, <1>8 DEF vars, FrameInv, Filled, Cached, Matched, Traces
  <1>9. ASSUME NEW t \in Threads, NEW c \in Calls, Call(t, c) \/ NestedCall(t, c)
        PROVE FrameInv(g)'
    BY <1>1, <1>9 DEF Call, NestedCall, Frames
  <1>10. QED
    BY <1>2, <1>3, <1>4, <1>5, <1>6, <1>7, <1>8, <1>9, <1>11
       DEF Next, Step, Raise, Terminated

\* A frame becomes a Tuner when it stores, on a cell that was empty; every
\* other Tuner of that kernel, device and key would have filled it.
LEMMA TunerFilled ==
  ASSUME IInv, NEW g \in Frames, Tuner(g)
  PROVE  Filled(g)
  BY DEF IInv, FrameInv, Tuner

LEMMA TunerStores ==
  ASSUME IInv, [Next]_vars, NEW g \in Frames, Tuner(g)'
  PROVE  call'[g] = call[g] /\ (Tuner(g) \/ Store(g))
  <1> USE DEF TypeOK, Transition, locals, counters
  <1>0. TypeOK /\ FrameInv(g)
    BY DEF IInv
  <1>1. ASSUME NEW f \in Frames, NEW c \in Calls, Enter(f, c)
        PROVE call'[g] = call[g] /\ Tuner(g)
    BY <1>0, <1>1 DEF Enter, Tuner
  <1>2. ASSUME NEW f \in Frames,
               \/ Check(f) \/ Acquire(f) \/ RecheckHit(f) \/ RecheckMiss(f)
               \/ Release(f) \/ Launch(f) \/ Return(f) \/ Benchmark(f)
        PROVE call'[g] = call[g] /\ Tuner(g)
    BY <1>0, <1>2
       DEF Check, Acquire, RecheckHit, RecheckMiss, Release, Launch, Return,
           Benchmark, Tuner, FrameInv
  <1>3. ASSUME NEW f \in Frames,
               \/ FirstRun(f) \/ Collect(f) \/ Load(f)
               \/ RaiseFirstRun(f) \/ RaiseLaunch(f)
        PROVE call'[g] = call[g] /\ Tuner(g)
    BY <1>0, <1>3
       DEF FirstRun, Collect, Load, RaiseFirstRun, RaiseLaunch, Tuner
  <1>4. ASSUME NEW f \in Frames, Store(f)
        PROVE call'[g] = call[g] /\ (Tuner(g) \/ Store(g))
    BY <1>0, <1>4 DEF Store, Tuner
  <1>5. CASE UNCHANGED vars
    BY <1>5 DEF vars, Tuner
  <1>6. QED
    BY <1>1, <1>2, <1>3, <1>4, <1>5
       DEF Next, Step, Raise, Terminated, Call, NestedCall, Frames

LEMMA StepOneTuner == IInv /\ [Next]_vars => OneTuner'
  <1> SUFFICES ASSUME IInv, [Next]_vars,
                      NEW f \in Frames, NEW g \in Frames \ {f},
                      Tuner(f)', Tuner(g)', call'[f] = call'[g]
               PROVE FALSE
    BY DEF OneTuner
  <1>1. /\ call[f] = call[g]
        /\ Tuner(f) \/ Store(f)
        /\ Tuner(g) \/ Store(g)
    BY TunerStores
  <1>2. Filled(f) <=> Filled(g)
    BY <1>1 DEF Filled, Cached
  <1>3. CASE Tuner(f) /\ Tuner(g)
    BY <1>1, <1>3 DEF IInv, OneTuner
  <1>4. CASE Store(f) /\ Tuner(g)
    BY <1>2, <1>4, StoreFacts, TunerFilled
  <1>5. CASE Tuner(f) /\ Store(g)
    BY <1>2, <1>5, StoreFacts, TunerFilled
  <1>6. CASE Store(f) /\ Store(g)
    <2>1. Held(f) /\ Held(g) /\ LockInv
      BY <1>6 DEF Store, Transition, Held, IInv
    <2>2. QED
      BY <1>1, <2>1, Exclusion DEF FirstRunSerialized
  <1>7. QED
    BY <1>1, <1>3, <1>4, <1>5, <1>6

-----------------------------------------------------------------------------
LEMMA InitIInv == Init => IInv
  <1> SUFFICES ASSUME Init PROVE IInv
    OBVIOUS
  <1>1. TypeOK
    BY InitType
  <1>2. \A f \in Frames : pc[f] = "idle"
    BY DEF Init
  <1>3. LockInv /\ \A f \in Frames : FrameInv(f)
    BY <1>2 DEF Init, LockInv, Held, FrameInv
  <1>4. EntryMatches
    BY DEF Init, EntryMatches
  <1>5. OneTuner
    BY <1>2 DEF OneTuner, Tuner
  <1>6. QED
    BY <1>1, <1>3, <1>4, <1>5 DEF IInv

LEMMA StepIInv == IInv /\ [Next]_vars => IInv'
  BY StepType, StepLock, StepEntries, StepFrames, StepOneTuner DEF IInv

LEMMA Inductive == Spec => []IInv
  BY InitIInv, StepIInv, PTL DEF Spec

\* In every reachable state the locals, the lock and the dictionaries of
\* LibEntry.run have their types.
THEOREM TypeCorrect == Spec => []TypeOK
  <1>1. IInv => TypeOK
    BY DEF IInv
  <1>2. QED
    BY <1>1, Inductive, PTL

\* The comment in LibEntry.run: the first run of a jit function is serialised
\* regardless of the thread and the device.
THEOREM Serialized == Spec => []FirstRunSerialized
  <1>1. IInv => FirstRunSerialized
    BY Exclusion DEF IInv
  <1>2. QED
    BY <1>1, Inductive, PTL

\* Every stored kernel belongs to its device and key and was compiled with
\* the configuration the grids of its later launches are computed from.
THEOREM EntriesMatch == Spec => []EntryMatches
  <1>1. IInv => EntryMatches
    BY DEF IInv
  <1>2. QED
    BY <1>1, Inductive, PTL

\* A call that returns launched its own kernel for the caller once, one that
\* raises at most once; beyond that its arguments saw only the benchmarks of a
\* first run, and of the calls for one device and key that return at most one
\* has made any.
THEOREM CallsAnsweredOnce == Spec => []AnsweredOnce
  <1>1. IInv => AnsweredOnce
    <2> SUFFICES ASSUME IInv PROVE AnsweredOnce
      OBVIOUS
    <2>1. \A f \in Frames : FrameInv(f) /\ benched[f] \in Nat
      BY BoundsAssumption DEF IInv, TypeOK
    <2>2. ASSUME NEW f \in Frames, NEW g \in Frames \ {f},
                 pc[f] = "done", pc[g] = "done", call[f] = call[g]
          PROVE benched[f] = 0 \/ benched[g] = 0
      <3>1. ~(Tuner(f) /\ Tuner(g))
        BY <2>2 DEF IInv, OneTuner
      <3>2. QED
        BY <2>1, <2>2, <3>1 DEF Tuner
    <2>3. QED
      BY <2>1, <2>2 DEF FrameInv, Matched, AnsweredOnce
  <1>2. QED
    BY <1>1, Inductive, PTL

\* No step of any thread replaces a stored entry.
THEOREM EntriesStable == Spec => EntryStable
  <1>1. IInv /\ [Next]_vars =>
          [\A k \in Kernels : \A s \in Slots :
             kernel_cache[k][s] # NoEntry
               => kernel_cache'[k][s] = kernel_cache[k][s]]_vars
    BY StepStable
  <1>2. QED
    BY <1>1, Inductive, PTL DEF Spec, EntryStable
-----------------------------------------------------------------------------
(***************************************************************************)
(* LibEntry implements KernelTable: entering run asks for a cell, storing  *)
(* a first run fills it, reading the dictionary looks it up, returning or  *)
(* raising closes the request, every other step is invisible.              *)
(***************************************************************************)
\* What the mapping shows of a frame depends on its own fields only.
LEMMA ViewOfFrame ==
  ASSUME NEW g \in Frames,
         pc'[g] = pc[g], call'[g] = call[g], kernel'[g] = kernel[g],
         constexprs'[g] = constexprs[g], exit'[g] = exit[g]
  PROVE  AskedView'[g] = AskedView[g] /\ AnswerView'[g] = AnswerView[g]
  BY DEF AskedView, AnswerView, Answered, Raised

\* A step of frame f moves the mapped functions at f at most.
LEMMA ViewUpdate ==
  ASSUME NEW f \in Frames,
         \A g \in Frames \ {f} :
           /\ pc'[g] = pc[g] /\ call'[g] = call[g] /\ kernel'[g] = kernel[g]
           /\ constexprs'[g] = constexprs[g] /\ exit'[g] = exit[g]
  PROVE  /\ AskedView' = [AskedView EXCEPT ![f] = AskedView'[f]]
         /\ AnswerView' = [AnswerView EXCEPT ![f] = AnswerView'[f]]
  <1>1. \A g \in Frames \ {f} :
          AskedView'[g] = AskedView[g] /\ AnswerView'[g] = AnswerView[g]
    BY ViewOfFrame
  <1>2. /\ AskedView = [g \in Frames |-> AskedView[g]]
        /\ AskedView' = [g \in Frames |-> AskedView'[g]]
        /\ AnswerView = [g \in Frames |-> AnswerView[g]]
        /\ AnswerView' = [g \in Frames |-> AnswerView'[g]]
    BY DEF AskedView, AnswerView
  <1>3. QED
    BY <1>1, <1>2

LEMMA ViewSame ==
  ASSUME NEW f \in Frames,
         \A g \in Frames \ {f} :
           /\ pc'[g] = pc[g] /\ call'[g] = call[g] /\ kernel'[g] = kernel[g]
           /\ constexprs'[g] = constexprs[g] /\ exit'[g] = exit[g],
         AskedView'[f] = AskedView[f], AnswerView'[f] = AnswerView[f]
  PROVE  AskedView' = AskedView /\ AnswerView' = AnswerView
  <1>1. /\ AskedView = [g \in Frames |-> AskedView[g]]
        /\ AnswerView = [g \in Frames |-> AnswerView[g]]
    BY DEF AskedView, AnswerView
  <1>2. QED
    BY <1>1, ViewUpdate

LEMMA EnterAsks ==
  ASSUME IInv, NEW f \in Frames, NEW c \in Calls, Enter(f, c)
  PROVE  Table!Ask(f, <<c.kernel, c.slot>>)
  <1>1. /\ AskedView[f] = NoEntry /\ AskedView'[f] = <<c.kernel, c.slot>>
        /\ AnswerView'[f] = AnswerView[f]
    BY DEF Enter, Transition, IInv, TypeOK, AskedView, AnswerView, Answered, Raised
  <1>2. /\ AskedView' = [AskedView EXCEPT ![f] = AskedView'[f]]
        /\ AnswerView' = [AnswerView EXCEPT ![f] = AnswerView'[f]]
    BY ViewUpdate DEF Enter, Transition, IInv, TypeOK
  <1>3. AnswerView' = AnswerView
    BY <1>1, <1>2 DEF AnswerView
  <1>4. TableView' = TableView
    BY DEF Enter, TableView
  <1>5. QED
    BY <1>1, <1>2, <1>3, <1>4 DEF Table!Ask

LEMMA StoreFills ==
  ASSUME IInv, NEW f \in Frames, Store(f)
  PROVE  \E v \in Entries : Table!Fill(f, v)
  <1> DEFINE v == [kernel |-> kernel[f], constexprs |-> constexprs[f]]
             cell == <<call[f].kernel, call[f].slot>>
  <1>1. /\ v \in Entries /\ v # NoEntry /\ ~Filled(f)
    BY StoreFacts
  <1>2. call[f].kernel \in Kernels /\ call[f].slot \in Slots
    BY DEF IInv, TypeOK, Calls
  <1>3. cell \in Cells /\ cell # NoEntry
    BY <1>2, SetsAssumption DEF Cells
  <1>4. /\ AskedView[f] = cell /\ AskedView'[f] = cell
        /\ AnswerView[f] = NoEntry /\ AnswerView'[f] = v
    BY DEF Store, Transition, IInv, TypeOK, AskedView, AnswerView, Answered, Raised
  <1>5. /\ AskedView' = [AskedView EXCEPT ![f] = AskedView'[f]]
        /\ AnswerView' = [AnswerView EXCEPT ![f] = AnswerView'[f]]
    BY ViewUpdate DEF Store, Transition, IInv, TypeOK
  <1>6. AskedView' = AskedView
    BY <1>4, <1>5 DEF AskedView
  <1>7. TableView[cell] = NoEntry
    BY <1>1, <1>3 DEF TableView, Filled, Cached
  <1>8. TableView' = [TableView EXCEPT ![cell] = v]
    <2>1. \A k \in Kernels, s \in Slots :
            TableView'[<<k, s>>] = IF <<k, s>> = cell THEN v
                                                     ELSE TableView[<<k, s>>]
      BY StoreCell DEF TableView, Cells
    <2>2. \A c \in Cells : TableView'[c] = IF c = cell THEN v ELSE TableView[c]
      BY <2>1 DEF Cells
    <2>3. /\ TableView = [c \in Cells |-> TableView[c]]
          /\ TableView' = [c \in Cells |-> TableView'[c]]
      BY DEF TableView
    <2> HIDE DEF v, cell
    <2>4. QED
      BY <2>2, <2>3, <1>3
  <1> HIDE DEF v, cell
  <1>9. Table!Fill(f, v)
    BY <1>1, <1>3, <1>4, <1>5, <1>6, <1>7, <1>8 DEF Table!Fill
  <1>10. QED
    BY <1>1, <1>9

LEMMA LoadLooks ==
  ASSUME IInv, NEW f \in Frames, Load(f)
  PROVE  Table!Look(f)
  <1> DEFINE cell == <<call[f].kernel, call[f].slot>>
  <1>1. call[f].kernel \in Kernels /\ call[f].slot \in Slots
    BY DEF IInv, TypeOK, Calls
  <1>2. cell \in Cells /\ cell # NoEntry
    BY <1>1, SetsAssumption DEF Cells
  <1>3. Cached(f) # NoEntry /\ TableView[cell] = Cached(f)
    BY <1>1, <1>2 DEF TableView, Load, Transition, IInv, FrameInv, Filled, Cached
  <1>4. Cached(f) \in Entries
    BY <1>1, <1>3 DEF IInv, TypeOK, Cached
  <1>5. /\ AskedView[f] = cell /\ AskedView'[f] = cell /\ AnswerView[f] = NoEntry
    BY DEF Load, Transition, IInv, TypeOK, AskedView, AnswerView, Answered, Raised
  <1>6. AnswerView'[f]
          = [kernel |-> Cached(f).kernel, constexprs |-> Cached(f).constexprs]
    BY DEF Load, Transition, IInv, TypeOK, AnswerView, Answered
  <1>7. AnswerView'[f] = TableView[cell]
    BY <1>3, <1>4, <1>6 DEF Entries
  <1>8. /\ AskedView' = [AskedView EXCEPT ![f] = AskedView'[f]]
        /\ AnswerView' = [AnswerView EXCEPT ![f] = AnswerView'[f]]
    BY ViewUpdate DEF Load, Transition, IInv, TypeOK
  <1>9. AskedView' = AskedView
    BY <1>5, <1>8 DEF AskedView
  <1>10. TableView' = TableView
    BY DEF Load, TableView
  <1> HIDE DEF cell
  <1>11. QED
    BY <1>2, <1>3, <1>5, <1>7, <1>8, <1>9, <1>10 DEF Table!Look

\* Raising inside the lock, raising at the launch, returning: the request is
\* closed (a raised call is closed when it raises, its Return is invisible).
LEMMA EndCloses ==
  ASSUME IInv, NEW f \in Frames,
         RaiseFirstRun(f) \/ RaiseLaunch(f) \/ Return(f)
  PROVE  Table!Close(f) \/ UNCHANGED Table!vars
  <1> USE DEF RaiseFirstRun, RaiseLaunch, Return, Transition, locals
  <1>1. call[f].kernel \in Kernels /\ call[f].slot \in Slots
    BY DEF IInv, TypeOK, Calls
  <1>2. <<call[f].kernel, call[f].slot>> # NoEntry
    BY <1>1, SetsAssumption
  <1>3. AskedView'[f] = NoEntry /\ AnswerView'[f] = NoEntry
    BY DEF IInv, TypeOK, AskedView, AnswerView, Answered, Raised
  <1>4. /\ AskedView' = [AskedView EXCEPT ![f] = AskedView'[f]]
        /\ AnswerView' = [AnswerView EXCEPT ![f] = AnswerView'[f]]
    BY ViewUpdate DEF IInv, TypeOK
  <1>5. TableView' = TableView
    BY DEF TableView
  <1>6. CASE pc[f] = "raised"
    <2>1. AskedView[f] = NoEntry /\ AnswerView[f] = NoEntry
      BY <1>6 DEF AskedView, AnswerView, Answered, Raised
    <2>2. AskedView' = AskedView /\ AnswerView' = AnswerView
      BY <1>3, <1>4, <2>1 DEF AskedView, AnswerView
    <2>3. QED
      BY <1>5, <2>2 DEF Table!vars
  <1>7. CASE pc[f] # "raised"
    <2>1. AskedView[f] # NoEntry
      BY <1>2, <1>7 DEF AskedView, Raised
    <2>2. QED
      BY <1>3, <1>4, <1>5, <2>1 DEF Table!Close
  <1>8. QED
    BY <1>6, <1>7

\* Looking, locking, compiling and launching do not show in the table.
LEMMA OtherStutters ==
  ASSUME IInv, NEW f \in Frames,
         \/ Check(f) \/ Acquire(f) \/ RecheckHit(f) \/ RecheckMiss(f)
         \/ Benchmark(f) \/ FirstRun(f) \/ Collect(f) \/ Release(f) \/ Launch(f)
  PROVE  UNCHANGED Table!vars
  <1> USE DEF Check, Acquire, RecheckHit, RecheckMiss, Benchmark, FirstRun, Collect,
              Release, Launch, Transition, locals
  <1>1. AskedView'[f] = AskedView[f] /\ AnswerView'[f] = AnswerView[f]
    BY DEF IInv, TypeOK, AskedView, AnswerView, Answered, Raised
  <1>2. AskedView' = AskedView /\ AnswerView' = AnswerView
    BY <1>1, ViewSame DEF IInv, TypeOK
  <1>3. TableView' = TableView
    BY DEF TableView
  <1>4. QED
    BY <1>2, <1>3 DEF Table!vars

LEMMA StepTable == IInv /\ [Next]_vars => [Table!Next]_(Table!vars)
  <1> SUFFICES ASSUME IInv, [Next]_vars PROVE [Table!Next]_(Table!vars)
    OBVIOUS
  <1>1. ASSUME NEW t \in Threads, NEW c \in Calls, Call(t, c) \/ NestedCall(t, c)
        PROVE Table!Next
    <2>1. PICK f \in Frames : Enter(f, c)
      BY <1>1 DEF Call, NestedCall, Frames
    <2>2. <<c.kernel, c.slot>> \in Cells
      BY DEF Calls, Cells
    <2>3. QED
      BY <2>1, <2>2, EnterAsks DEF Table!Next
  <1>2. ASSUME NEW f \in Frames, Step(f) \/ Raise(f)
        PROVE [Table!Next]_(Table!vars)
    BY <1>2, StoreFills, LoadLooks, EndCloses, OtherStutters
       DEF Step, Raise, Table!Next
  <1>3. CASE UNCHANGED vars
    BY <1>3 DEF vars, Table!vars, TableView, AskedView, AnswerView, Answered, Raised
  <1>4. QED
    BY <1>1, <1>2, <1>3 DEF Next, Terminated

\* LibEntry.run implements the write-once table of KernelTable: whatever the
\* interleaving, a call is answered by the content of its cell, and the first
\* stored answer of a cell is its answer for ever.
THEOREM ImplementsTable == Spec => TableSpec
  <1>1. Init => Table!Init
    BY DEF Init, Table!Init, TableView, AskedView, AnswerView, Answered, Raised, Cells
  <1>2. QED
    BY <1>1, Inductive, StepTable, PTL DEF Spec, TableSpec, Table!Spec
=============================================================================
