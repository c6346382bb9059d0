------------------------------ MODULE LibEntry ------------------------------
(***************************************************************************)
(* LibEntry (utils/libentry.py): the front of every Triton kernel of the   *)
(* library.  A kernel keeps, per device, a dictionary from entry keys to   *)
(* compiled kernels.  A call whose key is missing performs the first run   *)
(* of the kernel under the kernel's lock and stores what it compiled; any  *)
(* other call launches the stored kernel without taking the lock.          *)
(*                                                                         *)
(* The first run of an autotuned kernel benchmarks its configurations: it  *)
(* launches the kernel on the caller's arguments, once or more for every   *)
(* configuration that has no measurement, before the launch the caller     *)
(* asked for.  Some autotuners undo what their benchmarks do to the        *)
(* arguments (restore_value, reset_to_zero), most do not.                  *)
(*                                                                         *)
(* The benchmark itself calls library operators (fill_ clears the L2       *)
(* cache, copy_ restores arguments): a call may be nested in another one,  *)
(* which then holds its own kernel's lock.  Nested calls go to kernels     *)
(* that are not autotuned, so one nested frame per thread is enough.       *)
(***************************************************************************)
EXTENDS Integers, FiniteSets

CONSTANTS
  Threads,     \* host threads calling the library
  Kernels,     \* LibEntry objects
  Tuned,       \* the kernels whose fn is an Autotuner
  Restoring,   \* those whose benchmarks leave the arguments as they were
  Devices,     \* DEVICE_COUNT devices
  Keys,        \* entry keys, what LibEntry.key returns
  Configs,     \* configurations the autotuner may settle on
  NoConfig,    \* the constexprs of a kernel that has no autotuner
  NoEntry,     \* no entry in the dictionary, or no local value yet
  NoFrame,     \* the lock is free
  MaxCalls,    \* bound: calls a thread makes
  MaxBench,    \* bound: launches by the benchmarks of one first run
  MaxNested,   \* bound: library calls made by one benchmark
  MaxFaults    \* bound: calls that raise

(***************************************************************************)
(* A frame is one activation of LibEntry.run: <<t, "call">> is the call a  *)
(* thread makes, <<t, "nested">> the one its benchmark makes.              *)
(***************************************************************************)
Frames == Threads \X {"call", "nested"}
Inner(f) == <<f[1], "nested">>

Slots == Devices \X Keys
Calls == [kernel : Kernels, slot : Slots]

\* A compiled kernel is known by what it was compiled for.
Compiled == [slot : Slots, config : Configs \cup {NoConfig}]
Entries == [kernel : Compiled, constexprs : Configs \cup {NoConfig}]

ASSUME SetsAssumption ==
  /\ Tuned \subseteq Kernels /\ Restoring \subseteq Tuned
  /\ Calls # {}
  /\ NoConfig \notin Configs
  /\ NoEntry \notin Entries /\ NoEntry \notin Kernels \X Slots
  /\ NoFrame \notin Frames
ASSUME BoundsAssumption ==
  /\ MaxCalls \in Nat /\ MaxBench \in Nat
  /\ MaxNested \in Nat /\ MaxFaults \in Nat

VARIABLES
  kernel_cache,  \* kernel_cache[k][<<device, key>>]: the stored entry
  lock,          \* lock[k]: the frame inside `with self.lock`
  best_config,   \* best_config[k]: attribute of k's Autotuner, shared by threads
  pc,            \* pc[f]: the next statement of the frame
  call,          \* call[f]: the kernel, device and entry key of the call
  kernel,        \* local variable: the compiled kernel
  constexprs,    \* local variable: the constexprs the grid is computed from
  exit,          \* exit[f]: how the `with` block is being left
  launches,      \* launches[f]: launches that left their effect on the
                 \* arguments of the call (history)
  benched,       \* benched[f]: launches made by the call's benchmarks (history)
  calls,         \* calls[t]: calls made so far
  nested,        \* nested[t]: library calls made by the running benchmark
  faults         \* calls that raised

vars == <<kernel_cache, lock, best_config, pc, call, kernel, constexprs,
          exit, launches, benched, calls, nested, faults>>

locals == <<call, kernel, constexprs, exit, launches, benched>>
counters == <<calls, nested, faults>>

Transition(f, from, to) ==
  /\ pc[f] = from
  /\ pc' = [pc EXCEPT ![f] = to]

\* No benchmark of this frame is inside another operator.
InnerDone(f) == f[2] = "nested" \/ pc[Inner(f)] = "idle"

\* The entry the call would find.
Cached(f) == kernel_cache[call[f].kernel][call[f].slot]

Init ==
  /\ kernel_cache = [k \in Kernels |-> [s \in Slots |-> NoEntry]]
  /\ lock = [k \in Kernels |-> NoFrame]
  /\ best_config = [k \in Kernels |-> NoConfig]
  /\ pc = [f \in Frames |-> "idle"]
  /\ call = [f \in Frames |-> CHOOSE c \in Calls : TRUE]
  /\ kernel = [f \in Frames |-> NoEntry]
  /\ constexprs = [f \in Frames |-> NoConfig]
  /\ exit = [f \in Frames |-> "done"]
  /\ launches = [f \in Frames |-> 0]
  /\ benched = [f \in Frames |-> 0]
  /\ calls = [t \in Threads |-> 0]
  /\ nested = [t \in Threads |-> 0]
  /\ faults = 0

\* Entering run: the arguments are sorted into spec, dns and const ones, the
\* entry key is built and the thread's current device is read.
Enter(f, c) ==
  /\ Transition(f, "idle", "check")
  /\ call' = [call EXCEPT ![f] = c]
  /\ kernel' = [kernel EXCEPT ![f] = NoEntry]
  /\ constexprs' = [constexprs EXCEPT ![f] = NoConfig]
  /\ launches' = [launches EXCEPT ![f] = 0]
  /\ benched' = [benched EXCEPT ![f] = 0]
  /\ UNCHANGED <<kernel_cache, lock, best_config, exit, faults>>

Call(t, c) ==
  /\ calls[t] < MaxCalls
  /\ calls' = [calls EXCEPT ![t] = @ + 1]
  /\ nested' = [nested EXCEPT ![t] = 0]
  /\ Enter(<<t, "call">>, c)

\* The benchmark of an autotuned kernel calls another operator on the same
\* device, from inside fn.run, with the lock of the tuned kernel held.
NestedCall(t, c) ==
  /\ pc[<<t, "call">>] = "fn_run"
  /\ call[<<t, "call">>].kernel \in Tuned
  /\ c.kernel \notin Tuned
  /\ c.slot[1] = call[<<t, "call">>].slot[1]
  /\ nested[t] < MaxNested
  /\ nested' = [nested EXCEPT ![t] = @ + 1]
  /\ Enter(<<t, "nested">>, c)
  /\ UNCHANGED calls

\* while entry_key not in cache -- read without the lock.
Check(f) ==
  /\ Transition(f, "check", IF Cached(f) = NoEntry THEN "acquire" ELSE "load")
  /\ UNCHANGED <<kernel_cache, lock, best_config, locals, counters>>

\* What if the lock were taken per device?
AcquirePerDevice(f) ==
  /\ LET h == lock[call[f].kernel] IN
     IF h = NoFrame THEN TRUE ELSE call[h].slot[1] # call[f].slot[1]
  /\ Transition(f, "acquire", "recheck")
  /\ lock' = [lock EXCEPT ![call[f].kernel] = f]
  /\ UNCHANGED <<kernel_cache, best_config, locals, counters>>

\* What if there were no lock?
AcquireAnyway(f) ==
  /\ Transition(f, "acquire", "recheck")
  /\ lock' = [lock EXCEPT ![call[f].kernel] = f]
  /\ UNCHANGED <<kernel_cache, best_config, locals, counters>>

\* with self.lock
Acquire(f) ==
  /\ lock[call[f].kernel] = NoFrame
  /\ Transition(f, "acquire", "recheck")
  /\ lock' = [lock EXCEPT ![call[f].kernel] = f]
  /\ UNCHANGED <<kernel_cache, best_config, locals, counters>>

\* if entry_key in cache: break
RecheckHit(f) ==
  /\ Cached(f) # NoEntry
  /\ Transition(f, "recheck", "release")
  /\ exit' = [exit EXCEPT ![f] = "load"]
  /\ UNCHANGED <<kernel_cache, lock, best_config, call, kernel, constexprs,
                 launches, benched, counters>>

\* What if the key were not looked up again under the lock?
RecheckMissUnchecked(f) ==
  /\ Transition(f, "recheck", "fn_run")
  /\ UNCHANGED <<kernel_cache, lock, best_config, locals, counters>>

RecheckMiss(f) ==
  /\ Cached(f) = NoEntry
  /\ Transition(f, "recheck", "fn_run")
  /\ UNCHANGED <<kernel_cache, lock, best_config, locals, counters>>

\* self._bench(*args, config=config): under the lock, before the autotuner has
\* settled on a configuration, the kernel is launched on the caller's
\* arguments.  Nothing of it stays if the autotuner restores the arguments.
Benchmark(f) ==
  /\ call[f].kernel \in Tuned
  /\ benched[f] < MaxBench
  /\ InnerDone(f)
  /\ Transition(f, "fn_run", "fn_run")
  /\ benched' = [benched EXCEPT ![f] = @ + 1]
  /\ launches' = IF call[f].kernel \in Restoring
                   THEN launches ELSE [launches EXCEPT ![f] = @ + 1]
  /\ UNCHANGED <<kernel_cache, lock, best_config, call, kernel, constexprs,
                 exit, counters>>

\* The rest of self.fn.run: the autotuner settles on a configuration, the one
\* it knows for these arguments or the fastest it has benchmarked
\* (best_config), the kernel is compiled with it and launched for the caller.
FirstRun(f) ==
  /\ InnerDone(f)
  /\ Transition(f, "fn_run", "collect")
  /\ LET k == call[f].kernel IN
     \E c \in IF k \in Tuned THEN Configs ELSE {NoConfig} :
       /\ best_config' = [best_config EXCEPT ![k] = c]
       /\ kernel' = [kernel EXCEPT
                       ![f] = [slot |-> call[f].slot, config |-> c]]
  /\ launches' = [launches EXCEPT ![f] = @ + 1]
  /\ UNCHANGED <<kernel_cache, lock, call, constexprs, exit, benched, counters>>

\* config = fn.best_config, read from the shared Autotuner.
Collect(f) ==
  /\ Transition(f, "collect", "store")
  /\ constexprs' = [constexprs EXCEPT ![f] = best_config[call[f].kernel]]
  /\ UNCHANGED <<kernel_cache, lock, best_config, call, kernel, exit,
                 launches, benched, counters>>

\* What if a first run fell through to the launch of the stored kernel?
StoreNoReturn(f) ==
  /\ Transition(f, "store", "release")
  /\ kernel_cache' = [kernel_cache EXCEPT ![call[f].kernel][call[f].slot] =
                        [kernel |-> kernel[f], constexprs |-> constexprs[f]]]
  /\ exit' = [exit EXCEPT ![f] = "load"]
  /\ UNCHANGED <<lock, best_config, call, kernel, constexprs, launches,
                 benched, counters>>

\* What if one dictionary served all devices at the store?
StoreAnyDevice(f) ==
  /\ Transition(f, "store", "release")
  /\ \E d \in Devices :
       kernel_cache' = [kernel_cache EXCEPT
         ![call[f].kernel][<<d, call[f].slot[2]>>] =
           [kernel |-> kernel[f], constexprs |-> constexprs[f]]]
  /\ exit' = [exit EXCEPT ![f] = "done"]
  /\ UNCHANGED <<lock, best_config, call, kernel, constexprs, launches,
                 benched, counters>>

\* What if the kernel were stored without its constexprs?
StoreKernelOnly(f) ==
  /\ Transition(f, "store", "release")
  /\ kernel_cache' = [kernel_cache EXCEPT
                        ![call[f].kernel][call[f].slot] = kernel[f]]
  /\ exit' = [exit EXCEPT ![f] = "done"]
  /\ UNCHANGED <<lock, best_config, call, kernel, constexprs, launches,
                 benched, counters>>

\* cache[entry_key] = (kernel, constexprs, ...)
Store(f) ==
  /\ Transition(f, "store", "release")
  /\ kernel_cache' = [kernel_cache EXCEPT ![call[f].kernel][call[f].slot] =
                        [kernel |-> kernel[f], constexprs |-> constexprs[f]]]
  /\ exit' = [exit EXCEPT ![f] = "done"]
  /\ UNCHANGED <<lock, best_config, call, kernel, constexprs, launches,
                 benched, counters>>

\* An exception leaves the `with` block: out of fn.run (a failed compilation,
\* a failed benchmark, a failed nested call) or while the constexprs are
\* collected.  Nothing is stored.
RaiseFirstRun(f) ==
  /\ faults < MaxFaults
  /\ pc[f] \in {"fn_run", "collect"}
  /\ InnerDone(f)
  /\ pc' = [pc EXCEPT ![f] = "release"]
  /\ exit' = [exit EXCEPT ![f] = "raised"]
  /\ faults' = faults + 1
  /\ UNCHANGED <<kernel_cache, lock, best_config, call, kernel, constexprs,
                 launches, benched, calls, nested>>

\* What if an exception left the lock taken?
ReleaseUnlessRaised(f) ==
  /\ Transition(f, "release", exit[f])
  /\ lock' = IF exit[f] = "raised"
               THEN lock
               ELSE [lock EXCEPT ![call[f].kernel] = NoFrame]
  /\ UNCHANGED <<kernel_cache, best_config, locals, counters>>

\* Leaving the `with` block, by the break, the return or the exception.
Release(f) ==
  /\ Transition(f, "release", exit[f])
  /\ lock' = [lock EXCEPT ![call[f].kernel] = NoFrame]
  /\ UNCHANGED <<kernel_cache, best_config, locals, counters>>

\* kernel, constexprs, ... = cache[entry_key]
Load(f) ==
  /\ Transition(f, "load", "launch")
  /\ kernel' = [kernel EXCEPT ![f] = Cached(f).kernel]
  /\ constexprs' = [constexprs EXCEPT ![f] = Cached(f).constexprs]
  /\ UNCHANGED <<kernel_cache, lock, best_config, call, exit, launches,
                 benched, counters>>

\* The grid is computed from constexprs and the kernel is launched on it.
Launch(f) ==
  /\ Transition(f, "launch", "done")
  /\ launches' = [launches EXCEPT ![f] = @ + 1]
  /\ UNCHANGED <<kernel_cache, lock, best_config, call, kernel, constexprs,
                 exit, benched, counters>>

\* The grid function, a missing parameter or the launch itself raises.
RaiseLaunch(f) ==
  /\ faults < MaxFaults
  /\ Transition(f, "launch", "raised")
  /\ faults' = faults + 1
  /\ UNCHANGED <<kernel_cache, lock, best_config, locals, calls, nested>>

\* return kernel, constexprs -- or the exception reaches the caller.
Return(f) ==
  /\ pc[f] \in {"done", "raised"}
  /\ pc' = [pc EXCEPT ![f] = "idle"]
  /\ UNCHANGED <<kernel_cache, lock, best_config, locals, counters>>

Step(f) ==
  \/ Check(f) \/ Acquire(f) \/ RecheckHit(f) \/ RecheckMiss(f)
  \/ Benchmark(f) \/ FirstRun(f) \/ Collect(f) \/ Store(f) \/ Release(f)
  \/ Load(f) \/ Launch(f) \/ Return(f)

Raise(f) == RaiseFirstRun(f) \/ RaiseLaunch(f)

\* All calls of the bound were made and answered.
Terminated ==
  /\ \A f \in Frames : pc[f] = "idle"
  /\ \A t \in Threads : calls[t] = MaxCalls
  /\ UNCHANGED vars

Next ==
  \/ \E t \in Threads, c \in Calls : Call(t, c) \/ NestedCall(t, c)
  \/ \E f \in Frames : Step(f) \/ Raise(f)
  \/ Terminated

Spec == Init /\ [][Next]_vars

(***************************************************************************)
(* A thread that is inside run keeps running: the scheduler of the host    *)
(* gives every thread its turn.  The lock is a plain semaphore, with no    *)
(* queue, so nothing stronger is assumed of Acquire than of the others.    *)
(***************************************************************************)
FairSpec == Spec /\ \A f \in Frames : WF_vars(Step(f))

(***************************************************************************)
(* Properties                                                              *)
(***************************************************************************)
Held(f) == pc[f] \in {"recheck", "fn_run", "collect", "store", "release"}

PCs == {"idle", "check", "acquire", "recheck", "fn_run", "collect", "store",
        "release", "load", "launch", "done", "raised"}

\* Every variable has its type: the locals of a frame and the entries of the
\* dictionaries of LibEntry.run are what the code puts there.
TypeOK ==
  /\ kernel_cache \in [Kernels -> [Slots -> Entries \cup {NoEntry}]]
  /\ lock \in [Kernels -> Frames \cup {NoFrame}]
  /\ best_config \in [Kernels -> Configs \cup {NoConfig}]
  /\ pc \in [Frames -> PCs]
  /\ call \in [Frames -> Calls]
  /\ kernel \in [Frames -> Compiled \cup {NoEntry}]
  /\ constexprs \in [Frames -> Configs \cup {NoConfig}]
  /\ exit \in [Frames -> {"load", "done", "raised"}]
  /\ launches \in [Frames -> Nat]
  /\ benched \in [Frames -> 0 .. MaxBench]
  /\ calls \in [Threads -> 0 .. MaxCalls]
  /\ nested \in [Threads -> 0 .. MaxNested]
  /\ faults \in 0 .. MaxFaults

\* The first run of a kernel is serialised over all threads and devices: two
\* frames are never both past the lock of the same LibEntry.
FirstRunSerialized ==
  \A f, g \in Frames :
    (f # g /\ Held(f) /\ Held(g)) => call[f].kernel # call[g].kernel

\* What a stored entry launches is what it was stored for: compiled for that
\* device and key, and with the configuration its constexprs (hence the grid
\* of every later launch) are taken from.  best_config is shared by all
\* threads, so this rests on nobody else running the autotuner in between.
EntryMatches ==
  \A k \in Kernels : \A s \in Slots :
    LET e == kernel_cache[k][s] IN
      e # NoEntry => e.kernel.slot = s /\ e.kernel.config = e.constexprs

\* The launches of the call's benchmarks whose effect stays on its arguments.
Traces(f) == IF call[f].kernel \in Restoring THEN 0 ELSE benched[f]

\* A call that returns has launched its kernel once for the caller, on its own
\* device and key, with a grid computed from the kernel's own configuration; a
\* call that raises, at most once.  Whatever else has been done to the
\* arguments, benchmarks did that are not undone: those of the first run of an
\* autotuned kernel, and of the calls that return for one device and key at
\* most one has made a first run.
AnsweredOnce ==
  \A f \in Frames :
    /\ pc[f] = "done" => /\ launches[f] = 1 + Traces(f)
                         /\ kernel[f].slot = call[f].slot
                         /\ kernel[f].config = constexprs[f]
    /\ pc[f] = "raised" => launches[f] \in {Traces(f), 1 + Traces(f)}
    /\ benched[f] > 0 => call[f].kernel \in Tuned
    /\ \A g \in Frames \ {f} :
         (pc[f] = "done" /\ pc[g] = "done" /\ call[f] = call[g])
           => benched[f] = 0 \/ benched[g] = 0

\* A stored entry is never replaced: the threads that read it without the
\* lock all launch the same kernel, and a key is stored by one first run.
EntryStable ==
  [][\A k \in Kernels : \A s \in Slots :
       kernel_cache[k][s] # NoEntry => kernel_cache'[k][s] = kernel_cache[k][s]]_vars

\* Every call ends, with a result or an exception, also when first runs nest
\* and when they raise with the lock held.
CallEnds == \A f \in Frames : pc[f] # "idle" ~> pc[f] = "idle"

(***************************************************************************)
(* The abstract view: a write-once table of kernels answering calls.       *)
(***************************************************************************)
Cells == Kernels \X Slots
Raised(f) == pc[f] = "raised" \/ (pc[f] = "release" /\ exit[f] = "raised")
Answered(f) ==
  pc[f] \in {"launch", "done"} \/ (pc[f] = "release" /\ exit[f] = "done")

TableView == [c \in Cells |-> kernel_cache[c[1]][c[2]]]
AskedView ==
  [f \in Frames |-> IF pc[f] = "idle" \/ Raised(f)
                      THEN NoEntry ELSE <<call[f].kernel, call[f].slot>>]
AnswerView ==
  [f \in Frames |-> IF Answered(f)
                      THEN [kernel |-> kernel[f], constexprs |-> constexprs[f]]
                      ELSE NoEntry]

Table == INSTANCE KernelTable WITH
  Requests <- Frames, Cells <- Cells, Values <- Entries, Nothing <- NoEntry,
  table <- TableView, asked <- AskedView, answer <- AnswerView

\* LibEntry implements the write-once table: every answer is the content of
\* the cell asked for at the moment it was read or written.
TableSpec == Table!Spec
=============================================================================
