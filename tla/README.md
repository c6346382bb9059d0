# FlagGems in TLA+

FlagGems replaces PyTorch operators by Triton kernels. Most of its source is
numerical kernels without shared state; what is modelled here is the part where
order, sharing, failure or index arithmetic decide about the result: the cache
in front of every kernel, the autotuner's database, the kernels whose programs
wait for each other, count each other in or meet on one element, the index
arithmetic every elementwise operator rests on, the random generator, and the
registration of the operators.

Paths below are relative to the repository; `utils/`, `ops/`, ... are below
`src/flag_gems/`.

## 1. The system and its parts

| part | state it keeps | operations | what makes it correct |
|---|---|---|---|
| **LibEntry** `utils/libentry.py` | per kernel and device, a dictionary from entry keys to compiled kernels; one lock per kernel | `run` | an entry is made once, by one first run, and matches what is launched with it |
| **LibTuner, LibCache** `utils/libentry.py` | `best_config` of the tuner; pools of table caches | `run`, policy, `get_key` | the configuration a run launches with is there, complete and the fastest measured |
| **SQL model** `utils/models/` | a database shared by processes; per process the metadata of `Base` and a pool of mapped classes | get/put of configurations and measurements, creation of tables | no row is lost; conflicting inserts and definitions are harmless |
| **Stream-K** `ops/mm_streamk.py` | output, locks, scratch slots on the device | `streamk_mm` and three kernels | every product in its tile exactly once; the programs end |
| **Philox** `utils/random_utils.py`, `ops/rand.py` and others | the generator's seed and offset | `philox_backend_seed_offset`, `set_philox_state` | no number is drawn twice; a state can be restored |
| **pointwise_dynamic** `utils/pointwise_dynamic.py` | generated overloads per rank, files in a code cache | `prepare_args`, `instantiate`, the generated wrapper and kernel | every element computed from the elements broadcasting pairs; whatever module is loaded |
| **shape_utils** | none | broadcasting, stride order, coalescing | results index the same elements |
| **radix sort** `ops/sort.py` | status words between programs | histogram, `sweep` | stable permutation; the look-back ends |
| **masked_select** `ops/masked_select.py` | partial sums, an arrival counter | two kernels | exclusive prefix of the counts |
| **scatter** `ops/scatter.py` | output, by compare-and-swap | generated kernel | every factor applied once |
| **moe_align_block_size** `fused/moe_align_block_size.py` | counters between four stages | four kernels | every token in one place of its expert's blocks |
| **enable / use_gems** `__init__.py`, `runtime/register.py` | the operators registered with PyTorch, a global registrar, log handlers | enable, enter, exit, `all_ops` | on inside a block, off outside; the registrar tells the truth |
| **ConfigLoader, DeviceDetector** `runtime/` | singletons of merged tables | lookups | the right table wins |
| other operators, fused operators, vendor backends, C++ operators, modules, patches | none beyond the above | | arithmetic, compared with PyTorch by the tests |

How they interact: an operator launches its kernels through `LibEntry.run`; a
tuned kernel's `fn` is a `LibTuner`, so the first run of a key happens inside
LibEntry's lock, goes through `LibTuner.run`, reads and writes the database, and
its benchmark calls further operators (`fill_`, `copy_`), which go through
LibEntry again, nested. Later calls of the same key touch neither lock nor
database. `streamk_mm` is two launches, ordered by the stream; inside the first
the programs communicate through locks in device memory. Random operators take
an offset from the generator on the host and hand it to the kernel. Elementwise
operators and `scatter` generate their kernels as Python files, import them and
keep them in a dictionary per function. `enable` and `use_gems` put all of it in
PyTorch's place.

What is hard here: threads racing on the entry dictionary and on the tuner's
attributes; locks held across nested calls and exceptions; processes writing the
same rows between each other's SELECT and INSERT, or dying half-way; spinning
device programs; index arithmetic that deals uneven work. `PROJECT.json` lists
each such place with the properties that watch it ("hazards").

## 2. Modules

### KernelTable, LibEntry, LibEntryProofs

`LibEntry` models `LibEntry.run` line by line. A *frame* is one activation of
`run`: `<<t, "call">>` for the call thread t makes, `<<t, "nested">>` for the one
its benchmark makes while the first is in `fn.run`. The `while` loop of the code
runs at most once, because every branch of its body leaves it; so it is `Check`
(the unlocked test), `Acquire`, `RecheckHit`/`RecheckMiss` (the test under the
lock), `Benchmark` and `FirstRun` (`fn.run`), `Collect` (reads `best_config`), `Store`,
`Release`. A found entry goes to `Load` and `Launch`. A `Benchmark` is a launch that
the autotuner makes on the caller's arguments, any number of times, before
`FirstRun` sets `best_config`, compiles and launches for the caller. What it does to
the arguments stays, unless the kernel is one of `Restoring`, whose autotuner puts
them back (`restore_value`, as in `ops/batch_norm.py:43`, `ops/index.py:60`,
`ops/index_put.py:59`); `AnsweredOnce` says so.
`RaiseFirstRun` and `RaiseLaunch` are the exceptions. A compiled kernel is the
record of what it was compiled for. Everything `run` does to sort its arguments
into the key and the launch list is one abstract entry key.

`KernelTable` is the abstract specification: cells that are written at most once
and requests answered by what their cell holds at the moment they look.
`LibEntry!TableSpec` is that specification under the mapping
`TableView`/`AskedView`/`AnswerView`; a request begins with `Enter`, is filled
with `Store`, looked up with `Load`, and closed by a return or an exception.

### RollbackSession, LibTuner, MC_LibTuner (proofs in CacheProofs)

`LibTuner.run` with the default policy, by processes that share a database. A
run looks its key up (`LookupHit`/`LookupMiss`), then for each configuration
takes the stored measurement (`BenchGetHit`) or measures and stores one
(`BenchGetMiss`, `Measure`, `PutBench`, `CommitBench`), chooses (`Choose`), stores
the choice (`PutConfig`, `CommitConfig`) and reads it back twice as the code does
(`ReadBack`, `ReadConfig`). A put is two actions because `session.merge` is a
SELECT and `session.commit` the INSERT or UPDATE. What the commit does given what the
SELECT saw is in `RollbackSession`, which SqlModel uses too: an INSERT, whose
IntegrityError is swallowed when another row is there by now, or an UPDATE of the
columns in which the put differs from the row it saw. Rows therefore have columns
here: a configuration is a row of `all_kwargs`, a measurement a tuple of three
quantiles, and updates of different columns mix. `Fail` is any statement that raises, `Crash` the
death and restart of a process. Within a process the runs of one kernel are
sequential: they happen under its LibEntry's lock. The pruned list is
`1 .. NConfigs`. `contended` and `crowded` remember that two, and that three
processes tuned a key at the same time; what holds for contended and for crowded keys
is weaker, and the properties say how. `MC_LibTuner` has the rows of the run.

### RowStore, SqlModel, SqlModelProofs, MC_SqlModel

How the tables under LibTuner come to exist. A call looks for its class in the
pool of the process (`Pool`), reflects the whole database into the metadata all
its classes share (`ReflectHit`, `ReflectMiss`), and a put then defines the class
(`Define`) and creates the table (`Create`). Metadata and pool belong to the
process and are not locked; only the calls on one table are kept apart, by the
lock of the kernel's LibEntry, which `Call` requires. `Get`, `Merge`, `Commit` are
the statements on rows, `NoTable` what they do when the class stands for a table
that does not exist. A failed `CREATE` leaves its table in the metadata (`Fail`),
and `Crash` loses metadata and pool and keeps the database. What SQLAlchemy does
is modelled as far as `sql.py` uses it: `prepare` adds what it reflects to the
metadata and maps a class to every table there, a name has one definition, and
each statement is atomic.

`RowStore` is the abstract specification: tables of rows that simply exist, which
is what LibTuner is written over. A put of it looks at the row at one moment and
writes at a later one, the columns in which it differs from what it saw; it is not a
store in which puts replace rows, because two puts that overlap can leave a row
nobody put. `SqlModel!StoreSpec` is that specification of the same `rows`, `call` and
`answer`, its `base` the row `session.merge` has found: a get ends at the statement that
reads the row, or at the reflection that finds no table, a put looks with `Merge` and
ends with `Commit`, and everything about tables is a stutter.

### StreamKSplit, StreamK, StreamKBf16, StreamKMm, StreamKProofs, MC_StreamKMm

`StreamKSplit` has the host side of `streamk_mm` (how many tiles the first wave
takes) and the arithmetic the kernels share: where a program's range of
iterations starts (`FirstIter`), where a segment ends, and which block of the
output a tile is (`swizzle_tile`). A launch is one of `Launches`, fixed in
`launch`. `StreamK` is `first_wave`: the program with the last part of a tile stores
its sum and raises the tile's lock, the others spin and add. `StreamKBf16` is
`first_wave_for_bf16`: the program with the first part collects the others' sums
from their slots. Each kernel program is a process; its registers are local, so
the multiply-accumulate loop is one step, and each access to global memory is a
step of its own. An element of a block is known by how often each slice of K has
gone into it; the output starts with stale contents, as `torch.empty` leaves it.
`StreamKMm` composes them: one of the two kernels as the first wave, then
`classic_mm` on the other tiles, both writing to the same output (`EndWave` is the
order of the stream), so that the split, the waves and the swizzle are right only
together. The thresholds of half and four fifths of a wave are exact fractions.

### ShapeUtils, PointwiseDynamic, MC_PointwiseDynamic (proofs in IndexingProofs and CacheProofs)

`ShapeUtils` has the functions of `utils/shape_utils.py` as operators on *views*,
records of shape and stride. `PointwiseDynamic` is a call of an elementwise
function by a thread: `Prepare` turns the operands into buffers over one task
space, on the fast path (`fast_path_allowed`: same shapes, layouts that agree, and no
more elements than `INT32_MAX`) or through broadcasting, and allocates the output or
raises; `Found`, or `Write`, `Load` and `Publish`, get the generated module, each
access to the unlocked dictionary and to the shared file a step of its own; then
the programs of the generated kernel run in any order (`RunProgram`), each over
its tiles, masked; `Return` is the end of the launch. What a storage holds is
known by the address it was loaded from, so a result is the tuple of addresses the
scalar function was applied to. `Load` may take the bytecode of an earlier version
of the file, as Python does when a file of the same length was replaced within a
second.

### Scatter, MC_Scatter (proofs in IndexingProofs)

The generated kernel of `scatter`, lane by lane. Storing and adding are one atomic
step per lane and block (`ScatterOnce`); multiplying is the compare-and-swap loop:
all lanes load (`LoadCurrent`), swap (`CompareAndSwap`, not masked: lanes that have
stopped swap the element for itself) and agree whether all have stopped (`Vote`,
the reduction in which a program's lanes meet). A product is the bag of its
factors; zeros have a sign, because the swap compares bits and the test for
success numbers; NaN is not equal to itself.

### UseGems, MC_UseGems (proofs in HostProofs)

`enable`, `use_gems` and `Register`. A caller filters the table (`Enable`,
`config_filter`: the indices of the entries that stay), registers operator by
operator, the one with the least index first (`register_impl`), raises at the
first one somebody has already registered (`register_error`) or becomes the global
registrar (`Bind`). A context is left in two steps, its library first (`Destroy`),
then the registrar, whoever's it is by then (`DelRegistrar`). `torch.library` is
external: an operator has at most one registration from Python, and before torch
2.5 a library goes when neither its context nor the registrar refers to it any more
(`Collected`); `has_destroy` is the version. Contexts overlap freely, which covers
nesting in one thread, threads, and exits out of order.

### Philox (proofs in HostProofs)

`philox_backend_seed_offset` by threads, in two steps (`GetState`, `SetState`),
and the counters a launch of `rand_kernel` uses (`ActiveLanes`, `Counter`, with
the 32-bit wrap of the low word as `Words`). `uniform_`, `normal`, `randn`,
`exponential_`, `dropout` use the same increment and the same counters (`exponential_`
of float64 with two elements a counter instead of four).

### StablePasses, RadixSort, RadixSortProofs

`RadixSort` is `radix_sort` on one row: `sweep` launched once per digit. A program
takes a tile and some bins; per bin it publishes its count (`Publish`), looks back
over the words of the earlier tiles (`LookBack`, disabled while the word is zero:
the spin), publishes the sum (`PublishPrefix`) and scatters its elements
(`Scatter`). Keys are the unsigned numbers the kernel converts values to; an
element carries the index it came from, as the kernel moves indices along. The
device holds `Resident` programs and starts those of a launch in order (`Start`).
Rows do not interact, so there is one. `StablePasses` is the abstract
specification of a launch: elements dealt by digit, equal digits in order;
`RadixSort!DealsSpec` says that `EndPass` is such a step and all else a stutter.

### MaskedSelect (proofs in IndexingProofs)

Both paths of `masked_select`. The programs of the first launch count their rows
(`StorePart`), count themselves in (`CountIn`), and the last one reads all sums
(`LoadSums`) and stores places (`Scan`); the second launch writes block by block
(`WriteBlock`). An element is its position, the output starts with stale contents.

### MoeAlign, MoeAlignProofs

The four launches of `moe_align_block_size`, one iteration of a program's loop a
step (the loop that names blocks is one step: its stores concern nobody else's
blocks). `Over`/`NextStage` is the order the stream gives the launches. Stores
beyond the end of a table extend it in the model, which `TypeOK` would report.

## 3. Runs

| run | question | bounds |
|---|---|---|
| `libentry` | is an entry stored once, for what it is launched with, and each call answered once? does it implement the table? does every call end? | 2 threads, an untuned kernel, a tuned one and one that restores, 2 devices, 1 key, 2 configurations, 1 call a thread, 1 benchmark launch and 1 nested call a first run, 1 exception |
| `libtuner` | are the stored rows complete, kept, whole, fastest, and there when read back? | 3 processes, 1 key, 2 configurations of 2 columns, 3 measurements, 1 run a process, 1 crash, 1 failure |
| `sqlmodel` | are tables that are created on the way a store of rows, and what explains their errors? | 2 processes, one with 2 threads, 2 tables, 1 key, rows of 2 columns of 2 values, 4 calls, 1 failed statement, 1 crash |
| `streamk_mm` | is every block of the product exact? who waits for whom, are slots kept, and does it end? | 6 launches, each for bfloat16 and another type: 2 tiles on 5 programs, 9 on 4 with a short last group of rows, 12 on 5 (one wave more), fewer iterations than programs, whole waves only, and no cooperative tile |
| `pointwise` | is the result the elementwise one, in bounds, and are modules loaded no oftener than they must? | all pairs of 12 views (scalar, gaps, transposed, cut out, expanded, one column, empty, rank 3, overlapping itself) with 6 outputs on 2 kinds of tiles of 2 lanes, 2 programs; 2 threads with 2 calls each of two functions that share a file |
| `scatter` | does every source go to its element once, and does the loop end? | all contents of 3 places, both axes of a transposed 2 by 3 matrix, 5 sources on 1 place with zeros and signs, an expanded source, a NaN; 2 programs of 2 lanes with 2 blocks |
| `usegems` | are operators on inside and off outside, does `all_ops` tell the truth, and when is there a NameError? | 3 contexts, 2 calls of enable, 4 keys of 2 functions, one patched in C++; any functions excluded; both sides of torch 2.5 |
| `radixsort` | are words and sums true, is each launch a stable pass, is the row sorted, and does the spinning end? | rows of 5 elements over 3 three-bit keys, a pass by two bits and one by the last, 3 tiles, 4 bins dealt as 3 and 1: 6 programs, 2 resident |
| `maskedselect` | does the last program scan complete counts, and is the output the selection? | all selections of 3 and of 9 elements, blocks of 2, 3 multiprocessors, one-program path up to 4 |
| `moealign` | one place for every token, in a block of its expert? | all batches of 1, 4 and 5 tokens, 3 experts, blocks of 2, both allocations |
| `philox` | is a counter ever used twice? can every offset be restored? | 2 threads, 2 calls each, sizes 1 and 21, one and two blocks of 4 lanes, from 0 or 8 short of the end of the low word |
| `philox_race` | (violated) does the offset advance by every increment? | 2 threads, 1 call each |

Why the bounds are enough. In LibEntry, two frames of two threads on one kernel
already give every race between a check, a first run and a load; the third
party, a nested frame, is there too, and a thread that comes late meets what was
stored; two devices give a kernel two cells under one lock, as two keys would. The
proofs take over for larger values. In LibTuner two processes and two configurations
give all orders of the two writes and of a crash between them; a row of mixed columns
takes three, one that inserts it and two that update what they both saw, and two
measurements that each differ from a third in another column. In
SqlModel two threads of one process and one of another are what a definition
between a reflection and another's CREATE takes, and a fault and a crash may fall
between any two statements. The stream-K launches were chosen so that the remainder
of the iterations is neither zero nor everything, ranges start and end inside tiles,
some tiles have one owner, some two, some three or four, and the number of tiles is
below, on and above the two thresholds.

The views of `pointwise` have every reason a stride can differ for: a gap, an order
of axes, an expansion, an extent of one or zero, a missing axis; pairs of them meet
both paths of `prepare_args` (9 elements are more than the `INT32_MAX` of the run), and
extents of 2, 3 and 9 leave tiles and strides of
programs incomplete. In `scatter` two lanes of one program and two programs meet on
one element, a lane lies beyond the end, and a program handles a second block. In
`usegems` three contexts are enough for an exit between the entry and the exit of
two others, and registrations that stop half-way come of different exclusions.

A radix sort of two passes shows that the second keeps the first; tiles of two
and a short last one show order within and between tiles, three keys leave bins
without elements in some tiles, and three tiles give look-backs that meet counts
and sums. A program of three bins goes round its loop, one of a single bin does
not, and the second digit has one bit only. Two residents of six programs make the next one wait for room while
another spins. In MaskedSelect nine elements make five blocks on three programs, the last
of which has one short block. In MoeAlign four tokens leave one program idle,
five give programs of two, two and one, and experts get none, part of a block,
or several blocks.

Symmetry is used in `sqlmodel` (threads of one process, tables, columns, data),
`libtuner` (processes) and `usegems` (contexts, calls), which have no liveness property. Every property has a mutant in `PROJECT.json`, a plausible slip in one
mapped definition that the property's own run detects; the mutated forms stand
beside the definitions, under "What if".

The `map` in `PROJECT.json` ties definitions to source lines. A definition that only
names a number or a view computed inside the lines of a larger one (the grid of a
launch, say) has no entry of its own.

## 4. Fairness

Liveness assumes weak fairness of a frame's, process's or program's own steps.
- *LibEntry*: the host schedules every runnable thread. The lock is a plain
  semaphore and promises no order, so `Acquire` gets weak fairness only, and
  calls per thread are bounded: without the bound a thread could overtake
  another forever. A benchmark or compilation is assumed to end; the benchmarks of a
  first run are as many as there are configurations, here `MaxBench`.
- *Stream-K*: `streamk_mm` launches as many programs as the device has
  multiprocessors, so all are resident and none waits for another to leave. This
  is what makes spinning safe. The programs of `classic_mm` wait for nothing.
- *Scatter*: the lanes of a started program make progress; a program waits only for
  its own lanes.
- *Radix sort*: a launch has more programs than the device holds, so a program
  that was started makes progress and the next one is started when there is
  room, in the order of program identifiers. Nothing is assumed of programs not
  started. The programs a started one spins on were started before it; with any
  other order the launch could hang, and that order is the hardware's habit and
  not Triton's promise.

New calls, exceptions and crashes are never assumed to happen.

## 5. Proofs

Everything here is checked by the proof system for all values of the constants,
under the named assumptions of the modules, which only give constants their
types and keep model values apart (`SetsAssumption`, `BoundsAssumption`,
`KeysAssumption`, `MeasurementsAssumption`, `ConfigsAssumption`, `NoRowAssumption`,
`ProcessAssumption`, `ValuesAssumption`, `IdleAssumption`, `SplitAssumption`, `CallersAssumption`, `LibrariesAssumption`,
`MoeAssumption`, `MaskedSelectAssumption`, `PhiloxAssumption`, `RadixAssumption`,
`StaleAssumption`, `PointwiseAssumption`, `ScatterAssumption`); the last two also say
what tensors are, views with a stride for each extent, of which a pointwise call has at
least one (`IsPointwiseCall`), and what torch asks of the arguments of `scatter`
(`IsCall`). Nothing is assumed
of how a launch's numbers divide each other, of a batch, of a mask, or of the
operators a context leaves out.

*LibEntryProofs.* Type correctness, `FirstRunSerialized`, `EntryMatches`,
`AnsweredOnce`, `EntryStable` and `Spec => TableSpec`. The safety properties are not
inductive. What carries them is the lock: a frame that is past `Acquire` is the
frame the lock names. With that, only that frame can change the kernel's
`best_config` or the missing entry, so between `FirstRun` and `Collect` the
configuration in `best_config` is the one compiled with, and between `RecheckMiss`
and `Store` the cell stays empty. For `AnsweredOnce` launches are counted: before
`FirstRun` a frame's arguments have seen its benchmarks only (`Traces`), and a call
that is answered by a first run has filled a cell that was empty, so no other call
for that device and key was answered by one before (`OneTuner`). The refinement maps
`Enter` to `Ask`, `Store` to `Fill`, `Load` to `Look`, a return or an exception to
`Close`, and all else to a stutter. `EntryStable` is not checked by a run of its
own: it is what `TableSpec` says of a filled cell.

*CacheProofs*, about LibTuner. Type correctness, `NoKeyError`, `FullyMeasured`,
`StoredIsFastest`, `RowsWhole` and `RowsKept`. Columns of a stored row come from rows
somebody put, whatever updates do (`CommittedMixed`), and this is the type of rows.
On a key that was never crowded they come from one row (`WholeInv`): whoever finds a row
to UPDATE is the only one left that writes it, because another one that could was
tuning when the row was not there yet, and so was the row's author, and that makes
three. An UPDATE of a row as it was found leaves the row of the put (`UpdatedWhole`).
Rows are only ever filled (`RowsOnlyFill`), which holds of a swallowed IntegrityError
because there the other row stands.
`RunInv` says what a run knows whatever the others do: the rows of the
configurations before its cursor are there; after the last, all are. `AloneInv`
says what it knows besides on an uncontended key: it is the only one tuning, its
dictionary of timings is what the table holds, and there is no configuration
yet. The second needs the first, so the inductive invariant is their
conjunction.

*CacheProofs*, about PointwiseDynamic. `FewLoads`. Until a module is published for
the first time, it has been loaded by the threads that are about to publish it;
from then on the loads still to come are of threads that have missed it before,
and neither kind of thread is of the other (`LoadsCounted`). Views, tiles and
programs do not matter for this and appear in no hypothesis.

*SqlModelProofs.* `StoreSpec` and `ErrorsExplained`, for any number of processes,
threads, tables, faults and crashes. The classes of a process run ahead of the
database in two cases, and the inductive invariant `SqlInv` is that there is no
third: a table in the metadata exists, or its `CREATE` failed in this process, or a
thread of this process is about to issue it (`MetadataOK`); one in the pool exists
or has failed (`PoolOK`), because the thread that pools a class out of the metadata
is the only one working on that table (`Apart`). `SessionOK` and `DefineOK` carry
this to the statements that raise. For the refinement it matters besides that a
table that is not there has no rows (`NoTableNoRows`), so that the get which ends at
the reflection answers as the store does, and that only puts commit (`PutsWrite`).
`Call` is mapped to `Call`, `Get` and the `ReflectMiss` of a get to `Get`, `Merge`
to `Look` where it finds the table, `Commit` to `Put`, `NoTable`, `Fail` and a
refused `Define` to `Raise`, `Crash` to `Die`, all else to a stutter.

*StreamKProofs.* `TileExact`, `SpinsOnWorking`, `CollectsInStep`, `SlotKept` and
`ProductExact`, for every grid, number of multiprocessors and group size, both
element types and all three launches. Three groups of lemmas come first. The split:
the ranges `FirstIter` deals are contiguous, so every cooperative iteration has an
owner and only one (`HasOwner`, `OneOwner`). The swizzle: no block is met twice and
every block is met, also where the last group of rows is short
(`SwizzleInjective`, `SwizzleOnto`). Segments: one lies in one tile and ends with it
or with the range (`SegmentFacts`). The invariant `MmInv` speaks of iterations that
have been *processed*, which `start_iter` alone decides. In `first_wave` it says
that nobody hands in a part of a tile before the end of the tile has been stored
(`StoredFirst`), which a raised lock means (`LockMeans`), and that from then on the
tile holds one product for each processed iteration and none for the others
(`Exact`). `TileExact` is the part of `Exact` under a raised lock and is not
inductive, because between the store and the raising the lock says nothing.
`SpinsOnWorking` follows: the owner of the last iteration of the tile spun on has
not stored it or is about to raise its lock (`Raised`), and its segment ends the
tile, so that it does not spin. In `first_wave_for_bf16` a slot is raised if and
only if its program is through with a first segment that does not begin a tile, and
then holds that segment's sum (`SlotMeans`); a collector stands at a boundary
between two ranges and has the sum up to it (`Collecting`). After the wave every
cooperative tile is complete (`WaveDone`): an iteration nobody processed would have
an owner who is not through. `classic_mm` adds one tile a program (`RanDone`).

*HostProofs*, about UseGems. `Scoped`, `AllOpsOn` and `NameErrorOverlap`. The three are one
invariant, `GemsInv`: a living call owns what it has listed (`Owned`), what is not
listed is still to be done (`Listed`), nothing is once it is entered (`Complete`),
and a registrar, while there is one, is that of a call which has not been left
(`Registrar`), so that no collection takes what it lists. A context that is open and
has met no other finds the name it deletes (`Overlap`).

*MoeAlignProofs.* `TypeOK`, `RankExact` and `Aligned`. `Before(x, e)` is the number
of tokens of expert e before token x. Each launch leaves the table of counters a
step nearer to it: counts of a program's own part (`Counted`), sums over the
programs before it (`Summed`), and these again while the program's own tokens go on
being counted (`Ranks`). `Sums` says what the starts of the experts' blocks are, and
bounds them by what the caller allocates for the worst case, which is why no store
is beyond an end. A token goes to `Place(j)`, the start of its expert and its rank
there; no two tokens have the same one (`PlaceUnique`), so the placed tokens and the
filled places are in bijection (`Places`), which is the `Aligned` cardinality, and
the ranks below one that is taken are taken (`NoGap`). The stores of the loop that
names blocks are disjoint because the starts are multiples of the block
(`OwnBlocks`).

*HostProofs*, about Philox. `Restorable`: what is added is a multiple of four
(`RoundedByFour`), and a lost update does not change that. `NoRepeat`: without a race
the windows of offsets that were drawn and not used yet are disjoint and lie below
the generator's state (`WindowsApart`). A launch of whole blocks uses just its
window (`LanesDrawn`), and two offsets less than `Words` apart have different
counters (`WindowMod`), so what has been used comes from outside all windows
(`UsedOnce`). The first offset is arbitrary: the low word may wrap anywhere.

*RadixSortProofs.* `WordsTrue`, `SortedStably` and `DealsSpec`, for every row, tile,
number of bins of a program, number of bits of a digit and of a key, and number of
resident programs. `To(f, p, x)` is where pass p deals element x of row f: the number
of elements with a smaller digit or the same digit and a smaller index. That order
is total, so `To` is a bijection of the row (`ToOrder`, `ToOnto`); a dealt row has the
same elements (`DealtType`), the same histogram, which is why one histogram serves
all passes (`DealtCounts`), and is sorted by one digit more (`DealtSorted`). The
inductive invariant `RadixInv` has `WordsTrue` in it, and besides: a program that
scatters has the sum over all tiles before its own (`LookBackOK`), what programs
have scattered is at `To` (`DealtSoFar`), and the row is sorted by the digits of the
passes done (`SortedSoFar`). A sum of counts is a count because the tiles looked back
over are next to each other (`CountInAdds`); that and the histogram make the place
a program computes `To` (`PosIs`). At the end of a launch every bin of every tile had
its program (`OwnerFacts`), also when the bins or the tiles do not divide evenly, so
the launch is `Deal`. Low bits of a key are a remainder by a power of two
(`Low`, `LowNext`), and those of all passes are the key (`LowEnds`), also when the last
digit is short. The powers are a recursive function, `pow2`; that it satisfies its
recursion, and that powers multiply (`Pow2Def`, `Pow2Sum`), is proved from a least
counterexample.

*IndexingProofs, masked_select.* `ScannerLast` and `SumsComplete`. The counter is the number
of programs that have counted themselves in (`CounterCounts`), so the one that
reads `np - 1` finds all others in that set, by the cardinality of finite sets;
none of them can be the scanner, because a scanner has everybody else gone
(`OthersLeft`). The sums are counts as long as somebody is not through
(`CountsStored`), so that is what it reads. `Compacted`: what is scanned is, for each
row, the number of selected elements before it (`ScanFacts`, `PlacesScanned`). In
the second launch a program's place is the number of those before its next block
(`Writing`), and within a block an element's place is its rank (`PlaceIsRank`), so
that programs write to different places and only what belongs there (`Packed`).

*IndexingProofs, scatter.* `Scattered`, for calls of any rank. `volume` and `Addr` are
folds; what they compute is pinned down by their partial results (`VolumeIs`, `AddrIs`:
the fold is a recursive function on sets of places, and that it exists is proved from a
least counterexample). With that the elements behind each axis are the weights of a
number system with the extents as bases (`BehindWeights`), an offset below the volume
has the multi-index `Mods` as its digits (`DigitsUnique`, `DigitsReach`), so offsets and
places of index are one to one (`ModsFacts`), and taking the axis `dim` out of the
strides and adding its offset leads where the moved multi-index leads (`AddrMoved`).
The invariant (`ScatterInv`) relates each element to the offsets done so far that lead
to it (`Done`, `Right`): it is untouched, one of their sources, or the bag of all their
sources; of a product it may instead be a zero or a NaN that one of its sources
accounts for. An offset is done once its lane has gone on, or has stopped in its
block. What needs an argument is the swap: one that succeeds adds a source
that was not done (`PastIs`: no other lane and block has that offset), one by a lane
that has stopped, or lies beyond the end, swaps the element for itself, and one that
fails but passes for successful has met the other zero, which stays (`RightZero`).

*IndexingProofs, pointwise_dynamic.* `InBounds`, for any threads and calls, ranks, shapes
and strides. It takes four arguments. An index of the task space leads into the storage
of every operand: broadcasting, a fold over the operands, gives a shape that each
operand fits, aligned at the right and with its extent or an extent of one
(`BroadcastFits`, `ShapesFit`); a stride that is 0 where the extent is stretched makes
the address that of an index of the operand (`ShownAddr`), and no index of an operand
has a higher address than the last (`AddrGrows`, `ElementsStored`). On the fast path,
where the task space is one axis of steps of 1, a contiguous or dense storage of that
many elements has them all (`StorageFilled`). The output has the task's shape
whether given or allocated (`OutFacts`). And what a program works on, after the mask,
are indices of the task space, whatever sizes the module it was handed was generated
with, as long as they are positive (`TilesFacts`, `ElementsInside`). The invariant
(`BoundsInv`) says that the storages of a call in progress are those of its views, with
something in every place, and that whatever overload, file or bytecode a thread
may get has positive sizes.

`Elementwise`, for the same calls. The fold of `broadcast_shapes` is the rule of
broadcasting: each of its extents is drawn from an operand (`ShapesDrawn`), every
operand fits it, so it is the one extent that is not 1 (`CommonFacts`). An index of the
task space stands for an index of the common shape (`ResultsMatch`): without the fast
path it is that index, and each slot is the address of the operand's element
(`ShownAddr`, `OperandIs`); on the fast path it is an offset, and since all buffers are
contiguous, or dense with the same strides (`FastViews`), the offset is the address of
one and the same index in all of them (`ContiguousAddr`, `FastPlaces`). The programs part
the task space: the tile of a place is what the division of its coordinates by the
tile's extents gives (`LaneOf`, `TileOf`, with the number system of the grid), the
program of a tile its remainder by the number of programs (`ProgramOf`), and the offsets
a kernel of 1d tiles unravels are one-to-one with the indices (`ElementsParted`). The
invariant (`ResultInv`, beside `BoundsInv`) says that each place of a storage
holds what it held before the call, unless it is the output's of an index that is done;
then it holds that index's operands (`Stored`). A program therefore finds the elements
the call began with, in place too (`OperandsFound`): where the operand is the output an
index is loaded from where it is stored, and two indices share no place
(`PlacesApart`), so no other program has been there. That is why the property asks
`Apart` of an operand that is stored to in place; without it TLC finds the operand of
shape 2 x 2 and strides 1, 1 wrong.

Facts about all numbers below a bound are proved there without an induction rule, by
way of a least element: a set of naturals without one is empty (`LeastNat` and its
like; `ScanFacts` takes the least place at which the recursive sum is wrong).

Only model-checked: liveness (`CallEnds`, `Returns`, `SortEnds`, `Ends`),
which is out of the prover's reach; and `AllAdded`, which does not hold.

## 6. Findings and limits

- **Lost increments** (`philox_race`). `philox_backend_seed_offset` reads the
  state, adds to a copy and sets it, without a lock; its comment
  (`utils/random_utils.py:36-37`) says that it returns the current state and
  updates the next offset by adding `increment`. Of two threads drawing at the
  same time both may get the same offset, and one increment is lost.
- `NoRepeat` is stated for whole blocks. For other sizes `rand` advances the
  generator by a quarter of the elements while a partly filled program uses a
  counter per active lane, so the next call starts inside counters already used.
- A contended key may end up with a configuration that is not the minimum of its
  stored times: a late merge may overwrite a measurement after the choice. A key that
  three processes tune at once may end up with a row that mixes columns of two
  measurements, or of two configurations: two UPDATEs of different columns of the row
  the third has inserted (`utils/models/sql.py:189-192`, `216-219`).
- The first run of a tuned kernel whose autotuner does not restore its arguments works
  on them once for every benchmark before it does so for the caller. The kernels that
  accumulate into what they are given (`ops/batch_norm.py`, `ops/index_put.py`) restore
  it; the others that are tuned must not depend on how often they run. That of
  `ops/randperm.py` finds the status words of its benchmarks: they are true, since the
  configurations differ in the number of warps only, but a launch that finds them no
  longer waits for anybody.
- Two imports of one generated module have a LibEntry each, hence a lock each: their
  first runs are not serialised (`utils/pointwise_dynamic.py:1241`). No property sees
  this.
- Entry keys contain the types of do-not-specialize arguments and not their
  values, so the tuner's own key is consulted on first runs only. `EntryMatches`
  relates an entry to the configuration it was compiled with and does not say
  that this is the best one for later arguments.
- Device memory is sequentially consistent here. The barrier between the store
  of a slot and the raising of its lock is commented out in
  `ops/mm_streamk.py:360`; that the exchange releases the stores is assumed.

- A process whose `CREATE TABLE` failed keeps the table in its metadata: it pools a
  class for it at the next call and raises "no such table" from then on, until
  another process creates the table (`utils/models/sql.py:104-112`).
  `ErrorsExplained` says that nothing else leads there.
- An `enable` that meets a registered operator raises after it has registered others,
  which stay for ever, so that no later `enable` that includes them succeeds
  (`runtime/register.py:48-53`); so does a `use_gems` inside an `enable`, as in
  `runtime/backend/_ascend/fused/rotary_embedding.py:239`, until its exception is
  dropped. Leaving the outer of two nested contexts raises NameError
  (`__init__.py:382`), and `all_ops()` fails after any context was left, although an
  earlier `enable` may be in force.
- The file handler of the first recording call stays on the logger
  (`logging_utils.py:36-37`) and leaving a context clears the handlers of the root
  logger only (`__init__.py:384`): a later block that asks for another `path`
  (`docs/how_to_use_flaggems.md:52`) logs to the first file. Calls that record are
  not modelled.
- The loop of a product in `ops/scatter.py:170-187` does not end when a lane has
  loaded a NaN. The kernel applies the strides of `inp` to `out`; only calls where
  they agree are modelled (`scatter_`, and `scatter` of a dense `inp`). Offsets are
  always 32 bits wide (`int32_offset or True`, line 231); no width is modelled.
- In PointwiseDynamic, calls have tensor operands and one output; rank 0 of the
  generator is never asked for by `__call__`, and an output that overlaps an operand
  in other places than its own is promised nothing by the code. An operand that
  overlaps itself and is stored to in place is refused only if a stride of it is 0
  (`has_internal_overlapping`, `utils/shape_utils.py`): of the others some elements are
  computed from results already stored, and `Elementwise` leaves them out.
- The tables of SqlModel have one set of columns each. What comes of a row with other
  columns (the benchmark table's name leaves out the configurations,
  `utils/libentry.py:285`) is decided by SQLAlchemy and the database.

Not modelled, and why: the numerical content of kernels (floating-point
arithmetic; this is most of the source, which is why the modelled share of its
lines is small); the text the code generators produce; device probing, files and
logging (I/O); the merging of configuration tables at import (sequential, no shared
state); vendor copies of operators (same protocols); C++ operators (external JIT).

## 7. Plan

1. *Done*: LibEntry over KernelTable; LibTuner over the database and SqlModel over
   RowStore; the whole of `streamk_mm`; PointwiseDynamic with ShapeUtils; Scatter;
   the radix sort over StablePasses; MaskedSelect; MoeAlign; Philox; UseGems. Proved:
   the safety properties of all of them.
2. `ConfigLoader`: precedence of vendor, default and generated tables.
