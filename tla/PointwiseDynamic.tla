-------------------------- MODULE PointwiseDynamic ---------------------------
(***************************************************************************)
(* utils/pointwise_dynamic.py: the functions every elementwise operator of *)
(* the library is made of.  A call turns its operands into strided buffers *)
(* over one task space (prepare_args), takes the overload for its rank, or *)
(* generates, writes, imports and publishes it, without a lock             *)
(* (instantiate), and runs it: the wrapper cuts the task space into tiles  *)
(* and the programs of the kernel stride over them.                        *)
(*                                                                         *)
(* The generated module lies in a directory all functions of a process and *)
(* all processes share, under a name that holds the scalar function, the   *)
(* rank and the kind of tiles but not the sizes the wrapper has built in.  *)
(***************************************************************************)
EXTENDS ShapeUtils

CONSTANTS
  Threads,
  INT32_MAX, \* the largest extent the fast path makes one axis of
  Workloads  \* what the threads call: [Threads -> sequences of calls]

\* A function: its scalar function, the kind of its tiles ("nd" or "1d") and
\* the sizes of its configuration.  A call: the function, the views it takes
\* as operands and the view it stores to, or NoOut, or InPlace for the first
\* operand.
NoOut == [shape |-> <<>>, stride |-> <<-1>>]
InPlace == [shape |-> <<>>, stride |-> <<-2>>]

IsView(v) ==
  v.shape \in Seq(Nat) /\ v.stride \in Seq(Nat) /\ Len(v.stride) = Len(v.shape)

IsPointwiseCall(c) ==
  /\ c.fn.max_tile_size \in Nat \ {0} /\ c.fn.max_grid_size \in Nat \ {0}
  /\ c.ins \in Seq(Range(c.ins)) \ {<<>>} /\ \A v \in Range(c.ins) : IsView(v)
  /\ c.out \in {NoOut, InPlace} \/ IsView(c.out)

ASSUME PointwiseAssumption ==
  /\ IsFiniteSet(Threads) /\ INT32_MAX \in Nat
  /\ \A w \in Workloads :
       /\ DOMAIN w = Threads
       /\ \A t \in Threads : /\ w[t] \in Seq(Range(w[t]))
                              /\ \A c \in Range(w[t]) : IsPointwiseCall(c)

VARIABLES
  overloads,  \* overloads[<<function, rank>>]: the module published, if any
  files,      \* files[name]: the sizes in the file now and in its bytecode
  loads,      \* loads[<<function, rank>>]: how often it has been loaded
  plan,       \* plan[t]: the calls thread t has still to make
  at,         \* at[t]: next statement of thread t
  task,       \* task[t]: task space and buffers of the call
  module,     \* module[t]: the overload it runs
  mem,        \* mem[t]: the storages of the operands, the output's last
  ran,        \* ran[t]: the programs of the kernel that have run
  stray       \* stray[t]: an element outside a storage was addressed

pointwise_vars == <<overloads, files, loads, plan, at, task, module, mem, ran, stray>>
shared == <<overloads, files, loads>>

Call(t) == Head(plan[t])
Ins(t) == Call(t).ins
Arity(t) == Len(Ins(t))

\* What the storage of operand k holds before the call.
Held(k, v) ==
  [a \in IF Addrs(v) = {} THEN {} ELSE 0 .. Max(Addrs(v)) |-> <<k, a>>]

OutGiven(t) == Call(t).out # NoOut
GivenOut(t) == IF Call(t).out = InPlace THEN Ins(t)[1] ELSE Call(t).out
Tensors(t) == Range(Ins(t)) \cup IF OutGiven(t) THEN {GivenOut(t)} ELSE {}

\* The storage of the output: in place it is the first operand's.
OutStorage(t) == IF Call(t).out = InPlace THEN 1 ELSE Arity(t) + 1

Before(t) ==
  [k \in 1 .. Arity(t) |-> Held(k, Ins(t)[k])]
    \o IF OutGiven(t) THEN <<Held(Arity(t) + 1, GivenOut(t))>> ELSE <<>>

Nothing == <<>>

PointwiseInit ==
  /\ overloads = Nothing /\ files = Nothing /\ loads = Nothing
  /\ plan \in Workloads
  /\ at = [t \in Threads |-> "idle"]
  /\ task = [t \in Threads |-> Nothing]
  /\ module = [t \in Threads |-> Nothing]
  /\ mem = [t \in Threads |-> Nothing]
  /\ ran = [t \in Threads |-> {}]
  /\ stray = [t \in Threads |-> FALSE]

-----------------------------------------------------------------------------
(***************************************************************************)
(* prepare_args                                                            *)
(***************************************************************************)
use_fast_path(views) ==
  /\ all_the_same_shape(views)
  /\ \/ all_c_contiguous(views)
     \/ all_the_same_stride(views)
          /\ \A v \in views : is_non_overlapping_and_dense(v)

\* One axis of more than INT32_MAX elements is left to the slow path.
fast_path_allowed(t) ==
  use_fast_path(Tensors(t)) /\ volume(Ins(t)[1].shape) <= INT32_MAX

task_shape(t) == broadcast_shapes([k \in 1 .. Arity(t) |-> Ins(t)[k].shape])

\* torch.empty_like: a dense view keeps its strides, any other one gets dense
\* ones.
empty_like(v) ==
  IF is_non_overlapping_and_dense(v) THEN v
  ELSE [shape |-> v.shape, stride |-> c_contiguous_stride(v.shape)]

Raises(t) ==
  /\ ~fast_path_allowed(t)
  /\ \/ task_shape(t) = Unbroadcastable
     \/ /\ OutGiven(t)
        /\ \/ GivenOut(t).shape # task_shape(t)
           \/ has_internal_overlapping(GivenOut(t))

\* The first tensor of the task's shape lends its layout to the output.
Allocated(t) ==
  LET fit == {k \in 1 .. Arity(t) : Ins(t)[k].shape = task_shape(t)}
  IN  IF fit # {} THEN empty_like(Ins(t)[Min(fit)])
      ELSE [shape |-> task_shape(t), stride |-> c_contiguous_stride(task_shape(t))]

OutView(t) == IF OutGiven(t) THEN GivenOut(t) ELSE Allocated(t)

\* Operands and output as buffers over the task space.
Prepared(t) ==
  LET views == Append(Ins(t), OutView(t))
  IN  IF fast_path_allowed(t)
        THEN [shape |-> <<volume(Ins(t)[1].shape)>>,
              strides |-> [k \in 1 .. Len(views) |-> <<1>>]]
        ELSE [shape |-> task_shape(t),
              strides |-> [k \in 1 .. Len(views) |->
                broadcasted_stride(views[k].shape, views[k].stride, task_shape(t))]]

Proceed(t, from, to) == at[t] = from /\ at' = [at EXCEPT ![t] = to]

Prepare(t) ==
  /\ plan[t] # <<>>
  /\ Proceed(t, "idle", IF Raises(t) THEN "raised" ELSE "lookup")
  /\ mem' = [mem EXCEPT ![t] = IF Raises(t) \/ OutGiven(t) THEN Before(t)
               ELSE Append(Before(t), Held(Arity(t) + 1, Allocated(t)))]
  /\ task' = [task EXCEPT ![t] = IF Raises(t) THEN Nothing ELSE Prepared(t)]
  /\ ran' = [ran EXCEPT ![t] = {}]
  /\ UNCHANGED <<shared, plan, module, stray>>

-----------------------------------------------------------------------------
(***************************************************************************)
(* instantiate                                                             *)
(***************************************************************************)
Rank(t) == Len(task[t].shape)
Overload(t) == <<Call(t).fn, Rank(t)>>
FileName(t) == <<Call(t).fn.scalar_fn, Rank(t), Call(t).fn.tiles>>
Sizes(t) == [max_tile_size |-> Call(t).fn.max_tile_size,
             max_grid_size |-> Call(t).fn.max_grid_size]

Put(f, x, y) == [z \in DOMAIN f \cup {x} |-> IF z = x THEN y ELSE f[z]]

Found(t) ==
  /\ Proceed(t, "lookup", "run")
  /\ Overload(t) \in DOMAIN overloads
  /\ module' = [module EXCEPT ![t] = overloads[Overload(t)]]
  /\ UNCHANGED <<shared, plan, task, mem, ran, stray>>

\* The module is generated and its file replaced; the bytecode of an earlier
\* version stays.
Write(t) ==
  /\ Proceed(t, "lookup", "load")
  /\ Overload(t) \notin DOMAIN overloads
  /\ files' = Put(files, FileName(t),
       [now |-> Sizes(t),
        bytecode |-> IF FileName(t) \in DOMAIN files
                       THEN files[FileName(t)].bytecode ELSE Nothing])
  /\ UNCHANGED <<overloads, loads, plan, task, module, mem, ran, stray>>

\* The file may be another function's by now.  Python takes the bytecode when
\* the file has the length and, in seconds, the time it was made for, so it
\* may be that of another version.
Load(t) ==
  /\ Proceed(t, "load", "publish")
  /\ \E sizes \in {files[FileName(t)].now, files[FileName(t)].bytecode} \ {Nothing} :
       /\ module' = [module EXCEPT ![t] =
            [rank |-> Rank(t), tiles |-> Call(t).fn.tiles, sizes |-> sizes]]
       /\ files' = [files EXCEPT ![FileName(t)].bytecode = sizes]
  /\ loads' = Put(loads, Overload(t),
       1 + IF Overload(t) \in DOMAIN loads THEN loads[Overload(t)] ELSE 0)
  /\ UNCHANGED <<overloads, plan, task, mem, ran, stray>>

\* What if the overload were only returned?
PublishNot(t) ==
  /\ Proceed(t, "publish", "run")
  /\ UNCHANGED <<shared, plan, task, module, mem, ran, stray>>

Publish(t) ==
  /\ Proceed(t, "publish", "run")
  /\ overloads' = Put(overloads, Overload(t), module[t])
  /\ UNCHANGED <<files, loads, plan, task, module, mem, ran, stray>>

-----------------------------------------------------------------------------
(***************************************************************************)
(* The wrapper's partition of the task space and the programs of the       *)
(* kernel.                                                                 *)
(***************************************************************************)
num_tasks(t) == volume(task[t].shape)

\* The extents of a tile; a kernel of 1d tiles numbers the tasks themselves.
TileSpace(t) == IF module[t].tiles = "1d" THEN <<num_tasks(t)>> ELSE task[t].shape
tile_sizes(t) ==
  heuristics_for_tile_size(module[t].sizes.max_tile_size, TileSpace(t))
tile_grid(t) ==
  [i \in 1 .. Len(TileSpace(t)) |-> cdiv(TileSpace(t)[i], tile_sizes(t)[i])]
num_tiles(t) == volume(tile_grid(t))
num_ctas(t) == Min({module[t].sizes.max_grid_size, num_tiles(t)})
tiles_per_cta(t) == cdiv(num_tiles(t), num_ctas(t))

Programs(t) == 0 .. num_ctas(t) - 1

\* tile_id = pid + j * num_ctas, beyond the last tile for some programs.
TilesOf(t, pid) == {pid + j * num_ctas(t) : j \in 0 .. tiles_per_cta(t) - 1}

\* The places of a tile, before they are masked.
Lanes(t, tile_id) ==
  LET id == unravel_index(tile_id, tile_grid(t))
      size == tile_sizes(t)
      lane == {f \in [1 .. Len(size) -> 0 .. Max(Range(size)) - 1] :
                 \A i \in 1 .. Len(size) : f[i] < size[i]}
  IN  {[i \in 1 .. Len(size) |-> id[i] * size[i] + l[i]] : l \in lane}

\* What if the end of the first axis were not looked at?
MaskedFirstOpen(t, place) ==
  \A i \in 2 .. Len(TileSpace(t)) : place[i] < TileSpace(t)[i]

\* mask, or the boundary check of a block pointer over all axes.
Masked(t, place) ==
  \A i \in 1 .. Len(TileSpace(t)) : place[i] < TileSpace(t)[i]

\* The multi-indices a program works on.
Elements(t, pid) ==
  {IF module[t].tiles = "1d" THEN unravel_index(place[1], task[t].shape) ELSE place :
     place \in {l \in UNION {Lanes(t, tile) : tile \in TilesOf(t, pid)} : Masked(t, l)}}

Slot(t, k, index) == Addr(task[t].strides[k], index)

Loaded(t, k, index) ==
  LET a == Slot(t, k, index)
  IN  IF a \in DOMAIN mem[t][k] THEN mem[t][k][a] ELSE Nothing

\* Loads of all operands, the scalar function, store.  Where two elements of a
\* program share a place of the output one of them is stored.
RunProgram(t, pid) ==
  /\ at[t] = "run" /\ num_tasks(t) > 0
  /\ pid \in Programs(t) \ ran[t]
  /\ ran' = [ran EXCEPT ![t] = @ \cup {pid}]
  /\ LET out == OutStorage(t)
         results == {<<Slot(t, Arity(t) + 1, i), [k \in 1 .. Arity(t) |-> Loaded(t, k, i)]>> :
                       i \in Elements(t, pid)}
     IN  /\ mem' = [mem EXCEPT ![t][out] =
              [a \in DOMAIN @ |->
                 IF \E r \in results : r[1] = a
                   THEN (CHOOSE r \in results : r[1] = a)[2] ELSE @[a]]]
         /\ stray' = [stray EXCEPT ![t] = @ \/
              \E r \in results : r[1] \notin DOMAIN mem[t][out]
                                   \/ Nothing \in Range(r[2])]
  /\ UNCHANGED <<shared, plan, at, task, module>>

Return(t) ==
  /\ Proceed(t, "run", "returned")
  /\ num_tasks(t) = 0 \/ ran[t] = Programs(t)
  /\ UNCHANGED <<shared, plan, task, module, mem, ran, stray>>

NextCall(t) ==
  /\ at[t] \in {"returned", "raised"}
  /\ at' = [at EXCEPT ![t] = "idle"]
  /\ plan' = [plan EXCEPT ![t] = Tail(@)]
  /\ UNCHANGED <<shared, task, module, mem, ran, stray>>

PointwiseNext ==
  \/ \E t \in Threads :
       \/ Prepare(t) \/ Found(t) \/ Write(t) \/ Load(t) \/ Publish(t)
       \/ Return(t) \/ NextCall(t)
       \/ at[t] = "run" /\ num_tasks(t) > 0
            /\ \E pid \in Programs(t) : RunProgram(t, pid)
  \/ (\A t \in Threads : plan[t] = <<>>) /\ UNCHANGED pointwise_vars

PointwiseSpec == PointwiseInit /\ [][PointwiseNext]_pointwise_vars
-----------------------------------------------------------------------------
(***************************************************************************)
(* Properties                                                              *)
(***************************************************************************)
\* The shape the operands have together, by the rule of broadcasting: aligned
\* at the right, an extent that is not 1 wins, and two such must be equal.
Extents(t, i, rank) ==
  {v.shape[i - rank + Len(v.shape)] :
     v \in {w \in Range(Ins(t)) : i - rank + Len(w.shape) >= 1}} \ {1}
CommonRank(t) == Max({Len(v.shape) : v \in Range(Ins(t))})
Compatible(t) ==
  \A i \in 1 .. CommonRank(t) : Cardinality(Extents(t, i, CommonRank(t))) <= 1
CommonShape(t) ==
  [i \in 1 .. CommonRank(t) |->
     Max(Extents(t, i, CommonRank(t)) \cup
           IF Extents(t, i, CommonRank(t)) = {} THEN {1} ELSE {})]

\* The element of operand k that belongs to an index of the result.
Operand(t, k, index) ==
  LET v == Ins(t)[k]
      d == Len(index) - Len(v.shape)
  IN  <<k, Addr(v.stride, [i \in 1 .. Len(v.shape) |->
                             IF v.shape[i] = 1 THEN 0 ELSE index[d + i]])>>

Result(t) ==
  {<<Addr(OutView(t).stride, i), [k \in 1 .. Arity(t) |-> Operand(t, k, i)]>> :
     i \in Indices(CommonShape(t))}

\* No two elements of a view lie in one place.
Apart(v) == \A i, j \in Indices(v.shape) : Addr(v.stride, i) = Addr(v.stride, j) => i = j

\* A call that returns has stored, at every index of the common shape of its
\* operands, the scalar function of the elements that broadcasting pairs
\* there, and nothing anywhere else.  Whatever strides the operands have, how
\* the task space was cut, in which order the programs ran and whose version
\* of the generated module was loaded.  Only of an operand that overlaps
\* itself and is stored to in place nothing is said: has_internal_overlapping
\* does not refuse all of them.
Elementwise ==
  \A t \in Threads : at[t] = "returned" /\ (Call(t).out = InPlace => Apart(Ins(t)[1])) =>
    /\ Compatible(t) /\ OutView(t).shape = CommonShape(t)
    /\ \A a \in DOMAIN mem[t][OutStorage(t)] :
         IF \E r \in Result(t) : r[1] = a
           THEN <<a, mem[t][OutStorage(t)][a]>> \in Result(t)
           ELSE mem[t][OutStorage(t)][a] = <<OutStorage(t), a>>

\* No program reads or writes outside of the storage of a tensor, although
\* the last tiles and the last stride of a program reach beyond the task
\* space.
InBounds == \A t \in Threads : ~stray[t]

\* The cache of overloads is not locked, but no function loads a module for a
\* rank more often than there are threads that can miss it at once.
FewLoads == \A o \in DOMAIN loads : loads[o] <= Cardinality(Threads)
=============================================================================
