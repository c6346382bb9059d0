---------------------------- MODULE StreamKSplit ----------------------------
(***************************************************************************)
(* What streamk_mm of ops/mm_streamk.py decides before it launches         *)
(* anything: how many tiles of the output the first wave computes          *)
(* cooperatively, how the inner iterations of these tiles are dealt out to *)
(* the programs of the wave, and where swizzle_tile puts a tile in the     *)
(* output.  The iterations of all tiles are numbered one after the other,  *)
(* and program pid works on a contiguous range of them, a segment of one   *)
(* tile at a time.                                                         *)
(*                                                                         *)
(* A product is of one of the Launches, and `launch` is the one it is of.  *)
(***************************************************************************)
EXTENDS Integers

CONSTANTS
  Launches,  \* block rows and columns of the output, BLOCK_K slices of the
             \* inner dimension, multiprocessors of the device
  GROUP_M    \* block rows of one group of tiles

ASSUME SplitAssumption ==
  /\ Launches \subseteq [grid_m : Nat \ {0}, grid_n : Nat \ {0},
                         iters_per_tile : Nat \ {0}, sm_count : Nat \ {0}]
  /\ GROUP_M \in Nat \ {0}

VARIABLE launch

grid_m == launch.grid_m
grid_n == launch.grid_n
iters_per_tile == launch.iters_per_tile
sm_count == launch.sm_count

total_tiles == grid_m * grid_n

MinOf(a, b) == IF a <= b THEN a ELSE b

\* Fewer than half a wave left over: take one whole wave more.  More than
\* four fifths of one: leave everything to classic_mm.
cooperative_tiles ==
  LET rest == total_tiles % sm_count
      others == total_tiles - rest
  IN  IF others > 0 /\ 2 * rest < sm_count THEN rest + sm_count
      ELSE IF others > 0 /\ 5 * rest > 4 * sm_count THEN 0
      ELSE rest

\* What if only the column took the group for a full one?
swizzle_full_columns(tile_id) ==
  LET width == GROUP_M * grid_n
      group_id == tile_id \div width
      group_size == MinOf(grid_m - group_id * GROUP_M, GROUP_M)
  IN  << group_id * GROUP_M + (tile_id % group_size),
         (tile_id % width) \div GROUP_M >>

\* The block <<pid_m, pid_n>> of the output that a tile is.
swizzle_tile(tile_id) ==
  LET width == GROUP_M * grid_n
      group_id == tile_id \div width
      group_size == MinOf(grid_m - group_id * GROUP_M, GROUP_M)
  IN  << group_id * GROUP_M + (tile_id % group_size),
         (tile_id % width) \div group_size >>

Blocks == (0 .. grid_m - 1) \X (0 .. grid_n - 1)
Slices == 0 .. iters_per_tile - 1

Pids == 0 .. sm_count - 1
AllPids == UNION {0 .. l.sm_count - 1 : l \in Launches}
Tiles == 0 .. cooperative_tiles - 1
TotalIters == cooperative_tiles * iters_per_tile
Iters == 0 .. TotalIters - 1

iters_per_pid == TotalIters \div sm_count
iters_remaining == TotalIters % sm_count

\* start_iter of program pid; last_iter is the start of the next program.
FirstIter(pid) == pid * iters_per_pid + MinOf(pid, iters_remaining)

\* The tile an iteration belongs to, its place in it and in the output.
TileOf(i) == i \div iters_per_tile
OffsetInTile(i) == i % iters_per_tile
BlockOf(i) == swizzle_tile(TileOf(i))

\* The segment of a program that has come to iteration i ends with the tile
\* or with the program's range.
SegmentEnd(pid, i) ==
  MinOf(i + (iters_per_tile - OffsetInTile(i)), FirstIter(pid + 1))
=============================================================================
