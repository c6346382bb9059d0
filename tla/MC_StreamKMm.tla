---------------------------- MODULE MC_StreamKMm -----------------------------
(***************************************************************************)
(* The products that TLC goes through.                                     *)
(***************************************************************************)
EXTENDS StreamKMm

\* Two tiles on five programs, a tile for three or four of them; nine tiles on
\* four programs, five of them cooperative and the last group of rows short;
\* twelve on five, one wave more; fewer iterations than programs; whole waves
\* only; so much left over that nothing is cooperative.
MCLaunches ==
  { [grid_m |-> 1, grid_n |-> 2, iters_per_tile |-> 6, sm_count |-> 5],
    [grid_m |-> 3, grid_n |-> 3, iters_per_tile |-> 5, sm_count |-> 4],
    [grid_m |-> 3, grid_n |-> 4, iters_per_tile |-> 2, sm_count |-> 5],
    [grid_m |-> 1, grid_n |-> 1, iters_per_tile |-> 3, sm_count |-> 5],
    [grid_m |-> 2, grid_n |-> 2, iters_per_tile |-> 2, sm_count |-> 2],
    [grid_m |-> 11, grid_n |-> 1, iters_per_tile |-> 1, sm_count |-> 6] }
=============================================================================
