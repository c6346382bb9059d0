---------------------------- MODULE MC_LibTuner -----------------------------
(***************************************************************************)
(* Two configurations that differ in every column, and three measurements, *)
(* two of which can each change a column of the third.                     *)
(***************************************************************************)
EXTENDS LibTuner, TLC

CONSTANTS p1, p2, p3, num_warps, num_stages

MCProcs == {p1, p2, p3}
MCColumns == {num_warps, num_stages}
MCKwargs == << (num_warps :> 4) @@ (num_stages :> 1),
               (num_warps :> 8) @@ (num_stages :> 2) >>
MCMeasurements == {<<1, 1, 2>>, <<2, 1, 2>>, <<1, 1, 1>>}
MCSymmetry == Permutations(MCProcs)
=============================================================================
