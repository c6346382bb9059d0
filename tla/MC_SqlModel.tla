---------------------------- MODULE MC_SqlModel -----------------------------
(***************************************************************************)
(* Two processes, the first with two threads; rows of two columns, so that *)
(* two updates can each change one.                                        *)
(***************************************************************************)
EXTENDS SqlModel, TLC

CONSTANTS t1, t2, t3, p1, p2, warps, stages, c1, c2, mm, mm_benchmark

MCCallers == {t1, t2, t3}
MCProcs == {p1, p2}
MCProcess == (t1 :> p1) @@ (t2 :> p1) @@ (t3 :> p2)
MCNames == {mm, mm_benchmark}
MCColumns == {warps, stages}
MCData == {c1, c2}
MCSymmetry ==
  Permutations({t1, t2}) \cup Permutations(MCNames)
    \cup Permutations(MCColumns) \cup Permutations(MCData)
=============================================================================
