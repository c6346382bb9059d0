------------------------------ MODULE StreamKMm ------------------------------
(***************************************************************************)
(* streamk_mm of ops/mm_streamk.py as a whole: the first wave, by          *)
(* first_wave (StreamK) or by first_wave_for_bf16 (StreamKBf16, whose      *)
(* locks are one per program, here slot_locks), and after it on the same   *)
(* stream classic_mm, one program for each of the remaining tiles.  Both   *)
(* launches write to the same output.                                      *)
(***************************************************************************)
EXTENDS StreamK

VARIABLES
  dtype,                          \* "bf16" or any other
  P, slot_locks, acc, next_pid, end,  \* of first_wave_for_bf16
  stage,                          \* the launch whose programs run
  ran                             \* programs of classic_mm that have run

bf16_vars == <<P, slot_locks, acc, next_pid, end>>
mm_vars == <<vars, dtype, bf16_vars, stage, ran>>

Bf16 == INSTANCE StreamKBf16 WITH locks <- slot_locks

\* The grid of classic_mm.
Programs == 0 .. total_tiles - cooperative_tiles - 1

\* first wave has done more tiles than there are SMs, we adjust pid
ClassicTile(pid) == pid + cooperative_tiles

MmInit ==
  /\ launch \in Launches
  /\ dtype \in {"bf16", "other"}
  /\ Buffer
  /\ LaunchWave
  /\ Bf16!LaunchWave
  /\ stage = IF cooperative_tiles > 0 THEN "first_wave" ELSE "classic_mm"
  /\ ran = {}

WaveStep(p) ==
  /\ stage = "first_wave"
  /\ \/ dtype = "other" /\ Step(p) /\ UNCHANGED bf16_vars
     \/ dtype = "bf16" /\ Bf16!Step(p) /\ UNCHANGED locks
  /\ UNCHANGED <<dtype, stage, ran>>

\* The launches of a stream run one after the other.
EndWave ==
  /\ stage = "first_wave" /\ Finished
  /\ stage' = "classic_mm"
  /\ UNCHANGED <<vars, dtype, bf16_vars, ran>>

\* All slices of the tile, the last one peeled off the loop.
ClassicMm(pid) ==
  /\ stage = "classic_mm"
  /\ pid \notin ran
  /\ ran' = ran \cup {pid}
  /\ C' = [C EXCEPT ![swizzle_tile(ClassicTile(pid))] = [k \in Slices |-> 1]]
  /\ UNCHANGED <<launch, dtype, wave_vars, bf16_vars, stage>>

Returned == stage = "classic_mm" /\ ran = Programs

MmNext ==
  \/ \E p \in Pids : WaveStep(p)
  \/ EndWave
  \/ \E pid \in Programs : ClassicMm(pid)
  \/ (Returned /\ UNCHANGED mm_vars)

(***************************************************************************)
(* The first wave has as many programs as the device has multiprocessors,  *)
(* so all of them are resident and each makes progress.  The programs of   *)
(* classic_mm wait for nothing but a place.                                *)
(***************************************************************************)
Fairness ==
  /\ \A p \in AllPids : WF_mm_vars(p \in Pids /\ WaveStep(p))
  /\ WF_mm_vars(EndWave \/ \E pid \in Programs : ClassicMm(pid))

MmSpec == MmInit /\ [][MmNext]_mm_vars /\ Fairness
-----------------------------------------------------------------------------
(***************************************************************************)
(* Properties; TileExact and SpinsOnWorking of StreamK hold here as well.  *)
(***************************************************************************)
\* The collector's count agrees with the ranges of the programs it reads.
CollectsInStep == stage = "first_wave" => Bf16!CollectsInStep

\* A slot is not written any more once its lock says it can be read.
SlotKept ==
  [][\A p \in Pids : slot_locks[p] = 1 => P'[p] = P[p]]_mm_vars

\* When streamk_mm is through, every block of the output holds every product
\* exactly once: the cooperative and the classic tiles are all the tiles, the
\* swizzled numbers meet every block once although the last group of rows may
\* be short, and no sum of the first wave has been lost or taken twice.
ProductExact ==
  Returned => \A b \in Blocks : \A k \in Slices : C[b][k] = 1

\* streamk_mm ends.
Returns == <>Returned
=============================================================================
