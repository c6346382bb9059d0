----------------------------- MODULE StreamKBf16 -----------------------------
(***************************************************************************)
(* first_wave_for_bf16 of ops/mm_streamk.py: bfloat16 has no atomic add,   *)
(* so the program that computes the first iterations of a tile collects    *)
(* the other sums and stores the tile.  The others leave their sums in     *)
(* their own slot of the scratch buffer P and raise their own lock; the    *)
(* collector walks the programs after it, counting iterations until the    *)
(* tile is complete.                                                       *)
(***************************************************************************)
EXTENDS StreamKSplit

Stale == 2  \* what an unwritten element counts for: anything but 1

VARIABLES
  C,           \* C[b][k]: occurrences of the products of slice k in block b
  P,           \* P[p]: the sum in the slot of program p, by slices
  locks,       \* locks[p]: 1 once the slot of program p is visible
  acc,         \* acc[p]: the sum in the registers of p, by slices
  start_iter,  \* start_iter[p]: where program p has come to
  next_pid,    \* next_pid[p]: the program the collector waits for
  end,         \* end[p]: the iteration up to which the collector has summed
  pc           \* pc[p]: next statement of program p

wave_vars == <<P, locks, acc, start_iter, next_pid, end, pc>>
vars == <<launch, C, wave_vars>>

EndIter(p) == SegmentEnd(p, start_iter[p])

\* How often the products of slice k are in the sum of the segment of p.
Sum(p) ==
  LET first == OffsetInTile(start_iter[p])
  IN  [k \in Slices |->
         IF first <= k /\ k < first + EndIter(p) - start_iter[p] THEN 1 ELSE 0]

\* torch.empty scratch: it may hold anything.
Fresh == [k \in Slices |-> Stale]

Buffer == C = [b \in Blocks |-> Fresh]

LaunchWave ==
  /\ P = [p \in Pids |-> Fresh]
  /\ locks = [p \in Pids |-> 0]
  /\ acc = [p \in Pids |-> Fresh]
  /\ start_iter = [p \in Pids |-> FirstIter(p)]
  /\ next_pid = [p \in Pids |-> p + 1]
  /\ end = [p \in Pids |-> 0]
  /\ pc = [p \in Pids |-> "loop"]

Init == launch \in Launches /\ Buffer /\ LaunchWave

Goto(p, from, to) ==
  /\ pc[p] = from
  /\ pc' = [pc EXCEPT ![p] = to]

Exit(p) ==
  /\ Goto(p, "loop", "exited")
  /\ start_iter[p] >= FirstIter(p + 1)
  /\ UNCHANGED <<C, P, locks, acc, start_iter, next_pid, end>>

\* The products of the segment.  A segment that does not start its tile goes
\* to the scratch buffer, one that does collects the rest of the tile.
Mac(p) ==
  /\ Goto(p, "loop", IF OffsetInTile(start_iter[p]) # 0 THEN "put" ELSE "collect")
  /\ start_iter[p] < FirstIter(p + 1)
  /\ acc' = [acc EXCEPT ![p] = Sum(p)]
  /\ next_pid' = [next_pid EXCEPT ![p] = p + 1]
  /\ end' = [end EXCEPT ![p] = EndIter(p)]
  /\ UNCHANGED <<C, P, locks, start_iter>>

\* What if the lock were raised first?
PutSlotLate(p) ==
  /\ pc[p] = "put"
  /\ IF locks[p] = 0
       THEN locks' = [locks EXCEPT ![p] = 1] /\ UNCHANGED <<P, pc>>
       ELSE P' = [P EXCEPT ![p] = acc[p]] /\ pc' = [pc EXCEPT ![p] = "unlock"]
             /\ UNCHANGED locks
  /\ UNCHANGED <<C, acc, start_iter, next_pid, end>>

\* tl.store(P_ptr, acc)
PutSlot(p) ==
  /\ Goto(p, "put", "unlock")
  /\ P' = [P EXCEPT ![p] = acc[p]]
  /\ UNCHANGED <<C, locks, acc, start_iter, next_pid, end>>

\* What if the lock of the tile's place were raised instead of the program's?
UnlockOther(p) ==
  /\ Goto(p, "unlock", "loop")
  /\ locks' = [locks EXCEPT ![TileOf(start_iter[p])] = 1]
  /\ start_iter' = [start_iter EXCEPT ![p] = EndIter(p)]
  /\ UNCHANGED <<C, P, acc, next_pid, end>>

\* tl.atomic_xchg(locks + pid, 1)
Unlock(p) ==
  /\ Goto(p, "unlock", "loop")
  /\ locks' = [locks EXCEPT ![p] = 1]
  /\ start_iter' = [start_iter EXCEPT ![p] = EndIter(p)]
  /\ UNCHANGED <<C, P, acc, next_pid, end>>

\* What if all programs were taken to have iters_per_pid iterations?
CollectEven(p) ==
  /\ Goto(p, "collect", "collect")
  /\ end[p] < start_iter[p] + iters_per_tile
  /\ next_pid[p] \in Pids /\ locks[next_pid[p]] = 1
  /\ acc' = [acc EXCEPT ![p] = [k \in Slices |-> @[k] + P[next_pid[p]][k]]]
  /\ end' = [end EXCEPT ![p] = @ + iters_per_pid]
  /\ next_pid' = [next_pid EXCEPT ![p] = @ + 1]
  /\ UNCHANGED <<C, P, locks, start_iter>>

\* while end < stop_loading_iter: spin until next_pid's lock is raised, add
\* its slot, and skip as many iterations as that program has.
Collect(p) ==
  /\ Goto(p, "collect", "collect")
  /\ end[p] < start_iter[p] + iters_per_tile
  /\ locks[next_pid[p]] = 1
  /\ acc' = [acc EXCEPT ![p] = [k \in Slices |-> @[k] + P[next_pid[p]][k]]]
  /\ end' = [end EXCEPT
       ![p] = @ + iters_per_pid + IF next_pid[p] < iters_remaining THEN 1 ELSE 0]
  /\ next_pid' = [next_pid EXCEPT ![p] = @ + 1]
  /\ UNCHANGED <<C, P, locks, start_iter>>

\* tl.store(C_, acc)
StoreTile(p) ==
  /\ Goto(p, "collect", "loop")
  /\ end[p] >= start_iter[p] + iters_per_tile
  /\ C' = [C EXCEPT ![BlockOf(start_iter[p])] = acc[p]]
  /\ start_iter' = [start_iter EXCEPT ![p] = EndIter(p)]
  /\ UNCHANGED <<P, locks, acc, next_pid, end>>

Step(p) ==
  /\ \/ Exit(p) \/ Mac(p) \/ PutSlot(p) \/ Unlock(p) \/ Collect(p)
     \/ StoreTile(p)
  /\ UNCHANGED launch

Finished == \A p \in Pids : pc[p] = "exited"

Next == (\E p \in Pids : Step(p)) \/ (Finished /\ UNCHANGED vars)

Spec == Init /\ [][Next]_vars
-----------------------------------------------------------------------------
(***************************************************************************)
(* Properties                                                              *)
(***************************************************************************)
\* The collector's count of iterations agrees with the boundaries the other
\* programs work to: it waits only for programs of the launch, and only for
\* one whose slot starts just where its own sum ends, inside the tile.
CollectsInStep ==
  \A p \in Pids :
    pc[p] = "collect" /\ end[p] < start_iter[p] + iters_per_tile =>
      /\ next_pid[p] \in Pids
      /\ end[p] = FirstIter(next_pid[p])
      /\ OffsetInTile(end[p]) # 0
      /\ \A k \in Slices :
           acc[p][k] = IF k < end[p] - start_iter[p] THEN 1 ELSE 0

\* A slot of the scratch buffer is not touched any more once its lock says it
\* can be read, although a program has only one slot for all its segments.
SlotKept == [][\A p \in Pids : locks[p] = 1 => P'[p] = P[p]]_vars
=============================================================================
