------------------------------- MODULE StreamK -------------------------------
(***************************************************************************)
(* first_wave of ops/mm_streamk.py: the programs of one launch share the   *)
(* inner iterations of the cooperative tiles.  The program that computes   *)
(* the last iterations of a tile stores its sum in C and, when others have *)
(* worked on the tile too, raises the tile's lock; the others spin on the  *)
(* lock and then add their sums atomically.                                *)
(*                                                                         *)
(* A block of C is known by how many times each of its slices' products is *)
(* in it, which is all the result depends on.  C is the caller's output    *)
(* buffer and holds anything before the first store.                       *)
(***************************************************************************)
EXTENDS StreamKSplit

Stale == 2  \* what an unwritten element counts for: anything but 1

VARIABLES
  C,           \* C[b][k]: occurrences of the products of slice k in block b
  locks,       \* locks[t]: 1 once the tile's store is visible
  start_iter,  \* start_iter[p]: where program p has come to
  pc           \* pc[p]: next statement of program p

wave_vars == <<locks, start_iter, pc>>
vars == <<launch, C, wave_vars>>

EndIter(p) == SegmentEnd(p, start_iter[p])
TileAt(p) == TileOf(start_iter[p])
BlockAt(p) == BlockOf(start_iter[p])

\* How often the products of slice k are in the sum of the segment of p.
Sum(p) ==
  LET first == OffsetInTile(start_iter[p])
  IN  [k \in Slices |->
         IF first <= k /\ k < first + EndIter(p) - start_iter[p] THEN 1 ELSE 0]

\* What if the tile were stored by the program that computes its first part?
FinishesFirst(p) == OffsetInTile(start_iter[p]) = 0

\* The test that ends a segment: the tile is complete.
Finishes(p) == EndIter(p) % iters_per_tile = 0

\* The output as it comes, and the state of the programs at the launch.
Buffer == C = [b \in Blocks |-> [k \in Slices |-> Stale]]

LaunchWave ==
  /\ locks = [t \in Tiles |-> 0]
  /\ start_iter = [p \in Pids |-> FirstIter(p)]
  /\ pc = [p \in Pids |-> "loop"]

Init == launch \in Launches /\ Buffer /\ LaunchWave

Goto(p, from, to) ==
  /\ pc[p] = from
  /\ pc' = [pc EXCEPT ![p] = to]

\* while start_iter < last_iter, and the products of the segment: a sum in
\* registers, which nobody else sees.
Mac(p) ==
  /\ Goto(p, "loop", IF Finishes(p) THEN "store" ELSE "spin")
  /\ start_iter[p] < FirstIter(p + 1)
  /\ UNCHANGED <<C, locks, start_iter>>

Exit(p) ==
  /\ Goto(p, "loop", "exited")
  /\ start_iter[p] >= FirstIter(p + 1)
  /\ UNCHANGED <<C, locks, start_iter>>

NextRound(p) == start_iter' = [start_iter EXCEPT ![p] = EndIter(p)]

\* What if the lock were raised before the store had been made?
StoreTileLate(p) ==
  /\ pc[p] = "store"
  /\ IF OffsetInTile(start_iter[p]) # 0 /\ locks[TileAt(p)] = 0
       THEN locks' = [locks EXCEPT ![TileAt(p)] = 1] /\ UNCHANGED <<C, pc, start_iter>>
       ELSE /\ C' = [C EXCEPT ![BlockAt(p)] = Sum(p)]
            /\ pc' = [pc EXCEPT ![p] = "loop"]
            /\ NextRound(p)
            /\ UNCHANGED locks

\* tl.store of the whole tile; a tile the program computed alone needs no
\* lock.
StoreTile(p) ==
  /\ pc[p] = "store"
  /\ C' = [C EXCEPT ![BlockAt(p)] = Sum(p)]
  /\ IF OffsetInTile(start_iter[p]) # 0
       THEN pc' = [pc EXCEPT ![p] = "unlock"] /\ UNCHANGED start_iter
       ELSE pc' = [pc EXCEPT ![p] = "loop"] /\ NextRound(p)
  /\ UNCHANGED locks

\* tl.atomic_xchg(locks + tile_id, 1)
Unlock(p) ==
  /\ Goto(p, "unlock", "loop")
  /\ locks' = [locks EXCEPT ![TileAt(p)] = 1]
  /\ NextRound(p)
  /\ UNCHANGED C

\* while tl.atomic_cas(locks + tile_id, 1, 1) != 1
Spin(p) ==
  /\ Goto(p, "spin", "add")
  /\ locks[TileAt(p)] = 1
  /\ UNCHANGED <<C, locks, start_iter>>

\* tl.atomic_add of the segment's sum.
AddSegment(p) ==
  /\ Goto(p, "add", "loop")
  /\ C' = [C EXCEPT ![BlockAt(p)] = [k \in Slices |-> @[k] + Sum(p)[k]]]
  /\ NextRound(p)
  /\ UNCHANGED locks

Step(p) ==
  /\ \/ Mac(p) \/ Exit(p) \/ StoreTile(p) \/ Unlock(p) \/ Spin(p)
     \/ AddSegment(p)
  /\ UNCHANGED launch

Finished == \A p \in Pids : pc[p] = "exited"

Next == (\E p \in Pids : Step(p)) \/ (Finished /\ UNCHANGED vars)

Spec == Init /\ [][Next]_vars
-----------------------------------------------------------------------------
(***************************************************************************)
(* Properties                                                              *)
(***************************************************************************)
\* A program has finished with iteration i.
Processed(i) == \E p \in Pids : FirstIter(p) <= i /\ i < start_iter[p]

\* Once the lock of a tile is raised its sum holds exactly the products that
\* were handed in, each once: no sum is lost under the store, none is added
\* twice and none is added to what C held before.
TileExact ==
  \A i \in Iters :
    locks[TileOf(i)] = 1 =>
      C[BlockOf(i)][OffsetInTile(i)] = IF Processed(i) THEN 1 ELSE 0

\* A program that spins waits for a later program which is still busy with its
\* first segment and does not spin itself: the programs cannot all wait for
\* each other.
SpinsOnWorking ==
  \A p \in Pids :
    pc[p] = "spin" /\ locks[TileAt(p)] = 0 =>
      \E q \in Pids : /\ q > p
                       /\ start_iter[q] = FirstIter(q)
                       /\ TileAt(q) = TileAt(p)
                       /\ pc[q] \in {"loop", "store", "unlock"}
=============================================================================
