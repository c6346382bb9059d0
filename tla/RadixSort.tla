------------------------------ MODULE RadixSort ------------------------------
(***************************************************************************)
(* radix_sort of ops/sort.py on one row: one launch of the kernel sweep    *)
(* per digit.  The programs of a launch each take a tile of the row and a  *)
(* few bins.  A program publishes how many elements of its tile are in a   *)
(* bin, adds up what the programs before it have published (decoupled      *)
(* look-back, spinning on words that are still zero), publishes the sum,   *)
(* and scatters its elements behind those of the earlier tiles.            *)
(*                                                                         *)
(* Keys are unsigned numbers, as convert_to_uint_preverse_order makes them *)
(* from the values (and from `descending`); an element is a key and the    *)
(* index it came from, which the kernel moves along.                       *)
(***************************************************************************)
EXTENDS Integers, FiniteSets

CONSTANTS
  N,         \* length of the row
  TILE_N,    \* elements of a program's tile
  TILE_R,    \* bins of a program
  k_bits,    \* bits of a digit
  num_bits,  \* bits of a key
  Keys,      \* keys that occur
  Resident,  \* programs the device holds at a time
  Stale      \* what torch.empty leaves in the output

\* 2 ** n
pow2[n \in Nat] == IF n = 0 THEN 1 ELSE 2 * pow2[n - 1]

ASSUME RadixAssumption ==
  /\ {N, TILE_N, TILE_R, k_bits, num_bits, Resident} \subseteq Nat \ {0}
  /\ Keys \subseteq 0 .. pow2[num_bits] - 1

cdiv(a, b) == (a + b - 1) \div b

num_bins == pow2[k_bits]
n_passes == cdiv(num_bits, k_bits)
grid_n == cdiv(N, TILE_N)
grid_r == cdiv(num_bins, TILE_R)
Programs == 0 .. grid_n * grid_r - 1
Bins == 0 .. num_bins - 1

Elements == [key : Keys, index : 0 .. N - 1]
ASSUME StaleAssumption == Stale \notin Elements

pid_n(p) == p % grid_n
first_bin(p) == (p \div grid_n) * TILE_R
end_bin(p) ==
  IF first_bin(p) + TILE_R < num_bins THEN first_bin(p) + TILE_R ELSE num_bins

VARIABLES
  arr_in, arr_out,
  ex_cumsum_bins,  \* [pass][bin]: elements in smaller bins
  status,          \* [bin][tile]: <<flag, count>>, <<"zero", 0>> at first
  pass,
  started,         \* programs of the launch that have been started
  pc, bin,
  i_lookback,      \* the tile looked at next
  exclusive_prefix

vars == <<arr_in, arr_out, ex_cumsum_bins, status, pass, started, pc, bin,
          i_lookback, exclusive_prefix>>

digit(e, p) == (e.key \div pow2[p * k_bits]) % num_bins

\* Places of the row in the tile of program p whose digit is b.
Matches(p, b) ==
  {i \in 0 .. N - 1 : i \div TILE_N = pid_n(p) /\ digit(arr_in[i], pass) = b}
local_sum(p) == Cardinality(Matches(p, bin[p]))

Zeroed == [b \in Bins |-> [t \in 0 .. grid_n - 1 |-> <<"zero", 0>>]]

\* compute_global_hist_kernel counts the digits of all passes; the cumulative
\* sum over the bins makes it the number of elements in smaller bins.
ex_cumsum(arr) ==
  [p \in 0 .. n_passes - 1 |-> [b \in Bins |->
     Cardinality({i \in 0 .. N - 1 : digit(arr[i], p) < b})]]

\* The histogram of the original row serves all passes.
Init ==
  /\ \E f \in [0 .. N - 1 -> Keys] :
       arr_in = [i \in 0 .. N - 1 |-> [key |-> f[i], index |-> i]]
  /\ arr_out = [i \in 0 .. N - 1 |-> Stale]
  /\ ex_cumsum_bins = ex_cumsum(arr_in)
  /\ status = Zeroed
  /\ pass = 0
  /\ started = 0
  /\ pc = [p \in Programs |-> "waiting"]
  /\ bin = [p \in Programs |-> first_bin(p)]
  /\ i_lookback = [p \in Programs |-> -1]
  /\ exclusive_prefix = [p \in Programs |-> 0]

Goto(p, from, to) ==
  /\ pc[p] = from
  /\ pc' = [pc EXCEPT ![p] = to]

\* The device starts the programs of a launch in order, as room allows.
Start ==
  /\ pass < n_passes
  /\ started \in Programs
  /\ Cardinality({p \in Programs : pc[p] \notin {"waiting", "exited"}}) < Resident
  /\ Goto(started, "waiting", "publish")
  /\ started' = started + 1
  /\ UNCHANGED <<arr_in, arr_out, ex_cumsum_bins, status, pass, bin,
                 i_lookback, exclusive_prefix>>

\* pack0 = aggregate_mask | local_sum
Publish(p) ==
  /\ Goto(p, "publish", "look_back")
  /\ status' = [status EXCEPT
       ![bin[p]][pid_n(p)] = <<"aggregate", local_sum(p)>>]
  /\ exclusive_prefix' = [exclusive_prefix EXCEPT ![p] = 0]
  /\ i_lookback' = [i_lookback EXCEPT ![p] = pid_n(p) - 1]
  /\ UNCHANGED <<arr_in, arr_out, ex_cumsum_bins, pass, started, bin>>

\* What if the look-back went on behind an inclusive prefix?
LookBackOn(p) ==
  /\ Goto(p, "look_back", "look_back")
  /\ i_lookback[p] >= 0
  /\ LET word == status[bin[p]][i_lookback[p]] IN
       /\ word[1] # "zero"
       /\ exclusive_prefix' = [exclusive_prefix EXCEPT ![p] = @ + word[2]]
       /\ i_lookback' = [i_lookback EXCEPT ![p] = @ - 1]
  /\ UNCHANGED <<arr_in, arr_out, ex_cumsum_bins, status, pass, started, bin>>

\* while i_lookback >= 0: spin while the word is zero, add its count, and go
\* on if it is an aggregate.
LookBack(p) ==
  /\ Goto(p, "look_back", "look_back")
  /\ i_lookback[p] >= 0
  /\ LET word == status[bin[p]][i_lookback[p]] IN
       /\ word[1] # "zero"
       /\ exclusive_prefix' = [exclusive_prefix EXCEPT ![p] = @ + word[2]]
       /\ i_lookback' = [i_lookback EXCEPT
            ![p] = IF word[1] = "aggregate" THEN @ - 1 ELSE -1]
  /\ UNCHANGED <<arr_in, arr_out, ex_cumsum_bins, status, pass, started, bin>>

\* What if a sum of zero were published as a zero word?
PublishPrefixBare(p) ==
  /\ Goto(p, "look_back", "scatter")
  /\ i_lookback[p] < 0
  /\ LET sum == exclusive_prefix[p] + local_sum(p) IN
       status' = [status EXCEPT ![bin[p]][pid_n(p)] =
                    IF sum = 0 THEN <<"zero", 0>> ELSE <<"prefix", sum>>]
  /\ UNCHANGED <<arr_in, arr_out, ex_cumsum_bins, pass, started, bin,
                 i_lookback, exclusive_prefix>>

\* pack2 = inclusive_prefix_mask | (exclusive_prefix + local_sum)
PublishPrefix(p) ==
  /\ Goto(p, "look_back", "scatter")
  /\ i_lookback[p] < 0
  /\ status' = [status EXCEPT ![bin[p]][pid_n(p)] =
                  <<"prefix", exclusive_prefix[p] + local_sum(p)>>]
  /\ UNCHANGED <<arr_in, arr_out, ex_cumsum_bins, pass, started, bin,
                 i_lookback, exclusive_prefix>>

\* What if the elements of a tile were counted from its end?
PosBackward(p, i) ==
  ex_cumsum_bins[pass][bin[p]] + exclusive_prefix[p]
    + Cardinality({j \in Matches(p, bin[p]) : j > i})

Pos(p, i) ==
  ex_cumsum_bins[pass][bin[p]] + exclusive_prefix[p]
    + Cardinality({j \in Matches(p, bin[p]) : j < i})

\* The matching elements of the tile go to the output, then the next bin.
Scatter(p) ==
  /\ pc[p] = "scatter"
  /\ LET M == Matches(p, bin[p]) IN
       arr_out' = [x \in DOMAIN arr_out \cup {Pos(p, i) : i \in M} |->
                     IF \E i \in M : Pos(p, i) = x
                       THEN arr_in[CHOOSE i \in M : Pos(p, i) = x]
                       ELSE arr_out[x]]
  /\ IF bin[p] + 1 < end_bin(p)
       THEN /\ bin' = [bin EXCEPT ![p] = @ + 1]
            /\ pc' = [pc EXCEPT ![p] = "publish"]
       ELSE pc' = [pc EXCEPT ![p] = "exited"] /\ UNCHANGED bin
  /\ UNCHANGED <<arr_in, ex_cumsum_bins, status, pass, started, i_lookback,
                 exclusive_prefix>>

\* What if the words were not zeroed between the launches?
StatusKept == status

StatusZeroed == Zeroed

\* The launch is over: the buffers are swapped and the words zeroed.
EndPass ==
  /\ pass < n_passes
  /\ \A p \in Programs : pc[p] = "exited"
  /\ pass' = pass + 1
  /\ arr_in' = arr_out
  /\ arr_out' = arr_in
  /\ status' = StatusZeroed
  /\ started' = 0
  /\ pc' = [p \in Programs |-> "waiting"]
  /\ bin' = [p \in Programs |-> first_bin(p)]
  /\ i_lookback' = [p \in Programs |-> -1]
  /\ exclusive_prefix' = [p \in Programs |-> 0]
  /\ UNCHANGED ex_cumsum_bins

Step(p) == Publish(p) \/ LookBack(p) \/ PublishPrefix(p) \/ Scatter(p)

Done == pass = n_passes

Next ==
  \/ Start
  \/ \E p \in Programs : Step(p)
  \/ EndPass
  \/ (Done /\ UNCHANGED vars)

Spec == Init /\ [][Next]_vars

(***************************************************************************)
(* A program that has been started makes progress, and one that has exited *)
(* makes room for the next.  Nothing is assumed of programs not started.   *)
(***************************************************************************)
FairSpec ==
  Spec /\ WF_vars(Start) /\ WF_vars(EndPass)
       /\ \A p \in Programs : WF_vars(Step(p))
-----------------------------------------------------------------------------
(***************************************************************************)
(* Properties                                                              *)
(***************************************************************************)
\* Elements of bin b in the tiles from s to t.
CountIn(b, s, t) ==
  Cardinality({i \in 0 .. N - 1 :
    s <= i \div TILE_N /\ i \div TILE_N <= t /\ digit(arr_in[i], pass) = b})

\* The words say the truth: an aggregate counts its own tile, a prefix all
\* tiles up to its own, and what a program has added up so far counts the
\* tiles it has looked back over, whichever kinds of word it met.
WordsTrue ==
  /\ \A b \in Bins : \A t \in 0 .. grid_n - 1 :
       /\ status[b][t][1] = "aggregate" => status[b][t][2] = CountIn(b, t, t)
       /\ status[b][t][1] = "prefix" => status[b][t][2] = CountIn(b, 0, t)
  /\ \A p \in Programs : pc[p] = "look_back" =>
       exclusive_prefix[p] = CountIn(bin[p], i_lookback[p] + 1, pid_n(p) - 1)

\* After the last pass the row is sorted, equal keys in their original order,
\* and holds each element of the original row once.
SortedStably ==
  Done =>
    /\ \A i, j \in 0 .. N - 1 : i < j =>
         \/ arr_in[i].key < arr_in[j].key
         \/ arr_in[i].key = arr_in[j].key /\ arr_in[i].index < arr_in[j].index
    /\ {arr_in[i].index : i \in 0 .. N - 1} = 0 .. N - 1

Deals == INSTANCE StablePasses WITH
  Digit <- digit, Passes <- n_passes, arr <- arr_in

\* Each launch of sweep implements one stable pass by its digit.
DealsSpec == Deals!Spec

\* The sort ends, although its programs spin and the device need not hold all
\* of them at a time.
SortEnds == <>Done
=============================================================================
