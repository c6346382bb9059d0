---------------------------- MODULE MaskedSelect -----------------------------
(***************************************************************************)
(* masked_select of ops/masked_select.py: the selected elements of a       *)
(* tensor, packed.  A short tensor takes one program.  For a longer one    *)
(* each program of a first launch counts what is selected in its row of    *)
(* blocks and counts itself in; the one that finds all others counted in   *)
(* turns the counts into places.  A second launch writes the elements.     *)
(*                                                                         *)
(* An element is the position it has in the (contiguous) input.            *)
(***************************************************************************)
EXTENDS ShapeUtils

CONSTANTS
  Lengths,                \* lengths the input may have
  SINGLE_PASS_LIMIT,      \* 4096 in the code
  BLOCK_SIZE,
  multi_processor_count

ASSUME MaskedSelectAssumption ==
  /\ Lengths \subseteq Nat \ {0}
  /\ SINGLE_PASS_LIMIT \in Nat
  /\ BLOCK_SIZE \in Nat \ {0}
  /\ multi_processor_count \in Nat \ {0}

\* What torch.empty leaves in memory: no count and no position.
Stale == -1

VARIABLES
  N,
  selected,   \* positions whose mask is set
  launch,     \* "single", "sums", "write", "done"
  pc,         \* of the programs of the current launch
  part_sums,
  counter,
  loaded,     \* part_sums as the last program has read it
  block_id, out_ptr, advance,
  out

vars == <<N, selected, launch, pc, part_sums, counter, loaded, block_id,
          out_ptr, advance, out>>

Least(a, b) == IF a < b THEN a ELSE b

n_blocks == cdiv(N, BLOCK_SIZE)
n_blocks_per_row == cdiv(n_blocks, Least(n_blocks, multi_processor_count))
np == cdiv(n_blocks, n_blocks_per_row)
Rows == 0 .. np - 1

start_block(r) == r * n_blocks_per_row

last_block_id(r) == Least(n_blocks - 1, start_block(r) + n_blocks_per_row - 1)

InBlock(b) == {i \in selected : i \div BLOCK_SIZE = b}
row_count(r) == Cardinality({i \in selected :
  i \div BLOCK_SIZE \in start_block(r) .. last_block_id(r)})

Init ==
  /\ N \in Lengths
  /\ selected \in SUBSET (0 .. N - 1)
  /\ launch = IF N <= SINGLE_PASS_LIMIT THEN "single" ELSE "sums"
  /\ pc = [r \in Rows |-> "sum"]
  /\ part_sums = [r \in 0 .. np |-> Stale]
  /\ counter = 0
  /\ loaded = [r \in Rows |-> [q \in Rows |-> Stale]]
  /\ block_id = [r \in Rows |-> start_block(r)]
  /\ out_ptr = [r \in Rows |-> 0]
  /\ advance = [r \in Rows |-> 0]
  /\ out = << >>

\* Rank of element i among those of S.
pre_sum(S, i) == Cardinality({j \in S : j < i})

\* masked_select_single_pass: one program takes the whole input.
SinglePass ==
  /\ launch = "single"
  /\ launch' = "done"
  /\ out' = [x \in 0 .. Cardinality(selected) - 1 |->
       CHOOSE i \in selected : pre_sum(selected, i) = x]
  /\ UNCHANGED <<N, selected, pc, part_sums, counter, loaded, block_id,
                 out_ptr, advance>>

\* A program of mask_part_sum_kernel goes on.
Goto(r, from, to) ==
  /\ launch = "sums" /\ pc[r] = from
  /\ pc' = [pc EXCEPT ![r] = to]
  /\ UNCHANGED <<N, selected, launch, block_id, out_ptr, advance, out>>

\* What if the peeled last block were forgotten?
StorePartPeeled(r) ==
  /\ Goto(r, "sum", "count")
  /\ part_sums' = [part_sums EXCEPT ![r] =
                     row_count(r) - Cardinality(InBlock(last_block_id(r)))]
  /\ UNCHANGED <<counter, loaded>>

StorePart(r) ==
  /\ Goto(r, "sum", "count")
  /\ part_sums' = [part_sums EXCEPT ![r] = row_count(r)]
  /\ UNCHANGED <<counter, loaded>>

\* What if the last but one took itself for the last?
CountInShort(r) ==
  /\ Goto(r, "count", IF counter + 1 >= np - 1 THEN "load" ELSE "exited")
  /\ counter' = counter + 1
  /\ UNCHANGED <<part_sums, loaded>>

\* count = atomic_add(counter, 1): the last one stays.
CountIn(r) ==
  /\ Goto(r, "count", IF counter = np - 1 THEN "load" ELSE "exited")
  /\ counter' = counter + 1
  /\ UNCHANGED <<part_sums, loaded>>

LoadSums(r) ==
  /\ Goto(r, "load", "scan")
  /\ loaded' = [loaded EXCEPT ![r] = [q \in Rows |-> part_sums[q]]]
  /\ UNCHANGED <<part_sums, counter>>

\* The sums of the rows before each row, and behind them the sum of all.
Scan(r) ==
  /\ Goto(r, "scan", "exited")
  /\ LET sum[q \in 0 .. np] == IF q = 0 THEN 0 ELSE sum[q - 1] + loaded[r][q - 1]
     IN  part_sums' = sum
  /\ UNCHANGED <<counter, loaded>>

\* The host allocates the output by the total, and the second launch begins;
\* its programs load their places first, which nobody stores any more.
StartWriteBack ==
  /\ launch = "sums" /\ \A r \in Rows : pc[r] = "exited"
  /\ launch' = "write"
  /\ pc' = [r \in Rows |-> "write"]
  /\ out' = [x \in 0 .. part_sums[np] - 1 |-> Stale]
  /\ advance' = [r \in Rows |-> part_sums[r]]
  /\ UNCHANGED <<N, selected, part_sums, counter, loaded, block_id, out_ptr>>

\* What if a block's elements were counted from its end?
WrittenBackward(f, b, base) ==
  LET place(i) == base + Cardinality({j \in InBlock(b) : j > i}) IN
    [x \in DOMAIN f \cup {place(i) : i \in InBlock(b)} |->
       IF \E i \in InBlock(b) : place(i) = x
         THEN CHOOSE i \in InBlock(b) : place(i) = x
         ELSE f[x]]

\* Block b's selected elements go to f from place `base` on.
Written(f, b, base) ==
  LET place(i) == base + pre_sum(InBlock(b), i) IN
    [x \in DOMAIN f \cup {place(i) : i \in InBlock(b)} |->
       IF \E i \in InBlock(b) : place(i) = x
         THEN CHOOSE i \in InBlock(b) : place(i) = x
         ELSE f[x]]

WriteBlock(r) ==
  /\ launch = "write" /\ pc[r] = "write"
  /\ LET base == out_ptr[r] + advance[r] IN
       /\ out' = Written(out, block_id[r], base)
       /\ out_ptr' = [out_ptr EXCEPT ![r] = base]
  /\ advance' = [advance EXCEPT ![r] = Cardinality(InBlock(block_id[r]))]
  /\ block_id' = [block_id EXCEPT ![r] = @ + 1]
  /\ pc' = [pc EXCEPT ![r] =
              IF block_id[r] < last_block_id(r) THEN "write" ELSE "exited"]
  /\ UNCHANGED <<N, selected, launch, part_sums, counter, loaded>>

Finish ==
  /\ launch = "write" /\ \A r \in Rows : pc[r] = "exited"
  /\ launch' = "done"
  /\ UNCHANGED <<N, selected, pc, part_sums, counter, loaded, block_id,
                 out_ptr, advance, out>>

Step(r) ==
  StorePart(r) \/ CountIn(r) \/ LoadSums(r) \/ Scan(r) \/ WriteBlock(r)

Next ==
  \/ SinglePass
  \/ \E r \in Rows : Step(r)
  \/ StartWriteBack
  \/ Finish
  \/ (launch = "done" /\ UNCHANGED vars)

Spec == Init /\ [][Next]_vars
-----------------------------------------------------------------------------
(***************************************************************************)
(* Properties                                                              *)
(***************************************************************************)
\* The program that scans is the only one left, so that nobody else scans and
\* nobody sees counts become places.
ScannerLast ==
  \A r \in Rows : pc[r] \in {"load", "scan"} =>
    \A q \in Rows \ {r} : pc[q] = "exited"

\* What the scanning program has read are the counts of all rows: having
\* counted itself in as the last it was the last to store, too.
SumsComplete ==
  \A r \in Rows : pc[r] = "scan" =>
    \A q \in Rows : loaded[r][q] = row_count(q)

\* The output is the selection in its original order, whichever way the rows
\* interleaved and on both paths.
Compacted ==
  launch = "done" =>
    /\ DOMAIN out = 0 .. Cardinality(selected) - 1
    /\ \A i \in selected : out[pre_sum(selected, i)] = i
=============================================================================
