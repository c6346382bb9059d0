------------------------------ MODULE MoeAlign -------------------------------
(***************************************************************************)
(* moe_align_block_size of fused/moe_align_block_size.py: the tokens of a  *)
(* batch are gathered by the expert they go to, each expert's padded to    *)
(* whole blocks.  Four launches share tables of counters: each program     *)
(* counts its tokens, the counts are summed up over the programs, the      *)
(* padded totals over the experts, and then each program places its tokens *)
(* and names the expert of its blocks.  Programs are named like experts.   *)
(***************************************************************************)
EXTENDS Integers, FiniteSets

CONSTANTS
  num_experts,
  block_size,
  Sizes         \* tokens a batch may have

ASSUME MoeAssumption ==
  /\ num_experts \in Nat \ {0} /\ block_size \in Nat \ {0}
  /\ Sizes \subseteq Nat

Experts == 0 .. num_experts - 1

VARIABLES
  topk_ids,             \* expert of each token
  stage,                \* launch that runs, 5 when all are over
  i,                    \* next iteration of each program's loop
  named,                \* programs of stage 4 past their first loop
  last,                 \* last_cnt of stage 2 and last_cumsum of stage 3
  tokens_cnts, cumsum,
  sorted_ids, expert_ids, num_tokens_post_pad

vars == <<topk_ids, stage, i, named, last, tokens_cnts, cumsum, sorted_ids,
          expert_ids, num_tokens_post_pad>>

cdiv(a, b) == (a + b - 1) \div b
round_up(x, y) == cdiv(x, y) * y

numel == Cardinality(DOMAIN topk_ids)
tokens_per_thread == cdiv(numel, num_experts)
start_idx(p) == p * tokens_per_thread
end_idx(p) ==
  IF start_idx(p) + tokens_per_thread < numel
    THEN start_idx(p) + tokens_per_thread ELSE numel

\* What if no expert needed padding?
max_num_tokens_unpadded(n, pad) ==
  IF pad THEN round_up(n, block_size) ELSE n

max_num_tokens_padded(n, pad) ==
  LET most == n + num_experts * (block_size - 1) IN
    IF pad THEN round_up(most, block_size) ELSE most

\* pad_sorted_ids is the caller's choice.  Padding holds the number of tokens.
Init ==
  /\ \E n \in Sizes : topk_ids \in [0 .. n - 1 -> Experts]
  /\ \E pad_sorted_ids \in BOOLEAN :
       LET size == max_num_tokens_padded(numel, pad_sorted_ids) IN
         /\ sorted_ids = [x \in 0 .. size - 1 |-> numel]
         /\ expert_ids = [x \in 0 .. cdiv(size, block_size) - 1 |-> 0]
  /\ num_tokens_post_pad = -1
  /\ stage = 1
  /\ i = [p \in Experts |-> 0]
  /\ named = {}
  /\ last = [p \in Experts |-> 0]
  /\ tokens_cnts = [t \in 0 .. num_experts |-> [e \in Experts |-> 0]]
  /\ cumsum = [e \in 0 .. num_experts |-> 0]

Advance(p) == i' = [i EXCEPT ![p] = @ + 1]

\* Program p counts its next token, in row p + 1.
Stage1(p) ==
  /\ stage = 1 /\ i[p] < tokens_per_thread
  /\ LET idx == start_idx(p) + i[p] IN
       tokens_cnts' = IF idx < numel
         THEN [tokens_cnts EXCEPT ![p + 1][topk_ids[idx]] = @ + 1]
         ELSE tokens_cnts
  /\ Advance(p)
  /\ UNCHANGED <<topk_ids, stage, named, last, cumsum, sorted_ids, expert_ids,
                 num_tokens_post_pad>>

\* What if the sum of a column left out the program itself?
Stage2Exclusive(p) ==
  /\ stage = 2 /\ i[p] \in 1 .. num_experts
  /\ last' = [last EXCEPT ![p] = @ + tokens_cnts[i[p]][p]]
  /\ tokens_cnts' = [tokens_cnts EXCEPT ![i[p]][p] = last[p]]
  /\ Advance(p)
  /\ UNCHANGED <<topk_ids, stage, named, cumsum, sorted_ids, expert_ids,
                 num_tokens_post_pad>>

\* Program p sums up the next row of column p.
Stage2(p) ==
  /\ stage = 2 /\ i[p] \in 1 .. num_experts
  /\ last' = [last EXCEPT ![p] = @ + tokens_cnts[i[p]][p]]
  /\ tokens_cnts' = [tokens_cnts EXCEPT ![i[p]][p] = last'[p]]
  /\ Advance(p)
  /\ UNCHANGED <<topk_ids, stage, named, cumsum, sorted_ids, expert_ids,
                 num_tokens_post_pad>>

\* What if experts began wherever the one before them ends?
padded_not(count) == count

padded(count) == round_up(count, block_size)

\* One program sums up the padded counts of the experts.
Stage3 ==
  /\ stage = 3 /\ i[0] \in 1 .. num_experts
  /\ last' = [last EXCEPT ![0] = @ + padded(tokens_cnts[num_experts][i[0] - 1])]
  /\ cumsum' = [cumsum EXCEPT ![i[0]] = last'[0]]
  /\ Advance(0)
  /\ num_tokens_post_pad' =
       IF i[0] = num_experts THEN last'[0] ELSE num_tokens_post_pad
  /\ UNCHANGED <<topk_ids, stage, named, tokens_cnts, sorted_ids, expert_ids>>

\* Program p names the expert of each of its blocks.
Stage4Names(p) ==
  /\ stage = 4 /\ p \notin named
  /\ named' = named \cup {p}
  /\ LET own == {x \div block_size : x \in {x \in cumsum[p] .. cumsum[p + 1] - 1 :
                                            (x - cumsum[p]) % block_size = 0}}
     IN  expert_ids' = [b \in DOMAIN expert_ids \cup own |->
                          IF b \in own THEN p ELSE expert_ids[b]]
  /\ UNCHANGED <<topk_ids, stage, i, last, tokens_cnts, cumsum, sorted_ids,
                 num_tokens_post_pad>>

\* Program p places its next token; row p has the counts of those before it.
Stage4Place(p) ==
  /\ stage = 4 /\ p \in named
  /\ LET idx == start_idx(p) + i[p] IN
       /\ idx < end_idx(p)
       /\ LET rank == tokens_cnts[p][topk_ids[idx]] + cumsum[topk_ids[idx]] IN
            sorted_ids' = [x \in DOMAIN sorted_ids \cup {rank} |->
                             IF x = rank THEN idx ELSE sorted_ids[x]]
       /\ tokens_cnts' = [tokens_cnts EXCEPT ![p][topk_ids[idx]] = @ + 1]
  /\ Advance(p)
  /\ UNCHANGED <<topk_ids, stage, named, last, cumsum, expert_ids,
                 num_tokens_post_pad>>

\* The programs of the launch have left their loops.
Over ==
  \/ stage = 1 /\ \A p \in Experts : i[p] = tokens_per_thread
  \/ stage = 2 /\ \A p \in Experts : i[p] = num_experts + 1
  \/ stage = 3 /\ i[0] = num_experts + 1
  \/ stage = 4 /\ named = Experts
               /\ \A p \in Experts : start_idx(p) + i[p] >= end_idx(p)

\* The stream starts a launch when the one before it is over.
NextStage ==
  /\ Over
  /\ stage' = stage + 1
  /\ i' = [p \in Experts |-> IF stage' \in {2, 3} THEN 1 ELSE 0]
  /\ last' = [p \in Experts |-> 0]
  /\ UNCHANGED <<topk_ids, named, tokens_cnts, cumsum, sorted_ids, expert_ids,
                 num_tokens_post_pad>>

Next ==
  \/ \E p \in Experts :
       Stage1(p) \/ Stage2(p) \/ Stage4Names(p) \/ Stage4Place(p)
  \/ Stage3
  \/ NextStage
  \/ (stage = 5 /\ UNCHANGED vars)

Spec == Init /\ [][Next]_vars
-----------------------------------------------------------------------------
(***************************************************************************)
(* Properties                                                              *)
(***************************************************************************)
\* No table is stored beyond its end: the blocks of all experts fit what the
\* caller has allocated for the worst case, with either kind of padding.
TypeOK ==
  /\ stage \in 1 .. 5
  /\ tokens_cnts \in [0 .. num_experts -> [Experts -> 0 .. numel]]
  /\ \E pad_sorted_ids \in BOOLEAN :
       LET size == numel + num_experts * (block_size - 1)
           room == IF pad_sorted_ids THEN round_up(size, block_size) ELSE size
       IN  /\ sorted_ids \in [0 .. room - 1 -> 0 .. numel]
           /\ expert_ids \in [0 .. cdiv(room, block_size) - 1 -> Experts]
  /\ named \subseteq Experts

\* While tokens are placed, the counter a program reads for an expert is the
\* number of that expert's tokens before the program's next one, in the whole
\* batch: the two sums and the program's own increments fit together.
RankExact ==
  stage = 4 => \A p, e \in Experts :
    tokens_cnts[p][e] = Cardinality({j \in 0 .. numel - 1 :
      j < start_idx(p) + i[p] /\ topk_ids[j] = e})

\* In the result every token has one place, in a block of its own expert, an
\* expert's tokens stand in their order without gaps, and what is not padding
\* is within the reported length, which is made of whole blocks.
Aligned ==
  stage = 5 =>
    LET Filled == {x \in DOMAIN sorted_ids : sorted_ids[x] # numel}
        expert(x) == expert_ids[x \div block_size] IN
      /\ {sorted_ids[x] : x \in Filled} = 0 .. numel - 1
      /\ Cardinality(Filled) = numel
      /\ \A x \in Filled :
           /\ expert(x) = topk_ids[sorted_ids[x]]
           /\ x < num_tokens_post_pad
      /\ \A x, y \in Filled : x < y /\ expert(x) = expert(y) =>
           /\ sorted_ids[x] < sorted_ids[y]
           /\ x .. y \subseteq Filled
      /\ num_tokens_post_pad % block_size = 0
      /\ \A b \in 0 .. num_tokens_post_pad \div block_size - 1 :
           b * block_size \in Filled
=============================================================================
