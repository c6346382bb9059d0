--------------------------- MODULE MoeAlignProofs ---------------------------
(***************************************************************************)
(* Proofs about moe_align_block_size: how tokens are counted, an invariant *)
(* of the four launches, and from it the properties of MoeAlign.           *)
(***************************************************************************)
EXTENDS MoeAlign, FiniteSetTheorems, TLAPS

-----------------------------------------------------------------------------
(***************************************************************************)
(* The invariant                                                           *)
(***************************************************************************)
Tokens == 0 .. numel - 1

\* Tokens of expert e before token x, those of experts before e, and the place
\* where a token belongs.
Before(x, e) == Cardinality({j \in 0 .. numel - 1 : j < x /\ topk_ids[j] = e})
Total(e) == Before(numel, e)
OfSmaller(e) == Cardinality({j \in 0 .. numel - 1 : topk_ids[j] < e})
Place(j) == cumsum[topk_ids[j]] + Before(j, topk_ids[j])

Placed ==
  IF stage = 5 THEN Tokens
  ELSE {j \in Tokens : \E p \in Experts :
          start_idx(p) <= j /\ j < start_idx(p) + i[p]}

BatchOK ==
  /\ numel \in Nat
  /\ topk_ids \in [Tokens -> Experts]
  /\ stage \in 1 .. 5
  /\ i \in [Experts -> Nat]
  /\ last \in [Experts -> Nat]
  /\ named \subseteq Experts
  /\ tokens_cnts \in [0 .. num_experts -> [Experts -> Nat]]
  /\ cumsum \in [0 .. num_experts -> Nat]

LoopsOK ==
  /\ stage = 1 => \A p \in Experts : i[p] <= tokens_per_thread
  /\ stage = 2 => \A p \in Experts : i[p] \in 1 .. num_experts + 1
  /\ stage = 3 => i[0] \in 1 .. num_experts + 1
  /\ stage = 4 => \A p \in Experts : i[p] > 0 => start_idx(p) + i[p] <= end_idx(p)

\* The rows of tokens_cnts while they are counted, summed up and counted on.
Counted ==
  stage = 1 => \A e \in Experts :
    /\ tokens_cnts[0][e] = 0
    /\ \A p \in Experts :
         tokens_cnts[p + 1][e] =
           Before(start_idx(p) + i[p], e) - Before(start_idx(p), e)

Summed ==
  stage = 2 => \A e \in Experts :
    /\ last[e] = Before(start_idx(i[e] - 1), e)
    /\ \A t \in 0 .. num_experts :
         tokens_cnts[t][e] = IF t < i[e] THEN Before(start_idx(t), e)
                             ELSE Before(start_idx(t), e) - Before(start_idx(t - 1), e)

Ranks ==
  /\ stage \in {3, 4} => \A e \in Experts : tokens_cnts[num_experts][e] = Total(e)
  /\ stage = 3 => \A p, e \in Experts : tokens_cnts[p][e] = Before(start_idx(p), e)
  /\ stage = 4 => \A p, e \in Experts :
                    tokens_cnts[p][e] = Before(start_idx(p) + i[p], e)
  /\ stage = 5 => \A t \in 0 .. num_experts, e \in Experts :
                    tokens_cnts[t][e] <= numel

\* How far the places of the experts have been summed up, and what they are.
Reached ==
  IF stage < 3 THEN 0 ELSE IF stage = 3 THEN i[0] - 1 ELSE num_experts

Sums ==
  /\ cumsum[0] = 0
  /\ stage = 3 => last[0] = cumsum[i[0] - 1]
  /\ \A t \in 1 .. Reached : cumsum[t] = cumsum[t - 1] + padded(Total(t - 1))
  /\ \A t \in 0 .. Reached :
       /\ cumsum[t] % block_size = 0
       /\ cumsum[t] <= OfSmaller(t) + t * (block_size - 1)
       /\ \A s \in 0 .. t : cumsum[s] <= cumsum[t]
  /\ stage >= 3 /\ Reached = num_experts => num_tokens_post_pad = cumsum[num_experts]

Names ==
  /\ stage < 4 => named = {}
  /\ stage = 5 => named = Experts
  /\ \A p \in named : \A b \in Nat :
       cumsum[p] <= b * block_size /\ b * block_size < cumsum[p + 1] =>
         expert_ids[b] = p

Tables ==
  \E pad_sorted_ids \in BOOLEAN :
    LET size == numel + num_experts * (block_size - 1)
        room == IF pad_sorted_ids THEN round_up(size, block_size) ELSE size
    IN  /\ sorted_ids \in [0 .. room - 1 -> 0 .. numel]
        /\ expert_ids \in [0 .. cdiv(room, block_size) - 1 -> Experts]

Places ==
  /\ stage < 4 => \A x \in DOMAIN sorted_ids : sorted_ids[x] = numel
  /\ stage >= 4 =>
       /\ \A x \in DOMAIN sorted_ids :
            sorted_ids[x] # numel => sorted_ids[x] \in Placed /\ Place(sorted_ids[x]) = x
       /\ \A j \in Placed : Place(j) \in DOMAIN sorted_ids /\ sorted_ids[Place(j)] = j

MoeInv ==
  /\ BatchOK /\ LoopsOK /\ Counted /\ Summed /\ Ranks /\ Sums /\ Names
  /\ Tables /\ Places

-----------------------------------------------------------------------------
(***************************************************************************)
(* Arithmetic                                                              *)
(***************************************************************************)
LEMMA DivMod ==
  ASSUME NEW a \in Nat, NEW b \in Nat \ {0}
  PROVE  /\ a = (a \div b) * b + (a % b)
         /\ a % b \in 0 .. b - 1
         /\ a \div b \in Nat
OBVIOUS

LEMMA DivUnique ==
  ASSUME NEW a \in Nat, NEW b \in Nat \ {0}, NEW q \in Int, NEW r \in 0 .. b - 1,
         a = q * b + r
  PROVE  a \div b = q /\ a % b = r
OBVIOUS

\* A product grows with its factor.
LEMMA TimesGrows ==
  ASSUME NEW a \in Int, NEW c \in Int, NEW b \in Nat
  PROVE  /\ a <= c => a * b <= c * b
         /\ a < c => a * b + b <= c * b
         /\ (a + 1) * b = a * b + b
OBVIOUS

\* ... and only with it.
LEMMA FactorLess ==
  ASSUME NEW a \in Int, NEW c \in Int, NEW b \in Nat, a * b < c * b
  PROVE  a < c
<1>1. c <= a => c * b <= a * b
  BY TimesGrows
<1>2. a * b \in Int /\ c * b \in Int
  OBVIOUS
<1>. QED BY <1>1, <1>2

\* A set of naturals that is not empty has a least element.
LEMMA LeastNat ==
  ASSUME NEW T \in SUBSET Nat, T # {}
  PROVE  \E n \in T : \A m \in T : n <= m
<1>1. PICK n \in T : \A m \in T : <<m, n>> \notin OpToRel(<, Nat)
  BY NatLessThanWellFounded, WFMin, Zenon
<1>2. \A m \in T : ~(m < n)
  BY <1>1, Zenon DEF OpToRel
<1>. QED BY <1>2

\* A quotient rounded up.
LEMMA CdivFacts ==
  ASSUME NEW a \in Nat, NEW b \in Nat \ {0}
  PROVE  /\ cdiv(a, b) \in Nat
         /\ a <= cdiv(a, b) * b
         /\ cdiv(a, b) * b <= a + (b - 1)
         /\ cdiv(a, b) * b \in Nat
<1> DEFINE n == a + b - 1
           q == n \div b
<1>1. n \in Nat
  OBVIOUS
<1>2. n = q * b + (n % b) /\ n % b \in 0 .. b - 1 /\ q \in Nat
  BY <1>1, DivMod
<1>3. cdiv(a, b) = q
  BY DEF cdiv
<1>4. q * b \in Nat
  BY <1>2
<1>5. a + b - 1 = q * b + (n % b)
  BY <1>2
<1> HIDE DEF q, n
<1>. QED BY <1>2, <1>3, <1>4, <1>5

\* A multiple below a count rounded up lies below the count.
LEMMA MultipleBelow ==
  ASSUME NEW a \in Nat, NEW b \in Nat \ {0}, NEW m \in Nat, m * b < cdiv(a, b) * b
  PROVE  m * b < a
<1> DEFINE c == cdiv(a, b)
<1>1. c \in Nat /\ c * b <= a + (b - 1) /\ c * b \in Nat
  BY CdivFacts
<1> HIDE DEF c
<1>2. m < c
  BY <1>1, FactorLess DEF c
<1>3. m * b + b <= c * b
  BY <1>1, <1>2, TimesGrows
<1>4. m * b \in Nat
  OBVIOUS
<1>. QED BY <1>1, <1>3, <1>4
-----------------------------------------------------------------------------
(***************************************************************************)
(* Counting tokens                                                         *)
(***************************************************************************)
\* A batch as Init and BatchOK have it.
Batch == numel \in Nat /\ topk_ids \in [Tokens -> Experts]

LEMMA CountFinite ==
  ASSUME Batch, NEW T \in SUBSET Tokens
  PROVE  IsFiniteSet(T) /\ Cardinality(T) \in Nat /\ Cardinality(T) <= numel
<1>1. IsFiniteSet(Tokens) /\ Cardinality(Tokens) = numel
  BY FS_Interval DEF Batch, Tokens
<1>. QED BY <1>1, FS_Subset, FS_CardinalityType

LEMMA BeforeType ==
  ASSUME Batch, NEW x, NEW e
  PROVE  Before(x, e) \in 0 .. numel
<1>1. {j \in 0 .. numel - 1 : j < x /\ topk_ids[j] = e} \in SUBSET Tokens
  BY DEF Tokens
<1>. QED BY <1>1, CountFinite DEF Before, Batch

LEMMA BeforeZero ==
  ASSUME NEW e
  PROVE  Before(0, e) = 0
<1>1. {j \in 0 .. numel - 1 : j < 0 /\ topk_ids[j] = e} = {}
  OBVIOUS
<1>. QED BY <1>1, FS_EmptySet DEF Before

LEMMA BeforeNext ==
  ASSUME Batch, NEW x \in Nat, NEW e
  PROVE  Before(x + 1, e) =
           Before(x, e) + IF x < numel /\ topk_ids[x] = e THEN 1 ELSE 0
<1> DEFINE S == {j \in 0 .. numel - 1 : j < x /\ topk_ids[j] = e}
           T == {j \in 0 .. numel - 1 : j < x + 1 /\ topk_ids[j] = e}
<1>1. CASE x < numel /\ topk_ids[x] = e
  <2>1. T = S \cup {x} /\ x \notin S
    BY <1>1 DEF Batch
  <2>2. IsFiniteSet(S)
    BY CountFinite DEF Tokens
  <2>. HIDE DEF S, T
  <2>3. Cardinality(T) = Cardinality(S) + 1
    BY <2>1, <2>2, FS_AddElement
  <2>. QED BY <1>1, <2>3 DEF Before, S, T
<1>2. CASE ~(x < numel /\ topk_ids[x] = e)
  <2>1. T = S
    BY <1>2 DEF Batch
  <2>2. Before(x, e) \in Nat
    BY BeforeType DEF Batch
  <2>. QED BY <1>2, <2>1, <2>2 DEF Before
<1>. QED BY <1>1, <1>2

LEMMA BeforeGrows ==
  ASSUME Batch, NEW x \in Nat, NEW y \in Nat, x <= y, NEW e
  PROVE  Before(x, e) <= Before(y, e)
<1> DEFINE S == {j \in 0 .. numel - 1 : j < x /\ topk_ids[j] = e}
           T == {j \in 0 .. numel - 1 : j < y /\ topk_ids[j] = e}
<1>1. S \in SUBSET T
  BY DEF Batch
<1>2. IsFiniteSet(T)
  BY CountFinite DEF Tokens
<1> HIDE DEF S, T
<1>3. Cardinality(S) <= Cardinality(T)
  BY <1>1, <1>2, FS_Subset
<1>. QED BY <1>3 DEF Before, S, T

LEMMA BeforeAll ==
  ASSUME Batch, NEW x \in Nat, numel <= x, NEW e
  PROVE  Before(x, e) = Total(e)
<1>1. {j \in 0 .. numel - 1 : j < x /\ topk_ids[j] = e}
      = {j \in 0 .. numel - 1 : j < numel /\ topk_ids[j] = e}
  BY DEF Batch
<1>. QED BY <1>1 DEF Total, Before

\* A token counts for those behind it.
LEMMA BeforeLess ==
  ASSUME Batch, NEW j \in Tokens, NEW y \in Nat, j < y
  PROVE  Before(j, topk_ids[j]) < Before(y, topk_ids[j])
<1> DEFINE e == topk_ids[j]
<1>1. j \in Nat /\ j < numel
  BY DEF Batch, Tokens
<1>2. Before(j + 1, e) = Before(j, e) + 1
  BY <1>1, BeforeNext
<1>3. Before(j + 1, e) <= Before(y, e)
  BY <1>1, BeforeGrows
<1>4. Before(j, e) \in Nat /\ Before(y, e) \in Nat
  BY BeforeType DEF Batch
<1>. QED BY <1>2, <1>3, <1>4

LEMMA BeforeTotal ==
  ASSUME Batch, NEW j \in Tokens
  PROVE  Before(j, topk_ids[j]) < Total(topk_ids[j])
BY BeforeLess DEF Batch, Tokens, Total

\* There is a token of every rank.
LEMMA RankTaken ==
  ASSUME Batch, NEW e, NEW r \in Nat, r < Total(e)
  PROVE  \E j \in Tokens : topk_ids[j] = e /\ Before(j, e) = r
<1> DEFINE T == {x \in Nat : r < Before(x, e)}
<1>1. numel \in T
  BY DEF Batch, Total
<1>2. PICK x \in T : \A y \in T : x <= y
  BY <1>1, LeastNat
<1>3. x \in Nat /\ x # 0 /\ r < Before(x, e)
  BY <1>2, BeforeZero
<1>4. x - 1 \in Nat /\ x - 1 \notin T /\ (x - 1) + 1 = x
  BY <1>2, <1>3
<1> HIDE DEF T
<1>5. Before(x - 1, e) \in Nat /\ Before(x - 1, e) <= r
  BY <1>4, BeforeType DEF Batch, T
<1>6. Before(x, e) = Before(x - 1, e)
                     + IF x - 1 < numel /\ topk_ids[x - 1] = e THEN 1 ELSE 0
  BY <1>4, BeforeNext
<1>7. x - 1 < numel /\ topk_ids[x - 1] = e /\ Before(x - 1, e) = r
  BY <1>3, <1>5, <1>6
<1>. QED BY <1>4, <1>7 DEF Tokens, Batch

\* The tokens of the experts, summed up.
LEMMA SmallerType ==
  ASSUME Batch, NEW e
  PROVE  OfSmaller(e) \in 0 .. numel
<1>1. {j \in 0 .. numel - 1 : topk_ids[j] < e} \in SUBSET Tokens
  BY DEF Tokens
<1>. QED BY <1>1, CountFinite DEF OfSmaller, Batch

LEMMA SmallerNext ==
  ASSUME Batch, NEW e \in Nat
  PROVE  OfSmaller(e + 1) = OfSmaller(e) + Total(e)
<1> DEFINE S == {j \in 0 .. numel - 1 : topk_ids[j] < e}
           T == {j \in 0 .. numel - 1 : j < numel /\ topk_ids[j] = e}
           U == {j \in 0 .. numel - 1 : topk_ids[j] < e + 1}
<1>1. \A j \in 0 .. numel - 1 : topk_ids[j] \in Nat
  BY DEF Batch, Tokens, Experts
<1>2. U = S \cup T /\ S \cap T = {}
  BY <1>1 DEF Batch
<1>3. IsFiniteSet(S) /\ IsFiniteSet(T) /\ Cardinality(S) \in Nat /\ Cardinality(T) \in Nat
  BY CountFinite DEF Tokens
<1> HIDE DEF S, T, U
<1>4. Cardinality(U) = Cardinality(S) + Cardinality(T)
  BY <1>2, <1>3, FS_Union, FS_EmptySet
<1>. QED BY <1>4 DEF OfSmaller, Total, Before, S, T, U
-----------------------------------------------------------------------------
(***************************************************************************)
(* The parts of the batch                                                  *)
(***************************************************************************)
LEMMA SplitFacts ==
  ASSUME Batch
  PROVE  /\ tokens_per_thread \in Nat /\ numel <= start_idx(num_experts)
         /\ start_idx(0) = 0
         /\ \A p \in Nat : /\ start_idx(p) \in Nat
                           /\ start_idx(p + 1) = start_idx(p) + tokens_per_thread
         /\ num_experts \in Nat \ {0} /\ block_size \in Nat \ {0}
<1>1. num_experts \in Nat \ {0} /\ block_size \in Nat \ {0}
  BY MoeAssumption
<1>2. tokens_per_thread \in Nat /\ numel <= tokens_per_thread * num_experts
  BY <1>1, CdivFacts DEF tokens_per_thread, Batch
<1> DEFINE t == tokens_per_thread
<1> HIDE DEF t
<1>3. t * num_experts = num_experts * t
  BY <1>1, <1>2 DEF t
<1>4. \A p \in Nat : p * t \in Nat /\ (p + 1) * t = p * t + t
  BY <1>2 DEF t
<1>5. 0 * t = 0
  BY <1>2 DEF t
<1>. QED BY <1>1, <1>2, <1>3, <1>4, <1>5 DEF start_idx, t

\* Every token is in somebody's part.
LEMMA PartOf ==
  ASSUME Batch, NEW j \in Tokens
  PROVE  \E p \in Experts : start_idx(p) <= j /\ j < start_idx(p) + tokens_per_thread
<1> DEFINE T == {p \in Nat : j < start_idx(p)}
<1>1. j \in Nat /\ j < numel
  BY DEF Batch, Tokens
<1>2. num_experts \in T
  BY <1>1, SplitFacts DEF Batch
<1>3. PICK q \in T : \A p \in T : q <= p
  BY <1>2, LeastNat
<1>4. q # 0 /\ q \in Nat /\ q <= num_experts
  BY <1>1, <1>2, <1>3, SplitFacts
<1>5. q - 1 \in Nat /\ q - 1 \notin T /\ (q - 1) + 1 = q
  BY <1>3, <1>4
<1>6. start_idx(q - 1) <= j /\ start_idx(q) = start_idx(q - 1) + tokens_per_thread
  BY <1>1, <1>5, SplitFacts
<1>7. q - 1 \in Experts
  BY <1>4, SplitFacts DEF Experts
<1>. QED BY <1>3, <1>6, <1>7

\* The batch does not change, and so do the numbers it determines.
LEMMA Static ==
  ASSUME topk_ids' = topk_ids
  PROVE  /\ numel' = numel /\ Tokens' = Tokens
         /\ tokens_per_thread' = tokens_per_thread
         /\ \A p : start_idx(p)' = start_idx(p) /\ end_idx(p)' = end_idx(p)
         /\ \A x, e : Before(x, e)' = Before(x, e)
         /\ \A e : Total(e)' = Total(e) /\ OfSmaller(e)' = OfSmaller(e)
<1> USE DEF numel, Tokens, tokens_per_thread, start_idx
<1>1. /\ numel' = numel /\ Tokens' = Tokens
      /\ tokens_per_thread' = tokens_per_thread
  OBVIOUS
<1>2. \A p : start_idx(p)' = start_idx(p) /\ end_idx(p)' = end_idx(p)
  BY DEF end_idx
<1>3. \A x, e : Before(x, e)' = Before(x, e)
  BY DEF Before
<1>4. \A e : Total(e)' = Total(e) /\ OfSmaller(e)' = OfSmaller(e)
  BY DEF Total, Before, OfSmaller
<1>. QED BY <1>1, <1>2, <1>3, <1>4

-----------------------------------------------------------------------------
(***************************************************************************)
(* The places of the experts                                               *)
(***************************************************************************)
LEMMA PaddedFacts ==
  ASSUME NEW c \in Nat
  PROVE  padded(c) \in Nat /\ c <= padded(c) /\ padded(c) <= c + (block_size - 1)
         /\ padded(c) = cdiv(c, block_size) * block_size
BY MoeAssumption, CdivFacts DEF padded, round_up

\* A sum of multiples is one.
LEMMA MultiplesAdd ==
  ASSUME NEW a \in Nat, NEW b \in Nat \ {0}, NEW m \in Nat, a % b = 0
  PROVE  (a + m * b) % b = 0 /\ a = (a \div b) * b
<1> DEFINE q == a \div b
           n == a + m * b
<1>1. a = q * b + (a % b) /\ q \in Nat
  BY DivMod
<1>2. a = q * b
  <2>1. q * b \in Nat
    BY <1>1
  <2>. HIDE DEF q
  <2>. QED BY <1>1, <2>1
<1> HIDE DEF q
<1>3. (q + m) * b = q * b + m * b
  BY <1>1
<1>4. m * b \in Nat /\ q * b \in Nat /\ q + m \in Int
  BY <1>1
<1>5. n = (q + m) * b + 0 /\ n \in Nat /\ 0 \in 0 .. b - 1
  BY <1>2, <1>3, <1>4
<1> HIDE DEF n
<1>6. n % b = 0
  BY <1>4, <1>5, DivUnique
<1>. QED BY <1>2, <1>6 DEF n, q

\* All sums have been made.
AllSummed ==
  /\ Batch
  /\ cumsum \in [0 .. num_experts -> Nat]
  /\ cumsum[0] = 0
  /\ \A t \in 1 .. num_experts : cumsum[t] = cumsum[t - 1] + padded(Total(t - 1))
  /\ \A t \in 0 .. num_experts :
       /\ cumsum[t] % block_size = 0
       /\ cumsum[t] <= OfSmaller(t) + t * (block_size - 1)
       /\ \A s \in 0 .. t : cumsum[s] <= cumsum[t]

LEMMA ExpertPlaces ==
  ASSUME AllSummed, NEW e \in Experts
  PROVE  /\ e \in Nat /\ e + 1 \in 0 .. num_experts /\ Total(e) \in Nat
         /\ cumsum[e] \in Nat /\ cumsum[e + 1] \in Nat
         /\ cumsum[e + 1] = cumsum[e] + padded(Total(e))
         /\ cumsum[e] + Total(e) <= cumsum[e + 1]
         /\ cumsum[e + 1] <= cumsum[num_experts]
         /\ cumsum[e] % block_size = 0
<1>1. /\ e \in Nat /\ e + 1 \in 1 .. num_experts /\ e \in 0 .. num_experts
      /\ num_experts \in Nat /\ (e + 1) - 1 = e
  BY MoeAssumption DEF Experts
<1>2. Total(e) \in Nat
  BY BeforeType DEF AllSummed, Total, Batch
<1>3. cumsum[e + 1] = cumsum[e] + padded(Total(e))
  BY <1>1 DEF AllSummed
<1>4. /\ cumsum[e] \in Nat /\ cumsum[e + 1] \in Nat /\ cumsum[e] % block_size = 0
      /\ e + 1 \in 0 .. num_experts
  BY <1>1 DEF AllSummed
<1>5. cumsum[e + 1] <= cumsum[num_experts]
  BY <1>1, <1>4 DEF AllSummed
<1>6. padded(Total(e)) \in Nat /\ Total(e) <= padded(Total(e))
  BY <1>2, PaddedFacts
<1>. QED BY <1>1, <1>2, <1>3, <1>4, <1>5, <1>6

\* A place belongs to one expert.
LEMMA OneExpert ==
  ASSUME AllSummed, NEW e \in Experts, NEW f \in Experts, NEW x \in Nat,
         cumsum[e] <= x, x < cumsum[e + 1], cumsum[f] <= x, x < cumsum[f + 1]
  PROVE  e = f
<1>0. num_experts \in Nat /\ cumsum \in [0 .. num_experts -> Nat]
  BY MoeAssumption DEF AllSummed
<1>1. ASSUME NEW a \in Experts, NEW b \in Experts, a < b
      PROVE  cumsum[a + 1] <= cumsum[b]
  <2>1. b \in 0 .. num_experts /\ a + 1 \in 0 .. b
    BY <1>0, <1>1 DEF Experts
  <2>. QED BY <2>1 DEF AllSummed
<1>2. ~(e < f)
  BY <1>1, ExpertPlaces
<1>3. ~(f < e)
  BY <1>1, ExpertPlaces
<1>. QED BY <1>2, <1>3, ExpertPlaces

\* A place below the last sum belongs to an expert.
LEMMA SomeExpert ==
  ASSUME AllSummed, NEW x \in Nat, x < cumsum[num_experts]
  PROVE  \E e \in Experts : cumsum[e] <= x /\ x < cumsum[e + 1]
<1> DEFINE T == {t \in 0 .. num_experts : x < cumsum[t]}
<1>0. num_experts \in Nat /\ cumsum \in [0 .. num_experts -> Nat] /\ cumsum[0] = 0
  BY MoeAssumption DEF AllSummed
<1>1. num_experts \in T
  BY <1>0
<1>2. T \in SUBSET Nat
  OBVIOUS
<1>3. PICK t \in T : \A s \in T : t <= s
  <2>. HIDE DEF T
  <2>. QED BY <1>1, <1>2, LeastNat
<1>4. t \in 1 .. num_experts /\ x < cumsum[t]
  BY <1>0, <1>3
<1>5. t - 1 \in Experts /\ (t - 1) + 1 = t /\ t - 1 \in 0 .. num_experts
  BY <1>0, <1>4 DEF Experts
<1>6. t - 1 \notin T
  <2>. HIDE DEF T
  <2>. QED BY <1>3, <1>4, <1>5
<1>7. cumsum[t - 1] <= x
  BY <1>0, <1>5, <1>6
<1>. QED BY <1>4, <1>5, <1>7

\* Where a token belongs, no other does.
LEMMA PlaceFacts ==
  ASSUME AllSummed, NEW j \in Tokens
  PROVE  /\ Place(j) \in Nat /\ topk_ids[j] \in Experts
         /\ cumsum[topk_ids[j]] <= Place(j)
         /\ Place(j) < cumsum[topk_ids[j]] + Total(topk_ids[j])
         /\ Place(j) < cumsum[topk_ids[j] + 1]
         /\ Place(j) < cumsum[num_experts]
<1> DEFINE e == topk_ids[j]
           r == Before(j, e)
<1>1. Batch /\ num_experts \in Nat /\ cumsum[num_experts] \in Nat
  BY MoeAssumption DEF AllSummed
<1>2. e \in Experts
  BY <1>1 DEF Batch
<1>3. r \in Nat /\ r < Total(e)
  BY <1>1, BeforeType, BeforeTotal DEF Batch
<1>4. Place(j) = cumsum[e] + r
  BY DEF Place
<1> HIDE DEF e, r
<1>5. /\ cumsum[e] \in Nat /\ cumsum[e + 1] \in Nat /\ Total(e) \in Nat
      /\ cumsum[e] + Total(e) <= cumsum[e + 1] /\ cumsum[e + 1] <= cumsum[num_experts]
  BY <1>2, ExpertPlaces
<1>6. /\ Place(j) \in Nat /\ cumsum[e] <= Place(j) /\ Place(j) < cumsum[e] + Total(e)
      /\ Place(j) < cumsum[e + 1] /\ Place(j) < cumsum[num_experts]
  BY <1>1, <1>3, <1>4, <1>5
<1>. QED BY <1>2, <1>6 DEF e

LEMMA PlaceUnique ==
  ASSUME AllSummed, NEW j \in Tokens, NEW k \in Tokens, Place(j) = Place(k)
  PROVE  j = k
<1>1. topk_ids[j] = topk_ids[k]
  BY PlaceFacts, OneExpert
<1>2. j \in Nat /\ k \in Nat /\ Batch
  BY DEF Tokens, AllSummed, Batch
<1> DEFINE e == topk_ids[j]
<1>3. Before(j, e) = Before(k, e)
  <2> DEFINE a == Before(j, e)
             b == Before(k, e)
             c == cumsum[e]
  <2>1. Place(j) = c + a /\ Place(k) = c + b
    BY <1>1 DEF Place
  <2>2. c + a = c + b
    BY <2>1
  <2>3. a \in Nat /\ b \in Nat
    BY <1>2, BeforeType DEF Batch
  <2>4. c \in Nat
    BY PlaceFacts, ExpertPlaces
  <2>5. ASSUME NEW u \in Nat, NEW v \in Nat, NEW w \in Nat, w + u = w + v
        PROVE  u = v
    BY <2>5
  <2>. HIDE DEF a, b, c
  <2>. QED BY <2>2, <2>3, <2>4, <2>5 DEF a, b
<1>4. Before(j, e) \in Nat /\ Before(k, e) \in Nat
  BY <1>2, BeforeType DEF Batch
<1>5. ~(j < k)
  BY <1>2, <1>3, <1>4, BeforeLess
<1>6. ~(k < j)
  BY <1>1, <1>2, <1>3, <1>4, BeforeLess
<1>. QED BY <1>2, <1>5, <1>6

\* What the caller has allocated is enough.
LEMMA RoomFacts ==
  ASSUME AllSummed, Tables
  PROVE  /\ \A x \in Nat : x < cumsum[num_experts] => x \in DOMAIN sorted_ids
         /\ \A b \in Nat : b * block_size < cumsum[num_experts] =>
              b \in DOMAIN expert_ids
<1> DEFINE size == numel + num_experts * (block_size - 1)
<1>1. PICK pad \in BOOLEAN :
        LET room == IF pad THEN round_up(size, block_size) ELSE size
        IN  /\ sorted_ids \in [0 .. room - 1 -> 0 .. numel]
            /\ expert_ids \in [0 .. cdiv(room, block_size) - 1 -> Experts]
  BY DEF Tables
<1> DEFINE room == IF pad THEN round_up(size, block_size) ELSE size
<1>2. num_experts \in Nat \ {0} /\ block_size \in Nat \ {0} /\ numel \in Nat /\ Batch
  BY MoeAssumption DEF AllSummed, Batch
<1>3. num_experts * (block_size - 1) \in Nat
  BY <1>2
<1>4. size \in Nat
  BY <1>2, <1>3
<1>5. cumsum[num_experts] <= size /\ cumsum[num_experts] \in Nat
  <2>1. /\ cumsum[num_experts] <= OfSmaller(num_experts) + num_experts * (block_size - 1)
        /\ cumsum[num_experts] \in Nat
    BY <1>2 DEF AllSummed
  <2>2. OfSmaller(num_experts) \in Nat /\ OfSmaller(num_experts) <= numel
    BY <1>2, SmallerType
  <2>. QED BY <1>2, <1>3, <2>1, <2>2
<1> HIDE DEF size
<1>6. room \in Nat /\ size <= room
  BY <1>2, <1>4, CdivFacts DEF round_up
<1>7. /\ sorted_ids \in [0 .. room - 1 -> 0 .. numel]
      /\ expert_ids \in [0 .. cdiv(room, block_size) - 1 -> Experts]
  BY <1>1
<1> HIDE DEF room
<1>8. ASSUME NEW x \in Nat, x < cumsum[num_experts]
      PROVE  x \in DOMAIN sorted_ids
  BY <1>4, <1>5, <1>6, <1>7, <1>8
<1>9. ASSUME NEW b \in Nat, b * block_size < cumsum[num_experts]
      PROVE  b \in DOMAIN expert_ids
  <2>1. cdiv(room, block_size) \in Nat /\ room <= cdiv(room, block_size) * block_size
        /\ cdiv(room, block_size) * block_size \in Nat
    BY <1>2, <1>6, CdivFacts
  <2>2. b * block_size \in Nat
    BY <1>2
  <2>3. b * block_size < cdiv(room, block_size) * block_size
    BY <1>4, <1>5, <1>6, <1>9, <2>1, <2>2
  <2>4. b < cdiv(room, block_size)
    BY <1>2, <2>1, <2>3, FactorLess
  <2>. QED BY <1>7, <2>1, <2>4
<1>. QED BY <1>8, <1>9

-----------------------------------------------------------------------------
(***************************************************************************)
(* The launches keep the invariant                                         *)
(***************************************************************************)
LEMMA InitInv == Init => MoeInv
<1> SUFFICES ASSUME Init PROVE MoeInv
  OBVIOUS
<1>0. num_experts \in Nat \ {0} /\ block_size \in Nat \ {0} /\ Sizes \subseteq Nat
  BY MoeAssumption
<1>1. PICK n \in Nat : topk_ids \in [0 .. n - 1 -> Experts]
  BY <1>0 DEF Init
<1>2. numel = n
  <2>1. DOMAIN topk_ids = 0 .. n - 1
    BY <1>1
  <2>2. Cardinality(0 .. n - 1) = n
    BY FS_Interval
  <2>. QED BY <2>1, <2>2 DEF numel
<1>3. Batch
  BY <1>1, <1>2 DEF Batch, Tokens
<1>4. /\ stage = 1 /\ i = [p \in Experts |-> 0] /\ named = {}
      /\ last = [p \in Experts |-> 0]
      /\ tokens_cnts = [t \in 0 .. num_experts |-> [e \in Experts |-> 0]]
      /\ cumsum = [e \in 0 .. num_experts |-> 0]
  BY DEF Init
<1>5. BatchOK
  BY <1>3, <1>4 DEF BatchOK, Batch
<1>6. LoopsOK
  BY <1>3, <1>4, SplitFacts DEF LoopsOK
<1>7. Counted
  <2>1. ASSUME NEW e \in Experts, NEW p \in Experts
        PROVE  /\ tokens_cnts[0][e] = 0 /\ tokens_cnts[p + 1][e] = 0
               /\ Before(start_idx(p) + i[p], e) - Before(start_idx(p), e) = 0
    <3>1. p \in Nat /\ p + 1 \in 0 .. num_experts /\ 0 \in 0 .. num_experts
      BY <1>0 DEF Experts
    <3>2. start_idx(p) + i[p] = start_idx(p)
      BY <1>3, <1>4, <3>1, SplitFacts
    <3>3. Before(start_idx(p), e) \in Int
      BY <1>3, BeforeType DEF Batch
    <3>. QED BY <1>4, <3>1, <3>2, <3>3
  <2>2. 0 \in Experts
    BY <1>0 DEF Experts
  <2>. QED BY <2>1, <2>2 DEF Counted
<1>8. Summed /\ Ranks /\ Names
  BY <1>4 DEF Summed, Ranks, Names
<1>9. Sums
  <2>1. Reached = 0
    BY <1>4 DEF Reached
  <2>2. cumsum[0] = 0 /\ 0 % block_size = 0 /\ 0 * (block_size - 1) = 0
    BY <1>0, <1>4
  <2>3. OfSmaller(0) \in Nat
    BY <1>3, SmallerType DEF Batch
  <2>. QED BY <1>4, <2>1, <2>2, <2>3 DEF Sums
<1>10. Tables
  <2>1. PICK pad \in BOOLEAN :
          LET size == max_num_tokens_padded(numel, pad)
          IN  /\ sorted_ids = [x \in 0 .. size - 1 |-> numel]
              /\ expert_ids = [x \in 0 .. cdiv(size, block_size) - 1 |-> 0]
    BY DEF Init
  <2>2. numel \in 0 .. numel /\ 0 \in Experts
    BY <1>0, <1>3 DEF Batch, Experts
  <2>. QED BY <2>1, <2>2 DEF Tables, max_num_tokens_padded
<1>11. Places
  <2>1. PICK size : sorted_ids = [x \in 0 .. size - 1 |-> numel]
    BY DEF Init
  <2>. QED BY <1>4, <2>1 DEF Places
<1>. QED BY <1>5, <1>6, <1>7, <1>8, <1>9, <1>10, <1>11 DEF MoeInv

\* What most steps leave alone.
LEMMA SumsKept ==
  ASSUME Sums, topk_ids' = topk_ids, cumsum' = cumsum,
         num_tokens_post_pad' = num_tokens_post_pad, Reached' = Reached,
         stage' = 3 => last'[0] = cumsum[i'[0] - 1],
         stage' >= 3 /\ Reached' = num_experts => stage >= 3
  PROVE  Sums'
<1>1. \A e : Total(e)' = Total(e) /\ OfSmaller(e)' = OfSmaller(e)
  BY Static
<1>2. \A e : padded(Total(e))' = padded(Total(e))
  BY <1>1 DEF padded, round_up, cdiv
<1>. QED BY <1>1, <1>2 DEF Sums

LEMMA TablesKept ==
  ASSUME Tables, topk_ids' = topk_ids, sorted_ids' = sorted_ids,
         expert_ids' = expert_ids
  PROVE  Tables'
BY Static DEF Tables, round_up, cdiv

LEMMA BatchKept ==
  ASSUME BatchOK, topk_ids' = topk_ids
  PROVE  Batch /\ Batch' /\ numel' = numel /\ Tokens' = Tokens
BY Static DEF BatchOK, Batch

LEMMA Stage1Inv ==
  ASSUME MoeInv, NEW p \in Experts, Stage1(p)
  PROVE  MoeInv'
<1> USE DEF MoeInv
<1>0. /\ stage = 1 /\ stage' = 1 /\ i[p] < tokens_per_thread
      /\ topk_ids' = topk_ids /\ named' = named /\ last' = last
      /\ cumsum' = cumsum /\ sorted_ids' = sorted_ids /\ expert_ids' = expert_ids
      /\ num_tokens_post_pad' = num_tokens_post_pad
      /\ i' = [i EXCEPT ![p] = @ + 1]
  BY DEF Stage1, Advance
<1>1. Batch /\ Batch' /\ numel' = numel /\ Tokens' = Tokens
  BY <1>0, BatchKept
<1>2. num_experts \in Nat /\ p \in Nat /\ p + 1 \in 0 .. num_experts
  BY MoeAssumption DEF Experts
<1>3. i \in [Experts -> Nat] /\ i' \in [Experts -> Nat] /\ i'[p] = i[p] + 1
  BY <1>0 DEF BatchOK
<1> DEFINE idx == start_idx(p) + i[p]
<1>4. idx \in Nat
  BY <1>1, <1>2, <1>3, SplitFacts
<1>5. idx < numel => topk_ids[idx] \in Experts
  BY <1>1, <1>4 DEF Batch, Tokens
<1>6. tokens_cnts' = IF idx < numel
        THEN [tokens_cnts EXCEPT ![p + 1][topk_ids[idx]] = @ + 1] ELSE tokens_cnts
  BY DEF Stage1
<1>7. tokens_cnts \in [0 .. num_experts -> [Experts -> Nat]]
  BY DEF BatchOK
<1> HIDE DEF idx
<1>8. tokens_cnts' \in [0 .. num_experts -> [Experts -> Nat]]
  <2>1. CASE idx < numel
    <3> DEFINE e == topk_ids[idx]
    <3>1. e \in Experts /\ tokens_cnts' = [tokens_cnts EXCEPT ![p + 1][e] = @ + 1]
      BY <1>5, <1>6, <2>1
    <3>2. tokens_cnts[p + 1] \in [Experts -> Nat]
      BY <1>2, <1>7
    <3>. HIDE DEF e
    <3>3. [tokens_cnts[p + 1] EXCEPT ![e] = @ + 1] \in [Experts -> Nat]
      BY <3>1, <3>2
    <3>. QED BY <1>2, <1>7, <3>1, <3>3
  <2>2. CASE ~(idx < numel)
    BY <1>6, <1>7, <2>2
  <2>. QED BY <2>1, <2>2
<1>9. \A t \in 0 .. num_experts, e \in Experts :
        tokens_cnts'[t][e] = tokens_cnts[t][e]
          + IF t = p + 1 /\ idx < numel /\ topk_ids[idx] = e THEN 1 ELSE 0
  <2> SUFFICES ASSUME NEW t \in 0 .. num_experts, NEW e \in Experts
      PROVE  tokens_cnts'[t][e] = tokens_cnts[t][e]
               + IF t = p + 1 /\ idx < numel /\ topk_ids[idx] = e THEN 1 ELSE 0
    OBVIOUS
  <2>1. tokens_cnts[t] \in [Experts -> Nat] /\ tokens_cnts[t][e] \in Nat
    BY <1>7
  <2>2. CASE idx < numel /\ t = p + 1
    <3>1. tokens_cnts'[t] = [tokens_cnts[t] EXCEPT ![topk_ids[idx]] = @ + 1]
      BY <1>2, <1>6, <1>7, <2>2
    <3>. QED BY <1>5, <2>1, <2>2, <3>1
  <2>3. CASE ~(idx < numel /\ t = p + 1)
    <3>1. tokens_cnts'[t] = tokens_cnts[t]
      BY <1>2, <1>6, <1>7, <2>3
    <3>. QED BY <2>1, <2>3, <3>1
  <2>. QED BY <2>2, <2>3
<1>10. BatchOK'
  BY <1>0, <1>1, <1>3, <1>8 DEF BatchOK
<1>11. LoopsOK'
  <2>1. tokens_per_thread' = tokens_per_thread /\ tokens_per_thread \in Nat
    BY <1>0, <1>1, Static, SplitFacts
  <2>2. \A q \in Experts : i'[q] <= tokens_per_thread
    BY <1>0, <1>3, <2>1 DEF LoopsOK
  <2>. QED BY <1>0, <2>1, <2>2 DEF LoopsOK
<1>12. Counted'
  <2>1. ASSUME NEW e \in Experts
        PROVE  /\ tokens_cnts'[0][e] = 0
               /\ \A q \in Experts : tokens_cnts'[q + 1][e] =
                    Before(start_idx(q) + i'[q], e) - Before(start_idx(q), e)
    <3>1. tokens_cnts'[0][e] = 0
      BY <1>0, <1>2, <1>9 DEF Counted
    <3>2. ASSUME NEW q \in Experts
          PROVE  tokens_cnts'[q + 1][e] =
                   Before(start_idx(q) + i'[q], e) - Before(start_idx(q), e)
      <4>1. q \in Nat /\ q + 1 \in 0 .. num_experts
        BY <1>2 DEF Experts
      <4>2. tokens_cnts[q + 1][e] =
              Before(start_idx(q) + i[q], e) - Before(start_idx(q), e)
        BY <1>0 DEF Counted
      <4>3. CASE q = p
        <5>1. start_idx(p) + i'[p] = idx + 1
          BY <1>1, <1>2, <1>3, SplitFacts DEF idx
        <5>2. Before(idx + 1, e) = Before(idx, e)
                + IF idx < numel /\ topk_ids[idx] = e THEN 1 ELSE 0
          BY <1>1, <1>4, BeforeNext
        <5>3. tokens_cnts[p + 1][e] = Before(idx, e) - Before(start_idx(p), e)
          BY <4>2, <4>3 DEF idx
        <5>4. tokens_cnts'[p + 1][e] = tokens_cnts[p + 1][e]
                + IF idx < numel /\ topk_ids[idx] = e THEN 1 ELSE 0
          BY <1>2, <1>9
        <5>5. Before(idx, e) \in Int /\ Before(start_idx(p), e) \in Int
          BY <1>1, BeforeType DEF Batch
        <5>. QED BY <4>3, <5>1, <5>2, <5>3, <5>4, <5>5
      <4>4. CASE q # p
        <5>1. i'[q] = i[q] /\ q + 1 # p + 1
          BY <1>0, <1>2, <1>3, <4>1, <4>4
        <5>2. tokens_cnts'[q + 1][e] = tokens_cnts[q + 1][e]
          BY <1>7, <1>9, <4>1, <5>1
        <5>. QED BY <4>2, <5>1, <5>2
      <4>. QED BY <4>3, <4>4
    <3>. QED BY <3>1, <3>2
  <2>2. /\ \A x, e : Before(x, e)' = Before(x, e)
        /\ \A q : start_idx(q)' = start_idx(q)
    BY <1>0, Static
  <2>3. \A e, q \in Experts :
          Before(start_idx(q) + i[q], e)' = Before(start_idx(q) + i'[q], e)
    BY <1>0, Static DEF Before, numel
  <2>4. \A e, q \in Experts : Before(start_idx(q), e)' = Before(start_idx(q), e)
    BY <1>0, Static DEF Before, numel
  <2>. QED BY <2>1, <2>3, <2>4 DEF Counted
<1>13. Summed' /\ Ranks'
  BY <1>0 DEF Summed, Ranks
<1>14. Sums'
  BY <1>0, SumsKept DEF Reached
<1>15. Names' /\ Tables' /\ Places'
  BY <1>0, <1>1, TablesKept DEF Names, Places
<1>. QED BY <1>10, <1>11, <1>12, <1>13, <1>14, <1>15

LEMMA Stage2Inv ==
  ASSUME MoeInv, NEW p \in Experts, Stage2(p)
  PROVE  MoeInv'
<1> USE DEF MoeInv
<1>0. /\ stage = 2 /\ stage' = 2 /\ i[p] \in 1 .. num_experts
      /\ topk_ids' = topk_ids /\ named' = named
      /\ cumsum' = cumsum /\ sorted_ids' = sorted_ids /\ expert_ids' = expert_ids
      /\ num_tokens_post_pad' = num_tokens_post_pad
      /\ i' = [i EXCEPT ![p] = @ + 1]
      /\ last' = [last EXCEPT ![p] = @ + tokens_cnts[i[p]][p]]
      /\ tokens_cnts' = [tokens_cnts EXCEPT ![i[p]][p] = last'[p]]
  BY DEF Stage2, Advance
<1>1. Batch /\ Batch' /\ numel' = numel /\ Tokens' = Tokens
  BY <1>0, BatchKept
<1>2. num_experts \in Nat /\ i[p] \in 0 .. num_experts /\ i[p] \in Nat
  BY <1>0, MoeAssumption
<1>3. /\ i \in [Experts -> Nat] /\ i' \in [Experts -> Nat] /\ i'[p] = i[p] + 1
      /\ last \in [Experts -> Nat]
  BY <1>0 DEF BatchOK
<1>4. tokens_cnts \in [0 .. num_experts -> [Experts -> Nat]]
  BY DEF BatchOK
<1>5. last'[p] = Before(start_idx(i[p]), p)
  <2>1. last[p] = Before(start_idx(i[p] - 1), p)
    BY <1>0 DEF Summed
  <2>2. tokens_cnts[i[p]][p] = Before(start_idx(i[p]), p) - Before(start_idx(i[p] - 1), p)
    BY <1>0, <1>2 DEF Summed
  <2>3. Before(start_idx(i[p] - 1), p) \in Int /\ Before(start_idx(i[p]), p) \in Int
    BY <1>1, BeforeType DEF Batch
  <2>4. last'[p] = last[p] + tokens_cnts[i[p]][p]
    BY <1>0, <1>3
  <2>. QED BY <2>1, <2>2, <2>3, <2>4
<1>6. Before(start_idx(i[p]), p) \in Nat
  BY <1>1, BeforeType DEF Batch
<1>7. last' \in [Experts -> Nat]
  BY <1>0, <1>3, <1>5, <1>6
<1>8. tokens_cnts' \in [0 .. num_experts -> [Experts -> Nat]]
  BY <1>0, <1>2, <1>4, <1>5, <1>6
<1>9. \A t \in 0 .. num_experts, e \in Experts :
        tokens_cnts'[t][e] = IF t = i[p] /\ e = p THEN last'[p] ELSE tokens_cnts[t][e]
  BY <1>0, <1>2, <1>4
<1>10. BatchOK'
  BY <1>0, <1>1, <1>3, <1>7, <1>8 DEF BatchOK
<1>11. LoopsOK'
  BY <1>0, <1>2, <1>3 DEF LoopsOK
<1>12. Summed'
  <2>1. ASSUME NEW e \in Experts
        PROVE  last'[e] = Before(start_idx(i'[e] - 1), e)
    <3>1. CASE e = p
      <4>1. i'[p] - 1 = i[p]
        BY <1>2, <1>3
      <4>. QED BY <1>5, <3>1, <4>1
    <3>2. CASE e # p
      BY <1>0, <1>3, <3>2 DEF Summed
    <3>. QED BY <3>1, <3>2
  <2>2. ASSUME NEW e \in Experts, NEW t \in 0 .. num_experts
        PROVE  tokens_cnts'[t][e] =
                 IF t < i'[e] THEN Before(start_idx(t), e)
                 ELSE Before(start_idx(t), e) - Before(start_idx(t - 1), e)
    <3>1. tokens_cnts[t][e] =
            IF t < i[e] THEN Before(start_idx(t), e)
            ELSE Before(start_idx(t), e) - Before(start_idx(t - 1), e)
      BY <1>0 DEF Summed
    <3>2. CASE e = p
      BY <1>2, <1>3, <1>5, <1>9, <3>1, <3>2
    <3>3. CASE e # p
      BY <1>0, <1>3, <1>9, <3>1, <3>3
    <3>. QED BY <3>2, <3>3
  <2>. tokens_per_thread' = tokens_per_thread
    BY <1>0, Static
  <2>3. \A e \in Experts :
          Before(start_idx(i[e] - 1), e)' = Before(start_idx(i'[e] - 1), e)
    BY <1>0 DEF Before, numel, start_idx
  <2>4. \A t, e : /\ Before(start_idx(t), e)' = Before(start_idx(t), e)
                  /\ Before(start_idx(t - 1), e)' = Before(start_idx(t - 1), e)
    BY <1>0 DEF Before, numel, start_idx
  <2>. QED BY <2>1, <2>2, <2>3, <2>4 DEF Summed
<1>13. Counted' /\ Ranks'
  BY <1>0 DEF Counted, Ranks
<1>14. Sums'
  BY <1>0, SumsKept DEF Reached
<1>15. Names' /\ Tables' /\ Places'
  BY <1>0, <1>1, TablesKept DEF Names, Places
<1>. QED BY <1>10, <1>11, <1>12, <1>13, <1>14, <1>15

LEMMA Stage3Inv ==
  ASSUME MoeInv, Stage3
  PROVE  MoeInv'
<1> USE DEF MoeInv
<1> DEFINE t == i[0]
           c == Total(t - 1)
           s == cumsum[t - 1]
<1>0. /\ stage = 3 /\ stage' = 3 /\ i[0] \in 1 .. num_experts
      /\ topk_ids' = topk_ids /\ named' = named /\ tokens_cnts' = tokens_cnts
      /\ sorted_ids' = sorted_ids /\ expert_ids' = expert_ids
      /\ i' = [i EXCEPT ![0] = @ + 1]
      /\ last' = [last EXCEPT ![0] = @ + padded(tokens_cnts[num_experts][i[0] - 1])]
      /\ cumsum' = [cumsum EXCEPT ![i[0]] = last'[0]]
      /\ num_tokens_post_pad' =
           IF i[0] = num_experts THEN last'[0] ELSE num_tokens_post_pad
  BY DEF Stage3, Advance
<1>1. Batch /\ Batch' /\ numel' = numel /\ Tokens' = Tokens
  BY <1>0, BatchKept
<1>2. /\ num_experts \in Nat \ {0} /\ block_size \in Nat \ {0} /\ 0 \in Experts
      /\ t \in Nat /\ t \in 1 .. num_experts /\ t - 1 \in Nat /\ (t - 1) + 1 = t
      /\ t - 1 \in Experts /\ t \in 0 .. num_experts /\ t - 1 \in 0 .. num_experts
  BY <1>0, MoeAssumption DEF Experts
<1>3. /\ i \in [Experts -> Nat] /\ i' \in [Experts -> Nat] /\ i'[0] = t + 1
      /\ last \in [Experts -> Nat] /\ cumsum \in [0 .. num_experts -> Nat]
  <2>1. /\ i \in [Experts -> Nat] /\ last \in [Experts -> Nat]
        /\ cumsum \in [0 .. num_experts -> Nat]
    BY DEF BatchOK
  <2>2. i' = [i EXCEPT ![0] = @ + 1] /\ 0 \in Experts
    BY <1>0, <1>2
  <2>3. i' \in [Experts -> Nat] /\ i'[0] = t + 1
    BY <2>1, <2>2
  <2>. QED BY <2>1, <2>3
<1>4. c \in Nat /\ tokens_cnts[num_experts][t - 1] = c
  BY <1>0, <1>1, <1>2, BeforeType DEF Ranks, Batch, Total
<1>5. Reached = t - 1 /\ Reached' = t
  BY <1>0, <1>2, <1>3 DEF Reached
<1>6. /\ cumsum[0] = 0 /\ last[0] = s /\ s \in Nat /\ s % block_size = 0
      /\ s <= OfSmaller(t - 1) + (t - 1) * (block_size - 1)
      /\ \A u \in 0 .. t - 1 : cumsum[u] <= s
  <2>1. t - 1 \in 0 .. Reached
    BY <1>2, <1>5
  <2>2. /\ cumsum[0] = 0 /\ last[0] = s /\ s % block_size = 0
        /\ s <= OfSmaller(t - 1) + (t - 1) * (block_size - 1)
        /\ \A u \in 0 .. t - 1 : cumsum[u] <= s
    BY <1>0, <2>1 DEF Sums
  <2>3. s \in Nat
    BY <1>2, <1>3
  <2>. QED BY <2>2, <2>3
<1>7. /\ \A u \in 1 .. t - 1 : cumsum[u] = cumsum[u - 1] + padded(Total(u - 1))
      /\ \A u \in 0 .. t - 1 :
           /\ cumsum[u] % block_size = 0
           /\ cumsum[u] <= OfSmaller(u) + u * (block_size - 1)
           /\ \A v \in 0 .. u : cumsum[v] <= cumsum[u]
  BY <1>5 DEF Sums
<1>8. /\ padded(c) \in Nat /\ padded(c) <= c + (block_size - 1)
      /\ padded(c) = cdiv(c, block_size) * block_size
      /\ cdiv(c, block_size) \in Nat
  BY <1>2, <1>4, PaddedFacts, CdivFacts
<1>9. last'[0] = s + padded(c)
  BY <1>0, <1>2, <1>3, <1>4, <1>6
<1>10. OfSmaller(t) = OfSmaller(t - 1) + c
       /\ OfSmaller(t) \in Nat /\ OfSmaller(t - 1) \in Nat
  BY <1>1, <1>2, SmallerNext, SmallerType DEF Batch
<1>11. (s + padded(c)) % block_size = 0
  BY <1>2, <1>6, <1>8, MultiplesAdd
<1>12. s + padded(c) <= OfSmaller(t) + t * (block_size - 1)
  <2> DEFINE b == block_size - 1
             r == t - 1
  <2>1. b \in Nat /\ r \in Nat /\ t = r + 1
    BY <1>2
  <2>2. r * b \in Nat /\ (r + 1) * b = r * b + b
    BY <2>1, TimesGrows
  <2>3. s <= OfSmaller(t - 1) + r * b /\ padded(c) <= c + b
    BY <1>6, <1>8
  <2> DEFINE rb == r * b
  <2>4. t * b = rb + b /\ rb \in Nat /\ s <= OfSmaller(t - 1) + rb
    BY <2>1, <2>2, <2>3
  <2> HIDE DEF rb, b, r
  <2>5. s + padded(c) <= OfSmaller(t) + (rb + b)
    BY <1>4, <1>6, <1>8, <1>10, <2>1, <2>3, <2>4
  <2>. QED BY <2>4, <2>5 DEF b
<1> HIDE DEF t, c, s
<1>13. /\ cumsum' \in [0 .. num_experts -> Nat] /\ last' \in [Experts -> Nat]
       /\ cumsum'[t] = s + padded(c)
       /\ \A u \in 0 .. num_experts : u # t => cumsum'[u] = cumsum[u]
  <2>1. s + padded(c) \in Nat
    BY <1>6, <1>8
  <2>2. cumsum' = [cumsum EXCEPT ![t] = s + padded(c)]
    BY <1>0, <1>9 DEF t
  <2>3. cumsum'[t] = s + padded(c) /\ cumsum' \in [0 .. num_experts -> Nat]
        /\ \A u \in 0 .. num_experts : u # t => cumsum'[u] = cumsum[u]
    BY <1>2, <1>3, <2>1, <2>2
  <2>4. \E v : last' = [last EXCEPT ![0] = v]
    BY <1>0
  <2>5. last' \in [Experts -> Nat]
    BY <1>2, <1>3, <1>9, <2>1, <2>4
  <2>. QED BY <2>3, <2>5
<1>14. BatchOK'
  BY <1>0, <1>1, <1>3, <1>13 DEF BatchOK
<1>15. LoopsOK'
  BY <1>0, <1>2, <1>3 DEF LoopsOK
<1>16. /\ \A e : Total(e)' = Total(e) /\ OfSmaller(e)' = OfSmaller(e)
       /\ \A e : padded(Total(e))' = padded(Total(e))
       /\ \A x, e : Before(x, e)' = Before(x, e)
       /\ \A p : start_idx(p)' = start_idx(p)
  BY <1>0, Static DEF padded, round_up, cdiv
<1>17. Ranks'
  <2>1. \A p, e : Before(start_idx(p), e)' = Before(start_idx(p), e)
    <3>. tokens_per_thread' = tokens_per_thread
      BY <1>0, Static
    <3>. QED BY <1>0 DEF Before, start_idx, numel
  <2>. QED BY <1>0, <1>16, <2>1 DEF Ranks
<1>18. Sums'
  <2>1. cumsum'[0] = 0
    BY <1>2, <1>6, <1>13
  <2>2. i'[0] - 1 = t /\ last'[0] = cumsum'[t]
    BY <1>2, <1>3, <1>9, <1>13
  <2>3. ASSUME NEW u \in 1 .. t
        PROVE  cumsum'[u] = cumsum'[u - 1] + padded(Total(u - 1))
    <3>1. u \in 0 .. num_experts /\ u - 1 \in 0 .. num_experts /\ u - 1 # t
      BY <1>2
    <3>2. CASE u = t
      <4>1. cumsum'[t - 1] = s
        BY <1>2, <1>13, <3>1, <3>2 DEF s
      <4>. QED BY <1>13, <3>2, <4>1 DEF c
    <3>3. CASE u # t
      <4>1. u \in 1 .. t - 1
        BY <1>2, <3>3
      <4>. QED BY <1>7, <1>13, <3>1, <3>3, <4>1
    <3>. QED BY <3>2, <3>3
  <2>4. ASSUME NEW u \in 0 .. t
        PROVE  /\ cumsum'[u] % block_size = 0
               /\ cumsum'[u] <= OfSmaller(u) + u * (block_size - 1)
               /\ \A v \in 0 .. u : cumsum'[v] <= cumsum'[u]
    <3>1. u \in 0 .. num_experts
      BY <1>2
    <3>2. CASE u = t
      <4>1. ASSUME NEW v \in 0 .. t
            PROVE  cumsum'[v] <= cumsum'[t]
        <5>1. CASE v = t
          BY <1>2, <1>6, <1>8, <1>13, <5>1
        <5>2. CASE v # t
          <6>1. v \in 0 .. t - 1 /\ v \in 0 .. num_experts
            BY <1>2, <5>2
          <6>2. cumsum'[v] = cumsum[v] /\ cumsum[v] <= s /\ cumsum[v] \in Nat
            BY <1>3, <1>6, <1>13, <5>2, <6>1
          <6>. QED BY <1>6, <1>8, <1>13, <6>2
        <5>. QED BY <5>1, <5>2
      <4>. QED BY <1>11, <1>12, <1>13, <3>2, <4>1
    <3>3. CASE u # t
      <4>1. u \in 0 .. t - 1 /\ cumsum'[u] = cumsum[u]
        BY <1>2, <1>13, <3>1, <3>3
      <4>2. \A v \in 0 .. u : v # t /\ v \in 0 .. num_experts
        BY <1>2, <4>1
      <4>3. \A v \in 0 .. u : cumsum'[v] = cumsum[v]
        BY <1>13, <4>2
      <4>. QED BY <1>7, <4>1, <4>3
    <3>. QED BY <3>2, <3>3
  <2>5. Reached' = num_experts => num_tokens_post_pad' = cumsum'[num_experts]
    BY <1>0, <1>5, <2>2 DEF t
  <2>. QED BY <1>0, <1>5, <1>16, <2>1, <2>2, <2>3, <2>4, <2>5 DEF Sums
<1>19. Counted' /\ Summed'
  BY <1>0 DEF Counted, Summed
<1>20. Names' /\ Tables' /\ Places'
  BY <1>0, <1>1, TablesKept DEF Names, Places
<1>. QED BY <1>14, <1>15, <1>17, <1>18, <1>19, <1>20

\* When tokens are placed, all sums have been made.
LEMMA Summing ==
  ASSUME MoeInv, stage \in {4, 5} \/ (stage = 3 /\ i[0] = num_experts + 1)
  PROVE  AllSummed /\ num_tokens_post_pad = cumsum[num_experts]
<1>1. Batch /\ cumsum \in [0 .. num_experts -> Nat]
  BY DEF MoeInv, BatchOK, Batch
<1>2. Reached = num_experts /\ stage >= 3
  BY MoeAssumption DEF Reached
<1>. QED BY <1>1, <1>2 DEF MoeInv, Sums, AllSummed

\* The blocks whose expert a program names.
LEMMA OwnBlocks ==
  ASSUME AllSummed, NEW p \in Experts, NEW b
  PROVE  b \in {x \div block_size : x \in {x \in cumsum[p] .. cumsum[p + 1] - 1 :
                                            (x - cumsum[p]) % block_size = 0}}
         <=> /\ b \in Nat
             /\ cumsum[p] <= b * block_size /\ b * block_size < cumsum[p + 1]
<1> DEFINE own == {x \in cumsum[p] .. cumsum[p + 1] - 1 :
                     (x - cumsum[p]) % block_size = 0}
           c == cumsum[p]
           q == c \div block_size
<1>1. block_size \in Nat \ {0} /\ c \in Nat /\ cumsum[p + 1] \in Nat /\ c % block_size = 0
  BY MoeAssumption, ExpertPlaces
<1>2. c = q * block_size /\ q \in Nat
  BY <1>1, DivMod, MultiplesAdd
<1>3. ASSUME NEW x \in own
      PROVE  x \div block_size \in Nat /\ x = (x \div block_size) * block_size
  <2> DEFINE d == x - c
             m == d \div block_size
             r == m + q
  <2>1. x \in Nat /\ d \in Nat /\ d % block_size = 0 /\ x = d + c
    BY <1>1
  <2>2. d = m * block_size /\ m \in Nat
    BY <1>1, <2>1, DivMod, MultiplesAdd
  <2>. HIDE DEF own, c, q, d, m
  <2>3. (m + q) * block_size = m * block_size + q * block_size
    BY <1>1, <1>2, <2>2
  <2>4. x = r * block_size + 0 /\ r \in Nat /\ 0 \in 0 .. block_size - 1
    BY <1>1, <1>2, <2>1, <2>2, <2>3
  <2>. HIDE DEF r
  <2>5. x \div block_size = r
    BY <1>1, <2>1, <2>4, DivUnique
  <2>6. r * block_size \in Nat
    BY <1>1, <2>4
  <2>. QED BY <2>4, <2>5, <2>6
<1>4. ASSUME b \in Nat, c <= b * block_size, b * block_size < cumsum[p + 1]
      PROVE  b * block_size \in own /\ (b * block_size) \div block_size = b
  <2> DEFINE x == b * block_size
  <2>1. x \in Nat /\ x = b * block_size + 0 /\ 0 \in 0 .. block_size - 1
    BY <1>1, <1>4
  <2>2. (b - q) * block_size = x - c
    BY <1>1, <1>2, <1>4
  <2>. HIDE DEF c, q
  <2>3. x - c = (b - q) * block_size + 0 /\ x - c \in Nat /\ b - q \in Int
    BY <1>1, <1>2, <1>4, <2>1, <2>2
  <2> DEFINE y == x - c
  <2>. HIDE DEF x
  <2>4. x \div block_size = b
    BY <1>1, <1>4, <2>1, DivUnique
  <2>5. y % block_size = 0
    <3>. HIDE DEF y
    <3>1. y = (b - q) * block_size + 0 /\ y \in Nat
      BY <2>3 DEF y
    <3>. QED BY <1>1, <2>1, <2>3, <3>1, DivUnique
  <2>6. x \in c .. cumsum[p + 1] - 1
    BY <1>1, <1>4, <2>1 DEF x
  <2>. QED BY <2>4, <2>5, <2>6 DEF x, c
<1>5. \A x \in own : c <= x /\ x < cumsum[p + 1]
  BY <1>1
<1>6. b \in {x \div block_size : x \in own} <=>
        b \in Nat /\ c <= b * block_size /\ b * block_size < cumsum[p + 1]
  <2>. HIDE DEF own, c
  <2>. QED BY <1>3, <1>4, <1>5
<1>. QED BY <1>6

LEMMA Stage4NamesInv ==
  ASSUME MoeInv, NEW p \in Experts, Stage4Names(p)
  PROVE  MoeInv'
<1> USE DEF MoeInv
<1> DEFINE own == {x \div block_size : x \in {x \in cumsum[p] .. cumsum[p + 1] - 1 :
                                            (x - cumsum[p]) % block_size = 0}}
<1>0. /\ stage = 4 /\ stage' = 4 /\ named' = named \cup {p}
      /\ topk_ids' = topk_ids /\ i' = i /\ last' = last /\ tokens_cnts' = tokens_cnts
      /\ cumsum' = cumsum /\ sorted_ids' = sorted_ids
      /\ num_tokens_post_pad' = num_tokens_post_pad
      /\ expert_ids' = [b \in DOMAIN expert_ids \cup own |->
                          IF b \in own THEN p ELSE expert_ids[b]]
  BY DEF Stage4Names
<1>1. Batch /\ Batch' /\ numel' = numel /\ Tokens' = Tokens
  BY <1>0, BatchKept
<1>2. AllSummed
  BY <1>0, Summing
<1>3. \A b : b \in own <=>
         b \in Nat /\ cumsum[p] <= b * block_size /\ b * block_size < cumsum[p + 1]
  BY <1>2, OwnBlocks
<1> HIDE DEF own
<1>4. own \subseteq DOMAIN expert_ids
  <2>1. ASSUME NEW b \in own
        PROVE  b \in DOMAIN expert_ids
    <3>1. b \in Nat /\ b * block_size \in Nat /\ b * block_size < cumsum[p + 1]
      BY <1>3, MoeAssumption
    <3>2. /\ cumsum[p + 1] \in Nat /\ cumsum[num_experts] \in Nat
          /\ cumsum[p + 1] <= cumsum[num_experts]
      <4>1. num_experts \in 0 .. num_experts
        BY MoeAssumption
      <4>2. cumsum[num_experts] \in Nat
        BY <1>2, <4>1 DEF AllSummed
      <4>. QED BY <1>2, <4>2, ExpertPlaces
    <3>3. b * block_size < cumsum[num_experts]
      BY <3>1, <3>2
    <3>. QED BY <1>2, <3>1, <3>3, RoomFacts
  <2>. QED BY <2>1
<1>5. expert_ids' = [b \in DOMAIN expert_ids |-> IF b \in own THEN p ELSE expert_ids[b]]
  <2>1. DOMAIN expert_ids \cup own = DOMAIN expert_ids
    BY <1>4
  <2>. QED BY <1>0, <2>1
<1>6. Tables'
  <2>1. PICK pad \in BOOLEAN :
          LET size == numel + num_experts * (block_size - 1)
              room == IF pad THEN round_up(size, block_size) ELSE size
          IN  /\ sorted_ids \in [0 .. room - 1 -> 0 .. numel]
              /\ expert_ids \in [0 .. cdiv(room, block_size) - 1 -> Experts]
    BY DEF Tables
  <2> DEFINE room == IF pad
                       THEN round_up(numel + num_experts * (block_size - 1),
                                     block_size)
                       ELSE numel + num_experts * (block_size - 1)
             B == 0 .. cdiv(room, block_size) - 1
  <2>2. expert_ids \in [B -> Experts]
    BY <2>1
  <2>. HIDE DEF B
  <2>3. expert_ids' \in [B -> Experts]
    BY <1>5, <2>2
  <2>4. /\ sorted_ids' \in [0 .. room - 1 -> 0 .. numel]
        /\ expert_ids' \in [0 .. cdiv(room, block_size) - 1 -> Experts]
    BY <1>0, <2>1, <2>3 DEF B
  <2>. QED BY <1>1, <2>4 DEF Tables, round_up, cdiv
<1>7. Names'
  <2>1. ASSUME NEW q \in named', NEW b \in Nat,
               cumsum[q] <= b * block_size, b * block_size < cumsum[q + 1]
        PROVE  expert_ids'[b] = q
    <3>1. CASE q = p
      <4>1. b \in own
        BY <1>3, <2>1, <3>1
      <4>. QED BY <1>4, <1>5, <3>1, <4>1
    <3>2. CASE q # p
      <4>1. q \in named /\ q \in Experts
        BY <1>0, <3>2 DEF BatchOK
      <4>2. expert_ids[b] = q
        BY <2>1, <4>1 DEF Names
      <4>3. b * block_size \in Nat
        BY MoeAssumption
      <4>4. b \notin own
        BY <1>2, <1>3, <2>1, <3>2, <4>1, <4>3, OneExpert
      <4>5. b \in DOMAIN expert_ids
        <5>1. /\ cumsum[q + 1] \in Nat /\ cumsum[num_experts] \in Nat
              /\ cumsum[q + 1] <= cumsum[num_experts]
          <6>1. num_experts \in 0 .. num_experts
            BY MoeAssumption
          <6>2. cumsum[num_experts] \in Nat
            BY <1>2, <6>1 DEF AllSummed
          <6>. QED BY <1>2, <4>1, <6>2, ExpertPlaces
        <5>2. b * block_size < cumsum[num_experts]
          BY <2>1, <4>3, <5>1
        <5>. QED BY <1>2, <5>2, RoomFacts
      <4>. QED BY <1>5, <4>2, <4>4, <4>5
    <3>. QED BY <3>1, <3>2
  <2>. QED BY <1>0, <2>1 DEF Names
<1>8. BatchOK'
  BY <1>0, <1>1 DEF BatchOK
<1>9. LoopsOK'
  BY <1>0, Static DEF LoopsOK
<1>10. Counted' /\ Summed'
  BY <1>0 DEF Counted, Summed
<1>11. Ranks'
  <2>1. \A q, e : /\ Before(start_idx(q) + i[q], e)' = Before(start_idx(q) + i[q], e)
                  /\ Total(e)' = Total(e)
    BY <1>0, Static DEF Before, Total, numel
  <2>. QED BY <1>0, <2>1 DEF Ranks
<1>12. Sums'
  BY <1>0, SumsKept DEF Reached
<1>13. Places'
  <2>1. Placed' = Placed
    BY <1>0, <1>1, Static DEF Placed
  <2>2. \A j : Place(j)' = Place(j)
    BY <1>0 DEF Place, Before, numel
  <2>3. \A x : Place(sorted_ids[x])' = Place(sorted_ids[x])
    BY <1>0 DEF Place, Before, numel
  <2>. QED BY <1>0, <1>1, <2>1, <2>2, <2>3 DEF Places
<1>. QED BY <1>6, <1>7, <1>8, <1>9, <1>10, <1>11, <1>12, <1>13

LEMMA Stage4PlaceInv ==
  ASSUME MoeInv, NEW p \in Experts, Stage4Place(p)
  PROVE  MoeInv'
<1> USE DEF MoeInv
<1> DEFINE idx == start_idx(p) + i[p]
           e == topk_ids[idx]
           rank == tokens_cnts[p][e] + cumsum[e]
<1>0. /\ stage = 4 /\ stage' = 4 /\ idx < end_idx(p)
      /\ topk_ids' = topk_ids /\ named' = named /\ last' = last
      /\ cumsum' = cumsum /\ expert_ids' = expert_ids
      /\ num_tokens_post_pad' = num_tokens_post_pad
      /\ i' = [i EXCEPT ![p] = @ + 1]
      /\ tokens_cnts' = [tokens_cnts EXCEPT ![p][e] = @ + 1]
      /\ sorted_ids' = [x \in DOMAIN sorted_ids \cup {rank} |->
                          IF x = rank THEN idx ELSE sorted_ids[x]]
  BY DEF Stage4Place, Advance
<1>1. Batch /\ Batch' /\ numel' = numel /\ Tokens' = Tokens
  BY <1>0, BatchKept
<1>2. AllSummed
  BY <1>0, Summing
<1>3. /\ i \in [Experts -> Nat] /\ i' \in [Experts -> Nat] /\ i'[p] = i[p] + 1
      /\ tokens_cnts \in [0 .. num_experts -> [Experts -> Nat]]
      /\ p \in Nat /\ p \in 0 .. num_experts /\ p # num_experts /\ num_experts \in Nat
  <2>1. /\ i \in [Experts -> Nat]
        /\ tokens_cnts \in [0 .. num_experts -> [Experts -> Nat]]
    BY DEF BatchOK
  <2>2. p \in Nat /\ p \in 0 .. num_experts /\ p # num_experts /\ num_experts \in Nat
    BY MoeAssumption DEF Experts
  <2>. QED BY <1>0, <2>1, <2>2
<1>4. idx \in Nat /\ idx < numel /\ idx \in Tokens /\ start_idx(p) \in Nat
  <2>1. idx \in Nat /\ start_idx(p) \in Nat /\ numel \in Nat /\ tokens_per_thread \in Nat
    <3>1. start_idx(p) \in Nat /\ i[p] \in Nat
      BY <1>1, <1>3, SplitFacts
    <3>. QED BY <1>1, <3>1, SplitFacts DEF Batch
  <2>2. idx < numel
    <3>. HIDE DEF idx
    <3>. QED BY <1>0, <2>1 DEF end_idx
  <2>. HIDE DEF idx
  <2>. QED BY <2>1, <2>2 DEF Tokens
<1>5. e \in Experts
  BY <1>1, <1>4 DEF Batch
<1>6. rank = Place(idx)
  <2>1. tokens_cnts[p][e] = Before(idx, e)
    BY <1>0, <1>5 DEF Ranks
  <2>2. Before(idx, e) \in Nat /\ cumsum[e] \in Nat
    BY <1>1, <1>2, <1>5, BeforeType, ExpertPlaces DEF Batch
  <2>. HIDE DEF idx
  <2>3. Place(idx) = cumsum[e] + Before(idx, e)
    BY DEF Place
  <2>. HIDE DEF e
  <2>. QED BY <2>1, <2>2, <2>3
<1>7. rank \in DOMAIN sorted_ids
  BY <1>2, <1>4, <1>6, PlaceFacts, RoomFacts
<1>8. sorted_ids' = [x \in DOMAIN sorted_ids |-> IF x = rank THEN idx ELSE sorted_ids[x]]
  <2>1. DOMAIN sorted_ids \cup {rank} = DOMAIN sorted_ids
    BY <1>7
  <2>. QED BY <1>0, <2>1
<1> HIDE DEF rank, e, idx
<1>9. Tables'
  <2>1. PICK pad \in BOOLEAN :
          LET size == numel + num_experts * (block_size - 1)
              room == IF pad THEN round_up(size, block_size) ELSE size
          IN  /\ sorted_ids \in [0 .. room - 1 -> 0 .. numel]
              /\ expert_ids \in [0 .. cdiv(room, block_size) - 1 -> Experts]
    BY DEF Tables
  <2> DEFINE room == IF pad
                       THEN round_up(numel + num_experts * (block_size - 1),
                                     block_size)
                       ELSE numel + num_experts * (block_size - 1)
             S == 0 .. room - 1
  <2>2. sorted_ids \in [S -> 0 .. numel] /\ idx \in 0 .. numel
    BY <1>1, <1>4, <2>1 DEF Batch
  <2>. HIDE DEF S
  <2>3. sorted_ids' \in [S -> 0 .. numel]
    BY <1>8, <2>2
  <2>4. /\ sorted_ids' \in [0 .. room - 1 -> 0 .. numel]
        /\ expert_ids' \in [0 .. cdiv(room, block_size) - 1 -> Experts]
    BY <1>0, <2>1, <2>3 DEF S
  <2>. QED BY <1>1, <2>4 DEF Tables, round_up, cdiv
<1>10. /\ tokens_cnts' \in [0 .. num_experts -> [Experts -> Nat]]
       /\ \A t \in 0 .. num_experts, f \in Experts :
            tokens_cnts'[t][f] = tokens_cnts[t][f] + IF t = p /\ f = e THEN 1 ELSE 0
  <2>1. tokens_cnts[p] \in [Experts -> Nat]
    BY <1>3
  <2>2. [tokens_cnts[p] EXCEPT ![e] = @ + 1] \in [Experts -> Nat]
    BY <1>5, <2>1
  <2> DEFINE row == [tokens_cnts[p] EXCEPT ![e] = @ + 1]
  <2>3. tokens_cnts' = [tokens_cnts EXCEPT ![p] = row]
    BY <1>0
  <2>4. \A f \in Experts : row[f] = tokens_cnts[p][f] + IF f = e THEN 1 ELSE 0
    BY <1>5, <2>1
  <2>. HIDE DEF row
  <2>5. /\ tokens_cnts' \in [0 .. num_experts -> [Experts -> Nat]]
        /\ \A t \in 0 .. num_experts :
             tokens_cnts'[t] = IF t = p THEN row ELSE tokens_cnts[t]
    BY <1>3, <2>2, <2>3 DEF row
  <2>6. ASSUME NEW t \in 0 .. num_experts, NEW f \in Experts
        PROVE  tokens_cnts'[t][f] = tokens_cnts[t][f] + IF t = p /\ f = e THEN 1 ELSE 0
    <3>1. tokens_cnts[t][f] \in Nat
      BY <1>3
    <3>2. CASE t = p
      BY <2>4, <2>5, <3>2
    <3>3. CASE t # p
      BY <2>5, <3>1, <3>3
    <3>. QED BY <3>2, <3>3
  <2>. QED BY <2>5, <2>6
<1>11. BatchOK'
  BY <1>0, <1>1, <1>3, <1>10 DEF BatchOK
<1>12. LoopsOK'
  <2>1. ASSUME NEW q \in Experts, i'[q] > 0
        PROVE  start_idx(q) + i'[q] <= end_idx(q)
    <3>1. CASE q = p
      <4>1. tokens_per_thread \in Nat /\ numel \in Nat
        BY <1>1, SplitFacts DEF Batch
      <4>2. end_idx(p) \in Int
        BY <1>4, <4>1 DEF end_idx
      <4>3. start_idx(p) + i'[p] = idx + 1
        BY <1>3, <1>4 DEF idx
      <4>. QED BY <1>0, <1>4, <3>1, <4>2, <4>3
    <3>2. CASE q # p
      BY <1>0, <1>3, <2>1, <3>2 DEF LoopsOK
    <3>. QED BY <3>1, <3>2
  <2>2. \A q : start_idx(q)' = start_idx(q) /\ end_idx(q)' = end_idx(q)
    BY <1>0, Static
  <2>. QED BY <1>0, <2>1, <2>2 DEF LoopsOK
<1>13. Counted' /\ Summed'
  BY <1>0 DEF Counted, Summed
<1>14. Ranks'
  <2>1. ASSUME NEW f \in Experts
        PROVE  tokens_cnts'[num_experts][f] = Total(f)
    <3>1. num_experts \in 0 .. num_experts
      BY <1>3
    <3>. QED BY <1>0, <1>3, <1>10, <3>1 DEF Ranks
  <2>2. ASSUME NEW q \in Experts, NEW f \in Experts
        PROVE  tokens_cnts'[q][f] = Before(start_idx(q) + i'[q], f)
    <3>1. tokens_cnts[q][f] = Before(start_idx(q) + i[q], f) /\ q \in 0 .. num_experts
      BY <1>0, <1>3 DEF Ranks, Experts
    <3>2. CASE q = p
      <4>1. start_idx(p) + i'[p] = idx + 1
        BY <1>3, <1>4 DEF idx
      <4>2. Before(idx + 1, f) = Before(idx, f)
              + IF idx < numel /\ topk_ids[idx] = f THEN 1 ELSE 0
        BY <1>1, <1>4, BeforeNext
      <4>. QED BY <1>4, <1>10, <3>1, <3>2, <4>1, <4>2 DEF e, idx
    <3>3. CASE q # p
      BY <1>0, <1>3, <1>10, <3>1, <3>3
    <3>. QED BY <3>2, <3>3
  <2>3. \A q, f \in Experts :
          Before(start_idx(q) + i[q], f)' = Before(start_idx(q) + i'[q], f)
    <3>. tokens_per_thread' = tokens_per_thread
      BY <1>0, Static
    <3>. QED BY <1>0 DEF Before, start_idx, numel
  <2>4. \A f : Total(f)' = Total(f)
    BY <1>0, Static
  <2>. QED BY <1>0, <2>1, <2>2, <2>3, <2>4 DEF Ranks
<1>15. Sums'
  BY <1>0, SumsKept DEF Reached
<1>16. Names'
  BY <1>0 DEF Names
<1>17. Places'
  <2>1. Placed' = Placed \cup {idx}
    <3>1. Placed = {j \in Tokens : \E q \in Experts :
                      start_idx(q) <= j /\ j < start_idx(q) + i[q]}
      BY <1>0 DEF Placed
    <3>2. Placed' = {j \in Tokens : \E q \in Experts :
                      start_idx(q) <= j /\ j < start_idx(q) + i'[q]}
      BY <1>0, <1>1, Static DEF Placed
    <3>3. ASSUME NEW j \in Tokens, NEW q \in Experts
          PROVE  start_idx(q) <= j /\ j < start_idx(q) + i'[q] <=>
                   \/ start_idx(q) <= j /\ j < start_idx(q) + i[q]
                   \/ q = p /\ j = idx
      <4>1. CASE q = p
        <5>1. j \in Nat
          BY DEF Tokens
        <5>2. i[p] \in Nat /\ i'[p] = i[p] + 1 /\ start_idx(p) \in Nat
          BY <1>3, <1>4
        <5>3. start_idx(p) + i'[p] = (start_idx(p) + i[p]) + 1
              /\ start_idx(p) + i[p] \in Nat /\ start_idx(p) <= start_idx(p) + i[p]
          BY <5>2
        <5>. QED BY <1>4, <4>1, <5>1, <5>3 DEF idx
      <4>2. CASE q # p
        BY <1>0, <1>3, <4>2
      <4>. QED BY <4>1, <4>2
    <3>. QED BY <1>4, <3>1, <3>2, <3>3
  <2>2. idx \in Placed' /\ Placed \subseteq Tokens
    BY <1>0, <2>1 DEF Placed
  <2>3. ASSUME NEW x \in DOMAIN sorted_ids', sorted_ids'[x] # numel
        PROVE  sorted_ids'[x] \in Placed' /\ Place(sorted_ids'[x]) = x
    <3>1. CASE x = rank
      BY <1>6, <1>7, <1>8, <2>2, <3>1
    <3>2. CASE x # rank
      <4>1. x \in DOMAIN sorted_ids /\ sorted_ids'[x] = sorted_ids[x]
        BY <1>8, <3>2
      <4>. QED BY <1>0, <2>1, <2>3, <4>1 DEF Places
    <3>. QED BY <3>1, <3>2
  <2>4. ASSUME NEW j \in Placed'
        PROVE  Place(j) \in DOMAIN sorted_ids' /\ sorted_ids'[Place(j)] = j
    <3>1. CASE j = idx
      BY <1>6, <1>7, <1>8, <3>1
    <3>2. CASE j # idx
      <4>1. j \in Placed /\ j \in Tokens
        BY <2>1, <2>2, <3>2
      <4>2. Place(j) # rank
        BY <1>2, <1>4, <1>6, <3>2, <4>1, PlaceUnique
      <4>. QED BY <1>0, <1>8, <4>1, <4>2 DEF Places
    <3>. QED BY <3>1, <3>2
  <2>5. \A j : Place(j)' = Place(j)
    BY <1>0 DEF Place, Before, numel
  <2>6. \A x : Place(sorted_ids[x])' = Place(sorted_ids'[x])
    BY <1>0 DEF Place, Before, numel
  <2>. QED BY <1>0, <1>1, <2>3, <2>4, <2>5, <2>6 DEF Places
<1>. QED BY <1>9, <1>11, <1>12, <1>13, <1>14, <1>15, <1>16, <1>17

LEMMA NextStageInv ==
  ASSUME MoeInv, NextStage
  PROVE  MoeInv'
<1> USE DEF MoeInv
<1>0. /\ Over /\ stage' = stage + 1
      /\ i' = [p \in Experts |-> IF stage' \in {2, 3} THEN 1 ELSE 0]
      /\ last' = [p \in Experts |-> 0]
      /\ topk_ids' = topk_ids /\ named' = named /\ tokens_cnts' = tokens_cnts
      /\ cumsum' = cumsum /\ sorted_ids' = sorted_ids /\ expert_ids' = expert_ids
      /\ num_tokens_post_pad' = num_tokens_post_pad
  BY DEF NextStage
<1>1. Batch /\ Batch' /\ numel' = numel /\ Tokens' = Tokens
  BY <1>0, BatchKept
<1>2. num_experts \in Nat \ {0} /\ 0 \in Experts
  BY MoeAssumption DEF Experts
<1>3. stage \in 1 .. 4 /\ stage' \in 2 .. 5
  BY <1>0 DEF Over
<1>4. BatchOK'
  BY <1>0, <1>1, <1>3 DEF BatchOK
<1>5. Tables'
  BY <1>0, TablesKept
<1>6. /\ \A e : Total(e)' = Total(e)
      /\ \A t, e : /\ Before(start_idx(t), e)' = Before(start_idx(t), e)
                   /\ Before(start_idx(t - 1), e)' = Before(start_idx(t - 1), e)
  <2>. tokens_per_thread' = tokens_per_thread
    BY <1>0, Static
  <2>. QED BY <1>0 DEF Before, Total, start_idx, numel
<1>7. \A q, f \in Experts :
        Before(start_idx(q) + i[q], f)' = Before(start_idx(q) + i'[q], f)
  <2>. tokens_per_thread' = tokens_per_thread
    BY <1>0, Static
  <2>. QED BY <1>0 DEF Before, start_idx, numel
<1>8. \A q \in Experts : q \in Nat /\ start_idx(q) \in Nat
  BY <1>1, <1>2, SplitFacts DEF Experts
<1>9. Counted'
  BY <1>3 DEF Counted
<1>10. CASE stage = 1
  <2>1. stage' = 2 /\ i' = [p \in Experts |-> 1]
    BY <1>0, <1>10
  <2>2. \A p \in Experts : i[p] = tokens_per_thread
    BY <1>0, <1>10 DEF Over
  <2>3. LoopsOK'
    BY <1>2, <2>1 DEF LoopsOK
  <2>4. Summed'
    <3>1. ASSUME NEW e \in Experts
          PROVE  last'[e] = Before(start_idx(i'[e] - 1), e)
      <4>1. i'[e] - 1 = 0 /\ last'[e] = 0
        BY <1>0, <2>1
      <4>. QED BY <1>1, <4>1, SplitFacts, BeforeZero
    <3>2. ASSUME NEW e \in Experts, NEW t \in 0 .. num_experts
          PROVE  tokens_cnts'[t][e] =
                   IF t < i'[e] THEN Before(start_idx(t), e)
                   ELSE Before(start_idx(t), e) - Before(start_idx(t - 1), e)
      <4>1. i'[e] = 1
        BY <2>1
      <4>2. CASE t = 0
        BY <1>0, <1>1, <1>10, <4>1, <4>2, SplitFacts, BeforeZero DEF Counted
      <4>3. CASE t # 0
        <5>1. t - 1 \in Experts /\ (t - 1) + 1 = t /\ ~(t < 1)
          BY <1>2, <4>3 DEF Experts
        <5>2. tokens_cnts[(t - 1) + 1][e] =
                Before(start_idx(t - 1) + i[t - 1], e) - Before(start_idx(t - 1), e)
          BY <1>10, <5>1 DEF Counted
        <5>3. start_idx(t) = start_idx(t - 1) + i[t - 1]
          BY <1>1, <1>8, <2>2, <5>1, SplitFacts
        <5>. QED BY <1>0, <4>1, <5>1, <5>2, <5>3
      <4>. QED BY <4>2, <4>3
    <3>3. \A e \in Experts :
            Before(start_idx(i[e] - 1), e)' = Before(start_idx(i'[e] - 1), e)
      <4>. tokens_per_thread' = tokens_per_thread
        BY <1>0, Static
      <4>. QED BY <1>0 DEF Before, numel, start_idx
    <3>. QED BY <1>6, <3>1, <3>2, <3>3 DEF Summed
  <2>5. Ranks'
    BY <2>1 DEF Ranks
  <2>6. Sums'
    BY <1>0, <1>2, <1>10, <2>1, SumsKept DEF Reached
  <2>7. Names' /\ Places'
    BY <1>0, <1>1, <1>10, <2>1 DEF Names, Places
  <2>. QED BY <1>4, <1>5, <1>9, <2>3, <2>4, <2>5, <2>6, <2>7
<1>11. CASE stage = 2
  <2>1. stage' = 3 /\ i' = [p \in Experts |-> 1]
    BY <1>0, <1>11
  <2>2. \A p \in Experts : i[p] = num_experts + 1
    BY <1>0, <1>11 DEF Over
  <2>3. LoopsOK'
    BY <1>2, <2>1 DEF LoopsOK
  <2>4. ASSUME NEW t \in 0 .. num_experts, NEW e \in Experts
        PROVE  tokens_cnts[t][e] = Before(start_idx(t), e)
    <3>1. t < i[e]
      BY <1>2, <2>2
    <3>. QED BY <1>11, <3>1 DEF Summed
  <2>5. Ranks'
    <3>1. ASSUME NEW e \in Experts
          PROVE  tokens_cnts'[num_experts][e] = Total(e)
      <4>1. num_experts \in 0 .. num_experts /\ start_idx(num_experts) \in Nat
        BY <1>1, <1>2, SplitFacts
      <4>. QED BY <1>0, <1>1, <2>4, <4>1, SplitFacts, BeforeAll
    <3>2. ASSUME NEW q \in Experts, NEW e \in Experts
          PROVE  tokens_cnts'[q][e] = Before(start_idx(q), e)
      <4>1. q \in 0 .. num_experts
        BY <1>2 DEF Experts
      <4>. QED BY <1>0, <2>4, <4>1
    <3>. QED BY <1>6, <2>1, <3>1, <3>2 DEF Ranks
  <2>6. Sums'
    <3>1. Reached' = 0 /\ Reached = 0
      BY <1>2, <1>11, <2>1 DEF Reached
    <3>2. last'[0] = cumsum[i'[0] - 1]
      BY <1>0, <1>2, <2>1 DEF Sums
    <3>. QED BY <1>0, <1>2, <3>1, <3>2, SumsKept
  <2>7. Summed' /\ Names' /\ Places'
    BY <1>0, <1>1, <1>11, <2>1 DEF Names, Places, Summed
  <2>. QED BY <1>4, <1>5, <1>9, <2>3, <2>5, <2>6, <2>7
<1>12. CASE stage = 3
  <2>1. stage' = 4 /\ i' = [p \in Experts |-> 0]
    BY <1>0, <1>12
  <2>2. i[0] = num_experts + 1
    BY <1>0, <1>12 DEF Over
  <2>3. LoopsOK'
    BY <2>1 DEF LoopsOK
  <2>4. Ranks'
    <3>1. \A e \in Experts : tokens_cnts'[num_experts][e] = Total(e)
      BY <1>0, <1>12 DEF Ranks
    <3>2. ASSUME NEW q \in Experts, NEW e \in Experts
          PROVE  tokens_cnts'[q][e] = Before(start_idx(q) + i'[q], e)
      <4>1. start_idx(q) + i'[q] = start_idx(q)
        BY <1>8, <2>1
      <4>. QED BY <1>0, <1>12, <4>1 DEF Ranks
    <3>. QED BY <1>6, <1>7, <2>1, <3>1, <3>2 DEF Ranks
  <2>5. Sums'
    <3>1. Reached' = num_experts /\ Reached = num_experts
      BY <1>2, <1>12, <2>1, <2>2 DEF Reached
    <3>. QED BY <1>0, <1>12, <2>1, <3>1, SumsKept
  <2>6. Summed' /\ Names'
    BY <1>0, <1>12, <2>1 DEF Names, Summed
  <2>7. Places'
    <3>1. Placed' = {}
      <4>1. \A j \in Tokens, q \in Experts :
              ~(start_idx(q) <= j /\ j < start_idx(q) + i'[q])
        <5>1. \A q \in Experts : start_idx(q) + i'[q] = start_idx(q)
          BY <1>8, <2>1
        <5>. QED BY <1>8, <5>1 DEF Tokens
      <4>. QED BY <1>0, <1>1, <2>1, <4>1, Static DEF Placed
    <3>. QED BY <1>0, <1>1, <1>12, <2>1, <3>1 DEF Places
  <2>. QED BY <1>4, <1>5, <1>9, <2>3, <2>4, <2>5, <2>6, <2>7
<1>13. CASE stage = 4
  <2>1. stage' = 5 /\ Reached' = num_experts /\ Reached = num_experts
    BY <1>0, <1>13 DEF Reached
  <2>2. named = Experts /\ \A p \in Experts : start_idx(p) + i[p] >= end_idx(p)
    BY <1>0, <1>13 DEF Over
  <2>3. LoopsOK' /\ Summed' /\ Ranks'
    <3>1. ASSUME NEW t \in 0 .. num_experts, NEW e \in Experts
          PROVE  tokens_cnts[t][e] <= numel
      <4>1. CASE t = num_experts
        BY <1>1, <1>13, <4>1, BeforeType DEF Ranks, Batch, Total
      <4>2. CASE t # num_experts
        <5>1. t \in Experts
          BY <1>2, <4>2 DEF Experts
        <5>. QED BY <1>1, <1>13, <5>1, BeforeType DEF Ranks, Batch
      <4>. QED BY <4>1, <4>2
    <3>. QED BY <1>0, <1>1, <2>1, <3>1 DEF LoopsOK, Ranks, Summed
  <2>4. Sums'
    BY <1>0, <1>13, <2>1, SumsKept
  <2>5. Names'
    BY <1>0, <1>13, <2>1, <2>2 DEF Names
  <2>6. Places'
    <3>1. ASSUME NEW j \in Tokens
          PROVE  j \in Placed
      <4>1. PICK p \in Experts :
              start_idx(p) <= j /\ j < start_idx(p) + tokens_per_thread
        BY <1>1, PartOf
      <4>2. j \in Nat /\ j < numel /\ numel \in Nat /\ tokens_per_thread \in Nat
        <5>1. numel \in Nat /\ tokens_per_thread \in Nat
          BY <1>1, SplitFacts DEF Batch
        <5>. QED BY <5>1 DEF Tokens
      <4>3. i[p] \in Nat /\ start_idx(p) \in Nat
        BY <1>8 DEF BatchOK
      <4>4. j < end_idx(p) /\ end_idx(p) \in Int
        BY <4>1, <4>2, <4>3 DEF end_idx
      <4>5. j < start_idx(p) + i[p]
        BY <2>2, <4>2, <4>3, <4>4
      <4>. QED BY <1>13, <4>1, <4>5 DEF Placed
    <3>2. Placed' = Tokens /\ Placed = Tokens
      BY <1>1, <1>13, <2>1, <3>1 DEF Placed
    <3>3. \A j : Place(j)' = Place(j)
      BY <1>0 DEF Place, Before, numel
    <3>4. \A x : Place(sorted_ids[x])' = Place(sorted_ids[x])
      BY <1>0 DEF Place, Before, numel
    <3>. QED BY <1>0, <1>1, <1>13, <2>1, <3>2, <3>3, <3>4 DEF Places
  <2>. QED BY <1>4, <1>5, <1>9, <2>3, <2>4, <2>5, <2>6
<1>. QED BY <1>3, <1>10, <1>11, <1>12, <1>13

LEMMA StutterInv ==
  ASSUME MoeInv, UNCHANGED vars
  PROVE  MoeInv'
<1> USE DEF MoeInv, vars
<1>1. BatchOK' /\ LoopsOK'
  BY Static DEF BatchOK, LoopsOK
<1>2. \A x, e : Before(x, e)' = Before(x, e)
  BY Static
<1>3. \A t, e : /\ Before(start_idx(t), e)' = Before(start_idx(t), e)
                /\ Before(start_idx(t - 1), e)' = Before(start_idx(t - 1), e)
                /\ Before(start_idx(t) + i[t], e)' = Before(start_idx(t) + i[t], e)
                /\ Before(start_idx(i[t] - 1), e)' = Before(start_idx(i[t] - 1), e)
  <2>. tokens_per_thread' = tokens_per_thread
    BY Static
  <2>. QED BY DEF Before, start_idx, numel
<1>4. Counted'
  <2>1. \A p, e \in Experts :
          /\ Before(start_idx(p), e)' = Before(start_idx(p), e)
          /\ Before(start_idx(p) + i[p], e)' = Before(start_idx(p) + i[p], e)
    BY <1>3
  <2>. QED BY <2>1 DEF Counted
<1>5. Summed'
  BY <1>3 DEF Summed
<1>6. Ranks'
  BY <1>3, Static DEF Ranks
<1>7. Sums'
  <2>1. Reached' = Reached
    BY DEF Reached
  <2>. QED BY <2>1, SumsKept DEF Sums
<1>8. Names' /\ Tables'
  BY TablesKept DEF Names
<1>9. Places'
  <2>1. Placed' = Placed /\ numel' = numel
    BY Static DEF Placed
  <2>2. \A j : Place(j)' = Place(j)
    BY DEF Place, Before, numel
  <2>3. \A x : Place(sorted_ids[x])' = Place(sorted_ids[x])
    BY DEF Place, Before, numel
  <2>. QED BY <2>1, <2>2, <2>3 DEF Places
<1>. QED BY <1>1, <1>4, <1>5, <1>6, <1>7, <1>8, <1>9

\* The four launches keep the invariant of moe_align_block_size, whatever the
\* order in which the programs of a launch take their steps.
THEOREM MoeInvariant == Spec => []MoeInv
<1>1. ASSUME MoeInv, [Next]_vars
      PROVE  MoeInv'
  BY <1>1, Stage1Inv, Stage2Inv, Stage3Inv, Stage4NamesInv, Stage4PlaceInv,
     NextStageInv, StutterInv DEF Next
<1>. QED BY <1>1, InitInv, PTL DEF Spec

-----------------------------------------------------------------------------
(***************************************************************************)
(* The properties                                                          *)
(***************************************************************************)
\* TypeOK: the counters stay within the number of tokens, and no table is
\* stored beyond the end the caller gave it, for any size of the batch.
LEMMA TypeFromInv ==
  ASSUME MoeInv
  PROVE  TypeOK
<1> USE DEF MoeInv
<1>1. Batch /\ tokens_cnts \in [0 .. num_experts -> [Experts -> Nat]]
      /\ stage \in 1 .. 5 /\ named \subseteq Experts /\ i \in [Experts -> Nat]
  BY DEF BatchOK, Batch
<1>2. num_experts \in Nat \ {0}
  BY MoeAssumption
<1>3. \A x, e : Before(x, e) \in 0 .. numel
  BY <1>1, BeforeType DEF Batch
<1>4. numel \in Nat
  BY <1>1 DEF Batch
<1>5. ASSUME NEW t \in 0 .. num_experts, NEW e \in Experts
      PROVE  tokens_cnts[t][e] <= numel
  <2> DEFINE v == tokens_cnts[t][e]
  <2>1. CASE stage = 1
    <3>1. CASE t = 0
      BY <1>4, <2>1, <3>1 DEF Counted
    <3>2. CASE t # 0
      <4>1. t - 1 \in Experts /\ (t - 1) + 1 = t
        BY <1>2, <3>2 DEF Experts
      <4>2. tokens_cnts[(t - 1) + 1][e] = Before(start_idx(t - 1) + i[t - 1], e)
                                          - Before(start_idx(t - 1), e)
        BY <2>1, <4>1 DEF Counted
      <4>. QED BY <1>3, <1>4, <4>1, <4>2
    <3>. QED BY <3>1, <3>2
  <2>2. CASE stage = 2
    <3>1. v = IF t < i[e] THEN Before(start_idx(t), e)
              ELSE Before(start_idx(t), e) - Before(start_idx(t - 1), e)
      BY <2>2 DEF Summed
    <3>2. /\ Before(start_idx(t), e) \in 0 .. numel
          /\ Before(start_idx(t - 1), e) \in 0 .. numel
      BY <1>3
    <3>. QED BY <1>4, <3>1, <3>2
  <2>3. CASE stage \in {3, 4}
    <3>1. CASE t = num_experts
      BY <1>3, <2>3, <3>1 DEF Ranks, Total
    <3>2. CASE t # num_experts
      <4>1. t \in Experts
        BY <1>2, <3>2 DEF Experts
      <4>. QED BY <1>3, <2>3, <4>1 DEF Ranks
    <3>. QED BY <3>1, <3>2
  <2>4. CASE stage = 5
    BY <2>4 DEF Ranks
  <2>. QED BY <1>1, <2>1, <2>2, <2>3, <2>4
<1>6. tokens_cnts \in [0 .. num_experts -> [Experts -> 0 .. numel]]
  <2>1. ASSUME NEW t \in 0 .. num_experts
        PROVE  tokens_cnts[t] \in [Experts -> 0 .. numel]
    <3>1. tokens_cnts[t] \in [Experts -> Nat]
      BY <1>1
    <3>2. \A e \in Experts : tokens_cnts[t][e] \in 0 .. numel
      BY <1>4, <1>5, <3>1
    <3>. QED BY <3>1, <3>2
  <2>. QED BY <1>1, <2>1
<1>. QED BY <1>1, <1>6 DEF TypeOK, Tables

THEOREM TablesHold == Spec => []TypeOK
BY MoeInvariant, TypeFromInv, PTL

\* RankExact: the counter a program reads for an expert is the number of that
\* expert's tokens before its own next one.
LEMMA RankFromInv ==
  ASSUME MoeInv
  PROVE  RankExact
BY DEF MoeInv, Ranks, RankExact, Before

THEOREM CountersAreRanks == Spec => []RankExact
BY MoeInvariant, RankFromInv, PTL

\* A place that is filled holds the token that belongs there, and every token
\* is in its place.
LEMMA FilledFacts ==
  ASSUME MoeInv, stage = 5
  PROVE  /\ \A x \in DOMAIN sorted_ids : sorted_ids[x] # numel =>
              sorted_ids[x] \in Tokens /\ Place(sorted_ids[x]) = x
         /\ \A j \in Tokens : /\ Place(j) \in DOMAIN sorted_ids
                              /\ sorted_ids[Place(j)] = j
                              /\ j # numel
<1>1. Placed = Tokens
  BY DEF Placed
<1>2. \A j \in Tokens : j # numel
  BY DEF MoeInv, BatchOK, Tokens
<1>. QED BY <1>1, <1>2 DEF MoeInv, Places

\* The block of a token's place is its expert's.
LEMMA BlockOf ==
  ASSUME MoeInv, stage = 5, NEW j \in Tokens
  PROVE  expert_ids[Place(j) \div block_size] = topk_ids[j]
<1> DEFINE e == topk_ids[j]
           x == Place(j)
           b == x \div block_size
           q == cumsum[e] \div block_size
<1>1. AllSummed
  BY Summing
<1>2. block_size \in Nat \ {0}
  BY MoeAssumption
<1>3. x \in Nat /\ e \in Experts /\ cumsum[e] <= x /\ x < cumsum[e + 1]
  BY <1>1, PlaceFacts
<1>4. cumsum[e] \in Nat /\ cumsum[e] % block_size = 0 /\ cumsum[e + 1] \in Nat
  BY <1>1, <1>3, ExpertPlaces
<1>5. x = b * block_size + (x % block_size) /\ x % block_size \in 0 .. block_size - 1
      /\ b \in Nat
  BY <1>2, <1>3, DivMod
<1>6. cumsum[e] = q * block_size /\ q \in Nat
  BY <1>2, <1>4, DivMod, MultiplesAdd
<1> HIDE DEF b, q, e, x
<1>7. b * block_size \in Nat /\ b * block_size <= x
      /\ x < (b + 1) * block_size /\ (b + 1) * block_size \in Nat
  <2>1. (b + 1) * block_size = b * block_size + block_size /\ b * block_size \in Nat
    BY <1>2, <1>5, TimesGrows
  <2>. QED BY <1>2, <1>3, <1>5, <2>1
<1>8. q * block_size < (b + 1) * block_size
  BY <1>3, <1>4, <1>6, <1>7
<1>9. q <= b
  <2>1. q < b + 1
    BY <1>2, <1>5, <1>6, <1>8, FactorLess
  <2>. QED BY <1>5, <1>6, <2>1
<1>10. q * block_size <= b * block_size
  BY <1>2, <1>5, <1>6, <1>9, TimesGrows
<1>11. cumsum[e] <= b * block_size /\ b * block_size < cumsum[e + 1]
  BY <1>3, <1>4, <1>6, <1>7, <1>10
<1>12. e \in named
  BY <1>3 DEF MoeInv, Names
<1>13. expert_ids[b] = e
  BY <1>5, <1>11, <1>12 DEF MoeInv, Names
<1>. QED BY <1>13 DEF b, e, x

\* The tokens of an expert stand without a gap from where its blocks begin.
LEMMA NoGap ==
  ASSUME MoeInv, stage = 5, NEW e \in Experts, NEW r \in Nat, r < Total(e)
  PROVE  \E m \in Tokens : topk_ids[m] = e /\ Place(m) = cumsum[e] + r
<1>1. Batch
  BY Summing DEF AllSummed
<1>2. PICK m \in Tokens : topk_ids[m] = e /\ Before(m, e) = r
  BY <1>1, RankTaken
<1>. QED BY <1>2 DEF Place

LEMMA AlignedFromInv ==
  ASSUME MoeInv
  PROVE  Aligned
<1> SUFFICES ASSUME stage = 5 PROVE Aligned
  BY DEF Aligned
<1> DEFINE Filled == {x \in DOMAIN sorted_ids : sorted_ids[x] # numel}
           expert(x) == expert_ids[x \div block_size]
<1>1. AllSummed /\ num_tokens_post_pad = cumsum[num_experts] /\ Batch
  BY Summing DEF AllSummed
<1>2. /\ num_experts \in Nat \ {0} /\ block_size \in Nat \ {0} /\ numel \in Nat
      /\ cumsum[num_experts] \in Nat /\ num_experts \in 0 .. num_experts
  BY <1>1, MoeAssumption DEF AllSummed, Batch
<1>3. \A x \in Filled : sorted_ids[x] \in Tokens /\ Place(sorted_ids[x]) = x
  BY FilledFacts
<1>4. \A j \in Tokens : Place(j) \in Filled /\ sorted_ids[Place(j)] = j
  BY FilledFacts
<1> HIDE DEF Filled
<1>5. {sorted_ids[x] : x \in Filled} = 0 .. numel - 1
  <2>1. {sorted_ids[x] : x \in Filled} = Tokens
    BY <1>3, <1>4
  <2>. QED BY <2>1 DEF Tokens
<1>6. Cardinality(Filled) = numel
  <2> DEFINE f == [j \in Tokens |-> Place(j)]
  <2>1. f \in Bijection(Tokens, Filled)
    <3>1. f \in [Tokens -> Filled]
      BY <1>4
    <3>2. \A j, k \in Tokens : f[j] = f[k] => j = k
      BY <1>1, PlaceUnique
    <3>3. \A x \in Filled : \E j \in Tokens : f[j] = x
      BY <1>3
    <3>. HIDE DEF f
    <3>. QED BY <3>1, <3>2, <3>3 DEF Bijection, Injection, IsInjective, Surjection
  <2>2. IsFiniteSet(Tokens) /\ Cardinality(Tokens) = numel
    <3>1. /\ IsFiniteSet(0 .. numel - 1)
          /\ Cardinality(0 .. numel - 1)
             = IF 0 > numel - 1 THEN 0 ELSE (numel - 1) - 0 + 1
      <4>1. numel - 1 \in Int /\ 0 \in Int
        BY <1>2
      <4>. QED BY <4>1, FS_Interval
    <3>. QED BY <1>2, <3>1 DEF Tokens
  <2>3. ExistsBijection(Tokens, Filled)
    BY <2>1 DEF ExistsBijection
  <2>. QED BY <2>2, <2>3, FS_Bijection
<1>7. \A x \in Filled : /\ expert(x) = topk_ids[sorted_ids[x]]
                        /\ x < num_tokens_post_pad
  <2>1. ASSUME NEW x \in Filled
        PROVE  expert(x) = topk_ids[sorted_ids[x]] /\ x < num_tokens_post_pad
    <3> DEFINE j == sorted_ids[x]
    <3>1. j \in Tokens /\ Place(j) = x
      BY <1>3
    <3>. HIDE DEF j
    <3>2. expert(x) = topk_ids[j] /\ x < num_tokens_post_pad
      BY <1>1, <3>1, BlockOf, PlaceFacts
    <3>. QED BY <3>2 DEF j
  <2>. QED BY <2>1
<1>8. ASSUME NEW x \in Filled, NEW y \in Filled, x < y, expert(x) = expert(y)
      PROVE  sorted_ids[x] < sorted_ids[y] /\ x .. y \subseteq Filled
  <2> DEFINE j == sorted_ids[x]
             k == sorted_ids[y]
             e == topk_ids[j]
             bj == Before(j, e)
             bk == Before(k, e)
             c == cumsum[e]
  <2>1. j \in Tokens /\ k \in Tokens /\ Place(j) = x /\ Place(k) = y
    BY <1>3
  <2>2. topk_ids[k] = e
    BY <1>7, <1>8
  <2>3. e \in Experts /\ c \in Nat /\ bj \in Nat /\ bk \in Nat /\ bk < Total(e)
        /\ Total(e) \in Nat
    <3>1. e \in Experts
      BY <1>1, <2>1, PlaceFacts
    <3>2. c \in Nat /\ Total(e) \in Nat
      BY <1>1, <3>1, ExpertPlaces
    <3>3. bj \in Nat /\ bk \in Nat
      BY <1>1, <1>2, BeforeType
    <3>4. bk < Total(e)
      BY <1>1, <2>1, <2>2, BeforeTotal
    <3>. QED BY <3>1, <3>2, <3>3, <3>4
  <2>4. x = c + bj /\ y = c + bk
    BY <2>1, <2>2 DEF Place
  <2>5. j \in Nat /\ k \in Nat
    BY <2>1 DEF Tokens
  <2>6. k <= j => bk <= bj
    BY <1>1, <2>5, BeforeGrows
  <2>. HIDE DEF j, k, e, bj, bk, c
  <2>7. j < k
    BY <1>8, <2>3, <2>4, <2>5, <2>6
  <2>8. ASSUME NEW z \in x .. y
        PROVE  z \in Filled
    <3>1. z - c \in Nat /\ z - c < Total(e) /\ c + (z - c) = z
      BY <2>3, <2>4
    <3>2. PICK m \in Tokens : topk_ids[m] = e /\ Place(m) = cumsum[e] + (z - c)
      BY <2>3, <3>1, NoGap
    <3>3. Place(m) = z
      BY <3>1, <3>2 DEF c
    <3>. QED BY <1>4, <3>3
  <2>. QED BY <2>7, <2>8 DEF j, k
<1>9. num_tokens_post_pad % block_size = 0
  BY <1>1, <1>2 DEF AllSummed
<1>10. ASSUME NEW b \in 0 .. num_tokens_post_pad \div block_size - 1
       PROVE  b * block_size \in Filled
  <2> DEFINE n == num_tokens_post_pad \div block_size
             y == b * block_size
  <2>1. n \in Nat /\ num_tokens_post_pad = n * block_size
    BY <1>1, <1>2, <1>9, DivMod, MultiplesAdd
  <2>2. b \in Nat /\ b < n
    BY <1>10, <2>1
  <2>3. y < num_tokens_post_pad /\ y \in Nat
    <3>. HIDE DEF n
    <3>1. y + block_size <= n * block_size
      BY <1>2, <2>1, <2>2, TimesGrows
    <3>2. y \in Nat
      BY <1>2, <2>2
    <3>. HIDE DEF y
    <3>. QED BY <1>1, <1>2, <2>1, <3>1, <3>2
  <2>. HIDE DEF n
  <2>4. PICK e \in Experts : cumsum[e] <= y /\ y < cumsum[e + 1]
    BY <1>1, <2>3, SomeExpert
  <2> DEFINE c == cumsum[e]
             t == Total(e)
             q == c \div block_size
             m == b - q
  <2>5. /\ c \in Nat /\ t \in Nat /\ c % block_size = 0 /\ cumsum[e + 1] = c + padded(t)
        /\ padded(t) = cdiv(t, block_size) * block_size
    BY <1>1, ExpertPlaces, PaddedFacts
  <2>6. c = q * block_size /\ q \in Nat
    BY <1>2, <2>5, DivMod, MultiplesAdd
  <2>. HIDE DEF c, t, q
  <2>7. m \in Nat
    <3>1. q <= b
      <4>1. ~(b < q)
        <5>1. b < q => b * block_size + block_size <= q * block_size
          BY <1>2, <2>2, <2>6, TimesGrows
        <5>2. c <= y /\ y = b * block_size
          BY <2>4 DEF c
        <5>. HIDE DEF y
        <5>. QED BY <1>2, <2>3, <2>5, <2>6, <5>1, <5>2
      <4>. QED BY <2>2, <2>6, <4>1
    <3>. QED BY <2>2, <2>6, <3>1
  <2>8. y = c + m * block_size
    <3>1. m * block_size = b * block_size - q * block_size
      BY <1>2, <2>2, <2>6
    <3>2. y = b * block_size
      OBVIOUS
    <3>. HIDE DEF y, m
    <3>. QED BY <2>3, <2>5, <2>6, <3>1, <3>2
  <2>9. m * block_size < cdiv(t, block_size) * block_size
    <3>1. y < c + padded(t)
      BY <2>4, <2>5
    <3>2. cdiv(t, block_size) * block_size \in Nat /\ m * block_size \in Nat
      <4>1. cdiv(t, block_size) \in Nat
        BY <1>2, <2>5, CdivFacts
      <4>. HIDE DEF m
      <4>. QED BY <1>2, <2>7, <4>1
    <3> DEFINE u == cdiv(t, block_size) * block_size
               w == m * block_size
    <3>3. y = c + w /\ y < c + u /\ u \in Nat /\ w \in Nat
      BY <2>5, <2>8, <3>1, <3>2
    <3>. HIDE DEF u, w, y, m
    <3>4. w < u
      BY <2>3, <2>5, <3>3
    <3>. QED BY <3>4 DEF u, w
  <2>10. m * block_size < t /\ m * block_size \in Nat
    <3>. HIDE DEF m
    <3>1. m * block_size \in Nat
      BY <1>2, <2>7
    <3>. QED BY <1>2, <2>5, <2>7, <2>9, <3>1, MultipleBelow
  <2>11. PICK j \in Tokens : topk_ids[j] = e /\ Place(j) = cumsum[e] + m * block_size
    BY <2>10, NoGap DEF t
  <2>. QED BY <1>4, <2>8, <2>11 DEF c
<1>. QED BY <1>5, <1>6, <1>7, <1>8, <1>9, <1>10 DEF Aligned, Filled

\* Aligned: in the result every token has one place, in a block of its own
\* expert, in order and without gaps, within the length that is reported.
THEOREM BlocksAreAligned == Spec => []Aligned
BY MoeInvariant, AlignedFromInv, PTL
=============================================================================
