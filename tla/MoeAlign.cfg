SPECIFICATION Spec
CONSTANTS
  num_experts = 3
  block_size = 2
  Sizes = {1, 4, 5}
INVARIANTS
  TypeOK
  RankExact
  Aligned
