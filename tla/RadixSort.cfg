SPECIFICATION FairSpec
CONSTANTS
  N = 5
  TILE_N = 2
  TILE_R = 3
  k_bits = 2
  num_bits = 3
  Keys = {0, 3, 5}
  Resident = 2
  Stale = Stale
INVARIANTS
  WordsTrue
  SortedStably
PROPERTIES
  DealsSpec
  SortEnds
