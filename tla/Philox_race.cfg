SPECIFICATION PhiloxSpec
CONSTANTS
  Threads = {t1, t2}
  Sizes = {8}
  BLOCK = 4
  Words = 64
  Starts = {0}
  MaxCalls = 1
INVARIANTS
  AllAdded
