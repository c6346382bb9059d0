SPECIFICATION PhiloxSpec
CONSTANTS
  Threads = {t1, t2}
  Sizes = {1, 16, 21, 32}
  BLOCK = 4
  Words = 64
  Starts = {0, 56}
  MaxCalls = 2
INVARIANTS
  NoRepeat
  Restorable
