SPECIFICATION Spec
CONSTANTS
  Lengths = {3, 9}
  SINGLE_PASS_LIMIT = 4
  BLOCK_SIZE = 2
  multi_processor_count = 3
INVARIANTS
  ScannerLast
  SumsComplete
  Compacted
