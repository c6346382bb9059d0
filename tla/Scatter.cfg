SPECIFICATION ScatterSpec
CONSTANTS
  Cases <- MCCases
  BLOCK = 2
  LOOP = 2
INVARIANTS
  Scattered
PROPERTIES
  Ends
