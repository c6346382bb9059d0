SPECIFICATION MmSpec
CONSTANTS
  Launches <- MCLaunches
  GROUP_M = 2
INVARIANTS
  TileExact
  SpinsOnWorking
  CollectsInStep
  ProductExact
PROPERTIES
  SlotKept
  Returns
