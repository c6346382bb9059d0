SPECIFICATION Spec
CONSTANTS
  p1 = p1
  p2 = p2
  p3 = p3
  num_warps = num_warps
  num_stages = num_stages
  Procs <- MCProcs
  Keys = {k1}
  NConfigs = 2
  Columns <- MCColumns
  all_kwargs <- MCKwargs
  Measurements <- MCMeasurements
  NoRow = NoRow
  MaxRuns = 1
  MaxCrashes = 1
  MaxFaults = 1
SYMMETRY MCSymmetry
INVARIANTS
  TypeOK
  NoKeyError
  FullyMeasured
  StoredIsFastest
  RowsWhole
PROPERTIES
  RowsKept
