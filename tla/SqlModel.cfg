SPECIFICATION Spec
CONSTANTS
  t1 = t1
  t2 = t2
  t3 = t3
  p1 = p1
  p2 = p2
  warps = warps
  stages = stages
  c1 = c1
  c2 = c2
  mm = mm
  mm_benchmark = mm_benchmark
  Callers <- MCCallers
  Procs <- MCProcs
  Process <- MCProcess
  Names <- MCNames
  Keys = {k1}
  Columns <- MCColumns
  Data <- MCData
  NoRow = NoRow
  Done = Done
  Raised = Raised
  Idle = Idle
  MaxCalls = 4
  MaxFaults = 1
  MaxCrashes = 1
SYMMETRY MCSymmetry
PROPERTIES
  StoreSpec
  ErrorsExplained
