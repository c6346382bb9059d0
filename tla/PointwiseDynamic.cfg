SPECIFICATION PointwiseSpec
CONSTANTS
  t1 = t1
  t2 = t2
  Threads = {t1, t2}
  INT32_MAX = 6
  Workloads <- MCWorkloads
INVARIANTS
  Elementwise
  InBounds
  FewLoads
