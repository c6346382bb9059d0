SPECIFICATION Spec
CONSTANTS
  Contexts = {c1, c2, c3}
  Enables = {e1, e2}
  config <- MCconfig
  Excluded = {"div.Scalar"}
  aten_lib = aten_lib
  None = None
  Deleted = Deleted
SYMMETRY MCSymmetry
INVARIANTS
  Scoped
  AllOpsOn
  NameErrorOverlap
