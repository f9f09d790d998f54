SPECIFICATION Spec
CONSTANTS
  Modules = {m1, m2}
  Probes = 2
SYMMETRY Symmetric
INVARIANTS TypeOK TraverseExact NothingLeft FastPathRight
CHECK_DEADLOCK FALSE
