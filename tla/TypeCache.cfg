SPECIFICATION Spec
CONSTANTS
  a = a
  b = b
  c = c
  one = one
  two = two
  Calls = {one, two}
  Modules = {a, b, c}
  NotModules = {c}
  Capsule = Capsule
  Datetimes = Datetimes
  Slots = 2
  Absent = Absent
  LookupFails = TRUE
  MaxChanges = 4
SYMMETRY Symmetric
INVARIANTS TypeOK NoLeak GroupWholeAlone NumpyRecognised NoDangling
