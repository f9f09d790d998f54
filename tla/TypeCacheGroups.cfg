SPECIFICATION Spec
CONSTANTS
  a = a
  b = b
  c = c
  one = one
  two = two
  Calls = {one, two}
  Modules = {a, b, c}
  NotModules = {}
  Capsule = Capsule
  Datetimes = Datetimes
  Slots = 2
  Absent = Absent
  LookupFails = FALSE
  MaxChanges = 3
SYMMETRY Symmetric
INVARIANTS GroupWhole
