SPECIFICATION Spec
CONSTANTS
  VersionIds = {v1, v2}
  Keys = {k1, k2}
  Requests = {r1, r2}
  MaxRev = 2
  NoVersion = NoVersion
SYMMETRY Symmetry
INVARIANTS TypeOK
PROPERTIES ImplementsHistory UpdatesSafe
CHECK_DEADLOCK FALSE
