SPECIFICATION Spec
CONSTANTS
  VersionIds = {v1, v2}
  Keys = {k1}
  Requests = {r1, r2}
  MaxRev = 2
  NoVersion = NoVersion
SYMMETRY Symmetry
INVARIANT DraftOrPublished
CHECK_DEADLOCK FALSE
