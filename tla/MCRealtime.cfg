CONSTANTS
  s1 = s1
  s2 = s2
  u1 = u1
  v1 = v1
  v2 = v2
  Users = {u1}
  Sockets = {s1, s2}
  Versions = {v1, v2}
  Owner <- OneUser
  Drafts = {v1}
  Views <- SameOrTwo
  MaxLapses = 1
  MaxChanges = 1
SPECIFICATION Spec
SYMMETRY Alike
INVARIANTS TypeOK OutsidersAreEvicted InRoomIsShown HearsProject
CHECK_DEADLOCK FALSE
