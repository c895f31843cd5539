SPECIFICATION Spec
CONSTANTS
  u1 = u1
  u2 = u2
  s1 = s1
  v1 = v1
  Callers = {r1}
  Requests = {r1, r2}
  Invitations = {i1}
  Workers = {w1, w2}
  Attempts = {a1, a2}
  Points = {p1, p2}
PROPERTIES EnqueuedDeletionEnds WorkEnds ScreensCatchUp
CHECK_DEADLOCK FALSE
