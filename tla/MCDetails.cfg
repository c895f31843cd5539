SPECIFICATION ChangeSpec
CONSTANTS
  Users = {ana}
  Admins = {ana}
  DetailIds = {d1, d2}
  CommentIds = {c1}
  Keys = {k1, k2}
  Texts = {t1}
  Requests = {r1, r2}
  MaxRev = 2
  NoDetail = NoDetail
SYMMETRY Symmetry
INVARIANTS HistoryComplete AnchorsEverPublished
PROPERTIES EditsSafe
