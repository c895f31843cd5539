SPECIFICATION InteractionSpec
CONSTANTS
  Users = {ana, bea, carl}
  Admins = {ana}
  DetailIds = {d1}
  CommentIds = {c1, c2}
  Keys = {k1}
  Texts = {t1}
  Requests = {r1, r2, r3}
  MaxRev = 0
  NoDetail = NoDetail
SYMMETRY Symmetry
INVARIANTS TypeOK VotesCounted CommentsCounted
