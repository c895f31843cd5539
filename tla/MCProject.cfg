SPECIFICATION Spec
CONSTANTS
    Users = {u1, u2, u3}
    Requests = {r1, r2, r3}
    Invitations = {i1}
    MaxAttempts = 2
    MaxStalls = 1
SYMMETRY Symmetry
INVARIANTS TypeOK UniqueMember TombstoneStaysEmpty
PROPERTIES LastAdminLostOnlyByStaleRemoval LifeCycle
CHECK_DEADLOCK FALSE
