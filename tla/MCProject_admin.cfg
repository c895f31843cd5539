SPECIFICATION Spec
CONSTANTS
    Users = {u1, u2, u3}
    Requests = {r1, r2}
    Invitations = {i1}
    MaxAttempts = 2
    MaxStalls = 1
SYMMETRY Symmetry
INVARIANTS AtLeastOneAdmin
CHECK_DEADLOCK FALSE
