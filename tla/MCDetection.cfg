SPECIFICATION Spec
CONSTANTS
    Jobs = {j1, j2}
    Proposals = {p1, p2}
    p1 = p1
    p2 = p2
    Arrows <- OneArrow
    Requests = {r1, r2}
INVARIANTS
    TypeOK
    StoringNotFailed
    OneAcceptance
    MetricsCounted
    AcceptedArrowDrawn
    OneDetectionToReview
    PublishedReviewed
SYMMETRY Symmetry
CHECK_DEADLOCK FALSE
