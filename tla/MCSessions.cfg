SPECIFICATION Spec
CONSTANTS
    Tabs = {t1, t2}
    MaxTokens = 3
SYMMETRY Alike
INVARIANTS
    TypeOK
    OneLiveToken
    RaceIsNotTheft
    NotRefusedByItself
CHECK_DEADLOCK FALSE
