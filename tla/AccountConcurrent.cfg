SPECIFICATION Spec
CONSTANTS
    Requests = {r1, r2}
    Codes = {c1, c2}
    Secrets = {s1, s2}
    NoCode = NoCode
    NoModel = NoModel
SYMMETRY Symmetry
INVARIANT TypeOK
INVARIANT ActivationEarned
INVARIANT OnlyLatestPasswordLogsIn
PROPERTY DeadCodesStayDead
CHECK_DEADLOCK FALSE
