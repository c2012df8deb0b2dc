SPECIFICATION Spec
CONSTANTS
    Requests = {r1}
    Codes = {c1, c2}
    Secrets = {s1, s2}
    NoCode = NoCode
    NoModel = NoModel
SYMMETRY Symmetry
INVARIANT LatestPasswordLogsIn
CHECK_DEADLOCK FALSE
