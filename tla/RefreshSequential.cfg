SPECIFICATION Spec
CONSTANTS
    Users = {u1, u2}
    Admins = {u1, u2}
    TokenIds = {t1, t2, t3, t4}
    Requests = {r1}
    NoToken = NoToken
    NoUser = NoUser
    StatementsMayFail = FALSE
SYMMETRY Symmetry
INVARIANT ExchangedOnce
INVARIANT DetectedSessionsAreDead
PROPERTY ImplementsRotation
