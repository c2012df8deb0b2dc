SPECIFICATION Spec
CONSTANTS
    Requests = {r1}
    Codes = {c1, c2, c3}
    Secrets = {s1, s2}
    NoCode = NoCode
    NoModel = NoModel
SYMMETRY Symmetry
INVARIANT VerificationSticks
INVARIANT CodeUsedOnce
PROPERTY DeletionSticks
PROPERTY DeactivationSticks
CHECK_DEADLOCK FALSE
