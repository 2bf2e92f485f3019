SPECIFICATION Spec
CONSTANTS
    Callers = {c1, c2}
    IssuerCount = 1
    KeyIds = {k1, k2}
    TTL = 3
    Cooldown = 2
    Timeout = 1
    Never = Never
    MaxTime = 6
SYMMETRY MCSymmetry
INVARIANT TypeOK
PROPERTIES FetchesSpaced RevokedKeyExpires KeyAvailable
CHECK_DEADLOCK FALSE
