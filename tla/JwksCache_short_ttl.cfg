SPECIFICATION Spec
CONSTANTS
    Callers = {c1}
    IssuerCount = 1
    KeyIds = {k1}
    TTL = 1
    Cooldown = 3
    Timeout = 1
    Never = Never
    MaxTime = 3
PROPERTIES MissesSpaced
CHECK_DEADLOCK FALSE
