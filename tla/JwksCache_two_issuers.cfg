SPECIFICATION FairSpec
CONSTANTS
    Callers = {c1, c2}
    IssuerCount = 2
    KeyIds = {k1}
    TTL = 1
    Cooldown = 2
    Timeout = 1
    Never = Never
    MaxTime = 1
PROPERTIES EveryCallAnswered
CHECK_DEADLOCK FALSE
