SPECIFICATION FairSpec
CONSTANTS
    Calls = {c1, c2}
    Locks = {l1, l2}
    NoLock = NoLock
    Absent = Absent
    f1 = f1
    f2 = f2
    t1 = t1
    Paths = {"a", "A", "t", c1, c2}
    Files = {f1, t1, c1, c2}
    FileOf <- MCFileOfAlias
    TrashPath <- MCTrash
    Fronts = {1, 2}
    Bodies = {1}
    MarkedBodies = {1}
    Requests <- MCAliases
    Vaults <- MCVaults
    Quarantined = {}
    Exposed = {}
    Cooldown = FALSE
    Environment = {}
INVARIANT LockExclusive
PROPERTY EveryCallEnds
CHECK_DEADLOCK FALSE
