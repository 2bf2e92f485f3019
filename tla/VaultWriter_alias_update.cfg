SPECIFICATION Spec
CONSTANTS
    Calls = {c1, c2, c3}
    Locks = {l1, l2, l3}
    NoLock = NoLock
    Absent = Absent
    f1 = f1
    f2 = f2
    t1 = t1
    Paths = {"a", "A", "t", c1, c2, c3}
    Files = {f1, t1, c1, c2, c3}
    FileOf <- MCFileOfAlias
    TrashPath <- MCTrash
    Fronts = {1, 2}
    Bodies = {1}
    MarkedBodies = {1}
    Requests <- MCAliasRace
    Vaults <- MCVaultsFree
    Quarantined = {}
    Exposed = {}
    Cooldown = FALSE
    Environment = {}
INVARIANT BaseIsCurrent
CHECK_DEADLOCK FALSE
