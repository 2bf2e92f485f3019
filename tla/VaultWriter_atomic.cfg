SPECIFICATION Spec
CONSTANTS
    Calls = {c1, c2, c3}
    Locks = {l1, l2, l3}
    NoLock = NoLock
    Absent = Absent
    f1 = f1
    f2 = f2
    t1 = t1
    Paths = {"a", "b", "t", c1, c2, c3}
    Files = {f1, f2, t1, c1, c2, c3}
    FileOf <- MCFileOfTwo
    TrashPath <- MCTrash
    Fronts = {1, 2}
    Bodies = {1, 2}
    MarkedBodies = {1}
    Requests <- MCEveryPath
    Vaults <- MCVaultsTwo
    Quarantined = {f2}
    Exposed = {}
    Cooldown = FALSE
    Environment = {}
SYMMETRY MCSymmetry

PROPERTIES NothingVanishes ImplementsAtomicVault
CHECK_DEADLOCK FALSE
