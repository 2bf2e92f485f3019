SPECIFICATION Spec
CONSTANTS
    Calls = {c1, c2}
    Locks = {l1, l2}
    NoLock = NoLock
    Absent = Absent
    f1 = f1
    f2 = f2
    t1 = t1
    Paths = {"a", "t", c1, c2}
    Files = {f1, t1, c1, c2}
    FileOf <- MCFileOf
    TrashPath <- MCTrash
    Fronts = {1, 2}
    Bodies = {1}
    MarkedBodies = {1}
    Requests <- MCPaths
    Vaults <- MCVaultsFree
    Quarantined = {}
    Exposed = {f1}
    Cooldown = TRUE
    Environment = {"io", "audit", "cancel", "crash", "external", "reload"}
SYMMETRY MCSymmetry
INVARIANTS TypeOK BaseIsCurrent AuditTruthful NoSilentWrite
PROPERTIES MovesReplaceNothing PolicySealed ImplementsAtomicVault
CHECK_DEADLOCK FALSE
