SPECIFICATION Spec
CONSTANTS
    Calls = {c1, c2}
    Framework = {c1}
    Droppable = {}
    Notes = {n1, n2}
    Environment = {"io", "reload"}
SYMMETRY MCSymmetry
INVARIANTS TypeOK ReadYourWrite
CHECK_DEADLOCK FALSE
