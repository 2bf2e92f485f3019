SPECIFICATION Spec
CONSTANTS
    Calls = {c1, c2}
    Framework = {}
    Droppable = {c1}
    Notes = {n1}
    Environment = {}
PROPERTIES IndexNeverGoesBack
CHECK_DEADLOCK FALSE
