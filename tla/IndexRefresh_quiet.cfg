SPECIFICATION FairSpec
CONSTANTS
    Calls = {c1, c2, c3}
    Framework = {c1, c2}
    Droppable = {c1}
    Notes = {n1}
    Environment = {}
INVARIANTS QuietIndexExact
PROPERTIES PublishedInOrder EveryCallReturns
CHECK_DEADLOCK FALSE
