SPECIFICATION Spec
CONSTANTS
    Calls = {c1, c2}
    Droppable = {}
    Overlays = {o1}
    RegistryPath = registry
    Names = {n1, n2}
    Requests <- MCRequests
    Absent = Absent
    Preset = Preset
    Environment = {"reload"}
SYMMETRY MCSymmetry
PROPERTIES HiddenOverlayHandled
CHECK_DEADLOCK FALSE
