SPECIFICATION Spec
CONSTANTS
    Key = {k1}
    None = None
    Slot = {"edit", "verdict"}
    MaxIntent = 3
    MaxVersion = 1
    MaxDrafts = 1
INVARIANTS
    OneRemoteWriter
CHECK_DEADLOCK FALSE
