SPECIFICATION Spec
CONSTANTS
    Key = {k1}
    None = None
    Slot = {"edit"}
    MaxIntent = 3
    MaxVersion = 1
    MaxDrafts = 0
PROPERTIES
    ShutdownDrains
CHECK_DEADLOCK FALSE
