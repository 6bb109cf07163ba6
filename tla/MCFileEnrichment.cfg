SPECIFICATION Spec
CONSTANTS
    NumFiles = 2
    MaxVisible = 2
    MaxSpeculative = 1
    MaxAcquisitions = 1
    Budget = 0
    None = None
    MaxEpoch = 2
    MaxInputs = 2
    MaxFailures = 1
INVARIANTS
    TypeOK
    SpeculativeBound
    LoadingIsUnderWay
    FrameMatchesStorage
PROPERTIES
    EvictsOnlyInactive
    Quiesces
    ActiveShown
    SearchEnds
CHECK_DEADLOCK FALSE
