SPECIFICATION Spec
CONSTANTS
    Key = {k1, k2}
    None = None
    Slot = {"edit", "verdict", "submission"}
    MaxIntent = 3
    MaxVersion = 1
    MaxDrafts = 2
INVARIANTS
    LaneIsExclusive
    SettledIsShown
    ShownDraftsCurrent
PROPERTIES
    LastChoiceWins
    ReconciliationShowsTheWrite
    ReplacementEnds
    QuitDrains
CHECK_DEADLOCK FALSE
