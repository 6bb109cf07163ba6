SPECIFICATION Spec
CONSTANTS
    MaxTempId = 1
    MaxRuns = 2
    MaxCommentId = 2
    Delay = {5}
    Body = {1}
    Anchor = {}
    Source = {1, 2}
    PostErrors = {"Unauthorized", "RateLimited", "BadRequest", "Transport"}
    CheckErrors = {"RateLimited", "Transport"}
    Proc = {p1, p2}
    Pending0 <- One
    MaxCrashes = 1
    MaxFaults = 1
SYMMETRY ProcSymmetry
INVARIANTS
    OwnerMatchesRun
    AtMostOneComment
    NoBlindRepeat
    StaleGateBlocksPosts
    RowsAreTrue
    StrandedOnlyByAbort
CHECK_DEADLOCK FALSE
