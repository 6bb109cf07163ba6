SPECIFICATION Spec
CONSTANTS
    MaxTempId = 2
    MaxRuns = 2
    MaxCommentId = 3
    Delay = {5}
    Body = {1, 2}
    Anchor = {}
    Source = {1}
    PostErrors = {"Transport", "BadRequest"}
    CheckErrors = {"BadRequest"}
    Proc = {p1}
    Pending0 <- Roots
    MaxCrashes = 0
    MaxFaults = 0
INVARIANTS
    PostedRowsAreTrue
CHECK_DEADLOCK FALSE
