SPECIFICATION Spec
CONSTANTS
    MaxTempId = 2
    MaxRuns = 1
    MaxCommentId = 3
    Delay = {5}
    Body = {1, 2}
    Anchor = {}
    Source = {1}
    PostErrors = {"Transport"}
    CheckErrors = {"RateLimited"}
    Proc = {p1}
    Pending0 <- Roots
    MaxCrashes = 1
    MaxFaults = 0
INVARIANTS
    NoBlindRepeat
CHECK_DEADLOCK FALSE
