SPECIFICATION LiveSpec
CONSTANTS
    MaxTempId = 1
    MaxRuns = 2
    MaxCommentId = 2
    Delay = {5}
    Body = {1}
    Anchor = {}
    Source = {1}
    PostErrors = {"RateLimited", "BadRequest"}
    CheckErrors = {}
    Proc = {p1}
    Pending0 <- One
    MaxCrashes = 1
    MaxFaults = 1
PROPERTIES
    DriverEnds
CHECK_DEADLOCK FALSE
