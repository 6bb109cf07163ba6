SPECIFICATION Spec
CONSTANTS
    MaxTempId = 2
    MaxRuns = 2
    MaxCommentId = 3
    Delay = {5}
    Body = {1, 2}
    Anchor = {}
    Source = {1, 2}
    PostErrors = {"RateLimited", "BadRequest"}
    CheckErrors = {"RateLimited"}
    Proc = {p1}
    Pending0 <- Thread
    MaxCrashes = 0
    MaxFaults = 1
INVARIANTS
    IntentBeforePost
    ReplyUnderItsParent
    RowsAreTrue
    NeverStranded
CHECK_DEADLOCK FALSE
