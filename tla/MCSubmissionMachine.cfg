SPECIFICATION Spec
CONSTANTS
    MaxTempId = 3
    MaxRuns = 1
    MaxCommentId = 6
    Delay = {5}
    Body = {1, 2, 3}
    Anchor = {}
    Source = {1}
    PostErrors = {"Unauthorized", "RateLimited", "BadRequest", "Transport"}
    CheckErrors = {"Unauthorized", "RateLimited", "Transport"}
    Reviews <- MCReviews
INVARIANTS
    AtMostOneComment
    ReplyUnderItsParent
    ResultsAreTrue
    BudgetsKept
    DoneIsComplete
PROPERTIES
    Terminates
