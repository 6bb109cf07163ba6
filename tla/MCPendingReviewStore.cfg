SPECIFICATION Spec
CONSTANTS
    MaxTempId = 3
    MaxRuns = 2
    MaxCommentId = 2
    Delay = {1}
    Body = {"b"}
    Anchor = {"a"}
    Source = {1}
    Legacy = {1}
    RetryPoint <- MCRetryPoint
INVARIANTS
    TypeOK
    SubmittingIsCurrent
    FrozenGraph
    ParentsExist
    TempIdsFresh
    OneRepresentation
PROPERTIES
    PostedStaysKnown
    RepliesKeepThread
CHECK_DEADLOCK FALSE
