SPECIFICATION FairSpec
CONSTANTS
    Cooldown = 1
    Enabled = TRUE
    BackoffBase = 1
    BackoffCap = 1
    MaxFailures = 1
    Pane = {p1}
    Rank <- AnyOrder
    Worker = {w1, w2}
    MaxSummaryTasks = 1
    ChanCap = 1
    ReportedStatus = {"Working"}
    BlankPane = {p1}
    PanesReturn = FALSE
    MaxRevision = 1
    p1 = p1
    p2 = p2
    p3 = p3
    w1 = w1
    w2 = w2
    None = None
    Empty = Empty
    Failed = Failed
PROPERTIES
    LatestOutputTried
    RefreshHonoured
    FailureRetried
