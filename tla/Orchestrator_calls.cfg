SPECIFICATION Spec
CONSTANTS
    Cooldown = 1
    Enabled = TRUE
    BackoffBase = 2
    BackoffCap = 1
    MaxFailures = 1
    Pane = {p1}
    Rank <- AnyOrder
    Worker = {w1, w2, w3}
    MaxSummaryTasks = 2
    ChanCap = 1
    ReportedStatus = {"Working", "Blocked"}
    BlankPane = {}
    PanesReturn = FALSE
    MaxRevision = 1
    p1 = p1
    p2 = p2
    p3 = p3
    w1 = w1
    w2 = w2
    w3 = w3
    None = None
    Empty = Empty
    Failed = Failed
SYMMETRY WorkerSymmetry
INVARIANTS
    TypeOK
    TaskBound
    NoResurrection
    OneCallPerPane
    InFlightIsOutstanding
PROPERTIES
    UrgentEdgeSeen
    PromisesKept
