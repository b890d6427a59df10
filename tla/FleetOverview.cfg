SPECIFICATION FairSpec
CONSTANTS
    Headlines <- MCHeadlines
    Size <- MCSize
    Hash <- MCCollidingHash
    Task = {t1, t2}
    FleetCooldown = 3
    None = None
    t1 = t1
    t2 = t2
INVARIANTS
    TypeOK
    OneFleetCall
    SuccessIsOnScreen
    NoProseForNoFleet
PROPERTIES
    OverviewCatchesUp
