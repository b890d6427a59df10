SPECIFICATION Spec
CONSTANTS
    Headlines <- MCHeadlines
    Size <- MCSize
    Hash <- MCHash
    Task = {t1, t2}
    FleetCooldown = 1
    None = None
    t1 = t1
    t2 = t2
PROPERTIES
    StaleAnswerDiscarded
