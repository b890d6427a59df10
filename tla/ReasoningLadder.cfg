SPECIFICATION FairSpec
CONSTANTS
    Caller = {c1, c2, c3}
INVARIANTS
    TypeOK
    CheapestAccepted
    RefusalsBounded
PROPERTIES
    CallReturns
