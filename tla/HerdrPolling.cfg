SPECIFICATION Spec
CONSTANTS
    Poller = poller
    Focuser = {f1}
    Reader = {r1}
    ChanCap = 1
    None = None
INVARIANTS
    TypeOK
    BusyAgentsAreRead
PROPERTIES
    SilenceIsShown
    RecoveryIsShown
    PollingGoesOn
