SPECIFICATION FairSpec
CONSTANTS
    BaseUrl <- MCBaseUrl
    LoopbackIp <- MCLoopbackIp
    Malformed = Malformed
    None = None
    Refresh = 2
    Ttl = 6
    CallLimit = 1
    MaxLate = 1
INVARIANTS
    TypeOK
    TerminalGivenBack
    KeysStayHome
    TokenSurvivesADrop
    ClearedAtExit
PROPERTIES
    TokenGoes
