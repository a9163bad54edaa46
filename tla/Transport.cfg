SPECIFICATION FairSpec
CONSTANTS
    Lease = 2
    Crashes = TRUE
CHECK_DEADLOCK FALSE
INVARIANTS
    TypeOK
    SessionNotLeft
    KeptAlive
    FailureSparesFile
PROPERTIES
    ExplicitWins
    TransportEnds
