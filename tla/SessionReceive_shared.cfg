SPECIFICATION FairSpec

CONSTANTS
    Users = {main, timer}
    SlotSize = 2
    Replies <- Plain
    Crashes = TRUE
    Shutdowns = TRUE
    MaxRequests = 3
    MaxStrays = 2

INVARIANTS
    TypeOK
    OneReader
    OwnAnswer
    NothingLost
PROPERTIES
    WireHandedOn

CHECK_DEADLOCK FALSE
