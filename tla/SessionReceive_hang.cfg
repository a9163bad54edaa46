SPECIFICATION FairSpec

CONSTANTS
    Users = {main, timer}
    SlotSize = 2
    Replies <- Plain
    Crashes = FALSE
    Shutdowns = FALSE
    MaxRequests = 2
    MaxStrays = 0

PROPERTIES
    ReceiveReturns

CHECK_DEADLOCK FALSE
