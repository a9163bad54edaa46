SPECIFICATION Spec

CONSTANTS
    Kind = "request"
    Capacity = 5
    HeaderSize = 2
    Word = 256
    Lengths = {0, 2}
    MaxMessages = 3
    UsePayload = TRUE
    Raised = {"terminate", "notify", "close"}
    Timeouts = TRUE

INVARIANTS
    Bounded
    ViewIntact
    NoLostWakeup

PROPERTIES
    IsChannel

CHECK_DEADLOCK FALSE
