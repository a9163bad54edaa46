SPECIFICATION FairSpec

CONSTANTS
    Kind = "response"
    Capacity = 3
    HeaderSize = 2
    Word = 256
    Lengths = {0, 5}
    MaxMessages = 2
    UsePayload = FALSE
    Raised = {"close", "notify_shutdown"}
    Timeouts = FALSE

PROPERTIES
    IsChannel
    Delivery
    SignalHeard
    CloseReleasesWriter

CHECK_DEADLOCK FALSE
