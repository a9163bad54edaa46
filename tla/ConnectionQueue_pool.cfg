SPECIFICATION FairSpec
CONSTANTS
    c1 = c1
    a1 = a1
    Clients = {c1, a1}
    AdminClients = {a1}
    NormalSlots = 1
    AdminSlots = 1
    MaxRequests = 3
INVARIANTS
    SlotExclusive
    AdminReservation
    OwnAnswer
PROPERTIES
    AnswerArrives
    TerminationConfirmed
CHECK_DEADLOCK FALSE
