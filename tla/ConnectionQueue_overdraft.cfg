SPECIFICATION Spec
CONSTANTS
    c1 = c1
    c2 = c2
    a1 = a1
    a2 = a2
    Clients = {c1, c2, a1, a2}
    AdminClients = {a1, a2}
    NormalSlots = 2
    AdminSlots = 1
    MaxRequests = 4
INVARIANTS
    NoOverdraft
CHECK_DEADLOCK FALSE
