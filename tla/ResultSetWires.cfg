SPECIFICATION FairSpec
CONSTANTS
    Count = 2
    Capacity = 4
    Buffers = {1, 2}
    Writers = {w1, w2}
    Records <- MCRecords
    MaxRecords <- MCMaxRecords
    Crashes = TRUE
CHECK_DEADLOCK FALSE
INVARIANTS
    BuffersApart
PROPERTIES
    Channels
    WriterGoesOn
    ReaderEnds
