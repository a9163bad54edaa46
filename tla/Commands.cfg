SPECIFICATION FairSpec
CONSTANTS
    Cmds <- MCCmds
    Files = 2
    MaxBoots = 3
CHECK_DEADLOCK FALSE
INVARIANTS
    TypeOK
    RecordTellsExit
    BackupCovered
    HandsOff
    CleanEnd
PROPERTY
    CommandEnds
