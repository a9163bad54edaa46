CONSTANTS
    Servers = {s1, s2, s3}
    Tgctls = {t1}
    Commands = {"start", "force", "shutdown", "kill", "status", "pid", "diagnostic"}
    MaxCommands = 5
    BootErrors = FALSE
    MaxCrashes = 1
    Timeouts = FALSE
SPECIFICATION FairSpec
INVARIANTS
    ReportTruth
    Findable
PROPERTY
    CommandReturns
CHECK_DEADLOCK FALSE
