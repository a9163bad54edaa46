CONSTANTS
    Servers = {s1, s2, s3}
    Tgctls = {t1, t2}
    Commands = {"start", "kill"}
    MaxCommands = 3
    BootErrors = FALSE
    MaxCrashes = 0
    Timeouts = FALSE
SYMMETRY ServerSymmetry
SPECIFICATION Spec
INVARIANT
    KillWorks
CHECK_DEADLOCK FALSE
