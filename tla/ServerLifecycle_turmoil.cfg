CONSTANTS
    Servers = {s1, s2}
    Tgctls = {t1, t2}
    Commands = {"start", "force", "shutdown", "kill", "status", "pid", "diagnostic"}
    MaxCommands = 2
    BootErrors = TRUE
    MaxCrashes = 1
    Timeouts = TRUE
SYMMETRY ServerSymmetry
SPECIFICATION Spec
INVARIANTS
    LocksKept
    AnswerGrounded
CHECK_DEADLOCK FALSE
