SPECIFICATION Spec
CONSTANTS
    Services = {s1}
    FirstStatus = {"running"}
    AutoRestart = {}
    Requests = {}
    UserActions = {"stop"}
    UseScope = FALSE
    MaxProcs = 2
    MaxUserCmds = 1
    MaxFaults = 0
    MaxCrashes = 0
    ErrCap = 1
PROPERTY
    ManualStopSticks
CHECK_DEADLOCK FALSE
