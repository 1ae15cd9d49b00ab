SPECIFICATION FairSpec
CONSTANTS
    Services = {s1}
    FirstStatus = {"running"}
    AutoRestart = {}
    Requests = {r1}
    UserActions = {"restart"}
    UseScope = FALSE
    MaxProcs = 2
    MaxUserCmds = 1
    MaxFaults = 0
    MaxCrashes = 0
    ErrCap = 1
PROPERTIES
    CommandsResolved
    RequestsAnswered
CHECK_DEADLOCK FALSE
