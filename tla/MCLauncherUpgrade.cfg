SPECIFICATION Spec
CONSTANTS
    Services = {s1}
    FirstStatus = {"stopped", "sleeping"}
    AutoRestart = {}
    Requests = {r1}
    UserActions = {"stop", "upgrade"}
    UseScope = TRUE
    MaxProcs = 2
    MaxUserCmds = 2
    MaxFaults = 0
    MaxCrashes = 0
    ErrCap = 1
INVARIANTS
    CommandsInOrder
CHECK_DEADLOCK FALSE
