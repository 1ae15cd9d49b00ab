SPECIFICATION Spec
CONSTANTS
    Services = {s1}
    FirstStatus = {"running"}
    AutoRestart = {s1}
    Requests = {r1}
    UserActions = {"stop"}
    UseScope = TRUE
    MaxProcs = 2
    MaxUserCmds = 1
    MaxFaults = 1
    MaxCrashes = 1
    ErrCap = 1
INVARIANTS
    TypeOK
    NoStrayProcess
    OneServer
    StoppedMeansDown
    CommandsInOrder
PROPERTIES
    RecoveryRestores
CHECK_DEADLOCK FALSE
