SPECIFICATION FairSpec
CONSTANTS
    t1 = t1
    t2 = t2
    t3 = t3
    NoTask = NoTask
    Tasks = {t1, t2, t3}
    Priority <- MCPriority
INVARIANTS
    TypeOK
    OnePlace
    PriorityFirst
PROPERTIES
    RunsAgain
    StopEndsAll
CHECK_DEADLOCK FALSE
