\* One handle, up to three processes, a report channel of capacity one.
SPECIFICATION FairSpec
CONSTANTS
    MaxRuns = 3
    ErrCap = 1
INVARIANTS
    TypeOK
    OneLiveRun
    StoppedMeansGone
    CrashIsReported
PROPERTIES
    ImplementsSingleServer
    StopReturns
    WaiterFinishes
\* After the last run the handle may rest for good.
CHECK_DEADLOCK FALSE
