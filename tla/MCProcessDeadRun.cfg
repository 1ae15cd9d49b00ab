\* The expectation of TestProcess_ErrorChannel, on one process.
SPECIFICATION Spec
CONSTANTS
    MaxRuns = 1
    ErrCap = 1
INVARIANT DeadRunIsNotRunning
CHECK_DEADLOCK FALSE
