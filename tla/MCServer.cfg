\* One part of the server at work in each behaviour.
SPECIFICATION Spec
CONSTANTS
    Events = {"disconnect", "head", "other", "save", "unzip", "rename", "delete", "start", "fault", "exit", "source", "edit", "replace", "remove", "crash", "timeout", "command", "stop"}
    Requests = {"r1", "r2"}
    Saver = "saver"
    Inodes = {"i1", "i2", "i3", "i4", "i5"}
    Texts = {"t1", "t2"}
    NoText = "none"
    MaxEdits = 2
    Ids = {"s1"}
    Names = {"n1", "n2"}
    Lookups = {"x1", "x2"}
    MaxChanges = 2
    Directories = {"n1", "n2", "n3"}
    Starters = {"x1", "x2"}
    MaxHooks = 3
    MaxWrites = 3
    MaxClones = 3
    Services = {"s1", "s2", "s3"}
    Requested = {"s1"}
    MaxDates = 3
    Versions = {"v1", "v2"}
    Sync = "sync"
    Ensurers = {"e1"}
    Files = 2
    Retention = 2
    MaxEnsures = 2
    MaxFaults = 1
CONSTRAINT Unspoilt
INVARIANTS
    TypeOK
    CopyIsTrueUnlessSpoilt
    CachedIsTrue
    TidyUnlessDisturbed
    WholeOrNothing
    AloneUnlessLate
    CompleteUnlessCut
PROPERTIES
    NoneTwiceBeforeAll
    ReleasesArrive
CHECK_DEADLOCK FALSE
