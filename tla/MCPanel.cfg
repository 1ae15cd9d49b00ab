SPECIFICATION Spec
CONSTANTS
    Records = {"a", "b"}
    Names = {"n1", "n2"}
    None = "none"
    PanelClicks = 2
    Ids = {"i1", "i2"}
    Edits = {"save", "rename", "db"}
    MaxEdits = 2
    SnapshotClicks = 2
    Recent = 2
    Full = 3
    MaxLines = 4
    MaxFaults = 1
    LogClicks = 2
    DomainNames = {"n1", "n2"}
    DomainClicks = 2
INVARIANTS
    TypeOK
    ListsAreTrue
    LogsInOrder
PROPERTIES
    KeptUnlessDisturbed
    
    LogsCatchUp
CHECK_DEADLOCK FALSE
