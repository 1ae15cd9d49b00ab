SPECIFICATION Spec
CONSTANTS
    Services = {"s1", "s2"}
    Files = {"dir", "a", "new", "zip", "img", "b"}
    NoFile = "-"
    ServiceOf <- MCServiceOf
    Kind <- MCKind
    Above <- MCAbove
    Packed <- MCPacked
    Existing = {"dir", "a", "zip", "img", "b"}
    Start = {"a"}
    MaxEdits = 1
    Opened = {"s1"}
    PageClicks = 2
    service_id = "s1"
    SectionClicks = 2
INVARIANTS
    TypeOK
    TextBelongsToFile
    QuietListIsTrue
PROPERTY
    OnlyConfirmedDisappear
CHECK_DEADLOCK FALSE
