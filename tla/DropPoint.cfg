CONSTANTS
    OtherFlag = {}
    JsonTarget <- Specs
    UnsureTarget <- Odd
    Archive <- Archives
    Rank <- Bytes
    NUL = NUL
    Command <- Calls
    Script <- Builds
    WorkspaceWrapper = "drop-point-skip"
    NoKey = NoKey
    NoEntry = NoEntry
    Broken = Broken
    Absent = Absent
    MaxCrashes = 1
    MaxExpunges = 1
    MaxEdits = 1
SPECIFICATION Spec
CHECK_DEADLOCK FALSE
INVARIANTS
    TypeOK
    OutputsAreOwn
    PlannedExists
    OneEntryPerUnit
PROPERTIES
    PublishedOnce
