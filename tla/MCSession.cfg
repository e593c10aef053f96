CONSTANTS
    NoFile = NoFile
    Torn = Torn
    Unknown = Unknown
    Runs = 2
    Items = {x}
    MaxChanges = 2
    Starts = {"r1", "r2", "r3", "c1", "c2"}
    Checkout = "checkout"
    VersionOf <- MCVersionOf
    PidOf <- MCPidOf
    MaxDays = 1
    Diagnostics = {"advisory", "theirs"}
    SeverityOf <- MCSeverityOf
    Tabs = {"tab"}
    MaxSaves = 2
SPECIFICATION SessionSpec
INVARIANTS
    LockIsNewest
    SaveMirrorsMemory
    RestartKeepsWhatWasSaved
    RenderersHold
    TypeErrorsAreCurrent
PROPERTIES
    OrphansFallSilent
CHECK_DEADLOCK FALSE
