CONSTANTS
    NoFile = NoFile
    Torn = Torn
    Unknown = Unknown
    Runs = 2
    Items = {x}
    MaxChanges = 2
    Starts = {}
    Checkout = "checkout"
    VersionOf <- MCVersionOf
    PidOf <- MCPidOf
    MaxDays = 1
    Diagnostics = {}
    SeverityOf <- MCSeverityOf
    Tabs = {}
    MaxSaves = 0
SPECIFICATION SessionSpec
INVARIANTS
    RestartRestoresState
CHECK_DEADLOCK FALSE
