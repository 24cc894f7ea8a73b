SPECIFICATION Spec
CONSTANTS
    ann = ann
    bob = bob
    poll = poll
    None = None
    Callers <- OneCaller
    Pollers = {}
    Tasks <- OneCaller
    Setters <- OneSetter
    Levels <- TwoLevels
    Confirmed <- LowPair
    ControlEnabled = TRUE
    Operations = {"connect"}
    AuthChunks = 2
    Faults = {"noise"}
    ConnectPolicy = "sequential"
    MaxCalls = 1
    MaxFaults = 1
CHECK_DEADLOCK FALSE
PROPERTIES
    NothingWrittenOncePoisoned
