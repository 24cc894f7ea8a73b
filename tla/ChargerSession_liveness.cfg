SPECIFICATION FairSpec
CONSTANTS
    ann = ann
    bob = bob
    poll = poll
    None = None
    Callers <- TwoCallers
    Pollers = {}
    Tasks <- TwoCallers
    Setters <- OneSetter
    Levels <- TwoLevels
    Confirmed <- LowPair
    ControlEnabled = TRUE
    Operations = {"connect", "set_voltage", "disconnect"}
    AuthChunks = 1
    Faults = {"cancel", "late_write", "late_reply", "link_loss"}
    ConnectPolicy = "sequential"
    MaxCalls = 3
    MaxFaults = 1
CHECK_DEADLOCK FALSE
PROPERTIES
    CallReturns
    PoisonedLinkGoesDown
