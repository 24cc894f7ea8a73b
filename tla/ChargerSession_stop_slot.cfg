SPECIFICATION Spec
CONSTANTS
    ann = ann
    bob = bob
    poll = poll
    None = None
    Callers <- TwoCallers
    Pollers <- OnePoller
    Tasks <- TwoAndPoll
    Setters <- OneSetter
    Levels <- TwoLevels
    Confirmed <- AnyPair
    ControlEnabled = TRUE
    Operations = {"connect", "start_polling", "refresh_config", "stop"}
    AuthChunks = 1
    Faults = {}
    ConnectPolicy = "sequential"
    MaxCalls = 5
    MaxFaults = 0
SYMMETRY CallerSymmetry
CHECK_DEADLOCK FALSE
PROPERTIES
    StopIsNext
