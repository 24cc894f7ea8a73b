SPECIFICATION Spec
CONSTANTS
    ann = ann
    bob = bob
    poll = poll
    None = None
    Callers <- TwoCallers
    Pollers <- OnePoller
    Tasks <- TwoAndPoll
    Setters <- OneSetter
    Levels <- TwoLevels
    Confirmed <- AnyPair
    ControlEnabled = TRUE
    Operations = {"connect", "set_voltage", "start", "stop", "refresh_config", "start_polling", "stop_polling", "disconnect"}
    AuthChunks = 1
    Faults = {"cancel", "late_write", "panel", "expire"}
    ConnectPolicy = "sequential"
    MaxCalls = 4
    MaxFaults = 1
SYMMETRY CallerSymmetry
CHECK_DEADLOCK FALSE
INVARIANTS
    TypeOK
    PendingBelongsToOwner
    PollReachable
    StartReadsFirst
