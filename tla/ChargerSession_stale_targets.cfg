SPECIFICATION Spec
CONSTANTS
    ann = ann
    bob = bob
    poll = poll
    None = None
    Callers <- TwoCallers
    Pollers = {}
    Tasks <- TwoCallers
    Setters <- OneSetter
    Levels <- TwoLevels
    Confirmed <- AnyPair
    ControlEnabled = TRUE
    Operations = {"connect", "refresh_config", "refresh_telemetry", "start"}
    AuthChunks = 1
    Faults = {"cancel", "panel"}
    ConnectPolicy = "sequential"
    MaxCalls = 5
    MaxFaults = 3
SYMMETRY CallerSymmetry
CHECK_DEADLOCK FALSE
PROPERTIES
    StartAsReported
