SPECIFICATION Spec
CONSTANTS
    ann = ann
    bob = bob
    poll = poll
    None = None
    Callers <- TwoCallers
    Pollers = {}
    Tasks <- TwoCallers
    Setters <- OneSetter
    Levels <- TwoLevels
    Confirmed <- AnyPair
    ControlEnabled = TRUE
    Operations = {"connect", "set_voltage", "start", "stop", "refresh_config"}
    AuthChunks = 1
    Faults = {"reject", "silence", "corrupt", "layout", "late_write", "late_reply"}
    ConnectPolicy = "sequential"
    MaxCalls = 4
    MaxFaults = 1
SYMMETRY CallerSymmetry
CHECK_DEADLOCK FALSE
INVARIANTS
    NoOverlappingWrites
    ViewAgrees
PROPERTIES
    StartAsConfirmed
