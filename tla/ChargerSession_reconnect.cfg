SPECIFICATION Spec
CONSTANTS
    ann = ann
    bob = bob
    poll = poll
    None = None
    Callers <- TwoCallers
    Pollers = {}
    Tasks <- TwoCallers
    Setters <- OneSetter
    Levels <- TwoLevels
    Confirmed <- LowPair
    ControlEnabled = TRUE
    Operations = {"connect", "set_voltage", "disconnect"}
    AuthChunks = 2
    Faults = {"link_loss", "write_error", "late_write", "stuck_link", "connect_fail", "no_topology", "swallowed_cancel", "noise", "unsolicited"}
    ConnectPolicy = "sequential"
    MaxCalls = 3
    MaxFaults = 2
SYMMETRY CallerSymmetry
CHECK_DEADLOCK FALSE
INVARIANTS
    NoOverlappingWrites
    PoisonedUnusable
    ReadyIsWhole
    DisconnectedMeansDown
