SPECIFICATION Spec
CONSTANTS
    ann = ann
    bob = bob
    poll = poll
    None = None
    Callers <- TwoCallers
    Pollers = {}
    Tasks <- TwoCallers
    Setters <- OneSetter
    Levels <- TwoLevels
    Confirmed <- LowPair
    ControlEnabled = TRUE
    Operations = {"connect", "disconnect", "set_voltage"}
    AuthChunks = 1
    Faults = {"link_loss"}
    ConnectPolicy = "gated"
    MaxCalls = 4
    MaxFaults = 1
SYMMETRY CallerSymmetry
CHECK_DEADLOCK FALSE
INVARIANTS
    NewClientAfterOldWrites
