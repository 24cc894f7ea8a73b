SPECIFICATION Spec
CONSTANTS
    MaxCommands = 2
    Attempts = 2
    MaxTroubles = 1
    d1 = d1
    d2 = d2
    Devices <- TwoDevices
    MaxScans = 1
INVARIANT
    DisconnectOfferedInBackoff
