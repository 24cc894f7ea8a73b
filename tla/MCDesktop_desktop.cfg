SPECIFICATION Spec
CONSTANTS
    MaxCommands = 3
    Attempts = 2
    MaxTroubles = 3
    d1 = d1
    d2 = d2
    Devices <- TwoDevices
    MaxScans = 2
INVARIANTS
    ControllerTypeOK
    OneClient
    LatestIntentWins
    DisconnectSticks
    RecoveryBounded
    ScanTypeOK
    FinishedScanIsShown
    QuietAtRest
PROPERTIES
    NoAttemptAfterDisconnect
    JobsEnd
    ShutdownEnds
    ScanEnds
