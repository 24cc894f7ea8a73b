SPECIFICATION Spec
CONSTANTS
    h1 = h1
    h2 = h2
    s1 = s1
    s2 = s2
    MaxBytes = 4
    MaxBackups = 2
    RecordSizes = {2, 5}
    MaxRecords = 4
    MaxStarts = 2
    Holders <- TwoHolders
    Secrets <- TwoSecrets
    Alphabet = {1, 2, 3, 255}
    MaxFrame = 4
    MaxChunk = 4
    MaxStream = 7
    MaxClients = 3
    Wire <- NearestFour
    LargestWire = 16
    Numbers <- SmallNumbers
    Models <- SmallModels
    Characteristics <- SmallCharacteristics
    MaxListed = 4
    WnrFallback = 2
    WnrMaximum = 4
    PacketSizes = {1, 2, 3, 6}
INVARIANTS
    OwnLine
    OnlyOldestLost
    FilesBounded
    RedactsWhatIsHeld
    StreamDecoded
    NoHiddenLink
    LimitsFailClosed
    TopologyFailClosed
CHECK_DEADLOCK FALSE
