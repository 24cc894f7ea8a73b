SPECIFICATION FairSpec
CONSTANTS
    a = a
    b = b
    c = c
    Tasks <- MCTasks
    Priorities <- MCPriorities
    MaxSequence = 4
INVARIANTS
    TypeOK
    SingleOwner
    NeverReleasedWithoutOwner
    NotWedged
PROPERTIES
    GrantsForemost
    ImplementsMutex
    WaiterServed
