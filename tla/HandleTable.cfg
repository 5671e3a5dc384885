SPECIFICATION Spec
CONSTANTS
    MAX_COUNT = 3
    MaxSlot = 3
    MaxGeneration = 3
    Object = {"thread", "process"}
    NoObject = "none"
    ThreadObject = "thread"
    ProcessObject = "process"
    MaxCreates = 5
INVARIANTS
    TypeOK
    FreeListExact
PROPERTIES
    NoEarlyReuse
    ImplementsHandleMap
