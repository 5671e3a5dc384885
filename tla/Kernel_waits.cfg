SPECIFICATION Spec
CONSTANTS
    NumPriorities = 3
    NumCores = 2
    Threads = {"t1", "t2"}
    Mutexes = {"m1"}
    Semaphores = {"s1"}
    Events = {"e1"}
    Timers = {"k1"}
    Addresses = {}
    Sessions = {}
    Ports = {}
    MaxSessions = 1
    Servers = {}
    CoreOf <- SpreadCores
    ProcOf <- OneProcess
    ResetType <- MixedReset
    MaxCount = 1
    InitCount = 0
    NoThread = "none"
    NoProcess = "none"
    Calls = {"WaitSynchronization1", "WaitSynchronizationN", "ReleaseMutex", "ReleaseSemaphore", "SignalEvent", "Clear", "SetTimer", "CancelTimer", "ExitThread"}
    Prios = {}
    Targets = {"m1", "e1", "k1", "t1"}
    WaitLists <- MixedLists
    Timeouts = {"zero", "finite"}
    ReleaseCounts <- TakeOrGive
    ArbValues = {}
    MainThreads = {"t1", "t2"}
    MainPrio <- SamePrio
    MaxLock = 1
INVARIANTS
    WaitListsConsistent
    NoLostWakeup
    OneTimerEvent
    AssertionsHold
