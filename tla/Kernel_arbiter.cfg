SPECIFICATION FairSpec
CONSTANTS
    NumPriorities = 3
    NumCores = 1
    Threads = {"t1", "t2", "t3"}
    Mutexes = {"m1"}
    Semaphores = {}
    Events = {}
    Timers = {}
    Addresses = {"a1"}
    Sessions = {}
    Ports = {}
    MaxSessions = 1
    Servers = {}
    CoreOf <- OneCore
    ProcOf <- OneProcess
    ResetType <- OneShotAll
    MaxCount = 1
    InitCount = 0
    NoThread = "none"
    NoProcess = "none"
    Calls = {"ArbitrateAddress", "WaitSynchronization1", "ReleaseMutex", "ExitThread"}
    Prios = {}
    Targets = {"m1"}
    WaitLists = {}
    Timeouts = {"finite"}
    ReleaseCounts = {}
    ArbValues <- TakeOrGive
    MainThreads = {"t1", "t2", "t3"}
    MainPrio <- Descending
    MaxLock = 2
INVARIANTS
    WaitListsConsistent
    AssertionsHold
PROPERTIES
    TimedWaitReturns
