SPECIFICATION Spec
CONSTANTS
    NumPriorities = 3
    NumCores = 1
    Threads = {"t1", "t2", "t3"}
    Mutexes = {"m1", "m2"}
    Semaphores = {}
    Events = {}
    Timers = {}
    Addresses = {}
    Sessions = {}
    Ports = {}
    MaxSessions = 1
    Servers = {}
    CoreOf <- OneCore
    ProcOf <- OneProcess
    ResetType <- OneShotAll
    MaxCount = 1
    InitCount = 0
    NoThread = "none"
    NoProcess = "none"
    Calls = {"WaitSynchronization1", "ReleaseMutex", "ExitThread", "SetThreadPriority", "SleepThread"}
    Prios = {0}
    Targets = {"m1", "m2"}
    WaitLists = {}
    Timeouts = {"finite"}
    ReleaseCounts = {}
    ArbValues = {}
    MainThreads = {"t1", "t2", "t3"}
    MainPrio <- Descending
    MaxLock = 1
INVARIANTS
    TypeOK
    MutexOwnership
    InheritsPriority
    WakeupEventsMatchWaits
