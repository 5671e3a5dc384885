SPECIFICATION Spec
CONSTANTS
    NumPriorities = 3
    NumCores = 2
    Threads = {"t1", "t2"}
    Mutexes = {}
    Semaphores = {}
    Events = {"e1"}
    Timers = {}
    Addresses = {}
    Sessions = {}
    Ports = {}
    MaxSessions = 1
    Servers = {}
    CoreOf <- SpreadCores
    ProcOf <- OneProcess
    ResetType <- OneShotAll
    MaxCount = 1
    InitCount = 0
    NoThread = "none"
    NoProcess = "none"
    Calls = {"WaitSynchronization1", "SignalEvent"}
    Prios = {}
    Targets = {"e1"}
    WaitLists = {}
    Timeouts = {"forever"}
    ReleaseCounts = {}
    ArbValues = {}
    MainThreads = {"t1", "t2"}
    MainPrio <- SamePrio
    MaxLock = 1
INVARIANTS
    WaitResultDelivered
