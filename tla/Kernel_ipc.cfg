SPECIFICATION Spec
CONSTANTS
    NumPriorities = 3
    NumCores = 2
    Threads = {"t1", "t2", "t3"}
    Mutexes = {}
    Semaphores = {}
    Events = {}
    Timers = {}
    Addresses = {}
    Sessions = {"s1", "s2"}
    Ports = {"p1"}
    MaxSessions = 2
    Servers = {"t3"}
    CoreOf <- T3OnCore1
    ProcOf <- OneProcess
    ResetType <- OneShotAll
    MaxCount = 1
    InitCount = 0
    NoThread = "none"
    NoProcess = "none"
    Calls = {"ConnectToPort", "AcceptSession", "SendSyncRequest", "SendHleRequest", "ReplyAndReceive", "CloseHandle", "SleepThread"}
    Prios = {}
    Targets = {}
    WaitLists <- ServedLists
    Timeouts = {"zero"}
    ReleaseCounts = {}
    ArbValues = {}
    MainThreads = {"t1", "t2", "t3"}
    MainPrio <- SamePrio
    MaxLock = 1
INVARIANTS
    RequestsTracked
    SessionsCounted
    NoLostWakeup
