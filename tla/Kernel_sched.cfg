SPECIFICATION Spec
CONSTANTS
    NumPriorities = 3
    NumCores = 2
    Threads = {"t1", "t2", "t3"}
    Mutexes = {}
    Semaphores = {}
    Events = {}
    Timers = {}
    Addresses = {}
    Sessions = {}
    Ports = {}
    MaxSessions = 1
    Servers = {}
    CoreOf <- T3OnCore1
    ProcOf <- TwoProcesses
    ResetType <- OneShotAll
    MaxCount = 1
    InitCount = 0
    NoThread = "none"
    NoProcess = "none"
    Calls = {"WaitSynchronization1", "CreateThread", "ExitThread", "SetThreadPriority", "SleepThread", "ControlProcess", "ExitProcess"}
    Prios = {1}
    Targets = {"t1", "t2"}
    WaitLists = {}
    Timeouts = {"zero", "finite"}
    ReleaseCounts = {}
    ArbValues = {}
    MainThreads = {"t1", "t3"}
    MainPrio <- Descending
    MaxLock = 1
INVARIANTS
    ReadyQueuesConsistent
    RunningThreads
    RunningCoreIsCurrentCPU
    CurrentProcessIsCallers
PROPERTIES
    RescheduleRunsBest
