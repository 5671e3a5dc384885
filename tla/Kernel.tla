------------------------------- MODULE Kernel -------------------------------
(***************************************************************************)
(* The emulated kernel under System::RunLoop: every iteration of the loop  *)
(* lets each core's timer fire its events, reschedules the cores, and then *)
(* runs them one after the other, on one host thread.  While it runs, the  *)
(* current thread of a core makes supervisor calls; a call that calls      *)
(* PrepareReschedule() makes its core stop executing.                      *)
(*                                                                         *)
(* Guest programs are unconstrained: the current thread may make any call  *)
(* with any arguments the constants offer.  Handles are resolved by        *)
(* HandleTable.tla; here a call names its object directly, and the calls   *)
(* that fail on a bad handle, which change nothing, are left out.          *)
(***************************************************************************)
EXTENDS Ipc

CONSTANTS Calls,         \* the supervisor calls the guest programs make
          Prios,         \* the priorities they ask for
          Targets,       \* the objects they pass to WaitSynchronization1
          WaitLists,     \* the object lists they pass to WaitSynchronizationN
          Timeouts,      \* the timeouts: 0 ns, a finite time, -1 ns
          ReleaseCounts, \* the counts they pass to ReleaseSemaphore
          ArbValues,     \* the values they pass to ArbitrateAddress, and store
          MainThreads,   \* the processes' main threads
          MainPrio,      \* their priorities
          InitCount,     \* a semaphore's initial_count
          Servers,       \* the threads that have the handles of the servers' ends
          MaxLock        \* bound on a mutex' lock_count

ASSUME KernelAssumption ==
    /\ Prios \subseteq Priority
    /\ Targets \subseteq WaitObject
    /\ Timeouts \subseteq {"zero", "finite", "forever"}
    /\ MainThreads \subseteq Threads
    /\ MainPrio \in [MainThreads -> Priority]
    /\ CoreOf \in [Threads -> Cores]
    /\ InitCount \in 0 .. MaxCount
    /\ MaxLock \in Nat \ {0}
    /\ WaitLists \subseteq Seq(WaitObject)
    /\ ReleaseCounts \subseteq Int /\ ArbValues \subseteq Int /\ MaxCount \in Int
    /\ IsFiniteSet(Threads) /\ IsFiniteSet(Mutexes) /\ IsFiniteSet(Sessions)
    /\ DOMAIN ProcOf = Threads /\ \A t \in Threads : ProcOf[t] # NoProcess
    /\ NoThread \notin WaitObject /\ NoSession \notin Sessions /\ NoPort \notin Ports

\* An object is of one class.
ASSUME ClassesAssumption ==
    LET class == <<Threads, Mutexes, Semaphores, Events, Timers, Sessions, Ports>>
    IN \A i, j \in DOMAIN class : i # j => class[i] \cap class[j] = {}

VARIABLES k,      \* the kernel state
          loop    \* where RunLoop is: [phase, core, lag]

vars == <<k, loop>>

-----------------------------------------------------------------------------
(* Initial state: the loaders have created the processes and their main    *)
(* threads (Process::Run), and no core has been scheduled yet.             *)

NewThread(status, p) ==
    [status |-> status, nominal |-> p, current |-> p, canSchedule |-> TRUE,
     held |-> {}, pending |-> {}, waitObjs |-> <<>>, addr |-> "none",
     cb |-> "none", req |-> NoSession, ctx |-> NoResult, owed |-> NoResult]

\* KernelSystem::CreateThread on a fresh thread u.
CreateThread(kk, u, p) ==
    [kk EXCEPT !.th[u] = NewThread("Ready", p),
               !.rq[CoreOf[u]] = push_back(prepare(@, p), p, u)]

BootKernel ==
    [th |-> [t \in Threads |-> NewThread("NotCreated", ThreadPrioLowest)],
     wl |-> [o \in WaitObject |-> <<>>],
     mx |-> [m \in Mutexes |-> [lock |-> 0, holder |-> NoThread, prio |-> ThreadPrioLowest]],
     sem |-> [s \in Semaphores |-> InitCount],
     sig |-> {},
     rq |-> [c \in Cores |-> EmptyQueueList],
     wake |-> [t \in Threads |-> 0],
     tev |-> {}, itv |-> {},
     ses |-> [s \in Sessions |-> ClosedSession], port |-> [p \in Ports |-> NewPort],
     arb |-> <<>>, mem |-> [a \in Addresses |-> 0],
     resched |-> FALSE, halt |-> FALSE, failed |-> {},
     cur |-> [c \in Cores |-> NoThread],
     reg |-> [c \in Cores |-> NoResult],
     cpu |-> 0, running |-> 0, proc |-> NoProcess, stored |-> [c \in Cores |-> NoProcess],
     exited |-> {}]

\* A process' main thread; the process that is run last is the current one.
CreateMain(kk, t) == CreateThread(kk, t, MainPrio[t])

Init ==
    /\ \E order \in SetToSeqs(MainThreads) :
          /\ order # <<>>
          /\ k = [ForEach(CreateMain, BootKernel, order)
                    EXCEPT !.proc = ProcOf[order[Len(order)]]]
    /\ loop = [phase |-> "top", core |-> 0, lag |-> {}]

-----------------------------------------------------------------------------
(* RunLoop.  Ticks are abstracted: which cores lag behind the global time  *)
(* when an iteration starts, when an event is due and when a slice ends    *)
(* are free choices.                                                       *)

\* Faulty variant: the kernel is not told which core runs.
EnterUntold(kk, phase, c) ==
    IF phase \in {"lag", "advance"} THEN SetRunningCPU(kk, c)
    ELSE [kk EXCEPT !.running = c]

\* Entering a phase for core c.  The catch-up branch ("solo") makes c the
\* kernel's running CPU only if it is not System's running_core already.
Enter(kk, phase, c) ==
    CASE phase \in {"lag", "advance"} -> SetRunningCPU(kk, c)
      [] phase = "run" \/ (phase = "solo" /\ kk.running # c) ->
            SetRunningCPU([kk EXCEPT !.running = c], c)
      [] OTHER -> kk

GoTo(kk, phase, c, lag) ==
    /\ k' = Enter(kk, phase, c)
    /\ loop' = [phase |-> phase, core |-> c, lag |-> lag]

LoopTop(lag) ==
    /\ loop.phase = "top"
    /\ IF lag = {} THEN GoTo(k, "advance", 0, {}) ELSE GoTo(k, "lag", Min(lag), lag)

\* Timer::Advance pops a due event of the core's queue and calls its callback.
FireThreadWakeup(t) ==
    /\ loop.phase \in {"lag", "advance"} /\ loop.core = CoreOf[t]
    /\ k.wake[t] > 0
    /\ k' = Reap([ThreadWakeupCallback(k, t) EXCEPT !.halt = FALSE])
    /\ UNCHANGED loop

FireTimer(o) ==
    /\ loop.phase \in {"lag", "advance"}
    /\ <<o, loop.core>> \in k.tev
    /\ k' = [SignalTimer([k EXCEPT !.tev = @ \ {<<o, loop.core>>}], o, loop.core)
                EXCEPT !.halt = FALSE]
    /\ UNCHANGED loop

\* No event is due any more: the core is rescheduled.
LagDone ==
    LET later == {d \in loop.lag : d > loop.core}
    IN /\ loop.phase = "lag"
       /\ \E to \in IF later # {} THEN {<<"lag", Min(later), loop.lag>>}
                    ELSE {<<"advance", 0, {}>>}                          \* max_delay <= min_delay
                         \cup {<<"solo", d, {}>> : d \in loop.lag} :   \* max_delay > min_delay
             GoTo(Reschedule(k, loop.core), to[1], to[2], to[3])

AdvanceDone ==
    LET c == loop.core + 1
    IN /\ loop.phase = "advance"
       /\ GoTo(Reschedule(k, loop.core), IF c \in Cores THEN "advance" ELSE "run",
               IF c \in Cores THEN c ELSE 0, {})

\* The core that was running is done; the next one is set running.
LeaveCore(kk) ==
    IF loop.phase = "run" /\ loop.core + 1 \in Cores
    THEN GoTo(kk, "run", loop.core + 1, {})
    ELSE GoTo(kk, "end", 0, {})

Idle ==
    /\ loop.phase \in {"run", "solo"} /\ k.cur[k.cpu] = NoThread
    /\ LeaveCore([k EXCEPT !.resched = TRUE])

EndSlice ==
    /\ loop.phase \in {"run", "solo"} /\ k.cur[k.cpu] # NoThread
    /\ LeaveCore(k)

\* System::Reschedule
SystemReschedule ==
    LET kk == ForEach(Reschedule, [k EXCEPT !.resched = FALSE], [i \in 1 .. NumCores |-> i - 1])
    IN /\ loop.phase = "end"
       /\ GoTo(IF k.resched THEN kk ELSE k, "top", 0, {})

-----------------------------------------------------------------------------
(* Supervisor calls of t, the current thread of the kernel's current CPU.  *)
(* The registers are those of the core that executes, loop.core.           *)

Call(name, t) ==
    /\ name \in Calls
    /\ loop.phase \in {"run", "solo"} /\ k.cur[k.cpu] = t

\* The registers no longer hold the result of t's last wait.
Called(t) == [k EXCEPT !.reg[loop.core] = NoResult, !.th[t].owed = NoResult]

\* The call returns to t, unless it made the core stop.
Return(kk) ==
    IF kk.halt THEN LeaveCore(Reap([kk EXCEPT !.halt = FALSE]))
    ELSE k' = Reap(kk) /\ UNCHANGED loop

\* t has been made to wait: its registers hold the default result until then.
Suspend(kk, t, status, objs, timeout, cb) ==
    Return(PrepareReschedule(
        [WakeAfterDelay(kk, t, timeout) EXCEPT
            !.th[t].status = status, !.th[t].waitObjs = objs, !.th[t].cb = cb,
            !.reg[loop.core] = IF cb = "ipc" THEN ResultSuccess(-1) ELSE ResultTimeout]))

Exists(o) ==
    /\ o \in Threads => k.th[o].status # "NotCreated"
    /\ o \in Sessions => k.ses[o].server

\* Bound: a holder does not lock its mutex again beyond MaxLock.
LockBound(o, t) ==
    o \in Mutexes => ~(k.mx[o].holder = t /\ k.mx[o].lock >= MaxLock)

WaitSynchronization1(t, o, timeout) ==
    /\ Call("WaitSynchronization1", t)
    /\ Exists(o) /\ LockBound(o, t)
    /\ \/ /\ ~ShouldWait(k, o, t)
          /\ Return(Acquire(Called(t), o, t))
       \/ /\ ShouldWait(k, o, t) /\ timeout = "zero"
          /\ Return(Called(t))
       \/ /\ ShouldWait(k, o, t) /\ timeout # "zero"
          /\ Suspend(AddWaitingThread(Called(t), o, t), t,
                     "WaitSynchAny", <<o>>, timeout, "sync")

\* The status is set before the thread enters the waiting lists.
WaitSynchronizationN(t, objs, all, timeout) ==
    LET available == {i \in DOMAIN objs : ~ShouldWait(k, objs[i], t)}
        go == IF all THEN available = DOMAIN objs ELSE available # {}
        status == IF all THEN "WaitSynchAll" ELSE "WaitSynchAny"
    IN /\ Call("WaitSynchronizationN", t)
       /\ \A o \in ToSet(objs) : Exists(o) /\ LockBound(o, t)
       /\ \/ /\ go
             /\ Return(IF all THEN AcquireAll(Called(t), objs, t)
                       ELSE Acquire(Called(t), objs[Min(available)], t))
          \/ /\ ~go /\ timeout = "zero"
             /\ Return(Called(t))
          \/ /\ ~go /\ timeout # "zero"
             /\ Suspend(AddToAll([Called(t) EXCEPT !.th[t].status = status], objs, t), t,
                        status, objs, timeout, IF all THEN "sync" ELSE "syncOutput")

SvcReleaseMutex(t, m) ==
    /\ Call("ReleaseMutex", t)
    /\ Return(ReleaseMutex(Called(t), m, t))

SvcReleaseSemaphore(t, s, n) ==
    /\ Call("ReleaseSemaphore", t)
    /\ k.sem[s] + n >= -1               \* bound on negative counts
    /\ Return(ReleaseSemaphore(Called(t), s, n))

SvcSignalEvent(t, e) ==
    /\ Call("SignalEvent", t)
    /\ Return(SignalEvent(Called(t), e))

SvcClear(t, o) ==
    /\ Call("Clear", t)
    /\ Return(ClearSignal(Called(t), o))

SvcSetTimer(t, o, immediate, periodic) ==
    /\ Call("SetTimer", t)
    /\ Return(SetTimer(Called(t), o, immediate, periodic, k.cpu))

SvcCancelTimer(t, o) ==
    /\ Call("CancelTimer", t)
    /\ Return(CancelTimer(Called(t), o))

\* If the handle table is full the call fails, but the thread is there and ready.
SvcCreateThread(t, u, p, full) ==
    /\ Call("CreateThread", t)
    /\ k.th[u].status = "NotCreated" /\ ProcOf[u] = k.proc
    /\ Return(IF full THEN CreateThread(Called(t), u, p)
              ELSE PrepareReschedule(CreateThread(Called(t), u, p)))

SvcExitThread(t) ==
    /\ Call("ExitThread", t)
    /\ \E order \in SetToSeqs(k.th[t].held) :
          Return(PrepareReschedule(Stop(Called(t), t, order)))

SvcSetThreadPriority(t, u, p) ==
    /\ Call("SetThreadPriority", t)
    /\ Exists(u)
    /\ \E order \in SetToSeqs(k.th[u].pending) :
          Return(PrepareReschedule(
              ForEach(MutexUpdatePriority,
                       ThreadUpdatePriority(SetPriority(Called(t), u, p), u), order)))

\* Yielding (0 ns) does nothing when the core has no ready thread.
SvcSleepThread(t, timeout) ==
    /\ Call("SleepThread", t)
    /\ \/ /\ timeout = "zero" /\ ~HasFirst(k.rq[k.cpu])
          /\ Return(Called(t))
       \/ /\ timeout # "zero" \/ HasFirst(k.rq[k.cpu])
          /\ Return(PrepareReschedule(
                WakeAfterDelay([Called(t) EXCEPT !.th[t].status = "WaitSleep"], t, timeout)))

SvcArbitrateSignal(t, a, n) ==
    /\ Call("ArbitrateAddress", t)
    /\ Return(PrepareReschedule(ArbSignal(Called(t), a, n)))

SvcArbitrateWait(t, a, value, decrement, timeout) ==
    /\ Call("ArbitrateAddress", t)
    /\ decrement => k.mem[a] - 1 \in ArbValues      \* bound on the word
    /\ Return(PrepareReschedule(ArbWait(Called(t), t, a, value, decrement, timeout)))

\* Not a call: the guest program stores to the arbitrated word.
Store(t, a, v) ==
    /\ Call("ArbitrateAddress", t)
    /\ k' = [Called(t) EXCEPT !.mem[a] = v]
    /\ UNCHANGED loop

\* ControlProcess(SCHEDULE_THREADS_WITHOUT_TLS_MAGIC) on process p; S are its
\* threads whose TLS does not hold the magic word.
SvcScheduleThreads(t, S, allowed) ==
    /\ Call("ControlProcess", t)
    /\ t \notin S /\ S # {}
    /\ \A u \in S : k.th[u].status # "NotCreated"
    /\ \A u, v \in S : ProcOf[u] = ProcOf[v]
    /\ Return([Called(t) EXCEPT !.th = [u \in Threads |->
                  IF u \in S THEN [@[u] EXCEPT !.canSchedule = allowed] ELSE @[u]]])

\* The threads of the process on the calling core are stopped in the order they
\* were created in; each must be waiting when its turn comes.
StopProcessThread(kk, u) ==
    Stop(Assert_(kk, kk.th[u].status \in {"WaitSynchAny", "WaitSynchAll"},
                 "ThreadNotWaiting"),
         u, SetToSeq(kk.th[u].held))

SvcExitProcess(t) ==
    LET others == {u \in Threads \ {t} : /\ ProcOf[u] = k.proc /\ CoreOf[u] = k.cpu
                                         /\ k.th[u].status \notin {"NotCreated", "Dead"}}
        exit == [Assert_(Called(t), k.proc \notin k.exited, "ProcessHasAlreadyExited")
                    EXCEPT !.exited = @ \cup {k.proc}]
    IN /\ Call("ExitProcess", t)
       /\ \A u \in others : k.th[u].status \in {"WaitSynchAny", "WaitSynchAll"}  \* supported use
       /\ \E list \in SetToSeqs(others) :
             LET stopped == ForEach(StopProcessThread, exit, list)
             IN \E order \in SetToSeqs(stopped.th[t].held) :
                   Return(PrepareReschedule(Stop(stopped, t, order)))

-----------------------------------------------------------------------------
(* Interprocess communication.                                             *)

\* ConnectToPort and CreateSessionToPort
SvcConnectToPort(t, p) ==
    /\ Call("ConnectToPort", t) /\ t \notin Servers
    /\ Unused(k) # {}                   \* bound on the sessions
    /\ Return(Connect(Called(t), p, CHOOSE s \in Unused(k) : TRUE))

SvcAcceptSession(t, p) ==
    /\ Call("AcceptSession", t) /\ t \in Servers
    /\ Return(Accept(Called(t), p))

SvcSendSyncRequest(t, s) ==
    /\ Call("SendSyncRequest", t) /\ t \notin Servers
    /\ k.ses[s].client
    /\ Return(SendSyncRequest(PrepareReschedule(Called(t)), t, s))

SvcSendHleRequest(t) ==
    /\ Call("SendHleRequest", t)
    /\ Return(HandleHleRequest(PrepareReschedule(Called(t)), t))

\* A reply to nobody, or to a session whose client is gone, ends the call.
ReplyAndReceive(t, objs, reply) ==
    LET replied == IF reply = NoSession THEN Called(t) ELSE Reply(Called(t), reply)
        failed == /\ reply # NoSession
                  /\ k.ses[reply].handling = NoThread \/ ~k.ses[reply].client
        available == {i \in DOMAIN objs : ~ShouldWait(replied, objs[i], t)}
    IN /\ Call("ReplyAndReceive", t) /\ t \in Servers
       /\ \A o \in ToSet(objs) \cup {reply} : Exists(o)
       /\ \/ /\ failed \/ objs = <<>>
             /\ Return(replied)
          \/ /\ ~failed /\ available # {}
             /\ Return(Acquire(replied, objs[Min(available)], t))
          \/ /\ ~failed /\ objs # <<>> /\ available = {}
             /\ Suspend(AddToAll([replied EXCEPT !.th[t].status = "WaitSynchAny"], objs, t), t,
                        "WaitSynchAny", objs, "forever", "ipc")

\* CloseHandle of a client's or of a server's end of a session.
SvcCloseClient(t, s) ==
    /\ Call("CloseHandle", t) /\ t \notin Servers
    /\ k.ses[s].client
    /\ Return(CloseClient(Called(t), s))

SvcCloseServer(t, s) ==
    /\ Call("CloseHandle", t) /\ t \in Servers
    /\ k.ses[s].server
    /\ Return(CloseServer(Called(t), s))

-----------------------------------------------------------------------------
Svc(t) ==
    \/ \E o \in Targets, timeout \in Timeouts : WaitSynchronization1(t, o, timeout)
    \/ \E objs \in WaitLists, all \in BOOLEAN, timeout \in Timeouts :
          WaitSynchronizationN(t, objs, all, timeout)
    \/ \E m \in Mutexes : SvcReleaseMutex(t, m)
    \/ \E s \in Semaphores, n \in ReleaseCounts : SvcReleaseSemaphore(t, s, n)
    \/ \E e \in Events : SvcSignalEvent(t, e)
    \/ \E o \in Events \cup Timers : SvcClear(t, o)
    \/ \E o \in Timers, immediate, periodic \in BOOLEAN : SvcSetTimer(t, o, immediate, periodic)
    \/ \E o \in Timers : SvcCancelTimer(t, o)
    \/ \E u \in Threads, p \in Prios, full \in BOOLEAN : SvcCreateThread(t, u, p, full)
    \/ SvcExitThread(t)
    \/ \E u \in Threads, p \in Prios : SvcSetThreadPriority(t, u, p)
    \/ \E timeout \in Timeouts : SvcSleepThread(t, timeout)
    \/ \E a \in Addresses, n \in ArbValues : SvcArbitrateSignal(t, a, n)
    \/ \E a \in Addresses, v \in ArbValues, decrement \in BOOLEAN,
          timeout \in {"none"} \cup (Timeouts \ {"zero"}) :
          SvcArbitrateWait(t, a, v, decrement, timeout)
    \/ \E a \in Addresses, v \in ArbValues : Store(t, a, v)
    \/ \E S \in SUBSET Threads, allowed \in BOOLEAN : SvcScheduleThreads(t, S, allowed)
    \/ SvcExitProcess(t)
    \/ \E p \in Ports : SvcConnectToPort(t, p) \/ SvcAcceptSession(t, p)
    \/ \E s \in Sessions : SvcSendSyncRequest(t, s) \/ SvcCloseClient(t, s) \/ SvcCloseServer(t, s)
    \/ SvcSendHleRequest(t)
    \/ \E objs \in WaitLists \cup {<<>>}, reply \in Sessions \cup {NoSession} :
          ReplyAndReceive(t, objs, reply)

\* A step of RunLoop itself, as opposed to the events and the guest programs.
LoopStep ==
    \/ \E lag \in SUBSET Cores : lag # Cores /\ LoopTop(lag)
    \/ LagDone
    \/ AdvanceDone
    \/ Idle
    \/ EndSlice
    \/ SystemReschedule

Next ==
    \/ LoopStep
    \/ \E t \in Threads : FireThreadWakeup(t)
    \/ \E o \in Timers : FireTimer(o)
    \/ \E t \in Threads : Svc(t)

Spec == Init /\ [][Next]_vars

(***************************************************************************)
(* Fairness.  The host thread keeps calling RunLoop, and every call comes  *)
(* to its end: no event queue and no slice is endless.  The ticks of every *)
(* core increase with every slice, and a core that lags catches up, so an  *)
(* event that stays scheduled becomes due: it fires unless it is cancelled *)
(* before.  (Weak fairness of the loop's steps says the same, as one of    *)
(* them is always enabled; state predicates are what TLC can afford.)      *)
(***************************************************************************)
Fairness ==
    /\ []<>(loop.phase = "top") /\ []<>(loop.phase = "end")
    /\ \A t \in Threads : []<>(k.wake[t] = 0)

FairSpec == Spec /\ Fairness

-----------------------------------------------------------------------------
(* Properties.                                                             *)

Status == {"NotCreated", "Ready", "Running", "Dead"} \cup WaitStatus

\* A call's result in the registers; NoResult when they hold none.
Result == {NoResult, ResultTimeout} \cup ({"success", "closed"} \X Int)

Phases == {"top", "lag", "advance", "run", "solo", "end"}

MaybeThread == Threads \cup {NoThread}

Processes == {ProcOf[t] : t \in Threads} \cup {NoProcess}

ThreadsOf(c) == {t \in Threads : CoreOf[t] = c}

\* A queue list of threads of the set S.
QueueList(S) == [first : Int, next : [Priority -> Int], data : [Priority -> Seq(S)]]

ThreadRec ==
    [status : Status, nominal : Priority, current : Priority, canSchedule : BOOLEAN,
     held : SUBSET Mutexes, pending : SUBSET Mutexes, waitObjs : Seq(WaitObject),
     addr : Addresses \cup {"none"}, cb : {"none", "sync", "syncOutput", "arbiter", "ipc"},
     req : Sessions \cup {NoSession}, ctx : Result, owed : Result]

MutexRec == [lock : Nat, holder : MaybeThread, prio : Priority]

SessionRec ==
    [client : BOOLEAN, server : BOOLEAN, alive : BOOLEAN, port : Ports \cup {NoPort},
     pending : Seq(Threads), handling : MaybeThread]

PortRec == [pending : Seq(Sessions), active : Int]

ThMap == [Threads -> ThreadRec]
WlMap == [WaitObject -> Seq(Threads)]
MxMap == [Mutexes -> MutexRec]
RqMap == {f \in [Cores -> QueueList(Threads)] : \A c \in Cores : f[c] \in QueueList(ThreadsOf(c))}
SesMap == [Sessions -> SessionRec]
PortMap == [Ports -> PortRec]

\* The names of the ASSERTs.
Assertions ==
    {"ObjectUnavailable", "WakingUpWhileWaitingForObjects", "ReadyThreadHasCallback",
     "ThreadHasAlreadyResumed", "DeadThreadResumed", "ArbiterCallback", "IpcCallback",
     "InconsistentThreadStatuses", "InconsistentArbiterState", "NullptrDereferenced",
     "ThreadMustBeReady", "ActiveSessionsPositive", "ThreadNotWaiting", "ProcessHasAlreadyExited"}

KernelState ==
    [th : ThMap,
     wl : WlMap,
     mx : MxMap,
     sem : [Semaphores -> Int],
     sig : SUBSET (Events \cup Timers),
     rq : RqMap,
     wake : [Threads -> Nat],
     tev : SUBSET (Timers \X Cores),
     itv : SUBSET Timers,
     ses : SesMap,
     port : PortMap,
     arb : Seq(Threads),
     mem : [Addresses -> Int],
     resched : BOOLEAN,
     halt : BOOLEAN,
     failed : SUBSET Assertions,
     cur : [Cores -> MaybeThread],
     reg : [Cores -> Result],
     cpu : Cores,
     running : Cores,
     proc : Processes,
     stored : [Cores -> Processes],
     exited : SUBSET Processes]

\* The values the kernel's variables range over (thread.h, mutex.h, session.h,
\* client_port.h, server_port.h, kernel.h, thread_queue_list.h): a core's ready
\* queue holds only threads of that core, and its links lead only to levels that
\* prepare() has linked; a core's registers, a thread's context and what a thread
\* is owed are results of calls.
TypeOK ==
    /\ k \in KernelState
    /\ \A c \in Cores :
          LET q == k.rq[c]
          IN /\ q.first \in Linked(q) \cup {NullPtr}
             /\ \A p \in Linked(q) : q.next[p] \in Linked(q) \cup {NullPtr}
    /\ loop.phase \in Phases /\ loop.core \in Cores
    /\ loop.phase = "lag" => loop.lag \subseteq Cores

Waiting(t) == k.th[t].status \in SynchStatus

\* A ready queue holds exactly the ready threads of its core, each once, at its
\* current priority, and every level that holds one is linked: a thread that is
\* ready is never invisible to the scheduler (thread_queue_list.h, thread.cpp).
ReadyQueuesConsistent ==
    /\ \A c \in Cores, p \in Priority :
          LET d == k.rq[c].data[p]
          IN /\ \A i \in DOMAIN d : /\ CoreOf[d[i]] = c
                                    /\ k.th[d[i]].status = "Ready"
                                    /\ k.th[d[i]].current = p
             /\ IsInjective(d)
             /\ d # <<>> => \E i \in 0 .. NumPriorities : Path(k.rq[c])[i] = p
    /\ \A t \in Threads : k.th[t].status = "Ready" =>
          t \in ToSet(k.rq[CoreOf[t]].data[k.th[t].current])

\* A thread runs on at most one core, its own, and a core that executes
\* instructions executes a running thread, never one that waits or has exited.
RunningThreads ==
    /\ \A t \in Threads : k.th[t].status = "Running" => k.cur[CoreOf[t]] = t
    /\ loop.phase \in {"run", "solo"} /\ k.cur[loop.core] # NoThread =>
          k.th[k.cur[loop.core]].status = "Running"

\* waiting_threads and wait_objects are two views of one relation, only waiting
\* threads are in it, and pending_mutexes is its part about mutexes.
WaitListsConsistent ==
    \A t \in Threads :
        /\ \A o \in WaitObject :
              t \in ToSet(k.wl[o]) <=> o \in ToSet(k.th[t].waitObjs)
        /\ k.th[t].waitObjs # <<>> => Waiting(t)
        /\ k.th[t].pending = ToSet(k.th[t].waitObjs) \cap Mutexes
        /\ k.th[t].status = "WaitArb" <=> t \in ToSet(k.arb)

\* No lost wakeup: while a thread sleeps, at least one object it needs is
\* unavailable to it (all of them, for WaitSynchAny).
NoLostWakeup ==
    \A t \in Threads :
        /\ k.th[t].status = "WaitSynchAny" =>
              \A o \in ToSet(k.th[t].waitObjs) : ShouldWait(k, o, t)
        /\ k.th[t].status = "WaitSynchAll" =>
              \E o \in ToSet(k.th[t].waitObjs) : ShouldWait(k, o, t)

\* A mutex is locked iff it has a holder, the holder has it among its
\* held_mutexes, nobody else has, and the holder is alive.
MutexOwnership ==
    \A m \in Mutexes :
        /\ k.mx[m].lock > 0 <=> k.mx[m].holder # NoThread
        /\ \A t \in Threads : m \in k.th[t].held <=> k.mx[m].holder = t
        /\ k.mx[m].holder # NoThread =>
              k.th[k.mx[m].holder].status \notin {"NotCreated", "Dead"}

\* The wakeup event of a thread's last wait never outlives that wait into the
\* thread's next one: it is cancelled when the thread runs or exits, so there
\* is at most one, and ThreadWakeupCallback always finds its thread.
WakeupEventsMatchWaits ==
    \A t \in Threads :
        /\ k.wake[t] <= 1
        /\ k.wake[t] > 0 => k.th[t].status \in WaitStatus \cup {"Ready"}

\* A timer has at most one event scheduled, on one core's queue.
OneTimerEvent == \A e, f \in k.tev : e[1] = f[1] => e = f

\* A client that waits for the answer to a request is not forgotten: while both ends
\* of the session exist, the request is pending or being handled, and no thread is
\* kept for an answer it does not wait for (server_session.h).
RequestsTracked ==
    /\ \A t \in Threads :
          LET s == k.th[t].req
          IN s # NoSession /\ k.ses[s].client /\ k.ses[s].alive =>
                t \in ToSet(k.ses[s].pending) \cup {k.ses[s].handling}
    /\ \A s \in Sessions : \A t \in (ToSet(k.ses[s].pending) \cup {k.ses[s].handling}) \ {NoThread} :
          k.th[t].status = "WaitIPC" /\ k.th[t].req = s

\* active_sessions counts the ServerSessions of a port that exist, through whatever
\* order its sessions are connected, accepted, used and closed in, and is in bounds.
SessionsCounted ==
    \A p \in Ports :
        /\ k.port[p].active = Cardinality({s \in Sessions : k.ses[s].alive /\ k.ses[s].port = p})
        /\ k.port[p].active <= MaxSessions
        /\ \A s \in ToSet(k.port[p].pending) : k.ses[s].alive /\ ~k.ses[s].server

\* No ASSERT of the kernel fails and no null pointer is dereferenced.
AssertionsHold == k.failed = {}

\* Priority inheritance: a live thread runs at the best of its own priority and
\* the priorities of the mutexes it holds (Thread::UpdatePriority).
InheritsPriority ==
    \A t \in Threads : k.th[t].status \notin {"NotCreated", "Dead"} =>
        k.th[t].current = Min({k.th[t].nominal} \cup {k.mx[m].prio : m \in k.th[t].held})

\* The core that executes is the kernel's current CPU, so that a supervisor call
\* acts on the thread that made it.
RunningCoreIsCurrentCPU ==
    loop.phase \in {"run", "solo"} => k.cpu = loop.core

\* A supervisor call sees the handle table and the address space of the process
\* of the thread that makes it.
CurrentProcessIsCallers ==
    loop.phase \in {"run", "solo"} /\ k.cur[loop.core] # NoThread =>
        k.proc = ProcOf[k.cur[loop.core]]

\* svc.cpp: "The output of this SVC will be set to RESULT_SUCCESS if the thread
\* resumes due to a signal in its wait objects."
WaitResultDelivered ==
    \A c \in Cores :
        LET t == k.cur[c]
        IN t # NoThread /\ k.th[t].status = "Running" /\ k.th[t].owed # NoResult =>
              k.reg[c] = k.th[t].owed

-----------------------------------------------------------------------------
\* No schedulable ready thread of core c is better than c's current thread.
BestRuns(kk, c) ==
    \A u \in Threads :
        CoreOf[u] = c /\ kk.th[u].status = "Ready" /\ kk.th[u].canSchedule =>
            kk.cur[c] # NoThread /\ kk.th[kk.cur[c]].current <= kk.th[u].current

\* Whenever a core is rescheduled it ends up with its best thread.
RescheduleRunsBest ==
    [][/\ loop.phase \in {"lag", "advance"} /\ loop' # loop => BestRuns(k', loop.core)
       /\ loop.phase = "end" /\ k.resched => \A c \in Cores : BestRuns(k', c)]_vars

\* The thread with the best priority of all is not starved: when it goes to
\* sleep with a timeout, on whatever it waits, it runs again.
TimedWaitReturns ==
    \A t \in MainThreads : (\A u \in MainThreads \ {t} : MainPrio[t] < MainPrio[u]) =>
        ((k.th[t].status \in WaitStatus /\ k.wake[t] > 0) ~> k.th[t].status = "Running")

=============================================================================
