---------------------------- MODULE WaitObjects ----------------------------
(***************************************************************************)
(* The kernel objects that threads wait on (Mutex, Semaphore, Event, Timer,*)
(* ServerSession, ServerPort and Thread itself), the AddressArbiter, and   *)
(* what the kernel does to the waiting threads.                            *)
(*                                                                         *)
(* The kernel's handlers call each other many levels deep (Release wakes a *)
(* waiter, whose Acquire updates its priority, which moves it in a ready   *)
(* queue ...), so each of them is an operator from the kernel state to the *)
(* kernel state.  A kernel state is a record k:                            *)
(*   k.th[t]   the Thread t                                                *)
(*   k.wl[o]   o's waiting_threads                                         *)
(*   k.mx[m]   a Mutex: lock_count, holding_thread, priority               *)
(*   k.sem[s]  a Semaphore's available_count                               *)
(*   k.sig     the Events and Timers that are signaled                     *)
(*   k.rq[c]   the ready_queue of core c's ThreadManager                   *)
(*   k.wake[t] the number of scheduled ThreadWakeup events of t            *)
(*   k.tev     the scheduled TimerCallback events, <<timer, core's queue>> *)
(*   k.itv     the Timers with interval_delay # 0                          *)
(*   k.arb     the AddressArbiter's waiting_threads                        *)
(*   k.mem[a]  the word at address a                                       *)
(*   k.ses[s]  a Session with its ServerSession: whether it was created    *)
(*             yet, whether the client endpoint and the server's handle    *)
(*             are open, pending_requesting_threads, currently_handling    *)
(*   k.port[p] a port: pending_sessions and active_sessions                *)
(*   k.resched System::reschedule_pending                                  *)
(*   k.halt    the running core was told to stop executing                 *)
(*   k.failed  the ASSERTs of the code that failed                         *)
(* (Scheduler.tla adds the cores.)                                         *)
(***************************************************************************)
EXTENDS ThreadQueueList, FiniteSets, FiniteSetsExt

CONSTANTS Threads, Mutexes, Semaphores, Events, Timers, Addresses,
          Sessions, Ports,
          CoreOf,        \* the core_id every thread is created with
          MaxCount,      \* a semaphore's max_count
          ResetType,     \* of every event and timer: "OneShot", "Sticky", "Pulse"
          NoThread       \* nullptr

WaitObject == UNION {Threads, Mutexes, Semaphores, Events, Timers, Sessions, Ports}

ThreadPrioLowest == NumPriorities - 1

\* Statuses of a thread that sits in the waiting_threads of wait objects.
SynchStatus == {"WaitSynchAny", "WaitSynchAll", "WaitHleEvent"}
WaitStatus == SynchStatus \cup {"WaitArb", "WaitSleep", "WaitIPC"}

\* What the registers r0 and r1 hold after a wait: the result, and the index of
\* the object in the caller's list (-1: no index).
NoResult == <<"none", -1>>
ResultTimeout == <<"timeout", -1>>
ResultSuccess(i) == <<"success", i>>
ResultClosed(i) == <<"closed", i>>       \* ERR_SESSION_CLOSED_BY_REMOTE

\* ASSERT_MSG(cond, name)
Assert_(k, cond, name) == IF cond THEN k ELSE [k EXCEPT !.failed = @ \cup {name}]

PrepareReschedule(k) == [k EXCEPT !.resched = TRUE, !.halt = TRUE]

-----------------------------------------------------------------------------
(* Thread priorities.                                                      *)

\* Faulty variant: the new level is linked only if the thread is in the queue.
BoostPriorityUnlinked(k, t, p) ==
    LET c == CoreOf[t]
        q == IF k.th[t].status = "Ready"
             THEN move(k.rq[c], t, k.th[t].current, p) ELSE k.rq[c]
    IN [k EXCEPT !.rq[c] = q, !.th[t].current = p]

BoostPriority(k, t, p) ==
    LET c == CoreOf[t]
        q == IF k.th[t].status = "Ready"
             THEN move(k.rq[c], t, k.th[t].current, p)
             ELSE prepare(k.rq[c], p)
    IN [k EXCEPT !.rq[c] = q, !.th[t].current = p]

SetPriority(k, t, p) == [BoostPriority(k, t, p) EXCEPT !.th[t].nominal = p]

ThreadUpdatePriority(k, t) ==
    BoostPriority(k, t,
        Min({k.th[t].nominal} \cup {k.mx[m].prio : m \in k.th[t].held}))

BestWaiter(k, m) ==
    Min({ThreadPrioLowest} \cup {k.th[u].current : u \in ToSet(k.wl[m])})

\* Faulty variant: a mutex' priority is raised but never lowered.
MutexRaisePriority(k, m) ==
    LET best == BestWaiter(k, m)
    IN IF k.mx[m].holder = NoThread \/ best >= k.mx[m].prio
       THEN k
       ELSE ThreadUpdatePriority([k EXCEPT !.mx[m].prio = best], k.mx[m].holder)

MutexUpdatePriority(k, m) ==
    LET best == BestWaiter(k, m)
    IN IF k.mx[m].holder = NoThread \/ best = k.mx[m].prio
       THEN k
       ELSE ThreadUpdatePriority([k EXCEPT !.mx[m].prio = best], k.mx[m].holder)

-----------------------------------------------------------------------------
(* ShouldWait and Acquire, dispatched on the object's class.  Event and     *)
(* Timer do the same.                                                      *)

MutexShouldWait(k, m, t) == k.mx[m].lock > 0 /\ k.mx[m].holder # t
SemaphoreShouldWait(k, s) == k.sem[s] <= 0
SignalShouldWait(k, o) == o \notin k.sig
ThreadShouldWait(k, u) == k.th[u].status # "Dead"
PortShouldWait(k, p) == k.port[p].pending = <<>>

\* Faulty variant: a session may be acquired while it handles a request.
SessionShouldWaitBusy(k, s) == k.ses[s].client /\ k.ses[s].pending = <<>>

SessionShouldWait(k, s) ==
    k.ses[s].client /\ (k.ses[s].pending = <<>> \/ k.ses[s].handling # NoThread)

ShouldWait(k, o, t) ==
    \/ o \in Mutexes /\ MutexShouldWait(k, o, t)
    \/ o \in Semaphores /\ SemaphoreShouldWait(k, o)
    \/ o \in Events \cup Timers /\ SignalShouldWait(k, o)
    \/ o \in Threads /\ ThreadShouldWait(k, o)
    \/ o \in Ports /\ PortShouldWait(k, o)
    \/ o \in Sessions /\ SessionShouldWait(k, o)

AcquireMutex(k, m, t) ==
    LET first == [k EXCEPT !.mx[m].prio = k.th[t].current,
                           !.mx[m].holder = t,
                           !.th[t].held = @ \cup {m}]
        kk == IF k.mx[m].lock = 0
              THEN PrepareReschedule(ThreadUpdatePriority(first, t))
              ELSE k
    IN [kk EXCEPT !.mx[m].lock = @ + 1]

AcquireSemaphore(k, s) ==
    IF SemaphoreShouldWait(k, s) THEN k ELSE [k EXCEPT !.sem[s] = @ - 1]

AcquireSignal(k, o) ==
    IF ResetType[o] = "OneShot" THEN [k EXCEPT !.sig = @ \ {o}] ELSE k

\* The last request is handled first.  A session without a client has none.
AcquireSession(k, s) ==
    IF ~k.ses[s].client THEN k
    ELSE [k EXCEPT !.ses[s].handling = Last(k.ses[s].pending),
                   !.ses[s].pending = Front(@)]

AcquireObject(k, o, t) ==
    CASE o \in Mutexes -> AcquireMutex(k, o, t)
      [] o \in Semaphores -> AcquireSemaphore(k, o)
      [] o \in Events \cup Timers -> AcquireSignal(k, o)
      [] o \in Sessions -> AcquireSession(k, o)
      [] OTHER -> k

\* An ASSERT that fails ends the program: nothing more is done.
Acquire(k, o, t) ==
    IF o \in Semaphores \/ ~ShouldWait(k, o, t) THEN AcquireObject(k, o, t)
    ELSE Assert_(k, FALSE, "ObjectUnavailable")

AcquireAll(k, objs, t) == ForEach(LAMBDA kk, o : Acquire(kk, o, t), k, objs)

-----------------------------------------------------------------------------
(* The waiting lists.                                                      *)

AddWaitingThread(k, o, t) ==
    LET kk == IF t \in ToSet(k.wl[o]) THEN k ELSE [k EXCEPT !.wl[o] = Append(@, t)]
    IN IF o \in Mutexes
       THEN MutexUpdatePriority([kk EXCEPT !.th[t].pending = @ \cup {o}], o)
       ELSE kk

RemoveWaitingThread(k, o, t) ==
    LET kk == [k EXCEPT !.wl[o] = RemoveFirst(@, t)]
    IN IF o \in Mutexes
       THEN MutexUpdatePriority([kk EXCEPT !.th[t].pending = @ \ {o}], o)
       ELSE kk

AddToAll(k, objs, t) == ForEach(LAMBDA kk, o : AddWaitingThread(kk, o, t), k, objs)

\* Faulty variant: the objects keep the thread in their lists.
ForgetWaitObjects(k, t) == [k EXCEPT !.th[t].waitObjs = <<>>]

\* `for (object : thread->wait_objects) RemoveWaitingThread; wait_objects.clear()'
LeaveWaitObjects(k, t) ==
    LET kk == ForEach(LAMBDA kx, o : RemoveWaitingThread(kx, o, t), k, k.th[t].waitObjs)
    IN [kk EXCEPT !.th[t].waitObjs = <<>>]

ResumeFromWait(k, t) ==
    LET s == k.th[t].status
    IN IF k.th[t].waitObjs # <<>>
       THEN Assert_(k, FALSE, "WakingUpWhileWaitingForObjects")
       ELSE
       CASE s = "Ready" -> Assert_(k, k.th[t].cb = "none", "ReadyThreadHasCallback")
         [] s = "Running" -> Assert_(k, FALSE, "ThreadHasAlreadyResumed")
         [] s = "Dead" -> Assert_(k, FALSE, "DeadThreadResumed")
         [] OTHER -> PrepareReschedule(
                [k EXCEPT !.th[t].cb = "none",
                          !.th[t].status = "Ready",
                          !.rq[CoreOf[t]] = push_back(@, k.th[t].current, t)])

\* The last position of o in the list the thread passed, counted from 0.
GetWaitObjectIndex(k, t, o) ==
    Max({i \in DOMAIN k.th[t].waitObjs : k.th[t].waitObjs[i] = o}) - 1

\* ReceiveIPCRequest finds the client gone.
IsClosed(k, o) == o \in Sessions /\ ~k.ses[o].client

\* thread->wakeup_callback->WakeUp(reason, thread, object): the result goes into
\* the saved context of t.  `owed' records it for the properties.
WakeUp(k, t, reason, o) ==
    LET cb == k.th[t].cb
        result == IF reason = "Timeout" THEN ResultTimeout
                  ELSE IF cb \notin {"syncOutput", "ipc"} THEN ResultSuccess(-1)
                  ELSE IF cb = "ipc" /\ IsClosed(k, o)
                  THEN ResultClosed(GetWaitObjectIndex(k, t, o))
                  ELSE ResultSuccess(GetWaitObjectIndex(k, t, o))
    IN CASE cb = "none" -> k
         [] cb = "arbiter" ->
                [Assert_(k, reason = "Timeout", "ArbiterCallback") EXCEPT
                    !.arb = Among(@, ToSet(@) \ {t})]
         [] OTHER -> [Assert_(k, cb = "ipc" => reason = "Signal", "IpcCallback") EXCEPT
                        !.th[t].ctx = result, !.th[t].owed = result]

-----------------------------------------------------------------------------
(* Waking the waiters of an object.                                        *)

\* Faulty variant: a WaitSynchAll thread wakes with its first object.
CanWakeAny(k, o, t) == ~ShouldWait(k, o, t)

CanWake(k, o, t) ==
    /\ ~ShouldWait(k, o, t)
    /\ k.th[t].status = "WaitSynchAll" =>
            \A x \in ToSet(k.th[t].waitObjs) : ~ShouldWait(k, x, t)

\* min_element: the first of the threads with the best priority.
FirstOfBest(k, threads) ==
    threads[CHOOSE i \in DOMAIN threads : \A j \in DOMAIN threads \ {i} :
                LET p == k.th[threads[i]].current
                    r == k.th[threads[j]].current
                IN p < r \/ (p = r /\ i < j)]

GetHighestPriorityReadyThread(k, o) ==
    LET ready == Among(k.wl[o], {t \in ToSet(k.wl[o]) : CanWake(k, o, t)})
    IN IF ready = <<>> THEN NoThread ELSE FirstOfBest(k, ready)

\* The objects t gets when o wakes it.
Granted(k, o, t) == IF k.th[t].status = "WaitSynchAll" THEN k.th[t].waitObjs ELSE <<o>>

\* The body of the while loop, for the thread that was found.
WakeThread(k, o, t) ==
    IF t = NoThread THEN k
    ELSE ResumeFromWait(
            LeaveWaitObjects(
               WakeUp(AcquireAll(k, Granted(k, o, t), t), t, "Signal", o), t), t)

WakeOne(k, o) ==
    WakeThread(
        Assert_(k, \A t \in ToSet(k.wl[o]) : k.th[t].status \in SynchStatus,
                "InconsistentThreadStatuses"),
        o, GetHighestPriorityReadyThread(k, o))

\* The while loop; every iteration takes a thread off o's list.
WakeupAllWaitingThreads(k, o) ==
    LET woken[n \in 0 .. Cardinality(Threads)] ==
            IF n = 0 THEN k ELSE WakeOne(woken[n - 1], o)
        pulse == o \in Events \cup Timers /\ ResetType[o] = "Pulse"
    IN [woken[Cardinality(Threads)] EXCEPT !.sig = IF pulse THEN @ \ {o} ELSE @]

=============================================================================
