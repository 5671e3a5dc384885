--------------------------- MODULE KernelObjects ---------------------------
(***************************************************************************)
(* The operations of the synchronisation objects and of the threads that   *)
(* the supervisor calls are made of.  Each is an operator on the kernel    *)
(* state of WaitObjects.tla.                                               *)
(***************************************************************************)
EXTENDS WaitObjects

-----------------------------------------------------------------------------
(* Mutex                                                                   *)

\* Faulty variant: anyone may release, as often as it likes.
ReleaseMutexUnchecked(k, m, t) == [k EXCEPT !.mx[m].lock = @ - 1]

\* Faulty variant: the holder's priority is updated before the mutex leaves its
\* held_mutexes.
ReleaseMutexTooEarly(k, m, t) ==
    LET free == [ThreadUpdatePriority(k, t) EXCEPT
                    !.mx[m].lock = 0, !.mx[m].holder = NoThread, !.th[t].held = @ \ {m}]
    IN IF k.mx[m].holder # t THEN k ELSE WakeupAllWaitingThreads(free, m)

\* A thread that is not the holder gets an error and changes nothing.
ReleaseMutex(k, m, t) ==
    LET dec == [k EXCEPT !.mx[m].lock = @ - 1]
        free == [ThreadUpdatePriority([dec EXCEPT !.th[t].held = @ \ {m}], t)
                    EXCEPT !.mx[m].holder = NoThread]
    IN IF k.mx[m].holder # t \/ k.mx[m].lock <= 0 THEN k
       ELSE IF dec.mx[m].lock = 0
       THEN PrepareReschedule(WakeupAllWaitingThreads(free, m))
       ELSE dec

\* Faulty variant: a thread that exits keeps its mutexes.
KeepThreadMutexes(k, t, order) == k

\* held_mutexes is ordered by address, so the order is any order of the set.
ReleaseThreadMutexes(k, t, order) ==
    LET release(kk, m) == WakeupAllWaitingThreads(
            [kk EXCEPT !.mx[m].lock = 0, !.mx[m].holder = NoThread], m)
    IN [ForEach(release, k, order) EXCEPT !.th[t].held = {}]

-----------------------------------------------------------------------------
(* Semaphore, Event, Timer                                                 *)

ReleaseSemaphore(k, s, n) ==
    IF MaxCount - k.sem[s] < n THEN k
    ELSE WakeupAllWaitingThreads([k EXCEPT !.sem[s] = @ + n], s)

\* Faulty variant: the waiters are not woken.
SignalEventSilently(k, e) == [k EXCEPT !.sig = @ \cup {e}]

SignalEvent(k, e) == WakeupAllWaitingThreads([k EXCEPT !.sig = @ \cup {e}], e)

ClearSignal(k, o) == [k EXCEPT !.sig = @ \ {o}]

\* A periodic timer schedules its next event.
Rearm(k, o, c) == IF o \in k.itv THEN [k EXCEPT !.tev = @ \cup {<<o, c>>}] ELSE k

\* Faulty variant: the waiters are woken before the timer is signaled.
SignalTimerLate(k, o, c) ==
    Rearm([WakeupAllWaitingThreads(k, o) EXCEPT !.sig = @ \cup {o}], o, c)

\* Timer::Signal, run by core c's event queue or by Timer::Set on core c.
SignalTimer(k, o, c) ==
    Rearm(WakeupAllWaitingThreads([k EXCEPT !.sig = @ \cup {o}], o), o, c)

CancelTimer(k, o) == [k EXCEPT !.tev = {e \in @ : e[1] # o}]

\* Faulty variant: the event of an earlier Set stays scheduled.
SetTimerAgain(k, o, immediate, periodic, c) ==
    LET kk == [k EXCEPT !.itv = IF periodic THEN @ \cup {o} ELSE @ \ {o}]
    IN IF immediate THEN SignalTimer(kk, o, c)
       ELSE [kk EXCEPT !.tev = @ \cup {<<o, c>>}]

SetTimer(k, o, immediate, periodic, c) ==
    LET kk == [CancelTimer(k, o) EXCEPT !.itv = IF periodic THEN @ \cup {o} ELSE @ \ {o}]
    IN IF immediate THEN SignalTimer(kk, o, c)
       ELSE [kk EXCEPT !.tev = @ \cup {<<o, c>>}]

-----------------------------------------------------------------------------
(* Thread                                                                  *)

\* WakeAfterDelay: -1 nanoseconds ("forever") schedules nothing.
WakeAfterDelay(k, t, timeout) ==
    IF timeout = "forever" THEN k ELSE [k EXCEPT !.wake[t] = @ + 1]

\* Faulty variant: the callback of an arbiter wait is not called.
ThreadWakeupSkipsArbiter(k, t) ==
    LET kk == [k EXCEPT !.wake[t] = @ - 1]
    IN ResumeFromWait(
          IF k.th[t].status \in SynchStatus
          THEN LeaveWaitObjects(WakeUp(kk, t, "Timeout", NoThread), t)
          ELSE kk, t)

\* The ThreadWakeup event of t fires (it has been taken off the queue).
ThreadWakeupCallback(k, t) ==
    LET kk == [k EXCEPT !.wake[t] = @ - 1]
        s == k.th[t].status
    IN ResumeFromWait(
          IF s \in SynchStatus \cup {"WaitArb"}
          THEN LeaveWaitObjects(WakeUp(kk, t, "Timeout", NoThread), t)
          ELSE kk, t)

\* UnscheduleEvent(ThreadWakeupEventType, thread_id), and a faulty variant that
\* leaves the event in the queue.
KeepWakeup(k, t) == k
CancelWakeup(k, t) == [k EXCEPT !.wake[t] = 0]

Stop(k, t, order) ==
    LET c == CoreOf[t]
        k1 == [CancelWakeup(k, t) EXCEPT
                        !.rq[c] = IF k.th[t].status = "Ready"
                                  THEN remove(@, k.th[t].current, t) ELSE @,
                        !.th[t].status = "Dead"]
        k2 == LeaveWaitObjects(WakeupAllWaitingThreads(k1, t), t)
    IN ReleaseThreadMutexes(k2, t, order)

-----------------------------------------------------------------------------
(* AddressArbiter                                                          *)

ArbWaiting(k, a) == Among(k.arb, {u \in Threads : k.th[u].addr = a})
ArbOthers(k, a) == Among(k.arb, {u \in Threads : k.th[u].addr # a})

ArbAssert(k) ==
    Assert_(k, \A u \in ToSet(k.arb) : k.th[u].status = "WaitArb",
            "InconsistentArbiterState")

WaitArb(k, t, a) ==
    [k EXCEPT !.th[t].addr = a, !.th[t].status = "WaitArb", !.arb = Append(@, t)]

ResumeAllThreads(k, a) ==
    [ForEach(ResumeFromWait, ArbAssert(k), ArbWaiting(k, a)) EXCEPT !.arb = ArbOthers(k, a)]

\* Faulty variant: the thread that is resumed stays in the arbiter's list.
ResumeWithoutErase(k, a) ==
    LET m == ArbWaiting(k, a)
    IN IF m = <<>> THEN k ELSE ResumeFromWait(ArbAssert(k), m[1])

\* t is resumed; stable_partition leaves the other matches m behind the rest.
ResumeMatch(k, a, m, t) ==
    [ResumeFromWait(k, t) EXCEPT !.arb = ArbOthers(k, a) \o Among(m, ToSet(m) \ {t})]

ResumeHighestPriorityThread(k, a) ==
    LET m == ArbWaiting(k, a)
    IN IF m = <<>> THEN ArbAssert(k)
       ELSE ResumeMatch(ArbAssert(k), a, m, FirstOfBest(k, m))

\* ArbitrationType::Signal; a negative count resumes every waiter.
ArbSignal(k, a, n) ==
    IF n < 0 THEN ResumeAllThreads(k, a)
    ELSE ForEach(LAMBDA kk, i : ResumeHighestPriorityThread(kk, a), k, [i \in 1 .. n |-> i])

\* The four waiting types: with or without decrement, with or without timeout.
ArbWait(k, t, a, value, decrement, timeout) ==
    LET k1 == IF decrement THEN [k EXCEPT !.mem[a] = @ - 1] ELSE k
        k2 == IF timeout = "none" THEN k1
              ELSE WakeAfterDelay([k1 EXCEPT !.th[t].cb = "arbiter"], t, timeout)
    IN IF k.mem[a] < value THEN WaitArb(k2, t, a) ELSE k

=============================================================================
