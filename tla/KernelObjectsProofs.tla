------------------------ MODULE KernelObjectsProofs ------------------------
(***************************************************************************)
(* What the handlers of the kernel's objects keep of the invariant:        *)
(* mutexes, semaphores, events and timers, resuming and stopping threads,  *)
(* the arbiter, sleeping, creating threads, sessions and ports, and        *)
(* WaitSynchronization.                                                    *)
(***************************************************************************)
EXTENDS KernelLemmas

-----------------------------------------------------------------------------
(* Mutexes.                                                                *)

\* The mutex as Release leaves it, before the waiters are woken.
Freed(x, m, t) ==
    [ThreadUpdatePriority([[x EXCEPT !.mx[m].lock = @ - 1] EXCEPT !.th[t].held = @ \ {m}], t)
        EXCEPT !.mx[m].holder = NoThread]

LEMMA FreedGood ==
    ASSUME NEW x, Good(x, NoThread), NEW m \in Mutexes, NEW t \in Threads,
           x.mx[m].holder = t, x.mx[m].lock = 1
    PROVE  Good(Freed(x, m, t), NoThread) /\ RunKept(x, Freed(x, m, t), NoThread)
<1> DEFINE r1 == [x.mx[m] EXCEPT !.lock = 0]
           a1 == [x EXCEPT !.mx[m] = r1]
           r2 == [a1.th[t] EXCEPT !.held = a1.th[t].held \ {m}]
           a2 == [a1 EXCEPT !.th[t] = r2]
           a3 == ThreadUpdatePriority(a2, t)
           r3 == [a3.mx[m] EXCEPT !.holder = NoThread]
           y == [a3 EXCEPT !.mx[m] = r3]
<1>1. x \in KernelState /\ MutexOK(x, NoThread) /\ PrioOK(x, {NoThread}) /\ Sound(x, NoThread)
  BY DEF Good, Sound
<1>2. /\ x.mx[m] \in MutexRec /\ x.th[t] \in ThreadRec /\ x.th[t].held \subseteq Mutexes
      /\ x.th \in [Threads -> ThreadRec] /\ x.mx \in [Mutexes -> MutexRec]
  BY <1>1, MutexFields, ThType, ThreadFields
<1>3. Freed(x, m, t) = y
  <2>1. [x EXCEPT !.mx[m].lock = @ - 1] = a1
    BY <1>2
  <2> HIDE DEF a1
  <2>2. Freed(x, m, t) = [ThreadUpdatePriority([a1 EXCEPT !.th[t].held = @ \ {m}], t)
                            EXCEPT !.mx[m].holder = NoThread]
    BY <2>1 DEF Freed
  <2> QED BY <2>2
<1>4. r1 \in MutexRec /\ r1.lock = 0 /\ r1.holder = t /\ r1.prio = x.mx[m].prio
  <2>1. r1 \in MutexRec
    BY <1>2, Mutex_lock
  <2> QED BY <1>2, <2>1 DEF MutexRec
<1> HIDE DEF r1
<1>5. /\ a1 \in KernelState /\ a1.mx = [x.mx EXCEPT ![m] = r1] /\ a1.th = x.th /\ a1.wl = x.wl
      /\ a1.ses = x.ses /\ a1.rq = x.rq /\ Untouched(x, a1)
  BY <1>1, <1>4, MutexPut
<1> HIDE DEF a1
<1>6. r2 \in ThreadRec
  <2>1. a1.th[t].held \ {m} \in SUBSET Mutexes
    BY <1>2, <1>5
  <2> QED BY <1>2, <1>5, <2>1, Thread_held
<1>7. /\ r2.held = x.th[t].held \ {m} /\ r2.status = x.th[t].status /\ r2.cb = x.th[t].cb
      /\ r2.req = x.th[t].req /\ r2.waitObjs = x.th[t].waitObjs /\ r2.pending = x.th[t].pending
      /\ r2.nominal = x.th[t].nominal /\ r2.current = x.th[t].current
  BY <1>2, <1>5 DEF ThreadRec
<1> HIDE DEF r2
<1>8. /\ a2 \in KernelState /\ a2.th = [a1.th EXCEPT ![t] = r2] /\ a2.mx = a1.mx /\ a2.wl = a1.wl
      /\ a2.ses = a1.ses /\ a2.rq = a1.rq /\ Untouched(a1, a2)
  BY <1>5, <1>6, ThreadPut
<1> HIDE DEF a2
<1>9. OnlyPriorities(a2, a3) /\ a3.mx = a2.mx /\ \A D : PrioOK(a2, D \cup {t}) => PrioOK(a3, D)
  BY <1>8, ThreadUpdateKeeps
<1> HIDE DEF a3
<1>10. /\ a3 \in KernelState /\ Untouched(a2, a3) /\ Queued(a2, a3)
       /\ a3.wl = a2.wl /\ a3.ses = a2.ses
  BY <1>9 DEF OnlyPriorities
<1>11. SameThreads(a2, a3)
  BY <1>8, <1>9, PrioritiesSame
<1>12. a3.mx = [x.mx EXCEPT ![m] = r1]
  BY <1>5, <1>8, <1>9
<1>13. a3.mx[m] = r1 /\ \A o \in Mutexes \ {m} : a3.mx[o] = x.mx[o]
  BY <1>2, <1>12
<1>14. r3 \in MutexRec /\ r3.lock = 0 /\ r3.holder = NoThread /\ r3.prio = x.mx[m].prio
  <2>1. r3 = [r1 EXCEPT !.holder = NoThread]
    BY <1>13
  <2>2. NoThread \in MaybeThread
    BY DEF MaybeThread
  <2>3. [r1 EXCEPT !.holder = NoThread] \in MutexRec
    BY <1>4, <2>2, Mutex_holder
  <2> QED BY <1>4, <2>1, <2>3 DEF MutexRec
<1> HIDE DEF r3
<1>15. /\ y \in KernelState /\ y.mx = [a3.mx EXCEPT ![m] = r3] /\ y.th = a3.th /\ y.wl = a3.wl
       /\ y.ses = a3.ses /\ y.rq = a3.rq /\ Untouched(a3, y)
  BY <1>10, <1>14, MutexPut
<1> HIDE DEF y
<1>16. y.mx[m] = r3 /\ \A o \in Mutexes \ {m} : y.mx[o] = x.mx[o]
  BY <1>10, <1>13, <1>15, MutexFields
<1>17. a2.th[t] = r2 /\ \A u \in Threads \ {t} : a2.th[u] = x.th[u]
  BY <1>2, <1>5, <1>8
<1>18. \A u \in Threads : /\ a2.th[u].status = x.th[u].status /\ a2.th[u].cb = x.th[u].cb
                          /\ a2.th[u].req = x.th[u].req
                          /\ a2.th[u].waitObjs = x.th[u].waitObjs
                          /\ a2.th[u].pending = x.th[u].pending
                          /\ a2.th[u].nominal = x.th[u].nominal
                          /\ a2.th[u].current = x.th[u].current
  BY <1>7, <1>17
<1>19. SameWaits(x, y)
  BY <1>5, <1>8, <1>10, <1>11, <1>15, <1>18 DEF SameWaits, SameThreads
<1>20. \A u \in Threads \ {t} : y.th[u].held = x.th[u].held
  BY <1>11, <1>15, <1>17 DEF SameThreads
<1>21. y.th[t].held = x.th[t].held \ {m}
  BY <1>7, <1>11, <1>15, <1>17 DEF SameThreads
<1>22. Untouched(x, y) /\ y.ses = x.ses
  BY <1>5, <1>8, <1>10, <1>15, UntouchedTransitive
<1>23. MutexOK(y, NoThread)
  <2>1. \A u \in Threads : Alive(y, u) <=> Alive(x, u)
    BY <1>1, <1>19, WaitsSame
  <2> SUFFICES ASSUME NEW o \in Mutexes
               PROVE  /\ y.mx[o].lock > 0 <=> y.mx[o].holder # NoThread
                      /\ \A u \in Threads : y.mx[o].holder = u =>
                            o \in y.th[u].held /\ (u = NoThread \/ Alive(y, u))
                      /\ \A u \in Threads \ {NoThread} : o \in y.th[u].held => y.mx[o].holder = u
    BY DEF MutexOK
  <2>3. CASE o = m
    <3>1. \A u \in Threads \ {t} : m \notin x.th[u].held
      BY <1>1, NotNoThread DEF MutexOK
    <3> QED BY <1>14, <1>16, <1>20, <1>21, <2>3, <3>1, NotNoThread
  <2>4. CASE o # m
    <3>1. y.mx[o] = x.mx[o]
      BY <1>16, <2>4
    <3>2. \A u \in Threads : o \in y.th[u].held <=> o \in x.th[u].held
      BY <1>20, <1>21, <2>4
    <3> QED BY <1>1, <2>1, <3>1, <3>2 DEF MutexOK
  <2> QED BY <2>3, <2>4
<1>24. PrioOK(a2, {NoThread} \cup {t})
  <2> SUFFICES ASSUME NEW u \in Threads \ ({NoThread} \cup {t}), Alive(a2, u)
               PROVE  a2.th[u].current = Inherited(a2, u)
    BY DEF PrioOK
  <2>1. a2.th[u] = x.th[u]
    BY <1>17
  <2>2. \A o \in x.th[u].held : a2.mx[o].prio = x.mx[o].prio
    <3>1. x.th[u].held \subseteq Mutexes
      BY <1>1, ThType, ThreadFields
    <3> QED BY <1>4, <1>9, <1>13, <3>1
  <2>3. a2.th[u].nominal = x.th[u].nominal /\ a2.th[u].held = x.th[u].held
    BY <2>1
  <2>4. Inherited(a2, u) = Inherited(x, u)
    BY ONLY <2>2, <2>3, InheritedSame
  <2>5. Alive(x, u)
    BY <2>1 DEF Alive
  <2> QED BY <1>1, <2>1, <2>4, <2>5 DEF PrioOK
<1>25. PrioOK(y, {NoThread})
  <2>1. PrioOK(a3, {NoThread})
    BY <1>9, <1>24
  <2>2. \A o \in Mutexes : y.mx[o].prio = a3.mx[o].prio
    BY <1>4, <1>13, <1>14, <1>16
  <2>3. \A u \in Threads : a3.th[u].held \subseteq Mutexes
    BY <1>10, ThType, ThreadFields
  <2>4. \A u \in Threads : \A o \in a3.th[u].held : y.mx[o].prio = a3.mx[o].prio
    BY <2>2, <2>3
  <2>5. y.th = a3.th
    BY <1>15
  <2>6. \A u \in Threads : Inherited(y, u) = Inherited(a3, u)
    BY ONLY <2>4, <2>5, InheritedSame
  <2> QED BY <2>1, <2>5, <2>6 DEF PrioOK, Alive
<1>26. Sound(y, NoThread)
  BY <1>1, <1>15, <1>19, <1>22, <1>23, <1>25, WaitsSame DEF Sound
<1>27. Queued(x, y)
  <2>1. Queued(x, a2)
    <3>1. a2.rq = x.rq
      BY <1>5, <1>8
    <3>2. \A u \in Threads : a2.th[u].status = x.th[u].status /\ a2.th[u].current = x.th[u].current
      BY <1>18
    <3> QED BY ONLY <3>1, <3>2, QueuesSame
  <2>2. Queued(a3, y)
    BY <1>15, QueuesSame
  <2> QED BY <1>10, <2>1, <2>2, QueuedTransitive
<1> QED BY <1>3, <1>19, <1>22, <1>26, <1>27, GoodSame DEF SameWaits

LEMMA ReleaseMutexGood ==
    ASSUME NEW x, Good(x, NoThread), NEW m \in Mutexes, NEW t \in Threads
    PROVE  /\ Good(ReleaseMutex(x, m, t), NoThread)
           /\ RunKept(x, ReleaseMutex(x, m, t), NoThread)
<1> DEFINE dec == [x EXCEPT !.mx[m].lock = x.mx[m].lock - 1]
           n == x.mx[m].lock - 1
<1>1. x \in KernelState /\ x.mx[m] \in MutexRec /\ x.mx[m].lock \in Nat
  BY MutexFields DEF Good, Sound
<1>2. dec.mx[m].lock = n
  BY <1>1, MutexFields DEF KernelState, MutexRec
<1>3. CASE x.mx[m].holder # t \/ x.mx[m].lock <= 0
  BY <1>3, RunKeptItself DEF ReleaseMutex
<1>4. CASE x.mx[m].holder = t /\ x.mx[m].lock > 0 /\ n # 0
  <2>1. ReleaseMutex(x, m, t) = [x EXCEPT !.mx[m].lock = n]
    BY <1>1, <1>2, <1>4 DEF ReleaseMutex
  <2>2. n \in Nat /\ n > 0
    BY <1>1, <1>4
  <2> HIDE DEF n
  <2>3. Sound([x EXCEPT !.mx[m].lock = n], NoThread) /\ Moved(x, [x EXCEPT !.mx[m].lock = n], NoThread)
    BY <1>4, <2>2, CountKeeps DEF Good
  <2> QED BY <2>1, <2>3, GoodMoved
<1>5. CASE x.mx[m].holder = t /\ x.mx[m].lock > 0 /\ n = 0
  <2> DEFINE f == Freed(x, m, t)
             w == WakeupAllWaitingThreads(f, m)
  <2>1. ReleaseMutex(x, m, t) = PrepareReschedule(w)
    BY <1>1, <1>2, <1>5 DEF ReleaseMutex, Freed
  <2>2. x.mx[m].lock = 1
    BY <1>1, <1>5
  <2>3. Good(f, NoThread) /\ RunKept(x, f, NoThread)
    BY <1>5, <2>2, FreedGood
  <2> HIDE DEF f
  <2>4. Good(w, NoThread) /\ RunKept(f, w, NoThread)
    BY <2>3, WakeupGood, NobodyStops, NotNoThread
  <2> HIDE DEF w
  <2>5. Good(PrepareReschedule(w), NoThread) /\ RunKept(w, PrepareReschedule(w), NoThread)
    BY <2>4, RescheduleGood
  <2> QED BY <2>1, <2>3, <2>4, <2>5, RunKeptTransitive
<1> QED BY <1>1, <1>3, <1>4, <1>5

\* A mutex that the exiting thread t holds becomes free.
ReleaseOne(x, m) ==
    WakeupAllWaitingThreads([x EXCEPT !.mx[m].lock = 0, !.mx[m].holder = NoThread], m)

\* The thread t has exited and waits for nothing.
Exited(x, t) == x.th[t].status = "Dead" /\ x.th[t].waitObjs = <<>>

LEMMA ReleaseOneGood ==
    ASSUME NEW x, NEW t \in Threads, Good(x, t), Exited(x, t), NEW m \in Mutexes, x.mx[m].holder = t
    PROVE  LET y == ReleaseOne(x, m)
           IN /\ Good(y, t) /\ Exited(y, t) /\ RunKept(x, y, NoThread)
              /\ y.th[t].held = x.th[t].held /\ y.mx[m].holder # t
              /\ \A o \in Mutexes \ {m} : y.mx[o].holder = t <=> x.mx[o].holder = t
<1> DEFINE r1 == [x.mx[m] EXCEPT !.lock = 0]
           r == [r1 EXCEPT !.holder = NoThread]
           a == [x EXCEPT !.mx[m] = r]
           y == WakeupAllWaitingThreads(a, m)
<1>1. x \in KernelState /\ Sound(x, t) /\ MutexOK(x, t) /\ PrioOK(x, {t})
  BY DEF Good, Sound
<1>2. x.mx[m] \in MutexRec /\ x.mx \in [Mutexes -> MutexRec]
  BY <1>1, MutexFields
<1>3. ReleaseOne(x, m) = y
  <2>1. [x EXCEPT !.mx[m].lock = 0, !.mx[m].holder = NoThread] = a
    BY <1>1, <1>2 DEF KernelState
  <2> HIDE DEF a
  <2> QED BY <2>1 DEF ReleaseOne
<1>4. r \in MutexRec /\ r.lock = 0 /\ r.holder = NoThread /\ r.prio = x.mx[m].prio
  <2>1. r1 \in MutexRec
    BY <1>2, Mutex_lock
  <2>2. r1.lock = 0 /\ r1.prio = x.mx[m].prio
    BY <1>2 DEF MutexRec
  <2> HIDE DEF r1
  <2>3. NoThread \in MaybeThread
    BY DEF MaybeThread
  <2>4. r \in MutexRec
    BY <2>1, <2>3, Mutex_holder
  <2> QED BY <2>1, <2>2, <2>4 DEF MutexRec
<1> HIDE DEF r
<1>5. /\ a \in KernelState /\ a.mx = [x.mx EXCEPT ![m] = r] /\ a.th = x.th /\ a.wl = x.wl
      /\ a.ses = x.ses /\ a.rq = x.rq /\ Untouched(x, a)
  BY <1>1, <1>4, MutexPut
<1> HIDE DEF a
<1>6. a.mx[m] = r /\ \A o \in Mutexes \ {m} : a.mx[o] = x.mx[o]
  BY <1>2, <1>5
<1>7. t # NoThread
  BY NotNoThread
<1>8. MutexOK(a, t)
  <2> SUFFICES ASSUME NEW o \in Mutexes
               PROVE  /\ a.mx[o].lock > 0 <=> a.mx[o].holder # NoThread
                      /\ \A u \in Threads : a.mx[o].holder = u =>
                            o \in a.th[u].held /\ (u = t \/ Alive(a, u))
                      /\ \A u \in Threads \ {t} : o \in a.th[u].held => a.mx[o].holder = u
    BY DEF MutexOK
  <2>1. CASE o = m
    <3>1. \A u \in Threads \ {t} : m \notin x.th[u].held
      BY <1>1 DEF MutexOK
    <3> QED BY <1>4, <1>5, <1>6, <2>1, <3>1, NotNoThread
  <2>2. CASE o # m
    <3>1. a.mx[o] = x.mx[o]
      BY <1>6, <2>2
    <3> QED BY <1>1, <1>5, <3>1 DEF MutexOK, Alive
  <2> QED BY <2>1, <2>2
<1>9. PrioOK(a, {t})
  <2>1. \A o \in Mutexes : a.mx[o].prio = x.mx[o].prio
    BY <1>4, <1>6
  <2>2. \A u \in Threads : \A o \in x.th[u].held : a.mx[o].prio = x.mx[o].prio
    BY <1>1, <2>1, ThType, ThreadFields
  <2>3. \A u \in Threads : Inherited(a, u) = Inherited(x, u)
    <3>1. a.th = x.th
      BY <1>5
    <3> QED BY ONLY <2>2, <3>1, InheritedSame
  <2> QED BY <1>1, <1>5, <2>3 DEF PrioOK, Alive
<1>10. SameWaits(x, a)
  BY <1>5 DEF SameWaits
<1>11. Sound(a, t)
  BY <1>1, <1>5, <1>8, <1>9, <1>10, WaitsSame DEF Sound
<1>12. Good(a, t) /\ RunKept(x, a, NoThread)
  <2>1. Queued(x, a)
    BY <1>5, QueuesSame
  <2> QED BY <1>5, <1>11, <2>1, GoodSame
<1>13. m \in WaitObject
  BY NotNoThread
<1>14. Stopping(a, t, m)
  <2>1. t \notin ToSet(a.wl[m])
    <3>1. ListsOK(a, NoThread, {}) /\ a.th[t].waitObjs = <<>>
      BY <1>5, <1>11 DEF Sound, Exited
    <3> QED BY <1>7, <1>13, <3>1, ToSetEmpty DEF ListsOK, WaitsFor
  <2> QED BY <1>5, <2>1 DEF Stopping, Exited
<1>15. Good(y, t) /\ Moved(a, y, NoThread) /\ RunKept(a, y, NoThread)
  BY <1>12, <1>13, <1>14, WakeupGood
<1> HIDE DEF y
<1>16. ~Sync(a, t)
  BY <1>5, StatusIs DEF Sync, Exited
<1>17. Exited(y, t) /\ y.th[t].held = x.th[t].held
  BY <1>5, <1>7, <1>15, <1>16 DEF Moved, ThreadsMoved, Exited
<1>18. \A o \in Mutexes : y.mx[o].holder = t <=> a.mx[o].holder = t
  BY <1>7, <1>15, <1>16 DEF Moved, ObjectsMoved
<1>19. y.mx[m].holder # t /\ \A o \in Mutexes \ {m} : y.mx[o].holder = t <=> x.mx[o].holder = t
  BY <1>4, <1>6, <1>7, <1>18
<1> QED BY <1>3, <1>12, <1>15, <1>17, <1>19, RunKeptTransitive

ReleaseStep(p, i, x) == ReleaseOne(x, p[1][i])
ReleaseHolds(p, i, x) ==
    /\ Good(x, p[2]) /\ Exited(x, p[2]) /\ RunKept(p[3], x, NoThread)
    /\ x.th[p[2]].held = p[3].th[p[2]].held
    /\ \A j \in 1 .. Len(p[1]) : x.mx[p[1][j]].holder = p[2] <=> j > i

Releasing == INSTANCE Loop WITH Step <- ReleaseStep, Holds <- ReleaseHolds

\* order is a listing of the set S.
Listing(order, S) == order \in Seq(S) /\ ToSet(order) = S /\ IsInjective(order)

LEMMA ReleaseAllGood ==
    ASSUME NEW x, NEW t \in Threads, Good(x, t), Exited(x, t),
           \A m \in x.th[t].held : x.mx[m].holder = t,
           NEW order, Listing(order, x.th[t].held)
    PROVE  LET y == ReleaseThreadMutexes(x, t, order)
           IN Good(y, NoThread) /\ RunKept(x, y, NoThread)
<1> DEFINE p == <<order, t, x>>
           n == Len(order)
           f == Releasing!Run(p, x, n)
           kk == f[n]
           r == [kk.th[t] EXCEPT !.held = {}]
           y == [kk EXCEPT !.th[t] = r]
<1>1. ReleaseThreadMutexes(x, t, order) = [kk EXCEPT !.th[t].held = {}]
  BY DEF ReleaseThreadMutexes, ForEach, Releasing!Run, ReleaseStep, ReleaseOne
<1>2. x \in KernelState /\ x.th[t].held \subseteq Mutexes
  BY ThType, ThreadFields DEF Good, Sound
<1>3. /\ n \in Nat /\ DOMAIN order = 1 .. n /\ \A i \in 1 .. n : order[i] \in x.th[t].held
      /\ \A i, j \in 1 .. n : order[i] = order[j] => i = j
      /\ \A m \in x.th[t].held : \E i \in 1 .. n : order[i] = m
  BY DEF Listing, IsInjective, ToSet
<1>4. p[1] = order /\ p[2] = t /\ p[3] = x /\ Len(p[1]) = n
  OBVIOUS
<1> HIDE DEF p, f, n
<1>5. ReleaseHolds(p, 0, x)
  BY <1>3, <1>4, RunKeptItself DEF ReleaseHolds
<1>6. ASSUME NEW i \in 1 .. n, NEW z, ReleaseHolds(p, i - 1, z)
      PROVE  ReleaseHolds(p, i, ReleaseStep(p, i, z))
  <2> DEFINE w == ReleaseStep(p, i, z)
             m == order[i]
  <2>1. /\ Good(z, t) /\ Exited(z, t) /\ RunKept(x, z, NoThread) /\ z.th[t].held = x.th[t].held
        /\ \A j \in 1 .. n : z.mx[order[j]].holder = t <=> j > i - 1
    BY <1>4, <1>6 DEF ReleaseHolds
  <2>2. w = ReleaseOne(z, m)
    BY <1>4 DEF ReleaseStep
  <2>3. m \in Mutexes /\ z.mx[m].holder = t
    <3>1. i > i - 1
      OBVIOUS
    <3> QED BY <1>2, <1>3, <2>1, <3>1
  <2> HIDE DEF w
  <2>4. /\ Good(w, t) /\ Exited(w, t) /\ RunKept(z, w, NoThread)
        /\ w.th[t].held = z.th[t].held /\ w.mx[m].holder # t
        /\ \A o \in Mutexes \ {m} : w.mx[o].holder = t <=> z.mx[o].holder = t
    BY <2>1, <2>2, <2>3, ReleaseOneGood
  <2>5. ASSUME NEW j \in 1 .. n PROVE w.mx[order[j]].holder = t <=> j > i
    <3>1. CASE j = i
      BY <2>4, <3>1
    <3>2. CASE j # i
      <4>1. order[j] \in Mutexes \ {m}
        BY <1>2, <1>3, <3>2
      <4>2. w.mx[order[j]].holder = t <=> j > i - 1
        BY <2>1, <2>4, <4>1
      <4> QED BY <3>2, <4>2
    <3> QED BY <3>1, <3>2
  <2>6. RunKept(x, w, NoThread)
    BY <2>1, <2>4, RunKeptTransitive
  <2> QED BY <1>4, <2>1, <2>4, <2>5, <2>6 DEF ReleaseHolds, w
<1>7. \A i \in 0 .. n : ReleaseHolds(p, i, f[i])
  <2>1. \A i \in 1 .. n : \A z : ReleaseHolds(p, i - 1, z) => ReleaseHolds(p, i, ReleaseStep(p, i, z))
    BY <1>6
  <2> QED BY <1>3, <1>5, <2>1, Releasing!LoopInvariant DEF f
<1>8. /\ Good(kk, t) /\ Exited(kk, t) /\ RunKept(x, kk, NoThread) /\ kk.th[t].held = x.th[t].held
      /\ \A j \in 1 .. n : ~(kk.mx[order[j]].holder = t)
  <2>1. ReleaseHolds(p, n, kk)
    BY <1>3, <1>7
  <2> HIDE DEF kk
  <2> QED BY <1>3, <1>4, <2>1 DEF ReleaseHolds
<1> HIDE DEF kk
<1>9. kk \in KernelState /\ Sound(kk, t)
  BY <1>8 DEF Good, Sound
<1>10. \A m \in Mutexes : kk.mx[m].holder # t
  <2>1. MutexOK(kk, t)
    BY <1>8 DEF Good, Sound
  <2> QED BY <1>3, <1>8, <2>1 DEF MutexOK
<1>11. kk.th[t] \in ThreadRec /\ kk.th \in [Threads -> ThreadRec]
  BY <1>9, ThType
<1>12. r \in ThreadRec
  BY <1>11, Thread_held
<1>13. /\ r.waitObjs = kk.th[t].waitObjs /\ r.status = kk.th[t].status /\ r.cb = kk.th[t].cb
       /\ r.req = kk.th[t].req /\ r.held = {} /\ r.pending = kk.th[t].pending
       /\ r.nominal = kk.th[t].nominal /\ r.current = kk.th[t].current
  BY <1>11 DEF ThreadRec
<1>14. [kk EXCEPT !.th[t].held = {}] = y
  OBVIOUS
<1> HIDE DEF r
<1>15. /\ y \in KernelState /\ y.th = [kk.th EXCEPT ![t] = r] /\ y.mx = kk.mx /\ y.wl = kk.wl
       /\ y.ses = kk.ses /\ y.rq = kk.rq /\ Untouched(kk, y)
  BY <1>9, <1>12, ThreadPut
<1> HIDE DEF y
<1>16. y.th[t] = r /\ \A u \in Threads \ {t} : y.th[u] = kk.th[u]
  BY <1>11, <1>15
<1>17. SameWaits(kk, y) /\ \A u \in Threads : y.th[u].current = kk.th[u].current
  BY <1>13, <1>15, <1>16 DEF SameWaits
<1>18. \A u \in Threads : y.th[u].status = kk.th[u].status
  BY <1>17 DEF SameWaits
<1>19. MutexOK(y, NoThread)
  <2>1. MutexOK(kk, t)
    BY <1>9 DEF Sound
  <2>2. \A u \in Threads \ {t} : y.th[u].held = kk.th[u].held /\ (Alive(kk, u) => Alive(y, u))
    BY <1>16, <1>18 DEF Alive
  <2>3. y.th[t].held = {} /\ y.mx = kk.mx
    BY <1>13, <1>15, <1>16
  <2> SUFFICES ASSUME NEW m \in Mutexes
               PROVE  /\ y.mx[m].lock > 0 <=> y.mx[m].holder # NoThread
                      /\ \A u \in Threads : y.mx[m].holder = u =>
                            m \in y.th[u].held /\ (u = NoThread \/ Alive(y, u))
                      /\ \A u \in Threads \ {NoThread} : m \in y.th[u].held => y.mx[m].holder = u
    BY DEF MutexOK
  <2>4. kk.mx[m].lock > 0 <=> kk.mx[m].holder # NoThread
    BY <2>1 DEF MutexOK
  <2>5. ASSUME NEW u \in Threads, kk.mx[m].holder = u PROVE m \in kk.th[u].held /\ Alive(kk, u) /\ u # t
    BY <1>10, <2>1, <2>5 DEF MutexOK
  <2>6. ASSUME NEW u \in Threads \ {t}, m \in kk.th[u].held PROVE kk.mx[m].holder = u
    BY <2>1, <2>6 DEF MutexOK
  <2> QED BY ONLY <2>2, <2>3, <2>4, <2>5, <2>6, t \in Threads
<1>20. PrioOK(y, {NoThread})
  <2> SUFFICES ASSUME NEW u \in Threads, Alive(y, u) PROVE y.th[u].current = Inherited(y, u)
    BY DEF PrioOK
  <2>1. u # t
    BY <1>8, <1>18 DEF Alive, Exited
  <2>2. y.th[u] = kk.th[u]
    BY <1>16, <2>1
  <2>3. Inherited(y, u) = Inherited(kk, u)
    BY <1>15, <2>2 DEF Inherited
  <2> QED BY <1>9, <2>1, <2>2, <2>3 DEF Sound, PrioOK, Alive
<1>21. ThreadsOK(y, NoThread)
  <2>1. ThreadsOK(kk, t)
    BY <1>9 DEF Sound
  <2> QED BY <1>8, <1>17, <2>1 DEF ThreadsOK, SameWaits, Exited, Sync
<1>22. Sound(y, NoThread)
  BY <1>9, <1>15, <1>17, <1>19, <1>20, <1>21, WaitsSame DEF Sound
<1>23. Queued(kk, y)
  <2>1. y.rq = kk.rq
    BY <1>15
  <2>2. \A u \in Threads : y.th[u].status = kk.th[u].status /\ y.th[u].current = kk.th[u].current
    BY <1>17, <1>18
  <2> QED BY ONLY <2>1, <2>2, QueuesSame
<1>24. Good(y, NoThread) /\ RunKept(kk, y, NoThread)
  BY <1>8, <1>15, <1>17, <1>22, <1>23, GoodSame DEF SameWaits
<1> QED BY <1>1, <1>8, <1>14, <1>24, RunKeptTransitive

-----------------------------------------------------------------------------
(* Semaphores, events, timers.                                             *)

LEMMA SemGood ==
    ASSUME NEW x, Good(x, NoThread), NEW v \in [Semaphores -> Int]
    PROVE  Good([x EXCEPT !.sem = v], NoThread) /\ RunKept(x, [x EXCEPT !.sem = v], NoThread)
<1> DEFINE y == [x EXCEPT !.sem = v]
<1>1. x \in KernelState /\ TimersOK(x)
  BY DEF Good, Sound, Rest
<1>2. y \in KernelState
  BY <1>1, Put_sem
<1>3. Plain(x, y) /\ y.tev = x.tev /\ y.halt = x.halt
  BY <1>1, <1>2 DEF KernelState, Plain
<1> HIDE DEF y
<1> QED BY <1>1, <1>3, PlainKeeps DEF TimersOK, y

LEMMA ReleaseSemaphoreGood ==
    ASSUME NEW x, Good(x, NoThread), NEW s \in Semaphores, NEW n \in Int
    PROVE  /\ Good(ReleaseSemaphore(x, s, n), NoThread)
           /\ RunKept(x, ReleaseSemaphore(x, s, n), NoThread)
<1> DEFINE v == [x.sem EXCEPT ![s] = x.sem[s] + n]
           a == [x EXCEPT !.sem = v]
<1>1. CASE MaxCount - x.sem[s] < n
  BY <1>1, RunKeptItself DEF ReleaseSemaphore
<1>2. CASE ~(MaxCount - x.sem[s] < n)
  <2>1. ReleaseSemaphore(x, s, n) = WakeupAllWaitingThreads(a, s)
    BY <1>2 DEF ReleaseSemaphore
  <2>2. v \in [Semaphores -> Int]
    BY KernelFields DEF Good, Sound
  <2> HIDE DEF v
  <2>3. Good(a, NoThread) /\ RunKept(x, a, NoThread)
    BY <2>2, SemGood
  <2> HIDE DEF a
  <2>4. s \in WaitObject
    BY DEF WaitObject
  <2>5. Good(WakeupAllWaitingThreads(a, s), NoThread) /\ RunKept(a, WakeupAllWaitingThreads(a, s), NoThread)
    BY <2>3, <2>4, WakeupGood, NobodyStops
  <2> QED BY <2>1, <2>3, <2>5, RunKeptTransitive
<1> QED BY <1>1, <1>2

LEMMA SigGood ==
    ASSUME NEW x, NEW d, Good(x, d), NEW S \in SUBSET (Events \cup Timers)
    PROVE  Good([x EXCEPT !.sig = S], d) /\ RunKept(x, [x EXCEPT !.sig = S], NoThread)
  BY SigKeeps, GoodMoved DEF Good

\* o is signaled and its waiters are woken.
LEMMA SignalGood ==
    ASSUME NEW x, Good(x, NoThread), NEW o \in Events \cup Timers
    PROVE  LET y == WakeupAllWaitingThreads([x EXCEPT !.sig = @ \cup {o}], o)
           IN Good(y, NoThread) /\ RunKept(x, y, NoThread) /\ y.tev = x.tev
<1> DEFINE S == x.sig \cup {o}
           a == [x EXCEPT !.sig = S]
           y == WakeupAllWaitingThreads(a, o)
<1>1. S \in SUBSET (Events \cup Timers) /\ x \in KernelState
  BY KernelFields DEF Good, Sound
<1>2. a.tev = x.tev
  BY <1>1 DEF KernelState
<1> HIDE DEF S
<1>3. Good(a, NoThread) /\ RunKept(x, a, NoThread)
  BY <1>1, SigGood
<1> HIDE DEF a
<1>4. o \in WaitObject
  BY DEF WaitObject
<1>5. Good(y, NoThread) /\ RunKept(a, y, NoThread) /\ Moved(a, y, NoThread)
  BY <1>3, <1>4, WakeupGood, NobodyStops
<1> HIDE DEF y
<1>6. y.tev = x.tev
  BY <1>2, <1>5 DEF Moved, Untouched
<1> QED BY <1>3, <1>5, <1>6, RunKeptTransitive DEF y, a, S

LEMMA ClearGood ==
    ASSUME NEW x, Good(x, NoThread), NEW o
    PROVE  Good(ClearSignal(x, o), NoThread) /\ RunKept(x, ClearSignal(x, o), NoThread)
<1> DEFINE S == x.sig \ {o}
<1>1. S \in SUBSET (Events \cup Timers)
  BY KernelFields DEF Good, Sound
<1>2. ClearSignal(x, o) = [x EXCEPT !.sig = S]
  BY DEF ClearSignal
<1> HIDE DEF S
<1> QED BY <1>1, <1>2, SigGood

\* The timers' events become E.
LEMMA EventsGood ==
    ASSUME NEW x, Good(x, NoThread), NEW E \in SUBSET (Timers \X Cores),
           \A e, f \in E : e[1] = f[1] => e = f
    PROVE  LET y == [x EXCEPT !.tev = E]
           IN Good(y, NoThread) /\ RunKept(x, y, NoThread) /\ y.tev = E
<1> DEFINE y == [x EXCEPT !.tev = E]
<1>1. x \in KernelState
  BY DEF Good, Sound
<1>2. y \in KernelState
  BY <1>1, Put_tev
<1>3. Plain(x, y) /\ y.tev = E /\ y.halt = x.halt
  BY <1>1, <1>2 DEF KernelState, Plain
<1> HIDE DEF y
<1>4. TimersOK(y)
  BY <1>3 DEF TimersOK
<1> QED BY <1>3, <1>4, PlainKeeps DEF y

\* No event of timer o is scheduled.
NoEvent(x, o) == \A e \in x.tev : e[1] # o

LEMMA ScheduleGood ==
    ASSUME NEW x, Good(x, NoThread), NEW o \in Timers, NEW c \in Cores, NoEvent(x, o)
    PROVE  LET y == [x EXCEPT !.tev = @ \cup {<<o, c>>}]
           IN Good(y, NoThread) /\ RunKept(x, y, NoThread)
<1> DEFINE E == x.tev \cup {<<o, c>>}
<1>1. E \in SUBSET (Timers \X Cores)
  BY KernelFields DEF Good, Sound
<1>2. \A e, f \in x.tev : e[1] = f[1] => e = f
  BY DEF Good, Rest, TimersOK
<1>3. \A e, f \in E : e[1] = f[1] => e = f
  BY <1>2 DEF NoEvent
<1> HIDE DEF E
<1> QED BY <1>1, <1>3, EventsGood DEF E

LEMMA CancelTimerGood ==
    ASSUME NEW x, Good(x, NoThread), NEW o
    PROVE  LET y == CancelTimer(x, o)
           IN Good(y, NoThread) /\ RunKept(x, y, NoThread) /\ NoEvent(y, o)
<1> DEFINE E == {e \in x.tev : e[1] # o}
<1>1. E \in SUBSET (Timers \X Cores)
  BY KernelFields DEF Good, Sound
<1>2. \A e, f \in x.tev : e[1] = f[1] => e = f
  BY DEF Good, Rest, TimersOK
<1>3. \A e, f \in E : e[1] = f[1] => e = f
  BY <1>2
<1>4. CancelTimer(x, o) = [x EXCEPT !.tev = E]
  BY DEF CancelTimer
<1>5. \A e \in E : e[1] # o
  OBVIOUS
<1> HIDE DEF E
<1> QED BY <1>1, <1>3, <1>4, <1>5, EventsGood DEF NoEvent

LEMMA SignalTimerGood ==
    ASSUME NEW x, Good(x, NoThread), NEW o \in Timers, NEW c \in Cores, NoEvent(x, o)
    PROVE  /\ Good(SignalTimer(x, o, c), NoThread)
           /\ RunKept(x, SignalTimer(x, o, c), NoThread)
<1> DEFINE w == WakeupAllWaitingThreads([x EXCEPT !.sig = @ \cup {o}], o)
           y == [w EXCEPT !.tev = @ \cup {<<o, c>>}]
<1>1. Good(w, NoThread) /\ RunKept(x, w, NoThread) /\ w.tev = x.tev
  BY SignalGood
<1>2. SignalTimer(x, o, c) = IF o \in w.itv THEN y ELSE w
  BY DEF SignalTimer, Rearm
<1> HIDE DEF w
<1>3. NoEvent(w, o)
  BY <1>1 DEF NoEvent
<1>4. Good(y, NoThread) /\ RunKept(w, y, NoThread)
  BY <1>1, <1>3, ScheduleGood
<1> HIDE DEF y
<1> QED BY <1>1, <1>2, <1>4, RunKeptTransitive

LEMMA SetTimerGood ==
    ASSUME NEW x, Good(x, NoThread), NEW o \in Timers, NEW immediate, NEW periodic, NEW c \in Cores
    PROVE  /\ Good(SetTimer(x, o, immediate, periodic, c), NoThread)
           /\ RunKept(x, SetTimer(x, o, immediate, periodic, c), NoThread)
<1> DEFINE a == CancelTimer(x, o)
           I == IF periodic THEN a.itv \cup {o} ELSE a.itv \ {o}
           b == [a EXCEPT !.itv = I]
           s == SignalTimer(b, o, c)
           y == [b EXCEPT !.tev = @ \cup {<<o, c>>}]
<1>1. SetTimer(x, o, immediate, periodic, c) = IF immediate THEN s ELSE y
  BY DEF SetTimer
<1>2. Good(a, NoThread) /\ RunKept(x, a, NoThread) /\ NoEvent(a, o)
  BY CancelTimerGood
<1> HIDE DEF a
<1>3. a \in KernelState /\ I \in SUBSET Timers /\ TimersOK(a)
  BY <1>2, KernelFields DEF Good, Sound, Rest
<1> HIDE DEF I
<1>4. b \in KernelState
  BY <1>3, Put_itv
<1>5. Plain(a, b) /\ b.tev = a.tev /\ b.halt = a.halt
  BY <1>3, <1>4 DEF KernelState, Plain
<1> HIDE DEF b
<1>6. Good(b, NoThread) /\ RunKept(a, b, NoThread) /\ NoEvent(b, o)
  BY <1>2, <1>3, <1>5, PlainKeeps DEF TimersOK, NoEvent
<1>7. Good(s, NoThread) /\ RunKept(b, s, NoThread)
  BY <1>6, SignalTimerGood
<1>8. Good(y, NoThread) /\ RunKept(b, y, NoThread)
  BY <1>6, ScheduleGood
<1> HIDE DEF s, y
<1> QED BY <1>1, <1>2, <1>6, <1>7, <1>8, RunKeptTransitive


-----------------------------------------------------------------------------
(* Resuming a thread.                                                      *)

\* All but ArbOK.
Mid(x) ==
    /\ Sound(x, NoThread) /\ QueuesOK(x)
    /\ WakeOK(x) /\ CoresOK(x) /\ PortsOK(x) /\ TimersOK(x)

LEMMA GoodIsMid ==
    ASSUME NEW x
    PROVE  Good(x, NoThread) <=> Mid(x) /\ ArbOK(x)
  BY DEF Good, Mid, Rest

LEMMA MidArb ==
    ASSUME NEW x, Mid(x), NEW A \in Seq(Threads),
           \A t \in Threads :
              /\ x.th[t].status = "WaitArb" <=> t \in ToSet(A)
              /\ x.th[t].status = "WaitArb" /\ x.wake[t] > 0 => x.th[t].cb = "arbiter"
    PROVE  LET y == [x EXCEPT !.arb = A]
           IN Good(y, NoThread) /\ RunKept(x, y, NoThread) /\ y.th = x.th /\ y.arb = A
<1> DEFINE y == [x EXCEPT !.arb = A]
<1>1. x \in KernelState /\ Sound(x, NoThread)
  BY DEF Mid, Sound
<1>2. y \in KernelState
  BY <1>1, Put_arb
<1>3. /\ y.th = x.th /\ y.wl = x.wl /\ y.mx = x.mx /\ y.ses = x.ses /\ y.rq = x.rq
      /\ y.wake = x.wake /\ y.cur = x.cur /\ y.cpu = x.cpu /\ y.running = x.running
      /\ y.proc = x.proc /\ y.stored = x.stored /\ y.port = x.port /\ y.tev = x.tev
      /\ y.arb = A /\ y.halt = x.halt
  BY <1>1 DEF KernelState
<1> HIDE DEF y
<1>4. Sound(y, NoThread)
  BY <1>1, <1>2, <1>3, SoundSame
<1>5. QueuesOK(y)
  BY <1>3 DEF Mid, QueuesOK
<1>6. WakeOK(y) /\ CoresOK(y) /\ TimersOK(y) /\ ArbOK(y)
  BY <1>3 DEF Mid, WakeOK, CoresOK, ProcessOf, TimersOK, ArbOK
<1>7. PortsOK(y)
  <2>1. PortsOK(x)
    BY DEF Mid
  <2> QED BY <1>1, <1>3, <2>1, PortsSame
<1>8. RunKept(x, y, NoThread)
  BY <1>3 DEF RunKept
<1> QED BY <1>3, <1>4, <1>5, <1>6, <1>7, <1>8 DEF Good, Rest, y

LEMMA ResumedMid ==
    ASSUME NEW x, Mid(x), NEW t \in Threads, NEW y, Resumed(x, y, t),
           Alive(x, t) \/ x.th[t].status = "Dead", x.th[t].req = NoSession
    PROVE  Mid(y) /\ RunKept(x, y, NoThread)
<1>1. x \in KernelState /\ Sound(x, NoThread) /\ QueuesOK(x) /\ PortsOK(x)
  BY DEF Mid, Sound
<1>2. Sound(y, NoThread)
  BY <1>1, ResumedKeeps
<1>3. QueuesOK(y)
  BY <1>1 DEF Resumed, Queued, Alive
<1>4. /\ Untouched(x, y) /\ y.ses = x.ses /\ \A u \in Threads \ {t} : y.th[u] = x.th[u]
      /\ y.th[t].req = x.th[t].req
      /\ y.th[t].status = x.th[t].status
            \/ (y.th[t].status = "Ready" /\ x.th[t].status \notin {"Ready", "Running", "Dead"})
  BY DEF Resumed, Resumable
<1>5. x.th[t].status \in WaitStatus \cup {"Ready"} => y.th[t].status \in WaitStatus \cup {"Ready"}
  BY <1>4
<1>6. WakeOK(y)
  BY <1>4, <1>5 DEF Mid, WakeOK, Untouched
<1>7. CoresOK(y)
  BY <1>4 DEF Mid, CoresOK, ProcessOf, Untouched
<1>8. PortsOK(y) /\ TimersOK(y)
  <2>1. y.port = x.port /\ y.tev = x.tev /\ TimersOK(x)
    BY <1>4 DEF Untouched, Mid
  <2>2. PortsOK(y)
    BY <1>1, <1>4, <2>1, PortsSame
  <2> QED BY <2>1, <2>2 DEF TimersOK
<1>9. RunKept(x, y, NoThread)
  BY <1>4 DEF RunKept, Untouched
<1> QED BY <1>2, <1>3, <1>6, <1>7, <1>8, <1>9 DEF Mid

\* A thread that is not in the arbiter's list is resumed.
LEMMA ResumedGood ==
    ASSUME NEW x, Mid(x), NEW t \in Threads,
           Alive(x, t) \/ x.th[t].status = "Dead", x.th[t].req = NoSession,
           \A u \in Threads \ {t} :
              /\ x.th[u].status = "WaitArb" <=> u \in ToSet(x.arb)
              /\ x.th[u].status = "WaitArb" /\ x.wake[u] > 0 => x.th[u].cb = "arbiter",
           t \notin ToSet(x.arb)
    PROVE  /\ Good(ResumeFromWait(x, t), NoThread)
           /\ RunKept(x, ResumeFromWait(x, t), NoThread)
<1> DEFINE y == ResumeFromWait(x, t)
<1>1. x \in KernelState /\ ThreadsOK(x, NoThread)
  BY DEF Mid, Sound
<1>2. Resumed(x, y, t)
  BY <1>1, ResumeFrame
<1> HIDE DEF y
<1>3. Mid(y) /\ RunKept(x, y, NoThread)
  BY <1>2, ResumedMid
<1>4. x.th[t].status = "WaitArb" => Resumable(x, t)
  BY <1>1, NotNoThread, StatusIs DEF ThreadsOK, Sync, Resumable
<1>5. y.th[t].status # "WaitArb"
  BY <1>2, <1>4 DEF Resumed
<1>6. /\ y.arb = x.arb /\ y.wake = x.wake /\ \A u \in Threads \ {t} : y.th[u] = x.th[u]
  BY <1>2 DEF Resumed, Untouched
<1>7. ArbOK(y)
  BY <1>5, <1>6 DEF ArbOK
<1> QED BY <1>3, <1>7, GoodIsMid DEF y


\* The wakeup event of t is taken off the queue.
LEMMA WakeTaken ==
    ASSUME NEW x, Good(x, NoThread), NEW t \in Threads, NEW n \in Nat, n <= x.wake[t]
    PROVE  LET y == [x EXCEPT !.wake[t] = n]
           IN /\ Good(y, NoThread) /\ RunKept(x, y, NoThread)
              /\ y.th = x.th /\ y.arb = x.arb /\ y.wake[t] = n /\ y.halt = x.halt
<1> DEFINE W == [x.wake EXCEPT ![t] = n]
           y == [x EXCEPT !.wake = W]
<1>1. x \in KernelState /\ Sound(x, NoThread) /\ x.wake \in [Threads -> Nat]
  BY KernelFields DEF Good, Sound
<1>2. W \in [Threads -> Nat] /\ W[t] = n /\ \A u \in Threads \ {t} : W[u] = x.wake[u]
  BY <1>1
<1>3. [x EXCEPT !.wake[t] = n] = y
  OBVIOUS
<1> HIDE DEF W
<1>4. y \in KernelState
  BY <1>1, <1>2, Put_wake
<1>5. /\ y.th = x.th /\ y.wl = x.wl /\ y.mx = x.mx /\ y.ses = x.ses /\ y.rq = x.rq
      /\ y.wake = W /\ y.cur = x.cur /\ y.cpu = x.cpu /\ y.running = x.running
      /\ y.proc = x.proc /\ y.stored = x.stored /\ y.port = x.port /\ y.tev = x.tev
      /\ y.arb = x.arb /\ y.halt = x.halt
  BY <1>1 DEF KernelState
<1> HIDE DEF y
<1>6. Sound(y, NoThread)
  BY <1>1, <1>4, <1>5, SoundSame
<1>7. QueuesOK(y)
  BY <1>5 DEF Good, QueuesOK
<1>8. CoresOK(y) /\ TimersOK(y)
  BY <1>5 DEF Good, Rest, CoresOK, ProcessOf, TimersOK
<1>9. \A u \in Threads : y.wake[u] \in Nat /\ x.wake[u] \in Nat /\ y.wake[u] <= x.wake[u]
  BY <1>1, <1>2, <1>5
<1>10. \A u \in Threads : /\ x.wake[u] <= 1 => y.wake[u] <= 1
                          /\ y.wake[u] > 0 => x.wake[u] > 0
  BY <1>9
<1>11. WakeOK(y) /\ ArbOK(y)
  BY <1>5, <1>10 DEF Good, Rest, WakeOK, ArbOK
<1>12. PortsOK(y)
  <2>1. PortsOK(x)
    BY DEF Good, Rest
  <2> QED BY <1>1, <1>5, <2>1, PortsSame
<1>13. RunKept(x, y, NoThread)
  BY <1>5 DEF RunKept
<1> QED BY <1>2, <1>3, <1>5, <1>6, <1>7, <1>8, <1>11, <1>12, <1>13 DEF Good, Rest

LEMMA ThreadWakeupGood ==
    ASSUME NEW x, Good(x, NoThread), NEW t \in Threads, x.wake[t] > 0
    PROVE  LET y == ThreadWakeupCallback(x, t)
           IN Good(y, NoThread) /\ RunKept(x, y, NoThread)
<1> DEFINE n == x.wake[t] - 1
           a == [x EXCEPT !.wake[t] = n]
           b == WakeUp(a, t, "Timeout", NoThread)
           e == LeaveWaitObjects(b, t)
           s == x.th[t].status
<1>1. x \in KernelState /\ x.wake[t] \in Nat /\ x.wake[t] <= 1
  BY KernelFields DEF Good, Sound, Rest, WakeOK
<1>2. n \in Nat /\ n <= x.wake[t] /\ ~(n > 0)
  BY <1>1
<1>3. ThreadWakeupCallback(x, t) =
        ResumeFromWait(IF s \in SynchStatus \cup {"WaitArb"} THEN e ELSE a, t)
  BY DEF ThreadWakeupCallback
<1> HIDE DEF n
<1>4. /\ Good(a, NoThread) /\ RunKept(x, a, NoThread) /\ a.th = x.th /\ a.arb = x.arb
      /\ a.wake[t] = n
  BY <1>2, WakeTaken
<1> HIDE DEF a
<1>5. a \in KernelState /\ Sound(a, NoThread) /\ Mid(a) /\ ArbOK(a) /\ ThreadsOK(a, NoThread)
  BY <1>4, GoodIsMid DEF Good, Sound
<1>6. s \in WaitStatus \cup {"Ready"} /\ x.th[t].req = NoSession /\ ArbOK(x)
  BY DEF Good, Rest, WakeOK
<1>7. Alive(a, t) /\ a.th[t].req = NoSession
  BY <1>4, <1>6 DEF Alive, WaitStatus, SynchStatus
<1>8. CASE s \notin SynchStatus \cup {"WaitArb"}
  <2>1. t \notin ToSet(a.arb)
    BY <1>4, <1>5, <1>8 DEF ArbOK
  <2>2. Good(ResumeFromWait(a, t), NoThread) /\ RunKept(a, ResumeFromWait(a, t), NoThread)
    <3>1. \A u \in Threads \ {t} :
              /\ a.th[u].status = "WaitArb" <=> u \in ToSet(a.arb)
              /\ a.th[u].status = "WaitArb" /\ a.wake[u] > 0 => a.th[u].cb = "arbiter"
      BY <1>5 DEF ArbOK
    <3> QED BY <1>5, <1>7, <2>1, <3>1, ResumedGood
  <2> QED BY <1>3, <1>4, <1>8, <2>2, RunKeptTransitive
<1>9. CASE s \in SynchStatus \cup {"WaitArb"}
  <2>1. /\ b \in KernelState /\ OnlyContexts(a, b) /\ Elsewhere(a, b)
        /\ b.arb = IF a.th[t].cb = "arbiter" THEN Among(a.arb, ToSet(a.arb) \ {t}) ELSE a.arb
    BY <1>5, WakeUpFrame
  <2> HIDE DEF b
  <2>2. Sound(b, NoThread) /\ SameWaits(a, b)
    BY <1>5, <2>1, ContextsKeep
  <2>3. Sound(e, NoThread) /\ Left(b, e, t) /\ Moved(b, e, NoThread)
    BY <2>2, LeaveKeeps
  <2> HIDE DEF e
  <2>4. e \in KernelState /\ Untouched(b, e) /\ Queued(b, e)
    BY <2>3 DEF Sound, Moved
  <2>5. \A u \in Threads : /\ e.th[u].status = a.th[u].status /\ e.th[u].cb = a.th[u].cb
                           /\ e.th[u].req = a.th[u].req
    BY <2>2, <2>3 DEF SameWaits, Left
  <2>6. QueuesOK(e)
    <3>1. Queued(a, b)
      <4>1. b.rq = a.rq
        BY <2>1 DEF OnlyContexts
      <4>2. \A u \in Threads : b.th[u].status = a.th[u].status /\ b.th[u].current = a.th[u].current
        BY <2>1 DEF OnlyContexts
      <4> QED BY ONLY <4>1, <4>2, QueuesSame
    <3> QED BY <1>5, <2>4, <3>1 DEF Queued, Mid
  <2>7. /\ e.wake = a.wake /\ e.cur = a.cur /\ e.cpu = a.cpu /\ e.proc = a.proc
        /\ e.stored = a.stored /\ e.port = a.port /\ e.tev = a.tev /\ e.running = a.running
        /\ e.arb = b.arb /\ (a.halt => e.halt)
    BY <2>1, <2>4 DEF Elsewhere, Untouched
  <2>8. e.ses = a.ses
    BY <2>1, <2>3 DEF OnlyContexts, Left
  <2>9. Mid(e)
    <3>1. WakeOK(e) /\ CoresOK(e) /\ TimersOK(e)
      BY <1>5, <2>5, <2>7 DEF Mid, WakeOK, CoresOK, ProcessOf, TimersOK
    <3>2. PortsOK(e)
      <4>1. PortsOK(a)
        BY <1>5 DEF Mid
      <4> QED BY <1>5, <2>7, <2>8, <4>1, PortsSame
    <3> QED BY <2>3, <2>6, <3>1, <3>2 DEF Mid
  <2>10. RunKept(a, e, NoThread)
    BY <2>5, <2>7 DEF RunKept
  <2>11. a.arb \in Seq(Threads)
    BY <1>5, KernelFields
  <2>12. ToSet(Among(a.arb, ToSet(a.arb) \ {t})) = ToSet(a.arb) \ {t}
    BY <2>11, AmongSet
  <2>13. t \notin ToSet(e.arb)
    <3>1. CASE s = "WaitArb"
      <4>1. a.th[t].cb = "arbiter"
        BY <1>4, <1>6, <3>1 DEF ArbOK
      <4> QED BY <2>1, <2>7, <2>12, <4>1
    <3>2. CASE s # "WaitArb"
      <4>1. t \notin ToSet(a.arb)
        BY <1>4, <1>5, <3>2 DEF ArbOK
      <4> QED BY <2>1, <2>7, <2>12, <4>1
    <3> QED BY <3>1, <3>2
  <2>14. \A u \in Threads \ {t} : u \in ToSet(e.arb) <=> u \in ToSet(a.arb)
    BY <2>1, <2>7, <2>12
  <2>15. \A u \in Threads \ {t} :
              /\ e.th[u].status = "WaitArb" <=> u \in ToSet(e.arb)
              /\ e.th[u].status = "WaitArb" /\ e.wake[u] > 0 => e.th[u].cb = "arbiter"
    BY <1>5, <2>5, <2>7, <2>14 DEF ArbOK
  <2>16. Alive(e, t) /\ e.th[t].req = NoSession
    BY <1>7, <2>5 DEF Alive
  <2>17. Good(ResumeFromWait(e, t), NoThread) /\ RunKept(e, ResumeFromWait(e, t), NoThread)
    BY <2>9, <2>13, <2>15, <2>16, ResumedGood
  <2> QED BY <1>3, <1>4, <1>9, <2>10, <2>17, RunKeptTransitive
<1> QED BY <1>8, <1>9


-----------------------------------------------------------------------------
(* Setting the parts of the state that belong to threads.                  *)

Put(x, T, R, W, A, G) == [x EXCEPT !.th = T, !.rq = R, !.wake = W, !.arb = A, !.reg = G]

LEMMA PutIs ==
    ASSUME NEW x \in KernelState, NEW T \in [Threads -> ThreadRec], NEW R \in RqMap,
           NEW W \in [Threads -> Nat], NEW A \in Seq(Threads), NEW G \in [Cores -> Result]
    PROVE  LET y == Put(x, T, R, W, A, G)
           IN /\ y \in KernelState
              /\ y.th = T /\ y.rq = R /\ y.wake = W /\ y.arb = A /\ y.reg = G
              /\ y.wl = x.wl /\ y.mx = x.mx /\ y.ses = x.ses /\ y.cur = x.cur /\ y.cpu = x.cpu
              /\ y.running = x.running /\ y.proc = x.proc /\ y.stored = x.stored
              /\ y.port = x.port /\ y.tev = x.tev /\ y.halt = x.halt /\ y.sem = x.sem
              /\ y.exited = x.exited
<1> DEFINE a == [x EXCEPT !.th = T]
           b == [a EXCEPT !.rq = R]
           c == [b EXCEPT !.wake = W]
           d == [c EXCEPT !.arb = A]
           y == [d EXCEPT !.reg = G]
<1>1. a \in KernelState
  <2>1. T \in ThMap
    BY DEF ThMap
  <2> QED BY <2>1, Put_th
<1>2. b \in KernelState
  <2> HIDE DEF a
  <2> QED BY <1>1, Put_rq
<1>3. c \in KernelState
  <2> HIDE DEF b
  <2> QED BY <1>2, Put_wake
<1>4. d \in KernelState
  <2> HIDE DEF c
  <2> QED BY <1>3, Put_arb
<1>5. y \in KernelState
  <2> HIDE DEF d
  <2> QED BY <1>4, Put_reg
<1>6. Put(x, T, R, W, A, G) = y
  BY DEF Put
<1>7. /\ y.th = T /\ y.rq = R /\ y.wake = W /\ y.arb = A /\ y.reg = G
      /\ y.wl = x.wl /\ y.mx = x.mx /\ y.ses = x.ses /\ y.cur = x.cur /\ y.cpu = x.cpu
      /\ y.running = x.running /\ y.proc = x.proc /\ y.stored = x.stored
      /\ y.port = x.port /\ y.tev = x.tev /\ y.halt = x.halt /\ y.sem = x.sem
      /\ y.exited = x.exited
  BY DEF KernelState
<1> HIDE DEF y
<1> QED BY <1>5, <1>6, <1>7

\* No thread starts running.
LEMMA PutRest ==
    ASSUME NEW x, NEW d, Good(x, d), NEW y, y.cur = x.cur, y.cpu = x.cpu, y.proc = x.proc,
           y.stored = x.stored, y.port = x.port, y.tev = x.tev, y.ses = x.ses,
           \A u \in Threads : y.th[u].status = "Running" => x.th[u].status = "Running"
    PROVE  CoresOK(y) /\ PortsOK(y) /\ TimersOK(y)
<1>1. CoresOK(y) /\ TimersOK(y)
  BY DEF Good, Rest, CoresOK, ProcessOf, TimersOK
<1>2. x \in KernelState /\ PortsOK(x)
  BY DEF Good, Sound, Rest
<1>3. PortsOK(y)
  BY <1>2, PortsSame
<1> QED BY <1>1, <1>3

-----------------------------------------------------------------------------
(* Stopping a thread.                                                      *)

\* A thread is taken off its level when it is no longer ready.
Unqueued(th, q, t, r) ==
    IF th[t].status = "Ready" THEN Removed(q, th[t].current, t, r) ELSE r = q

LEMMA UnreadyQueue ==
    ASSUME NEW c, NEW q \in QueueList(ThreadsOf(c)), NEW t \in ThreadsOf(c), NEW th, NEW th2,
           th[t].current \in Priority, th2[t].status # "Ready", th[t].status # "NotCreated",
           Changed(th, th2, c, t, th2[t].status, th[t].current), QueueOK(th, c, q),
           NEW r, Unqueued(th, q, t, r)
    PROVE  QueueOK(th2, c, r)
<1> DEFINE p == th[t].current
<1>1. SameLinks(q, r)
  BY DEF Removed, SameLinks, Unqueued
<1>2. Sorted(r) /\ Linked(r) = Linked(q)
  BY <1>1, LinksSame DEF QueueOK
<1>3. Distinct(r)
  BY DEF QueueOK, Removed, Unqueued
<1>4. ASSUME NEW u \in ThreadsOf(c)
      PROVE  /\ \A l \in Priority : u \in ToSet(r.data[l]) <=> th2[u].status = "Ready" /\ th2[u].current = l
             /\ th2[u].status # "NotCreated" => th2[u].current \in Linked(r)
  <2>1. /\ \A l \in Priority : u \in ToSet(q.data[l]) <=> th[u].status = "Ready" /\ th[u].current = l
        /\ th[u].status # "NotCreated" => th[u].current \in Linked(q)
    BY DEF QueueOK
  <2>2. CASE u = t
    <3>1. \A l \in Priority : t \notin ToSet(r.data[l])
      BY <2>1, <2>2 DEF Removed, Unqueued
    <3> QED BY <1>2, <2>1, <2>2, <3>1 DEF Changed
  <2>3. CASE u # t
    <3>1. \A l \in Priority : u \in ToSet(r.data[l]) <=> u \in ToSet(q.data[l])
      BY <2>3 DEF Removed, Unqueued
    <3> QED BY <1>2, <2>1, <2>3, <3>1 DEF Changed
  <2> QED BY <2>2, <2>3
<1> QED BY <1>2, <1>3, <1>4 DEF QueueOK


\* The first part of Stop: t is dead, but still has its mutexes and wait objects.
Killed(x, t) ==
    [CancelWakeup(x, t) EXCEPT
        !.rq[CoreOf[t]] = IF x.th[t].status = "Ready"
                          THEN remove(@, x.th[t].current, t) ELSE @,
        !.th[t].status = "Dead"]

LEMMA KilledGood ==
    ASSUME NEW x, Good(x, NoThread), NEW t \in Threads, Alive(x, t),
           x.th[t].status \notin {"WaitArb", "WaitIPC"}
    PROVE  LET y == Killed(x, t)
           IN /\ Good(y, t) /\ RunKept(x, y, t) /\ y.th[t].status = "Dead"
              /\ y.mx = x.mx /\ y.th[t].held = x.th[t].held
<1> DEFINE c == CoreOf[t]
           q == IF x.th[t].status = "Ready" THEN remove(x.rq[c], x.th[t].current, t) ELSE x.rq[c]
           r == [x.th[t] EXCEPT !.status = "Dead"]
           T == [x.th EXCEPT ![t] = r]
           R == [x.rq EXCEPT ![c] = q]
           W == [x.wake EXCEPT ![t] = 0]
           y == Put(x, T, R, W, x.arb, x.reg)
<1>1. /\ x \in KernelState /\ Sound(x, NoThread) /\ QueuesOK(x)
      /\ ArbOK(x) /\ WakeOK(x) /\ ThreadsOK(x, NoThread)
  BY DEF Good, Sound, Rest
<1>2. /\ x.th \in [Threads -> ThreadRec] /\ x.th[t] \in ThreadRec /\ x.rq \in RqMap
      /\ x.wake \in [Threads -> Nat] /\ x.arb \in Seq(Threads) /\ x.reg \in [Cores -> Result]
  BY <1>1, ThType, KernelFields
<1>3. /\ c \in Cores /\ t \in ThreadsOf(c) /\ x.rq[c] \in QueueList(ThreadsOf(c))
  BY <1>1, RqOf
<1>4. x.th[t].current \in Priority
  BY <1>2, ThreadFields
<1>5. Killed(x, t) = y
  BY <1>1 DEF Killed, CancelWakeup, Put, KernelState
<1>6. r \in ThreadRec
  <2>1. "Dead" \in Status
    BY DEF Status
  <2> QED BY <1>2, <2>1, Thread_status
<1>7. /\ r.status = "Dead" /\ r.held = x.th[t].held /\ r.cb = x.th[t].cb
      /\ r.req = x.th[t].req /\ r.waitObjs = x.th[t].waitObjs /\ r.pending = x.th[t].pending
      /\ r.nominal = x.th[t].nominal /\ r.current = x.th[t].current
  BY <1>2 DEF ThreadRec
<1>8. q \in QueueList(ThreadsOf(c))
  BY <1>3, <1>4, RemoveType
<1>9. x.th[t].status = "Ready" => Removed(x.rq[c], x.th[t].current, t, q)
  BY <1>3, <1>4, RemoveIs
<1>10. x.th[t].status # "Ready" => q = x.rq[c]
  OBVIOUS
<1>11. T \in [Threads -> ThreadRec] /\ T[t] = r /\ \A u \in Threads \ {t} : T[u] = x.th[u]
  BY <1>2, <1>6
<1>12. W \in [Threads -> Nat] /\ W[t] = 0 /\ \A u \in Threads \ {t} : W[u] = x.wake[u]
  BY <1>2
<1>13. R \in RqMap
  BY <1>2, <1>3, <1>8, RqPut
<1> HIDE DEF c, q, r, T, W
<1>14. /\ y \in KernelState /\ y.th = T /\ y.rq = R /\ y.wake = W /\ y.arb = x.arb
       /\ y.wl = x.wl /\ y.mx = x.mx /\ y.ses = x.ses /\ y.cur = x.cur /\ y.cpu = x.cpu
       /\ y.running = x.running /\ y.proc = x.proc /\ y.stored = x.stored
       /\ y.port = x.port /\ y.tev = x.tev /\ y.halt = x.halt
  <2> HIDE DEF R
  <2>1. x \in KernelState /\ T \in [Threads -> ThreadRec] /\ W \in [Threads -> Nat]
    BY <1>1, <1>11, <1>12
  <2>2. x.arb \in Seq(Threads) /\ x.reg \in [Cores -> Result]
    BY <1>2
  <2> QED BY ONLY <1>13, <2>1, <2>2, PutIs, SMTT(20)
<1> HIDE DEF y
<1>15. \A u \in Threads :
          /\ y.th[u].held = x.th[u].held /\ y.th[u].cb = x.th[u].cb /\ y.th[u].req = x.th[u].req
          /\ y.th[u].waitObjs = x.th[u].waitObjs /\ y.th[u].pending = x.th[u].pending
          /\ y.th[u].nominal = x.th[u].nominal /\ y.th[u].current = x.th[u].current
  BY <1>7, <1>11, <1>14
<1>16. y.th[t].status = "Dead" /\ \A u \in Threads \ {t} : y.th[u] = x.th[u]
  BY <1>7, <1>11, <1>14
<1>17. ListsOK(y, NoThread, {})
  BY <1>1, <1>14, <1>15, ListsSame DEF Sound
<1>18. MutexOK(y, t)
  BY <1>1, <1>14, <1>15, <1>16, NotNoThread DEF Sound, MutexOK, Alive
<1>19. PrioOK(y, {t})
  <2> SUFFICES ASSUME NEW u \in Threads \ {t}, Alive(y, u) PROVE y.th[u].current = Inherited(y, u)
    BY DEF PrioOK
  <2>1. y.th[u] = x.th[u] /\ y.mx = x.mx
    BY <1>14, <1>16
  <2>2. Inherited(y, u) = Inherited(x, u)
    BY ONLY <2>1 DEF Inherited
  <2> QED BY <1>1, <2>1, <2>2, NotNoThread DEF Sound, PrioOK, Alive
<1>20. x.th[t].req = NoSession
  BY <1>1 DEF ThreadsOK
<1>21. ThreadsOK(y, t)
  BY <1>1, <1>15, <1>16, <1>20, NotNoThread DEF ThreadsOK, Sync
<1>22. SessionsOK(y)
  <2>1. SessionsOK(x) /\ y.ses = x.ses
    BY <1>1, <1>14 DEF Sound
  <2>2. \A u \in Threads : /\ y.th[u].req = x.th[u].req
                           /\ x.th[u].status = "WaitIPC" => y.th[u].status = "WaitIPC"
    BY <1>15, <1>16
  <2> QED BY <1>1, <2>1, <2>2, SessionsSame
<1>23. Sound(y, t)
  BY <1>14, <1>17, <1>18, <1>19, <1>21, <1>22 DEF Sound
<1>24. QueuesOK(y)
  <2>1. Changed(x.th, y.th, c, t, y.th[t].status, x.th[t].current) /\ y.th[t].status # "Ready"
    BY <1>3, <1>15, <1>16 DEF Changed, ThreadsOf
  <2>2. QueueOK(x.th, c, x.rq[c]) => QueueOK(y.th, c, q)
    <3> SUFFICES ASSUME QueueOK(x.th, c, x.rq[c]) PROVE QueueOK(y.th, c, q)
      OBVIOUS
    <3>1. x.th[t].status # "NotCreated"
      BY DEF Alive
    <3>2. Unqueued(x.th, x.rq[c], t, q)
      BY <1>9, <1>10 DEF Unqueued
    <3> QED BY <1>3, <1>4, <2>1, <3>1, <3>2, UnreadyQueue
  <2>3. \A u \in Threads \ ThreadsOf(c) : /\ y.th[u].status = x.th[u].status
                                          /\ y.th[u].current = x.th[u].current
    BY <1>3, <1>16
  <2>4. Queued(x, y)
    BY <1>1, <1>3, <1>14, <2>2, <2>3, QueuePut DEF R
  <2> QED BY <1>1, <2>4 DEF Queued
<1>25. ArbOK(y)
  BY <1>1, <1>12, <1>14, <1>16 DEF ArbOK
<1>26. WakeOK(y)
  BY <1>1, <1>12, <1>14, <1>16 DEF WakeOK
<1>27. CoresOK(y) /\ PortsOK(y) /\ TimersOK(y)
  BY <1>14, <1>16, PutRest
<1>28. RunKept(x, y, t)
  BY <1>14, <1>16 DEF RunKept
<1> QED BY <1>5, <1>14, <1>15, <1>16, <1>23, <1>24, <1>25, <1>26, <1>27, <1>28 DEF Good, Rest

LEMMA StopGood ==
    ASSUME NEW x, Good(x, NoThread), NEW t \in Threads, Alive(x, t),
           x.th[t].status \notin {"WaitArb", "WaitIPC"},
           NEW order, Listing(order, x.th[t].held)
    PROVE  Good(Stop(x, t, order), NoThread) /\ RunKept(x, Stop(x, t, order), t)
<1> DEFINE a == Killed(x, t)
           b == WakeupAllWaitingThreads(a, t)
           e == LeaveWaitObjects(b, t)
           y == ReleaseThreadMutexes(e, t, order)
<1>1. Stop(x, t, order) = y
  BY DEF Stop, Killed
<1>2. /\ Good(a, t) /\ RunKept(x, a, t) /\ a.th[t].status = "Dead"
      /\ a.mx = x.mx /\ a.th[t].held = x.th[t].held
  BY KilledGood
<1> HIDE DEF a
<1>3. t \in WaitObject /\ Stopping(a, t, t)
  BY <1>2, NotNoThread DEF Stopping
<1>4. Good(b, t) /\ Moved(a, b, NoThread) /\ RunKept(a, b, NoThread)
  BY <1>2, <1>3, WakeupGood
<1> HIDE DEF b
<1>5. Sound(e, t) /\ Left(b, e, t) /\ Moved(b, e, NoThread)
  BY <1>4, LeaveKeeps DEF Good
<1> HIDE DEF e
<1>6. Good(e, t) /\ RunKept(b, e, NoThread)
  BY <1>4, <1>5, GoodMoved
<1>7. ~Sync(a, t) /\ b.th[t].status = "Dead" /\ b.th[t].held = x.th[t].held
  BY <1>2, <1>4, StatusIs, NotNoThread DEF Moved, ThreadsMoved, Sync
<1>8. Exited(e, t) /\ e.th[t].held = x.th[t].held
  BY <1>5, <1>7 DEF Left, Exited
<1>9. \A m \in e.th[t].held : e.mx[m].holder = t
  <2>1. x \in KernelState /\ MutexOK(x, NoThread)
    BY DEF Good, Sound
  <2>2. x.th[t].held \subseteq Mutexes
    BY <2>1, ThType, ThreadFields
  <2>3. \A m \in x.th[t].held : x.mx[m].holder = t
    BY <2>1, <2>2, NotNoThread DEF MutexOK
  <2>4. \A m \in x.th[t].held : b.mx[m].holder = t
    BY <1>2, <1>4, <2>2, <2>3, NotNoThread DEF Moved, ObjectsMoved
  <2> QED BY <1>5, <1>8, <2>2, <2>4 DEF Left
<1>10. Good(y, NoThread) /\ RunKept(e, y, NoThread)
  BY <1>6, <1>8, <1>9, ReleaseAllGood
<1> HIDE DEF y
<1>11. RunKept(a, y, NoThread)
  BY <1>4, <1>6, <1>10, RunKeptTransitive
<1>12. RunKept(a, y, t)
  BY <1>11, RunKeptWeaken
<1> QED BY <1>1, <1>2, <1>10, <1>12, RunKeptTransitive

\* Every finite set has listings, which are what SetToSeqs and SetToSeq give.
LEMMA ListingIs ==
    ASSUME NEW S, IsFiniteSet(S)
    PROVE  Listing(SetToSeq(S), S) /\ \A order \in SetToSeqs(S) : Listing(order, S)
<1> DEFINE n == Cardinality(S)
<1>1. n \in Nat /\ ExistsBijection(1 .. n, S)
  BY FS_CardinalityType
<1>2. IsFiniteSet(1 .. n) /\ Cardinality(1 .. n) = n
  BY <1>1, FS_Interval
<1> HIDE DEF n
<1>3. ASSUME NEW f \in [1 .. n -> S], IsInjective(f) PROVE Listing(f, S)
  <2>1. f \in Injection(1 .. n, S)
    BY <1>3 DEF Injection
  <2>2. f \in Surjection(1 .. n, S)
    BY <1>2, <2>1, FS_Injection DEF n
  <2>3. ToSet(f) = S
    BY <2>2 DEF Surjection, ToSet
  <2>4. f \in Seq(S)
    BY <1>1, <1>3
  <2> QED BY <1>3, <2>3, <2>4 DEF Listing
<1>4. Listing(SetToSeq(S), S)
  <2>1. \E f \in [1 .. n -> S] : IsInjective(f)
    BY <1>1 DEF ExistsBijection, Bijection, Injection
  <2>2. SetToSeq(S) \in [1 .. n -> S] /\ IsInjective(SetToSeq(S))
    BY <2>1 DEF SetToSeq, n
  <2> QED BY <1>3, <2>2
<1>5. ASSUME NEW order \in SetToSeqs(S) PROVE Listing(order, S)
  <2>1. order \in [1 .. n -> S] /\ \A i, j \in 1 .. n : i # j => order[i] # order[j]
    BY DEF SetToSeqs, n
  <2>2. IsInjective(order)
    BY <2>1 DEF IsInjective
  <2> QED BY <1>3, <2>1, <2>2
<1> QED BY <1>4, <1>5


\* Of the running threads only t may stop.
GoesOn(x, y, t) ==
    /\ y.cpu = x.cpu /\ y.running = x.running /\ y.cur = x.cur
    /\ x.halt => y.halt
    /\ \A u \in Threads \ {t} : x.th[u].status = "Running" => y.th[u].status = "Running"

LEMMA GoesOnIs ==
    ASSUME NEW x, NEW y, NEW t, RunKept(x, y, t)
    PROVE  GoesOn(x, y, t)
  BY DEF RunKept, GoesOn

LEMMA GoesOnTransitive ==
    ASSUME NEW x, NEW y, NEW z, NEW t, GoesOn(x, y, t), GoesOn(y, z, t)
    PROVE  GoesOn(x, z, t)
  BY DEF GoesOn

\* The threads that ExitProcess stops.
Stoppable == SynchStatus \cup {"Ready"}

ExitStep(p, i, x) == StopProcessThread(x, p[1][i])
ExitHolds(p, i, x) ==
    /\ Good(x, NoThread) /\ GoesOn(p[2], x, NoThread)
    /\ \A j \in 1 .. Len(p[1]) : j > i => x.th[p[1][j]].status \in Stoppable

Exiting == INSTANCE Loop WITH Step <- ExitStep, Holds <- ExitHolds

LEMMA StopOtherGood ==
    ASSUME NEW x, Good(x, NoThread), NEW u \in Threads, x.th[u].status \in Stoppable
    PROVE  LET y == StopProcessThread(x, u)
           IN /\ Good(y, NoThread) /\ RunKept(x, y, u)
              /\ \A v \in Threads \ {u} : x.th[v].status \in Stoppable => y.th[v].status \in Stoppable
<1> DEFINE cond == x.th[u].status \in {"WaitSynchAny", "WaitSynchAll"}
           a == Assert_(x, cond, "ThreadNotWaiting")
           order == SetToSeq(x.th[u].held)
           y == Stop(a, u, order)
<1>1. StopProcessThread(x, u) = y
  BY DEF StopProcessThread
<1>2. x \in KernelState
  BY DEF Good, Sound
<1>3. Asserted(x, a)
  <2> DEFINE name == "ThreadNotWaiting"
  <2>1. a = x \/ a = Failed(x, name)
    BY DEF Assert_, Failed
  <2>2. name \in Assertions
    BY DEF Assertions
  <2> HIDE DEF a, name
  <2> QED BY <1>2, <2>1, <2>2, AssertFrame
<1> HIDE DEF a
<1>4. Good(a, NoThread) /\ RunKept(x, a, NoThread) /\ a.th = x.th
  BY <1>3, AssertedGood DEF Asserted
<1>5. Listing(order, a.th[u].held)
  <2>1. x.th[u].held \subseteq Mutexes /\ IsFiniteSet(Mutexes)
    BY <1>2, ThType, ThreadFields, KernelAssumption
  <2>2. IsFiniteSet(x.th[u].held)
    BY <2>1, FS_Subset
  <2> QED BY <1>4, <2>2, ListingIs
<1> HIDE DEF order
<1>6. Alive(a, u) /\ a.th[u].status \notin {"WaitArb", "WaitIPC"}
  BY <1>4 DEF Alive, Stoppable, SynchStatus
<1>7. Good(y, NoThread) /\ RunKept(a, y, u)
  BY <1>4, <1>5, <1>6, StopGood
<1> HIDE DEF y
<1>8. RunKept(x, y, u)
  BY <1>4, <1>7, RunKeptWeaken, RunKeptTransitive
<1>9. \A v \in Threads \ {u} : x.th[v].status \in Stoppable => y.th[v].status \in Stoppable
  BY <1>8 DEF RunKept, Stoppable
<1> QED BY <1>1, <1>7, <1>8, <1>9

LEMMA StopOthersGood ==
    ASSUME NEW x, Good(x, NoThread), NEW S \in SUBSET Threads, NEW list, Listing(list, S),
           \A u \in S : x.th[u].status \in SynchStatus
    PROVE  LET y == ForEach(StopProcessThread, x, list)
           IN Good(y, NoThread) /\ GoesOn(x, y, NoThread)
<1> DEFINE p == <<list, x>>
           n == Len(list)
           f == Exiting!Run(p, x, n)
           y == f[n]
<1>1. ForEach(StopProcessThread, x, list) = y
  BY DEF ForEach, Exiting!Run, ExitStep
<1>2. /\ n \in Nat /\ DOMAIN list = 1 .. n /\ \A i \in 1 .. n : list[i] \in S
      /\ \A i, j \in 1 .. n : list[i] = list[j] => i = j
  BY DEF Listing, IsInjective
<1>3. p[1] = list /\ p[2] = x /\ Len(p[1]) = n
  OBVIOUS
<1> HIDE DEF p, f, n
<1>4. ExitHolds(p, 0, x)
  BY <1>2, <1>3 DEF ExitHolds, GoesOn, Stoppable
<1>5. ASSUME NEW i \in 1 .. n, NEW z, ExitHolds(p, i - 1, z)
      PROVE  ExitHolds(p, i, ExitStep(p, i, z))
  <2> DEFINE w == ExitStep(p, i, z)
             u == list[i]
  <2>1. /\ Good(z, NoThread) /\ GoesOn(x, z, NoThread)
        /\ \A j \in 1 .. n : j > i - 1 => z.th[list[j]].status \in Stoppable
    BY <1>3, <1>5 DEF ExitHolds
  <2>2. w = StopProcessThread(z, u)
    BY <1>3 DEF ExitStep
  <2>3. u \in Threads /\ z.th[u].status \in Stoppable
    <3>1. i > i - 1
      OBVIOUS
    <3> QED BY <1>2, <2>1, <3>1
  <2> HIDE DEF w
  <2>4. /\ Good(w, NoThread) /\ RunKept(z, w, u)
        /\ \A v \in Threads \ {u} : z.th[v].status \in Stoppable => w.th[v].status \in Stoppable
    BY <2>1, <2>2, <2>3, StopOtherGood
  <2>5. GoesOn(x, w, NoThread)
    <3>1. z.th[u].status # "Running"
      BY <2>3, StatusIs DEF Stoppable
    <3> QED BY <2>1, <2>4, <3>1, NotNoThread DEF GoesOn, RunKept
  <2>6. ASSUME NEW j \in 1 .. n, j > i PROVE w.th[list[j]].status \in Stoppable
    <3>1. j # i /\ j > i - 1
      BY <2>6
    <3>2. list[j] \in Threads \ {u}
      BY <1>2, <3>1
    <3> QED BY <2>1, <2>4, <3>1, <3>2
  <2> QED BY <1>3, <2>4, <2>5, <2>6 DEF ExitHolds, w
<1>6. \A i \in 0 .. n : ExitHolds(p, i, f[i])
  <2>1. \A i \in 1 .. n : \A z : ExitHolds(p, i - 1, z) => ExitHolds(p, i, ExitStep(p, i, z))
    BY <1>5
  <2> QED BY <1>2, <1>4, <2>1, Exiting!LoopInvariant DEF f
<1>7. ExitHolds(p, n, y)
  BY <1>2, <1>6
<1> HIDE DEF y
<1> QED BY <1>1, <1>3, <1>7 DEF ExitHolds


-----------------------------------------------------------------------------
(* The address arbiter.                                                    *)

LEMMA ArbAssertGood ==
    ASSUME NEW x, Good(x, NoThread)
    PROVE  /\ Asserted(x, ArbAssert(x)) /\ Good(ArbAssert(x), NoThread)
           /\ RunKept(x, ArbAssert(x), NoThread)
<1> DEFINE cond == \A u \in ToSet(x.arb) : x.th[u].status = "WaitArb"
           name == "InconsistentArbiterState"
           y == Assert_(x, cond, name)
<1>1. ArbAssert(x) = y
  BY DEF ArbAssert
<1>2. y = x \/ y = Failed(x, name)
  BY DEF Assert_, Failed
<1>3. name \in Assertions /\ x \in KernelState
  BY DEF Assertions, Good, Sound
<1> HIDE DEF y, name
<1>4. Asserted(x, y)
  BY <1>2, <1>3, AssertFrame
<1> QED BY <1>1, <1>4, AssertedGood

LEMMA ArbLists ==
    ASSUME NEW x \in KernelState, NEW a
    PROVE  /\ x.arb \in Seq(Threads)
           /\ ArbWaiting(x, a) \in Seq(Threads) /\ ArbOthers(x, a) \in Seq(Threads)
           /\ ToSet(ArbWaiting(x, a)) = ToSet(x.arb) \cap {u \in Threads : x.th[u].addr = a}
           /\ ToSet(ArbOthers(x, a)) = ToSet(x.arb) \cap {u \in Threads : x.th[u].addr # a}
           /\ ToSet(x.arb) \subseteq Threads
  BY KernelFields, AmongSet, ToSetType DEF ArbWaiting, ArbOthers

WakeAllStep(p, i, x) == ResumeFromWait(x, p[1][i])
WakeAllHolds(p, i, x) ==
    /\ Mid(x) /\ RunKept(p[2], x, NoThread) /\ x.arb = p[2].arb /\ x.wake = p[2].wake
    /\ \A u \in Threads : IF \E j \in 1 .. i : p[1][j] = u THEN x.th[u].status = "Ready"
                          ELSE x.th[u] = p[2].th[u]

WakingAll == INSTANCE Loop WITH Step <- WakeAllStep, Holds <- WakeAllHolds

LEMMA ResumeAllGood ==
    ASSUME NEW x, Good(x, NoThread), NEW a
    PROVE  LET y == ResumeAllThreads(x, a)
           IN Good(y, NoThread) /\ RunKept(x, y, NoThread)
<1> DEFINE b == ArbAssert(x)
           m == ArbWaiting(x, a)
           A == ArbOthers(x, a)
           p == <<m, b>>
           n == Len(m)
           f == WakingAll!Run(p, b, n)
           e == f[n]
           y == [e EXCEPT !.arb = A]
<1>1. ResumeAllThreads(x, a) = y
  BY DEF ResumeAllThreads, ForEach, WakingAll!Run, WakeAllStep
<1>2. x \in KernelState /\ ArbOK(x)
  BY DEF Good, Sound, Rest
<1>3. /\ x.arb \in Seq(Threads) /\ m \in Seq(Threads) /\ A \in Seq(Threads)
      /\ ToSet(m) = ToSet(x.arb) \cap {u \in Threads : x.th[u].addr = a}
      /\ ToSet(A) = ToSet(x.arb) \cap {u \in Threads : x.th[u].addr # a}
      /\ ToSet(x.arb) \subseteq Threads
  BY <1>2, ArbLists
<1>4. Asserted(x, b) /\ Good(b, NoThread) /\ RunKept(x, b, NoThread)
  BY ArbAssertGood
<1>5. p[1] = m /\ p[2] = b /\ Len(p[1]) = n
  OBVIOUS
<1> HIDE DEF b, m, A, p, f
<1>6. b.th = x.th /\ b.arb = x.arb /\ b.wake = x.wake
  BY <1>4 DEF Asserted, Untouched
<1>7. /\ n \in Nat /\ DOMAIN m = 1 .. n /\ \A i \in 1 .. n : m[i] \in ToSet(m) /\ m[i] \in Threads
      /\ \A u \in ToSet(m) : \E i \in 1 .. n : m[i] = u
  <2>1. m \in Seq(Threads)
    BY <1>3
  <2>2. n \in Nat /\ DOMAIN m = 1 .. n /\ \A i \in 1 .. n : m[i] \in Threads
    BY ONLY <2>1
  <2>3. ToSet(m) = {m[i] : i \in DOMAIN m}
    BY DEF ToSet
  <2> HIDE DEF n
  <2> QED BY ONLY <2>2, <2>3
<1> HIDE DEF n
<1>8. WakeAllHolds(p, 0, b)
  BY <1>4, <1>5, GoodIsMid, RunKeptItself DEF WakeAllHolds
<1>9. ASSUME NEW i \in 1 .. n, NEW z, WakeAllHolds(p, i - 1, z)
      PROVE  WakeAllHolds(p, i, WakeAllStep(p, i, z))
  <2> DEFINE w == WakeAllStep(p, i, z)
             t == m[i]
  <2>1. /\ Mid(z) /\ RunKept(b, z, NoThread) /\ z.arb = b.arb /\ z.wake = b.wake
        /\ \A u \in Threads : IF \E j \in 1 .. (i - 1) : m[j] = u THEN z.th[u].status = "Ready"
                              ELSE z.th[u] = b.th[u]
    BY <1>5, <1>9 DEF WakeAllHolds
  <2>2. t \in Threads /\ b.th[t].status = "WaitArb"
    BY <1>2, <1>3, <1>6, <1>7 DEF ArbOK
  <2>3. z.th[t].status \in {"Ready", "WaitArb"} /\ z \in KernelState /\ ThreadsOK(z, NoThread)
    BY <2>1, <2>2 DEF Mid, Sound
  <2>4. Alive(z, t) /\ z.th[t].req = NoSession /\ z.th[t].waitObjs = <<>>
    BY <2>2, <2>3, StatusIs, NotNoThread DEF Alive, ThreadsOK, Sync
  <2>5. w = ResumeFromWait(z, t)
    BY <1>5 DEF WakeAllStep
  <2> HIDE DEF w
  <2>6. Resumed(z, w, t)
    BY <2>2, <2>3, <2>5, ResumeFrame
  <2>7. Mid(w) /\ RunKept(z, w, NoThread)
    BY <2>1, <2>2, <2>4, <2>6, ResumedMid
  <2>8. w.th[t].status = "Ready"
    BY <2>3, <2>4, <2>6 DEF Resumed, Resumable
  <2>9. w.arb = z.arb /\ w.wake = z.wake /\ \A u \in Threads \ {t} : w.th[u] = z.th[u]
    BY <2>6 DEF Resumed, Untouched
  <2>10. \A u : (\E j \in 1 .. i : m[j] = u) <=> u = t \/ (\E j \in 1 .. (i - 1) : m[j] = u)
    <3>1. \A j \in 1 .. i : j = i \/ j \in 1 .. (i - 1)
      OBVIOUS
    <3>2. i \in 1 .. i /\ \A j \in 1 .. (i - 1) : j \in 1 .. i
      OBVIOUS
    <3> QED BY <3>1, <3>2
  <2>11. RunKept(b, w, NoThread)
    BY <2>1, <2>7, RunKeptTransitive
  <2>12. \A u \in Threads : IF \E j \in 1 .. i : m[j] = u THEN w.th[u].status = "Ready"
                            ELSE w.th[u] = b.th[u]
    BY <2>1, <2>8, <2>9, <2>10
  <2> QED BY <1>5, <2>1, <2>7, <2>9, <2>11, <2>12 DEF WakeAllHolds, w
<1>10. \A i \in 0 .. n : WakeAllHolds(p, i, f[i])
  <2>1. \A i \in 1 .. n : \A z : WakeAllHolds(p, i - 1, z) => WakeAllHolds(p, i, WakeAllStep(p, i, z))
    BY <1>9
  <2> QED BY <1>7, <1>8, <2>1, WakingAll!LoopInvariant DEF f
<1>11. WakeAllHolds(p, n, e)
  BY <1>7, <1>10
<1> HIDE DEF e
<1>12. /\ Mid(e) /\ RunKept(b, e, NoThread) /\ e.wake = b.wake
       /\ \A u \in Threads : IF u \in ToSet(m) THEN e.th[u].status = "Ready" ELSE e.th[u] = b.th[u]
  <2>1. \A u : (\E j \in 1 .. n : m[j] = u) <=> u \in ToSet(m)
    BY <1>7
  <2> QED BY <1>5, <1>11, <2>1 DEF WakeAllHolds
<1>13. \A t \in Threads :
          /\ e.th[t].status = "WaitArb" <=> t \in ToSet(A)
          /\ e.th[t].status = "WaitArb" /\ e.wake[t] > 0 => e.th[t].cb = "arbiter"
  BY <1>2, <1>3, <1>6, <1>12 DEF ArbOK
<1>14. Good(y, NoThread) /\ RunKept(e, y, NoThread)
  BY <1>3, <1>12, <1>13, MidArb
<1> HIDE DEF y
<1> QED BY <1>1, <1>4, <1>12, <1>14, RunKeptTransitive

LEMMA ResumeMatchGood ==
    ASSUME NEW x, Good(x, NoThread), NEW a, NEW t \in ToSet(ArbWaiting(x, a))
    PROVE  LET y == ResumeMatch(x, a, ArbWaiting(x, a), t)
           IN Good(y, NoThread) /\ RunKept(x, y, NoThread)
<1> DEFINE m == ArbWaiting(x, a)
           o == ArbOthers(x, a)
           i == Among(m, ToSet(m) \ {t})
           A == o \o i
           e == ResumeFromWait(x, t)
           y == [e EXCEPT !.arb = A]
<1>1. ResumeMatch(x, a, m, t) = y
  BY DEF ResumeMatch
<1>2. x \in KernelState /\ ArbOK(x) /\ Mid(x) /\ ThreadsOK(x, NoThread)
  BY GoodIsMid DEF Good, Sound, Rest
<1>3. /\ m \in Seq(Threads) /\ o \in Seq(Threads)
      /\ ToSet(m) = ToSet(x.arb) \cap {u \in Threads : x.th[u].addr = a}
      /\ ToSet(o) = ToSet(x.arb) \cap {u \in Threads : x.th[u].addr # a}
      /\ ToSet(x.arb) \subseteq Threads /\ t \in ToSet(m)
  BY <1>2, ArbLists
<1> HIDE DEF m, o
<1>4. i \in Seq(Threads) /\ ToSet(i) = ToSet(m) \ {t}
  BY <1>3, AmongSet
<1> HIDE DEF i
<1>5. A \in Seq(Threads) /\ ToSet(A) = ToSet(o) \cup ToSet(i)
  BY <1>3, <1>4, ToSetConcat
<1> HIDE DEF A
<1>6. t \in Threads /\ x.th[t].status = "WaitArb"
  BY <1>2, <1>3 DEF ArbOK
<1>7. Alive(x, t) /\ x.th[t].req = NoSession /\ x.th[t].waitObjs = <<>>
  BY <1>2, <1>6, StatusIs, NotNoThread DEF Alive, ThreadsOK, Sync
<1>8. Resumed(x, e, t)
  BY <1>2, <1>6, ResumeFrame
<1> HIDE DEF e
<1>9. Mid(e) /\ RunKept(x, e, NoThread)
  BY <1>2, <1>6, <1>7, <1>8, ResumedMid
<1>10. e.th[t].status = "Ready" /\ e.wake = x.wake /\ \A u \in Threads \ {t} : e.th[u] = x.th[u]
  BY <1>6, <1>7, <1>8 DEF Resumed, Resumable, Untouched
<1>11. \A u \in Threads :
          /\ e.th[u].status = "WaitArb" <=> u \in ToSet(A)
          /\ e.th[u].status = "WaitArb" /\ e.wake[u] > 0 => e.th[u].cb = "arbiter"
  BY <1>2, <1>3, <1>4, <1>5, <1>10 DEF ArbOK
<1>12. Good(y, NoThread) /\ RunKept(e, y, NoThread)
  BY <1>5, <1>9, <1>11, MidArb
<1> HIDE DEF y
<1> QED BY <1>1, <1>9, <1>12, RunKeptTransitive DEF m


LEMMA ResumeHighestGood ==
    ASSUME NEW x, Good(x, NoThread), NEW a
    PROVE  LET y == ResumeHighestPriorityThread(x, a)
           IN Good(y, NoThread) /\ RunKept(x, y, NoThread)
<1> DEFINE b == ArbAssert(x)
           m == ArbWaiting(x, a)
           t == FirstOfBest(x, m)
<1>1. Asserted(x, b) /\ Good(b, NoThread) /\ RunKept(x, b, NoThread)
  BY ArbAssertGood
<1>2. ResumeHighestPriorityThread(x, a) = IF m = <<>> THEN b ELSE ResumeMatch(b, a, m, t)
  BY DEF ResumeHighestPriorityThread
<1>3. x \in KernelState /\ m \in Seq(Threads)
  BY ArbLists DEF Good, Sound
<1> HIDE DEF b
<1>4. m = ArbWaiting(b, a)
  BY <1>1 DEF ArbWaiting, Asserted, Untouched
<1>5. CASE m = <<>>
  BY <1>1, <1>2, <1>5
<1>6. CASE m # <<>>
  <2> HIDE DEF m
  <2>1. t \in ToSet(m)
    BY <1>3, <1>6, FirstOfBestIs
  <2> HIDE DEF t
  <2> DEFINE y == ResumeMatch(b, a, m, t)
  <2>2. Good(y, NoThread) /\ RunKept(b, y, NoThread)
    BY <1>1, <1>4, <2>1, ResumeMatchGood
  <2> HIDE DEF y
  <2> QED BY <1>1, <1>2, <1>6, <2>2, RunKeptTransitive DEF y
<1> QED BY <1>5, <1>6

SignalStep(p, i, x) == ResumeHighestPriorityThread(x, p[1])
SignalHolds(p, i, x) == Good(x, NoThread) /\ RunKept(p[2], x, NoThread)

Signalling == INSTANCE Loop WITH Step <- SignalStep, Holds <- SignalHolds

LEMMA ArbSignalGood ==
    ASSUME NEW x, Good(x, NoThread), NEW a, NEW n \in Int
    PROVE  LET y == ArbSignal(x, a, n)
           IN Good(y, NoThread) /\ RunKept(x, y, NoThread)
<1>1. CASE n < 0
  BY <1>1, ResumeAllGood DEF ArbSignal
<1>2. CASE ~(n < 0)
  <2> DEFINE p == <<a, x>>
             s == [i \in 1 .. n |-> i]
             f == Signalling!Run(p, x, n)
             y == f[n]
  <2>1. n \in Nat /\ Len(s) = n
    BY <1>2
  <2>2. ArbSignal(x, a, n) = ForEach(LAMBDA kk, i : ResumeHighestPriorityThread(kk, a), x, s)
    BY <1>2 DEF ArbSignal
  <2> HIDE DEF s
  <2>3. ArbSignal(x, a, n) = y
    BY <2>1, <2>2 DEF ForEach, Signalling!Run, SignalStep
  <2>4. p[1] = a /\ p[2] = x
    OBVIOUS
  <2> HIDE DEF p, f
  <2>5. SignalHolds(p, 0, x)
    BY <2>4, RunKeptItself DEF SignalHolds
  <2>6. ASSUME NEW i \in 1 .. n, NEW z, SignalHolds(p, i - 1, z)
        PROVE  SignalHolds(p, i, SignalStep(p, i, z))
    <3> DEFINE w == ResumeHighestPriorityThread(z, a)
    <3>1. Good(z, NoThread) /\ RunKept(x, z, NoThread)
      BY <2>4, <2>6 DEF SignalHolds
    <3>2. Good(w, NoThread) /\ RunKept(z, w, NoThread)
      BY <3>1, ResumeHighestGood
    <3>3. SignalStep(p, i, z) = w
      BY <2>4 DEF SignalStep
    <3> HIDE DEF w
    <3> QED BY <2>4, <3>1, <3>2, <3>3, RunKeptTransitive DEF SignalHolds
  <2>7. \A i \in 0 .. n : SignalHolds(p, i, f[i])
    <3>1. \A i \in 1 .. n : \A z : SignalHolds(p, i - 1, z) => SignalHolds(p, i, SignalStep(p, i, z))
      BY <2>6
    <3> QED BY <2>1, <2>5, <3>1, Signalling!LoopInvariant DEF f
  <2>8. SignalHolds(p, n, y)
    BY <2>1, <2>7
  <2> HIDE DEF y
  <2> QED BY <2>3, <2>4, <2>8 DEF SignalHolds
<1> QED BY <1>1, <1>2

-----------------------------------------------------------------------------
(* The calling thread goes to sleep.                                       *)

\* y is x but for the thread t, its wakeup event, its core's registers and the
\* arbiter's list.
Parked(x, y, t) ==
    /\ y \in KernelState
    /\ y.wl = x.wl /\ y.mx = x.mx /\ y.rq = x.rq
    /\ y.cur = x.cur /\ y.cpu = x.cpu /\ y.running = x.running /\ y.proc = x.proc
    /\ y.stored = x.stored /\ y.port = x.port /\ y.tev = x.tev /\ (x.halt => y.halt)
    /\ \A u \in Threads \ {t} : y.th[u] = x.th[u] /\ y.wake[u] = x.wake[u]
    /\ y.th[t].held = x.th[t].held /\ y.th[t].nominal = x.th[t].nominal
    /\ y.th[t].current = x.th[t].current /\ y.th[t].pending = x.th[t].pending

\* What the sleeping thread must satisfy.
Asleep(y, t) ==
    /\ y.th[t].status \in WaitStatus
    /\ y.th[t].waitObjs # <<>> => Sync(y, t) /\ y.th[t].cb # "arbiter"
    /\ y.th[t].req # NoSession => y.th[t].status = "WaitIPC"
    /\ y.wake[t] <= 1
    /\ y.wake[t] > 0 => y.th[t].req = NoSession

LEMMA ParkedGood ==
    ASSUME NEW x, NEW t \in Threads, NEW R, SoundBut(x, t, R, NoThread), QueuesOK(x), Rest(x),
           x.th[t].status = "Running" \/ Sync(x, t),
           NEW y, Parked(x, y, t), Asleep(y, t), ToSet(y.th[t].waitObjs) = R, SessionsOK(y),
           \A u \in Threads \ {t} : u \in ToSet(y.arb) <=> u \in ToSet(x.arb),
           y.th[t].status = "WaitArb" <=> t \in ToSet(y.arb),
           y.th[t].status = "WaitArb" /\ y.wake[t] > 0 => y.th[t].cb = "arbiter",
           \A s \in Sessions : /\ y.ses[s].server = x.ses[s].server
                               /\ y.ses[s].alive = x.ses[s].alive
                               /\ y.ses[s].port = x.ses[s].port
    PROVE  Good(y, NoThread) /\ RunKept(x, y, t)
<1>1. x \in KernelState /\ y \in KernelState
  BY DEF SoundBut, Parked
<1>2. /\ \A u \in Threads \ {t} : y.th[u] = x.th[u] /\ y.wake[u] = x.wake[u]
      /\ y.th[t].held = x.th[t].held /\ y.th[t].nominal = x.th[t].nominal
      /\ y.th[t].current = x.th[t].current /\ y.th[t].pending = x.th[t].pending
      /\ y.wl = x.wl /\ y.mx = x.mx /\ y.rq = x.rq
      /\ y.th[t].status \notin {"Ready", "Running", "NotCreated", "Dead"}
  BY DEF Parked, Asleep, WaitStatus, SynchStatus
<1>3. x.th[t].status \notin {"Ready", "NotCreated", "Dead", "WaitIPC", "WaitArb"}
  BY DEF Sync, SynchStatus
<1>4. ListsOK(y, NoThread, {})
  <2>1. ListsOK(x, t, R)
    BY DEF SoundBut
  <2>2. \A u \in Threads : WaitsFor(y, NoThread, {}, u) = WaitsFor(x, t, R, u)
    BY <1>2, NotNoThread DEF WaitsFor
  <2>3. \A u \in Threads : y.th[u].pending = x.th[u].pending
    BY <1>2
  <2>4. y.wl = x.wl
    BY <1>2
  <2> QED BY <2>1, <2>2, <2>3, <2>4 DEF ListsOK
<1>5. MutexOK(y, NoThread)
  <2>1. MutexOK(x, NoThread)
    BY DEF SoundBut
  <2>2. \A u \in Threads : y.th[u].held = x.th[u].held /\ (Alive(x, u) => Alive(y, u))
    BY <1>2 DEF Alive
  <2>3. y.mx = x.mx
    BY <1>2
  <2> QED BY <2>1, <2>2, <2>3, MutexSame
<1>6. PrioOK(y, {NoThread})
  <2> SUFFICES ASSUME NEW u \in Threads, Alive(y, u) PROVE y.th[u].current = Inherited(y, u)
    BY DEF PrioOK
  <2>1. y.th[u].nominal = x.th[u].nominal /\ y.th[u].held = x.th[u].held /\ y.mx = x.mx
    BY <1>2
  <2>2. Inherited(y, u) = Inherited(x, u)
    BY ONLY <2>1, InheritedSame
  <2>3. Alive(x, u) /\ y.th[u].current = x.th[u].current
    BY <1>2, <1>3 DEF Alive
  <2> QED BY <2>2, <2>3, NotNoThread DEF SoundBut, PrioOK
<1>7. ThreadsOK(y, NoThread)
  BY <1>2 DEF SoundBut, ThreadsOK, Asleep, Sync
<1>8. Sound(y, NoThread)
  BY <1>1, <1>4, <1>5, <1>6, <1>7 DEF Sound
<1>9. QueuesOK(y)
  <2>1. \A u \in Threads : /\ y.th[u].status = "Ready" <=> x.th[u].status = "Ready"
                           /\ y.th[u].status # "NotCreated" => x.th[u].status # "NotCreated"
                           /\ y.th[u].current = x.th[u].current
    BY <1>2, <1>3
  <2>2. \A c : ThreadsOf(c) \subseteq Threads
    BY DEF ThreadsOf
  <2>3. y.rq = x.rq
    BY <1>2
  <2> QED BY <2>1, <2>2, <2>3 DEF QueuesOK, QueueOK
<1>10. ArbOK(y)
  BY <1>2 DEF Rest, ArbOK
<1>11. WakeOK(y)
  BY <1>2 DEF Rest, WakeOK, Asleep
<1>12. CoresOK(y) /\ TimersOK(y)
  BY <1>2 DEF Parked, Rest, CoresOK, ProcessOf, TimersOK
<1>13. PortsOK(y)
  <2>1. PortsOK(x) /\ y.port = x.port
    BY DEF Rest, Parked
  <2> QED BY <1>1, <2>1, PortsSame
<1>14. RunKept(x, y, t)
  BY <1>2 DEF RunKept, Parked
<1> QED BY <1>8, <1>9, <1>10, <1>11, <1>12, <1>13, <1>14 DEF Good, Rest


LEMMA PutParked ==
    ASSUME NEW x \in KernelState, NEW t \in Threads, NEW r \in ThreadRec, NEW w \in Nat,
           NEW A \in Seq(Threads), NEW G \in [Cores -> Result],
           r.held = x.th[t].held, r.nominal = x.th[t].nominal,
           r.current = x.th[t].current, r.pending = x.th[t].pending
    PROVE  LET y == Put(x, [x.th EXCEPT ![t] = r], x.rq, [x.wake EXCEPT ![t] = w], A, G)
           IN /\ Parked(x, y, t) /\ y.th[t] = r /\ y.wake[t] = w /\ y.arb = A
              /\ y.ses = x.ses /\ y.halt = x.halt
<1> DEFINE T == [x.th EXCEPT ![t] = r]
           W == [x.wake EXCEPT ![t] = w]
           R == x.rq
           y == Put(x, T, R, W, A, G)
<1>1. x.th \in [Threads -> ThreadRec] /\ x.wake \in [Threads -> Nat] /\ x.rq \in RqMap
  BY ThType, KernelFields
<1>2. T \in [Threads -> ThreadRec] /\ T[t] = r /\ \A u \in Threads \ {t} : T[u] = x.th[u]
  BY <1>1
<1>3. W \in [Threads -> Nat] /\ W[t] = w /\ \A u \in Threads \ {t} : W[u] = x.wake[u]
  BY <1>1
<1> HIDE DEF T, W
<1>4. /\ y \in KernelState
      /\ y.th = T /\ y.rq = x.rq /\ y.wake = W /\ y.arb = A
      /\ y.wl = x.wl /\ y.mx = x.mx /\ y.ses = x.ses /\ y.cur = x.cur /\ y.cpu = x.cpu
      /\ y.running = x.running /\ y.proc = x.proc /\ y.stored = x.stored
      /\ y.port = x.port /\ y.tev = x.tev /\ y.halt = x.halt
  <2> HIDE DEF R
  <2>1. x \in KernelState /\ T \in [Threads -> ThreadRec] /\ R \in RqMap
    BY <1>1, <1>2 DEF R
  <2>2. W \in [Threads -> Nat] /\ A \in Seq(Threads) /\ G \in [Cores -> Result]
    BY <1>3
  <2>3. /\ y \in KernelState
        /\ y.th = T /\ y.rq = R /\ y.wake = W /\ y.arb = A
        /\ y.wl = x.wl /\ y.mx = x.mx /\ y.ses = x.ses /\ y.cur = x.cur /\ y.cpu = x.cpu
        /\ y.running = x.running /\ y.proc = x.proc /\ y.stored = x.stored
        /\ y.port = x.port /\ y.tev = x.tev /\ y.halt = x.halt
    BY ONLY <2>1, <2>2, PutIs, SMTT(20)
  <2>4. R = x.rq
    BY DEF R
  <2> QED BY ONLY <2>3, <2>4
<1> HIDE DEF y
<1>5. Parked(x, y, t)
  BY <1>2, <1>3, <1>4 DEF Parked
<1> QED BY <1>2, <1>3, <1>4, <1>5 DEF y, T, W

\* A thread without a request goes to sleep: r is what becomes of it, w the number
\* of its wakeup events, A the arbiter's list.
Sleeper(x, t, r, w, A) ==
    /\ r \in ThreadRec /\ w \in Nat /\ A \in Seq(Threads)
    /\ r.held = x.th[t].held /\ r.nominal = x.th[t].nominal
    /\ r.current = x.th[t].current /\ r.pending = x.th[t].pending
    /\ r.req = NoSession /\ r.status \in WaitStatus /\ w <= 1
    /\ r.waitObjs # <<>> => r.status \in SynchStatus /\ r.cb # "arbiter"
    /\ \A u \in Threads \ {t} : u \in ToSet(A) <=> u \in ToSet(x.arb)
    /\ r.status = "WaitArb" <=> t \in ToSet(A)
    /\ r.status = "WaitArb" /\ w > 0 => r.cb = "arbiter"

\* The state it is put to sleep in.
Awake(x, t, R) ==
    /\ SoundBut(x, t, R, NoThread) /\ QueuesOK(x) /\ Rest(x)
    /\ x.th[t].status = "Running" \/ Sync(x, t)

\* x with the thread t set to r.
Laid(x, t, r, w, A, G) == Put(x, [x.th EXCEPT ![t] = r], x.rq, [x.wake EXCEPT ![t] = w], A, G)

LEMMA ParkGood ==
    ASSUME NEW x, NEW t \in Threads, NEW r, Awake(x, t, ToSet(r.waitObjs)),
           NEW w, NEW A, Sleeper(x, t, r, w, A), NEW G \in [Cores -> Result]
    PROVE  LET y == Laid(x, t, r, w, A, G)
           IN Good(y, NoThread) /\ RunKept(x, y, t)
<1> DEFINE y == Laid(x, t, r, w, A, G)
           R == ToSet(r.waitObjs)
<1> USE DEF Sleeper, Awake, Laid
<1>1. x \in KernelState
  BY DEF SoundBut
<1>2. /\ Parked(x, y, t) /\ y.th[t] = r /\ y.wake[t] = w /\ y.arb = A
      /\ y.ses = x.ses /\ y.halt = x.halt
  BY <1>1, PutParked
<1> HIDE DEF y, R
<1>3. Asleep(y, t)
  BY <1>2 DEF Asleep, Sync
<1>4. SessionsOK(y)
  <2>1. x.th[t].status # "WaitIPC"
    BY StatusIs DEF Sync
  <2>2. x.th[t].req = NoSession /\ SessionsOK(x)
    BY <2>1 DEF SoundBut, ThreadsOK
  <2>3. \A u \in Threads : /\ y.th[u].req = x.th[u].req
                           /\ x.th[u].status = "WaitIPC" => y.th[u].status = "WaitIPC"
    BY <1>2, <2>1, <2>2 DEF Parked
  <2> QED BY <1>1, <1>2, <2>2, <2>3, SessionsSame
<1>5. ToSet(y.th[t].waitObjs) = R /\ SoundBut(x, t, R, NoThread)
  BY <1>2 DEF R
<1>6. \A s \in Sessions : /\ y.ses[s].server = x.ses[s].server
                          /\ y.ses[s].alive = x.ses[s].alive
                          /\ y.ses[s].port = x.ses[s].port
  BY <1>2
<1>7. /\ \A u \in Threads \ {t} : u \in ToSet(y.arb) <=> u \in ToSet(x.arb)
      /\ y.th[t].status = "WaitArb" <=> t \in ToSet(y.arb)
      /\ y.th[t].status = "WaitArb" /\ y.wake[t] > 0 => y.th[t].cb = "arbiter"
  BY <1>2
<1> QED BY <1>2, <1>3, <1>4, <1>5, <1>6, <1>7, ParkedGood DEF y

\* The number of t's wakeup events after WakeAfterDelay.
Delayed(x, t, timeout) == IF timeout = "forever" THEN x.wake[t] ELSE x.wake[t] + 1

LEMMA DelayIs ==
    ASSUME NEW x \in KernelState, NEW t \in Threads, NEW timeout
    PROVE  WakeAfterDelay(x, t, timeout) =
              [x EXCEPT !.wake = [x.wake EXCEPT ![t] = Delayed(x, t, timeout)]]
<1>1. x.wake \in [Threads -> Nat]
  BY KernelFields
<1>2. CASE timeout = "forever"
  <2>1. [x.wake EXCEPT ![t] = x.wake[t]] = x.wake
    BY <1>1
  <2>2. [x EXCEPT !.wake = x.wake] = x
    BY DEF KernelState
  <2> QED BY <1>2, <2>1, <2>2 DEF Delayed, WakeAfterDelay
<1>3. CASE timeout # "forever"
  BY <1>3 DEF Delayed, WakeAfterDelay
<1> QED BY <1>2, <1>3

LEMMA PutSame ==
    ASSUME NEW x \in KernelState, NEW T, NEW W, NEW G
    PROVE  [[x EXCEPT !.wake = W] EXCEPT !.th = T, !.reg = G] = Put(x, T, x.rq, W, x.arb, G)
  BY DEF KernelState, Put

\* The kernel state that Suspend returns from.
Suspended(x, t, status, objs, timeout, cb, c) ==
    [WakeAfterDelay(x, t, timeout) EXCEPT
        !.th[t].status = status, !.th[t].waitObjs = objs, !.th[t].cb = cb,
        !.reg[c] = IF cb = "ipc" THEN ResultSuccess(-1) ELSE ResultTimeout]

\* The ways to wait.
SynchCall(status, cb) ==
    status \in {"WaitSynchAny", "WaitSynchAll"} /\ cb \in {"sync", "syncOutput", "ipc"}

LEMMA SuspendedGood ==
    ASSUME NEW x, NEW t \in Threads, NEW objs \in Seq(WaitObject), Awake(x, t, ToSet(objs)),
           x.wake[t] = 0, NEW status, NEW timeout, NEW cb, SynchCall(status, cb), NEW c \in Cores
    PROVE  LET y == PrepareReschedule(Suspended(x, t, status, objs, timeout, cb, c))
           IN Good(y, NoThread) /\ RunKept(x, y, t) /\ y.halt
<1> DEFINE r1 == [x.th[t] EXCEPT !.status = status]
           r2 == [r1 EXCEPT !.waitObjs = objs]
           r == [r2 EXCEPT !.cb = cb]
           v == IF cb = "ipc" THEN ResultSuccess(-1) ELSE ResultTimeout
           G == [x.reg EXCEPT ![c] = v]
           w == Delayed(x, t, timeout)
           y == Laid(x, t, r, w, x.arb, G)
<1>1. x \in KernelState /\ ThreadsOK(x, NoThread) /\ ArbOK(x)
  BY DEF Awake, SoundBut, Rest
<1>2. /\ x.th[t] \in ThreadRec /\ x.th \in [Threads -> ThreadRec]
      /\ x.reg \in [Cores -> Result] /\ x.arb \in Seq(Threads) /\ x.wake \in [Threads -> Nat]
  BY <1>1, ThType, KernelFields
<1>3. Suspended(x, t, status, objs, timeout, cb, c) = y
  <2> DEFINE W == [x.wake EXCEPT ![t] = w]
             T == [x.th EXCEPT ![t] = r]
             a == [x EXCEPT !.wake = W]
  <2>1. WakeAfterDelay(x, t, timeout) = a
    BY <1>1, DelayIs
  <2> HIDE DEF w
  <2>2. Suspended(x, t, status, objs, timeout, cb, c) =
           [a EXCEPT !.th[t].status = status, !.th[t].waitObjs = objs, !.th[t].cb = cb, !.reg[c] = v]
    BY <2>1 DEF Suspended
  <2>3. a.th = x.th /\ a.reg = x.reg
    BY <1>1 DEF KernelState
  <2>4. [a EXCEPT !.th[t].status = status, !.th[t].waitObjs = objs, !.th[t].cb = cb, !.reg[c] = v]
           = [a EXCEPT !.th = T, !.reg = G]
    <3>1. {"th", "reg"} \subseteq DOMAIN a
      BY <1>1 DEF KernelState
    <3> HIDE DEF a, v
    <3> QED BY ONLY <2>3, <3>1, <1>2
  <2> HIDE DEF T, W, G
  <2>5. [a EXCEPT !.th = T, !.reg = G] = Put(x, T, x.rq, W, x.arb, G)
    <3>1. x \in KernelState
      BY <1>1
    <3> QED BY ONLY <3>1 DEF KernelState, Put
  <2> QED BY <2>2, <2>4, <2>5 DEF Laid, T, W
<1>4. r1 \in ThreadRec
  <2>1. status \in Status
    BY DEF Status, WaitStatus, SynchStatus, SynchCall
  <2> QED BY <1>2, <2>1, Thread_status
<1>5. r2 \in ThreadRec
  <2> HIDE DEF r1
  <2> QED BY <1>4, Thread_waitObjs
<1>6. r \in ThreadRec
  <2> HIDE DEF r2
  <2> QED BY <1>5, Thread_cb DEF SynchCall
<1>7. /\ r.status = status /\ r.waitObjs = objs /\ r.cb = cb /\ r.req = x.th[t].req
      /\ r.held = x.th[t].held /\ r.nominal = x.th[t].nominal
      /\ r.current = x.th[t].current /\ r.pending = x.th[t].pending
  BY <1>2 DEF ThreadRec
<1>8. v \in Result
  BY DEF Result, ResultTimeout, ResultSuccess
<1>9. G \in [Cores -> Result]
  BY <1>2, <1>8
<1>10. w \in Nat /\ w <= 1
  BY DEF Delayed
<1>11. x.th[t].status \notin {"WaitIPC", "WaitArb"}
  BY StatusIs DEF Awake, Sync
<1>12. r.req = NoSession
  BY <1>1, <1>7, <1>11 DEF ThreadsOK
<1>13. t \notin ToSet(x.arb)
  BY <1>1, <1>11 DEF ArbOK
<1>14. r.status \in WaitStatus /\ r.status \in SynchStatus /\ r.cb # "arbiter" /\ r.status # "WaitArb"
  BY <1>7 DEF WaitStatus, SynchStatus, SynchCall
<1> HIDE DEF r, G, w
<1>15. Awake(x, t, ToSet(r.waitObjs))
  BY <1>7 DEF Awake
<1>o. Sleeper(x, t, r, w, x.arb)
  BY <1>2, <1>6, <1>7, <1>10, <1>12, <1>13, <1>14 DEF Sleeper
<1>16. Good(y, NoThread) /\ RunKept(x, y, t)
  BY <1>9, <1>15, <1>o, ParkGood
<1> HIDE DEF y
<1>17. /\ Good(PrepareReschedule(y), NoThread) /\ RunKept(y, PrepareReschedule(y), NoThread)
       /\ PrepareReschedule(y).halt
  BY <1>16, RescheduleGood
<1> QED BY <1>3, <1>16, <1>17, RunKeptWeaken, RunKeptTransitive


-----------------------------------------------------------------------------
(* The other ways to go to sleep: each changes the thread in a few steps.  *)

PutThread(x, t, r) == [x EXCEPT !.th[t] = r]
PutArb(x, A) == [x EXCEPT !.arb = A]

LEMMA RunningIs ==
    ASSUME NEW x, Good(x, NoThread), NEW t \in Threads, x.th[t].status = "Running"
    PROVE  /\ x.th[t].waitObjs = <<>> /\ x.wake[t] = 0 /\ x.th[t].req = NoSession
           /\ t \notin ToSet(x.arb) /\ Awake(x, t, {}) /\ Alive(x, t)
<1>1. /\ x \in KernelState /\ ThreadsOK(x, NoThread) /\ ArbOK(x) /\ WakeOK(x) /\ QueuesOK(x)
      /\ Rest(x) /\ Sound(x, NoThread)
  BY DEF Good, Sound, Rest
<1>2. x.th[t].waitObjs = <<>>
  BY <1>1, NotNoThread, StatusIs DEF ThreadsOK, Sync
<1>3. x.wake[t] = 0
  <2>1. x.wake[t] \in Nat
    BY <1>1, KernelFields
  <2>2. ~(x.wake[t] > 0)
    BY <1>1 DEF WakeOK, WaitStatus, SynchStatus
  <2> QED BY <2>1, <2>2
<1>4. x.th[t].req = NoSession /\ t \notin ToSet(x.arb)
  BY <1>1 DEF ThreadsOK, ArbOK
<1>5. SoundBut(x, t, {}, NoThread)
  <2>1. ToSet(x.th[t].waitObjs) = {}
    BY <1>2 DEF ToSet
  <2> QED BY <1>1, <2>1, SoundButWaiting
<1> QED BY <1>1, <1>2, <1>3, <1>4, <1>5 DEF Awake, Alive

\* A thread goes to sleep without waiting for objects or requests.
LEMMA SleepGood ==
    ASSUME NEW x, Good(x, NoThread), NEW t \in Threads, x.th[t].status = "Running",
           NEW y, Parked(x, y, t), y.ses = x.ses, y.th[t].waitObjs = <<>>,
           y.th[t].status \in WaitStatus, y.th[t].req = NoSession, y.wake[t] <= 1,
           \A u \in Threads \ {t} : u \in ToSet(y.arb) <=> u \in ToSet(x.arb),
           y.th[t].status = "WaitArb" <=> t \in ToSet(y.arb),
           y.th[t].status = "WaitArb" /\ y.wake[t] > 0 => y.th[t].cb = "arbiter"
    PROVE  Good(y, NoThread) /\ RunKept(x, y, t)
<1>1. x.th[t].req = NoSession /\ Awake(x, t, {}) /\ SessionsOK(x)
  <2>1. x.th[t].req = NoSession /\ Awake(x, t, {})
    BY RunningIs
  <2> QED BY <2>1 DEF Good, Sound
<1>2. Asleep(y, t)
  BY DEF Asleep
<1>3. ToSet(y.th[t].waitObjs) = {}
  BY DEF ToSet
<1>4. SessionsOK(y)
  <2>1. \A u \in Threads : /\ y.th[u].req = x.th[u].req
                           /\ x.th[u].status = "WaitIPC" => y.th[u].status = "WaitIPC"
    BY <1>1 DEF Parked
  <2> QED BY <1>1, <2>1, SessionsSame DEF Good, Sound
<1>5. \A s \in Sessions : /\ y.ses[s].server = x.ses[s].server
                          /\ y.ses[s].alive = x.ses[s].alive
                          /\ y.ses[s].port = x.ses[s].port
  OBVIOUS
<1>6. SoundBut(x, t, {}, NoThread) /\ QueuesOK(x) /\ Rest(x)
  BY <1>1 DEF Awake
<1> QED BY <1>2, <1>3, <1>4, <1>5, <1>6, ParkedGood

LEMMA ParkedTransitive ==
    ASSUME NEW x, NEW y, NEW z, NEW t, Parked(x, y, t), Parked(y, z, t)
    PROVE  Parked(x, z, t)
  BY DEF Parked

LEMMA ParkedThread ==
    ASSUME NEW x \in KernelState, NEW t \in Threads, NEW r \in ThreadRec,
           r.held = x.th[t].held, r.nominal = x.th[t].nominal,
           r.current = x.th[t].current, r.pending = x.th[t].pending
    PROVE  LET y == PutThread(x, t, r)
           IN /\ Parked(x, y, t) /\ y.th[t] = r /\ y.wake = x.wake /\ y.arb = x.arb
              /\ y.ses = x.ses /\ y.halt = x.halt
<1> DEFINE y == PutThread(x, t, r)
<1>1. /\ y \in KernelState /\ y.th = [x.th EXCEPT ![t] = r] /\ y.mx = x.mx /\ y.wl = x.wl
      /\ y.ses = x.ses /\ y.rq = x.rq /\ Untouched(x, y)
  BY ThreadPut DEF PutThread
<1>2. y.halt = x.halt
  BY DEF PutThread, KernelState
<1>3. x.th \in [Threads -> ThreadRec]
  BY ThType
<1> HIDE DEF y
<1>4. y.th[t] = r /\ \A u \in Threads \ {t} : y.th[u] = x.th[u]
  BY <1>1, <1>3
<1> QED BY <1>1, <1>2, <1>4 DEF Parked, Untouched, y

LEMMA ParkedDelay ==
    ASSUME NEW x \in KernelState, NEW t \in Threads, NEW timeout
    PROVE  LET y == WakeAfterDelay(x, t, timeout)
           IN /\ Parked(x, y, t) /\ y.th = x.th /\ y.wake[t] = Delayed(x, t, timeout)
              /\ y.arb = x.arb /\ y.ses = x.ses /\ y.halt = x.halt
<1> DEFINE w == Delayed(x, t, timeout)
           W == [x.wake EXCEPT ![t] = w]
           y == [x EXCEPT !.wake = W]
<1>1. WakeAfterDelay(x, t, timeout) = y
  BY DelayIs
<1>2. x.wake \in [Threads -> Nat] /\ w \in Nat
  BY KernelFields DEF Delayed
<1> HIDE DEF w
<1>3. W \in [Threads -> Nat] /\ W[t] = w /\ \A u \in Threads \ {t} : W[u] = x.wake[u]
  BY <1>2
<1> HIDE DEF W
<1>4. y \in KernelState
  BY <1>3, Put_wake
<1>5. /\ y.th = x.th /\ y.wl = x.wl /\ y.mx = x.mx /\ y.rq = x.rq /\ y.wake = W
      /\ y.cur = x.cur /\ y.cpu = x.cpu /\ y.running = x.running /\ y.proc = x.proc
      /\ y.stored = x.stored /\ y.port = x.port /\ y.tev = x.tev /\ y.halt = x.halt
      /\ y.arb = x.arb /\ y.ses = x.ses
  BY DEF KernelState
<1> HIDE DEF y
<1> QED BY <1>1, <1>3, <1>4, <1>5 DEF Parked, w

LEMMA ParkedArb ==
    ASSUME NEW x \in KernelState, NEW t \in Threads, NEW A \in Seq(Threads)
    PROVE  LET y == PutArb(x, A)
           IN /\ Parked(x, y, t) /\ y.th = x.th /\ y.wake = x.wake
              /\ y.arb = A /\ y.ses = x.ses /\ y.halt = x.halt
<1> DEFINE y == PutArb(x, A)
<1>4. y \in KernelState
  BY Put_arb DEF PutArb
<1>5. /\ y.th = x.th /\ y.wl = x.wl /\ y.mx = x.mx /\ y.rq = x.rq /\ y.wake = x.wake
      /\ y.cur = x.cur /\ y.cpu = x.cpu /\ y.running = x.running /\ y.proc = x.proc
      /\ y.stored = x.stored /\ y.port = x.port /\ y.tev = x.tev /\ y.halt = x.halt
      /\ y.arb = A /\ y.ses = x.ses
  BY DEF KernelState, PutArb
<1> HIDE DEF y
<1> QED BY <1>4, <1>5 DEF Parked, y

\* Svc::SleepThread
LEMMA SleepThreadGood ==
    ASSUME NEW x, Good(x, NoThread), NEW t \in Threads, x.th[t].status = "Running",
           NEW status \in {"WaitSleep", "WaitIPC"}, NEW timeout
    PROVE  LET y == WakeAfterDelay([x EXCEPT !.th[t].status = status], t, timeout)
           IN Good(y, NoThread) /\ RunKept(x, y, t)
<1> DEFINE r == [x.th[t] EXCEPT !.status = status]
           a == PutThread(x, t, r)
           y == WakeAfterDelay(a, t, timeout)
<1>1. [x EXCEPT !.th[t].status = status] = a
  BY DEF PutThread
<1>2. x \in KernelState /\ x.th[t] \in ThreadRec
  BY ThType DEF Good, Sound
<1>3. r \in ThreadRec
  <2>1. status \in Status
    BY DEF Status, WaitStatus
  <2> QED BY <1>2, <2>1, Thread_status
<1>4. /\ r.status = status /\ r.waitObjs = x.th[t].waitObjs /\ r.req = x.th[t].req
      /\ r.held = x.th[t].held /\ r.nominal = x.th[t].nominal
      /\ r.current = x.th[t].current /\ r.pending = x.th[t].pending
  BY <1>2 DEF ThreadRec
<1> HIDE DEF r
<1>5. /\ Parked(x, a, t) /\ a.th[t] = r /\ a.wake = x.wake /\ a.arb = x.arb /\ a.ses = x.ses
  BY <1>2, <1>3, <1>4, ParkedThread
<1> HIDE DEF a
<1>6. a \in KernelState
  BY <1>5 DEF Parked
<1>7. /\ Parked(a, y, t) /\ y.th = a.th /\ y.wake[t] = Delayed(a, t, timeout)
      /\ y.arb = a.arb /\ y.ses = a.ses
  BY <1>6, ParkedDelay
<1> HIDE DEF y
<1>8. /\ x.th[t].waitObjs = <<>> /\ x.wake[t] = 0 /\ x.th[t].req = NoSession
      /\ t \notin ToSet(x.arb)
  BY RunningIs
<1>9. y.wake[t] <= 1
  BY <1>5, <1>7, <1>8 DEF Delayed
<1>10. Parked(x, y, t)
  BY <1>5, <1>7, ParkedTransitive
<1>11. /\ y.ses = x.ses /\ y.arb = x.arb /\ y.th[t].waitObjs = <<>> /\ y.th[t].req = NoSession
       /\ y.th[t].status = status
  BY <1>4, <1>5, <1>7, <1>8
<1>12. status \in WaitStatus /\ status # "WaitArb"
  BY DEF WaitStatus
<1>13. Good(y, NoThread) /\ RunKept(x, y, t)
  <2>1. /\ \A u \in Threads \ {t} : u \in ToSet(y.arb) <=> u \in ToSet(x.arb)
        /\ y.th[t].status = "WaitArb" <=> t \in ToSet(y.arb)
        /\ y.th[t].status = "WaitArb" /\ y.wake[t] > 0 => y.th[t].cb = "arbiter"
    BY <1>8, <1>11, <1>12
  <2> QED BY <1>9, <1>10, <1>11, <1>12, <2>1, SleepGood
<1> QED BY <1>1, <1>13 DEF y


\* ArbitrateAddress makes t wait.
LEMMA WaitArbGood ==
    ASSUME NEW x, Good(x, NoThread), NEW t \in Threads, x.th[t].status = "Running",
           NEW b, Parked(x, b, t), b.ses = x.ses, b.arb = x.arb, b.th[t].waitObjs = <<>>,
           b.th[t].req = NoSession, b.wake[t] <= 1,
           b.wake[t] > 0 => b.th[t].cb = "arbiter", NEW a \in Addresses
    PROVE  LET y == WaitArb(b, t, a)
           IN Good(y, NoThread) /\ RunKept(x, y, t)
<1> DEFINE r1 == [b.th[t] EXCEPT !.addr = a]
           r == [r1 EXCEPT !.status = "WaitArb"]
           A == Append(b.arb, t)
           p == PutThread(b, t, r)
           y == PutArb(p, A)
<1>1. b \in KernelState /\ b.th[t] \in ThreadRec /\ b.arb \in Seq(Threads)
      /\ b.th \in [Threads -> ThreadRec]
  BY ThType, KernelFields DEF Parked
<1>2. WaitArb(b, t, a) = y
  <2>1. {"th", "arb"} \subseteq DOMAIN b
    BY <1>1 DEF KernelState
  <2> QED BY ONLY <2>1, <1>1 DEF WaitArb, PutArb, PutThread
<1>3. r1 \in ThreadRec
  BY <1>1, Thread_addr
<1>4. r \in ThreadRec
  <2>1. "WaitArb" \in Status
    BY DEF Status, WaitStatus
  <2> HIDE DEF r1
  <2> QED BY <1>3, <2>1, Thread_status
<1>5. /\ r.status = "WaitArb" /\ r.waitObjs = b.th[t].waitObjs /\ r.req = b.th[t].req
      /\ r.held = b.th[t].held /\ r.nominal = b.th[t].nominal /\ r.cb = b.th[t].cb
      /\ r.current = b.th[t].current /\ r.pending = b.th[t].pending
  BY <1>1 DEF ThreadRec
<1> HIDE DEF r
<1>6. /\ Parked(b, p, t) /\ p.th[t] = r /\ p.wake = b.wake /\ p.arb = b.arb /\ p.ses = b.ses
  BY <1>1, <1>4, <1>5, ParkedThread
<1> HIDE DEF p
<1>7. p \in KernelState /\ A \in Seq(Threads) /\ ToSet(A) = ToSet(b.arb) \cup {t}
  BY <1>1, <1>6, ToSetAppend DEF Parked
<1> HIDE DEF A
<1>8. /\ Parked(p, y, t) /\ y.th = p.th /\ y.wake = p.wake /\ y.arb = A /\ y.ses = p.ses
  BY <1>7, ParkedArb
<1> HIDE DEF y
<1>9. Parked(x, y, t)
  BY <1>6, <1>8, ParkedTransitive
<1>10. /\ y.ses = x.ses /\ y.th[t].waitObjs = <<>> /\ y.th[t].req = NoSession
       /\ y.th[t].status = "WaitArb" /\ y.wake[t] <= 1
       /\ y.wake[t] > 0 => y.th[t].cb = "arbiter"
  BY <1>5, <1>6, <1>8
<1>11. "WaitArb" \in WaitStatus
  BY DEF WaitStatus
<1>12. Good(y, NoThread) /\ RunKept(x, y, t)
  <2>1. /\ \A u \in Threads \ {t} : u \in ToSet(y.arb) <=> u \in ToSet(x.arb)
        /\ y.th[t].status = "WaitArb" <=> t \in ToSet(y.arb)
        /\ y.th[t].status = "WaitArb" /\ y.wake[t] > 0 => y.th[t].cb = "arbiter"
    BY <1>7, <1>8, <1>10
  <2> QED BY <1>9, <1>10, <1>11, <2>1, SleepGood
<1> QED BY <1>2, <1>12 DEF y

LEMMA ArbWaitGood ==
    ASSUME NEW x, Good(x, NoThread), NEW t \in Threads, x.th[t].status = "Running",
           NEW a \in Addresses, NEW value, NEW decrement, NEW timeout
    PROVE  LET y == ArbWait(x, t, a, value, decrement, timeout)
           IN Good(y, NoThread) /\ RunKept(x, y, t)
<1> DEFINE k1 == IF decrement THEN [x EXCEPT !.mem[a] = @ - 1] ELSE x
           r == [k1.th[t] EXCEPT !.cb = "arbiter"]
           b == PutThread(k1, t, r)
           k2 == IF timeout = "none" THEN k1 ELSE WakeAfterDelay(b, t, timeout)
<1>1. x \in KernelState
  BY DEF Good, Sound
<1>2. Plain(x, k1) /\ k1.tev = x.tev /\ k1.halt = x.halt
  <2> DEFINE M == [x.mem EXCEPT ![a] = x.mem[a] - 1]
             z == [x EXCEPT !.mem = M]
  <2>1. x.mem \in [Addresses -> Int]
    BY <1>1, KernelFields
  <2>2. M \in [Addresses -> Int]
    BY <2>1
  <2>3. k1 = IF decrement THEN z ELSE x
    OBVIOUS
  <2> HIDE DEF M, k1
  <2>4. z \in KernelState
    BY <1>1, <2>2, Put_mem
  <2>5. /\ z.th = x.th /\ z.wl = x.wl /\ z.mx = x.mx /\ z.ses = x.ses /\ z.rq = x.rq
        /\ z.arb = x.arb /\ z.wake = x.wake /\ z.cur = x.cur /\ z.cpu = x.cpu
        /\ z.running = x.running /\ z.proc = x.proc /\ z.stored = x.stored /\ z.port = x.port
        /\ z.tev = x.tev /\ z.halt = x.halt
    BY <1>1 DEF KernelState
  <2> HIDE DEF z
  <2>6. Plain(x, x) /\ Plain(x, z)
    BY <1>1, <2>4, <2>5 DEF Plain
  <2> QED BY <2>3, <2>5, <2>6
<1>3. ArbWait(x, t, a, value, decrement, timeout) = IF x.mem[a] < value THEN WaitArb(k2, t, a) ELSE x
  BY DEF ArbWait, PutThread
<1> HIDE DEF k1
<1>4. Good(k1, NoThread) /\ RunKept(x, k1, NoThread)
  <2>1. TimersOK(k1)
    BY <1>2 DEF Good, Rest, TimersOK
  <2> QED BY <1>2, <2>1, PlainKeeps
<1>5. k1.th[t].status = "Running" /\ k1 \in KernelState
  BY <1>2 DEF Plain
<1>6. /\ k1.th[t].waitObjs = <<>> /\ k1.wake[t] = 0 /\ k1.th[t].req = NoSession
      /\ t \notin ToSet(k1.arb)
  BY <1>4, <1>5, RunningIs
<1>7. k1.th[t] \in ThreadRec
  BY <1>5, ThType
<1>8. r \in ThreadRec
  BY <1>7, Thread_cb
<1>9. /\ r.waitObjs = k1.th[t].waitObjs /\ r.req = k1.th[t].req
      /\ r.held = k1.th[t].held /\ r.nominal = k1.th[t].nominal /\ r.cb = "arbiter"
      /\ r.current = k1.th[t].current /\ r.pending = k1.th[t].pending
  BY <1>7 DEF ThreadRec
<1> HIDE DEF r
<1>10. /\ Parked(k1, b, t) /\ b.th[t] = r /\ b.wake = k1.wake /\ b.arb = k1.arb /\ b.ses = k1.ses
  BY <1>5, <1>8, <1>9, ParkedThread
<1> HIDE DEF b
<1>11. b \in KernelState
  BY <1>10 DEF Parked
<1>12. /\ Parked(k1, k2, t) /\ k2.ses = k1.ses /\ k2.arb = k1.arb /\ k2.th[t].waitObjs = <<>>
       /\ k2.th[t].req = NoSession /\ k2.wake[t] <= 1 /\ (k2.wake[t] > 0 => k2.th[t].cb = "arbiter")
  <2>1. CASE timeout = "none"
    <3>1. Parked(k1, k1, t)
      BY <1>5 DEF Parked
    <3> QED BY <1>6, <2>1, <3>1
  <2>2. CASE timeout # "none"
    <3> DEFINE z == WakeAfterDelay(b, t, timeout)
    <3>1. /\ Parked(b, z, t) /\ z.th = b.th /\ z.wake[t] = Delayed(b, t, timeout)
          /\ z.arb = b.arb /\ z.ses = b.ses
      BY <1>11, ParkedDelay
    <3>2. k2 = z
      BY <2>2
    <3> HIDE DEF z, k2
    <3>3. z.wake[t] <= 1
      BY <1>6, <1>10, <3>1 DEF Delayed
    <3>4. Parked(k1, z, t)
      BY <1>10, <3>1, ParkedTransitive
    <3> QED BY <1>6, <1>9, <1>10, <3>1, <3>2, <3>3, <3>4
  <2> QED BY <2>1, <2>2
<1> HIDE DEF k2
<1>13. Good(WaitArb(k2, t, a), NoThread) /\ RunKept(k1, WaitArb(k2, t, a), t)
  BY <1>4, <1>5, <1>12, WaitArbGood
<1>14. RunKept(x, WaitArb(k2, t, a), t)
  BY <1>4, <1>13, RunKeptWeaken, RunKeptTransitive
<1> QED BY <1>3, <1>13, <1>14, RunKeptItself


-----------------------------------------------------------------------------
(* The start of a call.                                                    *)

CalledFrom(x, t, c) == [x EXCEPT !.reg[c] = NoResult, !.th[t].owed = NoResult]

\* What the registers and the results that are owed are no part of.
SameButResults(x, y) ==
    /\ OnlyContexts(x, y)
    /\ y.cpu = x.cpu /\ y.running = x.running /\ y.proc = x.proc /\ y.stored = x.stored
    /\ y.exited = x.exited /\ y.cur = x.cur
    /\ y.wake = x.wake /\ y.tev = x.tev /\ y.itv = x.itv /\ y.mem = x.mem
    /\ y.port = x.port /\ y.arb = x.arb /\ y.halt = x.halt /\ y.sem = x.sem /\ y.sig = x.sig

LEMMA CalledGood ==
    ASSUME NEW x, Good(x, NoThread), NEW t \in Threads, NEW c \in Cores
    PROVE  LET y == CalledFrom(x, t, c)
           IN Good(y, NoThread) /\ RunKept(x, y, NoThread) /\ SameButResults(x, y)
<1> DEFINE G == [x.reg EXCEPT ![c] = NoResult]
           a == [x EXCEPT !.reg = G]
           r == [a.th[t] EXCEPT !.owed = NoResult]
           y == PutThread(a, t, r)
<1>1. x \in KernelState /\ x.reg \in [Cores -> Result] /\ NoResult \in Result
  BY KernelFields DEF Good, Sound, Result
<1>2. CalledFrom(x, t, c) = y
  BY DEF CalledFrom, PutThread
<1>3. G \in [Cores -> Result]
  BY <1>1
<1> HIDE DEF G
<1>4. a \in KernelState
  BY <1>1, <1>3, Put_reg
<1>5. /\ a.th = x.th /\ a.wl = x.wl /\ a.mx = x.mx /\ a.ses = x.ses /\ a.rq = x.rq
      /\ a.arb = x.arb /\ a.wake = x.wake /\ a.cur = x.cur /\ a.cpu = x.cpu
      /\ a.running = x.running /\ a.proc = x.proc /\ a.stored = x.stored /\ a.port = x.port
      /\ a.tev = x.tev /\ a.itv = x.itv /\ a.mem = x.mem /\ a.halt = x.halt
      /\ a.sem = x.sem /\ a.sig = x.sig /\ a.exited = x.exited
  BY <1>1 DEF KernelState
<1> HIDE DEF a
<1>6. Plain(x, a) /\ TimersOK(a) /\ (x.halt => a.halt)
  BY <1>4, <1>5 DEF Plain, Good, Rest, TimersOK
<1>7. Good(a, NoThread) /\ RunKept(x, a, NoThread)
  BY <1>6, PlainKeeps
<1>8. a.th[t] \in ThreadRec /\ a.th \in [Threads -> ThreadRec]
  BY <1>4, ThType
<1>9. r \in ThreadRec
  BY <1>1, <1>8, Thread_owed
<1>10. /\ r.status = a.th[t].status /\ r.cb = a.th[t].cb /\ r.req = a.th[t].req
       /\ r.waitObjs = a.th[t].waitObjs /\ r.pending = a.th[t].pending /\ r.held = a.th[t].held
       /\ r.nominal = a.th[t].nominal /\ r.current = a.th[t].current
  BY <1>8 DEF ThreadRec
<1> HIDE DEF r
<1>11. /\ y \in KernelState /\ y.th = [a.th EXCEPT ![t] = r] /\ y.mx = a.mx /\ y.wl = a.wl
       /\ y.ses = a.ses /\ y.rq = a.rq /\ Untouched(a, y)
  BY <1>4, <1>9, ThreadPut DEF PutThread
<1>12. y.halt = a.halt /\ y.sem = a.sem /\ y.sig = a.sig
  BY <1>4 DEF PutThread, KernelState
<1> HIDE DEF y
<1>13. y.th[t] = r /\ \A u \in Threads \ {t} : y.th[u] = a.th[u]
  BY <1>8, <1>11
<1>14. OnlyContexts(a, y)
  BY <1>10, <1>11, <1>13 DEF OnlyContexts
<1>15. Sound(y, NoThread) /\ Moved(a, y, NoThread)
  <2>1. Sound(a, NoThread)
    BY <1>7 DEF Good
  <2> QED BY <1>11, <1>14, <2>1, ContextsKeep
<1>16. Good(y, NoThread) /\ RunKept(a, y, NoThread)
  BY <1>7, <1>15, GoodMoved
<1>17. SameButResults(x, y)
  <2>1. OnlyContexts(x, y)
    BY <1>5, <1>14 DEF OnlyContexts
  <2> QED BY <1>5, <1>11, <1>12, <2>1 DEF SameButResults, Untouched
<1>18. RunKept(x, y, NoThread)
  BY <1>7, <1>16, RunKeptTransitive
<1> QED BY <1>2, <1>16, <1>17, <1>18

\* ControlProcess: which threads may be scheduled.
LEMMA ScheduleThreadsGood ==
    ASSUME NEW x, Good(x, NoThread), NEW S, NEW allowed \in BOOLEAN
    PROVE  LET y == [x EXCEPT !.th = [u \in Threads |->
                        IF u \in S THEN [@[u] EXCEPT !.canSchedule = allowed] ELSE @[u]]]
           IN Good(y, NoThread) /\ RunKept(x, y, NoThread)
<1> DEFINE T == [u \in Threads |->
                    IF u \in S THEN [x.th[u] EXCEPT !.canSchedule = allowed] ELSE x.th[u]]
           y == [x EXCEPT !.th = T]
<1>1. x \in KernelState /\ x.th \in [Threads -> ThreadRec]
  BY ThType DEF Good, Sound
<1>2. \A u \in Threads : [x.th[u] EXCEPT !.canSchedule = allowed] \in ThreadRec
  BY <1>1, Thread_canSchedule
<1>3. T \in ThMap
  BY <1>1, <1>2 DEF ThMap
<1>4. \A u \in Threads :
        /\ T[u].status = x.th[u].status /\ T[u].cb = x.th[u].cb
        /\ T[u].req = x.th[u].req /\ T[u].waitObjs = x.th[u].waitObjs
        /\ T[u].pending = x.th[u].pending /\ T[u].held = x.th[u].held
        /\ T[u].nominal = x.th[u].nominal /\ T[u].current = x.th[u].current
  <2> SUFFICES ASSUME NEW u \in Threads
               PROVE  /\ T[u].status = x.th[u].status /\ T[u].cb = x.th[u].cb
                      /\ T[u].req = x.th[u].req /\ T[u].waitObjs = x.th[u].waitObjs
                      /\ T[u].pending = x.th[u].pending /\ T[u].held = x.th[u].held
                      /\ T[u].nominal = x.th[u].nominal /\ T[u].current = x.th[u].current
    OBVIOUS
  <2>1. T[u] = IF u \in S THEN [x.th[u] EXCEPT !.canSchedule = allowed] ELSE x.th[u]
    OBVIOUS
  <2>2. x.th[u] \in ThreadRec
    BY <1>1
  <2> HIDE DEF T
  <2> QED BY <2>1, <2>2 DEF ThreadRec
<1> HIDE DEF T
<1>5. y \in KernelState
  BY <1>1, <1>3, Put_th
<1>6. /\ y.th = T /\ y.wl = x.wl /\ y.mx = x.mx /\ y.ses = x.ses /\ y.rq = x.rq
  BY <1>1 DEF KernelState
<1>7. Untouched(x, y)
  BY <1>1 DEF KernelState, Untouched
<1>8. [x EXCEPT !.th = [u \in Threads |->
           IF u \in S THEN [@[u] EXCEPT !.canSchedule = allowed] ELSE @[u]]] = y
  BY DEF T
<1> HIDE DEF y
<1>9. OnlyContexts(x, y)
  BY <1>4, <1>6 DEF OnlyContexts
<1>10. Sound(y, NoThread) /\ Moved(x, y, NoThread)
  <2>1. Sound(x, NoThread)
    BY DEF Good
  <2> QED BY <1>5, <1>7, <1>9, <2>1, ContextsKeep
<1>11. Good(y, NoThread) /\ RunKept(x, y, NoThread)
  BY <1>10, GoodMoved
<1> QED BY <1>8, <1>11


-----------------------------------------------------------------------------
(* Threads are created, and their priorities set.                          *)

PutQueue(x, c, q) == [x EXCEPT !.rq[c] = q]

LEMMA PutQueueFrame ==
    ASSUME NEW x \in KernelState, NEW c \in Cores, NEW q \in QueueList(ThreadsOf(c))
    PROVE  LET y == PutQueue(x, c, q)
           IN /\ y \in KernelState /\ y.rq = [x.rq EXCEPT ![c] = q] /\ y.th = x.th
              /\ y.mx = x.mx /\ y.wl = x.wl /\ y.ses = x.ses /\ y.halt = x.halt
              /\ Untouched(x, y)
<1> DEFINE v == [x.rq EXCEPT ![c] = q]
           y == [x EXCEPT !.rq = v]
<1>1. PutQueue(x, c, q) = y
  BY DEF PutQueue
<1>2. v \in RqMap
  BY KernelFields, RqPut
<1> HIDE DEF v
<1>3. y \in KernelState
  BY <1>2, Put_rq
<1>4. /\ y.rq = v /\ y.th = x.th /\ y.mx = x.mx /\ y.wl = x.wl /\ y.ses = x.ses
      /\ y.halt = x.halt
  BY DEF KernelState
<1>5. Untouched(x, y)
  BY DEF KernelState, Untouched
<1> HIDE DEF y
<1> QED BY <1>1, <1>3, <1>4, <1>5 DEF v

LEMMA NewThreadType ==
    ASSUME NEW p \in Priority, NEW status \in {"Ready", "NotCreated"}
    PROVE  /\ NewThread(status, p) \in ThreadRec
           /\ NewThread(status, p).status = status
           /\ NewThread(status, p).held = {} /\ NewThread(status, p).pending = {}
           /\ NewThread(status, p).waitObjs = <<>> /\ NewThread(status, p).req = NoSession
           /\ NewThread(status, p).nominal = p /\ NewThread(status, p).current = p
           /\ NewThread(status, p).cb = "none"
<1> DEFINE r == NewThread(status, p)
<1>1. r = [status |-> status, nominal |-> p, current |-> p, canSchedule |-> TRUE,
           held |-> {}, pending |-> {}, waitObjs |-> <<>>, addr |-> "none",
           cb |-> "none", req |-> NoSession, ctx |-> NoResult, owed |-> NoResult]
  BY DEF NewThread
<1>2. status \in Status
  BY DEF Status
<1>3. {} \in SUBSET Mutexes /\ <<>> \in Seq(WaitObject) /\ "none" \in Addresses \cup {"none"}
      /\ "none" \in {"none", "sync", "syncOutput", "arbiter", "ipc"}
      /\ NoSession \in Sessions \cup {NoSession} /\ NoResult \in Result /\ TRUE \in BOOLEAN
  BY DEF Result
<1>4. r \in ThreadRec
  <2> HIDE DEF r
  <2> QED BY ONLY <1>1, <1>2, <1>3, p \in Priority, Zenon DEF ThreadRec
<1> QED BY <1>1, <1>4

\* A thread that does not exist has nothing.
LEMMA NotCreatedIs ==
    ASSUME NEW x, Good(x, NoThread), NEW u \in Threads, x.th[u].status = "NotCreated"
    PROVE  /\ x.th[u].held = {} /\ x.th[u].waitObjs = <<>> /\ x.th[u].pending = {}
           /\ x.th[u].req = NoSession /\ x.wake[u] = 0 /\ u \notin ToSet(x.arb)
           /\ \A m \in Mutexes : x.mx[m].holder # u
<1>1. /\ x \in KernelState /\ ThreadsOK(x, NoThread) /\ ArbOK(x) /\ WakeOK(x)
      /\ MutexOK(x, NoThread) /\ ListsOK(x, NoThread, {})
  BY DEF Good, Sound, Rest
<1>2. u # NoThread
  BY NotNoThread
<1>3. x.th[u].waitObjs = <<>>
  BY <1>1, <1>2, StatusIs DEF ThreadsOK, Sync
<1>4. x.wake[u] = 0
  <2>1. x.wake[u] \in Nat
    BY <1>1, KernelFields
  <2>2. ~(x.wake[u] > 0)
    BY <1>1 DEF WakeOK, WaitStatus, SynchStatus
  <2> QED BY <2>1, <2>2
<1>5. x.th[u].req = NoSession /\ u \notin ToSet(x.arb)
  BY <1>1 DEF ThreadsOK, ArbOK
<1>6. \A m \in Mutexes : x.mx[m].holder # u
  BY <1>1, <1>2 DEF MutexOK, Alive
<1>7. x.th[u].held = {}
  <2>1. x.th[u].held \subseteq Mutexes
    BY <1>1, ThType, ThreadFields
  <2>2. \A m \in Mutexes : m \notin x.th[u].held
    BY <1>1, <1>2, <1>6 DEF MutexOK
  <2> QED BY <2>1, <2>2
<1>8. x.th[u].pending = {}
  <2>1. ToSet(x.th[u].waitObjs) = {}
    BY <1>3 DEF ToSet
  <2> QED BY <1>1, <1>2, <2>1 DEF ListsOK, WaitsFor
<1> QED BY <1>3, <1>4, <1>5, <1>6, <1>7, <1>8

LEMMA LinkQueue ==
    ASSUME NEW c, NEW q \in QueueList(ThreadsOf(c)), NEW th, NEW p \in Priority, QueueOK(th, c, q)
    PROVE  /\ QueueOK(th, c, prepare(q, p)) /\ p \in Linked(prepare(q, p))
           /\ prepare(q, p) \in QueueList(ThreadsOf(c))
<1> DEFINE r == prepare(q, p)
<1>1. r.data = q.data /\ Sorted(r) /\ Linked(r) = Linked(q) \cup {p}
  BY PrepareIs DEF QueueOK
<1>2. r \in QueueList(ThreadsOf(c))
  BY PrepareType
<1> HIDE DEF r
<1> QED BY <1>1, <1>2 DEF QueueOK, Distinct, r


LEMMA CreateGood ==
    ASSUME NEW x, Good(x, NoThread), NEW u \in Threads, x.th[u].status = "NotCreated",
           NEW p \in Priority
    PROVE  LET y == CreateThread(x, u, p)
           IN Good(y, NoThread) /\ RunKept(x, y, NoThread) /\ y.halt = x.halt
<1> DEFINE c == CoreOf[u]
           r == NewThread("Ready", p)
           q1 == prepare(x.rq[c], p)
           q == push_back(q1, p, u)
           a == PutThread(x, u, r)
           y == PutQueue(a, c, q)
<1>1. /\ x \in KernelState /\ QueuesOK(x) /\ Rest(x) /\ x.th \in [Threads -> ThreadRec]
      /\ x.rq \in RqMap
  BY ThType, KernelFields DEF Good, Sound
<1>2. r \in ThreadRec /\ r.status = "Ready" /\ r.held = {} /\ r.pending = {} /\ r.waitObjs = <<>>
      /\ r.req = NoSession /\ r.nominal = p /\ r.current = p
  BY NewThreadType
<1>3. /\ x.th[u].held = {} /\ x.th[u].waitObjs = <<>> /\ x.th[u].pending = {}
      /\ x.th[u].req = NoSession /\ x.wake[u] = 0 /\ u \notin ToSet(x.arb)
      /\ \A m \in Mutexes : x.mx[m].holder # u
  BY NotCreatedIs
<1>4. /\ c \in Cores /\ u \in ThreadsOf(c) /\ x.rq[c] \in QueueList(ThreadsOf(c))
  BY <1>1, RqOf
<1>5. CreateThread(x, u, p) = y
  <2>1. a.rq = x.rq
    BY <1>1 DEF PutThread, KernelState
  <2>2. CreateThread(x, u, p) = [a EXCEPT !.rq[c] = push_back(prepare(@, p), p, u)]
    BY DEF CreateThread, PutThread
  <2> HIDE DEF a, c
  <2> QED BY <2>1, <2>2 DEF PutQueue
<1> HIDE DEF r
<1>6. /\ a \in KernelState /\ a.th = [x.th EXCEPT ![u] = r] /\ a.mx = x.mx /\ a.wl = x.wl
      /\ a.ses = x.ses /\ a.rq = x.rq /\ Untouched(x, a)
  BY <1>1, <1>2, ThreadPut DEF PutThread
<1>7. a.halt = x.halt
  BY <1>1 DEF PutThread, KernelState
<1> HIDE DEF a, c
<1>8. /\ QueueOK(x.th, c, q1) /\ p \in Linked(q1) /\ q1 \in QueueList(ThreadsOf(c))
  BY <1>1, <1>4, LinkQueue DEF QueuesOK
<1> HIDE DEF q1
<1>9. q \in QueueList(ThreadsOf(c)) /\ Pushed(q1, p, u, q)
  BY <1>4, <1>8, PushType, PushIs
<1> HIDE DEF q
<1>10. /\ y \in KernelState /\ y.rq = [x.rq EXCEPT ![c] = q] /\ y.th = a.th
       /\ y.mx = x.mx /\ y.wl = x.wl /\ y.ses = x.ses /\ y.halt = x.halt /\ Untouched(a, y)
  BY <1>4, <1>6, <1>7, <1>9, PutQueueFrame
<1> HIDE DEF y
<1>11. Untouched(x, y)
  BY <1>6, <1>10, UntouchedTransitive
<1>12. y.th[u] = r /\ \A v \in Threads \ {u} : y.th[v] = x.th[v]
  BY <1>1, <1>6, <1>10
<1>13. QueuesOK(y)
  <2>1. ThreadsOf(c) \subseteq Threads
    BY DEF ThreadsOf
  <2>2. Changed(x.th, y.th, c, u, "Ready", p)
    BY <1>2, <1>12, <2>1 DEF Changed
  <2>3. QueueOK(y.th, c, q)
    BY <1>4, <1>8, <1>9, <2>2, ReadyQueue
  <2>4. Queued(x, y)
    BY <1>1, <1>4, <1>10, <1>12, <2>3, QueuePut
  <2> QED BY <1>1, <2>4 DEF Queued
<1>14. Sound(y, NoThread)
  <2>1. /\ ListsOK(x, NoThread, {}) /\ MutexOK(x, NoThread) /\ PrioOK(x, {NoThread})
        /\ ThreadsOK(x, NoThread) /\ SessionsOK(x)
    BY DEF Good, Sound
  <2>2. \A v \in Threads : /\ y.th[v].waitObjs = x.th[v].waitObjs /\ y.th[v].pending = x.th[v].pending
                           /\ y.th[v].held = x.th[v].held /\ y.th[v].req = x.th[v].req
                           /\ (Alive(x, v) => Alive(y, v))
                           /\ x.th[v].status = "WaitIPC" => y.th[v].status = "WaitIPC"
    BY <1>2, <1>3, <1>12 DEF Alive
  <2>3. ListsOK(y, NoThread, {})
    BY <1>10, <2>1, <2>2, ListsSame
  <2>4. MutexOK(y, NoThread)
    BY <1>10, <2>1, <2>2, MutexSame
  <2>5. SessionsOK(y)
    BY <1>1, <1>10, <2>1, <2>2, SessionsSame
  <2>6. ThreadsOK(y, NoThread)
    BY <1>2, <1>12, <2>1 DEF ThreadsOK, Sync
  <2>7. PrioOK(y, {NoThread})
    <3> SUFFICES ASSUME NEW v \in Threads, v # NoThread, Alive(y, v)
                 PROVE  y.th[v].current = Inherited(y, v)
      BY DEF PrioOK
    <3>1. CASE v = u
      <4>1. Inherited(y, v) = Min({p})
        <5>1. y.th[v].nominal = p /\ y.th[v].held = {}
          BY <1>2, <1>12, <3>1
        <5>2. {y.mx[m].prio : m \in y.th[v].held} = {}
          BY <5>1
        <5>3. {p} \cup {} = {p}
          OBVIOUS
        <5> QED BY <5>1, <5>2, <5>3 DEF Inherited
      <4>2. Min({p}) = p
        BY MinPriority
      <4> QED BY <1>2, <1>12, <3>1, <4>1, <4>2
    <3>2. CASE v # u
      <4>1. y.th[v] = x.th[v] /\ y.mx = x.mx
        BY <1>10, <1>12, <3>2
      <4>2. Inherited(y, v) = Inherited(x, v)
        BY ONLY <4>1, InheritedSame
      <4>3. Alive(x, v)
        BY <4>1 DEF Alive
      <4> QED BY <2>1, <4>1, <4>2, <4>3 DEF PrioOK
    <3> QED BY <3>1, <3>2
  <2> QED BY <1>10, <2>3, <2>4, <2>5, <2>6, <2>7 DEF Sound
<1>15. ArbOK(y)
  BY <1>1, <1>2, <1>3, <1>11, <1>12 DEF Rest, ArbOK, Untouched
<1>16. WakeOK(y)
  BY <1>1, <1>2, <1>3, <1>11, <1>12 DEF Rest, WakeOK, Untouched
<1>17. CoresOK(y)
  BY <1>1, <1>2, <1>11, <1>12 DEF Rest, CoresOK, ProcessOf, Untouched
<1>18. PortsOK(y)
  <2>1. PortsOK(x) /\ y.port = x.port /\ y.ses = x.ses
    BY <1>1, <1>10, <1>11 DEF Rest, Untouched
  <2> QED BY <1>1, <2>1, PortsSame
<1>19. TimersOK(y)
  BY <1>1, <1>11 DEF Rest, TimersOK, Untouched
<1>20. RunKept(x, y, NoThread)
  BY <1>2, <1>11, <1>12 DEF RunKept, Untouched
<1> QED BY <1>5, <1>10, <1>13, <1>14, <1>15, <1>16, <1>17, <1>18, <1>19, <1>20 DEF Good, Rest


LEMMA SetPriorityGood ==
    ASSUME NEW x, Good(x, NoThread), NEW u \in Threads, NEW p \in Priority
    PROVE  LET y == ThreadUpdatePriority(SetPriority(x, u, p), u)
           IN Good(y, NoThread) /\ RunKept(x, y, NoThread)
<1> DEFINE b == BoostPriority(x, u, p)
           r == [b.th[u] EXCEPT !.nominal = p]
           a == PutThread(b, u, r)
           y == ThreadUpdatePriority(a, u)
<1>1. /\ x \in KernelState /\ ListsOK(x, NoThread, {}) /\ MutexOK(x, NoThread)
      /\ PrioOK(x, {NoThread}) /\ ThreadsOK(x, NoThread) /\ SessionsOK(x) /\ QueuesOK(x)
  BY DEF Good, Sound
<1>2. ThreadUpdatePriority(SetPriority(x, u, p), u) = y
  BY DEF SetPriority, PutThread
<1>3. OnlyPriorities(x, b) /\ b.mx = x.mx
      /\ b.th = [x.th EXCEPT ![u] = [x.th[u] EXCEPT !.current = p]]
  BY <1>1, BoostResult
<1> HIDE DEF b
<1>4. b \in KernelState /\ b.th \in [Threads -> ThreadRec] /\ b.th[u] \in ThreadRec
      /\ x.th \in [Threads -> ThreadRec]
  BY <1>1, <1>3, ThType DEF OnlyPriorities
<1>5. r \in ThreadRec
  BY <1>4, Thread_nominal
<1>6. /\ r.status = b.th[u].status /\ r.cb = b.th[u].cb /\ r.req = b.th[u].req
      /\ r.waitObjs = b.th[u].waitObjs /\ r.pending = b.th[u].pending /\ r.held = b.th[u].held
      /\ r.current = b.th[u].current
  BY <1>4 DEF ThreadRec
<1> HIDE DEF r
<1>7. /\ a \in KernelState /\ a.th = [b.th EXCEPT ![u] = r] /\ a.mx = b.mx /\ a.wl = b.wl
      /\ a.ses = b.ses /\ a.rq = b.rq /\ Untouched(b, a)
  BY <1>4, <1>5, ThreadPut DEF PutThread
<1> HIDE DEF a
<1>8. a.th[u] = r /\ \A v \in Threads \ {u} : a.th[v] = x.th[v]
  BY <1>3, <1>4, <1>7
<1>9. OnlyPriorities(a, y) /\ y.mx = a.mx /\ \A D : PrioOK(a, D \cup {u}) => PrioOK(y, D)
  BY <1>7, ThreadUpdateKeeps
<1> HIDE DEF y
<1>10. SameWaits(x, a)
  <2>1. SameThreads(x, b) /\ b.wl = x.wl
    BY <1>1, <1>3, PrioritiesSame DEF OnlyPriorities
  <2> QED BY <1>6, <1>7, <1>8, <2>1 DEF SameWaits, SameThreads
<1>11. \A v \in Threads : a.th[v].held = x.th[v].held
  <2>1. SameThreads(x, b)
    BY <1>1, <1>3, PrioritiesSame
  <2> QED BY <1>6, <1>8, <2>1 DEF SameThreads
<1>12. /\ ListsOK(a, NoThread, {}) /\ ThreadsOK(a, NoThread) /\ SessionsOK(a)
       /\ \A v \in Threads : Alive(a, v) <=> Alive(x, v)
  <2>1. a.ses = x.ses
    BY <1>3, <1>7 DEF OnlyPriorities
  <2> QED BY <1>1, <1>10, <2>1, WaitsSame
<1>13. MutexOK(a, NoThread)
  <2>1. \A m \in Mutexes : a.mx[m].lock = x.mx[m].lock /\ a.mx[m].holder = x.mx[m].holder
    BY <1>3, <1>7
  <2> QED BY <1>1, <1>11, <1>12, <2>1, MutexSame
<1>14. PrioOK(a, {NoThread} \cup {u})
  <2> SUFFICES ASSUME NEW v \in Threads, v \notin {NoThread} \cup {u}, Alive(a, v)
               PROVE  a.th[v].current = Inherited(a, v)
    BY DEF PrioOK
  <2>1. a.th[v] = x.th[v] /\ a.mx = x.mx
    BY <1>3, <1>7, <1>8
  <2>2. Inherited(a, v) = Inherited(x, v)
    BY ONLY <2>1, InheritedSame
  <2>3. Alive(x, v)
    BY <1>12
  <2> QED BY <1>1, <2>1, <2>2, <2>3 DEF PrioOK
<1>15. PrioOK(y, {NoThread})
  BY <1>9, <1>14
<1>16. /\ ListsOK(y, NoThread, {}) /\ MutexOK(y, NoThread) /\ ThreadsOK(y, NoThread)
       /\ SessionsOK(y) /\ y \in KernelState
  <2>1. y \in KernelState
    BY <1>9 DEF OnlyPriorities
  <2> QED BY <1>7, <1>9, <1>12, <1>13, <2>1, PrioritiesKeep
<1>17. Sound(y, NoThread)
  BY <1>15, <1>16 DEF Sound
<1>18. Untouched(x, y) /\ Queued(x, y) /\ y.ses = x.ses
  <2>1. Queued(b, a)
    <3>1. a.rq = b.rq
      BY <1>7
    <3>2. \A v \in Threads : a.th[v].status = b.th[v].status /\ a.th[v].current = b.th[v].current
      BY <1>4, <1>6, <1>7
    <3> QED BY ONLY <3>1, <3>2, QueuesSame
  <2>2. Untouched(x, b) /\ Untouched(a, y) /\ Queued(x, b) /\ Queued(a, y) /\ y.ses = a.ses /\ b.ses = x.ses
    BY <1>3, <1>9 DEF OnlyPriorities
  <2> QED BY <1>7, <2>1, <2>2, UntouchedTransitive, QueuedTransitive
<1>19. \A v \in Threads : /\ y.th[v].status = x.th[v].status /\ y.th[v].cb = x.th[v].cb
                          /\ y.th[v].req = x.th[v].req
  <2>1. SameThreads(a, y)
    BY <1>7, <1>9, PrioritiesSame
  <2> QED BY <1>10, <2>1 DEF SameWaits, SameThreads
<1> QED BY <1>2, <1>17, <1>18, <1>19, GoodSame

UpdateStep(p, i, x) == MutexUpdatePriority(x, p[1][i])
UpdateHolds(p, i, x) == Good(x, NoThread) /\ RunKept(p[2], x, NoThread)

Updating == INSTANCE Loop WITH Step <- UpdateStep, Holds <- UpdateHolds

LEMMA MutexUpdateGood ==
    ASSUME NEW x, Good(x, NoThread), NEW m \in Mutexes
    PROVE  /\ Good(MutexUpdatePriority(x, m), NoThread)
           /\ RunKept(x, MutexUpdatePriority(x, m), NoThread)
<1> DEFINE y == MutexUpdatePriority(x, m)
<1>1. /\ x \in KernelState /\ ListsOK(x, NoThread, {}) /\ MutexOK(x, NoThread)
      /\ PrioOK(x, {NoThread}) /\ ThreadsOK(x, NoThread) /\ SessionsOK(x)
  BY DEF Good, Sound
<1>2. OnlyPriorities(x, y) /\ PrioOK(y, {NoThread})
  BY <1>1, MutexUpdateKeeps
<1> HIDE DEF y
<1>3. /\ Moved(x, y, NoThread) /\ ListsOK(y, NoThread, {}) /\ MutexOK(y, NoThread)
      /\ ThreadsOK(y, NoThread) /\ SessionsOK(y)
  BY <1>1, <1>2, PrioritiesKeep
<1>4. Sound(y, NoThread)
  BY <1>2, <1>3 DEF Sound, OnlyPriorities
<1> QED BY <1>3, <1>4, GoodMoved DEF y

LEMMA UpdateAllGood ==
    ASSUME NEW x, Good(x, NoThread), NEW order \in Seq(Mutexes)
    PROVE  LET y == ForEach(MutexUpdatePriority, x, order)
           IN Good(y, NoThread) /\ RunKept(x, y, NoThread)
<1> DEFINE p == <<order, x>>
           n == Len(order)
           f == Updating!Run(p, x, n)
           y == f[n]
<1>1. n \in Nat /\ \A i \in 1 .. n : order[i] \in Mutexes
  OBVIOUS
<1>2. ForEach(MutexUpdatePriority, x, order) = y
  BY DEF ForEach, Updating!Run, UpdateStep
<1>3. p[1] = order /\ p[2] = x
  OBVIOUS
<1> HIDE DEF p, f, n
<1>4. UpdateHolds(p, 0, x)
  BY <1>3, RunKeptItself DEF UpdateHolds
<1>5. ASSUME NEW i \in 1 .. n, NEW z, UpdateHolds(p, i - 1, z)
      PROVE  UpdateHolds(p, i, UpdateStep(p, i, z))
  <2> DEFINE w == MutexUpdatePriority(z, order[i])
  <2>1. Good(z, NoThread) /\ RunKept(x, z, NoThread)
    BY <1>3, <1>5 DEF UpdateHolds
  <2>2. Good(w, NoThread) /\ RunKept(z, w, NoThread)
    BY <1>1, <2>1, MutexUpdateGood
  <2>3. UpdateStep(p, i, z) = w
    BY <1>3 DEF UpdateStep
  <2> HIDE DEF w
  <2> QED BY <1>3, <2>1, <2>2, <2>3, RunKeptTransitive DEF UpdateHolds
<1>6. \A i \in 0 .. n : UpdateHolds(p, i, f[i])
  <2>1. \A i \in 1 .. n : \A z : UpdateHolds(p, i - 1, z) => UpdateHolds(p, i, UpdateStep(p, i, z))
    BY <1>5
  <2> QED BY <1>1, <1>4, <2>1, Updating!LoopInvariant DEF f
<1>7. UpdateHolds(p, n, y)
  BY <1>1, <1>6
<1> HIDE DEF y
<1> QED BY <1>2, <1>3, <1>7 DEF UpdateHolds


-----------------------------------------------------------------------------
(* Sessions and ports.                                                     *)

OnlySessions(x, y) ==
    /\ y \in KernelState
    /\ y.th = x.th /\ y.wl = x.wl /\ y.mx = x.mx /\ y.rq = x.rq
    /\ y.arb = x.arb /\ y.wake = x.wake /\ y.cur = x.cur /\ y.cpu = x.cpu /\ y.running = x.running
    /\ y.proc = x.proc /\ y.stored = x.stored /\ y.tev = x.tev /\ y.halt = x.halt

LEMMA OnlySessionsGood ==
    ASSUME NEW x, Good(x, NoThread), NEW y, OnlySessions(x, y), SessionsOK(y), PortsOK(y)
    PROVE  Good(y, NoThread) /\ RunKept(x, y, NoThread)
<1>1. Sound(y, NoThread)
  BY SoundSessions DEF Good, OnlySessions
<1>2. QueuesOK(y)
  BY DEF Good, QueuesOK, OnlySessions
<1>3. ArbOK(y) /\ WakeOK(y) /\ CoresOK(y) /\ TimersOK(y)
  BY DEF Good, Rest, OnlySessions, ArbOK, WakeOK, CoresOK, ProcessOf, TimersOK
<1>4. RunKept(x, y, NoThread)
  BY DEF RunKept, OnlySessions
<1> QED BY <1>1, <1>2, <1>3, <1>4 DEF Good, Rest

PutSessions(x, P, S) == [x EXCEPT !.port = P, !.ses = S]

LEMMA PutSessionsIs ==
    ASSUME NEW x \in KernelState, NEW P \in [Ports -> PortRec], NEW S \in [Sessions -> SessionRec]
    PROVE  LET y == PutSessions(x, P, S)
           IN OnlySessions(x, y) /\ y.port = P /\ y.ses = S
<1> DEFINE a == [x EXCEPT !.port = P]
           y == [a EXCEPT !.ses = S]
<1>1. PutSessions(x, P, S) = y
  BY DEF PutSessions
<1>2. a \in KernelState
  BY Put_port DEF PortMap
<1>3. y \in KernelState
  <2> HIDE DEF a
  <2> QED BY <1>2, Put_ses DEF SesMap
<1>4. /\ y.th = x.th /\ y.wl = x.wl /\ y.mx = x.mx /\ y.rq = x.rq
      /\ y.arb = x.arb /\ y.wake = x.wake /\ y.cur = x.cur /\ y.cpu = x.cpu
      /\ y.running = x.running
      /\ y.proc = x.proc /\ y.stored = x.stored /\ y.tev = x.tev /\ y.halt = x.halt
      /\ y.port = P /\ y.ses = S
  BY DEF KernelState
<1> HIDE DEF y
<1> QED BY <1>1, <1>3, <1>4 DEF OnlySessions

\* A session nobody requests anything of does no harm.
LEMMA QuietSession ==
    ASSUME NEW x \in KernelState, SessionsOK(x), NEW s \in Sessions, NEW y, y.th = x.th,
           \A v \in Sessions \ {s} : y.ses[v] = x.ses[v],
           y.ses[s].pending = <<>>, y.ses[s].handling = NoThread,
           ~y.ses[s].client \/ ~y.ses[s].alive \/ \A t \in Threads : x.th[t].req # s
    PROVE  SessionsOK(y)
<1>1. ToSet(y.ses[s].pending) = {} /\ IsInjective(y.ses[s].pending)
  BY DEF ToSet, IsInjective
<1>2. Requesting(y, s) = {}
  BY <1>1 DEF Requesting
<1>3. \A v \in Sessions \ {s} : Requesting(y, v) = Requesting(x, v)
  BY DEF Requesting
<1> QED BY <1>1, <1>2, <1>3 DEF SessionsOK

\* The sessions of a port that exist, counted.
LEMMA ServersFinite ==
    ASSUME NEW x, NEW p
    PROVE  IsFiniteSet(ServersOf(x, p)) /\ Cardinality(ServersOf(x, p)) \in Nat
<1>1. IsFiniteSet(Sessions) /\ ServersOf(x, p) \subseteq Sessions
  BY KernelAssumption DEF ServersOf
<1> QED BY <1>1, FS_Subset, FS_CardinalityType

LEMMA NewSessionType ==
    ASSUME NEW p \in Ports
    PROVE  /\ NewSession(p) \in SessionRec
           /\ NewSession(p).client /\ ~NewSession(p).server /\ NewSession(p).alive
           /\ NewSession(p).port = p /\ NewSession(p).pending = <<>>
           /\ NewSession(p).handling = NoThread
<1> DEFINE a == [ClosedSession EXCEPT !.client = TRUE]
           b == [a EXCEPT !.alive = TRUE]
           y == [b EXCEPT !.port = p]
<1>1. NewSession(p) = y
  BY DEF NewSession
<1>2. /\ TRUE \in BOOLEAN /\ FALSE \in BOOLEAN /\ NoPort \in Ports \cup {NoPort}
      /\ <<>> \in Seq(Threads) /\ NoThread \in MaybeThread
  BY DEF MaybeThread
<1>3. ClosedSession \in SessionRec
  BY ONLY <1>2, Zenon DEF SessionRec, ClosedSession
<1>4. /\ ~ClosedSession.server /\ ClosedSession.pending = <<>> /\ ClosedSession.handling = NoThread
  BY DEF ClosedSession
<1>5. a \in SessionRec /\ a.client /\ a.server = ClosedSession.server
      /\ a.pending = ClosedSession.pending /\ a.handling = ClosedSession.handling
  BY ONLY <1>3, Zenon DEF SessionRec
<1> HIDE DEF a
<1>6. b \in SessionRec /\ b.client = a.client /\ b.server = a.server /\ b.alive
      /\ b.pending = a.pending /\ b.handling = a.handling
  BY ONLY <1>5, Zenon DEF SessionRec
<1> HIDE DEF b
<1>7. y \in SessionRec /\ y.client = b.client /\ y.server = b.server /\ y.alive = b.alive
      /\ y.port = p /\ y.pending = b.pending /\ y.handling = b.handling
  BY ONLY <1>6, p \in Ports, Zenon DEF SessionRec
<1> HIDE DEF y
<1> QED BY <1>1, <1>4, <1>5, <1>6, <1>7

\* The session that an end was closed of.
EndOf(client) == IF client THEN [ClosedSession EXCEPT !.client = TRUE] ELSE ClosedSession

LEMMA EndType ==
    ASSUME NEW client
    PROVE  /\ EndOf(client) \in SessionRec
           /\ ~EndOf(client).server /\ ~EndOf(client).alive
           /\ EndOf(client).pending = <<>> /\ EndOf(client).handling = NoThread
           /\ ClosedSession \in SessionRec
           /\ ~ClosedSession.server /\ ~ClosedSession.alive /\ ~ClosedSession.client
           /\ ClosedSession.pending = <<>> /\ ClosedSession.handling = NoThread
<1> DEFINE e == [ClosedSession EXCEPT !.client = TRUE]
<1>2. /\ TRUE \in BOOLEAN /\ FALSE \in BOOLEAN /\ NoPort \in Ports \cup {NoPort}
      /\ <<>> \in Seq(Threads) /\ NoThread \in MaybeThread
  BY DEF MaybeThread
<1>4. ClosedSession \in SessionRec
  BY ONLY <1>2, Zenon DEF SessionRec, ClosedSession
<1>6. /\ ~ClosedSession.server /\ ~ClosedSession.alive /\ ~ClosedSession.client
      /\ ClosedSession.pending = <<>> /\ ClosedSession.handling = NoThread
  BY DEF ClosedSession
<1>5. e \in SessionRec /\ e.server = ClosedSession.server /\ e.alive = ClosedSession.alive
      /\ e.pending = ClosedSession.pending /\ e.handling = ClosedSession.handling
  BY ONLY <1>4, Zenon DEF SessionRec
<1>7. EndOf(client) = e \/ EndOf(client) = ClosedSession
  BY DEF EndOf
<1> HIDE DEF e
<1> QED BY <1>4, <1>5, <1>6, <1>7



\* ClientPort::Connect, before the threads that wait for the port are woken.
Connected(x, p, s) ==
    [x EXCEPT !.port[p].active = @ + 1, !.port[p].pending = Append(@, s),
              !.ses[s] = NewSession(p)]

LEMMA ConnectedGood ==
    ASSUME NEW x, Good(x, NoThread), NEW p \in Ports, NEW s \in Unused(x),
           x.port[p].active < MaxSessions
    PROVE  Good(Connected(x, p, s), NoThread) /\ RunKept(x, Connected(x, p, s), NoThread)
<1> DEFINE r1 == [x.port[p] EXCEPT !.active = x.port[p].active + 1]
           r == [r1 EXCEPT !.pending = Append(x.port[p].pending, s)]
           P == [x.port EXCEPT ![p] = r]
           n == NewSession(p)
           S == [x.ses EXCEPT ![s] = n]
           y == PutSessions(x, P, S)
<1>1. /\ x \in KernelState /\ SessionsOK(x) /\ PortsOK(x)
  BY DEF Good, Sound, Rest
<1>2. /\ x.port \in [Ports -> PortRec] /\ x.port[p] \in PortRec
      /\ x.port[p].pending \in Seq(Sessions) /\ x.port[p].active \in Int
      /\ ToSet(x.port[p].pending) \subseteq Sessions
      /\ x.ses \in [Sessions -> SessionRec]
  BY <1>1, PortFields, SessionFields
<1>3. s \in Sessions /\ x.ses[s] = ClosedSession /\ \A t \in Threads : x.th[t].req # s
  BY DEF Unused
<1>4. ~x.ses[s].alive
  BY <1>3, EndType
<1>5. Connected(x, p, s) = y
  <2>1. {"port", "ses"} \subseteq DOMAIN x
    BY <1>1 DEF KernelState
  <2>2. {"active", "pending"} \subseteq DOMAIN x.port[p]
    BY <1>2 DEF PortRec
  <2>3. [x.port[p] EXCEPT !.active = @ + 1].pending = x.port[p].pending
    BY <1>2 DEF PortRec
  <2> HIDE DEF n
  <2> QED BY ONLY <1>2, <2>1, <2>2, <2>3, <1>3 DEF Connected, PutSessions, n
<1>0. x.port[p].active + 1 \in Int
  BY <1>2
<1>6. /\ r1 \in PortRec /\ r1.pending = x.port[p].pending /\ r1.active = x.port[p].active + 1
  BY ONLY <1>0, <1>2 DEF PortRec
<1> HIDE DEF r1
<1>7. Append(x.port[p].pending, s) \in Seq(Sessions)
      /\ ToSet(Append(x.port[p].pending, s)) = ToSet(x.port[p].pending) \cup {s}
  BY <1>2, <1>3, ToSetAppend
<1>8. /\ r \in PortRec /\ r.pending = Append(x.port[p].pending, s)
      /\ r.active = x.port[p].active + 1
  BY ONLY <1>6, <1>7 DEF PortRec
<1> HIDE DEF r
<1>9. /\ n \in SessionRec /\ n.client /\ ~n.server /\ n.alive /\ n.port = p /\ n.pending = <<>>
      /\ n.handling = NoThread
  BY NewSessionType
<1> HIDE DEF n
<1>10. /\ P \in [Ports -> PortRec] /\ P[p] = r /\ \A q \in Ports \ {p} : P[q] = x.port[q]
       /\ S \in [Sessions -> SessionRec] /\ S[s] = n /\ \A v \in Sessions \ {s} : S[v] = x.ses[v]
  BY <1>2, <1>3, <1>8, <1>9
<1> HIDE DEF P, S
<1>11. OnlySessions(x, y) /\ y.port = P /\ y.ses = S
  BY <1>1, <1>10, PutSessionsIs
<1> HIDE DEF y
<1>12. SessionsOK(y)
  BY <1>1, <1>3, <1>9, <1>10, <1>11, QuietSession DEF OnlySessions
<1>13. PortsOK(y)
  <2>1. \A q \in Ports : s \notin ToSet(x.port[q].pending)
    BY <1>1, <1>4 DEF PortsOK
  <2>2. ServersOf(y, p) = ServersOf(x, p) \cup {s}
    BY <1>3, <1>9, <1>10, <1>11 DEF ServersOf
  <2>3. s \notin ServersOf(x, p)
    BY <1>4 DEF ServersOf
  <2>4. Cardinality(ServersOf(y, p)) = Cardinality(ServersOf(x, p)) + 1
    <3> DEFINE Z == ServersOf(x, p)
    <3>1. IsFiniteSet(Z)
      BY ServersFinite
    <3>2. s \notin Z /\ ServersOf(y, p) = Z \cup {s}
      BY <2>2, <2>3
    <3> HIDE DEF Z
    <3>3. Cardinality(Z \cup {s}) = Cardinality(Z) + 1
      BY ONLY <3>1, <3>2, FS_AddElement
    <3> QED BY <3>2, <3>3 DEF Z
  <2>5. \A q \in Ports \ {p} : ServersOf(y, q) = ServersOf(x, q)
    BY <1>3, <1>4, <1>9, <1>10, <1>11 DEF ServersOf
  <2>6. IsInjective(r.pending)
    BY <1>1, <1>2, <1>3, <1>8, <2>1, AppendNew DEF PortsOK
  <2>7. MaxSessions \in Nat
    BY MaxSessionsAssumption
  <2>8. r.active = Cardinality(ServersOf(y, p)) /\ r.active <= MaxSessions
    BY <1>1, <1>2, <1>8, <2>4, <2>7 DEF PortsOK
  <2>9. \A q \in Ports : ToSet(x.port[q].pending) \subseteq Sessions
    BY <1>1, PortFields
  <2>10. ASSUME NEW q \in Ports
         PROVE  /\ IsInjective(y.port[q].pending)
                /\ \A v \in ToSet(y.port[q].pending) :
                      y.ses[v].port = q /\ y.ses[v].alive /\ ~y.ses[v].server
                /\ y.port[q].active = Cardinality(ServersOf(y, q)) /\ y.port[q].active <= MaxSessions
    <3>1. CASE q = p
      <4>1. y.port[q] = r /\ ToSet(r.pending) = ToSet(x.port[p].pending) \cup {s}
        BY <1>7, <1>8, <1>10, <1>11, <3>1
      <4>2. \A v \in ToSet(x.port[p].pending) : y.ses[v] = x.ses[v]
        BY <1>10, <1>11, <2>1, <2>9
      <4>3. \A v \in ToSet(x.port[p].pending) :
               x.ses[v].port = p /\ x.ses[v].alive /\ ~x.ses[v].server
        BY <1>1 DEF PortsOK
      <4>4. y.ses[s] = n
        BY <1>10, <1>11
      <4> QED BY <1>9, <2>6, <2>8, <3>1, <4>1, <4>2, <4>3, <4>4
    <3>2. CASE q # p
      <4>1. y.port[q] = x.port[q] /\ ServersOf(y, q) = ServersOf(x, q)
        BY <1>10, <1>11, <2>5, <3>2
      <4>2. \A v \in ToSet(x.port[q].pending) : y.ses[v] = x.ses[v]
        BY <1>10, <1>11, <2>1, <2>9
      <4> QED BY <1>1, <4>1, <4>2 DEF PortsOK
    <3> QED BY <3>1, <3>2
  <2>11. \A v \in Sessions : IF y.ses[v].alive THEN y.ses[v].port \in Ports ELSE ~y.ses[v].server
    BY <1>1, <1>9, <1>10, <1>11 DEF PortsOK
  <2> QED BY <2>10, <2>11 DEF PortsOK
<1> QED BY <1>5, <1>11, <1>12, <1>13, OnlySessionsGood

LEMMA ConnectGood ==
    ASSUME NEW x, Good(x, NoThread), NEW p \in Ports, NEW s \in Unused(x)
    PROVE  LET y == Connect(x, p, s)
           IN Good(y, NoThread) /\ RunKept(x, y, NoThread)
<1>1. CASE x.port[p].active >= MaxSessions
  BY <1>1, RunKeptItself DEF Connect
<1>2. CASE ~(x.port[p].active >= MaxSessions)
  <2> DEFINE a == Connected(x, p, s)
             y == WakeupAllWaitingThreads(a, p)
  <2>1. Connect(x, p, s) = y
    BY <1>2 DEF Connect, Connected
  <2>2. x.port[p].active < MaxSessions
    <3>1. x.port[p].active \in Int /\ MaxSessions \in Int
      BY PortFields, MaxSessionsAssumption DEF Good, Sound
    <3> QED BY <1>2, <3>1
  <2>3. Good(a, NoThread) /\ RunKept(x, a, NoThread)
    BY <2>2, ConnectedGood
  <2> HIDE DEF a
  <2>4. Good(y, NoThread) /\ RunKept(a, y, NoThread)
    BY <2>3, NobodyStops, NotNoThread, WakeupGood
  <2> HIDE DEF y
  <2> QED BY <2>1, <2>3, <2>4, RunKeptTransitive
<1> QED BY <1>1, <1>2

\* Opening or closing the server's handle does not touch the requests.
LEMMA SameRequests ==
    ASSUME NEW x, SessionsOK(x), NEW y, y.th = x.th,
           \A s \in Sessions : /\ y.ses[s].pending = x.ses[s].pending
                               /\ y.ses[s].handling = x.ses[s].handling
                               /\ y.ses[s].client = x.ses[s].client
                               /\ y.ses[s].alive = x.ses[s].alive
    PROVE  SessionsOK(y)
<1>1. \A s \in Sessions : Requesting(y, s) = Requesting(x, s)
  BY DEF Requesting
<1> QED BY <1>1 DEF SessionsOK

PutSes(x, S) == [x EXCEPT !.ses = S]
PutSesPort(x, P, S) == [x EXCEPT !.ses = S, !.port = P]

LEMMA PutSessionsOrder ==
    ASSUME NEW x \in KernelState, NEW P, NEW S
    PROVE  PutSesPort(x, P, S) = PutSessions(x, P, S) /\ PutSes(x, S) = PutSessions(x, x.port, S)
<1>1. {"port", "ses"} \subseteq DOMAIN x
  BY DEF KernelState
<1>2. [x EXCEPT !.port = x.port] = x
  BY DEF KernelState
<1>3. [x EXCEPT !.ses = S, !.port = P] = PutSessions(x, P, S)
  BY ONLY <1>1 DEF PutSessions
<1>4. [x EXCEPT !.ses = S] = PutSessions(x, x.port, S)
  BY ONLY <1>2 DEF PutSessions
<1> QED BY <1>3, <1>4 DEF PutSes, PutSesPort

\* ServerPort::Accept
LEMMA AcceptGood ==
    ASSUME NEW x, Good(x, NoThread), NEW p \in Ports
    PROVE  Good(Accept(x, p), NoThread) /\ RunKept(x, Accept(x, p), NoThread)
<1>1. CASE x.port[p].pending = <<>>
  BY <1>1, RunKeptItself DEF Accept
<1>2. CASE x.port[p].pending # <<>>
  <2> DEFINE s == Last(x.port[p].pending)
             F == Front(x.port[p].pending)
             r == [x.ses[s] EXCEPT !.server = TRUE]
             P == [x.port EXCEPT ![p].pending = F]
             S == [x.ses EXCEPT ![s] = r]
             y == PutSessions(x, P, S)
  <2>1. /\ x \in KernelState /\ SessionsOK(x) /\ PortsOK(x)
    BY DEF Good, Sound, Rest
  <2>2. /\ x.port \in [Ports -> PortRec] /\ x.port[p] \in PortRec
        /\ x.port[p].pending \in Seq(Sessions) /\ x.port[p].active \in Int
        /\ x.ses \in [Sessions -> SessionRec]
    BY <2>1, PortFields, SessionFields
  <2>3. /\ F \in Seq(Sessions) /\ s \in Sessions
        /\ ToSet(x.port[p].pending) = ToSet(F) \cup {s}
        /\ IsInjective(F) /\ s \notin ToSet(F)
    <3>1. IsInjective(x.port[p].pending)
      BY <2>1 DEF PortsOK
    <3> QED BY <1>2, <2>2, <3>1, FrontLast
  <2>4. Accept(x, p) = y
    <3>1. {"port", "ses"} \subseteq DOMAIN x
      BY <2>1 DEF KernelState
    <3>2. Accept(x, p) = PutSesPort(x, P, S)
      BY ONLY <1>2, <2>2, <3>1 DEF Accept, PutSesPort
    <3> HIDE DEF P, S
    <3> QED BY <2>1, <3>2, PutSessionsOrder
  <2>5. /\ r \in SessionRec /\ r.server = TRUE /\ r.client = x.ses[s].client
        /\ r.alive = x.ses[s].alive /\ r.port = x.ses[s].port /\ r.pending = x.ses[s].pending
        /\ r.handling = x.ses[s].handling
    <3>1. x.ses[s] \in SessionRec /\ TRUE \in BOOLEAN
      BY <2>2, <2>3
    <3> DEFINE rr == x.ses[s]
    <3> HIDE DEF rr
    <3>2. rr \in SessionRec
      BY <3>1 DEF rr
    <3>3. /\ [rr EXCEPT !.server = TRUE] \in SessionRec /\ [rr EXCEPT !.server = TRUE].server = TRUE
          /\ [rr EXCEPT !.server = TRUE].client = rr.client
          /\ [rr EXCEPT !.server = TRUE].alive = rr.alive
          /\ [rr EXCEPT !.server = TRUE].port = rr.port
          /\ [rr EXCEPT !.server = TRUE].pending = rr.pending
          /\ [rr EXCEPT !.server = TRUE].handling = rr.handling
      BY <3>2, Zenon DEF SessionRec
    <3> QED BY ONLY <3>3 DEF rr, r
  <2> HIDE DEF s, F
  <2>6. /\ P \in [Ports -> PortRec] /\ P[p].pending = F /\ P[p].active = x.port[p].active
        /\ \A q \in Ports \ {p} : P[q] = x.port[q]
    BY <2>2, <2>3 DEF PortRec
  <2> HIDE DEF r
  <2>7. /\ S \in [Sessions -> SessionRec] /\ S[s] = r /\ \A v \in Sessions \ {s} : S[v] = x.ses[v]
    BY <2>2, <2>3, <2>5
  <2> HIDE DEF P, S
  <2>8. OnlySessions(x, y) /\ y.port = P /\ y.ses = S
    BY <2>1, <2>6, <2>7, PutSessionsIs
  <2> HIDE DEF y
  <2>9. \A v \in Sessions :
            /\ y.ses[v].pending = x.ses[v].pending /\ y.ses[v].handling = x.ses[v].handling
            /\ y.ses[v].client = x.ses[v].client /\ y.ses[v].alive = x.ses[v].alive
            /\ y.ses[v].port = x.ses[v].port
    BY <2>5, <2>7, <2>8
  <2>10. SessionsOK(y)
    BY <2>1, <2>8, <2>9, SameRequests DEF OnlySessions
  <2>11. PortsOK(y)
    <3>1. x.ses[s].port = p /\ x.ses[s].alive
      BY <2>1, <2>3 DEF PortsOK
    <3>2. \A q \in Ports \ {p} : s \notin ToSet(x.port[q].pending)
      BY <2>1, <3>1 DEF PortsOK
    <3>3. \A q \in Ports : ServersOf(y, q) = ServersOf(x, q)
      BY <2>9 DEF ServersOf
    <3>4. \A q \in Ports : ToSet(x.port[q].pending) \subseteq Sessions
      BY <2>1, PortFields
    <3>5. ASSUME NEW q \in Ports
          PROVE  /\ IsInjective(y.port[q].pending) /\ ToSet(y.port[q].pending) \subseteq ToSet(x.port[q].pending)
                 /\ s \notin ToSet(y.port[q].pending) /\ y.port[q].active = x.port[q].active
      <4>1. CASE q = p
        BY <2>3, <2>6, <2>8, <4>1
      <4>2. CASE q # p
        BY <2>1, <2>6, <2>8, <3>2, <4>2 DEF PortsOK
      <4> QED BY <4>1, <4>2
    <3>6. ASSUME NEW q \in Ports, NEW v \in ToSet(y.port[q].pending)
          PROVE  y.ses[v].port = q /\ y.ses[v].alive /\ ~y.ses[v].server
      <4>1. v \in ToSet(x.port[q].pending) /\ v # s /\ v \in Sessions
        BY <3>4, <3>5
      <4>2. y.ses[v] = x.ses[v]
        BY <2>7, <2>8, <4>1
      <4> QED BY <2>1, <4>1, <4>2 DEF PortsOK
    <3>7. \A q \in Ports : /\ y.port[q].active = Cardinality(ServersOf(y, q))
                           /\ y.port[q].active <= MaxSessions
      BY <2>1, <3>3, <3>5 DEF PortsOK
    <3>8. \A v \in Sessions : IF y.ses[v].alive THEN y.ses[v].port \in Ports ELSE ~y.ses[v].server
      <4>1. \A v \in Sessions \ {s} : y.ses[v] = x.ses[v]
        BY <2>7, <2>8
      <4>2. y.ses[s].alive /\ y.ses[s].port \in Ports
        BY <2>3, <2>9, <3>1
      <4> QED BY <2>1, <4>1, <4>2 DEF PortsOK
    <3> QED BY <3>5, <3>6, <3>7, <3>8 DEF PortsOK
  <2> QED BY <2>4, <2>8, <2>10, <2>11, OnlySessionsGood
<1> QED BY <1>1, <1>2

\* A session that is left alone by its port: the record of s becomes r.
LEMMA CloseServerGood ==
    ASSUME NEW x, Good(x, NoThread), NEW s \in Sessions
    PROVE  Good(CloseServer(x, s), NoThread) /\ RunKept(x, CloseServer(x, s), NoThread)
<1> DEFINE r == [x.ses[s] EXCEPT !.server = FALSE]
           S == [x.ses EXCEPT ![s] = r]
           y == PutSessions(x, x.port, S)
<1>1. /\ x \in KernelState /\ SessionsOK(x) /\ PortsOK(x)
  BY DEF Good, Sound, Rest
<1>2. x.port \in [Ports -> PortRec] /\ x.ses \in [Sessions -> SessionRec] /\ x.ses[s] \in SessionRec
  BY <1>1, PortFields, SessionFields
<1>3. CloseServer(x, s) = y
  <2>1. CloseServer(x, s) = PutSes(x, S)
    BY DEF CloseServer, PutSes
  <2> HIDE DEF S
  <2> QED BY <1>1, <2>1, PutSessionsOrder
<1>4. /\ r \in SessionRec /\ r.server = FALSE /\ r.client = x.ses[s].client
      /\ r.alive = x.ses[s].alive /\ r.port = x.ses[s].port /\ r.pending = x.ses[s].pending
      /\ r.handling = x.ses[s].handling
  BY <1>2, Zenon DEF SessionRec
<1> HIDE DEF r
<1>5. /\ S \in [Sessions -> SessionRec] /\ S[s] = r /\ \A v \in Sessions \ {s} : S[v] = x.ses[v]
  BY <1>2, <1>4
<1> HIDE DEF S
<1>6. OnlySessions(x, y) /\ y.port = x.port /\ y.ses = S
  BY <1>1, <1>2, <1>5, PutSessionsIs
<1> HIDE DEF y
<1>7. \A v \in Sessions :
          /\ y.ses[v].pending = x.ses[v].pending /\ y.ses[v].handling = x.ses[v].handling
          /\ y.ses[v].client = x.ses[v].client /\ y.ses[v].alive = x.ses[v].alive
          /\ y.ses[v].port = x.ses[v].port
  BY <1>4, <1>5, <1>6
<1>8. SessionsOK(y)
  BY <1>1, <1>6, <1>7, SameRequests DEF OnlySessions
<1>9. ~y.ses[s].server /\ \A v \in Sessions \ {s} : y.ses[v] = x.ses[v]
  BY <1>4, <1>5, <1>6
<1>10. \A q \in Ports : ServersOf(y, q) = ServersOf(x, q) /\ ToSet(x.port[q].pending) \subseteq Sessions
  BY <1>1, <1>7, PortFields DEF ServersOf
<1>11. PortsOK(y)
  BY <1>1, <1>6, <1>7, <1>9, <1>10 DEF PortsOK
<1> QED BY <1>3, <1>6, <1>8, <1>11, OnlySessionsGood

\* The record of a session that is not alive, or not the server's matter, is replaced.
LEMMA SessionReplaced ==
    ASSUME NEW x, Good(x, NoThread), NEW s \in Sessions, NEW r \in SessionRec,
           r.pending = <<>>, r.handling = NoThread, ~r.client,
           \/ ~x.ses[s].alive /\ ~r.alive /\ ~r.server
           \/ r.alive = x.ses[s].alive /\ r.server = x.ses[s].server /\ r.port = x.ses[s].port
    PROVE  LET y == PutSes(x, [x.ses EXCEPT ![s] = r])
           IN Good(y, NoThread) /\ RunKept(x, y, NoThread)
<1> DEFINE S == [x.ses EXCEPT ![s] = r]
           y == PutSessions(x, x.port, S)
<1>1. /\ x \in KernelState /\ SessionsOK(x) /\ PortsOK(x)
  BY DEF Good, Sound, Rest
<1>2. x.port \in [Ports -> PortRec] /\ x.ses \in [Sessions -> SessionRec]
  BY <1>1, PortFields, SessionFields
<1>3. /\ S \in [Sessions -> SessionRec] /\ S[s] = r /\ \A v \in Sessions \ {s} : S[v] = x.ses[v]
  BY <1>2
<1> HIDE DEF S
<1>4. PutSes(x, S) = y
  BY <1>1, PutSessionsOrder
<1>5. OnlySessions(x, y) /\ y.port = x.port /\ y.ses = S
  BY <1>1, <1>2, <1>3, PutSessionsIs
<1> HIDE DEF y
<1>6. SessionsOK(y)
  BY <1>1, <1>3, <1>5, QuietSession DEF OnlySessions
<1>7. PortsOK(y)
  <2>1. CASE ~x.ses[s].alive /\ ~r.alive /\ ~r.server
    <3>1. \A q \in Ports : /\ ToSet(x.port[q].pending) \subseteq Sessions
                           /\ s \notin ToSet(x.port[q].pending)
      BY <1>1, <2>1, PortFields DEF PortsOK
    <3>2. \A q \in Ports : ServersOf(y, q) = ServersOf(x, q)
      BY <1>3, <1>5, <2>1 DEF ServersOf
    <3> QED BY <1>1, <1>3, <1>5, <2>1, <3>1, <3>2 DEF PortsOK
  <2>2. CASE r.alive = x.ses[s].alive /\ r.server = x.ses[s].server /\ r.port = x.ses[s].port
    BY <1>1, <1>3, <1>5, <2>2, PortsSame
  <2> QED BY <2>1, <2>2
<1> QED BY <1>4, <1>5, <1>6, <1>7, OnlySessionsGood DEF S

\* ~ClientSession
LEMMA CloseClientGood ==
    ASSUME NEW x, Good(x, NoThread), NEW s \in Sessions
    PROVE  Good(CloseClient(x, s), NoThread) /\ RunKept(x, CloseClient(x, s), NoThread)
<1>1. x \in KernelState /\ x.ses \in [Sessions -> SessionRec] /\ x.ses[s] \in SessionRec
  BY SessionFields DEF Good, Sound
<1>2. CASE ~x.ses[s].alive
  <2> DEFINE y == PutSes(x, [x.ses EXCEPT ![s] = ClosedSession])
  <2>1. CloseClient(x, s) = y
    BY <1>2 DEF CloseClient, PutSes
  <2>2. /\ ClosedSession \in SessionRec /\ ~ClosedSession.server /\ ~ClosedSession.alive
        /\ ~ClosedSession.client /\ ClosedSession.pending = <<>> /\ ClosedSession.handling = NoThread
    BY EndType
  <2>3. Good(y, NoThread) /\ RunKept(x, y, NoThread)
    BY <1>2, <2>2, SessionReplaced
  <2> QED BY <2>1, <2>3
<1>3. CASE ~~x.ses[s].alive
  <2> DEFINE r1 == [x.ses[s] EXCEPT !.client = FALSE]
             r2 == [r1 EXCEPT !.pending = <<>>]
             r == [r2 EXCEPT !.handling = NoThread]
             a == PutSes(x, [x.ses EXCEPT ![s] = r])
             y == WakeupAllWaitingThreads(a, s)
  <2>1. CloseClient(x, s) = y
    <3>1. {"ses"} \subseteq DOMAIN x /\ s \in DOMAIN x.ses
      BY <1>1 DEF KernelState
    <3>2. {"client", "pending", "handling"} \subseteq DOMAIN x.ses[s]
      BY <1>1 DEF SessionRec
    <3>3. [x EXCEPT !.ses[s].client = FALSE, !.ses[s].pending = <<>>, !.ses[s].handling = NoThread] = a
      BY ONLY <3>1, <3>2 DEF PutSes
    <3> HIDE DEF a
    <3> QED BY <1>3, <3>3 DEF CloseClient
  <2>2. /\ r1 \in SessionRec /\ r1.client = FALSE /\ r1.server = x.ses[s].server
        /\ r1.alive = x.ses[s].alive /\ r1.port = x.ses[s].port
    BY <1>1, Zenon DEF SessionRec
  <2> HIDE DEF r1
  <2>3. /\ r2 \in SessionRec /\ r2.client = r1.client /\ r2.server = r1.server
        /\ r2.alive = r1.alive /\ r2.port = r1.port /\ r2.pending = <<>>
    <3>1. <<>> \in Seq(Threads)
      OBVIOUS
    <3> QED BY <2>2, <3>1, Zenon DEF SessionRec
  <2> HIDE DEF r2
  <2>4. /\ r \in SessionRec /\ r.client = r2.client /\ r.server = r2.server
        /\ r.alive = r2.alive /\ r.port = r2.port /\ r.pending = r2.pending /\ r.handling = NoThread
    <3>1. NoThread \in MaybeThread
      BY DEF MaybeThread
    <3> QED BY <2>3, <3>1, Zenon DEF SessionRec
  <2> HIDE DEF r
  <2>5. ~r.client /\ r.server = x.ses[s].server /\ r.alive = x.ses[s].alive /\ r.port = x.ses[s].port
        /\ r.pending = <<>> /\ r.handling = NoThread
    BY <2>2, <2>3, <2>4
  <2>6. Good(a, NoThread) /\ RunKept(x, a, NoThread)
    BY <2>4, <2>5, SessionReplaced
  <2> HIDE DEF a
  <2>7. s \in WaitObject
    BY DEF WaitObject
  <2>8. Good(y, NoThread) /\ RunKept(a, y, NoThread)
    BY <2>6, <2>7, NobodyStops, WakeupGood
  <2> HIDE DEF y
  <2> QED BY <2>1, <2>6, <2>8, RunKeptTransitive
<1> QED BY <1>2, <1>3

\* The session s is gone, and its port counts one less.
Destroyed(x, s) ==
    [x EXCEPT !.port[x.ses[s].port].active = @ - 1, !.ses[s] = EndOf(x.ses[s].client)]

LEMMA DestroyServerIs ==
    ASSUME NEW x, Good(x, NoThread), NEW s \in Sessions, Unreferenced(x, s)
    PROVE  DestroyServer(x, s) = Destroyed(x, s) /\ x.ses[s].port \in Ports
<1> DEFINE p == x.ses[s].port
<1>1. x.ses[s].alive /\ PortsOK(x)
  BY DEF Unreferenced, Good, Rest
<1>2. p \in Ports
  BY <1>1 DEF PortsOK
<1>3. s \in ServersOf(x, p)
  BY <1>1 DEF ServersOf
<1>4. Cardinality(ServersOf(x, p)) # 0 /\ Cardinality(ServersOf(x, p)) \in Nat
  BY <1>3, ServersFinite, FS_EmptySet
<1>5. x.port[p].active > 0
  BY <1>1, <1>2, <1>4 DEF PortsOK
<1> QED BY <1>2, <1>5 DEF DestroyServer, Assert_, Destroyed, EndOf

LEMMA DestroyServerGood ==
    ASSUME NEW x, Good(x, NoThread), NEW s \in Sessions, Unreferenced(x, s)
    PROVE  LET y == DestroyServer(x, s)
           IN /\ Good(y, NoThread) /\ RunKept(x, y, NoThread) /\ y.halt = x.halt
              /\ y.wl = x.wl /\ \A v \in Sessions \ {s} : y.ses[v] = x.ses[v]
              /\ \A q \in Ports : y.port[q].pending = x.port[q].pending
<1> DEFINE p == x.ses[s].port
           r == EndOf(x.ses[s].client)
           n == [x.port[p] EXCEPT !.active = x.port[p].active - 1]
           P == [x.port EXCEPT ![p] = n]
           S == [x.ses EXCEPT ![s] = r]
           y == PutSessions(x, P, S)
<1>1. /\ x \in KernelState /\ SessionsOK(x) /\ PortsOK(x)
  BY DEF Good, Sound, Rest
<1>2. DestroyServer(x, s) = Destroyed(x, s) /\ p \in Ports
  BY DestroyServerIs
<1>3. /\ x.port \in [Ports -> PortRec] /\ x.port[p] \in PortRec
      /\ x.port[p].pending \in Seq(Sessions) /\ x.port[p].active \in Int
      /\ x.ses \in [Sessions -> SessionRec]
  BY <1>1, <1>2, PortFields, SessionFields
<1>4. r \in SessionRec /\ ~r.server /\ ~r.alive /\ r.pending = <<>> /\ r.handling = NoThread
  BY EndType
<1>5. x.ses[s].alive /\ ~x.ses[s].server /\ s \notin ToSet(x.port[p].pending)
  BY DEF Unreferenced
<1>6. DestroyServer(x, s) = y
  <2>1. {"port", "ses"} \subseteq DOMAIN x /\ p \in DOMAIN x.port
    BY <1>1, <1>2, <1>3 DEF KernelState
  <2>2. {"active", "pending"} \subseteq DOMAIN x.port[p]
    BY <1>3 DEF PortRec
  <2> HIDE DEF r
  <2>3. Destroyed(x, s) = y
    BY ONLY <2>1, <2>2 DEF Destroyed, PutSessions, r
  <2> QED BY <1>2, <2>3
<1> HIDE DEF p, r
<1>7. x.port[p].active - 1 \in Int
  BY <1>3
<1>8. n \in PortRec /\ n.pending = x.port[p].pending /\ n.active = x.port[p].active - 1
  BY ONLY <1>3, <1>7 DEF PortRec
<1> HIDE DEF n
<1>9. /\ P \in [Ports -> PortRec] /\ P[p] = n /\ \A q \in Ports \ {p} : P[q] = x.port[q]
      /\ S \in [Sessions -> SessionRec] /\ S[s] = r /\ \A v \in Sessions \ {s} : S[v] = x.ses[v]
  BY <1>2, <1>3, <1>4, <1>8
<1> HIDE DEF P, S
<1>10. OnlySessions(x, y) /\ y.port = P /\ y.ses = S
  BY <1>1, <1>9, PutSessionsIs
<1> HIDE DEF y
<1>11. SessionsOK(y)
  BY <1>1, <1>4, <1>9, <1>10, QuietSession DEF OnlySessions
<1>12. \A q \in Ports : y.port[q].pending = x.port[q].pending
  BY <1>8, <1>9, <1>10
<1>13. PortsOK(y)
  <2>1. x.ses[s].port = p
    BY DEF p
  <2>2. \A q \in Ports : /\ ToSet(x.port[q].pending) \subseteq Sessions
                         /\ s \notin ToSet(x.port[q].pending)
    BY <1>1, <1>5, <2>1, PortFields DEF PortsOK
  <2>3. \A q \in Ports \ {p} : ServersOf(y, q) = ServersOf(x, q)
    BY <1>4, <1>9, <1>10, <2>1 DEF ServersOf
  <2>4. ServersOf(y, p) = ServersOf(x, p) \ {s} /\ s \in ServersOf(x, p)
    BY <1>4, <1>5, <1>9, <1>10, <2>1 DEF ServersOf
  <2>5. Cardinality(ServersOf(y, p)) = Cardinality(ServersOf(x, p)) - 1
    <3> DEFINE Z == ServersOf(x, p)
    <3>1. IsFiniteSet(Z) /\ s \in Z /\ ServersOf(y, p) = Z \ {s}
      BY <2>4, ServersFinite
    <3> HIDE DEF Z
    <3>2. Cardinality(Z \ {s}) = Cardinality(Z) - 1
      BY ONLY <3>1, FS_RemoveElement
    <3> QED BY <3>1, <3>2 DEF Z
  <2>6. MaxSessions \in Int
    BY MaxSessionsAssumption
  <2>7. n.active = Cardinality(ServersOf(y, p)) /\ n.active <= MaxSessions
    BY <1>1, <1>2, <1>3, <1>8, <2>5, <2>6 DEF PortsOK
  <2>8. \A q \in Ports : /\ y.port[q].active = Cardinality(ServersOf(y, q))
                         /\ y.port[q].active <= MaxSessions
    BY <1>1, <1>9, <1>10, <2>3, <2>7 DEF PortsOK
  <2>9. \A v \in Sessions : IF y.ses[v].alive THEN y.ses[v].port \in Ports ELSE ~y.ses[v].server
    BY <1>1, <1>4, <1>9, <1>10 DEF PortsOK
  <2>10. \A q \in Ports : /\ IsInjective(y.port[q].pending)
                          /\ \A v \in ToSet(y.port[q].pending) :
                                y.ses[v].port = q /\ y.ses[v].alive /\ ~y.ses[v].server
    BY <1>1, <1>9, <1>10, <1>12, <2>2 DEF PortsOK
  <2> QED BY <2>8, <2>9, <2>10 DEF PortsOK
<1>14. Good(y, NoThread) /\ RunKept(x, y, NoThread)
  BY <1>10, <1>11, <1>13, OnlySessionsGood
<1>15. y.halt = x.halt /\ y.wl = x.wl
  BY <1>10 DEF OnlySessions
<1> QED BY <1>6, <1>9, <1>10, <1>12, <1>14, <1>15

\* Reap: the destructors of the sessions that nothing refers to.
ReapStep(p, i, x) == DestroyServer(x, p[1][i])
ReapHolds(p, i, x) ==
    /\ Good(x, NoThread) /\ RunKept(p[2], x, NoThread) /\ x.halt = p[2].halt
    /\ \A j \in 1 .. Len(p[1]) : j > i => Unreferenced(x, p[1][j])

Reaping == INSTANCE Loop WITH Step <- ReapStep, Holds <- ReapHolds

LEMMA UnreferencedKept ==
    ASSUME NEW x, Good(x, NoThread), NEW s, NEW v \in Sessions \ {s}, Unreferenced(x, v), NEW y,
           y.wl = x.wl, \A w \in Sessions \ {s} : y.ses[w] = x.ses[w],
           \A q \in Ports : y.port[q].pending = x.port[q].pending
    PROVE  Unreferenced(y, v)
<1>1. y.ses[v] = x.ses[v] /\ x.ses[v].alive
  BY DEF Unreferenced
<1>2. x.ses[v].port \in Ports
  BY <1>1 DEF Good, Rest, PortsOK
<1> QED BY <1>1, <1>2 DEF Unreferenced

LEMMA ReapGood ==
    ASSUME NEW x, Good(x, NoThread)
    PROVE  /\ Good(Reap(x), NoThread) /\ RunKept(x, Reap(x), NoThread)
           /\ Reap(x).halt = x.halt
<1> DEFINE U == {s \in Sessions : Unreferenced(x, s)}
           order == SetToSeq(U)
           p == <<order, x>>
           n == Len(order)
           f == Reaping!Run(p, x, n)
           y == f[n]
<1>1. Listing(order, U)
  <2>1. IsFiniteSet(U)
    BY KernelAssumption, FS_Subset
  <2> QED BY <2>1, ListingIs
<1>2. Reap(x) = y
  BY DEF Reap, ForEach, Reaping!Run, ReapStep
<1> HIDE DEF order
<1>3. /\ n \in Nat /\ order \in Seq(U) /\ \A i \in 1 .. n : order[i] \in U
      /\ \A i, j \in 1 .. n : order[i] = order[j] => i = j
  BY <1>1 DEF Listing, IsInjective
<1>4. p[1] = order /\ p[2] = x
  OBVIOUS
<1> HIDE DEF p, f
<1>5. ReapHolds(p, 0, x)
  BY <1>3, <1>4, RunKeptItself DEF ReapHolds
<1>6. ASSUME NEW i \in 1 .. n, NEW z, ReapHolds(p, i - 1, z)
      PROVE  ReapHolds(p, i, ReapStep(p, i, z))
  <2> DEFINE s == order[i]
             w == DestroyServer(z, s)
  <2>1. /\ Good(z, NoThread) /\ RunKept(x, z, NoThread) /\ z.halt = x.halt
        /\ \A j \in 1 .. n : j > i - 1 => Unreferenced(z, order[j])
    BY <1>4, <1>6 DEF ReapHolds
  <2>2. s \in Sessions /\ Unreferenced(z, s)
    BY <1>3, <2>1
  <2>3. ReapStep(p, i, z) = w
    BY <1>4 DEF ReapStep
  <2>4. /\ Good(w, NoThread) /\ RunKept(z, w, NoThread) /\ w.halt = z.halt
        /\ w.wl = z.wl /\ \A v \in Sessions \ {s} : w.ses[v] = z.ses[v]
        /\ \A q \in Ports : w.port[q].pending = z.port[q].pending
    BY <2>1, <2>2, DestroyServerGood
  <2> HIDE DEF w, n
  <2>5. ASSUME NEW j \in 1 .. n, j > i
        PROVE  Unreferenced(w, order[j])
    <3>1. i \in Int /\ j \in Int /\ n \in Nat
      BY <1>3
    <3>2. j > i - 1 /\ i # j
      BY <2>5, <3>1
    <3>3. Unreferenced(z, order[j]) /\ order[j] \in Sessions \ {s}
      BY <1>3, <2>1, <3>2
    <3> HIDE DEF s
    <3> DEFINE v == order[j]
    <3>4. Unreferenced(z, v) /\ v \in Sessions \ {s}
      BY <3>3
    <3>5. /\ Good(z, NoThread) /\ w.wl = z.wl /\ \A u \in Sessions \ {s} : w.ses[u] = z.ses[u]
          /\ \A q \in Ports : w.port[q].pending = z.port[q].pending
      BY <2>1, <2>4
    <3> HIDE DEF v
    <3>6. Unreferenced(w, v)
      BY ONLY <3>4, <3>5, UnreferencedKept
    <3> QED BY <3>6 DEF v
  <2> HIDE DEF s
  <2>6. RunKept(x, w, NoThread) /\ w.halt = x.halt
    BY <2>1, <2>4, RunKeptTransitive
  <2> QED BY <1>4, <2>3, <2>4, <2>5, <2>6 DEF ReapHolds, n
<1>7. \A i \in 0 .. n : ReapHolds(p, i, f[i])
  <2>1. \A i \in 1 .. n : \A z : ReapHolds(p, i - 1, z) => ReapHolds(p, i, ReapStep(p, i, z))
    BY <1>6
  <2> HIDE DEF n
  <2> QED BY <1>3, <1>5, <2>1, Reaping!LoopInvariant DEF f
<1> HIDE DEF n
<1>8. ReapHolds(p, n, y)
  BY <1>3, <1>7
<1> HIDE DEF y
<1> QED BY <1>2, <1>4, <1>8 DEF ReapHolds

\* The request of a waiting thread is no more.
LEMMA RequestForgotten ==
    ASSUME NEW x, Good(x, NoThread), NEW t \in Threads, NEW y \in KernelState,
           y.wl = x.wl, y.mx = x.mx, y.rq = x.rq, Untouched(x, y),
           \A u \in Threads \ {t} : y.th[u] = x.th[u],
           y.th[t].status = x.th[t].status, y.th[t].cb = x.th[t].cb, y.th[t].req = NoSession,
           y.th[t].waitObjs = x.th[t].waitObjs, y.th[t].held = x.th[t].held,
           y.th[t].pending = x.th[t].pending, y.th[t].nominal = x.th[t].nominal,
           y.th[t].current = x.th[t].current,
           SessionsOK(y),
           \A s \in Sessions : /\ y.ses[s].server = x.ses[s].server
                               /\ y.ses[s].alive = x.ses[s].alive
                               /\ y.ses[s].port = x.ses[s].port
    PROVE  Good(y, NoThread) /\ RunKept(x, y, NoThread)
<1>1. /\ x \in KernelState /\ ListsOK(x, NoThread, {}) /\ MutexOK(x, NoThread)
      /\ PrioOK(x, {NoThread}) /\ ThreadsOK(x, NoThread) /\ QueuesOK(x)
      /\ ArbOK(x) /\ WakeOK(x) /\ CoresOK(x) /\ PortsOK(x) /\ TimersOK(x)
  BY DEF Good, Sound, Rest
<1>2. \A u \in Threads :
         /\ y.th[u].status = x.th[u].status /\ y.th[u].cb = x.th[u].cb
         /\ y.th[u].waitObjs = x.th[u].waitObjs /\ y.th[u].held = x.th[u].held
         /\ y.th[u].pending = x.th[u].pending /\ y.th[u].nominal = x.th[u].nominal
         /\ y.th[u].current = x.th[u].current
         /\ y.th[u].req = x.th[u].req \/ y.th[u].req = NoSession
  OBVIOUS
<1>3. ListsOK(y, NoThread, {})
  BY <1>1, <1>2, ListsSame
<1>4. MutexOK(y, NoThread)
  <2>1. \A u \in Threads : y.th[u].held = x.th[u].held /\ (Alive(x, u) => Alive(y, u))
    BY <1>2 DEF Alive
  <2> QED BY <1>1, <2>1, MutexSame
<1>5. PrioOK(y, {NoThread})
  <2>1. ASSUME NEW u \in Threads
        PROVE  Inherited(y, u) = Inherited(x, u)
    <3>1. y.th[u].nominal = x.th[u].nominal /\ y.th[u].held = x.th[u].held /\ y.mx = x.mx
      BY <1>2
    <3> QED BY ONLY <3>1, InheritedSame
  <2> QED BY <1>1, <1>2, <2>1 DEF PrioOK, Alive
<1>6. ThreadsOK(y, NoThread)
  BY <1>1, <1>2 DEF ThreadsOK, Sync
<1>7. QueuesOK(y)
  <2>1. \A u \in Threads : y.th[u].status = x.th[u].status /\ y.th[u].current = x.th[u].current
    BY <1>2
  <2>2. Queued(x, y)
    BY <2>1, QueuesSame
  <2> QED BY <1>1, <2>2 DEF Queued
<1>8. ArbOK(y) /\ CoresOK(y) /\ TimersOK(y)
  BY <1>1, <1>2 DEF ArbOK, CoresOK, ProcessOf, TimersOK, Untouched
<1>9. WakeOK(y)
  BY <1>1, <1>2 DEF WakeOK, Untouched
<1>10. PortsOK(y)
  <2>1. y.port = x.port
    BY DEF Untouched
  <2> QED BY <1>1, <2>1, PortsSame
<1>11. RunKept(x, y, NoThread)
  BY <1>2 DEF RunKept, Untouched
<1> QED BY <1>3, <1>4, <1>5, <1>6, <1>7, <1>8, <1>9, <1>10, <1>11 DEF Good, Sound, Rest

\* The reply of ReplyAndReceive: the session s handles no request any more.
LEMMA HandledGood ==
    ASSUME NEW x, Good(x, NoThread), NEW s \in Sessions,
           x.ses[s].handling = NoThread \/ ~x.ses[s].client
    PROVE  LET y == [x EXCEPT !.ses[s].handling = NoThread]
           IN Good(y, NoThread) /\ RunKept(x, y, NoThread)
<1> DEFINE r == [x.ses[s] EXCEPT !.handling = NoThread]
           S == [x.ses EXCEPT ![s] = r]
           y == PutSessions(x, x.port, S)
<1>1. /\ x \in KernelState /\ SessionsOK(x) /\ PortsOK(x)
  BY DEF Good, Sound, Rest
<1>2. /\ x.port \in [Ports -> PortRec] /\ x.ses \in [Sessions -> SessionRec]
      /\ x.ses[s] \in SessionRec /\ NoThread \in MaybeThread
  BY <1>1, PortFields, SessionFields DEF MaybeThread
<1>3. [x EXCEPT !.ses[s].handling = NoThread] = PutSes(x, S)
  BY DEF PutSes
<1>4. /\ r \in SessionRec /\ r.server = x.ses[s].server /\ r.client = x.ses[s].client
      /\ r.alive = x.ses[s].alive /\ r.port = x.ses[s].port /\ r.pending = x.ses[s].pending
      /\ r.handling = NoThread
  BY <1>2, Zenon DEF SessionRec
<1> HIDE DEF r
<1>5. /\ S \in [Sessions -> SessionRec] /\ S[s] = r /\ \A v \in Sessions \ {s} : S[v] = x.ses[v]
  BY <1>2, <1>4
<1> HIDE DEF S
<1>6. OnlySessions(x, y) /\ y.port = x.port /\ y.ses = S
  BY <1>1, <1>2, <1>5, PutSessionsIs
<1>7. PutSes(x, S) = y
  BY <1>1, PutSessionsOrder
<1> HIDE DEF y
<1>8. \A v \in Sessions :
          /\ y.ses[v].pending = x.ses[v].pending
          /\ y.ses[v].client = x.ses[v].client /\ y.ses[v].alive = x.ses[v].alive
          /\ y.ses[v].port = x.ses[v].port /\ y.ses[v].server = x.ses[v].server
          /\ y.ses[v].handling = NoThread \/ y.ses[v].handling = x.ses[v].handling
  BY <1>4, <1>5, <1>6
<1>9. y.th = x.th
  BY <1>6 DEF OnlySessions
<1>10. SessionsOK(y)
  <2>1. CASE x.ses[s].handling = NoThread
    <3>1. \A v \in Sessions : y.ses[v].handling = x.ses[v].handling
      BY <1>4, <1>5, <1>6, <2>1
    <3> QED BY <1>1, <1>8, <1>9, <3>1, SameRequests
  <2>2. CASE ~x.ses[s].client
    <3>1. \A v \in Sessions \ {s} : y.ses[v] = x.ses[v]
      BY <1>5, <1>6
    <3>2. \A v \in Sessions \ {s} : Requesting(y, v) = Requesting(x, v)
      BY <3>1 DEF Requesting
    <3>3. Requesting(y, s) \subseteq Requesting(x, s) /\ ~y.ses[s].client
      BY <1>8, <2>2 DEF Requesting
    <3>4. \A t \in Threads, v \in Sessions :
             y.th[t].req = v /\ y.ses[v].client /\ y.ses[v].alive => t \in Requesting(y, v)
      BY <1>1, <1>9, <3>1, <3>2, <3>3 DEF SessionsOK
    <3>5. NoThread \notin ToSet(y.ses[s].pending)
      <4>1. y.ses[s].pending \in Seq(Threads)
        BY <1>1, <1>8, SessionFields
      <4>2. ToSet(y.ses[s].pending) \subseteq Threads
        BY <4>1 DEF ToSet
      <4> QED BY <4>2, NotNoThread
    <3>6. ASSUME NEW v \in Sessions
          PROVE  /\ \A t \in Requesting(y, v) : y.th[t].status = "WaitIPC" /\ y.th[t].req = v
                 /\ IsInjective(y.ses[v].pending)
                 /\ y.ses[v].handling \notin ToSet(y.ses[v].pending)
      <4>1. Requesting(y, v) \subseteq Requesting(x, v)
        BY <3>2, <3>3
      <4>2. y.ses[v].handling \notin ToSet(y.ses[v].pending)
        <5>1. CASE v = s
          BY <1>4, <1>5, <1>6, <3>5, <5>1
        <5>2. CASE v # s
          BY <1>1, <3>1, <5>2 DEF SessionsOK
        <5> QED BY <5>1, <5>2
      <4> QED BY <1>1, <1>8, <1>9, <4>1, <4>2 DEF SessionsOK
    <3> QED BY <3>4, <3>6 DEF SessionsOK
  <2> QED BY <2>1, <2>2
<1>11. PortsOK(y)
  BY <1>1, <1>6, <1>8, PortsSame
<1>12. Good(y, NoThread) /\ RunKept(x, y, NoThread)
  BY <1>6, <1>10, <1>11, OnlySessionsGood
<1> QED BY <1>3, <1>7, <1>12

\* The thread that the reply is for does not wait for it any more.
Answered(x, s, t) ==
    [[x EXCEPT !.ses[s].handling = NoThread] EXCEPT !.th[t].req = NoSession]

LEMMA AnsweredGood ==
    ASSUME NEW x, Good(x, NoThread), NEW s \in Sessions, NEW t \in Threads, x.ses[s].handling = t
    PROVE  LET y == Answered(x, s, t)
           IN /\ Good(y, NoThread) /\ RunKept(x, y, NoThread)
              /\ y.th[t].status = "WaitIPC" /\ y.th[t].req = NoSession
<1> DEFINE r == [x.ses[s] EXCEPT !.handling = NoThread]
           h == PutSession(x, s, r)
           e == [h.th[t] EXCEPT !.req = NoSession]
           y == PutThread(h, t, e)
<1>1. /\ x \in KernelState /\ SessionsOK(x)
  BY DEF Good, Sound
<1>2. /\ x.ses \in [Sessions -> SessionRec] /\ x.ses[s] \in SessionRec /\ NoThread \in MaybeThread
  BY <1>1, SessionFields DEF MaybeThread
<1>3. Answered(x, s, t) = y
  BY DEF Answered, PutSession, PutThread
<1>4. /\ r \in SessionRec /\ r.server = x.ses[s].server /\ r.client = x.ses[s].client
      /\ r.alive = x.ses[s].alive /\ r.port = x.ses[s].port /\ r.pending = x.ses[s].pending
      /\ r.handling = NoThread
  BY <1>2, Zenon DEF SessionRec
<1> HIDE DEF r
<1>5. /\ h \in KernelState /\ h.ses = [x.ses EXCEPT ![s] = r] /\ h.th = x.th /\ h.wl = x.wl
      /\ h.mx = x.mx /\ h.rq = x.rq /\ Untouched(x, h)
  BY <1>1, <1>4, SessionPut DEF PutSession
<1> HIDE DEF h
<1>6. h.th \in [Threads -> ThreadRec] /\ h.th[t] \in ThreadRec /\ NoSession \in Sessions \cup {NoSession}
  BY <1>5, ThType
<1>7. e \in ThreadRec
  BY <1>6, Thread_req
<1>8. /\ e.status = h.th[t].status /\ e.cb = h.th[t].cb /\ e.req = NoSession
      /\ e.waitObjs = h.th[t].waitObjs /\ e.pending = h.th[t].pending /\ e.held = h.th[t].held
      /\ e.nominal = h.th[t].nominal /\ e.current = h.th[t].current
  BY <1>6 DEF ThreadRec
<1> HIDE DEF e
<1>9. /\ y \in KernelState /\ y.th = [h.th EXCEPT ![t] = e] /\ y.mx = h.mx /\ y.wl = h.wl
      /\ y.ses = h.ses /\ y.rq = h.rq /\ Untouched(h, y)
  BY <1>5, <1>7, ThreadPut DEF PutThread
<1> HIDE DEF y
<1>10. y.th[t] = e /\ \A u \in Threads \ {t} : y.th[u] = x.th[u]
  BY <1>5, <1>6, <1>9
<1>11. /\ y.th[t].status = x.th[t].status /\ y.th[t].cb = x.th[t].cb /\ y.th[t].req = NoSession
       /\ y.th[t].waitObjs = x.th[t].waitObjs /\ y.th[t].held = x.th[t].held
       /\ y.th[t].pending = x.th[t].pending /\ y.th[t].nominal = x.th[t].nominal
       /\ y.th[t].current = x.th[t].current
  BY <1>5, <1>8, <1>10
<1>12. Untouched(x, y)
  BY <1>5, <1>9 DEF Untouched
<1>13. y.ses[s] = r /\ \A v \in Sessions \ {s} : y.ses[v] = x.ses[v]
  BY <1>2, <1>5, <1>9
<1>14. t # NoThread /\ NoThread \notin Threads /\ NoSession \notin Sessions
  BY NotNoThread, KernelAssumption
<1>15. t \in Requesting(x, s) /\ t \notin ToSet(x.ses[s].pending) /\ IsInjective(x.ses[s].pending)
  BY <1>1, <1>14 DEF Requesting, SessionsOK
<1>16. x.th[t].status = "WaitIPC" /\ x.th[t].req = s
  BY <1>1, <1>15 DEF SessionsOK
<1>17. SessionsOK(y)
  <2>1. ToSet(x.ses[s].pending) \subseteq Threads
    BY <1>1, SessionFields DEF ToSet
  <2>2. Requesting(y, s) = ToSet(x.ses[s].pending) /\ Requesting(x, s) = Requesting(y, s) \cup {t}
    BY <1>4, <1>13, <1>14, <2>1 DEF Requesting
  <2>3. \A v \in Sessions \ {s} : Requesting(y, v) = Requesting(x, v)
    BY <1>13 DEF Requesting
  <2>4. \A v \in Sessions : t \notin Requesting(y, v)
    BY <1>1, <1>15, <1>16, <2>2, <2>3 DEF SessionsOK
  <2>5. \A v \in Sessions : Requesting(y, v) \subseteq Threads
    <3>1. \A v \in Sessions : y.ses[v].pending \in Seq(Threads) /\ y.ses[v].handling \in MaybeThread
      BY <1>9, SessionFields
    <3>2. \A v \in Sessions : ToSet(y.ses[v].pending) \subseteq Threads
      BY <3>1 DEF ToSet
    <3> QED BY <3>1, <3>2 DEF Requesting, MaybeThread
  <2>6. \A u \in Threads, v \in Sessions :
           y.th[u].req = v /\ y.ses[v].client /\ y.ses[v].alive => u \in Requesting(y, v)
    <3>1. SUFFICES ASSUME NEW u \in Threads, NEW v \in Sessions, y.th[u].req = v,
                          y.ses[v].client, y.ses[v].alive
                   PROVE  u \in Requesting(y, v)
      OBVIOUS
    <3>2. u # t
      BY <1>11, <1>14, <3>1
    <3>3. x.th[u].req = v /\ x.ses[v].client /\ x.ses[v].alive
      BY <1>4, <1>10, <1>13, <3>1, <3>2
    <3>4. u \in Requesting(x, v)
      BY <1>1, <3>3 DEF SessionsOK
    <3> QED BY <2>2, <2>3, <3>2, <3>4
  <2>7. ASSUME NEW v \in Sessions
        PROVE  /\ \A u \in Requesting(y, v) : y.th[u].status = "WaitIPC" /\ y.th[u].req = v
               /\ IsInjective(y.ses[v].pending)
               /\ y.ses[v].handling \notin ToSet(y.ses[v].pending)
    <3>1. \A u \in Requesting(y, v) : y.th[u] = x.th[u] /\ u \in Requesting(x, v)
      BY <1>10, <2>2, <2>3, <2>4, <2>5
    <3>2. IsInjective(y.ses[v].pending) /\ y.ses[v].handling \notin ToSet(y.ses[v].pending)
      <4>1. CASE v = s
        BY <1>4, <1>13, <1>14, <1>15, <2>1, <4>1
      <4>2. CASE v # s
        BY <1>1, <1>13, <4>2 DEF SessionsOK
      <4> QED BY <4>1, <4>2
    <3> QED BY <1>1, <3>1, <3>2 DEF SessionsOK
  <2> QED BY <2>6, <2>7 DEF SessionsOK
<1>18. \A v \in Sessions : /\ y.ses[v].server = x.ses[v].server
                           /\ y.ses[v].alive = x.ses[v].alive
                           /\ y.ses[v].port = x.ses[v].port
  BY <1>4, <1>13
<1>19. y.wl = x.wl /\ y.mx = x.mx /\ y.rq = x.rq /\ y \in KernelState
  BY <1>5, <1>9
<1>20. Good(y, NoThread) /\ RunKept(x, y, NoThread)
  BY <1>10, <1>11, <1>12, <1>17, <1>18, <1>19, RequestForgotten
<1> QED BY <1>3, <1>11, <1>16, <1>20

LEMMA ReplyGood ==
    ASSUME NEW x, Good(x, NoThread), NEW s \in Sessions
    PROVE  Good(Reply(x, s), NoThread) /\ RunKept(x, Reply(x, s), NoThread)
<1> DEFINE t == x.ses[s].handling
<1>1. CASE t = NoThread \/ ~x.ses[s].client
  BY <1>1, HandledGood DEF Reply
<1>2. CASE ~(t = NoThread \/ ~x.ses[s].client)
  <2> DEFINE a == Answered(x, s, t)
             y == ResumeFromWait(a, t)
  <2>1. Reply(x, s) = y
    BY <1>2 DEF Reply, Answered
  <2>2. t \in Threads
    BY <1>2, SessionFields DEF Good, Sound, MaybeThread
  <2>3. /\ Good(a, NoThread) /\ RunKept(x, a, NoThread)
        /\ a.th[t].status = "WaitIPC" /\ a.th[t].req = NoSession
    BY <2>2, AnsweredGood
  <2> HIDE DEF t, a
  <2>4. Mid(a) /\ ArbOK(a)
    BY <2>3, GoodIsMid
  <2>5. Alive(a, t) /\ t \notin ToSet(a.arb)
    BY <2>2, <2>3, <2>4 DEF Alive, ArbOK
  <2>6. \A u \in Threads \ {t} :
            /\ a.th[u].status = "WaitArb" <=> u \in ToSet(a.arb)
            /\ a.th[u].status = "WaitArb" /\ a.wake[u] > 0 => a.th[u].cb = "arbiter"
    BY <2>4 DEF ArbOK
  <2>7. Good(y, NoThread) /\ RunKept(a, y, NoThread)
    BY <2>2, <2>3, <2>4, <2>5, <2>6, ResumedGood
  <2> HIDE DEF y
  <2> QED BY <2>1, <2>3, <2>7, RunKeptTransitive
<1> QED BY <1>1, <1>2

\* ServerSession::HandleSyncRequest, before the server's threads are woken.
Requested(x, t, s) ==
    [x EXCEPT !.th[t].status = "WaitIPC", !.th[t].req = s, !.ses[s].pending = Append(@, t)]


PutThreads(x, T) == [x EXCEPT !.th = T]

LEMMA ThreadsTwice ==
    ASSUME NEW x, NEW V, NEW T
    PROVE  PutThreads(PutThreads(x, V), T) = PutThreads(x, T)
  BY DEF PutThreads

LEMMA RequestedGood ==
    ASSUME NEW x, Good(x, NoThread), NEW t \in Threads, x.th[t].status = "Running",
           NEW s \in Sessions
    PROVE  LET y == Requested(x, t, s)
           IN Good(y, NoThread) /\ RunKept(x, y, t)
<1> DEFINE e1 == [x.th[t] EXCEPT !.status = "WaitIPC"]
           e == [e1 EXCEPT !.req = s]
           a == PutThread(x, t, e)
           L == Append(x.ses[s].pending, t)
           r == [x.ses[s] EXCEPT !.pending = L]
           y == PutSession(a, s, r)
<1>1. x \in KernelState /\ SessionsOK(x)
  BY DEF Good, Sound
<1>2. /\ x.ses \in [Sessions -> SessionRec] /\ x.ses[s] \in SessionRec
      /\ x.ses[s].pending \in Seq(Threads) /\ x.th[t] \in ThreadRec
      /\ x.th \in [Threads -> ThreadRec]
  BY <1>1, SessionFields, ThType
<1>3. [x EXCEPT !.th[t].status = "WaitIPC", !.th[t].req = s] = a
  <2>1. {"th", "ses"} \subseteq DOMAIN x
    BY <1>1 DEF KernelState
  <2> DEFINE w == "WaitIPC"
             b == [x EXCEPT !.th[t].status = w]
  <2>2. b = PutThread(x, t, e1)
    BY DEF PutThread
  <2>3. b.th = [x.th EXCEPT ![t] = e1] /\ b.th[t] = e1
    BY ONLY <1>2, <2>1
  <2>4. [b EXCEPT !.th[t].req = s] = [b EXCEPT !.th = [b.th EXCEPT ![t] = [b.th[t] EXCEPT !.req = s]]]
    OBVIOUS
  <2> DEFINE T == [x.th EXCEPT ![t] = e]
             V == [x.th EXCEPT ![t] = e1]
  <2>5. b = [x EXCEPT !.th = V]
    OBVIOUS
  <2>6. a = [x EXCEPT !.th = T]
    BY DEF PutThread
  <2>7. x.th \in [Threads -> ThreadRec]
    BY <1>2
  <2> HIDE DEF e1, b, w
  <2>8. [b.th EXCEPT ![t] = [b.th[t] EXCEPT !.req = s]] = T
    BY ONLY <2>3, <2>7
  <2> HIDE DEF T, V
  <2>9. PutThreads(PutThreads(x, V), T) = PutThreads(x, T)
    BY ThreadsTwice
  <2>10. [b EXCEPT !.th[t].req = s] = PutThreads(b, T)
    BY ONLY <2>4, <2>8 DEF PutThreads
  <2>11. b = PutThreads(x, V) /\ a = PutThreads(x, T)
    BY ONLY <2>5, <2>6 DEF PutThreads
  <2>12. [b EXCEPT !.th[t].req = s] = a
    BY ONLY <2>9, <2>10, <2>11
  <2> QED BY ONLY <2>12 DEF b, w
<1>4. "WaitIPC" \in Status /\ "WaitIPC" \in WaitStatus /\ s \in Sessions \cup {NoSession}
      /\ s # NoSession
  BY KernelAssumption DEF Status, WaitStatus
<1>5. /\ e1 \in ThreadRec /\ e1.status = "WaitIPC" /\ e1.waitObjs = x.th[t].waitObjs
      /\ e1.held = x.th[t].held /\ e1.pending = x.th[t].pending /\ e1.nominal = x.th[t].nominal
      /\ e1.current = x.th[t].current
  <2>1. e1 \in ThreadRec
    BY <1>2, <1>4, Thread_status
  <2>2. x.th[t] \in ThreadRec
    BY <1>2
  <2>3. /\ e1.status = "WaitIPC" /\ e1.waitObjs = x.th[t].waitObjs
        /\ e1.held = x.th[t].held /\ e1.pending = x.th[t].pending
        /\ e1.nominal = x.th[t].nominal /\ e1.current = x.th[t].current
    BY ONLY <2>2 DEF ThreadRec
  <2> QED BY <2>1, <2>3
<1> HIDE DEF e1
<1>6. /\ e \in ThreadRec /\ e.status = "WaitIPC" /\ e.waitObjs = x.th[t].waitObjs
      /\ e.held = x.th[t].held /\ e.pending = x.th[t].pending /\ e.nominal = x.th[t].nominal
      /\ e.current = x.th[t].current /\ e.req = s
  <2>1. e \in ThreadRec
    BY <1>4, <1>5, Thread_req
  <2> QED BY <1>5, <2>1 DEF ThreadRec
<1> HIDE DEF e
<1>7. /\ Parked(x, a, t) /\ a.th[t] = e /\ a.wake = x.wake /\ a.arb = x.arb
      /\ a.ses = x.ses /\ a.halt = x.halt
  BY <1>1, <1>6, ParkedThread
<1>8. a \in KernelState
  BY <1>7 DEF Parked
<1> HIDE DEF a
<1>24. Requested(x, t, s) = y
  <2> DEFINE b == [x EXCEPT !.th[t].status = "WaitIPC", !.th[t].req = s]
  <2>1. Requested(x, t, s) = [b EXCEPT !.ses[s].pending = Append(@, t)]
    BY DEF Requested
  <2>2. b = a
    BY <1>3
  <2> HIDE DEF b
  <2> QED BY ONLY <1>7, <2>1, <2>2 DEF PutSession
<1>9. L \in Seq(Threads) /\ ToSet(L) = ToSet(x.ses[s].pending) \cup {t}
  BY <1>2, ToSetAppend
<1> HIDE DEF L
<1>10. /\ r \in SessionRec /\ r.pending = L /\ r.client = x.ses[s].client
       /\ r.server = x.ses[s].server /\ r.alive = x.ses[s].alive /\ r.port = x.ses[s].port
       /\ r.handling = x.ses[s].handling
  BY <1>2, <1>9, Zenon DEF SessionRec
<1> HIDE DEF r
<1>11. /\ y \in KernelState /\ y.ses = [a.ses EXCEPT ![s] = r] /\ y.th = a.th /\ y.wl = a.wl
       /\ y.mx = a.mx /\ y.rq = a.rq /\ Untouched(a, y)
  BY <1>8, <1>10, SessionPut DEF PutSession
<1> HIDE DEF y
<1>12. Parked(a, y, t) /\ y.wake = a.wake /\ y.arb = a.arb
  BY <1>11 DEF Parked, Untouched
<1>13. Parked(x, y, t) /\ y.th[t] = e /\ y.wake = x.wake /\ y.arb = x.arb
  BY <1>7, <1>11, <1>12, ParkedTransitive
<1>14. y.ses[s] = r /\ \A v \in Sessions \ {s} : y.ses[v] = x.ses[v]
  BY <1>2, <1>7, <1>11
<1>15. /\ x.th[t].waitObjs = <<>> /\ x.wake[t] = 0 /\ x.th[t].req = NoSession
       /\ t \notin ToSet(x.arb) /\ Awake(x, t, {})
  BY RunningIs
<1>16. \A v \in Sessions : t \notin Requesting(x, v)
  BY <1>1 DEF SessionsOK
<1>17. \A u \in Threads \ {t} : y.th[u] = x.th[u]
  BY <1>13 DEF Parked
<1>18. SessionsOK(y)
  <2>1. NoThread \notin Threads
    BY NotNoThread
  <2>2. \A v \in Sessions : ToSet(x.ses[v].pending) \subseteq Threads /\ x.ses[v].handling \in MaybeThread
    BY <1>1, SessionFields DEF ToSet
  <2>3. \A v \in Sessions : Requesting(x, v) \subseteq Threads
    BY <2>2 DEF Requesting, MaybeThread
  <2>4. Requesting(y, s) = Requesting(x, s) \cup {t}
    BY <1>9, <1>10, <1>14, <2>1 DEF Requesting
  <2>5. \A v \in Sessions \ {s} : Requesting(y, v) = Requesting(x, v)
    BY <1>14 DEF Requesting
  <2>6. t \notin ToSet(x.ses[s].pending) /\ t # x.ses[s].handling
    BY <1>16, <2>1 DEF Requesting
  <2>7. IsInjective(L)
    BY <1>1, <1>2, <2>6, AppendNew DEF SessionsOK, L
  <2>8. \A u \in Threads, v \in Sessions :
           y.th[u].req = v /\ y.ses[v].client /\ y.ses[v].alive => u \in Requesting(y, v)
    <3>1. SUFFICES ASSUME NEW u \in Threads, NEW v \in Sessions, y.th[u].req = v,
                          y.ses[v].client, y.ses[v].alive
                   PROVE  u \in Requesting(y, v)
      OBVIOUS
    <3>2. CASE u = t
      BY <1>6, <1>13, <2>4, <3>1, <3>2
    <3>3. CASE u # t
      <4>1. x.th[u].req = v /\ x.ses[v].client /\ x.ses[v].alive
        BY <1>10, <1>14, <1>17, <3>1, <3>3
      <4>2. u \in Requesting(x, v)
        BY <1>1, <4>1 DEF SessionsOK
      <4> QED BY <2>4, <2>5, <4>2
    <3> QED BY <3>2, <3>3
  <2>9. ASSUME NEW v \in Sessions
        PROVE  /\ \A u \in Requesting(y, v) : y.th[u].status = "WaitIPC" /\ y.th[u].req = v
               /\ IsInjective(y.ses[v].pending)
               /\ y.ses[v].handling \notin ToSet(y.ses[v].pending)
    <3>1. \A u \in Requesting(x, v) : y.th[u] = x.th[u]
      BY <1>16, <1>17, <2>3
    <3>2. CASE v = s
      <4>1. y.th[t].status = "WaitIPC" /\ y.th[t].req = v
        BY <1>6, <1>13, <3>2
      <4>2. IsInjective(y.ses[v].pending) /\ y.ses[v].handling \notin ToSet(y.ses[v].pending)
        BY <1>1, <1>9, <1>10, <1>14, <2>6, <2>7, <3>2 DEF SessionsOK
      <4> QED BY <1>1, <2>4, <3>1, <3>2, <4>1, <4>2 DEF SessionsOK
    <3>3. CASE v # s
      BY <1>1, <1>14, <2>5, <3>1, <3>3 DEF SessionsOK
    <3> QED BY <3>2, <3>3
  <2> QED BY <2>8, <2>9 DEF SessionsOK
<1>19. Asleep(y, t) /\ ToSet(y.th[t].waitObjs) = {}
  BY <1>4, <1>6, <1>13, <1>15 DEF Asleep, ToSet
<1>20. \A v \in Sessions : /\ y.ses[v].server = x.ses[v].server
                           /\ y.ses[v].alive = x.ses[v].alive
                           /\ y.ses[v].port = x.ses[v].port
  BY <1>10, <1>14
<1>21. /\ \A u \in Threads \ {t} : u \in ToSet(y.arb) <=> u \in ToSet(x.arb)
       /\ y.th[t].status = "WaitArb" <=> t \in ToSet(y.arb)
       /\ y.th[t].status = "WaitArb" /\ y.wake[t] > 0 => y.th[t].cb = "arbiter"
  BY <1>6, <1>13, <1>15
<1>22. SoundBut(x, t, {}, NoThread) /\ QueuesOK(x) /\ Rest(x)
  BY <1>15 DEF Awake
<1>23. Good(y, NoThread) /\ RunKept(x, y, t)
  <2>1. Parked(x, y, t) /\ x.th[t].status = "Running" /\ t \in Threads
    BY <1>13
  <2> DEFINE R == {}
  <2>2. SoundBut(x, t, R, NoThread) /\ QueuesOK(x) /\ Rest(x)
    BY <1>22
  <2>3. Asleep(y, t) /\ ToSet(y.th[t].waitObjs) = R
    BY <1>19
  <2> HIDE DEF R
  <2> QED BY ONLY <1>18, <1>20, <1>21, <2>1, <2>2, <2>3, ParkedGood
<1> QED BY <1>23, <1>24

LEMMA SendRequestGood ==
    ASSUME NEW x, Good(x, NoThread), NEW t \in Threads, x.th[t].status = "Running",
           NEW s \in Sessions
    PROVE  LET y == SendSyncRequest(x, t, s)
           IN Good(y, NoThread) /\ RunKept(x, y, t)
<1>1. CASE ~x.ses[s].alive
  BY <1>1, RunKeptItself DEF SendSyncRequest
<1>2. CASE ~~x.ses[s].alive
  <2> DEFINE a == Requested(x, t, s)
             y == WakeupAllWaitingThreads(a, s)
  <2>1. SendSyncRequest(x, t, s) = y
    BY <1>2 DEF SendSyncRequest, HandleSyncRequest, Requested
  <2>2. Good(a, NoThread) /\ RunKept(x, a, t)
    BY RequestedGood
  <2> HIDE DEF a
  <2>3. s \in WaitObject
    BY DEF WaitObject
  <2>4. Good(y, NoThread) /\ RunKept(a, y, NoThread)
    BY <2>2, <2>3, NobodyStops, WakeupGood
  <2> HIDE DEF y
  <2>5. RunKept(a, y, t)
    BY <2>4, RunKeptWeaken
  <2> QED BY <2>1, <2>2, <2>4, <2>5, RunKeptTransitive
<1> QED BY <1>1, <1>2

-----------------------------------------------------------------------------
(* WaitSynchronization.                                                    *)

LEMMA AcquireGood ==
    ASSUME NEW x, Good(x, NoThread), NEW o \in WaitObject, NEW t \in Threads, Alive(x, t)
    PROVE  Good(Acquire(x, o, t), NoThread) /\ RunKept(x, Acquire(x, o, t), NoThread)
<1> DEFINE y == Acquire(x, o, t)
<1>1. Sound(x, NoThread) /\ t # NoThread
  BY NotNoThread DEF Good
<1>2. Acquired(x, y, t, NoThread)
  BY <1>1, AcquireKeeps
<1> HIDE DEF y
<1>3. Sound(y, NoThread) /\ Moved(x, y, t)
  BY <1>2 DEF Acquired
<1>4. Good(y, NoThread) /\ RunKept(x, y, NoThread)
  BY <1>3, GoodMoved
<1> QED BY <1>4 DEF y

LEMMA AcquireAllGood ==
    ASSUME NEW x, Good(x, NoThread), NEW objs \in Seq(WaitObject), NEW t \in Threads, Alive(x, t)
    PROVE  Good(AcquireAll(x, objs, t), NoThread) /\ RunKept(x, AcquireAll(x, objs, t), NoThread)
<1> DEFINE y == AcquireAll(x, objs, t)
<1>1. Sound(x, NoThread) /\ t # NoThread
  BY NotNoThread DEF Good
<1>2. Acquired(x, y, t, NoThread)
  BY <1>1, AcquireAllKeeps
<1> HIDE DEF y
<1>3. Sound(y, NoThread) /\ Moved(x, y, t)
  BY <1>2 DEF Acquired
<1>4. Good(y, NoThread) /\ RunKept(x, y, NoThread)
  BY <1>3, GoodMoved
<1> QED BY <1>4 DEF y

\* Entering waiting lists leaves the rest alone.
LEMMA ListedRest ==
    ASSUME NEW x, x \in KernelState, QueuesOK(x), Rest(x), NEW y, Listed(x, y)
    PROVE  QueuesOK(y) /\ Rest(y) /\ RunKept(x, y, NoThread)
<1>1. QueuesOK(y)
  BY DEF Listed, Queued
<1>2. ArbOK(y) /\ WakeOK(y) /\ CoresOK(y) /\ TimersOK(y)
  BY DEF Rest, Listed, Untouched, ArbOK, WakeOK, CoresOK, ProcessOf, TimersOK
<1>3. PortsOK(y)
  <2>1. y.port = x.port /\ y.ses = x.ses /\ PortsOK(x)
    BY DEF Listed, Untouched, Rest
  <2> QED BY <2>1, PortsSame
<1>4. RunKept(x, y, NoThread)
  BY DEF RunKept, Listed, Untouched
<1> QED BY <1>1, <1>2, <1>3, <1>4 DEF Rest

\* t, which entered the waiting lists of objs since x, goes to sleep.
Entered(x, a, t, objs) ==
    /\ Good(x, NoThread) /\ Listed(x, a)
    /\ objs \in Seq(WaitObject) /\ SoundBut(a, t, ToSet(objs), NoThread)
    /\ x.th[t].status = "Running" \/ Sync(x, t)
    /\ x.wake[t] = 0

LEMMA EnteredGood ==
    ASSUME NEW x, NEW t \in Threads, NEW a, NEW objs, Entered(x, a, t, objs),
           NEW status, NEW timeout, NEW cb, SynchCall(status, cb), NEW c \in Cores
    PROVE  LET y == PrepareReschedule(Suspended(a, t, status, objs, timeout, cb, c))
           IN Good(y, NoThread) /\ RunKept(x, y, t) /\ y.halt
<1> DEFINE y == PrepareReschedule(Suspended(a, t, status, objs, timeout, cb, c))
<1>0. /\ Good(x, NoThread) /\ Listed(x, a)
      /\ objs \in Seq(WaitObject) /\ SoundBut(a, t, ToSet(objs), NoThread)
      /\ x.th[t].status = "Running" \/ Sync(x, t)
      /\ x.wake[t] = 0
  BY DEF Entered
<1>1. x \in KernelState /\ QueuesOK(x) /\ Rest(x)
  BY <1>0 DEF Good, Sound
<1>2. QueuesOK(a) /\ Rest(a) /\ RunKept(x, a, NoThread)
  BY <1>0, <1>1, ListedRest
<1>3. a.th[t].status = "Running" \/ Sync(a, t)
  BY <1>0 DEF Listed, Sync
<1>4. a.wake[t] = 0
  BY <1>0 DEF Listed, Untouched
<1>5. Good(y, NoThread) /\ RunKept(a, y, t) /\ y.halt
  <2>1. SynchCall(status, cb) /\ t \in Threads /\ c \in Cores /\ objs \in Seq(WaitObject)
    BY <1>0
  <2>2. Awake(a, t, ToSet(objs))
    BY <1>0, <1>2, <1>3, <1>4 DEF Awake
  <2> QED BY ONLY <1>4, <2>1, <2>2, SuspendedGood
<1> HIDE DEF y
<1>6. RunKept(x, y, t)
  BY <1>2, <1>5, RunKeptWeaken, RunKeptTransitive
<1> QED BY <1>5, <1>6 DEF y

\* WaitSynchronization1
LEMMA WaitOneGood ==
    ASSUME NEW x, Good(x, NoThread), NEW t \in Threads, x.th[t].status = "Running",
           NEW o \in WaitObject, NEW timeout, NEW c \in Cores
    PROVE  LET y == PrepareReschedule(Suspended(AddWaitingThread(x, o, t), t, "WaitSynchAny",
                                                <<o>>, timeout, "sync", c))
           IN Good(y, NoThread) /\ RunKept(x, y, t) /\ y.halt
<1> DEFINE a == AddWaitingThread(x, o, t)
           objs == <<o>>
<1>1. x.wake[t] = 0 /\ Awake(x, t, {})
  BY RunningIs
<1>2. SoundBut(x, t, {}, NoThread)
  BY <1>1 DEF Awake
<1>3. SoundBut(a, t, {} \cup {o}, NoThread) /\ Listed(x, a)
  <2> DEFINE R == {}
  <2>1. SoundBut(x, t, R, NoThread)
    BY <1>2
  <2> HIDE DEF R
  <2>2. SoundBut(a, t, R \cup {o}, NoThread) /\ Listed(x, a)
    BY <2>1, AddWaitingKeeps
  <2> QED BY <2>2 DEF R
<1>4. objs \in Seq(WaitObject) /\ ToSet(objs) = {o}
  BY DEF ToSet
<1>5. {} \cup {o} = ToSet(objs)
  BY <1>4
<1>6. SoundBut(a, t, ToSet(objs), NoThread)
  BY ONLY <1>3, <1>5
<1> HIDE DEF a, objs
<1>7. LET y == PrepareReschedule(Suspended(a, t, "WaitSynchAny", objs, timeout, "sync", c))
      IN Good(y, NoThread) /\ RunKept(x, y, t) /\ y.halt
  <2>1. Entered(x, a, t, objs)
    BY <1>1, <1>3, <1>4, <1>6 DEF Entered
  <2>2. SynchCall("WaitSynchAny", "sync")
    BY DEF SynchCall
  <2> QED BY <2>1, <2>2, EnteredGood
<1> QED BY <1>7 DEF a, objs

\* WaitSynchronizationN and ReplyAndReceive
LEMMA WaitManyGood ==
    ASSUME NEW x, Good(x, NoThread), NEW t \in Threads, x.th[t].status = "Running",
           NEW objs \in Seq(WaitObject), NEW status, NEW timeout, NEW cb, SynchCall(status, cb),
           NEW c \in Cores
    PROVE  LET y == PrepareReschedule(Suspended(AddToAll([x EXCEPT !.th[t].status = status], objs, t),
                                                t, status, objs, timeout, cb, c))
           IN Good(y, NoThread) /\ RunKept(x, y, t) /\ y.halt
<1> DEFINE r == [x.th[t] EXCEPT !.status = status]
           b == PutThread(x, t, r)
           a == AddToAll(b, objs, t)
           y == PrepareReschedule(Suspended(a, t, status, objs, timeout, cb, c))
<1>1. [x EXCEPT !.th[t].status = status] = b
  BY DEF PutThread
<1>2. x \in KernelState /\ x.th[t] \in ThreadRec
  BY ThType DEF Good, Sound
<1>3. r \in ThreadRec
  <2>1. status \in Status
    BY DEF Status, WaitStatus, SynchStatus, SynchCall
  <2> QED BY <1>2, <2>1, Thread_status
<1>4. /\ r.status = status /\ r.waitObjs = x.th[t].waitObjs /\ r.req = x.th[t].req
      /\ r.held = x.th[t].held /\ r.nominal = x.th[t].nominal
      /\ r.current = x.th[t].current /\ r.pending = x.th[t].pending
  BY <1>2 DEF ThreadRec
<1> HIDE DEF r
<1>5. /\ Parked(x, b, t) /\ b.th[t] = r /\ b.wake = x.wake /\ b.arb = x.arb /\ b.ses = x.ses
  BY <1>2, <1>3, <1>4, ParkedThread
<1> HIDE DEF b
<1>6. /\ x.th[t].waitObjs = <<>> /\ x.wake[t] = 0 /\ x.th[t].req = NoSession
      /\ t \notin ToSet(x.arb)
  BY RunningIs
<1>7. status \in WaitStatus /\ status # "WaitArb" /\ status \in SynchStatus
  BY DEF WaitStatus, SynchStatus, SynchCall
<1>8. /\ b.th[t].waitObjs = <<>> /\ b.th[t].req = NoSession /\ b.th[t].status = status
      /\ b.wake[t] = 0
  BY <1>4, <1>5, <1>6
<1>9. Good(b, NoThread) /\ RunKept(x, b, t)
  <2>1. /\ \A u \in Threads \ {t} : u \in ToSet(b.arb) <=> u \in ToSet(x.arb)
        /\ b.th[t].status = "WaitArb" <=> t \in ToSet(b.arb)
        /\ b.th[t].status = "WaitArb" /\ b.wake[t] > 0 => b.th[t].cb = "arbiter"
    BY <1>5, <1>6, <1>7, <1>8
  <2>2. b.wake[t] <= 1 /\ b.th[t].status \in WaitStatus
    BY <1>7, <1>8
  <2> QED BY <1>5, <1>8, <2>1, <2>2, SleepGood
<1>10. SoundBut(a, t, ToSet(objs), NoThread) /\ Listed(b, a)
  <2>1. Sound(b, NoThread)
    BY <1>9 DEF Good
  <2> QED BY <1>8, <2>1, AddToAllKeeps
<1> HIDE DEF a
<1>11. b.th[t].status = "Running" \/ Sync(b, t)
  BY <1>7, <1>8 DEF Sync
<1>12. Good(y, NoThread) /\ RunKept(b, y, t) /\ y.halt
  <2>1. Entered(b, a, t, objs)
    BY <1>8, <1>9, <1>10, <1>11 DEF Entered
  <2> QED BY ONLY <2>1, SynchCall(status, cb), t \in Threads, c \in Cores, EnteredGood
<1> HIDE DEF y
<1>13. RunKept(x, y, t)
  BY <1>9, <1>12, RunKeptTransitive
<1> QED BY <1>1, <1>12, <1>13 DEF y, a

=============================================================================
