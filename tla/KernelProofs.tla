---------------------------- MODULE KernelProofs ----------------------------
(***************************************************************************)
(* The kernel's invariants, for every set of threads and objects and every *)
(* number of cores.  KInv is the inductive invariant; the theorems about   *)
(* the properties of Kernel.tla are at the end.                            *)
(***************************************************************************)
EXTENDS KernelObjectsProofs

-----------------------------------------------------------------------------
(* SwitchContext, as a whole: core c gives up its thread and runs n.       *)

SwitchedStatus(x, c, n, u) ==
    IF u = n THEN "Running"
    ELSE IF x.th[u].status = "Running" /\ CoreOf[u] = c THEN "Ready"
    ELSE x.th[u].status

\* All but statuses and contexts of threads.
ThreadsKept(x, y) ==
    \A u \in Threads :
        /\ y.th[u].cb = x.th[u].cb /\ y.th[u].req = x.th[u].req
        /\ y.th[u].waitObjs = x.th[u].waitObjs /\ y.th[u].pending = x.th[u].pending
        /\ y.th[u].held = x.th[u].held /\ y.th[u].nominal = x.th[u].nominal
        /\ y.th[u].current = x.th[u].current /\ y.th[u].canSchedule = x.th[u].canSchedule

ObjectsKept(x, y) ==
    /\ y.wl = x.wl /\ y.mx = x.mx /\ y.ses = x.ses /\ y.arb = x.arb /\ y.port = x.port
    /\ y.tev = x.tev /\ y.cpu = x.cpu /\ y.running = x.running /\ y.halt = x.halt

\* Core c's process is that of its thread.
ProcessKept(x, y, c, n) ==
    /\ n # NoThread => ProcessOf(y, c) = ProcOf[n]
    /\ \A d \in Cores \ {c} : ProcessOf(y, d) = ProcessOf(x, d)

Switched(x, y, c, n) ==
    /\ y \in KernelState
    /\ ObjectsKept(x, y) /\ ThreadsKept(x, y) /\ ProcessKept(x, y, c, n)
    /\ \A u \in Threads : y.th[u].status = SwitchedStatus(x, c, n, u)
    /\ n = NoThread \/ (n \in ThreadsOf(c) /\ x.th[n].status \in {"Ready", "Running"})
    /\ y.cur[c] = n /\ \A d \in Cores \ {c} : y.cur[d] = x.cur[d]
    /\ \A u \in Threads \ {n} : y.wake[u] = x.wake[u]
    /\ n # NoThread => y.wake[n] = 0
    /\ QueueOK(y.th, c, y.rq[c]) /\ \A d \in Cores \ {c} : y.rq[d] = x.rq[d]

\* What a reschedule leaves of the other cores.
CoreSwitched(x, y, c) ==
    /\ y.cpu = x.cpu /\ y.running = x.running /\ y.halt = x.halt
    /\ Fresh(y, c) /\ \A d \in Cores \ {c} : Fresh(x, d) => Fresh(y, d)

LEMMA SwitchedGood ==
    ASSUME NEW x, Good(x, NoThread), NEW c \in Cores, NEW n, NEW y, Switched(x, y, c, n)
    PROVE  Good(y, NoThread) /\ CoreSwitched(x, y, c)
<1>1. /\ x \in KernelState /\ ListsOK(x, NoThread, {}) /\ MutexOK(x, NoThread)
      /\ PrioOK(x, {NoThread}) /\ ThreadsOK(x, NoThread) /\ SessionsOK(x)
      /\ QueuesOK(x) /\ ArbOK(x) /\ WakeOK(x) /\ CoresOK(x) /\ PortsOK(x) /\ TimersOK(x)
  BY DEF Good, Sound, Rest
<1>2. y \in KernelState /\ ObjectsKept(x, y) /\ ThreadsKept(x, y) /\ ProcessKept(x, y, c, n)
  BY DEF Switched
<1>3. n = NoThread \/ (n \in Threads /\ CoreOf[n] = c /\ x.th[n].status \in {"Ready", "Running"})
  BY DEF Switched, ThreadsOf
<1>4. \A u \in Threads : y.th[u].status = SwitchedStatus(x, c, n, u)
  BY DEF Switched
<1>5. \A u \in Threads : \/ y.th[u].status = x.th[u].status
                         \/ /\ y.th[u].status \in {"Ready", "Running"}
                            /\ x.th[u].status \in {"Ready", "Running"}
  BY <1>3, <1>4, NotNoThread DEF SwitchedStatus
<1>6. \A u \in Threads : Alive(y, u) <=> Alive(x, u)
  BY <1>5 DEF Alive
<1>7. \A u \in Threads : Sync(y, u) <=> Sync(x, u)
  BY <1>5, StatusIs DEF Sync
<1>8. Sound(y, NoThread)
  <2>1. ListsOK(y, NoThread, {})
    <3> DEFINE R == {}
    <3>1. ListsOK(x, NoThread, R) /\ y.wl = x.wl
      BY <1>1, <1>2 DEF ObjectsKept
    <3>2. \A u \in Threads : /\ y.th[u].waitObjs = x.th[u].waitObjs
                             /\ y.th[u].pending = x.th[u].pending
      BY <1>2 DEF ThreadsKept
    <3> HIDE DEF R
    <3>3. ListsOK(y, NoThread, R)
      BY ONLY <3>1, <3>2, ListsSame
    <3> QED BY <3>3 DEF R
  <2>2. MutexOK(y, NoThread)
    BY <1>1, <1>2, <1>6, MutexSame DEF ObjectsKept, ThreadsKept
  <2>3. PrioOK(y, {NoThread})
    <3> SUFFICES ASSUME NEW u \in Threads \ {NoThread}, Alive(y, u)
                 PROVE  y.th[u].current = Inherited(y, u)
      BY DEF PrioOK
    <3>1. /\ y.th[u].nominal = x.th[u].nominal /\ y.th[u].held = x.th[u].held
          /\ \A m \in x.th[u].held : y.mx[m].prio = x.mx[m].prio
      BY <1>2 DEF ObjectsKept, ThreadsKept
    <3>2. Inherited(y, u) = Inherited(x, u)
      BY ONLY <3>1, InheritedSame
    <3>3. x.th[u].current = Inherited(x, u)
      BY <1>1, <1>6 DEF PrioOK
    <3> QED BY <1>2, <3>2, <3>3 DEF ThreadsKept
  <2>4. ThreadsOK(y, NoThread)
    BY <1>1, <1>2, <1>5, <1>7, NotNoThread DEF ThreadsOK, ThreadsKept
  <2>5. SessionsOK(y)
    BY <1>1, <1>2, <1>5, SessionsSame DEF ObjectsKept, ThreadsKept
  <2> QED BY <1>2, <2>1, <2>2, <2>3, <2>4, <2>5 DEF Sound
<1>9. QueuesOK(y)
  <2> SUFFICES ASSUME NEW d \in Cores PROVE QueueOK(y.th, d, y.rq[d])
    BY DEF QueuesOK
  <2>1. CASE d = c
    BY <2>1 DEF Switched
  <2>2. CASE d # c
    <3>1. QueueOK(x.th, d, x.rq[d]) /\ y.rq[d] = x.rq[d]
      BY <1>1, <2>2 DEF QueuesOK, Switched
    <3>2. \A u \in ThreadsOf(d) : y.th[u].status = x.th[u].status /\ y.th[u].current = x.th[u].current
      BY <1>2, <1>3, <1>4, <2>2, NotNoThread DEF ThreadsOf, SwitchedStatus, ThreadsKept
    <3> QED BY <3>1, <3>2 DEF QueueOK
  <2> QED BY <2>1, <2>2
<1>10. ArbOK(y) /\ WakeOK(y)
  <2>1. \A u \in Threads : y.wake[u] = x.wake[u] \/ y.wake[u] = 0
    BY NotNoThread DEF Switched
  <2>2. \A u \in Threads : y.th[u].status # x.th[u].status => y.wake[u] = 0 \/ y.th[u].status = "Ready"
    BY <1>4, NotNoThread DEF Switched, SwitchedStatus
  <2>3. ArbOK(y)
    <3> SUFFICES ASSUME NEW u \in Threads
                 PROVE  /\ y.th[u].status = "WaitArb" <=> u \in ToSet(y.arb)
                        /\ y.th[u].status = "WaitArb" /\ y.wake[u] > 0 => y.th[u].cb = "arbiter"
      BY DEF ArbOK
    <3>1. /\ x.th[u].status = "WaitArb" <=> u \in ToSet(x.arb)
          /\ x.th[u].status = "WaitArb" /\ x.wake[u] > 0 => x.th[u].cb = "arbiter"
      BY <1>1 DEF ArbOK
    <3>2. y.th[u].status = "WaitArb" <=> x.th[u].status = "WaitArb"
      BY <1>5
    <3>3. y.arb = x.arb /\ y.th[u].cb = x.th[u].cb
      BY <1>2 DEF ObjectsKept, ThreadsKept
    <3> QED BY <2>1, <3>1, <3>2, <3>3
  <2>4. WakeOK(y)
    <3> SUFFICES ASSUME NEW u \in Threads
                 PROVE  /\ y.wake[u] <= 1
                        /\ y.wake[u] > 0 => /\ y.th[u].status \in WaitStatus \cup {"Ready"}
                                            /\ y.th[u].req = NoSession
      BY DEF WakeOK
    <3>1. /\ x.wake[u] <= 1
          /\ x.wake[u] > 0 => /\ x.th[u].status \in WaitStatus \cup {"Ready"}
                              /\ x.th[u].req = NoSession
      BY <1>1 DEF WakeOK
    <3>3. y.th[u].req = x.th[u].req
      BY <1>2 DEF ThreadsKept
    <3> QED BY <2>1, <2>2, <3>1, <3>3
  <2> QED BY <2>3, <2>4
<1>11. \A d \in Cores : x.cur[d] # NoThread =>
          /\ x.cur[d] \in Threads /\ CoreOf[x.cur[d]] = d
          /\ ProcessOf(x, d) = ProcOf[x.cur[d]]
  BY <1>1, CurType DEF CoresOK
<1>12. y.cur[c] = n /\ \A d \in Cores \ {c} : y.cur[d] = x.cur[d]
  BY DEF Switched
<1>13. CoresOK(y)
  <2>1. ASSUME NEW d \in Cores, y.cur[d] # NoThread
        PROVE  CoreOf[y.cur[d]] = d /\ ProcessOf(y, d) = ProcOf[y.cur[d]]
    <3>1. CASE d = c
      BY <1>2, <1>3, <1>12, <2>1, <3>1 DEF ProcessKept
    <3>2. CASE d # c
      BY <1>2, <1>11, <1>12, <2>1, <3>2 DEF ProcessKept
    <3> QED BY <3>1, <3>2
  <2>2. ASSUME NEW u \in Threads, y.th[u].status = "Running"
        PROVE  y.cur[CoreOf[u]] = u
    <3>1. CASE u = n
      BY <1>3, <1>12, <3>1, NotNoThread
    <3>2. CASE u # n
      <4>1. x.th[u].status = "Running" /\ CoreOf[u] # c
        BY <1>4, <2>2, <3>2 DEF SwitchedStatus
      <4>2. x.cur[CoreOf[u]] = u /\ CoreOf[u] \in Cores
        BY <1>1, <4>1, KernelAssumption DEF CoresOK
      <4> QED BY <1>12, <4>1, <4>2
    <3> QED BY <3>1, <3>2
  <2> QED BY <2>1, <2>2 DEF CoresOK
<1>14. PortsOK(y) /\ TimersOK(y)
  <2>1. y.port = x.port /\ y.ses = x.ses /\ y.tev = x.tev
    BY <1>2 DEF ObjectsKept
  <2>2. PortsOK(y)
    BY <1>1, <2>1, PortsSame
  <2> QED BY <1>1, <2>1, <2>2 DEF TimersOK
<1>15. Good(y, NoThread)
  BY <1>8, <1>9, <1>10, <1>13, <1>14 DEF Good, Rest
<1>16. Fresh(y, c)
  BY <1>3, <1>4, <1>12 DEF Fresh, SwitchedStatus
<1>17. ASSUME NEW d \in Cores \ {c}, Fresh(x, d) PROVE Fresh(y, d)
  BY <1>3, <1>4, <1>11, <1>12, <1>17 DEF Fresh, SwitchedStatus
<1> QED BY <1>2, <1>15, <1>16, <1>17 DEF CoreSwitched, ObjectsKept



-----------------------------------------------------------------------------
(* SwitchContext step by step.                                             *)

\* Core c runs its best thread, and the other cores do if they did.
BestOn(x, y, c) ==
    /\ BestRuns(y, c)
    /\ \A d \in Cores \ {c} : BestRuns(x, d) => BestRuns(y, d)

LEMMA SwitchedBest ==
    ASSUME NEW x, Good(x, NoThread), NEW c \in Cores, NEW n, NEW y, Switched(x, y, c, n),
           BestNext(x.th, c, StillRunning(x, c), n)
    PROVE  BestOn(x, y, c)
<1>1. /\ x \in KernelState /\ CoresOK(x)
      /\ \A u \in Threads : /\ y.th[u].status = SwitchedStatus(x, c, n, u)
                            /\ y.th[u].current = x.th[u].current
                            /\ y.th[u].canSchedule = x.th[u].canSchedule
      /\ n = NoThread \/ n \in ThreadsOf(c)
      /\ y.cur[c] = n /\ \A d \in Cores \ {c} : y.cur[d] = x.cur[d]
  BY DEF Good, Sound, Rest, Switched, ThreadsKept
<1>2. \A d \in Cores : x.cur[d] # NoThread => x.cur[d] \in Threads
  BY <1>1, CurType
<1>3. ASSUME NEW u \in Threads, CoreOf[u] = c, y.th[u].status = "Ready", y.th[u].canSchedule
      PROVE  n # NoThread /\ y.th[n].current <= y.th[u].current
  <2>1. u # n /\ u \in ThreadsOf(c) /\ x.th[u].canSchedule /\ y.th[u].current = x.th[u].current
    BY <1>1, <1>3 DEF SwitchedStatus, ThreadsOf
  <2>2. n # NoThread => y.th[n].current = x.th[n].current
    BY <1>1 DEF ThreadsOf
  <2>3. CASE x.th[u].status = "Running"
    <3>1. u # NoThread /\ StillRunning(x, c) = u
      BY <1>1, <1>3, <2>3, NotNoThread DEF CoresOK, StillRunning
    <3> QED BY <2>1, <2>2, <3>1 DEF BestNext
  <2>4. CASE x.th[u].status # "Running"
    <3>1. x.th[u].status = "Ready"
      BY <1>1, <1>3, <2>1, <2>4 DEF SwitchedStatus
    <3>2. Eligible(x.th, c, u)
      BY <2>1, <3>1 DEF Eligible
    <3> QED BY <2>1, <2>2, <3>2 DEF BestNext
  <2> QED BY <2>3, <2>4
<1>4. ASSUME NEW d \in Cores \ {c}, BestRuns(x, d)
      PROVE  BestRuns(y, d)
  <2> SUFFICES ASSUME NEW u \in Threads, CoreOf[u] = d, y.th[u].status = "Ready",
                      y.th[u].canSchedule
               PROVE  y.cur[d] # NoThread /\ y.th[y.cur[d]].current <= y.th[u].current
    BY DEF BestRuns
  <2>1. u # n
    BY <1>1, NotNoThread DEF ThreadsOf
  <2>2. /\ x.th[u].status = "Ready" /\ x.th[u].canSchedule
        /\ y.th[u].current = x.th[u].current
    BY <1>1, <2>1 DEF SwitchedStatus
  <2>3. x.cur[d] # NoThread /\ x.th[x.cur[d]].current <= x.th[u].current
    BY <1>4, <2>2 DEF BestRuns
  <2> QED BY <1>1, <1>2, <2>2, <2>3
<1>5. BestRuns(y, c)
  BY <1>1, <1>3 DEF BestRuns
<1> QED BY <1>4, <1>5 DEF BestOn

WithTh(x, v) == [x EXCEPT !.th = v]
WithRq(x, v) == [x EXCEPT !.rq = v]
WithWake(x, v) == [x EXCEPT !.wake = v]
WithCur(x, v) == [x EXCEPT !.cur = v]
WithReg(x, v) == [x EXCEPT !.reg = v]
WithProc(x, v) == [x EXCEPT !.proc = v]
WithStored(x, v) == [x EXCEPT !.stored = v]

LEMMA WithThIs ==
    ASSUME NEW x \in KernelState, NEW v \in ThMap
    PROVE  /\ WithTh(x, v) \in KernelState /\ ObjectsKept(x, WithTh(x, v)) /\ WithTh(x, v).th = v
           /\ WithTh(x, v).rq = x.rq /\ WithTh(x, v).wake = x.wake /\ WithTh(x, v).cur = x.cur
           /\ WithTh(x, v).reg = x.reg /\ WithTh(x, v).proc = x.proc /\ WithTh(x, v).stored = x.stored
<1> DEFINE y == WithTh(x, v)
<1>1. y \in KernelState
  BY Put_th DEF WithTh
<1>2. /\ y.th = v /\ y.rq = x.rq /\ y.wake = x.wake /\ y.cur = x.cur /\ y.reg = x.reg /\ y.proc = x.proc /\ y.stored = x.stored
      /\ y.wl = x.wl /\ y.mx = x.mx /\ y.ses = x.ses /\ y.arb = x.arb /\ y.port = x.port
      /\ y.tev = x.tev /\ y.cpu = x.cpu /\ y.running = x.running /\ y.halt = x.halt
  BY DEF KernelState, WithTh
<1> HIDE DEF y
<1>3. ObjectsKept(x, y)
  BY <1>2 DEF ObjectsKept
<1> QED BY <1>1, <1>2, <1>3 DEF y

LEMMA WithRqIs ==
    ASSUME NEW x \in KernelState, NEW v \in RqMap
    PROVE  /\ WithRq(x, v) \in KernelState /\ ObjectsKept(x, WithRq(x, v)) /\ WithRq(x, v).rq = v
           /\ WithRq(x, v).th = x.th /\ WithRq(x, v).wake = x.wake /\ WithRq(x, v).cur = x.cur
           /\ WithRq(x, v).reg = x.reg /\ WithRq(x, v).proc = x.proc /\ WithRq(x, v).stored = x.stored
<1> DEFINE y == WithRq(x, v)
<1>1. y \in KernelState
  BY Put_rq DEF WithRq
<1>2. /\ y.rq = v /\ y.th = x.th /\ y.wake = x.wake /\ y.cur = x.cur /\ y.reg = x.reg /\ y.proc = x.proc /\ y.stored = x.stored
      /\ y.wl = x.wl /\ y.mx = x.mx /\ y.ses = x.ses /\ y.arb = x.arb /\ y.port = x.port
      /\ y.tev = x.tev /\ y.cpu = x.cpu /\ y.running = x.running /\ y.halt = x.halt
  BY DEF KernelState, WithRq
<1> HIDE DEF y
<1>3. ObjectsKept(x, y)
  BY <1>2 DEF ObjectsKept
<1> QED BY <1>1, <1>2, <1>3 DEF y

LEMMA WithWakeIs ==
    ASSUME NEW x \in KernelState, NEW v \in [Threads -> Nat]
    PROVE  /\ WithWake(x, v) \in KernelState /\ ObjectsKept(x, WithWake(x, v)) /\ WithWake(x, v).wake = v
           /\ WithWake(x, v).th = x.th /\ WithWake(x, v).rq = x.rq /\ WithWake(x, v).cur = x.cur
           /\ WithWake(x, v).reg = x.reg /\ WithWake(x, v).proc = x.proc /\ WithWake(x, v).stored = x.stored
<1> DEFINE y == WithWake(x, v)
<1>1. y \in KernelState
  BY Put_wake DEF WithWake
<1>2. /\ y.wake = v /\ y.th = x.th /\ y.rq = x.rq /\ y.cur = x.cur /\ y.reg = x.reg /\ y.proc = x.proc /\ y.stored = x.stored
      /\ y.wl = x.wl /\ y.mx = x.mx /\ y.ses = x.ses /\ y.arb = x.arb /\ y.port = x.port
      /\ y.tev = x.tev /\ y.cpu = x.cpu /\ y.running = x.running /\ y.halt = x.halt
  BY DEF KernelState, WithWake
<1> HIDE DEF y
<1>3. ObjectsKept(x, y)
  BY <1>2 DEF ObjectsKept
<1> QED BY <1>1, <1>2, <1>3 DEF y

LEMMA WithCurIs ==
    ASSUME NEW x \in KernelState, NEW v \in [Cores -> MaybeThread]
    PROVE  /\ WithCur(x, v) \in KernelState /\ ObjectsKept(x, WithCur(x, v)) /\ WithCur(x, v).cur = v
           /\ WithCur(x, v).th = x.th /\ WithCur(x, v).rq = x.rq /\ WithCur(x, v).wake = x.wake
           /\ WithCur(x, v).reg = x.reg /\ WithCur(x, v).proc = x.proc /\ WithCur(x, v).stored = x.stored
<1> DEFINE y == WithCur(x, v)
<1>1. y \in KernelState
  BY Put_cur DEF WithCur
<1>2. /\ y.cur = v /\ y.th = x.th /\ y.rq = x.rq /\ y.wake = x.wake /\ y.reg = x.reg /\ y.proc = x.proc /\ y.stored = x.stored
      /\ y.wl = x.wl /\ y.mx = x.mx /\ y.ses = x.ses /\ y.arb = x.arb /\ y.port = x.port
      /\ y.tev = x.tev /\ y.cpu = x.cpu /\ y.running = x.running /\ y.halt = x.halt
  BY DEF KernelState, WithCur
<1> HIDE DEF y
<1>3. ObjectsKept(x, y)
  BY <1>2 DEF ObjectsKept
<1> QED BY <1>1, <1>2, <1>3 DEF y

LEMMA WithRegIs ==
    ASSUME NEW x \in KernelState, NEW v \in [Cores -> Result]
    PROVE  /\ WithReg(x, v) \in KernelState /\ ObjectsKept(x, WithReg(x, v)) /\ WithReg(x, v).reg = v
           /\ WithReg(x, v).th = x.th /\ WithReg(x, v).rq = x.rq /\ WithReg(x, v).wake = x.wake
           /\ WithReg(x, v).cur = x.cur /\ WithReg(x, v).proc = x.proc /\ WithReg(x, v).stored = x.stored
<1> DEFINE y == WithReg(x, v)
<1>1. y \in KernelState
  BY Put_reg DEF WithReg
<1>2. /\ y.reg = v /\ y.th = x.th /\ y.rq = x.rq /\ y.wake = x.wake /\ y.cur = x.cur /\ y.proc = x.proc /\ y.stored = x.stored
      /\ y.wl = x.wl /\ y.mx = x.mx /\ y.ses = x.ses /\ y.arb = x.arb /\ y.port = x.port
      /\ y.tev = x.tev /\ y.cpu = x.cpu /\ y.running = x.running /\ y.halt = x.halt
  BY DEF KernelState, WithReg
<1> HIDE DEF y
<1>3. ObjectsKept(x, y)
  BY <1>2 DEF ObjectsKept
<1> QED BY <1>1, <1>2, <1>3 DEF y

LEMMA WithProcIs ==
    ASSUME NEW x \in KernelState, NEW v \in Processes
    PROVE  /\ WithProc(x, v) \in KernelState /\ ObjectsKept(x, WithProc(x, v)) /\ WithProc(x, v).proc = v
           /\ WithProc(x, v).th = x.th /\ WithProc(x, v).rq = x.rq /\ WithProc(x, v).wake = x.wake
           /\ WithProc(x, v).cur = x.cur /\ WithProc(x, v).reg = x.reg /\ WithProc(x, v).stored = x.stored
<1> DEFINE y == WithProc(x, v)
<1>1. y \in KernelState
  BY Put_proc DEF WithProc
<1>2. /\ y.proc = v /\ y.th = x.th /\ y.rq = x.rq /\ y.wake = x.wake /\ y.cur = x.cur /\ y.reg = x.reg /\ y.stored = x.stored
      /\ y.wl = x.wl /\ y.mx = x.mx /\ y.ses = x.ses /\ y.arb = x.arb /\ y.port = x.port
      /\ y.tev = x.tev /\ y.cpu = x.cpu /\ y.running = x.running /\ y.halt = x.halt
  BY DEF KernelState, WithProc
<1> HIDE DEF y
<1>3. ObjectsKept(x, y)
  BY <1>2 DEF ObjectsKept
<1> QED BY <1>1, <1>2, <1>3 DEF y

LEMMA WithStoredIs ==
    ASSUME NEW x \in KernelState, NEW v \in [Cores -> Processes]
    PROVE  /\ WithStored(x, v) \in KernelState /\ ObjectsKept(x, WithStored(x, v)) /\ WithStored(x, v).stored = v
           /\ WithStored(x, v).th = x.th /\ WithStored(x, v).rq = x.rq /\ WithStored(x, v).wake = x.wake
           /\ WithStored(x, v).cur = x.cur /\ WithStored(x, v).reg = x.reg /\ WithStored(x, v).proc = x.proc
<1> DEFINE y == WithStored(x, v)
<1>1. y \in KernelState
  BY Put_stored DEF WithStored
<1>2. /\ y.stored = v /\ y.th = x.th /\ y.rq = x.rq /\ y.wake = x.wake /\ y.cur = x.cur /\ y.reg = x.reg /\ y.proc = x.proc
      /\ y.wl = x.wl /\ y.mx = x.mx /\ y.ses = x.ses /\ y.arb = x.arb /\ y.port = x.port
      /\ y.tev = x.tev /\ y.cpu = x.cpu /\ y.running = x.running /\ y.halt = x.halt
  BY DEF KernelState, WithStored
<1> HIDE DEF y
<1>3. ObjectsKept(x, y)
  BY <1>2 DEF ObjectsKept
<1> QED BY <1>1, <1>2, <1>3 DEF y

LEMMA ObjectsKeptTransitive ==
    ASSUME NEW x, NEW y, NEW z, ObjectsKept(x, y), ObjectsKept(y, z)
    PROVE  ObjectsKept(x, z)
  BY DEF ObjectsKept

\* The parked threads are back: all that differs is core c's queue.
OnlyQueue(x, y, c) ==
    /\ y \in KernelState /\ ObjectsKept(x, y)
    /\ y.th = x.th /\ y.wake = x.wake /\ y.cur = x.cur /\ y.reg = x.reg
    /\ y.proc = x.proc /\ y.stored = x.stored
    /\ \A d \in Cores \ {c} : y.rq[d] = x.rq[d]

LEMMA RefillIs ==
    ASSUME NEW x, Good(x, NoThread), NEW c \in Cores, NEW t, NEW s, SearchOK(x.th, c, t, s)
    PROVE  OnlyQueue(x, Refill(x, c, s), c) /\ QueueBut(x.th, c, Refill(x, c, s).rq[c], {s.next})
<1> DEFINE a == Assert_(x, ~s.crash, "NullptrDereferenced")
           q == Refilled(x.th, s)
           Q == [a.rq EXCEPT ![c] = q]
           y == WithRq(a, Q)
<1>1. x \in KernelState
  BY DEF Good, Sound
<1>2. Asserted(x, a)
  <2>1. a = x \/ a = Failed(x, "NullptrDereferenced")
    BY DEF Assert_, Failed
  <2>2. "NullptrDereferenced" \in Assertions
    BY DEF Assertions
  <2> HIDE DEF a
  <2> QED BY <1>1, <2>1, <2>2, AssertFrame
<1>3. Refill(x, c, s) = y
  BY DEF Refill, Refilled, WithRq
<1> HIDE DEF a, q
<1>4. a \in KernelState /\ a.rq = x.rq /\ ObjectsKept(x, a) /\ a.th = x.th /\ a.wake = x.wake
      /\ a.cur = x.cur /\ a.reg = x.reg /\ a.proc = x.proc /\ a.stored = x.stored
  <2>1. a.tev = x.tev /\ a.halt = x.halt
    BY <1>2 DEF Asserted, Untouched
  <2> QED BY <1>2, <2>1 DEF Asserted, Untouched, ObjectsKept
<1>5. \A u \in ThreadsOf(c) : x.th[u].current \in Priority
  BY <1>1, ThType, ThreadFields, CoreThreads
<1>6. q \in QueueList(ThreadsOf(c)) /\ QueueBut(x.th, c, q, {s.next})
  BY <1>5, RefilledIs DEF q
<1>7. Q \in RqMap /\ Q[c] = q /\ \A d \in Cores \ {c} : Q[d] = a.rq[d]
  <2>1. a.rq \in RqMap
    BY <1>4, KernelFields
  <2>2. Q \in RqMap
    BY <1>6, <2>1, RqPut
  <2> QED BY <2>1, <2>2 DEF RqMap
<1> HIDE DEF Q
<1>8. /\ y \in KernelState /\ ObjectsKept(a, y) /\ y.rq = Q /\ y.th = a.th /\ y.wake = a.wake
      /\ y.cur = a.cur /\ y.reg = a.reg /\ y.proc = a.proc /\ y.stored = a.stored
  BY <1>4, <1>7, WithRqIs
<1> HIDE DEF y
<1>9. OnlyQueue(x, y, c)
  BY <1>4, <1>7, <1>8, ObjectsKeptTransitive DEF OnlyQueue
<1>10. QueueBut(x.th, c, y.rq[c], {s.next})
  BY <1>6, <1>7, <1>8
<1> QED BY <1>3, <1>9, <1>10

\* SaveThread is done; the threads in O are out of the queue.
Saved(x, y, c, O) ==
    /\ y \in KernelState /\ ObjectsKept(x, y) /\ ThreadsKept(x, y)
    /\ y.wake = x.wake /\ y.cur = x.cur /\ y.proc = x.proc /\ y.stored = x.stored
    /\ \A u \in Threads : y.th[u].status = SwitchedStatus(x, c, NoThread, u)
    /\ \A d \in Cores \ {c} : y.rq[d] = x.rq[d]
    /\ QueueBut(y.th, c, y.rq[c], O)

LEMMA WithThTwice ==
    ASSUME NEW x, NEW v, NEW w
    PROVE  WithTh(WithTh(x, v), w) = WithTh(x, w)
  BY DEF WithTh

SavedBut(x, y, c, n) == \E O \in SUBSET {n} : Saved(x, y, c, O)

\* The queues after the search: only n is still out.
PutAllBut(x, z, c, n) == OnlyQueue(x, z, c) /\ QueueBut(x.th, c, z.rq[c], {n})

LEMMA SaveIs ==
    ASSUME NEW x, Good(x, NoThread), NEW c \in Cores, NEW n, NEW z, PutAllBut(x, z, c, n)
    PROVE  SavedBut(x, SaveThread(z, c), c, n)
<1> SUFFICES \E O \in SUBSET {n} : Saved(x, SaveThread(z, c), c, O)
  BY DEF SavedBut
<1> DEFINE t == z.cur[c]
           r == [z.th[t] EXCEPT !.ctx = z.reg[c]]
           T == [z.th EXCEPT ![t] = r]
           w == WithTh(z, T)
<1>1. /\ x \in KernelState /\ z \in KernelState /\ CoresOK(x) /\ ObjectsKept(x, z)
      /\ z.th = x.th /\ z.wake = x.wake /\ z.cur = x.cur /\ z.proc = x.proc /\ z.stored = x.stored
      /\ \A d \in Cores \ {c} : z.rq[d] = x.rq[d]
      /\ QueueBut(x.th, c, z.rq[c], {n})
  BY DEF Good, Sound, Rest, OnlyQueue, PutAllBut
<1>2. t = NoThread \/ (t \in Threads /\ CoreOf[t] = c)
  BY <1>1, CurType DEF CoresOK
<1>3. \A u \in Threads : x.th[u].status = "Running" /\ CoreOf[u] = c => u = t
  BY <1>1 DEF CoresOK
<1>4. CASE t = NoThread
  <2>1. SaveThread(z, c) = z
    BY <1>4 DEF SaveThread
  <2>2. \A u \in Threads : z.th[u].status = SwitchedStatus(x, c, NoThread, u)
    BY <1>1, <1>3, <1>4, NotNoThread DEF SwitchedStatus
  <2>3. ThreadsKept(x, z)
    BY <1>1 DEF ThreadsKept
  <2> DEFINE O == {n}
  <2>4. QueueBut(z.th, c, z.rq[c], O) /\ O \in SUBSET {n}
    BY <1>1, Zenon
  <2> HIDE DEF O
  <2>5. Saved(x, z, c, O)
    BY <1>1, <2>2, <2>3, <2>4 DEF Saved
  <2> QED BY <2>1, <2>4, <2>5
<1>5. ASSUME t # NoThread
      PROVE  /\ t \in Threads /\ t \in ThreadsOf(c) /\ r \in ThreadRec /\ r.ctx = z.reg[c]
             /\ r.status = x.th[t].status /\ r.cb = x.th[t].cb /\ r.req = x.th[t].req
             /\ r.waitObjs = x.th[t].waitObjs /\ r.pending = x.th[t].pending
             /\ r.held = x.th[t].held /\ r.nominal = x.th[t].nominal
             /\ r.current = x.th[t].current /\ x.th[t].current \in Priority
             /\ r.canSchedule = x.th[t].canSchedule
             /\ T \in ThMap
  <2>1. t \in Threads /\ t \in ThreadsOf(c)
    BY <1>2, <1>5 DEF ThreadsOf
  <2>2. z.th[t] \in ThreadRec /\ z.th \in ThMap /\ z.reg[c] \in Result
    BY <1>1, <2>1, ThType, KernelFields DEF ThMap
  <2>3. r \in ThreadRec
    BY <2>2, Thread_ctx
  <2>4. /\ r.ctx = z.reg[c] /\ r.status = z.th[t].status /\ r.cb = z.th[t].cb /\ r.req = z.th[t].req
        /\ r.waitObjs = z.th[t].waitObjs /\ r.pending = z.th[t].pending
        /\ r.held = z.th[t].held /\ r.nominal = z.th[t].nominal /\ r.current = z.th[t].current
        /\ r.canSchedule = z.th[t].canSchedule
    BY ONLY <2>2 DEF ThreadRec
  <2> HIDE DEF r
  <2>5. T \in ThMap
    BY <2>1, <2>2, <2>3 DEF ThMap
  <2> QED BY <1>1, <2>1, <2>2, <2>3, <2>4, <2>5, ThreadFields
<1>6. CASE t # NoThread /\ x.th[t].status # "Running"
  <2>1. SaveThread(z, c) = w
    BY <1>1, <1>6 DEF SaveThread, WithTh
  <2>2. t \in Threads /\ T \in ThMap
    BY <1>5, <1>6
  <2>3. T[t] = r /\ \A u \in Threads \ {t} : T[u] = x.th[u]
    BY <1>1, <2>2, ThType
  <2> HIDE DEF r, T
  <2>4. /\ w \in KernelState /\ ObjectsKept(z, w) /\ w.th = T
        /\ w.rq = z.rq /\ w.wake = z.wake /\ w.cur = z.cur
        /\ w.reg = z.reg /\ w.proc = z.proc /\ w.stored = z.stored
    BY <1>1, <2>2, WithThIs
  <2> HIDE DEF w
  <2>5. ThreadsKept(x, w)
    BY <1>5, <1>6, <2>3, <2>4 DEF ThreadsKept
  <2>6. \A u \in Threads : T[u].status = x.th[u].status /\ T[u].current = x.th[u].current
    BY <1>5, <1>6, <2>3
  <2>7. \A u \in Threads : w.th[u].status = SwitchedStatus(x, c, NoThread, u)
    BY <1>3, <1>6, <2>4, <2>6, NotNoThread DEF SwitchedStatus
  <2> DEFINE O == {n}
  <2>8. QueueBut(x.th, c, z.rq[c], O) /\ O \in SUBSET {n}
    BY <1>1, Zenon
  <2> HIDE DEF O
  <2>9. QueueBut(T, c, z.rq[c], O)
    BY <2>6, <2>8, CoreThreads DEF QueueBut
  <2>10. Saved(x, w, c, O)
    BY <1>1, <2>4, <2>5, <2>7, <2>9, ObjectsKeptTransitive DEF Saved
  <2> QED BY <2>1, <2>8, <2>10
<1>7. CASE t # NoThread /\ x.th[t].status = "Running"
  <2> DEFINE r2 == [r EXCEPT !.status = "Ready"]
             T2 == [z.th EXCEPT ![t] = r2]
             l == x.th[t].current
             q == push_front(z.rq[c], l, t)
             Q == [z.rq EXCEPT ![c] = q]
             w2 == WithTh(z, T2)
             y == WithRq(w2, Q)
  <2>1. t \in Threads /\ t \in ThreadsOf(c) /\ T \in ThMap /\ r \in ThreadRec /\ l \in Priority
    BY <1>5, <1>7
  <2>2. SaveThread(z, c) = y
    <3>1. SaveThread(z, c) = [w EXCEPT !.th[t].status = "Ready",
                                       !.rq[c] = push_front(@, z.th[t].current, t)]
      BY <1>1, <1>7 DEF SaveThread, WithTh
    <3>2. /\ w \in KernelState /\ w.th = T /\ w.rq = z.rq
      BY <1>1, <2>1, WithThIs
    <3>3. {"th", "rq"} \subseteq DOMAIN w
      BY <3>2 DEF KernelState
    <3>4. T[t] = r
      BY <1>1, <2>1, ThType
    <3>5. [T EXCEPT ![t] = r2] = T2
      BY <1>1, <2>1, ThType
    <3>6. WithTh(w, T2) = w2
      <4> HIDE DEF T, T2
      <4> QED BY WithThTwice
    <3> HIDE DEF w, T, T2, r
    <3>7. [w EXCEPT !.th[t].status = "Ready", !.rq[c] = push_front(@, z.th[t].current, t)]
             = WithRq(WithTh(w, T2), Q)
      <4> DEFINE v == [w EXCEPT !.th[t].status = "Ready"]
      <4>1. z.th[t].current = l
        BY <1>1
      <4> HIDE DEF l
      <4>2. v = WithTh(w, T2)
        BY ONLY <3>2, <3>4, <3>5 DEF WithTh
      <4>3. WithTh(w, T2).rq = z.rq
        BY ONLY <3>2, <3>3 DEF WithTh
      <4>4. [w EXCEPT !.th[t].status = "Ready", !.rq[c] = push_front(@, z.th[t].current, t)]
              = [v EXCEPT !.rq[c] = q]
        BY ONLY <3>2, <4>1
      <4> HIDE DEF q, v
      <4>5. [v EXCEPT !.rq[c] = q] = WithRq(v, Q)
        BY ONLY <4>2, <4>3 DEF WithRq
      <4> QED BY ONLY <4>2, <4>4, <4>5
    <3> QED BY <3>1, <3>6, <3>7
  <2>3. r2 \in ThreadRec
    <3>1. "Ready" \in Status
      BY DEF Status
    <3> HIDE DEF r
    <3> QED BY <2>1, <3>1, Thread_status
  <2>4. /\ r2.status = "Ready" /\ r2.cb = r.cb /\ r2.req = r.req
        /\ r2.waitObjs = r.waitObjs /\ r2.pending = r.pending
        /\ r2.held = r.held /\ r2.nominal = r.nominal /\ r2.current = r.current
        /\ r2.canSchedule = r.canSchedule
    BY ONLY <2>1 DEF ThreadRec
  <2> HIDE DEF r, r2, T
  <2>5. T2 \in ThMap
    BY <1>1, <2>1, <2>3, ThType DEF ThMap
  <2>6. T2[t] = r2 /\ \A u \in Threads \ {t} : T2[u] = x.th[u]
    BY <1>1, <2>1, ThType
  <2> HIDE DEF T2
  <2>7. /\ w2 \in KernelState /\ ObjectsKept(z, w2) /\ w2.th = T2
        /\ w2.rq = z.rq /\ w2.wake = z.wake /\ w2.cur = z.cur
        /\ w2.reg = z.reg /\ w2.proc = z.proc /\ w2.stored = z.stored
    BY <1>1, <2>5, WithThIs
  <2> HIDE DEF w2
  <2>8. z.rq \in RqMap /\ z.rq[c] \in QueueList(ThreadsOf(c))
    BY <1>1, RqType
  <2>9. q \in QueueList(ThreadsOf(c)) /\ Pushed(z.rq[c], l, t, q)
    BY <2>1, <2>8, PushType, PushIs
  <2> HIDE DEF q
  <2>10. Q \in RqMap /\ Q[c] = q /\ \A d \in Cores \ {c} : Q[d] = z.rq[d]
    <3>1. Q \in RqMap
      BY <2>8, <2>9, RqPut
    <3> QED BY <2>8, <3>1 DEF RqMap
  <2> HIDE DEF Q
  <2>11. /\ y \in KernelState /\ ObjectsKept(w2, y) /\ y.rq = Q /\ y.th = w2.th /\ y.wake = w2.wake
         /\ y.cur = w2.cur /\ y.reg = w2.reg /\ y.proc = w2.proc /\ y.stored = w2.stored
    BY <2>7, <2>10, WithRqIs
  <2> HIDE DEF y
  <2>12. ThreadsKept(x, y)
    BY <1>5, <1>7, <2>4, <2>6, <2>7, <2>11 DEF ThreadsKept
  <2>13. \A u \in Threads : y.th[u].status = SwitchedStatus(x, c, NoThread, u)
    BY <1>2, <1>3, <1>7, <2>4, <2>6, <2>7, <2>11, NotNoThread DEF SwitchedStatus
  <2> DEFINE N == {n, t}
             O == N \ {t}
  <2>14. QueueBut(T2, c, z.rq[c], N)
    <3>1. \A u \in ThreadsOf(c) \ {t} : T2[u].status = x.th[u].status /\ T2[u].current = x.th[u].current
      BY <2>6, CoreThreads
    <3>2. \A u \in ThreadsOf(c) \ {t} : u \in N <=> u \in {n}
      OBVIOUS
    <3>3. T2[t].current = l /\ t \in N
      BY <1>5, <1>7, <2>4, <2>6
    <3> DEFINE M == {n}
    <3>4. QueueBut(x.th, c, z.rq[c], M) /\ \A u \in ThreadsOf(c) \ {t} : u \in N <=> u \in M
      BY <1>1, <3>2, Zenon
    <3> HIDE DEF N, M
    <3> QED BY <1>7, <3>1, <3>3, <3>4 DEF QueueBut
  <2>15. T2[t].status = "Ready" /\ T2[t].current = l /\ t \in N
    BY <1>5, <1>7, <2>4, <2>6
  <2> HIDE DEF N, l
  <2>16. QueueBut(T2, c, q, O)
    <3> DEFINE u == t
               p == z.rq[c]
    <3> HIDE DEF u, p
    <3>1. /\ p \in QueueList(ThreadsOf(c)) /\ QueueBut(T2, c, p, N) /\ u \in ThreadsOf(c) /\ u \in N
          /\ T2[u].status = "Ready" /\ T2[u].current \in Priority /\ Pushed(p, T2[u].current, u, q)
      BY <2>1, <2>8, <2>9, <2>14, <2>15 DEF u, p
    <3>2. QueueBut(T2, c, q, N \ {u})
      BY ONLY <3>1, PutBack, Zenon
    <3> QED BY <3>2 DEF u
  <2>17. O \in SUBSET {n}
    BY DEF N
  <2> HIDE DEF O
  <2>18. Saved(x, y, c, O)
    <3>1. ObjectsKept(x, y)
      BY <1>1, <2>7, <2>11, ObjectsKeptTransitive
    <3> QED BY <1>1, <2>7, <2>10, <2>11, <2>12, <2>13, <2>16, <3>1 DEF Saved
  <2> QED BY <2>2, <2>17, <2>18
<1> QED BY <1>4, <1>6, <1>7

\* The thread n has been given core c, but for the process and the registers.
Started(w, y, c, n) ==
    /\ y \in KernelState /\ ObjectsKept(w, y) /\ ThreadsKept(w, y)
    /\ y.proc = w.proc /\ y.stored = w.stored
    /\ y.cur = [w.cur EXCEPT ![c] = n] /\ y.wake = [w.wake EXCEPT ![n] = 0]
    /\ \A u \in Threads : y.th[u].status = IF u = n THEN "Running" ELSE w.th[u].status
    /\ \A d \in Cores \ {c} : y.rq[d] = w.rq[d]
    /\ QueueOK(y.th, c, y.rq[c])

Starting(b, w, c, n) ==
    [b EXCEPT !.cur[c] = n, !.rq[c] = remove(@, w.th[n].current, n), !.th[n].status = "Running"]

Start(w, c, n) ==
    Starting(CancelWakeup(Assert_(w, w.th[n].status = "Ready", "ThreadMustBeReady"), n), w, c, n)

LEMMA StartIs ==
    ASSUME NEW w \in KernelState, NEW c \in Cores, NEW n \in ThreadsOf(c), NEW O \in SUBSET {n},
           QueueBut(w.th, c, w.rq[c], O), w.th[n].status # "NotCreated"
    PROVE  Started(w, Start(w, c, n), c, n)
<1> DEFINE a == Assert_(w, w.th[n].status = "Ready", "ThreadMustBeReady")
           W == [w.wake EXCEPT ![n] = 0]
           b == WithWake(a, W)
           C == [w.cur EXCEPT ![c] = n]
           d == WithCur(b, C)
           l == w.th[n].current
           q == remove(w.rq[c], l, n)
           Q == [w.rq EXCEPT ![c] = q]
           e == WithRq(d, Q)
           r == [w.th[n] EXCEPT !.status = "Running"]
           T == [w.th EXCEPT ![n] = r]
           y == WithTh(e, T)
<1>1. Asserted(w, a)
  <2>1. a = w \/ a = Failed(w, "ThreadMustBeReady")
    BY DEF Assert_, Failed
  <2>2. "ThreadMustBeReady" \in Assertions
    BY DEF Assertions
  <2> HIDE DEF a
  <2> QED BY <2>1, <2>2, AssertFrame
<1>2. /\ a \in KernelState /\ a.th = w.th /\ a.rq = w.rq /\ a.wake = w.wake /\ a.cur = w.cur
      /\ a.proc = w.proc /\ a.stored = w.stored /\ ObjectsKept(w, a)
  <2> HIDE DEF a
  <2>1. a.tev = w.tev /\ a.halt = w.halt
    BY <1>1 DEF Asserted, Untouched
  <2> QED BY <1>1, <2>1 DEF Asserted, Untouched, ObjectsKept
<1>3. /\ n \in Threads /\ CoreOf[n] = c /\ w.th \in [Threads -> ThreadRec] /\ w.th[n] \in ThreadRec
      /\ w.wake \in [Threads -> Nat] /\ w.cur \in [Cores -> MaybeThread]
      /\ w.rq \in RqMap /\ w.rq[c] \in QueueList(ThreadsOf(c)) /\ l \in Priority
  BY RqType, ThType, ThreadFields, KernelFields DEF ThreadsOf
<1>4. Start(w, c, n) = Starting(b, w, c, n)
  <2>1. CancelWakeup(a, n) = b
    <3> HIDE DEF a
    <3> QED BY <1>2 DEF CancelWakeup, WithWake
  <2> HIDE DEF b
  <2> QED BY <2>1 DEF Start, a
<1> HIDE DEF a
<1>5. W \in [Threads -> Nat]
  BY <1>3
<1> HIDE DEF W
<1>6. /\ b \in KernelState /\ ObjectsKept(a, b) /\ b.wake = W /\ b.th = w.th /\ b.rq = w.rq
      /\ b.cur = w.cur /\ b.proc = w.proc /\ b.stored = w.stored
  BY <1>2, <1>5, WithWakeIs
<1> HIDE DEF b
<1>7. C \in [Cores -> MaybeThread]
  BY <1>3 DEF MaybeThread
<1>8. Starting(b, w, c, n) = y
  <2> DEFINE d0 == [b EXCEPT !.cur[c] = n]
             e0 == [d0 EXCEPT !.rq[c] = remove(b.rq[c], w.th[n].current, n)]
  <2>1. {"cur", "rq", "th"} \subseteq DOMAIN b
    BY <1>6 DEF KernelState
  <2>2. b.rq[c] = w.rq[c] /\ b.th[n] = w.th[n]
    BY <1>6
  <2>3. remove(b.rq[c], w.th[n].current, n) = q
    BY <2>2
  <2> HIDE DEF q
  <2>9. Starting(b, w, c, n) = [e0 EXCEPT !.th[n].status = "Running"]
    BY DEF Starting
  <2>4. d0 = d
    BY <1>6 DEF WithCur
  <2>5. d.rq = w.rq /\ d.th = w.th
    BY <1>6, <2>1 DEF WithCur
  <2> HIDE DEF d, d0
  <2>6. e0 = e
    BY ONLY <2>3, <2>4, <2>5 DEF WithRq
  <2>7. e.th = w.th
    BY <1>6, <1>7, <2>1, <2>5 DEF WithRq, WithCur, d
  <2> HIDE DEF e, e0
  <2>8. [e EXCEPT !.th[n].status = "Running"] = y
    BY <2>7 DEF WithTh
  <2> HIDE DEF y
  <2> QED BY ONLY <2>6, <2>8, <2>9
<1> HIDE DEF C
<1>9. /\ d \in KernelState /\ ObjectsKept(b, d) /\ d.cur = C /\ d.th = w.th /\ d.rq = w.rq
      /\ d.wake = W /\ d.proc = w.proc /\ d.stored = w.stored
  BY <1>6, <1>7, WithCurIs
<1> HIDE DEF d
<1>10. q \in QueueList(ThreadsOf(c)) /\ Removed(w.rq[c], l, n, q)
  BY <1>3, RemoveType, RemoveIs
<1> HIDE DEF q
<1>11. Q \in RqMap /\ Q[c] = q /\ \A v \in Cores \ {c} : Q[v] = w.rq[v]
  <2>1. Q \in RqMap
    BY <1>3, <1>10, RqPut
  <2> QED BY <1>3, <2>1 DEF RqMap
<1> HIDE DEF Q
<1>12. /\ e \in KernelState /\ ObjectsKept(d, e) /\ e.rq = Q /\ e.th = w.th /\ e.cur = C
       /\ e.wake = W /\ e.proc = w.proc /\ e.stored = w.stored
  BY <1>9, <1>11, WithRqIs
<1> HIDE DEF e
<1>13. r \in ThreadRec
  <2>1. "Running" \in Status
    BY DEF Status
  <2> QED BY <1>3, <2>1, Thread_status
<1>14. /\ r.status = "Running" /\ r.cb = w.th[n].cb /\ r.req = w.th[n].req
       /\ r.waitObjs = w.th[n].waitObjs /\ r.pending = w.th[n].pending
       /\ r.held = w.th[n].held /\ r.nominal = w.th[n].nominal /\ r.current = w.th[n].current
       /\ r.canSchedule = w.th[n].canSchedule
  BY ONLY <1>3 DEF ThreadRec
<1> HIDE DEF r
<1>15. T \in ThMap /\ T[n] = r /\ \A u \in Threads \ {n} : T[u] = w.th[u]
  BY <1>3, <1>13 DEF ThMap
<1> HIDE DEF T
<1>16. /\ y \in KernelState /\ ObjectsKept(e, y) /\ y.th = T /\ y.rq = Q /\ y.cur = C
       /\ y.wake = W /\ y.proc = w.proc /\ y.stored = w.stored
  BY <1>12, <1>15, WithThIs
<1> HIDE DEF y
<1>17. ObjectsKept(w, y)
  BY <1>2, <1>6, <1>9, <1>12, <1>16, ObjectsKeptTransitive
<1>18. ThreadsKept(w, y)
  BY <1>14, <1>15, <1>16 DEF ThreadsKept
<1>19. \A u \in Threads : y.th[u].status = IF u = n THEN "Running" ELSE w.th[u].status
  BY <1>14, <1>15, <1>16
<1>20. QueueOK(T, c, q)
  <2>1. Changed(w.th, T, c, n, "Running", l)
    BY <1>14, <1>15, CoreThreads DEF Changed
  <2> DEFINE p == w.rq[c]
             th == w.th
  <2>2. /\ p \in QueueList(ThreadsOf(c)) /\ O \subseteq {n} /\ QueueBut(th, c, p, O)
        /\ Changed(th, T, c, n, "Running", th[n].current) /\ th[n].current \in Priority
        /\ th[n].status # "NotCreated" /\ Removed(p, th[n].current, n, q)
        /\ n \in ThreadsOf(c)
    BY <1>3, <1>10, <2>1
  <2> HIDE DEF p, th
  <2> QED BY ONLY <2>2, SwitchedQueue, Zenon
<1>21. Started(w, y, c, n)
  BY <1>11, <1>16, <1>17, <1>18, <1>19, <1>20 DEF Started, C, W
<1> QED BY <1>4, <1>8, <1>21

\* Nothing but the process of core c differs.
OnlyProcess(f, g) ==
    /\ g \in KernelState /\ ObjectsKept(f, g)
    /\ g.th = f.th /\ g.rq = f.rq /\ g.wake = f.wake /\ g.cur = f.cur /\ g.reg = f.reg

LEMMA ProcessChanged ==
    ASSUME NEW f \in KernelState, NEW c \in Cores, NEW n \in Threads, NEW prev,
           prev = ProcOf[n] => ProcessOf(f, c) = ProcOf[n]
    PROVE  LET g == ChangeProcess(f, c, n, prev)
           IN OnlyProcess(f, g) /\ ProcessKept(f, g, c, n)
<1> DEFINE p == ProcOf[n]
           a == WithProc(f, p)
           V == [f.stored EXCEPT ![c] = p]
           b == WithStored(f, V)
<1>1. p \in Processes /\ f.stored \in [Cores -> Processes] /\ V \in [Cores -> Processes]
  <2>1. p \in Processes
    BY DEF Processes
  <2>2. f.stored \in [Cores -> Processes]
    BY KernelFields
  <2> HIDE DEF p
  <2> QED BY <2>1, <2>2
<1>2. V[c] = p /\ \A d \in Cores \ {c} : V[d] = f.stored[d]
  BY <1>1
<1> HIDE DEF V
<1>3. CASE prev = ProcOf[n]
  <2>1. ChangeProcess(f, c, n, prev) = f
    BY <1>3 DEF ChangeProcess
  <2>2. OnlyProcess(f, f)
    BY DEF OnlyProcess, ObjectsKept
  <2>3. ProcessKept(f, f, c, n)
    BY <1>3 DEF ProcessKept
  <2> QED BY <2>1, <2>2, <2>3
<1>4. CASE prev # ProcOf[n] /\ f.cpu = c
  <2>1. ChangeProcess(f, c, n, prev) = a
    BY <1>4 DEF ChangeProcess, SetCurrentProcessForCPU, WithProc
  <2>2. /\ a \in KernelState /\ ObjectsKept(f, a) /\ a.proc = p /\ a.th = f.th
        /\ a.rq = f.rq /\ a.wake = f.wake /\ a.cur = f.cur /\ a.reg = f.reg /\ a.stored = f.stored
    BY <1>1, WithProcIs
  <2> HIDE DEF a
  <2>3. OnlyProcess(f, a) /\ a.cpu = f.cpu
    BY <2>2 DEF OnlyProcess, ObjectsKept
  <2>4. ProcessKept(f, a, c, n)
    BY <1>4, <2>2, <2>3 DEF ProcessKept, ProcessOf
  <2> QED BY <2>1, <2>3, <2>4
<1>5. CASE prev # ProcOf[n] /\ f.cpu # c
  <2>1. ChangeProcess(f, c, n, prev) = b
    BY <1>5 DEF ChangeProcess, SetCurrentProcessForCPU, WithStored, V
  <2>2. /\ b \in KernelState /\ ObjectsKept(f, b) /\ b.stored = V /\ b.th = f.th
        /\ b.rq = f.rq /\ b.wake = f.wake /\ b.cur = f.cur /\ b.reg = f.reg /\ b.proc = f.proc
    BY <1>1, WithStoredIs
  <2> HIDE DEF b
  <2>3. OnlyProcess(f, b) /\ b.cpu = f.cpu
    BY <2>2 DEF OnlyProcess, ObjectsKept
  <2>4. ProcessKept(f, b, c, n)
    BY <1>2, <1>5, <2>2, <2>3 DEF ProcessKept, ProcessOf
  <2> QED BY <2>1, <2>3, <2>4
<1> QED BY <1>3, <1>4, <1>5

\* Nothing but registers and contexts differs.
OnlyContext(g, h) ==
    /\ h \in KernelState /\ ObjectsKept(g, h) /\ ThreadsKept(g, h)
    /\ \A u \in Threads : h.th[u].status = g.th[u].status
    /\ h.rq = g.rq /\ h.wake = g.wake /\ h.cur = g.cur /\ h.proc = g.proc /\ h.stored = g.stored

LEMMA ContextLoaded ==
    ASSUME NEW g \in KernelState, NEW c \in Cores, NEW n \in Threads
    PROVE  OnlyContext(g, LoadContext(g, c, n))
<1> DEFINE G == [g.reg EXCEPT ![c] = g.th[n].ctx]
           a == WithReg(g, G)
           r == [g.th[n] EXCEPT !.ctx = NoResult]
           T == [g.th EXCEPT ![n] = r]
           h == WithTh(a, T)
<1>1. /\ g.reg \in [Cores -> Result] /\ g.th \in ThMap /\ g.th[n] \in ThreadRec
      /\ g.th[n].ctx \in Result /\ NoResult \in Result
  BY KernelFields, ThType, ThreadFields DEF Result
<1>2. G \in [Cores -> Result]
  BY <1>1
<1>3. /\ a \in KernelState /\ ObjectsKept(g, a) /\ a.th = g.th /\ a.rq = g.rq
      /\ a.wake = g.wake /\ a.cur = g.cur /\ a.proc = g.proc /\ a.stored = g.stored
  BY <1>2, WithRegIs
<1>4. LoadContext(g, c, n) = h
  <2>1. LoadContext(g, c, n) = [a EXCEPT !.th[n].ctx = NoResult]
    BY DEF LoadContext, WithReg
  <2> HIDE DEF a
  <2>2. [a EXCEPT !.th[n].ctx = NoResult] = h
    BY <1>3 DEF WithTh
  <2> QED BY <2>1, <2>2
<1> HIDE DEF G, a
<1>5. r \in ThreadRec
  BY <1>1, Thread_ctx
<1>6. /\ r.status = g.th[n].status /\ r.cb = g.th[n].cb /\ r.req = g.th[n].req
      /\ r.waitObjs = g.th[n].waitObjs /\ r.pending = g.th[n].pending
      /\ r.held = g.th[n].held /\ r.nominal = g.th[n].nominal /\ r.current = g.th[n].current
      /\ r.canSchedule = g.th[n].canSchedule
  BY ONLY <1>1 DEF ThreadRec
<1> HIDE DEF r
<1>7. T \in ThMap /\ T[n] = r /\ \A u \in Threads \ {n} : T[u] = g.th[u]
  BY <1>1, <1>5 DEF ThMap
<1> HIDE DEF T
<1>8. /\ h \in KernelState /\ ObjectsKept(a, h) /\ h.th = T /\ h.rq = g.rq
      /\ h.wake = g.wake /\ h.cur = g.cur /\ h.proc = g.proc /\ h.stored = g.stored
  BY <1>3, <1>7, WithThIs
<1> HIDE DEF h
<1>9. ObjectsKept(g, h)
  BY <1>3, <1>8, ObjectsKeptTransitive
<1>10. ThreadsKept(g, h) /\ \A u \in Threads : h.th[u].status = g.th[u].status
  BY <1>6, <1>7, <1>8 DEF ThreadsKept
<1> QED BY <1>4, <1>8, <1>9, <1>10 DEF OnlyContext

LEMMA ThreadsKeptTransitive ==
    ASSUME NEW x, NEW y, NEW z, ThreadsKept(x, y), ThreadsKept(y, z)
    PROVE  ThreadsKept(x, z)
<1> QED BY DEF ThreadsKept

LEMMA LoadIs ==
    ASSUME NEW x, Good(x, NoThread), NEW c \in Cores, NEW n \in ThreadsOf(c),
           x.th[n].status \in {"Ready", "Running"},
           NEW w, NEW O \in SUBSET {n}, Saved(x, w, c, O)
    PROVE  LET prev == IF x.cur[c] = NoThread THEN NoProcess ELSE ProcOf[x.cur[c]]
           IN Switched(x, LoadThread(w, c, n, prev), c, n)
<1> DEFINE prev == IF x.cur[c] = NoThread THEN NoProcess ELSE ProcOf[x.cur[c]]
           f == Start(w, c, n)
           g == ChangeProcess(f, c, n, prev)
           h == LoadContext(g, c, n)
<1>1. LoadThread(w, c, n, prev) = h
  BY DEF LoadThread, Start, Starting
<1>2. /\ x \in KernelState /\ CoresOK(x)
      /\ w \in KernelState /\ ObjectsKept(x, w) /\ ThreadsKept(x, w)
      /\ w.wake = x.wake /\ w.cur = x.cur /\ w.proc = x.proc /\ w.stored = x.stored
      /\ \A u \in Threads : w.th[u].status = SwitchedStatus(x, c, NoThread, u)
      /\ \A d \in Cores \ {c} : w.rq[d] = x.rq[d]
      /\ QueueBut(w.th, c, w.rq[c], O)
  BY DEF Good, Sound, Rest, Saved
<1>3. n \in Threads /\ n # NoThread /\ CoreOf[n] = c
  BY NotNoThread DEF ThreadsOf
<1>4. w.th[n].status \in {"Ready", "Running"}
  BY <1>2, <1>3 DEF SwitchedStatus
<1>5. Started(w, f, c, n)
  BY <1>2, <1>4, StartIs
<1>6. /\ f \in KernelState /\ ObjectsKept(w, f) /\ ThreadsKept(w, f)
      /\ f.proc = x.proc /\ f.stored = x.stored
      /\ f.cur = [x.cur EXCEPT ![c] = n] /\ f.wake = [x.wake EXCEPT ![n] = 0]
      /\ \A u \in Threads : f.th[u].status = IF u = n THEN "Running" ELSE w.th[u].status
      /\ \A d \in Cores \ {c} : f.rq[d] = x.rq[d]
      /\ QueueOK(f.th, c, f.rq[c])
  BY <1>2, <1>5 DEF Started
<1> HIDE DEF f
<1>7. f.cpu = x.cpu
  BY <1>2, <1>6 DEF ObjectsKept
<1>8. \A d \in Cores : ProcessOf(f, d) = ProcessOf(x, d)
  BY <1>6, <1>7 DEF ProcessOf
<1>9. prev = ProcOf[n] => ProcessOf(f, c) = ProcOf[n]
  <2>1. ASSUME prev = ProcOf[n] PROVE x.cur[c] # NoThread /\ prev = ProcOf[x.cur[c]]
    BY <1>3, <2>1, KernelAssumption
  <2> QED BY <1>2, <1>8, <2>1 DEF CoresOK
<1> HIDE DEF prev
<1>10. OnlyProcess(f, g) /\ ProcessKept(f, g, c, n)
  BY <1>3, <1>6, <1>9, ProcessChanged
<1> HIDE DEF g
<1>11. /\ g \in KernelState /\ ObjectsKept(f, g) /\ g.th = f.th /\ g.rq = f.rq
       /\ g.wake = f.wake /\ g.cur = f.cur
  BY <1>10 DEF OnlyProcess
<1>12. OnlyContext(g, h)
  BY <1>3, <1>11, ContextLoaded
<1> HIDE DEF h
<1>13. /\ h \in KernelState /\ ObjectsKept(g, h) /\ ThreadsKept(g, h)
       /\ \A u \in Threads : h.th[u].status = f.th[u].status
       /\ h.rq = f.rq /\ h.wake = f.wake /\ h.cur = f.cur
       /\ h.proc = g.proc /\ h.stored = g.stored
  BY <1>11, <1>12 DEF OnlyContext
<1>14. ObjectsKept(x, h)
  <2>1. ObjectsKept(x, f)
    BY <1>2, <1>6, ObjectsKeptTransitive
  <2>2. ObjectsKept(x, g)
    BY <2>1, <1>11, ObjectsKeptTransitive
  <2> QED BY <2>2, <1>13, ObjectsKeptTransitive
<1>15. ThreadsKept(x, h)
  <2>1. ThreadsKept(x, f)
    BY <1>2, <1>6, ThreadsKeptTransitive
  <2>2. ThreadsKept(f, h)
    BY <1>11, <1>13 DEF ThreadsKept
  <2> QED BY <2>1, <2>2, ThreadsKeptTransitive
<1>16. ProcessKept(x, h, c, n)
  <2>1. h.cpu = g.cpu
    BY <1>13 DEF ObjectsKept
  <2>2. \A d \in Cores : ProcessOf(h, d) = ProcessOf(g, d)
    BY <1>13, <2>1 DEF ProcessOf
  <2> QED BY <1>8, <1>10, <2>2 DEF ProcessKept
<1>17. \A u \in Threads : h.th[u].status = SwitchedStatus(x, c, n, u)
  <2>1. ASSUME NEW u \in Threads
        PROVE  h.th[u].status = IF u = n THEN "Running" ELSE SwitchedStatus(x, c, NoThread, u)
    BY <1>2, <1>6, <1>13
  <2> QED BY <2>1, NotNoThread DEF SwitchedStatus
<1>18. x.cur \in [Cores -> MaybeThread] /\ x.wake \in [Threads -> Nat]
  BY <1>2, KernelFields
<1>19. h.cur[c] = n /\ \A d \in Cores \ {c} : h.cur[d] = x.cur[d]
  BY <1>6, <1>11, <1>13, <1>18
<1>20. h.wake[n] = 0 /\ \A u \in Threads \ {n} : h.wake[u] = x.wake[u]
  BY <1>3, <1>6, <1>11, <1>13, <1>18
<1>21. QueueOK(h.th, c, h.rq[c])
  <2>1. \A u \in Threads : h.th[u].status = f.th[u].status /\ h.th[u].current = f.th[u].current
    BY <1>11, <1>13 DEF ThreadsKept
  <2> QED BY <1>6, <1>13, <2>1, CoreThreads DEF QueueOK
<1>22. \A d \in Cores \ {c} : h.rq[d] = x.rq[d]
  BY <1>6, <1>11, <1>13
<1>23. Switched(x, h, c, n)
  BY <1>13, <1>14, <1>15, <1>16, <1>17, <1>19, <1>20, <1>21, <1>22 DEF Switched
<1> QED BY <1>1, <1>23 DEF prev

\* A core that has no thread left to run.
LEMMA IdleIs ==
    ASSUME NEW x, Good(x, NoThread), NEW c \in Cores, NEW w, NEW O \in SUBSET {NoThread},
           Saved(x, w, c, O)
    PROVE  LET y == [w EXCEPT !.cur[c] = NoThread, !.reg[c] = NoResult]
           IN Switched(x, y, c, NoThread)
<1> DEFINE C == [w.cur EXCEPT ![c] = NoThread]
           G == [w.reg EXCEPT ![c] = NoResult]
           a == WithCur(w, C)
           y == WithReg(a, G)
<1>1. /\ x \in KernelState
      /\ w \in KernelState /\ ObjectsKept(x, w) /\ ThreadsKept(x, w)
      /\ w.wake = x.wake /\ w.cur = x.cur /\ w.proc = x.proc /\ w.stored = x.stored
      /\ \A u \in Threads : w.th[u].status = SwitchedStatus(x, c, NoThread, u)
      /\ \A d \in Cores \ {c} : w.rq[d] = x.rq[d]
      /\ QueueBut(w.th, c, w.rq[c], O)
  BY DEF Good, Sound, Saved
<1>2. w.cur \in [Cores -> MaybeThread] /\ w.reg \in [Cores -> Result] /\ NoResult \in Result
      /\ NoThread \in MaybeThread
  BY <1>1, KernelFields DEF Result, MaybeThread
<1>3. C \in [Cores -> MaybeThread] /\ G \in [Cores -> Result]
  BY <1>2
<1>4. C[c] = NoThread /\ \A d \in Cores \ {c} : C[d] = x.cur[d]
  BY <1>1, <1>2
<1>5. /\ a \in KernelState /\ ObjectsKept(w, a) /\ a.cur = C /\ a.th = w.th /\ a.rq = w.rq
      /\ a.wake = w.wake /\ a.reg = w.reg /\ a.proc = w.proc /\ a.stored = w.stored
  BY <1>1, <1>3, WithCurIs
<1>6. [w EXCEPT !.cur[c] = NoThread, !.reg[c] = NoResult] = y
  <2>1. {"cur", "reg"} \subseteq DOMAIN w
    BY <1>1 DEF KernelState
  <2> QED BY <2>1 DEF WithReg, WithCur
<1> HIDE DEF C, a
<1>7. /\ y \in KernelState /\ ObjectsKept(a, y) /\ y.cur = C /\ y.th = w.th /\ y.rq = w.rq
      /\ y.wake = w.wake /\ y.proc = w.proc /\ y.stored = w.stored
  BY <1>3, <1>5, WithRegIs
<1> HIDE DEF y
<1>8. ObjectsKept(x, y)
  BY <1>1, <1>5, <1>7, ObjectsKeptTransitive
<1>9. ThreadsKept(x, y)
  BY <1>1, <1>7 DEF ThreadsKept
<1>10. ProcessKept(x, y, c, NoThread)
  <2>1. y.cpu = x.cpu
    BY <1>8 DEF ObjectsKept
  <2> QED BY <1>1, <1>7, <2>1 DEF ProcessKept, ProcessOf
<1>11. QueueOK(y.th, c, y.rq[c])
  <2>1. O \cap ThreadsOf(c) = {}
    BY CoreThreads
  <2> QED BY <1>1, <1>7, <2>1, QueueButNobody
<1>12. Switched(x, y, c, NoThread)
  BY <1>1, <1>4, <1>7, <1>8, <1>9, <1>10, <1>11 DEF Switched
<1> QED BY <1>6, <1>12

\* ThreadManager::Reschedule
LEMMA RescheduledIs ==
    ASSUME NEW x, Good(x, NoThread), NEW c \in Cores
    PROVE  \E n : /\ Switched(x, Reschedule(x, c), c, n)
                  /\ BestNext(x.th, c, StillRunning(x, c), n)
<1> DEFINE t == StillRunning(x, c)
           s == PopNextReadyThread(x, c)
           n == s.next
           z == Refill(x, c, s)
           w == SaveThread(z, c)
           y == SwitchTo(x, c, s)
<1>1. SearchOK(x.th, c, t, s) /\ BestNext(x.th, c, t, n)
  BY SearchIs
<1>2. Runs(x.th, c, t) /\ (t = x.cur[c] \/ t = NoThread)
  BY StillRunningIs
<1>3. y = Reschedule(x, c)
  BY DEF Reschedule
<1> HIDE DEF s, t
<1>4. OnlyQueue(x, z, c) /\ QueueBut(x.th, c, z.rq[c], {n})
  <2>1. /\ Good(x, NoThread) /\ c \in Cores /\ SearchOK(x.th, c, t, s)
    BY <1>1
  <2>2. OnlyQueue(x, Refill(x, c, s), c) /\ QueueBut(x.th, c, Refill(x, c, s).rq[c], {s.next})
    BY ONLY <2>1, RefillIs, Zenon
  <2> QED BY <2>2
<1>5. n = NoThread \/ (n \in ThreadsOf(c) /\ x.th[n].status \in {"Ready", "Running"})
  BY <1>1, <1>2 DEF SearchOK, Runs
<1> HIDE DEF z
<1>6. z.cur = x.cur
  BY <1>4 DEF OnlyQueue
<1>7. SavedBut(x, w, c, n)
  <2> HIDE DEF n
  <2>1. /\ Good(x, NoThread) /\ c \in Cores /\ PutAllBut(x, z, c, n)
    BY <1>4 DEF PutAllBut
  <2> QED BY ONLY <2>1, SaveIs, Zenon
<1>8. PICK O \in SUBSET {n} : Saved(x, w, c, O)
  BY <1>7 DEF SavedBut
<1>9. Switched(x, y, c, n)
  <2>1. CASE n = NoThread /\ x.cur[c] = NoThread
    <3>1. y = z
      BY <2>1 DEF SwitchTo, z
    <3>2. w = z
      BY <1>6, <2>1 DEF SaveThread
    <3>3. x \in KernelState
      BY DEF Good, Sound
    <3>4. /\ z \in KernelState /\ ObjectsKept(x, z) /\ ThreadsKept(x, z)
          /\ z.wake = x.wake /\ z.proc = x.proc /\ z.stored = x.stored
          /\ \A u \in Threads : z.th[u].status = SwitchedStatus(x, c, NoThread, u)
          /\ \A d \in Cores \ {c} : z.rq[d] = x.rq[d]
          /\ QueueBut(z.th, c, z.rq[c], O)
      BY <1>8, <3>2 DEF Saved
    <3>5. QueueOK(z.th, c, z.rq[c])
      <4>1. O \cap ThreadsOf(c) = {}
        BY <2>1, CoreThreads
      <4> QED BY <3>4, <4>1, QueueButNobody
    <3>6. ProcessKept(x, z, c, NoThread)
      <4>1. z.cpu = x.cpu
        BY <3>4 DEF ObjectsKept
      <4> QED BY <3>4, <4>1 DEF ProcessKept, ProcessOf
    <3>7. Switched(x, z, c, NoThread)
      BY <1>6, <2>1, <3>4, <3>5, <3>6 DEF Switched
    <3> QED BY <2>1, <3>1, <3>7
  <2>2. CASE n = NoThread /\ x.cur[c] # NoThread
    <3>1. y = [w EXCEPT !.cur[c] = NoThread, !.reg[c] = NoResult]
      BY <2>2 DEF SwitchTo, SwitchContext, z
    <3>2. O \in SUBSET {NoThread}
      BY <2>2
    <3> HIDE DEF y, w, n
    <3>3. Switched(x, [w EXCEPT !.cur[c] = NoThread, !.reg[c] = NoResult], c, NoThread)
      <4>1. /\ Good(x, NoThread) /\ c \in Cores /\ O \in SUBSET {NoThread} /\ Saved(x, w, c, O)
        BY <1>8, <3>2
      <4> QED BY ONLY <4>1, IdleIs, Zenon
    <3> QED BY <2>2, <3>1, <3>3
  <2>3. CASE n # NoThread
    <3> DEFINE prev == IF x.cur[c] = NoThread THEN NoProcess ELSE ProcOf[x.cur[c]]
    <3>1. y = LoadThread(w, c, n, prev)
      BY <1>6, <2>3 DEF SwitchTo, SwitchContext, z
    <3>2. n \in ThreadsOf(c) /\ x.th[n].status \in {"Ready", "Running"}
      BY <1>5, <2>3
    <3> HIDE DEF y, w, n
    <3>3. Switched(x, LoadThread(w, c, n, prev), c, n)
      BY <1>8, <3>2, LoadIs
    <3> QED BY <3>1, <3>3
  <2> QED BY <2>1, <2>2, <2>3
<1> HIDE DEF y, n
<1> QED BY <1>1, <1>3, <1>9 DEF t

LEMMA RescheduledGood ==
    ASSUME NEW x, Good(x, NoThread), NEW c \in Cores
    PROVE  /\ Good(Reschedule(x, c), NoThread) /\ CoreSwitched(x, Reschedule(x, c), c)
           /\ BestOn(x, Reschedule(x, c), c)
<1> DEFINE y == Reschedule(x, c)
<1>1. PICK n : Switched(x, y, c, n) /\ BestNext(x.th, c, StillRunning(x, c), n)
  BY RescheduledIs
<1> HIDE DEF y
<1>2. Good(y, NoThread) /\ CoreSwitched(x, y, c)
  BY <1>1, SwitchedGood
<1>3. BestOn(x, y, c)
  BY <1>1, SwitchedBest
<1> QED BY <1>2, <1>3 DEF y

\* Nothing but the current CPU and the processes, and flags, differs.
SameThreadsAndObjects(x, y) ==
    /\ y \in KernelState
    /\ y.th = x.th /\ y.wl = x.wl /\ y.mx = x.mx /\ y.ses = x.ses /\ y.rq = x.rq
    /\ y.arb = x.arb /\ y.wake = x.wake /\ y.cur = x.cur /\ y.port = x.port /\ y.tev = x.tev

LEMMA SameGood ==
    ASSUME NEW x, Good(x, NoThread), NEW y, SameThreadsAndObjects(x, y), CoresOK(y)
    PROVE  Good(y, NoThread)
<1>1. /\ x \in KernelState /\ Sound(x, NoThread) /\ QueuesOK(x) /\ ArbOK(x) /\ WakeOK(x)
      /\ PortsOK(x) /\ TimersOK(x)
  BY DEF Good, Sound, Rest
<1>2. /\ y \in KernelState
      /\ y.th = x.th /\ y.wl = x.wl /\ y.mx = x.mx /\ y.ses = x.ses /\ y.rq = x.rq
      /\ y.arb = x.arb /\ y.wake = x.wake /\ y.cur = x.cur /\ y.port = x.port /\ y.tev = x.tev
  BY DEF SameThreadsAndObjects
<1>3. Sound(y, NoThread)
  BY <1>1, <1>2, SoundSame
<1>4. QueuesOK(y)
  BY <1>1, <1>2 DEF QueuesOK
<1>5. ArbOK(y) /\ WakeOK(y) /\ TimersOK(y)
  BY <1>1, <1>2 DEF ArbOK, WakeOK, TimersOK
<1>6. PortsOK(y)
  BY <1>1, <1>2, PortsSame
<1> QED BY <1>3, <1>4, <1>5, <1>6 DEF Good, Rest

\* Core c becomes the current CPU.
LEMMA SetRunningGood ==
    ASSUME NEW x, Good(x, NoThread), NEW c \in Cores
    PROVE  LET y == SetRunningCPU(x, c)
           IN /\ Good(y, NoThread) /\ SameThreadsAndObjects(x, y)
              /\ y.cpu = c /\ y.halt = x.halt
<1> DEFINE V == [x.stored EXCEPT ![x.cpu] = x.proc]
           a == IF x.proc = NoProcess THEN x ELSE WithStored(x, V)
           p == IF a.stored[c] = NoProcess THEN a.proc ELSE a.stored[c]
           b == [a EXCEPT !.cpu = c]
           y == WithProc(b, p)
<1>1. x \in KernelState /\ CoresOK(x) /\ x.cpu \in Cores /\ x.proc \in Processes
      /\ x.stored \in [Cores -> Processes] /\ x.cur \in [Cores -> MaybeThread]
  <2>1. x \in KernelState /\ CoresOK(x)
    BY DEF Good, Sound, Rest
  <2> QED BY <2>1, KernelFields
<1>2. SetRunningCPU(x, c) = [a EXCEPT !.cpu = c,
                                      !.proc = IF a.stored[c] = NoProcess THEN @ ELSE a.stored[c]]
  BY DEF SetRunningCPU, WithStored
<1>3. V \in [Cores -> Processes] /\ V[x.cpu] = x.proc /\ \A d \in Cores \ {x.cpu} : V[d] = x.stored[d]
  BY <1>1
<1> HIDE DEF V
<1>4. /\ a \in KernelState /\ ObjectsKept(x, a) /\ a.th = x.th /\ a.rq = x.rq /\ a.wake = x.wake
      /\ a.cur = x.cur /\ a.proc = x.proc
      /\ a.stored = IF x.proc = NoProcess THEN x.stored ELSE V
  <2>1. CASE x.proc = NoProcess
    BY <1>1, <2>1 DEF ObjectsKept
  <2>2. CASE x.proc # NoProcess
    BY <1>1, <1>3, <2>2, WithStoredIs
  <2> QED BY <2>1, <2>2
<1>5. a.stored \in [Cores -> Processes]
  BY <1>1, <1>3, <1>4
<1> HIDE DEF a
<1>6. p \in Processes
  BY <1>1, <1>4, <1>5
<1>7. SetRunningCPU(x, c) = y
  <2>1. b.proc = a.proc
    BY <1>4 DEF KernelState
  <2>2. {"cpu", "proc"} \subseteq DOMAIN a
    BY <1>4 DEF KernelState
  <2>3. [a EXCEPT !.cpu = c, !.proc = IF a.stored[c] = NoProcess THEN @ ELSE a.stored[c]]
          = [a EXCEPT !.cpu = c, !.proc = p]
    BY <2>2
  <2> HIDE DEF p
  <2> QED BY <1>2, <2>3 DEF WithProc
<1>8. /\ b \in KernelState /\ b.cpu = c
      /\ b.th = a.th /\ b.wl = a.wl /\ b.mx = a.mx /\ b.ses = a.ses /\ b.rq = a.rq
      /\ b.arb = a.arb /\ b.wake = a.wake /\ b.cur = a.cur /\ b.port = a.port /\ b.tev = a.tev
      /\ b.halt = a.halt /\ b.proc = a.proc /\ b.stored = a.stored
  <2>1. b \in KernelState
    BY <1>4, Put_cpu
  <2>2. a \in KernelState
    BY <1>4
  <2>3. b.cpu = c
    BY ONLY <2>2 DEF KernelState
  <2>4. /\ b.th = a.th /\ b.wl = a.wl /\ b.mx = a.mx /\ b.ses = a.ses /\ b.rq = a.rq
        /\ b.arb = a.arb /\ b.wake = a.wake /\ b.cur = a.cur /\ b.port = a.port /\ b.tev = a.tev
        /\ b.halt = a.halt /\ b.proc = a.proc /\ b.stored = a.stored
    BY ONLY <2>2 DEF KernelState
  <2> QED BY ONLY <2>1, <2>3, <2>4
<1> HIDE DEF b, p
<1>9. /\ y \in KernelState /\ ObjectsKept(b, y) /\ y.proc = p /\ y.th = b.th
      /\ y.rq = b.rq /\ y.wake = b.wake /\ y.cur = b.cur /\ y.stored = b.stored
  BY <1>6, <1>8, WithProcIs
<1> HIDE DEF y
<1>10. /\ a.wl = x.wl /\ a.mx = x.mx /\ a.ses = x.ses /\ a.arb = x.arb /\ a.port = x.port
       /\ a.tev = x.tev /\ a.halt = x.halt
  BY <1>4 DEF ObjectsKept
<1>11. /\ y.wl = b.wl /\ y.mx = b.mx /\ y.ses = b.ses /\ y.arb = b.arb /\ y.port = b.port
       /\ y.tev = b.tev /\ y.halt = b.halt /\ y.cpu = b.cpu
  BY <1>9 DEF ObjectsKept
<1>12. SameThreadsAndObjects(x, y) /\ y.cpu = c /\ y.halt = x.halt
  BY <1>4, <1>8, <1>9, <1>10, <1>11 DEF SameThreadsAndObjects
<1>13. y.th = x.th /\ y.cur = x.cur /\ y.stored = a.stored /\ y.proc = p
  BY <1>4, <1>8, <1>9
<1>14. ASSUME NEW d \in Cores, x.cur[d] # NoThread
       PROVE  ProcessOf(y, d) = ProcOf[x.cur[d]]
  <2>1. x.cur[d] \in Threads
    BY <1>1, <1>14 DEF MaybeThread
  <2>2. ProcOf[x.cur[d]] # NoProcess
    BY <2>1, KernelAssumption
  <2>3. ProcessOf(x, d) = ProcOf[x.cur[d]]
    BY <1>1, <1>14 DEF CoresOK
  <2>4. a.stored[d] = IF d = x.cpu /\ x.proc # NoProcess THEN x.proc ELSE x.stored[d]
    BY <1>3, <1>4
  <2>5. CASE d = x.cpu
    BY <1>4, <1>12, <1>13, <2>2, <2>3, <2>4, <2>5 DEF ProcessOf, p
  <2>6. CASE d # x.cpu
    BY <1>4, <1>12, <1>13, <2>2, <2>3, <2>4, <2>6 DEF ProcessOf, p
  <2> QED BY <2>5, <2>6
<1>15. CoresOK(y)
  BY <1>1, <1>13, <1>14 DEF CoresOK
<1>16. Good(y, NoThread)
  BY <1>12, <1>15, SameGood
<1> QED BY <1>7, <1>12, <1>16

LEMMA SameFresh ==
    ASSUME NEW x, NEW y, SameThreadsAndObjects(x, y)
    PROVE  \A c : Fresh(x, c) <=> Fresh(y, c)
<1> QED BY DEF SameThreadsAndObjects, Fresh

LEMMA EnterGood ==
    ASSUME NEW x, Good(x, NoThread), NEW c \in Cores, NEW phase \in Phases
    PROVE  LET y == Enter(x, phase, c)
           IN /\ Good(y, NoThread) /\ y.halt = x.halt /\ y.th = x.th /\ y.cur = x.cur
              /\ \A d : Fresh(x, d) <=> Fresh(y, d)
              /\ phase \in {"lag", "advance", "run"} => y.cpu = c
              /\ y.cpu = c \/ y.cpu = x.cpu
<1> DEFINE y == Enter(x, phase, c)
           r == [x EXCEPT !.running = c]
<1>1. x \in KernelState /\ CoresOK(x)
  BY DEF Good, Sound, Rest
<1>2. CASE phase \in {"lag", "advance"}
  <2>1. y = SetRunningCPU(x, c)
    BY <1>2 DEF Enter
  <2> HIDE DEF y
  <2>2. Good(y, NoThread) /\ SameThreadsAndObjects(x, y) /\ y.cpu = c /\ y.halt = x.halt
    BY <2>1, SetRunningGood
  <2>3. y.th = x.th /\ y.cur = x.cur
    BY <2>2 DEF SameThreadsAndObjects
  <2> QED BY <2>2, <2>3, SameFresh DEF y
<1>3. CASE phase = "run" \/ (phase = "solo" /\ x.running # c)
  <2>1. y = SetRunningCPU(r, c)
    BY <1>3 DEF Enter
  <2>2. r \in KernelState
    BY <1>1, Put_running
  <2>3. /\ r.th = x.th /\ r.wl = x.wl /\ r.mx = x.mx /\ r.ses = x.ses /\ r.rq = x.rq
        /\ r.arb = x.arb /\ r.wake = x.wake /\ r.cur = x.cur /\ r.port = x.port
        /\ r.tev = x.tev /\ r.halt = x.halt /\ r.cpu = x.cpu /\ r.proc = x.proc /\ r.stored = x.stored
    BY <1>1 DEF KernelState
  <2> HIDE DEF r, y
  <2>4. SameThreadsAndObjects(x, r)
    BY <2>2, <2>3 DEF SameThreadsAndObjects
  <2>5. CoresOK(r)
    BY <1>1, <2>3 DEF CoresOK, ProcessOf
  <2>6. Good(r, NoThread)
    BY <2>4, <2>5, SameGood
  <2>7. Good(y, NoThread) /\ SameThreadsAndObjects(r, y) /\ y.cpu = c /\ y.halt = r.halt
    BY <2>1, <2>6, SetRunningGood
  <2>8. \A d : Fresh(x, d) <=> Fresh(y, d)
    BY <2>4, <2>7, SameFresh
  <2>9. y.th = r.th /\ y.cur = r.cur
    BY <2>7 DEF SameThreadsAndObjects
  <2> QED BY <2>3, <2>7, <2>8, <2>9 DEF y
<1>4. CASE phase \in {"top", "end"} \/ (phase = "solo" /\ x.running = c)
  <2>1. y = x
    BY <1>4 DEF Enter
  <2> QED BY <1>4, <2>1
<1> QED BY <1>2, <1>3, <1>4 DEF Phases

-----------------------------------------------------------------------------
(* RunLoop.                                                                *)

\* What must hold of x before RunLoop enters a phase.
MayEnter(x, phase, c, lag) ==
    /\ phase = "lag" => /\ lag \subseteq Cores /\ lag # Cores /\ c \in lag
                        /\ \A d \in lag : d < c => Fresh(x, d)
    /\ phase = "advance" => \A d \in Cores : d < c => Fresh(x, d)
    /\ phase = "run" => \A d \in Cores : d >= c => Fresh(x, d)
    /\ phase = "solo" => Fresh(x, c) /\ Fresh(x, x.cpu) /\ (NumCores <= 2 => x.cpu = c)

LEMMA GoToInv ==
    ASSUME NEW x, Good(x, NoThread), ~x.halt, NEW c \in Cores, NEW phase \in Phases, NEW lag,
           MayEnter(x, phase, c, lag)
    PROVE  Inv(Enter(x, phase, c), [phase |-> phase, core |-> c, lag |-> lag])
<1> DEFINE y == Enter(x, phase, c)
           l == [phase |-> phase, core |-> c, lag |-> lag]
<1>1. /\ Good(y, NoThread) /\ y.halt = x.halt
      /\ \A d : Fresh(x, d) <=> Fresh(y, d)
      /\ phase \in {"lag", "advance", "run"} => y.cpu = c
      /\ y.cpu = c \/ y.cpu = x.cpu
  BY EnterGood
<1> HIDE DEF y
<1>2. l.core = c /\ l.phase = phase /\ l.lag = lag
  OBVIOUS
<1> HIDE DEF l
<1>3. l.core \in Cores /\ l.phase \in {"top", "lag", "advance", "run", "solo", "end"}
  BY <1>2 DEF Phases
<1>4. l.phase = "lag" => /\ l.lag \subseteq Cores /\ l.lag # Cores /\ l.core \in l.lag
                         /\ y.cpu = l.core
                         /\ \A d \in l.lag : d < l.core => Fresh(y, d)
  BY <1>1, <1>2 DEF MayEnter
<1>5. l.phase = "advance" => y.cpu = l.core /\ \A d \in Cores : d < l.core => Fresh(y, d)
  BY <1>1, <1>2 DEF MayEnter
<1>6. l.phase = "run" => y.cpu = l.core /\ \A d \in Cores : d >= l.core => Fresh(y, d)
  BY <1>1, <1>2 DEF MayEnter
<1>7. l.phase = "solo" => /\ Fresh(y, y.cpu) /\ Fresh(y, l.core)
                          /\ NumCores <= 2 => y.cpu = l.core
  <2>1. ASSUME l.phase = "solo"
        PROVE  Fresh(y, c) /\ Fresh(y, x.cpu) /\ (NumCores <= 2 => x.cpu = c)
    BY <1>1, <1>2, <2>1 DEF MayEnter
  <2>2. ASSUME l.phase = "solo" PROVE Fresh(y, y.cpu)
    BY <1>1, <2>1, <2>2
  <2>3. ASSUME l.phase = "solo", NumCores <= 2 PROVE y.cpu = c
    BY <1>1, <2>1, <2>3
  <2> QED BY <1>2, <2>1, <2>2, <2>3
<1>8. LoopOK(y, l)
  BY <1>3, <1>4, <1>5, <1>6, <1>7 DEF LoopOK
<1>9. Inv(y, l)
  BY <1>1, <1>8 DEF Inv
<1> QED BY <1>9 DEF y, l

\* GoTo as a step.
LEMMA GoToKeeps ==
    ASSUME NEW x, Good(x, NoThread), ~x.halt, NEW c \in Cores, NEW phase \in Phases, NEW lag,
           MayEnter(x, phase, c, lag), GoTo(x, phase, c, lag)
    PROVE  KInv'
<1>1. Inv(Enter(x, phase, c), [phase |-> phase, core |-> c, lag |-> lag])
  BY GoToInv
<1>2. k' = Enter(x, phase, c) /\ loop' = [phase |-> phase, core |-> c, lag |-> lag]
  BY DEF GoTo
<1>3. Inv(k', loop')
  BY <1>1, <1>2
<1> QED BY <1>3 DEF KInv

\* The cores are numbers.
LEMMA CoresNat == Cores \subseteq Int /\ 0 \in Cores /\ \A c \in Cores : c + 1 \notin Cores => \A d \in Cores : d <= c
<1> QED BY NumCoresAssumption DEF Cores

LEMMA LeastCore ==
    ASSUME NEW S \in SUBSET Cores, S # {}
    PROVE  Min(S) \in S /\ \A c \in S : Min(S) <= c
<1>1. S \subseteq Nat
  BY NumCoresAssumption DEF Cores
<1>2. \E m \in S : \A c \in S : m <= c
  BY <1>1, LeastNat, S \in SUBSET Nat
<1> QED BY <1>2 DEF Min

LEMMA LoopTopKeeps ==
    ASSUME KInv, NEW lag \in SUBSET Cores, lag # Cores, LoopTop(lag)
    PROVE  KInv'
<1>1. Good(k, NoThread) /\ ~k.halt
  BY DEF KInv, Inv
<1>2. CASE lag = {}
  <2>1. GoTo(k, "advance", 0, {})
    BY <1>2 DEF LoopTop
  <2>2. MayEnter(k, "advance", 0, {})
    BY NumCoresAssumption DEF MayEnter, Cores
  <2>3. "advance" \in Phases /\ 0 \in Cores
    BY CoresNat DEF Phases
  <2> QED BY <1>1, <2>1, <2>2, <2>3, GoToKeeps
<1>3. CASE lag # {}
  <2> DEFINE c == Min(lag)
  <2>1. GoTo(k, "lag", c, lag)
    BY <1>3 DEF LoopTop
  <2>2. c \in lag /\ \A d \in lag : c <= d
    BY <1>3, LeastCore
  <2>3. "lag" \in Phases /\ c \in Cores
    BY <2>2 DEF Phases
  <2> HIDE DEF c
  <2>4. MayEnter(k, "lag", c, lag)
    <3>1. \A d \in lag : ~(d < c)
      BY <2>2, <2>3, CoresNat
    <3> QED BY <2>2, <3>1 DEF MayEnter
  <2> QED BY <1>1, <2>1, <2>3, <2>4, GoToKeeps
<1> QED BY <1>2, <1>3

\* A core that is rescheduled is fresh, and the others stay as they were.
LEMMA Refreshed ==
    ASSUME NEW x, Good(x, NoThread), ~x.halt, NEW c \in Cores, x.cpu = c
    PROVE  LET y == Reschedule(x, c)
           IN /\ Good(y, NoThread) /\ ~y.halt /\ y.cpu = c
              /\ Fresh(y, c) /\ \A d \in Cores : Fresh(x, d) => Fresh(y, d)
<1>1. Good(Reschedule(x, c), NoThread) /\ CoreSwitched(x, Reschedule(x, c), c)
  BY RescheduledGood
<1> DEFINE y == Reschedule(x, c)
<1> HIDE DEF y
<1>2. Good(y, NoThread) /\ CoreSwitched(x, y, c)
  BY <1>1 DEF y
<1>3. /\ Good(y, NoThread) /\ ~y.halt /\ y.cpu = c
      /\ Fresh(y, c) /\ \A d \in Cores : Fresh(x, d) => Fresh(y, d)
  <2>1. /\ y.cpu = x.cpu /\ y.halt = x.halt /\ Fresh(y, c)
        /\ \A d \in Cores \ {c} : Fresh(x, d) => Fresh(y, d)
    BY <1>2 DEF CoreSwitched
  <2> QED BY <1>2, <2>1
<1> QED BY <1>3 DEF y

LEMMA LagDoneKeeps ==
    ASSUME KInv, LagDone
    PROVE  KInv'
<1> DEFINE c == loop.core
           y == Reschedule(k, c)
           later == {d \in loop.lag : d > c}
<1>1. /\ Good(k, NoThread) /\ ~k.halt /\ loop.phase = "lag" /\ c \in Cores
      /\ loop.lag \subseteq Cores /\ loop.lag # Cores /\ c \in loop.lag /\ k.cpu = c
      /\ \A d \in loop.lag : d < c => Fresh(k, d)
  BY DEF KInv, Inv, LoopOK, LagDone
<1>2. \E to \in IF later # {} THEN {<<"lag", Min(later), loop.lag>>}
                ELSE {<<"advance", 0, {}>>} \cup {<<"solo", d, {}>> : d \in loop.lag} :
          GoTo(y, to[1], to[2], to[3])
  BY DEF LagDone
<1>3. /\ Good(y, NoThread) /\ ~y.halt /\ y.cpu = c
      /\ Fresh(y, c) /\ \A d \in Cores : Fresh(k, d) => Fresh(y, d)
  BY <1>1, Refreshed
<1> HIDE DEF y, c
<1>4. \A d \in loop.lag : d <= c => Fresh(y, d)
  <2> TAKE d \in loop.lag
  <2>1. d \in Cores
    BY ONLY <1>1
  <2>2. d \in Int /\ c \in Int
    BY ONLY <1>1, <2>1, CoresNat
  <2> QED BY <1>1, <1>3, <2>1, <2>2
<1>5. CASE later # {}
  <2> DEFINE m == Min(later)
  <2>1. GoTo(y, "lag", m, loop.lag)
    BY <1>2, <1>5
  <2>2. later \in SUBSET Cores
    BY <1>1
  <2>3. m \in later /\ \A d \in later : m <= d
    <3> HIDE DEF later
    <3> QED BY <1>5, <2>2, LeastCore
  <2>4. m \in loop.lag /\ m \in Cores /\ "lag" \in Phases
    BY <1>1, <2>3 DEF Phases
  <2> HIDE DEF m
  <2>5. MayEnter(y, "lag", m, loop.lag)
    <3>1. ASSUME NEW d \in loop.lag, d < m PROVE d <= c
      <4>1. d \in Int /\ c \in Int /\ m \in Int
        BY <1>1, <2>4, CoresNat
      <4> QED BY <2>3, <3>1, <4>1
    <3> QED BY <1>1, <1>4, <2>4, <3>1 DEF MayEnter
  <2> QED BY <1>3, <2>1, <2>4, <2>5, GoToKeeps
<1>6. CASE later = {}
  <2>1. GoTo(y, "advance", 0, {}) \/ \E d \in loop.lag : GoTo(y, "solo", d, {})
    <3>1. PICK to \in {<<"advance", 0, {}>>} \cup {<<"solo", d, {}>> : d \in loop.lag} :
             GoTo(y, to[1], to[2], to[3])
      BY <1>2, <1>6
    <3>2. CASE to = <<"advance", 0, {}>>
      BY <3>1, <3>2
    <3>3. ASSUME NEW d \in loop.lag, to = <<"solo", d, {}>> PROVE GoTo(y, "solo", d, {})
      BY <3>1, <3>3
    <3> QED BY <3>2, <3>3
  <2>2. CASE GoTo(y, "advance", 0, {})
    <3>1. MayEnter(y, "advance", 0, {})
      BY NumCoresAssumption DEF MayEnter, Cores
    <3>2. "advance" \in Phases /\ 0 \in Cores
      BY CoresNat DEF Phases
    <3> QED BY <1>3, <2>2, <3>1, <3>2, GoToKeeps
  <2>3. ASSUME NEW d \in loop.lag, GoTo(y, "solo", d, {}) PROVE KInv'
    <3>1. d \in Cores /\ d \in Int /\ c \in Int /\ d <= c /\ "solo" \in Phases
      <4>1. d \in loop.lag /\ d \in Cores
        BY <1>1
      <4>2. d \in Int /\ c \in Int
        BY ONLY <1>1, <4>1, CoresNat
      <4>3. ~(d > c)
        BY ONLY <1>6, <4>1
      <4>4. d <= c
        BY ONLY <4>2, <4>3
      <4> QED BY <4>1, <4>2, <4>4 DEF Phases
    <3>2. Fresh(y, d)
      BY <1>4, <3>1
    <3>3. NumCores <= 2 => c = d
      <4> SUFFICES ASSUME NumCores <= 2, c # d PROVE FALSE
        OBVIOUS
      <4>1. c = 1 /\ d = 0 /\ NumCores = 2
        BY <1>1, <3>1, NumCoresAssumption DEF Cores
      <4>2. Cores = {0, 1}
        BY <4>1 DEF Cores
      <4> QED BY <1>1, <4>1, <4>2
    <3>4. MayEnter(y, "solo", d, {})
      BY <1>3, <3>2, <3>3 DEF MayEnter
    <3> QED BY <1>3, <2>3, <3>1, <3>4, GoToKeeps
  <2> QED BY <2>1, <2>2, <2>3
<1> QED BY <1>5, <1>6

LEMMA AdvanceDoneKeeps ==
    ASSUME KInv, AdvanceDone
    PROVE  KInv'
<1> DEFINE c == loop.core
           y == Reschedule(k, c)
<1>1. /\ Good(k, NoThread) /\ ~k.halt /\ loop.phase = "advance" /\ c \in Cores
      /\ k.cpu = c /\ \A d \in Cores : d < c => Fresh(k, d)
  BY DEF KInv, Inv, LoopOK, AdvanceDone
<1>2. GoTo(y, IF c + 1 \in Cores THEN "advance" ELSE "run", IF c + 1 \in Cores THEN c + 1 ELSE 0, {})
  BY DEF AdvanceDone
<1>3. /\ Good(y, NoThread) /\ ~y.halt /\ y.cpu = c
      /\ Fresh(y, c) /\ \A d \in Cores : Fresh(k, d) => Fresh(y, d)
  BY <1>1, Refreshed
<1> HIDE DEF y, c
<1>4. \A d \in Cores : d <= c => Fresh(y, d)
  <2> TAKE d \in Cores
  <2>1. d \in Int /\ c \in Int
    BY <1>1, CoresNat
  <2> QED BY <1>1, <1>3, <2>1
<1>5. CASE c + 1 \in Cores
  <2> DEFINE n == c + 1
  <2>1. GoTo(y, "advance", n, {})
    BY <1>2, <1>5
  <2>2. \A d \in Cores : d < n => d <= c
    BY <1>1, CoresNat
  <2>3. n \in Cores /\ "advance" \in Phases
    BY <1>5 DEF Phases
  <2> HIDE DEF n
  <2>4. MayEnter(y, "advance", n, {})
    BY <1>4, <2>2 DEF MayEnter
  <2> QED BY <1>3, <2>1, <2>3, <2>4, GoToKeeps
<1>6. CASE c + 1 \notin Cores
  <2>1. GoTo(y, "run", 0, {})
    BY <1>2, <1>6
  <2>2. MayEnter(y, "run", 0, {})
    BY <1>1, <1>4, <1>6, CoresNat DEF MayEnter
  <2>3. 0 \in Cores /\ "run" \in Phases
    BY CoresNat DEF Phases
  <2> QED BY <1>3, <2>1, <2>2, <2>3, GoToKeeps
<1> QED BY <1>5, <1>6

\* A thread that goes on in y keeps its core fresh.
LEMMA FreshGoesOn ==
    ASSUME NEW x, Good(x, NoThread), NEW y, NEW t, GoesOn(x, y, t), NEW c \in Cores, Fresh(x, c),
           x.cur[c] # t \/ (t # NoThread => y.th[t].status = "Running")
    PROVE  Fresh(y, c)
<1>1. x \in KernelState /\ y.cur = x.cur
  BY DEF Good, Sound, GoesOn
<1>2. ASSUME y.cur[c] # NoThread PROVE y.th[y.cur[c]].status = "Running"
  <2>1. x.cur[c] \in Threads /\ x.th[x.cur[c]].status = "Running"
    BY <1>1, <1>2, CurType DEF Fresh
  <2>2. CASE x.cur[c] = t
    BY <1>1, <1>2, <2>2
  <2>3. CASE x.cur[c] # t
    BY <1>1, <2>1, <2>3 DEF GoesOn
  <2> QED BY <2>2, <2>3
<1> QED BY <1>2 DEF Fresh

\* Flags.
SetResched(x) == [x EXCEPT !.resched = TRUE]
ClearResched(x) == [x EXCEPT !.resched = FALSE]
ClearHalt(x) == [x EXCEPT !.halt = FALSE]

LEMMA FlagsGood ==
    ASSUME NEW x, Good(x, NoThread)
    PROVE  /\ Good(SetResched(x), NoThread) /\ RunKept(x, SetResched(x), NoThread)
           /\ SetResched(x).halt = x.halt
           /\ Good(ClearResched(x), NoThread) /\ ClearResched(x).halt = x.halt
           /\ Good(ClearHalt(x), NoThread) /\ ~ClearHalt(x).halt
           /\ ClearHalt(x).th = x.th /\ ClearHalt(x).cur = x.cur
           /\ ClearHalt(x).cpu = x.cpu /\ ClearHalt(x).running = x.running
<1> DEFINE a == SetResched(x)
           b == ClearResched(x)
           e == ClearHalt(x)
<1>1. x \in KernelState /\ TimersOK(x)
  BY DEF Good, Sound, Rest
<1>2. a \in KernelState /\ b \in KernelState /\ e \in KernelState
  <2>1. a \in KernelState
    BY ONLY <1>1, Zenon DEF KernelState, SetResched
  <2>2. b \in KernelState
    BY ONLY <1>1, Zenon DEF KernelState, ClearResched
  <2>3. e \in KernelState
    BY ONLY <1>1, Zenon DEF KernelState, ClearHalt
  <2> QED BY <2>1, <2>2, <2>3
<1>3. /\ a.th = x.th /\ a.wl = x.wl /\ a.mx = x.mx /\ a.ses = x.ses /\ a.rq = x.rq
      /\ a.arb = x.arb /\ a.wake = x.wake /\ a.cur = x.cur /\ a.cpu = x.cpu
      /\ a.running = x.running /\ a.proc = x.proc /\ a.stored = x.stored /\ a.port = x.port
      /\ a.tev = x.tev /\ a.halt = x.halt
  BY <1>1 DEF KernelState, SetResched
<1>4. /\ b.th = x.th /\ b.wl = x.wl /\ b.mx = x.mx /\ b.ses = x.ses /\ b.rq = x.rq
      /\ b.arb = x.arb /\ b.wake = x.wake /\ b.cur = x.cur /\ b.cpu = x.cpu
      /\ b.running = x.running /\ b.proc = x.proc /\ b.stored = x.stored /\ b.port = x.port
      /\ b.tev = x.tev /\ b.halt = x.halt
  BY <1>1 DEF KernelState, ClearResched
<1>5. /\ e.th = x.th /\ e.wl = x.wl /\ e.mx = x.mx /\ e.ses = x.ses /\ e.rq = x.rq
      /\ e.arb = x.arb /\ e.wake = x.wake /\ e.cur = x.cur /\ e.cpu = x.cpu
      /\ e.running = x.running /\ e.proc = x.proc /\ e.stored = x.stored /\ e.port = x.port
      /\ e.tev = x.tev
  BY <1>1 DEF KernelState, ClearHalt
<1>6. ~e.halt
  BY <1>1 DEF KernelState, ClearHalt
<1> HIDE DEF a, b, e
<1>7. Plain(x, a) /\ Plain(x, b) /\ Plain(x, e)
  BY <1>2, <1>3, <1>4, <1>5 DEF Plain
<1>8. TimersOK(a) /\ TimersOK(b) /\ TimersOK(e)
  BY <1>1, <1>3, <1>4, <1>5 DEF TimersOK
<1>9. Good(a, NoThread) /\ RunKept(x, a, NoThread)
  BY <1>3, <1>7, <1>8, PlainKeeps
<1>10. Good(b, NoThread)
  BY <1>7, <1>8, PlainKeeps
<1>11. Good(e, NoThread)
  BY <1>7, <1>8, PlainKeeps
<1> QED BY <1>3, <1>4, <1>5, <1>6, <1>9, <1>10, <1>11 DEF a, b, e

\* The core that was running is done, unless it is the last one.
LEMMA LeaveCoreKeeps ==
    ASSUME KInv, loop.phase \in {"run", "solo"}, NEW t, t = k.cur[k.cpu],
           NEW y, Good(y, NoThread), GoesOn(k, y, t), ~y.halt, LeaveCore(y)
    PROVE  KInv'
<1> DEFINE c == loop.core
<1>1. /\ Good(k, NoThread) /\ c \in Cores
      /\ loop.phase = "run" => k.cpu = c /\ \A d \in Cores : d >= c => Fresh(k, d)
  BY DEF KInv, Inv, LoopOK
<1>2. CASE loop.phase = "run" /\ c + 1 \in Cores
  <2> DEFINE n == c + 1
  <2>1. GoTo(y, "run", n, {}) /\ n \in Cores /\ "run" \in Phases
    BY <1>2 DEF LeaveCore, Phases
  <2>2. ASSUME NEW d \in Cores, d >= n
        PROVE  Fresh(y, d)
    <3>1. d >= c /\ d # c
      <4> HIDE DEF c
      <4>1. d \in Int /\ c \in Int
        BY <1>1, CoresNat
      <4> QED BY <2>2, <4>1
    <3>2. Fresh(k, d) /\ k.cpu = c
      BY <1>1, <1>2, <3>1
    <3>3. k.cur[d] # t \/ t = NoThread
      <4>1. CoresOK(k)
        BY <1>1 DEF Good, Rest
      <4> QED BY <1>1, <3>1, <3>2, <4>1 DEF CoresOK
    <3> QED BY <1>1, <3>2, <3>3, FreshGoesOn
  <2> HIDE DEF n
  <2>3. MayEnter(y, "run", n, {})
    BY <2>2 DEF MayEnter
  <2> QED BY <2>1, <2>3, GoToKeeps
<1>3. CASE ~(loop.phase = "run" /\ c + 1 \in Cores)
  <2>1. GoTo(y, "end", 0, {})
    BY <1>3 DEF LeaveCore
  <2>2. MayEnter(y, "end", 0, {}) /\ "end" \in Phases /\ 0 \in Cores
    BY CoresNat DEF MayEnter, Phases
  <2> QED BY <2>1, <2>2, GoToKeeps
<1> QED BY <1>2, <1>3

LEMMA IdleKeeps ==
    ASSUME KInv, Idle \/ EndSlice
    PROVE  KInv'
<1>1. Good(k, NoThread) /\ ~k.halt /\ loop.phase \in {"run", "solo"}
  BY DEF KInv, Inv, Idle, EndSlice
<1> DEFINE t == k.cur[k.cpu]
           y == SetResched(k)
<1>2. CASE LeaveCore(y)
  <2>1. Good(y, NoThread) /\ RunKept(k, y, NoThread) /\ y.halt = k.halt
    BY <1>1, FlagsGood
  <2> HIDE DEF y
  <2>2. GoesOn(k, y, t)
    BY <2>1, RunKeptWeaken, GoesOnIs
  <2> HIDE DEF t
  <2>3. ~y.halt
    BY <1>1, <2>1
  <2>4. t = k.cur[k.cpu]
    BY DEF t
  <2> QED BY <1>1, <1>2, <2>1, <2>2, <2>3, <2>4, LeaveCoreKeeps
<1>3. CASE LeaveCore(k)
  <2>1. GoesOn(k, k, t)
    BY RunKeptItself, GoesOnIs
  <2> HIDE DEF t
  <2>2. t = k.cur[k.cpu]
    BY DEF t
  <2> QED BY <1>1, <1>3, <2>1, <2>2, LeaveCoreKeeps
<1> QED BY <1>2, <1>3 DEF Idle, EndSlice, SetResched

EndStep(p, i, x) == Reschedule(x, p[1][i])
EndHolds(p, i, x) ==
    /\ Good(x, NoThread) /\ ~x.halt
    /\ \A j \in 1 .. i : BestRuns(x, p[1][j])

Ending == INSTANCE Loop WITH Step <- EndStep, Holds <- EndHolds

LEMMA AllRescheduled ==
    ASSUME NEW x, Good(x, NoThread), ~x.halt
    PROVE  LET y == ForEach(Reschedule, x, [i \in 1 .. NumCores |-> i - 1])
           IN /\ Good(y, NoThread) /\ ~y.halt
              /\ \A c \in Cores : BestRuns(y, c)
<1> DEFINE order == [i \in 1 .. NumCores |-> i - 1]
           p == <<order>>
           n == Len(order)
           f == Ending!Run(p, x, n)
           y == f[n]
<1>1. /\ n \in Nat /\ \A i \in 1 .. n : order[i] \in Cores
      /\ \A c \in Cores : \E i \in 1 .. n : order[i] = c
  <2>1. order \in Seq(Cores) /\ n = NumCores
    BY NumCoresAssumption DEF Cores
  <2>2. \A c \in Cores : c + 1 \in 1 .. NumCores /\ order[c + 1] = c
    BY NumCoresAssumption DEF Cores
  <2> HIDE DEF order
  <2> QED BY <2>1, <2>2
<1> HIDE DEF order
<1>2. ForEach(Reschedule, x, order) = y
  BY DEF ForEach, Ending!Run, EndStep
<1>3. p[1] = order
  OBVIOUS
<1> HIDE DEF p, f, n
<1>4. EndHolds(p, 0, x)
  <2>1. \A j \in 1 .. 0 : FALSE
    OBVIOUS
  <2> QED BY <2>1 DEF EndHolds
<1>5. ASSUME NEW i \in 1 .. n, NEW z, EndHolds(p, i - 1, z)
      PROVE  EndHolds(p, i, EndStep(p, i, z))
  <2> DEFINE c == order[i]
             w == Reschedule(z, c)
  <2>1. Good(z, NoThread) /\ ~z.halt /\ c \in Cores
    BY <1>1, <1>5 DEF EndHolds
  <2> HIDE DEF c
  <2>2. Good(w, NoThread) /\ CoreSwitched(z, w, c) /\ BestOn(z, w, c)
    BY <2>1, RescheduledGood
  <2>3. EndStep(p, i, z) = w
    BY <1>3 DEF EndStep, c
  <2> HIDE DEF w
  <2>4. ~w.halt
    BY <2>1, <2>2 DEF CoreSwitched
  <2>5. ASSUME NEW j \in 1 .. i PROVE BestRuns(w, order[j])
    <3>1. CASE order[j] = c
      BY <2>2, <3>1 DEF BestOn
    <3>2. CASE order[j] # c
      <4>1. j \in 1 .. n /\ j \in 1 .. i - 1
        BY <1>1, <3>2 DEF c
      <4>2. BestRuns(z, order[j]) /\ order[j] \in Cores
        BY <1>1, <1>3, <1>5, <4>1 DEF EndHolds
      <4> QED BY <2>2, <3>2, <4>2 DEF BestOn
    <3> QED BY <3>1, <3>2
  <2> QED BY <1>3, <2>2, <2>3, <2>4, <2>5 DEF EndHolds
<1>6. \A i \in 0 .. n : EndHolds(p, i, f[i])
  <2>1. \A i \in 1 .. n : \A z : EndHolds(p, i - 1, z) => EndHolds(p, i, EndStep(p, i, z))
    BY <1>5
  <2> QED BY <1>1, <1>4, <2>1, Ending!LoopInvariant DEF f
<1>7. EndHolds(p, n, y)
  BY <1>1, <1>6
<1> HIDE DEF y
<1>8. \A c \in Cores : BestRuns(y, c)
  BY <1>1, <1>3, <1>7 DEF EndHolds
<1> QED BY <1>2, <1>7, <1>8 DEF EndHolds, order

LEMMA SystemRescheduleKeeps ==
    ASSUME KInv, SystemReschedule
    PROVE  KInv'
<1> DEFINE a == ClearResched(k)
           b == ForEach(Reschedule, a, [i \in 1 .. NumCores |-> i - 1])
           y == IF k.resched THEN b ELSE k
<1>1. Good(k, NoThread) /\ ~k.halt
  BY DEF KInv, Inv
<1>2. Good(a, NoThread) /\ a.halt = k.halt
  BY <1>1, FlagsGood
<1>3. GoTo(y, "top", 0, {})
  BY DEF SystemReschedule, ClearResched
<1> HIDE DEF a
<1>4. Good(b, NoThread) /\ ~b.halt
  BY <1>1, <1>2, AllRescheduled
<1> HIDE DEF b
<1>5. Good(y, NoThread) /\ ~y.halt
  BY <1>1, <1>4
<1> HIDE DEF y
<1>6. MayEnter(y, "top", 0, {}) /\ "top" \in Phases /\ 0 \in Cores
  BY CoresNat DEF MayEnter, Phases
<1> QED BY <1>3, <1>5, <1>6, GoToKeeps

-----------------------------------------------------------------------------
(* Supervisor calls.                                                       *)

\* The call of t, the current thread, returns from the state y.
LEMMA ReturnKeeps ==
    ASSUME KInv, loop.phase \in {"run", "solo"}, NEW t \in Threads, t = k.cur[k.cpu],
           NEW y, Good(y, NoThread), GoesOn(k, y, t), y.halt \/ y.th[t].status = "Running",
           Return(y)
    PROVE  KInv'
<1> DEFINE z == ClearHalt(y)
           w == Reap(z)
           v == Reap(y)
<1>1. Good(k, NoThread) /\ ~k.halt /\ LoopOK(k, loop)
  BY DEF KInv, Inv
<1>2. CASE y.halt
  <2>1. LeaveCore(w)
    BY <1>2 DEF Return, ClearHalt
  <2>2. Good(z, NoThread) /\ ~z.halt /\ z.th = y.th /\ z.cur = y.cur /\ z.cpu = y.cpu
        /\ z.running = y.running
    BY FlagsGood
  <2> HIDE DEF z
  <2>3. Good(w, NoThread) /\ RunKept(z, w, NoThread) /\ w.halt = z.halt
    BY <2>2, ReapGood
  <2> HIDE DEF w
  <2>4. GoesOn(k, z, t)
    BY <1>1, <2>2 DEF GoesOn
  <2>5. GoesOn(z, w, t)
    BY <2>3, RunKeptWeaken, GoesOnIs
  <2>6. GoesOn(k, w, t)
    BY <2>4, <2>5, GoesOnTransitive
  <2>7. ~w.halt
    BY <2>2, <2>3
  <2> QED BY <2>1, <2>3, <2>6, <2>7, LeaveCoreKeeps
<1>3. CASE ~y.halt
  <2>1. k' = v /\ loop' = loop
    BY <1>3 DEF Return
  <2>2. Good(v, NoThread) /\ RunKept(y, v, NoThread) /\ v.halt = y.halt
    BY ReapGood
  <2> HIDE DEF v
  <2>3. GoesOn(y, v, t)
    BY <2>2, RunKeptWeaken, GoesOnIs
  <2>4. GoesOn(k, v, t)
    BY <2>3, GoesOnTransitive
  <2>5. v.th[t].status = "Running"
    <3>1. t \in Threads \ {NoThread}
      BY NotNoThread
    <3> QED BY <1>3, <2>2, <3>1 DEF RunKept
  <2>6. v.cpu = k.cpu
    BY <2>4 DEF GoesOn
  <2>7. \A c \in Cores : Fresh(k, c) => Fresh(v, c)
    BY <1>1, <2>4, <2>5, FreshGoesOn
  <2>8. LoopOK(v, loop)
    <3>1. k.cpu \in Cores
      BY <1>1, KernelFields DEF Good, Sound
    <3> QED BY <1>1, <2>6, <2>7, <3>1 DEF LoopOK
  <2>9. Inv(v, loop)
    BY <1>3, <2>2, <2>8 DEF Inv
  <2> QED BY <2>1, <2>9 DEF KInv
<1> QED BY <1>2, <1>3

\* The thread t calls.
Calling(t) ==
    /\ KInv /\ t \in Threads /\ t = k.cur[k.cpu] /\ loop.phase \in {"run", "solo"}
    /\ k.th[t].status = "Running" /\ loop.core \in Cores /\ k.cpu \in Cores
    /\ Good(k, NoThread) /\ ~k.halt

LEMMA CallingIs ==
    ASSUME KInv, NEW t \in Threads, NEW name, Call(name, t)
    PROVE  Calling(t)
<1>1. Good(k, NoThread) /\ ~k.halt /\ LoopOK(k, loop)
  BY DEF KInv, Inv
<1>2. t = k.cur[k.cpu] /\ loop.phase \in {"run", "solo"}
  BY DEF Call
<1>3. k.cpu \in Cores /\ loop.core \in Cores
  BY <1>1, KernelFields DEF Good, Sound, LoopOK
<1>4. Fresh(k, k.cpu)
  <2> DEFINE c == k.cpu
  <2>1. c \in Cores
    BY <1>3
  <2> HIDE DEF c
  <2>2. c >= c
    BY <2>1, CoresNat
  <2> QED BY <1>1, <1>2, <1>3, <2>2 DEF LoopOK, c
<1>5. k.th[t].status = "Running"
  BY <1>2, <1>4, NotNoThread DEF Fresh
<1> QED BY <1>1, <1>2, <1>3, <1>5 DEF Calling

\* What t's call starts from.
LEMMA CalledIs ==
    ASSUME NEW t \in Threads, Calling(t)
    PROVE  /\ Good(Called(t), NoThread) /\ RunKept(k, Called(t), NoThread)
           /\ Called(t).th[t].status = "Running" /\ Called(t).cpu = k.cpu
           /\ SameButResults(k, Called(t))
<1> DEFINE c == loop.core
           y == CalledFrom(k, t, c)
<1>1. y = Called(t)
  BY DEF CalledFrom, Called
<1>2. Good(k, NoThread) /\ c \in Cores /\ k.th[t].status = "Running"
  BY DEF Calling
<1> HIDE DEF c
<1>3. Good(y, NoThread) /\ RunKept(k, y, NoThread) /\ SameButResults(k, y)
  BY <1>2, CalledGood
<1> HIDE DEF y
<1>4. y.th[t].status = "Running"
  <2>1. t \in Threads \ {NoThread}
    BY NotNoThread
  <2> QED BY <1>2, <1>3, <2>1 DEF RunKept
<1>5. y.cpu = k.cpu
  BY <1>3 DEF SameButResults
<1> QED BY <1>1, <1>3, <1>4, <1>5

\* The call changes the status of t: it stops.
LEMMA StopsKeeps ==
    ASSUME NEW t \in Threads, Calling(t), NEW y, Good(y, NoThread), RunKept(Called(t), y, t),
           y.halt \/ y.th[t].status = "Running", Return(y)
    PROVE  KInv'
<1> DEFINE x == Called(t)
<1>1. RunKept(k, x, NoThread)
  BY CalledIs
<1>2. RunKept(x, y, t)
  OBVIOUS
<1> HIDE DEF x
<1>3. RunKept(k, x, t)
  BY <1>1, RunKeptWeaken
<1>4. GoesOn(k, y, t)
  BY <1>2, <1>3, RunKeptTransitive, GoesOnIs
<1>5. KInv /\ loop.phase \in {"run", "solo"} /\ t = k.cur[k.cpu]
  BY DEF Calling
<1> QED BY <1>4, <1>5, ReturnKeeps

\* The call leaves t running.
LEMMA CallKeeps ==
    ASSUME NEW t \in Threads, Calling(t), NEW y, Good(y, NoThread), RunKept(Called(t), y, NoThread),
           Return(y)
    PROVE  KInv'
<1> DEFINE x == Called(t)
<1>1. RunKept(x, y, NoThread) /\ x.th[t].status = "Running"
  BY CalledIs
<1> HIDE DEF x
<1>2. y.th[t].status = "Running"
  <2>1. t \in Threads \ {NoThread}
    BY NotNoThread
  <2> QED BY <1>1, <2>1 DEF RunKept
<1>3. RunKept(x, y, t)
  BY <1>1, RunKeptWeaken
<1> QED BY <1>2, <1>3, StopsKeeps DEF x

\* The call makes the core stop.
LEMMA HaltsKeeps ==
    ASSUME NEW t \in Threads, Calling(t), NEW y, Good(y, NoThread), RunKept(Called(t), y, t),
           Return(PrepareReschedule(y))
    PROVE  KInv'
<1> DEFINE x == Called(t)
           z == PrepareReschedule(y)
<1>1. Good(z, NoThread) /\ RunKept(y, z, NoThread) /\ z.halt
  BY RescheduleGood
<1>2. RunKept(x, y, t) /\ Return(z)
  OBVIOUS
<1> HIDE DEF x, z
<1>3. RunKept(y, z, t)
  BY <1>1, RunKeptWeaken
<1>4. RunKept(x, z, t)
  BY <1>2, <1>3, RunKeptTransitive
<1> QED BY <1>1, <1>2, <1>4, StopsKeeps DEF x

LEMMA CalledAlive ==
    ASSUME NEW t \in Threads, Calling(t)
    PROVE  Alive(Called(t), t)
<1>1. Called(t).th[t].status = "Running"
  BY CalledIs
<1> QED BY <1>1 DEF Alive

LEMMA WaitOneKeeps ==
    ASSUME KInv, NEW t \in Threads, NEW o \in Targets, NEW timeout, WaitSynchronization1(t, o, timeout)
    PROVE  KInv'
<1> DEFINE x == Called(t)
           c == loop.core
           y == Suspended(AddWaitingThread(x, o, t), t, "WaitSynchAny", <<o>>, timeout, "sync", c)
           z == Acquire(x, o, t)
<1>1. Calling(t)
  BY CallingIs DEF WaitSynchronization1
<1>2. o \in WaitObject /\ c \in Cores
  BY <1>1, KernelAssumption DEF Calling
<1>3. Good(x, NoThread) /\ x.th[t].status = "Running" /\ Alive(x, t)
  BY <1>1, CalledIs, CalledAlive
<1>4. Return(z) \/ Return(x) \/ Return(PrepareReschedule(y))
  BY DEF WaitSynchronization1, Suspend, Suspended
<1> HIDE DEF x, c
<1>5. CASE Return(z)
  <2>1. Good(z, NoThread) /\ RunKept(x, z, NoThread)
    BY <1>2, <1>3, AcquireGood
  <2> HIDE DEF z
  <2> QED BY <1>1, <1>5, <2>1, CallKeeps DEF x
<1>6. CASE Return(x)
  <2>1. RunKept(x, x, NoThread)
    BY RunKeptItself
  <2> QED BY <1>1, <1>3, <1>6, <2>1, CallKeeps DEF x
<1>7. CASE Return(PrepareReschedule(y))
  <2> DEFINE w == PrepareReschedule(y)
  <2>1. Good(w, NoThread) /\ RunKept(x, w, t) /\ w.halt
    BY <1>2, <1>3, WaitOneGood
  <2>2. Return(w)
    BY <1>7
  <2> HIDE DEF w, y
  <2> QED BY <1>1, <2>1, <2>2, StopsKeeps DEF x
<1> QED BY <1>4, <1>5, <1>6, <1>7

Indices(s, S) == S \subseteq DOMAIN s

LEMMA LeastIndex ==
    ASSUME NEW s \in Seq(WaitObject), NEW S, Indices(s, S), S # {}
    PROVE  s[Min(S)] \in WaitObject
<1>1. S \subseteq 1 .. Len(s)
  BY DEF Indices
<1>2. \E m \in S : \A c \in S : m <= c
  BY <1>1, LeastNat, S \in SUBSET Nat
<1>3. Min(S) \in S /\ \A c \in S : Min(S) <= c
  BY <1>2 DEF Min
<1>4. Min(S) \in 1 .. Len(s)
  <2> DEFINE m == Min(S)
  <2>1. m \in S
    BY <1>3
  <2> HIDE DEF m
  <2>2. m \in 1 .. Len(s)
    BY <1>1, <2>1
  <2> QED BY <2>2 DEF m
<1> HIDE DEF Indices
<1> QED BY <1>4

LEMMA WaitManyKeeps ==
    ASSUME KInv, NEW t \in Threads, NEW objs \in WaitLists, NEW all, NEW timeout,
           WaitSynchronizationN(t, objs, all, timeout)
    PROVE  KInv'
<1> DEFINE x == Called(t)
           c == loop.core
           available == {i \in DOMAIN objs : ~ShouldWait(k, objs[i], t)}
           go == IF all THEN available = DOMAIN objs ELSE available # {}
           status == IF all THEN "WaitSynchAll" ELSE "WaitSynchAny"
           cb == IF all THEN "sync" ELSE "syncOutput"
           y == Suspended(AddToAll([x EXCEPT !.th[t].status = status], objs, t),
                          t, status, objs, timeout, cb, c)
           o == objs[Min(available)]
<1>1. Calling(t)
  BY CallingIs DEF WaitSynchronizationN
<1>2. objs \in Seq(WaitObject) /\ c \in Cores
  BY <1>1, KernelAssumption DEF Calling
<1>3. Good(x, NoThread) /\ x.th[t].status = "Running" /\ Alive(x, t)
  BY <1>1, CalledIs, CalledAlive
<1>4. \/ all /\ Return(AcquireAll(x, objs, t))
      \/ available # {} /\ Return(Acquire(x, o, t))
      \/ Return(x)
      \/ Return(PrepareReschedule(y))
  BY DEF WaitSynchronizationN, Suspend, Suspended
<1> HIDE DEF x, c
<1>5. CASE Return(AcquireAll(x, objs, t))
  <2> DEFINE z == AcquireAll(x, objs, t)
  <2>1. Good(z, NoThread) /\ RunKept(x, z, NoThread)
    BY <1>2, <1>3, AcquireAllGood
  <2>2. Return(z)
    BY <1>5
  <2> HIDE DEF z
  <2> QED BY <1>1, <2>1, <2>2, CallKeeps DEF x
<1>6. CASE available # {} /\ Return(Acquire(x, o, t))
  <2> DEFINE z == Acquire(x, o, t)
  <2>1. o \in WaitObject
    <3>1. Indices(objs, available)
      BY DEF Indices
    <3> HIDE DEF available
    <3> QED BY <1>2, <1>6, <3>1, LeastIndex
  <2>2. Return(z)
    BY <1>6
  <2> HIDE DEF o
  <2>3. Good(z, NoThread) /\ RunKept(x, z, NoThread)
    BY <1>3, <2>1, AcquireGood
  <2> HIDE DEF z
  <2> QED BY <1>1, <2>2, <2>3, CallKeeps DEF x
<1>7. CASE Return(x)
  <2>1. RunKept(x, x, NoThread)
    BY RunKeptItself
  <2> QED BY <1>1, <1>3, <1>7, <2>1, CallKeeps DEF x
<1>8. CASE Return(PrepareReschedule(y))
  <2> DEFINE w == PrepareReschedule(y)
  <2>1. SynchCall(status, cb)
    BY DEF SynchCall
  <2> HIDE DEF status, cb
  <2>2. Good(w, NoThread) /\ RunKept(x, w, t) /\ w.halt
    BY <1>2, <1>3, <2>1, WaitManyGood
  <2>3. Return(w)
    BY <1>8
  <2> HIDE DEF w, y
  <2> QED BY <1>1, <2>2, <2>3, StopsKeeps DEF x
<1> QED BY <1>4, <1>5, <1>6, <1>7, <1>8

LEMMA ReplyKeeps ==
    ASSUME KInv, NEW t \in Threads, NEW objs \in WaitLists \cup {<<>>},
           NEW reply \in Sessions \cup {NoSession}, ReplyAndReceive(t, objs, reply)
    PROVE  KInv'
<1> DEFINE x == Called(t)
           r == IF reply = NoSession THEN x ELSE Reply(x, reply)
           c == loop.core
           available == {i \in DOMAIN objs : ~ShouldWait(r, objs[i], t)}
           y == Suspended(AddToAll([r EXCEPT !.th[t].status = "WaitSynchAny"], objs, t),
                          t, "WaitSynchAny", objs, "forever", "ipc", c)
           o == objs[Min(available)]
<1>1. Calling(t)
  BY CallingIs DEF ReplyAndReceive
<1>2. objs \in Seq(WaitObject) /\ c \in Cores
  <2>1. objs \in WaitLists \/ objs = <<>>
    OBVIOUS
  <2>2. WaitLists \subseteq Seq(WaitObject) /\ <<>> \in Seq(WaitObject)
    BY KernelAssumption
  <2>3. objs \in Seq(WaitObject)
    <3> DEFINE Q == Seq(WaitObject)
    <3>1. WaitLists \subseteq Q /\ <<>> \in Q
      BY <2>2
    <3> HIDE DEF Q
    <3>2. objs \in Q
      BY ONLY <2>1, <3>1, Zenon
    <3> QED BY <3>2 DEF Q
  <2> QED BY <1>1, <2>3 DEF Calling
<1>3. Good(x, NoThread) /\ x.th[t].status = "Running"
  BY <1>1, CalledIs
<1>4. \/ Return(r)
      \/ available # {} /\ Return(Acquire(r, o, t))
      \/ Return(PrepareReschedule(y))
  BY Zenon DEF ReplyAndReceive, Suspend, Suspended
<1> HIDE DEF x, c
<1>5. Good(r, NoThread) /\ RunKept(x, r, NoThread)
  <2>1. CASE reply = NoSession
    BY <1>3, <2>1, RunKeptItself
  <2>2. CASE reply # NoSession
    BY <1>3, <2>2, ReplyGood
  <2> QED BY <2>1, <2>2
<1> HIDE DEF r
<1>6. r.th[t].status = "Running" /\ Alive(r, t)
  <2>1. t \in Threads \ {NoThread}
    BY NotNoThread
  <2>2. r.th[t].status = "Running"
    BY <1>3, <1>5, <2>1 DEF RunKept
  <2> QED BY <2>2 DEF Alive
<1>7. CASE Return(r)
  BY <1>1, <1>5, <1>7, CallKeeps DEF x
<1>8. CASE available # {} /\ Return(Acquire(r, o, t))
  <2> DEFINE z == Acquire(r, o, t)
  <2>1. o \in WaitObject
    <3>1. Indices(objs, available)
      BY DEF Indices
    <3> HIDE DEF available
    <3> QED BY <1>2, <1>8, <3>1, LeastIndex
  <2>2. Return(z)
    BY <1>8
  <2> HIDE DEF o
  <2>3. Good(z, NoThread) /\ RunKept(r, z, NoThread)
    BY <1>5, <1>6, <2>1, AcquireGood
  <2> HIDE DEF z
  <2>4. RunKept(x, z, NoThread)
    BY <1>5, <2>3, RunKeptTransitive
  <2> QED BY <1>1, <2>2, <2>3, <2>4, CallKeeps DEF x
<1>9. CASE Return(PrepareReschedule(y))
  <2> DEFINE w == PrepareReschedule(y)
  <2>1. SynchCall("WaitSynchAny", "ipc")
    BY DEF SynchCall
  <2>2. Good(w, NoThread) /\ RunKept(r, w, t) /\ w.halt
    BY <1>2, <1>5, <1>6, <2>1, WaitManyGood
  <2>3. Return(w)
    BY <1>9
  <2> HIDE DEF w, y
  <2>4. RunKept(x, w, t)
    BY <1>5, <2>2, RunKeptWeaken, RunKeptTransitive
  <2> QED BY <1>1, <2>2, <2>3, <2>4, StopsKeeps DEF x
<1> QED BY <1>4, <1>7, <1>8, <1>9

LEMMA ReleaseMutexKeeps ==
    ASSUME KInv, NEW t \in Threads, NEW m \in Mutexes, SvcReleaseMutex(t, m)
    PROVE  KInv'
<1> DEFINE x == Called(t)
           y == ReleaseMutex(x, m, t)
<1>1. Calling(t) /\ Return(y)
  BY CallingIs DEF SvcReleaseMutex
<1>2. Good(x, NoThread) /\ x.th[t].status = "Running"
  BY <1>1, CalledIs
<1> HIDE DEF x
<1>3. Good(y, NoThread) /\ RunKept(x, y, NoThread)
  BY <1>2, ReleaseMutexGood
<1> HIDE DEF y
<1> QED BY <1>1, <1>3, CallKeeps DEF x

LEMMA ReleaseSemaphoreKeeps ==
    ASSUME KInv, NEW t \in Threads, NEW s \in Semaphores, NEW n \in ReleaseCounts, SvcReleaseSemaphore(t, s, n)
    PROVE  KInv'
<1> DEFINE x == Called(t)
           y == ReleaseSemaphore(x, s, n)
<1>1. Calling(t) /\ Return(y)
  BY CallingIs DEF SvcReleaseSemaphore
<1>2. Good(x, NoThread) /\ x.th[t].status = "Running"
  BY <1>1, CalledIs
<1>3. n \in Int
  BY KernelAssumption
<1> HIDE DEF x
<1>4. Good(y, NoThread) /\ RunKept(x, y, NoThread)
  BY <1>2, <1>3, ReleaseSemaphoreGood
<1> HIDE DEF y
<1> QED BY <1>1, <1>4, CallKeeps DEF x

LEMMA SignalEventKeeps ==
    ASSUME KInv, NEW t \in Threads, NEW e \in Events, SvcSignalEvent(t, e)
    PROVE  KInv'
<1> DEFINE x == Called(t)
           y == WakeupAllWaitingThreads([x EXCEPT !.sig = @ \cup {e}], e)
<1>1. Calling(t) /\ Return(y)
  BY CallingIs DEF SvcSignalEvent, SignalEvent
<1>2. Good(x, NoThread) /\ x.th[t].status = "Running"
  BY <1>1, CalledIs
<1> HIDE DEF x
<1>3. Good(y, NoThread) /\ RunKept(x, y, NoThread)
  BY <1>2, SignalGood
<1> HIDE DEF y
<1> QED BY <1>1, <1>3, CallKeeps DEF x

LEMMA ClearKeeps ==
    ASSUME KInv, NEW t \in Threads, NEW o, SvcClear(t, o)
    PROVE  KInv'
<1> DEFINE x == Called(t)
           y == ClearSignal(x, o)
<1>1. Calling(t) /\ Return(y)
  BY CallingIs DEF SvcClear
<1>2. Good(x, NoThread) /\ x.th[t].status = "Running"
  BY <1>1, CalledIs
<1> HIDE DEF x
<1>3. Good(y, NoThread) /\ RunKept(x, y, NoThread)
  BY <1>2, ClearGood
<1> HIDE DEF y
<1> QED BY <1>1, <1>3, CallKeeps DEF x

LEMMA SetTimerKeeps ==
    ASSUME KInv, NEW t \in Threads, NEW o \in Timers, NEW immediate, NEW periodic,
           SvcSetTimer(t, o, immediate, periodic)
    PROVE  KInv'
<1> DEFINE x == Called(t)
           y == SetTimer(x, o, immediate, periodic, k.cpu)
<1>1. Calling(t) /\ Return(y)
  BY CallingIs DEF SvcSetTimer
<1>2. Good(x, NoThread) /\ x.th[t].status = "Running"
  BY <1>1, CalledIs
<1>3. k.cpu \in Cores
  BY <1>1 DEF Calling
<1> HIDE DEF x
<1>4. Good(y, NoThread) /\ RunKept(x, y, NoThread)
  BY <1>2, <1>3, SetTimerGood
<1> HIDE DEF y
<1> QED BY <1>1, <1>4, CallKeeps DEF x

LEMMA CancelTimerKeeps ==
    ASSUME KInv, NEW t \in Threads, NEW o, SvcCancelTimer(t, o)
    PROVE  KInv'
<1> DEFINE x == Called(t)
           y == CancelTimer(x, o)
<1>1. Calling(t) /\ Return(y)
  BY CallingIs DEF SvcCancelTimer
<1>2. Good(x, NoThread) /\ x.th[t].status = "Running"
  BY <1>1, CalledIs
<1> HIDE DEF x
<1>3. Good(y, NoThread) /\ RunKept(x, y, NoThread)
  BY <1>2, CancelTimerGood
<1> HIDE DEF y
<1> QED BY <1>1, <1>3, CallKeeps DEF x

LEMMA ArbitrateSignalKeeps ==
    ASSUME KInv, NEW t \in Threads, NEW a, NEW n \in ArbValues, SvcArbitrateSignal(t, a, n)
    PROVE  KInv'
<1> DEFINE x == Called(t)
           y == ArbSignal(x, a, n)
<1>1. Calling(t) /\ Return(PrepareReschedule(y))
  BY CallingIs DEF SvcArbitrateSignal
<1>2. Good(x, NoThread) /\ x.th[t].status = "Running"
  BY <1>1, CalledIs
<1>3. n \in Int
  BY KernelAssumption
<1> HIDE DEF x
<1>4. Good(y, NoThread) /\ RunKept(x, y, NoThread)
  BY <1>2, <1>3, ArbSignalGood
<1> HIDE DEF y
<1>5. RunKept(x, y, t)
  BY <1>4, RunKeptWeaken
<1> QED BY <1>1, <1>4, <1>5, HaltsKeeps DEF x

LEMMA ArbitrateWaitKeeps ==
    ASSUME KInv, NEW t \in Threads, NEW a \in Addresses, NEW value, NEW decrement, NEW timeout,
           SvcArbitrateWait(t, a, value, decrement, timeout)
    PROVE  KInv'
<1> DEFINE x == Called(t)
           y == ArbWait(x, t, a, value, decrement, timeout)
<1>1. Calling(t) /\ Return(PrepareReschedule(y))
  BY CallingIs DEF SvcArbitrateWait
<1>2. Good(x, NoThread) /\ x.th[t].status = "Running"
  BY <1>1, CalledIs
<1> HIDE DEF x
<1>3. Good(y, NoThread) /\ RunKept(x, y, t)
  BY <1>2, ArbWaitGood
<1> HIDE DEF y
<1> QED BY <1>1, <1>3, HaltsKeeps DEF x

LEMMA ConnectKeeps ==
    ASSUME KInv, NEW t \in Threads, NEW p \in Ports, SvcConnectToPort(t, p)
    PROVE  KInv'
<1> DEFINE x == Called(t)
           y == Connect(x, p, CHOOSE s \in Unused(k) : TRUE)
<1>1. Calling(t) /\ Return(y)
  BY CallingIs DEF SvcConnectToPort
<1>2. Good(x, NoThread) /\ x.th[t].status = "Running"
  BY <1>1, CalledIs
<1>3. (CHOOSE s \in Unused(k) : TRUE) \in Unused(x)
  <2>1. Unused(k) # {}
    BY DEF SvcConnectToPort
  <2>2. SameButResults(k, x)
    BY <1>1, CalledIs
  <2> HIDE DEF x
  <2>3. x.ses = k.ses /\ x.wl = k.wl /\ \A u \in Threads : x.th[u].req = k.th[u].req
    BY <2>2 DEF SameButResults, OnlyContexts
  <2>4. Unused(x) = Unused(k)
    BY <2>3 DEF Unused
  <2> QED BY <2>1, <2>4
<1> HIDE DEF x
<1>4. Good(y, NoThread) /\ RunKept(x, y, NoThread)
  BY <1>2, <1>3, ConnectGood
<1> HIDE DEF y
<1> QED BY <1>1, <1>4, CallKeeps DEF x

LEMMA AcceptKeeps ==
    ASSUME KInv, NEW t \in Threads, NEW p \in Ports, SvcAcceptSession(t, p)
    PROVE  KInv'
<1> DEFINE x == Called(t)
           y == Accept(x, p)
<1>1. Calling(t) /\ Return(y)
  BY CallingIs DEF SvcAcceptSession
<1>2. Good(x, NoThread) /\ x.th[t].status = "Running"
  BY <1>1, CalledIs
<1> HIDE DEF x
<1>3. Good(y, NoThread) /\ RunKept(x, y, NoThread)
  BY <1>2, AcceptGood
<1> HIDE DEF y
<1> QED BY <1>1, <1>3, CallKeeps DEF x

LEMMA CloseClientKeeps ==
    ASSUME KInv, NEW t \in Threads, NEW s \in Sessions, SvcCloseClient(t, s)
    PROVE  KInv'
<1> DEFINE x == Called(t)
           y == CloseClient(x, s)
<1>1. Calling(t) /\ Return(y)
  BY CallingIs DEF SvcCloseClient
<1>2. Good(x, NoThread) /\ x.th[t].status = "Running"
  BY <1>1, CalledIs
<1> HIDE DEF x
<1>3. Good(y, NoThread) /\ RunKept(x, y, NoThread)
  BY <1>2, CloseClientGood
<1> HIDE DEF y
<1> QED BY <1>1, <1>3, CallKeeps DEF x

LEMMA CloseServerKeeps ==
    ASSUME KInv, NEW t \in Threads, NEW s \in Sessions, SvcCloseServer(t, s)
    PROVE  KInv'
<1> DEFINE x == Called(t)
           y == CloseServer(x, s)
<1>1. Calling(t) /\ Return(y)
  BY CallingIs DEF SvcCloseServer
<1>2. Good(x, NoThread) /\ x.th[t].status = "Running"
  BY <1>1, CalledIs
<1> HIDE DEF x
<1>3. Good(y, NoThread) /\ RunKept(x, y, NoThread)
  BY <1>2, CloseServerGood
<1> HIDE DEF y
<1> QED BY <1>1, <1>3, CallKeeps DEF x

\* The statuses of the other threads are as before the call.
LEMMA CalledStatus ==
    ASSUME NEW t \in Threads, Calling(t)
    PROVE  \A u \in Threads : /\ Called(t).th[u].status = k.th[u].status
                              /\ Called(t).th[u].held = k.th[u].held
                              /\ Called(t).th[u].pending = k.th[u].pending
<1>1. SameButResults(k, Called(t))
  BY CalledIs
<1> QED BY <1>1 DEF SameButResults, OnlyContexts

LEMMA CreateThreadKeeps ==
    ASSUME KInv, NEW t \in Threads, NEW u \in Threads, NEW p \in Prios, NEW full,
           SvcCreateThread(t, u, p, full)
    PROVE  KInv'
<1> DEFINE x == Called(t)
           y == CreateThread(x, u, p)
<1>1. Calling(t) /\ (Return(y) \/ Return(PrepareReschedule(y))) /\ k.th[u].status = "NotCreated"
  BY CallingIs DEF SvcCreateThread
<1>2. Good(x, NoThread) /\ x.th[u].status = "NotCreated"
  BY <1>1, CalledIs, CalledStatus
<1>3. p \in Priority
  BY KernelAssumption
<1> HIDE DEF x
<1>4. Good(y, NoThread) /\ RunKept(x, y, NoThread)
  BY <1>2, <1>3, CreateGood
<1> HIDE DEF y
<1>5. RunKept(x, y, t)
  BY <1>4, RunKeptWeaken
<1>6. CASE Return(y)
  BY <1>1, <1>4, <1>6, CallKeeps DEF x
<1>7. CASE Return(PrepareReschedule(y))
  BY <1>1, <1>4, <1>5, <1>7, HaltsKeeps DEF x
<1> QED BY <1>1, <1>6, <1>7

\* The mutexes that a thread holds can be listed.
LEMMA HeldFinite ==
    ASSUME NEW x \in KernelState, NEW t \in Threads
    PROVE  /\ IsFiniteSet(x.th[t].held) /\ IsFiniteSet(x.th[t].pending)
           /\ x.th[t].held \subseteq Mutexes /\ x.th[t].pending \subseteq Mutexes
<1>1. x.th[t].held \subseteq Mutexes /\ x.th[t].pending \subseteq Mutexes
  BY ThType, ThreadFields
<1>2. IsFiniteSet(Mutexes)
  BY KernelAssumption
<1> QED BY <1>1, <1>2, FS_Subset

LEMMA ExitThreadKeeps ==
    ASSUME KInv, NEW t \in Threads, SvcExitThread(t)
    PROVE  KInv'
<1> DEFINE x == Called(t)
<1>1. Calling(t) /\ \E order \in SetToSeqs(k.th[t].held) : Return(PrepareReschedule(Stop(x, t, order)))
  BY CallingIs DEF SvcExitThread
<1>2. PICK order \in SetToSeqs(k.th[t].held) : Return(PrepareReschedule(Stop(x, t, order)))
  BY <1>1
<1>3. Good(x, NoThread) /\ x.th[t].status = "Running" /\ x.th[t].held = k.th[t].held
  BY <1>1, CalledIs, CalledStatus
<1>4. Alive(x, t) /\ x.th[t].status \notin {"WaitArb", "WaitIPC"}
  BY <1>3 DEF Alive
<1> HIDE DEF x
<1>5. Listing(order, x.th[t].held)
  <2> DEFINE S == x.th[t].held
  <2>1. IsFiniteSet(S) /\ order \in SetToSeqs(S)
    BY <1>3, HeldFinite DEF Good, Sound
  <2> HIDE DEF S
  <2> QED BY <2>1, ListingIs DEF S
<1> DEFINE y == Stop(x, t, order)
<1>6. Good(y, NoThread) /\ RunKept(x, y, t)
  BY <1>3, <1>4, <1>5, StopGood
<1>7. Return(PrepareReschedule(y))
  BY <1>2 DEF x
<1> HIDE DEF y
<1> QED BY <1>1, <1>6, <1>7, HaltsKeeps DEF x

LEMMA SetThreadPriorityKeeps ==
    ASSUME KInv, NEW t \in Threads, NEW u \in Threads, NEW p \in Prios, SvcSetThreadPriority(t, u, p)
    PROVE  KInv'
<1> DEFINE x == Called(t)
           w == ThreadUpdatePriority(SetPriority(x, u, p), u)
<1>1. Calling(t) /\ \E order \in SetToSeqs(k.th[u].pending) :
                       Return(PrepareReschedule(ForEach(MutexUpdatePriority, w, order)))
  BY CallingIs DEF SvcSetThreadPriority
<1>2. PICK order \in SetToSeqs(k.th[u].pending) :
         Return(PrepareReschedule(ForEach(MutexUpdatePriority, w, order)))
  BY <1>1
<1> DEFINE y == ForEach(MutexUpdatePriority, w, order)
<1>3. Good(x, NoThread) /\ p \in Priority
  BY <1>1, CalledIs, KernelAssumption
<1> HIDE DEF x
<1>4. Good(w, NoThread) /\ RunKept(x, w, NoThread)
  BY <1>3, SetPriorityGood
<1>5. order \in Seq(Mutexes)
  <2> DEFINE S == k.th[u].pending
  <2>1. IsFiniteSet(S) /\ S \subseteq Mutexes /\ order \in SetToSeqs(S)
    BY <1>1, HeldFinite DEF Calling, Good, Sound
  <2> HIDE DEF S
  <2>2. order \in Seq(S)
    BY <2>1, ListingIs DEF Listing
  <2> QED BY <2>1, <2>2
<1> HIDE DEF w
<1>6. Good(y, NoThread) /\ RunKept(w, y, NoThread)
  BY <1>4, <1>5, UpdateAllGood
<1>7. Return(PrepareReschedule(y))
  BY <1>2
<1> HIDE DEF y
<1>8. RunKept(x, y, t)
  BY <1>4, <1>6, RunKeptTransitive, RunKeptWeaken
<1> QED BY <1>1, <1>6, <1>7, <1>8, HaltsKeeps DEF x

Slept(x, t, status, timeout) == WakeAfterDelay([x EXCEPT !.th[t].status = status], t, timeout)

SleepStatus(status) == status = "WaitSleep" \/ status = "WaitIPC"

LEMMA SleptGood ==
    ASSUME NEW x, Good(x, NoThread), NEW t \in Threads, x.th[t].status = "Running",
           NEW status, SleepStatus(status), NEW timeout
    PROVE  Good(Slept(x, t, status, timeout), NoThread) /\ RunKept(x, Slept(x, t, status, timeout), t)
<1>1. status \in {"WaitSleep", "WaitIPC"}
  BY DEF SleepStatus
<1> DEFINE y == WakeAfterDelay([x EXCEPT !.th[t].status = status], t, timeout)
<1>2. Good(y, NoThread) /\ RunKept(x, y, t)
  BY <1>1, SleepThreadGood, Zenon
<1> QED BY <1>2, Zenon DEF Slept

LEMMA SleepKeeps ==
    ASSUME KInv, NEW t \in Threads, NEW timeout, SvcSleepThread(t, timeout)
    PROVE  KInv'
<1> DEFINE x == Called(t)
           s == "WaitSleep"
           y == Slept(x, t, s, timeout)
<1>1. Calling(t) /\ (Return(x) \/ Return(PrepareReschedule(y)))
  BY CallingIs DEF SvcSleepThread, Slept
<1>2. Good(x, NoThread) /\ x.th[t].status = "Running" /\ SleepStatus(s)
  BY <1>1, CalledIs DEF SleepStatus
<1> HIDE DEF x, s
<1>3. Good(y, NoThread) /\ RunKept(x, y, t)
  BY <1>2, SleptGood
<1> HIDE DEF y
<1>4. CASE Return(x)
  <2>1. RunKept(x, x, NoThread)
    BY RunKeptItself
  <2> QED BY <1>1, <1>2, <1>4, <2>1, CallKeeps DEF x
<1>5. CASE Return(PrepareReschedule(y))
  BY <1>1, <1>3, <1>5, HaltsKeeps DEF x
<1> QED BY <1>1, <1>4, <1>5

LEMMA HleRequestKeeps ==
    ASSUME KInv, NEW t \in Threads, SvcSendHleRequest(t)
    PROVE  KInv'
<1> DEFINE x == Called(t)
           w == PrepareReschedule(x)
           s == "WaitIPC"
           d == "finite"
           y == Slept(w, t, s, d)
<1>1. Calling(t) /\ Return(y)
  BY CallingIs DEF SvcSendHleRequest, HandleHleRequest, Slept
<1>2. Good(x, NoThread) /\ x.th[t].status = "Running" /\ t \in Threads \ {NoThread}
  BY <1>1, CalledIs, NotNoThread
<1> HIDE DEF x
<1>3. Good(w, NoThread) /\ RunKept(x, w, NoThread) /\ w.halt
  BY <1>2, RescheduleGood
<1> HIDE DEF w
<1>4. w.th[t].status = "Running"
  BY <1>2, <1>3 DEF RunKept
<1>5. Good(y, NoThread) /\ RunKept(w, y, t)
  <2>1. SleepStatus(s)
    BY DEF SleepStatus
  <2> HIDE DEF s, d
  <2> QED BY <1>3, <1>4, <2>1, SleptGood
<1> HIDE DEF y
<1>6. RunKept(x, y, t) /\ y.halt
  <2>1. RunKept(x, y, t)
    BY <1>3, <1>5, RunKeptTransitive, RunKeptWeaken
  <2> QED BY <1>3, <1>5, <2>1 DEF RunKept
<1> QED BY <1>1, <1>5, <1>6, StopsKeeps DEF x

LEMMA SendKeeps ==
    ASSUME KInv, NEW t \in Threads, NEW s \in Sessions, SvcSendSyncRequest(t, s)
    PROVE  KInv'
<1> DEFINE x == Called(t)
           w == PrepareReschedule(x)
           y == SendSyncRequest(w, t, s)
<1>1. Calling(t) /\ Return(y)
  BY CallingIs DEF SvcSendSyncRequest
<1>2. Good(x, NoThread) /\ x.th[t].status = "Running" /\ t \in Threads \ {NoThread}
  BY <1>1, CalledIs, NotNoThread
<1> HIDE DEF x
<1>3. Good(w, NoThread) /\ RunKept(x, w, NoThread) /\ w.halt
  BY <1>2, RescheduleGood
<1> HIDE DEF w
<1>4. w.th[t].status = "Running"
  BY <1>2, <1>3 DEF RunKept
<1>5. Good(y, NoThread) /\ RunKept(w, y, t)
  BY <1>3, <1>4, SendRequestGood
<1> HIDE DEF y
<1>6. RunKept(x, y, t) /\ y.halt
  <2>1. RunKept(x, y, t)
    BY <1>3, <1>5, RunKeptTransitive, RunKeptWeaken
  <2> QED BY <1>3, <1>5, <2>1 DEF RunKept
<1> QED BY <1>1, <1>5, <1>6, StopsKeeps DEF x

Scheduled(x, S, allowed) ==
    [x EXCEPT !.th = [u \in Threads |->
        IF u \in S THEN [@[u] EXCEPT !.canSchedule = allowed] ELSE @[u]]]

LEMMA ScheduledGood ==
    ASSUME NEW x, Good(x, NoThread), NEW S, NEW allowed \in BOOLEAN
    PROVE  Good(Scheduled(x, S, allowed), NoThread) /\ RunKept(x, Scheduled(x, S, allowed), NoThread)
<1>1. LET y == [x EXCEPT !.th = [u \in Threads |->
                  IF u \in S THEN [@[u] EXCEPT !.canSchedule = allowed] ELSE @[u]]]
      IN Good(y, NoThread) /\ RunKept(x, y, NoThread)
  BY ScheduleThreadsGood, Zenon
<1> QED BY <1>1, Zenon DEF Scheduled

LEMMA ScheduleThreadsKeeps ==
    ASSUME KInv, NEW t \in Threads, NEW S, NEW allowed \in BOOLEAN, SvcScheduleThreads(t, S, allowed)
    PROVE  KInv'
<1> DEFINE x == Called(t)
           y == Scheduled(x, S, allowed)
<1>1. Calling(t) /\ Return(y)
  BY CallingIs DEF SvcScheduleThreads, Scheduled
<1>2. Good(x, NoThread)
  BY <1>1, CalledIs
<1> HIDE DEF x
<1>3. Good(y, NoThread) /\ RunKept(x, y, NoThread)
  BY <1>2, ScheduledGood
<1> HIDE DEF y
<1> QED BY <1>1, <1>3, CallKeeps DEF x


-----------------------------------------------------------------------------
(* Steps that leave RunLoop where it is.                                   *)

LEMMA StaysKeeps ==
    ASSUME KInv, NEW t, NEW v, Good(v, NoThread), GoesOn(k, v, t),
           t # NoThread => v.th[t].status = "Running", ~v.halt, k' = v, loop' = loop
    PROVE  KInv'
<1>1. Good(k, NoThread) /\ ~k.halt /\ LoopOK(k, loop)
  BY DEF KInv, Inv
<1>2. v.cpu = k.cpu
  BY DEF GoesOn
<1>3. \A c \in Cores : Fresh(k, c) => Fresh(v, c)
  BY <1>1, FreshGoesOn
<1>4. LoopOK(v, loop)
  <2>1. k.cpu \in Cores
    BY <1>1, KernelFields DEF Good, Sound
  <2> QED BY <1>1, <1>2, <1>3, <2>1 DEF LoopOK
<1>5. Inv(v, loop)
  BY <1>4 DEF Inv
<1> QED BY <1>5 DEF KInv

LEMMA MemGood ==
    ASSUME NEW x, Good(x, NoThread), NEW M \in [Addresses -> Int]
    PROVE  LET y == [x EXCEPT !.mem = M]
           IN Good(y, NoThread) /\ RunKept(x, y, NoThread) /\ y.halt = x.halt
<1> DEFINE y == [x EXCEPT !.mem = M]
<1>1. x \in KernelState
  BY DEF Good, Sound
<1>2. y \in KernelState
  BY <1>1, Put_mem
<1>3. /\ y.th = x.th /\ y.wl = x.wl /\ y.mx = x.mx /\ y.ses = x.ses /\ y.rq = x.rq
      /\ y.arb = x.arb /\ y.wake = x.wake /\ y.cur = x.cur /\ y.cpu = x.cpu
      /\ y.running = x.running /\ y.proc = x.proc /\ y.stored = x.stored /\ y.port = x.port
      /\ y.tev = x.tev /\ y.halt = x.halt
  BY ONLY <1>1 DEF KernelState
<1> HIDE DEF y
<1>4. Plain(x, y)
  BY <1>2, <1>3 DEF Plain
<1>5. TimersOK(y)
  BY <1>3 DEF Good, Rest, TimersOK
<1>6. Good(y, NoThread) /\ RunKept(x, y, NoThread)
  BY <1>3, <1>4, <1>5, PlainKeeps
<1> QED BY <1>3, <1>6 DEF y

LEMMA StoreKeeps ==
    ASSUME KInv, NEW t \in Threads, NEW a \in Addresses, NEW v \in ArbValues, Store(t, a, v)
    PROVE  KInv'
<1> DEFINE x == Called(t)
           M == [x.mem EXCEPT ![a] = v]
           y == [x EXCEPT !.mem = M]
<1>1. Calling(t) /\ k' = [x EXCEPT !.mem[a] = v] /\ loop' = loop
  BY CallingIs DEF Store
<1>2. Good(x, NoThread) /\ RunKept(k, x, NoThread) /\ x.th[t].status = "Running"
  BY <1>1, CalledIs
<1>3. x.halt = k.halt /\ ~k.halt
  BY <1>1, CalledIs DEF SameButResults, Calling
<1> HIDE DEF x
<1>4. k' = y
  BY <1>1
<1>5. x.mem \in [Addresses -> Int] /\ v \in Int
  BY <1>2, KernelFields, KernelAssumption DEF Good, Sound
<1>6. M \in [Addresses -> Int]
  BY <1>5
<1> HIDE DEF M
<1>7. Good(y, NoThread) /\ RunKept(x, y, NoThread) /\ y.halt = x.halt
  BY <1>2, <1>6, MemGood
<1> HIDE DEF y
<1>8. GoesOn(k, y, NoThread)
  BY <1>2, <1>7, RunKeptTransitive, GoesOnIs
<1>9. ~y.halt
  BY <1>3, <1>7
<1> QED BY <1>1, <1>4, <1>7, <1>8, <1>9, StaysKeeps

-----------------------------------------------------------------------------
(* Events that fire.                                                       *)

\* The callback of an event tells no core to stop: no core runs.
LEMMA FiredKeeps ==
    ASSUME KInv, NEW y, Good(y, NoThread), RunKept(k, y, NoThread), NEW w,
           w = ClearHalt(y) \/ w = Reap(ClearHalt(y)), k' = w, loop' = loop
    PROVE  KInv'
<1> DEFINE z == ClearHalt(y)
           v == Reap(z)
<1>1. ~k.halt
  BY DEF KInv, Inv
<1>2. Good(z, NoThread) /\ ~z.halt /\ z.th = y.th /\ z.cur = y.cur /\ z.cpu = y.cpu
      /\ z.running = y.running
  BY FlagsGood
<1> HIDE DEF z
<1>3. GoesOn(k, y, NoThread)
  BY GoesOnIs
<1>4. GoesOn(k, z, NoThread)
  BY <1>1, <1>2, <1>3 DEF GoesOn
<1>5. Good(v, NoThread) /\ RunKept(z, v, NoThread) /\ v.halt = z.halt
  BY <1>2, ReapGood
<1> HIDE DEF v
<1>6. GoesOn(z, v, NoThread)
  BY <1>5, GoesOnIs
<1>7. GoesOn(k, v, NoThread) /\ ~v.halt
  BY <1>2, <1>4, <1>5, <1>6, GoesOnTransitive
<1>8. CASE w = z
  BY <1>2, <1>4, <1>8, StaysKeeps
<1>9. CASE w = v
  BY <1>5, <1>7, <1>9, StaysKeeps
<1> QED BY <1>8, <1>9 DEF z, v

LEMMA FireThreadWakeupKeeps ==
    ASSUME KInv, NEW t \in Threads, FireThreadWakeup(t)
    PROVE  KInv'
<1> DEFINE y == ThreadWakeupCallback(k, t)
           w == Reap(ClearHalt(y))
<1>1. Good(k, NoThread)
  BY DEF KInv, Inv
<1>2. k' = w /\ loop' = loop /\ k.wake[t] > 0
  BY DEF FireThreadWakeup, ClearHalt
<1>3. Good(y, NoThread) /\ RunKept(k, y, NoThread)
  BY <1>1, <1>2, ThreadWakeupGood
<1> HIDE DEF y
<1> QED BY <1>2, <1>3, FiredKeeps

LEMMA FireTimerKeeps ==
    ASSUME KInv, NEW o \in Timers, FireTimer(o)
    PROVE  KInv'
<1> DEFINE c == loop.core
           E == k.tev \ {<<o, c>>}
           x == [k EXCEPT !.tev = E]
           y == SignalTimer(x, o, c)
           w == ClearHalt(y)
<1>1. Good(k, NoThread) /\ c \in Cores
  BY DEF KInv, Inv, LoopOK
<1>2. k' = w /\ loop' = loop /\ <<o, c>> \in k.tev
  BY DEF FireTimer, ClearHalt
<1> HIDE DEF c
<1>3. /\ k.tev \in SUBSET (Timers \X Cores)
      /\ \A e, f \in k.tev : e[1] = f[1] => e = f
  BY <1>1, KernelFields DEF Good, Sound, Rest, TimersOK
<1>4. E \in SUBSET (Timers \X Cores) /\ \A e, f \in E : e[1] = f[1] => e = f
  BY <1>3
<1>5. \A e \in E : e[1] # o
  BY <1>2, <1>3
<1> HIDE DEF E
<1>6. Good(x, NoThread) /\ RunKept(k, x, NoThread) /\ x.tev = E
  BY <1>1, <1>4, EventsGood
<1>7. k' = ClearHalt(SignalTimer(x, o, c))
  BY <1>2
<1> HIDE DEF x
<1>8. NoEvent(x, o)
  BY <1>5, <1>6 DEF NoEvent
<1>9. Good(y, NoThread) /\ RunKept(x, y, NoThread)
  BY <1>1, <1>6, <1>8, SignalTimerGood
<1> HIDE DEF y
<1>10. RunKept(k, y, NoThread)
  BY <1>6, <1>9, RunKeptTransitive
<1> QED BY <1>2, <1>9, <1>10, FiredKeeps


-----------------------------------------------------------------------------
(* ExitProcess.                                                            *)

LEMMA ExitedGood ==
    ASSUME NEW x, Good(x, NoThread), NEW P \in SUBSET Processes
    PROVE  LET y == [x EXCEPT !.exited = P]
           IN Good(y, NoThread) /\ RunKept(x, y, NoThread) /\ y.th = x.th
<1> DEFINE y == [x EXCEPT !.exited = P]
<1>1. x \in KernelState
  BY DEF Good, Sound
<1>2. y \in KernelState
  BY <1>1, Put_exited
<1>3. /\ y.th = x.th /\ y.wl = x.wl /\ y.mx = x.mx /\ y.ses = x.ses /\ y.rq = x.rq
      /\ y.arb = x.arb /\ y.wake = x.wake /\ y.cur = x.cur /\ y.cpu = x.cpu
      /\ y.running = x.running /\ y.proc = x.proc /\ y.stored = x.stored /\ y.port = x.port
      /\ y.tev = x.tev /\ y.halt = x.halt
  BY ONLY <1>1 DEF KernelState
<1> HIDE DEF y
<1>4. Plain(x, y)
  BY <1>2, <1>3 DEF Plain
<1>5. TimersOK(y)
  BY <1>3 DEF Good, Rest, TimersOK
<1>6. Good(y, NoThread) /\ RunKept(x, y, NoThread)
  BY <1>3, <1>4, <1>5, PlainKeeps
<1> QED BY <1>3, <1>6 DEF y

\* The process p is marked exited.
MarkExited(x, p) ==
    [Assert_(x, p \notin k.exited, "ProcessHasAlreadyExited") EXCEPT !.exited = @ \cup {p}]

LEMMA MarkExitedGood ==
    ASSUME NEW x, Good(x, NoThread), NEW p \in Processes
    PROVE  LET y == MarkExited(x, p)
           IN Good(y, NoThread) /\ RunKept(x, y, NoThread) /\ y.th = x.th
<1> DEFINE n == "ProcessHasAlreadyExited"
           a == Assert_(x, p \notin k.exited, n)
           P == a.exited \cup {p}
           y == [a EXCEPT !.exited = P]
<1>1. x \in KernelState
  BY DEF Good, Sound
<1>2. Asserted(x, a)
  <2>1. n \in Assertions
    BY DEF Assertions
  <2> HIDE DEF n
  <2>2. a = x \/ a = Failed(x, n)
    BY DEF Assert_, Failed
  <2> HIDE DEF a
  <2> QED BY <1>1, <2>1, <2>2, AssertFrame
<1>3. MarkExited(x, p) = y
  BY DEF MarkExited
<1> HIDE DEF a
<1>4. Good(a, NoThread) /\ RunKept(x, a, NoThread) /\ a.th = x.th
  BY <1>2, AssertedGood DEF Asserted
<1>5. P \in SUBSET Processes
  BY <1>4, KernelFields DEF Good, Sound
<1> HIDE DEF P
<1>6. Good(y, NoThread) /\ RunKept(a, y, NoThread) /\ y.th = a.th
  BY <1>4, <1>5, ExitedGood
<1> HIDE DEF y
<1> QED BY <1>3, <1>4, <1>6, RunKeptTransitive

\* The threads of the process on the core are stopped, in the order of list.
ProcessThreads(t) ==
    {u \in Threads \ {t} : /\ ProcOf[u] = k.proc /\ CoreOf[u] = k.cpu
                           /\ k.th[u].status \notin {"NotCreated", "Dead"}}

Exits(t, list, order) ==
    LET y == ForEach(StopProcessThread, MarkExited(Called(t), k.proc), list)
    IN order \in SetToSeqs(y.th[t].held) /\ Return(PrepareReschedule(Stop(y, t, order)))

LEMMA ExitsKeeps ==
    ASSUME KInv, NEW t \in Threads, Calling(t), NEW S \in SUBSET Threads,
           \A u \in S : k.th[u].status \in SynchStatus,
           NEW list \in SetToSeqs(S), NEW order, Exits(t, list, order)
    PROVE  KInv'
<1> DEFINE x == Called(t)
           e == MarkExited(x, k.proc)
           y == ForEach(StopProcessThread, e, list)
           z == Stop(y, t, order)
           w == PrepareReschedule(z)
<1>1. /\ Good(k, NoThread) /\ loop.phase \in {"run", "solo"} /\ t = k.cur[k.cpu] /\ t # NoThread
  BY NotNoThread DEF Calling
<1>2. Return(w) /\ order \in SetToSeqs(y.th[t].held)
  BY DEF Exits
<1>3. Good(x, NoThread) /\ RunKept(k, x, NoThread) /\ x.th[t].status = "Running"
      /\ \A u \in S : x.th[u].status \in SynchStatus
  BY CalledIs, CalledStatus
<1> HIDE DEF x
<1>4. Good(e, NoThread) /\ RunKept(x, e, NoThread) /\ e.th = x.th
  <2>1. k.proc \in Processes
    BY <1>1, KernelFields DEF Good, Sound
  <2> QED BY <1>3, <2>1, MarkExitedGood
<1> HIDE DEF e
<1>5. Listing(list, S)
  <2>1. IsFiniteSet(S)
    BY KernelAssumption, FS_Subset
  <2> QED BY <2>1, ListingIs
<1>6. Good(y, NoThread) /\ GoesOn(e, y, NoThread)
  BY <1>3, <1>4, <1>5, StopOthersGood
<1> HIDE DEF y
<1>7. y.th[t].status = "Running"
  <2>1. t \in Threads \ {NoThread}
    BY NotNoThread
  <2> QED BY <1>3, <1>4, <1>6, <2>1 DEF GoesOn
<1>8. Alive(y, t) /\ y.th[t].status \notin {"WaitArb", "WaitIPC"}
  BY <1>7 DEF Alive
<1>9. Listing(order, y.th[t].held)
  <2> DEFINE H == y.th[t].held
  <2>1. IsFiniteSet(H) /\ order \in SetToSeqs(H)
    BY <1>2, <1>6, HeldFinite DEF Good, Sound
  <2> HIDE DEF H
  <2> QED BY <2>1, ListingIs DEF H
<1>10. Good(z, NoThread) /\ RunKept(y, z, t)
  BY <1>6, <1>8, <1>9, StopGood
<1> HIDE DEF z
<1>11. Good(w, NoThread) /\ RunKept(z, w, NoThread) /\ w.halt
  BY <1>10, RescheduleGood
<1> HIDE DEF w
<1>12. RunKept(k, e, NoThread)
  BY <1>3, <1>4, RunKeptTransitive
<1>13. GoesOn(k, y, NoThread)
  BY <1>6, <1>12, GoesOnIs, GoesOnTransitive
<1>14. GoesOn(k, y, t)
  BY <1>13, NotNoThread DEF GoesOn
<1>15. GoesOn(y, w, t)
  BY <1>10, <1>11, RunKeptWeaken, RunKeptTransitive, GoesOnIs
<1>16. GoesOn(k, w, t)
  BY <1>14, <1>15, GoesOnTransitive
<1> QED BY <1>1, <1>2, <1>11, <1>16, ReturnKeeps

LEMMA ExitProcessKeeps ==
    ASSUME KInv, NEW t \in Threads, SvcExitProcess(t)
    PROVE  KInv'
<1> DEFINE S == ProcessThreads(t)
<1> DEFINE e == MarkExited(Called(t), k.proc)
<1>1. /\ Call("ExitProcess", t) /\ \A u \in S : k.th[u].status \in {"WaitSynchAny", "WaitSynchAll"}
      /\ \E list \in SetToSeqs(S) :
            LET y == ForEach(StopProcessThread, e, list)
            IN \E order \in SetToSeqs(y.th[t].held) :
                  Return(PrepareReschedule(Stop(y, t, order)))
  BY Zenon DEF SvcExitProcess, ProcessThreads, MarkExited
<1>2. S \in SUBSET Threads /\ \A u \in S : k.th[u].status \in SynchStatus
  BY <1>1 DEF ProcessThreads, SynchStatus
<1> HIDE DEF S
<1>3. \E list \in SetToSeqs(S) : \E order : Exits(t, list, order)
  BY <1>1, Zenon DEF Exits
<1>4. PICK list \in SetToSeqs(S) : \E order : Exits(t, list, order)
  BY <1>3
<1>5. PICK order : Exits(t, list, order)
  BY <1>4
<1>6. Calling(t)
  BY <1>1, CallingIs
<1> QED BY <1>2, <1>5, <1>6, ExitsKeeps


-----------------------------------------------------------------------------
(* The initial states.                                                     *)

LEMMA EmptyQueueGood ==
    ASSUME NEW S, NEW th, NEW c, \A t \in ThreadsOf(c) : th[t].status = "NotCreated"
    PROVE  EmptyQueueList \in QueueList(S) /\ QueueOK(th, c, EmptyQueueList)
<1> DEFINE q == EmptyQueueList
<1>1. /\ q = [first |-> NullPtr, next |-> [p \in Priority |-> UnlinkedTag],
              data |-> [p \in Priority |-> <<>>]]
      /\ NullPtr \in Int /\ UnlinkedTag \in Int
  BY DEF EmptyQueueList, NullPtr, UnlinkedTag
<1>2. <<>> \in Seq(S) /\ ToSet(<<>>) = {} /\ IsInjective(<<>>)
  BY DEF ToSet, IsInjective
<1>3. q \in QueueList(S) /\ \A p \in Priority : q.next[p] = UnlinkedTag /\ q.data[p] = <<>>
  BY <1>1, <1>2 DEF QueueList
<1>4. q.first = NullPtr
  BY <1>1
<1> HIDE DEF q
<1>5. Linked(q) = {}
  BY <1>3 DEF Linked
<1>6. Sorted(q) /\ Distinct(q)
  BY <1>2, <1>3, <1>4, <1>5 DEF Sorted, Best, Distinct
<1>7. QueueOK(th, c, q)
  BY <1>2, <1>3, <1>6 DEF QueueOK
<1> QED BY <1>3, <1>7 DEF q

\* No thread exists, and no object has been used.
Booted(x) ==
    /\ \A t \in Threads : x.th[t] = NewThread("NotCreated", ThreadPrioLowest) /\ x.wake[t] = 0
    /\ \A o \in WaitObject : x.wl[o] = <<>>
    /\ \A m \in Mutexes : x.mx[m].lock = 0 /\ x.mx[m].holder = NoThread
    /\ \A c \in Cores : x.rq[c] = EmptyQueueList /\ x.cur[c] = NoThread
    /\ x.tev = {} /\ x.arb = <<>> /\ ~x.halt
    /\ \A s \in Sessions : x.ses[s] = ClosedSession
    /\ \A p \in Ports : x.port[p] = NewPort

LEMMA BootIs == BootKernel \in KernelState /\ Booted(BootKernel)
<1> DEFINE r == NewThread("NotCreated", ThreadPrioLowest)
           x == BootKernel
<1>1. r \in ThreadRec /\ ThreadPrioLowest \in Priority
  <2>1. ThreadPrioLowest \in Priority
    BY PriorityNat
  <2> QED BY <2>1, NewThreadType
<1> HIDE DEF r
<1>2. [m \in Mutexes |-> [lock |-> 0, holder |-> NoThread, prio |-> ThreadPrioLowest]] \in MxMap
  BY <1>1 DEF MxMap, MutexRec, MaybeThread
<1>3. [c \in Cores |-> EmptyQueueList] \in RqMap
  <2> DEFINE q == EmptyQueueList
  <2>1. \A S : q \in QueueList(S)
    <3>1. SUFFICES ASSUME NEW S PROVE q \in QueueList(S)
      OBVIOUS
    <3> DEFINE th == [t \in ThreadsOf(0) |-> [status |-> "NotCreated"]]
    <3>2. \A t \in ThreadsOf(0) : th[t].status = "NotCreated"
      OBVIOUS
    <3> HIDE DEF th
    <3> QED BY <3>2, EmptyQueueGood
  <2> QED BY <2>1 DEF RqMap
<1>4. [s \in Sessions |-> ClosedSession] \in SesMap
  BY DEF SesMap, SessionRec, ClosedSession, MaybeThread
<1>5. [p \in Ports |-> NewPort] \in PortMap
  BY DEF PortMap, PortRec, NewPort
<1>6. 0 \in Cores /\ NoProcess \in Processes /\ NoThread \in MaybeThread /\ NoResult \in Result
      /\ InitCount \in Int
  BY CoresNat, KernelAssumption DEF Processes, MaybeThread, Result
<1>7. x \in KernelState
  BY <1>1, <1>2, <1>3, <1>4, <1>5, <1>6 DEF BootKernel, KernelState, ThMap, WlMap, r
<1>8. Booted(x)
  BY DEF Booted, BootKernel
<1> QED BY <1>7, <1>8

LEMMA BootGood == Good(BootKernel, NoThread)
<1> DEFINE x == BootKernel
<1>1. x \in KernelState /\ Booted(x)
  BY BootIs
<1> HIDE DEF x
<1>2. <<>> \in Seq(Threads) /\ ToSet(<<>>) = {} /\ IsInjective(<<>>)
  BY DEF ToSet, IsInjective
<1>3. \A t \in Threads :
        /\ x.th[t].status = "NotCreated" /\ x.th[t].held = {} /\ x.th[t].pending = {}
        /\ x.th[t].waitObjs = <<>> /\ x.th[t].req = NoSession /\ x.wake[t] = 0
  BY <1>1 DEF Booted, NewThread
<1>4. ListsOK(x, NoThread, {})
  BY <1>1, <1>2, <1>3, NotNoThread DEF ListsOK, WaitsFor, Booted
<1>5. MutexOK(x, NoThread)
  BY <1>1, <1>3, NotNoThread DEF MutexOK, Booted
<1>6. PrioOK(x, {NoThread}) /\ ThreadsOK(x, NoThread)
  BY <1>3 DEF PrioOK, ThreadsOK, Alive
<1>7. SessionsOK(x)
  <2>1. \A s \in Sessions : /\ x.ses[s].pending = <<>> /\ x.ses[s].handling = NoThread
                            /\ ~x.ses[s].client
    BY <1>1 DEF Booted, ClosedSession
  <2>2. \A s \in Sessions : Requesting(x, s) = {}
    BY <1>2, <2>1 DEF Requesting
  <2> QED BY <1>2, <2>1, <2>2 DEF SessionsOK
<1>8. QueuesOK(x)
  <2>1. ASSUME NEW c \in Cores
        PROVE  QueueOK(x.th, c, x.rq[c])
    <3>1. \A t \in ThreadsOf(c) : x.th[t].status = "NotCreated"
      BY <1>3, CoreThreads
    <3>2. QueueOK(x.th, c, EmptyQueueList)
      BY <3>1, EmptyQueueGood
    <3> QED BY <1>1, <3>2 DEF Booted
  <2> QED BY <2>1 DEF QueuesOK
<1>9. ArbOK(x) /\ WakeOK(x) /\ CoresOK(x) /\ TimersOK(x)
  BY <1>1, <1>2, <1>3 DEF ArbOK, WakeOK, CoresOK, TimersOK, Booted
<1>10. PortsOK(x)
  <2>1. \A s \in Sessions : ~x.ses[s].alive /\ ~x.ses[s].server
    BY <1>1 DEF Booted, ClosedSession
  <2>2. \A p \in Ports : x.port[p].pending = <<>> /\ x.port[p].active = 0
    BY <1>1 DEF Booted, NewPort
  <2>3. \A p \in Ports : ServersOf(x, p) = {}
    BY <2>1 DEF ServersOf
  <2>4. \A p \in Ports : Cardinality(ServersOf(x, p)) = 0
    BY <2>3, FS_EmptySet
  <2>5. 0 <= MaxSessions
    BY MaxSessionsAssumption
  <2>6. \A p \in Ports : /\ IsInjective(x.port[p].pending) /\ ToSet(x.port[p].pending) = {}
                         /\ x.port[p].active = Cardinality(ServersOf(x, p))
                         /\ x.port[p].active <= MaxSessions
    BY <1>2, <2>2, <2>4, <2>5
  <2> QED BY <2>1, <2>6, Zenon DEF PortsOK
<1> QED BY <1>1, <1>4, <1>5, <1>6, <1>7, <1>8, <1>9, <1>10 DEF Good, Sound, Rest, x


BootStep(p, i, x) == CreateMain(x, p[1][i])
BootHolds(p, i, x) ==
    /\ Good(x, NoThread) /\ ~x.halt /\ x.cur = BootKernel.cur
    /\ \A j \in 1 .. Len(p[1]) : j > i => x.th[p[1][j]].status = "NotCreated"

Booting == INSTANCE Loop WITH Step <- BootStep, Holds <- BootHolds

LEMMA CreateMainGood ==
    ASSUME NEW x, Good(x, NoThread), NEW u \in MainThreads, x.th[u].status = "NotCreated"
    PROVE  LET y == CreateMain(x, u)
           IN /\ Good(y, NoThread) /\ y.halt = x.halt /\ y.cur = x.cur
              /\ \A v \in Threads \ {u} : y.th[v] = x.th[v]
<1> DEFINE p == MainPrio[u]
           c == CoreOf[u]
           y == CreateMain(x, u)
           r == NewThread("Ready", p)
           q == push_back(prepare(x.rq[c], p), p, u)
           Q == [x.rq EXCEPT ![c] = q]
           T == [x.th EXCEPT ![u] = r]
<1>1. u \in Threads /\ p \in Priority /\ c \in Cores
  BY KernelAssumption
<1>2. x \in KernelState
  BY DEF Good, Sound
<1>3. y = CreateThread(x, u, p)
  BY DEF CreateMain
<1>4. y = [x EXCEPT !.th = T, !.rq = Q]
  BY <1>1, <1>2 DEF CreateMain, CreateThread, KernelState, RqMap
<1> HIDE DEF p, T, Q, y
<1>5. Good(y, NoThread) /\ RunKept(x, y, NoThread) /\ y.halt = x.halt
  BY <1>1, <1>3, CreateGood
<1>6. y.th = T
  BY ONLY <1>2, <1>4 DEF KernelState
<1>7. \A v \in Threads \ {u} : T[v] = x.th[v]
  BY <1>2, ThType DEF T
<1>8. y.cur = x.cur
  BY <1>5 DEF RunKept
<1> QED BY <1>5, <1>6, <1>7, <1>8 DEF y

LEMMA AllCreated ==
    ASSUME NEW order, Listing(order, MainThreads)
    PROVE  LET y == ForEach(CreateMain, BootKernel, order)
           IN Good(y, NoThread) /\ ~y.halt /\ y.cur = BootKernel.cur
<1> DEFINE p == <<order>>
           n == Len(order)
           f == Booting!Run(p, BootKernel, n)
           y == f[n]
<1>1. /\ n \in Nat /\ \A i \in 1 .. n : order[i] \in MainThreads
      /\ \A i, j \in 1 .. n : i # j => order[i] # order[j]
  BY DEF Listing, IsInjective
<1>2. ForEach(CreateMain, BootKernel, order) = y
  BY DEF ForEach, Booting!Run, BootStep
<1>3. p[1] = order
  OBVIOUS
<1> HIDE DEF p, f, n
<1>4. BootHolds(p, 0, BootKernel)
  <2>1. \A t \in Threads : BootKernel.th[t].status = "NotCreated"
    BY BootIs DEF Booted, NewThread
  <2>2. ~BootKernel.halt
    BY BootIs DEF Booted
  <2>3. \A i \in 1 .. n : order[i] \in Threads
    BY <1>1, KernelAssumption
  <2> QED BY <1>3, <2>1, <2>2, <2>3, BootGood DEF BootHolds, n
<1>5. ASSUME NEW i \in 1 .. n, NEW z, BootHolds(p, i - 1, z)
      PROVE  BootHolds(p, i, BootStep(p, i, z))
  <2> DEFINE u == order[i]
             w == CreateMain(z, u)
  <2>1. Good(z, NoThread) /\ ~z.halt /\ z.cur = BootKernel.cur /\ u \in MainThreads
        /\ z.th[u].status = "NotCreated"
    BY <1>1, <1>3, <1>5 DEF BootHolds, n
  <2>2. \A j \in 1 .. n : j > i => z.th[order[j]].status = "NotCreated" /\ order[j] \in Threads \ {u}
    <3>1. \A j \in 1 .. n : j > i => z.th[order[j]].status = "NotCreated" /\ order[j] # order[i]
      BY <1>1, <1>3, <1>5 DEF BootHolds, n
    <3> QED BY <1>1, <3>1, KernelAssumption
  <2> HIDE DEF u
  <2>3. /\ Good(w, NoThread) /\ w.halt = z.halt /\ w.cur = z.cur
        /\ \A v \in Threads \ {u} : w.th[v] = z.th[v]
    BY <2>1, CreateMainGood
  <2>4. BootStep(p, i, z) = w
    BY <1>3 DEF BootStep, u
  <2> HIDE DEF w
  <2>5. \A j \in 1 .. n : j > i => w.th[order[j]].status = "NotCreated"
    BY <2>2, <2>3
  <2> QED BY <1>3, <2>1, <2>3, <2>4, <2>5 DEF BootHolds, n
<1>6. \A i \in 0 .. n : BootHolds(p, i, f[i])
  <2>1. \A i \in 1 .. n : \A z : BootHolds(p, i - 1, z) => BootHolds(p, i, BootStep(p, i, z))
    BY <1>5
  <2> QED BY <1>1, <1>4, <2>1, Booting!LoopInvariant DEF f
<1>7. BootHolds(p, n, y)
  BY <1>1, <1>6
<1> HIDE DEF y
<1> QED BY <1>2, <1>7 DEF BootHolds

LEMMA FirstProcess ==
    ASSUME NEW x, Good(x, NoThread), x.cur = BootKernel.cur, NEW p \in Processes
    PROVE  LET y == [x EXCEPT !.proc = p] IN Good(y, NoThread) /\ y.halt = x.halt
<1> DEFINE y == [x EXCEPT !.proc = p]
<1>1. x \in KernelState /\ CoresOK(x)
  BY DEF Good, Sound, Rest
<1>2. y \in KernelState
  BY <1>1, Put_proc
<1>3. /\ y.th = x.th /\ y.wl = x.wl /\ y.mx = x.mx /\ y.ses = x.ses /\ y.rq = x.rq
      /\ y.arb = x.arb /\ y.wake = x.wake /\ y.cur = x.cur /\ y.port = x.port /\ y.tev = x.tev
      /\ y.halt = x.halt
  BY ONLY <1>1 DEF KernelState
<1> HIDE DEF y
<1>4. SameThreadsAndObjects(x, y)
  BY <1>2, <1>3 DEF SameThreadsAndObjects
<1>5. \A c \in Cores : y.cur[c] = NoThread
  BY <1>3, BootIs DEF Booted
<1>6. \A t \in Threads : y.th[t].status # "Running"
  BY <1>1, <1>3, <1>5, NotNoThread, KernelAssumption DEF CoresOK
<1>7. CoresOK(y)
  BY <1>5, <1>6 DEF CoresOK
<1>8. Good(y, NoThread)
  BY <1>4, <1>7, SameGood
<1> QED BY <1>3, <1>8 DEF y

LEMMA InitKInv ==
    ASSUME Init
    PROVE  KInv
<1> DEFINE First(order) ==
               /\ order # <<>>
               /\ k = [ForEach(CreateMain, BootKernel, order)
                         EXCEPT !.proc = ProcOf[order[Len(order)]]]
<1>0. \E order \in SetToSeqs(MainThreads) : First(order)
  BY Zenon DEF Init
<1> HIDE DEF First
<1>1. PICK order \in SetToSeqs(MainThreads) : First(order)
  BY <1>0
<1> USE DEF First
<1> DEFINE y == ForEach(CreateMain, BootKernel, order)
           p == ProcOf[order[Len(order)]]
           z == [y EXCEPT !.proc = p]
<1>2. k = z
  BY <1>1
<1>3. Listing(order, MainThreads)
  <2>1. IsFiniteSet(MainThreads)
    BY KernelAssumption, FS_Subset
  <2> QED BY <1>1, <2>1, ListingIs
<1>4. p \in Processes
  <2>1. order \in Seq(MainThreads) /\ order # <<>>
    BY <1>1, <1>3 DEF Listing
  <2>2. order[Len(order)] \in MainThreads
    BY <2>1
  <2> QED BY <2>2, KernelAssumption DEF Processes
<1>5. Good(y, NoThread) /\ ~y.halt /\ y.cur = BootKernel.cur
  BY <1>3, AllCreated
<1> HIDE DEF y, p
<1>6. Good(z, NoThread) /\ z.halt = y.halt
  BY <1>4, <1>5, FirstProcess
<1> HIDE DEF z
<1>7. LoopOK(z, loop)
  <2>1. loop.phase = "top" /\ loop.core = 0
    BY DEF Init
  <2> QED BY <2>1, CoresNat DEF LoopOK
<1> QED BY <1>2, <1>5, <1>6, <1>7 DEF KInv, Inv


-----------------------------------------------------------------------------
(* The inductive invariant.                                                *)

LEMMA SvcKeeps ==
    ASSUME KInv, NEW t \in Threads, Svc(t)
    PROVE  KInv'
<1>1. CASE \E o \in Targets, timeout \in Timeouts : WaitSynchronization1(t, o, timeout)
  BY <1>1, WaitOneKeeps
<1>2. CASE \E objs \in WaitLists, all \in BOOLEAN, timeout \in Timeouts :
              WaitSynchronizationN(t, objs, all, timeout)
  BY <1>2, WaitManyKeeps
<1>3. CASE \E m \in Mutexes : SvcReleaseMutex(t, m)
  BY <1>3, ReleaseMutexKeeps
<1>4. CASE \E s \in Semaphores, n \in ReleaseCounts : SvcReleaseSemaphore(t, s, n)
  BY <1>4, ReleaseSemaphoreKeeps
<1>5. CASE \E e \in Events : SvcSignalEvent(t, e)
  BY <1>5, SignalEventKeeps
<1>6. CASE \E o \in Events \cup Timers : SvcClear(t, o)
  BY <1>6, ClearKeeps
<1>7. CASE \E o \in Timers, immediate, periodic \in BOOLEAN : SvcSetTimer(t, o, immediate, periodic)
  BY <1>7, SetTimerKeeps
<1>8. CASE \E o \in Timers : SvcCancelTimer(t, o)
  BY <1>8, CancelTimerKeeps
<1>9. CASE \E u \in Threads, p \in Prios, full \in BOOLEAN : SvcCreateThread(t, u, p, full)
  BY <1>9, CreateThreadKeeps
<1>10. CASE SvcExitThread(t)
  BY <1>10, ExitThreadKeeps
<1>11. CASE \E u \in Threads, p \in Prios : SvcSetThreadPriority(t, u, p)
  BY <1>11, SetThreadPriorityKeeps
<1>12. CASE \E timeout \in Timeouts : SvcSleepThread(t, timeout)
  BY <1>12, SleepKeeps
<1>13. CASE \E a \in Addresses, n \in ArbValues : SvcArbitrateSignal(t, a, n)
  BY <1>13, ArbitrateSignalKeeps
<1>14. CASE \E a \in Addresses, v \in ArbValues, decrement \in BOOLEAN,
               timeout \in {"none"} \cup (Timeouts \ {"zero"}) :
               SvcArbitrateWait(t, a, v, decrement, timeout)
  BY <1>14, ArbitrateWaitKeeps
<1>15. CASE \E a \in Addresses, v \in ArbValues : Store(t, a, v)
  BY <1>15, StoreKeeps
<1>16. CASE \E S \in SUBSET Threads, allowed \in BOOLEAN : SvcScheduleThreads(t, S, allowed)
  BY <1>16, ScheduleThreadsKeeps
<1>17. CASE SvcExitProcess(t)
  BY <1>17, ExitProcessKeeps
<1>18. CASE \E p \in Ports : SvcConnectToPort(t, p) \/ SvcAcceptSession(t, p)
  BY <1>18, ConnectKeeps, AcceptKeeps
<1>19. CASE \E s \in Sessions :
               SvcSendSyncRequest(t, s) \/ SvcCloseClient(t, s) \/ SvcCloseServer(t, s)
  BY <1>19, SendKeeps, CloseClientKeeps, CloseServerKeeps
<1>20. CASE SvcSendHleRequest(t)
  BY <1>20, HleRequestKeeps
<1>21. CASE \E objs \in WaitLists \cup {<<>>}, reply \in Sessions \cup {NoSession} :
               ReplyAndReceive(t, objs, reply)
  BY <1>21, ReplyKeeps
<1> QED
  BY <1>1, <1>2, <1>3, <1>4, <1>5, <1>6, <1>7, <1>8, <1>9, <1>10, <1>11, <1>12, <1>13, <1>14,
     <1>15, <1>16, <1>17, <1>18, <1>19, <1>20, <1>21, Zenon DEF Svc

LEMMA NextKeeps ==
    ASSUME KInv, [Next]_vars
    PROVE  KInv'
<1>1. CASE \E lag \in SUBSET Cores : lag # Cores /\ LoopTop(lag)
  BY <1>1, LoopTopKeeps
<1>2. CASE LagDone
  BY <1>2, LagDoneKeeps
<1>3. CASE AdvanceDone
  BY <1>3, AdvanceDoneKeeps
<1>4. CASE Idle \/ EndSlice
  BY <1>4, IdleKeeps
<1>5. CASE SystemReschedule
  BY <1>5, SystemRescheduleKeeps
<1>6. CASE \E t \in Threads : FireThreadWakeup(t)
  BY <1>6, FireThreadWakeupKeeps
<1>7. CASE \E o \in Timers : FireTimer(o)
  BY <1>7, FireTimerKeeps
<1>8. CASE \E t \in Threads : Svc(t)
  BY <1>8, SvcKeeps
<1>9. CASE UNCHANGED vars
  <2>1. k' = k /\ loop' = loop
    BY <1>9 DEF vars
  <2> QED BY <2>1 DEF KInv
<1> QED BY <1>1, <1>2, <1>3, <1>4, <1>5, <1>6, <1>7, <1>8, <1>9, Zenon DEF Next, LoopStep

\* In every state of the kernel: KInv, from which the properties follow.
THEOREM Invariant == Spec => []KInv
<1>1. Init => KInv
  BY InitKInv
<1>2. KInv /\ [Next]_vars => KInv'
  BY NextKeeps
<1> QED BY <1>1, <1>2, PTL DEF Spec


-----------------------------------------------------------------------------
(* The properties.                                                         *)

LEMMA KInvIs ==
    ASSUME KInv
    PROVE  /\ k \in KernelState /\ ListsOK(k, NoThread, {}) /\ MutexOK(k, NoThread)
           /\ PrioOK(k, {NoThread}) /\ ThreadsOK(k, NoThread) /\ SessionsOK(k)
           /\ QueuesOK(k) /\ ArbOK(k) /\ WakeOK(k) /\ CoresOK(k) /\ PortsOK(k) /\ TimersOK(k)
           /\ LoopOK(k, loop)
  BY DEF KInv, Inv, Good, Sound, Rest

LEMMA LinksHold ==
    ASSUME KInv, NEW c \in Cores
    PROVE  LET q == k.rq[c]
           IN /\ q.first \in Linked(q) \cup {NullPtr}
              /\ \A p \in Linked(q) : q.next[p] \in Linked(q) \cup {NullPtr}
<1> DEFINE q == k.rq[c]
<1>1. Sorted(q)
  BY KInvIs DEF QueuesOK, QueueOK
<1> HIDE DEF q
<1>2. ASSUME NEW v, NEW S, Best(v, S)
      PROVE  v \in S \cup {NullPtr}
  BY <1>2 DEF Best
<1>3. q.first \in Linked(q) \cup {NullPtr}
  BY <1>1, <1>2 DEF Sorted
<1>4. ASSUME NEW p \in Linked(q)
      PROVE  q.next[p] \in Linked(q) \cup {NullPtr}
  <2>1. q.next[p] \in Below(q, p) \cup {NullPtr}
    BY <1>1, <1>2 DEF Sorted
  <2> QED BY <2>1 DEF Below
<1> QED BY <1>3, <1>4 DEF q

LEMMA TypeOKHolds ==
    ASSUME KInv
    PROVE  TypeOK
<1>1. k \in KernelState /\ LoopOK(k, loop)
  BY KInvIs
<1>2. \A c \in Cores :
         LET q == k.rq[c]
         IN /\ q.first \in Linked(q) \cup {NullPtr}
            /\ \A p \in Linked(q) : q.next[p] \in Linked(q) \cup {NullPtr}
  BY LinksHold
<1>3. /\ loop.phase \in Phases /\ loop.core \in Cores
      /\ loop.phase = "lag" => loop.lag \subseteq Cores
  BY <1>1 DEF LoopOK, Phases
<1> QED BY <1>1, <1>2, <1>3, Zenon DEF TypeOK

LEMMA WaitListsHold ==
    ASSUME KInv
    PROVE  WaitListsConsistent
<1>1. ListsOK(k, NoThread, {}) /\ ThreadsOK(k, NoThread) /\ ArbOK(k)
  BY KInvIs
<1>2. \A t \in Threads : WaitsFor(k, NoThread, {}, t) = ToSet(k.th[t].waitObjs) /\ t # NoThread
  BY NotNoThread DEF WaitsFor
<1>3. \A t \in Threads :
         /\ \A o \in WaitObject : t \in ToSet(k.wl[o]) <=> o \in ToSet(k.th[t].waitObjs)
         /\ k.th[t].pending = ToSet(k.th[t].waitObjs) \cap Mutexes
  BY <1>1, <1>2 DEF ListsOK
<1>4. \A t \in Threads : k.th[t].waitObjs # <<>> => Waiting(t)
  BY <1>1, <1>2 DEF ThreadsOK, Sync, Waiting
<1>5. \A t \in Threads : k.th[t].status = "WaitArb" <=> t \in ToSet(k.arb)
  BY <1>1 DEF ArbOK
<1> QED BY <1>3, <1>4, <1>5, Zenon DEF WaitListsConsistent

LEMMA OwnershipHolds ==
    ASSUME KInv
    PROVE  MutexOwnership
<1>1. k \in KernelState /\ MutexOK(k, NoThread)
  BY KInvIs
<1>2. \A m \in Mutexes : k.mx[m].holder \in MaybeThread
  BY <1>1, MutexFields
<1> QED BY <1>1, <1>2, NotNoThread DEF MutexOwnership, MutexOK, Alive, MaybeThread

LEMMA PriorityHolds ==
    ASSUME KInv
    PROVE  InheritsPriority
<1>1. PrioOK(k, {NoThread})
  BY KInvIs
<1> QED BY <1>1, NotNoThread DEF InheritsPriority, PrioOK, Inherited, Alive

LEMMA WakeupsHold ==
    ASSUME KInv
    PROVE  WakeupEventsMatchWaits
  BY KInvIs DEF WakeupEventsMatchWaits, WakeOK

LEMMA TimersHold ==
    ASSUME KInv
    PROVE  OneTimerEvent
  BY KInvIs DEF OneTimerEvent, TimersOK

LEMMA RequestsHold ==
    ASSUME KInv
    PROVE  RequestsTracked
<1>1. k \in KernelState /\ SessionsOK(k)
  BY KInvIs
<1>2. ASSUME NEW t \in Threads, k.th[t].req # NoSession,
             k.ses[k.th[t].req].client, k.ses[k.th[t].req].alive
      PROVE  t \in ToSet(k.ses[k.th[t].req].pending) \cup {k.ses[k.th[t].req].handling}
  <2> DEFINE s == k.th[t].req
  <2>1. s \in Sessions
    <3>1. k.th[t] \in ThreadRec
      BY <1>1, ThType
    <3>2. s \in Sessions \cup {NoSession}
      BY <3>1, ThreadFields
    <3> QED BY <1>2, <3>2
  <2>2. t \in Requesting(k, s)
    BY <1>1, <1>2, <2>1 DEF SessionsOK
  <2> QED BY <2>2 DEF Requesting
<1>3. \A s \in Sessions : \A t \in (ToSet(k.ses[s].pending) \cup {k.ses[s].handling}) \ {NoThread} :
          k.th[t].status = "WaitIPC" /\ k.th[t].req = s
  BY <1>1 DEF SessionsOK, Requesting
<1> QED BY <1>2, <1>3, Zenon DEF RequestsTracked

LEMMA CountsHold ==
    ASSUME KInv
    PROVE  SessionsCounted
<1>1. PortsOK(k)
  BY KInvIs
<1> QED BY <1>1 DEF PortsOK, SessionsCounted, ServersOf

LEMMA RunningHold ==
    ASSUME KInv
    PROVE  RunningThreads
<1>1. CoresOK(k) /\ LoopOK(k, loop)
  BY KInvIs
<1>2. \A t \in Threads : k.th[t].status = "Running" => k.cur[CoreOf[t]] = t
  BY <1>1 DEF CoresOK
<1>3. loop.phase \in {"run", "solo"} => Fresh(k, loop.core)
  <2> DEFINE c == loop.core
  <2>1. c \in Cores
    BY <1>1 DEF LoopOK
  <2> HIDE DEF c
  <2>2. c >= c
    BY <2>1, CoresNat
  <2> QED BY <1>1, <2>1, <2>2 DEF LoopOK, c
<1> QED BY <1>2, <1>3 DEF RunningThreads, Fresh

LEMMA QueuesHold ==
    ASSUME KInv
    PROVE  ReadyQueuesConsistent
<1>1. k \in KernelState /\ QueuesOK(k)
  BY KInvIs
<1>2. ASSUME NEW c \in Cores
      PROVE  /\ k.rq[c] \in QueueList(ThreadsOf(c)) /\ Sorted(k.rq[c]) /\ Distinct(k.rq[c])
             /\ QueueOK(k.th, c, k.rq[c])
  BY <1>1, RqType DEF QueuesOK, QueueOK
<1>3. ASSUME NEW c \in Cores, NEW p \in Priority
      PROVE  LET d == k.rq[c].data[p]
             IN /\ \A i \in DOMAIN d : /\ CoreOf[d[i]] = c
                                       /\ k.th[d[i]].status = "Ready"
                                       /\ k.th[d[i]].current = p
                /\ IsInjective(d)
                /\ d # <<>> => \E i \in 0 .. NumPriorities : Path(k.rq[c])[i] = p
  <2> DEFINE q == k.rq[c]
             d == q.data[p]
  <2>1. q \in QueueList(ThreadsOf(c)) /\ Sorted(q) /\ Distinct(q) /\ QueueOK(k.th, c, q)
    BY <1>2
  <2> HIDE DEF q
  <2>2. d \in Seq(ThreadsOf(c))
    BY <2>1, QueueFields
  <2>3. \A t \in ToSet(d) : t \in ThreadsOf(c) /\ k.th[t].status = "Ready" /\ k.th[t].current = p
    <3>1. ToSet(d) \subseteq ThreadsOf(c)
      BY <2>2 DEF ToSet
    <3> QED BY <2>1, <3>1 DEF QueueOK
  <2>4. IsInjective(d)
    BY <2>1 DEF Distinct
  <2>5. ASSUME d # <<>>
        PROVE  \E i \in 0 .. NumPriorities : Path(q)[i] = p
    <3> HIDE DEF d
    <3>1. Head(d) \in ToSet(d)
      BY <2>2, <2>5, HeadTail
    <3>2. k.th[Head(d)].current \in Linked(q)
      BY <2>1, <2>3, <3>1 DEF QueueOK
    <3>3. p \in Linked(q)
      BY <2>3, <3>1, <3>2
    <3> QED BY <2>1, <3>3, LinkedIsReached
  <2>6. \A i \in DOMAIN d : d[i] \in ToSet(d)
    BY DEF ToSet
  <2> HIDE DEF d
  <2> QED BY <2>3, <2>4, <2>5, <2>6 DEF ThreadsOf, d, q
<1>4. ASSUME NEW t \in Threads, k.th[t].status = "Ready"
      PROVE  t \in ToSet(k.rq[CoreOf[t]].data[k.th[t].current])
  <2>1. CoreOf[t] \in Cores /\ t \in ThreadsOf(CoreOf[t])
    BY <1>1, RqOf
  <2>2. k.th[t].current \in Priority
    BY <1>1, ThType, ThreadFields
  <2> QED BY <1>2, <1>4, <2>1, <2>2 DEF QueueOK
<1> QED BY <1>3, <1>4, Zenon DEF ReadyQueuesConsistent

LEMMA RunningCoreHold ==
    ASSUME KInv, NumCores <= 2
    PROVE  RunningCoreIsCurrentCPU
  BY KInvIs DEF RunningCoreIsCurrentCPU, LoopOK

LEMMA CurrentProcessHold ==
    ASSUME KInv, NumCores <= 2
    PROVE  CurrentProcessIsCallers
<1>1. CoresOK(k) /\ LoopOK(k, loop)
  BY KInvIs
<1>2. ASSUME loop.phase \in {"run", "solo"}, k.cur[loop.core] # NoThread
      PROVE  k.proc = ProcOf[k.cur[loop.core]]
  <2>1. k.cpu = loop.core /\ loop.core \in Cores
    BY <1>1, <1>2 DEF LoopOK
  <2> QED BY <1>1, <1>2, <2>1 DEF CoresOK, ProcessOf
<1> QED BY <1>2 DEF CurrentProcessIsCallers

\* Entering a phase leaves the cores' threads as they are.
LEMMA EnterKeepsBest ==
    ASSUME NEW x, Good(x, NoThread), NEW c \in Cores, NEW phase \in Phases, NEW d, BestRuns(x, d)
    PROVE  BestRuns(Enter(x, phase, c), d)
<1>1. Enter(x, phase, c).th = x.th /\ Enter(x, phase, c).cur = x.cur
  BY EnterGood
<1> QED BY <1>1 DEF BestRuns

LEMMA CoreDoneBest ==
    ASSUME KInv, LagDone \/ AdvanceDone
    PROVE  BestRuns(k', loop.core)
<1> DEFINE c == loop.core
           y == Reschedule(k, c)
<1>1. Good(k, NoThread) /\ c \in Cores
  BY DEF KInv, Inv, LoopOK
<1>2. \E phase \in Phases, d \in Cores : \E lag : GoTo(y, phase, d, lag)
  <2>1. CASE LagDone
    <3> DEFINE later == {d \in loop.lag : d > c}
               m == Min(later)
    <3>1. loop.phase = "lag" /\ loop.lag \subseteq Cores
      BY <2>1 DEF KInv, Inv, LoopOK, LagDone
    <3>2. \E to \in IF later # {} THEN {<<"lag", m, loop.lag>>}
                    ELSE {<<"advance", 0, {}>>} \cup {<<"solo", d, {}>> : d \in loop.lag} :
              GoTo(y, to[1], to[2], to[3])
      BY <2>1 DEF LagDone
    <3> HIDE DEF y
    <3>3. CASE later # {}
      <4>1. m \in Cores
        <5>1. later \in SUBSET Cores
          BY <3>1
        <5>2. m \in later
          <6> HIDE DEF later
          <6> QED BY <3>3, <5>1, LeastCore
        <5> QED BY <5>1, <5>2
      <4> HIDE DEF m
      <4>2. GoTo(y, "lag", m, loop.lag)
        BY <3>2, <3>3
      <4> QED BY <4>1, <4>2 DEF Phases
    <3>4. CASE later = {}
      <4>1. PICK to \in {<<"advance", 0, {}>>} \cup {<<"solo", d, {}>> : d \in loop.lag} :
                GoTo(y, to[1], to[2], to[3])
        BY <3>2, <3>4
      <4>2. to[1] \in Phases /\ to[2] \in Cores
        BY <3>1, CoresNat DEF Phases
      <4> QED BY <4>1, <4>2
    <3> QED BY <3>3, <3>4
  <2>2. CASE AdvanceDone
    <3> DEFINE phase == IF c + 1 \in Cores THEN "advance" ELSE "run"
               d == IF c + 1 \in Cores THEN c + 1 ELSE 0
    <3>1. GoTo(y, phase, d, {})
      BY <2>2 DEF AdvanceDone
    <3>2. phase \in Phases /\ d \in Cores
      BY CoresNat DEF Phases
    <3> HIDE DEF phase, d, y
    <3> QED BY <3>1, <3>2
  <2> QED BY <2>1, <2>2
<1>3. PICK phase \in Phases, d \in Cores : \E lag : GoTo(y, phase, d, lag)
  BY <1>2
<1>4. k' = Enter(y, phase, d)
  BY <1>3 DEF GoTo
<1>5. Good(y, NoThread) /\ BestRuns(y, c)
  BY <1>1, RescheduledGood DEF BestOn
<1> HIDE DEF y, c
<1>6. BestRuns(Enter(y, phase, d), c)
  BY <1>5, EnterKeepsBest
<1> QED BY <1>4, <1>6 DEF c

LEMMA AllDoneBest ==
    ASSUME KInv, SystemReschedule, k.resched
    PROVE  \A c \in Cores : BestRuns(k', c)
<1> DEFINE a == ClearResched(k)
           b == ForEach(Reschedule, a, [i \in 1 .. NumCores |-> i - 1])
<1>1. Good(k, NoThread) /\ ~k.halt
  BY DEF KInv, Inv
<1>2. Good(a, NoThread) /\ a.halt = k.halt
  BY <1>1, FlagsGood
<1>3. k' = Enter(b, "top", 0)
  BY DEF SystemReschedule, ClearResched, GoTo
<1> HIDE DEF a
<1>4. Good(b, NoThread) /\ \A c \in Cores : BestRuns(b, c)
  BY <1>1, <1>2, AllRescheduled
<1> HIDE DEF b
<1>5. "top" \in Phases /\ 0 \in Cores
  BY CoresNat DEF Phases
<1>6. \A c \in Cores : BestRuns(Enter(b, "top", 0), c)
  BY <1>4, <1>5, EnterKeepsBest
<1> QED BY <1>3, <1>6

\* The programs run in two phases only.
LEMMA SvcRuns ==
    ASSUME NEW t, Svc(t)
    PROVE  loop.phase \in {"run", "solo"}
<1>1. \E name : Call(name, t)
  BY Zenon DEF Svc, WaitSynchronization1, WaitSynchronizationN, SvcReleaseMutex,
     SvcReleaseSemaphore, SvcSignalEvent, SvcClear, SvcSetTimer, SvcCancelTimer, SvcCreateThread,
     SvcExitThread, SvcSetThreadPriority, SvcSleepThread, SvcArbitrateSignal, SvcArbitrateWait,
     Store, SvcScheduleThreads, SvcExitProcess, SvcConnectToPort, SvcAcceptSession,
     SvcSendSyncRequest, SvcCloseClient, SvcCloseServer, SvcSendHleRequest, ReplyAndReceive
<1> QED BY <1>1 DEF Call

\* Only a reschedule takes the loop on from a core that is caught up, or from the end.
LEMMA OnlyReschedules ==
    ASSUME Next
    PROVE  /\ loop.phase \in {"lag", "advance"} /\ loop' # loop => LagDone \/ AdvanceDone
           /\ loop.phase = "end" => SystemReschedule
<1>1. CASE LoopStep
  BY <1>1 DEF LoopStep, LoopTop, Idle, EndSlice, LagDone, AdvanceDone, SystemReschedule
<1>2. CASE \E t \in Threads : FireThreadWakeup(t)
  BY <1>2 DEF FireThreadWakeup
<1>3. CASE \E o \in Timers : FireTimer(o)
  BY <1>3 DEF FireTimer
<1>4. CASE \E t \in Threads : Svc(t)
  BY <1>4, SvcRuns
<1> QED BY <1>1, <1>2, <1>3, <1>4 DEF Next

\* What the steps do that RescheduleRunsBest is about.
RunsBest ==
    /\ loop.phase \in {"lag", "advance"} /\ loop' # loop => BestRuns(k', loop.core)
    /\ loop.phase = "end" /\ k.resched => \A c \in Cores : BestRuns(k', c)

LEMMA BestHolds ==
    ASSUME KInv, [Next]_vars
    PROVE  [RunsBest]_vars
<1>1. CASE Next
  <2>1. loop.phase \in {"lag", "advance"} /\ loop' # loop => BestRuns(k', loop.core)
    BY <1>1, OnlyReschedules, CoreDoneBest
  <2>2. loop.phase = "end" /\ k.resched => \A c \in Cores : BestRuns(k', c)
    BY <1>1, OnlyReschedules, AllDoneBest
  <2> QED BY <2>1, <2>2 DEF RunsBest
<1>2. CASE UNCHANGED vars
  BY <1>2
<1> QED BY <1>1, <1>2

-----------------------------------------------------------------------------
(* The theorems.                                                           *)

\* The kernel's variables range over the values that thread.h, mutex.h, session.h, the
\* ports' headers, kernel.h and thread_queue_list.h declare for them, through every
\* supervisor call, event and reschedule: a core's ready queue holds only threads of that
\* core and links only prepared levels, and a core's registers, a thread's context and what
\* a thread is owed are results of calls.
THEOREM TypeCorrect == Spec => []TypeOK
<1>1. KInv => TypeOK
  BY TypeOKHolds
<1> QED BY <1>1, Invariant, PTL

\* Whatever calls and events interleave, waiting_threads, wait_objects and pending_mutexes
\* are views of one relation, only waiting threads are in it, and the arbiter's list holds
\* exactly the threads that wait for an address.
THEOREM WaitListsAgree == Spec => []WaitListsConsistent
<1>1. KInv => WaitListsConsistent
  BY WaitListsHold
<1> QED BY <1>1, Invariant, PTL

\* lock_count, holding_thread and held_mutexes agree, and no dead thread holds a mutex:
\* Mutex::Acquire, Mutex::Release and ReleaseThreadMutexes leave none of them behind.
THEOREM MutexesOwned == Spec => []MutexOwnership
<1>1. KInv => MutexOwnership
  BY OwnershipHolds
<1> QED BY <1>1, Invariant, PTL

\* A live thread always runs at the best of its nominal priority and those of the mutexes it
\* holds, through every boost that Acquire, Release, a new waiter, a timeout, an exit and
\* SetThreadPriority cause (Thread::UpdatePriority, Mutex::UpdatePriority).
THEOREM PriorityInherited == Spec => []InheritsPriority
<1>1. KInv => InheritsPriority
  BY PriorityHolds
<1> QED BY <1>1, Invariant, PTL

\* A ThreadWakeup event never outlives its wait into the next one: there is at most one, and
\* the callback finds a thread that waits or has just been resumed (Thread::Stop and
\* ThreadManager::SwitchContext unschedule it).
THEOREM WakeupsMatch == Spec => []WakeupEventsMatchWaits
<1>1. KInv => WakeupEventsMatchWaits
  BY WakeupsHold
<1> QED BY <1>1, Invariant, PTL

\* Timer::Set cancels before it schedules, on whichever core it is called, so that a timer
\* has at most one event.
THEOREM TimerEventUnique == Spec => []OneTimerEvent
<1>1. KInv => OneTimerEvent
  BY TimersHold
<1> QED BY <1>1, Invariant, PTL

\* A running thread is the current thread of its own core, and the core that executes
\* instructions never executes a thread that waits, is ready or has exited.
THEOREM RunningAreCurrent == Spec => []RunningThreads
<1>1. KInv => RunningThreads
  BY RunningHold
<1> QED BY <1>1, Invariant, PTL

\* A client that waits for an answer is pending or being handled while both ends of its
\* session exist, and no thread is kept for an answer it does not wait for
\* (ServerSession::HandleSyncRequest, ReplyAndReceive, the destructors).
THEOREM RequestsAreTracked == Spec => []RequestsTracked
<1>1. KInv => RequestsTracked
  BY RequestsHold
<1> QED BY <1>1, Invariant, PTL

\* active_sessions is the number of a port's ServerSessions that exist, and in bounds, in
\* whatever order its sessions are connected, accepted and closed.
THEOREM SessionsAreCounted == Spec => []SessionsCounted
<1>1. KInv => SessionsCounted
  BY CountsHold
<1> QED BY <1>1, Invariant, PTL

\* The ready queue of a core holds its ready threads, each once and at its current priority,
\* at levels that the search from `first' on reaches: none is invisible to the scheduler.
THEOREM QueuesConsistent == Spec => []ReadyQueuesConsistent
<1>1. KInv => ReadyQueuesConsistent
  BY QueuesHold
<1> QED BY <1>1, Invariant, PTL

\* Whatever thread a core runs after PopNextReadyThread and SwitchContext, no ready thread of
\* that core that may be scheduled has a better priority: the search skips the parked threads,
\* ends before the list does, and puts them back.
THEOREM ReschedulesPickBest == Spec => RescheduleRunsBest
<1>1. KInv /\ [Next]_vars => [RunsBest]_vars
  BY BestHolds
<1>2. Spec => [][RunsBest]_vars
  BY <1>1, Invariant, PTL DEF Spec
<1> QED BY <1>2 DEF RescheduleRunsBest, RunsBest

\* With one or two cores (an old 3DS) the core that executes is the kernel's current CPU:
\* with more, the catch-up branch of RunLoop breaks it.
THEOREM CallsActOnCaller ==
    ASSUME NumCores <= 2
    PROVE  Spec => []RunningCoreIsCurrentCPU
<1>1. KInv => RunningCoreIsCurrentCPU
  BY RunningCoreHold
<1> QED BY <1>1, Invariant, PTL

\* With one or two cores a supervisor call sees the process of the thread that makes it:
\* SwitchContext and SetRunningCPU keep current_process and stored_processes in step.
THEOREM CallsSeeOwnProcess ==
    ASSUME NumCores <= 2
    PROVE  Spec => []CurrentProcessIsCallers
<1>1. KInv => CurrentProcessIsCallers
  BY CurrentProcessHold
<1> QED BY <1>1, Invariant, PTL

=============================================================================
