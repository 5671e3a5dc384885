----------------------------- MODULE Scheduler -----------------------------
(***************************************************************************)
(* ThreadManager: choosing and switching to the next thread of a core, and *)
(* KernelSystem's bookkeeping of which process each core runs.             *)
(*                                                                         *)
(* The kernel state gains                                                  *)
(*   k.cur[c]    core c's current_thread                                   *)
(*   k.reg[c]    what the registers r0, r1 of core c hold                  *)
(*   k.cpu       KernelSystem::current_cpu                                 *)
(*   k.proc      KernelSystem::current_process                             *)
(*   k.stored[c] stored_processes[c]                                       *)
(*   k.running   System::running_core                                      *)
(*   k.exited    the processes with ProcessStatus::Exited                  *)
(***************************************************************************)
EXTENDS KernelObjects

CONSTANTS NumCores,      \* 2, or 4 for a New 3DS
          ProcOf,        \* owner_process of every thread
          NoProcess      \* nullptr

ASSUME NumCoresAssumption == NumCores \in Nat \ {0}

Cores == 0 .. NumCores - 1

-----------------------------------------------------------------------------
(* PopNextReadyThread.  A search is a record s: the queue q it has popped   *)
(* from, the threads it has parked in unscheduled_ready_queue, the thread  *)
(* next that it chose once it is done, and whether it crashed.             *)

\* The current thread, if it could go on running.
StillRunning(k, c) ==
    IF k.cur[c] # NoThread /\ k.th[k.cur[c]].status = "Running" THEN k.cur[c] ELSE NoThread

\* Pop a thread that is better than t, or any if t is nullptr.
Pop(k, q, t) == IF t = NoThread THEN pop_first(q) ELSE pop_first_better(q, k.th[t].current)

\* Faulty variant: the search ends at a thread that must not be scheduled.
PopStepGivesUp(k, t, s, r) ==
    IF r.found /\ k.th[r.thread].canSchedule
    THEN [s EXCEPT !.done = TRUE, !.next = r.thread, !.q = r.q]
    ELSE [s EXCEPT !.done = TRUE, !.crash = r.crash, !.next = t]

\* One iteration, which popped r: a thread with can_schedule unset is parked and
\* the search goes on.
PopStep(k, t, s, r) ==
    IF ~r.found
    THEN [s EXCEPT !.done = TRUE, !.crash = r.crash, !.next = t]
    ELSE IF k.th[r.thread].canSchedule
    THEN [s EXCEPT !.done = TRUE, !.next = r.thread, !.q = r.q]
    ELSE [s EXCEPT !.q = r.q, !.parked = Append(@, r.thread)]

PopStart(k, c) ==
    [q |-> k.rq[c], parked |-> <<>>, next |-> NoThread, done |-> FALSE, crash |-> FALSE]

\* The search, with what is left when it ends.
PopNextReadyThread(k, c) ==
    LET t == StillRunning(k, c)
        step(s) == IF s.done THEN s ELSE PopStep(k, t, s, Pop(k, s.q, t))
        search[n \in 0 .. Cardinality(Threads) + 1] ==
            IF n = 0 THEN PopStart(k, c) ELSE step(search[n - 1])
    IN search[Cardinality(Threads) + 1]

\* The parked threads go back to their queues, last one first.
Refill(k, c, s) ==
    [Assert_(k, ~s.crash, "NullptrDereferenced") EXCEPT
        !.rq[c] = ForEach(LAMBDA q, t : push_back(q, k.th[t].current, t),
                           s.q, Reverse(s.parked))]

-----------------------------------------------------------------------------
(* Processes.                                                              *)

\* Faulty variant: whichever core switches, the current process changes.
SetCurrentProcessAlways(k, p, c) == [k EXCEPT !.proc = p]

SetCurrentProcessForCPU(k, p, c) ==
    IF k.cpu = c THEN [k EXCEPT !.proc = p] ELSE [k EXCEPT !.stored[c] = p]

SetRunningCPU(k, c) ==
    LET kk == IF k.proc = NoProcess THEN k ELSE [k EXCEPT !.stored[k.cpu] = k.proc]
    IN [kk EXCEPT !.cpu = c,
                  !.proc = IF kk.stored[c] = NoProcess THEN @ ELSE kk.stored[c]]

-----------------------------------------------------------------------------
\* Faulty variant: the thread that is preempted keeps its status.
SaveThreadStillRunning(k, c) ==
    LET t == k.cur[c]
    IN IF t = NoThread \/ k.th[t].status # "Running" THEN k
       ELSE [k EXCEPT !.th[t].ctx = k.reg[c], !.rq[c] = push_front(@, k.th[t].current, t)]

\* The part of SwitchContext about the thread that stops running: its registers
\* are saved, and it is ready again if it did not give up the core.
SaveThread(k, c) ==
    LET t == k.cur[c]
        saved == [k EXCEPT !.th[t].ctx = k.reg[c]]
    IN IF t = NoThread THEN k
       ELSE IF k.th[t].status = "Running"
       THEN [saved EXCEPT !.th[t].status = "Ready",
                          !.rq[c] = push_front(@, k.th[t].current, t)]
       ELSE saved

\* The part about the thread that starts running, after one of process prev.
LoadContext(k, c, next) ==
    [k EXCEPT !.reg[c] = k.th[next].ctx, !.th[next].ctx = NoResult]

ChangeProcess(k, c, next, prev) ==
    IF prev = ProcOf[next] THEN k ELSE SetCurrentProcessForCPU(k, ProcOf[next], c)

LoadThread(k, c, next, prev) ==
    LET ready == Assert_(k, k.th[next].status = "Ready", "ThreadMustBeReady")
        running == [CancelWakeup(ready, next) EXCEPT
                        !.cur[c] = next,
                        !.rq[c] = remove(@, k.th[next].current, next),
                        !.th[next].status = "Running"]
    IN LoadContext(ChangeProcess(running, c, next, prev), c, next)

\* Registers of an idle core and the saved context of a running thread are never
\* read before they are written again; they are reset to keep the states few.
SwitchContext(k, c, next) ==
    LET prev == IF k.cur[c] = NoThread THEN NoProcess ELSE ProcOf[k.cur[c]]
    IN IF next = NoThread
       THEN [SaveThread(k, c) EXCEPT !.cur[c] = NoThread, !.reg[c] = NoResult]
       ELSE LoadThread(SaveThread(k, c), c, next, prev)

\* ThreadManager::Reschedule, with the search s; nothing happens between idle
\* and idle.
SwitchTo(k, c, s) ==
    IF k.cur[c] = NoThread /\ s.next = NoThread THEN Refill(k, c, s)
    ELSE SwitchContext(Refill(k, c, s), c, s.next)

Reschedule(k, c) == SwitchTo(k, c, PopNextReadyThread(k, c))

=============================================================================
