---------------------------- MODULE VkScheduler ----------------------------
(***************************************************************************)
(* The Vulkan renderer's Scheduler and MasterSemaphore: the emulation      *)
(* thread records commands into chunks, the worker thread executes them    *)
(* into a command buffer and submits it, the GPU works the submissions off *)
(* and, without timeline semaphores, a third thread waits for the fences.  *)
(* VkPresentWindow.tla adds the presentation of frames.                    *)
(*                                                                         *)
(* A critical section without a blocking call in it is one step, so the    *)
(* Scheduler's queue_mutex, reserve_mutex and execution_mutex need no      *)
(* variables: only the worker holds the last across steps (pc = "execute").*)
(***************************************************************************)
EXTENDS Integers, Sequences, SequencesExt, FiniteSets, FiniteSetsExt

CONSTANTS Frames,        \* PresentWindow::swap_chain
          NoFrame,       \* vk::Semaphore{} and nullptr
          ChunkSize,     \* commands that fit into CommandChunk::data
          GrowStep,      \* COMMAND_BUFFER_POOL_SIZE
          FlushCount,    \* 20 in RenderpassCache::EndRendering
          ShouldFlush    \* Instance::ShouldFlush()

ASSUME SchedulerAssumption ==
    /\ ChunkSize \in Nat \ {0} /\ GrowStep \in Nat \ {0}
    /\ FlushCount \in Nat /\ ShouldFlush \in BOOLEAN
    /\ IsFiniteSet(Frames) /\ NoFrame \notin Frames

VARIABLES mode,       \* [timeline, worker, present]: which of the variants runs
          main,       \* the emulation thread: the rest of its call, its frame
          rp,         \* RenderpassCache: rendering, cmd_count
          chunk,      \* the chunk that is recorded
          workQueue,  \* work_queue
          reserve,    \* the number of chunks in chunk_reserve
          worker,     \* the worker thread: pc, and its chunk
          sem,        \* current_tick and gpu_tick
          pool,       \* CommandPool: ticks, hint_iterator, current_cmdbuf
          fences,     \* MasterSemaphoreFence: the values of wait_queue
          gpu,        \* the queue, the timeline semaphore, the semaphores signaled
          eventCv     \* the threads asleep in event_cv

-----------------------------------------------------------------------------
(* The command pool.                                                       *)

\* The positions in the order the two searches visit them.
SearchOrder(p) ==
    LET n == Len(p.ticks) IN [i \in 1 .. n |-> ((p.hint + i - 1) % n) + 1]

\* The first of the buffers in the set free, else the first of GrowStep new ones,
\* is stamped with the tick and becomes current_cmdbuf.
Take(p, free, tick) ==
    LET found == {i \in DOMAIN SearchOrder(p) : SearchOrder(p)[i] \in free}
        at == IF found = {} THEN Len(p.ticks) + 1 ELSE SearchOrder(p)[Min(found)]
        ticks == IF found = {} THEN p.ticks \o [i \in 1 .. GrowStep |-> 0] ELSE p.ticks
    IN [ticks |-> [ticks EXCEPT ![at] = tick], hint |-> at % Len(ticks), cur |-> at]

\* Faulty variant: a buffer is free once its tick is over for the CPU.
CommitSubmitted(p, gpuTick, tick) ==
    Take(p, {i \in DOMAIN p.ticks : p.ticks[i] < tick}, tick)

\* CommandPool::Commit: a buffer whose tick the GPU has passed is free.
Commit(p, gpuTick, tick) ==
    Take(p, {i \in DOMAIN p.ticks : gpuTick >= p.ticks[i]}, tick)

\* MasterSemaphore::Refresh; the compare-and-swap keeps the greater value.
Refresh(s) == IF mode.timeline THEN [s EXCEPT !.gpuTick = Max({@, gpu.counter})] ELSE s

-----------------------------------------------------------------------------
(* Commands.  `rec' stands for everything that only touches the command     *)
(* buffer: it takes room in a chunk, and no step of the worker.  A         *)
(* submission signals a tick and, for a frame, its render_ready.           *)

Draw == [op |-> "rec", tick |-> 0, frame |-> NoFrame]
SubmitCommand(v, f) == [op |-> "submit", tick |-> v, frame |-> f]
PresentCommand(f) == [op |-> "present", tick |-> 0, frame |-> f]

Visible(cmds) ==
    LET seen[i \in 0 .. Len(cmds)] ==
            IF i = 0 THEN <<>>
            ELSE IF cmds[i].op = "rec" THEN seen[i - 1] ELSE Append(seen[i - 1], cmds[i])
    IN seen[Len(cmds)]

NewChunk(used) == [cmds |-> <<>>, counted |-> used, submit |-> FALSE]

\* CommandChunk::Record.  recorded_counts is never reset, so a recycled chunk
\* counts as not empty.
ChunkRecord(c, cmds) ==
    [c EXCEPT !.cmds = @ \o cmds, !.counted = @ \/ cmds # <<>>]

\* What MasterSemaphore::SubmitWork puts into the GPU's queue.
Submission(cmd) ==
    [tick |-> cmd.tick, cmdbuf |-> pool.cur, signal |-> cmd.frame, wait |-> NoFrame]

\* SubmitWork under queue_mutex.
SubmitWork(cmd) ==
    /\ gpu' = [gpu EXCEPT !.queue = Append(@, Submission(cmd))]
    /\ fences' = IF mode.timeline THEN fences
                 ELSE Append(fences, cmd.tick)

-----------------------------------------------------------------------------
(* The worker thread.                                                      *)

mainVars == <<mode, main, rp, chunk>>

\* CondvarWait: the queue is looked at under queue_mutex.
WorkerSleep ==
    /\ worker.pc = "check" /\ "worker" \notin eventCv /\ workQueue = <<>>
    /\ eventCv' = eventCv \cup {"worker"}
    /\ UNCHANGED <<mainVars, workQueue, reserve, worker, sem, pool, fences, gpu>>

\* Faulty variant: the emulation thread, which may wait for the queue to become
\* empty, is not notified.
WorkerPopSilently ==
    /\ worker.pc = "check" /\ "worker" \notin eventCv /\ workQueue # <<>>
    /\ worker' = [pc |-> "execute", work |-> [Head(workQueue) EXCEPT !.cmds = Visible(@)]]
    /\ workQueue' = Tail(workQueue)
    /\ UNCHANGED <<mainVars, reserve, sem, pool, fences, gpu, eventCv>>

\* The chunk is popped, everyone is notified, and execution_mutex is taken
\* before queue_mutex is released.
WorkerPop ==
    /\ worker.pc = "check" /\ "worker" \notin eventCv /\ workQueue # <<>>
    /\ worker' = [pc |-> "execute", work |-> [Head(workQueue) EXCEPT !.cmds = Visible(@)]]
    /\ workQueue' = Tail(workQueue)
    /\ eventCv' = {}
    /\ UNCHANGED <<mainVars, reserve, sem, pool, fences, gpu>>

\* ExecuteAll, up to and with the next command that others can see; `present' is
\* VkPresentWindow's.
WorkerExecute ==
    /\ worker.pc = "execute" /\ worker.work.cmds # <<>>
    /\ Head(worker.work.cmds).op = "submit"
    /\ SubmitWork(Head(worker.work.cmds))
    /\ worker' = [worker EXCEPT !.work.cmds = Tail(@)]
    /\ UNCHANGED <<mainVars, workQueue, reserve, sem, pool, eventCv>>

\* After a submission the worker needs a new command buffer; then it releases
\* execution_mutex and puts the chunk into the reserve.
WorkerDone ==
    /\ worker.pc = "execute" /\ worker.work.cmds = <<>>
    /\ IF worker.work.submit
       THEN /\ sem' = Refresh(sem)
            /\ pool' = Commit(pool, sem'.gpuTick, sem.tick)
       ELSE UNCHANGED <<sem, pool>>
    /\ worker' = [pc |-> "check", work |-> NewChunk(FALSE)]
    /\ reserve' = reserve + 1
    /\ UNCHANGED <<mainVars, workQueue, fences, gpu, eventCv>>

-----------------------------------------------------------------------------
(* MasterSemaphoreFence's WaitThread, and the GPU (external).  The GPU      *)
(* completes the submissions of its queue in order; each waits for its     *)
(* semaphores.                                                             *)

\* The submissions that have not completed.
InFlight == {gpu.queue[i].tick : i \in DOMAIN gpu.queue} \ {0}

\* A fence is taken and waited for, and when waitForFences returns its value is
\* stored.
WaitThread ==
    /\ fences # <<>> /\ Head(fences) \notin InFlight
    /\ sem' = [sem EXCEPT !.gpuTick = Head(fences)]
    /\ fences' = Tail(fences)
    /\ UNCHANGED <<mainVars, workQueue, reserve, worker, pool, gpu, eventCv>>

\* The semaphores the submission waits for are signaled.
MayStart(s) ==
    /\ s.wait # NoFrame => s.wait \in gpu.ready
    /\ mode.timeline /\ s.tick > 0 => gpu.counter >= s.tick - 1

GpuState(q, n, ready, done) == [queue |-> q, counter |-> n, ready |-> ready, done |-> done]

GpuComplete ==
    /\ gpu.queue # <<>> /\ MayStart(Head(gpu.queue))
    /\ LET s == Head(gpu.queue)
       IN gpu' = GpuState(Tail(gpu.queue),
                          IF s.tick > 0 THEN s.tick ELSE gpu.counter,
                          (gpu.ready \ {s.wait}) \cup ({s.signal} \ {NoFrame}),
                          gpu.done \cup ({s.wait} \ {NoFrame}))
    /\ UNCHANGED <<mainVars, workQueue, reserve, worker, sem, pool, fences, eventCv>>

=============================================================================
