-------------------------- MODULE VkPresentWindow --------------------------
(***************************************************************************)
(* PresentWindow and what the emulation thread does with it and with the   *)
(* Scheduler: drawing, flushing, finishing, and RenderToWindow, which      *)
(* takes a free frame, renders to it and has it presented by the present   *)
(* thread.                                                                 *)
(*                                                                         *)
(* main.todo is the rest of the emulation thread's call: a sequence of the *)
(* steps that other threads can tell apart.                                *)
(***************************************************************************)
EXTENDS VkScheduler

CONSTANT MaxCalls        \* bound: the calls of the emulation thread

VARIABLES freeQueue,     \* free_queue
          freeLock,      \* the emulation thread holds free_mutex
          presentQueue,  \* present_queue
          presenter,     \* the present thread: pc, and its frame
          frameCv        \* the threads asleep in frame_cv

presentVars == <<freeQueue, freeLock, presentQueue, presenter, frameCv>>
schedVars == <<workQueue, reserve, worker, sem, pool, fences, gpu, eventCv>>
vars == <<mainVars, schedVars, presentVars>>

Init ==
    /\ mode \in [timeline : BOOLEAN, worker : BOOLEAN, present : BOOLEAN]
    /\ main = [todo |-> <<>>, frame |-> NoFrame, calls |-> 0]
    /\ rp = [rendering |-> FALSE, count |-> 0]
    /\ chunk = NewChunk(FALSE) /\ workQueue = <<>> /\ reserve = 0
    /\ worker = [pc |-> "check", work |-> NewChunk(FALSE)]
    /\ sem = [tick |-> 1, gpuTick |-> 0]
    /\ pool = Commit([ticks |-> <<>>, hint |-> 0, cur |-> 0], 0, 1)
    /\ fences = <<>>
    /\ gpu = GpuState(<<>>, 0, {}, Frames)
    /\ eventCv = {} /\ frameCv = {}
    /\ freeQueue = SetToSeq(Frames) /\ freeLock = FALSE
    /\ presentQueue = <<>>
    /\ presenter = [pc |-> "check", frame |-> NoFrame]

-----------------------------------------------------------------------------
(* Present.                                                                *)

\* frame_cv.notify_one()
NotifyFrame ==
    \/ frameCv = {} /\ UNCHANGED frameCv
    \/ \E t \in frameCv : frameCv' = frameCv \ {t}

\* The command that Present records.
QueueFrame(f) ==
    /\ presentQueue' = Append(presentQueue, f)
    /\ NotifyFrame
    /\ UNCHANGED <<freeQueue, freeLock, presenter>>

WorkerPresent ==
    /\ worker.pc = "execute" /\ worker.work.cmds # <<>>
    /\ Head(worker.work.cmds).op = "present"
    /\ QueueFrame(Head(worker.work.cmds).frame)
    /\ worker' = [worker EXCEPT !.work.cmds = Tail(@)]
    /\ UNCHANGED <<mainVars, workQueue, reserve, sem, pool, fences, gpu, eventCv>>

\* CopyToSwapchain: the frame is copied when its render_ready is signaled, which
\* signals its present_done.
CopyToSwapchain(f) ==
    gpu' = [gpu EXCEPT !.queue =
               Append(@, [tick |-> 0, cmdbuf |-> 0, signal |-> NoFrame, wait |-> f])]

-----------------------------------------------------------------------------
(* The present thread.  It has swapchain_mutex from PresenterTake to        *)
(* PresenterFree.                                                          *)

PresenterSleep ==
    /\ mode.present /\ presenter.pc = "check" /\ "presenter" \notin frameCv
    /\ presentQueue = <<>>
    /\ frameCv' = frameCv \cup {"presenter"}
    /\ UNCHANGED <<mainVars, schedVars, freeQueue, freeLock, presentQueue, presenter>>

PresenterTake ==
    /\ presenter.pc = "check" /\ "presenter" \notin frameCv /\ presentQueue # <<>>
    /\ presenter' = [pc |-> "copy", frame |-> Head(presentQueue)]
    /\ presentQueue' = Tail(presentQueue)
    /\ NotifyFrame
    /\ UNCHANGED <<mainVars, schedVars, freeQueue, freeLock>>

PresenterCopy ==
    /\ presenter.pc = "copy"
    /\ CopyToSwapchain(presenter.frame)
    /\ presenter' = [presenter EXCEPT !.pc = "free"]
    /\ UNCHANGED <<mainVars, workQueue, reserve, worker, sem, pool, fences, eventCv,
                   freeQueue, freeLock, presentQueue, frameCv>>

\* Needs free_mutex.
PresenterFree ==
    /\ presenter.pc = "free" /\ ~freeLock
    /\ freeQueue' = Append(freeQueue, presenter.frame)
    /\ presenter' = [pc |-> "check", frame |-> NoFrame]
    /\ UNCHANGED <<mainVars, schedVars, freeLock, presentQueue, frameCv>>

-----------------------------------------------------------------------------
(* The emulation thread.                                                   *)

Op(name) == <<name, NoFrame>>
RecordOp(cmds) == <<"record", cmds>>
Submit(f) == <<"submit", f>>

At(name) == main.todo # <<>> /\ main.todo[1][1] = name

\* The step is done; ops are what it leaves to do first.
Then(ops) == main' = [main EXCEPT !.todo = ops \o Tail(@)]

\* Scheduler::Record, of some commands: into the chunk, and into the next one what
\* does not fit; without a worker thread they are executed at once.
MainRecord ==
    /\ At("record")
    /\ LET cmds == main.todo[1][2]
           room == ChunkSize - Len(chunk.cmds)
       IN \/ /\ mode.worker /\ Len(cmds) <= room
             /\ chunk' = ChunkRecord(chunk, cmds) /\ Then(<<>>)
             /\ UNCHANGED <<gpu, fences, presentVars>>
          \/ /\ mode.worker /\ Len(cmds) > room
             /\ chunk' = ChunkRecord(chunk, SubSeq(cmds, 1, room))
             /\ Then(<<Op("dispatch"), RecordOp(SubSeq(cmds, room + 1, Len(cmds)))>>)
             /\ UNCHANGED <<gpu, fences, presentVars>>
          \/ /\ ~mode.worker /\ Visible(cmds) = <<>>
             /\ Then(<<>>) /\ UNCHANGED <<chunk, gpu, fences, presentVars>>
          \/ /\ ~mode.worker /\ cmds # <<>> /\ cmds[1].op = "submit"
             /\ SubmitWork(cmds[1]) /\ Then(<<>>) /\ UNCHANGED <<chunk, presentVars>>
          \/ /\ ~mode.worker /\ cmds # <<>> /\ cmds[1].op = "present"
             /\ QueueFrame(cmds[1].frame) /\ Then(<<>>) /\ UNCHANGED <<chunk, gpu, fences>>
    /\ UNCHANGED <<mode, rp, workQueue, reserve, worker, sem, pool, eventCv>>

\* Scheduler::DispatchWork, after MarkSubmit for a submission, with notify_all: whoever
\* is not asleep yet looks at the queue first.  The chunk is moved away ...
MainDispatch ==
    /\ At("dispatch") \/ At("dispatchSubmit")
    /\ IF mode.worker /\ chunk.counted
       THEN /\ workQueue' = Append(workQueue, [chunk EXCEPT !.submit = At("dispatchSubmit")])
            /\ eventCv' = {}
            /\ chunk' = NewChunk(FALSE) /\ Then(<<Op("acquire")>>)
       ELSE UNCHANGED <<workQueue, eventCv, chunk>> /\ Then(<<>>)
    /\ UNCHANGED <<mode, rp, reserve, worker, sem, pool, fences, gpu, presentVars>>

\* ... and AcquireNewChunk takes another, which the worker may have put into the
\* reserve since.
MainAcquire ==
    /\ At("acquire")
    /\ chunk' = NewChunk(reserve > 0) /\ reserve' = Max({reserve - 1, 0})
    /\ Then(<<>>)
    /\ UNCHANGED <<mode, rp, workQueue, worker, sem, pool, fences, gpu, eventCv, presentVars>>

\* RenderpassCache::EndRendering, with the commands recorded after it; on some
\* drivers it flushes.
EndRendering(rest) ==
    IF rp.rendering /\ rp.count > FlushCount /\ ShouldFlush
    THEN /\ rp' = [rendering |-> FALSE, count |-> 0]
         /\ Then(<<RecordOp(<<Draw>>), Submit(NoFrame), RecordOp(rest)>>)
    ELSE /\ rp' = [rp EXCEPT !.rendering = FALSE]
         /\ Then(<<RecordOp((IF rp.rendering THEN <<Draw>> ELSE <<>>) \o rest)>>)

MainEndRendering ==
    /\ At("endRendering")
    /\ EndRendering(<<>>)
    /\ UNCHANGED <<mode, chunk, schedVars, presentVars>>

\* RenderToWindow: the rendering of the frame.
MainRender ==
    /\ At("render")
    /\ EndRendering(<<Draw>>)
    /\ UNCHANGED <<mode, chunk, schedVars, presentVars>>

\* The rest of SubmitExecution, with the signal_value v.
SubmitOps(v, f) ==
    (IF rp.rendering THEN <<Op("endRendering")>> ELSE <<>>)
        \o <<RecordOp(<<SubmitCommand(v, f)>>), Op(IF mode.worker THEN "dispatchSubmit" ELSE "commit")>>

\* Faulty variant: the tick is read and not advanced.
SubmitSameTick(f, rest) ==
    /\ UNCHANGED sem
    /\ Then(SubmitOps(sem.tick, f) \o rest)

\* Scheduler::SubmitExecution: the tick is taken before the rendering is ended.
SubmitExecution(f, rest) ==
    /\ sem' = [sem EXCEPT !.tick = @ + 1]
    /\ Then(SubmitOps(sem.tick, f) \o rest)

\* Flush, or the submission of a frame.
MainSubmit ==
    /\ At("submit")
    /\ SubmitExecution(main.todo[1][2], <<>>)
    /\ UNCHANGED <<mode, rp, chunk, workQueue, reserve, worker, pool, fences, gpu, eventCv, presentVars>>

\* AllocateWorkerCommandBuffers, without a worker thread.
MainCommit ==
    /\ At("commit")
    /\ sem' = Refresh(sem)
    /\ pool' = Commit(pool, sem'.gpuTick, sem.tick) /\ Then(<<>>)
    /\ UNCHANGED <<mode, rp, chunk, workQueue, reserve, worker, fences, gpu, eventCv, presentVars>>

\* Finish: waits for the tick it submits, so Scheduler::Wait never flushes.
MainFinish ==
    /\ At("finish")
    /\ SubmitExecution(NoFrame, <<<<"semWait", sem.tick>>>>)
    /\ UNCHANGED <<mode, rp, chunk, workQueue, reserve, worker, pool, fences, gpu, eventCv, presentVars>>

\* MasterSemaphore::Wait
MainSemWait ==
    /\ At("semWait")
    /\ LET v == main.todo[1][2]
       IN /\ sem' = IF sem.gpuTick >= v THEN sem ELSE Refresh(sem)
          /\ sem'.gpuTick >= v
    /\ Then(<<>>)
    /\ UNCHANGED <<mode, rp, chunk, workQueue, reserve, worker, pool, fences, gpu, eventCv, presentVars>>

\* GetRenderFrame, up to the wait for present_done: free_mutex stays locked.
MainGetFrame ==
    /\ At("getFrame") /\ freeQueue # <<>>
    /\ freeQueue' = Tail(freeQueue) /\ freeLock' = TRUE
    /\ main' = [main EXCEPT !.todo = <<Op("fence")>> \o Tail(@), !.frame = Head(freeQueue)]
    /\ UNCHANGED <<mode, rp, chunk, schedVars, presentQueue, presenter, frameCv>>

\* Faulty variant: without the present thread, the worker is not waited for.
PresentAtOnce(f) ==
    IF mode.present THEN <<RecordOp(<<PresentCommand(f)>>)>> ELSE <<Op("copy")>>

\* Present: recorded, or done at once after WaitWorker.
PresentOps(f) ==
    IF mode.present THEN <<RecordOp(<<PresentCommand(f)>>)>>
    ELSE IF mode.worker THEN <<Op("dispatch"), Op("waitQueue"), Op("copy")>>
    ELSE <<Op("copy")>>

\* RenderToWindow, once it has the frame f.
RenderOps(f) == <<Op("render"), Submit(f)>> \o PresentOps(f)

\* What precedes RecreateFrame, if the size of the frame is not the window's.
ResizeOps == <<Op("waitPresent"), Op("finish")>>

\* Faulty variant: the frame is used while it is presented.
MainFenceIgnored ==
    /\ At("fence")
    /\ gpu' = [gpu EXCEPT !.done = @ \ {main.frame}]
    /\ freeLock' = FALSE
    /\ Then(RenderOps(main.frame))
    /\ UNCHANGED <<mode, rp, chunk, workQueue, reserve, worker, sem, pool, fences, eventCv,
                   freeQueue, presentQueue, presenter, frameCv>>

\* present_done is signaled; it is reset and the frame is returned.  A frame of
\* another size is recreated first, which MaxCalls counts as well.
MainFence ==
    /\ At("fence") /\ main.frame \in gpu.done
    /\ gpu' = [gpu EXCEPT !.done = @ \ {main.frame}]
    /\ freeLock' = FALSE
    /\ \/ Then(RenderOps(main.frame))
       \/ /\ main.calls < MaxCalls
          /\ main' = [main EXCEPT !.calls = @ + 1,
                                  !.todo = ResizeOps \o RenderOps(main.frame) \o Tail(@)]
    /\ UNCHANGED <<mode, rp, chunk, workQueue, reserve, worker, sem, pool, fences, eventCv,
                   freeQueue, presentQueue, presenter, frameCv>>

\* WaitPresent: the queue must be empty ...
MainWaitPresent ==
    /\ At("waitPresent") /\ "main" \notin frameCv
    /\ IF mode.present /\ presentQueue # <<>>
       THEN frameCv' = frameCv \cup {"main"} /\ UNCHANGED main
       ELSE UNCHANGED frameCv /\ Then(<<Op("waitSwapchain")>>)
    /\ UNCHANGED <<mode, rp, chunk, schedVars, freeQueue, freeLock, presentQueue, presenter>>

\* ... and then swapchain_mutex free.
MainWaitSwapchain ==
    /\ At("waitSwapchain") /\ presenter.pc \notin {"copy", "free"}
    /\ Then(<<>>)
    /\ UNCHANGED <<mode, rp, chunk, schedVars, presentVars>>

\* WaitWorker: the queue must be empty, and then execution_mutex free.
MainWaitQueue ==
    /\ At("waitQueue") /\ "main" \notin eventCv
    /\ IF workQueue # <<>> THEN eventCv' = eventCv \cup {"main"} /\ UNCHANGED main
       ELSE UNCHANGED eventCv /\ Then(<<Op("waitExecution")>>)
    /\ UNCHANGED <<mode, rp, chunk, workQueue, reserve, worker, sem, pool, fences, gpu, presentVars>>

MainWaitExecution ==
    /\ At("waitExecution") /\ worker.pc # "execute"
    /\ Then(<<>>)
    /\ UNCHANGED <<mode, rp, chunk, schedVars, presentVars>>

MainCopy ==
    /\ At("copy")
    /\ CopyToSwapchain(main.frame)
    /\ freeQueue' = Append(freeQueue, main.frame)
    /\ Then(<<>>)
    /\ UNCHANGED <<mode, rp, chunk, workQueue, reserve, worker, sem, pool, fences, eventCv,
                   freeLock, presentQueue, presenter, frameCv>>

MainBegin ==
    /\ At("begin")
    /\ rp' = [rp EXCEPT !.rendering = TRUE] /\ Then(<<RecordOp(<<Draw>>)>>)
    /\ UNCHANGED <<mode, chunk, schedVars, presentVars>>

MainStep ==
    \/ MainRecord \/ MainDispatch \/ MainAcquire \/ MainEndRendering \/ MainRender
    \/ MainSubmit \/ MainCommit \/ MainFinish \/ MainSemWait
    \/ MainGetFrame \/ MainFence \/ MainWaitPresent \/ MainWaitSwapchain
    \/ MainWaitQueue \/ MainWaitExecution \/ MainCopy \/ MainBegin

\* The emulation thread begins a call.
Start(ops) ==
    /\ main.todo = <<>> /\ main.calls < MaxCalls
    /\ main' = [main EXCEPT !.todo = ops, !.calls = @ + 1]
    /\ UNCHANGED <<mode, chunk, schedVars, presentVars>>

\* A draw in the render pass that is open, in a first or in another one.
StartDraw ==
    \/ /\ rp.rendering
       /\ rp' = [rp EXCEPT !.count = @ + 1]
       /\ Start(<<RecordOp(<<Draw>>)>>)
    \/ /\ ~rp.rendering
       /\ rp' = [rp EXCEPT !.rendering = TRUE]
       /\ Start(<<RecordOp(<<Draw>>)>>)
    \/ /\ rp.rendering
       /\ Start(<<Op("endRendering"), Op("begin")>>)
       /\ UNCHANGED rp

StartFlush == Start(<<Submit(NoFrame)>>) /\ UNCHANGED rp

StartFinish == Start(<<Op("finish")>>) /\ UNCHANGED rp

\* RendererVulkan::RenderToWindow
RenderToWindow == Start(<<Op("getFrame")>>) /\ UNCHANGED rp

-----------------------------------------------------------------------------
WorkerStep ==
    \/ /\ \/ WorkerSleep \/ WorkerPop \/ WorkerExecute \/ WorkerDone
       /\ mode.worker /\ UNCHANGED presentVars
    \/ WorkerPresent

PresenterStep ==
    PresenterSleep \/ PresenterTake \/ PresenterCopy \/ PresenterFree

WaitThreadStep == WaitThread /\ UNCHANGED presentVars

GpuStep == GpuComplete /\ UNCHANGED presentVars

Next ==
    \/ StartDraw \/ StartFlush \/ StartFinish \/ RenderToWindow
    \/ MainStep \/ WorkerStep \/ PresenterStep \/ WaitThreadStep \/ GpuStep

Spec == Init /\ [][Next]_vars

\* Every thread is scheduled, and the GPU completes what it may start.
Fairness ==
    /\ WF_vars(MainStep) /\ WF_vars(WorkerStep) /\ WF_vars(PresenterStep)
    /\ WF_vars(WaitThreadStep) /\ WF_vars(GpuStep)

FairSpec == Spec /\ Fairness

-----------------------------------------------------------------------------
(* Properties.                                                             *)

\* The commands that have been recorded and not been executed.
RecordedCommands ==
    UNION {ToSet(c.cmds) : c \in {worker.work, chunk} \cup ToSet(workQueue)}

\* IsFree: a tick that gpu_tick has reached has been triggered by the GPU, with
\* every submission before it; so neither ever goes back.
FreeTicksAreDone ==
    /\ \A v \in InFlight : sem.gpuTick < v
    /\ \A c \in RecordedCommands : c.op = "submit" => sem.gpuTick < c.tick

\* The command buffer that is recorded is not one the GPU still executes.
RecordsIntoFreeBuffer ==
    \A i \in DOMAIN gpu.queue :
        gpu.queue[i].tick > 0 =>
            \/ gpu.queue[i].cmdbuf # pool.cur
            \/ worker.pc = "execute" /\ worker.work.submit   \* until WorkerDone
            \/ At("commit")

\* A frame that GetRenderFrame has returned is in no queue and the GPU neither
\* renders to it nor copies it, when RecreateFrame destroys its image and when it
\* is rendered to.
RenderFrameIsUnused ==
    At("render") =>
        /\ main.frame \notin ToSet(freeQueue) \cup ToSet(presentQueue) \cup {presenter.frame}
        /\ \A i \in DOMAIN gpu.queue : main.frame \notin {gpu.queue[i].wait, gpu.queue[i].signal}

\* A frame is copied to the swapchain only after its rendering was submitted: the
\* GPU's queue never waits for a semaphore that a later submission signals.
CopiedAfterRendered ==
    \A i \in DOMAIN gpu.queue :
        LET f == gpu.queue[i].wait
        IN f # NoFrame => f \in gpu.ready \/ \E j \in 1 .. i - 1 : gpu.queue[j].signal = f

\* Every call of the emulation thread returns: no lost wakeup, no deadlock
\* between the locks, no wait for a submission that is not made.
CallsReturn == main.todo # <<>> ~> main.todo = <<>>

=============================================================================
