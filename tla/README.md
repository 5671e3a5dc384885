# A TLA+ verification project for emuThreeDS

emuThreeDS is a Nintendo 3DS emulator built on Citra. Most of its 157,000 lines
are services, graphics, audio and CPU emulation. This directory specifies the
parts everything else runs on, and where ordering and concurrency make testing
hard: the *high-level emulation of the 3DS kernel* (threads, scheduling,
synchronisation, IPC, memory, handles) under `System::RunLoop`, the *event
timing* that drives it, and the *threads of the Vulkan renderer*. They are
model-checked with TLC, and theorems about them are proved with TLAPS. Paths
below are relative to `src/emuThreeDS/citra_core/`; kernel files without a
directory are in `core/hle/kernel/`.

## 1. Inventory

| Component (source) | State it keeps | Operations | What makes it correct |
|---|---|---|---|
| Ready queue (`common/thread_queue_list.h`) | one deque per priority, a linked list of the levels ever used | prepare, push, move, remove, pop_first, pop_first_better | a ready thread is in exactly one deque, at a linked level |
| Wait objects (`wait_object.cpp`) | `waiting_threads` | Add/RemoveWaitingThread, WakeupAllWaitingThreads | both ends of the wait relation agree; no wakeup is lost |
| Mutex, Semaphore, Event, Timer | lock count and holder, counter, signaled flag, delays | Acquire, Release, Signal, Clear, Set, Cancel | ownership, priority inheritance, one event per timer |
| Address arbiter (`address_arbiter.cpp`) | `waiting_threads` | ArbitrateAddress, its timeout callback | the list holds exactly the threads in `WaitArb` |
| Threads and scheduler (`thread.cpp`) | status, two priorities, wait objects, mutex sets, wakeup event, context; per core: current thread and ready queue | ResumeFromWait, Stop, SetPriority, Reschedule, SwitchContext | status, queue and current thread agree; the best thread runs |
| KernelSystem (`kernel.cpp`) | current CPU and process, stored processes | SetRunningCPU, SetCurrentProcessForCPU | a call acts for the thread and the process that made it |
| Run loop (`core/core.cpp`) | running core, pending reschedule | RunLoop, Reschedule | every core is rescheduled and run; the clocks stay together |
| Core timing (`core/core_timing.cpp`) | per core: event heap, `ts_queue`, ticks, slice, downcount | ScheduleEvent, UnscheduleEvent, Advance, SetNextSlice, ForceExceptionCheck, Idle | an event fires, in time, unless cancelled; ticks never go back |
| Sessions and ports (`client_session.cpp`, `server_session.cpp`, `client_port.cpp`, `server_port.cpp`) | pending requests, request being handled, session counts | Connect, Accept, SendSyncRequest, ReplyAndReceive, the destructors | each request is tracked until it is answered; closing an end wakes the other |
| Command buffer translation (`ipc.cpp`) | mapped buffers | translation of a request and of its reply | a mapped buffer lies between its guard pages |
| Virtual memory (`vm_manager.cpp`) | `vma_map`, page table | map, unmap, reprotect, change state, carve, split, merge | areas tile the space; the page table agrees; a call changes its pages only |
| Memory regions (`memory.cpp`) | free blocks, used | HeapAllocate, LinearAllocate, Free | memory is handed out once |
| Process memory, shared memory, resource limits (`process.cpp`, `shared_memory.cpp`, `resource_limit.cpp`) | memory_used, current_commit, the blocks' memory | HeapAllocate/Free, LinearAllocate/Free, Map, Unmap, blocks | what is free is not used; what is used is charged |
| Supervisor calls (`svc.cpp`) | none of their own | about 60 calls | the promised result; no assertion fails |
| Handle tables (`handle_table.cpp`) | objects, generations/free list, counters | Create, Duplicate, Close, Clear, lookup | a map from handles to objects; handles are reused late |
| Vulkan scheduler (`video_core/renderer_vulkan/vk_scheduler.cpp`, `vk_master_semaphore.cpp`, `vk_resource_pool.cpp`) | chunks, work queue, ticks, command buffers, fences | Record, Flush, Finish, Wait, DispatchWork, WaitWorker, the worker and the fence thread | a tick counts as done only when it is; buffers are reused only when free; every call returns |
| Vulkan presentation (`vk_present_window.cpp`, `renderer_vulkan.cpp`, `vk_renderpass_cache.cpp`) | free and present queue, frames' fences and semaphores | GetRenderFrame, Present, WaitPresent, the present thread, RenderToWindow, EndRendering | a frame has one user at a time |

**How they interact.** All emulated cores run on one host thread, in turn, so
kernel code is never interrupted; the hard interleavings there are between the
*guest threads* of different cores, whose slices and calls follow each other in
any order, with timer events in between. The kernel's handlers call each other
deeply: `Mutex::Release` wakes a waiter, whose `Acquire` changes its priority,
which moves it in a ready queue; the scheduler only acts later, where the run
loop reschedules. Between a call that puts a thread to sleep and the reschedule
that switches it out, the thread is both waiting and its core's current thread.
Timeouts (`ThreadWakeup` events) race with the signals they guard against.
Guest programs are arbitrary. The Vulkan renderer is concurrent on the host:
emulation thread, worker, present thread, fence thread and the GPU, with three
mutexes and condition variables between them.

Nothing modelled is persisted and no message gets lost, so there is no crash
recovery or unreliable delivery. `PROJECT.json` lists the hazards line by line.

## 2. Modules

| Module | Models | Shape |
|---|---|---|
| `ThreadQueueList` | `common/thread_queue_list.h` | operators on a record `[first, next, data]`; pointers are indices, `-1` unlinked, `-2` null |
| `WaitObjects` | `wait_object.cpp`, the ShouldWait/Acquire/priority part of the object classes and of `thread.cpp` | operators from kernel state to kernel state |
| `KernelObjects` | Release/Signal/Set/Cancel, `Thread::Stop`, wakeup events, `address_arbiter.cpp` | the same |
| `Scheduler` | `ThreadManager` and `KernelSystem`'s CPU/process bookkeeping | the same |
| `Ipc` | ports, sessions, requests and the lifetime of both ends | the same |
| `Kernel` | `System::RunLoop` and the supervisor calls | variables `k`, `loop`; one action per call and per step of the loop; all properties |
| `KernelLemmas` | | the invariant of `Kernel`; lemmas about ready queues, waiting, waking, priorities and `PopNextReadyThread` |
| `KernelObjectsProofs` | | what the handlers of the kernel's objects keep of the invariant |
| `KernelProofs` | | the scheduler, the run loop and the calls; theorems about `Kernel` |
| `CoreTiming` | `Core::Timing` under `System::RunLoop`, with ticks | one action per step of the loop, event and stretch of execution |
| `CoreTimingProofs` | | theorems about `CoreTiming` |
| `HandleMap` / `HandleTable` | what `handle_table.h` promises / `handle_table.cpp` | abstract specification (a map) / one action per operation, refines it |
| `HandleTableProofs` | | theorems about `HandleTable` |
| `VMManager` | `vm_manager.cpp` | operators on an address space `[vmas, pages]` |
| `MemoryRegions` | `MemoryRegionInfo` | operators on a region |
| `PageMap` / `ProcessMemory` | what the memory calls promise, page by page / `process.cpp`, `shared_memory.cpp`, the memory calls of `svc.cpp` | abstract specification / one action per call, refines it |
| `MappedBuffers` | mapped buffers of `ipc.cpp` | over `VMManager`: request and reply |
| `VkScheduler` | scheduler, master semaphores, command pool; the GPU (external) | actions of the worker, fence thread and GPU |
| `VkPresentWindow` | presentation, and the emulation thread's calls | composes `VkScheduler` with the present thread |
| `VkPresentWindowProofs` | | theorems about the two |
| `CommonLemmas`, `Loop` | | lemmas on numbers, sets and sequences that the proofs share; induction over a recursive function, to be instantiated with its step and its invariant |
| `MC*` | | instances for TLC |

**Kernel.** Because handlers nest many levels deep, each is an operator
`Op(k, args)` that returns the kernel state after the *whole* handler, and the
actions of `Kernel` apply one such operator. `k` is a record; its fields are
described at the top of `WaitObjects` and `Scheduler`, and named after the
members they stand for (`th[t]` a `Thread`, `wl[o]` the `waiting_threads` of
`o`, `mx[m]` a `Mutex`, `ses[s]` a session, `rq[c]` a `ready_queue`, `cur[c]` a
`current_thread`, ...). `failed` collects the `ASSERT`s that failed (the program
ends there; the model goes on, but `Acquire` and `ResumeFromWait` do nothing
more), `halt` says that `PrepareReschedule()` told the core to stop, and `owed` is a history
variable: the result the last wait should deliver. `loop` is the position in
`RunLoop`: `top`; `lag` (the catch-up pass); `solo` (the catch-up branch runs
the most delayed core); `advance` (the pass over all cores); `run` (the cores
execute one after the other); `end` (`System::Reschedule`). While a core is in
`run` or `solo`, the current thread of the *kernel's* CPU makes supervisor
calls, writing the registers of the core that *executes*, exactly as
`GetCurrentThreadManager()` and `GetRunningCore()` do: that these are the same
core is a property, not an assumption.

Abstractions: ticks are left out: which cores lag, when an event is due and
when a slice ends are free choices, so what holds here holds for all timings
(a counterexample may need a particular one). A timeout is `zero`, `finite` or
`forever`. Registers and contexts hold only the result of the last wait.
Handles are resolved in `HandleTable`; in `Kernel` a call names its object, and
calls that only return an error are left out. Other objects than threads and
sessions exist from the start. The process of a thread and the core it was
created for are constants. `KernelAssumption` and `ClassesAssumption` say what
these are: an object belongs to one class, the sets of threads, mutexes and
sessions are finite, each thread has a process, and the "no thread", "no session"
and "no port" of the model are none. What the kernel's variables range over
(`KernelState`) is defined before `TypeOK`. `ExitProcess` has the precondition that
all other threads of the process on the calling core wait for objects, the only use the
code supports. `CreateThread` also runs with a full handle table (`full`): the
thread is then ready although the call failed.

**Ipc.** A session is one record with the lifetimes of its two ends: `client`
and `server` say that the handles exist, `alive` that the `ServerSession` does,
which the port's pending list and waiting threads also keep alive; `Reap`, at
the end of every action, runs the destructors that are due. A request is a
thread in `pending` or `handling`; requests are taken from the back, as the code
does. A request to an HLE service is answered in the call, and its thread
sleeps for the delay the code adds.

**CoreTiming.** The second model of the run loop: with ticks, without threads.
An instruction stretch takes a number of ticks, may overrun the slice by
`Overshoot` and may end in a call that schedules or cancels an event, for its
own core (which cuts the slice short) or another (through `ts_queue`, seen at
that core's next `Advance`). Ticks are rebased at the end of every iteration, as
the code only compares and adds them. Callbacks may schedule and cancel too.
`left`, the events that fired or were cancelled in the last step, and `own`,
whether an event was scheduled on the current core, are history.

**Memory.** Addresses are page numbers and the memory behind them frame numbers.
`VMManager` keeps areas and page table as the code does, with splitting,
carving and merging; `Reprotect` acts on the area that the mapping has become a
part of. The page table is that of a machine whose rasterizer has cached nothing:
for a page it has cached `MapPages` clears the pointer (`core/memory.cpp:388`) and
the renderer keeps the memory, which is not modelled. `ProcessMemory` leaves out
calls that fail, which change nothing: a block is mapped with permissions its
creator allows (`MapPieces`), at an address the caller gives (`MapBlock`) or, for a
block of new memory, at the default one (`MapBlockAtDefault`). Address 0 for a block
of the owner's heap, which the code takes literally, is not asked for. That
`LinearAllocate` finds its address free (`LinearAt`) is asserted in the code
(`process.cpp:340`) and a guard in the model; `LinearAddressesFree` says that the
guard never stops it. What the code leaves to the guest, with TODOs where it does
not check, is collected in the section "The guest": memory is not freed while it is aliased or shared, and
an `Unmap` undoes a `Map`. `PagesAsAsked` is the refinement of `PageMap`, with
the attributes of every page as the mapping. `PageMap` allows one call to change
pages outside of its range: memory that is mapped and protected may take the
read-write pages along that its area is joined to (`Follow`), as `Reprotect` of the
joined area does.

**Vulkan.** A critical section without a blocking call is one step. The worker's
exchange of the queue lock for the execution lock, `free_mutex` held across the
wait for a fence, and `swapchain_mutex` are explicit. `main.todo` is the rest of
the emulation thread's call. Commands that only touch the command buffer are
`rec`: they take room in a chunk. Between dispatching a chunk and acquiring the
next one (`MainDispatch`, `MainAcquire`) the worker may finish the first and put it
into the reserve, so that it is the next one; `notify_all` is part of the dispatch,
as a worker that is awake sees the queue without it. `mode` is chosen in the
initial state: with and without timeline semaphores, worker thread and present thread. The GPU is
external: it completes the submissions of its queue in order, each when the
semaphores it waits for are signaled.

**HandleTable.** A handle word is `[top, slot, gen]`: bit 31, the 16 bits of
slot that `GetSlot()` keeps, and 15 bits of generation; `KeyOf` drops the top
bit as the `u16` return type does. (The comment in `handle_table.h:29` gives the
slot bits 31:15; two words that differ in bit 31 name the same object.)
`count` and `issue` are history variables: how many handles were created, and
which creation last returned each key.

## 3. Runs

| Run | Instance | Distinct states | Shows |
|---|---|---|---|
| `mutex` | 3 threads of different priority on 1 core, 2 mutexes | 385 k | ownership, inheritance and wakeup events stay consistent through locks with timeouts, exits, sleeps and priority changes. Three threads and two mutexes are the least that give chains of waiters. |
| `waits` | 2 threads on 2 cores; mutex, semaphore, event, pulse timer, the exit of a thread; wait-any and wait-all lists | 599 k | no lost wakeup, consistent lists, one event per timer, no failed assertion; negative release counts included |
| `sched` | 2 cores, 2 processes, 3 threads, one of them created at run time, also with a full handle table | 467 k | the ready queues are exact, the right thread and process are current, every reschedule picks the best schedulable thread |
| `arbiter` | 3 threads, 1 word, 1 mutex (locked twice), fairness | 136 k | the arbiter's list is exact; the best thread runs again after every wait with a timeout |
| `ipc` | 2 clients, 1 server on another core, a port and 2 sessions | 96 k | no request is forgotten while its session lives, the port counts its sessions, the server is always woken |
| `handles` | 3 slots, 3 generations, 5 creations | 3.5 k | exact free list, late reuse across a wrap of the counter, refinement of `HandleMap` |
| `timing` | 2 cores, 2 events, one of them periodic, fairness | 161 k | events are served in time, the clocks stay together, slices are not empty, ticks never go back, every event fires |
| `vulkan` | 2 frames, 3 calls, all 8 modes, fairness | 714 k | ticks, command buffers and frames are reused only when they are free; every call returns |
| `memory` | 10 pages, 5 frames in 3 regions, 1 block, commits read-only or read-write | 27 k | areas, page table, regions and counters agree; each call changes the pages it is about, and a commit those it is joined to (refinement of `PageMap`) |

`waits`, `vulkan`, `memory` and `timing` take one to three minutes each, the others
less.

**Bounds.** `MaxLock` bounds recursive locks, `MaxCount` and the guard in
`SvcReleaseSemaphore` counts, `ArbValues` arbitrated words, `MaxCreates` the
handles created. `timing`: slices of 3 ticks, an overrun and a tolerated lag of
1 and a period of 1 make events fall before, at and after the end of a slice,
and a periodic event fire several times in one `Advance`. `MaxLag` and
`LongestWait`, how far clocks drift apart and events wait, are stated for any
number of cores: with three or more, the catch-up branch adds an overrun for
each further core. `vulkan`: chunks of 3
commands overflow in the middle of a render; the command pool grows by 1, so
that it is searched, found full and grown; three calls let both frames be in
flight while a third is asked for. `memory`: three pages of application memory,
and sizes 1 and 2, give fragmented heaps, areas that split in the middle and
merge on both sides, and ranges that continue each other in address and memory,
committed one after the other. Heap and linear memory is committed
read-only or read-write (`CommitPerms`); what maps memory that exists already, `Map`, code and
shared blocks, asks for read-write (`MapPerms`), which keeps the run short.
`buffers`: 12 pages and buffers of 1, 1 and 2 pages are the least with a hole that
fits a guard page only.

Deadlock checking is on except where the guest may run out of calls: `vulkan`
(`MaxCalls`), `memory` (all memory given to a block that is closed into the wrong
region) and `buffers`.

**Fairness.** `arbiter` (`Kernel!FairSpec`): the loop comes round again and again
(the host keeps calling `RunLoop`, whose passes and slices are finite), and a
scheduled wakeup fires or is cancelled (`Advance` fires what is due and ticks
grow in every slice; this is what `timing` shows). Nothing is assumed about
guest programs; the property is about the thread with the best priority of all,
as nothing else is promised in a strict-priority scheduler. `timing`: weak
fairness of the next step, the host keeps calling `RunLoop`. `vulkan`: weak
fairness of every thread (the host schedules them) and of the GPU, which
completes what it may start.

**Disagreements with a run** (expected result "violation"; details under
`findings`):

- `result`: a thread put to sleep by `WaitSynchronization1` on one core and
  signaled from another before its core reschedules sees *timeout* although it
  has acquired the object: `SwitchContext` saves the registers over the result.
- `flush`: where `ShouldFlush()` holds, `SubmitExecution` takes its tick before it
  ends the render pass, which may submit a later tick first; the earlier one
  then counts as done before it is submitted.
- `buffers`: mapped buffers whose replies come out of order lose the adjacency to
  their guard pages that the reply asserts.

**Disagreements without a run**, met while modelling:

- Priority inheritance is not transitive over two mutexes (`mutex.cpp:120` updates
  the holder, not what the holder waits for), and a boost leaks into a second
  mutex, because `Mutex::Acquire` (`mutex.cpp:55`) copies `current_priority`, and
  outlives its cause. So `TimedWaitReturns` fails with two mutexes.
- `ExitProcess` wakes, by stopping one thread that holds a mutex, another it is
  about to stop, and then fails its assertion that all are waiting
  (`svc.cpp:555`). Three threads are enough: the one that exits, the holder and the
  waiter.
- `WaitSynchronizationN` with `wait_all` and a list that names a one-shot event
  twice passes the availability check (`svc.cpp:857`) and fails the assertion in
  `event.cpp:35`. One thread and one event are enough; the lists of the runs name
  different objects.
- With more than two cores the catch-up branch (`core/core.cpp:176`) can execute a
  core that is not the kernel's current CPU.
- `ReplyAndReceive` frees a session that has further requests pending without
  waking others that wait for it (`svc.cpp:1016`): with *two* server threads
  `NoLostWakeup` fails. The run has one. Nothing in the repository
  says what two servers of one session may expect, so no run refutes a promise.
- `UnscheduleEvent` does not look into `ts_queue` (TODO in `core/core_timing.cpp:94`):
  an event that another core has pushed there fires although it was cancelled. The
  model does the same; no property forbids it.
- Closing a client's end leaves the threads that wait for an answer asleep for
  ever (`client_session.cpp:33`); `RequestsTracked` states this exception.
- A timer with an interval of 1 to 3 ns has an interval of 0 cycles, and `Advance`
  does not leave its loop (`timer.cpp:91`).
- `ReprotectRange` does not leave `vma_map` fully merged (`vm_manager.cpp:226-240`),
  against the comment in `vm_manager.h:124-130`: the loop goes on from the merged
  area. Free areas are always merged, which is what `FreeSpaceMerged` says.
- `Reprotect` after a mapping (`process.cpp:267`) acts on the joined area: a commit
  that is read-only next to contiguous read-write memory makes that read-only too.
  `PageMap` describes it, and `memory` shows that nothing else changes.
- `~SharedMemory` (`shared_memory.cpp:20`) frees into SYSTEM whatever region the
  memory came from, so SYSTEM hands out memory of BASE, its `used` wraps, and the
  other region's memory is lost; with blocks of APPLICATION memory `Accounting`
  fails too.
- `memory_used` is increased for a block (`shared_memory.cpp:56`) and never
  decreased.
- `Unmap` of two ranges that are no pair unmaps the target and then fails
  (`process.cpp:465`); the source stays as it is.
- `MapBackingMemoryToBase` (`vm_manager.cpp:80-85`) compares the area's end, not
  its size, with what is asked for, and does not test for `end()`. Calls with
  size 0 reach assertions in `CarveVMA`.
- `WaitPresent` ("Waits for all queued frames to finish presenting.",
  `vk_present_window.h:46`) does not see frames whose `Present` is still recorded
  in a chunk, and `~PresentWindow` destroys the frames before its thread ends.
- `CreateThread` accepts processor ids 2 and 3 with two cores (`thread.cpp:363`).

Every property of a passing run has a mutant: a "faulty variant" operator defined
just before the definition it replaces, which breaks the property.

## 4. Proofs

TLC checks small instances; TLAPS proves the following for *every* value of the
constants that satisfies the named `ASSUME` of the module, and for behaviours of
any length. Each proof is an inductive invariant, with one lemma per action.

**Handle tables** (`HandleTableProofs`; `HandleTableAssumption`: sizes are
positive, slots fit their field, `NoObject` is no object):

- `TypeCorrect`: `Spec => []TypeOK`;
- `FreeListCorrect`: `Spec => []FreeListExact`;
- `ReuseIsLate`: `Spec => NoEarlyReuse`;
- `Refinement`: `Spec => ImplementsHandleMap`.

The inductive invariant is `TypeOK /\ FreeListExact /\ GenerationWindow`.
`FreeListExact` says that some injective enumeration `f` of the free slots is
chained through `generations` from `next_free_slot` to `MAX_COUNT`. It is
existential because the list is implicit in an array that also holds
generations; `CreateChain`, `CloseChain` and `ClearedChain` construct the new
enumeration (drop the head, prepend the slot, all slots in order). Without it
one cannot show that `Create` overwrites no live slot, nor that the table is
full exactly when `MAX_COUNT` handles map to objects (`FullTable`, a cardinality
argument), which the refinement needs. `GenerationWindow` relates the generation
of each of the last `MaxGeneration` creations to the counter; it makes
`NoEarlyReuse` inductive across the wrap. The refinement maps the two arrays to
`TableOf`, the object of every valid key.

**Core timing** (`CoreTimingProofs`; `TimingAssumption`: at least one core, slices
of at least one tick, a callback reschedules by at least one tick, other
durations are not negative). For any number of cores, slice length, overrun,
tolerated delay and set of events:

- `TypeCorrect`: `Spec => []TypeOK`;
- `NoEmptySlice`: `Spec => []SlicesNotEmpty`;
- `Timeliness`: `Spec => []EventsAreTimely`;
- `Lockstep`: `Spec => []CoresInStep`;
- `ClocksMonotone`: `Spec => TicksNeverGoBack`.

The inductive invariant `Inv` is `TypeOK`, that the assertion has held, what
holds of every timer (`TimersOK`: the slice ends at or before the next event of
the queue, a core overruns it by at most `Overshoot`, how late the events of
`ts_queue` may be) and `PhaseInv`, what holds at each position of `RunLoop`. At
the top and in the catch-up branch the clocks are within `LongestRun + min_delay`
behind a point that only finitely many cores have passed, each by one overrun
more (`InStep`): the count of the cores ahead of it is what bounds the drift of
more than two cores. In the pass over all cores none lags by more than
`min_delay`, and those passed have had their `Advance` (`AdvanceInv`); then those
passed have run, for at most `LongestRun` ticks (`RunInv`). The catch-up pass
keeps the slowest core seen so far, with a slice up to another's clock (`LagInv`,
`SoloInv`). The bounds differ between these positions, which is why the
properties alone are not inductive. The loops of the code are recursive functions
of the model; `Loop` proves that one satisfies its equation and that an invariant
of its step holds of all its values.

**Vulkan** (`VkPresentWindowProofs`; `SchedulerAssumption`: chunks and pool growth
are positive, finitely many frames). For any set of frames, chunk size, pool
growth and number of calls, in all eight modes:

- `ShapeInvariant`: `Spec => []Shape`;
- `TicksDone`: `Spec => []FreeTicksAreDone`, if `~ShouldFlush`;
- `BufferFree`: `Spec => []RecordsIntoFreeBuffer`, if `~ShouldFlush`.

`Shape` types the variables, and says what forms the rest of a call (`main.todo`)
may take, that a chunk's flags agree with its commands, and that a chunk with a
submission is dispatched at once. `TicksOK` is the heart of the other two:
follow the way of a submission from the GPU's counter over the GPU's queue, the
worker's chunk, the work queue and the recorded chunk to the tick that will be
submitted next, and the ticks increase. `GpuOK` says the same of the GPU's queue
and relates the fences to it; `PoolOK` says that a command buffer in the GPU's
queue is stamped with a tick that is not over before the buffer is. The
hypothesis is needed: with `ShouldFlush`, ending a render pass takes a tick
between taking one and recording it, and `flush` is the counterexample.

**Kernel** (`KernelLemmas`, `KernelObjectsProofs`, `KernelProofs`; the assumptions
named in section 2). For any number of cores, threads, processes, objects,
sessions, ports and priorities, and every order of calls, events and reschedules:

- `TypeCorrect`: `Spec => []TypeOK`: every field of `k` has its type, the contexts,
  registers, ready queues, sessions and ports included, a queue's links lead only to
  linked levels, and `loop` is a position of `RunLoop`;
- `WaitListsAgree`: `Spec => []WaitListsConsistent`;
- `MutexesOwned`: `Spec => []MutexOwnership`;
- `PriorityInherited`: `Spec => []InheritsPriority`;
- `WakeupsMatch`: `Spec => []WakeupEventsMatchWaits`;
- `TimerEventUnique`: `Spec => []OneTimerEvent`;
- `RunningAreCurrent`: `Spec => []RunningThreads`;
- `RequestsAreTracked`: `Spec => []RequestsTracked`;
- `SessionsAreCounted`: `Spec => []SessionsCounted`;
- `QueuesConsistent`: `Spec => []ReadyQueuesConsistent`;
- `ReschedulesPickBest`: `Spec => RescheduleRunsBest`, an action property;
- `CallsActOnCaller`, `CallsSeeOwnProcess`: `Spec => []RunningCoreIsCurrentCPU`
  and `Spec => []CurrentProcessIsCallers`, if `NumCores <= 2`. With more cores the
  catch-up branch of `RunLoop` breaks both (section 3), so the hypothesis stays.

All follow from one inductive invariant, `KInv`: the kernel's records are
consistent (`Good`) and so is the place in `RunLoop` (`LoopOK`). `Good` has three
parts. `Sound`: the three records of the wait relation agree (`ListsOK`), mutexes
and the threads that hold them (`MutexOK`), priorities (`PrioOK`), what a waiting
thread's fields may hold (`ThreadsOK`), requests and the lists they are in
(`SessionsOK`). `QueuesOK`: the levels of a ready queue are linked in ascending
order, and its deques hold the core's ready threads. `Rest`: the arbiter's list,
wakeup and timer events, current threads and processes of the cores, ports and
their sessions. None of the properties is inductive alone: that a woken mutex
waiter gets the right priority needs the wait relation; that it gets into the
right deque needs the status to agree with the queue; that `SwitchContext` leaves
no thread behind needs the queue; and that a request is not lost when a session
closes needs what may be in the lists of both ends.

A handler passes through states in which this does not hold, so the lemmas are
about weaker predicates in the middle: `SoundBut`, `Mid` (one thread is in the
lists of some objects only, as in the loops of `AddWaitingThread` and of the wakeup
algorithm), `Good(x, d)` (thread `d` is being stopped), `QueueBut` (threads that
`PopNextReadyThread` has taken out of the queue). Each loop is an instance of
`Loop` with such a predicate as its invariant; `RunKept` says what no handler
under a call changes (who runs where). `ForEach`, the loop over a list, and `Among`
are recursive functions so that this is possible. There is one lemma per handler,
one per action (`SvcKeeps`, `NextKeeps`) and one per property.

`ReschedulesPickBest` follows the thread from the search to the step that runs it.
The levels on the path from `first` ascend (`PathGoesDown`), so the head of the
first level that is not empty has the best priority of the queue (`PopFirstIsBest`,
`PopBetterIsBest`). Every iteration of `PopNextReadyThread` that does not end the
search parks one more thread that may not be scheduled, so the search ends within
`Cardinality(Threads) + 1` of them (`FewParked`, `SearchBest`). The lemmas about
`Reschedule` and the run loop then carry `BestOn` through `SwitchContext`, which
queues the preempted thread again, and through the other cores' turns (`RunsBest`).

**Only model-checked.** Liveness, under fairness, which this version of TLAPS does
not treat: `EveryEventFires`, `CallsReturn`, `TimedWaitReturns`. Of the kernel,
`AssertionsHold` and `NoLostWakeup`, which hold for the instances of the runs but
not for all (section 3 has calls that break them: a one-shot event named twice, two
server threads). The frames of the presentation (`RenderFrameIsUnused`,
`CopiedAfterRendered`). The memory properties, whose handlers split and merge lists
of areas and blocks.

## 5. Plan

1. **Proofs**: the presentation's frames (each has one owner, which changes along
   free queue, emulation thread, pipe, present queue, present thread); the region
   counters of `ProcessMemory`.
2. **Kernel**: TLS slots, `CreateSession`, HLE handlers that suspend their client
   (`WaitHleEvent`), handles closed while threads wait for the object.
3. **Vulkan**: recreation of the swapchain and destruction.
4. **Services** with protocols of their own over the kernel (GSP interrupts, APT
   parameters).

## 6. Not modelled

Most services and applets, file systems, loaders, drawing, audio, ARM emulation,
the GDB stub, save states, network and the iOS front end: they are clients of the
kernel, numerical code or host I/O. They are the greater part of the repository's
lines, so the mapped lines are a small share of it. Within the kernel: TLS slots,
configuration and shared pages, loading of programs, the IPC recorder,
`hle_notifier` callbacks and serialisation. `PROJECT.json` gives the reason for
each component.
