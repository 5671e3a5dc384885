----------------------------- MODULE CoreTiming -----------------------------
(***************************************************************************)
(* Core::Timing, one timer per emulated core, under System::RunLoop.       *)
(*                                                                         *)
(* Each core has a queue of events, which Timer::Advance fires when they   *)
(* are due, and a slice: the ticks it may run before its next Advance.     *)
(* RunLoop first lets the cores that lag behind catch up, one at a time,   *)
(* and then runs all cores for the same number of ticks.                   *)
(*                                                                         *)
(* Ticks are counted relative to the slowest core (Rebase): the code only  *)
(* compares and adds them.  A queue is kept in the order of fifo_order.    *)
(* What the emulated programs and the callbacks do is free, within the     *)
(* delays the constants offer.                                             *)
(***************************************************************************)
EXTENDS Integers, Sequences, SequencesExt, FiniteSets, FiniteSetsExt

CONSTANTS NumCores,
          EventTypes,      \* pairs of a TimingEventType and its user_data
          Period,          \* the interval of a periodic event, 0 for the others
          Delays,          \* cycles_into_future of the guest's events
          CallbackDelays,  \* cycles_into_future of events scheduled by a callback
          MAX_SLICE_LENGTH,
          min_delay,       \* the lag RunLoop tolerates
          Overshoot        \* by how much a core may overrun its slice

ASSUME TimingAssumption ==
    /\ NumCores \in Nat \ {0} /\ MAX_SLICE_LENGTH \in Nat \ {0}
    /\ Overshoot \in Nat /\ min_delay \in Nat
    /\ Delays \subseteq Nat /\ CallbackDelays \subseteq Nat \ {0}
    /\ Period \in [EventTypes -> Nat]

Cores == 0 .. NumCores - 1

VARIABLES timer,     \* the Timer of every core
          current,   \* the core whose timer is current_timer
          running,   \* System::running_core
          loop,      \* where RunLoop is
          left,      \* the events that fired or were unscheduled in the last step
          assertOK   \* the ASSERT of GetMaxSliceLength has held

vars == <<timer, current, running, loop, left, assertOK>>

-----------------------------------------------------------------------------
(* A Timer is a record tm; the operators below are its methods.            *)

NewTimer == [queue |-> <<>>, ts |-> <<>>, sane |-> TRUE, executed |-> 0,
             slice |-> MAX_SLICE_LENGTH, down |-> MAX_SLICE_LENGTH]

GetTicks(tm) == tm.executed + IF tm.sane THEN 0 ELSE tm.slice - tm.down

\* Faulty variant: the slice is cut but not the downcount.
CutSlice(tm, cycles) ==
    [tm EXCEPT !.slice = @ - Max({0, tm.down - Max({0, cycles})})]

\* The slice ends early, after cycles ticks.
ForceExceptionCheck(tm, cycles) ==
    LET n == Max({0, cycles})
    IN IF tm.down > n THEN [tm EXCEPT !.slice = @ - (tm.down - n), !.down = n] ELSE tm

\* Faulty variant: the events of other cores are popped and not queued.
DropEvents(tm) == [tm EXCEPT !.ts = <<>>]

MoveEvents(tm) == [tm EXCEPT !.queue = @ \o tm.ts, !.ts = <<>>]

\* The least of the queue by (time, fifo_order).
NextEvent(q) ==
    CHOOSE i \in DOMAIN q : \A j \in DOMAIN q :
        q[i].time < q[j].time \/ (q[i].time = q[j].time /\ i <= j)

FrontTime(tm) == tm.queue[NextEvent(tm.queue)].time

\* Faulty variant: an event is due a tick late.
Overdue(tm) == tm.queue # <<>> /\ FrontTime(tm) < tm.executed

Due(tm) == tm.queue # <<>> /\ FrontTime(tm) <= tm.executed

\* Faulty variant: the ticks are subtracted.
ElapseBackwards(tm) ==
    [queue |-> MoveEvents(tm).queue, ts |-> MoveEvents(tm).ts, sane |-> TRUE,
     executed |-> tm.executed - (tm.slice - tm.down), slice |-> 0, down |-> 0]

\* The first part of Advance, up to its loop.
Elapse(tm) ==
    [queue |-> MoveEvents(tm).queue, ts |-> MoveEvents(tm).ts, sane |-> TRUE,
     executed |-> tm.executed + (tm.slice - tm.down), slice |-> 0, down |-> 0]

GetMaxSliceLength(tm) ==
    IF tm.queue # <<>> THEN FrontTime(tm) - tm.executed ELSE MAX_SLICE_LENGTH

SetNextSlice(tm, max) ==
    LET n == IF tm.queue = <<>> THEN max ELSE Min({FrontTime(tm) - tm.executed, max})
    IN [tm EXCEPT !.slice = n, !.down = n]

TimerIdle(tm) == [tm EXCEPT !.down = 0]

-----------------------------------------------------------------------------
(* Timing: operators on the function from cores to timers.  `own' records   *)
(* that the event was scheduled on the current timer, and not for the past. *)

Event(time, e, own) == [time |-> time, type |-> e, own |-> own]

\* Faulty variant: the slice that runs is not cut short.
ScheduleInSlice(tms, cur, cycles, e, c) ==
    LET tm == tms[c]
    IN IF c = cur
       THEN [tms EXCEPT ![c].queue = Append(@, Event(GetTicks(tm) + cycles, e, TRUE))]
       ELSE [tms EXCEPT ![c].ts = Append(@, Event(GetTicks(tm) + cycles, e, FALSE))]

\* ScheduleEvent(cycles, e, user_data, c), when cur is the current timer's core.
ScheduleEvent(tms, cur, cycles, e, c) ==
    LET tm == tms[c]
        ev == Event(GetTicks(tm) + cycles, e, c = cur /\ cycles >= 0)
        forced == IF tm.sane THEN tm ELSE ForceExceptionCheck(tm, cycles)
    IN IF c = cur
       THEN [tms EXCEPT ![c] = [forced EXCEPT !.queue = Append(@, ev)]]
       ELSE [tms EXCEPT ![c].ts = Append(@, ev)]

\* std::remove_if on a queue: what is left when the events of type e are gone.
Without(q, e) ==
    LET kept[i \in 0 .. Len(q)] ==
            IF i = 0 THEN <<>>
            ELSE IF q[i].type = e THEN kept[i - 1] ELSE Append(kept[i - 1], q[i])
    IN kept[Len(q)]

\* Events that are still in a ts_queue stay there.
UnscheduleEvent(tms, e) == [c \in Cores |-> [tms[c] EXCEPT !.queue = Without(@, e)]]

Instances(tms, e) ==
    UNION {{<<c, i>> : i \in {j \in DOMAIN tms[c].queue : tms[c].queue[j].type = e}} : c \in Cores}

Moving(tms, e) == \E c \in Cores : \E i \in DOMAIN tms[c].ts : tms[c].ts[i].type = e

\* An event is scheduled again only when no instance of it is under way, as
\* Timer::Set, the services and the threads' wakeups do.
Scheduled(tms, e) == Instances(tms, e) # {} \/ Moving(tms, e)

\* What a program or a callback may do to the events: nothing, schedule one on
\* the current or another core, unschedule one.  <<the timers afterwards, the
\* events unscheduled>>
Effects(tms, cur, delays) ==
    {<<tms, {}>>}
    \cup {<<ScheduleEvent(tms, cur, d, e, c), {}>> :
             d \in delays, e \in {x \in EventTypes : ~Scheduled(tms, x)}, c \in Cores}
    \cup {<<UnscheduleEvent(tms, e), {e}>> :
             e \in {x \in EventTypes : Instances(tms, x) # {}}}

-----------------------------------------------------------------------------
(* RunLoop.                                                                *)

NoCore == NumCores

\* phase, the core it is at, the cores that lag and by how much, the most
\* delayed one, max_slice, and the ticks the running core started at.
Loop(phase, c, delay, best, slice, start) ==
    [phase |-> phase, core |-> c, delay |-> delay, best |-> best, slice |-> slice, start |-> start]

NoDelay == [c \in Cores |-> 0]

Init ==
    /\ timer = [c \in Cores |-> NewTimer]
    /\ current = 0 /\ running = 0
    /\ loop = Loop("top", 0, NoDelay, NoCore, 0, 0)
    /\ left = {} /\ assertOK = TRUE

\* SetRunningCPU(c), and c's timer starts to advance.
EnterAdvance(tms, phase, c, delay, best, slice) ==
    /\ timer' = [tms EXCEPT ![c] = Elapse(@)]
    /\ current' = c
    /\ loop' = Loop(phase, c, delay, best, slice, 0)
    /\ UNCHANGED running

\* The loop over all cores begins.
AdvanceAll(tms) == EnterAdvance(tms, "advance", 0, NoDelay, NoCore, MAX_SLICE_LENGTH)

\* SetNextSlice, and c becomes the running core.
EnterRun(tms, c, max) ==
    /\ timer' = [tms EXCEPT ![c] = SetNextSlice(@, max)]
    /\ current' = c /\ running' = c
    /\ loop' = Loop("run", c, NoDelay, NoCore, 0, GetTicks(tms[c]))

\* Faulty variant: no core has to catch up.
LoopTopAtOnce ==
    /\ loop.phase = "top"
    /\ AdvanceAll(timer)
    /\ left' = {} /\ UNCHANGED assertOK

LoopTop ==
    LET global == Max({GetTicks(timer[c]) : c \in Cores})
        delay == [c \in Cores |-> global - GetTicks(timer[c])]
        lag == {c \in Cores : delay[c] > 0}
    IN /\ loop.phase = "top"
       /\ IF lag = {} THEN AdvanceAll(timer)
          ELSE EnterAdvance(timer, "lag", Min(lag), delay, NoCore, 0)
       /\ left' = {} /\ UNCHANGED assertOK

\* Advance's loop: the first event is taken off the queue and its callback is
\* called; a periodic one schedules itself again first.
Fire ==
    LET c == loop.core
        tm == timer[c]
        i == NextEvent(tm.queue)
        ev == tm.queue[i]
        popped == [timer EXCEPT ![c].queue = RemoveAt(@, i)]
        again == IF Period[ev.type] = 0 THEN popped
                 ELSE ScheduleEvent(popped, current, Period[ev.type] - (tm.executed - ev.time),
                                    ev.type, c)
    IN /\ loop.phase \in {"lag", "advance"} /\ Due(tm)
       /\ \E eff \in Effects(again, current, CallbackDelays) :
             timer' = eff[1] /\ left' = {ev.type} \cup eff[2]
       /\ UNCHANGED <<current, running, loop, assertOK>>

\* max_delay is the delay of the first core that has the greatest.
Delayed(c) == loop.best = NoCore \/ loop.delay[c] > loop.delay[loop.best]

\* Advance ends, the core is rescheduled and gets its slice.
LagDone ==
    LET c == loop.core
        best == IF Delayed(c) THEN c ELSE loop.best
        later == {d \in Cores : d > c /\ loop.delay[d] > 0}
        tms == [timer EXCEPT ![c] = SetNextSlice([@ EXCEPT !.sane = FALSE], loop.delay[c])]
        solo == loop.delay[best] > min_delay
    IN /\ loop.phase = "lag" /\ ~Due(timer[c])
       /\ \/ /\ later # {}
             /\ EnterAdvance(tms, "lag", Min(later), loop.delay, best, 0)
          \/ /\ later = {} /\ solo
             /\ timer' = tms
             /\ running' = best
             /\ current' = IF running = best THEN current ELSE best
             /\ loop' = Loop("solo", best, NoDelay, NoCore, 0, 0)
          \/ /\ later = {} /\ ~solo
             /\ AdvanceAll(tms)
       /\ left' = {} /\ UNCHANGED assertOK

AdvanceDone ==
    LET c == loop.core
        tms == [timer EXCEPT ![c].sane = FALSE]
        max == Min({loop.slice, GetMaxSliceLength(timer[c])})
    IN /\ loop.phase = "advance" /\ ~Due(timer[c])
       /\ assertOK' = (assertOK /\ GetMaxSliceLength(timer[c]) > 0)
       /\ IF c + 1 \in Cores
          THEN EnterAdvance(tms, "advance", c + 1, NoDelay, NoCore, max)
          ELSE EnterRun(tms, 0, max)
       /\ left' = {}

\* The core stops; the next one may run for as long as this one did.
StopRunning(tms) ==
    LET c == loop.core
    IN IF loop.phase = "run" /\ c + 1 \in Cores
       THEN EnterRun(tms, c + 1, GetTicks(tms[c]) - loop.start)
       ELSE /\ timer' = tms
            /\ loop' = Loop("end", 0, NoDelay, NoCore, 0, 0)
            /\ UNCHANGED <<current, running>>

\* No thread is ready: the rest of the slice is skipped.
Idle ==
    /\ loop.phase \in {"run", "solo"}
    /\ timer[loop.core].down = timer[loop.core].slice
    /\ StopRunning([timer EXCEPT ![loop.core] = TimerIdle(@)])
    /\ left' = {} /\ UNCHANGED assertOK

\* The core executes instructions that take n ticks, the last of which may be a
\* supervisor call.  It goes on while the downcount is positive, unless the call
\* made it stop.
Execute(n) ==
    LET c == loop.core
        ran == [timer EXCEPT ![c].down = @ - n]
    IN /\ loop.phase \in {"run", "solo"}
       /\ timer[c].down > 0 /\ n <= timer[c].down + Overshoot
       /\ \E eff \in Effects(ran, current, Delays) :
             /\ left' = eff[2]
             /\ \/ StopRunning(eff[1])
                \/ /\ eff[1][c].down > 0
                   /\ timer' = eff[1]
                   /\ UNCHANGED <<current, running, loop>>
       /\ UNCHANGED assertOK

\* Ticks are counted from the slowest core's executed_ticks on.
Rebase(tms) ==
    LET base == Min({tms[c].executed : c \in Cores})
        shift(q) == [i \in DOMAIN q |-> [q[i] EXCEPT !.time = @ - base]]
    IN [c \in Cores |-> [tms[c] EXCEPT !.executed = @ - base, !.queue = shift(@), !.ts = shift(@)]]

LoopEnd ==
    /\ loop.phase = "end"
    /\ timer' = Rebase(timer)
    /\ loop' = [loop EXCEPT !.phase = "top"]
    /\ left' = {}
    /\ UNCHANGED <<current, running, assertOK>>

Next ==
    \/ LoopTop \/ Fire \/ LagDone \/ AdvanceDone \/ Idle \/ LoopEnd
    \/ \E n \in 1 .. MAX_SLICE_LENGTH + Overshoot : Execute(n)

Spec == Init /\ [][Next]_vars

\* The host keeps calling RunLoop.
FairSpec == Spec /\ WF_vars(Next)

-----------------------------------------------------------------------------
(* Properties.                                                             *)

EventRecord == [time : Int, type : EventTypes, own : BOOLEAN]

Timer == [queue : Seq(EventRecord), ts : Seq(EventRecord), sane : BOOLEAN,
          executed : Nat, slice : Int, down : Int]

\* The values of the timers' fields (core_timing.h) and of RunLoop's variables.
TypeOK ==
    /\ timer \in [Cores -> Timer]
    /\ current \in Cores /\ running \in Cores /\ assertOK \in BOOLEAN
    /\ loop \in [phase : {"top", "lag", "advance", "run", "solo", "end"}, core : Cores,
                 delay : [Cores -> Int], best : Cores \cup {NoCore}, slice : Int, start : Int]

\* The most ticks a core can run between two Advances when all cores run: it gets
\* what the core before it ran, and each may overrun what it gets.
LongestRun == MAX_SLICE_LENGTH + NumCores * Overshoot

\* How far the cores can drift apart: by a run and the tolerated lag and, while
\* they catch up one at a time, by what each but the first and the last overruns.
MaxLag == LongestRun + min_delay + (NumCores - 2) * Overshoot

\* How long an event of another core can wait for its core's Advance.  Of more than
\* two cores, one that catches up may have been sent events after its Advance.
LongestWait == IF NumCores > 2 THEN MaxLag + Overshoot ELSE LongestRun

\* A core never runs past one of its events by more than it may overrun a slice:
\* the events of the queue limit the slice, and scheduling one cuts it short.
\* An event another core scheduled is seen at the next Advance, one slice later.
EventsAreTimely ==
    \A c \in Cores :
        /\ \A i \in DOMAIN timer[c].queue :
              LET ev == timer[c].queue[i]
              IN GetTicks(timer[c]) - ev.time <= IF ev.own THEN Overshoot ELSE LongestWait
        /\ \A i \in DOMAIN timer[c].ts :
              GetTicks(timer[c]) - timer[c].ts[i].time <= LongestWait

\* The cores' clocks stay within MaxLag of each other, however the slices are cut
\* short.
CoresInStep ==
    \A c, d \in Cores : GetTicks(timer[c]) - GetTicks(timer[d]) <= MaxLag

\* The ASSERT of GetMaxSliceLength holds, and no core is given an empty slice.
SlicesNotEmpty ==
    /\ assertOK
    /\ loop.phase \in {"run", "solo"} => timer[loop.core].slice > 0

\* No core's clock ever goes back: not when a slice is cut short, ends, is
\* skipped or is handed out.
TicksNeverGoBack ==
    [][loop.phase # "end" => \A c \in Cores : GetTicks(timer'[c]) >= GetTicks(timer[c])]_vars

\* Every event that is scheduled fires, unless it is unscheduled; so no Advance
\* is endless and no core is left behind.
EveryEventFires == \A e \in EventTypes : Scheduled(timer, e) ~> e \in left

=============================================================================
