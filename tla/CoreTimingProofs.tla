-------------------------- MODULE CoreTimingProofs --------------------------
(***************************************************************************)
(* Proofs about CoreTiming.tla, for every number of cores and every value  *)
(* of the other constants.                                                 *)
(***************************************************************************)
EXTENDS CoreTiming, CommonLemmas, FiniteSetTheorems

-----------------------------------------------------------------------------
(* The methods of a Timer.                                                 *)

LEMMA EventFields == \A ev \in EventRecord : ev.time \in Int /\ ev.own \in BOOLEAN
  BY DEF EventRecord

LEMMA QueueFields ==
    ASSUME NEW q \in Seq(EventRecord)
    PROVE  /\ \A i \in DOMAIN q : q[i] \in ToSet(q) /\ q[i].time \in Int
           /\ \A ev \in ToSet(q) : ev \in EventRecord /\ ev.time \in Int
  BY ToSetType, EventFields

KeepStep(p, i, x) == IF p[1][i].type = p[2] THEN x ELSE Append(x, p[1][i])

KeepHolds(p, i, x) == x \in Seq(ToSet(p[1]))

Keep == INSTANCE Loop WITH Step <- KeepStep, Holds <- KeepHolds

\* Unscheduling leaves events that were in the queue.
LEMMA WithoutKeeps ==
    ASSUME NEW q \in Seq(EventRecord), NEW e
    PROVE  /\ Without(q, e) \in Seq(EventRecord)
           /\ ToSet(Without(q, e)) \subseteq ToSet(q)
<1> DEFINE p == <<q, e>>
           f == Keep!Run(p, <<>>, Len(q))
<1>1. Without(q, e) = f[Len(q)]
  BY DEF Without, Keep!Run, KeepStep
<1>2. Len(q) \in Nat
  OBVIOUS
<1>3. KeepHolds(p, 0, <<>>)
  BY DEF KeepHolds
<1>4. ASSUME NEW i \in 1 .. Len(q), NEW x, KeepHolds(p, i - 1, x)
      PROVE  KeepHolds(p, i, KeepStep(p, i, x))
  <2>1. q[i] \in ToSet(q)
    BY ToSetType
  <2> QED BY <1>4, <2>1 DEF KeepHolds, KeepStep
<1>5. \A i \in 0 .. Len(q) : KeepHolds(p, i, f[i])
  <2> HIDE DEF p, f
  <2>1. \A i \in 1 .. Len(q) : \A x : KeepHolds(p, i - 1, x) => KeepHolds(p, i, KeepStep(p, i, x))
    BY <1>4
  <2> QED BY <1>2, <1>3, <2>1, Keep!LoopInvariant DEF f
<1>6. Without(q, e) \in Seq(ToSet(q))
  <2>1. KeepHolds(p, Len(q), f[Len(q)])
    BY <1>2, <1>5
  <2> HIDE DEF f
  <2> QED BY <1>1, <2>1 DEF KeepHolds
<1>7. ToSet(q) \subseteq EventRecord
  BY ToSetType
<1>8. Without(q, e) \in Seq(EventRecord)
  BY <1>6, <1>7
<1> QED BY <1>6, <1>8, ToSetType

\* The event at the front of the heap is one with the least time.
LEMMA NextEventIsLeast ==
    ASSUME NEW q \in Seq(EventRecord), q # <<>>
    PROVE  /\ NextEvent(q) \in DOMAIN q
           /\ \A j \in DOMAIN q : q[NextEvent(q)].time <= q[j].time
<1> DEFINE f == [i \in 1 .. Len(q) |-> q[i].time]
<1>1. Len(q) \in Nat \ {0} /\ DOMAIN q = 1 .. Len(q)
  OBVIOUS
<1>2. \A i \in 1 .. Len(q) : f[i] \in Int /\ f[i] = q[i].time
  BY <1>1, QueueFields
<1> HIDE DEF f
<1>3. \E i \in DOMAIN q : \A j \in DOMAIN q :
          q[i].time < q[j].time \/ (q[i].time = q[j].time /\ i <= j)
  <2>1. \E i \in 1 .. Len(q) : \A j \in 1 .. Len(q) : f[i] < f[j] \/ (f[i] = f[j] /\ i <= j)
    BY <1>1, <1>2, FirstLeast
  <2> QED BY <1>1, <1>2, <2>1
<1>4. \A j \in DOMAIN q : q[j].time \in Int
  BY QueueFields
<1>5. /\ NextEvent(q) \in DOMAIN q
      /\ \A j \in DOMAIN q :
             \/ q[NextEvent(q)].time < q[j].time
             \/ q[NextEvent(q)].time = q[j].time /\ NextEvent(q) <= j
  BY <1>3 DEF NextEvent
<1> QED BY <1>4, <1>5

LEMMA FrontTimeIsLeast ==
    ASSUME NEW tm \in Timer, tm.queue # <<>>
    PROVE  /\ FrontTime(tm) \in Int
           /\ \E ev \in ToSet(tm.queue) : ev.time = FrontTime(tm)
           /\ \A ev \in ToSet(tm.queue) : FrontTime(tm) <= ev.time
<1> DEFINE q == tm.queue
<1>1. q \in Seq(EventRecord)
  BY DEF Timer
<1>2. /\ NextEvent(q) \in DOMAIN q
      /\ \A j \in DOMAIN q : q[NextEvent(q)].time <= q[j].time
  BY <1>1, NextEventIsLeast
<1>3. FrontTime(tm) = q[NextEvent(q)].time
  BY DEF FrontTime
<1>4. q[NextEvent(q)] \in EventRecord /\ q[NextEvent(q)] \in ToSet(q)
  BY <1>1, <1>2, ToSetType
<1> HIDE DEF q
<1>5. \A ev \in ToSet(q) : \E j \in DOMAIN q : ev = q[j]
  BY DEF ToSet
<1>6. FrontTime(tm) \in Int
  BY <1>3, <1>4 DEF EventRecord
<1>7. \A ev \in ToSet(q) : FrontTime(tm) <= ev.time
  BY <1>2, <1>3, <1>5
<1> QED BY <1>3, <1>4, <1>6, <1>7 DEF q

\* When Advance's loop ends, every event of the queue is in the future.
LEMMA NotDue ==
    ASSUME NEW tm \in Timer, ~Due(tm)
    PROVE  \A ev \in ToSet(tm.queue) : ev.time > tm.executed
<1>1. CASE tm.queue = <<>>
  BY <1>1, ToSetEmpty
<1>2. CASE tm.queue # <<>>
  <2>1. FrontTime(tm) \in Int /\ \A ev \in ToSet(tm.queue) : FrontTime(tm) <= ev.time
    BY <1>2, FrontTimeIsLeast
  <2>2. tm.executed \in Nat /\ tm.queue \in Seq(EventRecord)
    BY DEF Timer
  <2>3. ~(FrontTime(tm) <= tm.executed)
    BY <1>2 DEF Due
  <2>4. \A ev \in ToSet(tm.queue) : ev.time \in Int
    BY <2>2, QueueFields
  <2> QED BY <2>1, <2>2, <2>3, <2>4
<1> QED BY <1>1, <1>2

-----------------------------------------------------------------------------
\* A timer as a record of its fields.
LEMMA SliceFields ==
    ASSUME NEW tm \in Timer, NEW s, NEW d
    PROVE  [tm EXCEPT !.slice = s, !.down = d]
             = [queue |-> tm.queue, ts |-> tm.ts, sane |-> tm.sane,
                executed |-> tm.executed, slice |-> s, down |-> d]
<1>1. tm = [queue |-> tm.queue, ts |-> tm.ts, sane |-> tm.sane,
            executed |-> tm.executed, slice |-> tm.slice, down |-> tm.down]
  BY DEF Timer
<1> DEFINE x == [tm EXCEPT !.slice = s]
<1>2. x = [queue |-> tm.queue, ts |-> tm.ts, sane |-> tm.sane,
           executed |-> tm.executed, slice |-> s, down |-> tm.down]
  BY <1>1
<1> HIDE DEF x
<1>3. [x EXCEPT !.down = d]
        = [queue |-> tm.queue, ts |-> tm.ts, sane |-> tm.sane,
           executed |-> tm.executed, slice |-> s, down |-> d]
  BY <1>2
<1> QED BY <1>3 DEF x

\* What SetNextSlice gives a core: no more than it may get, and no event of the
\* queue falls into the slice.
LEMMA SliceGiven ==
    ASSUME NEW tm \in Timer, NEW max \in Int
    PROVE  LET nx == SetNextSlice(tm, max)
           IN /\ nx \in Timer
              /\ nx.queue = tm.queue /\ nx.ts = tm.ts /\ nx.sane = tm.sane
              /\ nx.executed = tm.executed /\ nx.down = nx.slice
              /\ nx.slice <= max
              /\ \A ev \in ToSet(tm.queue) : tm.executed + nx.slice <= ev.time
              /\ max > 0 /\ (\A ev \in ToSet(tm.queue) : ev.time > tm.executed) => nx.slice > 0
<1> DEFINE n == IF tm.queue = <<>> THEN max ELSE Min({FrontTime(tm) - tm.executed, max})
           nx == SetNextSlice(tm, max)
<1>1. tm.executed \in Nat /\ tm.queue \in Seq(EventRecord) /\ \A ev \in ToSet(tm.queue) : ev.time \in Int
  BY QueueFields DEF Timer
<1>2. /\ n \in Int /\ n <= max
      /\ \A ev \in ToSet(tm.queue) : tm.executed + n <= ev.time
      /\ max > 0 /\ (\A ev \in ToSet(tm.queue) : ev.time > tm.executed) => n > 0
  <2>1. CASE tm.queue = <<>>
    BY <2>1, ToSetEmpty
  <2>2. CASE tm.queue # <<>>
    <3>1. /\ FrontTime(tm) \in Int
          /\ \E ev \in ToSet(tm.queue) : ev.time = FrontTime(tm)
          /\ \A ev \in ToSet(tm.queue) : FrontTime(tm) <= ev.time
      BY <2>2, FrontTimeIsLeast
    <3>2. n = IF FrontTime(tm) - tm.executed <= max THEN FrontTime(tm) - tm.executed ELSE max
      BY <2>2, <3>1, <1>1, MinPair
    <3> HIDE DEF n
    <3> QED BY <3>1, <3>2, <1>1
  <2> QED BY <2>1, <2>2
<1>3. nx = [tm EXCEPT !.slice = n, !.down = n]
  BY DEF SetNextSlice
<1> HIDE DEF n, nx
<1>4. nx = [queue |-> tm.queue, ts |-> tm.ts, sane |-> tm.sane,
            executed |-> tm.executed, slice |-> n, down |-> n]
  BY <1>3, SliceFields
<1>5. nx \in Timer /\ nx.slice = n
  BY <1>2, <1>4 DEF Timer
<1> QED BY <1>2, <1>4, <1>5 DEF nx

\* What Advance does before its loop.
LEMMA Elapsed ==
    ASSUME NEW tm \in Timer, tm.down <= tm.slice
    PROVE  LET el == Elapse(tm)
           IN /\ el \in Timer
              /\ el.sane = TRUE /\ el.slice = 0 /\ el.down = 0 /\ el.ts = <<>>
              /\ el.executed = tm.executed + (tm.slice - tm.down)
              /\ ToSet(el.queue) = ToSet(tm.queue) \cup ToSet(tm.ts)
<1> DEFINE el == Elapse(tm)
<1>1. /\ tm.executed \in Nat /\ tm.slice \in Int /\ tm.down \in Int
      /\ tm.queue \in Seq(EventRecord) /\ tm.ts \in Seq(EventRecord)
  BY DEF Timer
<1>2. /\ tm.queue \o tm.ts \in Seq(EventRecord)
      /\ ToSet(tm.queue \o tm.ts) = ToSet(tm.queue) \cup ToSet(tm.ts)
  BY <1>1, ToSetConcat
<1>3. MoveEvents(tm).queue = tm.queue \o tm.ts /\ MoveEvents(tm).ts = <<>>
  BY DEF MoveEvents, Timer
<1>4. el = [queue |-> tm.queue \o tm.ts, ts |-> <<>>, sane |-> TRUE,
            executed |-> tm.executed + (tm.slice - tm.down), slice |-> 0, down |-> 0]
  BY <1>3 DEF Elapse
<1>5. tm.executed + (tm.slice - tm.down) \in Nat
  BY <1>1
<1>6. <<>> \in Seq(EventRecord)
  OBVIOUS
<1> HIDE DEF el
<1>7. el \in Timer
  BY <1>2, <1>4, <1>5, <1>6 DEF Timer
<1> QED BY <1>2, <1>4, <1>7 DEF el

\* Cutting a slice short changes neither the clock nor the events.
LEMMA SliceCut ==
    ASSUME NEW tm \in Timer, NEW cycles \in Int
    PROVE  LET cut == ForceExceptionCheck(tm, cycles)
           IN /\ cut \in Timer
              /\ cut.queue = tm.queue /\ cut.ts = tm.ts /\ cut.sane = tm.sane
              /\ cut.executed = tm.executed
              /\ cut.slice - cut.down = tm.slice - tm.down
              /\ cut.slice <= tm.slice
              /\ cut.down = tm.down \/ cut.down >= 0
              /\ cycles >= 0 => cut.down <= cycles
<1> DEFINE n == Max({0, cycles})
           s == tm.slice - (tm.down - n)
           cut == ForceExceptionCheck(tm, cycles)
<1>1. n \in Int /\ n >= 0 /\ (cycles >= 0 => n = cycles)
  BY MaxPair
<1>2. tm.slice \in Int /\ tm.down \in Int
  BY DEF Timer
<1>3. cut = IF tm.down > n THEN [tm EXCEPT !.slice = s, !.down = n] ELSE tm
  BY DEF ForceExceptionCheck
<1> HIDE DEF n, cut
<1>4. CASE tm.down > n
  <2>1. s \in Int /\ s - n = tm.slice - tm.down /\ s <= tm.slice
    BY <1>1, <1>2, <1>4
  <2> HIDE DEF s
  <2>2. cut = [queue |-> tm.queue, ts |-> tm.ts, sane |-> tm.sane,
               executed |-> tm.executed, slice |-> s, down |-> n]
    BY <1>3, <1>4, SliceFields
  <2>3. cut \in Timer
    BY <1>1, <2>1, <2>2 DEF Timer
  <2> QED BY <1>1, <1>2, <2>1, <2>2, <2>3 DEF cut
<1>5. CASE ~(tm.down > n)
  <2>1. cut = tm
    BY <1>3, <1>5
  <2> QED BY <1>1, <1>2, <1>5, <2>1 DEF cut
<1> QED BY <1>4, <1>5

-----------------------------------------------------------------------------
(* What a program or a callback may do to a timer a: b is the timer after  *)
(* it, and own says that the timer is current_timer.                       *)

FreshEvent(a, b, own, ev) ==
    own /\ ev.own /\ ev.time >= GetTicks(a) /\ (~a.sane => ev.time >= a.executed + b.slice)

Affected(a, b, own) ==
    /\ b.executed = a.executed /\ b.sane = a.sane
    /\ b.slice - b.down = a.slice - a.down /\ b.slice <= a.slice
    /\ a.sane \/ ~own => b.slice = a.slice
    /\ b.down = a.down \/ b.down >= 0
    /\ own => b.ts = a.ts
    /\ \A ev \in ToSet(b.queue) : ev \in ToSet(a.queue) \/ FreshEvent(a, b, own, ev)
    /\ \A ev \in ToSet(b.ts) : ev \in ToSet(a.ts) \/ (~own /\ ~ev.own /\ ev.time >= GetTicks(a))

LEMMA TimerFields ==
    ASSUME NEW tm \in Timer
    PROVE  /\ tm.queue \in Seq(EventRecord) /\ tm.ts \in Seq(EventRecord)
           /\ tm.sane \in BOOLEAN /\ tm.executed \in Nat /\ tm.executed \in Int
           /\ tm.slice \in Int /\ tm.down \in Int
  BY DEF Timer

LEMMA TicksType ==
    ASSUME NEW tm \in Timer
    PROVE  GetTicks(tm) \in Int
  BY DEF Timer, GetTicks

OwnEvent(tm, cycles, e) == Event(GetTicks(tm) + cycles, e, cycles >= 0)

LEMMA NewEvent ==
    ASSUME NEW t \in Int, NEW e \in EventTypes, NEW own \in BOOLEAN
    PROVE  /\ Event(t, e, own) \in EventRecord
           /\ Event(t, e, own).time = t /\ (Event(t, e, own).own <=> own)
  BY DEF Event, EventRecord

\* An event scheduled on the current timer.
LEMMA ScheduledHere ==
    ASSUME NEW tms \in [Cores -> Timer], NEW c \in Cores, NEW cycles \in Int,
           NEW e \in EventTypes
    PROVE  LET r == ScheduleEvent(tms, c, cycles, e, c)
               ev == OwnEvent(tms[c], cycles, e)
           IN /\ r \in [Cores -> Timer]
              /\ \A d \in Cores : d # c => r[d] = tms[d]
              /\ r[c].executed = tms[c].executed /\ r[c].sane = tms[c].sane
              /\ r[c].ts = tms[c].ts
              /\ r[c].slice - r[c].down = tms[c].slice - tms[c].down
              /\ r[c].slice <= tms[c].slice
              /\ tms[c].sane => r[c].slice = tms[c].slice
              /\ r[c].down = tms[c].down \/ r[c].down >= 0
              /\ ~tms[c].sane /\ cycles >= 0 => r[c].down <= cycles
              /\ ev \in EventRecord /\ ev.time = GetTicks(tms[c]) + cycles
              /\ (ev.own <=> cycles >= 0)
              /\ ToSet(r[c].queue) = ToSet(tms[c].queue) \cup {ev}
<1> DEFINE tm == tms[c]
           r == ScheduleEvent(tms, c, cycles, e, c)
           ev == OwnEvent(tm, cycles, e)
           forced == IF tm.sane THEN tm ELSE ForceExceptionCheck(tm, cycles)
           new == [forced EXCEPT !.queue = Append(@, ev)]
<1>1. tm \in Timer
  OBVIOUS
<1>2. GetTicks(tm) \in Int /\ tm.slice \in Int /\ tm.down \in Int /\ tm.queue \in Seq(EventRecord)
  BY <1>1, TicksType DEF Timer
<1>3. ev \in EventRecord /\ ev.time = GetTicks(tm) + cycles /\ (ev.own <=> cycles >= 0)
  BY <1>2, NewEvent, GetTicks(tm) + cycles \in Int, (cycles >= 0) \in BOOLEAN DEF OwnEvent
<1>4. /\ forced \in Timer
      /\ forced.queue = tm.queue /\ forced.ts = tm.ts /\ forced.sane = tm.sane
      /\ forced.executed = tm.executed
      /\ forced.slice - forced.down = tm.slice - tm.down
      /\ forced.slice <= tm.slice
      /\ tm.sane => forced.slice = tm.slice
      /\ forced.down = tm.down \/ forced.down >= 0
      /\ ~tm.sane /\ cycles >= 0 => forced.down <= cycles
  <2>1. CASE tm.sane
    <3>1. forced = tm
      BY <2>1
    <3> HIDE DEF forced, tm
    <3>2. tm.slice <= tm.slice
      BY <1>2
    <3> QED BY <1>1, <2>1, <3>1, <3>2, Zenon
  <2>2. CASE ~tm.sane
    <3>1. forced = ForceExceptionCheck(tm, cycles)
      BY <2>2
    <3> HIDE DEF forced, tm
    <3> QED BY <1>1, <2>2, <3>1, SliceCut
  <2> QED BY <2>1, <2>2
<1>5. r = [tms EXCEPT ![c] = new]
  BY DEF ScheduleEvent, OwnEvent
<1> HIDE DEF ev, forced, r, tm
<1>6. /\ new \in Timer
      /\ new.queue = Append(tm.queue, ev) /\ new.ts = forced.ts /\ new.sane = forced.sane
      /\ new.executed = forced.executed /\ new.slice = forced.slice /\ new.down = forced.down
  <2>1. Append(tm.queue, ev) \in Seq(EventRecord)
    BY <1>2, <1>3
  <2>2. new = [forced EXCEPT !.queue = Append(tm.queue, ev)]
    BY <1>4
  <2> QED BY <1>4, <2>1, <2>2 DEF Timer
<1>7. ToSet(new.queue) = ToSet(tm.queue) \cup {ev}
  BY <1>2, <1>6, ToSetAppend
<1> HIDE DEF new
<1>8. r \in [Cores -> Timer] /\ r[c] = new /\ \A d \in Cores : d # c => r[d] = tms[d]
  BY <1>5, <1>6
<1> QED BY <1>3, <1>4, <1>6, <1>7, <1>8 DEF r, ev, tm

\* An event scheduled for another core.
LEMMA ScheduledThere ==
    ASSUME NEW tms \in [Cores -> Timer], NEW cur \in Cores, NEW cycles \in Nat,
           NEW e \in EventTypes, NEW c \in Cores, c # cur
    PROVE  LET r == ScheduleEvent(tms, cur, cycles, e, c)
           IN /\ r \in [Cores -> Timer]
              /\ \A d \in Cores : d # c => r[d] = tms[d]
              /\ Affected(tms[c], r[c], FALSE)
<1> DEFINE tm == tms[c]
           r == ScheduleEvent(tms, cur, cycles, e, c)
           ev == Event(GetTicks(tm) + cycles, e, FALSE)
           new == [tm EXCEPT !.ts = Append(@, ev)]
<1>1. tm \in Timer
  OBVIOUS
<1>2. GetTicks(tm) \in Int /\ tm.slice \in Int /\ tm.down \in Int /\ tm.ts \in Seq(EventRecord)
  BY <1>1, TicksType DEF Timer
<1>3. ev \in EventRecord /\ ev.time = GetTicks(tm) + cycles /\ ~ev.own
  BY <1>2, NewEvent, GetTicks(tm) + cycles \in Int, FALSE \in BOOLEAN
<1>4. r = [tms EXCEPT ![c] = new]
  BY DEF ScheduleEvent
<1> HIDE DEF ev, r, tm
<1>5. /\ new \in Timer
      /\ new.ts = Append(tm.ts, ev) /\ new.queue = tm.queue /\ new.sane = tm.sane
      /\ new.executed = tm.executed /\ new.slice = tm.slice /\ new.down = tm.down
  <2>1. Append(tm.ts, ev) \in Seq(EventRecord)
    BY <1>2, <1>3
  <2> QED BY <1>1, <2>1 DEF Timer
<1>6. ToSet(new.ts) = ToSet(tm.ts) \cup {ev}
  BY <1>2, <1>5, ToSetAppend
<1> HIDE DEF new
<1>7. r \in [Cores -> Timer] /\ r[c] = new /\ \A d \in Cores : d # c => r[d] = tms[d]
  BY <1>4, <1>5
<1>8. Affected(tm, new, FALSE)
  <2>1. ev.time >= GetTicks(tm)
    BY <1>2, <1>3
  <2>2. new.slice - new.down = tm.slice - tm.down /\ new.slice <= tm.slice
    BY <1>2, <1>5
  <2>3. \A x \in ToSet(new.ts) : x \in ToSet(tm.ts) \/ (~x.own /\ x.time >= GetTicks(tm))
    BY <1>3, <1>6, <2>1
  <2> QED BY <1>5, <2>2, <2>3, Zenon DEF Affected
<1> QED BY <1>7, <1>8 DEF r, tm

LEMMA AffectedRefl ==
    ASSUME NEW a \in Timer, NEW own \in BOOLEAN
    PROVE  Affected(a, a, own)
  BY DEF Affected, Timer

\* A program or a callback neither moves a clock nor makes a slice longer, and
\* what it adds to the queues is not in the past.
LEMMA EffectsAffect ==
    ASSUME NEW tms \in [Cores -> Timer], NEW cur \in Cores, NEW delays \in SUBSET Nat,
           NEW eff \in Effects(tms, cur, delays)
    PROVE  /\ eff[1] \in [Cores -> Timer]
           /\ \A c \in Cores : Affected(tms[c], eff[1][c], c = cur)
<1>1. CASE eff = <<tms, {}>>
  <2>1. eff[1] = tms
    BY <1>1
  <2> QED BY <2>1, AffectedRefl
<1>2. ASSUME NEW d \in delays, NEW e \in EventTypes, NEW c \in Cores,
             eff = <<ScheduleEvent(tms, cur, d, e, c), {}>>
      PROVE  /\ eff[1] \in [Cores -> Timer]
             /\ \A x \in Cores : Affected(tms[x], eff[1][x], x = cur)
  <2> DEFINE r == ScheduleEvent(tms, cur, d, e, c)
  <2>1. eff[1] = r
    BY <1>2
  <2>2. d \in Nat
    OBVIOUS
  <2>3. CASE c # cur
    <3>1. /\ r \in [Cores -> Timer]
          /\ \A x \in Cores : x # c => r[x] = tms[x]
          /\ Affected(tms[c], r[c], FALSE)
      BY <2>2, <2>3, ScheduledThere
    <3> HIDE DEF r
    <3>2. \A x \in Cores : x # c => Affected(tms[x], r[x], x = cur)
      BY <3>1, AffectedRefl
    <3>3. Affected(tms[c], r[c], c = cur)
      <4>1. (c = cur) = FALSE
        BY <2>3
      <4> QED BY <3>1, <4>1
    <3> QED BY <2>1, <3>1, <3>2, <3>3
  <2>4. CASE c = cur
    <3> DEFINE ev == OwnEvent(tms[c], d, e)
    <3>1. /\ r \in [Cores -> Timer]
          /\ \A x \in Cores : x # c => r[x] = tms[x]
          /\ r[c].executed = tms[c].executed /\ r[c].sane = tms[c].sane
          /\ r[c].ts = tms[c].ts
          /\ r[c].slice - r[c].down = tms[c].slice - tms[c].down
          /\ r[c].slice <= tms[c].slice
          /\ tms[c].sane => r[c].slice = tms[c].slice
          /\ r[c].down = tms[c].down \/ r[c].down >= 0
          /\ ~tms[c].sane /\ d >= 0 => r[c].down <= d
          /\ ev.time = GetTicks(tms[c]) + d
          /\ (ev.own <=> d >= 0)
          /\ ToSet(r[c].queue) = ToSet(tms[c].queue) \cup {ev}
      BY <2>2, <2>4, ScheduledHere, d \in Int
    <3> HIDE DEF r, ev
    <3>2. \A x \in Cores : x # c => Affected(tms[x], r[x], x = cur)
      BY <3>1, AffectedRefl
    <3>3. Affected(tms[c], r[c], TRUE)
      <4>1. tms[c] \in Timer /\ r[c] \in Timer /\ GetTicks(tms[c]) \in Int
        BY <3>1, TicksType
      <4>2. /\ tms[c].executed \in Int /\ tms[c].slice \in Int /\ tms[c].down \in Int
            /\ r[c].slice \in Int /\ r[c].down \in Int
        BY <4>1, TimerFields
      <4>3. FreshEvent(tms[c], r[c], TRUE, ev)
        <5>1. ev.own /\ ev.time >= GetTicks(tms[c])
          BY <2>2, <3>1, <4>1
        <5>2. ASSUME ~tms[c].sane PROVE ev.time >= tms[c].executed + r[c].slice
          <6>1. GetTicks(tms[c]) = tms[c].executed + (tms[c].slice - tms[c].down)
            BY <5>2 DEF GetTicks
          <6> QED BY <2>2, <3>1, <4>1, <4>2, <5>2, <6>1
        <5> QED BY <5>1, <5>2 DEF FreshEvent
      <4> QED BY <3>1, <4>3 DEF Affected
    <3>4. (c = cur) = TRUE
      BY <2>4
    <3> QED BY <2>1, <3>1, <3>2, <3>3, <3>4
  <2> QED BY <2>3, <2>4
<1>3. ASSUME NEW e \in EventTypes, eff = <<UnscheduleEvent(tms, e), {e}>>
      PROVE  /\ eff[1] \in [Cores -> Timer]
             /\ \A c \in Cores : Affected(tms[c], eff[1][c], c = cur)
  <2> DEFINE r == UnscheduleEvent(tms, e)
  <2>1. eff[1] = r
    BY <1>3
  <2>2. ASSUME NEW c \in Cores
        PROVE  r[c] \in Timer /\ Affected(tms[c], r[c], c = cur)
    <3>1. r[c] = [tms[c] EXCEPT !.queue = Without(@, e)]
      BY DEF UnscheduleEvent
    <3> HIDE DEF r
    <3>2. tms[c] \in Timer /\ tms[c].queue \in Seq(EventRecord)
      BY DEF Timer
    <3>3. /\ Without(tms[c].queue, e) \in Seq(EventRecord)
          /\ ToSet(Without(tms[c].queue, e)) \subseteq ToSet(tms[c].queue)
      BY <3>2, WithoutKeeps
    <3>4. /\ r[c] \in Timer
          /\ r[c].queue = Without(tms[c].queue, e) /\ r[c].ts = tms[c].ts
          /\ r[c].sane = tms[c].sane /\ r[c].executed = tms[c].executed
          /\ r[c].slice = tms[c].slice /\ r[c].down = tms[c].down
      BY <3>1, <3>2, <3>3 DEF Timer
    <3> QED BY <3>2, <3>3, <3>4 DEF Affected, Timer
  <2>3. r = [c \in Cores |-> r[c]]
    BY DEF UnscheduleEvent
  <2> HIDE DEF r
  <2> QED BY <2>1, <2>2, <2>3
<1> QED BY <1>1, <1>2, <1>3 DEF Effects

-----------------------------------------------------------------------------
(* The inductive invariant: of every timer ...                             *)

Lateness(ev) == IF ev.own THEN Overshoot ELSE LongestWait

TimerInv(tm) ==
    /\ tm.down <= tm.slice
    /\ tm.sane => /\ tm.slice = tm.down
                  /\ \A ev \in ToSet(tm.queue) : tm.executed - ev.time <= Lateness(ev)
    /\ ~tm.sane => /\ tm.down >= -Overshoot
                   /\ \A ev \in ToSet(tm.queue) : tm.executed + tm.slice <= ev.time
    /\ \A ev \in ToSet(tm.ts) :
          ~ev.own /\ ev.time >= tm.executed /\ GetTicks(tm) - ev.time <= LongestWait

\* ... of one that is in Advance ...
Advancing(tm) == tm.sane /\ tm.slice = 0 /\ tm.down = 0 /\ tm.ts = <<>>

\* ... and of one that has left Advance and has not been given its slice.
Ready(tm) ==
    /\ ~tm.sane /\ tm.slice = 0 /\ tm.down = 0
    /\ \A ev \in ToSet(tm.queue) : ev.time > tm.executed

LEMMA Bounds ==
    /\ NumCores \in Nat /\ NumCores > 0 /\ Overshoot \in Nat /\ min_delay \in Nat
    /\ MAX_SLICE_LENGTH \in Nat /\ MAX_SLICE_LENGTH > 0
    /\ LongestRun \in Nat /\ MaxLag \in Nat /\ LongestWait \in Nat
    /\ LongestRun = MAX_SLICE_LENGTH + NumCores * Overshoot
    /\ NumCores * Overshoot \in Nat /\ NumCores * Overshoot >= Overshoot
    /\ MaxLag = LongestRun + min_delay + (NumCores - 2) * Overshoot
    /\ MaxLag = MAX_SLICE_LENGTH + min_delay + 2 * ((NumCores - 1) * Overshoot)
    /\ (NumCores - 1) * Overshoot \in Nat
    /\ NumCores * Overshoot = (NumCores - 1) * Overshoot + Overshoot
    /\ (NumCores - 2) * Overshoot = (NumCores - 1) * Overshoot - Overshoot
    /\ NumCores > 2 => LongestWait = MaxLag + Overshoot
    /\ LongestRun <= LongestWait
<1>1. /\ NumCores \in Nat /\ NumCores > 0 /\ Overshoot \in Nat /\ min_delay \in Nat
      /\ MAX_SLICE_LENGTH \in Nat /\ MAX_SLICE_LENGTH > 0
  BY TimingAssumption
<1> DEFINE x == (NumCores - 1) * Overshoot
<1>2. x \in Nat
  BY <1>1
<1>3. NumCores * Overshoot = x + Overshoot /\ (NumCores - 2) * Overshoot = x - Overshoot
  BY <1>1
<1> HIDE DEF x
<1>4. NumCores * Overshoot \in Nat /\ NumCores * Overshoot >= Overshoot
  BY <1>1, <1>2, <1>3
<1>5. /\ LongestRun = MAX_SLICE_LENGTH + NumCores * Overshoot
      /\ MaxLag = LongestRun + min_delay + (NumCores - 2) * Overshoot
  BY DEF LongestRun, MaxLag
<1>6. LongestRun = MAX_SLICE_LENGTH + x + Overshoot /\ MaxLag = MAX_SLICE_LENGTH + min_delay + 2 * x
  BY <1>1, <1>2, <1>3, <1>5
<1>7. LongestRun \in Nat /\ MaxLag \in Nat
  BY <1>1, <1>2, <1>6
<1>8. LongestWait \in Nat /\ LongestRun <= LongestWait /\ (NumCores > 2 => LongestWait = MaxLag + Overshoot)
  BY <1>1, <1>2, <1>6, <1>7 DEF LongestWait
<1> QED BY <1>1, <1>2, <1>3, <1>4, <1>5, <1>6, <1>7, <1>8 DEF x

LEMMA LatenessBound ==
    ASSUME NEW ev
    PROVE  Lateness(ev) \in Nat /\ Overshoot <= Lateness(ev) /\ Lateness(ev) <= LongestWait
<1>1. Overshoot <= LongestWait /\ Overshoot \in Nat /\ LongestWait \in Nat
  BY Bounds
<1> QED BY <1>1 DEF Lateness

\* Programs and callbacks preserve the invariant, and no clock moves.
LEMMA AffectedInv ==
    ASSUME NEW a \in Timer, NEW b \in Timer, NEW own \in BOOLEAN,
           Affected(a, b, own), TimerInv(a)
    PROVE  TimerInv(b) /\ GetTicks(b) = GetTicks(a)
<1>1. /\ a.executed \in Nat /\ a.slice \in Int /\ a.down \in Int /\ a.sane \in BOOLEAN
      /\ b.executed \in Nat /\ b.slice \in Int /\ b.down \in Int
  BY TimerFields
<1>2. /\ \A ev \in ToSet(a.queue) \cup ToSet(b.queue) : ev.time \in Int
      /\ \A ev \in ToSet(a.ts) \cup ToSet(b.ts) : ev.time \in Int
  BY TimerFields, QueueFields
<1>3. Overshoot \in Nat /\ LongestWait \in Nat
  BY Bounds
<1>4. /\ b.executed = a.executed /\ b.sane = a.sane
      /\ b.slice - b.down = a.slice - a.down /\ b.slice <= a.slice
  BY DEF Affected
<1>5. GetTicks(b) = GetTicks(a) /\ GetTicks(a) \in Int
  BY <1>4, TicksType DEF GetTicks
<1>6. b.down <= b.slice
  BY <1>1, <1>4 DEF TimerInv
<1>7. ASSUME b.sane
      PROVE  b.slice = b.down /\ \A ev \in ToSet(b.queue) : b.executed - ev.time <= Lateness(ev)
  <2>1. a.sane /\ a.slice = a.down
    BY <1>4, <1>7 DEF TimerInv
  <2>2. GetTicks(a) = a.executed
    BY <1>1, <2>1 DEF GetTicks
  <2>3. ASSUME NEW ev \in ToSet(b.queue) PROVE b.executed - ev.time <= Lateness(ev)
    <3>1. CASE ev \in ToSet(a.queue)
      BY <1>4, <2>1, <3>1 DEF TimerInv
    <3>2. CASE ev \notin ToSet(a.queue)
      <4>1. ev.time >= a.executed
        BY <2>2, <3>2 DEF Affected, FreshEvent
      <4> QED BY <1>1, <1>2, <1>4, <4>1, LatenessBound
    <3> QED BY <3>1, <3>2
  <2> QED BY <1>1, <1>4, <2>1, <2>3
<1>8. ASSUME ~b.sane
      PROVE  b.down >= -Overshoot /\ \A ev \in ToSet(b.queue) : b.executed + b.slice <= ev.time
  <2>1. ~a.sane /\ a.down >= -Overshoot
    BY <1>4, <1>8 DEF TimerInv
  <2>2. b.down >= -Overshoot
    <3>1. b.down = a.down \/ b.down >= 0
      BY DEF Affected
    <3> QED BY <1>1, <1>3, <2>1, <3>1
  <2>3. ASSUME NEW ev \in ToSet(b.queue) PROVE b.executed + b.slice <= ev.time
    <3>1. CASE ev \in ToSet(a.queue)
      <4>1. a.executed + a.slice <= ev.time
        BY <2>1, <3>1 DEF TimerInv
      <4> QED BY <1>1, <1>2, <1>4, <4>1, <3>1
    <3>2. CASE ev \notin ToSet(a.queue)
      <4>1. ev.time >= a.executed + b.slice
        BY <2>1, <3>2 DEF Affected, FreshEvent
      <4> QED BY <1>1, <1>2, <1>4, <4>1
    <3> QED BY <3>1, <3>2
  <2> QED BY <2>2, <2>3
<1>9. ASSUME NEW ev \in ToSet(b.ts)
      PROVE  ~ev.own /\ ev.time >= b.executed /\ GetTicks(b) - ev.time <= LongestWait
  <2>1. CASE ev \in ToSet(a.ts)
    BY <1>4, <1>5, <2>1 DEF TimerInv
  <2>2. CASE ev \notin ToSet(a.ts)
    <3>1. ~ev.own /\ ev.time >= GetTicks(a)
      BY <2>2 DEF Affected
    <3>2. GetTicks(a) >= a.executed
      BY <1>1 DEF GetTicks, TimerInv
    <3> QED BY <1>1, <1>2, <1>3, <1>4, <1>5, <3>1, <3>2
  <2> QED BY <2>1, <2>2
<1> QED BY <1>5, <1>6, <1>7, <1>8, <1>9 DEF TimerInv

\* Advance begins: an event that was late when its core stopped is as late now.
LEMMA ElapseInv ==
    ASSUME NEW tm \in Timer, TimerInv(tm)
    PROVE  LET el == Elapse(tm)
           IN el \in Timer /\ TimerInv(el) /\ Advancing(el) /\ GetTicks(el) = GetTicks(tm)
<1> DEFINE el == Elapse(tm)
<1>1. /\ tm.executed \in Nat /\ tm.slice \in Int /\ tm.down \in Int /\ tm.sane \in BOOLEAN
      /\ tm.queue \in Seq(EventRecord) /\ tm.ts \in Seq(EventRecord)
  BY TimerFields
<1>2. /\ \A ev \in ToSet(tm.queue) : ev.time \in Int
      /\ \A ev \in ToSet(tm.ts) : ev.time \in Int
  BY <1>1, QueueFields
<1>3. tm.down <= tm.slice
  BY DEF TimerInv
<1>4. /\ el \in Timer
      /\ el.sane = TRUE /\ el.slice = 0 /\ el.down = 0 /\ el.ts = <<>>
      /\ el.executed = tm.executed + (tm.slice - tm.down)
      /\ ToSet(el.queue) = ToSet(tm.queue) \cup ToSet(tm.ts)
  BY <1>3, Elapsed
<1> HIDE DEF el
<1>5. GetTicks(el) = el.executed
  BY <1>1, <1>4 DEF GetTicks
<1>6. GetTicks(tm) = el.executed
  <2>1. CASE tm.sane
    <3>1. tm.slice = tm.down
      BY <2>1 DEF TimerInv
    <3> QED BY <1>1, <1>4, <2>1, <3>1 DEF GetTicks
  <2>2. CASE ~tm.sane
    BY <1>1, <1>4, <2>2 DEF GetTicks
  <2> QED BY <2>1, <2>2
<1>7. ASSUME NEW ev \in ToSet(tm.queue) PROVE el.executed - ev.time <= Lateness(ev)
  <2>1. CASE tm.sane
    <3>1. tm.slice = tm.down /\ tm.executed - ev.time <= Lateness(ev)
      BY <2>1 DEF TimerInv
    <3> QED BY <1>1, <1>4, <3>1
  <2>2. CASE ~tm.sane
    <3>1. tm.down >= -Overshoot /\ tm.executed + tm.slice <= ev.time
      BY <2>2 DEF TimerInv
    <3> QED BY <1>1, <1>2, <1>4, <3>1, LatenessBound, Bounds
  <2> QED BY <2>1, <2>2
<1>8. ASSUME NEW ev \in ToSet(tm.ts) PROVE el.executed - ev.time <= Lateness(ev)
  <2>1. ~ev.own /\ GetTicks(tm) - ev.time <= LongestWait
    BY DEF TimerInv
  <2> QED BY <1>6, <2>1 DEF Lateness
<1>9. TimerInv(el)
  <2>1. \A ev \in ToSet(el.queue) : el.executed - ev.time <= Lateness(ev)
    BY <1>4, <1>7, <1>8
  <2> QED BY <1>4, <2>1, ToSetEmpty DEF TimerInv
<1> QED BY <1>4, <1>5, <1>6, <1>9 DEF Advancing, el

-----------------------------------------------------------------------------
(* The other steps of a timer.                                             *)

\* Advance ends: the timer is ready for its slice.
LEMMA AdvanceEnds ==
    ASSUME NEW tm \in Timer, TimerInv(tm), Advancing(tm), ~Due(tm)
    PROVE  LET nx == [tm EXCEPT !.sane = FALSE]
           IN nx \in Timer /\ TimerInv(nx) /\ Ready(nx) /\ GetTicks(nx) = GetTicks(tm)
<1> DEFINE nx == [tm EXCEPT !.sane = FALSE]
<1>1. /\ tm.executed \in Nat /\ tm.queue \in Seq(EventRecord)
      /\ \A ev \in ToSet(tm.queue) : ev.time \in Int
  BY TimerFields, QueueFields
<1>2. /\ nx \in Timer /\ nx.queue = tm.queue /\ nx.ts = tm.ts /\ nx.sane = FALSE
      /\ nx.executed = tm.executed /\ nx.slice = tm.slice /\ nx.down = tm.down
  BY DEF Timer
<1> HIDE DEF nx
<1>3. tm.sane /\ tm.slice = 0 /\ tm.down = 0 /\ tm.ts = <<>>
  BY DEF Advancing
<1>4. \A ev \in ToSet(tm.queue) : ev.time > tm.executed
  BY NotDue
<1>5. GetTicks(nx) = tm.executed /\ GetTicks(tm) = tm.executed
  BY <1>1, <1>2, <1>3 DEF GetTicks
<1>6. Ready(nx)
  BY <1>2, <1>3, <1>4 DEF Ready
<1>7. TimerInv(nx)
  <2>1. nx.down <= nx.slice /\ nx.down >= -Overshoot
    BY <1>2, <1>3, Bounds
  <2>2. \A ev \in ToSet(nx.queue) : nx.executed + nx.slice <= ev.time
    BY <1>1, <1>2, <1>3, <1>4
  <2> QED BY <1>2, <1>3, <2>1, <2>2, ToSetEmpty DEF TimerInv
<1> QED BY <1>2, <1>5, <1>6, <1>7 DEF nx

\* A core that is ready gets a slice, which is not empty.
LEMMA SliceInv ==
    ASSUME NEW tm \in Timer, TimerInv(tm), Ready(tm), NEW max \in Int, max > 0
    PROVE  LET nx == SetNextSlice(tm, max)
           IN /\ nx \in Timer /\ TimerInv(nx) /\ GetTicks(nx) = GetTicks(tm)
              /\ ~nx.sane /\ nx.slice > 0 /\ nx.slice <= max /\ nx.slice = nx.down
              /\ nx.executed = tm.executed /\ nx.ts = tm.ts
              /\ GetTicks(tm) = tm.executed
<1> DEFINE nx == SetNextSlice(tm, max)
<1>1. tm.executed \in Nat /\ ~tm.sane /\ tm.slice = 0 /\ tm.down = 0
  BY TimerFields DEF Ready
<1>2. /\ nx \in Timer
      /\ nx.queue = tm.queue /\ nx.ts = tm.ts /\ nx.sane = tm.sane
      /\ nx.executed = tm.executed /\ nx.down = nx.slice
      /\ nx.slice <= max
      /\ \A ev \in ToSet(tm.queue) : tm.executed + nx.slice <= ev.time
      /\ max > 0 /\ (\A ev \in ToSet(tm.queue) : ev.time > tm.executed) => nx.slice > 0
  BY SliceGiven
<1> HIDE DEF nx
<1>3. nx.slice > 0 /\ nx.slice \in Int
  BY <1>2, TimerFields DEF Ready
<1>4. GetTicks(nx) = tm.executed /\ GetTicks(tm) = tm.executed
  BY <1>1, <1>2, <1>3 DEF GetTicks
<1>5. TimerInv(nx)
  <2>1. nx.down <= nx.slice /\ nx.down >= -Overshoot
    BY <1>2, <1>3, Bounds
  <2> QED BY <1>1, <1>2, <1>4, <2>1 DEF TimerInv
<1> QED BY <1>1, <1>2, <1>3, <1>4, <1>5 DEF nx

\* A core runs: n ticks, or until the end of the slice when it is idle.
LEMMA RunInvariant ==
    ASSUME NEW tm \in Timer, TimerInv(tm), ~tm.sane, NEW d \in Int,
           d <= tm.down, d >= -Overshoot,
           tm.ts = <<>> \/ tm.slice + Overshoot <= LongestWait
    PROVE  LET nx == [tm EXCEPT !.down = d]
           IN /\ nx \in Timer /\ TimerInv(nx)
              /\ nx.executed = tm.executed /\ nx.slice = tm.slice /\ nx.down = d
              /\ ~nx.sane /\ nx.ts = tm.ts
              /\ GetTicks(nx) = tm.executed + (tm.slice - d)
              /\ GetTicks(tm) <= GetTicks(nx)
<1> DEFINE nx == [tm EXCEPT !.down = d]
<1>1. /\ tm.executed \in Nat /\ tm.slice \in Int /\ tm.down \in Int
      /\ \A ev \in ToSet(tm.ts) : ev.time \in Int
  BY TimerFields, QueueFields
<1>2. /\ nx \in Timer /\ nx.queue = tm.queue /\ nx.ts = tm.ts /\ nx.sane = tm.sane
      /\ nx.executed = tm.executed /\ nx.slice = tm.slice /\ nx.down = d
  BY DEF Timer
<1> HIDE DEF nx
<1>3. GetTicks(nx) = tm.executed + (tm.slice - d) /\ GetTicks(tm) = tm.executed + (tm.slice - tm.down)
  BY <1>2 DEF GetTicks
<1>4. GetTicks(tm) <= GetTicks(nx)
  BY <1>1, <1>3
<1>5. TimerInv(nx)
  <2>1. nx.down <= nx.slice
    <3>1. tm.down <= tm.slice
      BY DEF TimerInv
    <3> QED BY <1>1, <1>2, <3>1
  <2>2. \A ev \in ToSet(nx.queue) : nx.executed + nx.slice <= ev.time
    BY <1>2 DEF TimerInv
  <2>3. ASSUME NEW ev \in ToSet(nx.ts)
        PROVE  ~ev.own /\ ev.time >= nx.executed /\ GetTicks(nx) - ev.time <= LongestWait
    <3>1. ~ev.own /\ ev.time >= tm.executed
      BY <1>2 DEF TimerInv
    <3>2. tm.slice + Overshoot <= LongestWait
      BY <1>2, ToSetEmpty
    <3>3. GetTicks(nx) - ev.time <= LongestWait
      BY <1>1, <1>2, <1>3, <3>1, <3>2, Bounds
    <3> QED BY <1>2, <3>1, <3>3
  <2> QED BY <1>2, <2>1, <2>2, <2>3 DEF TimerInv
<1> QED BY <1>2, <1>3, <1>4, <1>5 DEF nx

\* Scheduling on a timer that is in Advance, even for a time that has passed.
LEMMA ScheduledInAdvance ==
    ASSUME NEW tms \in [Cores -> Timer], NEW c \in Cores, NEW cycles \in Int, NEW e \in EventTypes,
           TimerInv(tms[c]), Advancing(tms[c]), -cycles <= LongestWait
    PROVE  LET r == ScheduleEvent(tms, c, cycles, e, c)
           IN /\ r \in [Cores -> Timer]
              /\ \A d \in Cores : d # c => r[d] = tms[d]
              /\ TimerInv(r[c]) /\ Advancing(r[c]) /\ GetTicks(r[c]) = GetTicks(tms[c])
<1> DEFINE tm == tms[c]
           r == ScheduleEvent(tms, c, cycles, e, c)
           new == OwnEvent(tm, cycles, e)
<1>1. /\ r \in [Cores -> Timer]
      /\ \A d \in Cores : d # c => r[d] = tms[d]
      /\ r[c].executed = tm.executed /\ r[c].sane = tm.sane
      /\ r[c].ts = tm.ts
      /\ r[c].slice - r[c].down = tm.slice - tm.down
      /\ tm.sane => r[c].slice = tm.slice
      /\ new.time = GetTicks(tm) + cycles
      /\ (new.own <=> cycles >= 0)
      /\ ToSet(r[c].queue) = ToSet(tm.queue) \cup {new}
  BY ScheduledHere
<1>2. tm.executed \in Nat
  BY TimerFields
<1>3. tm.sane /\ tm.slice = 0 /\ tm.down = 0 /\ tm.ts = <<>> /\ GetTicks(tm) = tm.executed
  BY <1>2 DEF Advancing, GetTicks
<1> HIDE DEF r, new
<1>4. r[c].sane /\ r[c].slice = 0 /\ r[c].down = 0 /\ r[c].ts = <<>> /\ r[c].executed = tm.executed
  <2>1. r[c].down \in Int
    BY <1>1, TimerFields
  <2>2. r[c].sane /\ r[c].slice = 0 /\ r[c].ts = <<>> /\ r[c].executed = tm.executed
    BY <1>1, <1>3, Zenon
  <2>3. r[c].slice - r[c].down = 0 - 0
    BY <1>1, <1>3
  <2> QED BY <2>1, <2>2, <2>3
<1>5. Advancing(r[c]) /\ GetTicks(r[c]) = tm.executed
  BY <1>2, <1>4 DEF Advancing, GetTicks
<1>6. tm.executed - new.time <= Lateness(new)
  <2>1. new.time = tm.executed + cycles
    BY <1>1, <1>3
  <2>2. CASE cycles >= 0
    BY <1>2, <2>1, <2>2, LatenessBound
  <2>3. CASE ~(cycles >= 0)
    <3>1. Lateness(new) = LongestWait
      BY <1>1, <2>3 DEF Lateness
    <3> QED BY <1>2, <2>1, <3>1, Bounds
  <2> QED BY <2>2, <2>3
<1>7. TimerInv(r[c])
  <2>1. \A x \in ToSet(tm.queue) : tm.executed - x.time <= Lateness(x)
    BY <1>3 DEF TimerInv
  <2>2. \A x \in ToSet(r[c].queue) : r[c].executed - x.time <= Lateness(x)
    BY <1>1, <1>4, <1>6, <2>1
  <2>3. r[c].down <= r[c].slice /\ r[c].slice = r[c].down
    BY <1>4
  <2> QED BY <1>4, <2>2, <2>3, ToSetEmpty DEF TimerInv
<1> QED BY <1>1, <1>3, <1>5, <1>7 DEF r

\* The timers in Fire when the event is off the queue, and when it is scheduled
\* again.
Popped(tms, c) == [tms EXCEPT ![c].queue = RemoveAt(@, NextEvent(tms[c].queue))]

Again(tms, c) ==
    LET ev == tms[c].queue[NextEvent(tms[c].queue)]
    IN IF Period[ev.type] = 0 THEN Popped(tms, c)
       ELSE ScheduleEvent(Popped(tms, c), c, Period[ev.type] - (tms[c].executed - ev.time),
                          ev.type, c)

\* An event that fires leaves the queue and, when it is periodic, schedules itself
\* again: for later than it was, so no later than it was late.
LEMMA FiredInv ==
    ASSUME NEW tms \in [Cores -> Timer], NEW c \in Cores,
           TimerInv(tms[c]), Advancing(tms[c]), Due(tms[c])
    PROVE  /\ Again(tms, c) \in [Cores -> Timer]
           /\ \A d \in Cores : d # c => Again(tms, c)[d] = tms[d]
           /\ TimerInv(Again(tms, c)[c]) /\ Advancing(Again(tms, c)[c])
           /\ GetTicks(Again(tms, c)[c]) = GetTicks(tms[c])
<1> DEFINE popped == Popped(tms, c)
           again == Again(tms, c)
           tm == tms[c]
           i == NextEvent(tm.queue)
           ev == tm.queue[i]
           cycles == Period[ev.type] - (tm.executed - ev.time)
<1>1. /\ tm \in Timer /\ tm.queue \in Seq(EventRecord) /\ tm.queue # <<>>
      /\ tm.executed \in Nat
  BY TimerFields DEF Due
<1>2. i \in DOMAIN tm.queue
  BY <1>1, NextEventIsLeast
<1>3. ev \in EventRecord /\ ev \in ToSet(tm.queue) /\ ev.time \in Int /\ ev.type \in EventTypes
  <2>1. ev \in EventRecord /\ ev \in ToSet(tm.queue) /\ ev.time \in Int
    BY <1>1, <1>2, QueueFields
  <2> QED BY <2>1 DEF EventRecord
<1>4. tm.sane /\ tm.slice = 0 /\ tm.down = 0 /\ tm.ts = <<>> /\ GetTicks(tm) = tm.executed
  BY <1>1 DEF Advancing, GetTicks
<1> HIDE DEF tm
<1>5. RemoveAt(tm.queue, i) \in Seq(EventRecord) /\ ToSet(RemoveAt(tm.queue, i)) \subseteq ToSet(tm.queue)
  BY <1>1, <1>2, ToSetRemoveAt
<1> HIDE DEF i
<1>6. /\ popped \in [Cores -> Timer]
      /\ \A d \in Cores : d # c => popped[d] = tms[d]
      /\ popped[c].queue = RemoveAt(tm.queue, i) /\ popped[c].ts = tm.ts
      /\ popped[c].sane = tm.sane /\ popped[c].executed = tm.executed
      /\ popped[c].slice = tm.slice /\ popped[c].down = tm.down
  <2> DEFINE new == [tm EXCEPT !.queue = RemoveAt(@, i)]
  <2>1. popped = [tms EXCEPT ![c] = new]
    BY DEF tm, i, Popped
  <2>2. /\ new \in Timer
        /\ new.queue = RemoveAt(tm.queue, i) /\ new.ts = tm.ts
        /\ new.sane = tm.sane /\ new.executed = tm.executed
        /\ new.slice = tm.slice /\ new.down = tm.down
    BY <1>1, <1>5 DEF Timer
  <2> HIDE DEF new
  <2> QED BY <2>1, <2>2
<1> HIDE DEF popped
<1>7. TimerInv(popped[c]) /\ Advancing(popped[c]) /\ GetTicks(popped[c]) = tm.executed
  <2>1. Advancing(popped[c])
    BY <1>4, <1>6 DEF Advancing
  <2>2. GetTicks(popped[c]) = tm.executed
    BY <1>1, <1>4, <1>6 DEF GetTicks
  <2>3. TimerInv(popped[c])
    BY <1>4, <1>5, <1>6, ToSetEmpty DEF TimerInv, tm
  <2> QED BY <2>1, <2>2, <2>3
<1>8. CASE Period[ev.type] = 0
  <2>1. again = popped
    BY <1>8 DEF tm, i, Again, popped
  <2> HIDE DEF again
  <2> QED BY <1>4, <1>6, <1>7, <2>1 DEF tm, again
<1>9. CASE Period[ev.type] # 0
  <2>1. Period[ev.type] \in Nat /\ cycles \in Int
    BY <1>1, <1>3, TimingAssumption
  <2>2. again = ScheduleEvent(popped, c, cycles, ev.type, c)
    BY <1>9 DEF tm, i, Again, popped
  <2>3. -cycles <= LongestWait
    <3>1. tm.executed - ev.time <= Lateness(ev)
      BY <1>3, <1>4 DEF TimerInv, tm
    <3>2. Lateness(ev) <= LongestWait /\ Lateness(ev) \in Int /\ LongestWait \in Int
      BY LatenessBound, Bounds
    <3> HIDE DEF ev
    <3> QED BY <1>1, <1>3, <2>1, <3>1, <3>2
  <2> HIDE DEF cycles, ev, again
  <2>4. /\ again \in [Cores -> Timer]
        /\ \A d \in Cores : d # c => again[d] = popped[d]
        /\ TimerInv(again[c]) /\ Advancing(again[c])
        /\ GetTicks(again[c]) = GetTicks(popped[c])
    BY <1>3, <1>6, <1>7, <2>1, <2>2, <2>3, ScheduledInAdvance
  <2> QED BY <1>4, <1>6, <1>7, <2>4 DEF tm, again
<1> QED BY <1>8, <1>9

-----------------------------------------------------------------------------
(* The cores' clocks.  While the cores catch up one at a time, m is the     *)
(* clock of the fastest core when the last run of all cores ended: only a   *)
(* core that passes m makes the fastest clock faster, by what it overruns.  *)

Ticks(tms) == [c \in Cores |-> GetTicks(tms[c])]

Ahead(m, tk) == {c \in Cores : tk[c] >= m}

InStepAt(m, tk) ==
    /\ Ahead(m, tk) # {}
    /\ \A c \in Cores : /\ m - tk[c] <= LongestRun + min_delay
                        /\ tk[c] <= m + (Cardinality(Ahead(m, tk)) - 1) * Overshoot

InStep(tk) == \E m \in Int : InStepAt(m, tk)

Close(tk) == \A c, d \in Cores : tk[c] - tk[d] <= min_delay

LEMMA AheadCardinality ==
    ASSUME NEW m \in Int, NEW tk \in [Cores -> Int], Ahead(m, tk) # {}
    PROVE  /\ IsFiniteSet(Ahead(m, tk))
           /\ Cardinality(Ahead(m, tk)) \in 1 .. NumCores
           /\ Ahead(m, tk) # Cores => Cardinality(Ahead(m, tk)) <= NumCores - 1
<1>1. IsFiniteSet(Cores) /\ Cardinality(Cores) = NumCores
  BY FS_Interval, Bounds DEF Cores
<1>2. Ahead(m, tk) \subseteq Cores
  BY DEF Ahead
<1> DEFINE S == Ahead(m, tk)
<1> HIDE DEF S
<1>3. IsFiniteSet(S) /\ Cardinality(S) <= NumCores /\ (Cardinality(S) = NumCores => S = Cores)
  BY <1>1, <1>2, FS_Subset DEF S
<1>4. Cardinality(S) \in Nat /\ Cardinality(S) # 0
  BY <1>3, FS_CardinalityType, FS_EmptySet DEF S
<1> QED BY <1>3, <1>4, Bounds DEF S

\* n cores overrun by n * Overshoot at most.
LEMMA OverrunBound ==
    ASSUME NEW n \in Int, NEW k \in Int, n <= k
    PROVE  n * Overshoot \in Int /\ k * Overshoot \in Int /\ n * Overshoot <= k * Overshoot
<1> DEFINE x == k - n
<1>1. x \in Nat /\ x * Overshoot \in Nat /\ k = n + x
  BY Bounds
<1>2. (n + x) * Overshoot = n * Overshoot + x * Overshoot /\ n * Overshoot \in Int
  BY <1>1, Bounds
<1> HIDE DEF x
<1> QED BY <1>1, <1>2

LEMMA FastestCore ==
    ASSUME NEW tk \in [Cores -> Int]
    PROVE  \E g \in Cores : \A d \in Cores : tk[g] >= tk[d]
<1>1. NumCores \in Nat \ {0}
  BY TimingAssumption
<1>2. tk \in [0 .. NumCores - 1 -> Int]
  BY DEF Cores
<1>3. \E g \in 0 .. NumCores - 1 : \A d \in 0 .. NumCores - 1 : tk[g] >= tk[d]
  BY <1>1, <1>2, GreatestValue
<1> QED BY <1>3 DEF Cores

LEMMA InStepSpread ==
    ASSUME NEW tk \in [Cores -> Int], InStep(tk)
    PROVE  \A c, d \in Cores : tk[c] - tk[d] <= MaxLag
<1>1. PICK m \in Int : InStepAt(m, tk)
  BY DEF InStep
<1> DEFINE k == Cardinality(Ahead(m, tk))
<1>2. k \in 1 .. NumCores /\ (Ahead(m, tk) # Cores => k <= NumCores - 1)
  BY <1>1, AheadCardinality DEF InStepAt
<1>3. \A c \in Cores : m - tk[c] <= LongestRun + min_delay /\ tk[c] <= m + (k - 1) * Overshoot
  BY <1>1 DEF InStepAt
<1> HIDE DEF k
<1>4. CASE Ahead(m, tk) = Cores
  <2>1. \A d \in Cores : tk[d] >= m
    BY <1>4 DEF Ahead
  <2>2. (k - 1) * Overshoot <= (NumCores - 1) * Overshoot /\ (k - 1) * Overshoot \in Int
    BY <1>2, OverrunBound, Bounds
  <2> QED BY <1>3, <2>1, <2>2, Bounds
<1>5. CASE Ahead(m, tk) # Cores
  <2>1. (k - 1) * Overshoot <= (NumCores - 2) * Overshoot /\ (k - 1) * Overshoot \in Int
    BY <1>2, <1>5, OverrunBound, Bounds
  <2>2. (NumCores - 2) * Overshoot \in Int
    BY Bounds
  <2>3. ASSUME NEW c \in Cores, NEW d \in Cores PROVE tk[c] - tk[d] <= MaxLag
    <3>1. tk[c] \in Int /\ tk[d] \in Int
      OBVIOUS
    <3>2. m - tk[d] <= LongestRun + min_delay /\ tk[c] <= m + (k - 1) * Overshoot
      BY <1>3
    <3> QED BY <2>1, <2>2, <3>1, <3>2, Bounds
  <2> QED BY <2>3
<1> QED BY <1>4, <1>5

LEMMA InStepOfSpread ==
    ASSUME NEW tk \in [Cores -> Int],
           \A c, d \in Cores : tk[c] - tk[d] <= LongestRun + min_delay
    PROVE  InStep(tk)
<1>1. PICK g \in Cores : \A d \in Cores : tk[g] >= tk[d]
  BY FastestCore
<1> DEFINE k == Cardinality(Ahead(tk[g], tk))
<1>2. tk[g] \in Int /\ g \in Ahead(tk[g], tk)
  BY DEF Ahead
<1>3. k \in 1 .. NumCores
  BY <1>2, AheadCardinality
<1>4. (k - 1) * Overshoot \in Nat
  BY <1>3, Bounds
<1> HIDE DEF k
<1>5. \A c \in Cores : tk[c] <= tk[g] + (k - 1) * Overshoot
  BY <1>1, <1>2, <1>4
<1>6. InStepAt(tk[g], tk)
  BY <1>2, <1>5 DEF InStepAt, k
<1> QED BY <1>2, <1>6 DEF InStep

\* The slowest core runs, alone, up to a core's clock and Overshoot.
LEMMA InStepSolo ==
    ASSUME NEW tk \in [Cores -> Int], InStep(tk),
           NEW c \in Cores, \A d \in Cores : tk[c] <= tk[d],
           NEW t \in Int, tk[c] <= t,
           NEW g \in Cores, t <= tk[g] + Overshoot
    PROVE  InStep([tk EXCEPT ![c] = t])
<1>1. PICK m \in Int : InStepAt(m, tk)
  BY DEF InStep
<1> DEFINE k == Cardinality(Ahead(m, tk))
           tn == [tk EXCEPT ![c] = t]
<1>2. k \in 1 .. NumCores /\ IsFiniteSet(Ahead(m, tk))
  BY <1>1, AheadCardinality DEF InStepAt
<1>3. \A d \in Cores : m - tk[d] <= LongestRun + min_delay /\ tk[d] <= m + (k - 1) * Overshoot
  BY <1>1 DEF InStepAt
<1>4. tn \in [Cores -> Int] /\ tn[c] = t /\ \A d \in Cores : d # c => tn[d] = tk[d]
  OBVIOUS
<1>5. \A d \in Cores : tk[d] \in Int /\ tk[d] <= tn[d]
  BY <1>4
<1> HIDE DEF tn
<1>6. CASE tk[c] >= m
  <2>1. (k - 1) * Overshoot <= (NumCores - 1) * Overshoot /\ (k - 1) * Overshoot \in Int
    <3> HIDE DEF k
    <3> QED BY <1>2, OverrunBound, Bounds
  <2> HIDE DEF k
  <2>2. ASSUME NEW x \in Cores, NEW y \in Cores PROVE tn[x] - tn[y] <= LongestRun + min_delay
    <3>1. tk[y] >= m /\ tn[y] >= m /\ tn[x] \in Int /\ tn[y] \in Int /\ tk[g] \in Int
      BY <1>4, <1>5, <1>6
    <3>2. tn[x] <= m + (k - 1) * Overshoot + Overshoot
      <4>1. CASE x = c
        BY <1>3, <1>4, <2>1, <3>1, <4>1, Bounds
      <4>2. CASE x # c
        BY <1>3, <1>4, <2>1, <3>1, <4>2, Bounds
      <4> QED BY <4>1, <4>2
    <3> QED BY <2>1, <3>1, <3>2, Bounds
  <2> QED BY <1>4, <2>2, InStepOfSpread DEF tn
<1>7. CASE tk[c] < m /\ t < m
  <2>1. Ahead(m, tn) = Ahead(m, tk)
    BY <1>4, <1>7 DEF Ahead
  <2>2. (k - 1) * Overshoot \in Nat
    <3> HIDE DEF k
    <3> QED BY <1>2, Bounds
  <2>3. ASSUME NEW d \in Cores
        PROVE  m - tn[d] <= LongestRun + min_delay /\ tn[d] <= m + (k - 1) * Overshoot
    <3> HIDE DEF k
    <3>1. CASE d = c
      BY <1>3, <1>4, <1>5, <1>7, <2>2, <3>1, Bounds
    <3>2. CASE d # c
      BY <1>3, <1>4, <3>2
    <3> QED BY <3>1, <3>2
  <2>4. InStepAt(m, tn)
    BY <1>1, <2>1, <2>3 DEF InStepAt
  <2> QED BY <2>4 DEF InStep, tn
<1>8. CASE tk[c] < m /\ t >= m
  <2>1. Ahead(m, tn) = Ahead(m, tk) \cup {c} /\ c \notin Ahead(m, tk)
    BY <1>4, <1>8 DEF Ahead
  <2>2. Cardinality(Ahead(m, tn)) = k + 1
    BY <1>2, <2>1, FS_AddElement
  <2>3. /\ k * Overshoot \in Nat /\ (k - 1) * Overshoot \in Nat
        /\ k * Overshoot = (k - 1) * Overshoot + Overshoot
    <3> HIDE DEF k
    <3> QED BY <1>2, Bounds
  <2>4. ASSUME NEW d \in Cores
        PROVE  m - tn[d] <= LongestRun + min_delay /\ tn[d] <= m + k * Overshoot
    <3> HIDE DEF k
    <3>1. CASE d = c
      <4>1. tk[g] <= m + (k - 1) * Overshoot /\ tk[g] \in Int
        BY <1>3
      <4> QED BY <1>4, <1>8, <2>3, <3>1, <4>1, Bounds
    <3>2. CASE d # c
      BY <1>3, <1>4, <1>5, <2>3, <3>2, Bounds
    <3> QED BY <3>1, <3>2
  <2>5. (k + 1) - 1 = k
    <3> HIDE DEF k
    <3> QED BY <1>2
  <2>6. InStepAt(m, tn)
    <3> HIDE DEF k
    <3> QED BY <2>1, <2>2, <2>4, <2>5 DEF InStepAt
  <2> QED BY <2>6 DEF InStep, tn
<1>9. tk[c] \in Int
  OBVIOUS
<1> QED BY <1>6, <1>7, <1>8, <1>9

LEMMA InStepShift ==
    ASSUME NEW tk \in [Cores -> Int], InStep(tk), NEW b \in Int
    PROVE  InStep([c \in Cores |-> tk[c] - b])
<1>1. PICK m \in Int : InStepAt(m, tk)
  BY DEF InStep
<1> DEFINE tn == [c \in Cores |-> tk[c] - b]
           k == Cardinality(Ahead(m, tk))
<1>2. Ahead(m - b, tn) = Ahead(m, tk)
  BY DEF Ahead
<1>3. k \in 1 .. NumCores
  BY <1>1, AheadCardinality DEF InStepAt
<1>4. \A d \in Cores : m - tk[d] <= LongestRun + min_delay /\ tk[d] <= m + (k - 1) * Overshoot
  BY <1>1 DEF InStepAt
<1>5. (k - 1) * Overshoot \in Int
  <2> HIDE DEF k
  <2> QED BY <1>3, Bounds
<1>6. ASSUME NEW d \in Cores
      PROVE  /\ (m - b) - tn[d] <= LongestRun + min_delay
             /\ tn[d] <= (m - b) + (k - 1) * Overshoot
  <2>1. tn[d] = tk[d] - b /\ tk[d] \in Int
    OBVIOUS
  <2> HIDE DEF k, tn
  <2> QED BY <1>4, <1>5, <2>1, Bounds
<1> HIDE DEF tn
<1>7. InStepAt(m - b, tn)
  BY <1>1, <1>2, <1>6 DEF InStepAt
<1>8. m - b \in Int
  OBVIOUS
<1> QED BY <1>7, <1>8 DEF InStep, tn

-----------------------------------------------------------------------------
(* The inductive invariant, phase by phase, of timers tms, of the core cur *)
(* of current_timer and of RunLoop's state lp.                             *)

LoopRecord ==
    [phase : {"top", "lag", "advance", "run", "solo", "end"}, core : Cores,
     delay : [Cores -> Int], best : Cores \cup {NoCore}, slice : Int, start : Int]

\* The delays are those of the clocks, best is the core that lags most of those
\* before this one, and has its slice.
LagFacts(tms, c, delay, best) ==
    /\ delay[c] > 0 /\ InStep(Ticks(tms))
    /\ \E g \in Cores : \A d \in Cores :
          delay[d] = Ticks(tms)[g] - Ticks(tms)[d] /\ delay[d] >= 0
    /\ \A d \in Cores : d < c /\ delay[d] > 0 => best # NoCore /\ delay[d] <= delay[best]
    /\ best # NoCore => /\ best < c /\ delay[best] > 0 /\ ~tms[best].sane
                        /\ tms[best].slice > 0 /\ tms[best].slice <= delay[best]
                        /\ tms[best].slice = tms[best].down

LagInv(tms, cur, lp) ==
    /\ cur = lp.core /\ Advancing(tms[lp.core])
    /\ LagFacts(tms, lp.core, lp.delay, lp.best)

\* No core lags by more than min_delay, and those before this one are ready.
AdvanceInv(tms, cur, lp) ==
    /\ cur = lp.core /\ Advancing(tms[lp.core])
    /\ Close(Ticks(tms))
    /\ 0 < lp.slice /\ lp.slice <= MAX_SLICE_LENGTH
    /\ \A d \in Cores : d < lp.core => Ready(tms[d])

\* The cores before this one have run, those after it are ready.
Ran(tms, c) ==
    /\ \A d \in Cores : ~tms[d].sane
    /\ \A d \in Cores : d < c => tms[d].slice - tms[d].down <= LongestRun
    /\ \A d \in Cores : d > c => Ready(tms[d])
    /\ Close([d \in Cores |-> tms[d].executed])

RunInv(tms, cur, lp) ==
    LET c == lp.core
    IN /\ cur = c /\ lp.start = tms[c].executed /\ Ran(tms, c)
       /\ tms[c].slice > 0 /\ tms[c].slice <= MAX_SLICE_LENGTH + c * Overshoot

\* The clocks when the core c began to run alone.
SoloTicks(tms, c) == [Ticks(tms) EXCEPT ![c] = tms[c].executed]

\* The core that runs alone was the slowest, and may run up to another's clock.
SoloInv(tms, cur, lp) ==
    LET c == lp.core
        tk == SoloTicks(tms, c)
    IN /\ ~tms[c].sane /\ tms[c].slice > 0
       /\ InStep(tk)
       /\ \A d \in Cores : tk[c] <= tk[d]
       /\ \E g \in Cores : tms[c].executed + tms[c].slice <= tk[g]
       /\ NumCores <= 2 => cur = c /\ tms[c].ts = <<>>

PhaseInv(tms, cur, lp) ==
    /\ lp.phase \in {"top", "end"} => InStep(Ticks(tms))
    /\ lp.phase = "lag" => LagInv(tms, cur, lp)
    /\ lp.phase = "advance" => AdvanceInv(tms, cur, lp)
    /\ lp.phase = "run" => RunInv(tms, cur, lp)
    /\ lp.phase = "solo" => SoloInv(tms, cur, lp)

TimersOK(tms) == tms \in [Cores -> Timer] /\ \A c \in Cores : TimerInv(tms[c])

Inv ==
    /\ TypeOK /\ assertOK
    /\ TimersOK(timer)
    /\ PhaseInv(timer, current, loop)

\* What a step from timers tms has to establish.
Established(tms) ==
    /\ TimersOK(timer') /\ current' \in Cores /\ running' \in Cores /\ loop' \in LoopRecord
    /\ PhaseInv(timer', current', loop')
    /\ \A c \in Cores : GetTicks(timer'[c]) >= GetTicks(tms[c])

LEMMA TicksFields ==
    ASSUME NEW tms, TimersOK(tms)
    PROVE  /\ Ticks(tms) \in [Cores -> Int]
           /\ \A c \in Cores : /\ Ticks(tms)[c] = GetTicks(tms[c]) /\ GetTicks(tms[c]) \in Int
                               /\ tms[c] \in Timer /\ TimerInv(tms[c])
  BY TicksType DEF Ticks, TimersOK

LEMMA SameTicks ==
    ASSUME NEW a, NEW b, \A c \in Cores : GetTicks(a[c]) = GetTicks(b[c])
    PROVE  Ticks(a) = Ticks(b)
  BY DEF Ticks

LEMMA NewLoop ==
    ASSUME NEW phase \in {"top", "lag", "advance", "run", "solo", "end"}, NEW c \in Cores,
           NEW delay \in [Cores -> Int], NEW best \in Cores \cup {NoCore},
           NEW slice \in Int, NEW start \in Int
    PROVE  LET lp == Loop(phase, c, delay, best, slice, start)
           IN /\ lp \in LoopRecord /\ lp.phase = phase /\ lp.core = c /\ lp.delay = delay
              /\ lp.best = best /\ lp.slice = slice /\ lp.start = start
  BY DEF Loop, LoopRecord

LEMMA CoreFacts ==
    /\ 0 \in Cores /\ NoCore \notin Cores /\ NoDelay \in [Cores -> Int]
    /\ \A c \in Cores : c \in Nat /\ c >= 0 /\ c <= NumCores - 1 /\ (c + 1 \in Cores <=> c + 1 <= NumCores - 1)
<1>1. NumCores \in Nat /\ NumCores > 0
  BY Bounds
<1> QED BY <1>1 DEF Cores, NoCore, NoDelay

LEMMA CoreOrder ==
    /\ \A c, d \in Cores : d > c \/ d < c \/ d = c
    /\ \A c, d \in Cores : (d < c => d # c) /\ (d > c => d # c)
    /\ \A c, d \in Cores : d > c => d >= c + 1 /\ c + 1 \in Cores
    /\ \A c, d \in Cores : d < c + 1 => d # c + 1 /\ (d < c \/ d = c)
    /\ NumCores <= 2 => \A d \in Cores : d = 0 \/ d = 1
<1>1. NumCores \in Nat
  BY Bounds
<1> QED BY <1>1 DEF Cores

\* A core's timer begins to advance: no clock moves.
LEMMA EnterAdvanceTimers ==
    ASSUME NEW tms, TimersOK(tms), NEW c \in Cores
    PROVE  LET nt == [tms EXCEPT ![c] = Elapse(@)]
           IN /\ TimersOK(nt) /\ Advancing(nt[c])
              /\ \A d \in Cores : d # c => nt[d] = tms[d]
              /\ \A d \in Cores : GetTicks(nt[d]) = GetTicks(tms[d])
              /\ Ticks(nt) = Ticks(tms)
<1> DEFINE el == Elapse(tms[c])
           nt == [tms EXCEPT ![c] = el]
<1>1. tms \in [Cores -> Timer] /\ tms[c] \in Timer /\ \A d \in Cores : TimerInv(tms[d])
  BY DEF TimersOK
<1>2. el \in Timer /\ TimerInv(el) /\ Advancing(el) /\ GetTicks(el) = GetTicks(tms[c])
  BY <1>1, ElapseInv
<1> HIDE DEF el
<1>3. nt \in [Cores -> Timer] /\ nt[c] = el /\ \A d \in Cores : d # c => nt[d] = tms[d]
  BY <1>1, <1>2
<1> HIDE DEF nt
<1>4. TimersOK(nt) /\ Advancing(nt[c]) /\ \A d \in Cores : GetTicks(nt[d]) = GetTicks(tms[d])
  BY <1>1, <1>2, <1>3 DEF TimersOK
<1>5. Ticks(nt) = Ticks(tms)
  BY <1>4, SameTicks
<1>6. nt = [tms EXCEPT ![c] = Elapse(@)]
  BY DEF nt, el
<1> QED BY <1>3, <1>4, <1>5, <1>6

\* The state when the loop has turned to the Advance of a core.
Entered(tms, phase, c, delay, best, slice) ==
    /\ TimersOK(timer') /\ Advancing(timer'[c])
    /\ \A d \in Cores : d # c => timer'[d] = tms[d]
    /\ \A d \in Cores : GetTicks(timer'[d]) >= GetTicks(tms[d])
    /\ Ticks(timer') = Ticks(tms)
    /\ current' = c /\ current' \in Cores /\ running' \in Cores
    /\ loop' \in LoopRecord /\ loop'.phase = phase /\ loop'.core = c
    /\ loop'.delay = delay /\ loop'.best = best /\ loop'.slice = slice

LEMMA EnterAdvanceStep ==
    ASSUME NEW tms, TimersOK(tms), running \in Cores,
           NEW phase \in {"lag", "advance"}, NEW c \in Cores, NEW delay \in [Cores -> Int],
           NEW best \in Cores \cup {NoCore}, NEW slice \in Int,
           EnterAdvance(tms, phase, c, delay, best, slice)
    PROVE  Entered(tms, phase, c, delay, best, slice)
<1> DEFINE nt == [tms EXCEPT ![c] = Elapse(@)]
           lp == Loop(phase, c, delay, best, slice, 0)
<1>1. timer' = nt /\ loop' = lp /\ current' = c /\ running' = running
  BY DEF EnterAdvance
<1>2. /\ TimersOK(nt) /\ Advancing(nt[c])
      /\ \A d \in Cores : d # c => nt[d] = tms[d]
      /\ \A d \in Cores : GetTicks(nt[d]) = GetTicks(tms[d])
      /\ Ticks(nt) = Ticks(tms)
  BY EnterAdvanceTimers
<1>3. /\ lp \in LoopRecord /\ lp.phase = phase /\ lp.core = c
      /\ lp.delay = delay /\ lp.best = best /\ lp.slice = slice
  BY DEF Loop, LoopRecord
<1> HIDE DEF nt, lp
<1>4. \A d \in Cores : GetTicks(nt[d]) >= GetTicks(tms[d])
  BY <1>2, TicksFields
<1> QED BY <1>1, <1>2, <1>3, <1>4 DEF Entered

LEMMA AdvanceAllStep ==
    ASSUME NEW tms, TimersOK(tms), Close(Ticks(tms)), running \in Cores, AdvanceAll(tms)
    PROVE  Established(tms)
<1>1. 0 \in Cores /\ NoDelay \in [Cores -> Int] /\ MAX_SLICE_LENGTH \in Int
      /\ 0 < MAX_SLICE_LENGTH /\ MAX_SLICE_LENGTH <= MAX_SLICE_LENGTH
      /\ \A d \in Cores : ~(d < 0)
  BY CoreFacts, Bounds
<1>2. EnterAdvance(tms, "advance", 0, NoDelay, NoCore, MAX_SLICE_LENGTH)
  BY DEF AdvanceAll
<1>3. /\ TimersOK(timer') /\ Advancing(timer'[0])
      /\ \A d \in Cores : GetTicks(timer'[d]) >= GetTicks(tms[d])
      /\ Ticks(timer') = Ticks(tms)
      /\ current' = 0 /\ current' \in Cores /\ running' \in Cores
      /\ loop' \in LoopRecord /\ loop'.phase = "advance" /\ loop'.core = 0
      /\ loop'.slice = MAX_SLICE_LENGTH
  <2>1. "advance" \in {"lag", "advance"} /\ NoCore \in Cores \cup {NoCore}
    OBVIOUS
  <2>2. Entered(tms, "advance", 0, NoDelay, NoCore, MAX_SLICE_LENGTH)
    BY <1>1, <1>2, <2>1, EnterAdvanceStep, Zenon
  <2> QED BY <2>2 DEF Entered
<1>4. AdvanceInv(timer', current', loop')
  BY <1>1, <1>3 DEF AdvanceInv
<1> QED BY <1>3, <1>4 DEF Established, PhaseInv

LEMMA LagStep ==
    ASSUME NEW tms, TimersOK(tms), running \in Cores,
           NEW c \in Cores, NEW delay \in [Cores -> Int], NEW best \in Cores \cup {NoCore},
           LagFacts(tms, c, delay, best),
           EnterAdvance(tms, "lag", c, delay, best, 0)
    PROVE  Established(tms)
<1>1. /\ TimersOK(timer') /\ Advancing(timer'[c])
      /\ \A d \in Cores : d # c => timer'[d] = tms[d]
      /\ \A d \in Cores : GetTicks(timer'[d]) >= GetTicks(tms[d])
      /\ Ticks(timer') = Ticks(tms)
      /\ current' = c /\ current' \in Cores /\ running' \in Cores
      /\ loop' \in LoopRecord /\ loop'.phase = "lag" /\ loop'.core = c
      /\ loop'.delay = delay /\ loop'.best = best
  <2>1. "lag" \in {"lag", "advance"} /\ 0 \in Int
    OBVIOUS
  <2>2. Entered(tms, "lag", c, delay, best, 0)
    BY <2>1, EnterAdvanceStep, Zenon
  <2> QED BY <2>2 DEF Entered
<1>2. best # NoCore => best \in Cores /\ best < c
  BY DEF LagFacts
<1>3. best # NoCore => timer'[best] = tms[best]
  BY <1>1, <1>2, CoreOrder
<1>4. best # NoCore => /\ best < c /\ delay[best] > 0 /\ ~timer'[best].sane
                       /\ timer'[best].slice > 0 /\ timer'[best].slice <= delay[best]
                       /\ timer'[best].slice = timer'[best].down
  BY <1>3 DEF LagFacts
<1>5. LagFacts(timer', c, delay, best)
  BY <1>1, <1>4 DEF LagFacts
<1>6. LagInv(timer', current', loop')
  BY <1>1, <1>5 DEF LagInv
<1> QED BY <1>1, <1>6 DEF Established, PhaseInv

LEMMA FirstCore ==
    ASSUME NEW S \in SUBSET Cores, S # {}
    PROVE  Min(S) \in S /\ Min(S) \in Cores /\ \A d \in S : ~(d < Min(S))
<1>1. S \in SUBSET Nat
  BY CoreFacts
<1>2. Min(S) \in S /\ \A d \in S : Min(S) <= d
  BY <1>1, MinOfNats
<1>3. Min(S) \in Nat /\ \A d \in S : d \in Nat
  BY <1>1, <1>2
<1>4. \A d \in S : ~(d < Min(S))
  BY <1>2, <1>3
<1> QED BY <1>2, <1>4

LEMMA LoopTopStep ==
    ASSUME Inv, LoopTop
    PROVE  Established(timer)
<1> DEFINE tk == Ticks(timer)
           global == Max({GetTicks(timer[c]) : c \in Cores})
           delay == [c \in Cores |-> global - GetTicks(timer[c])]
           lag == {c \in Cores : delay[c] > 0}
<1>1. TimersOK(timer) /\ running \in Cores /\ InStep(tk) /\ tk \in [Cores -> Int]
  BY TicksFields DEF Inv, TypeOK, PhaseInv, LoopTop
<1>2. \A c \in Cores : tk[c] = GetTicks(timer[c]) /\ GetTicks(timer[c]) \in Int
  BY <1>1, TicksFields
<1>3. PICK g \in Cores : \A d \in Cores : tk[g] >= tk[d]
  BY <1>1, FastestCore
<1>4. global = tk[g]
  <2> DEFINE S == {GetTicks(timer[c]) : c \in Cores}
  <2>1. S \in SUBSET Int /\ tk[g] \in S /\ \A y \in S : tk[g] >= y
    BY <1>2, <1>3
  <2> HIDE DEF S
  <2>2. Max(S) = tk[g]
    BY <2>1, MaxIs
  <2> QED BY <2>2 DEF S
<1>5. IF lag = {} THEN AdvanceAll(timer)
      ELSE EnterAdvance(timer, "lag", Min(lag), delay, NoCore, 0)
  BY DEF LoopTop
<1> HIDE DEF global, tk
<1>6. delay \in [Cores -> Int] /\ \A d \in Cores : delay[d] = tk[g] - tk[d] /\ delay[d] >= 0
  BY <1>1, <1>2, <1>3, <1>4
<1> HIDE DEF delay
<1>7. CASE lag = {}
  <2>1. \A c, d \in Cores : tk[c] - tk[d] <= min_delay
    <3>1. \A d \in Cores : ~(delay[d] > 0)
      BY <1>7
    <3>2. \A d \in Cores : tk[g] = tk[d] /\ tk[d] \in Int
      BY <1>1, <1>6, <3>1
    <3> QED BY <3>2, Bounds
  <2>2. Close(Ticks(timer))
    BY <2>1 DEF Close, tk
  <2> QED BY <1>1, <1>5, <1>7, <2>2, AdvanceAllStep
<1>8. CASE lag # {}
  <2> DEFINE c == Min(lag)
  <2>2. c \in lag /\ \A d \in lag : ~(d < c)
    <3>1. lag \in SUBSET Cores
      OBVIOUS
    <3> HIDE DEF lag
    <3> QED BY <1>8, <3>1, FirstCore
  <2>3. EnterAdvance(timer, "lag", c, delay, NoCore, 0)
    BY <1>5, <1>8
  <2> HIDE DEF c
  <2>4. c \in Cores /\ delay[c] > 0 /\ \A d \in Cores : ~(d < c /\ delay[d] > 0)
    BY <2>2
  <2>5. \E h \in Cores : \A d \in Cores :
           delay[d] = Ticks(timer)[h] - Ticks(timer)[d] /\ delay[d] >= 0
    BY <1>6 DEF tk
  <2>6. InStep(Ticks(timer))
    BY <1>1 DEF tk
  <2>7. LagFacts(timer, c, delay, NoCore)
    BY <2>4, <2>5, <2>6 DEF LagFacts
  <2> QED BY <1>1, <1>6, <2>3, <2>4, <2>7, LagStep
<1> QED BY <1>7, <1>8

\* What an effect leaves alone: the invariant of the timers and their clocks, and,
\* but for the current core, the slices.
LEMMA EffectsInv ==
    ASSUME NEW tms, TimersOK(tms), NEW cur \in Cores, NEW delays \in SUBSET Nat,
           NEW eff \in Effects(tms, cur, delays)
    PROVE  /\ TimersOK(eff[1])
           /\ \A d \in Cores : GetTicks(eff[1][d]) = GetTicks(tms[d])
           /\ Ticks(eff[1]) = Ticks(tms)
           /\ \A d \in Cores : Affected(tms[d], eff[1][d], d = cur)
           /\ \A d \in Cores : eff[1][d].executed = tms[d].executed
           /\ \A d \in Cores : eff[1][d].sane <=> tms[d].sane
           /\ \A d \in Cores : eff[1][d].slice - eff[1][d].down = tms[d].slice - tms[d].down
           /\ \A d \in Cores : d # cur => /\ eff[1][d].slice = tms[d].slice
                                          /\ eff[1][d].down = tms[d].down
                                          /\ Ready(tms[d]) => Ready(eff[1][d])
<1> DEFINE r == eff[1]
<1>1. tms \in [Cores -> Timer]
  BY DEF TimersOK
<1>2. r \in [Cores -> Timer] /\ \A d \in Cores : Affected(tms[d], r[d], d = cur)
  BY <1>1, EffectsAffect
<1> HIDE DEF r
<1>3. ASSUME NEW d \in Cores
      PROVE  TimerInv(r[d]) /\ GetTicks(r[d]) = GetTicks(tms[d])
  <2>1. tms[d] \in Timer /\ r[d] \in Timer /\ TimerInv(tms[d]) /\ Affected(tms[d], r[d], d = cur)
    BY <1>1, <1>2 DEF TimersOK
  <2>2. (d = cur) \in BOOLEAN
    OBVIOUS
  <2> QED BY <2>1, <2>2, AffectedInv
<1>4. TimersOK(r) /\ Ticks(r) = Ticks(tms)
  BY <1>2, <1>3, SameTicks DEF TimersOK
<1>5. ASSUME NEW d \in Cores
      PROVE  /\ r[d].executed = tms[d].executed /\ (r[d].sane <=> tms[d].sane)
             /\ r[d].slice - r[d].down = tms[d].slice - tms[d].down
             /\ d # cur => /\ r[d].slice = tms[d].slice /\ r[d].down = tms[d].down
                           /\ Ready(tms[d]) => Ready(r[d])
  <2> DEFINE a == tms[d]
             b == r[d]
  <2>1. Affected(a, b, d = cur) /\ a \in Timer /\ b \in Timer
    BY <1>1, <1>2
  <2> HIDE DEF a, b
  <2>2. /\ b.executed = a.executed /\ b.sane = a.sane
        /\ b.slice - b.down = a.slice - a.down
        /\ d # cur => b.slice = a.slice
        /\ d # cur => \A ev \in ToSet(b.queue) : ev \in ToSet(a.queue)
    BY <2>1 DEF Affected, FreshEvent
  <2>3. b.sane <=> a.sane
    BY <2>2, Zenon
  <2>4. d # cur => b.down = a.down
    BY <2>1, <2>2, TimerFields
  <2>5. d # cur /\ Ready(a) => Ready(b)
    BY <2>2, <2>3, <2>4, Zenon DEF Ready
  <2> QED BY <2>2, <2>3, <2>4, <2>5 DEF a, b
<1> QED BY <1>2, <1>3, <1>4, <1>5 DEF r

\* An event fires and its callback runs.
LEMMA FireStep ==
    ASSUME Inv, Fire
    PROVE  Established(timer)
<1> DEFINE c == loop.core
           again == Again(timer, c)
<1>1. /\ TimersOK(timer) /\ running \in Cores /\ current \in Cores /\ loop \in LoopRecord
      /\ c \in Cores /\ timer \in [Cores -> Timer] /\ \A d \in Cores : TimerInv(timer[d])
  BY DEF Inv, TypeOK, TimersOK, LoopRecord
<1>2. loop.phase \in {"lag", "advance"} /\ Due(timer[c])
  BY DEF Fire
<1>3. current = c /\ Advancing(timer[c])
  BY <1>2 DEF Inv, PhaseInv, LagInv, AdvanceInv
<1>4. PICK eff \in Effects(again, current, CallbackDelays) : timer' = eff[1]
  <2> DEFINE ev == timer[c].queue[NextEvent(timer[c].queue)]
             popped == Popped(timer, c)
             ag == IF Period[ev.type] = 0 THEN popped
                   ELSE ScheduleEvent(popped, current,
                                      Period[ev.type] - (timer[c].executed - ev.time), ev.type, c)
  <2>1. \E eff \in Effects(ag, current, CallbackDelays) : timer' = eff[1]
    BY Zenon DEF Fire, Popped
  <2>2. ag = again
    BY <1>3, Zenon DEF Again
  <2> HIDE DEF ag, again
  <2> QED BY <2>1, <2>2
<1>5. UNCHANGED <<current, running, loop>>
  BY DEF Fire
<1>6. /\ again \in [Cores -> Timer]
      /\ \A d \in Cores : d # c => again[d] = timer[d]
      /\ TimerInv(again[c]) /\ Advancing(again[c])
      /\ GetTicks(again[c]) = GetTicks(timer[c])
  BY <1>1, <1>2, <1>3, FiredInv
<1> HIDE DEF again
<1>7. /\ TimersOK(again) /\ \A d \in Cores : GetTicks(again[d]) = GetTicks(timer[d])
  BY <1>1, <1>6 DEF TimersOK
<1>8. CallbackDelays \in SUBSET Nat
  BY TimingAssumption
<1>9. /\ TimersOK(timer')
      /\ \A d \in Cores : GetTicks(timer'[d]) = GetTicks(again[d])
      /\ Ticks(timer') = Ticks(again)
      /\ Affected(again[c], timer'[c], TRUE)
      /\ \A d \in Cores : d # c => /\ timer'[d].slice = timer[d].slice
                                   /\ timer'[d].down = timer[d].down
                                   /\ timer'[d].sane <=> timer[d].sane
                                   /\ Ready(timer[d]) => Ready(timer'[d])
  <2> DEFINE nt == eff[1]
  <2>1. /\ TimersOK(nt)
        /\ \A d \in Cores : GetTicks(nt[d]) = GetTicks(again[d])
        /\ Ticks(nt) = Ticks(again)
        /\ \A d \in Cores : Affected(again[d], nt[d], d = current)
        /\ \A d \in Cores : nt[d].sane <=> again[d].sane
        /\ \A d \in Cores : d # current => /\ nt[d].slice = again[d].slice
                                           /\ nt[d].down = again[d].down
                                           /\ Ready(again[d]) => Ready(nt[d])
    BY <1>1, <1>4, <1>7, <1>8, EffectsInv
  <2> HIDE DEF nt
  <2>2. timer' = nt
    BY <1>4 DEF nt
  <2>3. Affected(again[c], nt[c], c = current) /\ (c = current) = TRUE
    BY <1>1, <1>3, <2>1
  <2>4. Affected(again[c], nt[c], TRUE)
    BY <2>3
  <2>5. ASSUME NEW d \in Cores, d # c
        PROVE  /\ nt[d].slice = timer[d].slice /\ nt[d].down = timer[d].down
               /\ nt[d].sane <=> timer[d].sane
               /\ Ready(timer[d]) => Ready(nt[d])
    <3>1. again[d] = timer[d] /\ d # current
      BY <1>3, <1>6, <2>5
    <3> QED BY <2>1, <3>1
  <2> QED BY <2>1, <2>2, <2>4, <2>5
<1>10. Advancing(timer'[c])
  <2> DEFINE a == again[c]
             b == timer'[c]
  <2>1. a \in Timer /\ b \in Timer /\ Affected(a, b, TRUE) /\ Advancing(a)
    BY <1>1, <1>6, <1>9 DEF TimersOK
  <2> HIDE DEF a, b
  <2>2. b.sane = a.sane /\ a.sane /\ b.ts = a.ts /\ a.ts = <<>> /\ b.slice = a.slice
        /\ b.slice - b.down = a.slice - a.down /\ a.slice = 0 /\ a.down = 0
    BY <2>1 DEF Affected, Advancing
  <2>3. b.sane /\ b.ts = <<>>
    BY <2>2, Zenon
  <2>4. b.slice = 0 /\ b.down = 0
    BY <2>1, <2>2, TimerFields
  <2>5. Advancing(b)
    BY <2>3, <2>4 DEF Advancing
  <2> QED BY <2>5 DEF b
<1>11. /\ \A d \in Cores : GetTicks(timer'[d]) = GetTicks(timer[d])
       /\ Ticks(timer') = Ticks(timer)
  BY <1>7, <1>9, SameTicks
<1>12. \A d \in Cores : GetTicks(timer'[d]) >= GetTicks(timer[d])
  BY <1>1, <1>11, TicksFields
<1>13. \A d \in Cores : d < c => d # c
  BY <1>1, CoreFacts
<1>14. ASSUME loop.phase = "lag"
       PROVE  LagInv(timer', current', loop')
  <2>1. LagInv(timer, current, loop)
    BY <1>14 DEF Inv, PhaseInv
  <2> DEFINE b == loop.best
  <2>2. b # NoCore => /\ b < c /\ loop.delay[b] > 0 /\ ~timer'[b].sane
                      /\ timer'[b].slice > 0 /\ timer'[b].slice <= loop.delay[b]
                      /\ timer'[b].slice = timer'[b].down
    <3> SUFFICES ASSUME b # NoCore
                 PROVE  /\ b < c /\ loop.delay[b] > 0 /\ ~timer'[b].sane
                        /\ timer'[b].slice > 0 /\ timer'[b].slice <= loop.delay[b]
                        /\ timer'[b].slice = timer'[b].down
      OBVIOUS
    <3>1. b \in Cores /\ b < c /\ loop.delay[b] > 0 /\ ~timer[b].sane
          /\ timer[b].slice > 0 /\ timer[b].slice <= loop.delay[b]
          /\ timer[b].slice = timer[b].down
      BY <1>1, <2>1 DEF LagInv, LagFacts, LoopRecord
    <3> HIDE DEF b, c
    <3>2. b # c
      BY <1>13, <3>1
    <3> QED BY <1>9, <3>1, <3>2
  <2>3. \E g \in Cores : \A d \in Cores :
           loop.delay[d] = Ticks(timer')[g] - Ticks(timer')[d] /\ loop.delay[d] >= 0
    BY <1>11, <2>1 DEF LagInv, LagFacts
  <2> QED BY <1>3, <1>5, <1>10, <1>11, <2>1, <2>2, <2>3 DEF LagInv, LagFacts
<1>15. ASSUME loop.phase = "advance"
       PROVE  AdvanceInv(timer', current', loop')
  <2>1. AdvanceInv(timer, current, loop)
    BY <1>15 DEF Inv, PhaseInv
  <2>2. \A d \in Cores : d < c => Ready(timer'[d])
    BY <1>9, <1>13, <2>1 DEF AdvanceInv
  <2> QED BY <1>3, <1>5, <1>10, <1>11, <2>1, <2>2 DEF AdvanceInv
<1>16. PhaseInv(timer', current', loop')
  BY <1>2, <1>5, <1>14, <1>15 DEF PhaseInv
<1> QED BY <1>1, <1>5, <1>9, <1>12, <1>16 DEF Established

\* The core has caught up with its events and gets its slice.
LEMMA LagSlice ==
    ASSUME NEW tms, TimersOK(tms), NEW c \in Cores, Advancing(tms[c]), ~Due(tms[c]),
           NEW max \in Int, max > 0
    PROVE  LET nt == [tms EXCEPT ![c] = SetNextSlice([@ EXCEPT !.sane = FALSE], max)]
           IN /\ TimersOK(nt)
              /\ \A d \in Cores : d # c => nt[d] = tms[d]
              /\ \A d \in Cores : GetTicks(nt[d]) = GetTicks(tms[d])
              /\ Ticks(nt) = Ticks(tms)
              /\ ~nt[c].sane /\ nt[c].slice > 0 /\ nt[c].slice <= max
              /\ nt[c].slice = nt[c].down /\ nt[c].ts = <<>>
<1> DEFINE tm == tms[c]
           rd == [tm EXCEPT !.sane = FALSE]
           sl == SetNextSlice(rd, max)
           nt == [tms EXCEPT ![c] = sl]
<1>1. tms \in [Cores -> Timer] /\ tm \in Timer /\ \A d \in Cores : TimerInv(tms[d])
  BY DEF TimersOK
<1>2. rd \in Timer /\ TimerInv(rd) /\ Ready(rd) /\ GetTicks(rd) = GetTicks(tm)
  BY <1>1, AdvanceEnds
<1>3. rd.ts = <<>>
  BY <1>1 DEF Advancing, Timer
<1> HIDE DEF rd
<1>4. /\ sl \in Timer /\ TimerInv(sl) /\ GetTicks(sl) = GetTicks(tm)
      /\ ~sl.sane /\ sl.slice > 0 /\ sl.slice <= max /\ sl.slice = sl.down /\ sl.ts = <<>>
  BY <1>2, <1>3, SliceInv
<1> HIDE DEF sl
<1>5. nt \in [Cores -> Timer] /\ nt[c] = sl /\ \A d \in Cores : d # c => nt[d] = tms[d]
  BY <1>1, <1>4
<1> HIDE DEF nt
<1>6. TimersOK(nt) /\ \A d \in Cores : GetTicks(nt[d]) = GetTicks(tms[d])
  BY <1>1, <1>4, <1>5 DEF TimersOK
<1>7. Ticks(nt) = Ticks(tms)
  BY <1>6, SameTicks
<1>8. nt = [tms EXCEPT ![c] = SetNextSlice([@ EXCEPT !.sane = FALSE], max)]
  BY DEF nt, sl, rd
<1>9. /\ ~nt[c].sane /\ nt[c].slice > 0 /\ nt[c].slice <= max
      /\ nt[c].slice = nt[c].down /\ nt[c].ts = <<>>
  BY <1>4, <1>5
<1> QED BY <1>5, <1>6, <1>7, <1>8, <1>9

LEMMA LagDoneStep ==
    ASSUME Inv, LagDone
    PROVE  Established(timer)
<1> DEFINE c == loop.core
           delay == loop.delay
           best == IF Delayed(c) THEN c ELSE loop.best
           later == {d \in Cores : d > c /\ delay[d] > 0}
           tms == [timer EXCEPT ![c] = SetNextSlice([@ EXCEPT !.sane = FALSE], delay[c])]
           solo == delay[best] > min_delay
           tk == Ticks(timer)
<1>1. /\ TimersOK(timer) /\ running \in Cores /\ current \in Cores /\ loop \in LoopRecord
      /\ c \in Cores /\ delay \in [Cores -> Int] /\ loop.best \in Cores \cup {NoCore}
      /\ delay[c] \in Int
  BY DEF Inv, TypeOK, LoopRecord
<1>2. ~Due(timer[c]) /\ LagInv(timer, current, loop)
  BY DEF LagDone, Inv, PhaseInv
<1>3. current = c /\ Advancing(timer[c]) /\ delay[c] > 0 /\ InStep(tk)
  BY <1>2 DEF LagInv, LagFacts
<1>4. PICK g \in Cores : \A d \in Cores : delay[d] = tk[g] - tk[d] /\ delay[d] >= 0
  BY <1>2 DEF LagInv, LagFacts
<1>5. /\ \A d \in Cores : d < c /\ delay[d] > 0 => loop.best # NoCore /\ delay[d] <= delay[loop.best]
      /\ loop.best # NoCore =>
            /\ loop.best < c /\ delay[loop.best] > 0 /\ ~timer[loop.best].sane
            /\ timer[loop.best].slice > 0 /\ timer[loop.best].slice <= delay[loop.best]
            /\ timer[loop.best].slice = timer[loop.best].down
  BY <1>2 DEF LagInv, LagFacts
<1>6. /\ TimersOK(tms)
      /\ \A d \in Cores : d # c => tms[d] = timer[d]
      /\ \A d \in Cores : GetTicks(tms[d]) = GetTicks(timer[d])
      /\ Ticks(tms) = tk
      /\ ~tms[c].sane /\ tms[c].slice > 0 /\ tms[c].slice <= delay[c]
      /\ tms[c].slice = tms[c].down /\ tms[c].ts = <<>>
  BY <1>1, <1>2, <1>3, LagSlice
<1>7. \/ later # {} /\ EnterAdvance(tms, "lag", Min(later), delay, best, 0)
      \/ /\ later = {} /\ solo
         /\ timer' = tms
         /\ running' = best
         /\ current' = IF running = best THEN current ELSE best
         /\ loop' = Loop("solo", best, NoDelay, NoCore, 0, 0)
      \/ later = {} /\ ~solo /\ AdvanceAll(tms)
  BY DEF LagDone
<1>8. delay[c] = delay[c] /\ \A d \in Cores : delay[d] \in Int /\ tk[d] \in Int
  BY <1>1, TicksFields
<1> HIDE DEF tms, tk, delay
<1>9. /\ best \in Cores /\ (best = c \/ best < c) /\ delay[best] > 0
      /\ ~tms[best].sane /\ tms[best].slice > 0 /\ tms[best].slice <= delay[best]
      /\ tms[best].slice = tms[best].down
      /\ \A d \in Cores : (d < c \/ d = c) /\ delay[d] > 0 => delay[d] <= delay[best]
  <2>1. CASE Delayed(c)
    <3>1. best = c /\ (loop.best = NoCore \/ delay[c] > delay[loop.best])
      BY <2>1 DEF Delayed, delay
    <3> HIDE DEF best, c
    <3>2. \A d \in Cores : d < c /\ delay[d] > 0 => delay[d] <= delay[c]
      <4> SUFFICES ASSUME NEW d \in Cores, d < c, delay[d] > 0
                   PROVE  delay[d] <= delay[c]
        OBVIOUS
      <4>1. loop.best \in Cores /\ delay[d] <= delay[loop.best] /\ delay[c] > delay[loop.best]
        BY <1>1, <1>5, <3>1
      <4> QED BY <1>1, <1>8, <4>1
    <3>3. \A d \in Cores : d = c => delay[d] <= delay[c]
      BY <1>8
    <3> QED BY <1>1, <1>3, <1>6, <3>1, <3>2, <3>3
  <2>2. CASE ~Delayed(c)
    <3>1. best = loop.best /\ loop.best # NoCore /\ ~(delay[c] > delay[loop.best])
      BY <2>2 DEF Delayed, delay
    <3> HIDE DEF best, c
    <3>2. best \in Cores /\ best < c /\ best # c
      BY <1>1, <1>5, <3>1, CoreFacts
    <3>3. tms[best] = timer[best]
      BY <1>6, <3>2
    <3>4. \A d \in Cores : d = c => delay[d] <= delay[best]
      BY <1>1, <1>8, <3>1, <3>2
    <3> QED BY <1>5, <3>1, <3>2, <3>3, <3>4
  <2> QED BY <2>1, <2>2
<1> HIDE DEF best
<1>10. CASE later # {} /\ EnterAdvance(tms, "lag", Min(later), delay, best, 0)
  <2> DEFINE n == Min(later)
  <2>1. later \in SUBSET Cores
    OBVIOUS
  <2>2. n \in later /\ n \in Cores /\ \A d \in later : ~(d < n)
    <3> HIDE DEF later
    <3> QED BY <1>10, <2>1, FirstCore
  <2>3. n > c /\ delay[n] > 0
    BY <2>2
  <2> HIDE DEF n, c
  <2>4. best < n
    <3>1. c \in Nat /\ n \in Nat /\ best \in Nat
      BY <1>1, <1>9, <2>2, CoreFacts
    <3>2. n > c /\ (best = c \/ best < c)
      BY <1>9, <2>3
    <3> QED BY <3>1, <3>2
  <2>5. ASSUME NEW d \in Cores, d < n, delay[d] > 0
        PROVE  delay[d] <= delay[best]
    <3>1. ~(d > c)
      BY <2>2, <2>5
    <3>2. d < c \/ d = c
      BY <1>1, <3>1, CoreOrder
    <3> QED BY <1>9, <2>5, <3>2
  <2>6. best # NoCore
    BY <1>9, CoreFacts
  <2>7. \E h \in Cores : \A d \in Cores :
           delay[d] = Ticks(tms)[h] - Ticks(tms)[d] /\ delay[d] >= 0
    BY <1>4, <1>6
  <2>8. EnterAdvance(tms, "lag", n, delay, best, 0)
    BY <1>10 DEF n
  <2> HIDE DEF later
  <2>9. LagFacts(tms, n, delay, best)
    BY <1>3, <1>6, <1>9, <2>3, <2>4, <2>5, <2>6, <2>7 DEF LagFacts
  <2>10. Established(tms)
    BY <1>1, <1>6, <1>9, <2>2, <2>8, <2>9, LagStep
  <2> QED BY <1>6, <2>10 DEF Established
<1>11. ASSUME later = {}
       PROVE  \A d \in Cores : delay[d] <= delay[best]
  <2> SUFFICES ASSUME NEW d \in Cores
               PROVE  delay[d] <= delay[best]
    OBVIOUS
  <2>1. ~(d > c /\ delay[d] > 0)
    BY <1>11
  <2> HIDE DEF c, later
  <2>2. d > c \/ d < c \/ d = c
    BY <1>1, CoreOrder
  <2>3. CASE delay[d] > 0
    BY <1>9, <2>1, <2>2, <2>3
  <2>4. CASE ~(delay[d] > 0)
    BY <1>8, <1>9, <2>4
  <2> QED BY <2>3, <2>4
<1>12. CASE /\ later = {} /\ solo
            /\ timer' = tms
            /\ running' = best
            /\ current' = IF running = best THEN current ELSE best
            /\ loop' = Loop("solo", best, NoDelay, NoCore, 0, 0)
  <2>1. /\ loop' \in LoopRecord /\ loop'.phase = "solo" /\ loop'.core = best
    <3> DEFINE lp == Loop("solo", best, NoDelay, NoCore, 0, 0)
    <3>1. lp \in LoopRecord /\ lp.phase = "solo" /\ lp.core = best
      BY <1>9, CoreFacts DEF Loop, LoopRecord
    <3> HIDE DEF lp
    <3>2. loop' = lp
      BY <1>12 DEF lp
    <3> QED BY <3>1, <3>2
  <2>2. tms[best] \in Timer /\ TimerInv(tms[best]) /\ tms[best].executed \in Int
        /\ tms[best].slice \in Int
    BY <1>6, <1>9, TimerFields DEF TimersOK
  <2>3. tms[best].executed = tk[best]
    <3>1. GetTicks(tms[best]) = tk[best]
      BY <1>6, <1>9, TicksFields
    <3>2. tms[best].slice - tms[best].down = 0
      BY <1>9, <2>2
    <3> QED BY <1>9, <2>2, <3>1, <3>2 DEF GetTicks
  <2>4. SoloTicks(tms, best) = tk
    <3>1. tk \in [Cores -> Int]
      BY <1>1, TicksFields DEF tk
    <3>2. [tk EXCEPT ![best] = tk[best]] = tk
      BY <1>9, <3>1
    <3> QED BY <1>6, <2>3, <3>2 DEF SoloTicks
  <2>5. \A d \in Cores : tk[best] <= tk[d]
    <3> SUFFICES ASSUME NEW d \in Cores
                 PROVE  tk[best] <= tk[d]
      OBVIOUS
    <3>1. delay[d] <= delay[best]
      BY <1>11, <1>12
    <3>2. delay[d] = tk[g] - tk[d] /\ delay[best] = tk[g] - tk[best]
      BY <1>4, <1>9
    <3> QED BY <1>8, <1>9, <3>1, <3>2
  <2>6. tms[best].executed + tms[best].slice <= tk[g]
    <3>1. delay[best] = tk[g] - tk[best] /\ tms[best].slice <= delay[best]
      BY <1>4, <1>9
    <3> QED BY <1>8, <1>9, <2>2, <2>3, <3>1
  <2>7. NumCores <= 2 => current' = best /\ tms[best].ts = <<>>
    <3> SUFFICES ASSUME NumCores <= 2
                 PROVE  best = c
      BY <1>3, <1>6, <1>12
    <3> HIDE DEF c
    <3>1. delay[g] = 0
      BY <1>4, <1>8
    <3>2. g # c /\ g # best
      BY <1>3, <1>9, <3>1
    <3>3. \A d \in Cores : d = 0 \/ d = 1
      BY CoreOrder
    <3> QED BY <1>1, <1>9, <3>2, <3>3
  <2>8. SoloInv(timer', current', loop')
    <3>1. InStep(SoloTicks(tms, best)) /\ \A d \in Cores : SoloTicks(tms, best)[best] <= SoloTicks(tms, best)[d]
      BY <1>3, <2>4, <2>5
    <3>2. \E h \in Cores : tms[best].executed + tms[best].slice <= SoloTicks(tms, best)[h]
      BY <2>4, <2>6
    <3> HIDE DEF c, later, solo
    <3>3. timer' = tms
      BY <1>12
    <3> QED BY <1>9, <2>1, <2>7, <3>1, <3>2, <3>3 DEF SoloInv
  <2>9. current' \in Cores /\ running' \in Cores
    BY <1>1, <1>9, <1>12
  <2>10. \A d \in Cores : GetTicks(tms[d]) >= GetTicks(timer[d])
    BY <1>1, <1>6, TicksFields
  <2> HIDE DEF c, later, solo
  <2>11. timer' = tms
    BY <1>12
  <2>12. TimersOK(timer')
    BY <1>6, <2>11
  <2>13. PhaseInv(timer', current', loop')
    BY <2>1, <2>8 DEF PhaseInv
  <2>14. \A d \in Cores : GetTicks(timer'[d]) >= GetTicks(timer[d])
    BY <2>10, <2>11
  <2> QED BY <2>1, <2>9, <2>12, <2>13, <2>14 DEF Established
<1>13. CASE later = {} /\ ~solo /\ AdvanceAll(tms)
  <2>1. ASSUME NEW a \in Cores, NEW b \in Cores
        PROVE  tk[a] - tk[b] <= min_delay
    <3>1. delay[a] = tk[g] - tk[a] /\ delay[a] >= 0 /\ delay[b] = tk[g] - tk[b]
      BY <1>4
    <3>2. delay[b] <= delay[best] /\ delay[best] <= min_delay
      BY <1>8, <1>9, <1>11, <1>13, Bounds
    <3> QED BY <1>8, <1>9, <3>1, <3>2, Bounds
  <2>2. Close(Ticks(tms))
    BY <1>6, <2>1 DEF Close
  <2>3. Established(tms)
    BY <1>1, <1>6, <1>13, <2>2, AdvanceAllStep
  <2> QED BY <1>6, <2>3 DEF Established
<1> QED BY <1>7, <1>10, <1>12, <1>13

Executed(tms) == [d \in Cores |-> tms[d].executed]

\* The loop turns to a core that is ready to run.
LEMMA EnterRunStep ==
    ASSUME NEW tms, TimersOK(tms), NEW c \in Cores, NEW max \in Int,
           0 < max, max <= MAX_SLICE_LENGTH + c * Overshoot,
           \A d \in Cores : ~tms[d].sane,
           \A d \in Cores : d < c => tms[d].slice - tms[d].down <= LongestRun,
           Ready(tms[c]), \A d \in Cores : d > c => Ready(tms[d]),
           Close(Executed(tms)),
           EnterRun(tms, c, max)
    PROVE  Established(tms)
<1> DEFINE sl == SetNextSlice(tms[c], max)
           nt == [tms EXCEPT ![c] = sl]
           lp == Loop("run", c, NoDelay, NoCore, 0, GetTicks(tms[c]))
<1>1. timer' = nt /\ loop' = lp /\ current' = c /\ running' = c
  BY DEF EnterRun
<1>2. tms \in [Cores -> Timer] /\ tms[c] \in Timer /\ \A d \in Cores : TimerInv(tms[d])
  BY DEF TimersOK
<1>3. /\ sl \in Timer /\ TimerInv(sl) /\ GetTicks(sl) = GetTicks(tms[c])
      /\ ~sl.sane /\ sl.slice > 0 /\ sl.slice <= max /\ sl.executed = tms[c].executed
      /\ GetTicks(tms[c]) = tms[c].executed
  BY <1>2, SliceInv
<1>4. GetTicks(tms[c]) \in Int
  BY TicksFields
<1>5. /\ lp \in LoopRecord /\ lp.phase = "run" /\ lp.core = c /\ lp.start = GetTicks(tms[c])
  BY <1>4, CoreFacts DEF Loop, LoopRecord
<1> HIDE DEF sl
<1>6. nt \in [Cores -> Timer] /\ nt[c] = sl /\ \A d \in Cores : d # c => nt[d] = tms[d]
  BY <1>2, <1>3
<1> HIDE DEF nt, lp
<1>7. TimersOK(nt) /\ \A d \in Cores : GetTicks(nt[d]) = GetTicks(tms[d])
  BY <1>2, <1>3, <1>6 DEF TimersOK
<1>8. \A d \in Cores : GetTicks(nt[d]) >= GetTicks(tms[d])
  BY <1>7, TicksFields
<1>9. \A d \in Cores : (d < c => d # c) /\ (d > c => d # c)
  BY CoreOrder
<1>10. Ran(nt, c)
  <2>1. \A d \in Cores : ~nt[d].sane
    BY <1>3, <1>6
  <2>2. \A d \in Cores : d < c => nt[d].slice - nt[d].down <= LongestRun
    BY <1>6, <1>9
  <2>3. \A d \in Cores : d > c => Ready(nt[d])
    BY <1>6, <1>9
  <2>4. \A d \in Cores : nt[d].executed = tms[d].executed
    BY <1>3, <1>6
  <2>5. [d \in Cores |-> nt[d].executed] = Executed(tms)
    BY <2>4 DEF Executed
  <2> QED BY <2>1, <2>2, <2>3, <2>5 DEF Ran
<1>11. nt[c].slice > 0 /\ nt[c].slice <= MAX_SLICE_LENGTH + c * Overshoot
  <2>1. c * Overshoot \in Int /\ MAX_SLICE_LENGTH \in Int /\ sl.slice \in Int
    <3>1. c \in Int /\ Overshoot \in Int
      BY CoreFacts, Bounds
    <3>2. c * Overshoot \in Int
      BY <3>1
    <3> QED BY <1>3, <3>2, Bounds, TimerFields
  <2>2. nt[c].slice = sl.slice /\ sl.slice > 0 /\ sl.slice <= max
    BY <1>3, <1>6
  <2> QED BY <2>1, <2>2
<1>12. lp.start = nt[c].executed
  BY <1>3, <1>5, <1>6
<1>13. RunInv(nt, c, lp)
  BY <1>5, <1>10, <1>11, <1>12 DEF RunInv
<1>14. PhaseInv(nt, c, lp)
  BY <1>5, <1>13 DEF PhaseInv
<1> QED BY <1>1, <1>5, <1>7, <1>8, <1>14 DEF Established

\* A core's Advance ends in the loop over all cores.
LEMMA AdvanceDoneStep ==
    ASSUME Inv, AdvanceDone
    PROVE  Established(timer) /\ assertOK'
<1> DEFINE c == loop.core
           tm == timer[c]
           rd == [tm EXCEPT !.sane = FALSE]
           tms == [timer EXCEPT ![c] = rd]
           len == GetMaxSliceLength(tm)
           max == Min({loop.slice, len})
<1>1. /\ TimersOK(timer) /\ running \in Cores /\ loop \in LoopRecord /\ assertOK
      /\ c \in Cores /\ loop.slice \in Int
  BY DEF Inv, TypeOK, LoopRecord
<1>2. ~Due(tm) /\ AdvanceInv(timer, current, loop)
  BY DEF AdvanceDone, Inv, PhaseInv
<1>3. /\ Advancing(tm) /\ Close(Ticks(timer))
      /\ 0 < loop.slice /\ loop.slice <= MAX_SLICE_LENGTH
      /\ \A d \in Cores : d < c => Ready(timer[d])
  BY <1>2 DEF AdvanceInv
<1>4. /\ assertOK' = (assertOK /\ len > 0)
      /\ IF c + 1 \in Cores
         THEN EnterAdvance(tms, "advance", c + 1, NoDelay, NoCore, max)
         ELSE EnterRun(tms, 0, max)
  BY DEF AdvanceDone
<1>5. timer \in [Cores -> Timer] /\ tm \in Timer /\ \A d \in Cores : TimerInv(timer[d])
  BY <1>1 DEF TimersOK
<1>6. len \in Int /\ len > 0
  <2>1. CASE tm.queue = <<>>
    BY <2>1, Bounds DEF GetMaxSliceLength
  <2>2. CASE tm.queue # <<>>
    <3>1. ~(FrontTime(tm) <= tm.executed) /\ len = FrontTime(tm) - tm.executed
      BY <1>2, <2>2 DEF Due, GetMaxSliceLength
    <3>2. FrontTime(tm) \in Int /\ tm.executed \in Int
      BY <1>5, <2>2, FrontTimeIsLeast, TimerFields
    <3> HIDE DEF len, tm
    <3> QED BY <3>1, <3>2
  <2> QED BY <2>1, <2>2
<1>7. assertOK'
  BY <1>1, <1>4, <1>6
<1> HIDE DEF len
<1>8. max \in Int /\ 0 < max /\ max <= MAX_SLICE_LENGTH
  <2>1. max = IF loop.slice <= len THEN loop.slice ELSE len
    BY <1>1, <1>6, MinPair
  <2> QED BY <1>1, <1>3, <1>6, <2>1, Bounds
<1>9. rd \in Timer /\ TimerInv(rd) /\ Ready(rd) /\ GetTicks(rd) = GetTicks(tm)
  BY <1>1, <1>2, <1>3, <1>5, AdvanceEnds
<1> HIDE DEF rd, max
<1>10. tms \in [Cores -> Timer] /\ tms[c] = rd /\ \A d \in Cores : d # c => tms[d] = timer[d]
  BY <1>1, <1>5, <1>9
<1> HIDE DEF tms
<1>11. TimersOK(tms) /\ \A d \in Cores : GetTicks(tms[d]) = GetTicks(timer[d])
  BY <1>5, <1>9, <1>10 DEF TimersOK
<1>12. Ticks(tms) = Ticks(timer)
  BY <1>11, SameTicks
<1> HIDE DEF tm
<1>13. \A d \in Cores : d < c \/ d = c => Ready(tms[d])
  <2>1. \A d \in Cores : d < c => d # c
    BY <1>1, CoreOrder
  <2> HIDE DEF c
  <2> QED BY <1>3, <1>9, <1>10, <2>1
<1>14. CASE c + 1 \in Cores
  <2> DEFINE n == c + 1
  <2>1. EnterAdvance(tms, "advance", n, NoDelay, NoCore, max) /\ n \in Cores
    BY <1>4, <1>14
  <2>2. \A d \in Cores : d < n => d # n /\ (d < c \/ d = c)
    <3> HIDE DEF c
    <3> QED BY <1>1, CoreOrder
  <2> HIDE DEF n
  <2>3. /\ NoDelay \in [Cores -> Int] /\ NoCore \in Cores \cup {NoCore}
        /\ "advance" \in {"lag", "advance"} /\ running \in Cores /\ max \in Int /\ TimersOK(tms)
    BY <1>1, <1>8, <1>11, CoreFacts
  <2>4. /\ TimersOK(timer') /\ Advancing(timer'[n])
        /\ \A d \in Cores : d # n => timer'[d] = tms[d]
        /\ \A d \in Cores : GetTicks(timer'[d]) >= GetTicks(tms[d])
        /\ Ticks(timer') = Ticks(tms)
        /\ current' = n /\ current' \in Cores /\ running' \in Cores
        /\ loop' \in LoopRecord /\ loop'.phase = "advance" /\ loop'.core = n
        /\ loop'.slice = max
    <3>1. Entered(tms, "advance", n, NoDelay, NoCore, max)
      BY <2>1, <2>3, EnterAdvanceStep, Zenon
    <3> QED BY <3>1 DEF Entered
  <2>5. \A d \in Cores : d < n => Ready(timer'[d])
    BY <1>13, <2>2, <2>4
  <2>6. AdvanceInv(timer', current', loop')
    BY <1>3, <1>8, <1>12, <2>4, <2>5 DEF AdvanceInv
  <2> QED BY <1>7, <1>11, <2>4, <2>6 DEF Established, PhaseInv
<1>15. CASE c + 1 \notin Cores
  <2>1. EnterRun(tms, 0, max)
    BY <1>4, <1>15
  <2>2. ASSUME NEW d \in Cores
        PROVE  d < c \/ d = c
    <3>1. ~(d > c)
      BY <1>1, <1>15, CoreOrder
    <3> QED BY <1>1, <3>1, CoreOrder
  <2>3. \A d \in Cores : Ready(tms[d])
    BY <1>13, <2>2
  <2>4. \A d \in Cores : ~tms[d].sane
    BY <2>3 DEF Ready
  <2>5. \A d \in Cores : GetTicks(tms[d]) = tms[d].executed
    <3> SUFFICES ASSUME NEW d \in Cores
                 PROVE  GetTicks(tms[d]) = tms[d].executed
      OBVIOUS
    <3>1. tms[d].slice = 0 /\ tms[d].down = 0 /\ ~tms[d].sane
      BY <2>3 DEF Ready
    <3>2. tms[d].executed \in Int
      BY <1>10, TimerFields
    <3> QED BY <3>1, <3>2 DEF GetTicks
  <2>6. Close(Executed(tms))
    <3>1. Executed(tms) = Ticks(tms)
      BY <2>5 DEF Executed, Ticks
    <3> QED BY <1>3, <1>12, <3>1
  <2>7. 0 \in Cores /\ \A d \in Cores : ~(d < 0)
    BY CoreFacts
  <2>8. max <= MAX_SLICE_LENGTH + 0 * Overshoot
    <3>1. 0 * Overshoot = 0
      BY Bounds
    <3> QED BY <1>8, <3>1, Bounds
  <2>9. Established(tms)
    BY <1>8, <1>11, <2>1, <2>3, <2>4, <2>6, <2>7, <2>8, EnterRunStep
  <2> QED BY <1>7, <1>11, <2>9 DEF Established
<1> QED BY <1>14, <1>15

\* While the cores run, one after the other, their clocks are in step: no core runs
\* for longer than LongestRun.
LEMMA RunInStep ==
    ASSUME NEW tms, TimersOK(tms), NEW cur, NEW lp \in LoopRecord, RunInv(tms, cur, lp)
    PROVE  /\ InStep(Ticks(tms))
           /\ LET c == lp.core
                  ran == tms[c].slice - tms[c].down
              IN /\ ran \in Int /\ ran <= MAX_SLICE_LENGTH + (c + 1) * Overshoot
                 /\ ran <= LongestRun /\ GetTicks(tms[c]) - lp.start = ran
<1> DEFINE c == lp.core
           ran == tms[c].slice - tms[c].down
<1>1. /\ c \in Cores /\ lp.start = tms[c].executed /\ Ran(tms, c)
      /\ tms[c].slice <= MAX_SLICE_LENGTH + c * Overshoot
  BY DEF RunInv, LoopRecord
<1>2. /\ \A d \in Cores : ~tms[d].sane
      /\ \A d \in Cores : d < c => tms[d].slice - tms[d].down <= LongestRun
      /\ \A d \in Cores : d > c => Ready(tms[d])
      /\ Close(Executed(tms))
  BY <1>1 DEF Ran, Executed
<1>3. \A d \in Cores : /\ tms[d] \in Timer /\ TimerInv(tms[d])
                       /\ tms[d].executed \in Int /\ tms[d].slice \in Int /\ tms[d].down \in Int
  BY TimerFields DEF TimersOK
<1>4. \A d \in Cores : tms[d].down <= tms[d].slice /\ tms[d].down >= -Overshoot
  BY <1>2, <1>3 DEF TimerInv
<1>5. \A d \in Cores : GetTicks(tms[d]) = tms[d].executed + (tms[d].slice - tms[d].down)
  BY <1>2 DEF GetTicks
<1>6. /\ c \in Int /\ c + 1 <= NumCores /\ Overshoot \in Int /\ NumCores \in Int
      /\ MAX_SLICE_LENGTH \in Int
  <2>1. c \in Nat /\ c <= NumCores - 1 /\ NumCores \in Nat
    BY <1>1, CoreFacts, Bounds
  <2> HIDE DEF c
  <2> QED BY <2>1, Bounds
<1> HIDE DEF c
<1>7. /\ c * Overshoot \in Int /\ (c + 1) * Overshoot = c * Overshoot + Overshoot
      /\ (c + 1) * Overshoot <= NumCores * Overshoot
  <2>1. (c + 1) * Overshoot = c * Overshoot + Overshoot /\ c * Overshoot \in Int
    BY <1>6
  <2>2. (c + 1) * Overshoot <= NumCores * Overshoot
    BY <1>6, OverrunBound
  <2> QED BY <2>1, <2>2
<1>8. ran \in Int /\ ran <= MAX_SLICE_LENGTH + (c + 1) * Overshoot
  <2>1. /\ tms[c].slice <= MAX_SLICE_LENGTH + c * Overshoot /\ tms[c].down >= -Overshoot
        /\ tms[c].slice \in Int /\ tms[c].down \in Int
    BY <1>1, <1>3, <1>4
  <2> QED BY <1>6, <1>7, <2>1
<1>9. ran <= LongestRun
  <2>1. LongestRun = MAX_SLICE_LENGTH + NumCores * Overshoot /\ NumCores * Overshoot \in Int
    BY Bounds
  <2> HIDE DEF ran
  <2> QED BY <1>6, <1>7, <1>8, <2>1
<1>10. GetTicks(tms[c]) - lp.start = ran
  BY <1>1, <1>3, <1>5
<1>11. ASSUME NEW d \in Cores
       PROVE  tms[d].slice - tms[d].down <= LongestRun
  <2>1. d > c \/ d < c \/ d = c
    BY <1>1, CoreOrder
  <2>2. CASE d > c
    <3>1. tms[d].slice = 0 /\ tms[d].down = 0
      BY <1>2, <2>2 DEF Ready
    <3> QED BY <3>1, Bounds
  <2> QED BY <1>2, <1>9, <2>1, <2>2
<1>12. Ticks(tms) \in [Cores -> Int] /\ \A d \in Cores : Ticks(tms)[d] = GetTicks(tms[d])
  BY TicksFields
<1>13. ASSUME NEW a \in Cores, NEW b \in Cores
       PROVE  Ticks(tms)[a] - Ticks(tms)[b] <= LongestRun + min_delay
  <2>1. tms[a].executed - tms[b].executed <= min_delay
    BY <1>2 DEF Close, Executed
  <2>2. /\ Ticks(tms)[a] = tms[a].executed + (tms[a].slice - tms[a].down)
        /\ Ticks(tms)[b] = tms[b].executed + (tms[b].slice - tms[b].down)
    BY <1>5, <1>12
  <2>3. tms[a].slice - tms[a].down <= LongestRun /\ tms[b].down <= tms[b].slice
    BY <1>4, <1>11
  <2>4. LongestRun \in Int /\ min_delay \in Int
    BY Bounds
  <2>5. /\ tms[a].executed \in Int /\ tms[a].slice \in Int /\ tms[a].down \in Int
        /\ tms[b].executed \in Int /\ tms[b].slice \in Int /\ tms[b].down \in Int
    BY <1>3
  <2> QED BY <2>1, <2>2, <2>3, <2>4, <2>5
<1>14. InStep(Ticks(tms))
  BY <1>12, <1>13, InStepOfSpread
<1> QED BY <1>8, <1>9, <1>10, <1>14 DEF c

\* So they are while a core runs alone: it does not overtake the fastest by more than
\* it may overrun its slice.
LEMMA SoloInStep ==
    ASSUME NEW tms, TimersOK(tms), NEW cur, NEW lp \in LoopRecord, SoloInv(tms, cur, lp)
    PROVE  InStep(Ticks(tms))
<1> DEFINE c == lp.core
           tk == SoloTicks(tms, c)
           t == GetTicks(tms[c])
<1>1. /\ c \in Cores /\ ~tms[c].sane /\ InStep(tk) /\ \A d \in Cores : tk[c] <= tk[d]
      /\ \E g \in Cores : tms[c].executed + tms[c].slice <= tk[g]
  BY DEF SoloInv, LoopRecord
<1> HIDE DEF c
<1>2. /\ tms[c] \in Timer /\ TimerInv(tms[c])
      /\ tms[c].executed \in Int /\ tms[c].slice \in Int /\ tms[c].down \in Int
  BY <1>1, TimerFields DEF TimersOK
<1>3. /\ tms[c].down <= tms[c].slice /\ tms[c].down >= -Overshoot
      /\ t = tms[c].executed + (tms[c].slice - tms[c].down)
  BY <1>1, <1>2 DEF TimerInv, GetTicks
<1>4. Ticks(tms) \in [Cores -> Int] /\ \A d \in Cores : Ticks(tms)[d] = GetTicks(tms[d])
  BY TicksFields
<1>5. /\ tk \in [Cores -> Int] /\ tk[c] = tms[c].executed
      /\ \A d \in Cores : d # c => tk[d] = Ticks(tms)[d]
  BY <1>1, <1>2, <1>4 DEF SoloTicks
<1> HIDE DEF tk, t
<1>6. [tk EXCEPT ![c] = t] = Ticks(tms)
  BY <1>1, <1>4, <1>5 DEF t
<1>7. PICK g \in Cores : tms[c].executed + tms[c].slice <= tk[g]
  BY <1>1
<1>8. t \in Int /\ tk[c] <= t /\ t <= tk[g] + Overshoot
  <2>1. tk[g] \in Int /\ Overshoot \in Int
    BY <1>5, Bounds
  <2> QED BY <1>2, <1>3, <1>5, <1>7, <2>1
<1> QED BY <1>1, <1>5, <1>6, <1>8, InStepSolo

\* The loop ends.
LEMMA LoopEnds ==
    ASSUME NEW tms, TimersOK(tms), running \in Cores, current \in Cores, InStep(Ticks(tms)),
           timer' = tms, loop' = Loop("end", 0, NoDelay, NoCore, 0, 0),
           UNCHANGED <<current, running>>
    PROVE  Established(tms)
<1> DEFINE lp == Loop("end", 0, NoDelay, NoCore, 0, 0)
<1>1. lp \in LoopRecord /\ lp.phase = "end"
  BY CoreFacts DEF Loop, LoopRecord
<1> HIDE DEF lp
<1>2. loop' = lp
  BY DEF lp
<1>3. PhaseInv(tms, current, lp)
  BY <1>1 DEF PhaseInv
<1>4. \A d \in Cores : GetTicks(tms[d]) >= GetTicks(tms[d])
  BY TicksFields
<1> QED BY <1>1, <1>2, <1>3, <1>4 DEF Established

\* The running core stops: the next one runs, or the loop ends.
LEMMA RunStops ==
    ASSUME NEW tms, TimersOK(tms), running \in Cores, current \in Cores, loop \in LoopRecord,
           loop.phase = "run", RunInv(tms, current, loop),
           tms[loop.core].slice - tms[loop.core].down >= 1, StopRunning(tms)
    PROVE  Established(tms)
<1> DEFINE c == loop.core
           ran == tms[c].slice - tms[c].down
<1>1. /\ InStep(Ticks(tms)) /\ ran \in Int /\ ran <= MAX_SLICE_LENGTH + (c + 1) * Overshoot
      /\ ran <= LongestRun /\ GetTicks(tms[c]) - loop.start = ran
  BY RunInStep
<1>2. c \in Cores /\ Ran(tms, c) /\ ran >= 1
  BY DEF RunInv, LoopRecord
<1>3. /\ \A d \in Cores : ~tms[d].sane
      /\ \A d \in Cores : d < c => tms[d].slice - tms[d].down <= LongestRun
      /\ \A d \in Cores : d > c => Ready(tms[d])
      /\ Close(Executed(tms))
  BY <1>2 DEF Ran, Executed
<1> HIDE DEF c
<1>4. CASE c + 1 \in Cores
  <2> DEFINE n == c + 1
             max == GetTicks(tms[c]) - loop.start
  <2>1. n \in Cores /\ EnterRun(tms, n, max)
    BY <1>4 DEF StopRunning, c
  <2>2. max = ran
    BY <1>1
  <2> HIDE DEF ran, max, n
  <2>3. 0 < max /\ max \in Int /\ max <= MAX_SLICE_LENGTH + n * Overshoot
    BY <1>1, <1>2, <2>2 DEF n
  <2>4. \A d \in Cores : d < n => d < c \/ d = c
    BY <1>2, CoreOrder DEF n
  <2>5. \A d \in Cores : d < n => tms[d].slice - tms[d].down <= LongestRun
    BY <1>1, <1>3, <2>4 DEF ran
  <2>6. n > c /\ \A d \in Cores : d > n => d > c
    <3>1. c \in Int /\ \A d \in Cores : d \in Int
      BY <1>2, CoreFacts
    <3> QED BY <3>1 DEF n
  <2>7. Ready(tms[n]) /\ \A d \in Cores : d > n => Ready(tms[d])
    BY <1>3, <2>1, <2>6
  <2> QED BY <1>3, <2>1, <2>3, <2>5, <2>7, EnterRunStep
<1>5. CASE c + 1 \notin Cores
  <2>1. /\ timer' = tms /\ UNCHANGED <<current, running>>
        /\ loop' = Loop("end", 0, NoDelay, NoCore, 0, 0)
    BY <1>5 DEF StopRunning, c
  <2> QED BY <1>1, <2>1, LoopEnds
<1> QED BY <1>4, <1>5

\* The core that ran alone stops.
LEMMA SoloStops ==
    ASSUME NEW tms, TimersOK(tms), running \in Cores, current \in Cores, loop \in LoopRecord,
           loop.phase = "solo", SoloInv(tms, current, loop), StopRunning(tms)
    PROVE  Established(tms)
<1>1. /\ timer' = tms /\ UNCHANGED <<current, running>>
      /\ loop' = Loop("end", 0, NoDelay, NoCore, 0, 0)
  BY DEF StopRunning
<1> QED BY <1>1, SoloInStep, LoopEnds

\* A running core's slice is short enough for the events that other cores sent it.
LEMMA RunningSlice ==
    ASSUME NEW tms, TimersOK(tms), loop \in LoopRecord,
           NEW c \in Cores, c = loop.core,
           \/ loop.phase = "run" /\ RunInv(tms, current, loop)
           \/ loop.phase = "solo" /\ SoloInv(tms, current, loop)
    PROVE  /\ ~tms[c].sane /\ tms[c].slice > 0
           /\ tms[c].ts = <<>> \/ tms[c].slice + Overshoot <= LongestWait
<1>1. /\ tms[c] \in Timer /\ tms[c].executed \in Int /\ tms[c].slice \in Int
  BY TimerFields DEF TimersOK
<1>2. CASE loop.phase = "run" /\ RunInv(tms, current, loop)
  <2>1. ~tms[c].sane /\ tms[c].slice > 0 /\ tms[c].slice <= MAX_SLICE_LENGTH + c * Overshoot
    BY <1>2 DEF RunInv, Ran
  <2>2. c \in Nat /\ c <= NumCores - 1 /\ NumCores \in Nat /\ Overshoot \in Nat
    BY CoreFacts, Bounds
  <2>3. c * Overshoot \in Int /\ c * Overshoot <= (NumCores - 1) * Overshoot
    BY <2>2, OverrunBound
  <2>4. /\ LongestRun = MAX_SLICE_LENGTH + NumCores * Overshoot /\ MAX_SLICE_LENGTH \in Int
        /\ NumCores * Overshoot = (NumCores - 1) * Overshoot + Overshoot
        /\ (NumCores - 1) * Overshoot \in Int /\ LongestRun <= LongestWait
        /\ LongestRun \in Int /\ LongestWait \in Int
    BY Bounds
  <2>5. tms[c].slice + Overshoot <= LongestWait
    BY <1>1, <2>1, <2>2, <2>3, <2>4
  <2> QED BY <2>1, <2>5
<1>3. CASE loop.phase = "solo" /\ SoloInv(tms, current, loop)
  <2> DEFINE tk == SoloTicks(tms, c)
  <2>1. /\ ~tms[c].sane /\ tms[c].slice > 0 /\ InStep(tk)
        /\ \E g \in Cores : tms[c].executed + tms[c].slice <= tk[g]
        /\ NumCores <= 2 => tms[c].ts = <<>>
    BY <1>3 DEF SoloInv
  <2>2. tk \in [Cores -> Int] /\ tk[c] = tms[c].executed
    BY <1>1, TicksFields DEF SoloTicks
  <2> HIDE DEF tk
  <2>3. PICK g \in Cores : tms[c].executed + tms[c].slice <= tk[g]
    BY <2>1
  <2>4. tk[g] - tk[c] <= MaxLag /\ tk[g] \in Int
    BY <2>1, <2>2, InStepSpread
  <2>5. /\ MaxLag \in Int /\ LongestWait \in Int /\ Overshoot \in Int /\ NumCores \in Int
        /\ NumCores > 2 => LongestWait = MaxLag + Overshoot
    BY Bounds
  <2>6. NumCores > 2 => tms[c].slice + Overshoot <= LongestWait
    BY <1>1, <2>2, <2>3, <2>4, <2>5
  <2>7. NumCores <= 2 \/ NumCores > 2
    BY <2>5
  <2> QED BY <2>1, <2>6, <2>7
<1> QED BY <1>2, <1>3

Runs(tms) == \/ loop.phase = "run" /\ RunInv(tms, current, loop)
             \/ loop.phase = "solo" /\ SoloInv(tms, current, loop)

\* The running core's downcount goes down to n.
LEMMA RanOn ==
    ASSUME NEW tms, TimersOK(tms), loop \in LoopRecord, Runs(tms), NEW n \in Int,
           n <= tms[loop.core].down, n >= -Overshoot
    PROVE  LET nt == [tms EXCEPT ![loop.core].down = n]
           IN /\ TimersOK(nt) /\ Runs(nt)
              /\ nt[loop.core].slice = tms[loop.core].slice /\ nt[loop.core].down = n
              /\ \A d \in Cores : GetTicks(nt[d]) >= GetTicks(tms[d])
<1> DEFINE c == loop.core
           tm == [tms[c] EXCEPT !.down = n]
           nt == [tms EXCEPT ![c] = tm]
<1>1. c \in Cores /\ tms \in [Cores -> Timer] /\ \A d \in Cores : TimerInv(tms[d])
  BY DEF TimersOK, LoopRecord
<1>2. ~tms[c].sane /\ (tms[c].ts = <<>> \/ tms[c].slice + Overshoot <= LongestWait)
  BY <1>1, RunningSlice DEF Runs
<1>3. /\ tm \in Timer /\ TimerInv(tm)
      /\ tm.executed = tms[c].executed /\ tm.slice = tms[c].slice /\ tm.down = n
      /\ ~tm.sane /\ tm.ts = tms[c].ts
      /\ GetTicks(tms[c]) <= GetTicks(tm)
  BY <1>1, <1>2, RunInvariant
<1> HIDE DEF tm
<1>4. nt \in [Cores -> Timer] /\ nt[c] = tm /\ \A d \in Cores : d # c => nt[d] = tms[d]
  BY <1>1, <1>3
<1>5. nt = [tms EXCEPT ![loop.core].down = n]
  BY DEF tm
<1> HIDE DEF nt
<1>6. TimersOK(nt)
  BY <1>1, <1>3, <1>4 DEF TimersOK
<1>7. \A d \in Cores : GetTicks(nt[d]) \in Int /\ GetTicks(tms[d]) \in Int
  BY <1>6, TicksFields
<1>8. \A d \in Cores : GetTicks(nt[d]) >= GetTicks(tms[d])
  BY <1>3, <1>4, <1>7
<1>9. /\ \A d \in Cores : nt[d].executed = tms[d].executed /\ nt[d].slice = tms[d].slice
      /\ \A d \in Cores : nt[d].ts = tms[d].ts /\ (nt[d].sane <=> tms[d].sane)
  BY <1>2, <1>3, <1>4
<1>10. CASE loop.phase = "run" /\ RunInv(tms, current, loop)
  <2>1. current = c /\ loop.start = tms[c].executed /\ Ran(tms, c)
        /\ tms[c].slice > 0 /\ tms[c].slice <= MAX_SLICE_LENGTH + c * Overshoot
    BY <1>10 DEF RunInv
  <2>2. \A d \in Cores : (d < c => d # c) /\ (d > c => d # c)
    BY <1>1, CoreOrder
  <2> HIDE DEF c
  <2>3. \A d \in Cores : d < c => nt[d].slice - nt[d].down <= LongestRun
    BY <1>4, <2>1, <2>2 DEF Ran
  <2>4. \A d \in Cores : d > c => Ready(nt[d])
    BY <1>4, <2>1, <2>2 DEF Ran
  <2>5. \A d \in Cores : ~nt[d].sane
    BY <1>9, <2>1 DEF Ran
  <2>6. [d \in Cores |-> nt[d].executed] = [d \in Cores |-> tms[d].executed]
    BY <1>9
  <2>7. Ran(nt, c)
    BY <2>1, <2>3, <2>4, <2>5, <2>6 DEF Ran
  <2>8. nt[c].slice = tms[c].slice /\ nt[c].executed = tms[c].executed
    BY <1>1, <1>9
  <2>9. RunInv(nt, current, loop)
    BY <2>1, <2>7, <2>8 DEF RunInv, c
  <2> QED BY <1>3, <1>4, <1>5, <1>6, <1>8, <1>10, <2>9 DEF Runs, c
<1>11. CASE loop.phase = "solo" /\ SoloInv(tms, current, loop)
  <2>1. SoloTicks(nt, c) = SoloTicks(tms, c)
    <3>1. Ticks(nt) \in [Cores -> Int] /\ Ticks(tms) \in [Cores -> Int]
      BY <1>6, TicksFields
    <3>2. \A d \in Cores : d # c => Ticks(nt)[d] = Ticks(tms)[d]
      BY <1>4 DEF Ticks
    <3>3. nt[c].executed = tms[c].executed
      BY <1>1, <1>9
    <3> QED BY <1>1, <3>1, <3>2, <3>3 DEF SoloTicks
  <2>2. nt[c].slice = tms[c].slice /\ nt[c].executed = tms[c].executed
        /\ nt[c].ts = tms[c].ts /\ ~nt[c].sane
    BY <1>1, <1>2, <1>9
  <2>3. SoloInv(nt, current, loop)
    BY <1>11, <2>1, <2>2 DEF SoloInv
  <2> QED BY <1>3, <1>4, <1>5, <1>6, <1>8, <1>11, <2>3 DEF Runs
<1> QED BY <1>10, <1>11 DEF Runs

\* The running core has run for a tick at least and its program then schedules or
\* unschedules an event.
LEMMA RunEffects ==
    ASSUME NEW tms, TimersOK(tms), loop \in LoopRecord, current \in Cores, Runs(tms),
           tms[loop.core].slice - tms[loop.core].down >= 1,
           NEW eff \in Effects(tms, current, Delays)
    PROVE  /\ TimersOK(eff[1]) /\ Runs(eff[1])
           /\ eff[1][loop.core].slice - eff[1][loop.core].down >= 1
           /\ \A d \in Cores : GetTicks(eff[1][d]) = GetTicks(tms[d])
<1> DEFINE c == loop.core
           nt == eff[1]
           a == tms[c]
           b == nt[c]
<1>1. c \in Cores /\ Delays \in SUBSET Nat
  BY TimingAssumption DEF LoopRecord
<1>2. /\ TimersOK(nt)
      /\ \A d \in Cores : GetTicks(nt[d]) = GetTicks(tms[d])
      /\ Ticks(nt) = Ticks(tms)
      /\ \A d \in Cores : Affected(tms[d], nt[d], d = current)
      /\ \A d \in Cores : nt[d].executed = tms[d].executed
      /\ \A d \in Cores : nt[d].sane <=> tms[d].sane
      /\ \A d \in Cores : nt[d].slice - nt[d].down = tms[d].slice - tms[d].down
      /\ \A d \in Cores : d # current => /\ nt[d].slice = tms[d].slice
                                         /\ nt[d].down = tms[d].down
                                         /\ Ready(tms[d]) => Ready(nt[d])
  BY <1>1, EffectsInv
<1> HIDE DEF nt
<1>3. a \in Timer /\ b \in Timer /\ Affected(a, b, c = current)
  BY <1>1, <1>2 DEF TimersOK
<1>4. ~a.sane /\ a.slice > 0
  BY <1>1, RunningSlice DEF Runs
<1>5. /\ b.slice - b.down = a.slice - a.down /\ b.slice <= a.slice
      /\ b.down = a.down \/ b.down >= 0
      /\ b.executed = a.executed /\ (c = current => b.ts = a.ts)
  BY <1>3 DEF Affected
<1>6. a.slice - a.down >= 1
  OBVIOUS
<1>7. b.slice - b.down >= 1 /\ ~b.sane
  BY <1>1, <1>2, <1>4, <1>5, <1>6
<1> HIDE DEF a, b, c
<1>8. b.slice > 0
  <2>1. b.slice \in Int /\ b.down \in Int /\ a.slice \in Int /\ a.down \in Int
    BY <1>3, TimerFields
  <2> QED BY <1>4, <1>5, <1>7, <2>1
<1>9. nt[c] = b /\ tms[c] = a
  BY DEF a, b
<1>10. CASE loop.phase = "run" /\ RunInv(tms, current, loop)
  <2>1. current = c /\ loop.start = a.executed /\ Ran(tms, c)
        /\ a.slice <= MAX_SLICE_LENGTH + c * Overshoot
    BY <1>10 DEF RunInv, c, a
  <2>2. \A d \in Cores : (d < c => d # c) /\ (d > c => d # c)
    BY <1>1, CoreOrder
  <2>3. \A d \in Cores : d < c => nt[d].slice - nt[d].down <= LongestRun
    BY <1>2, <2>1, <2>2 DEF Ran
  <2>4. \A d \in Cores : d > c => Ready(nt[d])
    BY <1>2, <2>1, <2>2 DEF Ran
  <2>5. \A d \in Cores : ~nt[d].sane
    BY <1>2, <2>1 DEF Ran
  <2>6. [d \in Cores |-> nt[d].executed] = [d \in Cores |-> tms[d].executed]
    BY <1>2
  <2>7. Ran(nt, c)
    BY <2>1, <2>3, <2>4, <2>5, <2>6 DEF Ran
  <2>8. b.slice <= MAX_SLICE_LENGTH + c * Overshoot
    <3>1. c \in Int /\ Overshoot \in Int /\ MAX_SLICE_LENGTH \in Int
      BY <1>1, CoreFacts, Bounds
    <3>2. c * Overshoot \in Int
      BY <3>1
    <3>3. a.slice \in Int /\ b.slice \in Int
      BY <1>3, TimerFields
    <3> QED BY <1>5, <2>1, <3>1, <3>2, <3>3
  <2>9. RunInv(nt, current, loop)
    BY <1>5, <1>8, <1>9, <2>1, <2>7, <2>8 DEF RunInv, c
  <2> QED BY <1>2, <1>7, <1>9, <1>10, <2>9 DEF Runs, c, nt
<1>11. CASE loop.phase = "solo" /\ SoloInv(tms, current, loop)
  <2>1. SoloTicks(nt, c) = SoloTicks(tms, c)
    BY <1>1, <1>2 DEF SoloTicks
  <2>2. /\ InStep(SoloTicks(tms, c))
        /\ \A d \in Cores : SoloTicks(tms, c)[c] <= SoloTicks(tms, c)[d]
        /\ \E g \in Cores : a.executed + a.slice <= SoloTicks(tms, c)[g]
        /\ NumCores <= 2 => current = c /\ a.ts = <<>>
    BY <1>11 DEF SoloInv, c, a
  <2>3. \E g \in Cores : b.executed + b.slice <= SoloTicks(nt, c)[g]
    <3>1. PICK g \in Cores : a.executed + a.slice <= SoloTicks(tms, c)[g]
      BY <2>2
    <3>2. SoloTicks(tms, c) \in [Cores -> Int]
      BY <1>1, <1>3, <1>9, TicksFields, TimerFields DEF SoloTicks
    <3>3. /\ SoloTicks(tms, c)[g] \in Int /\ a.slice \in Int /\ b.slice \in Int
          /\ a.executed \in Int
      BY <1>3, <3>2, TimerFields
    <3>4. b.executed + b.slice <= SoloTicks(tms, c)[g]
      BY <1>5, <3>1, <3>3
    <3> QED BY <2>1, <3>4
  <2>4. NumCores <= 2 => current = c /\ b.ts = <<>>
    BY <1>5, <2>2
  <2>5. SoloInv(nt, current, loop)
    BY <1>7, <1>8, <1>9, <2>1, <2>2, <2>3, <2>4 DEF SoloInv, c
  <2> QED BY <1>2, <1>7, <1>9, <1>11, <2>5 DEF Runs, c, nt
<1> QED BY <1>10, <1>11 DEF Runs

LEMMA IdleStep ==
    ASSUME Inv, Idle
    PROVE  Established(timer)
<1> DEFINE c == loop.core
           nt == [timer EXCEPT ![c].down = 0]
<1>1. /\ TimersOK(timer) /\ running \in Cores /\ current \in Cores /\ loop \in LoopRecord
      /\ c \in Cores
  BY DEF Inv, TypeOK, LoopRecord
<1>2. loop.phase \in {"run", "solo"} /\ timer[c].down = timer[c].slice
  BY DEF Idle
<1>3. StopRunning(nt)
  BY DEF Idle, TimerIdle
<1>4. Runs(timer)
  BY <1>2 DEF Inv, PhaseInv, Runs
<1>5. timer[c].slice > 0
  BY <1>1, <1>4, RunningSlice DEF Runs
<1>6. timer[c].slice \in Int /\ timer[c].slice - 0 >= 1
  <2>1. timer[c].slice \in Int
    BY <1>1, TimerFields DEF TimersOK
  <2> HIDE DEF c
  <2> QED BY <1>5, <2>1
<1>7. 0 <= timer[c].down /\ 0 >= -Overshoot
  <2>1. Overshoot \in Nat
    BY Bounds
  <2> HIDE DEF c
  <2> QED BY <1>2, <1>6, <2>1
<1>8. /\ TimersOK(nt) /\ Runs(nt) /\ nt[c].slice = timer[c].slice /\ nt[c].down = 0
      /\ \A d \in Cores : GetTicks(nt[d]) >= GetTicks(timer[d])
  BY <1>1, <1>4, <1>7, RanOn
<1> HIDE DEF nt
<1>9. nt[c].slice - nt[c].down >= 1
  BY <1>6, <1>8
<1>10. Established(nt)
  BY <1>1, <1>3, <1>8, <1>9, RunStops, SoloStops DEF Runs
<1>11. \A d \in Cores : GetTicks(timer'[d]) \in Int /\ GetTicks(nt[d]) \in Int
                        /\ GetTicks(timer[d]) \in Int
  BY <1>1, <1>8, <1>10, TicksFields DEF Established
<1>12. \A d \in Cores : GetTicks(timer'[d]) >= GetTicks(nt[d])
  BY <1>10 DEF Established
<1>13. \A d \in Cores : GetTicks(timer'[d]) >= GetTicks(timer[d])
  BY <1>8, <1>11, <1>12
<1> QED BY <1>10, <1>13 DEF Established

LEMMA ExecuteStep ==
    ASSUME Inv, NEW n \in Nat, n >= 1, Execute(n)
    PROVE  Established(timer)
<1> DEFINE c == loop.core
           m == timer[c].down - n
           ran == [timer EXCEPT ![c].down = m]
<1>1. /\ TimersOK(timer) /\ running \in Cores /\ current \in Cores /\ loop \in LoopRecord
      /\ c \in Cores
  BY DEF Inv, TypeOK, LoopRecord
<1>2. loop.phase \in {"run", "solo"} /\ n <= timer[c].down + Overshoot
  BY DEF Execute
<1>3. PICK eff \in Effects(ran, current, Delays) :
         \/ StopRunning(eff[1])
         \/ /\ timer' = eff[1]
            /\ UNCHANGED <<current, running, loop>>
  BY DEF Execute
<1>4. Runs(timer)
  BY <1>2 DEF Inv, PhaseInv, Runs
<1>5. /\ timer[c].slice \in Int /\ timer[c].down \in Int
      /\ timer[c].down <= timer[c].slice
  BY <1>1, TimerFields DEF TimersOK, TimerInv
<1>6. m \in Int /\ m <= timer[c].down /\ m >= -Overshoot /\ timer[c].slice - m >= 1
  <2>1. Overshoot \in Nat
    BY Bounds
  <2> HIDE DEF c
  <2> QED BY <1>2, <1>5, <2>1
<1> HIDE DEF m
<1>7. /\ TimersOK(ran) /\ Runs(ran) /\ ran[c].slice = timer[c].slice /\ ran[c].down = m
      /\ \A d \in Cores : GetTicks(ran[d]) >= GetTicks(timer[d])
  BY <1>1, <1>4, <1>6, RanOn
<1> HIDE DEF ran
<1>8. ran[c].slice - ran[c].down >= 1
  BY <1>6, <1>7
<1> DEFINE nt == eff[1]
<1>9. /\ TimersOK(nt) /\ Runs(nt) /\ nt[c].slice - nt[c].down >= 1
      /\ \A d \in Cores : GetTicks(nt[d]) = GetTicks(ran[d])
  BY <1>1, <1>3, <1>7, <1>8, RunEffects
<1>10. StopRunning(nt) \/ (timer' = nt /\ UNCHANGED <<current, running, loop>>)
  BY <1>3
<1> HIDE DEF nt
<1>11. \A d \in Cores : GetTicks(nt[d]) >= GetTicks(timer[d])
  BY <1>7, <1>9
<1>12. \A d \in Cores : GetTicks(nt[d]) \in Int /\ GetTicks(timer[d]) \in Int
  BY <1>1, <1>9, TicksFields
<1>13. CASE StopRunning(nt)
  <2>1. Established(nt)
    BY <1>1, <1>9, <1>13, RunStops, SoloStops DEF Runs
  <2>2. \A d \in Cores : GetTicks(timer'[d]) \in Int
    BY <2>1, TicksFields DEF Established
  <2>3. \A d \in Cores : GetTicks(timer'[d]) >= GetTicks(nt[d])
    BY <2>1 DEF Established
  <2>4. \A d \in Cores : GetTicks(timer'[d]) >= GetTicks(timer[d])
    BY <1>11, <1>12, <2>2, <2>3
  <2> QED BY <2>1, <2>4 DEF Established
<1>14. CASE timer' = nt /\ UNCHANGED <<current, running, loop>>
  <2>1. PhaseInv(nt, current, loop)
    BY <1>9 DEF Runs, PhaseInv
  <2> QED BY <1>1, <1>9, <1>11, <1>14, <2>1 DEF Established
<1> QED BY <1>10, <1>13, <1>14

-----------------------------------------------------------------------------
(* The loop ends: ticks are counted from the slowest core's on.            *)

Shift(q, b) == [i \in DOMAIN q |-> [q[i] EXCEPT !.time = @ - b]]

LEMMA ShiftedQueue ==
    ASSUME NEW q \in Seq(EventRecord), NEW b \in Int
    PROVE  /\ Shift(q, b) \in Seq(EventRecord)
           /\ \A ev \in ToSet(Shift(q, b)) : \E old \in ToSet(q) :
                 ev.time = old.time - b /\ (ev.own <=> old.own)
<1> DEFINE e(i) == [q[i] EXCEPT !.time = @ - b]
<1>1. Len(q) \in Nat /\ DOMAIN q = 1 .. Len(q) /\ \A i \in 1 .. Len(q) : q[i] \in EventRecord
  OBVIOUS
<1>2. ASSUME NEW i \in 1 .. Len(q)
      PROVE  e(i) \in EventRecord /\ e(i).time = q[i].time - b /\ (e(i).own <=> q[i].own)
  BY <1>1 DEF EventRecord
<1>3. Shift(q, b) = [i \in 1 .. Len(q) |-> e(i)]
  BY <1>1 DEF Shift
<1> HIDE DEF e
<1>4. [i \in 1 .. Len(q) |-> e(i)] \in Seq(EventRecord)
  BY <1>1, <1>2
<1>5. ASSUME NEW ev \in ToSet(Shift(q, b))
      PROVE  \E old \in ToSet(q) : ev.time = old.time - b /\ (ev.own <=> old.own)
  <2>1. PICK i \in 1 .. Len(q) : ev = e(i)
    BY <1>1, <1>3 DEF ToSet
  <2>2. q[i] \in ToSet(q)
    BY <1>1 DEF ToSet
  <2> QED BY <1>2, <2>1, <2>2
<1> QED BY <1>3, <1>4, <1>5

Shifted(tm, b) == [tm EXCEPT !.executed = @ - b, !.queue = Shift(@, b), !.ts = Shift(@, b)]

LEMMA ShiftedFields ==
    ASSUME NEW tm \in Timer, NEW b
    PROVE  Shifted(tm, b)
             = [queue |-> Shift(tm.queue, b), ts |-> Shift(tm.ts, b), sane |-> tm.sane,
                executed |-> tm.executed - b, slice |-> tm.slice, down |-> tm.down]
<1>1. tm = [queue |-> tm.queue, ts |-> tm.ts, sane |-> tm.sane,
            executed |-> tm.executed, slice |-> tm.slice, down |-> tm.down]
  BY DEF Timer
<1> DEFINE x == [tm EXCEPT !.executed = @ - b]
<1>2. x = [queue |-> tm.queue, ts |-> tm.ts, sane |-> tm.sane,
           executed |-> tm.executed - b, slice |-> tm.slice, down |-> tm.down]
  BY <1>1
<1> HIDE DEF x
<1> DEFINE y == [x EXCEPT !.queue = Shift(@, b)]
<1>3. y = [queue |-> Shift(tm.queue, b), ts |-> tm.ts, sane |-> tm.sane,
           executed |-> tm.executed - b, slice |-> tm.slice, down |-> tm.down]
  BY <1>2
<1> HIDE DEF y
<1>4. [y EXCEPT !.ts = Shift(@, b)]
        = [queue |-> Shift(tm.queue, b), ts |-> Shift(tm.ts, b), sane |-> tm.sane,
           executed |-> tm.executed - b, slice |-> tm.slice, down |-> tm.down]
  BY <1>3
<1> QED BY <1>4 DEF Shifted, x, y

LEMMA ShiftedInv ==
    ASSUME NEW tm \in Timer, TimerInv(tm), NEW b \in Int, b <= tm.executed
    PROVE  /\ Shifted(tm, b) \in Timer /\ TimerInv(Shifted(tm, b))
           /\ GetTicks(Shifted(tm, b)) = GetTicks(tm) - b
<1> DEFINE nt == Shifted(tm, b)
<1>1. /\ tm.queue \in Seq(EventRecord) /\ tm.ts \in Seq(EventRecord) /\ tm.sane \in BOOLEAN
      /\ tm.executed \in Nat /\ tm.slice \in Int /\ tm.down \in Int /\ GetTicks(tm) \in Int
  BY TimerFields, TicksType
<1>2. /\ nt.queue = Shift(tm.queue, b) /\ nt.ts = Shift(tm.ts, b) /\ nt.sane = tm.sane
      /\ nt.executed = tm.executed - b /\ nt.slice = tm.slice /\ nt.down = tm.down
  BY ShiftedFields
<1>3. tm.executed - b \in Nat
  BY <1>1
<1>4. nt \in Timer
  <2>1. Shift(tm.queue, b) \in Seq(EventRecord) /\ Shift(tm.ts, b) \in Seq(EventRecord)
    BY <1>1, ShiftedQueue
  <2>2. [queue |-> Shift(tm.queue, b), ts |-> Shift(tm.ts, b), sane |-> tm.sane,
         executed |-> tm.executed - b, slice |-> tm.slice, down |-> tm.down] \in Timer
    BY <1>1, <1>3, <2>1 DEF Timer
  <2> QED BY <2>2, ShiftedFields
<1> HIDE DEF nt
<1>5. nt.sane <=> tm.sane
  BY <1>2, Zenon
<1>q. /\ \A ev \in ToSet(nt.queue) : \E old \in ToSet(tm.queue) :
            ev.time = old.time - b /\ (ev.own <=> old.own)
      /\ \A ev \in ToSet(nt.ts) : \E old \in ToSet(tm.ts) :
            ev.time = old.time - b /\ (ev.own <=> old.own)
  <2>1. nt.queue = Shift(tm.queue, b) /\ nt.ts = Shift(tm.ts, b)
    BY <1>2
  <2>2. tm.queue \in Seq(EventRecord) /\ tm.ts \in Seq(EventRecord) /\ b \in Int
    BY <1>1
  <2>3. \A ev \in ToSet(Shift(tm.queue, b)) : \E old \in ToSet(tm.queue) :
           ev.time = old.time - b /\ (ev.own <=> old.own)
    BY <2>2, ShiftedQueue
  <2>4. \A ev \in ToSet(Shift(tm.ts, b)) : \E old \in ToSet(tm.ts) :
           ev.time = old.time - b /\ (ev.own <=> old.own)
    BY <2>2, ShiftedQueue
  <2> QED BY <2>1, <2>3, <2>4, Zenon
<1>n. /\ nt.executed = tm.executed - b /\ nt.slice = tm.slice /\ nt.down = tm.down
      /\ tm.executed \in Int /\ tm.slice \in Int /\ tm.down \in Int /\ GetTicks(tm) \in Int
  BY <1>1, <1>2
<1>6. GetTicks(nt) = GetTicks(tm) - b
  <2>1. CASE tm.sane
    <3>1. GetTicks(nt) = nt.executed + 0 /\ GetTicks(tm) = tm.executed + 0
      BY <1>5, <2>1, Zenon DEF GetTicks
    <3> QED BY <1>n, <3>1
  <2>2. CASE ~tm.sane
    <3>1. /\ GetTicks(nt) = nt.executed + (nt.slice - nt.down)
          /\ GetTicks(tm) = tm.executed + (tm.slice - tm.down)
      BY <1>5, <2>2, Zenon DEF GetTicks
    <3> QED BY <1>n, <3>1
  <2> QED BY <2>1, <2>2
<1>7. ASSUME NEW ev \in ToSet(nt.queue)
      PROVE  \E old \in ToSet(tm.queue) :
                /\ ev.time = old.time - b /\ Lateness(ev) = Lateness(old) /\ old.time \in Int
  <2>1. PICK old \in ToSet(tm.queue) : ev.time = old.time - b /\ (ev.own <=> old.own)
    BY <1>q, Zenon
  <2>2. Lateness(ev) = Lateness(old)
    BY <2>1, Zenon DEF Lateness
  <2>3. old.time \in Int
    BY <1>1, ToSetType, EventFields
  <2> QED BY <2>1, <2>2, <2>3
<1>8. nt.sane => \A ev \in ToSet(nt.queue) : nt.executed - ev.time <= Lateness(ev)
  <2> SUFFICES ASSUME nt.sane, NEW ev \in ToSet(nt.queue)
               PROVE  nt.executed - ev.time <= Lateness(ev)
    OBVIOUS
  <2>1. PICK old \in ToSet(tm.queue) :
           ev.time = old.time - b /\ Lateness(ev) = Lateness(old) /\ old.time \in Int
    BY <1>7
  <2>2. tm.executed - old.time <= Lateness(old)
    BY <1>5, <2>1, Zenon DEF TimerInv
  <2>3. Lateness(old) \in Nat
    BY LatenessBound
  <2> QED BY <1>n, <2>1, <2>2, <2>3
<1>9. ~nt.sane => \A ev \in ToSet(nt.queue) : nt.executed + nt.slice <= ev.time
  <2> SUFFICES ASSUME ~nt.sane, NEW ev \in ToSet(nt.queue)
               PROVE  nt.executed + nt.slice <= ev.time
    OBVIOUS
  <2>1. PICK old \in ToSet(tm.queue) : ev.time = old.time - b /\ old.time \in Int
    BY <1>7
  <2>2. tm.executed + tm.slice <= old.time
    BY <1>5, <2>1, Zenon DEF TimerInv
  <2> QED BY <1>n, <2>1, <2>2
<1>10. ASSUME NEW ev \in ToSet(nt.ts)
       PROVE  ~ev.own /\ ev.time >= nt.executed /\ GetTicks(nt) - ev.time <= LongestWait
  <2>1. PICK old \in ToSet(tm.ts) : ev.time = old.time - b /\ (ev.own <=> old.own)
    BY <1>q, Zenon
  <2>2. ~old.own /\ old.time >= tm.executed /\ GetTicks(tm) - old.time <= LongestWait
    BY <2>1 DEF TimerInv
  <2>3. old.time \in Int /\ LongestWait \in Int
    BY <1>1, ToSetType, EventFields, Bounds
  <2>4. ~ev.own
    BY <2>1, <2>2, Zenon
  <2>5. ev.time >= nt.executed /\ GetTicks(nt) - ev.time <= LongestWait
    BY <1>n, <1>6, <2>1, <2>2, <2>3
  <2> QED BY <2>4, <2>5
<1>11. nt.down <= nt.slice
  BY <1>2 DEF TimerInv
<1>12. nt.sane => nt.slice = nt.down
  BY <1>2, <1>5 DEF TimerInv
<1>13. ~nt.sane => nt.down >= -Overshoot
  BY <1>2, <1>5 DEF TimerInv
<1>14. TimerInv(nt)
  BY <1>8, <1>9, <1>10, <1>11, <1>12, <1>13 DEF TimerInv
<1> QED BY <1>4, <1>6, <1>14 DEF nt

LEMMA LoopEndStep ==
    ASSUME Inv, LoopEnd
    PROVE  /\ TimersOK(timer') /\ current' \in Cores /\ running' \in Cores
           /\ loop' \in LoopRecord /\ PhaseInv(timer', current', loop')
<1> DEFINE ex == [c \in Cores |-> timer[c].executed]
           S == {timer[c].executed : c \in Cores}
           b == Min(S)
           nt == [c \in Cores |-> Shifted(timer[c], b)]
<1>1. /\ TimersOK(timer) /\ running \in Cores /\ current \in Cores /\ loop \in LoopRecord
      /\ loop.phase = "end" /\ InStep(Ticks(timer))
  BY DEF Inv, TypeOK, LoopRecord, PhaseInv, LoopEnd
<1>2. timer' = nt
  BY Zenon DEF LoopEnd, Rebase, Shifted, Shift
<1>3. \A c \in Cores : timer[c] \in Timer /\ TimerInv(timer[c]) /\ timer[c].executed \in Int
  BY <1>1, TimerFields DEF TimersOK
<1>4. b \in Int /\ \A c \in Cores : b <= timer[c].executed
  <2>1. ex \in [0 .. NumCores - 1 -> Int] /\ NumCores \in Nat \ {0}
    BY <1>3, TimingAssumption DEF Cores
  <2> HIDE DEF ex
  <2>2. PICK g \in 0 .. NumCores - 1 : \A d \in 0 .. NumCores - 1 : ex[g] <= ex[d]
    BY <2>1, LeastValue
  <2>3. \A d \in Cores : timer[g].executed <= timer[d].executed
    BY <2>2 DEF ex, Cores
  <2>4. g \in Cores
    BY <2>2 DEF Cores
  <2>5. S \in SUBSET Int /\ timer[g].executed \in S /\ \A y \in S : timer[g].executed <= y
    BY <1>3, <2>3, <2>4
  <2> HIDE DEF S
  <2>6. b = timer[g].executed
    BY <2>5, MinIs
  <2> QED BY <1>3, <2>3, <2>4, <2>6
<1> HIDE DEF b
<1>5. \A c \in Cores : /\ nt[c] \in Timer /\ TimerInv(nt[c])
                       /\ GetTicks(nt[c]) = GetTicks(timer[c]) - b
  BY <1>3, <1>4, ShiftedInv
<1>6. nt \in [Cores -> Timer]
  BY <1>5
<1> HIDE DEF nt
<1>7. TimersOK(nt)
  BY <1>5, <1>6 DEF TimersOK
<1>8. InStep(Ticks(nt))
  <2> DEFINE tk == Ticks(timer)
  <2>1. tk \in [Cores -> Int] /\ \A c \in Cores : tk[c] = GetTicks(timer[c])
    BY <1>1, TicksFields
  <2>2. Ticks(nt) = [c \in Cores |-> tk[c] - b]
    BY <1>5, <2>1 DEF Ticks
  <2> HIDE DEF tk
  <2>3. InStep(tk)
    BY <1>1 DEF tk
  <2> QED BY <1>4, <2>1, <2>2, <2>3, InStepShift
<1>9. loop' \in LoopRecord /\ loop'.phase = "top"
  BY <1>1 DEF LoopEnd, LoopRecord
<1>10. PhaseInv(nt, current', loop')
  BY <1>8, <1>9 DEF PhaseInv
<1>11. current' \in Cores /\ running' \in Cores
  BY <1>1 DEF LoopEnd
<1> QED BY <1>2, <1>7, <1>9, <1>10, <1>11

-----------------------------------------------------------------------------
(* The theorems.                                                           *)

LEMMA InitInv == Init => Inv
<1> SUFFICES ASSUME Init
             PROVE  Inv
  OBVIOUS
<1>1. timer = [c \in Cores |-> NewTimer] /\ current = 0 /\ running = 0 /\ assertOK = TRUE
      /\ loop = Loop("top", 0, NoDelay, NoCore, 0, 0)
  BY DEF Init
<1>2. NewTimer \in Timer
  <2>1. MAX_SLICE_LENGTH \in Int /\ <<>> \in Seq(EventRecord)
    BY Bounds
  <2> QED BY <2>1 DEF NewTimer, Timer
<1>3. /\ NewTimer.queue = <<>> /\ NewTimer.ts = <<>> /\ NewTimer.sane = TRUE
      /\ NewTimer.slice = MAX_SLICE_LENGTH /\ NewTimer.down = MAX_SLICE_LENGTH
      /\ NewTimer.executed = 0
  BY DEF NewTimer
<1>4. TimerInv(NewTimer)
  <2>1. NewTimer.down <= NewTimer.slice
    BY <1>3, Bounds
  <2>2. NewTimer.sane /\ NewTimer.slice = NewTimer.down
    BY <1>3
  <2>3. ToSet(NewTimer.queue) = {} /\ ToSet(NewTimer.ts) = {}
    BY <1>3, ToSetEmpty
  <2> QED BY <2>1, <2>2, <2>3 DEF TimerInv
<1>5. TimersOK(timer)
  BY <1>1, <1>2, <1>4 DEF TimersOK
<1>6. loop \in LoopRecord /\ loop.phase = "top"
  BY <1>1, CoreFacts DEF Loop, LoopRecord
<1>7. InStep(Ticks(timer))
  <2>1. Ticks(timer) \in [Cores -> Int]
    BY <1>5, TicksFields
  <2>2. \A c \in Cores : Ticks(timer)[c] = GetTicks(NewTimer)
    BY <1>1 DEF Ticks
  <2>3. GetTicks(NewTimer) = 0
    BY <1>3 DEF GetTicks
  <2>4. \A c, d \in Cores : Ticks(timer)[c] - Ticks(timer)[d] <= LongestRun + min_delay
    BY <2>2, <2>3, Bounds
  <2> QED BY <2>1, <2>4, InStepOfSpread
<1>8. TypeOK
  BY <1>1, <1>5, <1>6, CoreFacts DEF TypeOK, TimersOK, LoopRecord
<1>9. PhaseInv(timer, current, loop)
  BY <1>6, <1>7 DEF PhaseInv
<1> QED BY <1>1, <1>5, <1>8, <1>9 DEF Inv

\* Every step preserves the invariant, and only the one that counts the ticks anew
\* sets a clock back.
LEMMA NextInv ==
    ASSUME Inv, [Next]_vars
    PROVE  /\ Inv'
           /\ loop.phase # "end" => \A c \in Cores : GetTicks(timer'[c]) >= GetTicks(timer[c])
<1>1. ASSUME Established(timer), assertOK'
      PROVE  /\ Inv'
             /\ \A c \in Cores : GetTicks(timer'[c]) >= GetTicks(timer[c])
  <2>1. TypeOK'
    BY <1>1 DEF Established, TypeOK, TimersOK, LoopRecord
  <2> QED BY <1>1, <2>1 DEF Established, Inv
<1>2. assertOK
  BY DEF Inv
<1>3. CASE LoopTop
  BY <1>1, <1>2, <1>3, LoopTopStep DEF LoopTop
<1>4. CASE Fire
  BY <1>1, <1>2, <1>4, FireStep DEF Fire
<1>5. CASE LagDone
  BY <1>1, <1>2, <1>5, LagDoneStep DEF LagDone
<1>6. CASE AdvanceDone
  BY <1>1, <1>6, AdvanceDoneStep
<1>7. CASE Idle
  BY <1>1, <1>2, <1>7, IdleStep DEF Idle
<1>8. CASE LoopEnd
  <2>1. /\ TimersOK(timer') /\ current' \in Cores /\ running' \in Cores
        /\ loop' \in LoopRecord /\ PhaseInv(timer', current', loop')
    BY <1>8, LoopEndStep
  <2>2. assertOK' /\ loop.phase = "end"
    BY <1>2, <1>8 DEF LoopEnd
  <2>3. TypeOK'
    BY <2>1, <2>2 DEF TypeOK, TimersOK, LoopRecord
  <2> QED BY <2>1, <2>2, <2>3 DEF Inv
<1>9. ASSUME NEW n \in 1 .. MAX_SLICE_LENGTH + Overshoot, Execute(n)
      PROVE  /\ Inv'
             /\ \A c \in Cores : GetTicks(timer'[c]) >= GetTicks(timer[c])
  <2>1. n \in Nat /\ n >= 1
    BY Bounds
  <2>2. assertOK'
    BY <1>2, <1>9 DEF Execute
  <2> QED BY <1>1, <1>9, <2>1, <2>2, ExecuteStep
<1>10. CASE UNCHANGED vars
  <2>1. timer' = timer /\ current' = current /\ running' = running /\ loop' = loop
        /\ assertOK' = assertOK
    BY <1>10 DEF vars
  <2>2. TypeOK' /\ TimersOK(timer)' /\ PhaseInv(timer, current, loop)'
    BY <2>1 DEF Inv, TypeOK
  <2>3. \A c \in Cores : GetTicks(timer'[c]) >= GetTicks(timer[c])
    BY <2>1, TicksFields DEF Inv
  <2> QED BY <1>2, <2>1, <2>2, <2>3 DEF Inv
<1> QED BY <1>3, <1>4, <1>5, <1>6, <1>7, <1>8, <1>9, <1>10 DEF Next

\* The invariant holds of every state.
THEOREM Invariance == Spec => []Inv
<1>1. Init => Inv
  BY InitInv
<1>2. Inv /\ [Next]_vars => Inv'
  BY NextInv
<1> QED BY <1>1, <1>2, PTL DEF Spec

\* The timers and RunLoop's variables keep their types.
THEOREM TypeCorrect == Spec => []TypeOK
<1>1. Inv => TypeOK
  BY DEF Inv
<1> QED BY <1>1, Invariance, PTL

\* The ASSERT of GetMaxSliceLength holds, and no core is given an empty slice.
THEOREM NoEmptySlice == Spec => []SlicesNotEmpty
<1>1. Inv => SlicesNotEmpty
  BY DEF Inv, SlicesNotEmpty, PhaseInv, RunInv, SoloInv
<1> QED BY <1>1, Invariance, PTL

\* No core runs past an event of its own by more than it may overrun a slice, or
\* past one of another core's by more than LongestWait.
THEOREM Timeliness == Spec => []EventsAreTimely
<1>1. ASSUME Inv, NEW c \in Cores
      PROVE  /\ \A i \in DOMAIN timer[c].queue :
                   LET ev == timer[c].queue[i]
                   IN GetTicks(timer[c]) - ev.time <= IF ev.own THEN Overshoot ELSE LongestWait
             /\ \A i \in DOMAIN timer[c].ts :
                   GetTicks(timer[c]) - timer[c].ts[i].time <= LongestWait
  <2> DEFINE tm == timer[c]
  <2>1. tm \in Timer /\ TimerInv(tm) /\ GetTicks(tm) \in Int
    BY <1>1, TicksFields DEF Inv
  <2> HIDE DEF tm
  <2>2. /\ tm.queue \in Seq(EventRecord) /\ tm.ts \in Seq(EventRecord)
        /\ tm.executed \in Int /\ tm.slice \in Int /\ tm.down \in Int
    BY <2>1, TimerFields
  <2>3. ASSUME NEW ev \in ToSet(tm.queue)
        PROVE  GetTicks(tm) - ev.time <= Lateness(ev)
    <3>1. ev.time \in Int
      BY <2>2, ToSetType, EventFields
    <3>2. CASE tm.sane
      <4>1. tm.executed - ev.time <= Lateness(ev) /\ GetTicks(tm) = tm.executed + 0
        BY <2>1, <3>2, Zenon DEF TimerInv, GetTicks
      <4> QED BY <2>2, <4>1
    <3>3. CASE ~tm.sane
      <4>1. tm.executed + tm.slice <= ev.time /\ tm.down >= -Overshoot
        BY <2>1, <3>3, Zenon DEF TimerInv
      <4>2. GetTicks(tm) = tm.executed + (tm.slice - tm.down)
        BY <3>3, Zenon DEF GetTicks
      <4>3. Overshoot <= Lateness(ev) /\ Lateness(ev) \in Int /\ Overshoot \in Int
        BY LatenessBound, Bounds
      <4> QED BY <2>2, <3>1, <4>1, <4>2, <4>3
    <3> QED BY <3>2, <3>3
  <2>4. \A i \in DOMAIN tm.queue : tm.queue[i] \in ToSet(tm.queue)
    BY <2>2, ToSetType
  <2>5. \A i \in DOMAIN tm.ts : GetTicks(tm) - tm.ts[i].time <= LongestWait
    BY <2>1, <2>2, ToSetType DEF TimerInv
  <2>6. \A i \in DOMAIN tm.queue : GetTicks(tm) - tm.queue[i].time <= Lateness(tm.queue[i])
    BY <2>3, <2>4
  <2> QED BY <2>5, <2>6 DEF Lateness, tm
<1>2. Inv => EventsAreTimely
  BY <1>1 DEF EventsAreTimely
<1> QED BY <1>2, Invariance, PTL

\* The cores' clocks stay within MaxLag of each other.
THEOREM Lockstep == Spec => []CoresInStep
<1>1. ASSUME Inv
      PROVE  CoresInStep
  <2> DEFINE tk == Ticks(timer)
  <2>1. /\ TimersOK(timer) /\ tk \in [Cores -> Int] /\ loop \in LoopRecord
        /\ \A c \in Cores : tk[c] = GetTicks(timer[c])
    BY <1>1, TicksFields DEF Inv, TypeOK, LoopRecord
  <2>2. InStep(tk) => CoresInStep
    BY <2>1, InStepSpread DEF CoresInStep
  <2>3. CASE loop.phase \in {"top", "end", "lag"}
    BY <1>1, <2>2, <2>3 DEF Inv, PhaseInv, LagInv, LagFacts
  <2>4. CASE loop.phase = "advance"
    <3>1. \A c, d \in Cores : tk[c] - tk[d] <= min_delay
      BY <1>1, <2>4 DEF Inv, PhaseInv, AdvanceInv, Close
    <3>2. \A c, d \in Cores : tk[c] - tk[d] <= LongestRun + min_delay
      <4>1. \A c \in Cores : tk[c] \in Int
        BY <2>1
      <4> HIDE DEF tk
      <4> QED BY <3>1, <4>1, Bounds
    <3> QED BY <2>1, <2>2, <3>2, InStepOfSpread
  <2>5. CASE loop.phase = "run"
    BY <1>1, <2>1, <2>2, <2>5, RunInStep DEF Inv, PhaseInv
  <2>6. CASE loop.phase = "solo"
    BY <1>1, <2>1, <2>2, <2>6, SoloInStep DEF Inv, PhaseInv
  <2>7. loop.phase \in {"top", "lag", "advance", "run", "solo", "end"}
    BY <2>1 DEF LoopRecord
  <2> QED BY <2>3, <2>4, <2>5, <2>6, <2>7
<1> QED BY <1>1, Invariance, PTL

\* No core's clock ever goes back.
THEOREM ClocksMonotone == Spec => TicksNeverGoBack
<1>1. Inv /\ [Next]_vars =>
         [loop.phase # "end" => \A c \in Cores : GetTicks(timer'[c]) >= GetTicks(timer[c])]_vars
  BY NextInv
<1> QED BY <1>1, Invariance, PTL DEF Spec, TicksNeverGoBack

=============================================================================
