----------------------- MODULE VkPresentWindowProofs -----------------------
(***************************************************************************)
(* Proofs about VkScheduler.tla and VkPresentWindow.tla, for every set of  *)
(* frames, chunk size, growth of the command pool and number of calls, and *)
(* for every combination of timeline semaphores, worker and present        *)
(* thread.                                                                 *)
(***************************************************************************)
EXTENDS VkPresentWindow, CommonLemmas, FiniteSetTheorems, SequenceTheorems

-----------------------------------------------------------------------------
(* The inductive invariant.                                                *)

MaybeFrame == Frames \cup {NoFrame}

Command == [op : {"rec", "submit", "present"}, tick : Nat, frame : MaybeFrame]

Chunk == [cmds : Seq(Command), counted : BOOLEAN, submit : BOOLEAN]

Work == [tick : Nat, cmdbuf : Nat, signal : MaybeFrame, wait : MaybeFrame]

OpName == {"dispatch", "dispatchSubmit", "acquire", "endRendering", "render", "submit",
           "commit", "finish", "getFrame", "fence", "waitPresent", "waitSwapchain",
           "waitQueue", "waitExecution", "copy", "begin"}

Ops == (OpName \X MaybeFrame) \cup ({"semWait"} \X Nat) \cup ({"record"} \X Seq(Command))

MainType == [todo : Seq(Ops), frame : MaybeFrame, calls : Nat]
WorkerType == [pc : {"check", "execute"}, work : Chunk]
PoolType == [ticks : Seq(Nat), hint : Nat, cur : Nat]
GpuType == [queue : Seq(Work), counter : Nat, ready : SUBSET Frames, done : SUBSET Frames]

TypeOK ==
    /\ mode \in [timeline : BOOLEAN, worker : BOOLEAN, present : BOOLEAN]
    /\ main \in MainType
    /\ rp \in [rendering : BOOLEAN, count : Nat]
    /\ chunk \in Chunk /\ workQueue \in Seq(Chunk) /\ reserve \in Nat
    /\ worker \in WorkerType
    /\ sem \in [tick : Nat, gpuTick : Nat]
    /\ pool \in PoolType /\ pool.cur \in DOMAIN pool.ticks
    /\ fences \in Seq(Nat)
    /\ gpu \in GpuType
    /\ freeQueue \in Seq(MaybeFrame) /\ freeLock \in BOOLEAN /\ presentQueue \in Seq(MaybeFrame)
    /\ presenter \in [pc : {"check", "copy", "free"}, frame : MaybeFrame]

\* The ticks of the submissions in a list of commands, and the frames that are
\* submitted and presented.
TicksOf(cmds) == {cmds[i].tick : i \in {j \in DOMAIN cmds : cmds[j].op = "submit"}}
Submits(cmds) == {cmds[i].frame : i \in {j \in DOMAIN cmds : cmds[j].op = "submit"}} \ {NoFrame}
Presents(cmds) == {cmds[i].frame : i \in {j \in DOMAIN cmds : cmds[j].op = "present"}}

\* The recorded commands, oldest first: the worker's, those of the queue, the chunk's.
Pipe(ws, q, cs) ==
    [i \in 1 .. Len(q) + 2 |->
        IF i = 1 THEN ws ELSE IF i = Len(q) + 2 THEN cs ELSE q[i - 1].cmds]

\* An op that records a submission, and the ops that may come before it.
Submitting(op) == op[1] = "record" /\ TicksOf(op[2]) # {}
Quiet(op) ==
    \/ op[1] = "record" /\ TicksOf(op[2]) = {}
    \/ op[1] \in {"endRendering", "dispatch", "acquire"}

\* A new command buffer is asked for right after a submission is recorded.
TodoOK(td, w) ==
    \A i \in DOMAIN td : Submitting(td[i]) =>
        /\ Len(td[i][2]) = 1
        /\ i < Len(td) /\ td[i + 1][1] = IF w THEN "dispatchSubmit" ELSE "commit"

\* At most one submission is under way in the emulation thread's call, with the
\* last tick taken, unless ending a render pass submits as well.
TodoTicks(td, n) ==
    \A i \in DOMAIN td : Submitting(td[i]) =>
        /\ td[i][2][1].tick = n - 1
        /\ \A j \in 1 .. i - 1 : Quiet(td[j])

\* The tick of the next submission that is recorded.
NextTick(td, n) == IF \E i \in DOMAIN td : Submitting(td[i]) THEN n - 1 ELSE n

SubmitLast(cmds) == \A i \in DOMAIN cmds : cmds[i].op = "submit" => i = Len(cmds)

\* The ticks increase along the way of the commands, from those that are over or
\* with the GPU to the next one that is recorded.
PipeOK(S, G, n) ==
    /\ \A g \in G : g < n
    /\ \A a \in DOMAIN S : \A v \in TicksOf(S[a]) : v < n /\ \A g \in G : g < v
    /\ \A a, b \in DOMAIN S : a < b =>
          \A v \in TicksOf(S[a]), x \in TicksOf(S[b]) : v < x

Begun(g) == {g.counter} \cup ({g.queue[i].tick : i \in DOMAIN g.queue} \ {0})

\* The chunks' flags, and who is idle.
ChunksOK(w, ch, q, wk) ==
    /\ Len(ch.cmds) <= ChunkSize /\ SubmitLast(ch.cmds)
    /\ ch.cmds # <<>> => ch.counted
    /\ \A i \in DOMAIN q : SubmitLast(q[i].cmds) /\ (TicksOf(q[i].cmds) # {} => q[i].submit)
    /\ SubmitLast(wk.work.cmds)
    /\ TicksOf(wk.work.cmds) # {} => wk.work.submit
    /\ wk.pc = "check" => wk.work.cmds = <<>>
    /\ ~w => ch.cmds = <<>> /\ q = <<>> /\ wk.pc = "check"

\* A chunk that submits is dispatched at once.
ChunkReady == TicksOf(chunk.cmds) # {} => At("dispatchSubmit")

Shape ==
    /\ TypeOK
    /\ TodoOK(main.todo, mode.worker)
    /\ ChunksOK(mode.worker, chunk, workQueue, worker)
    /\ ChunkReady

Stages == Pipe(worker.work.cmds, workQueue, chunk.cmds)

Coming == NextTick(main.todo, sem.tick)

TicksOK ==
    /\ sem.tick > 0 /\ sem.gpuTick <= gpu.counter
    /\ TodoTicks(main.todo, sem.tick)
    /\ PipeOK(Stages, Begun(gpu), Coming)

GpuOK(q, counter, fs) ==
    /\ \A i \in DOMAIN q : q[i].tick > 0 => counter < q[i].tick
    /\ \A i, j \in DOMAIN q : i < j /\ q[i].tick > 0 /\ q[j].tick > 0 => q[i].tick < q[j].tick
    /\ \A k \in DOMAIN fs : fs[k] <= counter \/ \E i \in DOMAIN q : q[i].tick > 0 /\ q[i].tick = fs[k]

\* The submission has been made and the command buffer not yet replaced.
Used ==
    IF mode.worker
    THEN worker.pc = "execute" /\ worker.work.submit /\ TicksOf(worker.work.cmds) = {}
    ELSE At("commit")

Upcoming == {Coming} \cup UNION {TicksOf(Stages[a]) : a \in DOMAIN Stages}

\* A command buffer that the GPU still uses is stamped with a tick that the GPU has
\* not reached, and is not the one that is recorded, unless that is to be replaced.
InUse(s, p, u) ==
    s.tick > 0 => /\ s.cmdbuf \in DOMAIN p.ticks /\ s.tick <= p.ticks[s.cmdbuf]
                  /\ u \/ s.cmdbuf # p.cur

PoolOK ==
    /\ \A i \in DOMAIN gpu.queue : InUse(gpu.queue[i], pool, Used)
    /\ Used \/ \E v \in Upcoming : v <= pool.ticks[pool.cur]

Inv == Shape /\ TicksOK /\ GpuOK(gpu.queue, gpu.counter, fences) /\ PoolOK

-----------------------------------------------------------------------------
(* Lists of commands.                                                      *)

LEMMA CommandFields ==
    /\ \A c \in Command : c.op \in {"rec", "submit", "present"} /\ c.tick \in Nat
                          /\ c.frame \in MaybeFrame
    /\ Draw \in Command
    /\ \A v \in Nat, f \in MaybeFrame : SubmitCommand(v, f) \in Command
    /\ \A f \in MaybeFrame : PresentCommand(f) \in Command
  BY DEF Command, Draw, SubmitCommand, PresentCommand, MaybeFrame

LEMMA ListNone ==
    /\ TicksOf(<<>>) = {} /\ Submits(<<>>) = {} /\ Presents(<<>>) = {} /\ SubmitLast(<<>>)
  BY DEF TicksOf, Submits, Presents, SubmitLast

\* A list without submissions, by ticks and by frames.
LEMMA ListTypes ==
    ASSUME NEW s \in Seq(Command)
    PROVE  /\ TicksOf(s) \subseteq Nat /\ Submits(s) \subseteq Frames /\ Presents(s) \subseteq MaybeFrame
           /\ TicksOf(s) = {} <=> \A i \in DOMAIN s : s[i].op # "submit"
           /\ TicksOf(s) = {} => Submits(s) = {}
<1>1. \A i \in DOMAIN s : s[i].tick \in Nat /\ s[i].frame \in MaybeFrame
  <2>1. \A i \in DOMAIN s : s[i] \in Command
    OBVIOUS
  <2> QED BY <2>1, CommandFields
<1>2. TicksOf(s) \subseteq Nat
  BY <1>1 DEF TicksOf
<1>3. Submits(s) \subseteq Frames /\ Presents(s) \subseteq MaybeFrame
  BY <1>1 DEF Submits, Presents, MaybeFrame
<1>4. TicksOf(s) = {} <=> \A i \in DOMAIN s : s[i].op # "submit"
  BY DEF TicksOf
<1>5. TicksOf(s) = {} => Submits(s) = {}
  BY <1>4 DEF Submits
<1> QED BY <1>2, <1>3, <1>4, <1>5

LEMMA ListConcat ==
    ASSUME NEW s \in Seq(Command), NEW t \in Seq(Command)
    PROVE  /\ s \o t \in Seq(Command)
           /\ TicksOf(s \o t) = TicksOf(s) \cup TicksOf(t)
           /\ Submits(s \o t) = Submits(s) \cup Submits(t)
           /\ Presents(s \o t) = Presents(s) \cup Presents(t)
<1> DEFINE r == s \o t
<1>1. DOMAIN s = 1 .. Len(s) /\ Len(s) \in Nat /\ DOMAIN t = 1 .. Len(t) /\ Len(t) \in Nat
  OBVIOUS
<1>2. r \in Seq(Command) /\ DOMAIN r = 1 .. Len(s) + Len(t)
  OBVIOUS
<1>3. \A j \in 1 .. Len(s) : r[j] = s[j]
  OBVIOUS
<1>4. \A j \in 1 .. Len(t) : r[Len(s) + j] = t[j]
  OBVIOUS
<1> HIDE DEF r
<1>5. \A j \in DOMAIN r : (j \in DOMAIN s /\ r[j] = s[j])
                          \/ (j - Len(s) \in DOMAIN t /\ r[j] = t[j - Len(s)])
  <2> TAKE j \in DOMAIN r
  <2>1. CASE j <= Len(s)
    BY <2>1, <1>1, <1>2, <1>3
  <2>2. CASE j > Len(s)
    <3>1. j - Len(s) \in 1 .. Len(t) /\ j = Len(s) + (j - Len(s))
      BY <2>2, <1>1, <1>2
    <3> QED BY <3>1, <1>1, <1>4
  <2> QED BY <2>1, <2>2, <1>1, <1>2
<1>6. \A j \in DOMAIN s : j \in DOMAIN r /\ r[j] = s[j]
  BY <1>1, <1>2, <1>3
<1>7. \A j \in DOMAIN t : Len(s) + j \in DOMAIN r /\ r[Len(s) + j] = t[j]
  BY <1>1, <1>2, <1>4
<1>8. TicksOf(r) = TicksOf(s) \cup TicksOf(t)
  BY <1>5, <1>6, <1>7 DEF TicksOf
<1>9. Submits(r) = Submits(s) \cup Submits(t)
  BY <1>5, <1>6, <1>7 DEF Submits
<1>10. Presents(r) = Presents(s) \cup Presents(t)
  BY <1>5, <1>6, <1>7 DEF Presents
<1> QED BY <1>2, <1>8, <1>9, <1>10 DEF r

LEMMA ListTail ==
    ASSUME NEW s \in Seq(Command), s # <<>>
    PROVE  /\ Tail(s) \in Seq(Command) /\ Head(s) \in Command /\ Head(s) = s[1]
           /\ \A i \in DOMAIN Tail(s) : i + 1 \in DOMAIN s /\ Tail(s)[i] = s[i + 1]
           /\ TicksOf(Tail(s)) \subseteq TicksOf(s)
           /\ Submits(Tail(s)) \subseteq Submits(s)
           /\ Presents(Tail(s)) \subseteq Presents(s)
           /\ SubmitLast(s) => SubmitLast(Tail(s))
           /\ SubmitLast(s) /\ s[1].op = "submit" => Tail(s) = <<>>
<1> DEFINE r == Tail(s)
<1>1. DOMAIN s = 1 .. Len(s) /\ Len(s) \in Nat \ {0}
  OBVIOUS
<1>2. r \in Seq(Command) /\ Len(r) = Len(s) - 1 /\ DOMAIN r = 1 .. Len(s) - 1
      /\ Head(s) = s[1] /\ s[1] \in Command
  BY <1>1
<1>3. \A i \in DOMAIN r : i + 1 \in DOMAIN s /\ r[i] = s[i + 1]
  BY <1>1, <1>2
<1> HIDE DEF r
<1>4. TicksOf(r) \subseteq TicksOf(s) /\ Submits(r) \subseteq Submits(s) /\ Presents(r) \subseteq Presents(s)
  BY <1>3 DEF TicksOf, Submits, Presents
<1>5. SubmitLast(s) => SubmitLast(r)
  BY <1>1, <1>2, <1>3 DEF SubmitLast
<1>6. SubmitLast(s) /\ s[1].op = "submit" => r = <<>>
  <2> SUFFICES ASSUME SubmitLast(s), s[1].op = "submit" PROVE r = <<>>
    OBVIOUS
  <2>1. Len(s) = 1
    BY <1>1 DEF SubmitLast
  <2> QED BY <2>1, <1>2
<1> QED BY <1>2, <1>3, <1>4, <1>5, <1>6 DEF r

SeenStep(p, i, x) == IF p[i].op = "rec" THEN x ELSE Append(x, p[i])

\* x lists the commands of p[1 .. i] that others can see: at h.
SeenAt(p, i, x, h) ==
    /\ h \in [1 .. Len(x) -> 1 .. i]
    /\ \A k, l \in 1 .. Len(x) : k < l => h[k] < h[l]
    /\ \A k \in 1 .. Len(x) : x[k] = p[h[k]]
    /\ \A j \in 1 .. i : p[j].op # "rec" => \E k \in 1 .. Len(x) : h[k] = j

SeenHolds(p, i, x) == x \in Seq(Command) /\ \E h : SeenAt(p, i, x, h)

Seen == INSTANCE Loop WITH Step <- SeenStep, Holds <- SeenHolds

\* Visible leaves the submissions and the presents, in their order.
LEMMA VisibleIs ==
    ASSUME NEW s \in Seq(Command)
    PROVE  SeenHolds(s, Len(s), Visible(s))
<1> DEFINE f == Seen!Run(s, <<>>, Len(s))
<1>1. Visible(s) = f[Len(s)]
  BY DEF Visible, Seen!Run, SeenStep
<1>2. Len(s) \in Nat /\ DOMAIN s = 1 .. Len(s)
  OBVIOUS
<1>3. SeenHolds(s, 0, <<>>)
  <2>1. SeenAt(s, 0, <<>>, <<>>)
    BY DEF SeenAt
  <2> QED BY <2>1 DEF SeenHolds
<1>4. ASSUME NEW i \in 1 .. Len(s), NEW x, SeenHolds(s, i - 1, x)
      PROVE  SeenHolds(s, i, SeenStep(s, i, x))
  <2>1. x \in Seq(Command) /\ s[i] \in Command /\ Len(x) \in Nat
    BY <1>2, <1>4 DEF SeenHolds
  <2>2. PICK h : SeenAt(s, i - 1, x, h)
    BY <1>4 DEF SeenHolds
  <2>3. CASE s[i].op = "rec"
    <3>1. SeenAt(s, i, x, h)
      BY <2>1, <2>2, <2>3, <1>2 DEF SeenAt
    <3> QED BY <2>1, <2>3, <3>1 DEF SeenHolds, SeenStep
  <2>4. CASE s[i].op # "rec"
    <3> DEFINE y == Append(x, s[i])
               g == [k \in 1 .. Len(x) + 1 |-> IF k = Len(x) + 1 THEN i ELSE h[k]]
    <3>1. y \in Seq(Command) /\ Len(y) = Len(x) + 1 /\ y[Len(x) + 1] = s[i]
          /\ \A k \in 1 .. Len(x) : y[k] = x[k]
      BY <2>1
    <3>2. g[Len(x) + 1] = i /\ \A k \in 1 .. Len(x) : g[k] = h[k]
      BY <2>1
    <3>3. g \in [1 .. Len(x) + 1 -> 1 .. i]
      BY <2>1, <2>2 DEF SeenAt
    <3> HIDE DEF y, g
    <3>4. \A k, l \in 1 .. Len(y) : k < l => g[k] < g[l]
      <4> TAKE k, l \in 1 .. Len(y)
      <4> HAVE k < l
      <4>1. k \in 1 .. Len(x) /\ g[k] = h[k] /\ h[k] \in 1 .. i - 1
        BY <2>1, <2>2, <3>1, <3>2 DEF SeenAt
      <4>2. CASE l = Len(x) + 1
        BY <4>1, <4>2, <3>2
      <4>3. CASE l # Len(x) + 1
        <5>1. l \in 1 .. Len(x) /\ g[l] = h[l]
          BY <4>3, <2>1, <3>1, <3>2
        <5> QED BY <4>1, <5>1, <2>2 DEF SeenAt
      <4> QED BY <4>2, <4>3
    <3>5. \A k \in 1 .. Len(y) : y[k] = s[g[k]]
      <4> TAKE k \in 1 .. Len(y)
      <4>1. CASE k = Len(x) + 1
        BY <4>1, <3>1, <3>2
      <4>2. CASE k # Len(x) + 1
        <5>1. k \in 1 .. Len(x)
          BY <4>2, <3>1, <2>1
        <5> QED BY <5>1, <3>1, <3>2, <2>2 DEF SeenAt
      <4> QED BY <4>1, <4>2
    <3>6. \A j \in 1 .. i : s[j].op # "rec" => \E k \in 1 .. Len(y) : g[k] = j
      <4> TAKE j \in 1 .. i
      <4> HAVE s[j].op # "rec"
      <4>1. CASE j = i
        BY <4>1, <3>1, <3>2, <2>1
      <4>2. CASE j # i
        <5>1. PICK k \in 1 .. Len(x) : h[k] = j
          BY <4>2, <2>2 DEF SeenAt
        <5> QED BY <5>1, <3>1, <3>2, <2>1
      <4> QED BY <4>1, <4>2
    <3>7. SeenAt(s, i, y, g)
      BY <3>1, <3>3, <3>4, <3>5, <3>6 DEF SeenAt
    <3>8. SeenStep(s, i, x) = y
      BY <2>4 DEF SeenStep, y
    <3> QED BY <3>1, <3>7, <3>8 DEF SeenHolds
  <2> QED BY <2>3, <2>4
<1>5. \A i \in 0 .. Len(s) : SeenHolds(s, i, f[i])
  <2> HIDE DEF f
  <2>1. \A i \in 1 .. Len(s) : \A x : SeenHolds(s, i - 1, x) => SeenHolds(s, i, SeenStep(s, i, x))
    BY <1>4
  <2> QED BY <1>2, <1>3, <2>1, Seen!LoopInvariant DEF f
<1> QED BY <1>1, <1>2, <1>5

LEMMA VisibleKeeps ==
    ASSUME NEW s \in Seq(Command)
    PROVE  /\ Visible(s) \in Seq(Command)
           /\ TicksOf(Visible(s)) = TicksOf(s)
           /\ Submits(Visible(s)) = Submits(s)
           /\ Presents(Visible(s)) = Presents(s)
           /\ SubmitLast(s) => SubmitLast(Visible(s))
<1> DEFINE x == Visible(s)
<1>1. x \in Seq(Command) /\ \E h : SeenAt(s, Len(s), x, h)
  BY VisibleIs DEF SeenHolds
<1> HIDE DEF x
<1>2. PICK h : SeenAt(s, Len(s), x, h)
  BY <1>1
<1>3. DOMAIN s = 1 .. Len(s) /\ DOMAIN x = 1 .. Len(x) /\ Len(s) \in Nat /\ Len(x) \in Nat
  BY <1>1
<1>4. \A k \in DOMAIN x : h[k] \in DOMAIN s /\ x[k] = s[h[k]]
  BY <1>2, <1>3 DEF SeenAt
<1>5. \A j \in DOMAIN s : s[j].op # "rec" => \E k \in DOMAIN x : h[k] = j
  BY <1>2, <1>3 DEF SeenAt
<1>6. TicksOf(x) = TicksOf(s)
  BY <1>4, <1>5 DEF TicksOf
<1>7. Submits(x) = Submits(s)
  BY <1>4, <1>5 DEF Submits
<1>8. Presents(x) = Presents(s)
  BY <1>4, <1>5 DEF Presents
<1>9. ASSUME SubmitLast(s), NEW k \in DOMAIN x, x[k].op = "submit" PROVE k = Len(x)
  <2>1. h[k] = Len(s)
    BY <1>4, <1>9 DEF SubmitLast
  <2>2. ~(k < Len(x))
    <3> SUFFICES ASSUME k < Len(x) PROVE FALSE
      OBVIOUS
    <3>1. h[k] < h[Len(x)] /\ h[Len(x)] \in 1 .. Len(s)
      BY <1>2, <1>3 DEF SeenAt
    <3> QED BY <2>1, <3>1, <1>3
  <2> QED BY <2>2, <1>3
<1> QED BY <1>1, <1>6, <1>7, <1>8, <1>9 DEF SubmitLast, x

LEMMA ListSplit ==
    ASSUME NEW s \in Seq(Command), NEW k \in 0 .. Len(s)
    PROVE  /\ SubSeq(s, 1, k) \in Seq(Command) /\ Len(SubSeq(s, 1, k)) = k
           /\ SubSeq(s, k + 1, Len(s)) \in Seq(Command)
           /\ Len(SubSeq(s, k + 1, Len(s))) = Len(s) - k
           /\ SubSeq(s, 1, k) \o SubSeq(s, k + 1, Len(s)) = s
<1> DEFINE n == Len(s)
<1>1. DOMAIN s = 1 .. n
  OBVIOUS
<1>2. n \in Nat
  OBVIOUS
<1> HIDE DEF n
<1>3. k \in 0 .. n
  BY DEF n
<1>4. SubSeq(s, 1, k) \in Seq(Command) /\ Len(SubSeq(s, 1, k)) = k
  BY <1>1, <1>2, <1>3, SubSeqProperties
<1>5. /\ SubSeq(s, k + 1, n) \in Seq(Command)
      /\ Len(SubSeq(s, k + 1, n)) = IF k + 1 <= n THEN n - (k + 1) + 1 ELSE 0
  BY <1>1, <1>2, <1>3, SubSeqProperties
<1>6. SubSeq(s, 1, k) \o SubSeq(s, k + 1, n) = SubSeq(s, 1, n)
  <2>1. 1 \in 1 .. n + 1 /\ k \in 1 - 1 .. n /\ n \in k .. n
    BY <1>2, <1>3
  <2> QED BY <2>1, ConcatAdjacentSubSeq, Zenon DEF n
<1>7. SubSeq(s, 1, n) = s
  BY SubSeqFull DEF n
<1>8. (IF k + 1 <= n THEN n - (k + 1) + 1 ELSE 0) = n - k
  BY <1>2, <1>3
<1>9. SubSeq(s, 1, k) \o SubSeq(s, k + 1, n) = s
  BY ONLY <1>6, <1>7
<1>10. Len(SubSeq(s, k + 1, n)) = n - k
  BY ONLY <1>5, <1>8
<1> QED BY <1>4, <1>5, <1>9, <1>10 DEF n

LEMMA ListOne ==
    ASSUME NEW c \in Command
    PROVE  /\ <<c>> \in Seq(Command) /\ Len(<<c>>) = 1 /\ <<c>>[1] = c
           /\ c.op = "submit" => TicksOf(<<c>>) = {c.tick} /\ Submits(<<c>>) = {c.frame} \ {NoFrame}
           /\ c.op # "submit" => TicksOf(<<c>>) = {} /\ Submits(<<c>>) = {}
           /\ c.op = "present" => Presents(<<c>>) = {c.frame}
           /\ c.op # "present" => Presents(<<c>>) = {}
           /\ SubmitLast(<<c>>)
<1> DEFINE s == <<c>>
<1>1. s \in Seq(Command) /\ Len(s) = 1 /\ s[1] = c /\ DOMAIN s = {1}
  OBVIOUS
<1> HIDE DEF s
<1>2. \A i \in DOMAIN s : i = 1 /\ s[i] = c
  BY <1>1
<1>3. 1 \in DOMAIN s
  BY <1>1
<1>4. c.op = "submit" => TicksOf(s) = {c.tick} /\ Submits(s) = {c.frame} \ {NoFrame}
  BY <1>2, <1>3 DEF TicksOf, Submits
<1>5. c.op # "submit" => TicksOf(s) = {} /\ Submits(s) = {}
  BY <1>2 DEF TicksOf, Submits
<1>6. c.op = "present" => Presents(s) = {c.frame}
  BY <1>2, <1>3 DEF Presents
<1>7. c.op # "present" => Presents(s) = {}
  BY <1>2 DEF Presents
<1>8. SubmitLast(s)
  BY <1>1, <1>2 DEF SubmitLast
<1> QED BY <1>1, <1>4, <1>5, <1>6, <1>7, <1>8 DEF s

-----------------------------------------------------------------------------
(* The pipe.                                                               *)

LEMMA ChunkFields ==
    /\ \A c \in Chunk : c.cmds \in Seq(Command) /\ c.counted \in BOOLEAN /\ c.submit \in BOOLEAN
    /\ \A b \in BOOLEAN : NewChunk(b) \in Chunk /\ NewChunk(b).cmds = <<>>
                          /\ NewChunk(b).counted = b
    /\ \A c \in Chunk, b \in BOOLEAN :
          [c EXCEPT !.submit = b] \in Chunk /\ [c EXCEPT !.submit = b].cmds = c.cmds
          /\ [c EXCEPT !.submit = b].submit = b
    /\ \A c \in Chunk, s \in Seq(Command) :
          /\ [c EXCEPT !.cmds = s] \in Chunk /\ [c EXCEPT !.cmds = s].cmds = s
          /\ [c EXCEPT !.cmds = s].submit = c.submit
<1>1. \A c \in Chunk : c.cmds \in Seq(Command) /\ c.counted \in BOOLEAN /\ c.submit \in BOOLEAN
  BY DEF Chunk
<1>2. ASSUME NEW b \in BOOLEAN
      PROVE  NewChunk(b) \in Chunk /\ NewChunk(b).cmds = <<>> /\ NewChunk(b).counted = b
  <2>1. <<>> \in Seq(Command)
    OBVIOUS
  <2> QED BY <2>1 DEF Chunk, NewChunk
<1>3. ASSUME NEW c \in Chunk, NEW b \in BOOLEAN
      PROVE  [c EXCEPT !.submit = b] \in Chunk /\ [c EXCEPT !.submit = b].cmds = c.cmds
             /\ [c EXCEPT !.submit = b].submit = b
  BY Zenon DEF Chunk
<1>4. ASSUME NEW c \in Chunk, NEW s \in Seq(Command)
      PROVE  /\ [c EXCEPT !.cmds = s] \in Chunk /\ [c EXCEPT !.cmds = s].cmds = s
             /\ [c EXCEPT !.cmds = s].submit = c.submit
  BY Zenon DEF Chunk
<1> QED BY <1>1, <1>2, <1>3, <1>4

LEMMA PipeIs ==
    ASSUME NEW ws \in Seq(Command), NEW q \in Seq(Chunk), NEW cs \in Seq(Command)
    PROVE  /\ DOMAIN Pipe(ws, q, cs) = 1 .. Len(q) + 2 /\ Len(q) \in Nat
           /\ \A a \in 1 .. Len(q) + 2 : Pipe(ws, q, cs)[a] \in Seq(Command)
           /\ Pipe(ws, q, cs)[1] = ws /\ Pipe(ws, q, cs)[Len(q) + 2] = cs
           /\ \A i \in DOMAIN q : i + 1 \in 2 .. Len(q) + 1 /\ Pipe(ws, q, cs)[i + 1] = q[i].cmds
           /\ \A a \in 2 .. Len(q) + 1 : a - 1 \in DOMAIN q /\ Pipe(ws, q, cs)[a] = q[a - 1].cmds
<1>1. Len(q) \in Nat /\ DOMAIN q = 1 .. Len(q)
  OBVIOUS
<1>2. \A i \in DOMAIN q : q[i].cmds \in Seq(Command)
  <2>1. \A i \in DOMAIN q : q[i] \in Chunk
    OBVIOUS
  <2> QED BY <2>1, ChunkFields
<1>3. DOMAIN Pipe(ws, q, cs) = 1 .. Len(q) + 2
  BY DEF Pipe
<1>4. Pipe(ws, q, cs)[1] = ws /\ Pipe(ws, q, cs)[Len(q) + 2] = cs
  BY <1>1 DEF Pipe
<1>5. \A a \in 2 .. Len(q) + 1 : a - 1 \in DOMAIN q /\ Pipe(ws, q, cs)[a] = q[a - 1].cmds
  BY <1>1 DEF Pipe
<1>6. ASSUME NEW i \in DOMAIN q
      PROVE  i + 1 \in 2 .. Len(q) + 1 /\ Pipe(ws, q, cs)[i + 1] = q[i].cmds
  <2>1. i + 1 \in 2 .. Len(q) + 1 /\ (i + 1) - 1 = i
    BY <1>1
  <2> QED BY <2>1, <1>5
<1>7. ASSUME NEW a \in 1 .. Len(q) + 2 PROVE Pipe(ws, q, cs)[a] \in Seq(Command)
  <2>1. a = 1 \/ a = Len(q) + 2 \/ a \in 2 .. Len(q) + 1
    BY <1>1
  <2> QED BY <2>1, <1>2, <1>4, <1>5
<1> QED BY <1>1, <1>3, <1>4, <1>5, <1>6, <1>7

LEMMA PipeDispatch ==
    ASSUME NEW ws \in Seq(Command), NEW q \in Seq(Chunk), NEW c \in Chunk
    PROVE  /\ Append(q, c) \in Seq(Chunk) /\ Len(Append(q, c)) = Len(q) + 1
           /\ \A a \in 1 .. Len(q) + 2 : Pipe(ws, Append(q, c), <<>>)[a] = Pipe(ws, q, c.cmds)[a]
           /\ Pipe(ws, Append(q, c), <<>>)[Len(q) + 3] = <<>>
<1> DEFINE r == Append(q, c)
<1>1. Len(q) \in Nat /\ r \in Seq(Chunk) /\ Len(r) = Len(q) + 1 /\ r[Len(q) + 1] = c
      /\ \A i \in 1 .. Len(q) : r[i] = q[i]
  OBVIOUS
<1> HIDE DEF r
<1>2. ASSUME NEW a \in 1 .. Len(q) + 2 PROVE Pipe(ws, r, <<>>)[a] = Pipe(ws, q, c.cmds)[a]
  <2>1. CASE a = 1
    BY <2>1, <1>1 DEF Pipe
  <2>2. CASE a = Len(q) + 2
    <3>1. a - 1 = Len(q) + 1 /\ a # 1 /\ a # Len(r) + 2 /\ a \in 1 .. Len(r) + 2
      BY <2>2, <1>1
    <3>2. Pipe(ws, r, <<>>)[a] = r[a - 1].cmds
      BY <3>1 DEF Pipe
    <3>3. Pipe(ws, q, c.cmds)[a] = c.cmds
      BY <2>2, <3>1 DEF Pipe
    <3> QED BY <3>1, <3>2, <3>3, <1>1
  <2>3. CASE a # 1 /\ a # Len(q) + 2
    <3>1. a - 1 \in 1 .. Len(q) /\ a # Len(r) + 2 /\ a \in 1 .. Len(r) + 2
      BY <2>3, <1>1
    <3>2. Pipe(ws, r, <<>>)[a] = r[a - 1].cmds
      BY <2>3, <3>1 DEF Pipe
    <3>3. Pipe(ws, q, c.cmds)[a] = q[a - 1].cmds
      BY <2>3, <3>1 DEF Pipe
    <3> QED BY <3>1, <3>2, <3>3, <1>1
  <2> QED BY <2>1, <2>2, <2>3
<1>3. Pipe(ws, r, <<>>)[Len(q) + 3] = <<>>
  BY <1>1 DEF Pipe
<1> QED BY <1>1, <1>2, <1>3 DEF r

LEMMA PipePop ==
    ASSUME NEW ws \in Seq(Command), NEW q \in Seq(Chunk), q # <<>>, NEW cs \in Seq(Command),
           NEW vs \in Seq(Command)
    PROVE  /\ Tail(q) \in Seq(Chunk) /\ Len(Tail(q)) = Len(q) - 1 /\ Head(q) \in Chunk
           /\ Pipe(ws, q, cs)[2] = Head(q).cmds
           /\ Pipe(vs, Tail(q), cs)[1] = vs
           /\ \A a \in 2 .. Len(q) + 1 : Pipe(vs, Tail(q), cs)[a] = Pipe(ws, q, cs)[a + 1]
<1> DEFINE r == Tail(q)
<1>1. Len(q) \in Nat \ {0} /\ r \in Seq(Chunk) /\ Len(r) = Len(q) - 1 /\ Head(q) = q[1]
      /\ q[1] \in Chunk
  OBVIOUS
<1>2. \A i \in 1 .. Len(r) : r[i] = q[i + 1]
  BY <1>1
<1> HIDE DEF r
<1>3. Pipe(ws, q, cs)[2] = Head(q).cmds /\ Pipe(vs, r, cs)[1] = vs
  BY <1>1 DEF Pipe
<1>4. ASSUME NEW a \in 2 .. Len(q) + 1 PROVE Pipe(vs, r, cs)[a] = Pipe(ws, q, cs)[a + 1]
  <2>1. CASE a = Len(q) + 1
    BY <2>1, <1>1 DEF Pipe
  <2>2. CASE a # Len(q) + 1
    <3>1. a - 1 \in 1 .. Len(r) /\ a \in 1 .. Len(r) + 2 /\ a # 1 /\ a # Len(r) + 2
          /\ a + 1 \in 1 .. Len(q) + 2 /\ a + 1 # 1 /\ a + 1 # Len(q) + 2
          /\ (a + 1) - 1 = (a - 1) + 1
      BY <2>2, <1>1
    <3>2. Pipe(vs, r, cs)[a] = r[a - 1].cmds
      BY <3>1 DEF Pipe
    <3>3. Pipe(ws, q, cs)[a + 1] = q[(a + 1) - 1].cmds
      BY <3>1 DEF Pipe
    <3> QED BY <3>1, <3>2, <3>3, <1>2
  <2> QED BY <2>1, <2>2
<1> QED BY <1>1, <1>3, <1>4 DEF r

-----------------------------------------------------------------------------
(* The rest of the emulation thread's call.                                *)

LEMMA OpTypes ==
    /\ \A x \in OpName : Op(x) \in Ops /\ Op(x)[1] = x /\ Op(x)[2] = NoFrame
    /\ \A s \in Seq(Command) : RecordOp(s) \in Ops /\ RecordOp(s)[1] = "record" /\ RecordOp(s)[2] = s
    /\ \A f \in MaybeFrame : Submit(f) \in Ops /\ Submit(f)[1] = "submit" /\ Submit(f)[2] = f
    /\ \A v \in Nat : <<"semWait", v>> \in Ops
    /\ \A x \in Ops : x[1] = "record" => x[2] \in Seq(Command) /\ x = RecordOp(x[2])
    /\ \A x \in Ops : x[1] = "submit" => x[2] \in MaybeFrame
    /\ \A x \in Ops : x[1] = "semWait" => x[2] \in Nat
<1>1. \A x \in OpName : Op(x) \in Ops /\ Op(x)[1] = x /\ Op(x)[2] = NoFrame
  BY DEF Op, Ops, MaybeFrame
<1>2. \A s \in Seq(Command) : RecordOp(s) \in Ops /\ RecordOp(s)[1] = "record" /\ RecordOp(s)[2] = s
  BY DEF RecordOp, Ops
<1>3. "submit" \in OpName /\ "record" \notin OpName /\ "semWait" \notin OpName
  BY DEF OpName
<1>4. \A f \in MaybeFrame : Submit(f) \in Ops /\ Submit(f)[1] = "submit" /\ Submit(f)[2] = f
  BY <1>3 DEF Submit, Ops
<1>5. \A v \in Nat : <<"semWait", v>> \in Ops
  BY DEF Ops
<1>6. ASSUME NEW x \in Ops
      PROVE  \/ \E n \in OpName, f \in MaybeFrame : x = <<n, f>>
             \/ \E v \in Nat : x = <<"semWait", v>>
             \/ \E s \in Seq(Command) : x = <<"record", s>>
  BY DEF Ops
<1>7. ASSUME NEW x \in Ops
      PROVE  /\ x[1] = "record" => x[2] \in Seq(Command) /\ x = RecordOp(x[2])
             /\ x[1] = "submit" => x[2] \in MaybeFrame
             /\ x[1] = "semWait" => x[2] \in Nat
  <2>1. CASE \E n \in OpName, f \in MaybeFrame : x = <<n, f>>
    BY <2>1, <1>3
  <2>2. CASE \E v \in Nat : x = <<"semWait", v>>
    BY <2>2
  <2>3. CASE \E s \in Seq(Command) : x = <<"record", s>>
    BY <2>3 DEF RecordOp
  <2> QED BY <1>6, <2>1, <2>2, <2>3
<1> QED BY <1>1, <1>2, <1>4, <1>5, <1>7

\* The first op is replaced by ops.
LEMMA ThenIs ==
    ASSUME NEW td \in Seq(Ops), td # <<>>, NEW ops \in Seq(Ops)
    PROVE  /\ ops \o Tail(td) \in Seq(Ops)
           /\ Len(td) \in Nat \ {0} /\ Len(ops) \in Nat
           /\ DOMAIN td = 1 .. Len(td) /\ DOMAIN ops = 1 .. Len(ops)
           /\ Len(ops \o Tail(td)) = Len(ops) + Len(td) - 1
           /\ DOMAIN (ops \o Tail(td)) = 1 .. Len(ops) + Len(td) - 1
           /\ \A i \in 1 .. Len(ops) : (ops \o Tail(td))[i] = ops[i]
           /\ \A i \in 2 .. Len(td) : (ops \o Tail(td))[Len(ops) + i - 1] = td[i]
           /\ \A i \in 1 .. Len(ops) + Len(td) - 1 :
                 \/ i \in DOMAIN ops /\ (ops \o Tail(td))[i] = ops[i]
                 \/ /\ i - Len(ops) + 1 \in 2 .. Len(td) /\ i > Len(ops)
                    /\ (ops \o Tail(td))[i] = td[i - Len(ops) + 1]
<1> DEFINE n == Len(td)
           m == Len(ops)
           t == Tail(td)
           r == ops \o t
<1>1. n \in Nat \ {0} /\ m \in Nat /\ DOMAIN td = 1 .. n /\ DOMAIN ops = 1 .. m
  OBVIOUS
<1>2. t \in Seq(Ops) /\ Len(t) = n - 1
  OBVIOUS
<1>3. \A i \in 1 .. n - 1 : t[i] = td[i + 1]
  OBVIOUS
<1> HIDE DEF t
<1>4. r \in Seq(Ops) /\ Len(r) = m + (n - 1)
      /\ \A i \in 1 .. m + (n - 1) : r[i] = IF i <= m THEN ops[i] ELSE t[i - m]
  <2>1. /\ r \in Seq(Ops) /\ Len(r) = Len(ops) + Len(t)
        /\ \A i \in 1 .. Len(ops) + Len(t) : r[i] = IF i <= Len(ops) THEN ops[i] ELSE t[i - Len(ops)]
    BY <1>2, ConcatProperties, Zenon
  <2> HIDE DEF r, n
  <2> QED BY <2>1, <1>2, Zenon
<1> HIDE DEF n, m, r
<1>5. Len(r) = m + n - 1 /\ DOMAIN r = 1 .. m + n - 1 /\ m + (n - 1) = m + n - 1
  BY <1>1, <1>4
<1>6. ASSUME NEW i \in 1 .. m PROVE r[i] = ops[i]
  BY <1>1, <1>4
<1>7. ASSUME NEW i \in 2 .. n PROVE r[m + i - 1] = td[i]
  <2> DEFINE x == m + i - 1
  <2>1. x \in 1 .. m + (n - 1) /\ ~(x <= m) /\ x - m = i - 1
        /\ i - 1 \in 1 .. n - 1 /\ i - 1 + 1 = i
    BY <1>1
  <2> HIDE DEF x
  <2>2. r[x] = t[x - m]
    BY <2>1, <1>4, Zenon
  <2>3. t[i - 1] = td[i - 1 + 1]
    BY <2>1, <1>3, Zenon DEF n
  <2>4. r[x] = td[i]
    BY <2>1, <2>2, <2>3, Zenon
  <2> QED BY <2>4 DEF x
<1>8. ASSUME NEW i \in 1 .. m + n - 1
      PROVE  \/ i \in DOMAIN ops /\ r[i] = ops[i]
             \/ i - m + 1 \in 2 .. n /\ i > m /\ r[i] = td[i - m + 1]
  <2>1. CASE i <= m
    BY <2>1, <1>1, <1>6
  <2>2. CASE i > m
    <3>1. i - m + 1 \in 2 .. n /\ m + (i - m + 1) - 1 = i
      BY <2>2, <1>1
    <3>2. r[m + (i - m + 1) - 1] = td[i - m + 1]
      BY <3>1, <1>7
    <3>3. r[i] = td[i - m + 1]
      BY <3>1, <3>2
    <3> QED BY <2>2, <3>1, <3>3
  <2> QED BY <2>1, <2>2, <1>1
<1> QED BY <1>1, <1>4, <1>5, <1>6, <1>7, <1>8 DEF t, r, n, m

LEMMA TodoThen ==
    ASSUME NEW td \in Seq(Ops), td # <<>>, NEW ops \in Seq(Ops), NEW w \in BOOLEAN,
           TodoOK(td, w), TodoOK(ops, w)
    PROVE  TodoOK(ops \o Tail(td), w)
<1> DEFINE n == Len(td)
           m == Len(ops)
           r == ops \o Tail(td)
<1>1. /\ n \in Nat \ {0} /\ m \in Nat /\ DOMAIN td = 1 .. n /\ DOMAIN ops = 1 .. m
      /\ Len(r) = m + n - 1 /\ DOMAIN r = 1 .. m + n - 1
      /\ \A i \in 1 .. m : r[i] = ops[i]
      /\ \A i \in 2 .. n : r[m + i - 1] = td[i]
      /\ \A i \in 1 .. m + n - 1 :
            \/ i \in DOMAIN ops /\ r[i] = ops[i]
            \/ i - m + 1 \in 2 .. n /\ i > m /\ r[i] = td[i - m + 1]
  BY ThenIs
<1> HIDE DEF r
<1>2. SUFFICES ASSUME NEW i \in DOMAIN r, Submitting(r[i])
               PROVE  /\ Len(r[i][2]) = 1
                      /\ i < Len(r) /\ r[i + 1][1] = IF w THEN "dispatchSubmit" ELSE "commit"
  BY DEF TodoOK, r
<1>3. CASE i \in DOMAIN ops /\ r[i] = ops[i]
  <2>1. Len(ops[i][2]) = 1 /\ i < m /\ ops[i + 1][1] = IF w THEN "dispatchSubmit" ELSE "commit"
    BY <1>2, <1>3 DEF TodoOK
  <2>2. i + 1 \in 1 .. m /\ i < Len(r)
    BY <2>1, <1>1, <1>3
  <2> HIDE DEF m, n
  <2> QED BY <2>1, <2>2, <1>1, <1>3
<1>4. CASE i - m + 1 \in 2 .. n /\ i > m /\ r[i] = td[i - m + 1]
  <2> DEFINE j == i - m + 1
  <2>1. j \in 2 .. n /\ r[i] = td[j] /\ j \in DOMAIN td
    BY <1>1, <1>4
  <2>2. i = m + j - 1 /\ i \in Nat
    BY <1>1
  <2> HIDE DEF j
  <2>3. /\ Len(td[j][2]) = 1
        /\ j < Len(td) /\ td[j + 1][1] = IF w THEN "dispatchSubmit" ELSE "commit"
    BY <2>1, <1>2, Zenon DEF TodoOK
  <2>4. j < n
    BY <2>3
  <2> HIDE DEF m, n
  <2>5. j + 1 \in 2 .. n /\ m + (j + 1) - 1 = i + 1 /\ i < Len(r)
    BY <2>1, <2>2, <2>4, <1>1
  <2>6. r[m + (j + 1) - 1] = td[j + 1]
    BY <2>5, <1>1, Zenon
  <2>7. r[i + 1] = td[j + 1]
    BY <2>5, <2>6, Zenon
  <2> QED BY <2>1, <2>3, <2>5, <2>7, Zenon
<1> QED BY <1>1, <1>3, <1>4

\* The chunk is dispatched before the commands s, or what is left of them, are recorded.
LEMMA TodoSplit ==
    ASSUME NEW td \in Seq(Ops), td # <<>>, NEW w \in BOOLEAN, TodoOK(td, w),
           NEW s \in Seq(Command), td[1] = RecordOp(s) \/ TicksOf(s) = {}
    PROVE  TodoOK(<<Op("dispatch"), RecordOp(s)>> \o Tail(td), w)
<1> DEFINE ops == <<Op("dispatch"), RecordOp(s)>>
           n == Len(td)
           r == ops \o Tail(td)
<1>1. ops \in Seq(Ops) /\ Len(ops) = 2 /\ ops[1] = Op("dispatch") /\ ops[2] = RecordOp(s)
      /\ DOMAIN ops = 1 .. 2
  BY OpTypes DEF OpName
<1> HIDE DEF ops
<1>2. CASE TicksOf(s) = {}
  <2>1. TodoOK(ops, w)
    <3>1. ~Submitting(ops[1]) /\ ~Submitting(ops[2])
      BY <1>1, <1>2, OpTypes DEF Submitting, OpName
    <3>2. \A i \in DOMAIN ops : i = 1 \/ i = 2
      BY <1>1
    <3> QED BY <3>1, <3>2 DEF TodoOK
  <2> QED BY <1>1, <2>1, TodoThen DEF ops
<1>3. CASE td[1] = RecordOp(s)
  <2>1. /\ n \in Nat \ {0} /\ DOMAIN td = 1 .. n
        /\ Len(r) = 2 + n - 1 /\ DOMAIN r = 1 .. 2 + n - 1
        /\ r[1] = ops[1] /\ r[2] = ops[2]
        /\ \A i \in 2 .. n : r[2 + i - 1] = td[i]
    <3>1. /\ n \in Nat \ {0} /\ DOMAIN td = 1 .. n
          /\ Len(r) = Len(ops) + n - 1 /\ DOMAIN r = 1 .. Len(ops) + n - 1
          /\ \A i \in 1 .. Len(ops) : r[i] = ops[i]
          /\ \A i \in 2 .. n : r[Len(ops) + i - 1] = td[i]
      BY <1>1, ThenIs, Zenon
    <3>2. 1 \in 1 .. 2 /\ 2 \in 1 .. 2
      OBVIOUS
    <3> HIDE DEF r, n
    <3> QED BY <3>1, <3>2, <1>1, Zenon
  <2> HIDE DEF r, n
  <2>2. Len(r) = n + 1 /\ DOMAIN r = 1 .. n + 1 /\ \A i \in 1 .. n : r[i + 1] = td[i]
    <3>1. Len(r) = n + 1 /\ DOMAIN r = 1 .. n + 1
      BY <2>1
    <3>2. ASSUME NEW i \in 1 .. n PROVE r[i + 1] = td[i]
      <4>1. CASE i = 1
        BY <4>1, <2>1, <1>1, <1>3
      <4>2. CASE i # 1
        <5>1. i \in 2 .. n /\ 2 + i - 1 = i + 1
          BY <4>2, <2>1
        <5> QED BY <5>1, <2>1
      <4> QED BY <4>1, <4>2
    <3> QED BY <3>1, <3>2
  <2>3. ASSUME NEW i \in DOMAIN r, Submitting(r[i])
        PROVE  /\ Len(r[i][2]) = 1
               /\ i < Len(r) /\ r[i + 1][1] = IF w THEN "dispatchSubmit" ELSE "commit"
    <3>1. i # 1
      BY <2>1, <2>3, <1>1, OpTypes DEF Submitting, OpName
    <3>2. i - 1 \in 1 .. n /\ i - 1 + 1 = i
      BY <3>1, <2>1, <2>2
    <3>3. r[i] = td[i - 1]
      BY <3>2, <2>2
    <3>4. /\ Len(td[i - 1][2]) = 1 /\ i - 1 < n
          /\ td[i - 1 + 1][1] = IF w THEN "dispatchSubmit" ELSE "commit"
      BY <3>2, <3>3, <2>1, <2>3 DEF TodoOK, n
    <3>5. i \in 1 .. n /\ i < Len(r)
      BY <3>2, <3>4, <2>1, <2>2
    <3>6. r[i + 1] = td[i]
      BY <3>5, <2>2
    <3> QED BY <3>2, <3>3, <3>4, <3>5, <3>6
  <2>4. TodoOK(r, w)
    BY <2>3 DEF TodoOK
  <2> QED BY <2>4 DEF r, ops
<1> QED BY <1>2, <1>3

-----------------------------------------------------------------------------
(* The command pool and the GPU.                                           *)

\* A buffer that is not free is neither taken nor stamped.
Taken(ts, free, v, r) ==
    /\ r \in PoolType
    /\ r.cur \in DOMAIN r.ticks /\ r.ticks[r.cur] = v
    /\ \A i \in DOMAIN ts \ free : i \in DOMAIN r.ticks /\ r.ticks[i] = ts[i] /\ r.cur # i

LEMMA TakeIs ==
    ASSUME NEW p, NEW ts \in Seq(Nat), p.ticks = ts, p.hint \in Nat,
           NEW free \in SUBSET DOMAIN ts, NEW v \in Nat
    PROVE  Taken(ts, free, v, Take(p, free, v))
<1> DEFINE n == Len(ts)
           so == SearchOrder(p)
           found == {i \in DOMAIN so : so[i] \in free}
           at == IF found = {} THEN n + 1 ELSE so[Min(found)]
           us == IF found = {} THEN ts \o [i \in 1 .. GrowStep |-> 0] ELSE ts
<1>1. Take(p, free, v) = [ticks |-> [us EXCEPT ![at] = v], hint |-> at % Len(us), cur |-> at]
  BY DEF Take
<1>2. n \in Nat /\ DOMAIN ts = 1 .. n
  OBVIOUS
<1>3. DOMAIN so = 1 .. n
  BY DEF SearchOrder
<1> HIDE DEF so
<1>4. us \in Seq(Nat) /\ at \in 1 .. Len(us) /\ (\A i \in DOMAIN ts : i \in 1 .. Len(us) /\ us[i] = ts[i])
      /\ \A i \in DOMAIN ts \ free : at # i
  <2>1. CASE found = {}
    <3> DEFINE gs == [i \in 1 .. GrowStep |-> 0]
    <3>1. gs \in Seq(Nat) /\ Len(gs) = GrowStep /\ GrowStep \in Nat \ {0}
      BY SchedulerAssumption
    <3>2. us = ts \o gs /\ at = n + 1
      BY <2>1
    <3> HIDE DEF gs, us, at
    <3>3. us \in Seq(Nat) /\ Len(us) = n + GrowStep
      <4>1. us \in Seq(Nat) /\ Len(us) = Len(ts) + Len(gs)
        BY <3>1, <3>2, ConcatProperties, Zenon
      <4> QED BY <3>1, <4>1
    <3>4. \A i \in 1 .. n : us[i] = ts[i]
      BY <3>1, <3>2
    <3> HIDE DEF n
    <3>5. \A i \in 1 .. n : i \in 1 .. Len(us) /\ at # i
      BY <1>2, <3>1, <3>2, <3>3
    <3> QED BY <1>2, <3>1, <3>2, <3>3, <3>4, <3>5
  <2>2. CASE found # {}
    <3>1. found \in SUBSET Nat
      BY <1>3
    <3>2. Min(found) \in found
      BY <2>2, <3>1, MinOfNats
    <3>3. so[Min(found)] \in free
      BY <3>2
    <3>4. at \in free /\ us = ts
      BY <2>2, <3>3
    <3> HIDE DEF at, us
    <3> QED BY <3>4, <1>2
  <2> QED BY <2>1, <2>2
<1> HIDE DEF us, at
<1> DEFINE r == [us EXCEPT ![at] = v]
<1>5. r \in Seq(Nat) /\ DOMAIN r = 1 .. Len(us) /\ r[at] = v
      /\ \A i \in 1 .. Len(us) : i # at => r[i] = us[i]
  BY <1>4
<1>6. at \in Nat /\ at % Len(us) \in Nat
  <2>1. Len(us) \in Nat
    BY <1>4
  <2> QED BY <2>1, <1>4
<1> HIDE DEF r
<1>7. /\ Take(p, free, v).ticks = r /\ Take(p, free, v).cur = at
      /\ Take(p, free, v).hint = at % Len(us) /\ Take(p, free, v) \in PoolType
  BY <1>1, <1>5, <1>6 DEF PoolType, r
<1>8. ASSUME NEW i \in DOMAIN ts \ free
      PROVE  i \in DOMAIN r /\ r[i] = ts[i] /\ at # i
  BY <1>4, <1>5
<1> QED BY <1>4, <1>5, <1>7, <1>8 DEF Taken

\* A buffer whose tick the GPU has not passed is neither taken nor stamped.
Committed(p, g, v, r) ==
    /\ r \in PoolType
    /\ r.cur \in DOMAIN r.ticks /\ r.ticks[r.cur] = v
    /\ \A i \in DOMAIN p.ticks : g < p.ticks[i] =>
          i \in DOMAIN r.ticks /\ r.ticks[i] = p.ticks[i] /\ r.cur # i

LEMMA CommitIs ==
    ASSUME NEW p \in PoolType, NEW g \in Nat, NEW v \in Nat
    PROVE  Committed(p, g, v, Commit(p, g, v))
<1> DEFINE ts == p.ticks
           free == {i \in DOMAIN ts : g >= ts[i]}
<1>1. ts \in Seq(Nat) /\ p.hint \in Nat
  BY DEF PoolType
<1>2. free \in SUBSET DOMAIN ts
  BY Zenon
<1>3. Commit(p, g, v) = Take(p, free, v)
  BY DEF Commit
<1>4. \A i \in DOMAIN ts : g < ts[i] => i \in DOMAIN ts \ free
  BY <1>1
<1>0. p.ticks = ts
  OBVIOUS
<1> HIDE DEF free, ts
<1>5. Taken(ts, free, v, Take(p, free, v))
  BY <1>0, <1>1, <1>2, TakeIs, Zenon
<1> QED BY <1>0, <1>3, <1>4, <1>5, Zenon DEF Taken, Committed

LEMMA RefreshIs ==
    ASSUME NEW s \in [tick : Nat, gpuTick : Nat], gpu \in GpuType
    PROVE  /\ Refresh(s) \in [tick : Nat, gpuTick : Nat]
           /\ Refresh(s).tick = s.tick /\ Refresh(s).gpuTick >= s.gpuTick
           /\ s.gpuTick <= gpu.counter => Refresh(s).gpuTick <= gpu.counter
<1>1. s.tick \in Nat /\ s.gpuTick \in Nat /\ gpu.counter \in Nat
  BY DEF GpuType
<1> DEFINE m == Max({s.gpuTick, gpu.counter})
<1>2. m = IF s.gpuTick <= gpu.counter THEN gpu.counter ELSE s.gpuTick
  BY <1>1, MaxPair
<1> HIDE DEF m
<1>3. m \in Nat /\ m >= s.gpuTick /\ (s.gpuTick <= gpu.counter => m <= gpu.counter)
  BY <1>1, <1>2
<1>4. CASE mode.timeline
  <2>1. Refresh(s) = [s EXCEPT !.gpuTick = m]
    BY <1>4 DEF Refresh, m
  <2>2. [s EXCEPT !.gpuTick = m] \in [tick : Nat, gpuTick : Nat]
        /\ [s EXCEPT !.gpuTick = m].tick = s.tick /\ [s EXCEPT !.gpuTick = m].gpuTick = m
    BY <1>3
  <2> QED BY <2>1, <2>2, <1>3
<1>5. CASE ~mode.timeline
  BY <1>1, <1>5 DEF Refresh
<1> QED BY <1>4, <1>5

LEMMA SubmissionType ==
    ASSUME NEW c \in Command, pool \in PoolType
    PROVE  Submission(c) \in Work /\ Submission(c).tick = c.tick /\ Submission(c).signal = c.frame
           /\ Submission(c).wait = NoFrame /\ Submission(c).cmdbuf = pool.cur
  BY DEF Command, PoolType, Submission, Work, MaybeFrame

-----------------------------------------------------------------------------
(* The ops that the emulation thread's steps leave to do.                  *)

Calm(ops) == \A i \in DOMAIN ops : ~Submitting(ops[i])

LEMMA CalmIsOK == ASSUME NEW ops, NEW w, Calm(ops) PROVE TodoOK(ops, w)
  BY DEF Calm, TodoOK

LEMMA NameOps ==
    ASSUME NEW x \in OpName
    PROVE  Op(x) \in Ops /\ Op(x) = <<x, NoFrame>> /\ ~Submitting(Op(x))
<1>1. Op(x) \in Ops /\ Op(x)[1] = x /\ Op(x)[2] = NoFrame
  BY OpTypes
<1>2. x # "record"
  BY DEF OpName
<1> QED BY <1>1, <1>2 DEF Op, Submitting

LEMMA RecordOps ==
    ASSUME NEW s \in Seq(Command)
    PROVE  /\ RecordOp(s) \in Ops /\ RecordOp(s)[1] = "record" /\ RecordOp(s)[2] = s
           /\ Submitting(RecordOp(s)) <=> TicksOf(s) # {}
  BY OpTypes DEF Submitting

\* Lists of draws.
LEMMA DrawsAre ==
    ASSUME NEW s \in {<<>>, <<Draw>>, <<Draw>> \o <<>>, <<Draw>> \o <<Draw>>, <<>> \o <<>>, <<>> \o <<Draw>>}
    PROVE  s \in Seq(Command) /\ TicksOf(s) = {} /\ Submits(s) = {} /\ Presents(s) = {}
<1>1. <<>> \in Seq(Command) /\ <<Draw>> \in Seq(Command) /\ Draw \in Command /\ Draw.op = "rec"
  BY CommandFields DEF Draw
<1>2. TicksOf(<<Draw>>) = {} /\ Submits(<<Draw>>) = {} /\ Presents(<<Draw>>) = {}
  BY <1>1, ListOne
<1>3. ASSUME NEW a \in {<<>>, <<Draw>>}, NEW b \in {<<>>, <<Draw>>}
      PROVE  a \o b \in Seq(Command) /\ TicksOf(a \o b) = {} /\ Submits(a \o b) = {}
             /\ Presents(a \o b) = {}
  <2>1. a \in Seq(Command) /\ b \in Seq(Command)
    BY <1>1
  <2>2. /\ a \o b \in Seq(Command) /\ TicksOf(a \o b) = TicksOf(a) \cup TicksOf(b)
        /\ Submits(a \o b) = Submits(a) \cup Submits(b)
        /\ Presents(a \o b) = Presents(a) \cup Presents(b)
    BY <2>1, ListConcat, Zenon
  <2>3. \A x \in {<<>>, <<Draw>>} : TicksOf(x) = {} /\ Submits(x) = {} /\ Presents(x) = {}
    BY <1>2, ListNone
  <2>4. TicksOf(a) = {} /\ TicksOf(b) = {} /\ Submits(a) = {} /\ Submits(b) = {}
        /\ Presents(a) = {} /\ Presents(b) = {}
    BY <2>3
  <2> QED BY <2>2, <2>4, Zenon
<1> QED BY <1>1, <1>2, <1>3, ListNone, Zenon

LEMMA SubmitIs ==
    ASSUME NEW v \in Nat, NEW f \in MaybeFrame
    PROVE  LET s == <<SubmitCommand(v, f)>>
           IN /\ s \in Seq(Command) /\ TicksOf(s) = {v} /\ Submits(s) = {f} \ {NoFrame}
              /\ Presents(s) = {} /\ Len(s) = 1 /\ s[1].tick = v
<1>1. SubmitCommand(v, f) \in Command
  BY CommandFields
<1>2. SubmitCommand(v, f).op = "submit" /\ SubmitCommand(v, f).tick = v
      /\ SubmitCommand(v, f).frame = f
  BY DEF SubmitCommand
<1> QED BY <1>1, <1>2, ListOne

LEMMA PresentIs ==
    ASSUME NEW f \in MaybeFrame
    PROVE  LET s == <<PresentCommand(f)>>
           IN /\ s \in Seq(Command) /\ TicksOf(s) = {} /\ Submits(s) = {} /\ Presents(s) = {f}
              /\ Len(s) = 1 /\ s[1].op = "present" /\ s[1].frame = f
<1>1. PresentCommand(f) \in Command
  BY CommandFields
<1>2. PresentCommand(f).op = "present" /\ PresentCommand(f).frame = f
  BY DEF PresentCommand
<1> QED BY <1>1, <1>2, ListOne

\* What SubmitExecution(f, rest) leaves to do, with the tick v.
LEMMA SubmitOpsAre ==
    ASSUME NEW v \in Nat, NEW f \in MaybeFrame, rp.rendering \in BOOLEAN,
           NEW rest \in {<<>>, <<<<"semWait", v>>>>}
    PROVE  LET ops == SubmitOps(v, f) \o rest
               k == IF rp.rendering THEN 2 ELSE 1
           IN /\ ops \in Seq(Ops) /\ Len(ops) \in {k + 1, k + 2} /\ DOMAIN ops = 1 .. Len(ops)
              /\ rp.rendering => ops[1] = Op("endRendering")
              /\ ops[k] = RecordOp(<<SubmitCommand(v, f)>>)
              /\ ops[k + 1] = Op(IF mode.worker THEN "dispatchSubmit" ELSE "commit")
              /\ Len(ops) = k + 2 => ops[k + 2] = <<"semWait", v>>
<1> DEFINE a == RecordOp(<<SubmitCommand(v, f)>>)
           b == Op(IF mode.worker THEN "dispatchSubmit" ELSE "commit")
           e == Op("endRendering")
           z == <<"semWait", v>>
<1>1. a \in Ops /\ b \in Ops /\ e \in Ops /\ z \in Ops
  BY SubmitIs, RecordOps, OpTypes DEF OpName
<1>2. SubmitOps(v, f) = (IF rp.rendering THEN <<e>> ELSE <<>>) \o <<a, b>>
  BY DEF SubmitOps
<1> HIDE DEF a, b, e, z
<1> DEFINE pre == IF rp.rendering THEN <<e>> ELSE <<>>
           ab == <<a, b>>
           x == pre \o ab
           ops == x \o rest
<1>3. SubmitOps(v, f) \o rest = ops
  BY <1>2
<1>4. pre \in Seq(Ops) /\ (rp.rendering => Len(pre) = 1 /\ pre[1] = e) /\ (~rp.rendering => Len(pre) = 0)
  BY <1>1
<1>5. ab \in Seq(Ops) /\ Len(ab) = 2 /\ ab[1] = a /\ ab[2] = b
  BY <1>1
<1>6. rest \in Seq(Ops) /\ (Len(rest) = 0 \/ (Len(rest) = 1 /\ rest[1] = z))
  <2>1. CASE rest = <<>>
    BY <2>1
  <2>2. CASE rest = <<z>>
    BY <1>1, <2>2
  <2> QED BY <2>1, <2>2 DEF z
<1> HIDE DEF pre, ab, x, ops
<1>7. /\ x \in Seq(Ops) /\ Len(x) = Len(pre) + Len(ab)
      /\ \A i \in 1 .. Len(pre) + Len(ab) : x[i] = IF i <= Len(pre) THEN pre[i] ELSE ab[i - Len(pre)]
  BY <1>4, <1>5, ConcatProperties, Zenon DEF x
<1>8. /\ ops \in Seq(Ops) /\ Len(ops) = Len(x) + Len(rest)
      /\ \A i \in 1 .. Len(x) + Len(rest) : ops[i] = IF i <= Len(x) THEN x[i] ELSE rest[i - Len(x)]
  <2>1. rest \in Seq(Ops) /\ x \in Seq(Ops)
    BY <1>6, <1>7
  <2> QED BY <2>1, ConcatProperties, Zenon DEF ops
<1>9. DOMAIN ops = 1 .. Len(ops)
  BY <1>8
<1>10. CASE rp.rendering
  <2>0. Len(pre) = 1 /\ pre[1] = e
    BY <1>4, <1>10, Zenon
  <2>1. Len(x) = 3 /\ x[1] = e /\ x[2] = a /\ x[3] = b
    BY <2>0, <1>5, <1>7
  <2>2. ops[1] = e /\ ops[2] = a /\ ops[3] = b /\ Len(ops) = 3 + Len(rest)
    BY <2>1, <1>6, <1>8
  <2>3. Len(ops) \in {3, 4} /\ (Len(ops) = 4 => ops[4] = z)
    BY <2>1, <1>6, <1>8
  <2> QED BY <1>3, <1>8, <1>9, <1>10, <2>2, <2>3 DEF a, b, e, z
<1>11. CASE ~rp.rendering
  <2>0. Len(pre) = 0
    BY <1>4, <1>11, Zenon
  <2>1. Len(x) = 2 /\ x[1] = a /\ x[2] = b
    BY <2>0, <1>5, <1>7
  <2>2. ops[1] = a /\ ops[2] = b /\ Len(ops) = 2 + Len(rest)
    BY <2>1, <1>6, <1>8
  <2>3. Len(ops) \in {2, 3} /\ (Len(ops) = 3 => ops[3] = z)
    BY <2>1, <1>6, <1>8
  <2> QED BY <1>3, <1>8, <1>9, <1>11, <2>2, <2>3 DEF a, b, e, z
<1> QED BY <1>10, <1>11

\* What is left to do once there is a frame f.
LEMMA RenderOpsAre ==
    ASSUME NEW f \in MaybeFrame
    PROVE  LET ops == RenderOps(f)
           IN /\ ops \in Seq(Ops) /\ DOMAIN ops = 1 .. Len(ops)
              /\ ops[1] = Op("render") /\ ops[2] = Submit(f)
              /\ mode.present => Len(ops) = 3 /\ ops[3] = RecordOp(<<PresentCommand(f)>>)
              /\ ~mode.present /\ mode.worker =>
                    Len(ops) = 5 /\ ops[3] = Op("dispatch") /\ ops[4] = Op("waitQueue")
                    /\ ops[5] = Op("copy")
              /\ ~mode.present /\ ~mode.worker => Len(ops) = 3 /\ ops[3] = Op("copy")
<1> DEFINE a == Op("render")
           b == Submit(f)
           c == RecordOp(<<PresentCommand(f)>>)
           d == Op("dispatch")
           e == Op("waitQueue")
           z == Op("copy")
<1>1. a \in Ops /\ b \in Ops /\ c \in Ops /\ d \in Ops /\ e \in Ops /\ z \in Ops
  BY PresentIs, RecordOps, OpTypes DEF OpName
<1>2. RenderOps(f) = <<a, b>> \o (IF mode.present THEN <<c>>
                                   ELSE IF mode.worker THEN <<d, e, z>> ELSE <<z>>)
  BY DEF RenderOps, PresentOps
<1> HIDE DEF a, b, c, d, e, z
<1> DEFINE ab == <<a, b>>
           u == IF mode.present THEN <<c>> ELSE IF mode.worker THEN <<d, e, z>> ELSE <<z>>
           ops == ab \o u
<1>3. RenderOps(f) = ops
  BY <1>2
<1>4. ab \in Seq(Ops) /\ Len(ab) = 2 /\ ab[1] = a /\ ab[2] = b
  BY <1>1
<1>5. /\ u \in Seq(Ops)
      /\ mode.present => Len(u) = 1 /\ u[1] = c
      /\ ~mode.present /\ mode.worker => Len(u) = 3 /\ u[1] = d /\ u[2] = e /\ u[3] = z
      /\ ~mode.present /\ ~mode.worker => Len(u) = 1 /\ u[1] = z
  BY <1>1
<1> HIDE DEF ab, u, ops
<1>6. /\ ops \in Seq(Ops) /\ Len(ops) = Len(ab) + Len(u)
      /\ \A i \in 1 .. Len(ab) + Len(u) : ops[i] = IF i <= Len(ab) THEN ab[i] ELSE u[i - Len(ab)]
  BY <1>4, <1>5, ConcatProperties, Zenon DEF ops
<1>7. DOMAIN ops = 1 .. Len(ops)
  BY <1>6
<1>8. CASE mode.present
  <2>0. Len(u) = 1 /\ u[1] = c
    BY <1>5, <1>8, Zenon
  <2>1. Len(ops) = 3 /\ ops[1] = a /\ ops[2] = b /\ ops[3] = c
    BY <2>0, <1>4, <1>6
  <2> QED BY <1>3, <1>6, <1>7, <1>8, <2>1 DEF a, b, c
<1>9. CASE ~mode.present /\ mode.worker
  <2>0. Len(u) = 3 /\ u[1] = d /\ u[2] = e /\ u[3] = z
    BY <1>5, <1>9, Zenon
  <2>1. Len(ops) = 5 /\ ops[1] = a /\ ops[2] = b /\ ops[3] = d /\ ops[4] = e /\ ops[5] = z
    BY <2>0, <1>4, <1>6
  <2> QED BY <1>3, <1>6, <1>7, <1>9, <2>1 DEF a, b, d, e, z
<1>10. CASE ~mode.present /\ ~mode.worker
  <2>0. Len(u) = 1 /\ u[1] = z
    BY <1>5, <1>10, Zenon
  <2>1. Len(ops) = 3 /\ ops[1] = a /\ ops[2] = b /\ ops[3] = z
    BY <2>0, <1>4, <1>6
  <2> QED BY <1>3, <1>6, <1>7, <1>10, <2>1 DEF a, b, z
<1> QED BY <1>8, <1>9, <1>10

-----------------------------------------------------------------------------
(* Shape is invariant.                                                     *)

LEMMA StateFields ==
    ASSUME TypeOK
    PROVE  /\ mode.timeline \in BOOLEAN /\ mode.worker \in BOOLEAN /\ mode.present \in BOOLEAN
           /\ main.todo \in Seq(Ops) /\ main.frame \in MaybeFrame /\ main.calls \in Nat
           /\ rp.rendering \in BOOLEAN /\ rp.count \in Nat
           /\ chunk.cmds \in Seq(Command) /\ chunk.counted \in BOOLEAN
           /\ worker.work \in Chunk /\ worker.work.cmds \in Seq(Command)
           /\ worker.work.submit \in BOOLEAN /\ worker.pc \in {"check", "execute"}
           /\ sem.tick \in Nat /\ sem.gpuTick \in Nat
           /\ gpu.queue \in Seq(Work) /\ gpu.counter \in Nat
           /\ gpu.ready \in SUBSET Frames /\ gpu.done \in SUBSET Frames
           /\ presenter.frame \in MaybeFrame
<1>1. worker.work \in Chunk /\ worker.pc \in {"check", "execute"}
  BY DEF TypeOK, WorkerType
<1>2. worker.work.cmds \in Seq(Command) /\ worker.work.submit \in BOOLEAN
  BY <1>1, ChunkFields
<1>3. chunk.cmds \in Seq(Command) /\ chunk.counted \in BOOLEAN
  BY ChunkFields DEF TypeOK
<1> QED BY <1>1, <1>2, <1>3 DEF TypeOK, MainType, GpuType

LEMMA MainThen ==
    ASSUME main \in MainType, main.todo # <<>>, NEW ops \in Seq(Ops), Then(ops)
    PROVE  /\ main' \in MainType /\ main'.todo = ops \o Tail(main.todo)
           /\ main'.frame = main.frame /\ main'.calls = main.calls
<1> DEFINE r == ops \o Tail(main.todo)
<1>1. main.todo \in Seq(Ops)
  BY DEF MainType
<1>2. r \in Seq(Ops)
  BY <1>1, ThenIs
<1>3. main' = [main EXCEPT !.todo = r]
  BY DEF Then
<1> HIDE DEF r
<1>4. main' \in MainType /\ main'.todo = r /\ main'.frame = main.frame /\ main'.calls = main.calls
  BY <1>2, <1>3 DEF MainType
<1> QED BY <1>4 DEF r

\* A step of the emulation thread that does not touch the chunks.
LEMMA TodoOnly ==
    ASSUME Shape, main.todo # <<>>, main.todo[1][1] # "dispatchSubmit",
           NEW ops \in Seq(Ops), TodoOK(ops, mode.worker), Then(ops),
           UNCHANGED <<mode, chunk, workQueue, worker>>
    PROVE  /\ main' \in MainType /\ TodoOK(main'.todo, mode'.worker)
           /\ ChunksOK(mode'.worker, chunk', workQueue', worker')
           /\ ChunkReady'
<1>1. main \in MainType /\ main.todo \in Seq(Ops) /\ mode.worker \in BOOLEAN
  BY StateFields DEF Shape, TypeOK
<1>2. main' \in MainType /\ main'.todo = ops \o Tail(main.todo)
  BY <1>1, MainThen
<1>3. TodoOK(main'.todo, mode.worker)
  BY <1>1, <1>2, TodoThen DEF Shape
<1>4. ChunkReady'
  BY DEF Shape, ChunkReady, At
<1> QED BY <1>2, <1>3, <1>4 DEF Shape

\* A call begins.
LEMMA StartShape ==
    ASSUME Shape, NEW ops \in Seq(Ops), Calm(ops), Start(ops), rp' \in [rendering : BOOLEAN, count : Nat]
    PROVE  Shape'
<1>1. main \in MainType /\ main.todo = <<>>
  BY DEF Shape, TypeOK, Start
<1>2. main' \in MainType /\ main'.todo = ops
  <2> DEFINE m == [main EXCEPT !.todo = ops]
             n == main.calls + 1
  <2>1. n \in Nat
    BY <1>1 DEF MainType
  <2>2. m \in MainType /\ m.todo = ops
    BY <1>1 DEF MainType
  <2>3. main' = [m EXCEPT !.calls = n]
    BY DEF Start
  <2> HIDE DEF m, n
  <2> QED BY <2>1, <2>2, <2>3, Zenon DEF MainType
<1>3. TypeOK'
  BY <1>2 DEF Shape, TypeOK, Start, schedVars, presentVars
<1>4. TodoOK(main'.todo, mode'.worker)
  BY <1>2, CalmIsOK
<1>5. ChunksOK(mode.worker, chunk, workQueue, worker)'
  BY DEF Start, schedVars, Shape
<1>6. ChunkReady'
  BY <1>1 DEF Shape, ChunkReady, At, Start
<1> QED BY <1>3, <1>4, <1>5, <1>6 DEF Shape

LEMMA CallsAre ==
    /\ <<RecordOp(<<Draw>>)>> \in Seq(Ops) /\ Calm(<<RecordOp(<<Draw>>)>>)
    /\ <<Op("endRendering"), Op("begin")>> \in Seq(Ops) /\ Calm(<<Op("endRendering"), Op("begin")>>)
    /\ <<Submit(NoFrame)>> \in Seq(Ops) /\ Calm(<<Submit(NoFrame)>>)
    /\ <<Op("finish")>> \in Seq(Ops) /\ Calm(<<Op("finish")>>)
    /\ <<Op("getFrame")>> \in Seq(Ops) /\ Calm(<<Op("getFrame")>>)
<1>1. RecordOp(<<Draw>>) \in Ops /\ ~Submitting(RecordOp(<<Draw>>))
  BY DrawsAre, RecordOps
<1>2. Op("endRendering") \in Ops /\ ~Submitting(Op("endRendering"))
      /\ Op("begin") \in Ops /\ ~Submitting(Op("begin"))
      /\ Op("finish") \in Ops /\ ~Submitting(Op("finish"))
      /\ Op("getFrame") \in Ops /\ ~Submitting(Op("getFrame"))
  BY NameOps DEF OpName
<1>3. Submit(NoFrame) \in Ops /\ ~Submitting(Submit(NoFrame))
  BY OpTypes DEF MaybeFrame, Submitting
<1>4. ASSUME NEW x \in Ops, ~Submitting(x) PROVE <<x>> \in Seq(Ops) /\ Calm(<<x>>)
  BY <1>4 DEF Calm
<1>5. ASSUME NEW x \in Ops, ~Submitting(x), NEW y \in Ops, ~Submitting(y)
      PROVE  <<x, y>> \in Seq(Ops) /\ Calm(<<x, y>>)
  BY <1>5 DEF Calm
<1> QED BY <1>1, <1>2, <1>3, <1>4, <1>5

LEMMA CallsShape ==
    ASSUME Shape, StartDraw \/ StartFlush \/ StartFinish \/ RenderToWindow
    PROVE  Shape'
<1>1. rp \in [rendering : BOOLEAN, count : Nat]
  BY DEF Shape, TypeOK
<1>2. [rp EXCEPT !.count = @ + 1] \in [rendering : BOOLEAN, count : Nat]
  BY <1>1
<1>3. [rp EXCEPT !.rendering = TRUE] \in [rendering : BOOLEAN, count : Nat]
  BY <1>1
<1>4. CASE StartDraw
  BY <1>1, <1>2, <1>3, <1>4, CallsAre, StartShape DEF StartDraw
<1>5. CASE StartFlush
  BY <1>1, <1>5, CallsAre, StartShape DEF StartFlush
<1>6. CASE StartFinish
  BY <1>1, <1>6, CallsAre, StartShape DEF StartFinish
<1>7. CASE RenderToWindow
  BY <1>1, <1>7, CallsAre, StartShape DEF RenderToWindow
<1> QED BY <1>4, <1>5, <1>6, <1>7

\* Recording s into the chunk.
LEMMA RecordInChunk ==
    ASSUME Shape, mode.worker, TicksOf(chunk.cmds) = {}, NEW s \in Seq(Command),
           Len(chunk.cmds) + Len(s) <= ChunkSize, SubmitLast(s),
           chunk' = ChunkRecord(chunk, s), UNCHANGED <<mode, workQueue, worker>>
    PROVE  /\ chunk' \in Chunk /\ chunk'.cmds = chunk.cmds \o s
           /\ ChunksOK(mode'.worker, chunk', workQueue', worker')
           /\ TicksOf(chunk'.cmds) = TicksOf(s)
<1> DEFINE cs == chunk.cmds
           b == chunk.counted \/ s # <<>>
           c1 == [chunk EXCEPT !.cmds = cs \o s]
<1>1. chunk \in Chunk /\ cs \in Seq(Command) /\ Len(cs) \in Nat /\ Len(s) \in Nat
  BY StateFields DEF Shape, TypeOK
<1>2. cs \o s \in Seq(Command) /\ TicksOf(cs \o s) = TicksOf(cs) \cup TicksOf(s)
  BY <1>1, ListConcat
<1>3. c1 \in Chunk /\ c1.cmds = cs \o s
  BY <1>1, <1>2, Zenon DEF Chunk
<1>4. chunk' = [c1 EXCEPT !.counted = b]
  BY DEF ChunkRecord
<1>5. b \in BOOLEAN
  OBVIOUS
<1> HIDE DEF c1, b
<1>6. chunk' \in Chunk /\ chunk'.cmds = cs \o s /\ (chunk'.counted <=> b)
  <2>1. [c1 EXCEPT !.counted = b] \in Chunk /\ [c1 EXCEPT !.counted = b].cmds = c1.cmds
        /\ ([c1 EXCEPT !.counted = b].counted = b)
    BY <1>3, <1>5, Zenon DEF Chunk
  <2> QED BY <2>1, <1>3, <1>4, Zenon
<1>7. Len(cs \o s) = Len(cs) + Len(s) /\ (cs \o s # <<>> => cs # <<>> \/ s # <<>>)
  <2>1. Len(cs \o s) = Len(cs) + Len(s)
    BY <1>1
  <2>2. cs = <<>> /\ s = <<>> => cs \o s = <<>>
    BY ConcatEmptySeq, <1>1
  <2> QED BY <2>1, <2>2
<1>8. SubmitLast(cs \o s)
  <2>1. \A i \in DOMAIN cs : cs[i].op # "submit"
    BY <1>1, ListTypes
  <2>2. ASSUME NEW i \in DOMAIN (cs \o s), (cs \o s)[i].op = "submit"
        PROVE  i = Len(cs \o s)
    <3>1. DOMAIN (cs \o s) = 1 .. Len(cs) + Len(s) /\ DOMAIN cs = 1 .. Len(cs)
          /\ DOMAIN s = 1 .. Len(s)
      BY <1>1
    <3>2. CASE i <= Len(cs)
      <4>1. i \in DOMAIN cs /\ (cs \o s)[i] = cs[i]
        BY <1>1, <3>1, <3>2
      <4> QED BY <4>1, <2>1, <2>2
    <3>3. CASE i > Len(cs)
      <4>1. i - Len(cs) \in DOMAIN s /\ (cs \o s)[i] = s[i - Len(cs)]
        BY <1>1, <3>1, <3>3
      <4>2. i - Len(cs) = Len(s)
        BY <4>1, <2>2, Zenon DEF SubmitLast
      <4> QED BY <4>2, <1>1, <1>7, <3>1
    <3> QED BY <3>1, <3>2, <3>3, <1>1
  <2> QED BY <2>2 DEF SubmitLast
<1>9. chunk'.cmds # <<>> => chunk'.counted
  BY <1>6, <1>7 DEF Shape, ChunksOK, b
<1>10. Len(chunk'.cmds) <= ChunkSize
  BY <1>6, <1>7
<1>11. ChunksOK(mode.worker, chunk, workQueue, worker)
  BY DEF Shape
<1> QED BY <1>2, <1>6, <1>8, <1>9, <1>10, <1>11, Zenon DEF ChunksOK

LEMMA AtFacts ==
    ASSUME NEW x, At(x), TypeOK
    PROVE  /\ main.todo # <<>> /\ main.todo[1][1] = x /\ main.todo[1] \in Ops
           /\ x = "record" => main.todo[1][2] \in Seq(Command) /\ main.todo[1] = RecordOp(main.todo[1][2])
           /\ x = "submit" => main.todo[1][2] \in MaybeFrame
           /\ x = "semWait" => main.todo[1][2] \in Nat
<1>1. main.todo \in Seq(Ops) /\ main.todo # <<>> /\ main.todo[1][1] = x
  BY StateFields DEF At
<1>2. main.todo[1] \in Ops
  BY <1>1
<1> QED BY <1>1, <1>2, OpTypes

\* Recording: the five ways.
RecordFits(s) ==
    /\ mode.worker /\ Len(s) <= ChunkSize - Len(chunk.cmds)
    /\ chunk' = ChunkRecord(chunk, s) /\ Then(<<>>)
    /\ UNCHANGED <<gpu, fences, presentVars>>

RecordSplits(s) ==
    LET room == ChunkSize - Len(chunk.cmds)
    IN /\ mode.worker /\ Len(s) > room
       /\ chunk' = ChunkRecord(chunk, SubSeq(s, 1, room))
       /\ Then(<<Op("dispatch"), RecordOp(SubSeq(s, room + 1, Len(s)))>>)
       /\ UNCHANGED <<gpu, fences, presentVars>>

RecordNothing(s) ==
    /\ ~mode.worker /\ Visible(s) = <<>>
    /\ Then(<<>>) /\ UNCHANGED <<chunk, gpu, fences, presentVars>>

RecordSubmits(s) ==
    /\ ~mode.worker /\ s # <<>> /\ s[1].op = "submit"
    /\ SubmitWork(s[1]) /\ Then(<<>>) /\ UNCHANGED <<chunk, presentVars>>

RecordPresents(s) ==
    /\ ~mode.worker /\ s # <<>> /\ s[1].op = "present"
    /\ QueueFrame(s[1].frame) /\ Then(<<>>) /\ UNCHANGED <<chunk, gpu, fences>>

LEMMA RecordCases ==
    ASSUME MainRecord, TypeOK
    PROVE  /\ At("record") /\ main.todo[1][2] \in Seq(Command)
           /\ UNCHANGED <<mode, rp, workQueue, reserve, worker, sem, pool, eventCv>>
           /\ LET s == main.todo[1][2]
              IN RecordFits(s) \/ RecordSplits(s) \/ RecordNothing(s) \/ RecordSubmits(s)
                 \/ RecordPresents(s)
<1>1. At("record") /\ UNCHANGED <<mode, rp, workQueue, reserve, worker, sem, pool, eventCv>>
  BY DEF MainRecord
<1>2. main.todo[1][2] \in Seq(Command)
  BY <1>1, AtFacts
<1>3. LET s == main.todo[1][2]
      IN RecordFits(s) \/ RecordSplits(s) \/ RecordNothing(s) \/ RecordSubmits(s)
         \/ RecordPresents(s)
  BY Zenon DEF MainRecord, RecordFits, RecordSplits, RecordNothing, RecordSubmits, RecordPresents
<1> QED BY <1>1, <1>2, <1>3

\* What SubmitWork leaves in the GPU's queue and among the fences.
LEMMA SubmitWorkIs ==
    ASSUME NEW c \in Command, pool \in PoolType, gpu \in GpuType, fences \in Seq(Nat), SubmitWork(c)
    PROVE  /\ gpu' \in GpuType /\ gpu'.queue = Append(gpu.queue, Submission(c))
           /\ gpu'.counter = gpu.counter /\ gpu'.ready = gpu.ready /\ gpu'.done = gpu.done
           /\ fences' \in Seq(Nat) /\ fences' \in {fences, Append(fences, c.tick)}
<1> DEFINE q == Append(gpu.queue, Submission(c))
<1>1. gpu.queue \in Seq(Work) /\ Submission(c) \in Work /\ c.tick \in Nat
  BY SubmissionType, CommandFields DEF GpuType
<1>2. q \in Seq(Work)
  BY <1>1
<1>3. gpu' = [gpu EXCEPT !.queue = q]
  BY DEF SubmitWork
<1> HIDE DEF q
<1>4. gpu' \in GpuType /\ gpu'.queue = q /\ gpu'.counter = gpu.counter /\ gpu'.ready = gpu.ready
      /\ gpu'.done = gpu.done
  BY <1>2, <1>3, Zenon DEF GpuType
<1>5. fences' \in {fences, Append(fences, c.tick)}
  BY Zenon DEF SubmitWork
<1>6. Append(fences, c.tick) \in Seq(Nat)
  BY <1>1
<1> QED BY <1>4, <1>5, <1>6 DEF q

LEMMA EmptyOps ==
    ASSUME NEW td \in Seq(Ops), td # <<>>
    PROVE  /\ <<>> \in Seq(Ops) /\ Calm(<<>>) /\ <<>> \o Tail(td) = Tail(td)
           /\ Len(td) > 1 => Tail(td) # <<>> /\ Tail(td)[1] = td[2]
<1>1. <<>> \in Seq(Ops) /\ Calm(<<>>) /\ Tail(td) \in Seq(Ops)
  BY DEF Calm
<1>2. <<>> \o Tail(td) = Tail(td)
  BY <1>1, ConcatEmptySeq
<1>3. ASSUME Len(td) > 1 PROVE Tail(td) # <<>> /\ Tail(td)[1] = td[2]
  <2> DEFINE t == Tail(td)
  <2>1. Len(t) = Len(td) - 1 /\ Len(td) \in Nat /\ \A i \in 1 .. Len(t) : t[i] = td[i + 1]
    BY HeadTailProperties
  <2> HIDE DEF t
  <2>2. 1 \in 1 .. Len(t) /\ Len(t) # 0
    BY <2>1, <1>3
  <2>3. t[1] = td[1 + 1] /\ t # <<>>
    BY <2>1, <2>2
  <2> QED BY <2>3 DEF t
<1> QED BY <1>1, <1>2, <1>3

LEMMA RecordShape ==
    ASSUME Shape, MainRecord
    PROVE  Shape'
<1> DEFINE td == main.todo
           s == td[1][2]
<1>1. TypeOK /\ TodoOK(td, mode.worker) /\ ChunkReady
      /\ ChunksOK(mode.worker, chunk, workQueue, worker)
  BY DEF Shape
<1>2. /\ At("record") /\ s \in Seq(Command)
      /\ UNCHANGED <<mode, rp, workQueue, reserve, worker, sem, pool, eventCv>>
      /\ RecordFits(s) \/ RecordSplits(s) \/ RecordNothing(s) \/ RecordSubmits(s) \/ RecordPresents(s)
  BY <1>1, RecordCases
<1>3. td # <<>> /\ td[1][1] = "record" /\ td \in Seq(Ops) /\ main \in MainType /\ td[1] = RecordOp(s)
  BY <1>1, <1>2, AtFacts, StateFields DEF TypeOK
<1>4. TicksOf(chunk.cmds) = {}
  BY <1>1, <1>2 DEF ChunkReady, At
<1>5. TicksOf(s) # {} => /\ Len(s) = 1 /\ 1 < Len(td)
                         /\ td[2][1] = IF mode.worker THEN "dispatchSubmit" ELSE "commit"
  <2> SUFFICES ASSUME TicksOf(s) # {}
               PROVE  /\ Len(s) = 1 /\ 1 < Len(td)
                      /\ td[2][1] = IF mode.worker THEN "dispatchSubmit" ELSE "commit"
    OBVIOUS
  <2>1. 1 \in DOMAIN td /\ Submitting(td[1])
    BY <1>3 DEF Submitting
  <2>2. Len(td[1][2]) = 1 /\ 1 < Len(td)
        /\ td[1 + 1][1] = IF mode.worker THEN "dispatchSubmit" ELSE "commit"
    BY <2>1, <1>1, Zenon DEF TodoOK
  <2>3. 1 + 1 = 2
    OBVIOUS
  <2> QED BY <2>2, <2>3, Zenon
<1>6. Len(s) \in Nat /\ Len(chunk.cmds) \in Nat /\ chunk.cmds \in Seq(Command) /\ mode.worker \in BOOLEAN
      /\ Len(chunk.cmds) <= ChunkSize /\ ChunkSize \in Nat
  <2>1. chunk.cmds \in Seq(Command) /\ mode.worker \in BOOLEAN
    BY <1>1, StateFields
  <2>2. Len(chunk.cmds) <= ChunkSize
    BY <1>1, Zenon DEF ChunksOK
  <2>3. ChunkSize \in Nat
    BY SchedulerAssumption
  <2>4. Len(s) \in Nat /\ Len(chunk.cmds) \in Nat
    BY <2>1, <1>2
  <2> QED BY <2>1, <2>2, <2>3, <2>4
<1>7. SubmitLast(s)
  <2>1. CASE TicksOf(s) = {}
    BY <2>1, <1>2, ListTypes DEF SubmitLast
  <2>2. CASE TicksOf(s) # {}
    <3>1. Len(s) = 1 /\ DOMAIN s = 1 .. Len(s)
      BY <2>2, <1>2, <1>5
    <3> HIDE DEF s
    <3> QED BY <3>1 DEF SubmitLast
  <2> QED BY <2>1, <2>2
<1>8. ASSUME Then(<<>>)
      PROVE  /\ main' \in MainType /\ main'.todo = Tail(td) /\ TodoOK(main'.todo, mode'.worker)
             /\ TicksOf(s) # {} /\ mode.worker => At("dispatchSubmit")'
  <2>1. main' \in MainType /\ main'.todo = Tail(td)
    BY <1>3, <1>8, MainThen, EmptyOps
  <2>2. TodoOK(main'.todo, mode'.worker)
    <3>1. TodoOK(<<>> \o Tail(td), mode.worker)
      BY <1>1, <1>3, <1>6, TodoThen, EmptyOps, CalmIsOK
    <3> QED BY <2>1, <3>1, <1>2, <1>3, EmptyOps
  <2>3. TicksOf(s) # {} /\ mode.worker => At("dispatchSubmit")'
    BY <2>1, <1>3, <1>5, EmptyOps DEF At
  <2> QED BY <2>1, <2>2, <2>3
<1>9. CASE RecordFits(s)
  <2>1. mode.worker /\ Len(chunk.cmds) + Len(s) <= ChunkSize /\ Then(<<>>)
        /\ chunk' = ChunkRecord(chunk, s) /\ UNCHANGED <<gpu, fences, presentVars>>
    <3>1. mode.worker /\ Len(s) <= ChunkSize - Len(chunk.cmds) /\ Then(<<>>)
          /\ chunk' = ChunkRecord(chunk, s) /\ UNCHANGED <<gpu, fences, presentVars>>
      BY <1>9, Zenon DEF RecordFits
    <3> HIDE DEF s
    <3>2. Len(chunk.cmds) + Len(s) <= ChunkSize
      BY <3>1, <1>6
    <3> QED BY <3>1, <3>2
  <2>2. chunk' \in Chunk /\ ChunksOK(mode'.worker, chunk', workQueue', worker')
        /\ TicksOf(chunk'.cmds) = TicksOf(s)
    BY <2>1, <1>2, <1>4, <1>7, RecordInChunk
  <2>3. TypeOK'
    BY <2>1, <2>2, <1>1, <1>2, <1>8 DEF TypeOK, presentVars
  <2>4. ChunkReady'
    BY <2>1, <2>2, <1>8 DEF ChunkReady
  <2> QED BY <2>1, <2>2, <2>3, <2>4, <1>8 DEF Shape
<1>10. CASE RecordSplits(s)
  <2> DEFINE room == ChunkSize - Len(chunk.cmds)
             a == SubSeq(s, 1, room)
             b == SubSeq(s, room + 1, Len(s))
             ops == <<Op("dispatch"), RecordOp(b)>>
  <2>1. mode.worker /\ Len(s) > room /\ chunk' = ChunkRecord(chunk, a) /\ Then(ops)
        /\ UNCHANGED <<gpu, fences, presentVars>>
    BY <1>10 DEF RecordSplits
  <2>2. room \in 0 .. Len(s)
    BY <2>1, <1>6
  <2>3. a \in Seq(Command) /\ Len(a) = room /\ b \in Seq(Command) /\ a \o b = s
    BY <2>2, <1>2, ListSplit
  <2> HIDE DEF a, b
  <2>4. TicksOf(s) = TicksOf(a) \cup TicksOf(b)
    BY <2>3, ListConcat
  <2>5. TicksOf(a) = {} /\ (TicksOf(b) = {} \/ b = s)
    <3>1. CASE TicksOf(s) = {}
      BY <3>1, <2>4
    <3>2. CASE TicksOf(s) # {}
      <4>1. room = 0
        <5>1. Len(s) = 1
          BY <3>2, <1>5
        <5> HIDE DEF room, s
        <5> QED BY <5>1, <2>1, <2>2
      <4>2. a = <<>>
        BY <4>1, <2>3
      <4>3. b = s
        BY <4>2, <2>3, ConcatEmptySeq
      <4> QED BY <4>2, <4>3, ListNone
    <3> QED BY <3>1, <3>2
  <2>6. SubmitLast(a)
    BY <2>3, <2>5, ListTypes DEF SubmitLast
  <2>7. Len(chunk.cmds) + Len(a) <= ChunkSize
    BY <2>3, <1>6
  <2>8. chunk' \in Chunk /\ ChunksOK(mode'.worker, chunk', workQueue', worker')
        /\ TicksOf(chunk'.cmds) = TicksOf(a)
    BY <2>1, <2>3, <2>6, <2>7, <1>2, <1>4, RecordInChunk
  <2>9. ops \in Seq(Ops)
    <3>1. Op("dispatch") \in Ops /\ RecordOp(b) \in Ops
      BY <2>3, OpTypes DEF OpName
    <3> QED BY <3>1
  <2>10. main' \in MainType /\ main'.todo = ops \o Tail(td)
    BY <2>1, <2>9, <1>3, MainThen
  <2>11. TodoOK(main'.todo, mode'.worker)
    <3>1. td[1] = RecordOp(b) \/ TicksOf(b) = {}
      BY <2>5, <1>3
    <3>2. TodoOK(<<Op("dispatch"), RecordOp(b)>> \o Tail(td), mode.worker)
      BY <3>1, <2>3, <1>1, <1>3, <1>6, TodoSplit
    <3> QED BY <3>2, <2>10, <1>2
  <2>12. TypeOK'
    BY <2>1, <2>8, <2>10, <1>1, <1>2 DEF TypeOK, presentVars
  <2>13. ChunkReady'
    BY <2>5, <2>8 DEF ChunkReady
  <2> QED BY <2>8, <2>11, <2>12, <2>13 DEF Shape
<1>11. ASSUME Then(<<>>), UNCHANGED chunk, TypeOK'
       PROVE  Shape'
  <2>1. ChunksOK(mode.worker, chunk, workQueue, worker)'
    BY <1>1, <1>2, <1>11
  <2>2. ChunkReady'
    BY <1>4, <1>11 DEF ChunkReady
  <2> QED BY <2>1, <2>2, <1>8, <1>11 DEF Shape
<1>12. CASE RecordNothing(s)
  <2>1. TypeOK'
    BY <1>1, <1>2, <1>8, <1>12 DEF RecordNothing, TypeOK, presentVars
  <2> QED BY <2>1, <1>11, <1>12 DEF RecordNothing
<1>13. CASE RecordSubmits(s)
  <2>1. s[1] \in Command /\ pool \in PoolType /\ gpu \in GpuType /\ fences \in Seq(Nat)
    BY <1>1, <1>2, <1>13 DEF RecordSubmits, TypeOK
  <2>2. Submission(s[1]) \in Work /\ s[1].tick \in Nat
    BY <2>1, SubmissionType, CommandFields
  <2>3. gpu' \in GpuType /\ fences' \in Seq(Nat)
    BY <2>1, <2>2, <1>13, SubmitWorkIs DEF RecordSubmits
  <2>4. TypeOK'
    BY <2>3, <1>1, <1>2, <1>8, <1>13 DEF RecordSubmits, TypeOK, presentVars
  <2> QED BY <2>4, <1>11, <1>13 DEF RecordSubmits
<1>14. CASE RecordPresents(s)
  <2>1. s[1] \in Command /\ s[1].frame \in MaybeFrame
    BY <1>2, <1>14, CommandFields DEF RecordPresents
  <2>2. presentQueue' \in Seq(MaybeFrame) /\ UNCHANGED <<freeQueue, freeLock, presenter>>
    BY <2>1, <1>1, <1>14 DEF RecordPresents, QueueFrame, TypeOK
  <2>3. TypeOK'
    BY <2>2, <1>1, <1>2, <1>8, <1>14 DEF RecordPresents, TypeOK
  <2> QED BY <2>3, <1>11, <1>14 DEF RecordPresents
<1> QED BY <1>2, <1>9, <1>10, <1>12, <1>13, <1>14

\* A step of the emulation thread replaces its first op by ops.
LEMMA MainShape ==
    ASSUME Shape, main.todo # <<>>, main.todo[1][1] # "dispatchSubmit",
           NEW ops \in Seq(Ops), TodoOK(ops, mode.worker), main'.todo = ops \o Tail(main.todo),
           TypeOK', UNCHANGED <<mode, chunk, workQueue, worker>>
    PROVE  Shape'
<1>1. main.todo \in Seq(Ops) /\ mode.worker \in BOOLEAN
  BY StateFields DEF Shape
<1>2. TodoOK(main'.todo, mode.worker)
  BY <1>1, TodoThen DEF Shape
<1>3. ChunkReady'
  BY DEF Shape, ChunkReady, At
<1> QED BY <1>2, <1>3 DEF Shape

LEMMA CalmTuples ==
    /\ \A x \in Ops : ~Submitting(x) => <<x>> \in Seq(Ops) /\ Calm(<<x>>)
    /\ \A x, y \in Ops : ~Submitting(x) /\ ~Submitting(y) => <<x, y>> \in Seq(Ops) /\ Calm(<<x, y>>)
    /\ \A x, y, z \in Ops : ~Submitting(x) /\ ~Submitting(y) /\ ~Submitting(z) =>
          <<x, y, z>> \in Seq(Ops) /\ Calm(<<x, y, z>>)
<1>1. ASSUME NEW x \in Ops, ~Submitting(x) PROVE <<x>> \in Seq(Ops) /\ Calm(<<x>>)
  BY <1>1 DEF Calm
<1>2. ASSUME NEW x \in Ops, ~Submitting(x), NEW y \in Ops, ~Submitting(y)
      PROVE  <<x, y>> \in Seq(Ops) /\ Calm(<<x, y>>)
  BY <1>2 DEF Calm
<1>3. ASSUME NEW x \in Ops, ~Submitting(x), NEW y \in Ops, ~Submitting(y),
             NEW z \in Ops, ~Submitting(z)
      PROVE  <<x, y, z>> \in Seq(Ops) /\ Calm(<<x, y, z>>)
  BY <1>3 DEF Calm
<1> QED BY <1>1, <1>2, <1>3

RpType == [rendering : BOOLEAN, count : Nat]

\* Ending a render pass: with or without a submission.
EndOps(rest) ==
    IF rp.rendering /\ rp.count > FlushCount /\ ShouldFlush
    THEN <<RecordOp(<<Draw>>), Submit(NoFrame), RecordOp(rest)>>
    ELSE <<RecordOp((IF rp.rendering THEN <<Draw>> ELSE <<>>) \o rest)>>

LEMMA EndOpsAre ==
    ASSUME rp \in RpType, NEW rest \in {<<>>, <<Draw>>}, EndRendering(rest)
    PROVE  /\ EndOps(rest) \in Seq(Ops) /\ Calm(EndOps(rest)) /\ Then(EndOps(rest)) /\ rp' \in RpType
           /\ ~ShouldFlush => \E s \in Seq(Command) :
                 TicksOf(s) = {} /\ Submits(s) = {} /\ Presents(s) = {} /\ EndOps(rest) = <<RecordOp(s)>>
<1> DEFINE a == RecordOp(<<Draw>>)
           b == Submit(NoFrame)
           c == RecordOp(rest)
           s == (IF rp.rendering THEN <<Draw>> ELSE <<>>) \o rest
           d == RecordOp(s)
<1>1. s \in {<<Draw>> \o <<>>, <<Draw>> \o <<Draw>>, <<>> \o <<>>, <<>> \o <<Draw>>}
  BY Zenon
<1>2. s \in Seq(Command) /\ TicksOf(s) = {} /\ Submits(s) = {} /\ Presents(s) = {}
  BY <1>1, DrawsAre, Zenon
<1> HIDE DEF s
<1>3. rest \in Seq(Command) /\ TicksOf(rest) = {} /\ <<Draw>> \in Seq(Command) /\ TicksOf(<<Draw>>) = {}
  BY DrawsAre
<1>4. a \in Ops /\ ~Submitting(a) /\ c \in Ops /\ ~Submitting(c) /\ d \in Ops /\ ~Submitting(d)
  BY <1>2, <1>3, RecordOps
<1>5. b \in Ops /\ ~Submitting(b)
  BY OpTypes DEF MaybeFrame, Submitting
<1>6. EndOps(rest) = <<a, b, c>> \/ EndOps(rest) = <<d>>
  BY Zenon DEF EndOps, s
<1>7. ~ShouldFlush => EndOps(rest) = <<d>>
  BY Zenon DEF EndOps, s
<1> HIDE DEF a, b, c
<1>8. EndOps(rest) \in Seq(Ops) /\ Calm(EndOps(rest))
  <2> HIDE DEF d
  <2> QED BY <1>4, <1>5, <1>6, CalmTuples, Zenon
<1>9. Then(EndOps(rest))
  BY Zenon DEF EndOps, EndRendering
<1>10. rp' \in RpType
  <2>1. [rendering |-> FALSE, count |-> 0] \in RpType
    BY DEF RpType
  <2>2. [rp EXCEPT !.rendering = FALSE] \in RpType
    BY DEF RpType
  <2> QED BY <2>1, <2>2, Zenon DEF EndRendering
<1> QED BY <1>2, <1>7, <1>8, <1>9, <1>10

LEMMA EndRenderingShape ==
    ASSUME Shape, MainEndRendering \/ MainRender
    PROVE  Shape'
<1>1. PICK rest \in {<<>>, <<Draw>>}, x \in {"endRendering", "render"} : At(x) /\ EndRendering(rest)
  BY DEF MainEndRendering, MainRender
<1>2. TypeOK /\ main \in MainType /\ rp \in RpType /\ UNCHANGED <<mode, chunk, schedVars, presentVars>>
  BY DEF Shape, TypeOK, RpType, MainEndRendering, MainRender
<1>3. EndOps(rest) \in Seq(Ops) /\ Calm(EndOps(rest)) /\ Then(EndOps(rest)) /\ rp' \in RpType
  BY <1>1, <1>2, EndOpsAre
<1>4. main.todo # <<>> /\ main.todo[1][1] # "dispatchSubmit"
  BY <1>1 DEF At
<1>5. main' \in MainType /\ main'.todo = EndOps(rest) \o Tail(main.todo)
  BY <1>2, <1>3, <1>4, MainThen
<1>6. TypeOK'
  BY <1>2, <1>3, <1>5 DEF TypeOK, schedVars, presentVars, RpType
<1>7. TodoOK(EndOps(rest), mode.worker)
  BY <1>3, CalmIsOK
<1> QED BY <1>2, <1>3, <1>4, <1>5, <1>6, <1>7, MainShape DEF schedVars

\* One of the ops submits, with the tick v, and only quiet ones come before it.
OneSubmits(ops, v) ==
    \E k \in DOMAIN ops :
        /\ Submitting(ops[k]) /\ ops[k][2][1].tick = v
        /\ \A i \in DOMAIN ops : Submitting(ops[i]) => i = k
        /\ \A i \in 1 .. k - 1 : Quiet(ops[i])

LEMMA SubmitOpsOK ==
    ASSUME TypeOK, NEW v \in Nat, NEW f \in MaybeFrame, NEW rest \in {<<>>, <<<<"semWait", v>>>>}
    PROVE  /\ SubmitOps(v, f) \o rest \in Seq(Ops) /\ TodoOK(SubmitOps(v, f) \o rest, mode.worker)
           /\ OneSubmits(SubmitOps(v, f) \o rest, v)
<1> DEFINE ops == SubmitOps(v, f) \o rest
           k == IF rp.rendering THEN 2 ELSE 1
           s == <<SubmitCommand(v, f)>>
           x == IF mode.worker THEN "dispatchSubmit" ELSE "commit"
<1>1. rp.rendering \in BOOLEAN /\ mode.worker \in BOOLEAN
  BY StateFields
<1>2. /\ ops \in Seq(Ops) /\ Len(ops) \in {k + 1, k + 2} /\ DOMAIN ops = 1 .. Len(ops)
      /\ rp.rendering => ops[1] = Op("endRendering")
      /\ ops[k] = RecordOp(s) /\ ops[k + 1] = Op(x)
      /\ Len(ops) = k + 2 => ops[k + 2] = <<"semWait", v>>
  BY <1>1, SubmitOpsAre, Zenon
<1>3. s \in Seq(Command) /\ Len(s) = 1 /\ TicksOf(s) # {} /\ s[1].tick = v
  BY SubmitIs
<1>4. k \in {1, 2} /\ (k = 2 => rp.rendering) /\ x \in OpName
  BY <1>1 DEF OpName
<1> HIDE DEF ops, k, s, x
<1>5. ASSUME NEW i \in DOMAIN ops, Submitting(ops[i]) PROVE i = k
  <2> DEFINE n == Len(ops)
  <2>0. i \in 1 .. n /\ n \in {k + 1, k + 2}
    BY <1>2, <1>5, Zenon
  <2> HIDE DEF n
  <2>1. i \in 1 .. k + 2 /\ (i = k + 2 => n = k + 2)
    BY <2>0, <1>4
  <2>2. i # k + 1
    <3>1. Op(x)[1] # "record"
      BY <1>4, OpTypes DEF OpName
    <3> QED BY <3>1, <1>2, <1>5, Zenon DEF Submitting
  <2>3. i # k + 2
    <3>1. <<"semWait", v>>[1] # "record"
      OBVIOUS
    <3> QED BY <3>1, <2>1, <1>2, <1>5, Zenon DEF Submitting, n
  <2>4. ~(k = 2 /\ i = 1)
    <3>1. Op("endRendering")[1] # "record"
      BY DEF Op
    <3> QED BY <3>1, <1>2, <1>4, <1>5 DEF Submitting
  <2> QED BY <2>1, <2>2, <2>3, <2>4, <1>4
<1>6. ops[k][2] = s /\ ops[k + 1][1] = x /\ k < Len(ops)
  <2>1. RecordOp(s)[2] = s /\ Op(x)[1] = x
    BY <1>3, <1>4, OpTypes
  <2> DEFINE n == Len(ops)
  <2>2. n \in {k + 1, k + 2}
    BY <1>2
  <2> HIDE DEF n
  <2>3. k < n
    BY <2>2, <1>4
  <2> QED BY <1>2, <2>1, <2>3, Zenon DEF n
<1>7. TodoOK(ops, mode.worker)
  BY <1>3, <1>5, <1>6, Zenon DEF TodoOK, x
<1>8. k \in DOMAIN ops /\ Submitting(ops[k]) /\ ops[k][2][1].tick = v
  <2>1. k \in 1 .. Len(ops)
    <3> DEFINE n == Len(ops)
    <3>1. n \in {k + 1, k + 2}
      BY <1>2
    <3> HIDE DEF n
    <3>2. k \in 1 .. n
      BY <3>1, <1>4
    <3> QED BY <3>2 DEF n
  <2>2. ops[k][1] = "record"
    BY <1>2, <1>3, OpTypes
  <2> QED BY <2>1, <2>2, <1>2, <1>3, <1>6, Zenon DEF Submitting
<1>9. \A i \in 1 .. k - 1 : Quiet(ops[i])
  <2>1. Quiet(Op("endRendering"))
    BY DEF Quiet, Op
  <2>2. ASSUME NEW i \in 1 .. k - 1 PROVE i = 1 /\ k = 2
    BY <1>4
  <2> QED BY <2>1, <2>2, <1>2, <1>4
<1>10. OneSubmits(ops, v)
  BY <1>5, <1>8, <1>9 DEF OneSubmits
<1> QED BY <1>2, <1>7, <1>10 DEF ops

LEMMA SubmitShape ==
    ASSUME Shape, MainSubmit \/ MainFinish
    PROVE  Shape'
<1>1. PICK rest \in {<<>>, <<<<"semWait", sem.tick>>>>}, f \in MaybeFrame, x \in {"submit", "finish"} :
          At(x) /\ SubmitExecution(f, rest)
  <2>1. CASE MainSubmit
    <3>1. main.todo[1][2] \in MaybeFrame
      BY <2>1, AtFacts DEF MainSubmit, Shape
    <3> QED BY <3>1, <2>1 DEF MainSubmit
  <2>2. CASE MainFinish
    BY <2>2 DEF MainFinish, MaybeFrame
  <2> QED BY <2>1, <2>2
<1>2. /\ TypeOK /\ main \in MainType /\ sem \in [tick : Nat, gpuTick : Nat] /\ sem.tick \in Nat
      /\ UNCHANGED <<mode, rp, chunk, workQueue, reserve, worker, pool, fences, gpu, eventCv, presentVars>>
  BY DEF Shape, TypeOK, MainSubmit, MainFinish
<1> DEFINE ops == SubmitOps(sem.tick, f) \o rest
<1>3. ops \in Seq(Ops) /\ TodoOK(ops, mode.worker)
  BY <1>1, <1>2, SubmitOpsOK
<1>4. Then(ops) /\ sem' = [sem EXCEPT !.tick = @ + 1]
  BY <1>1 DEF SubmitExecution
<1> HIDE DEF ops
<1>5. sem' \in [tick : Nat, gpuTick : Nat]
  BY <1>2, <1>4
<1>6. main.todo # <<>> /\ main.todo[1][1] # "dispatchSubmit"
  BY <1>1 DEF At
<1>7. main' \in MainType /\ main'.todo = ops \o Tail(main.todo)
  BY <1>2, <1>3, <1>4, <1>6, MainThen
<1>8. TypeOK'
  BY <1>2, <1>5, <1>7 DEF TypeOK, presentVars
<1> QED BY <1>2, <1>3, <1>6, <1>7, <1>8, MainShape

\* Dispatching: the chunk goes to the end of the queue, if it counts as not empty, and
\* another one is acquired.
LEMMA DispatchIs ==
    ASSUME Shape, MainDispatch
    PROVE  /\ main.todo # <<>> /\ main.todo[1][1] \in {"dispatch", "dispatchSubmit"}
           /\ main' \in MainType
           /\ \E ops \in Seq(Ops) : /\ Calm(ops) /\ \A i \in DOMAIN ops : Quiet(ops[i])
                                    /\ main'.todo = ops \o Tail(main.todo)
           /\ UNCHANGED <<mode, rp, reserve, worker, sem, pool, fences, gpu, presentVars>>
           /\ \/ chunk.cmds = <<>> /\ UNCHANGED <<workQueue, chunk>>
              \/ /\ mode.worker
                 /\ \E c \in Chunk : /\ c.cmds = chunk.cmds /\ c.submit = At("dispatchSubmit")
                                     /\ workQueue' = Append(workQueue, c)
                 /\ chunk' \in Chunk /\ chunk'.cmds = <<>>
<1>1. TypeOK /\ main \in MainType /\ main.todo \in Seq(Ops) /\ chunk \in Chunk
  BY StateFields DEF Shape, TypeOK
<1>2. main.todo # <<>> /\ main.todo[1][1] \in {"dispatch", "dispatchSubmit"}
  BY DEF MainDispatch, At
<1>3. UNCHANGED <<mode, rp, reserve, worker, sem, pool, fences, gpu, presentVars>>
  BY DEF MainDispatch
<1>4. ASSUME NEW ops \in Seq(Ops), Then(ops)
      PROVE  main' \in MainType /\ main'.todo = ops \o Tail(main.todo)
  BY <1>1, <1>2, <1>4, MainThen
<1>5. ChunksOK(mode.worker, chunk, workQueue, worker)
  BY DEF Shape
<1>6. CASE mode.worker /\ chunk.counted
  <2> DEFINE b == At("dispatchSubmit")
             c == [chunk EXCEPT !.submit = b]
             ops == <<Op("acquire")>>
  <2>1. b \in BOOLEAN
    BY DEF At
  <2>2. workQueue' = Append(workQueue, c) /\ chunk' = NewChunk(FALSE) /\ Then(ops)
    BY <1>6, Zenon DEF MainDispatch
  <2>3. ops \in Seq(Ops) /\ Calm(ops) /\ \A i \in DOMAIN ops : Quiet(ops[i])
    <3>1. Op("acquire") \in Ops /\ ~Submitting(Op("acquire")) /\ Op("acquire")[1] = "acquire"
      BY NameOps, OpTypes DEF OpName
    <3>2. Quiet(Op("acquire"))
      BY <3>1 DEF Quiet
    <3>3. ops \in Seq(Ops) /\ Calm(ops)
      BY <3>1, CalmTuples
    <3>4. \A i \in DOMAIN ops : ops[i] = Op("acquire")
      OBVIOUS
    <3> QED BY <3>2, <3>3, <3>4
  <2> HIDE DEF b, ops
  <2>4. c \in Chunk /\ c.cmds = chunk.cmds /\ c.submit = b
    BY <1>1, <2>1, ChunkFields, Zenon
  <2>5. chunk' \in Chunk /\ chunk'.cmds = <<>>
    BY <2>2, ChunkFields, Zenon
  <2>6. main' \in MainType /\ main'.todo = ops \o Tail(main.todo)
    BY <1>4, <2>2, <2>3
  <2> HIDE DEF c
  <2> QED BY <1>2, <1>3, <1>6, <2>2, <2>3, <2>4, <2>5, <2>6 DEF b
<1>7. CASE ~(mode.worker /\ chunk.counted)
  <2>1. chunk.cmds = <<>>
    BY <1>5, <1>7, Zenon DEF ChunksOK
  <2>2. UNCHANGED <<workQueue, chunk>> /\ Then(<<>>)
    BY <1>7, Zenon DEF MainDispatch
  <2>3. <<>> \in Seq(Ops) /\ Calm(<<>>) /\ \A i \in DOMAIN <<>> : Quiet(<<>>[i])
    BY <1>1, <1>2, EmptyOps
  <2>4. main' \in MainType /\ main'.todo = <<>> \o Tail(main.todo)
    BY <1>4, <2>2, <2>3
  <2> QED BY <1>2, <1>3, <2>1, <2>2, <2>3, <2>4
<1> QED BY <1>6, <1>7

\* The queue with the chunk c at its end.
LEMMA ChunksAppend ==
    ASSUME NEW w, NEW ch, NEW q \in Seq(Chunk), NEW wk, ChunksOK(w, ch, q, wk),
           NEW c \in Chunk, c.cmds = ch.cmds, TicksOf(ch.cmds) # {} => c.submit,
           NEW ch2, ch2.cmds = <<>>, w
    PROVE  ChunksOK(w, ch2, Append(q, c), wk)
<1> DEFINE r == Append(q, c)
           Fine(x) == SubmitLast(x.cmds) /\ (TicksOf(x.cmds) # {} => x.submit)
<1>1. \A i \in DOMAIN r : (i \in DOMAIN q /\ r[i] = q[i]) \/ r[i] = c
  OBVIOUS
<1> HIDE DEF r
<1>2. Fine(c)
  BY Zenon DEF ChunksOK
<1>3. \A i \in DOMAIN q : Fine(q[i])
  BY Zenon DEF ChunksOK
<1>4. \A i \in DOMAIN r : Fine(r[i])
  <2> HIDE DEF Fine
  <2> QED BY <1>1, <1>2, <1>3, Zenon
<1>5. Len(<<>>) <= ChunkSize
  BY SchedulerAssumption
<1>6. ChunksOK(w, ch2, r, wk)
  BY <1>4, <1>5, ListNone, Zenon DEF ChunksOK
<1> QED BY <1>6 DEF r

LEMMA DispatchShape ==
    ASSUME Shape, MainDispatch
    PROVE  Shape'
<1>1. /\ main.todo # <<>> /\ main.todo[1][1] \in {"dispatch", "dispatchSubmit"}
      /\ main' \in MainType
      /\ UNCHANGED <<mode, rp, reserve, worker, sem, pool, fences, gpu, presentVars>>
  BY DispatchIs
<1>2. TypeOK /\ TodoOK(main.todo, mode.worker) /\ main.todo \in Seq(Ops) /\ mode.worker \in BOOLEAN
      /\ ChunksOK(mode.worker, chunk, workQueue, worker) /\ ChunkReady /\ workQueue \in Seq(Chunk)
  BY StateFields DEF Shape, TypeOK
<1>3. TodoOK(main'.todo, mode'.worker)
  <2>1. PICK ops \in Seq(Ops) : Calm(ops) /\ main'.todo = ops \o Tail(main.todo)
    BY DispatchIs
  <2>2. TodoOK(ops \o Tail(main.todo), mode.worker)
    BY <1>1, <1>2, <2>1, TodoThen, CalmIsOK
  <2> QED BY <2>1, <2>2, <1>1
<1>4. CASE chunk.cmds = <<>> /\ UNCHANGED <<workQueue, chunk>>
  <2>1. TypeOK'
    BY <1>1, <1>2, <1>4 DEF TypeOK, presentVars
  <2>2. ChunkReady'
    BY <1>4, ListNone DEF ChunkReady
  <2>3. ChunksOK(mode.worker, chunk, workQueue, worker)'
    BY <1>1, <1>2, <1>4
  <2> QED BY <1>3, <2>1, <2>2, <2>3 DEF Shape
<1>5. CASE /\ mode.worker
           /\ \E c \in Chunk : /\ c.cmds = chunk.cmds /\ c.submit = At("dispatchSubmit")
                               /\ workQueue' = Append(workQueue, c)
           /\ chunk' \in Chunk /\ chunk'.cmds = <<>>
  <2>1. PICK c \in Chunk : /\ c.cmds = chunk.cmds /\ c.submit = At("dispatchSubmit")
                           /\ workQueue' = Append(workQueue, c)
    BY <1>5
  <2>2. workQueue' \in Seq(Chunk)
    BY <2>1, <1>2
  <2>3. TypeOK'
    BY <1>1, <1>2, <1>5, <2>2 DEF TypeOK, presentVars
  <2>4. ChunkReady'
    BY <1>5, ListNone DEF ChunkReady
  <2>5. TicksOf(chunk.cmds) # {} => c.submit
    BY <1>2, <2>1, Zenon DEF ChunkReady
  <2>6. ChunksOK(mode.worker, chunk', Append(workQueue, c), worker)
    BY <1>2, <1>5, <2>1, <2>5, ChunksAppend
  <2>7. ChunksOK(mode.worker, chunk, workQueue, worker)'
    BY <1>1, <2>1, <2>6
  <2> QED BY <1>3, <2>3, <2>4, <2>7 DEF Shape
<1> QED BY <1>4, <1>5, DispatchIs

\* Acquiring a chunk: the one before has been moved away, or was empty.
LEMMA AcquireIs ==
    ASSUME Shape, MainAcquire
    PROVE  /\ main.todo # <<>> /\ main.todo[1][1] = "acquire"
           /\ main' \in MainType /\ main'.todo = <<>> \o Tail(main.todo)
           /\ chunk' \in Chunk /\ chunk'.cmds = <<>> /\ reserve' \in Nat
           /\ TicksOf(chunk.cmds) = {}
           /\ UNCHANGED <<mode, rp, workQueue, worker, sem, pool, fences, gpu, presentVars>>
<1>1. TypeOK /\ main \in MainType /\ main.todo \in Seq(Ops) /\ reserve \in Nat /\ ChunkReady
  BY StateFields DEF Shape, TypeOK
<1>2. main.todo # <<>> /\ main.todo[1][1] = "acquire"
  BY DEF MainAcquire, At
<1>3. /\ chunk' = NewChunk(reserve > 0) /\ reserve' = Max({reserve - 1, 0}) /\ Then(<<>>)
      /\ UNCHANGED <<mode, rp, workQueue, worker, sem, pool, fences, gpu, presentVars>>
  BY DEF MainAcquire
<1>4. main' \in MainType /\ main'.todo = <<>> \o Tail(main.todo)
  BY <1>1, <1>2, <1>3, MainThen, EmptyOps
<1>5. reserve' \in Nat
  <2>1. reserve - 1 \in Int /\ 0 \in Int
    BY <1>1
  <2>2. Max({reserve - 1, 0}) = IF reserve - 1 <= 0 THEN 0 ELSE reserve - 1
    BY <2>1, MaxPair, Zenon
  <2> QED BY <1>1, <1>3, <2>2
<1>6. chunk' \in Chunk /\ chunk'.cmds = <<>>
  <2>1. (reserve > 0) \in BOOLEAN
    OBVIOUS
  <2> QED BY <1>3, <2>1, ChunkFields, Zenon
<1>7. TicksOf(chunk.cmds) = {}
  BY <1>1, <1>2 DEF ChunkReady, At
<1> QED BY <1>2, <1>3, <1>4, <1>5, <1>6, <1>7

LEMMA AcquireShape ==
    ASSUME Shape, MainAcquire
    PROVE  Shape'
<1>1. /\ main.todo # <<>> /\ main.todo[1][1] = "acquire"
      /\ main' \in MainType /\ main'.todo = <<>> \o Tail(main.todo)
      /\ chunk' \in Chunk /\ chunk'.cmds = <<>> /\ reserve' \in Nat
      /\ UNCHANGED <<mode, rp, workQueue, worker, sem, pool, fences, gpu, presentVars>>
  BY AcquireIs
<1>2. TypeOK /\ TodoOK(main.todo, mode.worker) /\ main.todo \in Seq(Ops) /\ mode.worker \in BOOLEAN
      /\ ChunksOK(mode.worker, chunk, workQueue, worker)
  BY StateFields DEF Shape, TypeOK
<1>3. TypeOK'
  BY <1>1, <1>2 DEF TypeOK, presentVars
<1>4. TodoOK(main'.todo, mode'.worker)
  BY <1>1, <1>2, TodoThen, EmptyOps, CalmIsOK
<1>5. ChunkReady'
  BY <1>1, ListNone DEF ChunkReady
<1>6. ChunksOK(mode.worker, chunk', workQueue, worker)
  <2>1. Len(<<>>) <= ChunkSize
    BY SchedulerAssumption
  <2> QED BY <1>1, <1>2, <2>1, ListNone, Zenon DEF ChunksOK
<1>7. ChunksOK(mode.worker, chunk, workQueue, worker)'
  BY <1>1, <1>6
<1> QED BY <1>3, <1>4, <1>5, <1>7 DEF Shape

\* The steps of the emulation thread that only end or replace their op.
LEMMA CommitShape ==
    ASSUME Shape, MainCommit
    PROVE  Shape'
<1>1. TypeOK /\ main \in MainType /\ main.todo \in Seq(Ops) /\ sem \in [tick : Nat, gpuTick : Nat]
      /\ gpu \in GpuType /\ pool \in PoolType /\ sem.tick \in Nat
  BY StateFields DEF Shape, TypeOK
<1>2. /\ At("commit") /\ sem' = Refresh(sem) /\ pool' = Commit(pool, sem'.gpuTick, sem.tick) /\ Then(<<>>)
      /\ UNCHANGED <<mode, rp, chunk, workQueue, reserve, worker, fences, gpu, eventCv, presentVars>>
  BY DEF MainCommit
<1>3. main.todo # <<>> /\ main.todo[1][1] # "dispatchSubmit"
  BY <1>2 DEF At
<1>4. main' \in MainType /\ main'.todo = <<>> \o Tail(main.todo) /\ <<>> \in Seq(Ops)
      /\ TodoOK(<<>>, mode.worker)
  BY <1>1, <1>2, <1>3, MainThen, EmptyOps, CalmIsOK
<1>5. sem' \in [tick : Nat, gpuTick : Nat] /\ sem'.gpuTick \in Nat
  BY <1>1, <1>2, RefreshIs
<1>6. pool' \in PoolType /\ pool'.cur \in DOMAIN pool'.ticks
  BY <1>1, <1>2, <1>5, CommitIs DEF Committed
<1>7. TypeOK'
  BY <1>1, <1>2, <1>4, <1>5, <1>6 DEF TypeOK, presentVars
<1> QED BY <1>2, <1>3, <1>4, <1>7, MainShape

LEMMA SemWaitShape ==
    ASSUME Shape, MainSemWait
    PROVE  Shape'
<1>1. TypeOK /\ main \in MainType /\ main.todo \in Seq(Ops) /\ sem \in [tick : Nat, gpuTick : Nat]
      /\ gpu \in GpuType
  BY StateFields DEF Shape, TypeOK
<1>2. /\ At("semWait") /\ sem' \in {sem, Refresh(sem)} /\ Then(<<>>)
      /\ UNCHANGED <<mode, rp, chunk, workQueue, reserve, worker, pool, fences, gpu, eventCv, presentVars>>
  BY Zenon DEF MainSemWait
<1>3. main.todo # <<>> /\ main.todo[1][1] # "dispatchSubmit"
  BY <1>2 DEF At
<1>4. main' \in MainType /\ main'.todo = <<>> \o Tail(main.todo) /\ <<>> \in Seq(Ops)
      /\ TodoOK(<<>>, mode.worker)
  BY <1>1, <1>2, <1>3, MainThen, EmptyOps, CalmIsOK
<1>5. sem' \in [tick : Nat, gpuTick : Nat]
  BY <1>1, <1>2, RefreshIs
<1>6. TypeOK'
  BY <1>1, <1>2, <1>4, <1>5 DEF TypeOK, presentVars
<1> QED BY <1>2, <1>3, <1>4, <1>6, MainShape

LEMMA GetFrameShape ==
    ASSUME Shape, MainGetFrame
    PROVE  Shape'
<1>1. TypeOK /\ main \in MainType /\ main.todo \in Seq(Ops) /\ freeQueue \in Seq(MaybeFrame)
  BY StateFields DEF Shape, TypeOK
<1>2. /\ At("getFrame") /\ freeQueue # <<>> /\ freeQueue' = Tail(freeQueue) /\ freeLock' = TRUE
      /\ UNCHANGED <<mode, rp, chunk, schedVars, presentQueue, presenter, frameCv>>
  BY DEF MainGetFrame
<1>3. main.todo # <<>> /\ main.todo[1][1] # "dispatchSubmit"
  BY <1>2 DEF At
<1> DEFINE ops == <<Op("fence")>>
           r == ops \o Tail(main.todo)
           m == [main EXCEPT !.todo = r]
<1>4. ops \in Seq(Ops) /\ Calm(ops)
  BY NameOps, CalmTuples DEF OpName
<1>5. r \in Seq(Ops)
  BY <1>1, <1>3, <1>4, ThenIs
<1>6. Head(freeQueue) \in MaybeFrame /\ Tail(freeQueue) \in Seq(MaybeFrame)
  BY <1>1, <1>2
<1>7. main' = [m EXCEPT !.frame = Head(freeQueue)]
  BY DEF MainGetFrame
<1> HIDE DEF ops, r
<1>8. m \in MainType /\ m.todo = r
  BY <1>1, <1>5 DEF MainType
<1> HIDE DEF m
<1>9. main' \in MainType /\ main'.todo = r /\ main'.frame = Head(freeQueue)
  BY <1>6, <1>7, <1>8, Zenon DEF MainType
<1>10. TypeOK'
  BY <1>1, <1>2, <1>6, <1>9 DEF TypeOK, schedVars
<1>11. TodoOK(ops, mode.worker)
  BY <1>4, CalmIsOK
<1> QED BY <1>2, <1>3, <1>4, <1>9, <1>10, <1>11, MainShape DEF schedVars, r

\* What is left to do after a frame was taken that has another size.
LEMMA ResizeOpsAre ==
    ASSUME NEW f \in MaybeFrame
    PROVE  LET ops == ResizeOps \o RenderOps(f)
           IN /\ ops \in Seq(Ops) /\ DOMAIN ops = 1 .. Len(ops) /\ Len(ops) = Len(RenderOps(f)) + 2
              /\ ops[1] = Op("waitPresent") /\ ops[2] = Op("finish")
              /\ \A i \in 1 .. Len(RenderOps(f)) : ops[i + 2] = RenderOps(f)[i]
<1> DEFINE a == Op("waitPresent")
           b == Op("finish")
           u == RenderOps(f)
           ops == <<a, b>> \o u
<1>1. a \in Ops /\ b \in Ops
  BY OpTypes DEF OpName
<1>2. u \in Seq(Ops) /\ Len(u) \in Nat
  <2>1. u \in Seq(Ops)
    BY RenderOpsAre
  <2> QED BY <2>1
<1>3. ResizeOps \o RenderOps(f) = ops
  BY DEF ResizeOps
<1> HIDE DEF a, b, u
<1>4. <<a, b>> \in Seq(Ops) /\ Len(<<a, b>>) = 2 /\ <<a, b>>[1] = a /\ <<a, b>>[2] = b
  BY <1>1
<1> DEFINE ab == <<a, b>>
<1> HIDE DEF ab
<1>5. /\ ops \in Seq(Ops) /\ Len(ops) = Len(ab) + Len(u)
      /\ \A i \in 1 .. Len(ab) + Len(u) : ops[i] = IF i <= Len(ab) THEN ab[i] ELSE u[i - Len(ab)]
  BY <1>2, <1>4, ConcatProperties, Zenon DEF ab
<1> HIDE DEF ops
<1>6. Len(ab) = 2 /\ ab[1] = a /\ ab[2] = b
  BY <1>4 DEF ab
<1>7. Len(ops) = Len(u) + 2 /\ ops[1] = a /\ ops[2] = b /\ DOMAIN ops = 1 .. Len(ops)
  BY <1>2, <1>5, <1>6
<1>8. ASSUME NEW i \in 1 .. Len(u) PROVE ops[i + 2] = u[i]
  <2>1. i + 2 \in 1 .. 2 + Len(u) /\ ~(i + 2 <= 2) /\ i + 2 - 2 = i
    BY <1>2
  <2> QED BY <2>1, <1>5, <1>6
<1> QED BY <1>3, <1>5, <1>7, <1>8 DEF a, b, u

LEMMA RenderOpsCalm ==
    ASSUME NEW f \in MaybeFrame, TypeOK
    PROVE  /\ RenderOps(f) \in Seq(Ops) /\ Calm(RenderOps(f))
           /\ ResizeOps \o RenderOps(f) \in Seq(Ops) /\ Calm(ResizeOps \o RenderOps(f))
<1> DEFINE u == RenderOps(f)
           r == ResizeOps \o u
<1>1. mode.present \in BOOLEAN /\ mode.worker \in BOOLEAN
  BY StateFields
<1>2. ~Submitting(Op("render")) /\ ~Submitting(Op("dispatch")) /\ ~Submitting(Op("waitQueue"))
      /\ ~Submitting(Op("copy")) /\ ~Submitting(Op("waitPresent")) /\ ~Submitting(Op("finish"))
  BY NameOps DEF OpName
<1>3. ~Submitting(Submit(f)) /\ ~Submitting(RecordOp(<<PresentCommand(f)>>))
  <2>1. Submit(f)[1] # "record"
    BY DEF Submit
  <2> QED BY <2>1, PresentIs, RecordOps DEF Submitting
<1>4. /\ u \in Seq(Ops) /\ DOMAIN u = 1 .. Len(u)
      /\ u[1] = Op("render") /\ u[2] = Submit(f)
      /\ mode.present => Len(u) = 3 /\ u[3] = RecordOp(<<PresentCommand(f)>>)
      /\ ~mode.present /\ mode.worker =>
            Len(u) = 5 /\ u[3] = Op("dispatch") /\ u[4] = Op("waitQueue") /\ u[5] = Op("copy")
      /\ ~mode.present /\ ~mode.worker => Len(u) = 3 /\ u[3] = Op("copy")
  BY RenderOpsAre, Zenon
<1> HIDE DEF u
<1>5. ~Submitting(u[1]) /\ ~Submitting(u[2]) /\ ~Submitting(u[3])
  BY <1>1, <1>2, <1>3, <1>4, Zenon
<1>6. Len(u) = 3 \/ (Len(u) = 5 /\ ~Submitting(u[4]) /\ ~Submitting(u[5]))
  BY <1>1, <1>2, <1>4, Zenon
<1>7. Calm(u)
  <2> SUFFICES ASSUME NEW i \in DOMAIN u PROVE ~Submitting(u[i])
    BY DEF Calm
  <2> DEFINE n == Len(u)
  <2>1. i \in 1 .. n /\ n \in {3, 5}
    BY <1>4, <1>6, Zenon
  <2> HIDE DEF n
  <2>2. i \in {1, 2, 3} \/ (n # 3 /\ i \in {4, 5})
    BY <2>1
  <2> QED BY <2>2, <1>5, <1>6 DEF n
<1>8. /\ r \in Seq(Ops) /\ DOMAIN r = 1 .. Len(r) /\ Len(r) = Len(u) + 2
      /\ r[1] = Op("waitPresent") /\ r[2] = Op("finish")
      /\ \A i \in 1 .. Len(u) : r[i + 2] = u[i]
  BY ResizeOpsAre, Zenon DEF u
<1> HIDE DEF r
<1>9. Calm(r)
  <2> SUFFICES ASSUME NEW i \in DOMAIN r PROVE ~Submitting(r[i])
    BY DEF Calm
  <2> DEFINE n == Len(u)
  <2>1. i \in 1 .. n + 2 /\ n \in {3, 5}
    BY <1>8, <1>6, Zenon
  <2> HIDE DEF n
  <2>2. i \in {1, 2} \/ (i - 2 \in 1 .. n /\ i = (i - 2) + 2)
    BY <2>1
  <2>3. CASE i \in {1, 2}
    BY <2>3, <1>2, <1>8
  <2>4. CASE i - 2 \in 1 .. n /\ i = (i - 2) + 2
    <3>1. r[i] = u[i - 2] /\ i - 2 \in DOMAIN u
      BY <2>4, <1>4, <1>8, Zenon DEF n
    <3> QED BY <3>1, <1>7 DEF Calm
  <2> QED BY <2>2, <2>3, <2>4
<1> QED BY <1>4, <1>7, <1>8, <1>9 DEF u, r

\* MainFence leaves one of two lists of ops.
LEMMA FenceIs ==
    ASSUME Shape, MainFence
    PROVE  /\ main.todo # <<>> /\ main.todo[1][1] = "fence" /\ main.frame \in gpu.done
           /\ main' \in MainType /\ main'.frame = main.frame
           /\ \E ops \in {RenderOps(main.frame), ResizeOps \o RenderOps(main.frame)} :
                 main'.todo = ops \o Tail(main.todo)
           /\ gpu' \in GpuType /\ gpu'.queue = gpu.queue /\ gpu'.counter = gpu.counter
           /\ gpu'.ready = gpu.ready /\ gpu'.done = gpu.done \ {main.frame}
<1>1. TypeOK /\ main \in MainType /\ main.todo \in Seq(Ops) /\ gpu \in GpuType /\ main.frame \in MaybeFrame
      /\ main.calls \in Nat
  BY StateFields DEF Shape, TypeOK
<1>2. At("fence") /\ main.frame \in gpu.done /\ main.todo # <<>> /\ main.todo[1][1] = "fence"
  BY DEF MainFence, At
<1> DEFINE a == RenderOps(main.frame)
           b == ResizeOps \o RenderOps(main.frame)
<1>3. a \in Seq(Ops) /\ b \in Seq(Ops)
  BY <1>1, RenderOpsCalm
<1>4. main' \in MainType /\ main'.frame = main.frame /\ \E ops \in {a, b} : main'.todo = ops \o Tail(main.todo)
  <2>1. CASE Then(a)
    <3> HIDE DEF a, b
    <3> QED BY <2>1, <1>1, <1>2, <1>3, MainThen
  <2>2. CASE main' = [main EXCEPT !.calls = @ + 1, !.todo = b \o Tail(@)]
    <3> DEFINE r == b \o Tail(main.todo)
               n == main.calls + 1
               m == [main EXCEPT !.calls = n]
    <3>1. r \in Seq(Ops) /\ n \in Nat
      BY <1>1, <1>2, <1>3, ThenIs
    <3>2. main' = [m EXCEPT !.todo = r]
      BY <2>2
    <3> HIDE DEF r, n
    <3>3. m \in MainType /\ m.frame = main.frame
      BY <1>1, <3>1, Zenon DEF MainType
    <3> HIDE DEF m, a, b
    <3>4. main' \in MainType /\ main'.frame = m.frame /\ main'.todo = r
      BY <3>1, <3>2, <3>3, Zenon DEF MainType
    <3> QED BY <3>3, <3>4 DEF r
  <2>3. Then(a) \/ main' = [main EXCEPT !.calls = @ + 1, !.todo = b \o Tail(@)]
    BY DEF MainFence
  <2> QED BY <2>1, <2>2, <2>3
<1>5. /\ gpu' \in GpuType /\ gpu'.queue = gpu.queue /\ gpu'.counter = gpu.counter
      /\ gpu'.ready = gpu.ready /\ gpu'.done = gpu.done \ {main.frame}
  <2> DEFINE d == gpu.done \ {main.frame}
  <2>1. gpu' = [gpu EXCEPT !.done = d] /\ d \in SUBSET Frames
    BY <1>1 DEF MainFence, GpuType
  <2> HIDE DEF d
  <2>2. /\ gpu' \in GpuType /\ gpu'.queue = gpu.queue /\ gpu'.counter = gpu.counter
        /\ gpu'.ready = gpu.ready /\ gpu'.done = d
    BY <1>1, <2>1, Zenon DEF GpuType
  <2> QED BY <2>2 DEF d
<1> QED BY <1>2, <1>4, <1>5

LEMMA FenceShape ==
    ASSUME Shape, MainFence
    PROVE  Shape'
<1>1. TypeOK /\ main.frame \in MaybeFrame
  BY StateFields DEF Shape
<1>2. main.todo # <<>> /\ main.todo[1][1] = "fence" /\ main' \in MainType /\ gpu' \in GpuType
  BY FenceIs
<1>3. PICK ops \in {RenderOps(main.frame), ResizeOps \o RenderOps(main.frame)} :
          main'.todo = ops \o Tail(main.todo)
  BY FenceIs
<1>4. ops \in Seq(Ops) /\ Calm(ops)
  BY <1>1, RenderOpsCalm, Zenon
<1>5. TodoOK(ops, mode.worker)
  BY <1>4, CalmIsOK
<1>6. /\ freeLock' = FALSE
      /\ UNCHANGED <<mode, rp, chunk, workQueue, reserve, worker, sem, pool, fences, eventCv,
                     freeQueue, presentQueue, presenter, frameCv>>
  BY DEF MainFence
<1>7. TypeOK'
  BY <1>1, <1>2, <1>6 DEF TypeOK
<1> QED BY <1>2, <1>3, <1>4, <1>5, <1>6, <1>7, MainShape

\* The waits, the copy and the begin of a render pass.
LEMMA WaitsShape ==
    ASSUME Shape, MainWaitPresent \/ MainWaitSwapchain \/ MainWaitQueue \/ MainWaitExecution
    PROVE  Shape'
<1>1. TypeOK /\ main \in MainType /\ TodoOK(main.todo, mode.worker)
      /\ ChunksOK(mode.worker, chunk, workQueue, worker) /\ ChunkReady
  BY DEF Shape, TypeOK
<1>2. UNCHANGED <<mode, rp, chunk, workQueue, reserve, worker, sem, pool, fences, gpu,
                  freeQueue, freeLock, presentQueue, presenter>>
  BY DEF MainWaitPresent, MainWaitSwapchain, MainWaitQueue, MainWaitExecution, schedVars, presentVars
<1>3. PICK x \in {"waitPresent", "waitSwapchain", "waitQueue", "waitExecution"} : At(x)
  BY DEF MainWaitPresent, MainWaitSwapchain, MainWaitQueue, MainWaitExecution
<1>4. main.todo # <<>> /\ main.todo[1][1] # "dispatchSubmit"
  BY <1>3 DEF At
<1>5. CASE UNCHANGED main
  <2>1. TypeOK' /\ ChunkReady'
    BY <1>1, <1>2, <1>5 DEF TypeOK, ChunkReady, At
  <2>2. ChunksOK(mode.worker, chunk, workQueue, worker)'
    BY <1>1, <1>2
  <2>3. TodoOK(main.todo, mode.worker)'
    BY <1>1, <1>2, <1>5
  <2> QED BY <2>1, <2>2, <2>3 DEF Shape
<1>6. ASSUME NEW ops, Then(ops), ops \in Seq(Ops), Calm(ops) PROVE Shape'
  <2>1. main' \in MainType /\ main'.todo = ops \o Tail(main.todo)
    BY <1>1, <1>4, <1>6, MainThen
  <2>2. TypeOK'
    BY <1>1, <1>2, <2>1 DEF TypeOK
  <2>3. TodoOK(ops, mode.worker)
    BY <1>6, CalmIsOK
  <2> QED BY <1>2, <1>4, <1>6, <2>1, <2>2, <2>3, MainShape
<1>7. /\ <<>> \in Seq(Ops) /\ Calm(<<>>)
      /\ <<Op("waitSwapchain")>> \in Seq(Ops) /\ Calm(<<Op("waitSwapchain")>>)
      /\ <<Op("waitExecution")>> \in Seq(Ops) /\ Calm(<<Op("waitExecution")>>)
  <2>1. <<>> \in Seq(Ops) /\ Calm(<<>>)
    BY DEF Calm
  <2> QED BY <2>1, NameOps, CalmTuples DEF OpName
<1>8. UNCHANGED main \/ Then(<<>>) \/ Then(<<Op("waitSwapchain")>>) \/ Then(<<Op("waitExecution")>>)
  BY Zenon DEF MainWaitPresent, MainWaitSwapchain, MainWaitQueue, MainWaitExecution
<1> QED BY <1>5, <1>6, <1>7, <1>8

\* A copy is submitted to the GPU.
LEMMA CopyIs ==
    ASSUME gpu \in GpuType, NEW f \in MaybeFrame, CopyToSwapchain(f)
    PROVE  LET c == [tick |-> 0, cmdbuf |-> 0, signal |-> NoFrame, wait |-> f]
           IN /\ c \in Work /\ gpu' \in GpuType /\ gpu'.queue = Append(gpu.queue, c)
              /\ gpu'.counter = gpu.counter /\ gpu'.ready = gpu.ready /\ gpu'.done = gpu.done
<1> DEFINE c == [tick |-> 0, cmdbuf |-> 0, signal |-> NoFrame, wait |-> f]
           q == Append(gpu.queue, c)
<1>1. c \in Work /\ gpu.queue \in Seq(Work)
  BY DEF Work, MaybeFrame, GpuType
<1>2. gpu' = [gpu EXCEPT !.queue = q]
  BY DEF CopyToSwapchain
<1> HIDE DEF c
<1>3. q \in Seq(Work)
  BY <1>1
<1> HIDE DEF q
<1>4. gpu' \in GpuType /\ gpu'.queue = q /\ gpu'.counter = gpu.counter /\ gpu'.ready = gpu.ready
      /\ gpu'.done = gpu.done
  BY <1>2, <1>3, Zenon DEF GpuType
<1> QED BY <1>1, <1>4 DEF q, c

LEMMA CopyShape ==
    ASSUME Shape, MainCopy
    PROVE  Shape'
<1>1. TypeOK /\ main \in MainType /\ main.todo \in Seq(Ops) /\ main.frame \in MaybeFrame /\ gpu \in GpuType
  BY StateFields DEF Shape, TypeOK
<1>2. /\ At("copy") /\ CopyToSwapchain(main.frame) /\ freeQueue' = Append(freeQueue, main.frame) /\ Then(<<>>)
      /\ UNCHANGED <<mode, rp, chunk, workQueue, reserve, worker, sem, pool, fences, eventCv,
                     freeLock, presentQueue, presenter, frameCv>>
  BY DEF MainCopy
<1>3. main.todo # <<>> /\ main.todo[1][1] # "dispatchSubmit"
  BY <1>2 DEF At
<1>4. main' \in MainType /\ main'.todo = <<>> \o Tail(main.todo) /\ <<>> \in Seq(Ops)
      /\ TodoOK(<<>>, mode.worker)
  BY <1>1, <1>2, <1>3, MainThen, EmptyOps, CalmIsOK
<1>5. gpu' \in GpuType
  BY <1>1, <1>2, CopyIs
<1>6. freeQueue' \in Seq(MaybeFrame)
  BY <1>1, <1>2 DEF TypeOK
<1>7. TypeOK'
  BY <1>1, <1>2, <1>4, <1>5, <1>6 DEF TypeOK
<1> QED BY <1>2, <1>3, <1>4, <1>7, MainShape

LEMMA BeginShape ==
    ASSUME Shape, MainBegin
    PROVE  Shape'
<1>1. TypeOK /\ main \in MainType /\ main.todo \in Seq(Ops) /\ rp \in RpType
  BY StateFields DEF Shape, TypeOK, RpType
<1> DEFINE ops == <<RecordOp(<<Draw>>)>>
<1>2. At("begin") /\ rp' = [rp EXCEPT !.rendering = TRUE] /\ Then(ops)
      /\ UNCHANGED <<mode, chunk, schedVars, presentVars>>
  BY DEF MainBegin
<1>3. main.todo # <<>> /\ main.todo[1][1] # "dispatchSubmit"
  BY <1>2 DEF At
<1>4. ops \in Seq(Ops) /\ Calm(ops)
  BY CallsAre
<1> HIDE DEF ops
<1>5. main' \in MainType /\ main'.todo = ops \o Tail(main.todo)
  BY <1>1, <1>2, <1>3, <1>4, MainThen
<1>6. rp' \in RpType
  BY <1>1, <1>2 DEF RpType
<1>7. TypeOK'
  BY <1>1, <1>2, <1>5, <1>6 DEF TypeOK, RpType, schedVars, presentVars
<1>8. TodoOK(ops, mode.worker)
  BY <1>4, CalmIsOK
<1> QED BY <1>2, <1>3, <1>4, <1>5, <1>7, <1>8, MainShape DEF schedVars

LEMMA MainStepShape ==
    ASSUME Shape, MainStep
    PROVE  Shape'
  BY RecordShape, DispatchShape, AcquireShape, EndRenderingShape, SubmitShape, CommitShape, SemWaitShape,
     GetFrameShape, FenceShape, WaitsShape, CopyShape, BeginShape DEF MainStep

\* The worker takes the next chunk.
LEMMA PopIs ==
    ASSUME Shape, WorkerPop
    PROVE  /\ worker.pc = "check" /\ workQueue # <<>> /\ workQueue' = Tail(workQueue)
           /\ worker' \in WorkerType /\ worker'.pc = "execute"
           /\ worker'.work.cmds = Visible(Head(workQueue).cmds) /\ Head(workQueue) \in Chunk
           /\ worker'.work.submit = Head(workQueue).submit /\ workQueue' \in Seq(Chunk)
           /\ UNCHANGED <<mainVars, reserve, sem, pool, fences, gpu>>
<1> DEFINE c == Head(workQueue)
           v == Visible(c.cmds)
           d == [c EXCEPT !.cmds = v]
<1>1. worker.pc = "check" /\ workQueue # <<>> /\ workQueue' = Tail(workQueue)
      /\ worker' = [pc |-> "execute", work |-> d] /\ UNCHANGED <<mainVars, reserve, sem, pool, fences, gpu>>
  BY DEF WorkerPop
<1>2. workQueue \in Seq(Chunk)
  BY DEF Shape, TypeOK
<1>3. c \in Chunk /\ Tail(workQueue) \in Seq(Chunk)
  BY <1>1, <1>2
<1> HIDE DEF c
<1>4. v \in Seq(Command)
  <2>1. c.cmds \in Seq(Command)
    BY <1>3, ChunkFields
  <2> QED BY <2>1, VisibleKeeps
<1> HIDE DEF v
<1>5. d \in Chunk /\ d.cmds = v /\ d.submit = c.submit
  BY <1>3, <1>4, ChunkFields
<1> HIDE DEF d
<1>6. worker' \in WorkerType /\ worker'.pc = "execute" /\ worker'.work = d
  BY <1>1, <1>5 DEF WorkerType
<1> QED BY <1>1, <1>3, <1>5, <1>6 DEF c, v

LEMMA PopShape ==
    ASSUME Shape, WorkerPop, mode.worker, UNCHANGED presentVars
    PROVE  Shape'
<1>1. TypeOK /\ TodoOK(main.todo, mode.worker) /\ ChunkReady
      /\ ChunksOK(mode.worker, chunk, workQueue, worker) /\ workQueue \in Seq(Chunk)
  BY DEF Shape, TypeOK
<1> DEFINE q == workQueue
           c == Head(q)
<1>2. /\ q # <<>> /\ workQueue' = Tail(q) /\ worker' \in WorkerType /\ worker'.pc = "execute"
      /\ worker'.work.cmds = Visible(c.cmds) /\ c \in Chunk /\ worker'.work.submit = c.submit
      /\ workQueue' \in Seq(Chunk) /\ UNCHANGED <<mainVars, reserve, sem, pool, fences, gpu>>
  BY PopIs
<1>3. TypeOK'
  BY <1>1, <1>2 DEF TypeOK, mainVars, presentVars
<1>4. c = q[1] /\ 1 \in DOMAIN q /\ \A i \in DOMAIN Tail(q) : i + 1 \in DOMAIN q /\ Tail(q)[i] = q[i + 1]
  BY <1>1, <1>2
<1>5. SubmitLast(c.cmds) /\ (TicksOf(c.cmds) # {} => c.submit)
  BY <1>1, <1>4, Zenon DEF ChunksOK
<1>6. c.cmds \in Seq(Command)
  BY <1>2, ChunkFields
<1>7. SubmitLast(worker'.work.cmds) /\ (TicksOf(worker'.work.cmds) # {} => worker'.work.submit)
  BY <1>2, <1>5, <1>6, VisibleKeeps
<1>8. \A i \in DOMAIN Tail(q) : SubmitLast(Tail(q)[i].cmds)
                                /\ (TicksOf(Tail(q)[i].cmds) # {} => Tail(q)[i].submit)
  BY <1>1, <1>4, Zenon DEF ChunksOK
<1>9. ChunksOK(mode.worker, chunk, Tail(q), worker')
  BY <1>1, <1>2, <1>7, <1>8, Zenon DEF ChunksOK
<1>10. ChunksOK(mode.worker, chunk, workQueue, worker)'
  BY <1>2, <1>9 DEF mainVars
<1>11. ChunkReady' /\ TodoOK(main.todo, mode.worker)'
  BY <1>1, <1>2 DEF mainVars, ChunkReady, At
<1> QED BY <1>3, <1>10, <1>11 DEF Shape

\* The worker executes the first of its commands.
WorkTail == worker' = [worker EXCEPT !.work.cmds = Tail(@)]

LEMMA ExecuteIs ==
    ASSUME Shape, worker.work.cmds # <<>>, WorkTail
    PROVE  /\ worker' \in WorkerType /\ worker'.pc = worker.pc
           /\ worker'.work.cmds = Tail(worker.work.cmds) /\ worker'.work.submit = worker.work.submit
<1> DEFINE t == Tail(worker.work.cmds)
           d == [worker.work EXCEPT !.cmds = t]
<1>1. worker \in WorkerType /\ worker.work \in Chunk /\ worker.work.cmds \in Seq(Command)
  BY StateFields DEF Shape, TypeOK
<1>2. t \in Seq(Command)
  BY <1>1
<1>3. worker' = [worker EXCEPT !.work = d]
  BY DEF WorkTail
<1> HIDE DEF t
<1>4. d \in Chunk /\ d.cmds = t /\ d.submit = worker.work.submit
  BY <1>1, <1>2, ChunkFields
<1> HIDE DEF d
<1>5. worker' \in WorkerType /\ worker'.pc = worker.pc /\ worker'.work = d
  BY <1>1, <1>3, <1>4, Zenon DEF WorkerType
<1> QED BY <1>4, <1>5 DEF t

LEMMA ExecuteShape ==
    ASSUME Shape, worker.pc = "execute", worker.work.cmds # <<>>, WorkTail, TypeOK',
           UNCHANGED <<mainVars, workQueue>>
    PROVE  Shape'
<1>1. TodoOK(main.todo, mode.worker) /\ ChunkReady /\ ChunksOK(mode.worker, chunk, workQueue, worker)
      /\ worker.work.cmds \in Seq(Command)
  BY StateFields DEF Shape
<1>2. worker'.pc = "execute" /\ worker'.work.cmds = Tail(worker.work.cmds)
      /\ worker'.work.submit = worker.work.submit
  BY ExecuteIs
<1>3. SubmitLast(worker.work.cmds) /\ (TicksOf(worker.work.cmds) # {} => worker.work.submit)
  BY <1>1, Zenon DEF ChunksOK
<1>4. SubmitLast(worker'.work.cmds) /\ (TicksOf(worker'.work.cmds) # {} => worker'.work.submit)
  BY <1>1, <1>2, <1>3, ListTail
<1>5. mode.worker \/ ~mode.worker
  OBVIOUS
<1>6. ChunksOK(mode.worker, chunk, workQueue, worker')
  BY <1>1, <1>2, <1>4, Zenon DEF ChunksOK
<1>7. ChunksOK(mode.worker, chunk, workQueue, worker)'
  BY <1>6 DEF mainVars
<1>8. ChunkReady' /\ TodoOK(main.todo, mode.worker)'
  BY <1>1 DEF mainVars, ChunkReady, At
<1> QED BY <1>7, <1>8 DEF Shape

\* A step of another thread that leaves the chunks alone.
LEMMA OtherShape ==
    ASSUME Shape, TypeOK', UNCHANGED <<mainVars, workQueue, worker>>
    PROVE  Shape'
<1>1. ChunksOK(mode.worker, chunk, workQueue, worker)'
  BY DEF Shape, mainVars
<1>2. ChunkReady' /\ TodoOK(main.todo, mode.worker)'
  BY DEF Shape, mainVars, ChunkReady, At
<1> QED BY <1>1, <1>2 DEF Shape

\* What WorkerDone does to the worker, the pool and the semaphore.
LEMMA DoneIs ==
    ASSUME Shape, WorkerDone
    PROVE  /\ worker.pc = "execute" /\ worker.work.cmds = <<>>
           /\ worker' \in WorkerType /\ worker'.pc = "check" /\ worker'.work.cmds = <<>>
           /\ \/ ~worker.work.submit /\ UNCHANGED <<sem, pool>>
              \/ worker.work.submit /\ sem' = Refresh(sem) /\ pool' = Commit(pool, sem'.gpuTick, sem.tick)
           /\ reserve' = reserve + 1 /\ UNCHANGED <<mainVars, workQueue, fences, gpu, eventCv>>
<1>1. worker' = [pc |-> "check", work |-> NewChunk(FALSE)]
  BY DEF WorkerDone
<1>2. NewChunk(FALSE) \in Chunk /\ NewChunk(FALSE).cmds = <<>>
  BY ChunkFields
<1> DEFINE c == NewChunk(FALSE)
<1> HIDE DEF c
<1>3. worker' \in WorkerType /\ worker'.pc = "check" /\ worker'.work = c
  BY <1>1, <1>2 DEF WorkerType, c
<1>4. \/ ~worker.work.submit /\ UNCHANGED <<sem, pool>>
      \/ worker.work.submit /\ sem' = Refresh(sem) /\ pool' = Commit(pool, sem'.gpuTick, sem.tick)
  BY Zenon DEF WorkerDone
<1>5. /\ worker.pc = "execute" /\ worker.work.cmds = <<>>
      /\ reserve' = reserve + 1 /\ UNCHANGED <<mainVars, workQueue, fences, gpu, eventCv>>
  BY DEF WorkerDone
<1> QED BY <1>2, <1>3, <1>4, <1>5 DEF c

LEMMA DoneShape ==
    ASSUME Shape, WorkerDone, UNCHANGED presentVars
    PROVE  Shape'
<1>1. TypeOK /\ TodoOK(main.todo, mode.worker) /\ ChunkReady
      /\ ChunksOK(mode.worker, chunk, workQueue, worker)
      /\ sem \in [tick : Nat, gpuTick : Nat] /\ sem.tick \in Nat /\ gpu \in GpuType /\ pool \in PoolType
      /\ pool.cur \in DOMAIN pool.ticks /\ reserve \in Nat
  BY StateFields DEF Shape, TypeOK
<1>2. /\ worker.pc = "execute" /\ worker.work.cmds = <<>>
      /\ worker' \in WorkerType /\ worker'.pc = "check" /\ worker'.work.cmds = <<>>
      /\ reserve' = reserve + 1 /\ UNCHANGED <<mainVars, workQueue, fences, gpu, eventCv>>
  BY DoneIs
<1>3. sem' \in [tick : Nat, gpuTick : Nat] /\ pool' \in PoolType /\ pool'.cur \in DOMAIN pool'.ticks
  <2>1. CASE UNCHANGED <<sem, pool>>
    BY <1>1, <2>1
  <2>2. CASE sem' = Refresh(sem) /\ pool' = Commit(pool, sem'.gpuTick, sem.tick)
    <3>1. sem' \in [tick : Nat, gpuTick : Nat] /\ sem'.gpuTick \in Nat
      BY <1>1, <2>2, RefreshIs
    <3> QED BY <1>1, <2>2, <3>1, CommitIs DEF Committed
  <2> QED BY <2>1, <2>2, DoneIs
<1>4. reserve' \in Nat
  BY <1>1, <1>2
<1>5. TypeOK'
  BY <1>1, <1>2, <1>3, <1>4 DEF TypeOK, mainVars, presentVars
<1>6. TicksOf(worker'.work.cmds) = {} /\ SubmitLast(worker'.work.cmds)
  BY <1>2, ListNone
<1>7. ChunksOK(mode.worker, chunk, workQueue, worker')
  BY <1>1, <1>2, <1>6, Zenon DEF ChunksOK
<1>8. ChunksOK(mode.worker, chunk, workQueue, worker)'
  BY <1>2, <1>7 DEF mainVars
<1>9. ChunkReady' /\ TodoOK(main.todo, mode.worker)'
  BY <1>1, <1>2 DEF mainVars, ChunkReady, At
<1> QED BY <1>5, <1>8, <1>9 DEF Shape

LEMMA WorkerStepShape ==
    ASSUME Shape, WorkerStep
    PROVE  Shape'
<1>1. TypeOK /\ pool \in PoolType /\ gpu \in GpuType /\ fences \in Seq(Nat) /\ worker.work.cmds \in Seq(Command)
      /\ presentQueue \in Seq(MaybeFrame)
  BY StateFields DEF Shape, TypeOK
<1>2. CASE WorkerSleep /\ mode.worker /\ UNCHANGED presentVars
  <2>1. TypeOK'
    BY <1>1, <1>2 DEF WorkerSleep, mainVars, presentVars, TypeOK
  <2> QED BY <1>2, <2>1, OtherShape DEF WorkerSleep
<1>3. CASE WorkerPop /\ mode.worker /\ UNCHANGED presentVars
  BY <1>3, PopShape
<1>4. CASE WorkerExecute /\ mode.worker /\ UNCHANGED presentVars
  <2>1. /\ worker.pc = "execute" /\ worker.work.cmds # <<>> /\ SubmitWork(Head(worker.work.cmds))
        /\ WorkTail /\ UNCHANGED <<mainVars, workQueue, reserve, sem, pool, eventCv>>
    BY <1>4 DEF WorkerExecute, WorkTail
  <2>2. Head(worker.work.cmds) \in Command
    BY <1>1, <2>1, ListTail
  <2>3. gpu' \in GpuType /\ fences' \in Seq(Nat)
    BY <1>1, <2>1, <2>2, SubmitWorkIs
  <2>4. worker' \in WorkerType
    BY <2>1, ExecuteIs
  <2>5. TypeOK'
    BY <1>1, <1>4, <2>1, <2>3, <2>4 DEF TypeOK, mainVars, presentVars
  <2> QED BY <2>1, <2>5, ExecuteShape
<1>5. CASE WorkerDone /\ mode.worker /\ UNCHANGED presentVars
  BY <1>5, DoneShape
<1>6. CASE WorkerPresent
  <2>1. /\ worker.pc = "execute" /\ worker.work.cmds # <<>> /\ QueueFrame(Head(worker.work.cmds).frame)
        /\ WorkTail /\ UNCHANGED <<mainVars, workQueue, reserve, sem, pool, fences, gpu, eventCv>>
    BY <1>6 DEF WorkerPresent, WorkTail
  <2>2. Head(worker.work.cmds).frame \in MaybeFrame
    BY <1>1, <2>1, ListTail, CommandFields
  <2>3. presentQueue' \in Seq(MaybeFrame) /\ UNCHANGED <<freeQueue, freeLock, presenter>>
    BY <1>1, <2>1, <2>2 DEF QueueFrame
  <2>4. worker' \in WorkerType
    BY <2>1, ExecuteIs
  <2>5. TypeOK'
    BY <1>1, <2>1, <2>3, <2>4 DEF TypeOK, mainVars
  <2> QED BY <2>1, <2>5, ExecuteShape
<1> QED BY <1>2, <1>3, <1>4, <1>5, <1>6 DEF WorkerStep

LEMMA PresenterStepShape ==
    ASSUME Shape, PresenterStep
    PROVE  Shape'
<1>1. TypeOK /\ presentQueue \in Seq(MaybeFrame) /\ freeQueue \in Seq(MaybeFrame)
      /\ presenter \in [pc : {"check", "copy", "free"}, frame : MaybeFrame] /\ gpu \in GpuType
      /\ presenter.frame \in MaybeFrame
  BY StateFields DEF Shape, TypeOK
<1>2. CASE PresenterSleep
  <2>1. TypeOK'
    BY <1>1, <1>2 DEF PresenterSleep, mainVars, schedVars, TypeOK
  <2> QED BY <1>2, <2>1, OtherShape DEF PresenterSleep, schedVars
<1>3. CASE PresenterTake
  <2>1. Head(presentQueue) \in MaybeFrame /\ Tail(presentQueue) \in Seq(MaybeFrame)
    BY <1>1, <1>3 DEF PresenterTake
  <2>2. presenter' \in [pc : {"check", "copy", "free"}, frame : MaybeFrame]
    BY <1>3, <2>1 DEF PresenterTake
  <2>3. TypeOK'
    BY <1>1, <1>3, <2>1, <2>2 DEF PresenterTake, mainVars, schedVars, TypeOK
  <2> QED BY <1>3, <2>3, OtherShape DEF PresenterTake, schedVars
<1>4. CASE PresenterCopy
  <2>1. gpu' \in GpuType
    BY <1>1, <1>4, CopyIs DEF PresenterCopy
  <2>2. presenter' \in [pc : {"check", "copy", "free"}, frame : MaybeFrame]
    BY <1>1, <1>4 DEF PresenterCopy
  <2>3. TypeOK'
    BY <1>1, <1>4, <2>1, <2>2 DEF PresenterCopy, mainVars, TypeOK
  <2> QED BY <1>4, <2>3, OtherShape DEF PresenterCopy
<1>5. CASE PresenterFree
  <2>1. freeQueue' \in Seq(MaybeFrame)
    BY <1>1, <1>5 DEF PresenterFree
  <2>2. presenter' \in [pc : {"check", "copy", "free"}, frame : MaybeFrame]
    BY <1>5 DEF PresenterFree, MaybeFrame
  <2>3. TypeOK'
    BY <1>1, <1>5, <2>1, <2>2 DEF PresenterFree, mainVars, schedVars, TypeOK
  <2> QED BY <1>5, <2>3, OtherShape DEF PresenterFree, schedVars
<1> QED BY <1>2, <1>3, <1>4, <1>5 DEF PresenterStep

\* The GPU completes the first of its submissions.
LEMMA CompleteIs ==
    ASSUME TypeOK, GpuComplete
    PROVE  /\ gpu.queue # <<>> /\ Head(gpu.queue) \in Work /\ MayStart(Head(gpu.queue))
           /\ gpu' \in GpuType /\ gpu'.queue = Tail(gpu.queue)
           /\ gpu'.counter = IF Head(gpu.queue).tick > 0 THEN Head(gpu.queue).tick ELSE gpu.counter
           /\ gpu'.ready = (gpu.ready \ {Head(gpu.queue).wait}) \cup ({Head(gpu.queue).signal} \ {NoFrame})
           /\ gpu'.done = gpu.done \cup ({Head(gpu.queue).wait} \ {NoFrame})
           /\ UNCHANGED <<mainVars, workQueue, reserve, worker, sem, pool, fences, eventCv>>
<1> DEFINE s == Head(gpu.queue)
           n == IF s.tick > 0 THEN s.tick ELSE gpu.counter
           r == (gpu.ready \ {s.wait}) \cup ({s.signal} \ {NoFrame})
           d == gpu.done \cup ({s.wait} \ {NoFrame})
           q == Tail(gpu.queue)
<1>1. gpu.queue # <<>> /\ MayStart(s) /\ gpu' = GpuState(q, n, r, d)
      /\ UNCHANGED <<mainVars, workQueue, reserve, worker, sem, pool, fences, eventCv>>
  BY DEF GpuComplete
<1>2. gpu.queue \in Seq(Work) /\ gpu.counter \in Nat /\ gpu.ready \in SUBSET Frames /\ gpu.done \in SUBSET Frames
  BY StateFields
<1>3. s \in Work /\ q \in Seq(Work)
  BY <1>1, <1>2
<1> HIDE DEF s, q
<1>4. s.tick \in Nat /\ s.signal \in MaybeFrame /\ s.wait \in MaybeFrame
  BY <1>3 DEF Work
<1>5. n \in Nat
  BY <1>2, <1>4
<1>6. r \in SUBSET Frames /\ d \in SUBSET Frames
  BY <1>2, <1>4 DEF MaybeFrame
<1> HIDE DEF n, r, d
<1>7. gpu' \in GpuType /\ gpu'.queue = q /\ gpu'.counter = n /\ gpu'.ready = r /\ gpu'.done = d
  BY <1>1, <1>3, <1>5, <1>6 DEF GpuState, GpuType
<1> QED BY <1>1, <1>3, <1>7 DEF s, q, n, r, d

LEMMA OthersShape ==
    ASSUME Shape, WaitThreadStep \/ GpuStep
    PROVE  Shape'
<1>1. TypeOK /\ sem \in [tick : Nat, gpuTick : Nat] /\ fences \in Seq(Nat)
  BY DEF Shape, TypeOK
<1>2. CASE WaitThreadStep
  <2>1. Head(fences) \in Nat /\ Tail(fences) \in Seq(Nat)
    BY <1>1, <1>2 DEF WaitThreadStep, WaitThread
  <2>2. sem' \in [tick : Nat, gpuTick : Nat]
    <3> DEFINE h == Head(fences)
    <3>1. sem' = [sem EXCEPT !.gpuTick = h] /\ h \in Nat
      BY <1>2, <2>1 DEF WaitThreadStep, WaitThread
    <3> HIDE DEF h
    <3> QED BY <1>1, <3>1
  <2>3. TypeOK'
    BY <1>1, <1>2, <2>1, <2>2 DEF WaitThreadStep, WaitThread, mainVars, presentVars, TypeOK
  <2> QED BY <1>2, <2>3, OtherShape DEF WaitThreadStep, WaitThread
<1>3. CASE GpuStep
  <2>1. gpu' \in GpuType /\ UNCHANGED <<mainVars, workQueue, reserve, worker, sem, pool, fences, eventCv>>
    BY <1>1, <1>3, CompleteIs DEF GpuStep
  <2>2. TypeOK'
    BY <1>1, <1>3, <2>1 DEF GpuStep, mainVars, presentVars, TypeOK
  <2> QED BY <2>1, <2>2, OtherShape
<1> QED BY <1>2, <1>3

LEMMA NextShape ==
    ASSUME Shape, [Next]_vars
    PROVE  Shape'
<1>1. CASE UNCHANGED vars
  <2>1. TypeOK'
    BY <1>1 DEF vars, mainVars, schedVars, presentVars, Shape, TypeOK
  <2> QED BY <1>1, <2>1, OtherShape DEF vars, schedVars
<1>2. CASE Next
  BY <1>2, CallsShape, MainStepShape, WorkerStepShape, PresenterStepShape, OthersShape DEF Next
<1> QED BY <1>1, <1>2

\* The frames, in some order.
LEMMA FramesListed ==
    /\ SetToSeq(Frames) \in Seq(Frames)
    /\ \A i, j \in DOMAIN SetToSeq(Frames) : SetToSeq(Frames)[i] = SetToSeq(Frames)[j] => i = j
<1> DEFINE n == Cardinality(Frames)
<1>1. n \in Nat /\ ExistsBijection(1 .. n, Frames)
  BY SchedulerAssumption, FS_CardinalityType
<1>2. \E f \in [1 .. n -> Frames] : IsInjective(f)
  BY <1>1 DEF ExistsBijection, Bijection, Injection, Surjection, IsInjective
<1>3. SetToSeq(Frames) \in [1 .. n -> Frames] /\ IsInjective(SetToSeq(Frames))
  BY <1>2 DEF SetToSeq
<1> DEFINE s == SetToSeq(Frames)
<1> HIDE DEF s, n
<1>4. s \in Seq(Frames)
  BY <1>1, <1>3 DEF s
<1> QED BY <1>3, <1>4 DEF IsInjective, s

LEMMA InitShape ==
    ASSUME Init
    PROVE  Shape
<1>1. mode \in [timeline : BOOLEAN, worker : BOOLEAN, present : BOOLEAN] /\ rp \in [rendering : BOOLEAN, count : Nat]
      /\ reserve \in Nat /\ sem \in [tick : Nat, gpuTick : Nat] /\ fences \in Seq(Nat)
      /\ freeLock \in BOOLEAN /\ presentQueue \in Seq(MaybeFrame) /\ workQueue \in Seq(Chunk)
      /\ workQueue = <<>>
  <2>1. <<>> \in Seq(Nat) /\ <<>> \in Seq(MaybeFrame) /\ <<>> \in Seq(Chunk)
    OBVIOUS
  <2>2. fences = <<>> /\ presentQueue = <<>> /\ workQueue = <<>> /\ freeLock = FALSE
        /\ mode \in [timeline : BOOLEAN, worker : BOOLEAN, present : BOOLEAN]
    BY DEF Init
  <2>3. rp \in [rendering : BOOLEAN, count : Nat] /\ reserve \in Nat /\ sem \in [tick : Nat, gpuTick : Nat]
    BY DEF Init
  <2> QED BY <2>1, <2>2, <2>3
<1>2. main \in MainType /\ main.todo = <<>>
  <2>1. <<>> \in Seq(Ops)
    OBVIOUS
  <2> QED BY <2>1 DEF Init, MainType, MaybeFrame
<1>3. chunk \in Chunk /\ chunk.cmds = <<>>
  BY ChunkFields DEF Init
<1>4. worker \in WorkerType /\ worker.pc = "check" /\ worker.work.cmds = <<>>
  <2> DEFINE c == NewChunk(FALSE)
  <2>1. c \in Chunk /\ c.cmds = <<>> /\ worker = [pc |-> "check", work |-> c]
    BY ChunkFields DEF Init
  <2> HIDE DEF c
  <2> QED BY <2>1 DEF WorkerType
<1>5. pool \in PoolType /\ pool.cur \in DOMAIN pool.ticks
  <2> DEFINE p == [ticks |-> <<>>, hint |-> 0, cur |-> 0]
  <2>1. p \in PoolType
    BY DEF PoolType
  <2>2. pool = Commit(p, 0, 1)
    BY DEF Init
  <2> HIDE DEF p
  <2> QED BY <2>1, <2>2, CommitIs DEF Committed
<1>6. gpu \in GpuType
  <2>1. <<>> \in Seq(Work)
    OBVIOUS
  <2> QED BY <2>1 DEF Init, GpuState, GpuType
<1>7. freeQueue \in Seq(MaybeFrame)
  BY FramesListed DEF Init, MaybeFrame
<1>8. presenter \in [pc : {"check", "copy", "free"}, frame : MaybeFrame]
  BY DEF Init, MaybeFrame
<1>9. TypeOK
  BY <1>1, <1>2, <1>3, <1>4, <1>5, <1>6, <1>7, <1>8 DEF TypeOK
<1>10. TodoOK(main.todo, mode.worker)
  BY <1>2 DEF TodoOK
<1>11. ChunkReady
  BY <1>3, ListNone DEF ChunkReady
<1>12. ChunksOK(mode.worker, chunk, workQueue, worker)
  <2>1. Len(<<>>) <= ChunkSize /\ DOMAIN <<>> = {}
    BY SchedulerAssumption
  <2>2. \A i \in DOMAIN workQueue : FALSE
    BY <1>1, <2>1
  <2> QED BY <1>1, <1>3, <1>4, <2>1, <2>2, ListNone, Zenon DEF ChunksOK
<1> QED BY <1>9, <1>10, <1>11, <1>12 DEF Shape

\* The types, the form of the calls that are under way, and the flags of the
\* chunks, for every setting.
THEOREM ShapeInvariant == Spec => []Shape
<1>1. Init => Shape
  BY InitShape
<1>2. Shape /\ [Next]_vars => Shape'
  BY NextShape
<1> QED BY <1>1, <1>2, PTL DEF Spec

-----------------------------------------------------------------------------
(* Ticks.                                                                  *)

\* A step that leaves calm ops to do, and quiet ones if a submission may follow.
LEMMA TodoCalm ==
    ASSUME NEW td \in Seq(Ops), td # <<>>, NEW ops \in Seq(Ops), NEW n \in Nat, TodoTicks(td, n),
           ~Submitting(td[1]), Calm(ops), Quiet(td[1]) => \A i \in DOMAIN ops : Quiet(ops[i])
    PROVE  TodoTicks(ops \o Tail(td), n) /\ NextTick(ops \o Tail(td), n) = NextTick(td, n)
<1> DEFINE l == Len(td)
           m == Len(ops)
           r == ops \o Tail(td)
<1>1. /\ l \in Nat \ {0} /\ m \in Nat /\ DOMAIN td = 1 .. l /\ DOMAIN ops = 1 .. m
      /\ DOMAIN r = 1 .. m + l - 1
      /\ \A i \in 1 .. m : r[i] = ops[i]
      /\ \A i \in 2 .. l : r[m + i - 1] = td[i]
      /\ \A i \in 1 .. m + l - 1 :
            \/ i \in DOMAIN ops /\ r[i] = ops[i]
            \/ i - m + 1 \in 2 .. l /\ i > m /\ r[i] = td[i - m + 1]
  BY ThenIs
<1> HIDE DEF r, l, m
<1>2. ASSUME NEW i \in DOMAIN r, Submitting(r[i])
      PROVE  /\ i - m + 1 \in 2 .. l /\ r[i] = td[i - m + 1] /\ i > m
             /\ r[i][2][1].tick = n - 1
             /\ \A k \in 1 .. i - 1 : Quiet(r[k])
  <2>1. ~(i \in DOMAIN ops /\ r[i] = ops[i])
    BY <1>2 DEF Calm
  <2> DEFINE j == i - m + 1
  <2>2. j \in 2 .. l /\ i > m /\ r[i] = td[j]
    BY <1>1, <1>2, <2>1
  <2>3. i = m + j - 1 /\ j \in DOMAIN td
    BY <2>2, <1>1
  <2>4. td[j][2][1].tick = n - 1 /\ \A k \in 1 .. j - 1 : Quiet(td[k])
    <3> HIDE DEF j
    <3> QED BY <1>2, <2>2, <2>3, Zenon DEF TodoTicks
  <2>5. Quiet(td[1])
    <3>1. 1 \in 1 .. j - 1
      BY <2>2, <1>1
    <3> QED BY <2>4, <3>1
  <2>6. ASSUME NEW k \in 1 .. i - 1 PROVE Quiet(r[k])
    <3>1. CASE k <= m
      <4>1. k \in 1 .. m /\ r[k] = ops[k]
        BY <3>1, <1>1
      <4> QED BY <4>1, <2>5, <1>1
    <3>2. CASE k > m
      <4>1. k \in 1 .. m + l - 1 /\ k \notin DOMAIN ops
        BY <3>2, <1>1, <2>2
      <4>2. k - m + 1 \in 1 .. j - 1
        BY <3>2, <1>1, <2>2
      <4>3. r[k] = td[k - m + 1]
        BY <4>1, <1>1
      <4> QED BY <4>2, <4>3, <2>4
    <3> QED BY <3>1, <3>2, <1>1
  <2> QED BY <2>2, <2>4, <2>6
<1>3. TodoTicks(r, n)
  BY <1>2 DEF TodoTicks
<1>4. (\E i \in DOMAIN r : Submitting(r[i])) <=> (\E i \in DOMAIN td : Submitting(td[i]))
  <2>1. ASSUME NEW i \in DOMAIN r, Submitting(r[i]) PROVE \E j \in DOMAIN td : Submitting(td[j])
    <3>1. i - m + 1 \in 2 .. l /\ r[i] = td[i - m + 1]
      BY <1>2, <2>1
    <3>2. i - m + 1 \in DOMAIN td
      BY <3>1, <1>1
    <3> QED BY <2>1, <3>1, <3>2
  <2>2. ASSUME NEW j \in DOMAIN td, Submitting(td[j]) PROVE \E i \in DOMAIN r : Submitting(r[i])
    <3>1. j \in 2 .. l
      BY <2>2, <1>1
    <3>2. m + j - 1 \in DOMAIN r
      BY <3>1, <1>1
    <3> QED BY <2>2, <3>1, <3>2, <1>1
  <2> QED BY <2>1, <2>2
<1>5. NextTick(r, n) = NextTick(td, n)
  BY <1>4, Zenon DEF NextTick
<1> QED BY <1>3, <1>5 DEF r

\* Only the first op, or none, submits.
LEMMA TodoAlone ==
    ASSUME NEW td \in Seq(Ops), td # <<>>, NEW n \in Nat, TodoTicks(td, n), ~Quiet(td[1])
    PROVE  /\ \A i \in DOMAIN td : Submitting(td[i]) => i = 1
           /\ ~Submitting(td[1]) => NextTick(td, n) = n
           /\ Submitting(td[1]) => NextTick(td, n) = n - 1 /\ td[1][2][1].tick = n - 1
           /\ \A i \in DOMAIN Tail(td) : ~Submitting(Tail(td)[i])
<1>1. DOMAIN td = 1 .. Len(td) /\ Len(td) \in Nat \ {0} /\ 1 \in DOMAIN td
  OBVIOUS
<1>2. ASSUME NEW i \in DOMAIN td, Submitting(td[i]) PROVE i = 1
  <2>1. \A j \in 1 .. i - 1 : Quiet(td[j])
    BY <1>2, Zenon DEF TodoTicks
  <2>2. ~(1 \in 1 .. i - 1)
    BY <2>1
  <2> QED BY <2>2, <1>1
<1>3. ~Submitting(td[1]) => NextTick(td, n) = n
  BY <1>2, Zenon DEF NextTick
<1>4. Submitting(td[1]) => NextTick(td, n) = n - 1 /\ td[1][2][1].tick = n - 1
  BY <1>1, Zenon DEF NextTick, TodoTicks
<1>5. ASSUME NEW i \in DOMAIN Tail(td) PROVE ~Submitting(Tail(td)[i])
  <2>1. i + 1 \in DOMAIN td /\ i + 1 # 1 /\ Tail(td)[i] = td[i + 1]
    BY <1>1
  <2> QED BY <2>1, <1>2
<1> QED BY <1>2, <1>3, <1>4, <1>5

\* Ops of which the one at k submits, with the tick n - 1, after quiet ones, and
\* none of the rest of the call does.
LEMMA TodoNew ==
    ASSUME NEW td \in Seq(Ops), td # <<>>, NEW n \in Nat, NEW ops \in Seq(Ops),
           \A i \in DOMAIN Tail(td) : ~Submitting(Tail(td)[i]),
           OneSubmits(ops, n - 1)
    PROVE  TodoTicks(ops \o Tail(td), n) /\ NextTick(ops \o Tail(td), n) = n - 1
<1> DEFINE t == Tail(td)
           r == ops \o t
<1>1. t \in Seq(Ops) /\ Len(t) \in Nat /\ DOMAIN t = 1 .. Len(t)
      /\ Len(ops) \in Nat /\ DOMAIN ops = 1 .. Len(ops)
  OBVIOUS
<1> HIDE DEF t
<1>2. Len(r) = Len(ops) + Len(t)
      /\ \A i \in 1 .. Len(ops) + Len(t) : r[i] = IF i <= Len(ops) THEN ops[i] ELSE t[i - Len(ops)]
  BY <1>1, ConcatProperties, Zenon
<1>3. DOMAIN r = 1 .. Len(ops) + Len(t)
  BY <1>1
<1> HIDE DEF r
<1>0. PICK k \in DOMAIN ops : /\ Submitting(ops[k]) /\ ops[k][2][1].tick = n - 1
                              /\ \A i \in DOMAIN ops : Submitting(ops[i]) => i = k
                              /\ \A i \in 1 .. k - 1 : Quiet(ops[i])
  BY DEF OneSubmits
<1>4. ASSUME NEW i \in DOMAIN r, Submitting(r[i]) PROVE i = k
  <2>1. CASE i <= Len(ops)
    <3>1. r[i] = ops[i] /\ i \in DOMAIN ops
      BY <2>1, <1>1, <1>2, <1>3
    <3> QED BY <3>1, <1>0, <1>4
  <2>2. CASE ~(i <= Len(ops))
    <3>1. i - Len(ops) \in DOMAIN t
      BY <2>2, <1>1, <1>3
    <3>2. r[i] = t[i - Len(ops)]
      BY <2>2, <1>2, <1>3
    <3> QED BY <3>1, <3>2, <1>4 DEF t
  <2> QED BY <2>1, <2>2
<1>5. k \in DOMAIN r /\ r[k] = ops[k] /\ \A i \in 1 .. k - 1 : r[i] = ops[i]
  BY <1>1, <1>2, <1>3
<1>6. TodoTicks(r, n)
  <2> SUFFICES ASSUME NEW i \in DOMAIN r, Submitting(r[i])
               PROVE  r[i][2][1].tick = n - 1 /\ \A j \in 1 .. i - 1 : Quiet(r[j])
    BY DEF TodoTicks
  <2>1. i = k
    BY <1>4
  <2> QED BY <2>1, <1>0, <1>5
<1>7. NextTick(r, n) = n - 1
  BY <1>0, <1>5, Zenon DEF NextTick
<1> QED BY <1>6, <1>7 DEF r, t

-----------------------------------------------------------------------------
(* The ticks along the pipe.                                               *)

\* The stages T have the ticks of those of S, at h, in the same order.
LEMMA PipeMoves ==
    ASSUME NEW S, NEW T, NEW G \in SUBSET Nat, NEW H \in SUBSET G, NEW n \in Nat, NEW m \in Nat, n <= m,
           PipeOK(S, G, n), \A a \in DOMAIN S : TicksOf(S[a]) \subseteq Nat,
           NEW h,
           \A a \in DOMAIN T : TicksOf(T[a]) # {} => h[a] \in DOMAIN S /\ TicksOf(T[a]) \subseteq TicksOf(S[h[a]]),
           \A a, b \in DOMAIN T : a < b /\ TicksOf(T[a]) # {} /\ TicksOf(T[b]) # {} => h[a] < h[b]
    PROVE  PipeOK(T, H, m)
<1>1. \A g \in H : g < m
  BY DEF PipeOK
<1>2. ASSUME NEW a \in DOMAIN T, NEW v \in TicksOf(T[a]) PROVE v < m /\ \A g \in H : g < v
  <2>1. h[a] \in DOMAIN S /\ v \in TicksOf(S[h[a]]) /\ v \in Nat
    OBVIOUS
  <2>2. v < n /\ \A g \in G : g < v
    BY <2>1, Zenon DEF PipeOK
  <2> QED BY <2>1, <2>2
<1>3. ASSUME NEW a \in DOMAIN T, NEW b \in DOMAIN T, a < b, NEW v \in TicksOf(T[a]), NEW x \in TicksOf(T[b])
      PROVE  v < x
  <2>1. h[a] \in DOMAIN S /\ v \in TicksOf(S[h[a]]) /\ h[b] \in DOMAIN S /\ x \in TicksOf(S[h[b]])
    OBVIOUS
  <2>2. h[a] < h[b]
    BY <1>3
  <2> QED BY <2>1, <2>2, Zenon DEF PipeOK
<1> QED BY <1>1, <1>2, <1>3 DEF PipeOK

\* A submission with the tick n is recorded in the last stage, z.
LEMMA PipeGrows ==
    ASSUME NEW S, NEW T, NEW G \in SUBSET Nat, NEW n \in Nat, PipeOK(S, G, n),
           DOMAIN T = DOMAIN S, DOMAIN S \subseteq Nat,
           \A a \in DOMAIN S : TicksOf(S[a]) \subseteq Nat,
           NEW z \in DOMAIN S, \A a \in DOMAIN S : a <= z /\ (a # z => TicksOf(T[a]) = TicksOf(S[a])),
           TicksOf(T[z]) = {n}
    PROVE  PipeOK(T, G, n + 1)
<1>1. \A g \in G : g < n + 1
  BY DEF PipeOK
<1>2. ASSUME NEW a \in DOMAIN T, NEW v \in TicksOf(T[a]) PROVE v < n + 1 /\ \A g \in G : g < v
  <2>1. CASE a = z
    BY <2>1 DEF PipeOK
  <2>2. CASE a # z
    <3>1. v \in TicksOf(S[a]) /\ v \in Nat
      BY <2>2
    <3>2. v < n /\ \A g \in G : g < v
      BY <3>1, Zenon DEF PipeOK
    <3> QED BY <3>1, <3>2
  <2> QED BY <2>1, <2>2
<1>3. ASSUME NEW a \in DOMAIN T, NEW b \in DOMAIN T, a < b, NEW v \in TicksOf(T[a]), NEW x \in TicksOf(T[b])
      PROVE  v < x
  <2>1. a # z /\ v \in TicksOf(S[a])
    <3>1. a # z
      BY <1>3
    <3> QED BY <3>1
  <2>2. CASE b = z
    BY <2>1, <2>2, Zenon DEF PipeOK
  <2>3. CASE b # z
    BY <2>1, <2>3, <1>3, Zenon DEF PipeOK
  <2> QED BY <2>2, <2>3
<1> QED BY <1>1, <1>2, <1>3 DEF PipeOK

\* The first stage's submission, with the tick v, goes to the GPU.
LEMMA PipeSubmits ==
    ASSUME NEW S, NEW T, NEW G \in SUBSET Nat, NEW n \in Nat, PipeOK(S, G, n),
           DOMAIN T = DOMAIN S, DOMAIN S \subseteq Nat \ {0}, 1 \in DOMAIN S,
           \A a \in DOMAIN S : a # 1 => TicksOf(T[a]) = TicksOf(S[a]),
           NEW v \in TicksOf(S[1]), TicksOf(T[1]) = {}
    PROVE  PipeOK(T, G \cup {v}, n)
<1>1. v < n /\ \A g \in G : g < v
  BY Zenon DEF PipeOK
<1>2. ASSUME NEW a \in DOMAIN T, NEW x \in TicksOf(T[a]) PROVE x < n /\ \A g \in G \cup {v} : g < x
  <2>1. a # 1 /\ x \in TicksOf(S[a])
    OBVIOUS
  <2>2. 1 < a
    BY <2>1
  <2>3. x < n /\ (\A g \in G : g < x) /\ v < x
    BY <2>1, <2>2, Zenon DEF PipeOK
  <2> QED BY <2>3
<1>3. ASSUME NEW a \in DOMAIN T, NEW b \in DOMAIN T, a < b, NEW x \in TicksOf(T[a]), NEW y \in TicksOf(T[b])
      PROVE  x < y
  <2>1. a # 1 /\ x \in TicksOf(S[a]) /\ b # 1 /\ y \in TicksOf(S[b])
    OBVIOUS
  <2> QED BY <2>1, <1>3, Zenon DEF PipeOK
<1>4. \A g \in G \cup {v} : g < n
  BY <1>1 DEF PipeOK
<1> QED BY <1>2, <1>3, <1>4 DEF PipeOK

LEMMA StagesAre ==
    ASSUME TypeOK
    PROVE  /\ DOMAIN Stages = 1 .. Len(workQueue) + 2 /\ Len(workQueue) \in Nat
           /\ DOMAIN Stages \subseteq Nat \ {0} /\ 1 \in DOMAIN Stages /\ Len(workQueue) + 2 \in DOMAIN Stages
           /\ \A a \in DOMAIN Stages : Stages[a] \in Seq(Command) /\ TicksOf(Stages[a]) \subseteq Nat
           /\ Stages[1] = worker.work.cmds /\ Stages[Len(workQueue) + 2] = chunk.cmds
           /\ \A i \in DOMAIN workQueue : i + 1 \in DOMAIN Stages /\ Stages[i + 1] = workQueue[i].cmds
<1>1. worker.work.cmds \in Seq(Command) /\ chunk.cmds \in Seq(Command) /\ workQueue \in Seq(Chunk)
  BY StateFields DEF TypeOK
<1>2. /\ DOMAIN Stages = 1 .. Len(workQueue) + 2 /\ Len(workQueue) \in Nat
      /\ \A a \in 1 .. Len(workQueue) + 2 : Stages[a] \in Seq(Command)
      /\ Stages[1] = worker.work.cmds /\ Stages[Len(workQueue) + 2] = chunk.cmds
      /\ \A i \in DOMAIN workQueue :
            i + 1 \in 2 .. Len(workQueue) + 1 /\ Stages[i + 1] = workQueue[i].cmds
  BY <1>1, PipeIs DEF Stages
<1> DEFINE n == Len(workQueue)
<1> HIDE DEF n
<1>3. \A a \in 1 .. n + 2 : a \in Nat \ {0}
  OBVIOUS
<1>4. n \in Nat => 1 \in 1 .. n + 2 /\ n + 2 \in 1 .. n + 2
  OBVIOUS
<1>5. \A i \in 2 .. n + 1 : n \in Nat => i \in 1 .. n + 2
  OBVIOUS
<1>6. \A a \in DOMAIN Stages : TicksOf(Stages[a]) \subseteq Nat
  BY <1>2, ListTypes
<1>7. DOMAIN Stages \subseteq Nat \ {0} /\ 1 \in DOMAIN Stages /\ Len(workQueue) + 2 \in DOMAIN Stages
  BY <1>2, <1>3, <1>4, Zenon DEF n
<1>8. \A i \in DOMAIN workQueue : i + 1 \in DOMAIN Stages
  BY <1>2, <1>5, Zenon DEF n
<1> QED BY <1>2, <1>6, <1>7, <1>8, Zenon

LEMMA BegunIs ==
    ASSUME TypeOK
    PROVE  /\ Begun(gpu) \in SUBSET Nat /\ gpu.counter \in Begun(gpu)
           /\ \A i \in DOMAIN gpu.queue : gpu.queue[i] \in Work /\ gpu.queue[i].tick \in Nat
                                          /\ (gpu.queue[i].tick > 0 => gpu.queue[i].tick \in Begun(gpu))
<1>1. gpu.queue \in Seq(Work) /\ gpu.counter \in Nat
  BY StateFields
<1>2. \A i \in DOMAIN gpu.queue : gpu.queue[i] \in Work
  BY <1>1
<1>3. \A i \in DOMAIN gpu.queue : gpu.queue[i].tick \in Nat
  BY <1>2 DEF Work
<1> QED BY <1>1, <1>2, <1>3 DEF Begun

LEMMA ComingIs ==
    ASSUME TypeOK, sem.tick > 0
    PROVE  Coming \in Nat /\ Coming <= sem.tick
<1>1. sem.tick \in Nat
  BY StateFields
<1>2. Coming = sem.tick \/ Coming = sem.tick - 1
  BY Zenon DEF Coming, NextTick
<1> QED BY <1>1, <1>2

\* A submission of the tick v, or a copy (v = 0), at the end of the GPU's queue.
LEMMA GpuAppend ==
    ASSUME TypeOK, TypeOK', GpuOK(gpu.queue, gpu.counter, fences),
           NEW s \in Work, gpu'.queue = Append(gpu.queue, s), gpu'.counter = gpu.counter,
           fences' = fences \/ (fences' = Append(fences, s.tick) /\ s.tick > 0),
           s.tick > 0 => \A g \in Begun(gpu) : g < s.tick
    PROVE  /\ GpuOK(gpu.queue, gpu.counter, fences)'
           /\ Begun(gpu') = Begun(gpu) \cup ({s.tick} \ {0})
           /\ \A i \in DOMAIN gpu'.queue : (i \in DOMAIN gpu.queue /\ gpu'.queue[i] = gpu.queue[i])
                                           \/ gpu'.queue[i] = s
<1> DEFINE q == gpu.queue
           r == gpu'.queue
           c == gpu.counter
<1>1. q \in Seq(Work) /\ s.tick \in Nat /\ c \in Nat /\ fences \in Seq(Nat)
  BY StateFields DEF Work, TypeOK
<1>2. Begun(gpu) \in SUBSET Nat /\ c \in Begun(gpu)
      /\ \A i \in DOMAIN q : q[i].tick \in Nat /\ (q[i].tick > 0 => q[i].tick \in Begun(gpu))
  BY BegunIs
<1>3. \A i \in DOMAIN r : (i \in DOMAIN q /\ r[i] = q[i]) \/ (i = Len(q) + 1 /\ r[i] = s)
  BY <1>1
<1>4. \A i \in DOMAIN q : i \in DOMAIN r /\ r[i] = q[i] /\ i < Len(q) + 1 /\ i \in Int
  BY <1>1
<1>5. Len(q) + 1 \in DOMAIN r /\ r[Len(q) + 1] = s
  BY <1>1
<1>6. gpu'.counter = c
  OBVIOUS
<1> DEFINE z == Len(q) + 1
<1> HIDE DEF q, r, c, z
<1>7. Begun(gpu') = Begun(gpu) \cup ({s.tick} \ {0})
  <2> DEFINE A == {q[i].tick : i \in DOMAIN q}
             B == {r[i].tick : i \in DOMAIN r}
  <2>1. B = A \cup {s.tick}
    BY <1>3, <1>4, <1>5
  <2>2. Begun(gpu) = {c} \cup (A \ {0}) /\ Begun(gpu') = {c} \cup (B \ {0})
    BY <1>6 DEF Begun, q, r, c
  <2> HIDE DEF A, B
  <2> QED BY <2>1, <2>2
<1>8. ASSUME NEW i \in DOMAIN r, r[i].tick > 0 PROVE c < r[i].tick
  <2>1. CASE i \in DOMAIN q /\ r[i] = q[i]
    BY <2>1, <1>8 DEF GpuOK, q, c
  <2>2. CASE r[i] = s
    BY <2>2, <1>2, <1>8
  <2> QED BY <2>1, <2>2, <1>3
<1>9. ASSUME NEW i \in DOMAIN r, NEW j \in DOMAIN r, i < j, r[i].tick > 0, r[j].tick > 0
      PROVE  r[i].tick < r[j].tick
  <2>1. CASE i \in DOMAIN q /\ j \in DOMAIN q
    <3>1. r[i] = q[i] /\ r[j] = q[j]
      BY <2>1, <1>4
    <3> QED BY <3>1, <2>1, <1>9, Zenon DEF GpuOK, q
  <2>2. CASE i \in DOMAIN q /\ j \notin DOMAIN q
    <3>1. r[i] = q[i] /\ r[j] = s
      BY <2>2, <1>3, <1>4
    <3> QED BY <3>1, <2>2, <1>2, <1>9
  <2>3. CASE i \notin DOMAIN q
    <3>1. (i = Len(q) + 1 /\ j = Len(q) + 1) \/ (i = Len(q) + 1 /\ j < Len(q) + 1 /\ j \in Int)
      BY <2>3, <1>3, <1>4
    <3>2. Len(q) + 1 \in Int
      BY <1>1 DEF q
    <3> QED BY <3>1, <3>2, <1>9
  <2> QED BY <2>1, <2>2, <2>3
<1>10. ASSUME NEW k \in DOMAIN fences'
       PROVE  fences'[k] <= c \/ \E i \in DOMAIN r : r[i].tick > 0 /\ r[i].tick = fences'[k]
  <2>1. (k \in DOMAIN fences /\ fences'[k] = fences[k]) \/ (fences'[k] = s.tick /\ s.tick > 0)
    <3>1. CASE fences' = fences
      BY <3>1, <1>10
    <3>2. CASE fences' = Append(fences, s.tick) /\ s.tick > 0
      BY <3>2, <1>1, <1>10
    <3> QED BY <3>1, <3>2
  <2>2. CASE k \in DOMAIN fences /\ fences'[k] = fences[k]
    <3>1. fences[k] <= c \/ \E i \in DOMAIN q : q[i].tick > 0 /\ q[i].tick = fences[k]
      BY <2>2, Zenon DEF GpuOK, q, c
    <3> QED BY <3>1, <2>2, <1>4
  <2>3. CASE fences'[k] = s.tick /\ s.tick > 0
    BY <2>3, <1>5
  <2> QED BY <2>1, <2>2, <2>3
<1>11. GpuOK(gpu.queue, gpu.counter, fences)'
  BY <1>6, <1>8, <1>9, <1>10, Zenon DEF GpuOK, r
<1> QED BY <1>7, <1>11, <1>3 DEF q, r

\* The pool when nothing is submitted and no command buffer is taken.
LEMMA PoolKept ==
    ASSUME PoolOK, UNCHANGED pool, Used => Used', Upcoming \subseteq Upcoming',
           \A i \in DOMAIN gpu'.queue : \/ \E j \in DOMAIN gpu.queue : gpu'.queue[i] = gpu.queue[j]
                                        \/ ~(gpu'.queue[i].tick > 0)
    PROVE  PoolOK'
<1>1. ASSUME NEW i \in DOMAIN gpu'.queue PROVE InUse(gpu'.queue[i], pool', Used')
  <2>1. CASE \E j \in DOMAIN gpu.queue : gpu'.queue[i] = gpu.queue[j]
    <3>1. PICK j \in DOMAIN gpu.queue : gpu'.queue[i] = gpu.queue[j]
      BY <2>1
    <3>2. InUse(gpu.queue[j], pool, Used)
      BY Zenon DEF PoolOK
    <3> QED BY <3>1, <3>2, Zenon DEF InUse
  <2>2. CASE ~(gpu'.queue[i].tick > 0)
    BY <2>2, Zenon DEF InUse
  <2> QED BY <2>1, <2>2
<1>2. Used' \/ \E v \in Upcoming' : v <= pool'.ticks[pool'.cur]
  BY Zenon DEF PoolOK
<1> QED BY <1>1, <1>2 DEF PoolOK

\* A step that records and submits nothing.
LEMMA CalmStep ==
    ASSUME Inv, Shape', UNCHANGED <<mode, chunk, workQueue, worker, pool, fences>>,
           sem'.tick = sem.tick, sem'.gpuTick <= gpu.counter, gpu'.counter = gpu.counter,
           \/ gpu'.queue = gpu.queue
           \/ \E s \in Work : s.tick = 0 /\ gpu'.queue = Append(gpu.queue, s),
           TodoTicks(main'.todo, sem.tick), NextTick(main'.todo, sem.tick) = NextTick(main.todo, sem.tick),
           At("commit") => At("commit")'
    PROVE  Inv'
<1>1. TypeOK /\ TypeOK' /\ TicksOK /\ GpuOK(gpu.queue, gpu.counter, fences) /\ PoolOK
  BY DEF Inv, Shape
<1>2. Stages' = Stages /\ Coming' = Coming
  BY DEF Stages, Coming
<1>3. Begun(gpu') = Begun(gpu) /\ GpuOK(gpu.queue, gpu.counter, fences)'
      /\ \A i \in DOMAIN gpu'.queue : \/ \E j \in DOMAIN gpu.queue : gpu'.queue[i] = gpu.queue[j]
                                      \/ ~(gpu'.queue[i].tick > 0)
  <2>1. CASE gpu'.queue = gpu.queue
    <3>1. Begun(gpu') = Begun(gpu)
      BY <2>1 DEF Begun
    <3>2. GpuOK(gpu.queue, gpu.counter, fences)'
      BY <1>1, <2>1
    <3> QED BY <2>1, <3>1, <3>2
  <2>2. CASE \E s \in Work : s.tick = 0 /\ gpu'.queue = Append(gpu.queue, s)
    <3>1. PICK s \in Work : s.tick = 0 /\ gpu'.queue = Append(gpu.queue, s)
      BY <2>2
    <3>2. ~(s.tick > 0)
      BY <3>1
    <3>3. /\ GpuOK(gpu.queue, gpu.counter, fences)'
          /\ Begun(gpu') = Begun(gpu) \cup ({s.tick} \ {0})
          /\ \A i \in DOMAIN gpu'.queue : (i \in DOMAIN gpu.queue /\ gpu'.queue[i] = gpu.queue[i])
                                           \/ gpu'.queue[i] = s
      BY <1>1, <3>1, <3>2, GpuAppend
    <3> QED BY <3>1, <3>2, <3>3
  <2> QED BY <2>1, <2>2
<1>4. TicksOK'
  <2>1. sem.tick > 0 /\ PipeOK(Stages, Begun(gpu), Coming)
    BY <1>1 DEF TicksOK
  <2>2. PipeOK(Stages, Begun(gpu), Coming)'
    BY <2>1, <1>2, <1>3
  <2> QED BY <2>1, <2>2 DEF TicksOK
<1>5. Used => Used'
  BY Zenon DEF Used
<1>6. Upcoming' = Upcoming
  BY <1>2 DEF Upcoming
<1>7. PoolOK'
  BY <1>1, <1>3, <1>5, <1>6, PoolKept
<1> QED BY <1>3, <1>4, <1>7 DEF Inv

\* The same, with the ops that it leaves to do.
LEMMA CalmThen ==
    ASSUME Inv, Shape', main.todo # <<>>, ~Submitting(main.todo[1]), main.todo[1][1] # "commit",
           NEW ops \in Seq(Ops), Calm(ops), Quiet(main.todo[1]) => \A i \in DOMAIN ops : Quiet(ops[i]),
           main'.todo = ops \o Tail(main.todo),
           UNCHANGED <<mode, chunk, workQueue, worker, pool, fences>>,
           sem'.tick = sem.tick, sem'.gpuTick <= gpu.counter, gpu'.counter = gpu.counter,
           \/ gpu'.queue = gpu.queue
           \/ \E s \in Work : s.tick = 0 /\ gpu'.queue = Append(gpu.queue, s)
    PROVE  Inv'
<1>1. main.todo \in Seq(Ops) /\ sem.tick \in Nat /\ TodoTicks(main.todo, sem.tick)
  BY StateFields DEF Inv, Shape, TicksOK
<1>2. TodoTicks(main'.todo, sem.tick) /\ NextTick(main'.todo, sem.tick) = NextTick(main.todo, sem.tick)
  BY <1>1, TodoCalm
<1>3. ~At("commit")
  BY DEF At
<1> QED BY <1>2, <1>3, CalmStep

LEMMA CallsInv ==
    ASSUME Inv, Shape', StartDraw \/ StartFlush \/ StartFinish \/ RenderToWindow
    PROVE  Inv'
<1>1. PICK ops : Calm(ops) /\ ops \in Seq(Ops) /\ Start(ops)
  BY CallsAre DEF StartDraw, StartFlush, StartFinish, RenderToWindow
<1>2. TypeOK /\ main \in MainType /\ main.todo = <<>> /\ sem.tick \in Nat
  BY <1>1, StateFields DEF Inv, Shape, TypeOK, Start
<1>3. main'.todo = ops
  BY <1>1, <1>2 DEF Start, MainType
<1>4. TodoTicks(main'.todo, sem.tick) /\ NextTick(main'.todo, sem.tick) = sem.tick
  BY <1>1, <1>3, Zenon DEF TodoTicks, NextTick, Calm
<1>5. NextTick(main.todo, sem.tick) = sem.tick
  <2>1. \A i \in DOMAIN main.todo : FALSE
    BY <1>2
  <2> QED BY <2>1, Zenon DEF NextTick
<1>6. ~At("commit")
  BY <1>2 DEF At
<1>7. UNCHANGED <<mode, chunk, schedVars, presentVars>> /\ sem.gpuTick <= gpu.counter
  BY <1>1 DEF Start, Inv, TicksOK
<1> QED BY <1>4, <1>5, <1>6, <1>7, CalmStep DEF schedVars

\* Ops that neither submit nor may come before a submission.
LEMMA LoudOps ==
    ASSUME NEW x \in Ops, x[1] \notin {"record", "endRendering", "dispatch", "acquire"}
    PROVE  ~Submitting(x) /\ ~Quiet(x)
  BY DEF Submitting, Quiet

LEMMA EndRenderingInv ==
    ASSUME Inv, Shape', ~ShouldFlush, MainEndRendering \/ MainRender
    PROVE  Inv'
<1>1. PICK rest \in {<<>>, <<Draw>>}, x \in {"endRendering", "render"} : At(x) /\ EndRendering(rest)
  BY DEF MainEndRendering, MainRender
<1>2. TypeOK /\ main \in MainType /\ rp \in RpType /\ UNCHANGED <<mode, chunk, schedVars, presentVars>>
      /\ sem.gpuTick <= gpu.counter
  BY DEF Inv, Shape, TypeOK, RpType, MainEndRendering, MainRender, TicksOK
<1> DEFINE ops == EndOps(rest)
<1>3. ops \in Seq(Ops) /\ Calm(ops) /\ Then(ops)
  BY <1>1, <1>2, EndOpsAre
<1>4. PICK s \in Seq(Command) : TicksOf(s) = {} /\ ops = <<RecordOp(s)>>
  BY <1>1, <1>2, EndOpsAre
<1>5. \A i \in DOMAIN ops : Quiet(ops[i])
  <2>1. Quiet(RecordOp(s))
    BY <1>4, RecordOps DEF Quiet
  <2>2. \A i \in DOMAIN ops : ops[i] = RecordOp(s)
    BY <1>4
  <2> QED BY <2>1, <2>2
<1> HIDE DEF ops
<1>6. main.todo # <<>> /\ ~Submitting(main.todo[1]) /\ main.todo[1][1] # "commit"
  BY <1>1 DEF At, Submitting
<1>7. main'.todo = ops \o Tail(main.todo)
  BY <1>2, <1>3, <1>6, MainThen
<1> QED BY <1>2, <1>3, <1>5, <1>6, <1>7, CalmThen DEF schedVars

LEMMA SemWaitInv ==
    ASSUME Inv, Shape', MainSemWait
    PROVE  Inv'
<1>1. TypeOK /\ main \in MainType /\ main.todo \in Seq(Ops) /\ sem \in [tick : Nat, gpuTick : Nat]
      /\ gpu \in GpuType /\ sem.gpuTick <= gpu.counter
  BY StateFields DEF Inv, Shape, TypeOK, TicksOK
<1>2. /\ At("semWait") /\ sem' \in {sem, Refresh(sem)} /\ Then(<<>>)
      /\ UNCHANGED <<mode, rp, chunk, workQueue, reserve, worker, pool, fences, gpu, eventCv, presentVars>>
  BY Zenon DEF MainSemWait
<1>3. main.todo # <<>> /\ main.todo[1][1] = "semWait" /\ main.todo[1] \in Ops
  BY <1>1, <1>2, AtFacts
<1>4. main'.todo = <<>> \o Tail(main.todo) /\ <<>> \in Seq(Ops) /\ Calm(<<>>)
  BY <1>1, <1>2, <1>3, MainThen, EmptyOps
<1>5. sem'.tick = sem.tick /\ sem'.gpuTick <= gpu.counter
  BY <1>1, <1>2, RefreshIs
<1>6. ~Submitting(main.todo[1]) /\ ~Quiet(main.todo[1])
  BY <1>3, LoudOps
<1> QED BY <1>2, <1>3, <1>4, <1>5, <1>6, CalmThen

LEMMA GetFrameInv ==
    ASSUME Inv, Shape', MainGetFrame
    PROVE  Inv'
<1>1. TypeOK /\ main \in MainType /\ main.todo \in Seq(Ops) /\ sem.gpuTick <= gpu.counter
  BY StateFields DEF Inv, Shape, TypeOK, TicksOK
<1>2. At("getFrame") /\ UNCHANGED <<mode, rp, chunk, schedVars, presentQueue, presenter, frameCv>>
  BY DEF MainGetFrame
<1>3. main.todo # <<>> /\ main.todo[1][1] = "getFrame" /\ main.todo[1] \in Ops
  BY <1>1, <1>2, AtFacts
<1> DEFINE ops == <<Op("fence")>>
           r == ops \o Tail(main.todo)
           m == [main EXCEPT !.todo = r]
<1>4. ops \in Seq(Ops) /\ Calm(ops)
  BY NameOps, CalmTuples DEF OpName
<1>5. main' = [m EXCEPT !.frame = Head(freeQueue)]
  BY DEF MainGetFrame
<1> HIDE DEF ops, r
<1>6. m.todo = r /\ "frame" \in DOMAIN m /\ "todo" \in DOMAIN m
  BY <1>1 DEF MainType
<1> HIDE DEF m
<1>7. main'.todo = r
  BY <1>5, <1>6
<1>8. ~Submitting(main.todo[1]) /\ ~Quiet(main.todo[1])
  BY <1>3, LoudOps
<1> QED BY <1>1, <1>2, <1>3, <1>4, <1>7, <1>8, CalmThen DEF schedVars, r

LEMMA FenceInv ==
    ASSUME Inv, Shape', MainFence
    PROVE  Inv'
<1>1. TypeOK /\ Shape /\ main.frame \in MaybeFrame /\ sem.gpuTick <= gpu.counter
  BY StateFields DEF Inv, Shape, TicksOK
<1>2. main.todo # <<>> /\ main.todo[1][1] = "fence" /\ gpu'.queue = gpu.queue /\ gpu'.counter = gpu.counter
  BY <1>1, FenceIs
<1>3. PICK ops \in {RenderOps(main.frame), ResizeOps \o RenderOps(main.frame)} :
          main'.todo = ops \o Tail(main.todo)
  BY <1>1, FenceIs
<1>4. ops \in Seq(Ops) /\ Calm(ops)
  BY <1>1, RenderOpsCalm, Zenon
<1>5. UNCHANGED <<mode, chunk, workQueue, worker, sem, pool, fences>>
  BY DEF MainFence
<1>6. main.todo[1] \in Ops
  BY <1>1, <1>2, StateFields
<1>7. ~Submitting(main.todo[1]) /\ ~Quiet(main.todo[1])
  BY <1>2, <1>6, LoudOps
<1> QED BY <1>1, <1>2, <1>3, <1>4, <1>5, <1>7, CalmThen

LEMMA WaitsInv ==
    ASSUME Inv, Shape', MainWaitPresent \/ MainWaitSwapchain \/ MainWaitQueue \/ MainWaitExecution
    PROVE  Inv'
<1>1. TypeOK /\ main \in MainType /\ sem.gpuTick <= gpu.counter /\ TodoTicks(main.todo, sem.tick)
  BY DEF Inv, Shape, TypeOK, TicksOK
<1>2. UNCHANGED <<mode, rp, chunk, workQueue, reserve, worker, sem, pool, fences, gpu>>
  BY DEF MainWaitPresent, MainWaitSwapchain, MainWaitQueue, MainWaitExecution, schedVars, presentVars
<1>3. PICK x \in {"waitPresent", "waitSwapchain", "waitQueue", "waitExecution"} : At(x)
  BY DEF MainWaitPresent, MainWaitSwapchain, MainWaitQueue, MainWaitExecution
<1>4. main.todo # <<>> /\ main.todo[1][1] = x /\ main.todo[1] \in Ops /\ x # "commit"
      /\ x \notin {"record", "endRendering", "dispatch", "acquire"}
  BY <1>1, <1>3, AtFacts
<1>5. CASE UNCHANGED main
  <2>1. ~At("commit")
    BY <1>4 DEF At
  <2> QED BY <1>1, <1>2, <1>5, <2>1, CalmStep
<1>6. ASSUME NEW ops, Then(ops), ops \in Seq(Ops), Calm(ops) PROVE Inv'
  <2>1. main'.todo = ops \o Tail(main.todo)
    BY <1>1, <1>4, <1>6, MainThen
  <2>2. ~Submitting(main.todo[1]) /\ ~Quiet(main.todo[1])
    BY <1>4, LoudOps
  <2> QED BY <1>1, <1>2, <1>4, <1>6, <2>1, <2>2, CalmThen
<1>7. /\ <<>> \in Seq(Ops) /\ Calm(<<>>)
      /\ <<Op("waitSwapchain")>> \in Seq(Ops) /\ Calm(<<Op("waitSwapchain")>>)
      /\ <<Op("waitExecution")>> \in Seq(Ops) /\ Calm(<<Op("waitExecution")>>)
  <2>1. <<>> \in Seq(Ops) /\ Calm(<<>>)
    BY DEF Calm
  <2> QED BY <2>1, NameOps, CalmTuples DEF OpName
<1>8. UNCHANGED main \/ Then(<<>>) \/ Then(<<Op("waitSwapchain")>>) \/ Then(<<Op("waitExecution")>>)
  BY Zenon DEF MainWaitPresent, MainWaitSwapchain, MainWaitQueue, MainWaitExecution
<1> QED BY <1>5, <1>6, <1>7, <1>8

LEMMA CopyInv ==
    ASSUME Inv, Shape', MainCopy
    PROVE  Inv'
<1>1. TypeOK /\ main \in MainType /\ main.todo \in Seq(Ops) /\ main.frame \in MaybeFrame /\ gpu \in GpuType
      /\ sem.gpuTick <= gpu.counter
  BY StateFields DEF Inv, Shape, TypeOK, TicksOK
<1>2. /\ At("copy") /\ CopyToSwapchain(main.frame) /\ Then(<<>>)
      /\ UNCHANGED <<mode, rp, chunk, workQueue, reserve, worker, sem, pool, fences, eventCv>>
  BY DEF MainCopy
<1>3. main.todo # <<>> /\ main.todo[1][1] = "copy" /\ main.todo[1] \in Ops
  BY <1>1, <1>2, AtFacts
<1>4. main'.todo = <<>> \o Tail(main.todo) /\ <<>> \in Seq(Ops) /\ Calm(<<>>)
  BY <1>1, <1>2, <1>3, MainThen, EmptyOps
<1>5. ~Submitting(main.todo[1]) /\ ~Quiet(main.todo[1])
  BY <1>3, LoudOps
<1> DEFINE c == [tick |-> 0, cmdbuf |-> 0, signal |-> NoFrame, wait |-> main.frame]
<1>6. c \in Work /\ gpu'.queue = Append(gpu.queue, c) /\ gpu'.counter = gpu.counter /\ c.tick = 0
  BY <1>1, <1>2, CopyIs
<1> HIDE DEF c
<1> QED BY <1>1, <1>2, <1>3, <1>4, <1>5, <1>6, CalmThen

LEMMA BeginInv ==
    ASSUME Inv, Shape', MainBegin
    PROVE  Inv'
<1>1. TypeOK /\ main \in MainType /\ main.todo \in Seq(Ops) /\ sem.gpuTick <= gpu.counter
  BY StateFields DEF Inv, Shape, TypeOK, TicksOK
<1> DEFINE ops == <<RecordOp(<<Draw>>)>>
<1>2. At("begin") /\ Then(ops) /\ UNCHANGED <<mode, chunk, schedVars, presentVars>>
  BY DEF MainBegin
<1>3. main.todo # <<>> /\ main.todo[1][1] = "begin" /\ main.todo[1] \in Ops
  BY <1>1, <1>2, AtFacts
<1>4. ops \in Seq(Ops) /\ Calm(ops)
  BY CallsAre
<1> HIDE DEF ops
<1>5. main'.todo = ops \o Tail(main.todo)
  BY <1>1, <1>2, <1>3, <1>4, MainThen
<1>6. ~Submitting(main.todo[1]) /\ ~Quiet(main.todo[1])
  BY <1>3, LoudOps
<1> QED BY <1>1, <1>2, <1>3, <1>4, <1>5, <1>6, CalmThen DEF schedVars

LEMMA SubmitInv ==
    ASSUME Inv, Shape', MainSubmit \/ MainFinish
    PROVE  Inv'
<1>0. TypeOK /\ TypeOK' /\ main \in MainType /\ sem \in [tick : Nat, gpuTick : Nat] /\ sem.tick \in Nat
      /\ TicksOK /\ GpuOK(gpu.queue, gpu.counter, fences) /\ PoolOK
  BY DEF Inv, Shape, TypeOK
<1>1. PICK rest \in {<<>>, <<<<"semWait", sem.tick>>>>}, f \in MaybeFrame, x \in {"submit", "finish"} :
          At(x) /\ SubmitExecution(f, rest)
  <2>1. CASE MainSubmit
    <3>1. main.todo[1][2] \in MaybeFrame
      BY <1>0, <2>1, AtFacts DEF MainSubmit
    <3> QED BY <3>1, <2>1 DEF MainSubmit
  <2>2. CASE MainFinish
    BY <2>2 DEF MainFinish, MaybeFrame
  <2> QED BY <2>1, <2>2
<1>2. UNCHANGED <<mode, rp, chunk, workQueue, reserve, worker, pool, fences, gpu, eventCv, presentVars>>
  BY DEF MainSubmit, MainFinish
<1> DEFINE ops == SubmitOps(sem.tick, f) \o rest
           n == sem.tick + 1
<1>3. ops \in Seq(Ops) /\ OneSubmits(ops, sem.tick)
  BY <1>0, SubmitOpsOK
<1>4. Then(ops) /\ sem' = [sem EXCEPT !.tick = @ + 1]
  BY <1>1 DEF SubmitExecution
<1> HIDE DEF ops
<1>5. sem'.tick = n /\ sem'.gpuTick = sem.gpuTick /\ n \in Nat /\ n - 1 = sem.tick /\ n > 0
  BY <1>0, <1>4
<1> HIDE DEF n
<1>6. main.todo # <<>> /\ main.todo[1] \in Ops /\ main.todo[1][1] = x /\ main.todo \in Seq(Ops)
  BY <1>0, <1>1, AtFacts, StateFields
<1>7. ~Submitting(main.todo[1]) /\ ~Quiet(main.todo[1])
  BY <1>6, LoudOps
<1>8. main'.todo = ops \o Tail(main.todo)
  BY <1>0, <1>3, <1>4, <1>6, MainThen
<1>9. TodoTicks(main.todo, sem.tick)
  BY <1>0 DEF TicksOK
<1>10. Coming = sem.tick /\ \A i \in DOMAIN Tail(main.todo) : ~Submitting(Tail(main.todo)[i])
  BY <1>0, <1>6, <1>7, <1>9, TodoAlone DEF Coming
<1>11. OneSubmits(ops, n - 1)
  BY <1>3, <1>5
<1>12. TodoTicks(main'.todo, n) /\ NextTick(main'.todo, n) = n - 1
  BY <1>3, <1>5, <1>6, <1>8, <1>10, <1>11, TodoNew, Zenon
<1>13. Coming' = Coming /\ Stages' = Stages
  BY <1>2, <1>5, <1>10, <1>12 DEF Coming, Stages
<1>14. TicksOK'
  <2>1. sem.gpuTick <= gpu.counter /\ PipeOK(Stages, Begun(gpu), Coming)
    BY <1>0 DEF TicksOK
  <2>2. PipeOK(Stages, Begun(gpu), Coming)'
    BY <2>1, <1>2, <1>13
  <2> QED BY <2>1, <2>2, <1>2, <1>5, <1>12 DEF TicksOK
<1>15. PoolOK'
  <2>1. ~At("commit")
    BY <1>6 DEF At
  <2>2. Used => Used'
    BY <2>1, <1>2, Zenon DEF Used
  <2>3. Upcoming' = Upcoming
    BY <1>13 DEF Upcoming
  <2> QED BY <2>2, <2>3, <1>0, <1>2, PoolKept
<1>16. GpuOK(gpu.queue, gpu.counter, fences)'
  BY <1>0, <1>2
<1> QED BY <1>14, <1>15, <1>16 DEF Inv

\* A new command buffer is taken.
LEMMA PoolCommits ==
    ASSUME TypeOK, PoolOK, GpuOK(gpu.queue, gpu.counter, fences), sem.gpuTick <= gpu.counter,
           sem' = Refresh(sem), pool' = Commit(pool, sem'.gpuTick, sem.tick), UNCHANGED gpu,
           Coming' <= sem.tick
    PROVE  PoolOK' /\ sem'.tick = sem.tick /\ sem'.gpuTick <= gpu.counter
<1>1. sem \in [tick : Nat, gpuTick : Nat] /\ sem.tick \in Nat /\ gpu \in GpuType /\ gpu.counter \in Nat
      /\ pool \in PoolType
  BY StateFields DEF TypeOK
<1>2. sem'.tick = sem.tick /\ sem'.gpuTick <= gpu.counter /\ sem'.gpuTick \in Nat
  BY <1>1, RefreshIs
<1> DEFINE g == sem'.gpuTick
           p == pool'
<1>3. /\ p.ticks[p.cur] = sem.tick
      /\ \A i \in DOMAIN pool.ticks : g < pool.ticks[i] =>
            i \in DOMAIN p.ticks /\ p.ticks[i] = pool.ticks[i] /\ p.cur # i
  <2>1. Committed(pool, g, sem.tick, p)
    BY <1>1, <1>2, CommitIs
  <2> QED BY <2>1, Zenon DEF Committed
<1>4. \A i \in DOMAIN pool.ticks : pool.ticks[i] \in Nat
  BY <1>1 DEF PoolType
<1> HIDE DEF g, p
<1>5. ASSUME NEW i \in DOMAIN gpu.queue PROVE InUse(gpu.queue[i], p, Used')
  <2> DEFINE s == gpu.queue[i]
  <2>1. s.tick \in Nat /\ InUse(s, pool, Used) /\ (s.tick > 0 => gpu.counter < s.tick)
    BY BegunIs DEF PoolOK, GpuOK
  <2> HIDE DEF s
  <2> SUFFICES ASSUME s.tick > 0
               PROVE  s.cmdbuf \in DOMAIN p.ticks /\ s.tick <= p.ticks[s.cmdbuf] /\ s.cmdbuf # p.cur
    BY DEF InUse, s
  <2>2. s.cmdbuf \in DOMAIN pool.ticks /\ s.tick <= pool.ticks[s.cmdbuf]
    BY <2>1, Zenon DEF InUse
  <2>3. g < pool.ticks[s.cmdbuf]
    BY <2>1, <2>2, <1>1, <1>2, <1>4 DEF g
  <2> QED BY <2>2, <2>3, <1>3
<1>6. \E v \in Upcoming' : v <= p.ticks[p.cur]
  <2>1. Coming' \in Upcoming'
    BY DEF Upcoming
  <2> QED BY <2>1, <1>3
<1> QED BY <1>2, <1>5, <1>6 DEF PoolOK, p

LEMMA CommitInv ==
    ASSUME Inv, Shape', MainCommit
    PROVE  Inv'
<1>1. TypeOK /\ TypeOK' /\ main \in MainType /\ TicksOK /\ GpuOK(gpu.queue, gpu.counter, fences) /\ PoolOK
      /\ sem.tick \in Nat /\ main.todo \in Seq(Ops)
  BY StateFields DEF Inv, Shape, TypeOK
<1>2. /\ At("commit") /\ sem' = Refresh(sem) /\ pool' = Commit(pool, sem'.gpuTick, sem.tick) /\ Then(<<>>)
      /\ UNCHANGED <<mode, rp, chunk, workQueue, reserve, worker, fences, gpu, eventCv, presentVars>>
  BY DEF MainCommit
<1>3. main.todo # <<>> /\ main.todo[1][1] = "commit" /\ main.todo[1] \in Ops
  BY <1>1, <1>2, AtFacts
<1>4. main'.todo = <<>> \o Tail(main.todo) /\ <<>> \in Seq(Ops) /\ Calm(<<>>)
  BY <1>1, <1>2, <1>3, MainThen, EmptyOps
<1>5. ~Submitting(main.todo[1]) /\ ~Quiet(main.todo[1])
  BY <1>3, LoudOps
<1>6. sem.tick > 0 /\ sem.gpuTick <= gpu.counter /\ TodoTicks(main.todo, sem.tick)
      /\ PipeOK(Stages, Begun(gpu), Coming)
  BY <1>1 DEF TicksOK
<1>7. TodoTicks(main'.todo, sem.tick) /\ NextTick(main'.todo, sem.tick) = NextTick(main.todo, sem.tick)
  BY <1>1, <1>3, <1>4, <1>5, <1>6, TodoCalm
<1>8. sem'.tick = sem.tick
  <2>1. sem \in [tick : Nat, gpuTick : Nat] /\ gpu \in GpuType
    BY <1>1 DEF TypeOK
  <2> QED BY <2>1, <1>2, RefreshIs
<1>9. Coming' = Coming /\ Stages' = Stages
  BY <1>2, <1>7, <1>8 DEF Coming, Stages
<1>10. PoolOK' /\ sem'.gpuTick <= gpu.counter
  <2>1. Coming' <= sem.tick
    BY <1>1, <1>6, <1>9, ComingIs
  <2> QED BY <2>1, <1>1, <1>2, <1>6, PoolCommits
<1>11. TicksOK'
  <2>1. PipeOK(Stages, Begun(gpu), Coming)'
    BY <1>2, <1>6, <1>9
  <2> QED BY <2>1, <1>2, <1>6, <1>7, <1>8, <1>10 DEF TicksOK
<1>12. GpuOK(gpu.queue, gpu.counter, fences)'
  BY <1>1, <1>2
<1> QED BY <1>10, <1>11, <1>12 DEF Inv

\* A step that keeps the tick of the next submission, the GPU and the pool, and
\* moves the commands along: the ticks of T are those of Stages, at h.
LEMMA MovesInv ==
    ASSUME Inv, Shape', UNCHANGED <<pool, fences, gpu, sem>>, Coming' = Coming,
           TodoTicks(main'.todo, sem.tick), Used => Used',
           NEW h,
           \A a \in DOMAIN Stages' : TicksOf(Stages'[a]) # {} =>
              h[a] \in DOMAIN Stages /\ TicksOf(Stages'[a]) \subseteq TicksOf(Stages[h[a]]),
           \A a, b \in DOMAIN Stages' :
              a < b /\ TicksOf(Stages'[a]) # {} /\ TicksOf(Stages'[b]) # {} => h[a] < h[b],
           \A a \in DOMAIN Stages : TicksOf(Stages[a]) = {} \/ \E b \in DOMAIN Stages' : TicksOf(Stages[a]) = TicksOf(Stages'[b])
    PROVE  Inv'
<1>1. TypeOK /\ TypeOK' /\ TicksOK /\ GpuOK(gpu.queue, gpu.counter, fences) /\ PoolOK
  BY DEF Inv, Shape
<1>2. sem.tick > 0 /\ sem.gpuTick <= gpu.counter /\ PipeOK(Stages, Begun(gpu), Coming)
  BY <1>1 DEF TicksOK
<1>3. Coming \in Nat /\ Begun(gpu) \in SUBSET Nat /\ \A a \in DOMAIN Stages : TicksOf(Stages[a]) \subseteq Nat
  BY <1>1, <1>2, ComingIs, BegunIs, StagesAre
<1> DEFINE S == Stages
           T == Stages'
           n == Coming
           G == Begun(gpu)
<1>4. PipeOK(T, G, n)
  <2> HIDE DEF S, T, n, G
  <2>1. n <= n /\ G \in SUBSET G
    BY <1>3 DEF n
  <2>2. PipeOK(S, G, n) /\ n \in Nat /\ G \in SUBSET Nat /\ \A a \in DOMAIN S : TicksOf(S[a]) \subseteq Nat
    BY <1>2, <1>3 DEF S, n, G
  <2>3. \A a \in DOMAIN T : TicksOf(T[a]) # {} => h[a] \in DOMAIN S /\ TicksOf(T[a]) \subseteq TicksOf(S[h[a]])
    BY DEF S, T
  <2>4. \A a, b \in DOMAIN T : a < b /\ TicksOf(T[a]) # {} /\ TicksOf(T[b]) # {} => h[a] < h[b]
    BY DEF T
  <2> QED BY <2>1, <2>2, <2>3, <2>4, PipeMoves
<1>5. TicksOK'
  <2>1. PipeOK(Stages, Begun(gpu), Coming)'
    BY <1>4
  <2> QED BY <1>2, <2>1 DEF TicksOK
<1>6. Upcoming \subseteq Upcoming'
  <2> SUFFICES ASSUME NEW v \in Upcoming PROVE v \in Upcoming'
    OBVIOUS
  <2>1. CASE v = Coming
    BY <2>1 DEF Upcoming
  <2>2. CASE \E a \in DOMAIN Stages : v \in TicksOf(Stages[a])
    <3>1. PICK a \in DOMAIN Stages : v \in TicksOf(Stages[a])
      BY <2>2
    <3>2. PICK b \in DOMAIN Stages' : TicksOf(Stages[a]) = TicksOf(Stages'[b])
      BY <3>1
    <3>3. v \in TicksOf(Stages'[b])
      BY <3>1, <3>2
    <3> QED BY <3>3 DEF Upcoming
  <2> QED BY <2>1, <2>2 DEF Upcoming
<1>7. PoolOK'
  BY <1>1, <1>6, PoolKept
<1>8. GpuOK(gpu.queue, gpu.counter, fences)'
  BY <1>1
<1> QED BY <1>5, <1>7, <1>8 DEF Inv

LEMMA DispatchInv ==
    ASSUME Inv, Shape', MainDispatch
    PROVE  Inv'
<1>1. /\ main.todo # <<>> /\ main.todo[1][1] \in {"dispatch", "dispatchSubmit"}
      /\ UNCHANGED <<mode, rp, reserve, worker, sem, pool, fences, gpu, presentVars>>
  BY DispatchIs DEF Inv
<1>2. TypeOK /\ TypeOK' /\ main.todo \in Seq(Ops) /\ sem.gpuTick <= gpu.counter /\ sem.tick \in Nat
      /\ TodoTicks(main.todo, sem.tick) /\ worker.work.cmds \in Seq(Command) /\ workQueue \in Seq(Chunk)
  BY StateFields DEF Inv, Shape, TypeOK, TicksOK
<1>3. ~Submitting(main.todo[1]) /\ main.todo[1][1] # "commit"
  BY <1>1 DEF Submitting
<1>4. PICK ops \in Seq(Ops) : /\ Calm(ops) /\ \A i \in DOMAIN ops : Quiet(ops[i])
                              /\ main'.todo = ops \o Tail(main.todo)
  BY DispatchIs DEF Inv
<1>5. CASE UNCHANGED <<workQueue, chunk>>
  BY <1>1, <1>2, <1>3, <1>4, <1>5, CalmThen
<1>6. CASE /\ mode.worker
           /\ \E c \in Chunk : c.cmds = chunk.cmds /\ workQueue' = Append(workQueue, c)
           /\ chunk'.cmds = <<>>
  <2>1. PICK c \in Chunk : c.cmds = chunk.cmds /\ workQueue' = Append(workQueue, c)
    BY <1>6
  <2>2. TodoTicks(main'.todo, sem.tick) /\ NextTick(main'.todo, sem.tick) = NextTick(main.todo, sem.tick)
    BY <1>1, <1>2, <1>3, <1>4, TodoCalm
  <2>3. Coming' = Coming
    BY <1>1, <2>2 DEF Coming
  <2>4. Used => Used'
    BY <1>1, <1>6, Zenon DEF Used
  <2> DEFINE S == Stages
             T == Stages'
             n == Len(workQueue)
             h == [a \in 1 .. n + 2 |-> a]
  <2>5. DOMAIN S = 1 .. n + 2 /\ n \in Nat /\ DOMAIN T = 1 .. n + 3
        /\ (\A a \in 1 .. n + 2 : T[a] = S[a]) /\ T[n + 3] = <<>>
    <3>1. /\ workQueue' \in Seq(Chunk) /\ Len(workQueue') = n + 1 /\ T[n + 3] = <<>>
          /\ \A a \in 1 .. n + 2 : T[a] = S[a]
      BY <1>1, <1>2, <1>6, <2>1, PipeDispatch DEF Stages
    <3>2. DOMAIN S = 1 .. n + 2 /\ n \in Nat /\ DOMAIN T = 1 .. Len(workQueue') + 2
      <4>1. DOMAIN T = 1 .. Len(workQueue') + 2
        BY DEF Stages, Pipe
      <4> QED BY <1>2, <4>1, StagesAre
    <3>3. (n + 1) + 2 = n + 3
      BY <3>2
    <3> QED BY <3>1, <3>2, <3>3
  <2> HIDE DEF S, T, n
  <2>6. \A a \in DOMAIN T : TicksOf(T[a]) # {} => a \in 1 .. n + 2
    BY <2>5, ListNone
  <2>7. \A a \in DOMAIN T : TicksOf(T[a]) # {} => h[a] \in DOMAIN S /\ TicksOf(T[a]) \subseteq TicksOf(S[h[a]])
    BY <2>5, <2>6
  <2>8. \A a, b \in DOMAIN T : a < b /\ TicksOf(T[a]) # {} /\ TicksOf(T[b]) # {} => h[a] < h[b]
    BY <2>6
  <2>9. \A a \in DOMAIN S : \E b \in DOMAIN T : TicksOf(S[a]) = TicksOf(T[b])
    <3>1. \A a \in 1 .. n + 2 : a \in 1 .. n + 3
      BY <2>5
    <3> QED BY <3>1, <2>5
  <2> HIDE DEF h
  <2> QED BY <1>1, <2>2, <2>3, <2>4, <2>7, <2>8, <2>9, MovesInv DEF S, T
<1> QED BY <1>5, <1>6, DispatchIs DEF Inv

\* Acquiring a chunk: there was no submission in the one before.
LEMMA AcquireInv ==
    ASSUME Inv, Shape', MainAcquire
    PROVE  Inv'
<1>1. /\ main.todo # <<>> /\ main.todo[1][1] = "acquire" /\ main'.todo = <<>> \o Tail(main.todo)
      /\ chunk'.cmds = <<>> /\ TicksOf(chunk.cmds) = {}
      /\ UNCHANGED <<mode, rp, workQueue, worker, sem, pool, fences, gpu, presentVars>>
  BY AcquireIs DEF Inv
<1>2. TypeOK /\ TypeOK' /\ main.todo \in Seq(Ops) /\ sem.tick \in Nat /\ TodoTicks(main.todo, sem.tick)
      /\ worker.work.cmds \in Seq(Command) /\ workQueue \in Seq(Chunk) /\ chunk.cmds \in Seq(Command)
  BY StateFields DEF Inv, Shape, TypeOK, TicksOK
<1>3. TodoTicks(main'.todo, sem.tick) /\ NextTick(main'.todo, sem.tick) = NextTick(main.todo, sem.tick)
  <2>1. <<>> \in Seq(Ops) /\ Calm(<<>>) /\ \A i \in DOMAIN <<>> : Quiet(<<>>[i])
    BY <1>1, <1>2, EmptyOps
  <2>2. ~Submitting(main.todo[1])
    BY <1>1 DEF Submitting
  <2> QED BY <1>1, <1>2, <2>1, <2>2, TodoCalm
<1>4. Coming' = Coming
  BY <1>1, <1>3 DEF Coming
<1>5. Used => Used'
  <2>1. ~At("commit")
    BY <1>1 DEF At
  <2> QED BY <1>1, <2>1, Zenon DEF Used
<1> DEFINE S == Stages
           T == Stages'
           n == Len(workQueue)
           h == [a \in 1 .. n + 2 |-> a]
<1>6. DOMAIN S = 1 .. n + 2 /\ DOMAIN T = 1 .. n + 2 /\ n \in Nat /\ T[n + 2] = <<>>
      /\ S[n + 2] = chunk.cmds /\ \A a \in 1 .. n + 1 : T[a] = S[a]
  <2>1. /\ \A a \in 1 .. n + 1 : T[a] = S[a]
        /\ T[n + 2] = <<>>
    <3>1. T = Pipe(worker.work.cmds, workQueue, <<>>) /\ S = Pipe(worker.work.cmds, workQueue, chunk.cmds)
      BY <1>1 DEF Stages
    <3>2. n \in Nat
      BY <1>2
    <3> HIDE DEF S, T
    <3>3. \A a \in 1 .. n + 1 : T[a] = S[a]
      BY <3>1, <3>2 DEF Pipe
    <3>4. T[n + 2] = <<>>
      BY <3>1, <3>2 DEF Pipe
    <3> QED BY <3>3, <3>4
  <2>2. DOMAIN S = 1 .. n + 2 /\ n \in Nat /\ S[n + 2] = chunk.cmds
    BY <1>2, StagesAre
  <2>3. DOMAIN T = 1 .. n + 2
    BY <1>1 DEF Stages, Pipe
  <2> QED BY <2>1, <2>2, <2>3
<1> HIDE DEF S, T, n
<1>7. \A a \in 1 .. n + 2 : a = n + 2 \/ a \in 1 .. n + 1
  BY <1>6
<1>8. \A a \in DOMAIN T : TicksOf(T[a]) # {} => a \in DOMAIN S /\ h[a] = a /\ T[a] = S[a]
  BY <1>6, <1>7, ListNone
<1>9. \A a \in DOMAIN S : TicksOf(S[a]) = {} \/ (a \in DOMAIN T /\ TicksOf(S[a]) = TicksOf(T[a]))
  BY <1>1, <1>6, <1>7
<1>10. \A a \in DOMAIN T : TicksOf(T[a]) # {} => h[a] \in DOMAIN S /\ TicksOf(T[a]) \subseteq TicksOf(S[h[a]])
  BY <1>8
<1>11. \A a, b \in DOMAIN T : a < b /\ TicksOf(T[a]) # {} /\ TicksOf(T[b]) # {} => h[a] < h[b]
  BY <1>8
<1> HIDE DEF h
<1> QED BY <1>1, <1>3, <1>4, <1>5, <1>9, <1>10, <1>11, MovesInv DEF S, T

\* The list that is recorded next.
LEMMA RecordList ==
    ASSUME Shape, At("record"), NEW s, s = main.todo[1][2]
    PROVE  /\ s \in Seq(Command) /\ main.todo[1] = RecordOp(s) /\ TicksOf(chunk.cmds) = {}
           /\ TicksOf(s) = {} => Quiet(main.todo[1]) /\ ~Submitting(main.todo[1])
           /\ TicksOf(s) # {} =>
                 /\ Submitting(main.todo[1]) /\ ~Quiet(main.todo[1])
                 /\ Len(s) = 1 /\ s[1] \in Command /\ s[1].op = "submit" /\ TicksOf(s) = {s[1].tick}
                 /\ 1 < Len(main.todo)
                 /\ main.todo[2][1] = IF mode.worker THEN "dispatchSubmit" ELSE "commit"
<1> DEFINE td == main.todo
<1>1. TypeOK /\ TodoOK(td, mode.worker) /\ ChunkReady
  BY DEF Shape
<1>2. s \in Seq(Command) /\ td # <<>> /\ td[1][1] = "record" /\ td[1] = RecordOp(s) /\ td \in Seq(Ops)
  BY <1>1, AtFacts, StateFields
<1>3. TicksOf(chunk.cmds) = {}
  BY <1>1, <1>2 DEF ChunkReady, At
<1>4. TicksOf(s) = {} => Quiet(td[1]) /\ ~Submitting(td[1])
  BY <1>2 DEF Quiet, Submitting
<1>5. ASSUME TicksOf(s) # {}
      PROVE  /\ Submitting(td[1]) /\ ~Quiet(td[1])
             /\ Len(s) = 1 /\ s[1] \in Command /\ s[1].op = "submit" /\ TicksOf(s) = {s[1].tick}
             /\ 1 < Len(td) /\ td[2][1] = IF mode.worker THEN "dispatchSubmit" ELSE "commit"
  <2>1. 1 \in DOMAIN td /\ Submitting(td[1]) /\ ~Quiet(td[1])
    BY <1>2, <1>5 DEF Submitting, Quiet
  <2>2. Len(td[1][2]) = 1 /\ 1 < Len(td)
        /\ td[1 + 1][1] = IF mode.worker THEN "dispatchSubmit" ELSE "commit"
    BY <2>1, <1>1, Zenon DEF TodoOK
  <2>3. 1 + 1 = 2
    OBVIOUS
  <2>4. td[2][1] = IF mode.worker THEN "dispatchSubmit" ELSE "commit"
    BY <2>2, <2>3, Zenon
  <2>5. \A i \in DOMAIN s : i = 1
    BY <1>2, <2>2
  <2>6. 1 \in DOMAIN s /\ s[1] \in Command
    <3>1. s # <<>>
      BY <1>5, ListNone
    <3>2. s \in Seq(Command)
      BY <1>2
    <3> QED BY ONLY <3>1, <3>2
  <2>7. TicksOf(s) = {s[1].tick} /\ s[1].op = "submit"
    BY <1>5, <2>5, <2>6 DEF TicksOf
  <2> QED BY <2>1, <2>2, <2>4, <2>6, <2>7
<1> QED BY <1>2, <1>3, <1>4, <1>5, Zenon

\* Commands that submit nothing are put into the chunk.
LEMMA RecordQuietInv ==
    ASSUME Inv, Shape', mode.worker, TicksOf(chunk.cmds) = {}, TicksOf(chunk'.cmds) = {},
           UNCHANGED <<mode, workQueue, worker, sem, pool, fences, gpu>>,
           Coming' = Coming, TodoTicks(main'.todo, sem.tick)
    PROVE  Inv'
<1>1. TypeOK /\ worker.work.cmds \in Seq(Command) /\ workQueue \in Seq(Chunk) /\ chunk.cmds \in Seq(Command)
  BY StateFields DEF Inv, Shape, TypeOK
<1>2. Used => Used'
  BY Zenon DEF Used
<1> DEFINE S == Stages
           T == Stages'
           n == Len(workQueue)
           h == [a \in 1 .. n + 2 |-> a]
<1>3. DOMAIN S = 1 .. n + 2 /\ n \in Nat /\ DOMAIN T = 1 .. n + 2
      /\ (\A a \in 1 .. n + 1 : T[a] = S[a]) /\ T[n + 2] = chunk'.cmds /\ S[n + 2] = chunk.cmds
  BY <1>1, StagesAre DEF Stages, Pipe
<1> HIDE DEF S, T, n
<1>4. \A a \in 1 .. n + 2 : TicksOf(T[a]) = TicksOf(S[a])
  <2> TAKE a \in 1 .. n + 2
  <2>1. a \in 1 .. n + 1 \/ a = n + 2
    BY <1>3
  <2> QED BY <2>1, <1>3
<1>5. \A a \in DOMAIN T : TicksOf(T[a]) # {} => h[a] \in DOMAIN S /\ TicksOf(T[a]) \subseteq TicksOf(S[h[a]])
  BY <1>3, <1>4
<1>6. \A a, b \in DOMAIN T : a < b /\ TicksOf(T[a]) # {} /\ TicksOf(T[b]) # {} => h[a] < h[b]
  BY <1>3
<1>7. \A a \in DOMAIN S : \E b \in DOMAIN T : TicksOf(S[a]) = TicksOf(T[b])
  BY <1>3, <1>4
<1> HIDE DEF h
<1> QED BY <1>2, <1>5, <1>6, <1>7, MovesInv DEF S, T

\* A submission is put into the chunk.
LEMMA RecordSubmitInv ==
    ASSUME Inv, Shape', mode.worker, TicksOf(chunk.cmds) = {}, TicksOf(chunk'.cmds) = {Coming},
           UNCHANGED <<mode, workQueue, worker, sem, pool, fences, gpu>>,
           Coming' = Coming + 1, TodoTicks(main'.todo, sem.tick)
    PROVE  Inv'
<1>1. TypeOK /\ worker.work.cmds \in Seq(Command) /\ workQueue \in Seq(Chunk) /\ chunk.cmds \in Seq(Command)
      /\ TicksOK /\ GpuOK(gpu.queue, gpu.counter, fences) /\ PoolOK
  BY StateFields DEF Inv, Shape, TypeOK
<1>2. sem.tick > 0 /\ sem.gpuTick <= gpu.counter /\ PipeOK(Stages, Begun(gpu), Coming)
  BY <1>1 DEF TicksOK
<1>3. Coming \in Nat /\ Begun(gpu) \in SUBSET Nat
  BY <1>1, <1>2, ComingIs, BegunIs
<1>4. Used => Used'
  BY Zenon DEF Used
<1> DEFINE S == Stages
           T == Stages'
           n == Len(workQueue)
           c == Coming
           G == Begun(gpu)
           z == n + 2
<1>5. DOMAIN S = 1 .. n + 2 /\ n \in Nat /\ DOMAIN T = 1 .. n + 2
      /\ (\A a \in 1 .. n + 1 : T[a] = S[a]) /\ T[n + 2] = chunk'.cmds /\ S[n + 2] = chunk.cmds
      /\ \A a \in DOMAIN S : TicksOf(S[a]) \subseteq Nat
  BY <1>1, StagesAre DEF Stages, Pipe
<1>6. PipeOK(S, G, c) /\ c \in Nat /\ G \in SUBSET Nat /\ TicksOf(chunk'.cmds) = {c}
  BY <1>2, <1>3
<1> HIDE DEF S, T, n, c, G
<1>7. z \in DOMAIN S /\ DOMAIN S \subseteq Nat /\ DOMAIN T = DOMAIN S
      /\ \A a \in DOMAIN S : a <= z /\ (a # z => T[a] = S[a])
  BY <1>5
<1>8. TicksOf(T[z]) = {c} /\ TicksOf(S[z]) = {}
  BY <1>5, <1>6
<1> HIDE DEF z
<1>9. PipeOK(T, G, c + 1)
  BY <1>5, <1>6, <1>7, <1>8, PipeGrows
<1>10. TicksOK'
  <2>1. Begun(gpu)' = G /\ Coming' = c + 1 /\ Stages' = T
    BY DEF G, c, T
  <2>2. PipeOK(Stages, Begun(gpu), Coming)'
    BY <1>9, <2>1
  <2> QED BY <1>2, <2>2 DEF TicksOK
<1>11. Upcoming \subseteq Upcoming'
  <2> SUFFICES ASSUME NEW v \in Upcoming PROVE v \in Upcoming'
    OBVIOUS
  <2>1. CASE v = Coming
    <3>1. v \in TicksOf(T[z]) /\ z \in DOMAIN T
      BY <2>1, <1>7, <1>8 DEF c
    <3> QED BY <3>1 DEF Upcoming, T
  <2>2. CASE \E a \in DOMAIN Stages : v \in TicksOf(Stages[a])
    <3>1. PICK a \in DOMAIN S : v \in TicksOf(S[a])
      BY <2>2 DEF S
    <3>2. a \in DOMAIN T /\ v \in TicksOf(T[a])
      BY <3>1, <1>7, <1>8
    <3> QED BY <3>2 DEF Upcoming, T
  <2> QED BY <2>1, <2>2 DEF Upcoming
<1>12. PoolOK'
  BY <1>1, <1>4, <1>11, PoolKept
<1>13. GpuOK(gpu.queue, gpu.counter, fences)'
  BY <1>1
<1> QED BY <1>10, <1>12, <1>13 DEF Inv

\* What fits into the chunk, a, and the rest, b.
SplitOK(s, a, b) ==
    /\ a \in Seq(Command) /\ b \in Seq(Command) /\ a \o b = s /\ TicksOf(a) = {}
    /\ TicksOf(s) # {} => a = <<>> /\ b = s
    /\ TicksOf(s) = {} => TicksOf(b) = {}

LEMMA SplitList ==
    ASSUME NEW s \in Seq(Command), NEW room \in 0 .. Len(s), Len(s) > room, TicksOf(s) # {} => Len(s) = 1
    PROVE  SplitOK(s, SubSeq(s, 1, room), SubSeq(s, room + 1, Len(s)))
<1> DEFINE a == SubSeq(s, 1, room)
           b == SubSeq(s, room + 1, Len(s))
           m == Len(s)
<1>1. a \in Seq(Command) /\ Len(a) = room /\ b \in Seq(Command) /\ a \o b = s
  BY ListSplit
<1>2. room \in 0 .. m /\ m > room /\ (TicksOf(s) # {} => m = 1)
  OBVIOUS
<1> HIDE DEF a, b, m
<1>3. TicksOf(s) = TicksOf(a) \cup TicksOf(b)
  BY <1>1, ListConcat
<1>4. ASSUME TicksOf(s) # {} PROVE a = <<>> /\ b = s
  <2>1. room = 0
    BY ONLY <1>2, <1>4
  <2>2. a = <<>>
    BY ONLY <2>1, <1>1
  <2>3. <<>> \o b = b
    BY <1>1, ConcatEmptySeq
  <2> QED BY <2>2, <2>3, <1>1
<1>5. TicksOf(a) = {}
  BY <1>3, <1>4, ListNone
<1>6. SplitOK(s, a, b)
  BY <1>1, <1>3, <1>4, <1>5 DEF SplitOK
<1> QED BY <1>6 DEF a, b

\* The room in the chunk.
LEMMA RoomIs ==
    ASSUME Shape, NEW s \in Seq(Command), Len(s) > ChunkSize - Len(chunk.cmds)
    PROVE  ChunkSize - Len(chunk.cmds) \in 0 .. Len(s)
<1> DEFINE n == Len(chunk.cmds)
           m == Len(s)
<1>1. chunk.cmds \in Seq(Command) /\ n <= ChunkSize /\ ChunkSize \in Nat /\ m > ChunkSize - n
  BY StateFields, SchedulerAssumption, Zenon DEF Shape, ChunksOK
<1>2. n \in Nat /\ m \in Nat
  BY <1>1
<1> HIDE DEF n, m
<1>3. ChunkSize - n \in 0 .. m
  BY <1>1, <1>2
<1> QED BY <1>3 DEF n, m

\* The chunk after a recording.
LEMMA ChunkGrows ==
    ASSUME chunk \in Chunk, NEW s \in Seq(Command), chunk' = ChunkRecord(chunk, s)
    PROVE  chunk'.cmds = chunk.cmds \o s /\ TicksOf(chunk'.cmds) = TicksOf(chunk.cmds) \cup TicksOf(s)
<1> DEFINE cs == chunk.cmds \o s
           b == chunk.counted \/ s # <<>>
           c1 == [chunk EXCEPT !.cmds = cs]
<1>1. chunk.cmds \in Seq(Command)
  BY ChunkFields
<1>2. cs \in Seq(Command) /\ TicksOf(cs) = TicksOf(chunk.cmds) \cup TicksOf(s)
  BY <1>1, ListConcat
<1>3. chunk' = [c1 EXCEPT !.counted = b]
  BY DEF ChunkRecord
<1> HIDE DEF cs, b
<1>4. c1 \in Chunk /\ c1.cmds = cs
  BY <1>2, ChunkFields
<1> HIDE DEF c1
<1>5. [c1 EXCEPT !.counted = b].cmds = c1.cmds
  BY <1>4, Zenon DEF Chunk
<1>6. chunk'.cmds = cs
  BY <1>3, <1>4, <1>5
<1> QED BY <1>2, <1>6 DEF cs

\* Without the worker thread, a submission is made at once.
LEMMA RecordNowInv ==
    ASSUME Inv, Shape', ~mode.worker, NEW c \in Command, c.op = "submit", c.tick = Coming, SubmitWork(c),
           UNCHANGED <<mode, chunk, workQueue, worker, sem, pool>>, ~At("commit"), At("commit")',
           Coming' = Coming + 1, TodoTicks(main'.todo, sem.tick)
    PROVE  Inv'
<1>1. TypeOK /\ TypeOK' /\ TicksOK /\ GpuOK(gpu.queue, gpu.counter, fences) /\ PoolOK
      /\ pool \in PoolType /\ gpu \in GpuType /\ fences \in Seq(Nat) /\ pool.cur \in DOMAIN pool.ticks
      /\ ChunksOK(mode.worker, chunk, workQueue, worker)
  BY DEF Inv, Shape, TypeOK
<1>2. sem.tick > 0 /\ sem.gpuTick <= gpu.counter /\ PipeOK(Stages, Begun(gpu), Coming)
  BY <1>1 DEF TicksOK
<1>3. Coming \in Nat /\ Begun(gpu) \in SUBSET Nat /\ gpu.counter \in Begun(gpu)
  BY <1>1, <1>2, ComingIs, BegunIs
<1>4. (\A g \in Begun(gpu) : g < Coming) /\ Coming > 0
  <2>1. \A g \in Begun(gpu) : g < Coming
    BY <1>2 DEF PipeOK
  <2>2. gpu.counter \in Nat
    BY <1>3
  <2> QED BY <2>1, <2>2, <1>3
<1> DEFINE s == Submission(c)
<1>5. gpu'.queue = Append(gpu.queue, s) /\ gpu'.counter = gpu.counter /\ s \in Work
      /\ fences' \in {fences, Append(fences, c.tick)} /\ s.tick = Coming /\ s.cmdbuf = pool.cur
  <2>1. gpu'.queue = Append(gpu.queue, s) /\ gpu'.counter = gpu.counter
        /\ fences' \in {fences, Append(fences, c.tick)} /\ s \in Work
    BY <1>1, SubmitWorkIs, SubmissionType
  <2>2. s.tick = Coming /\ s.cmdbuf = pool.cur
    BY DEF Submission
  <2> QED BY <2>1, <2>2
<1> HIDE DEF s
<1>6. fences' = fences \/ (fences' = Append(fences, s.tick) /\ s.tick > 0)
  BY <1>4, <1>5
<1>7. /\ GpuOK(gpu.queue, gpu.counter, fences)'
      /\ Begun(gpu') = Begun(gpu) \cup ({s.tick} \ {0})
      /\ \A i \in DOMAIN gpu'.queue : (i \in DOMAIN gpu.queue /\ gpu'.queue[i] = gpu.queue[i])
                                      \/ gpu'.queue[i] = s
  <2>1. s.tick > 0 => \A g \in Begun(gpu) : g < s.tick
    BY <1>4, <1>5
  <2> QED BY <1>1, <1>5, <1>6, <2>1, GpuAppend
<1>8. Stages' = Stages /\ \A a \in DOMAIN Stages : TicksOf(Stages[a]) = {}
  <2>1. chunk.cmds = <<>> /\ workQueue = <<>> /\ worker.work.cmds = <<>>
    BY <1>1, Zenon DEF ChunksOK
  <2>2. \A a \in DOMAIN Stages : Stages[a] = <<>>
    BY <2>1 DEF Stages, Pipe
  <2> QED BY <2>2, ListNone DEF Stages
<1>9. TicksOK'
  <2> DEFINE H == Begun(gpu')
             m == Coming'
             S == Stages
  <2>1. \A g \in H : g < m
    BY <1>3, <1>4, <1>5, <1>7
  <2> HIDE DEF H, m, S
  <2>2. PipeOK(S, H, m)
    BY <1>8, <2>1, Zenon DEF PipeOK, S
  <2>3. PipeOK(Stages, Begun(gpu), Coming)'
    BY <1>8, <2>2 DEF H, m, S
  <2> QED BY <1>2, <1>5, <2>3 DEF TicksOK
<1>10. ~Used /\ Used'
  BY Zenon DEF Used
<1>11. \E v \in Upcoming : v <= pool.ticks[pool.cur]
  BY <1>1, <1>10, Zenon DEF PoolOK
<1>12. Coming <= pool.ticks[pool.cur]
  <2>1. \A v \in Upcoming : v = Coming
    BY <1>8 DEF Upcoming
  <2> QED BY <1>11, <2>1
<1>13. ASSUME NEW i \in DOMAIN gpu'.queue PROVE InUse(gpu'.queue[i], pool', Used')
  <2>1. CASE i \in DOMAIN gpu.queue /\ gpu'.queue[i] = gpu.queue[i]
    <3>1. InUse(gpu.queue[i], pool, Used)
      BY <1>1, <2>1, Zenon DEF PoolOK
    <3> QED BY <1>10, <2>1, <3>1, Zenon DEF InUse
  <2>2. CASE gpu'.queue[i] = s
    BY <1>1, <1>5, <1>10, <1>12, <2>2, Zenon DEF InUse
  <2> QED BY <1>7, <2>1, <2>2
<1>14. PoolOK'
  BY <1>10, <1>13 DEF PoolOK
<1> QED BY <1>7, <1>9, <1>14 DEF Inv

LEMMA RecordInv ==
    ASSUME Inv, Shape', MainRecord
    PROVE  Inv'
<1> DEFINE td == main.todo
           s == td[1][2]
<1>1. TypeOK /\ Shape /\ main \in MainType /\ td \in Seq(Ops) /\ sem.tick \in Nat /\ sem.tick > 0
      /\ sem.gpuTick <= gpu.counter /\ TodoTicks(td, sem.tick) /\ mode.worker \in BOOLEAN
  BY StateFields DEF Inv, Shape, TypeOK, TicksOK
<1>2. /\ At("record") /\ UNCHANGED <<mode, rp, workQueue, reserve, worker, sem, pool, eventCv>>
      /\ RecordFits(s) \/ RecordSplits(s) \/ RecordNothing(s) \/ RecordSubmits(s) \/ RecordPresents(s)
  BY <1>1, RecordCases
<1>3. /\ s \in Seq(Command) /\ td[1] = RecordOp(s) /\ TicksOf(chunk.cmds) = {}
      /\ TicksOf(s) = {} => Quiet(td[1]) /\ ~Submitting(td[1])
      /\ TicksOf(s) # {} =>
            /\ Submitting(td[1]) /\ ~Quiet(td[1])
            /\ Len(s) = 1 /\ s[1] \in Command /\ s[1].op = "submit" /\ TicksOf(s) = {s[1].tick}
            /\ 1 < Len(td) /\ td[2][1] = IF mode.worker THEN "dispatchSubmit" ELSE "commit"
  BY <1>1, <1>2, RecordList
<1>4. td # <<>> /\ td[1][1] = "record" /\ ~At("commit") /\ 1 \in DOMAIN td
  BY <1>1, <1>2 DEF At
<1>5. <<>> \in Seq(Ops) /\ Calm(<<>>) /\ \A i \in DOMAIN <<>> : Quiet(<<>>[i])
  BY DEF Calm
<1>6. ASSUME NEW ops \in Seq(Ops), Then(ops) PROVE main'.todo = ops \o Tail(td)
  BY <1>1, <1>4, <1>6, MainThen
\* Ops that neither submit nor end the wait for a submission that follows.
<1>7. ASSUME TicksOf(s) = {}, NEW ops \in Seq(Ops), Then(ops), Calm(ops), \A i \in DOMAIN ops : Quiet(ops[i])
      PROVE  TodoTicks(main'.todo, sem.tick) /\ Coming' = Coming
  <2>1. TodoTicks(main'.todo, sem.tick) /\ NextTick(main'.todo, sem.tick) = NextTick(td, sem.tick)
    <3>1. main'.todo = ops \o Tail(td)
      BY <1>6, <1>7
    <3>2. ~Submitting(td[1])
      BY <1>3, <1>7
    <3> HIDE DEF td
    <3>3. td \in Seq(Ops) /\ td # <<>> /\ sem.tick \in Nat /\ TodoTicks(td, sem.tick)
      BY <1>1, <1>4
    <3>4. Quiet(td[1]) => \A i \in DOMAIN ops : Quiet(ops[i])
      BY <1>7
    <3>5. TodoTicks(ops \o Tail(td), sem.tick)
          /\ NextTick(ops \o Tail(td), sem.tick) = NextTick(td, sem.tick)
      BY <3>2, <3>3, <3>4, <1>7, TodoCalm
    <3> QED BY <3>1, <3>5
  <2> QED BY <1>2, <2>1 DEF Coming
\* The submission is recorded.
<1>8. ASSUME TicksOf(s) # {}, Then(<<>>)
      PROVE  /\ TodoTicks(main'.todo, sem.tick) /\ Coming' = Coming + 1 /\ s[1].tick = Coming
             /\ ~mode.worker => At("commit")'
  <2>1. /\ NextTick(td, sem.tick) = sem.tick - 1 /\ td[1][2][1].tick = sem.tick - 1
        /\ \A i \in DOMAIN Tail(td) : ~Submitting(Tail(td)[i])
    BY <1>1, <1>3, <1>4, <1>8, TodoAlone
  <2>2. main'.todo = Tail(td) /\ (1 < Len(td) => Tail(td) # <<>> /\ Tail(td)[1] = td[2])
    BY <1>1, <1>4, <1>5, <1>6, <1>8, EmptyOps
  <2>3. TodoTicks(main'.todo, sem.tick) /\ NextTick(main'.todo, sem.tick) = sem.tick
    BY <2>1, <2>2, Zenon DEF TodoTicks, NextTick
  <2>4. Coming = sem.tick - 1 /\ Coming' = sem.tick
    BY <1>2, <2>1, <2>3 DEF Coming
  <2>5. (sem.tick - 1) + 1 = sem.tick
    BY <1>1
  <2>6. ~mode.worker => At("commit")'
    BY <1>3, <1>8, <2>2, Zenon DEF At
  <2> QED BY <2>1, <2>3, <2>4, <2>5, <2>6
<1>9. CASE RecordFits(s)
  <2>1. mode.worker /\ Then(<<>>) /\ UNCHANGED <<gpu, fences>> /\ chunk' = ChunkRecord(chunk, s)
        /\ Len(s) <= ChunkSize - Len(chunk.cmds)
    BY <1>9, Zenon DEF RecordFits
  <2>2. TicksOf(chunk'.cmds) = TicksOf(s)
    BY <2>1, <1>1, <1>3, ChunkGrows DEF TypeOK
  <2>3. CASE TicksOf(s) = {}
    BY <2>1, <2>2, <2>3, <1>2, <1>3, <1>5, <1>7, RecordQuietInv
  <2>4. CASE TicksOf(s) # {}
    <3>1. TicksOf(chunk'.cmds) = {Coming}
      BY <2>1, <2>2, <2>4, <1>3, <1>8
    <3> QED BY <2>1, <2>4, <3>1, <1>2, <1>3, <1>8, RecordSubmitInv
  <2> QED BY <2>3, <2>4
<1>10. CASE RecordSplits(s)
  <2> DEFINE room == ChunkSize - Len(chunk.cmds)
             a == SubSeq(s, 1, room)
             b == SubSeq(s, room + 1, Len(s))
             ops == <<Op("dispatch"), RecordOp(b)>>
  <2>1. mode.worker /\ Len(s) > room /\ chunk' = ChunkRecord(chunk, a) /\ Then(ops)
        /\ UNCHANGED <<gpu, fences>>
    BY <1>10 DEF RecordSplits
  <2>2. a \in Seq(Command) /\ b \in Seq(Command) /\ TicksOf(a) = {}
        /\ (TicksOf(s) # {} => b = s) /\ (TicksOf(s) = {} => TicksOf(b) = {})
    <3>1. room \in 0 .. Len(s)
      BY <2>1, <1>1, <1>3, RoomIs
    <3>2. TicksOf(s) # {} => Len(s) = 1
      BY <1>3
    <3>3. SplitOK(s, a, b)
      <4> HIDE DEF s, room
      <4> QED BY <3>1, <3>2, <2>1, <1>3, SplitList DEF s, room
    <3> HIDE DEF a, b, s
    <3> QED BY <3>3 DEF SplitOK
  <2> HIDE DEF a, b, s
  <2>3. TicksOf(chunk'.cmds) = TicksOf(a)
    BY <2>1, <2>2, <1>1, <1>3, ChunkGrows DEF TypeOK
  <2>4. Op("dispatch") \in Ops /\ RecordOp(b) \in Ops /\ Quiet(Op("dispatch")) /\ ~Submitting(Op("dispatch"))
        /\ (TicksOf(b) = {} => Quiet(RecordOp(b)) /\ ~Submitting(RecordOp(b)))
    BY <2>2, OpTypes DEF OpName, Op, RecordOp, Quiet, Submitting
  <2>5. ops \in Seq(Ops) /\ DOMAIN ops = {1, 2} /\ ops[1] = Op("dispatch") /\ ops[2] = RecordOp(b)
    BY <2>4
  <2> HIDE DEF ops
  <2>6. TodoTicks(main'.todo, sem.tick) /\ Coming' = Coming
    <3>1. CASE TicksOf(s) = {}
      <4>1. Calm(ops) /\ \A i \in DOMAIN ops : Quiet(ops[i])
        BY <2>2, <2>4, <2>5, <3>1 DEF Calm
      <4> QED BY <2>1, <2>5, <3>1, <4>1, <1>7
    <3>2. CASE TicksOf(s) # {}
      <4>1. Submitting(td[1]) /\ ~Quiet(td[1]) /\ td[1] = RecordOp(s)
        BY <1>3, <3>2 DEF s
      <4>2. /\ NextTick(td, sem.tick) = sem.tick - 1 /\ td[1][2][1].tick = sem.tick - 1
            /\ \A i \in DOMAIN Tail(td) : ~Submitting(Tail(td)[i])
        BY <1>1, <1>4, <4>1, TodoAlone
      <4>3. Submitting(ops[2]) /\ ops[2][2][1].tick = sem.tick - 1
        BY <4>1, <4>2, <3>2, <2>2, <2>5
      <4>4. \A i \in DOMAIN ops : Submitting(ops[i]) => i = 2
        BY <2>4, <2>5
      <4>5. \A i \in 1 .. 2 - 1 : Quiet(ops[i])
        BY <2>4, <2>5
      <4>6. OneSubmits(ops, sem.tick - 1)
        <5>1. 2 \in DOMAIN ops
          BY <2>5
        <5> QED BY <4>3, <4>4, <4>5, <5>1, Zenon DEF OneSubmits
      <4>7. main'.todo = ops \o Tail(td)
        BY <2>1, <2>5, <1>6
      <4>8. TodoTicks(main'.todo, sem.tick) /\ NextTick(main'.todo, sem.tick) = sem.tick - 1
        <5> DEFINE n == sem.tick
                   r == Tail(td)
        <5>1. \A i \in DOMAIN r : ~Submitting(r[i])
          BY <4>2
        <5>2. ops \in Seq(Ops) /\ td \in Seq(Ops) /\ td # <<>> /\ n \in Nat /\ OneSubmits(ops, n - 1)
          BY <4>6, <2>5, <1>1, <1>4
        <5> HIDE DEF td, n
        <5>3. TodoTicks(ops \o r, n) /\ NextTick(ops \o r, n) = n - 1
          BY ONLY <5>1, <5>2, TodoNew
        <5> QED BY <5>3, <4>7 DEF td, n
      <4> QED BY <4>8, <4>2, <1>2 DEF Coming
    <3> QED BY <3>1, <3>2
  <2> QED BY <2>1, <2>2, <2>3, <2>6, <1>2, <1>3, RecordQuietInv
<1>11. ASSUME TicksOf(s) = {}, Then(<<>>), UNCHANGED <<chunk, gpu, fences>>
       PROVE  Inv'
  <2>1. main'.todo = <<>> \o Tail(td)
    BY <1>5, <1>6, <1>11
  <2> QED BY <1>1, <1>2, <1>3, <1>4, <1>5, <1>11, <2>1, CalmThen
<1>12. CASE RecordNothing(s)
  <2>1. TicksOf(s) = {}
    <3>1. Visible(s) = <<>>
      BY <1>12 DEF RecordNothing
    <3>2. TicksOf(Visible(s)) = TicksOf(s)
      BY <1>3, VisibleKeeps
    <3> QED BY <3>1, <3>2, ListNone
  <2> QED BY <2>1, <1>11, <1>12 DEF RecordNothing
<1>13. CASE RecordSubmits(s)
  <2>1. ~mode.worker /\ s # <<>> /\ s[1].op = "submit" /\ SubmitWork(s[1]) /\ Then(<<>>) /\ UNCHANGED chunk
    BY <1>13 DEF RecordSubmits
  <2>2. TicksOf(s) # {}
    BY <2>1, <1>3, ListTypes
  <2> HIDE DEF s
  <2> QED BY <2>1, <2>2, <1>2, <1>3, <1>4, <1>8, RecordNowInv
<1>14. CASE RecordPresents(s)
  <2>1. s # <<>> /\ s[1].op = "present" /\ Then(<<>>) /\ UNCHANGED <<chunk, gpu, fences>>
    BY <1>14 DEF RecordPresents
  <2>2. TicksOf(s) = {}
    BY <2>1, <1>3
  <2> QED BY <2>1, <2>2, <1>11
<1> QED BY <1>2, <1>9, <1>10, <1>12, <1>13, <1>14

-----------------------------------------------------------------------------
(* Ticks: the other threads.                                               *)

\* A step of another thread that leaves the recorded commands alone.
LEMMA OtherInv ==
    ASSUME Inv, Shape', UNCHANGED <<mainVars, workQueue, worker, sem, pool, fences>>,
           gpu'.counter = gpu.counter,
           \/ gpu'.queue = gpu.queue
           \/ \E s \in Work : s.tick = 0 /\ gpu'.queue = Append(gpu.queue, s)
    PROVE  Inv'
<1>1. sem.gpuTick <= gpu.counter /\ TodoTicks(main.todo, sem.tick)
  BY DEF Inv, TicksOK
<1>2. At("commit") => At("commit")'
  BY DEF At, mainVars
<1>3. UNCHANGED <<mode, main, chunk>>
  BY DEF mainVars
<1> QED BY <1>1, <1>2, <1>3, CalmStep

LEMMA PresenterInv ==
    ASSUME Inv, Shape', PresenterStep
    PROVE  Inv'
<1>1. CASE PresenterSleep \/ PresenterTake \/ PresenterFree
  <2>1. UNCHANGED <<mainVars, schedVars>>
    BY <1>1 DEF PresenterSleep, PresenterTake, PresenterFree
  <2> QED BY <2>1, OtherInv DEF schedVars
<1>2. CASE PresenterCopy
  <2>1. presenter.frame \in MaybeFrame /\ gpu \in GpuType
    BY StateFields DEF Inv, Shape, TypeOK
  <2> DEFINE c == [tick |-> 0, cmdbuf |-> 0, signal |-> NoFrame, wait |-> presenter.frame]
  <2>2. c \in Work /\ gpu'.queue = Append(gpu.queue, c) /\ gpu'.counter = gpu.counter /\ c.tick = 0
    BY <1>2, <2>1, CopyIs DEF PresenterCopy
  <2> HIDE DEF c
  <2>3. UNCHANGED <<mainVars, workQueue, worker, sem, pool, fences>>
    BY <1>2 DEF PresenterCopy
  <2> QED BY <2>2, <2>3, OtherInv
<1> QED BY <1>1, <1>2 DEF PresenterStep

LEMMA PopInv ==
    ASSUME Inv, Shape', WorkerPop, mode.worker
    PROVE  Inv'
<1>1. Shape /\ TypeOK /\ worker.work.cmds \in Seq(Command) /\ workQueue \in Seq(Chunk)
      /\ chunk.cmds \in Seq(Command) /\ ChunksOK(mode.worker, chunk, workQueue, worker)
      /\ TodoTicks(main.todo, sem.tick)
  BY StateFields DEF Inv, Shape, TypeOK, TicksOK
<1>2. /\ worker.pc = "check" /\ workQueue # <<>> /\ workQueue' = Tail(workQueue)
      /\ worker'.work.cmds = Visible(Head(workQueue).cmds) /\ Head(workQueue) \in Chunk
      /\ UNCHANGED <<mainVars, reserve, sem, pool, fences, gpu>>
  BY <1>1, PopIs
<1>3. UNCHANGED <<mode, main, chunk>>
  BY <1>2 DEF mainVars
<1>4. Coming' = Coming /\ TodoTicks(main'.todo, sem.tick)
  BY <1>1, <1>2, <1>3 DEF Coming
<1>5. ~Used
  BY <1>2 DEF Used
<1> DEFINE S == Stages
           T == Stages'
           n == Len(workQueue)
           v == Visible(Head(workQueue).cmds)
           h == [a \in 1 .. n + 1 |-> a + 1]
<1>6. Head(workQueue).cmds \in Seq(Command)
  BY <1>2, ChunkFields
<1>7. v \in Seq(Command) /\ TicksOf(v) = TicksOf(Head(workQueue).cmds)
  BY <1>6, VisibleKeeps
<1>8. /\ n \in Nat /\ DOMAIN S = 1 .. n + 2 /\ S[1] = worker.work.cmds
      /\ DOMAIN T = 1 .. Len(Tail(workQueue)) + 2
  <2>1. DOMAIN T = 1 .. Len(workQueue') + 2
    BY DEF Stages, Pipe
  <2> QED BY <1>1, <1>2, <2>1, StagesAre
<1>9. TicksOf(S[1]) = {}
  <2>1. worker.work.cmds = <<>>
    BY <1>1, <1>2, Zenon DEF ChunksOK
  <2> QED BY <1>8, <2>1, ListNone
<1>10. /\ Len(Tail(workQueue)) = n - 1 /\ S[2] = Head(workQueue).cmds /\ T[1] = v
       /\ \A a \in 2 .. n + 1 : T[a] = S[a + 1]
  <2>1. T = Pipe(v, Tail(workQueue), chunk.cmds)
    BY <1>2, <1>3 DEF Stages
  <2> HIDE DEF T, v
  <2> QED BY <1>1, <1>2, <1>7, <2>1, PipePop DEF Stages
<1>11. DOMAIN T = 1 .. n + 1
  <2> DEFINE m == Len(Tail(workQueue))
  <2>1. m = n - 1 /\ DOMAIN T = 1 .. m + 2
    BY <1>8, <1>10
  <2> HIDE DEF m, T, n
  <2> QED BY <1>8, <2>1
<1> HIDE DEF S, T, n, v
<1>12. \A a \in 1 .. n + 1 : a + 1 \in DOMAIN S /\ TicksOf(T[a]) = TicksOf(S[a + 1])
  <2> TAKE a \in 1 .. n + 1
  <2>1. a = 1 \/ a \in 2 .. n + 1
    BY <1>8
  <2>2. a = 1 => a + 1 = 2
    OBVIOUS
  <2>3. TicksOf(T[a]) = TicksOf(S[a + 1])
    BY <1>7, <1>10, <2>1, <2>2
  <2> QED BY <1>8, <2>3
<1>13. \A a \in DOMAIN T : TicksOf(T[a]) # {} => h[a] \in DOMAIN S /\ TicksOf(T[a]) \subseteq TicksOf(S[h[a]])
  BY <1>11, <1>12
<1>14. \A a, b \in DOMAIN T : a < b /\ TicksOf(T[a]) # {} /\ TicksOf(T[b]) # {} => h[a] < h[b]
  BY <1>8, <1>11
<1>15. \A a \in DOMAIN S : TicksOf(S[a]) = {} \/ \E b \in DOMAIN T : TicksOf(S[a]) = TicksOf(T[b])
  <2> SUFFICES ASSUME NEW a \in DOMAIN S, a # 1 PROVE \E b \in DOMAIN T : TicksOf(S[a]) = TicksOf(T[b])
    BY <1>9
  <2>1. a - 1 \in 1 .. n + 1 /\ (a - 1) + 1 = a
    BY <1>8
  <2> QED BY <2>1, <1>11, <1>12
<1> HIDE DEF h
<1> QED BY <1>2, <1>4, <1>5, <1>13, <1>14, <1>15, MovesInv DEF S, T

\* A command that submits nothing is executed.
LEMMA WorkerPresentInv ==
    ASSUME Inv, Shape', WorkerPresent
    PROVE  Inv'
<1>1. Shape /\ TypeOK /\ worker.work.cmds \in Seq(Command) /\ workQueue \in Seq(Chunk)
      /\ chunk.cmds \in Seq(Command) /\ TodoTicks(main.todo, sem.tick)
  BY StateFields DEF Inv, Shape, TypeOK, TicksOK
<1>2. /\ worker.pc = "execute" /\ worker.work.cmds # <<>> /\ Head(worker.work.cmds).op = "present"
      /\ WorkTail /\ UNCHANGED <<mainVars, workQueue, reserve, sem, pool, fences, gpu, eventCv>>
  BY DEF WorkerPresent, WorkTail
<1>3. UNCHANGED <<mode, main, chunk>>
  BY <1>2 DEF mainVars
<1>4. Coming' = Coming /\ TodoTicks(main'.todo, sem.tick)
  BY <1>1, <1>2, <1>3 DEF Coming
<1> DEFINE s == worker.work.cmds
<1>5. worker'.pc = worker.pc /\ worker'.work.cmds = Tail(s) /\ worker'.work.submit = worker.work.submit
  BY <1>1, <1>2, ExecuteIs
<1>6. TicksOf(Tail(s)) = TicksOf(s)
  <2>1. Tail(s) \in Seq(Command) /\ s[1].op = "present" /\ s \in Seq(Command) /\ s # <<>>
        /\ TicksOf(Tail(s)) \subseteq TicksOf(s)
    BY <1>1, <1>2, ListTail
  <2> HIDE DEF s
  <2>2. \A i \in DOMAIN s : s[i].op = "submit" => i - 1 \in DOMAIN Tail(s) /\ Tail(s)[i - 1] = s[i]
    BY <2>1
  <2> DEFINE t == Tail(s)
  <2> HIDE DEF t
  <2>3. TicksOf(s) \subseteq TicksOf(t)
    BY <2>2 DEF TicksOf, t
  <2> QED BY <2>1, <2>3 DEF t
<1>7. Used => Used'
  BY <1>3, <1>5, <1>6, Zenon DEF Used, At
<1> DEFINE S == Stages
           T == Stages'
           n == Len(workQueue)
           h == [a \in 1 .. n + 2 |-> a]
<1>8. /\ n \in Nat /\ DOMAIN S = 1 .. n + 2 /\ DOMAIN T = 1 .. n + 2
      /\ T[1] = Tail(s) /\ S[1] = s /\ \A a \in 2 .. n + 2 : T[a] = S[a]
  BY <1>1, <1>2, <1>3, <1>5, StagesAre DEF Stages, Pipe
<1> HIDE DEF S, T, n, s
<1>9. \A a \in 1 .. n + 2 : TicksOf(T[a]) = TicksOf(S[a])
  <2> TAKE a \in 1 .. n + 2
  <2>1. a = 1 \/ a \in 2 .. n + 2
    BY <1>8
  <2> QED BY <2>1, <1>6, <1>8
<1>10. \A a \in DOMAIN T : TicksOf(T[a]) # {} => h[a] \in DOMAIN S /\ TicksOf(T[a]) \subseteq TicksOf(S[h[a]])
  BY <1>8, <1>9
<1>11. \A a, b \in DOMAIN T : a < b /\ TicksOf(T[a]) # {} /\ TicksOf(T[b]) # {} => h[a] < h[b]
  BY <1>8
<1>12. \A a \in DOMAIN S : \E b \in DOMAIN T : TicksOf(S[a]) = TicksOf(T[b])
  BY <1>8, <1>9
<1> HIDE DEF h
<1> QED BY <1>2, <1>4, <1>7, <1>10, <1>11, <1>12, MovesInv DEF S, T

\* The worker submits: the first of the recorded commands that do.
LEMMA ExecuteInv ==
    ASSUME Inv, Shape', WorkerExecute, mode.worker
    PROVE  Inv'
<1>1. Shape /\ TypeOK /\ TypeOK' /\ worker.work.cmds \in Seq(Command) /\ workQueue \in Seq(Chunk)
      /\ chunk.cmds \in Seq(Command) /\ ChunksOK(mode.worker, chunk, workQueue, worker)
      /\ TicksOK /\ GpuOK(gpu.queue, gpu.counter, fences) /\ PoolOK
      /\ pool \in PoolType /\ gpu \in GpuType /\ fences \in Seq(Nat) /\ pool.cur \in DOMAIN pool.ticks
  BY StateFields DEF Inv, Shape, TypeOK
<1> DEFINE s == worker.work.cmds
           c == Head(s)
<1>2. /\ worker.pc = "execute" /\ s # <<>> /\ c.op = "submit" /\ SubmitWork(c)
      /\ WorkTail /\ UNCHANGED <<mainVars, workQueue, reserve, sem, pool, eventCv>>
  BY DEF WorkerExecute, WorkTail
<1>3. UNCHANGED <<mode, main, chunk>>
  BY <1>2 DEF mainVars
<1>4. worker'.pc = "execute" /\ worker'.work.cmds = Tail(s) /\ worker'.work.submit = worker.work.submit
  BY <1>1, <1>2, ExecuteIs
<1>5. c \in Command /\ c = s[1] /\ Tail(s) = <<>> /\ worker.work.submit
      /\ c.tick \in TicksOf(s) /\ \A v \in TicksOf(s) : v = c.tick
  <2>1. SubmitLast(s) /\ (TicksOf(s) # {} => worker.work.submit)
    BY <1>1, Zenon DEF ChunksOK
  <2>2. c \in Command /\ c = s[1] /\ Tail(s) = <<>>
    BY <1>1, <1>2, <2>1, ListTail
  <2>3. 1 \in DOMAIN s
    BY <1>1, <1>2
  <2>4. \A i \in DOMAIN s : i = 1
    <3> DEFINE l == Len(s)
    <3>1. DOMAIN s = 1 .. l /\ l \in Nat
      BY <1>1
    <3>2. 1 = l
      BY <1>2, <2>1, <2>2, <2>3 DEF SubmitLast
    <3> HIDE DEF l
    <3> QED BY ONLY <3>1, <3>2
  <2> HIDE DEF s, c
  <2>5. c.tick \in TicksOf(s) /\ \A v \in TicksOf(s) : v = c.tick
    BY <1>2, <2>2, <2>3, <2>4 DEF TicksOf
  <2> QED BY <2>1, <2>2, <2>5
<1>6. sem.tick > 0 /\ sem.gpuTick <= gpu.counter /\ PipeOK(Stages, Begun(gpu), Coming)
      /\ TodoTicks(main.todo, sem.tick)
  BY <1>1 DEF TicksOK
<1>7. Coming \in Nat /\ Begun(gpu) \in SUBSET Nat /\ gpu.counter \in Begun(gpu) /\ c.tick \in Nat
  BY <1>1, <1>5, <1>6, ComingIs, BegunIs, CommandFields
<1> DEFINE S == Stages
           T == Stages'
           n == Len(workQueue)
           G == Begun(gpu)
           m == Coming
           v == c.tick
<1>8. /\ n \in Nat /\ DOMAIN S = 1 .. n + 2 /\ DOMAIN T = 1 .. n + 2
      /\ S[1] = s /\ \A a \in DOMAIN S : TicksOf(S[a]) \subseteq Nat
  <2>1. DOMAIN T = 1 .. Len(workQueue') + 2
    BY DEF Stages, Pipe
  <2> QED BY <1>1, <1>2, <2>1, StagesAre
<1>9. T[1] = <<>> /\ \A a \in 2 .. n + 2 : T[a] = S[a]
  <2>1. T = Pipe(<<>>, workQueue, chunk.cmds) /\ S = Pipe(s, workQueue, chunk.cmds)
    BY <1>2, <1>3, <1>4, <1>5 DEF Stages
  <2>2. /\ \A a \in 2 .. n + 2 : Pipe(<<>>, workQueue, chunk.cmds)[a] = Pipe(s, workQueue, chunk.cmds)[a]
        /\ Pipe(<<>>, workQueue, chunk.cmds)[1] = <<>>
    BY <1>8 DEF Pipe
  <2> HIDE DEF T, S, s, n
  <2> QED BY <2>1, <2>2
<1>10. PipeOK(S, G, m) /\ G \in SUBSET Nat /\ m \in Nat /\ v \in Nat /\ v \in TicksOf(S[1])
       /\ \A x \in TicksOf(S[1]) : x = v
  BY <1>5, <1>6, <1>7, <1>8
<1> DEFINE w == Submission(c)
<1>11. gpu'.queue = Append(gpu.queue, w) /\ gpu'.counter = gpu.counter /\ w \in Work
       /\ fences' \in {fences, Append(fences, v)} /\ w.tick = v /\ w.cmdbuf = pool.cur
  <2>1. gpu'.queue = Append(gpu.queue, w) /\ gpu'.counter = gpu.counter
        /\ fences' \in {fences, Append(fences, v)} /\ w \in Work
    <3> HIDE DEF c
    <3> QED BY <1>1, <1>2, <1>5, SubmitWorkIs, SubmissionType
  <2>2. w.tick = v /\ w.cmdbuf = pool.cur
    BY DEF Submission
  <2> QED BY <2>1, <2>2
<1> HIDE DEF S, T, n, G, m, v, w, s, c
<1>12. (\A g \in G : g < v) /\ v < m /\ v > 0
  <2>1. 1 \in DOMAIN S
    BY <1>8
  <2>2. (\A g \in G : g < v) /\ v < m
    BY <1>10, <2>1, Zenon DEF PipeOK
  <2>3. gpu.counter \in G /\ gpu.counter \in Nat
    BY <1>7 DEF G
  <2> QED BY <1>10, <2>2, <2>3
<1>13. PipeOK(T, G \cup {v}, m)
  <2>1. DOMAIN T = DOMAIN S /\ DOMAIN S \subseteq Nat \ {0} /\ 1 \in DOMAIN S
        /\ \A a \in DOMAIN S : a # 1 => T[a] = S[a]
    <3>1. \A a \in 1 .. n + 2 : a \in Nat \ {0} /\ (a # 1 => a \in 2 .. n + 2)
      OBVIOUS
    <3> QED BY <3>1, <1>8, <1>9
  <2>2. TicksOf(T[1]) = {}
    BY <1>9, ListNone
  <2>3. \A a \in DOMAIN S : a # 1 => TicksOf(T[a]) = TicksOf(S[a])
    BY <2>1
  <2> QED BY <1>10, <2>1, <2>2, <2>3, PipeSubmits
<1>14. /\ GpuOK(gpu.queue, gpu.counter, fences)'
       /\ Begun(gpu') = Begun(gpu) \cup ({w.tick} \ {0})
       /\ \A i \in DOMAIN gpu'.queue : (i \in DOMAIN gpu.queue /\ gpu'.queue[i] = gpu.queue[i])
                                       \/ gpu'.queue[i] = w
  <2>1. w.tick > 0 => \A g \in Begun(gpu) : g < w.tick
    BY <1>11, <1>12 DEF G
  <2>2. fences' = fences \/ (fences' = Append(fences, w.tick) /\ w.tick > 0)
    BY <1>11, <1>12
  <2> QED BY <1>1, <1>11, <2>1, <2>2, GpuAppend
<1>15. TicksOK'
  <2>1. Begun(gpu') = G \cup {v}
    BY <1>10, <1>11, <1>12, <1>14 DEF G
  <2>2. Coming' = m /\ sem' = sem /\ main' = main
    BY <1>2, <1>3 DEF Coming, m
  <2>3. PipeOK(Stages, Begun(gpu), Coming)'
    BY <1>13, <2>1, <2>2 DEF T
  <2> QED BY <1>6, <1>11, <2>2, <2>3 DEF TicksOK
<1>16. ~Used /\ Used'
  <2>1. TicksOf(worker.work.cmds) # {} /\ TicksOf(worker'.work.cmds) = {}
    BY <1>4, <1>5, ListNone DEF s
  <2> QED BY <1>3, <1>4, <1>5, <2>1, Zenon DEF Used
<1>17. v <= pool.ticks[pool.cur]
  <2>1. PICK x \in Upcoming : x <= pool.ticks[pool.cur]
    BY <1>1, <1>16, Zenon DEF PoolOK
  <2>2. x = m \/ \E a \in DOMAIN S : x \in TicksOf(S[a])
    BY DEF Upcoming, m, S
  <2>3. v <= x /\ x \in Nat
    <3>1. CASE x = m
      BY <3>1, <1>10, <1>12
    <3>2. CASE \E a \in DOMAIN S : x \in TicksOf(S[a])
      <4>1. PICK a \in DOMAIN S : x \in TicksOf(S[a])
        BY <3>2
      <4>2. x \in Nat
        BY <4>1, <1>8
      <4>3. CASE a = 1
        BY <4>1, <4>3, <1>10
      <4>4. CASE a # 1
        <5>1. 1 \in DOMAIN S /\ 1 < a
          BY <4>4, <1>8
        <5>2. v < x
          BY <5>1, <4>1, <1>10, Zenon DEF PipeOK
        <5> QED BY <5>2, <4>2, <1>10
      <4> QED BY <4>3, <4>4
    <3> QED BY <2>2, <3>1, <3>2
  <2>4. pool.ticks[pool.cur] \in Nat
    BY <1>1 DEF PoolType
  <2> QED BY <2>1, <2>3, <2>4, <1>10
<1>18. ASSUME NEW i \in DOMAIN gpu'.queue PROVE InUse(gpu'.queue[i], pool', Used')
  <2>1. CASE i \in DOMAIN gpu.queue /\ gpu'.queue[i] = gpu.queue[i]
    <3>1. InUse(gpu.queue[i], pool, Used)
      BY <1>1, <2>1, Zenon DEF PoolOK
    <3> QED BY <1>2, <1>16, <2>1, <3>1, Zenon DEF InUse
  <2>2. CASE gpu'.queue[i] = w
    BY <1>1, <1>2, <1>11, <1>16, <1>17, <2>2, Zenon DEF InUse
  <2> QED BY <1>14, <2>1, <2>2
<1>19. PoolOK'
  BY <1>16, <1>18 DEF PoolOK
<1> QED BY <1>14, <1>15, <1>19 DEF Inv

LEMMA DoneInv ==
    ASSUME Inv, Shape', WorkerDone, mode.worker
    PROVE  Inv'
<1>1. Shape /\ TypeOK /\ TypeOK' /\ TicksOK /\ GpuOK(gpu.queue, gpu.counter, fences) /\ PoolOK
      /\ sem.tick \in Nat /\ pool \in PoolType
  BY StateFields DEF Inv, Shape, TypeOK
<1>2. /\ worker.pc = "execute" /\ worker.work.cmds = <<>> /\ worker'.pc = "check" /\ worker'.work.cmds = <<>>
      /\ UNCHANGED <<mainVars, workQueue, fences, gpu, eventCv>>
      /\ \/ ~worker.work.submit /\ UNCHANGED <<sem, pool>>
         \/ worker.work.submit /\ sem' = Refresh(sem) /\ pool' = Commit(pool, sem'.gpuTick, sem.tick)
  BY <1>1, DoneIs
<1>3. UNCHANGED <<mode, main, chunk>>
  BY <1>2 DEF mainVars
<1>4. Stages' = Stages
  BY <1>2, <1>3 DEF Stages
<1>5. sem.tick > 0 /\ sem.gpuTick <= gpu.counter /\ PipeOK(Stages, Begun(gpu), Coming)
      /\ TodoTicks(main.todo, sem.tick)
  BY <1>1 DEF TicksOK
<1>6. sem'.tick = sem.tick
  <2>1. sem \in [tick : Nat, gpuTick : Nat] /\ gpu \in GpuType
    BY <1>1 DEF TypeOK
  <2> QED BY <1>2, <2>1, RefreshIs
<1>7. Coming' = Coming
  BY <1>3, <1>6 DEF Coming
<1>8. PoolOK' /\ sem'.gpuTick <= gpu.counter
  <2>1. CASE worker.work.submit /\ sem' = Refresh(sem) /\ pool' = Commit(pool, sem'.gpuTick, sem.tick)
    <3>1. Coming' <= sem.tick
      BY <1>1, <1>5, <1>7, ComingIs
    <3> QED BY <2>1, <3>1, <1>1, <1>2, <1>5, PoolCommits
  <2>2. CASE ~worker.work.submit /\ UNCHANGED <<sem, pool>>
    <3>1. ~Used
      BY <2>2, Zenon DEF Used
    <3>2. Upcoming' = Upcoming
      BY <1>4, <1>7 DEF Upcoming
    <3> QED BY <2>2, <3>1, <3>2, <1>1, <1>2, <1>5, PoolKept
  <2> QED BY <1>2, <2>1, <2>2
<1>9. TicksOK'
  <2>1. PipeOK(Stages, Begun(gpu), Coming)'
    BY <1>2, <1>4, <1>5, <1>7
  <2> QED BY <1>2, <1>3, <1>5, <1>6, <1>8, <2>1 DEF TicksOK
<1>10. GpuOK(gpu.queue, gpu.counter, fences)'
  BY <1>1, <1>2
<1> QED BY <1>8, <1>9, <1>10 DEF Inv

LEMMA WorkerInv ==
    ASSUME Inv, Shape', WorkerStep
    PROVE  Inv'
<1>1. CASE WorkerSleep /\ mode.worker
  BY <1>1, OtherInv DEF WorkerSleep
<1> QED BY <1>1, PopInv, ExecuteInv, DoneInv, WorkerPresentInv DEF WorkerStep

\* gpu_tick is set to a value the GPU has reached.
LEMMA WaitThreadInv ==
    ASSUME Inv, Shape', WaitThread
    PROVE  Inv'
<1>1. TypeOK /\ TypeOK' /\ TicksOK /\ GpuOK(gpu.queue, gpu.counter, fences) /\ PoolOK
      /\ sem \in [tick : Nat, gpuTick : Nat] /\ fences \in Seq(Nat)
  BY DEF Inv, Shape, TypeOK
<1>2. /\ fences # <<>> /\ Head(fences) \notin InFlight /\ fences' = Tail(fences)
      /\ sem' = [sem EXCEPT !.gpuTick = Head(fences)]
      /\ UNCHANGED <<mainVars, workQueue, reserve, worker, pool, gpu, eventCv>>
  BY DEF WaitThread
<1>3. UNCHANGED <<mode, main, chunk>>
  BY <1>2 DEF mainVars
<1> DEFINE v == Head(fences)
<1>4. v \in Nat /\ v = fences[1] /\ 1 \in DOMAIN fences
      /\ \A k \in DOMAIN Tail(fences) : k + 1 \in DOMAIN fences /\ Tail(fences)[k] = fences[k + 1]
  BY <1>1, <1>2
<1> HIDE DEF v
<1>5. sem'.tick = sem.tick /\ sem'.gpuTick = v
  BY <1>1, <1>2, Zenon DEF v
<1>6. v <= gpu.counter
  <2>1. v <= gpu.counter \/ \E i \in DOMAIN gpu.queue : gpu.queue[i].tick > 0 /\ gpu.queue[i].tick = v
    BY <1>1, <1>4, Zenon DEF GpuOK
  <2>2. ASSUME NEW i \in DOMAIN gpu.queue, gpu.queue[i].tick > 0, gpu.queue[i].tick = v PROVE FALSE
    <3>1. v # 0
      BY <2>2
    <3> QED BY <2>2, <3>1, <1>2 DEF InFlight, v
  <2> QED BY <2>1, <2>2
<1>7. GpuOK(gpu.queue, gpu.counter, fences)'
  <2>1. \A k \in DOMAIN Tail(fences) :
           Tail(fences)[k] <= gpu.counter
           \/ \E i \in DOMAIN gpu.queue : gpu.queue[i].tick > 0 /\ gpu.queue[i].tick = Tail(fences)[k]
    BY <1>1, <1>4, Zenon DEF GpuOK
  <2> QED BY <1>1, <1>2, <2>1, Zenon DEF GpuOK
<1>8. Coming' = Coming /\ Stages' = Stages
  BY <1>2, <1>3, <1>5 DEF Coming, Stages
<1>9. TicksOK'
  <2>1. sem.tick > 0 /\ PipeOK(Stages, Begun(gpu), Coming) /\ TodoTicks(main.todo, sem.tick)
    BY <1>1 DEF TicksOK
  <2>2. PipeOK(Stages, Begun(gpu), Coming)'
    BY <1>2, <1>8, <2>1
  <2> QED BY <1>2, <1>3, <1>5, <1>6, <2>1, <2>2 DEF TicksOK
<1>10. PoolOK'
  <2>1. Used => Used'
    BY <1>2, <1>3, Zenon DEF Used, At
  <2>2. Upcoming' = Upcoming
    BY <1>8 DEF Upcoming
  <2> QED BY <1>1, <1>2, <2>1, <2>2, PoolKept
<1> QED BY <1>7, <1>9, <1>10 DEF Inv

\* The GPU completes a submission, or a copy.
LEMMA CompleteInv ==
    ASSUME Inv, Shape', GpuComplete
    PROVE  Inv'
<1>1. TypeOK /\ TypeOK' /\ TicksOK /\ GpuOK(gpu.queue, gpu.counter, fences) /\ PoolOK
      /\ gpu.queue \in Seq(Work) /\ gpu.counter \in Nat /\ sem.gpuTick \in Nat /\ fences \in Seq(Nat)
  BY StateFields DEF Inv, Shape, TypeOK
<1> DEFINE q == gpu.queue
           r == gpu'.queue
           c == gpu.counter
           d == gpu'.counter
           s == Head(q)
<1>2. /\ q # <<>> /\ s \in Work /\ r = Tail(q) /\ d = (IF s.tick > 0 THEN s.tick ELSE c)
      /\ UNCHANGED <<mainVars, workQueue, reserve, worker, sem, pool, fences, eventCv>>
  BY <1>1, CompleteIs
<1>3. UNCHANGED <<mode, main, chunk>>
  BY <1>2 DEF mainVars
<1>4. /\ s = q[1] /\ 1 \in DOMAIN q
      /\ \A i \in DOMAIN r : i + 1 \in DOMAIN q /\ r[i] = q[i + 1] /\ 1 < i + 1 /\ i \in Int
      /\ \A i \in DOMAIN q : i # 1 => i - 1 \in DOMAIN r /\ r[i - 1] = q[i]
  <2>1. q \in Seq(Work) /\ q # <<>> /\ r = Tail(q)
    BY <1>1, <1>2
  <2> HIDE DEF q, r
  <2>2. s = q[1] /\ 1 \in DOMAIN q
    BY <2>1
  <2>3. \A i \in DOMAIN r : i + 1 \in DOMAIN q /\ r[i] = q[i + 1] /\ 1 < i + 1 /\ i \in Int
    BY <2>1
  <2>4. \A i \in DOMAIN q : i # 1 => i - 1 \in DOMAIN r /\ r[i - 1] = q[i]
    BY <2>1
  <2> QED BY <2>2, <2>3, <2>4
<1>5. /\ c \in Nat /\ s.tick \in Nat
      /\ \A i \in DOMAIN q : q[i].tick \in Nat /\ (q[i].tick > 0 => c < q[i].tick)
      /\ \A i, j \in DOMAIN q : i < j /\ q[i].tick > 0 /\ q[j].tick > 0 => q[i].tick < q[j].tick
      /\ \A k \in DOMAIN fences : fences[k] <= c \/ \E i \in DOMAIN q : q[i].tick > 0 /\ q[i].tick = fences[k]
  <2>1. \A i \in DOMAIN q : q[i].tick \in Nat
    BY <1>1, BegunIs
  <2>2. s.tick \in Nat
    BY <1>4, <2>1
  <2> QED BY <1>1, <2>1, <2>2, Zenon DEF GpuOK
<1> HIDE DEF q, r, c, d, s
<1>6. c <= d /\ d \in Nat
  BY <1>2, <1>4, <1>5
<1>7. GpuOK(r, d, fences)
  <2>1. ASSUME NEW i \in DOMAIN r, r[i].tick > 0 PROVE d < r[i].tick
    <3>1. i + 1 \in DOMAIN q /\ r[i] = q[i + 1] /\ 1 < i + 1 /\ q[i + 1].tick > 0
      BY <1>4, <2>1
    <3>2. CASE s.tick > 0
      <4>1. q[1].tick < q[i + 1].tick
        BY <1>4, <1>5, <3>1, <3>2
      <4> QED BY <4>1, <3>1, <3>2, <1>2, <1>4
    <3>3. CASE ~(s.tick > 0)
      BY <1>2, <1>5, <3>1, <3>3
    <3> QED BY <3>2, <3>3
  <2>2. ASSUME NEW i \in DOMAIN r, NEW j \in DOMAIN r, i < j, r[i].tick > 0, r[j].tick > 0
        PROVE  r[i].tick < r[j].tick
    <3>1. i + 1 \in DOMAIN q /\ r[i] = q[i + 1] /\ j + 1 \in DOMAIN q /\ r[j] = q[j + 1]
      BY <1>4
    <3>2. i + 1 < j + 1
      BY <1>4, <2>2
    <3> QED BY <1>5, <2>2, <3>1, <3>2, Zenon
  <2>3. ASSUME NEW k \in DOMAIN fences
        PROVE  fences[k] <= d \/ \E i \in DOMAIN r : r[i].tick > 0 /\ r[i].tick = fences[k]
    <3>1. CASE fences[k] <= c
      <4>1. fences[k] \in Nat
        BY <1>1
      <4> QED BY <3>1, <4>1, <1>5, <1>6
    <3>2. CASE \E i \in DOMAIN q : q[i].tick > 0 /\ q[i].tick = fences[k]
      <4>1. PICK i \in DOMAIN q : q[i].tick > 0 /\ q[i].tick = fences[k]
        BY <3>2
      <4>2. CASE i = 1
        BY <1>2, <1>4, <1>5, <4>1, <4>2
      <4>3. CASE i # 1
        BY <1>4, <4>1, <4>3
      <4> QED BY <4>2, <4>3
    <3> QED BY <1>5, <3>1, <3>2
  <2> QED BY <2>1, <2>2, <2>3, Zenon DEF GpuOK
<1>8. Begun(gpu') \subseteq Begun(gpu)
  <2>1. Begun(gpu) = {c} \cup ({q[i].tick : i \in DOMAIN q} \ {0})
        /\ Begun(gpu') = {d} \cup ({r[i].tick : i \in DOMAIN r} \ {0})
    BY DEF Begun, q, r, c, d
  <2>2. d \in Begun(gpu)
    BY <1>2, <1>4, <1>5, <2>1
  <2>3. \A i \in DOMAIN r : r[i].tick # 0 => r[i].tick \in Begun(gpu)
    BY <1>4, <2>1
  <2> QED BY <2>1, <2>2, <2>3
<1>9. Coming' = Coming /\ Stages' = Stages
  BY <1>2, <1>3 DEF Coming, Stages
<1>10. TicksOK'
  <2>1. sem.tick > 0 /\ sem.gpuTick <= c /\ PipeOK(Stages, Begun(gpu), Coming) /\ TodoTicks(main.todo, sem.tick)
    BY <1>1 DEF TicksOK, c
  <2>2. Coming \in Nat /\ Begun(gpu) \in SUBSET Nat /\ \A a \in DOMAIN Stages : TicksOf(Stages[a]) \subseteq Nat
    BY <1>1, <2>1, ComingIs, BegunIs, StagesAre
  <2> DEFINE S == Stages
             G == Begun(gpu)
             H == Begun(gpu')
             n == Coming
  <2>3. PipeOK(S, G, n) /\ H \subseteq G
    BY <1>8, <2>1
  <2> HIDE DEF S, G, H, n
  <2>4. PipeOK(S, H, n)
    BY <2>3 DEF PipeOK
  <2>5. PipeOK(Stages, Begun(gpu), Coming)'
    BY <2>4, <1>9 DEF S, H, n
  <2>6. sem.gpuTick <= d
    BY <1>1, <1>5, <1>6, <2>1
  <2> QED BY <1>2, <1>3, <2>1, <2>5, <2>6 DEF TicksOK, d
<1>11. PoolOK'
  <2>1. Used => Used'
    BY <1>2, <1>3, Zenon DEF Used, At
  <2>2. Upcoming' = Upcoming
    BY <1>9 DEF Upcoming
  <2>3. \A i \in DOMAIN gpu'.queue : \E j \in DOMAIN gpu.queue : gpu'.queue[i] = gpu.queue[j]
    BY <1>4 DEF q, r
  <2> QED BY <1>1, <1>2, <2>1, <2>2, <2>3, PoolKept
<1>12. GpuOK(gpu.queue, gpu.counter, fences)'
  BY <1>2, <1>7 DEF r, d
<1> QED BY <1>10, <1>11, <1>12 DEF Inv

LEMMA NextInv ==
    ASSUME ~ShouldFlush, Inv, [Next]_vars
    PROVE  Inv'
<1>1. Shape'
  BY NextShape DEF Inv
<1>2. CASE UNCHANGED vars
  BY <1>1, <1>2, OtherInv DEF vars, schedVars
<1>3. CASE Next
  <2>1. CASE StartDraw \/ StartFlush \/ StartFinish \/ RenderToWindow
    BY <1>1, <2>1, CallsInv
  <2>2. CASE MainStep
    BY <1>1, <2>2, RecordInv, DispatchInv, AcquireInv, EndRenderingInv, SubmitInv, CommitInv, SemWaitInv,
       GetFrameInv, FenceInv, WaitsInv, CopyInv, BeginInv DEF MainStep
  <2>3. CASE WorkerStep
    BY <1>1, <2>3, WorkerInv
  <2>4. CASE PresenterStep
    BY <1>1, <2>4, PresenterInv
  <2>5. CASE WaitThreadStep
    BY <1>1, <2>5, WaitThreadInv DEF WaitThreadStep
  <2>6. CASE GpuStep
    BY <1>1, <2>6, CompleteInv DEF GpuStep
  <2> QED BY <1>3, <2>1, <2>2, <2>3, <2>4, <2>5, <2>6 DEF Next
<1> QED BY <1>2, <1>3

LEMMA InitInv ==
    ASSUME Init
    PROVE  Inv
<1>1. Shape
  BY InitShape
<1>2. /\ main.todo = <<>> /\ chunk.cmds = <<>> /\ workQueue = <<>> /\ worker.pc = "check" /\ worker.work.cmds = <<>>
      /\ sem.tick = 1 /\ sem.gpuTick = 0 /\ fences = <<>> /\ gpu.queue = <<>> /\ gpu.counter = 0
  BY DEF Init, NewChunk, GpuState
<1>3. Coming = 1 /\ TodoTicks(main.todo, sem.tick)
  <2>1. \A i \in DOMAIN main.todo : FALSE
    BY <1>2
  <2> QED BY <1>2, <2>1, Zenon DEF Coming, NextTick, TodoTicks
<1>4. \A a \in DOMAIN Stages : TicksOf(Stages[a]) = {}
  <2>1. \A a \in DOMAIN Stages : Stages[a] = <<>>
    BY <1>2 DEF Stages, Pipe
  <2> QED BY <2>1, ListNone
<1>5. Begun(gpu) = {0}
  BY <1>2 DEF Begun
<1>6. TicksOK
  <2>1. \A g \in Begun(gpu) : g < Coming
    BY <1>3, <1>5
  <2>2. PipeOK(Stages, Begun(gpu), Coming)
    BY <1>4, <2>1, Zenon DEF PipeOK
  <2>3. 1 > 0 /\ 0 <= 0
    OBVIOUS
  <2> QED BY <1>2, <1>3, <2>2, <2>3, Zenon DEF TicksOK
<1>7. GpuOK(gpu.queue, gpu.counter, fences)
  BY <1>2 DEF GpuOK
<1>8. pool.ticks[pool.cur] = 1
  <2> DEFINE p == [ticks |-> <<>>, hint |-> 0, cur |-> 0]
  <2>1. p \in PoolType
    BY DEF PoolType
  <2>2. pool = Commit(p, 0, 1)
    BY DEF Init
  <2> HIDE DEF p
  <2> QED BY <2>1, <2>2, CommitIs DEF Committed
<1>9. PoolOK
  <2>1. Coming \in Upcoming /\ Coming <= pool.ticks[pool.cur]
    BY <1>3, <1>8 DEF Upcoming
  <2>2. \A i \in DOMAIN gpu.queue : FALSE
    BY <1>2
  <2> QED BY <2>1, <2>2, Zenon DEF PoolOK
<1> QED BY <1>1, <1>6, <1>7, <1>9 DEF Inv

\* What the two properties of the ticks need of the invariant.
LEMMA InvImplies ==
    ASSUME Inv
    PROVE  FreeTicksAreDone /\ RecordsIntoFreeBuffer
<1>1. TypeOK /\ TicksOK /\ PoolOK /\ GpuOK(gpu.queue, gpu.counter, fences) /\ sem.gpuTick \in Nat
      /\ gpu.counter \in Nat /\ workQueue \in Seq(Chunk)
  BY StateFields DEF Inv, Shape, TypeOK
<1>2. sem.gpuTick <= gpu.counter /\ PipeOK(Stages, Begun(gpu), Coming)
  BY <1>1 DEF TicksOK
<1>3. ASSUME NEW v \in InFlight PROVE sem.gpuTick < v
  <2>1. PICK i \in DOMAIN gpu.queue : gpu.queue[i].tick = v /\ v # 0
    BY DEF InFlight
  <2>2. v \in Nat /\ v > 0
    BY <1>1, <2>1, BegunIs
  <2>3. gpu.counter < v
    BY <1>1, <2>1, <2>2, Zenon DEF GpuOK
  <2> QED BY <1>1, <1>2, <2>2, <2>3
<1>4. ASSUME NEW c \in RecordedCommands, c.op = "submit" PROVE sem.gpuTick < c.tick
  <2>1. PICK a \in DOMAIN Stages : c \in ToSet(Stages[a])
    <3>1. PICK k \in {worker.work, chunk} \cup ToSet(workQueue) : c \in ToSet(k.cmds)
      BY DEF RecordedCommands
    <3>2. CASE k = worker.work
      BY <1>1, <3>1, <3>2, StagesAre
    <3>3. CASE k = chunk
      BY <1>1, <3>1, <3>3, StagesAre
    <3>4. CASE k \in ToSet(workQueue)
      <4>1. PICK i \in DOMAIN workQueue : k = workQueue[i]
        BY <3>4 DEF ToSet
      <4> QED BY <1>1, <3>1, <4>1, StagesAre
    <3> QED BY <3>2, <3>3, <3>4
  <2>2. c.tick \in TicksOf(Stages[a]) /\ c.tick \in Nat
    <3>1. c.tick \in TicksOf(Stages[a])
      BY <1>4, <2>1 DEF ToSet, TicksOf
    <3> QED BY <1>1, <3>1, StagesAre
  <2>3. gpu.counter < c.tick
    <3>1. gpu.counter \in Begun(gpu)
      BY <1>1, BegunIs
    <3> QED BY <1>2, <2>2, <3>1, Zenon DEF PipeOK
  <2> QED BY <1>1, <1>2, <2>2, <2>3
<1>5. RecordsIntoFreeBuffer
  <2> SUFFICES ASSUME NEW i \in DOMAIN gpu.queue, gpu.queue[i].tick > 0
               PROVE  \/ gpu.queue[i].cmdbuf # pool.cur
                      \/ worker.pc = "execute" /\ worker.work.submit
                      \/ At("commit")
    BY DEF RecordsIntoFreeBuffer
  <2>1. Used \/ gpu.queue[i].cmdbuf # pool.cur
    BY <1>1, Zenon DEF PoolOK, InUse
  <2> QED BY <2>1, Zenon DEF Used
<1> QED BY <1>3, <1>4, <1>5 DEF FreeTicksAreDone

\* IsFree is right, unless ending a render pass flushes (Instance::ShouldFlush): a
\* tick that gpu_tick has reached is one whose submission, and every one before it,
\* the GPU has completed, however the emulation thread, the worker, the fences'
\* thread and the GPU are interleaved.
THEOREM TicksDone == ASSUME ~ShouldFlush PROVE Spec => []FreeTicksAreDone
<1>1. Init => Inv
  BY InitInv
<1>2. Inv /\ [Next]_vars => Inv'
  BY NextInv
<1>3. Inv => FreeTicksAreDone
  BY InvImplies
<1> QED BY <1>1, <1>2, <1>3, PTL DEF Spec

\* CommandPool::Commit never hands out a command buffer that the GPU still executes,
\* under the same hypothesis: what is recorded goes into a free one.
THEOREM BufferFree == ASSUME ~ShouldFlush PROVE Spec => []RecordsIntoFreeBuffer
<1>1. Init => Inv
  BY InitInv
<1>2. Inv /\ [Next]_vars => Inv'
  BY NextInv
<1>3. Inv => RecordsIntoFreeBuffer
  BY InvImplies
<1> QED BY <1>1, <1>2, <1>3, PTL DEF Spec

=============================================================================
