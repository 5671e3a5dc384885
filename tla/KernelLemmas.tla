---------------------------- MODULE KernelLemmas ----------------------------
(***************************************************************************)
(* What the kernel's handlers are built from, for every set of threads,    *)
(* objects and cores: the ready queues and what their operations do, the   *)
(* kernel states, the inductive invariant, the lemmas about waiting,       *)
(* waking and priorities that the other kernel proofs rest on, and the     *)
(* search for the next thread to run.                                      *)
(***************************************************************************)
EXTENDS Kernel, CommonLemmas, SequenceTheorems, FiniteSetTheorems

-----------------------------------------------------------------------------
(* Lists.                                                                  *)

LEMMA AppendNew ==
    ASSUME NEW S, NEW s \in Seq(S), IsInjective(s), NEW e \in S, e \notin ToSet(s)
    PROVE  IsInjective(Append(s, e))
<1> DEFINE n == Len(s)
           a == Append(s, e)
<1>1. n \in Nat /\ DOMAIN s = 1 .. n /\ DOMAIN a = 1 .. n + 1
  OBVIOUS
<1>2. \A i \in 1 .. n : a[i] = s[i] /\ s[i] # e
  BY <1>1 DEF ToSet
<1>3. a[n + 1] = e
  OBVIOUS
<1>4. \A i, j \in 1 .. n : s[i] = s[j] => i = j
  BY <1>1 DEF IsInjective
<1> HIDE DEF a, n
<1>5. \A i, j \in 1 .. n + 1 : a[i] = a[j] => i = j
  <2> SUFFICES ASSUME NEW i \in 1 .. n + 1, NEW j \in 1 .. n + 1, a[i] = a[j] PROVE i = j
    OBVIOUS
  <2>1. CASE i \in 1 .. n /\ j \in 1 .. n
    BY <1>2, <1>4, <2>1
  <2>2. CASE i \in 1 .. n /\ j = n + 1
    BY <1>2, <1>3, <2>2
  <2>3. CASE i = n + 1 /\ j \in 1 .. n
    BY <1>2, <1>3, <2>3
  <2>4. (i \in 1 .. n \/ i = n + 1) /\ (j \in 1 .. n \/ j = n + 1)
    BY <1>1
  <2> QED BY <2>1, <2>2, <2>3, <2>4
<1> QED BY <1>1, <1>5 DEF IsInjective, a

KeptStep(p, i, x) == IF p[1][i] \in p[2] THEN Append(x, p[1][i]) ELSE x

KeptHolds(p, i, x) ==
    /\ x \in Seq(p[3])
    /\ \A e : e \in ToSet(x) <=> e \in p[2] /\ \E j \in 1 .. i : p[1][j] = e
    /\ IsInjective(p[1]) => IsInjective(x)

Kept == INSTANCE Loop WITH Step <- KeptStep, Holds <- KeptHolds

LEMMA AmongSet ==
    ASSUME NEW S, NEW s \in Seq(S), NEW A
    PROVE  /\ Among(s, A) \in Seq(S) /\ ToSet(Among(s, A)) = ToSet(s) \cap A
           /\ IsInjective(s) => IsInjective(Among(s, A))
<1> DEFINE p == <<s, A, S>>
           f == Kept!Run(p, <<>>, Len(s))
<1>1. Among(s, A) = f[Len(s)]
  BY DEF Among, Kept!Run, KeptStep
<1>2. Len(s) \in Nat /\ DOMAIN s = 1 .. Len(s)
  OBVIOUS
<1>3. KeptHolds(p, 0, <<>>)
  <2>1. IsInjective(<<>>)
    BY DEF IsInjective
  <2> QED BY <2>1, ToSetEmpty DEF KeptHolds
<1>4. ASSUME NEW i \in 1 .. Len(s), NEW x, KeptHolds(p, i - 1, x)
      PROVE  KeptHolds(p, i, KeptStep(p, i, x))
  <2>1. /\ x \in Seq(S)
        /\ \A e : e \in ToSet(x) <=> e \in A /\ \E j \in 1 .. i - 1 : s[j] = e
        /\ IsInjective(s) => IsInjective(x)
    BY <1>4 DEF KeptHolds
  <2>2. s[i] \in S
    BY <1>2
  <2>3. \A e : (\E j \in 1 .. i : s[j] = e) <=> (s[i] = e \/ \E j \in 1 .. i - 1 : s[j] = e)
    <3>1. 1 .. i = (1 .. i - 1) \cup {i}
      BY <1>2
    <3> QED BY <3>1
  <2>4. CASE s[i] \in A
    <3>1. KeptStep(p, i, x) = Append(x, s[i])
      BY <2>4 DEF KeptStep
    <3>2. Append(x, s[i]) \in Seq(S) /\ ToSet(Append(x, s[i])) = ToSet(x) \cup {s[i]}
      BY <2>1, <2>2, ToSetAppend
    <3>3. \A e : e \in ToSet(Append(x, s[i])) <=> e \in A /\ \E j \in 1 .. i : s[j] = e
      BY <2>1, <2>3, <2>4, <3>2, Zenon
    <3>4. IsInjective(s) => IsInjective(Append(x, s[i]))
      <4> SUFFICES ASSUME IsInjective(s) PROVE IsInjective(Append(x, s[i]))
        OBVIOUS
      <4>1. s[i] \notin ToSet(x)
        <5>1. \A j \in 1 .. i - 1 : s[j] # s[i]
          BY <1>2 DEF IsInjective
        <5> QED BY <2>1, <5>1
      <4> QED BY <2>1, <2>2, <4>1, AppendNew
    <3> QED BY <3>1, <3>2, <3>3, <3>4 DEF KeptHolds
  <2>5. CASE s[i] \notin A
    <3>1. KeptStep(p, i, x) = x
      BY <2>5 DEF KeptStep
    <3>2. \A e : e \in ToSet(x) <=> e \in A /\ \E j \in 1 .. i : s[j] = e
      BY <2>1, <2>3, <2>5, Zenon
    <3> QED BY <2>1, <3>1, <3>2 DEF KeptHolds
  <2> QED BY <2>4, <2>5
<1>5. \A i \in 0 .. Len(s) : KeptHolds(p, i, f[i])
  <2> HIDE DEF p, f
  <2>1. \A i \in 1 .. Len(s) : \A x : KeptHolds(p, i - 1, x) => KeptHolds(p, i, KeptStep(p, i, x))
    BY <1>4
  <2> QED BY <1>2, <1>3, <2>1, Kept!LoopInvariant DEF f
<1>6. KeptHolds(p, Len(s), Among(s, A))
  <2> HIDE DEF f, p
  <2> QED BY <1>1, <1>2, <1>5
<1>7. Among(s, A) \in Seq(S) /\ (IsInjective(s) => IsInjective(Among(s, A)))
  BY <1>6 DEF KeptHolds
<1>8. \A e : e \in ToSet(Among(s, A)) <=> e \in A /\ \E j \in 1 .. Len(s) : s[j] = e
  BY <1>6 DEF KeptHolds
<1>9. \A e : e \in ToSet(s) <=> \E j \in 1 .. Len(s) : s[j] = e
  BY <1>2 DEF ToSet
<1> QED BY <1>7, <1>8, <1>9, Zenon

LEMMA RemoveFirstSet ==
    ASSUME NEW S, NEW s \in Seq(S), IsInjective(s), NEW e
    PROVE  /\ RemoveFirst(s, e) \in Seq(S) /\ IsInjective(RemoveFirst(s, e))
           /\ ToSet(RemoveFirst(s, e)) = ToSet(s) \ {e}
<1> DEFINE n == Len(s)
<1>1. n \in Nat /\ DOMAIN s = 1 .. n
  OBVIOUS
<1>2. \A i, j \in 1 .. n : s[i] = s[j] => i = j
  BY <1>1 DEF IsInjective
<1>3. CASE ~\E i \in 1 .. n : s[i] = e
  <2>1. RemoveFirst(s, e) = s
    BY <1>3 DEF RemoveFirst
  <2>2. e \notin ToSet(s)
    BY <1>1, <1>3 DEF ToSet
  <2> QED BY <2>1, <2>2
<1>4. CASE \E i \in 1 .. n : s[i] = e
  <2>1. PICK i \in 1 .. n : s[i] = e
    BY <1>4
  <2>2. SelectInSeq(s, LAMBDA v : v = e) = i
    <3> DEFINE I == {j \in 1 .. Len(s) : s[j] = e}
    <3>1. I = {i}
      BY <1>1, <1>2, <2>1
    <3>2. SelectInSeq(s, LAMBDA v : v = e) = IF I # {} THEN Min(I) ELSE 0
      BY DEF SelectInSeq
    <3>3. Min({i}) = i
      <4>1. {i} \in SUBSET Int /\ i \in {i} /\ \A y \in {i} : i <= y
        BY <1>1
      <4> HIDE DEF n
      <4> QED BY <4>1, MinIs
    <3> QED BY <3>1, <3>2, <3>3
  <2>3. RemoveFirst(s, e) = RemoveAt(s, i)
    BY <1>4, <2>2 DEF RemoveFirst
  <2> DEFINE r == RemoveAt(s, i)
             a == SubSeq(s, 1, i - 1)
             b == SubSeq(s, i + 1, n)
  <2>4. a \in Seq(S) /\ Len(a) = i - 1 /\ \A j \in 1 .. i - 1 : a[j] = s[j]
    BY <1>1, <2>1
  <2>5. b \in Seq(S) /\ Len(b) = n - i /\ \A j \in 1 .. n - i : b[j] = s[i + j]
    <3>1. \A j \in i + 1 .. n : s[j] \in S
      BY <1>1, <2>1
    <3>3. b \in Seq(S) /\ Len(b) = IF i + 1 <= n THEN n - (i + 1) + 1 ELSE 0
      <4> HIDE DEF n
      <4> QED BY <1>1, <2>1, <3>1, SubSeqProperties
    <3>4. Len(b) = n - i
      <4> HIDE DEF b, n
      <4> QED BY <1>1, <2>1, <3>3
    <3>2. \A j \in 1 .. n - i : b[j] = s[i + j]
      BY <1>1, <2>1
    <3> QED BY <3>2, <3>3, <3>4
  <2>6. r = a \o b
    BY DEF RemoveAt
  <2> HIDE DEF a, b, r, n
  <2>7. r \in Seq(S) /\ DOMAIN r = 1 .. n - 1
    BY <1>1, <2>1, <2>4, <2>5, <2>6
  <2>8. \A j \in 1 .. n - 1 : r[j] = IF j < i THEN s[j] ELSE s[j + 1]
    <3> SUFFICES ASSUME NEW j \in 1 .. n - 1 PROVE r[j] = IF j < i THEN s[j] ELSE s[j + 1]
      OBVIOUS
    <3>1. CASE j < i
      BY <1>1, <2>1, <2>4, <2>5, <2>6, <3>1
    <3>2. CASE ~(j < i)
      <4>1. j - (i - 1) \in 1 .. n - i /\ i + (j - (i - 1)) = j + 1
        BY <1>1, <2>1, <3>2
      <4>2. r[j] = b[j - (i - 1)]
        BY <1>1, <2>1, <2>4, <2>5, <2>6, <3>2, <4>1
      <4> QED BY <2>5, <3>2, <4>1, <4>2
    <3> QED BY <3>1, <3>2
  <2>9. IsInjective(r)
    <3> SUFFICES ASSUME NEW x \in 1 .. n - 1, NEW y \in 1 .. n - 1, r[x] = r[y] PROVE x = y
      BY <2>7 DEF IsInjective
    <3> DEFINE u == IF x < i THEN x ELSE x + 1
               v == IF y < i THEN y ELSE y + 1
    <3>1. u \in 1 .. n /\ v \in 1 .. n /\ r[x] = s[u] /\ r[y] = s[v]
      BY <1>1, <2>1, <2>8
    <3>2. u = v
      BY <1>2, <3>1
    <3> QED BY <1>1, <2>1, <3>2
  <2>10. ToSet(r) = ToSet(s) \ {e}
    <3>1. ASSUME NEW z \in ToSet(r) PROVE z \in ToSet(s) \ {e}
      <4>1. PICK j \in 1 .. n - 1 : z = r[j]
        BY <2>7 DEF ToSet
      <4> DEFINE u == IF j < i THEN j ELSE j + 1
      <4>2. u \in 1 .. n /\ u # i /\ z = s[u]
        BY <1>1, <2>1, <2>8, <4>1
      <4> HIDE DEF u
      <4>3. s[u] # e
        BY <1>2, <2>1, <4>2
      <4> QED BY <1>1, <4>2, <4>3 DEF ToSet
    <3>2. ASSUME NEW z \in ToSet(s) \ {e} PROVE z \in ToSet(r)
      <4>1. PICK j \in 1 .. n : z = s[j]
        BY <1>1 DEF ToSet
      <4> DEFINE u == IF j < i THEN j ELSE j - 1
      <4>2. j # i
        BY <2>1, <3>2, <4>1
      <4>3. u \in 1 .. n - 1 /\ r[u] = s[j]
        BY <1>1, <2>1, <2>8, <4>2
      <4> HIDE DEF u
      <4> QED BY <2>7, <4>1, <4>3 DEF ToSet
    <3> QED BY <3>1, <3>2
  <2> QED BY <2>3, <2>7, <2>9, <2>10 DEF r
<1> QED BY <1>3, <1>4

-----------------------------------------------------------------------------
(* The queue lists.                                                        *)

LEMMA QueueFields ==
    ASSUME NEW S, NEW q \in QueueList(S)
    PROVE  q.first \in Int /\ q.next \in [Priority -> Int] /\ q.data \in [Priority -> Seq(S)]
  BY DEF QueueList

LEMMA PriorityIs == Priority \subseteq Nat /\ Priority \subseteq Int
  BY NumPrioritiesAssumption DEF Priority

LEMMA MaxPriority ==
    ASSUME NEW P \in SUBSET Priority, P # {}
    PROVE  Max(P) \in P /\ \A p \in P : p <= Max(P)
<1> DEFINE N == {NumPriorities - p : p \in P}
<1>1. N \in SUBSET Nat /\ N # {}
  <2>1. \A p \in P : NumPriorities - p \in Nat
    BY NumPrioritiesAssumption DEF Priority
  <2> QED BY <2>1
<1>2. PICK n \in N : \A m \in N : n <= m
  BY <1>1, LeastNat
<1>3. PICK p \in P : n = NumPriorities - p
  BY <1>2
<1>4. \A r \in P : p >= r
  <2> SUFFICES ASSUME NEW r \in P PROVE p >= r
    OBVIOUS
  <2>1. n <= NumPriorities - r
    BY <1>2
  <2> QED BY <1>3, <2>1, NumPrioritiesAssumption DEF Priority
<1>5. P \in SUBSET Int
  BY PriorityIs
<1>6. Max(P) = p
  BY <1>4, <1>5, MaxIs
<1> QED BY <1>4, <1>5, <1>6

LEMMA MinPriority ==
    ASSUME NEW P \in SUBSET Priority, P # {}
    PROVE  Min(P) \in P /\ Min(P) \in Priority
  BY MinOfNats, PriorityIs

LEMMA Queue_data ==
    ASSUME NEW S, NEW q \in QueueList(S), NEW p \in Priority, NEW d \in Seq(S)
    PROVE  [q EXCEPT !.data[p] = d] \in QueueList(S)
  BY DEF QueueList

LEMMA Queue_next ==
    ASSUME NEW S, NEW q \in QueueList(S), NEW p \in Priority, NEW n \in Int
    PROVE  [q EXCEPT !.next[p] = n] \in QueueList(S)
  BY DEF QueueList

LEMMA Queue_first ==
    ASSUME NEW S, NEW q \in QueueList(S), NEW n \in Int
    PROVE  [q EXCEPT !.first = n] \in QueueList(S)
  BY DEF QueueList

LEMMA PrepareType ==
    ASSUME NEW S, NEW q \in QueueList(S), NEW p \in Priority
    PROVE  prepare(q, p) \in QueueList(S)
<1> DEFINE better == {i \in Linked(q) : i < p}
<1>1. p \in Int /\ q.first \in Int /\ q.next \in [Priority -> Int]
  BY QueueFields, PriorityIs
<1>2. CASE q.next[p] # UnlinkedTag
  BY <1>2 DEF prepare
<1>3. CASE q.next[p] = UnlinkedTag /\ better = {}
  <2> DEFINE q1 == [q EXCEPT !.next[p] = q.first]
  <2>1. prepare(q, p) = [q1 EXCEPT !.first = p]
    BY <1>3 DEF prepare, link
  <2>2. q1 \in QueueList(S)
    BY <1>1, Queue_next
  <2> HIDE DEF q1
  <2> QED BY <1>1, <2>1, <2>2, Queue_first
<1>4. CASE q.next[p] = UnlinkedTag /\ better # {}
  <2>1. Max(better) \in Priority
    <3>1. better \in SUBSET Priority
      BY DEF Linked
    <3> QED BY <1>4, <3>1, MaxPriority
  <2> DEFINE i == Max(better)
             q1 == [q EXCEPT !.next[p] = q.next[i]]
  <2>2. prepare(q, p) = [q1 EXCEPT !.next[i] = p]
    BY <1>4 DEF prepare, link, LinkAfter
  <2> HIDE DEF better, i
  <2>3. i \in Priority
    BY <2>1 DEF i
  <2>4. q1 \in QueueList(S)
    BY <1>1, <2>3, Queue_next
  <2> HIDE DEF q1
  <2> QED BY <1>1, <2>2, <2>3, <2>4, Queue_next
<1> QED BY <1>2, <1>3, <1>4

LEMMA PushType ==
    ASSUME NEW S, NEW q \in QueueList(S), NEW p \in Priority, NEW t \in S
    PROVE  push_back(q, p, t) \in QueueList(S) /\ push_front(q, p, t) \in QueueList(S)
<1>1. q.data[p] \in Seq(S)
  BY QueueFields
<1>2. Append(q.data[p], t) \in Seq(S) /\ <<t>> \o q.data[p] \in Seq(S)
  BY <1>1
<1> QED BY <1>2, Queue_data DEF push_back, push_front

LEMMA RemoveType ==
    ASSUME NEW S, NEW q \in QueueList(S), NEW p \in Priority, NEW t
    PROVE  remove(q, p, t) \in QueueList(S)
<1>1. q.data[p] \in Seq(S)
  BY QueueFields
<1>2. Among(q.data[p], ToSet(q.data[p]) \ {t}) \in Seq(S)
  BY <1>1, AmongSet
<1> QED BY <1>2, Queue_data DEF remove

LEMMA MoveType ==
    ASSUME NEW S, NEW q \in QueueList(S), NEW old \in Priority, NEW new \in Priority, NEW t \in S
    PROVE  move(q, t, old, new) \in QueueList(S)
  BY RemoveType, PrepareType, PushType DEF move

-----------------------------------------------------------------------------
(* What the operations do to the levels.                                   *)

\* No thread is twice in one level.
Distinct(q) == \A p \in Priority : IsInjective(q.data[p])

SameLinks(q, r) == r.first = q.first /\ r.next = q.next

LEMMA LevelPut ==
    ASSUME NEW S, NEW q \in QueueList(S), NEW p \in Priority, NEW d \in Seq(S)
    PROVE  /\ [q EXCEPT !.data[p] = d].data = [q.data EXCEPT ![p] = d]
           /\ SameLinks(q, [q EXCEPT !.data[p] = d])
           /\ [q EXCEPT !.data[p] = d].data[p] = d
           /\ \A l \in Priority \ {p} : [q EXCEPT !.data[p] = d].data[l] = q.data[l]
<1>1. /\ [q EXCEPT !.data[p] = d].data = [q.data EXCEPT ![p] = d]
      /\ SameLinks(q, [q EXCEPT !.data[p] = d])
  BY DEF QueueList, SameLinks
<1>2. q.data \in [Priority -> Seq(S)]
  BY QueueFields
<1> QED BY <1>1, <1>2

LEMMA ConsNew ==
    ASSUME NEW S, NEW s \in Seq(S), IsInjective(s), NEW e \in S, e \notin ToSet(s)
    PROVE  IsInjective(<<e>> \o s)
<1> DEFINE n == Len(s)
           a == <<e>> \o s
<1>1. n \in Nat /\ DOMAIN s = 1 .. n /\ DOMAIN a = 1 .. n + 1
  OBVIOUS
<1>2. a[1] = e /\ \A i \in 2 .. n + 1 : a[i] = s[i - 1]
  OBVIOUS
<1>3. \A i \in 1 .. n : s[i] # e
  BY <1>1 DEF ToSet
<1>4. \A i, j \in 1 .. n : s[i] = s[j] => i = j
  BY <1>1 DEF IsInjective
<1> HIDE DEF a, n
<1>5. \A i, j \in 1 .. n + 1 : a[i] = a[j] => i = j
  <2> SUFFICES ASSUME NEW i \in 1 .. n + 1, NEW j \in 1 .. n + 1, a[i] = a[j] PROVE i = j
    OBVIOUS
  <2>1. \A l \in 2 .. n + 1 : l - 1 \in 1 .. n
    BY <1>1
  <2>2. CASE i \in 2 .. n + 1 /\ j \in 2 .. n + 1
    <3>1. i - 1 \in 1 .. n /\ j - 1 \in 1 .. n /\ s[i - 1] = s[j - 1]
      BY <1>2, <2>1, <2>2
    <3>2. i - 1 = j - 1
      BY <1>4, <3>1
    <3> QED BY <1>1, <3>2
  <2>3. CASE i = 1 /\ j \in 2 .. n + 1
    BY <1>2, <1>3, <2>1, <2>3
  <2>4. CASE j = 1 /\ i \in 2 .. n + 1
    BY <1>2, <1>3, <2>1, <2>4
  <2>5. (i = 1 \/ i \in 2 .. n + 1) /\ (j = 1 \/ j \in 2 .. n + 1)
    BY <1>1
  <2> QED BY <2>2, <2>3, <2>4, <2>5
<1> QED BY <1>1, <1>5 DEF IsInjective, a

\* t is added to level p of q, which gives r.
Pushed(q, p, t, r) ==
    /\ SameLinks(q, r)
    /\ ToSet(r.data[p]) = ToSet(q.data[p]) \cup {t}
    /\ \A l \in Priority \ {p} : r.data[l] = q.data[l]
    /\ Distinct(q) /\ t \notin ToSet(q.data[p]) => Distinct(r)

LEMMA PushIs ==
    ASSUME NEW S, NEW q \in QueueList(S), NEW p \in Priority, NEW t \in S
    PROVE  Pushed(q, p, t, push_back(q, p, t)) /\ Pushed(q, p, t, push_front(q, p, t))
<1>1. q.data[p] \in Seq(S)
  BY QueueFields
<1>2. ASSUME NEW d \in Seq(S), ToSet(d) = ToSet(q.data[p]) \cup {t},
             IsInjective(q.data[p]) /\ t \notin ToSet(q.data[p]) => IsInjective(d)
      PROVE  Pushed(q, p, t, [q EXCEPT !.data[p] = d])
  <2> DEFINE r == [q EXCEPT !.data[p] = d]
  <2>1. SameLinks(q, r) /\ r.data[p] = d /\ \A l \in Priority \ {p} : r.data[l] = q.data[l]
    BY LevelPut
  <2> HIDE DEF r
  <2>2. Pushed(q, p, t, r)
    BY <1>2, <2>1 DEF Pushed, Distinct
  <2> QED BY <2>2 DEF r
<1> DEFINE a == Append(q.data[p], t)
           b == <<t>> \o q.data[p]
<1>3. /\ a \in Seq(S) /\ ToSet(a) = ToSet(q.data[p]) \cup {t}
      /\ IsInjective(q.data[p]) /\ t \notin ToSet(q.data[p]) => IsInjective(a)
  BY <1>1, ToSetAppend, AppendNew
<1>4. /\ b \in Seq(S) /\ ToSet(b) = ToSet(q.data[p]) \cup {t}
      /\ IsInjective(q.data[p]) /\ t \notin ToSet(q.data[p]) => IsInjective(b)
  <2> DEFINE one == <<t>>
  <2>1. one \in Seq(S) /\ ToSet(one) = {t}
    BY DEF ToSet
  <2>2. b \in Seq(S) /\ ToSet(b) = ToSet(one) \cup ToSet(q.data[p])
    <3> HIDE DEF one
    <3>1. one \o q.data[p] \in Seq(S) /\ ToSet(one \o q.data[p]) = ToSet(one) \cup ToSet(q.data[p])
      BY <1>1, <2>1, ToSetConcat
    <3> QED BY <3>1 DEF one
  <2>3. IsInjective(q.data[p]) /\ t \notin ToSet(q.data[p]) => IsInjective(b)
    BY <1>1, ConsNew, Zenon
  <2> HIDE DEF b
  <2> HIDE DEF one
  <2> QED BY <2>1, <2>2, <2>3, Zenon
<1>5. push_back(q, p, t) = [q EXCEPT !.data[p] = a] /\ push_front(q, p, t) = [q EXCEPT !.data[p] = b]
  BY DEF push_back, push_front
<1> HIDE DEF a, b
<1> QED BY <1>2, <1>3, <1>4, <1>5

\* t is taken out of level p of q, which gives r.
Removed(q, p, t, r) ==
    /\ SameLinks(q, r)
    /\ ToSet(r.data[p]) = ToSet(q.data[p]) \ {t}
    /\ \A l \in Priority \ {p} : r.data[l] = q.data[l]
    /\ Distinct(q) => Distinct(r)

LEMMA RemoveIs ==
    ASSUME NEW S, NEW q \in QueueList(S), NEW p \in Priority, NEW t
    PROVE  Removed(q, p, t, remove(q, p, t))
<1> DEFINE d == Among(q.data[p], ToSet(q.data[p]) \ {t})
           r == [q EXCEPT !.data[p] = d]
<1>1. q.data[p] \in Seq(S)
  BY QueueFields
<1>2. /\ d \in Seq(S) /\ ToSet(d) = ToSet(q.data[p]) \ {t}
      /\ IsInjective(q.data[p]) => IsInjective(d)
  BY <1>1, AmongSet
<1>3. remove(q, p, t) = r
  BY DEF remove
<1> HIDE DEF d
<1>4. SameLinks(q, r) /\ r.data[p] = d /\ \A l \in Priority \ {p} : r.data[l] = q.data[l]
  BY <1>2, LevelPut
<1> HIDE DEF r
<1> QED BY <1>2, <1>3, <1>4 DEF Removed, Distinct

-----------------------------------------------------------------------------
(* The linked list.                                                        *)

\* v is the best of the levels P, nullptr if there is none.
Best(v, P) == IF P = {} THEN v = NullPtr ELSE v \in P /\ \A p \in P : v <= p

Below(q, p) == {r \in Linked(q) : r > p}

\* The linked levels, best first.
Sorted(q) ==
    /\ Best(q.first, Linked(q))
    /\ \A p \in Linked(q) : Best(q.next[p], Below(q, p))

LEMMA LinksSame ==
    ASSUME NEW q, NEW r, SameLinks(q, r)
    PROVE  Linked(r) = Linked(q) /\ (Sorted(q) => Sorted(r))
<1>1. Linked(r) = Linked(q)
  BY DEF SameLinks, Linked
<1>2. \A p : Below(r, p) = Below(q, p)
  BY <1>1 DEF Below
<1> QED BY <1>1, <1>2 DEF Sorted, SameLinks

LEMMA BestIsLevel ==
    ASSUME NEW v, NEW P \in SUBSET Priority, Best(v, P)
    PROVE  v # UnlinkedTag /\ v \in Int /\ (v \in Priority <=> P # {})
<1>1. NullPtr \in Int /\ UnlinkedTag \in Int /\ NullPtr # UnlinkedTag
  BY DEF NullPtr, UnlinkedTag
<1>2. NullPtr \notin Priority /\ UnlinkedTag \notin Priority
  BY NumPrioritiesAssumption DEF NullPtr, UnlinkedTag, Priority
<1> QED BY <1>1, <1>2, PriorityIs DEF Best

\* prepare() links a level where it belongs.
LEMMA PrepareIs ==
    ASSUME NEW S, NEW q \in QueueList(S), NEW p \in Priority
    PROVE  /\ prepare(q, p).data = q.data
           /\ Sorted(q) => Sorted(prepare(q, p)) /\ Linked(prepare(q, p)) = Linked(q) \cup {p}
<1> DEFINE r == prepare(q, p)
           L == Linked(q)
           better == {i \in L : i < p}
<1>1. q.first \in Int /\ q.next \in [Priority -> Int]
  BY QueueFields
<1>2. L \in SUBSET Priority /\ better \in SUBSET Priority
  BY DEF Linked
<1>3. CASE q.next[p] # UnlinkedTag
  <2>1. r = q /\ p \in L
    BY <1>3 DEF prepare, Linked
  <2> QED BY <2>1
<1>4. CASE q.next[p] = UnlinkedTag /\ better = {}
  <2>1. r = [q EXCEPT !.next[p] = q.first, !.first = p]
    BY <1>4 DEF prepare, link
  <2>2. r.data = q.data /\ r.first = p /\ r.next = [q.next EXCEPT ![p] = q.first]
    BY <2>1 DEF QueueList
  <2>3. r.next[p] = q.first /\ \A i \in Priority \ {p} : r.next[i] = q.next[i]
    BY <1>1, <2>2
  <2>4. p \notin L /\ \A i \in L : i > p
    <3>1. p \notin L
      BY <1>4 DEF Linked
    <3>2. ASSUME NEW i \in L PROVE i > p
      <4>1. i \in Int /\ p \in Int /\ i # p /\ ~(i < p)
        BY <1>2, <1>4, <3>1, PriorityIs
      <4> QED BY <4>1
    <3> QED BY <3>1, <3>2
  <2> HIDE DEF r
  <2>5. ASSUME Sorted(q) PROVE Sorted(r) /\ Linked(r) = L \cup {p}
    <3>1. Best(q.first, L) /\ \A i \in L : Best(q.next[i], Below(q, i))
      BY <2>5 DEF Sorted
    <3>2. q.first # UnlinkedTag
      BY <1>2, <3>1, BestIsLevel
    <3>3. Linked(r) = L \cup {p}
      BY <1>2, <2>3, <3>2 DEF Linked
    <3>4. Below(r, p) = L
      BY <2>4, <3>3, PriorityIs DEF Below
    <3>5. ASSUME NEW i \in L PROVE Below(r, i) = Below(q, i)
      <4>1. i \in Int /\ p \in Int /\ i > p
        BY <1>2, <2>4, PriorityIs
      <4>2. ~(p > i)
        BY <4>1
      <4> QED BY <3>3, <4>2 DEF Below
    <3>6. Best(r.first, Linked(r))
      <4>1. p \in Linked(r) /\ \A i \in Linked(r) : p <= i
        <5> SUFFICES ASSUME NEW i \in Linked(r) PROVE p <= i
          BY <3>3
        <5>1. i \in Int /\ p \in Int /\ (i = p \/ i > p)
          BY <1>2, <2>4, <3>3, PriorityIs
        <5> QED BY <5>1
      <4> QED BY <2>2, <4>1 DEF Best
    <3>7. ASSUME NEW i \in Linked(r) PROVE Best(r.next[i], Below(r, i))
      <4>1. CASE i = p
        BY <2>3, <3>1, <3>4, <4>1
      <4>2. CASE i # p
        BY <1>2, <2>3, <3>1, <3>3, <3>5, <4>2
      <4> QED BY <4>1, <4>2
    <3> QED BY <3>3, <3>6, <3>7 DEF Sorted
  <2> QED BY <2>2, <2>5 DEF r
<1>5. CASE q.next[p] = UnlinkedTag /\ better # {}
  <2> DEFINE b == Max(better)
  <2>1. b \in better /\ \A i \in better : i <= b
    BY <1>2, <1>5, MaxPriority
  <2>2. r = [q EXCEPT !.next[p] = q.next[b], !.next[b] = p]
    BY <1>5 DEF prepare, link, LinkAfter
  <2> HIDE DEF b
  <2>3. b \in L /\ b < p /\ b \in Priority /\ p \notin L
    BY <1>2, <1>5, <2>1 DEF Linked
  <2>4. r.data = q.data /\ r.first = q.first /\ r.next = [q.next EXCEPT ![p] = q.next[b], ![b] = p]
    BY <2>2 DEF QueueList
  <2>5. /\ r.next[p] = q.next[b] /\ r.next[b] = p
        /\ \A i \in Priority \ {p, b} : r.next[i] = q.next[i]
    <3>1. b # p
      BY <2>3
    <3> QED BY <1>1, <2>3, <2>4, <3>1
  <2> HIDE DEF r
  <2>6. ASSUME Sorted(q) PROVE Sorted(r) /\ Linked(r) = L \cup {p}
    <3>1. Best(q.first, L) /\ \A i \in L : Best(q.next[i], Below(q, i))
      BY <2>6 DEF Sorted
    <3>2. Below(q, b) \in SUBSET Priority /\ \A i \in L : i \in Priority
      BY <1>2 DEF Below
    <3>3. q.next[b] # UnlinkedTag /\ p # UnlinkedTag
      BY <2>3, <3>1, <3>2, BestIsLevel, NumPrioritiesAssumption DEF UnlinkedTag, Priority
    <3>4. Linked(r) = L \cup {p}
      BY <1>2, <2>3, <2>5, <3>3 DEF Linked
    <3>5. Below(q, b) = Below(q, p)
      <4>1. \A i \in L : i > b => i > p
        <5> SUFFICES ASSUME NEW i \in L, i > b PROVE i > p
          OBVIOUS
        <5>1. i \in Int /\ b \in Int /\ p \in Int /\ i # p
          BY <1>2, <2>3, PriorityIs
        <5>2. i < p => i <= b
          BY <2>1
        <5> QED BY <5>1, <5>2
      <4>2. \A i \in L : i > p => i > b
        BY <1>2, <2>3, PriorityIs
      <4> QED BY <4>1, <4>2 DEF Below
    <3>6. Below(r, p) = Below(q, p)
      BY <1>2, <3>4, PriorityIs DEF Below
    <3>7. Best(r.next[p], Below(r, p))
      BY <2>3, <2>5, <3>1, <3>5, <3>6
    <3>8. Best(r.next[b], Below(r, b))
      <4>1. Below(r, b) = Below(q, p) \cup {p}
        BY <2>3, <3>4, <3>5, PriorityIs DEF Below
      <4>2. \A i \in Below(q, p) : p <= i
        BY <1>2, PriorityIs DEF Below
      <4>3. p <= p
        BY PriorityIs
      <4> QED BY <2>5, <4>1, <4>2, <4>3 DEF Best
    <3>9. ASSUME NEW i \in L, i # b PROVE Best(r.next[i], Below(r, i))
      <4>1. r.next[i] = q.next[i] /\ Best(q.next[i], Below(q, i)) /\ i \in Priority /\ i # p
        BY <1>2, <2>3, <2>5, <3>1, <3>9
      <4>2. CASE i > p
        <5>1. Below(r, i) = Below(q, i)
          BY <3>4, <4>1, <4>2, PriorityIs DEF Below
        <5> QED BY <4>1, <5>1
      <4>3. CASE i < p
        <5>1. i < b
          BY <2>1, <2>3, <3>9, <4>1, <4>3, PriorityIs
        <5>2. b \in Below(q, i)
          BY <2>3, <5>1 DEF Below
        <5>3. q.next[i] \in Below(q, i) /\ (\A j \in Below(q, i) : q.next[i] <= j) /\ q.next[i] <= b
          BY <4>1, <5>2 DEF Best
        <5>4. Below(r, i) = Below(q, i) \cup {p}
          BY <3>4, <4>1, <4>3, PriorityIs DEF Below
        <5>5. q.next[i] <= p
          <6>1. q.next[i] \in Int
            BY <1>1, <4>1
          <6> QED BY <2>3, <5>3, <6>1, PriorityIs
        <5> QED BY <4>1, <5>3, <5>4, <5>5 DEF Best
      <4> QED BY <4>1, <4>2, <4>3, PriorityIs
    <3>10. Best(r.first, Linked(r))
      <4>1. q.first \in L /\ (\A i \in L : q.first <= i) /\ q.first <= b
        BY <2>3, <3>1 DEF Best
      <4>2. q.first <= p
        <5>1. q.first \in Int /\ b \in Int /\ p \in Int
          BY <1>1, <2>3, PriorityIs
        <5> QED BY <2>3, <4>1, <5>1
      <4> QED BY <2>4, <3>4, <4>1, <4>2 DEF Best
    <3> QED BY <3>4, <3>7, <3>8, <3>9, <3>10 DEF Sorted
  <2> QED BY <2>4, <2>6 DEF r
<1> QED BY <1>3, <1>4, <1>5

HopStep(p, i, x) == IF x \in Priority THEN p.next[x] ELSE NullPtr
HopHolds(p, i, x) == (x \in Linked(p) /\ x >= i) \/ x = NullPtr

Hops == INSTANCE Loop WITH Step <- HopStep, Holds <- HopHolds

LEMMA NullIs == NullPtr \notin Priority /\ NullPtr \in Int /\ UnlinkedTag \notin Priority
  BY NumPrioritiesAssumption DEF NullPtr, UnlinkedTag, Priority

\* The i-th hop is at level i or below, or has left the list.
LEMMA PathIs ==
    ASSUME NEW S, NEW q \in QueueList(S), Sorted(q)
    PROVE  /\ Path(q)[0] = q.first
           /\ \A i \in 1 .. NumPriorities : Path(q)[i] = HopStep(q, i, Path(q)[i - 1])
           /\ \A i \in 0 .. NumPriorities : HopHolds(q, i, Path(q)[i])
<1> DEFINE n == NumPriorities
           f == Hops!Run(q, q.first, n)
<1>1. n \in Nat
  BY NumPrioritiesAssumption
<1>2. Path(q) = f
  BY DEF Path, Hops!Run, HopStep
<1>3. Linked(q) \in SUBSET Priority /\ \A p : Below(q, p) \in SUBSET Priority
  BY DEF Linked, Below
<1>4. HopHolds(q, 0, q.first)
  <2>1. q.first \in Linked(q) \/ q.first = NullPtr
    BY DEF Sorted, Best
  <2>2. q.first \in Linked(q) => q.first \in Nat
    BY <1>3, PriorityIs
  <2>3. \A v \in Nat : v >= 0
    OBVIOUS
  <2> QED BY <2>1, <2>2, <2>3, Zenon DEF HopHolds
<1>5. ASSUME NEW i \in 1 .. n, NEW x, HopHolds(q, i - 1, x) PROVE HopHolds(q, i, HopStep(q, i, x))
  <2>1. CASE x \notin Priority
    BY <2>1 DEF HopStep, HopHolds
  <2>2. CASE x \in Priority
    <3>1. x \in Linked(q) /\ x >= i - 1
      BY <1>5, <2>2, NullIs DEF HopHolds
    <3>2. HopStep(q, i, x) = q.next[x]
      BY <2>2 DEF HopStep
    <3>3. q.next[x] = NullPtr \/ (q.next[x] \in Linked(q) /\ q.next[x] > x)
      BY <3>1 DEF Sorted, Best, Below
    <3>4. CASE q.next[x] \in Linked(q) /\ q.next[x] > x
      <4>1. q.next[x] \in Int /\ x \in Int /\ i \in Int
        <5>1. q.next[x] \in Priority
          BY <1>3, <3>4
        <5>2. i \in Int
          BY <1>1
        <5> QED BY <5>1, <5>2, <2>2, PriorityIs
      <4>2. q.next[x] >= i
        BY <3>1, <3>4, <4>1
      <4> QED BY <3>2, <3>4, <4>2 DEF HopHolds
    <3> QED BY <3>2, <3>3, <3>4 DEF HopHolds
  <2> QED BY <2>1, <2>2
<1> HIDE DEF f, n
<1>6. \A i \in 1 .. n : \A x : HopHolds(q, i - 1, x) => HopHolds(q, i, HopStep(q, i, x))
  BY <1>5
<1>7. \A i \in 0 .. n : HopHolds(q, i, f[i])
  BY <1>1, <1>4, <1>6, Hops!LoopInvariant DEF f
<1>8. f[0] = q.first /\ \A i \in 1 .. n : f[i] = HopStep(q, i, f[i - 1])
  BY <1>1, Hops!RunDef DEF f
<1> QED BY <1>2, <1>7, <1>8 DEF n

\* Every level that is linked is reached by the searches.
THEOREM LinkedIsReached ==
    ASSUME NEW S, NEW q \in QueueList(S), Sorted(q), NEW l \in Linked(q)
    PROVE  \E i \in 0 .. NumPriorities : Path(q)[i] = l
<1> DEFINE Reached(p) == \E i \in 0 .. NumPriorities : Path(q)[i] = p
           T == {p \in Linked(q) : ~Reached(p)}
<1>1. Linked(q) \in SUBSET Priority /\ NumPriorities \in Nat
  BY NumPrioritiesAssumption DEF Linked
<1>2. CASE T = {}
  BY <1>2
<1>3. CASE T # {}
  <2>1. T \in SUBSET Nat
    BY <1>1, PriorityIs
  <2>2. PICK m \in T : \A p \in T : m <= p
    BY <1>3, <2>1, LeastNat
  <2>3. m \in Linked(q) /\ ~Reached(m) /\ m \in Nat /\ m <= NumPriorities - 1
    BY <1>1, <2>1, <2>2 DEF Priority
  <2>4. q.first \in Linked(q) /\ q.first <= m
    BY <2>3 DEF Sorted, Best
  <2>5. q.first # m
    BY <1>1, <2>3, PathIs
  <2> DEFINE better == {i \in Linked(q) : i < m}
             b == Max(better)
  <2>6. better # {} /\ better \in SUBSET Priority
    <3>1. q.first \in Int
      BY QueueFields
    <3>2. q.first < m
      BY <2>3, <2>4, <2>5, <3>1
    <3> QED BY <1>1, <2>4, <3>2
  <2>7. b \in better /\ \A p \in better : p <= b
    BY <2>6, MaxPriority
  <2> HIDE DEF b
  <2>8. b \in Linked(q) /\ b < m /\ b \in Nat /\ b \in Priority
    BY <1>1, <2>7, PriorityIs
  <2>9. Reached(b)
    BY <2>2, <2>3, <2>8
  <2>10. PICK j \in 0 .. NumPriorities : Path(q)[j] = b
    BY <2>9
  <2>11. j <= b
    BY <2>8, <2>10, PathIs, NullIs DEF HopHolds
  <2>12. j + 1 \in 1 .. NumPriorities
    BY <1>1, <2>3, <2>8, <2>10, <2>11
  <2>13. Path(q)[j + 1] = q.next[b]
    <3>1. Path(q)[j + 1] = HopStep(q, j + 1, Path(q)[(j + 1) - 1])
      BY <2>12, PathIs
    <3>2. (j + 1) - 1 = j
      BY <2>10
    <3> QED BY <2>8, <2>10, <3>1, <3>2 DEF HopStep
  <2>14. q.next[b] = m
    <3>1. m \in Below(q, b)
      BY <2>3, <2>8 DEF Below
    <3>2. q.next[b] \in Linked(q) /\ q.next[b] > b /\ q.next[b] <= m
      BY <2>8, <3>1 DEF Sorted, Best, Below
    <3>3. q.next[b] \in Nat
      BY <1>1, <3>2, PriorityIs
    <3>4. q.next[b] < m => q.next[b] <= b
      BY <2>7, <3>2
    <3> QED BY <2>3, <2>8, <3>2, <3>3, <3>4
  <2> QED BY <2>3, <2>12, <2>13, <2>14
<1> QED BY <1>2, <1>3

\* Taking the first thread of a level takes it out of the level.
LEMMA HeadTail ==
    ASSUME NEW S, NEW s \in Seq(S), s # <<>>
    PROVE  /\ Head(s) \in S /\ Head(s) \in ToSet(s) /\ Tail(s) \in Seq(S)
           /\ IsInjective(s) => IsInjective(Tail(s)) /\ ToSet(Tail(s)) = ToSet(s) \ {Head(s)}
<1> DEFINE n == Len(s)
           a == Tail(s)
<1>1. n \in Nat \ {0} /\ DOMAIN s = 1 .. n /\ a \in Seq(S) /\ DOMAIN a = 1 .. n - 1
  OBVIOUS
<1>2. \A i \in 1 .. n - 1 : a[i] = s[i + 1]
  OBVIOUS
<1>3. Head(s) = s[1]
  OBVIOUS
<1>4. s[1] \in S /\ s[1] \in ToSet(s)
  BY <1>1 DEF ToSet
<1> HIDE DEF a, n
<1>5. ASSUME IsInjective(s) PROVE IsInjective(a) /\ ToSet(a) = ToSet(s) \ {s[1]}
  <2>1. \A i, j \in 1 .. n : s[i] = s[j] => i = j
    BY <1>1, <1>5 DEF IsInjective
  <2>2. \A i \in 1 .. n - 1 : i + 1 \in 1 .. n /\ i + 1 # 1
    BY <1>1
  <2>3. IsInjective(a)
    <3> SUFFICES ASSUME NEW i \in 1 .. n - 1, NEW j \in 1 .. n - 1, a[i] = a[j] PROVE i = j
      BY <1>1 DEF IsInjective
    <3>1. i + 1 = j + 1
      BY <1>2, <2>1, <2>2
    <3> QED BY <1>1, <3>1
  <2>4. \A i \in 1 .. n - 1 : a[i] \in ToSet(s) \ {s[1]}
    BY <1>1, <1>2, <2>1, <2>2 DEF ToSet
  <2>5. ASSUME NEW i \in 1 .. n, i # 1 PROVE s[i] \in ToSet(a)
    <3>1. i - 1 \in 1 .. n - 1 /\ (i - 1) + 1 = i
      BY <1>1, <2>5
    <3>2. a[i - 1] = s[i]
      BY <1>2, <3>1
    <3> QED BY <1>1, <3>1, <3>2 DEF ToSet
  <2> QED BY <1>1, <2>3, <2>4, <2>5 DEF ToSet
<1> QED BY <1>1, <1>3, <1>4, <1>5 DEF a

\* What a search returns: a thread, which it has taken out of its level, or none.
Popped(q, S, r) ==
    /\ r.q \in QueueList(S)
    /\ r.found \in BOOLEAN
    /\ r.found => \E p \in Priority : /\ r.thread \in S /\ r.thread \in ToSet(q.data[p])
                                      /\ Distinct(q) => Removed(q, p, r.thread, r.q)
    /\ ~r.found => r.q = q

LEMMA PopIs ==
    ASSUME NEW S, NEW q \in QueueList(S), NEW H, NEW c,
           H \subseteq Hits(q, Path(q))
    PROVE  Popped(q, S, PopFirst(q, Path(q), H, c))
<1> DEFINE r == PopFirst(q, Path(q), H, c)
           p == Path(q)[Min(H)]
<1>1. CASE H = {}
  <2>1. r = [found |-> FALSE, crash |-> c, q |-> q]
    BY <1>1 DEF PopFirst
  <2>2. r.found = FALSE /\ r.q = q
    BY <2>1
  <2> HIDE DEF r
  <2>3. Popped(q, S, r)
    BY <2>2 DEF Popped
  <2> QED BY <2>3 DEF r
<1>2. CASE H # {}
  <2>1. H \in SUBSET (0 .. NumPriorities)
    BY DEF Hits
  <2>2. Min(H) \in H
    BY <1>2, <2>1, MinOfNats
  <2>3. p \in Priority /\ q.data[p] # <<>>
    BY <2>2 DEF Hits
  <2>4. r = PopAt(q, p)
    BY <1>2 DEF PopFirst
  <2> HIDE DEF p
  <2> DEFINE t == Head(q.data[p])
             d == Tail(q.data[p])
             qq == [q EXCEPT !.data[p] = d]
  <2>5. q.data[p] \in Seq(S)
    BY <2>3, QueueFields
  <2>6. /\ t \in S /\ t \in ToSet(q.data[p]) /\ d \in Seq(S)
        /\ IsInjective(q.data[p]) => IsInjective(d) /\ ToSet(d) = ToSet(q.data[p]) \ {t}
    BY <2>3, <2>5, HeadTail
  <2>7. r = [found |-> TRUE, thread |-> t, crash |-> FALSE, q |-> qq]
    BY <2>4 DEF PopAt
  <2> HIDE DEF t, d
  <2>8. /\ qq \in QueueList(S) /\ SameLinks(q, qq) /\ qq.data[p] = d
        /\ \A l \in Priority \ {p} : qq.data[l] = q.data[l]
    BY <2>3, <2>6, Queue_data, LevelPut
  <2> HIDE DEF qq
  <2>9. r.found = TRUE /\ r.thread = t /\ r.q = qq
    BY <2>7
  <2>10. Distinct(q) => Removed(q, p, t, qq)
    BY <2>3, <2>6, <2>8 DEF Removed, Distinct
  <2> HIDE DEF r
  <2>11. Popped(q, S, r)
    BY <2>3, <2>6, <2>8, <2>9, <2>10 DEF Popped
  <2> QED BY <2>11 DEF r
<1> QED BY <1>1, <1>2

\* A search never goes back to a better level.
LEMMA PathGoesDown ==
    ASSUME NEW S, NEW q \in QueueList(S), Sorted(q),
           NEW m \in 0 .. NumPriorities, NEW i \in 0 .. NumPriorities, m <= i,
           Path(q)[i] \in Priority
    PROVE  Path(q)[m] <= Path(q)[i]
<1> DEFINE n == NumPriorities
           f == Path(q)
           T == {j \in 0 .. n : m <= j /\ f[j] \in Priority /\ ~(f[m] <= f[j])}
<1>1. n \in Nat /\ Linked(q) \in SUBSET Priority
  BY NumPrioritiesAssumption DEF Linked
<1>2. \A j \in 1 .. n : f[j] = HopStep(q, j, f[j - 1])
  BY PathIs
<1>3. \A j \in 0 .. n : f[j] = NullPtr \/ f[j] \in Linked(q)
  BY PathIs DEF HopHolds
<1> HIDE DEF f, n
<1>4. ASSUME T # {} PROVE FALSE
  <2>1. T \in SUBSET Nat
    BY <1>1
  <2>2. PICK j \in T : \A l \in T : j <= l
    BY <1>4, <2>1, LeastNat
  <2>3. j \in 0 .. n /\ m <= j /\ f[j] \in Priority /\ ~(f[m] <= f[j])
    BY <2>2
  <2> HIDE DEF T
  <2>4. f[j] \in Nat
    BY <2>3, PriorityIs
  <2>5. j # m
    BY <2>3, <2>4
  <2>6. j \in 1 .. n /\ j - 1 \in 0 .. n /\ m <= j - 1 /\ ~(j <= j - 1)
    BY <1>1, <2>3, <2>5 DEF n
  <2>7. f[j - 1] \in Priority /\ f[j] = q.next[f[j - 1]]
    BY <1>2, <2>3, <2>6, NullIs DEF HopStep
  <2>8. f[j - 1] \in Linked(q)
    BY <1>3, <2>6, <2>7, NullIs
  <2>9. f[j] \in Below(q, f[j - 1])
    BY <2>3, <2>7, <2>8, NullIs DEF Sorted, Best
  <2>10. f[j] > f[j - 1] /\ f[j - 1] \in Nat
    BY <2>7, <2>9, PriorityIs DEF Below
  <2>11. f[m] <= f[j - 1]
    BY <2>2, <2>6, <2>7 DEF T
  <2>12. f[m] \in Int
    BY <1>3, PriorityIs, NullIs, <1>1, n = NumPriorities DEF n
  <2> QED BY <2>3, <2>4, <2>10, <2>11, <2>12
<1>5. f[m] <= f[i]
  BY <1>4 DEF f, n
<1> QED BY <1>5 DEF f

\* A search of the levels P: it takes the head of the first of them that has a thread.
PopsBest(q, P, r) ==
    /\ r.found => \E p \in P \cap Linked(q) :
                     /\ r.thread \in ToSet(q.data[p])
                     /\ \A l \in P \cap Linked(q) : q.data[l] # <<>> => p <= l
    /\ ~r.found => \A l \in P \cap Linked(q) : q.data[l] = <<>>

LEMMA FirstHitIsBest ==
    ASSUME NEW S, NEW q \in QueueList(S), Sorted(q), NEW P, NEW H, NEW c,
           H \subseteq Hits(q, Path(q)),
           \A i \in Hits(q, Path(q)) : i \in H <=> Path(q)[i] \in P
    PROVE  PopsBest(q, P, PopFirst(q, Path(q), H, c))
<1> DEFINE r == PopFirst(q, Path(q), H, c)
<1>1. Linked(q) \in SUBSET Priority
  BY DEF Linked
<1>2. ASSUME NEW l \in P \cap Linked(q), q.data[l] # <<>>
      PROVE  \E i \in H : Path(q)[i] = l
  <2>1. PICK i \in 0 .. NumPriorities : Path(q)[i] = l
    BY LinkedIsReached
  <2>2. i \in Hits(q, Path(q))
    BY <1>1, <1>2, <2>1 DEF Hits
  <2> QED BY <1>2, <2>1, <2>2
<1>3. CASE H = {}
  <2>1. r = [found |-> FALSE, crash |-> c, q |-> q]
    BY <1>3 DEF PopFirst
  <2>2. r.found = FALSE
    BY <2>1
  <2> HIDE DEF r
  <2>3. \A l \in P \cap Linked(q) : q.data[l] = <<>>
    BY <1>2, <1>3
  <2>4. PopsBest(q, P, r)
    BY <2>2, <2>3 DEF PopsBest
  <2> QED BY <2>4 DEF r
<1>4. CASE H # {}
  <2> DEFINE m == Min(H)
             p == Path(q)[m]
  <2>1. H \in SUBSET (0 .. NumPriorities)
    BY DEF Hits
  <2>2. m \in H /\ \A i \in H : m <= i
    BY <1>4, <2>1, MinOfNats
  <2>3. p \in Priority /\ q.data[p] # <<>> /\ p \in P
    BY <2>2 DEF Hits
  <2>4. r = PopAt(q, p)
    BY <1>4 DEF PopFirst
  <2> HIDE DEF m
  <2>5. p \in Linked(q)
    BY <2>1, <2>2, <2>3, PathIs, NullIs DEF HopHolds
  <2>6. ASSUME NEW l \in P \cap Linked(q), q.data[l] # <<>> PROVE p <= l
    <3>1. PICK i \in H : Path(q)[i] = l
      BY <1>2, <2>6
    <3>2. m <= i /\ i \in 0 .. NumPriorities /\ m \in 0 .. NumPriorities
      BY <2>1, <2>2
    <3>3. Path(q)[i] \in Priority
      BY <1>1, <3>1
    <3>4. Path(q)[m] <= Path(q)[i]
      BY <3>2, <3>3, PathGoesDown
    <3> QED BY <3>1, <3>4
  <2> HIDE DEF p
  <2>7. r.found = TRUE /\ r.thread = Head(q.data[p])
    BY <2>4 DEF PopAt
  <2>8. q.data[p] \in Seq(S)
    BY <2>3, QueueFields
  <2>9. r.thread \in ToSet(q.data[p])
    BY <2>3, <2>7, <2>8, HeadTail
  <2> HIDE DEF r
  <2>10. PopsBest(q, P, r)
    BY <2>3, <2>5, <2>6, <2>7, <2>9 DEF PopsBest
  <2> QED BY <2>10 DEF r
<1> QED BY <1>3, <1>4

LEMMA PopFirstIsBest ==
    ASSUME NEW S, NEW q \in QueueList(S), Sorted(q)
    PROVE  PopsBest(q, Priority, pop_first(q))
<1> DEFINE H == Hits(q, Path(q))
           c == FALSE
<1>1. H \subseteq Hits(q, Path(q)) /\ \A i \in Hits(q, Path(q)) : i \in H <=> Path(q)[i] \in Priority
  BY DEF Hits
<1>2. pop_first(q) = PopFirst(q, Path(q), H, c)
  BY DEF pop_first
<1> HIDE DEF H, c
<1>3. PopsBest(q, Priority, PopFirst(q, Path(q), H, c))
  BY <1>1, FirstHitIsBest
<1> QED BY <1>2, <1>3

LEMMA PopBetterIsBest ==
    ASSUME NEW S, NEW q \in QueueList(S), Sorted(q), NEW p \in Priority
    PROVE  PopsBest(q, {l \in Priority : l < p}, pop_first_better(q, p))
<1> DEFINE path == Path(q)
           stops == {i \in 0 .. NumPriorities : path[i] \in Priority /\ path[i] >= p}
           H == {i \in Hits(q, path) : \A j \in stops : i < j}
           c == stops = {}
           P == {l \in Priority : l < p}
<1>1. pop_first_better(q, p) = PopFirst(q, path, H, c)
  BY DEF pop_first_better
<1>2. ASSUME NEW i \in Hits(q, path) PROVE i \in H <=> path[i] \in P
  <2>1. i \in 0 .. NumPriorities /\ path[i] \in Priority
    BY DEF Hits
  <2>2. path[i] \in Int /\ p \in Int /\ i \in Int
    <3>1. path[i] \in Int /\ p \in Int
      BY <2>1, PriorityIs, Zenon
    <3>2. i \in Int
      BY ONLY <2>1, NumPrioritiesAssumption
    <3> QED BY <3>1, <3>2
  <2>3. ASSUME i \in H, ~(path[i] < p) PROVE FALSE
    <3>1. path[i] >= p
      BY <2>2, <2>3
    <3>2. i \in stops
      BY <2>1, <3>1
    <3>3. i < i
      BY <2>3, <3>2
    <3> QED BY <2>2, <3>3
  <2>4. ASSUME path[i] < p, NEW j \in stops PROVE i < j
    <3>1. j \in 0 .. NumPriorities /\ path[j] \in Priority /\ path[j] >= p
      OBVIOUS
    <3>2. j <= i => path[j] <= path[i]
      BY <2>1, <3>1, PathGoesDown
    <3>3. j \in Int /\ path[j] \in Int
      <4>1. path[j] \in Int
        BY <3>1, PriorityIs, Zenon
      <4>2. j \in Int
        BY ONLY <3>1, NumPrioritiesAssumption
      <4> QED BY <4>1, <4>2
    <3> HIDE DEF path, stops
    <3> QED BY <2>2, <2>4, <3>1, <3>2, <3>3
  <2> QED BY <2>1, <2>3, <2>4
<1>3. H \subseteq Hits(q, path)
  OBVIOUS
<1> HIDE DEF H, c, P
<1>4. PopsBest(q, P, PopFirst(q, path, H, c))
  BY <1>2, <1>3, FirstHitIsBest
<1> QED BY <1>1, <1>4 DEF P

-----------------------------------------------------------------------------
(* The kernel states.                                                      *)

LEMMA KernelFields ==
    ASSUME NEW x \in KernelState
    PROVE  /\ x.th \in ThMap
           /\ x.wl \in WlMap
           /\ x.mx \in MxMap
           /\ x.sem \in [Semaphores -> Int]
           /\ x.sig \in SUBSET (Events \cup Timers)
           /\ x.rq \in RqMap
           /\ x.wake \in [Threads -> Nat]
           /\ x.tev \in SUBSET (Timers \X Cores)
           /\ x.itv \in SUBSET Timers
           /\ x.ses \in SesMap
           /\ x.port \in PortMap
           /\ x.arb \in Seq(Threads)
           /\ x.mem \in [Addresses -> Int]
           /\ x.resched \in BOOLEAN
           /\ x.halt \in BOOLEAN
           /\ x.failed \in SUBSET Assertions
           /\ x.cur \in [Cores -> MaybeThread]
           /\ x.reg \in [Cores -> Result]
           /\ x.cpu \in Cores
           /\ x.running \in Cores
           /\ x.proc \in Processes
           /\ x.stored \in [Cores -> Processes]
           /\ x.exited \in SUBSET Processes
  BY DEF KernelState

LEMMA Put_th ==
    ASSUME NEW x \in KernelState, NEW v \in ThMap
    PROVE  [x EXCEPT !.th = v] \in KernelState
  BY Zenon DEF KernelState

LEMMA Put_wl ==
    ASSUME NEW x \in KernelState, NEW v \in WlMap
    PROVE  [x EXCEPT !.wl = v] \in KernelState
  BY Zenon DEF KernelState

LEMMA Put_mx ==
    ASSUME NEW x \in KernelState, NEW v \in MxMap
    PROVE  [x EXCEPT !.mx = v] \in KernelState
  BY Zenon DEF KernelState

LEMMA Put_sem ==
    ASSUME NEW x \in KernelState, NEW v \in [Semaphores -> Int]
    PROVE  [x EXCEPT !.sem = v] \in KernelState
  BY Zenon DEF KernelState

LEMMA Put_sig ==
    ASSUME NEW x \in KernelState, NEW v \in SUBSET (Events \cup Timers)
    PROVE  [x EXCEPT !.sig = v] \in KernelState
  BY Zenon DEF KernelState

LEMMA Put_rq ==
    ASSUME NEW x \in KernelState, NEW v \in RqMap
    PROVE  [x EXCEPT !.rq = v] \in KernelState
  BY Zenon DEF KernelState

LEMMA Put_wake ==
    ASSUME NEW x \in KernelState, NEW v \in [Threads -> Nat]
    PROVE  [x EXCEPT !.wake = v] \in KernelState
  BY Zenon DEF KernelState

LEMMA Put_tev ==
    ASSUME NEW x \in KernelState, NEW v \in SUBSET (Timers \X Cores)
    PROVE  [x EXCEPT !.tev = v] \in KernelState
  BY Zenon DEF KernelState

LEMMA Put_itv ==
    ASSUME NEW x \in KernelState, NEW v \in SUBSET Timers
    PROVE  [x EXCEPT !.itv = v] \in KernelState
  BY Zenon DEF KernelState

LEMMA Put_ses ==
    ASSUME NEW x \in KernelState, NEW v \in SesMap
    PROVE  [x EXCEPT !.ses = v] \in KernelState
  BY Zenon DEF KernelState

LEMMA Put_port ==
    ASSUME NEW x \in KernelState, NEW v \in PortMap
    PROVE  [x EXCEPT !.port = v] \in KernelState
  BY Zenon DEF KernelState

LEMMA Put_arb ==
    ASSUME NEW x \in KernelState, NEW v \in Seq(Threads)
    PROVE  [x EXCEPT !.arb = v] \in KernelState
  BY Zenon DEF KernelState

LEMMA Put_mem ==
    ASSUME NEW x \in KernelState, NEW v \in [Addresses -> Int]
    PROVE  [x EXCEPT !.mem = v] \in KernelState
  BY Zenon DEF KernelState

LEMMA Put_resched ==
    ASSUME NEW x \in KernelState, NEW v \in BOOLEAN
    PROVE  [x EXCEPT !.resched = v] \in KernelState
  BY Zenon DEF KernelState

LEMMA Put_halt ==
    ASSUME NEW x \in KernelState, NEW v \in BOOLEAN
    PROVE  [x EXCEPT !.halt = v] \in KernelState
  BY Zenon DEF KernelState

LEMMA Put_failed ==
    ASSUME NEW x \in KernelState, NEW v \in SUBSET Assertions
    PROVE  [x EXCEPT !.failed = v] \in KernelState
  BY Zenon DEF KernelState

LEMMA Put_cur ==
    ASSUME NEW x \in KernelState, NEW v \in [Cores -> MaybeThread]
    PROVE  [x EXCEPT !.cur = v] \in KernelState
  BY Zenon DEF KernelState

LEMMA Put_reg ==
    ASSUME NEW x \in KernelState, NEW v \in [Cores -> Result]
    PROVE  [x EXCEPT !.reg = v] \in KernelState
  BY Zenon DEF KernelState

LEMMA Put_cpu ==
    ASSUME NEW x \in KernelState, NEW v \in Cores
    PROVE  [x EXCEPT !.cpu = v] \in KernelState
  BY Zenon DEF KernelState

LEMMA Put_running ==
    ASSUME NEW x \in KernelState, NEW v \in Cores
    PROVE  [x EXCEPT !.running = v] \in KernelState
  BY Zenon DEF KernelState

LEMMA Put_proc ==
    ASSUME NEW x \in KernelState, NEW v \in Processes
    PROVE  [x EXCEPT !.proc = v] \in KernelState
  BY Zenon DEF KernelState

LEMMA Put_stored ==
    ASSUME NEW x \in KernelState, NEW v \in [Cores -> Processes]
    PROVE  [x EXCEPT !.stored = v] \in KernelState
  BY Zenon DEF KernelState

LEMMA Put_exited ==
    ASSUME NEW x \in KernelState, NEW v \in SUBSET Processes
    PROVE  [x EXCEPT !.exited = v] \in KernelState
  BY Zenon DEF KernelState

LEMMA ThreadFields ==
    ASSUME NEW r \in ThreadRec
    PROVE  /\ r.status \in Status
           /\ r.nominal \in Priority
           /\ r.current \in Priority
           /\ r.canSchedule \in BOOLEAN
           /\ r.held \in SUBSET Mutexes
           /\ r.pending \in SUBSET Mutexes
           /\ r.waitObjs \in Seq(WaitObject)
           /\ r.addr \in Addresses \cup {"none"}
           /\ r.cb \in {"none", "sync", "syncOutput", "arbiter", "ipc"}
           /\ r.req \in Sessions \cup {NoSession}
           /\ r.ctx \in Result
           /\ r.owed \in Result
  BY DEF ThreadRec

LEMMA Thread_status ==
    ASSUME NEW r \in ThreadRec, NEW v \in Status
    PROVE  [r EXCEPT !.status = v] \in ThreadRec
  BY Zenon DEF ThreadRec

LEMMA Thread_nominal ==
    ASSUME NEW r \in ThreadRec, NEW v \in Priority
    PROVE  [r EXCEPT !.nominal = v] \in ThreadRec
  BY Zenon DEF ThreadRec

LEMMA Thread_current ==
    ASSUME NEW r \in ThreadRec, NEW v \in Priority
    PROVE  [r EXCEPT !.current = v] \in ThreadRec
  BY Zenon DEF ThreadRec

LEMMA Thread_canSchedule ==
    ASSUME NEW r \in ThreadRec, NEW v \in BOOLEAN
    PROVE  [r EXCEPT !.canSchedule = v] \in ThreadRec
  BY Zenon DEF ThreadRec

LEMMA Thread_held ==
    ASSUME NEW r \in ThreadRec, NEW v \in SUBSET Mutexes
    PROVE  [r EXCEPT !.held = v] \in ThreadRec
  BY Zenon DEF ThreadRec

LEMMA Thread_pending ==
    ASSUME NEW r \in ThreadRec, NEW v \in SUBSET Mutexes
    PROVE  [r EXCEPT !.pending = v] \in ThreadRec
  BY Zenon DEF ThreadRec

LEMMA Thread_waitObjs ==
    ASSUME NEW r \in ThreadRec, NEW v \in Seq(WaitObject)
    PROVE  [r EXCEPT !.waitObjs = v] \in ThreadRec
  BY Zenon DEF ThreadRec

LEMMA Thread_addr ==
    ASSUME NEW r \in ThreadRec, NEW v \in Addresses \cup {"none"}
    PROVE  [r EXCEPT !.addr = v] \in ThreadRec
  BY Zenon DEF ThreadRec

LEMMA Thread_cb ==
    ASSUME NEW r \in ThreadRec, NEW v \in {"none", "sync", "syncOutput", "arbiter", "ipc"}
    PROVE  [r EXCEPT !.cb = v] \in ThreadRec
  BY Zenon DEF ThreadRec

LEMMA Thread_req ==
    ASSUME NEW r \in ThreadRec, NEW v \in Sessions \cup {NoSession}
    PROVE  [r EXCEPT !.req = v] \in ThreadRec
  BY Zenon DEF ThreadRec

LEMMA Thread_ctx ==
    ASSUME NEW r \in ThreadRec, NEW v \in Result
    PROVE  [r EXCEPT !.ctx = v] \in ThreadRec
  BY Zenon DEF ThreadRec

LEMMA Thread_owed ==
    ASSUME NEW r \in ThreadRec, NEW v \in Result
    PROVE  [r EXCEPT !.owed = v] \in ThreadRec
  BY Zenon DEF ThreadRec

LEMMA PriorityNat == Priority \subseteq Nat /\ Priority \subseteq Int /\ ThreadPrioLowest \in Priority
  BY NumPrioritiesAssumption DEF Priority, ThreadPrioLowest

-----------------------------------------------------------------------------
(* What the handlers keep.  In the middle of a handler one thread may be an *)
(* exception: t, which is in the waiting lists of the objects R only, and  *)
(* d, which is being stopped.                                              *)

Alive(x, t) == x.th[t].status \notin {"NotCreated", "Dead"}

Sync(x, t) == x.th[t].status \in SynchStatus

WaitsFor(x, t, R, u) == IF u = t THEN R ELSE ToSet(x.th[u].waitObjs)

\* waiting_threads, wait_objects and pending_mutexes agree.
ListsOK(x, t, R) ==
    /\ \A o \in WaitObject : IsInjective(x.wl[o])
    /\ \A u \in Threads, o \in WaitObject : u \in ToSet(x.wl[o]) <=> o \in WaitsFor(x, t, R, u)
    /\ \A u \in Threads : x.th[u].pending = WaitsFor(x, t, R, u) \cap Mutexes

MutexOK(x, d) ==
    \A m \in Mutexes :
        /\ x.mx[m].lock > 0 <=> x.mx[m].holder # NoThread
        /\ \A t \in Threads : x.mx[m].holder = t => m \in x.th[t].held /\ (t = d \/ Alive(x, t))
        /\ \A t \in Threads \ {d} : m \in x.th[t].held => x.mx[m].holder = t

Inherited(x, t) == Min({x.th[t].nominal} \cup {x.mx[m].prio : m \in x.th[t].held})

PrioOK(x, D) == \A t \in Threads \ D : Alive(x, t) => x.th[t].current = Inherited(x, t)

ThreadsOK(x, d) ==
    \A t \in Threads :
        /\ x.th[t].waitObjs # <<>> => (t = d \/ Sync(x, t)) /\ x.th[t].cb # "arbiter"
        /\ x.th[t].req # NoSession => x.th[t].status = "WaitIPC"

\* A thread with a request is in one list or is being handled, once, unless an end
\* of its session is gone.
Requesting(x, s) == (ToSet(x.ses[s].pending) \cup {x.ses[s].handling}) \ {NoThread}

SessionsOK(x) ==
    /\ \A t \in Threads, s \in Sessions :
          x.th[t].req = s /\ x.ses[s].client /\ x.ses[s].alive => t \in Requesting(x, s)
    /\ \A s \in Sessions :
          /\ \A t \in Requesting(x, s) : x.th[t].status = "WaitIPC" /\ x.th[t].req = s
          /\ IsInjective(x.ses[s].pending)
          /\ x.ses[s].handling \notin ToSet(x.ses[s].pending)

Sound(x, d) ==
    /\ x \in KernelState
    /\ ListsOK(x, NoThread, {})
    /\ MutexOK(x, d) /\ PrioOK(x, {d}) /\ ThreadsOK(x, d)
    /\ SessionsOK(x)

\* What waking threads never touches.
Untouched(x, y) ==
    /\ y.cpu = x.cpu /\ y.running = x.running /\ y.proc = x.proc /\ y.stored = x.stored
    /\ y.exited = x.exited /\ y.cur = x.cur /\ y.reg = x.reg
    /\ y.wake = x.wake /\ y.tev = x.tev /\ y.itv = x.itv /\ y.mem = x.mem
    /\ y.port = x.port /\ y.arb = x.arb
    /\ x.halt => y.halt

\* The queue of core c has the core's ready threads, each at its priority, and its
\* levels are linked.
QueueOK(th, c, q) ==
    /\ Sorted(q) /\ Distinct(q)
    /\ \A t \in ThreadsOf(c) :
          /\ \A p \in Priority : t \in ToSet(q.data[p]) <=> th[t].status = "Ready" /\ th[t].current = p
          /\ th[t].status # "NotCreated" => th[t].current \in Linked(q)

QueuesOK(x) == \A c \in Cores : QueueOK(x.th, c, x.rq[c])

Queued(x, y) == QueuesOK(x) => QueuesOK(y)

\* What waking threads, and acquiring objects for the thread a, does to them.
ThreadsMoved(x, y, a) ==
    \A t \in Threads :
        /\ y.th[t].status = x.th[t].status \/ (Sync(x, t) /\ y.th[t].status = "Ready")
        /\ y.th[t].status = x.th[t].status => y.th[t].cb = x.th[t].cb
        /\ y.th[t].req = x.th[t].req
        /\ y.th[t].waitObjs = x.th[t].waitObjs \/ y.th[t].waitObjs = <<>>
        /\ t # a /\ ~Sync(x, t) => y.th[t].held = x.th[t].held

ObjectsMoved(x, y, a) ==
    /\ \A o \in WaitObject : ToSet(y.wl[o]) \subseteq ToSet(x.wl[o])
    /\ \A m \in Mutexes :
          \/ y.mx[m].holder = x.mx[m].holder
          \/ /\ x.mx[m].holder = NoThread
             /\ y.mx[m].holder = a \/ (y.mx[m].holder \in Threads /\ Sync(x, y.mx[m].holder))
    /\ \A s \in Sessions : /\ y.ses[s].client = x.ses[s].client
                           /\ y.ses[s].server = x.ses[s].server
                           /\ y.ses[s].alive = x.ses[s].alive
                           /\ y.ses[s].port = x.ses[s].port

Moved(x, y, a) ==
    Untouched(x, y) /\ Queued(x, y) /\ ThreadsMoved(x, y, a) /\ ObjectsMoved(x, y, a)

\* Priorities, and with them the ready queues, are all that differs.
OnlyPriorities(x, y) ==
    /\ y \in KernelState
    /\ Untouched(x, y) /\ Queued(x, y) /\ y.wl = x.wl /\ y.ses = x.ses
    /\ \A t \in Threads : y.th[t] = [x.th[t] EXCEPT !.current = y.th[t].current]
    /\ \A m \in Mutexes : y.mx[m].lock = x.mx[m].lock /\ y.mx[m].holder = x.mx[m].holder

LEMMA ThType ==
    ASSUME NEW x \in KernelState
    PROVE  x.th \in [Threads -> ThreadRec] /\ \A t \in Threads : x.th[t] \in ThreadRec
  BY KernelFields DEF ThMap

LEMMA StatusIs == "Ready" \notin SynchStatus /\ "WaitIPC" \notin SynchStatus /\ "Dead" \notin SynchStatus
                  /\ "NotCreated" \notin SynchStatus /\ "Running" \notin SynchStatus
                  /\ "WaitArb" \notin SynchStatus /\ "WaitSleep" \notin SynchStatus
  BY DEF SynchStatus

LEMMA MovedItself ==
    ASSUME NEW x, NEW a
    PROVE  Moved(x, x, a)
  BY DEF Moved, Untouched, Queued, ThreadsMoved, ObjectsMoved

LEMMA QueuesSame ==
    ASSUME NEW x, NEW y, y.rq = x.rq,
           \A t \in Threads : /\ y.th[t].status = x.th[t].status
                              /\ y.th[t].current = x.th[t].current
    PROVE  Queued(x, y)
<1>1. \A c : ThreadsOf(c) \subseteq Threads
  BY DEF ThreadsOf
<1> QED BY <1>1 DEF Queued, QueuesOK, QueueOK

LEMMA QueuedTransitive ==
    ASSUME NEW x, NEW y, NEW z, Queued(x, y), Queued(y, z)
    PROVE  Queued(x, z)
  BY DEF Queued

LEMMA MovedTransitive ==
    ASSUME NEW x, NEW y, NEW z, NEW a, Moved(x, y, a), Moved(y, z, a)
    PROVE  Moved(x, z, a)
<1>1. Untouched(x, z) /\ Queued(x, z)
  BY DEF Moved, Untouched, Queued
<1>2. \A t \in Threads : Sync(y, t) => Sync(x, t) /\ y.th[t].status = x.th[t].status
  BY StatusIs DEF Moved, ThreadsMoved, Sync
<1>3. ThreadsMoved(x, z, a)
  <2> SUFFICES ASSUME NEW t \in Threads
               PROVE  /\ z.th[t].status = x.th[t].status \/ (Sync(x, t) /\ z.th[t].status = "Ready")
                      /\ z.th[t].status = x.th[t].status => z.th[t].cb = x.th[t].cb
                      /\ z.th[t].req = x.th[t].req
                      /\ z.th[t].waitObjs = x.th[t].waitObjs \/ z.th[t].waitObjs = <<>>
                      /\ t # a /\ ~Sync(x, t) => z.th[t].held = x.th[t].held
    BY DEF ThreadsMoved
  <2>1. /\ y.th[t].status = x.th[t].status \/ (Sync(x, t) /\ y.th[t].status = "Ready")
        /\ y.th[t].status = x.th[t].status => y.th[t].cb = x.th[t].cb
        /\ y.th[t].req = x.th[t].req
        /\ y.th[t].waitObjs = x.th[t].waitObjs \/ y.th[t].waitObjs = <<>>
        /\ t # a /\ ~Sync(x, t) => y.th[t].held = x.th[t].held
    BY DEF Moved, ThreadsMoved
  <2>2. /\ z.th[t].status = y.th[t].status \/ (Sync(y, t) /\ z.th[t].status = "Ready")
        /\ z.th[t].status = y.th[t].status => z.th[t].cb = y.th[t].cb
        /\ z.th[t].req = y.th[t].req
        /\ z.th[t].waitObjs = y.th[t].waitObjs \/ z.th[t].waitObjs = <<>>
        /\ t # a /\ ~Sync(y, t) => z.th[t].held = y.th[t].held
    BY DEF Moved, ThreadsMoved
  <2>3. Sync(x, t) <=> x.th[t].status \in SynchStatus
    BY DEF Sync
  <2>4. Sync(y, t) <=> y.th[t].status \in SynchStatus
    BY DEF Sync
  <2> QED BY <2>1, <2>2, <2>3, <2>4, StatusIs
<1>4. ObjectsMoved(x, z, a)
  <2>1. \A o \in WaitObject : ToSet(z.wl[o]) \subseteq ToSet(x.wl[o])
    BY DEF Moved, ObjectsMoved
  <2>2. ASSUME NEW m \in Mutexes
        PROVE  \/ z.mx[m].holder = x.mx[m].holder
               \/ /\ x.mx[m].holder = NoThread
                  /\ z.mx[m].holder = a \/ (z.mx[m].holder \in Threads /\ Sync(x, z.mx[m].holder))
    <3>1. \/ y.mx[m].holder = x.mx[m].holder
          \/ /\ x.mx[m].holder = NoThread
             /\ y.mx[m].holder = a \/ (y.mx[m].holder \in Threads /\ Sync(x, y.mx[m].holder))
      BY DEF Moved, ObjectsMoved
    <3>2. \/ z.mx[m].holder = y.mx[m].holder
          \/ /\ y.mx[m].holder = NoThread
             /\ z.mx[m].holder = a \/ (z.mx[m].holder \in Threads /\ Sync(y, z.mx[m].holder))
      BY DEF Moved, ObjectsMoved
    <3> QED BY <1>2, <3>1, <3>2
  <2>3. \A s \in Sessions : /\ z.ses[s].client = x.ses[s].client
                            /\ z.ses[s].server = x.ses[s].server
                            /\ z.ses[s].alive = x.ses[s].alive
                            /\ z.ses[s].port = x.ses[s].port
    BY DEF Moved, ObjectsMoved
  <2> QED BY <2>1, <2>2, <2>3 DEF ObjectsMoved
<1> QED BY <1>1, <1>3, <1>4 DEF Moved

-----------------------------------------------------------------------------
(* Priorities.                                                             *)

\* The fields that ListsOK and the others look at are the same.
SameThreads(x, y) ==
    \A t \in Threads :
        /\ y.th[t].status = x.th[t].status /\ y.th[t].cb = x.th[t].cb /\ y.th[t].req = x.th[t].req
        /\ y.th[t].waitObjs = x.th[t].waitObjs /\ y.th[t].held = x.th[t].held
        /\ y.th[t].pending = x.th[t].pending /\ y.th[t].nominal = x.th[t].nominal

LEMMA ListsSame ==
    ASSUME NEW x, NEW y, NEW t, NEW R, ListsOK(x, t, R), y.wl = x.wl,
           \A u \in Threads : /\ y.th[u].waitObjs = x.th[u].waitObjs
                              /\ y.th[u].pending = x.th[u].pending
    PROVE  ListsOK(y, t, R)
  BY DEF ListsOK, WaitsFor

LEMMA MutexSame ==
    ASSUME NEW x, NEW y, NEW d, MutexOK(x, d),
           \A u \in Threads : /\ y.th[u].held = x.th[u].held
                              /\ Alive(x, u) => Alive(y, u),
           \A m \in Mutexes : y.mx[m].lock = x.mx[m].lock /\ y.mx[m].holder = x.mx[m].holder
    PROVE  MutexOK(y, d)
  BY DEF MutexOK

LEMMA ThreadsSame ==
    ASSUME NEW x, NEW y, NEW d, ThreadsOK(x, d), SameThreads(x, y)
    PROVE  ThreadsOK(y, d)
  BY DEF ThreadsOK, SameThreads, Sync

LEMMA SessionsSame ==
    ASSUME NEW x, NEW y, SessionsOK(x), y.ses = x.ses,
           \A u \in Threads : /\ y.th[u].req = x.th[u].req
                              /\ x.th[u].status = "WaitIPC" => y.th[u].status = "WaitIPC",
           x \in KernelState
    PROVE  SessionsOK(y)
<1>1. \A s \in Sessions : Requesting(y, s) = Requesting(x, s)
  BY DEF Requesting
<1>2. \A s \in Sessions : Requesting(x, s) \subseteq Threads
  <2>1. \A s \in Sessions : x.ses[s].pending \in Seq(Threads) /\ x.ses[s].handling \in MaybeThread
    BY KernelFields DEF SesMap, SessionRec
  <2>2. \A s \in Sessions : ToSet(x.ses[s].pending) \subseteq Threads
    BY <2>1, ToSetType
  <2> QED BY <2>1, <2>2 DEF Requesting, MaybeThread
<1> QED BY <1>1, <1>2 DEF SessionsOK

LEMMA SameMoved ==
    ASSUME NEW x, NEW y, NEW a, SameThreads(x, y), Untouched(x, y), Queued(x, y),
           y.wl = x.wl, y.ses = x.ses,
           \A m \in Mutexes : y.mx[m].holder = x.mx[m].holder
    PROVE  Moved(x, y, a)
  BY DEF Moved, SameThreads, ThreadsMoved, ObjectsMoved

LEMMA PrioritiesSame ==
    ASSUME NEW x \in KernelState, NEW y, OnlyPriorities(x, y)
    PROVE  SameThreads(x, y)
<1> SUFFICES ASSUME NEW t \in Threads
             PROVE  /\ y.th[t].status = x.th[t].status /\ y.th[t].cb = x.th[t].cb
                    /\ y.th[t].req = x.th[t].req
                    /\ y.th[t].waitObjs = x.th[t].waitObjs /\ y.th[t].held = x.th[t].held
                    /\ y.th[t].pending = x.th[t].pending /\ y.th[t].nominal = x.th[t].nominal
  BY DEF SameThreads
<1>1. x.th[t] \in ThreadRec
  BY ThType
<1>2. y.th[t] = [x.th[t] EXCEPT !.current = y.th[t].current]
  BY DEF OnlyPriorities
<1> QED BY <1>1, <1>2 DEF ThreadRec

\* Everything but PrioOK is kept.
LEMMA PrioritiesKeep ==
    ASSUME NEW x \in KernelState, NEW y, OnlyPriorities(x, y), NEW t, NEW R, NEW d, NEW a
    PROVE  /\ Moved(x, y, a)
           /\ ListsOK(x, t, R) => ListsOK(y, t, R)
           /\ MutexOK(x, d) => MutexOK(y, d)
           /\ ThreadsOK(x, d) => ThreadsOK(y, d)
           /\ SessionsOK(x) => SessionsOK(y)
<1>1. SameThreads(x, y)
  BY PrioritiesSame
<1>2. /\ Untouched(x, y) /\ Queued(x, y) /\ y.wl = x.wl /\ y.ses = x.ses
      /\ \A m \in Mutexes : y.mx[m].lock = x.mx[m].lock /\ y.mx[m].holder = x.mx[m].holder
  BY DEF OnlyPriorities
<1>3. Moved(x, y, a)
  BY <1>1, <1>2, SameMoved
<1>4. ListsOK(x, t, R) => ListsOK(y, t, R)
  BY <1>1, <1>2, ListsSame DEF SameThreads
<1>5. MutexOK(x, d) => MutexOK(y, d)
  BY <1>1, <1>2, MutexSame DEF SameThreads, Alive
<1>6. ThreadsOK(x, d) => ThreadsOK(y, d)
  BY <1>1, ThreadsSame
<1>7. SessionsOK(x) => SessionsOK(y)
  BY <1>1, <1>2, SessionsSame DEF SameThreads
<1> QED BY <1>3, <1>4, <1>5, <1>6, <1>7

LEMMA PrioritiesTransitive ==
    ASSUME NEW x \in KernelState, NEW y, NEW z, OnlyPriorities(x, y), OnlyPriorities(y, z)
    PROVE  OnlyPriorities(x, z)
<1>1. \A t \in Threads : z.th[t] = [x.th[t] EXCEPT !.current = z.th[t].current]
  <2> SUFFICES ASSUME NEW t \in Threads
               PROVE  z.th[t] = [x.th[t] EXCEPT !.current = z.th[t].current]
    OBVIOUS
  <2>1. x.th[t] \in ThreadRec
    BY ThType
  <2>2. y.th[t] = [x.th[t] EXCEPT !.current = y.th[t].current]
    BY DEF OnlyPriorities
  <2>3. z.th[t] = [y.th[t] EXCEPT !.current = z.th[t].current]
    BY DEF OnlyPriorities
  <2> QED BY <2>1, <2>2, <2>3 DEF ThreadRec
<1> QED BY <1>1 DEF OnlyPriorities, Untouched, Queued

\* One queue is replaced.
LEMMA QueuePut ==
    ASSUME NEW x \in KernelState, NEW y, NEW c \in Cores, NEW q, y.rq = [x.rq EXCEPT ![c] = q],
           \A u \in Threads \ ThreadsOf(c) : /\ y.th[u].status = x.th[u].status
                                             /\ y.th[u].current = x.th[u].current,
           QueueOK(x.th, c, x.rq[c]) => QueueOK(y.th, c, q)
    PROVE  Queued(x, y)
<1> SUFFICES ASSUME QueuesOK(x), NEW e \in Cores PROVE QueueOK(y.th, e, y.rq[e])
  BY DEF Queued, QueuesOK
<1>1. x.rq \in [Cores -> QueueList(Threads)]
  BY KernelFields DEF RqMap
<1>2. QueueOK(x.th, e, x.rq[e]) /\ QueueOK(x.th, c, x.rq[c])
  BY DEF QueuesOK
<1>3. CASE e = c
  BY <1>1, <1>2, <1>3
<1>4. CASE e # c
  <2>1. y.rq[e] = x.rq[e]
    BY <1>1, <1>4
  <2>2. ThreadsOf(e) \subseteq Threads \ ThreadsOf(c)
    BY <1>4 DEF ThreadsOf
  <2> QED BY <1>2, <2>1, <2>2 DEF QueueOK
<1> QED BY <1>3, <1>4

\* The thread t of core c gets the status s and the priority p.
Changed(th, th2, c, t, s, p) ==
    /\ th2[t].status = s /\ th2[t].current = p
    /\ \A u \in ThreadsOf(c) \ {t} : th2[u].status = th[u].status /\ th2[u].current = th[u].current

LEMMA BoostQueue ==
    ASSUME NEW c, NEW q \in QueueList(ThreadsOf(c)), NEW t \in ThreadsOf(c), NEW th, NEW th2,
           NEW p \in Priority, th[t].current \in Priority,
           Changed(th, th2, c, t, th[t].status, p), QueueOK(th, c, q)
    PROVE  QueueOK(th2, c, IF th[t].status = "Ready" THEN move(q, t, th[t].current, p)
                           ELSE prepare(q, p))
<1> DEFINE o == th[t].current
           r == remove(q, o, t)
           a == prepare(r, p)
           b == push_back(a, p, t)
           a2 == prepare(q, p)
<1>1. CASE th[t].status = "Ready"
  <2>1. r \in QueueList(ThreadsOf(c)) /\ Removed(q, o, t, r)
    BY RemoveType, RemoveIs
  <2>2. Sorted(r) /\ Linked(r) = Linked(q)
    BY <2>1, LinksSame DEF Removed, QueueOK
  <2> HIDE DEF r
  <2>3. a \in QueueList(ThreadsOf(c)) /\ a.data = r.data /\ Sorted(a) /\ Linked(a) = Linked(q) \cup {p}
    BY <2>1, <2>2, PrepareIs, PrepareType
  <2> HIDE DEF a
  <2>4. Pushed(a, p, t, b)
    BY <2>3, PushIs
  <2> HIDE DEF b
  <2>5. Sorted(b) /\ Linked(b) = Linked(q) \cup {p}
    BY <2>3, <2>4, LinksSame DEF Pushed
  <2>6. \A l \in Priority : t \notin ToSet(r.data[l])
    BY <2>1 DEF Removed, QueueOK
  <2>7. Distinct(b)
    BY <2>1, <2>3, <2>4, <2>6 DEF Pushed, Removed, QueueOK, Distinct
  <2>8. \A l \in Priority : t \in ToSet(b.data[l]) <=> l = p
    BY <2>3, <2>4, <2>6 DEF Pushed
  <2>9. \A l \in Priority, u \in ThreadsOf(c) \ {t} : u \in ToSet(b.data[l]) <=> u \in ToSet(q.data[l])
    BY <2>1, <2>3, <2>4 DEF Pushed, Removed
  <2>10. QueueOK(th2, c, b)
    <3> SUFFICES ASSUME NEW u \in ThreadsOf(c)
                 PROVE  /\ \A l \in Priority : u \in ToSet(b.data[l]) <=>
                              th2[u].status = "Ready" /\ th2[u].current = l
                        /\ th2[u].status # "NotCreated" => th2[u].current \in Linked(b)
      BY <2>5, <2>7 DEF QueueOK
    <3>1. CASE u = t
      BY <1>1, <2>5, <2>8, <3>1 DEF Changed
    <3>2. CASE u # t
      <4>1. th2[u].status = th[u].status /\ th2[u].current = th[u].current
        BY <3>2 DEF Changed
      <4> QED BY <2>5, <2>9, <3>2, <4>1 DEF QueueOK
    <3> QED BY <3>1, <3>2
  <2> QED BY <1>1, <2>10 DEF move, r, a, b
<1>2. CASE th[t].status # "Ready"
  <2>1. a2.data = q.data /\ Sorted(a2) /\ Linked(a2) = Linked(q) \cup {p}
    BY PrepareIs DEF QueueOK
  <2> HIDE DEF a2
  <2>2. Distinct(a2)
    BY <2>1 DEF QueueOK, Distinct
  <2>3. QueueOK(th2, c, a2)
    <3> SUFFICES ASSUME NEW u \in ThreadsOf(c)
                 PROVE  /\ \A l \in Priority : u \in ToSet(a2.data[l]) <=>
                              th2[u].status = "Ready" /\ th2[u].current = l
                        /\ th2[u].status # "NotCreated" => th2[u].current \in Linked(a2)
      BY <2>1, <2>2 DEF QueueOK
    <3>1. CASE u = t
      BY <1>2, <2>1, <3>1 DEF Changed, QueueOK
    <3>2. CASE u # t
      <4>1. th2[u].status = th[u].status /\ th2[u].current = th[u].current
        BY <3>2 DEF Changed
      <4> QED BY <2>1, <4>1 DEF QueueOK
    <3> QED BY <3>1, <3>2
  <2> QED BY <1>2, <2>3 DEF a2
<1> QED BY <1>1, <1>2


LEMMA QueueWider ==
    ASSUME NEW S, NEW T, S \subseteq T, NEW q \in QueueList(S)
    PROVE  q \in QueueList(T)
<1>1. [Priority -> Seq(S)] \subseteq [Priority -> Seq(T)]
  <2>1. Seq(S) \subseteq Seq(T)
    OBVIOUS
  <2> QED BY <2>1
<1> QED BY <1>1, Zenon DEF QueueList

LEMMA RqPut ==
    ASSUME NEW f \in RqMap, NEW c \in Cores, NEW q \in QueueList(ThreadsOf(c))
    PROVE  [f EXCEPT ![c] = q] \in RqMap
<1>1. q \in QueueList(Threads)
  BY QueueWider DEF ThreadsOf
<1> QED BY <1>1 DEF RqMap

LEMMA RqOf ==
    ASSUME NEW x \in KernelState, NEW t \in Threads
    PROVE  /\ CoreOf[t] \in Cores /\ t \in ThreadsOf(CoreOf[t])
           /\ x.rq[CoreOf[t]] \in QueueList(ThreadsOf(CoreOf[t]))
<1>1. CoreOf[t] \in Cores
  BY KernelAssumption
<1> QED BY <1>1, KernelFields DEF RqMap, ThreadsOf

LEMMA BoostResult ==
    ASSUME NEW x \in KernelState, NEW t \in Threads, NEW p \in Priority
    PROVE  /\ OnlyPriorities(x, BoostPriority(x, t, p))
           /\ BoostPriority(x, t, p).mx = x.mx
           /\ BoostPriority(x, t, p).th = [x.th EXCEPT ![t] = [x.th[t] EXCEPT !.current = p]]
<1> DEFINE c == CoreOf[t]
           q == IF x.th[t].status = "Ready"
                THEN move(x.rq[c], t, x.th[t].current, p) ELSE prepare(x.rq[c], p)
           rq2 == [x.rq EXCEPT ![c] = q]
           th2 == [x.th EXCEPT ![t] = [x.th[t] EXCEPT !.current = p]]
           x1 == [x EXCEPT !.rq = rq2]
           y == [x1 EXCEPT !.th = th2]
<1>1. BoostPriority(x, t, p) = y
  BY DEF BoostPriority, KernelState
<1>2. x.th \in [Threads -> ThreadRec] /\ x.th[t] \in ThreadRec /\ x.th[t].current \in Priority
  BY ThType, ThreadFields
<1>3. q \in QueueList(ThreadsOf(c))
  BY <1>2, RqOf, MoveType, PrepareType
<1>4. c \in Cores /\ x.rq \in RqMap
  BY RqOf, KernelFields
<1> HIDE DEF c, q
<1>5. rq2 \in RqMap
  BY <1>3, <1>4, RqPut
<1>6. [x.th[t] EXCEPT !.current = p] \in ThreadRec
  BY <1>2, Thread_current
<1>7. th2 \in ThMap
  BY <1>2, <1>6 DEF ThMap
<1> HIDE DEF rq2
<1>8. x1 \in KernelState
  BY <1>5, Put_rq
<1>9. y \in KernelState
  <2> HIDE DEF x1, th2
  <2> QED BY <1>7, <1>8, Put_th
<1>10. y.th = th2 /\ y.mx = x.mx /\ y.wl = x.wl /\ y.ses = x.ses /\ y.rq = rq2
  <2> HIDE DEF th2
  <2> QED BY DEF KernelState
<1>11. Untouched(x, y)
  <2> HIDE DEF th2
  <2> QED BY DEF KernelState, Untouched
<1> HIDE DEF y
<1>12. \A u \in Threads : y.th[u] = [x.th[u] EXCEPT !.current = y.th[u].current]
  <2> SUFFICES ASSUME NEW u \in Threads
               PROVE  y.th[u] = [x.th[u] EXCEPT !.current = y.th[u].current]
    OBVIOUS
  <2>1. x.th[u] \in ThreadRec
    BY <1>2
  <2>2. CASE u = t
    BY <1>2, <1>10, <2>1, <2>2 DEF ThreadRec
  <2>3. CASE u # t
    <3>1. y.th[u] = x.th[u]
      BY <1>2, <1>10, <2>3
    <3> QED BY <2>1, <3>1 DEF ThreadRec
  <2> QED BY <2>2, <2>3
<1>13. t \in ThreadsOf(c) /\ x.rq[c] \in QueueList(ThreadsOf(c))
  BY RqOf DEF c
<1>14. \A u \in Threads \ {t} : y.th[u] = x.th[u]
  BY <1>2, <1>10
<1>15. y.th[t].status = x.th[t].status /\ y.th[t].current = p
  BY <1>2, <1>10 DEF ThreadRec
<1>16. ThreadsOf(c) \subseteq Threads
  BY DEF ThreadsOf
<1>17. Changed(x.th, y.th, c, t, x.th[t].status, p)
  BY <1>14, <1>15, <1>16 DEF Changed
<1>18. QueueOK(x.th, c, x.rq[c]) => QueueOK(y.th, c, q)
  BY <1>2, <1>13, <1>17, BoostQueue DEF q
<1>19. Queued(x, y)
  <2>1. y.rq = [x.rq EXCEPT ![c] = q]
    BY <1>10 DEF rq2
  <2> QED BY <1>4, <1>13, <1>14, <1>18, <2>1, QueuePut
<1> QED BY <1>1, <1>9, <1>10, <1>11, <1>12, <1>19 DEF OnlyPriorities

LEMMA InheritedType ==
    ASSUME NEW x \in KernelState, NEW t \in Threads
    PROVE  Inherited(x, t) \in Priority
<1> DEFINE P == {x.th[t].nominal} \cup {x.mx[m].prio : m \in x.th[t].held}
<1>1. x.th[t].nominal \in Priority /\ x.th[t].held \subseteq Mutexes
  BY ThType, ThreadFields
<1>2. \A m \in Mutexes : x.mx[m].prio \in Priority
  BY KernelFields DEF MxMap, MutexRec
<1>3. P \in SUBSET Priority /\ P # {}
  BY <1>1, <1>2
<1> QED BY <1>3, MinPriority DEF Inherited

LEMMA InheritedSame ==
    ASSUME NEW x, NEW y, NEW t, y.th[t].nominal = x.th[t].nominal, y.th[t].held = x.th[t].held,
           \A m \in x.th[t].held : y.mx[m].prio = x.mx[m].prio
    PROVE  Inherited(y, t) = Inherited(x, t)
<1>1. {y.mx[m].prio : m \in y.th[t].held} = {x.mx[m].prio : m \in x.th[t].held}
  OBVIOUS
<1> QED BY <1>1 DEF Inherited

\* UpdatePriority makes the thread's current_priority right.
LEMMA ThreadUpdateKeeps ==
    ASSUME NEW x \in KernelState, NEW t \in Threads
    PROVE  /\ OnlyPriorities(x, ThreadUpdatePriority(x, t))
           /\ ThreadUpdatePriority(x, t).mx = x.mx
           /\ \A D : PrioOK(x, D \cup {t}) => PrioOK(ThreadUpdatePriority(x, t), D)
<1> DEFINE p == Inherited(x, t)
           y == ThreadUpdatePriority(x, t)
<1>1. p \in Priority
  BY InheritedType
<1>2. y = BoostPriority(x, t, p)
  BY DEF ThreadUpdatePriority, Inherited
<1> HIDE DEF y, p
<1>3. /\ OnlyPriorities(x, y) /\ y.mx = x.mx
      /\ y.th = [x.th EXCEPT ![t] = [x.th[t] EXCEPT !.current = p]]
  BY <1>1, <1>2, BoostResult
<1>4. x.th \in [Threads -> ThreadRec] /\ x.th[t] \in ThreadRec
  BY ThType
<1>5. SameThreads(x, y)
  BY <1>3, PrioritiesSame
<1>6. \A u \in Threads : Inherited(y, u) = Inherited(x, u) /\ (Alive(y, u) <=> Alive(x, u))
  <2>1. \A u \in Threads : Inherited(y, u) = Inherited(x, u)
    BY <1>3, <1>5, InheritedSame DEF SameThreads
  <2> QED BY <1>5, <2>1 DEF SameThreads, Alive
<1>7. y.th[t].current = p
  BY <1>3, <1>4 DEF ThreadRec
<1>8. \A u \in Threads : u # t => y.th[u] = x.th[u]
  BY <1>3, <1>4
<1>9. ASSUME NEW D, PrioOK(x, D \cup {t}) PROVE PrioOK(y, D)
  BY <1>6, <1>7, <1>8, <1>9 DEF PrioOK, p
<1> QED BY <1>3, <1>9 DEF y


LEMMA MutexFields ==
    ASSUME NEW x \in KernelState
    PROVE  /\ x.mx \in [Mutexes -> MutexRec]
           /\ \A m \in Mutexes : /\ x.mx[m] \in MutexRec /\ x.mx[m].lock \in Nat
                                 /\ x.mx[m].holder \in MaybeThread /\ x.mx[m].prio \in Priority
<1>1. x.mx \in [Mutexes -> MutexRec]
  BY KernelFields DEF MxMap
<1>2. \A m \in Mutexes : x.mx[m] \in MutexRec
  BY <1>1
<1> QED BY <1>1, <1>2 DEF MutexRec

LEMMA Mutex_prio ==
    ASSUME NEW r \in MutexRec, NEW v \in Priority
    PROVE  [r EXCEPT !.prio = v] \in MutexRec
  BY Zenon DEF MutexRec

LEMMA Mutex_lock ==
    ASSUME NEW r \in MutexRec, NEW v \in Nat
    PROVE  [r EXCEPT !.lock = v] \in MutexRec
  BY Zenon DEF MutexRec

LEMMA Mutex_holder ==
    ASSUME NEW r \in MutexRec, NEW v \in MaybeThread
    PROVE  [r EXCEPT !.holder = v] \in MutexRec
  BY Zenon DEF MutexRec

\* One mutex is replaced by r.
LEMMA MutexPut ==
    ASSUME NEW x \in KernelState, NEW m \in Mutexes, NEW r \in MutexRec
    PROVE  /\ [x EXCEPT !.mx[m] = r] \in KernelState
           /\ [x EXCEPT !.mx[m] = r].mx = [x.mx EXCEPT ![m] = r]
           /\ [x EXCEPT !.mx[m] = r].th = x.th
           /\ [x EXCEPT !.mx[m] = r].wl = x.wl
           /\ [x EXCEPT !.mx[m] = r].ses = x.ses
           /\ [x EXCEPT !.mx[m] = r].rq = x.rq
           /\ Untouched(x, [x EXCEPT !.mx[m] = r])
<1> DEFINE v == [x.mx EXCEPT ![m] = r]
<1>1. v \in MxMap
  BY MutexFields DEF MxMap
<1>2. [x EXCEPT !.mx[m] = r] = [x EXCEPT !.mx = v]
  OBVIOUS
<1> HIDE DEF v
<1>3. [x EXCEPT !.mx = v] \in KernelState
  BY <1>1, Put_mx
<1>4. /\ [x EXCEPT !.mx = v].mx = v
      /\ [x EXCEPT !.mx = v].th = x.th
      /\ [x EXCEPT !.mx = v].wl = x.wl
      /\ [x EXCEPT !.mx = v].ses = x.ses
      /\ [x EXCEPT !.mx = v].rq = x.rq
  BY DEF KernelState
<1>5. Untouched(x, [x EXCEPT !.mx = v])
  BY DEF KernelState, Untouched
<1> QED BY <1>2, <1>3, <1>4, <1>5 DEF v

\* One thread is replaced by r.
LEMMA ThreadPut ==
    ASSUME NEW x \in KernelState, NEW t \in Threads, NEW r \in ThreadRec
    PROVE  /\ [x EXCEPT !.th[t] = r] \in KernelState
           /\ [x EXCEPT !.th[t] = r].th = [x.th EXCEPT ![t] = r]
           /\ [x EXCEPT !.th[t] = r].mx = x.mx
           /\ [x EXCEPT !.th[t] = r].wl = x.wl
           /\ [x EXCEPT !.th[t] = r].ses = x.ses
           /\ [x EXCEPT !.th[t] = r].rq = x.rq
           /\ Untouched(x, [x EXCEPT !.th[t] = r])
<1> DEFINE v == [x.th EXCEPT ![t] = r]
<1>1. v \in ThMap
  BY ThType DEF ThMap
<1>2. [x EXCEPT !.th[t] = r] = [x EXCEPT !.th = v]
  OBVIOUS
<1> HIDE DEF v
<1>3. [x EXCEPT !.th = v] \in KernelState
  BY <1>1, Put_th
<1>4. /\ [x EXCEPT !.th = v].th = v
      /\ [x EXCEPT !.th = v].mx = x.mx
      /\ [x EXCEPT !.th = v].wl = x.wl
      /\ [x EXCEPT !.th = v].ses = x.ses
      /\ [x EXCEPT !.th = v].rq = x.rq
  BY DEF KernelState
<1>5. Untouched(x, [x EXCEPT !.th = v])
  BY DEF KernelState, Untouched
<1> QED BY <1>2, <1>3, <1>4, <1>5 DEF v

LEMMA BestWaiterType ==
    ASSUME NEW x \in KernelState, NEW m \in Mutexes
    PROVE  BestWaiter(x, m) \in Priority
<1> DEFINE P == {ThreadPrioLowest} \cup {x.th[u].current : u \in ToSet(x.wl[m])}
<1>1. ToSet(x.wl[m]) \subseteq Threads
  BY KernelFields, ToSetType DEF WlMap, WaitObject
<1>2. \A u \in Threads : x.th[u].current \in Priority
  BY ThType, ThreadFields
<1>3. P \in SUBSET Priority /\ P # {}
  BY <1>1, <1>2, PriorityNat
<1> QED BY <1>3, MinPriority DEF BestWaiter

LEMMA PrioritiesItself ==
    ASSUME NEW x \in KernelState
    PROVE  OnlyPriorities(x, x)
<1>1. \A t \in Threads : x.th[t] = [x.th[t] EXCEPT !.current = x.th[t].current]
  BY ThType DEF ThreadRec
<1> QED BY <1>1 DEF OnlyPriorities, Untouched, Queued

\* Mutex::UpdatePriority only changes the priorities of the mutex and its holder.
LEMMA MutexUpdateKeeps ==
    ASSUME NEW x \in KernelState, NEW m \in Mutexes, NEW d, MutexOK(x, d)
    PROVE  /\ OnlyPriorities(x, MutexUpdatePriority(x, m))
           /\ PrioOK(x, {d}) => PrioOK(MutexUpdatePriority(x, m), {d})
<1> DEFINE best == BestWaiter(x, m)
           h == x.mx[m].holder
           r == [x.mx[m] EXCEPT !.prio = best]
           x1 == [x EXCEPT !.mx[m] = r]
<1>1. CASE h = NoThread \/ best = x.mx[m].prio
  <2>1. MutexUpdatePriority(x, m) = x
    BY <1>1 DEF MutexUpdatePriority
  <2> QED BY <2>1, PrioritiesItself
<1>2. CASE ~(h = NoThread \/ best = x.mx[m].prio)
  <2>1. MutexUpdatePriority(x, m) = ThreadUpdatePriority(x1, h)
    BY <1>2 DEF MutexUpdatePriority
  <2>2. h \in Threads /\ best \in Priority /\ x.mx[m] \in MutexRec
    BY <1>2, MutexFields, BestWaiterType DEF MaybeThread
  <2>3. r \in MutexRec /\ r.lock = x.mx[m].lock /\ r.holder = x.mx[m].holder
    <3> HIDE DEF best
    <3> QED BY <2>2, Mutex_prio DEF MutexRec
  <2> DEFINE y == ThreadUpdatePriority(x1, h)
  <2> HIDE DEF best, r
  <2>4. /\ x1 \in KernelState /\ x1.mx = [x.mx EXCEPT ![m] = r] /\ x1.th = x.th /\ x1.wl = x.wl
        /\ x1.ses = x.ses /\ x1.rq = x.rq /\ Untouched(x, x1)
    BY <2>3, MutexPut
  <2> HIDE DEF x1
  <2>5. OnlyPriorities(x1, y) /\ \A D : PrioOK(x1, D \cup {h}) => PrioOK(y, D)
    BY <2>2, <2>4, ThreadUpdateKeeps
  <2>6. /\ \A o \in Mutexes \ {m} : x1.mx[o] = x.mx[o]
        /\ x1.mx[m] = r
    BY <2>4, MutexFields
  <2>7. OnlyPriorities(x, x1)
    <3>1. \A t \in Threads : x1.th[t] = [x.th[t] EXCEPT !.current = x1.th[t].current]
      BY <2>4, ThType DEF ThreadRec
    <3>2. \A o \in Mutexes : x1.mx[o].lock = x.mx[o].lock /\ x1.mx[o].holder = x.mx[o].holder
      BY <2>3, <2>6
    <3>3. Queued(x, x1)
      BY <2>4, QueuesSame
    <3> QED BY <2>4, <3>1, <3>2, <3>3 DEF OnlyPriorities
  <2>8. OnlyPriorities(x, y)
    BY <2>5, <2>7, PrioritiesTransitive
  <2>9. ASSUME PrioOK(x, {d}) PROVE PrioOK(y, {d})
    <3>1. PrioOK(x1, {d} \cup {h})
      <4> SUFFICES ASSUME NEW u \in Threads \ ({d} \cup {h}), Alive(x1, u)
                   PROVE  x1.th[u].current = Inherited(x1, u)
        BY DEF PrioOK
      <4>1. m \notin x.th[u].held
        BY DEF MutexOK
      <4>2. x.th[u].held \subseteq Mutexes
        BY ThType, ThreadFields
      <4>3. Inherited(x1, u) = Inherited(x, u)
        <5>1. \A o \in x.th[u].held : x1.mx[o].prio = x.mx[o].prio
          BY <2>6, <4>1, <4>2
        <5>2. x1.th[u].nominal = x.th[u].nominal /\ x1.th[u].held = x.th[u].held
          BY <2>4
        <5> QED BY ONLY <5>1, <5>2, InheritedSame
      <4>4. Alive(x, u)
        BY <2>4 DEF Alive
      <4> QED BY <2>4, <2>9, <4>3, <4>4 DEF PrioOK
    <3> QED BY <2>5, <3>1
  <2> QED BY <2>1, <2>8, <2>9
<1> QED BY <1>1, <1>2


-----------------------------------------------------------------------------
(* Acquiring objects.                                                      *)

LEMMA UntouchedTransitive ==
    ASSUME NEW x, NEW y, NEW z, Untouched(x, y), Untouched(y, z)
    PROVE  Untouched(x, z)
  BY DEF Untouched

\* What a thread waits for, and how, is the same.
SameWaits(x, y) ==
    /\ y.wl = x.wl
    /\ \A t \in Threads :
        /\ y.th[t].status = x.th[t].status /\ y.th[t].cb = x.th[t].cb /\ y.th[t].req = x.th[t].req
        /\ y.th[t].waitObjs = x.th[t].waitObjs /\ y.th[t].pending = x.th[t].pending

LEMMA WaitsSame ==
    ASSUME NEW x \in KernelState, NEW y, SameWaits(x, y), NEW t, NEW R, NEW d
    PROVE  /\ ListsOK(x, t, R) => ListsOK(y, t, R)
           /\ ThreadsOK(x, d) => ThreadsOK(y, d)
           /\ SessionsOK(x) /\ y.ses = x.ses => SessionsOK(y)
           /\ \A u \in Threads : (Alive(y, u) <=> Alive(x, u)) /\ (Sync(y, u) <=> Sync(x, u))
<1>1. ListsOK(x, t, R) => ListsOK(y, t, R)
  BY ListsSame DEF SameWaits
<1>2. ThreadsOK(x, d) => ThreadsOK(y, d)
  BY DEF ThreadsOK, SameWaits, Sync
<1>3. SessionsOK(x) /\ y.ses = x.ses => SessionsOK(y)
  BY SessionsSame DEF SameWaits
<1>4. \A u \in Threads : (Alive(y, u) <=> Alive(x, u)) /\ (Sync(y, u) <=> Sync(x, u))
  BY DEF SameWaits, Alive, Sync
<1> QED BY <1>1, <1>2, <1>3, <1>4

LEMMA SoundSame ==
    ASSUME NEW x, NEW d, Sound(x, d), NEW y \in KernelState,
           y.th = x.th, y.wl = x.wl, y.mx = x.mx, y.ses = x.ses
    PROVE  /\ Sound(y, d) /\ SameWaits(x, y)
           /\ Untouched(x, y) /\ y.rq = x.rq => \A a : Moved(x, y, a)
<1>1. SameWaits(x, y)
  BY DEF SameWaits
<1>2. ListsOK(y, NoThread, {}) /\ ThreadsOK(y, d) /\ SessionsOK(y)
  BY <1>1, WaitsSame DEF Sound
<1>3. MutexOK(y, d)
  BY DEF Sound, MutexOK, Alive
<1>4. PrioOK(y, {d})
  <2>1. \A u \in Threads : Inherited(y, u) = Inherited(x, u)
    BY DEF Inherited
  <2> QED BY <2>1 DEF Sound, PrioOK, Alive
<1>5. ASSUME Untouched(x, y), y.rq = x.rq, NEW a PROVE Moved(x, y, a)
  <2>1. SameThreads(x, y)
    BY DEF SameThreads
  <2>2. Queued(x, y)
    BY <1>5, QueuesSame
  <2> QED BY <1>5, <2>1, <2>2, SameMoved
<1> QED BY <1>1, <1>2, <1>3, <1>4, <1>5 DEF Sound

LEMMA RescheduleFrame ==
    ASSUME NEW x \in KernelState
    PROVE  /\ PrepareReschedule(x) \in KernelState
           /\ PrepareReschedule(x).th = x.th /\ PrepareReschedule(x).mx = x.mx
           /\ PrepareReschedule(x).wl = x.wl /\ PrepareReschedule(x).ses = x.ses
           /\ PrepareReschedule(x).sem = x.sem /\ PrepareReschedule(x).sig = x.sig
           /\ PrepareReschedule(x).rq = x.rq
           /\ PrepareReschedule(x).halt
           /\ Untouched(x, PrepareReschedule(x))
<1> DEFINE x1 == [x EXCEPT !.resched = TRUE]
<1>1. PrepareReschedule(x) = [x1 EXCEPT !.halt = TRUE]
  BY DEF PrepareReschedule
<1>2. x1 \in KernelState
  BY Put_resched
<1>3. [x1 EXCEPT !.halt = TRUE] \in KernelState
  <2> HIDE DEF x1
  <2> QED BY <1>2, Put_halt
<1> QED BY <1>1, <1>3 DEF KernelState, Untouched

\* y is what Assert_ makes of x.
Asserted(x, y) ==
    /\ y \in KernelState /\ Untouched(x, y)
    /\ y.th = x.th /\ y.mx = x.mx /\ y.wl = x.wl /\ y.ses = x.ses
    /\ y.sem = x.sem /\ y.sig = x.sig /\ y.rq = x.rq /\ y.halt = x.halt

Failed(x, name) == [x EXCEPT !.failed = x.failed \cup {name}]

LEMMA AssertFrame ==
    ASSUME NEW x \in KernelState, NEW y, NEW name \in Assertions, y = x \/ y = Failed(x, name)
    PROVE  Asserted(x, y)
<1>1. CASE y = x
  BY <1>1 DEF Asserted, Untouched
<1>2. CASE y = Failed(x, name)
  <2>1. x.failed \cup {name} \in SUBSET Assertions
    BY KernelFields
  <2>2. Failed(x, name) \in KernelState
    BY <2>1, Put_failed DEF Failed
  <2>3. Untouched(x, Failed(x, name))
    BY DEF KernelState, Untouched, Failed
  <2>4. /\ Failed(x, name).th = x.th /\ Failed(x, name).mx = x.mx /\ Failed(x, name).wl = x.wl
        /\ Failed(x, name).ses = x.ses /\ Failed(x, name).sem = x.sem /\ Failed(x, name).sig = x.sig
        /\ Failed(x, name).rq = x.rq /\ Failed(x, name).halt = x.halt
    BY DEF KernelState, Failed
  <2> QED BY <1>2, <2>2, <2>3, <2>4 DEF Asserted
<1> QED BY <1>1, <1>2

\* What acquiring something for t leaves alone, and keeps.
Acquired(x, y, t, d) ==
    /\ Sound(y, d) /\ SameWaits(x, y) /\ Moved(x, y, t)
    /\ \A u \in Threads \ {t} : y.th[u].held = x.th[u].held

LEMMA NotNoThread ==
    /\ NoThread \notin Threads /\ NoThread \notin WaitObject /\ Threads \subseteq WaitObject
    /\ Mutexes \subseteq WaitObject /\ Sessions \subseteq WaitObject /\ Ports \subseteq WaitObject
  BY KernelAssumption DEF WaitObject

\* The mutex was free.
LEMMA LockKeeps ==
    ASSUME NEW x, NEW d, Sound(x, d), NEW m \in Mutexes, NEW t \in Threads, t # d, Alive(x, t),
           x.mx[m].lock = 0
    PROVE  Acquired(x, AcquireMutex(x, m, t), t, d)
<1> DEFINE r1 == [x.mx[m] EXCEPT !.prio = x.th[t].current]
           r2 == [r1 EXCEPT !.holder = t]
           r3 == [x.th[t] EXCEPT !.held = x.th[t].held \cup {m}]
           b1 == [x EXCEPT !.mx[m] = r1]
           a1 == [b1 EXCEPT !.mx[m] = [b1.mx[m] EXCEPT !.holder = t]]
           a2 == [a1 EXCEPT !.th[t] = [a1.th[t] EXCEPT !.held = a1.th[t].held \cup {m}]]
           a3 == ThreadUpdatePriority(a2, t)
           a4 == PrepareReschedule(a3)
           r4 == [a4.mx[m] EXCEPT !.lock = a4.mx[m].lock + 1]
           y == [a4 EXCEPT !.mx[m] = r4]
<1>1. x \in KernelState /\ MutexOK(x, d) /\ PrioOK(x, {d})
  BY DEF Sound
<1>2. /\ x.mx[m] \in MutexRec /\ x.th[t] \in ThreadRec /\ x.th[t].current \in Priority
      /\ x.th[t].held \subseteq Mutexes
      /\ x.th \in [Threads -> ThreadRec] /\ x.mx \in [Mutexes -> MutexRec]
  BY <1>1, MutexFields, ThType, ThreadFields
<1>3. r1 \in MutexRec
  BY <1>2, Mutex_prio
<1>4. r2 \in MutexRec
  <2> HIDE DEF r1
  <2> QED BY <1>3, Mutex_holder DEF MaybeThread
<1>5. r2.lock = 0 /\ r2.holder = t
  BY <1>2 DEF MutexRec
<1>6. r3 \in ThreadRec
  BY <1>2, Thread_held
<1>7. /\ r3.held = x.th[t].held \cup {m} /\ r3.status = x.th[t].status /\ r3.cb = x.th[t].cb
      /\ r3.req = x.th[t].req /\ r3.waitObjs = x.th[t].waitObjs /\ r3.pending = x.th[t].pending
      /\ r3.nominal = x.th[t].nominal /\ r3.current = x.th[t].current
  BY <1>2 DEF ThreadRec
<1>8. AcquireMutex(x, m, t) = y
  <2> DEFINE first == [x EXCEPT !.mx[m].prio = x.th[t].current, !.mx[m].holder = t,
                                !.th[t].held = @ \cup {m}]
             kk == PrepareReschedule(ThreadUpdatePriority(first, t))
  <2>1. AcquireMutex(x, m, t) = [kk EXCEPT !.mx[m].lock = @ + 1]
    <3>1. x.mx[m].lock = 0
      OBVIOUS
    <3> QED BY ONLY <3>1, Zenon DEF AcquireMutex
  <2>2. first = a2
    BY <1>1, <1>2 DEF KernelState
  <2> HIDE DEF first, a2
  <2>3. kk = a4
    BY <2>2
  <2> HIDE DEF kk, a4
  <2> QED BY <2>1, <2>3
<1> HIDE DEF r1, r2, r3
<1>9. /\ a1 \in KernelState /\ a1.mx = [x.mx EXCEPT ![m] = r2] /\ a1.th = x.th /\ a1.wl = x.wl
      /\ a1.ses = x.ses /\ a1.rq = x.rq /\ Untouched(x, a1)
  <2>1. /\ b1 \in KernelState /\ b1.mx = [x.mx EXCEPT ![m] = r1] /\ b1.th = x.th /\ b1.wl = x.wl
        /\ b1.ses = x.ses /\ b1.rq = x.rq /\ Untouched(x, b1)
    BY <1>1, <1>3, MutexPut
  <2> HIDE DEF b1
  <2>2. a1 = [b1 EXCEPT !.mx[m] = r2]
    BY <1>2, <2>1 DEF r2
  <2> HIDE DEF a1
  <2>3. /\ a1 \in KernelState /\ a1.mx = [b1.mx EXCEPT ![m] = r2] /\ a1.th = b1.th /\ a1.wl = b1.wl
        /\ a1.ses = b1.ses /\ a1.rq = b1.rq /\ Untouched(b1, a1)
    BY <1>4, <2>1, <2>2, MutexPut
  <2>4. a1.mx = [x.mx EXCEPT ![m] = r2]
    BY <1>2, <2>1, <2>3
  <2> QED BY <2>1, <2>3, <2>4, UntouchedTransitive
<1> HIDE DEF a1
<1>10. /\ a2 \in KernelState /\ a2.mx = a1.mx /\ a2.th = [x.th EXCEPT ![t] = r3] /\ a2.wl = x.wl
       /\ a2.ses = x.ses /\ a2.rq = x.rq /\ Untouched(a1, a2)
  <2>1. [a1.th[t] EXCEPT !.held = a1.th[t].held \cup {m}] = r3
    BY <1>9 DEF r3
  <2>2. a2 = [a1 EXCEPT !.th[t] = r3]
    BY <2>1
  <2> HIDE DEF a2
  <2>3. /\ a2 \in KernelState /\ a2.mx = a1.mx /\ a2.th = [a1.th EXCEPT ![t] = r3] /\ a2.wl = a1.wl
        /\ a2.ses = a1.ses /\ a2.rq = a1.rq /\ Untouched(a1, a2)
    BY <1>6, <1>9, <2>2, ThreadPut
  <2> QED BY <1>9, <2>3
<1> HIDE DEF a2
<1>11. OnlyPriorities(a2, a3) /\ a3.mx = a2.mx /\ \A D : PrioOK(a2, D \cup {t}) => PrioOK(a3, D)
  BY <1>10, ThreadUpdateKeeps
<1> HIDE DEF a3
<1>12. /\ a3 \in KernelState /\ Untouched(a2, a3) /\ Queued(a2, a3)
       /\ a3.wl = a2.wl /\ a3.ses = a2.ses
  BY <1>11 DEF OnlyPriorities
<1>13. /\ a4 \in KernelState /\ a4.th = a3.th /\ a4.mx = a3.mx /\ a4.wl = a3.wl /\ a4.ses = a3.ses
       /\ a4.rq = a3.rq /\ Untouched(a3, a4)
  BY <1>12, RescheduleFrame
<1> HIDE DEF a4
<1>14. a4.mx = [x.mx EXCEPT ![m] = r2]
  BY <1>9, <1>10, <1>11, <1>13
<1>15. a4.mx[m] = r2 /\ \A o \in Mutexes \ {m} : a4.mx[o] = x.mx[o]
  BY <1>2, <1>14
<1>16. r4 \in MutexRec /\ r4.lock = 1 /\ r4.holder = t /\ r4.prio = r2.prio
  <2>1. r4 = [r2 EXCEPT !.lock = 1]
    BY <1>5, <1>15
  <2>2. [r2 EXCEPT !.lock = 1] \in MutexRec
    BY <1>4, Mutex_lock
  <2> QED BY <1>4, <1>5, <2>1, <2>2 DEF MutexRec
<1> HIDE DEF r4
<1>17. /\ y \in KernelState /\ y.mx = [a4.mx EXCEPT ![m] = r4] /\ y.th = a4.th /\ y.wl = a4.wl
       /\ y.ses = a4.ses /\ y.rq = a4.rq /\ Untouched(a4, y)
  BY <1>13, <1>16, MutexPut
<1> HIDE DEF y
<1>18. y.mx[m] = r4 /\ \A o \in Mutexes \ {m} : y.mx[o] = x.mx[o]
  BY <1>13, <1>15, <1>17, MutexFields
<1>19. SameThreads(a2, a3)
  BY <1>10, <1>11, PrioritiesSame
<1>20. a2.th[t] = r3 /\ \A u \in Threads \ {t} : a2.th[u] = x.th[u]
  BY <1>2, <1>10
<1>21. \A u \in Threads : /\ a2.th[u].status = x.th[u].status /\ a2.th[u].cb = x.th[u].cb
                          /\ a2.th[u].req = x.th[u].req
                          /\ a2.th[u].waitObjs = x.th[u].waitObjs
                          /\ a2.th[u].pending = x.th[u].pending
                          /\ a2.th[u].nominal = x.th[u].nominal
                          /\ a2.th[u].current = x.th[u].current
  BY <1>7, <1>20
<1>22. y.th = a3.th
  BY <1>13, <1>17
<1>23. SameWaits(x, y)
  BY <1>10, <1>12, <1>13, <1>17, <1>19, <1>21, <1>22 DEF SameWaits, SameThreads
<1>24. \A u \in Threads \ {t} : y.th[u].held = x.th[u].held
  BY <1>19, <1>20, <1>22 DEF SameThreads
<1>25. y.th[t].held = x.th[t].held \cup {m}
  BY <1>7, <1>19, <1>20, <1>22 DEF SameThreads
<1>26. Untouched(x, y)
  BY <1>9, <1>10, <1>12, <1>13, <1>17, UntouchedTransitive
<1>27. y.ses = x.ses
  BY <1>10, <1>12, <1>13, <1>17
<1>28. x.mx[m].holder = NoThread
  BY <1>1, <1>2 DEF MutexOK, MutexRec
<1>29. MutexOK(y, d)
  <2>1. \A u \in Threads : Alive(y, u) <=> Alive(x, u)
    BY <1>1, <1>23, WaitsSame
  <2>2. t # NoThread
    BY NotNoThread
  <2> SUFFICES ASSUME NEW o \in Mutexes
               PROVE  /\ y.mx[o].lock > 0 <=> y.mx[o].holder # NoThread
                      /\ \A u \in Threads : y.mx[o].holder = u => o \in y.th[u].held /\ (u = d \/ Alive(y, u))
                      /\ \A u \in Threads \ {d} : o \in y.th[u].held => y.mx[o].holder = u
    BY DEF MutexOK
  <2>3. CASE o = m
    <3>1. \A u \in Threads \ {d} : m \notin x.th[u].held
      BY <1>1, <1>28, NotNoThread DEF MutexOK
    <3> QED BY <1>16, <1>18, <1>24, <1>25, <2>1, <2>2, <2>3, <3>1
  <2>4. CASE o # m
    <3>1. y.mx[o] = x.mx[o]
      BY <1>18, <2>4
    <3>2. \A u \in Threads : o \in y.th[u].held <=> o \in x.th[u].held
      BY <1>24, <1>25, <2>4
    <3> QED BY <1>1, <2>1, <3>1, <3>2 DEF MutexOK
  <2> QED BY <2>3, <2>4
<1>30. PrioOK(a2, {d} \cup {t})
  <2> SUFFICES ASSUME NEW u \in Threads \ ({d} \cup {t}), Alive(a2, u)
               PROVE  a2.th[u].current = Inherited(a2, u)
    BY DEF PrioOK
  <2>1. a2.th[u] = x.th[u]
    BY <1>20
  <2>2. m \notin x.th[u].held /\ x.th[u].held \subseteq Mutexes
    BY <1>1, <1>28, NotNoThread, ThType, ThreadFields DEF MutexOK
  <2>3. \A o \in x.th[u].held : a2.mx[o].prio = x.mx[o].prio
    BY <1>11, <1>13, <1>15, <2>2
  <2>4. a2.th[u].nominal = x.th[u].nominal /\ a2.th[u].held = x.th[u].held
    BY <2>1
  <2>5. Inherited(a2, u) = Inherited(x, u)
    BY ONLY <2>3, <2>4, InheritedSame
  <2>6. Alive(x, u)
    BY <2>1 DEF Alive
  <2> QED BY <1>1, <2>1, <2>5, <2>6 DEF PrioOK
<1>31. PrioOK(y, {d})
  <2>1. PrioOK(a3, {d})
    BY <1>11, <1>30
  <2>2. \A o \in Mutexes : y.mx[o].prio = a3.mx[o].prio
    BY <1>13, <1>15, <1>16, <1>18
  <2>3. \A u \in Threads : a3.th[u].held \subseteq Mutexes
    BY <1>12, ThType, ThreadFields
  <2>4. \A u \in Threads : \A o \in a3.th[u].held : y.mx[o].prio = a3.mx[o].prio
    BY <2>2, <2>3
  <2>5. \A u \in Threads : Inherited(y, u) = Inherited(a3, u)
    BY ONLY <1>22, <2>4, InheritedSame
  <2> QED BY <1>22, <2>1, <2>5 DEF PrioOK, Alive
<1>32. Sound(y, d)
  BY <1>1, <1>17, <1>23, <1>27, <1>29, <1>31, WaitsSame DEF Sound
<1>33. Moved(x, y, t)
  <2>1. ThreadsMoved(x, y, t)
    BY <1>23, <1>24 DEF SameWaits, ThreadsMoved
  <2>2. \A o \in Mutexes : \/ y.mx[o].holder = x.mx[o].holder
                           \/ x.mx[o].holder = NoThread /\ y.mx[o].holder = t
    BY <1>16, <1>18, <1>28
  <2>3. ObjectsMoved(x, y, t)
    BY <1>23, <1>27, <2>2 DEF ObjectsMoved, SameWaits
  <2>4. Queued(x, y)
    <3>1. Queued(x, a2)
      <4>1. a2.rq = x.rq
        BY <1>10
      <4>2. \A u \in Threads : a2.th[u].status = x.th[u].status /\ a2.th[u].current = x.th[u].current
        BY <1>21
      <4> QED BY ONLY <4>1, <4>2, QueuesSame
    <3>2. Queued(a3, y)
      BY <1>12, <1>13, <1>17, <1>22, QueuesSame
    <3> QED BY <1>12, <3>1, <3>2, QueuedTransitive
  <2> QED BY <1>26, <2>1, <2>3, <2>4 DEF Moved
<1> QED BY <1>8, <1>23, <1>24, <1>32, <1>33 DEF Acquired


\* A change of lock_count alone, from one positive value to another.
LEMMA CountKeeps ==
    ASSUME NEW x, NEW d, Sound(x, d), NEW m \in Mutexes, NEW n \in Nat,
           x.mx[m].lock > 0, n > 0, NEW a
    PROVE  /\ Sound([x EXCEPT !.mx[m].lock = n], d)
           /\ SameWaits(x, [x EXCEPT !.mx[m].lock = n])
           /\ [x EXCEPT !.mx[m].lock = n].th = x.th
           /\ Moved(x, [x EXCEPT !.mx[m].lock = n], a)
<1> DEFINE r == [x.mx[m] EXCEPT !.lock = n]
           y == [x EXCEPT !.mx[m] = r]
<1>1. [x EXCEPT !.mx[m].lock = n] = y
  OBVIOUS
<1>2. x \in KernelState
  BY DEF Sound
<1>3. x.mx[m] \in MutexRec
  BY <1>2, MutexFields
<1>4. r \in MutexRec /\ r.lock = n /\ r.holder = x.mx[m].holder /\ r.prio = x.mx[m].prio
  BY <1>3, Mutex_lock DEF MutexRec
<1> HIDE DEF r
<1>5. /\ y \in KernelState /\ y.mx = [x.mx EXCEPT ![m] = r] /\ y.th = x.th /\ y.wl = x.wl
      /\ y.ses = x.ses /\ y.rq = x.rq /\ Untouched(x, y)
  BY <1>2, <1>4, MutexPut
<1> HIDE DEF y
<1>6. y.mx[m] = r /\ \A o \in Mutexes \ {m} : y.mx[o] = x.mx[o]
  BY <1>2, <1>5, MutexFields
<1>7. SameWaits(x, y)
  BY <1>5 DEF SameWaits
<1>8. \A o \in Mutexes : /\ y.mx[o].holder = x.mx[o].holder /\ y.mx[o].prio = x.mx[o].prio
                         /\ y.mx[o].lock > 0 <=> x.mx[o].lock > 0
  BY <1>4, <1>6
<1>9. MutexOK(y, d)
  BY <1>5, <1>8 DEF MutexOK, Alive, Sound
<1>10. PrioOK(y, {d})
  <2>1. \A u \in Threads : x.th[u].held \subseteq Mutexes
    BY <1>2, ThType, ThreadFields
  <2>2. \A u \in Threads : \A o \in x.th[u].held : y.mx[o].prio = x.mx[o].prio
    BY <1>8, <2>1
  <2>3. \A u \in Threads : Inherited(y, u) = Inherited(x, u)
    BY ONLY <1>5, <2>2, InheritedSame
  <2> QED BY <1>5, <2>3 DEF PrioOK, Alive, Sound
<1>11. Sound(y, d)
  BY <1>2, <1>5, <1>7, <1>9, <1>10, WaitsSame DEF Sound
<1>12. Moved(x, y, a)
  <2>1. SameThreads(x, y)
    BY <1>5 DEF SameThreads
  <2>2. Queued(x, y)
    BY <1>5, QueuesSame
  <2> QED BY <1>5, <1>8, <2>1, <2>2, SameMoved
<1> QED BY <1>1, <1>5, <1>7, <1>11, <1>12

LEMMA AcquireMutexKeeps ==
    ASSUME NEW x, NEW d, Sound(x, d), NEW m \in Mutexes, NEW t \in Threads, t # d, Alive(x, t),
           ~MutexShouldWait(x, m, t)
    PROVE  Acquired(x, AcquireMutex(x, m, t), t, d)
<1>1. x.mx[m].lock \in Nat
  BY MutexFields DEF Sound
<1>2. CASE x.mx[m].lock = 0
  BY <1>2, LockKeeps
<1>3. CASE x.mx[m].lock # 0
  <2> DEFINE n == x.mx[m].lock + 1
  <2>1. AcquireMutex(x, m, t) = [x EXCEPT !.mx[m].lock = n]
    BY <1>3 DEF AcquireMutex
  <2>2. n \in Nat /\ n > 0 /\ x.mx[m].lock > 0
    BY <1>1, <1>3
  <2> DEFINE y == [x EXCEPT !.mx[m].lock = n]
  <2> HIDE DEF n
  <2>3. Sound(y, d) /\ SameWaits(x, y) /\ y.th = x.th /\ Moved(x, y, t)
    BY <2>2, CountKeeps
  <2> HIDE DEF y
  <2> QED BY <2>1, <2>3 DEF Acquired, y
<1> QED BY <1>2, <1>3

LEMMA AcquiredItself ==
    ASSUME NEW x, NEW d, Sound(x, d), NEW t, NEW y \in KernelState,
           y.th = x.th, y.wl = x.wl, y.mx = x.mx, y.ses = x.ses, y.rq = x.rq, Untouched(x, y)
    PROVE  Acquired(x, y, t, d)
  BY SoundSame DEF Acquired

LEMMA AcquireSemaphoreKeeps ==
    ASSUME NEW x, NEW d, Sound(x, d), NEW s \in Semaphores, NEW t
    PROVE  Acquired(x, AcquireSemaphore(x, s), t, d)
<1> DEFINE v == [x.sem EXCEPT ![s] = x.sem[s] - 1]
           y == [x EXCEPT !.sem = v]
<1>1. x \in KernelState
  BY DEF Sound
<1>2. CASE SemaphoreShouldWait(x, s)
  <2>1. AcquireSemaphore(x, s) = x
    BY <1>2 DEF AcquireSemaphore
  <2>2. Untouched(x, x)
    BY DEF Untouched
  <2> QED BY <1>1, <2>1, <2>2, AcquiredItself
<1>3. CASE ~SemaphoreShouldWait(x, s)
  <2>1. AcquireSemaphore(x, s) = y
    BY <1>3 DEF AcquireSemaphore
  <2>2. v \in [Semaphores -> Int]
    BY <1>1, KernelFields
  <2> HIDE DEF v
  <2>3. y \in KernelState
    BY <1>1, <2>2, Put_sem
  <2>4. /\ y.th = x.th /\ y.wl = x.wl /\ y.mx = x.mx /\ y.ses = x.ses /\ y.rq = x.rq
        /\ Untouched(x, y)
    BY <1>1 DEF KernelState, Untouched
  <2> HIDE DEF y
  <2> QED BY <2>1, <2>3, <2>4, AcquiredItself
<1> QED BY <1>2, <1>3

\* sig is one of the fields the invariant does not look at.
LEMMA SigKeeps ==
    ASSUME NEW x, NEW d, Sound(x, d), NEW S \in SUBSET (Events \cup Timers)
    PROVE  /\ Sound([x EXCEPT !.sig = S], d) /\ SameWaits(x, [x EXCEPT !.sig = S])
           /\ [x EXCEPT !.sig = S].th = x.th
           /\ \A a : Moved(x, [x EXCEPT !.sig = S], a)
<1> DEFINE y == [x EXCEPT !.sig = S]
<1>1. x \in KernelState
  BY DEF Sound
<1>2. y \in KernelState
  BY <1>1, Put_sig
<1>3. /\ y.th = x.th /\ y.wl = x.wl /\ y.mx = x.mx /\ y.ses = x.ses /\ y.rq = x.rq
      /\ Untouched(x, y)
  BY <1>1 DEF KernelState, Untouched
<1> HIDE DEF y
<1>4. Sound(y, d) /\ SameWaits(x, y) /\ \A a : Moved(x, y, a)
  BY <1>2, <1>3, SoundSame
<1> QED BY <1>3, <1>4 DEF y

LEMMA AcquireSignalKeeps ==
    ASSUME NEW x, NEW d, Sound(x, d), NEW o \in Events \cup Timers, NEW t
    PROVE  Acquired(x, AcquireSignal(x, o), t, d)
<1>1. x \in KernelState
  BY DEF Sound
<1>2. CASE ResetType[o] = "OneShot"
  <2> DEFINE S == x.sig \ {o}
             y == [x EXCEPT !.sig = S]
  <2>1. AcquireSignal(x, o) = y
    BY <1>2 DEF AcquireSignal
  <2>2. S \in SUBSET (Events \cup Timers)
    BY <1>1, KernelFields
  <2> HIDE DEF S
  <2>3. Sound(y, d) /\ SameWaits(x, y) /\ y.th = x.th /\ \A a : Moved(x, y, a)
    BY <2>2, SigKeeps
  <2> HIDE DEF y
  <2> QED BY <2>1, <2>3 DEF Acquired
<1>3. CASE ResetType[o] # "OneShot"
  <2>1. AcquireSignal(x, o) = x
    BY <1>3 DEF AcquireSignal
  <2>2. Untouched(x, x)
    BY DEF Untouched
  <2> QED BY <1>1, <2>1, <2>2, AcquiredItself
<1> QED BY <1>2, <1>3


LEMMA FrontLast ==
    ASSUME NEW S, NEW s \in Seq(S), s # <<>>
    PROVE  /\ Front(s) \in Seq(S) /\ Last(s) \in S
           /\ ToSet(s) = ToSet(Front(s)) \cup {Last(s)}
           /\ IsInjective(s) => IsInjective(Front(s)) /\ Last(s) \notin ToSet(Front(s))
<1> DEFINE n == Len(s)
           f == Front(s)
<1>1. n \in Nat /\ n > 0 /\ DOMAIN s = 1 .. n
  OBVIOUS
<1>2. f \in Seq(S) /\ Len(f) = n - 1 /\ \A i \in 1 .. n - 1 : f[i] = s[i]
  BY <1>1 DEF Front
<1>3. DOMAIN f = 1 .. n - 1
  BY <1>2
<1>4. Last(s) = s[n] /\ Last(s) \in S
  BY <1>1 DEF Last
<1> HIDE DEF n, f
<1>5. ToSet(s) = ToSet(f) \cup {Last(s)}
  <2>1. \A i \in 1 .. n : i \in 1 .. n - 1 \/ i = n
    BY <1>1
  <2>2. n \in 1 .. n /\ 1 .. n - 1 \subseteq 1 .. n
    BY <1>1
  <2>3. ASSUME NEW e \in ToSet(s) PROVE e \in ToSet(f) \cup {Last(s)}
    BY <1>1, <1>2, <1>3, <1>4, <2>1 DEF ToSet
  <2>4. ASSUME NEW e \in ToSet(f) \cup {Last(s)} PROVE e \in ToSet(s)
    BY <1>1, <1>2, <1>3, <1>4, <2>2 DEF ToSet
  <2> QED BY <2>3, <2>4
<1>6. ASSUME IsInjective(s) PROVE IsInjective(f) /\ Last(s) \notin ToSet(f)
  <2>1. \A i, j \in 1 .. n : s[i] = s[j] => i = j
    BY <1>1, <1>6 DEF IsInjective
  <2>2. \A i, j \in 1 .. n - 1 : f[i] = f[j] => i = j
    BY <1>1, <1>2, <2>1
  <2>3. \A i \in 1 .. n - 1 : f[i] # s[n]
    BY <1>1, <1>2, <2>1
  <2> QED BY <1>3, <1>4, <2>2, <2>3 DEF IsInjective, ToSet
<1> QED BY <1>2, <1>4, <1>5, <1>6 DEF f

LEMMA SessionFields ==
    ASSUME NEW x \in KernelState
    PROVE  /\ x.ses \in [Sessions -> SessionRec]
           /\ \A s \in Sessions : /\ x.ses[s] \in SessionRec
                                  /\ x.ses[s].pending \in Seq(Threads)
                                  /\ x.ses[s].handling \in MaybeThread
                                  /\ x.ses[s].port \in Ports \cup {NoPort}
                                  /\ x.ses[s].client \in BOOLEAN /\ x.ses[s].server \in BOOLEAN
                                  /\ x.ses[s].alive \in BOOLEAN
<1>1. x.ses \in [Sessions -> SessionRec]
  BY KernelFields DEF SesMap
<1>2. \A s \in Sessions : x.ses[s] \in SessionRec
  BY <1>1
<1> QED BY <1>1, <1>2 DEF SessionRec

LEMMA Session_pending ==
    ASSUME NEW r \in SessionRec, NEW v \in Seq(Threads)
    PROVE  [r EXCEPT !.pending = v] \in SessionRec
  BY Zenon DEF SessionRec

LEMMA Session_handling ==
    ASSUME NEW r \in SessionRec, NEW v \in MaybeThread
    PROVE  [r EXCEPT !.handling = v] \in SessionRec
  BY Zenon DEF SessionRec

\* One session is replaced by r.
LEMMA SessionPut ==
    ASSUME NEW x \in KernelState, NEW s \in Sessions, NEW r \in SessionRec
    PROVE  /\ [x EXCEPT !.ses[s] = r] \in KernelState
           /\ [x EXCEPT !.ses[s] = r].ses = [x.ses EXCEPT ![s] = r]
           /\ [x EXCEPT !.ses[s] = r].th = x.th
           /\ [x EXCEPT !.ses[s] = r].wl = x.wl
           /\ [x EXCEPT !.ses[s] = r].mx = x.mx
           /\ [x EXCEPT !.ses[s] = r].rq = x.rq
           /\ Untouched(x, [x EXCEPT !.ses[s] = r])
<1> DEFINE v == [x.ses EXCEPT ![s] = r]
<1>1. v \in SesMap
  BY SessionFields DEF SesMap
<1>2. [x EXCEPT !.ses[s] = r] = [x EXCEPT !.ses = v]
  OBVIOUS
<1> HIDE DEF v
<1>3. [x EXCEPT !.ses = v] \in KernelState
  BY <1>1, Put_ses
<1>4. /\ [x EXCEPT !.ses = v].ses = v
      /\ [x EXCEPT !.ses = v].th = x.th
      /\ [x EXCEPT !.ses = v].wl = x.wl
      /\ [x EXCEPT !.ses = v].mx = x.mx
      /\ [x EXCEPT !.ses = v].rq = x.rq
  BY DEF KernelState
<1>5. Untouched(x, [x EXCEPT !.ses = v])
  BY DEF KernelState, Untouched
<1> QED BY <1>2, <1>3, <1>4, <1>5 DEF v

PutSession(x, s, v) == [x EXCEPT !.ses[s] = v]

LEMMA SessionTwice ==
    ASSUME NEW x \in KernelState, NEW s \in Sessions, NEW v, NEW w
    PROVE  /\ PutSession(x, s, v).ses[s] = v
           /\ PutSession(PutSession(x, s, v), s, w) = PutSession(x, s, w)
<1>1. x.ses \in [Sessions -> SessionRec]
  BY SessionFields
<1> DEFINE f == [x.ses EXCEPT ![s] = v]
           g == [x.ses EXCEPT ![s] = w]
<1>2. f[s] = v /\ [f EXCEPT ![s] = w] = g
  BY <1>1
<1>3. [x EXCEPT !.ses[s] = v] = [x EXCEPT !.ses = f]
  OBVIOUS
<1>4. [x EXCEPT !.ses[s] = w] = [x EXCEPT !.ses = g]
  OBVIOUS
<1> HIDE DEF f, g
<1>5. [x EXCEPT !.ses = f].ses = f
  BY DEF KernelState
<1>6. [[x EXCEPT !.ses = f] EXCEPT !.ses = g] = [x EXCEPT !.ses = g]
  BY DEF KernelState
<1>7. [[x EXCEPT !.ses = f] EXCEPT !.ses[s] = w] = [[x EXCEPT !.ses = f] EXCEPT !.ses = [f EXCEPT ![s] = w]]
  BY <1>5
<1> QED BY <1>2, <1>3, <1>4, <1>5, <1>6, <1>7 DEF PutSession

\* With th, wl and mx the same, it is enough to look at the sessions.
LEMMA SoundSessions ==
    ASSUME NEW x, NEW d, Sound(x, d), NEW y \in KernelState,
           y.th = x.th, y.wl = x.wl, y.mx = x.mx, SessionsOK(y)
    PROVE  Sound(y, d) /\ SameWaits(x, y)
<1>1. SameWaits(x, y)
  BY DEF SameWaits
<1>2. ListsOK(y, NoThread, {}) /\ ThreadsOK(y, d)
  BY <1>1, WaitsSame DEF Sound
<1>3. MutexOK(y, d)
  BY DEF Sound, MutexOK, Alive
<1>4. PrioOK(y, {d})
  <2>1. \A u \in Threads : Inherited(y, u) = Inherited(x, u)
    BY DEF Inherited
  <2> QED BY <2>1 DEF Sound, PrioOK, Alive
<1> QED BY <1>1, <1>2, <1>3, <1>4 DEF Sound

LEMMA AcquireSessionKeeps ==
    ASSUME NEW x, NEW d, Sound(x, d), NEW s \in Sessions, NEW t, ~SessionShouldWait(x, s)
    PROVE  Acquired(x, AcquireSession(x, s), t, d)
<1>1. x \in KernelState /\ SessionsOK(x)
  BY DEF Sound
<1>2. CASE ~x.ses[s].client
  <2>1. AcquireSession(x, s) = x
    BY <1>2 DEF AcquireSession
  <2>2. Untouched(x, x)
    BY DEF Untouched
  <2> QED BY <1>1, <2>1, <2>2, AcquiredItself
<1>3. CASE x.ses[s].client
  <2> DEFINE q == x.ses[s].pending
             r1 == [x.ses[s] EXCEPT !.handling = Last(q)]
             r == [r1 EXCEPT !.pending = Front(q)]
             y == [x EXCEPT !.ses[s] = r]
  <2>1. q # <<>> /\ x.ses[s].handling = NoThread
    BY <1>3 DEF SessionShouldWait
  <2>2. x.ses[s] \in SessionRec /\ q \in Seq(Threads) /\ IsInjective(q)
    BY <1>1, SessionFields DEF SessionsOK
  <2>3. /\ Front(q) \in Seq(Threads) /\ Last(q) \in Threads /\ ToSet(q) = ToSet(Front(q)) \cup {Last(q)}
        /\ IsInjective(Front(q)) /\ Last(q) \notin ToSet(Front(q))
    <3> HIDE DEF q
    <3> QED BY <2>1, <2>2, FrontLast
  <2>4. AcquireSession(x, s) = y
    <3>1. AcquireSession(x, s) = [x EXCEPT !.ses[s].handling = Last(q), !.ses[s].pending = Front(@)]
      BY <1>3 DEF AcquireSession
    <3>2. r1.pending = q
      BY <2>2 DEF SessionRec
    <3> DEFINE x1 == [x EXCEPT !.ses[s] = r1]
    <3> HIDE DEF q, r1, r
    <3>3. x1.ses[s] = r1 /\ [x1 EXCEPT !.ses[s] = r] = y
      <4>1. x1 = PutSession(x, s, r1) /\ y = PutSession(x, s, r)
        BY DEF PutSession
      <4> HIDE DEF x1, y
      <4>2. x1.ses[s] = r1 /\ PutSession(x1, s, r) = y
        BY <1>1, <4>1, SessionTwice
      <4> QED BY <4>2 DEF PutSession
    <3>4. AcquireSession(x, s) = [x1 EXCEPT !.ses[s].pending = Front(q)]
      BY <3>1 DEF r1, q
    <3> HIDE DEF x1, y
    <3> QED BY <3>3, <3>4 DEF r
  <2>5. r1 \in SessionRec
    BY <2>2, <2>3, Session_handling DEF MaybeThread
  <2>6. r \in SessionRec
    <3> HIDE DEF r1
    <3> QED BY <2>3, <2>5, Session_pending
  <2>7. /\ r.pending = Front(q) /\ r.handling = Last(q) /\ r.client = x.ses[s].client
        /\ r.server = x.ses[s].server /\ r.alive = x.ses[s].alive /\ r.port = x.ses[s].port
    <3> HIDE DEF q
    <3> QED BY <2>2 DEF SessionRec
  <2> HIDE DEF r
  <2>8. /\ y \in KernelState /\ y.ses = [x.ses EXCEPT ![s] = r] /\ y.th = x.th /\ y.wl = x.wl
        /\ y.mx = x.mx /\ y.rq = x.rq /\ Untouched(x, y)
    BY <1>1, <2>6, SessionPut
  <2> HIDE DEF y
  <2>9. y.ses[s] = r /\ \A o \in Sessions \ {s} : y.ses[o] = x.ses[o]
    BY <1>1, <2>8, SessionFields
  <2>10. \A o \in Sessions : Requesting(y, o) = Requesting(x, o)
    <3> SUFFICES ASSUME NEW o \in Sessions PROVE Requesting(y, o) = Requesting(x, o)
      OBVIOUS
    <3>1. CASE o = s
      BY <2>1, <2>3, <2>7, <2>9, <3>1 DEF Requesting
    <3>2. CASE o # s
      BY <2>9, <3>2 DEF Requesting
    <3> QED BY <3>1, <3>2
  <2>11. \A o \in Sessions : y.ses[o].client = x.ses[o].client /\ y.ses[o].alive = x.ses[o].alive
                             /\ y.ses[o].server = x.ses[o].server /\ y.ses[o].port = x.ses[o].port
    BY <2>7, <2>9
  <2>12. SessionsOK(y)
    <3>1. \A o \in Sessions : IsInjective(y.ses[o].pending) /\ y.ses[o].handling \notin ToSet(y.ses[o].pending)
      BY <1>1, <2>3, <2>7, <2>9 DEF SessionsOK
    <3> QED BY <1>1, <2>8, <2>10, <2>11, <3>1 DEF SessionsOK
  <2>13. Sound(y, d) /\ SameWaits(x, y)
    BY <2>8, <2>12, SoundSessions
  <2>14. Moved(x, y, t)
    <3>1. ThreadsMoved(x, y, t)
      BY <2>8 DEF ThreadsMoved
    <3>2. ObjectsMoved(x, y, t)
      BY <2>8, <2>11 DEF ObjectsMoved
    <3>3. Queued(x, y)
      BY <2>8, QueuesSame
    <3> QED BY <2>8, <3>1, <3>2, <3>3 DEF Moved
  <2> QED BY <2>4, <2>8, <2>13, <2>14 DEF Acquired
<1> QED BY <1>2, <1>3


LEMMA AcquiredTransitive ==
    ASSUME NEW x, NEW y, NEW z, NEW t, NEW d, Acquired(x, y, t, d), Acquired(y, z, t, d)
    PROVE  Acquired(x, z, t, d)
<1>1. SameWaits(x, z)
  BY DEF Acquired, SameWaits
<1>2. Moved(x, z, t)
  BY MovedTransitive DEF Acquired
<1> QED BY <1>1, <1>2 DEF Acquired

LEMMA Classes ==
    /\ Threads \cap Mutexes = {} /\ Threads \cap Semaphores = {} /\ Threads \cap Events = {}
    /\ Threads \cap Timers = {} /\ Threads \cap Sessions = {} /\ Threads \cap Ports = {}
    /\ Mutexes \cap Semaphores = {} /\ Mutexes \cap Events = {} /\ Mutexes \cap Timers = {}
    /\ Mutexes \cap Sessions = {} /\ Mutexes \cap Ports = {}
    /\ Semaphores \cap Events = {} /\ Semaphores \cap Timers = {} /\ Semaphores \cap Sessions = {}
    /\ Semaphores \cap Ports = {}
    /\ Events \cap Sessions = {} /\ Events \cap Ports = {}
    /\ Timers \cap Sessions = {} /\ Timers \cap Ports = {}
    /\ Sessions \cap Ports = {}
<1> DEFINE class == <<Threads, Mutexes, Semaphores, Events, Timers, Sessions, Ports>>
<1>1. \A i, j \in 1 .. 7 : i # j => class[i] \cap class[j] = {}
  BY ClassesAssumption
<1>2. /\ class[1] = Threads /\ class[2] = Mutexes /\ class[3] = Semaphores /\ class[4] = Events
      /\ class[5] = Timers /\ class[6] = Sessions /\ class[7] = Ports
  OBVIOUS
<1> HIDE DEF class
<1>3. \A i, j \in {1, 2, 3, 4, 5, 6, 7} : i # j => class[i] \cap class[j] = {}
  BY <1>1
<1> QED BY <1>2, <1>3

LEMMA AcquireKeeps ==
    ASSUME NEW x, NEW d, Sound(x, d), NEW o \in WaitObject, NEW t \in Threads,
           (t # d /\ Alive(x, t)) \/ o \in Threads
    PROVE  Acquired(x, Acquire(x, o, t), t, d)
<1>1. x \in KernelState /\ Untouched(x, x)
  BY DEF Sound, Untouched
<1>2. CASE o \in Semaphores \/ ~ShouldWait(x, o, t)
  <2>1. Acquire(x, o, t) = AcquireObject(x, o, t)
    BY <1>2 DEF Acquire
  <2>2. CASE o \in Mutexes
    <3>1. ~MutexShouldWait(x, o, t) /\ t # d /\ Alive(x, t)
      BY <1>2, <2>2, Classes DEF ShouldWait
    <3>2. AcquireObject(x, o, t) = AcquireMutex(x, o, t)
      BY <2>2, Classes DEF AcquireObject
    <3> QED BY <2>1, <2>2, <3>1, <3>2, AcquireMutexKeeps
  <2>3. CASE o \in Semaphores
    <3>1. AcquireObject(x, o, t) = AcquireSemaphore(x, o)
      BY <2>3, Classes DEF AcquireObject
    <3> QED BY <2>1, <2>3, <3>1, AcquireSemaphoreKeeps
  <2>4. CASE o \in Events \cup Timers
    <3>1. AcquireObject(x, o, t) = AcquireSignal(x, o)
      BY <2>4, Classes DEF AcquireObject
    <3> QED BY <2>1, <2>4, <3>1, AcquireSignalKeeps
  <2>5. CASE o \in Sessions
    <3>1. ~SessionShouldWait(x, o)
      BY <1>2, <2>5, Classes DEF ShouldWait
    <3>2. AcquireObject(x, o, t) = AcquireSession(x, o)
      BY <2>5, Classes DEF AcquireObject
    <3> QED BY <2>1, <2>5, <3>1, <3>2, AcquireSessionKeeps
  <2>6. CASE o \notin UNION {Mutexes, Semaphores, Events \cup Timers, Sessions}
    <3>1. AcquireObject(x, o, t) = x
      BY <2>6 DEF AcquireObject
    <3> QED BY <1>1, <2>1, <3>1, AcquiredItself
  <2> QED BY <2>2, <2>3, <2>4, <2>5, <2>6
<1>3. CASE ~(o \in Semaphores \/ ~ShouldWait(x, o, t))
  <2> DEFINE y == Assert_(x, FALSE, "ObjectUnavailable")
  <2>1. Acquire(x, o, t) = y
    BY <1>3 DEF Acquire
  <2>2. y = Failed(x, "ObjectUnavailable")
    BY DEF Assert_, Failed
  <2> HIDE DEF y
  <2>3. Asserted(x, y)
    <3>1. "ObjectUnavailable" \in Assertions
      BY DEF Assertions
    <3> QED BY <1>1, <2>2, <3>1, AssertFrame
  <2> QED BY <2>1, <2>3, AcquiredItself DEF Asserted
<1> QED BY <1>2, <1>3

AcquireStep(p, i, x) == Acquire(x, p[1][i], p[2])
AcquireHolds(p, i, x) == Acquired(p[3], x, p[2], p[4])

Acquiring == INSTANCE Loop WITH Step <- AcquireStep, Holds <- AcquireHolds

LEMMA AcquireAllKeeps ==
    ASSUME NEW x, NEW d, Sound(x, d), NEW objs \in Seq(WaitObject), NEW t \in Threads,
           (t # d /\ Alive(x, t)) \/ ToSet(objs) \subseteq Threads
    PROVE  Acquired(x, AcquireAll(x, objs, t), t, d)
<1> DEFINE p == <<objs, t, x, d>>
           n == Len(objs)
           f == Acquiring!Run(p, x, n)
<1>1. AcquireAll(x, objs, t) = f[n]
  BY DEF AcquireAll, ForEach, Acquiring!Run, AcquireStep
<1>2. n \in Nat /\ \A i \in 1 .. n : objs[i] \in WaitObject /\ objs[i] \in ToSet(objs)
  BY DEF ToSet
<1>3. p[1] = objs /\ p[2] = t /\ p[3] = x /\ p[4] = d
  OBVIOUS
<1> HIDE DEF p, f, n
<1>4. AcquireHolds(p, 0, x)
  BY <1>3, AcquiredItself DEF AcquireHolds, Sound, Untouched
<1>5. ASSUME NEW i \in 1 .. n, NEW y, AcquireHolds(p, i - 1, y)
      PROVE  AcquireHolds(p, i, AcquireStep(p, i, y))
  <2>1. Acquired(x, y, t, d)
    BY <1>3, <1>5 DEF AcquireHolds
  <2>2. Sound(y, d) /\ (Alive(x, t) => Alive(y, t))
    BY <2>1 DEF Acquired, SameWaits, Alive
  <2>3. Acquired(y, Acquire(y, objs[i], t), t, d)
    BY <1>2, <2>2, AcquireKeeps
  <2> QED BY <1>3, <2>1, <2>3, AcquiredTransitive DEF AcquireHolds, AcquireStep
<1>6. \A i \in 0 .. n : AcquireHolds(p, i, f[i])
  <2>1. \A i \in 1 .. n : \A y : AcquireHolds(p, i - 1, y) => AcquireHolds(p, i, AcquireStep(p, i, y))
    BY <1>5
  <2> QED BY <1>2, <1>4, <2>1, Acquiring!LoopInvariant DEF f
<1> QED BY <1>1, <1>2, <1>3, <1>6 DEF AcquireHolds


-----------------------------------------------------------------------------
(* The waiting lists.                                                      *)

\* Sound, with t in the lists of the objects R.
SoundBut(x, t, R, d) ==
    /\ x \in KernelState
    /\ ListsOK(x, t, R)
    /\ MutexOK(x, d) /\ PrioOK(x, {d}) /\ ThreadsOK(x, d)
    /\ SessionsOK(x)

\* All that may differ are waiting lists and pending_mutexes, and priorities.
Listed(x, y) ==
    /\ Untouched(x, y) /\ Queued(x, y) /\ y.ses = x.ses
    /\ \A m \in Mutexes : y.mx[m].holder = x.mx[m].holder
    /\ \A u \in Threads :
        /\ y.th[u].status = x.th[u].status /\ y.th[u].cb = x.th[u].cb /\ y.th[u].req = x.th[u].req
        /\ y.th[u].waitObjs = x.th[u].waitObjs /\ y.th[u].held = x.th[u].held

LEMMA ListedItself ==
    ASSUME NEW x
    PROVE  Listed(x, x)
  BY DEF Listed, Untouched, Queued

LEMMA ListedTransitive ==
    ASSUME NEW x, NEW y, NEW z, Listed(x, y), Listed(y, z)
    PROVE  Listed(x, z)
  BY UntouchedTransitive, QueuedTransitive DEF Listed

LEMMA ListedMoved ==
    ASSUME NEW x, NEW y, Listed(x, y), NEW a,
           \A o \in WaitObject : ToSet(y.wl[o]) \subseteq ToSet(x.wl[o])
    PROVE  Moved(x, y, a)
  BY DEF Listed, Moved, ThreadsMoved, ObjectsMoved

LEMMA SoundButWaiting ==
    ASSUME NEW x, NEW d, NEW t \in Threads
    PROVE  Sound(x, d) <=> SoundBut(x, t, ToSet(x.th[t].waitObjs), d)
<1>1. \A u \in Threads : WaitsFor(x, NoThread, {}, u) = WaitsFor(x, t, ToSet(x.th[t].waitObjs), u)
  BY NotNoThread DEF WaitsFor
<1>2. ListsOK(x, NoThread, {}) <=> ListsOK(x, t, ToSet(x.th[t].waitObjs))
  BY <1>1 DEF ListsOK
<1> QED BY <1>2 DEF Sound, SoundBut

\* The list of o becomes L, in which t is iff o is in R2.
NewList(x, o, t, R, L, R2) ==
    /\ L \in Seq(Threads) /\ IsInjective(L)
    /\ \A u \in Threads \ {t} : u \in ToSet(L) <=> u \in ToSet(x.wl[o])
    /\ t \in ToSet(L) <=> o \in R2
    /\ R2 \ {o} = R \ {o}

PutList(x, o, L) == [x EXCEPT !.wl[o] = L]

LEMMA PutListFrame ==
    ASSUME NEW x \in KernelState, NEW o \in WaitObject, NEW L \in Seq(Threads)
    PROVE  /\ PutList(x, o, L) \in KernelState
           /\ PutList(x, o, L).wl = [x.wl EXCEPT ![o] = L]
           /\ PutList(x, o, L).th = x.th /\ PutList(x, o, L).mx = x.mx
           /\ PutList(x, o, L).ses = x.ses /\ PutList(x, o, L).rq = x.rq
           /\ Untouched(x, PutList(x, o, L))
<1> DEFINE v == [x.wl EXCEPT ![o] = L]
<1>1. v \in WlMap
  BY KernelFields DEF WlMap
<1>2. PutList(x, o, L) = [x EXCEPT !.wl = v]
  BY DEF PutList
<1> HIDE DEF v
<1>3. [x EXCEPT !.wl = v] \in KernelState
  BY <1>1, Put_wl
<1>4. /\ [x EXCEPT !.wl = v].wl = v
      /\ [x EXCEPT !.wl = v].th = x.th
      /\ [x EXCEPT !.wl = v].mx = x.mx
      /\ [x EXCEPT !.wl = v].ses = x.ses
      /\ [x EXCEPT !.wl = v].rq = x.rq
  BY DEF KernelState
<1>5. Untouched(x, [x EXCEPT !.wl = v])
  BY DEF KernelState, Untouched
<1> QED BY <1>2, <1>3, <1>4, <1>5 DEF v

LEMMA WlType ==
    ASSUME NEW x \in KernelState
    PROVE  /\ x.wl \in [WaitObject -> Seq(Threads)]
           /\ \A o \in WaitObject : x.wl[o] \in Seq(Threads) /\ ToSet(x.wl[o]) \subseteq Threads
<1>1. x.wl \in [WaitObject -> Seq(Threads)]
  BY KernelFields DEF WlMap
<1>2. \A o \in WaitObject : x.wl[o] \in Seq(Threads)
  BY <1>1
<1> QED BY <1>1, <1>2, ToSetType

\* The lists agree again, if pending_mutexes does.
LEMMA NewListOK ==
    ASSUME NEW x, NEW o \in WaitObject, NEW t \in Threads, NEW R, NEW L, NEW R2,
           ListsOK(x, t, R), x \in KernelState, NewList(x, o, t, R, L, R2), NEW y,
           y.wl = [x.wl EXCEPT ![o] = L],
           \A u \in Threads : y.th[u].waitObjs = x.th[u].waitObjs,
           \A u \in Threads \ {t} : y.th[u].pending = x.th[u].pending,
           y.th[t].pending = R2 \cap Mutexes
    PROVE  ListsOK(y, t, R2)
<1>1. y.wl[o] = L /\ \A v \in WaitObject \ {o} : y.wl[v] = x.wl[v]
  BY WlType
<1>2. \A v \in WaitObject : IsInjective(y.wl[v])
  BY <1>1 DEF ListsOK, NewList
<1>3. ASSUME NEW u \in Threads, NEW v \in WaitObject
      PROVE  u \in ToSet(y.wl[v]) <=> v \in WaitsFor(y, t, R2, u)
  <2>1. u \in ToSet(x.wl[v]) <=> v \in WaitsFor(x, t, R, u)
    BY DEF ListsOK
  <2>2. CASE u = t
    <3>1. CASE v = o
      BY <1>1, <2>2, <3>1 DEF NewList, WaitsFor
    <3>2. CASE v # o
      <4>1. v \in R2 <=> v \in R
        BY <3>2 DEF NewList
      <4> QED BY <1>1, <2>1, <2>2, <3>2, <4>1 DEF WaitsFor
    <3> QED BY <3>1, <3>2
  <2>3. CASE u # t
    <3>1. WaitsFor(y, t, R2, u) = WaitsFor(x, t, R, u)
      BY <2>3 DEF WaitsFor
    <3>2. CASE v = o
      BY <1>1, <2>1, <2>3, <3>1, <3>2 DEF NewList
    <3>3. CASE v # o
      BY <1>1, <2>1, <3>1, <3>3
    <3> QED BY <3>2, <3>3
  <2> QED BY <2>2, <2>3
<1>4. \A u \in Threads : y.th[u].pending = WaitsFor(y, t, R2, u) \cap Mutexes
  BY DEF ListsOK, WaitsFor
<1> QED BY <1>2, <1>3, <1>4 DEF ListsOK


\* An object that is not a mutex.
LEMMA PlainListKeeps ==
    ASSUME NEW x, NEW o \in WaitObject, NEW t \in Threads, NEW R, NEW d, SoundBut(x, t, R, d),
           NEW L, NEW R2, NewList(x, o, t, R, L, R2), o \notin Mutexes
    PROVE  /\ SoundBut(PutList(x, o, L), t, R2, d) /\ Listed(x, PutList(x, o, L))
           /\ PutList(x, o, L).wl = [x.wl EXCEPT ![o] = L]
<1> DEFINE y == PutList(x, o, L)
<1>1. x \in KernelState /\ L \in Seq(Threads) /\ ListsOK(x, t, R)
  BY DEF SoundBut, NewList
<1>2. /\ y \in KernelState /\ y.wl = [x.wl EXCEPT ![o] = L] /\ y.th = x.th /\ y.mx = x.mx
      /\ y.ses = x.ses /\ y.rq = x.rq /\ Untouched(x, y)
  BY <1>1, PutListFrame
<1> HIDE DEF y
<1>3. R2 \cap Mutexes = R \cap Mutexes
  BY DEF NewList
<1>4. x.th[t].pending = R \cap Mutexes
  BY <1>1 DEF ListsOK, WaitsFor
<1>5. ListsOK(y, t, R2)
  BY <1>1, <1>2, <1>3, <1>4, NewListOK
<1>6. Listed(x, y)
  BY <1>2, QueuesSame DEF Listed
<1>7. MutexOK(y, d) /\ ThreadsOK(y, d)
  BY <1>2 DEF SoundBut, MutexOK, ThreadsOK, Alive, Sync
<1>8. PrioOK(y, {d})
  <2>1. \A u \in Threads : Inherited(y, u) = Inherited(x, u)
    BY <1>2 DEF Inherited
  <2> QED BY <1>2, <2>1 DEF SoundBut, PrioOK, Alive
<1>9. SessionsOK(y)
  BY <1>1, <1>2, SessionsSame DEF SoundBut
<1> QED BY <1>2, <1>5, <1>6, <1>7, <1>8, <1>9 DEF SoundBut, y

PutPending(x, t, P) == [x EXCEPT !.th[t].pending = P]

LEMMA PutPendingFrame ==
    ASSUME NEW x \in KernelState, NEW t \in Threads, NEW P \in SUBSET Mutexes
    PROVE  /\ PutPending(x, t, P) \in KernelState
           /\ PutPending(x, t, P).wl = x.wl /\ PutPending(x, t, P).mx = x.mx
           /\ PutPending(x, t, P).ses = x.ses /\ PutPending(x, t, P).rq = x.rq
           /\ Untouched(x, PutPending(x, t, P))
           /\ PutPending(x, t, P).th[t].pending = P
           /\ \A u \in Threads \ {t} : PutPending(x, t, P).th[u] = x.th[u]
           /\ \A u \in Threads :
                LET y == PutPending(x, t, P)
                IN /\ y.th[u].status = x.th[u].status /\ y.th[u].cb = x.th[u].cb
                   /\ y.th[u].req = x.th[u].req
                   /\ y.th[u].waitObjs = x.th[u].waitObjs /\ y.th[u].held = x.th[u].held
                   /\ y.th[u].nominal = x.th[u].nominal /\ y.th[u].current = x.th[u].current
<1> DEFINE r == [x.th[t] EXCEPT !.pending = P]
           y == PutPending(x, t, P)
<1>1. y = [x EXCEPT !.th[t] = r]
  BY DEF PutPending
<1>2. x.th[t] \in ThreadRec /\ x.th \in [Threads -> ThreadRec]
  BY ThType
<1>3. r \in ThreadRec
  BY <1>2, Thread_pending
<1>4. /\ r.pending = P /\ r.status = x.th[t].status /\ r.cb = x.th[t].cb /\ r.req = x.th[t].req
      /\ r.waitObjs = x.th[t].waitObjs /\ r.held = x.th[t].held /\ r.nominal = x.th[t].nominal
      /\ r.current = x.th[t].current
  BY <1>2 DEF ThreadRec
<1> HIDE DEF r, y
<1>5. /\ y \in KernelState /\ y.th = [x.th EXCEPT ![t] = r] /\ y.mx = x.mx /\ y.wl = x.wl
      /\ y.ses = x.ses /\ y.rq = x.rq /\ Untouched(x, y)
  BY <1>1, <1>3, ThreadPut
<1>6. y.th[t] = r /\ \A u \in Threads \ {t} : y.th[u] = x.th[u]
  BY <1>2, <1>5
<1>7. \A u \in Threads : /\ y.th[u].status = x.th[u].status /\ y.th[u].cb = x.th[u].cb
                         /\ y.th[u].req = x.th[u].req
                         /\ y.th[u].waitObjs = x.th[u].waitObjs /\ y.th[u].held = x.th[u].held
                         /\ y.th[u].nominal = x.th[u].nominal /\ y.th[u].current = x.th[u].current
  BY <1>4, <1>6
<1> QED BY <1>4, <1>5, <1>6, <1>7 DEF y

\* A mutex: its holder may have to inherit another priority.
LEMMA MutexListKeeps ==
    ASSUME NEW x, NEW o \in Mutexes, NEW t \in Threads, NEW R, NEW d, SoundBut(x, t, R, d),
           NEW L, NEW R2, NewList(x, o, t, R, L, R2), NEW P, P = R2 \cap Mutexes
    PROVE  LET y == MutexUpdatePriority(PutPending(PutList(x, o, L), t, P), o)
           IN /\ SoundBut(y, t, R2, d) /\ Listed(x, y)
              /\ y.wl = [x.wl EXCEPT ![o] = L]
<1> DEFINE a == PutList(x, o, L)
           b == PutPending(a, t, P)
           y == MutexUpdatePriority(b, o)
<1>1. x \in KernelState /\ L \in Seq(Threads) /\ ListsOK(x, t, R) /\ o \in WaitObject
  BY NotNoThread DEF SoundBut, NewList
<1>2. /\ a \in KernelState /\ a.wl = [x.wl EXCEPT ![o] = L] /\ a.th = x.th /\ a.mx = x.mx
      /\ a.ses = x.ses /\ a.rq = x.rq /\ Untouched(x, a)
  BY <1>1, PutListFrame
<1> HIDE DEF a
<1>3. P \in SUBSET Mutexes
  OBVIOUS
<1>4. /\ b \in KernelState /\ b.wl = a.wl /\ b.mx = a.mx /\ b.ses = a.ses /\ b.rq = a.rq
      /\ Untouched(a, b)
      /\ b.th[t].pending = P
      /\ \A u \in Threads \ {t} : b.th[u] = a.th[u]
  BY <1>2, <1>3, PutPendingFrame
<1>5. \A u \in Threads : /\ b.th[u].status = a.th[u].status /\ b.th[u].cb = a.th[u].cb
                         /\ b.th[u].req = a.th[u].req
                         /\ b.th[u].waitObjs = a.th[u].waitObjs /\ b.th[u].held = a.th[u].held
                         /\ b.th[u].nominal = a.th[u].nominal /\ b.th[u].current = a.th[u].current
  BY <1>2, <1>3, PutPendingFrame
<1> HIDE DEF b
<1>6. ListsOK(b, t, R2)
  BY <1>1, <1>2, <1>4, <1>5, NewListOK
<1>7. Listed(x, b)
  <2>1. Queued(x, b)
    BY <1>2, <1>4, <1>5, QueuesSame
  <2> QED BY <1>2, <1>4, <1>5, <2>1, UntouchedTransitive DEF Listed
<1>8. MutexOK(b, d) /\ ThreadsOK(b, d)
  <2>1. MutexOK(b, d)
    BY <1>2, <1>4, <1>5 DEF SoundBut, MutexOK, Alive
  <2>2. ThreadsOK(b, d)
    BY <1>2, <1>5 DEF SoundBut, ThreadsOK, Sync
  <2> QED BY <2>1, <2>2
<1>9. PrioOK(b, {d})
  <2>1. \A u \in Threads : \A m \in x.th[u].held : b.mx[m].prio = x.mx[m].prio
    BY <1>2, <1>4
  <2>2. \A u \in Threads : b.th[u].nominal = x.th[u].nominal /\ b.th[u].held = x.th[u].held
    BY <1>2, <1>5
  <2>3. \A u \in Threads : Inherited(b, u) = Inherited(x, u)
    BY ONLY <2>1, <2>2, InheritedSame
  <2> QED BY <1>2, <1>5, <2>3 DEF SoundBut, PrioOK, Alive
<1>10. SessionsOK(b)
  BY <1>1, <1>2, <1>4, <1>5, SessionsSame DEF SoundBut
<1>11. OnlyPriorities(b, y) /\ PrioOK(y, {d})
  BY <1>4, <1>8, <1>9, MutexUpdateKeeps
<1> HIDE DEF y
<1>12. ListsOK(y, t, R2) /\ MutexOK(y, d) /\ ThreadsOK(y, d) /\ SessionsOK(y)
  BY <1>4, <1>6, <1>8, <1>10, <1>11, PrioritiesKeep
<1>13. y \in KernelState /\ Untouched(b, y) /\ Queued(b, y) /\ y.wl = b.wl /\ y.ses = b.ses
       /\ \A m \in Mutexes : y.mx[m].holder = b.mx[m].holder
  BY <1>11 DEF OnlyPriorities
<1>14. SameThreads(b, y)
  BY <1>4, <1>11, PrioritiesSame
<1>15. Listed(b, y)
  BY <1>13, <1>14 DEF Listed, SameThreads
<1>16. Listed(x, y)
  BY <1>7, <1>15, ListedTransitive
<1>17. y.wl = [x.wl EXCEPT ![o] = L]
  BY <1>2, <1>4, <1>13
<1> QED BY <1>11, <1>12, <1>13, <1>16, <1>17 DEF SoundBut, y, b, a


LEMMA RemoveWaitingKeeps ==
    ASSUME NEW x, NEW o \in WaitObject, NEW t \in Threads, NEW R, NEW d, SoundBut(x, t, R, d)
    PROVE  /\ SoundBut(RemoveWaitingThread(x, o, t), t, R \ {o}, d)
           /\ Listed(x, RemoveWaitingThread(x, o, t))
           /\ \A v \in WaitObject : ToSet(RemoveWaitingThread(x, o, t).wl[v]) \subseteq ToSet(x.wl[v])
<1> DEFINE L == RemoveFirst(x.wl[o], t)
           R2 == R \ {o}
           y == RemoveWaitingThread(x, o, t)
<1>1. x \in KernelState /\ ListsOK(x, t, R)
  BY DEF SoundBut
<1>2. x.wl[o] \in Seq(Threads) /\ IsInjective(x.wl[o])
  BY <1>1, WlType DEF ListsOK
<1>3. L \in Seq(Threads) /\ IsInjective(L) /\ ToSet(L) = ToSet(x.wl[o]) \ {t}
  BY <1>2, RemoveFirstSet
<1>4. NewList(x, o, t, R, L, R2)
  BY <1>3 DEF NewList
<1>5. SoundBut(y, t, R2, d) /\ Listed(x, y) /\ y.wl = [x.wl EXCEPT ![o] = L]
  <2>1. CASE o \notin Mutexes
    <3>1. y = PutList(x, o, L)
      BY <2>1 DEF RemoveWaitingThread, PutList
    <3> HIDE DEF y, L, R2
    <3> QED BY <1>4, <2>1, <3>1, PlainListKeeps
  <2>2. CASE o \in Mutexes
    <3> DEFINE kk == PutList(x, o, L)
               P == kk.th[t].pending \ {o}
    <3>1. y = MutexUpdatePriority(PutPending(kk, t, P), o)
      BY <2>2 DEF RemoveWaitingThread, PutList, PutPending
    <3>2. kk.th = x.th
      BY <1>1, <1>3, PutListFrame
    <3>3. x.th[t].pending = R \cap Mutexes
      BY <1>1 DEF ListsOK, WaitsFor
    <3> HIDE DEF kk, L
    <3>4. P = R2 \cap Mutexes
      BY <3>2, <3>3
    <3> HIDE DEF y, R2, P
    <3> QED BY <1>4, <2>2, <3>1, <3>4, MutexListKeeps DEF kk
  <2> QED BY <2>1, <2>2
<1> HIDE DEF y, L
<1>6. \A v \in WaitObject : ToSet(y.wl[v]) \subseteq ToSet(x.wl[v])
  BY <1>1, <1>3, <1>5, WlType
<1> QED BY <1>5, <1>6 DEF y

LEMMA AddWaitingKeeps ==
    ASSUME NEW x, NEW o \in WaitObject, NEW t \in Threads, NEW R, NEW d, SoundBut(x, t, R, d)
    PROVE  /\ SoundBut(AddWaitingThread(x, o, t), t, R \cup {o}, d)
           /\ Listed(x, AddWaitingThread(x, o, t))
<1> DEFINE L == IF t \in ToSet(x.wl[o]) THEN x.wl[o] ELSE Append(x.wl[o], t)
           R2 == R \cup {o}
           kk == PutList(x, o, L)
           y == AddWaitingThread(x, o, t)
<1>1. x \in KernelState /\ ListsOK(x, t, R)
  BY DEF SoundBut
<1>2. x.wl[o] \in Seq(Threads) /\ IsInjective(x.wl[o])
  BY <1>1, WlType DEF ListsOK
<1>3. L \in Seq(Threads) /\ IsInjective(L) /\ ToSet(L) = ToSet(x.wl[o]) \cup {t}
  <2>1. CASE t \in ToSet(x.wl[o])
    BY <1>2, <2>1
  <2>2. CASE t \notin ToSet(x.wl[o])
    BY <1>2, <2>2, ToSetAppend, AppendNew
  <2> QED BY <2>1, <2>2
<1>4. NewList(x, o, t, R, L, R2)
  BY <1>3 DEF NewList
<1>5. kk = IF t \in ToSet(x.wl[o]) THEN x ELSE [x EXCEPT !.wl[o] = Append(@, t)]
  <2>1. CASE t \in ToSet(x.wl[o])
    <3>1. [x.wl EXCEPT ![o] = x.wl[o]] = x.wl
      BY <1>1, WlType
    <3>2. [x EXCEPT !.wl = x.wl] = x
      BY <1>1 DEF KernelState
    <3> QED BY <2>1, <3>1, <3>2 DEF PutList
  <2>2. CASE t \notin ToSet(x.wl[o])
    BY <2>2 DEF PutList
  <2> QED BY <2>1, <2>2
<1>6. SoundBut(y, t, R2, d) /\ Listed(x, y)
  <2>1. CASE o \notin Mutexes
    <3>1. y = kk
      <4> HIDE DEF kk
      <4> QED BY <1>5, <2>1 DEF AddWaitingThread
    <3> HIDE DEF y, L, R2
    <3> QED BY <1>4, <2>1, <3>1, PlainListKeeps
  <2>2. CASE o \in Mutexes
    <3> DEFINE P == kk.th[t].pending \cup {o}
    <3>2. kk.th = x.th
      BY <1>1, <1>3, PutListFrame
    <3>3. x.th[t].pending = R \cap Mutexes
      BY <1>1 DEF ListsOK, WaitsFor
    <3> HIDE DEF kk, L
    <3>1. y = MutexUpdatePriority(PutPending(kk, t, P), o)
      BY <1>5, <2>2 DEF AddWaitingThread, PutPending
    <3>4. P = R2 \cap Mutexes
      BY <2>2, <3>2, <3>3
    <3> HIDE DEF y, R2, P
    <3> QED BY <1>4, <2>2, <3>1, <3>4, MutexListKeeps DEF kk
  <2> QED BY <2>1, <2>2
<1> QED BY <1>6


\* The objects of the list objs from position i + 1 on.
Remaining(objs, i) == {o \in ToSet(objs) : ~\E j \in 1 .. i : objs[j] = o}

LeaveStep(p, i, x) == RemoveWaitingThread(x, p[1][i], p[2])
LeaveHolds(p, i, x) ==
    /\ SoundBut(x, p[2], Remaining(p[1], i), p[4]) /\ Listed(p[3], x)
    /\ \A v \in WaitObject : ToSet(x.wl[v]) \subseteq ToSet(p[3].wl[v])

Leaving == INSTANCE Loop WITH Step <- LeaveStep, Holds <- LeaveHolds

\* What leaving all objects does to a thread.
Left(x, y, t) ==
    /\ y.th[t].waitObjs = <<>>
    /\ \A u \in Threads \ {t} : y.th[u].waitObjs = x.th[u].waitObjs
    /\ \A u \in Threads : /\ y.th[u].status = x.th[u].status /\ y.th[u].cb = x.th[u].cb
                          /\ y.th[u].req = x.th[u].req /\ y.th[u].held = x.th[u].held
    /\ \A m \in Mutexes : y.mx[m].holder = x.mx[m].holder
    /\ y.ses = x.ses

LEMMA LeaveKeeps ==
    ASSUME NEW x, NEW d, Sound(x, d), NEW t \in Threads
    PROVE  /\ Sound(LeaveWaitObjects(x, t), d) /\ Left(x, LeaveWaitObjects(x, t), t)
           /\ \A a : Moved(x, LeaveWaitObjects(x, t), a)
<1> DEFINE objs == x.th[t].waitObjs
           p == <<objs, t, x, d>>
           n == Len(objs)
           f == Leaving!Run(p, x, n)
           kk == f[n]
           y == [kk EXCEPT !.th[t].waitObjs = <<>>]
<1>1. LeaveWaitObjects(x, t) = y
  BY DEF LeaveWaitObjects, ForEach, Leaving!Run, LeaveStep
<1>2. x \in KernelState /\ objs \in Seq(WaitObject)
  BY ThType, ThreadFields DEF Sound
<1>3. n \in Nat /\ DOMAIN objs = 1 .. n /\ \A i \in 1 .. n : objs[i] \in WaitObject
  BY <1>2
<1>4. p[1] = objs /\ p[2] = t /\ p[3] = x /\ p[4] = d
  OBVIOUS
<1>5. Remaining(objs, 0) = ToSet(objs)
  BY DEF Remaining
<1>6. Remaining(objs, n) = {}
  BY <1>3 DEF Remaining, ToSet
<1>7. \A i \in 1 .. n : Remaining(objs, i) = Remaining(objs, i - 1) \ {objs[i]}
  <2> SUFFICES ASSUME NEW i \in 1 .. n, NEW o
               PROVE  o \in Remaining(objs, i) <=> o \in Remaining(objs, i - 1) /\ o # objs[i]
    OBVIOUS
  <2>1. 1 .. i = (1 .. i - 1) \cup {i}
    BY <1>3
  <2>2. (\E j \in 1 .. i : objs[j] = o) <=> (objs[i] = o \/ \E j \in 1 .. i - 1 : objs[j] = o)
    BY <2>1
  <2> QED BY <2>2 DEF Remaining
<1>8. SoundBut(x, t, ToSet(objs), d)
  BY SoundButWaiting
<1> HIDE DEF p, f, n, objs
<1>9. LeaveHolds(p, 0, x)
  BY <1>4, <1>5, <1>8, ListedItself DEF LeaveHolds
<1>10. ASSUME NEW i \in 1 .. n, NEW z, LeaveHolds(p, i - 1, z)
       PROVE  LeaveHolds(p, i, LeaveStep(p, i, z))
  <2> DEFINE w == LeaveStep(p, i, z)
  <2>1. /\ SoundBut(z, t, Remaining(objs, i - 1), d) /\ Listed(x, z)
        /\ \A v \in WaitObject : ToSet(z.wl[v]) \subseteq ToSet(x.wl[v])
    BY <1>4, <1>10 DEF LeaveHolds
  <2>2. w = RemoveWaitingThread(z, objs[i], t)
    BY <1>4 DEF LeaveStep
  <2>3. objs[i] \in WaitObject
    BY <1>3
  <2> HIDE DEF w
  <2>4. /\ SoundBut(w, t, Remaining(objs, i - 1) \ {objs[i]}, d) /\ Listed(z, w)
        /\ \A v \in WaitObject : ToSet(w.wl[v]) \subseteq ToSet(z.wl[v])
    BY <2>1, <2>2, <2>3, RemoveWaitingKeeps
  <2>5. SoundBut(w, t, Remaining(objs, i), d)
    BY <1>7, <2>4
  <2>6. Listed(x, w)
    BY <2>1, <2>4, ListedTransitive
  <2>7. \A v \in WaitObject : ToSet(w.wl[v]) \subseteq ToSet(x.wl[v])
    BY <2>1, <2>4
  <2> QED BY <1>4, <2>5, <2>6, <2>7 DEF LeaveHolds, w
<1>11. \A i \in 0 .. n : LeaveHolds(p, i, f[i])
  <2>1. \A i \in 1 .. n : \A z : LeaveHolds(p, i - 1, z) => LeaveHolds(p, i, LeaveStep(p, i, z))
    BY <1>10
  <2> QED BY <1>3, <1>9, <2>1, Leaving!LoopInvariant DEF f
<1>12. LeaveHolds(p, n, kk)
  BY <1>3, <1>11
<1> HIDE DEF kk
<1>13. /\ SoundBut(kk, t, {}, d) /\ Listed(x, kk)
       /\ \A v \in WaitObject : ToSet(kk.wl[v]) \subseteq ToSet(x.wl[v])
  BY <1>4, <1>6, <1>12 DEF LeaveHolds
<1> DEFINE r == [kk.th[t] EXCEPT !.waitObjs = <<>>]
<1>14. y = [kk EXCEPT !.th[t] = r]
  OBVIOUS
<1>15. kk \in KernelState
  BY <1>13 DEF SoundBut
<1>16. kk.th[t] \in ThreadRec /\ kk.th \in [Threads -> ThreadRec]
  BY <1>15, ThType
<1>17. <<>> \in Seq(WaitObject)
  OBVIOUS
<1>18. r \in ThreadRec
  BY <1>16, <1>17, Thread_waitObjs
<1>19. /\ r.waitObjs = <<>> /\ r.status = kk.th[t].status /\ r.cb = kk.th[t].cb
       /\ r.req = kk.th[t].req /\ r.held = kk.th[t].held /\ r.pending = kk.th[t].pending
       /\ r.nominal = kk.th[t].nominal /\ r.current = kk.th[t].current
  BY <1>16 DEF ThreadRec
<1> HIDE DEF r, y
<1>20. /\ y \in KernelState /\ y.th = [kk.th EXCEPT ![t] = r] /\ y.mx = kk.mx /\ y.wl = kk.wl
       /\ y.ses = kk.ses /\ y.rq = kk.rq /\ Untouched(kk, y)
  BY <1>14, <1>15, <1>18, ThreadPut
<1>21. y.th[t] = r /\ \A u \in Threads \ {t} : y.th[u] = kk.th[u]
  BY <1>16, <1>20
<1>22. \A u \in Threads :
         /\ y.th[u].status = kk.th[u].status /\ y.th[u].cb = kk.th[u].cb
         /\ y.th[u].req = kk.th[u].req /\ y.th[u].held = kk.th[u].held
         /\ y.th[u].pending = kk.th[u].pending
         /\ y.th[u].nominal = kk.th[u].nominal /\ y.th[u].current = kk.th[u].current
  BY <1>19, <1>21
<1>23. ListsOK(y, NoThread, {})
  <2>1. \A u \in Threads : WaitsFor(y, NoThread, {}, u) = WaitsFor(kk, t, {}, u)
    BY <1>19, <1>21, NotNoThread, ToSetEmpty DEF WaitsFor
  <2> QED BY <1>13, <1>20, <1>22, <2>1 DEF SoundBut, ListsOK
<1>24. MutexOK(y, d)
  BY <1>13, <1>20, <1>22 DEF SoundBut, MutexOK, Alive
<1>25. PrioOK(y, {d})
  <2>1. \A u \in Threads : \A m \in kk.th[u].held : y.mx[m].prio = kk.mx[m].prio
    BY <1>20
  <2>2. \A u \in Threads : Inherited(y, u) = Inherited(kk, u)
    BY ONLY <1>22, <2>1, InheritedSame
  <2> QED BY <1>13, <1>22, <2>2 DEF SoundBut, PrioOK, Alive
<1>26. ThreadsOK(y, d)
  <2> SUFFICES ASSUME NEW u \in Threads
               PROVE  /\ y.th[u].waitObjs # <<>> => (u = d \/ Sync(y, u)) /\ y.th[u].cb # "arbiter"
                      /\ y.th[u].req # NoSession => y.th[u].status = "WaitIPC"
    BY DEF ThreadsOK
  <2>1. /\ kk.th[u].waitObjs # <<>> => (u = d \/ Sync(kk, u)) /\ kk.th[u].cb # "arbiter"
        /\ kk.th[u].req # NoSession => kk.th[u].status = "WaitIPC"
    BY <1>13 DEF SoundBut, ThreadsOK
  <2>2. Sync(kk, u) <=> Sync(y, u)
    BY <1>22 DEF Sync
  <2>3. CASE u = t
    BY <1>19, <1>21, <1>22, <2>1, <2>3
  <2>4. CASE u # t
    BY <1>21, <2>1, <2>2, <2>4
  <2> QED BY <2>3, <2>4
<1>27. SessionsOK(y)
  BY <1>13, <1>15, <1>20, <1>22, SessionsSame DEF SoundBut
<1>28. Sound(y, d)
  BY <1>20, <1>23, <1>24, <1>25, <1>26, <1>27 DEF Sound
<1>29. Left(x, y, t)
  BY <1>13, <1>19, <1>20, <1>21, <1>22 DEF Listed, Left
<1>30. Untouched(x, y) /\ Queued(x, y)
  <2>1. Queued(kk, y)
    <3>1. y.rq = kk.rq
      BY <1>20
    <3>2. \A u \in Threads : y.th[u].status = kk.th[u].status /\ y.th[u].current = kk.th[u].current
      BY <1>22
    <3> QED BY ONLY <3>1, <3>2, QueuesSame
  <2> QED BY <1>13, <1>20, <2>1, UntouchedTransitive, QueuedTransitive DEF Listed
<1>31. ASSUME NEW a PROVE Moved(x, y, a)
  <2>1. ThreadsMoved(x, y, a)
    BY <1>29 DEF Left, ThreadsMoved
  <2>2. ObjectsMoved(x, y, a)
    BY <1>13, <1>20, <1>29 DEF Left, ObjectsMoved
  <2> QED BY <1>30, <2>1, <2>2 DEF Moved
<1> QED BY <1>1, <1>28, <1>29, <1>31

AddStep(p, i, x) == AddWaitingThread(x, p[1][i], p[2])
AddHolds(p, i, x) ==
    SoundBut(x, p[2], ToSet(p[1]) \ Remaining(p[1], i), p[4]) /\ Listed(p[3], x)

Adding == INSTANCE Loop WITH Step <- AddStep, Holds <- AddHolds

LEMMA AddToAllKeeps ==
    ASSUME NEW x, NEW d, Sound(x, d), NEW t \in Threads, NEW objs \in Seq(WaitObject),
           x.th[t].waitObjs = <<>>
    PROVE  SoundBut(AddToAll(x, objs, t), t, ToSet(objs), d) /\ Listed(x, AddToAll(x, objs, t))
<1> DEFINE p == <<objs, t, x, d>>
           n == Len(objs)
           f == Adding!Run(p, x, n)
           S(i) == ToSet(objs) \ Remaining(objs, i)
<1>1. AddToAll(x, objs, t) = f[n]
  BY DEF AddToAll, ForEach, Adding!Run, AddStep
<1>2. n \in Nat /\ DOMAIN objs = 1 .. n
      /\ \A i \in 1 .. n : objs[i] \in WaitObject /\ objs[i] \in ToSet(objs)
  BY DEF ToSet
<1>3. p[1] = objs /\ p[2] = t /\ p[3] = x /\ p[4] = d
  OBVIOUS
<1>4. S(0) = {}
  BY DEF Remaining
<1>5. S(n) = ToSet(objs)
  BY <1>2 DEF Remaining, ToSet
<1>6. \A i \in 1 .. n : S(i) = S(i - 1) \cup {objs[i]}
  <2> SUFFICES ASSUME NEW i \in 1 .. n, NEW o
               PROVE  o \in S(i) <=> o \in S(i - 1) \/ o = objs[i]
    OBVIOUS
  <2>1. 1 .. i = (1 .. i - 1) \cup {i}
    BY <1>2
  <2>2. (\E j \in 1 .. i : objs[j] = o) <=> (objs[i] = o \/ \E j \in 1 .. i - 1 : objs[j] = o)
    BY <2>1
  <2> QED BY <1>2, <2>2 DEF Remaining
<1>7. SoundBut(x, t, {}, d)
  BY SoundButWaiting, ToSetEmpty
<1>8. \A z, i : AddHolds(p, i, z) <=> SoundBut(z, t, S(i), d) /\ Listed(x, z)
  BY <1>3 DEF AddHolds
<1> HIDE DEF p, f, n, S
<1>9. AddHolds(p, 0, x)
  BY <1>4, <1>7, <1>8, ListedItself
<1>10. ASSUME NEW i \in 1 .. n, NEW z, AddHolds(p, i - 1, z)
       PROVE  AddHolds(p, i, AddStep(p, i, z))
  <2> DEFINE w == AddStep(p, i, z)
  <2>1. SoundBut(z, t, S(i - 1), d) /\ Listed(x, z)
    BY <1>8, <1>10
  <2>2. w = AddWaitingThread(z, objs[i], t)
    BY <1>3 DEF AddStep
  <2>3. objs[i] \in WaitObject
    BY <1>2
  <2> HIDE DEF w
  <2>4. SoundBut(w, t, S(i - 1) \cup {objs[i]}, d) /\ Listed(z, w)
    BY <2>1, <2>2, <2>3, AddWaitingKeeps
  <2>5. SoundBut(w, t, S(i), d)
    BY <1>6, <2>4
  <2>6. Listed(x, w)
    BY <2>1, <2>4, ListedTransitive
  <2> QED BY <1>8, <2>5, <2>6 DEF w
<1>11. \A i \in 0 .. n : AddHolds(p, i, f[i])
  <2>1. \A i \in 1 .. n : \A z : AddHolds(p, i - 1, z) => AddHolds(p, i, AddStep(p, i, z))
    BY <1>10
  <2> QED BY <1>2, <1>9, <2>1, Adding!LoopInvariant DEF f
<1>12. AddHolds(p, n, f[n])
  BY <1>2, <1>11
<1> QED BY <1>1, <1>5, <1>8, <1>12


-----------------------------------------------------------------------------
(* Waking threads.                                                         *)

\* The threads differ in their registers at most.
OnlyContexts(x, y) ==
    /\ y.wl = x.wl /\ y.mx = x.mx /\ y.ses = x.ses /\ y.rq = x.rq
    /\ \A u \in Threads :
        /\ y.th[u].status = x.th[u].status /\ y.th[u].cb = x.th[u].cb
        /\ y.th[u].req = x.th[u].req /\ y.th[u].waitObjs = x.th[u].waitObjs
        /\ y.th[u].pending = x.th[u].pending /\ y.th[u].held = x.th[u].held
        /\ y.th[u].nominal = x.th[u].nominal /\ y.th[u].current = x.th[u].current

LEMMA ContextsKeep ==
    ASSUME NEW x, NEW d, Sound(x, d), NEW y \in KernelState, OnlyContexts(x, y)
    PROVE  /\ Sound(y, d) /\ SameWaits(x, y)
           /\ Untouched(x, y) => \A a : Moved(x, y, a)
<1>1. SameWaits(x, y)
  BY DEF SameWaits, OnlyContexts
<1>2. ListsOK(y, NoThread, {}) /\ ThreadsOK(y, d) /\ SessionsOK(y)
  BY <1>1, WaitsSame DEF Sound, OnlyContexts
<1>3. MutexOK(y, d)
  BY DEF Sound, MutexOK, Alive, OnlyContexts
<1>4. PrioOK(y, {d})
  <2>1. \A u \in Threads : \A m \in x.th[u].held : y.mx[m].prio = x.mx[m].prio
    BY DEF OnlyContexts
  <2>2. \A u \in Threads : y.th[u].nominal = x.th[u].nominal /\ y.th[u].held = x.th[u].held
    BY DEF OnlyContexts
  <2>3. \A u \in Threads : Inherited(y, u) = Inherited(x, u)
    BY ONLY <2>1, <2>2, InheritedSame
  <2> QED BY <2>3 DEF Sound, PrioOK, Alive, OnlyContexts
<1>5. ASSUME Untouched(x, y), NEW a PROVE Moved(x, y, a)
  <2>1. SameThreads(x, y)
    BY DEF SameThreads, OnlyContexts
  <2>2. y.wl = x.wl /\ y.ses = x.ses /\ \A m \in Mutexes : y.mx[m].holder = x.mx[m].holder
    BY DEF OnlyContexts
  <2>3. Queued(x, y)
    BY QueuesSame DEF OnlyContexts
  <2> QED BY <1>5, <2>1, <2>2, <2>3, SameMoved
<1> QED BY <1>1, <1>2, <1>3, <1>4, <1>5 DEF Sound

\* Untouched, but for the arbiter's list.
Elsewhere(x, y) ==
    /\ y.cpu = x.cpu /\ y.running = x.running /\ y.proc = x.proc /\ y.stored = x.stored
    /\ y.exited = x.exited /\ y.cur = x.cur /\ y.reg = x.reg
    /\ y.wake = x.wake /\ y.tev = x.tev /\ y.itv = x.itv /\ y.mem = x.mem
    /\ y.port = x.port
    /\ x.halt => y.halt

LEMMA ElsewhereIs ==
    ASSUME NEW x, NEW y
    PROVE  Untouched(x, y) <=> Elsewhere(x, y) /\ y.arb = x.arb
  BY DEF Untouched, Elsewhere

LEMMA IndexType ==
    ASSUME NEW x \in KernelState, NEW t \in Threads, NEW o \in ToSet(x.th[t].waitObjs)
    PROVE  GetWaitObjectIndex(x, t, o) \in Int
<1> DEFINE s == x.th[t].waitObjs
           n == Len(s)
           I == {i \in DOMAIN s : s[i] = o}
           N == {n - i : i \in I}
<1>1. s \in Seq(WaitObject)
  BY ThType, ThreadFields
<1>2. n \in Nat /\ DOMAIN s = 1 .. n
  BY <1>1
<1>3. I # {}
  BY DEF ToSet
<1>4. GetWaitObjectIndex(x, t, o) = Max(I) - 1
  BY DEF GetWaitObjectIndex
<1> HIDE DEF s, n
<1>5. I \in SUBSET Int /\ \A i \in I : n - i \in Nat
  BY <1>2
<1> HIDE DEF I
<1>6. N \in SUBSET Nat /\ N # {}
  BY <1>3, <1>5
<1>7. PICK z \in N : \A m \in N : z <= m
  BY <1>6, LeastNat
<1>8. PICK i \in I : z = n - i
  BY <1>7
<1>9. \A j \in I : i >= j
  <2> SUFFICES ASSUME NEW j \in I PROVE i >= j
    OBVIOUS
  <2>1. n - i <= n - j
    BY <1>7, <1>8
  <2>2. i \in Int /\ j \in Int
    BY <1>5
  <2> QED BY <1>2, <2>1, <2>2
<1>10. Max(I) = i
  BY <1>5, <1>9, MaxIs
<1> QED BY <1>4, <1>5, <1>10

PutResult(x, t, v) == [x EXCEPT !.th[t].ctx = v, !.th[t].owed = v]

LEMMA PutResultFrame ==
    ASSUME NEW x \in KernelState, NEW t \in Threads, NEW v \in Result
    PROVE  /\ PutResult(x, t, v) \in KernelState /\ OnlyContexts(x, PutResult(x, t, v))
           /\ Untouched(x, PutResult(x, t, v)) /\ PutResult(x, t, v).halt = x.halt
<1> DEFINE r1 == [x.th[t] EXCEPT !.ctx = v]
           a == [x EXCEPT !.th[t] = r1]
           r2 == [a.th[t] EXCEPT !.owed = v]
           y == [a EXCEPT !.th[t] = r2]
<1>1. PutResult(x, t, v) = y
  BY DEF PutResult
<1>2. x.th[t] \in ThreadRec /\ x.th \in [Threads -> ThreadRec]
  BY ThType
<1>3. r1 \in ThreadRec
  BY <1>2, Thread_ctx
<1>4. /\ r1.pending = x.th[t].pending /\ r1.status = x.th[t].status /\ r1.cb = x.th[t].cb
      /\ r1.req = x.th[t].req /\ r1.waitObjs = x.th[t].waitObjs /\ r1.held = x.th[t].held
      /\ r1.nominal = x.th[t].nominal /\ r1.current = x.th[t].current
  BY <1>2 DEF ThreadRec
<1> HIDE DEF r1
<1>5. /\ a \in KernelState /\ a.th = [x.th EXCEPT ![t] = r1] /\ a.mx = x.mx /\ a.wl = x.wl
      /\ a.ses = x.ses /\ a.rq = x.rq /\ Untouched(x, a)
  BY <1>3, ThreadPut
<1>h. a.halt = x.halt
  BY DEF KernelState
<1> HIDE DEF a
<1>6. a.th[t] = r1 /\ a.th \in [Threads -> ThreadRec]
  BY <1>2, <1>5, ThType
<1>7. r2 \in ThreadRec
  BY <1>3, <1>6, Thread_owed
<1>8. /\ r2.pending = r1.pending /\ r2.status = r1.status /\ r2.cb = r1.cb
      /\ r2.req = r1.req /\ r2.waitObjs = r1.waitObjs /\ r2.held = r1.held
      /\ r2.nominal = r1.nominal /\ r2.current = r1.current
  BY <1>3, <1>6 DEF ThreadRec
<1> HIDE DEF r2
<1>9. /\ y \in KernelState /\ y.th = [a.th EXCEPT ![t] = r2] /\ y.mx = a.mx /\ y.wl = a.wl
      /\ y.ses = a.ses /\ y.rq = a.rq /\ Untouched(a, y)
  BY <1>5, <1>7, ThreadPut
<1>i. y.halt = a.halt
  BY <1>5 DEF KernelState
<1> HIDE DEF y
<1>10. y.th[t] = r2 /\ \A u \in Threads \ {t} : y.th[u] = x.th[u]
  BY <1>2, <1>5, <1>6, <1>9
<1>11. OnlyContexts(x, y)
  BY <1>4, <1>5, <1>8, <1>9, <1>10 DEF OnlyContexts
<1> QED BY <1>1, <1>5, <1>9, <1>11, <1>h, <1>i, UntouchedTransitive

\* The callback writes a result, or takes the thread off the arbiter's list.
LEMMA WakeUpFrame ==
    ASSUME NEW x \in KernelState, NEW t \in Threads, NEW reason \in {"Signal", "Timeout"}, NEW o,
           reason = "Signal" => o \in ToSet(x.th[t].waitObjs)
    PROVE  LET y == WakeUp(x, t, reason, o)
           IN /\ y \in KernelState /\ OnlyContexts(x, y) /\ Elsewhere(x, y) /\ y.halt = x.halt
              /\ y.arb = IF x.th[t].cb = "arbiter" THEN Among(x.arb, ToSet(x.arb) \ {t}) ELSE x.arb
<1> DEFINE y == WakeUp(x, t, reason, o)
           cb == x.th[t].cb
           result == IF reason = "Timeout" THEN ResultTimeout
                     ELSE IF cb \notin {"syncOutput", "ipc"} THEN ResultSuccess(-1)
                     ELSE IF cb = "ipc" /\ IsClosed(x, o)
                     THEN ResultClosed(GetWaitObjectIndex(x, t, o))
                     ELSE ResultSuccess(GetWaitObjectIndex(x, t, o))
<1>1. \A i \in Int : ResultSuccess(i) \in Result /\ ResultClosed(i) \in Result
  BY DEF Result, ResultSuccess, ResultClosed
<1>2. ResultTimeout \in Result
  BY DEF Result
<1>3. result \in Result
  <2>1. CASE reason = "Timeout"
    BY <1>2, <2>1
  <2>2. CASE reason = "Signal"
    <3>1. GetWaitObjectIndex(x, t, o) \in Int
      BY <2>2, IndexType
    <3>2. reason # "Timeout"
      BY <2>2
    <3>3. -1 \in Int
      OBVIOUS
    <3> QED BY <1>1, <3>1, <3>2, <3>3
  <2> QED BY <2>1, <2>2
<1>4. CASE cb = "none"
  <2>1. y = x
    BY <1>4 DEF WakeUp
  <2>2. OnlyContexts(x, x) /\ Elsewhere(x, x)
    BY DEF OnlyContexts, Elsewhere
  <2> QED BY <1>4, <2>1, <2>2
<1>5. CASE cb = "arbiter"
  <2> DEFINE a == Assert_(x, reason = "Timeout", "ArbiterCallback")
             v == Among(a.arb, ToSet(a.arb) \ {t})
             z == [a EXCEPT !.arb = v]
  <2>1. y = z
    BY <1>5 DEF WakeUp
  <2>2. a = x \/ a = Failed(x, "ArbiterCallback")
    BY DEF Assert_, Failed
  <2>3. "ArbiterCallback" \in Assertions
    BY DEF Assertions
  <2> HIDE DEF a
  <2>4. Asserted(x, a)
    BY <2>2, <2>3, AssertFrame
  <2>5. a \in KernelState /\ Untouched(x, a) /\ a.arb = x.arb
    BY <2>4 DEF Asserted, Untouched
  <2>6. v \in Seq(Threads)
    BY <2>5, KernelFields, AmongSet
  <2>7. z \in KernelState
    <3> HIDE DEF v
    <3> QED BY <2>5, <2>6, Put_arb
  <2>8. z.th = a.th /\ z.wl = a.wl /\ z.mx = a.mx /\ z.ses = a.ses /\ z.arb = v /\ z.halt = a.halt
    <3> HIDE DEF v
    <3> QED BY <2>5 DEF KernelState
  <2>9. Elsewhere(a, z)
    <3> HIDE DEF v
    <3> QED BY <2>5 DEF KernelState, Elsewhere
  <2>10. Elsewhere(x, z)
    BY <2>5, <2>9 DEF Elsewhere, Untouched
  <2>11. OnlyContexts(x, z)
    BY <2>4, <2>8 DEF OnlyContexts, Asserted
  <2>12. z.halt = x.halt /\ z.arb = Among(x.arb, ToSet(x.arb) \ {t})
    BY <2>4, <2>5, <2>8 DEF Asserted
  <2> QED BY <1>5, <2>1, <2>7, <2>10, <2>11, <2>12
<1>6. CASE cb # "none" /\ cb # "arbiter"
  <2> DEFINE a == Assert_(x, cb = "ipc" => reason = "Signal", "IpcCallback")
             z == PutResult(a, t, result)
  <2>1. y = z
    BY <1>6 DEF WakeUp, PutResult
  <2>2. a = x \/ a = Failed(x, "IpcCallback")
    BY DEF Assert_, Failed
  <2>3. "IpcCallback" \in Assertions
    BY DEF Assertions
  <2> HIDE DEF a, result
  <2>4. Asserted(x, a)
    BY <2>2, <2>3, AssertFrame
  <2>5. a \in KernelState /\ Untouched(x, a)
    BY <2>4 DEF Asserted
  <2>6. z \in KernelState /\ OnlyContexts(a, z) /\ Untouched(a, z) /\ z.halt = a.halt
    BY <1>3, <2>5, PutResultFrame
  <2> HIDE DEF z
  <2>7. OnlyContexts(x, z) /\ z.halt = x.halt
    BY <2>4, <2>6 DEF OnlyContexts, Asserted
  <2>8. Elsewhere(x, z) /\ z.arb = x.arb
    BY <2>5, <2>6, UntouchedTransitive, ElsewhereIs
  <2> QED BY <1>6, <2>1, <2>6, <2>7, <2>8
<1> QED BY <1>4, <1>5, <1>6


\* ResumeFromWait finds nothing wrong.
Resumable(x, t) == x.th[t].waitObjs = <<>> /\ x.th[t].status \notin {"Ready", "Running", "Dead"}

\* What ResumeFromWait leaves alone.
Resumed(x, y, t) ==
    /\ y \in KernelState /\ Untouched(x, y)
    /\ y.wl = x.wl /\ y.mx = x.mx /\ y.ses = x.ses
    /\ \A u \in Threads \ {t} : y.th[u] = x.th[u]
    /\ y.th[t].req = x.th[t].req /\ y.th[t].waitObjs = x.th[t].waitObjs
    /\ y.th[t].pending = x.th[t].pending /\ y.th[t].held = x.th[t].held
    /\ y.th[t].nominal = x.th[t].nominal /\ y.th[t].current = x.th[t].current
    /\ Resumable(x, t) => y.th[t].status = "Ready" /\ y.th[t].cb = "none" /\ y.halt
    /\ ~Resumable(x, t) => y.th = x.th
    /\ x.th[t].status # "NotCreated" => Queued(x, y)

LEMMA AssertedResumed ==
    ASSUME NEW x, NEW y, NEW t \in Threads, Asserted(x, y), ~Resumable(x, t)
    PROVE  Resumed(x, y, t)
  BY QueuesSame DEF Asserted, Resumed

\* A thread becomes ready.
LEMMA ReadyQueue ==
    ASSUME NEW c, NEW q \in QueueList(ThreadsOf(c)), NEW t \in ThreadsOf(c), NEW th, NEW th2,
           NEW p \in Priority, Changed(th, th2, c, t, "Ready", p), QueueOK(th, c, q),
           th[t].status # "Ready", p \in Linked(q), NEW r, Pushed(q, p, t, r)
    PROVE  QueueOK(th2, c, r)
<1>1. Sorted(r) /\ Linked(r) = Linked(q)
  BY LinksSame DEF Pushed, QueueOK
<1>2. \A l \in Priority : t \notin ToSet(q.data[l])
  BY DEF QueueOK
<1>3. Distinct(r)
  BY <1>2 DEF Pushed, QueueOK
<1>4. \A l \in Priority : t \in ToSet(r.data[l]) <=> l = p
  BY <1>2 DEF Pushed
<1>5. \A l \in Priority, u \in ThreadsOf(c) \ {t} : u \in ToSet(r.data[l]) <=> u \in ToSet(q.data[l])
  BY DEF Pushed
<1> SUFFICES ASSUME NEW u \in ThreadsOf(c)
             PROVE  /\ \A l \in Priority : u \in ToSet(r.data[l]) <=>
                          th2[u].status = "Ready" /\ th2[u].current = l
                    /\ th2[u].status # "NotCreated" => th2[u].current \in Linked(r)
  BY <1>1, <1>3 DEF QueueOK
<1>6. CASE u = t
  BY <1>1, <1>4, <1>6 DEF Changed
<1>7. CASE u # t
  <2>1. th2[u].status = th[u].status /\ th2[u].current = th[u].current
    BY <1>7 DEF Changed
  <2> QED BY <1>1, <1>5, <1>7, <2>1 DEF QueueOK
<1> QED BY <1>6, <1>7

LEMMA ResumeFrame ==
    ASSUME NEW x \in KernelState, NEW t \in Threads
    PROVE  Resumed(x, ResumeFromWait(x, t), t)
<1> DEFINE y == ResumeFromWait(x, t)
           s == x.th[t].status
<1>1. CASE x.th[t].waitObjs # <<>>
  <2>1. y = Failed(x, "WakingUpWhileWaitingForObjects")
    BY <1>1 DEF ResumeFromWait, Assert_, Failed
  <2>2. "WakingUpWhileWaitingForObjects" \in Assertions
    BY DEF Assertions
  <2> HIDE DEF y
  <2>3. Asserted(x, y)
    BY <2>1, <2>2, AssertFrame
  <2> QED BY <1>1, <2>3, AssertedResumed DEF y, Resumable
<1>2. CASE x.th[t].waitObjs = <<>> /\ s = "Ready"
  <2>1. y = x \/ y = Failed(x, "ReadyThreadHasCallback")
    BY <1>2 DEF ResumeFromWait, Assert_, Failed
  <2>2. "ReadyThreadHasCallback" \in Assertions
    BY DEF Assertions
  <2> HIDE DEF y
  <2>3. Asserted(x, y)
    BY <2>1, <2>2, AssertFrame
  <2> QED BY <1>2, <2>3, AssertedResumed DEF y, Resumable
<1>3. CASE x.th[t].waitObjs = <<>> /\ s = "Running"
  <2>1. y = Failed(x, "ThreadHasAlreadyResumed")
    BY <1>3 DEF ResumeFromWait, Assert_, Failed
  <2>2. "ThreadHasAlreadyResumed" \in Assertions
    BY DEF Assertions
  <2> HIDE DEF y
  <2>3. Asserted(x, y)
    BY <2>1, <2>2, AssertFrame
  <2> QED BY <1>3, <2>3, AssertedResumed DEF y, Resumable
<1>4. CASE x.th[t].waitObjs = <<>> /\ s = "Dead"
  <2>1. y = Failed(x, "DeadThreadResumed")
    BY <1>4 DEF ResumeFromWait, Assert_, Failed
  <2>2. "DeadThreadResumed" \in Assertions
    BY DEF Assertions
  <2> HIDE DEF y
  <2>3. Asserted(x, y)
    BY <2>1, <2>2, AssertFrame
  <2> QED BY <1>4, <2>3, AssertedResumed DEF y, Resumable
<1>5. CASE Resumable(x, t)
  <2> DEFINE r1 == [x.th[t] EXCEPT !.cb = "none"]
             r2 == [r1 EXCEPT !.status = "Ready"]
             a == [x EXCEPT !.th[t] = r2]
             c == CoreOf[t]
             q == push_back(x.rq[c], x.th[t].current, t)
             v == [x.rq EXCEPT ![c] = q]
             b == [a EXCEPT !.rq = v]
             z == PrepareReschedule(b)
  <2>1. x.th \in [Threads -> ThreadRec] /\ x.th[t] \in ThreadRec /\ x.th[t].current \in Priority
    BY ThType, ThreadFields
  <2>2. y = z
    <3>1. y = PrepareReschedule([x EXCEPT !.th[t].cb = "none", !.th[t].status = "Ready",
                                          !.rq[c] = push_back(@, x.th[t].current, t)])
      BY <1>5 DEF ResumeFromWait, Resumable
    <3>2. [x EXCEPT !.th[t].cb = "none", !.th[t].status = "Ready",
                    !.rq[c] = push_back(@, x.th[t].current, t)] = b
      <4> HIDE DEF c
      <4>1. [x EXCEPT !.th[t].cb = "none", !.th[t].status = "Ready"] = a
        <5>1. [x.th EXCEPT ![t] = r2] = [[x.th EXCEPT ![t] = r1] EXCEPT ![t] = r2]
          BY <2>1
        <5>2. [x.th EXCEPT ![t] = r1][t] = r1
          BY <2>1
        <5> QED BY <5>1, <5>2 DEF KernelState
      <4>2. a.rq = x.rq
        BY DEF KernelState
      <4> HIDE DEF a
      <4> QED BY <4>1, <4>2
    <3> HIDE DEF b
    <3> QED BY <3>1, <3>2
  <2>3. r2 \in ThreadRec
    <3>1. r1 \in ThreadRec
      BY <2>1, Thread_cb
    <3>2. "Ready" \in Status
      BY DEF Status
    <3> HIDE DEF r1
    <3> QED BY <3>1, <3>2, Thread_status
  <2>4. /\ r2.cb = "none" /\ r2.status = "Ready" /\ r2.req = x.th[t].req
        /\ r2.waitObjs = x.th[t].waitObjs /\ r2.held = x.th[t].held
        /\ r2.pending = x.th[t].pending
        /\ r2.nominal = x.th[t].nominal /\ r2.current = x.th[t].current
    BY <2>1 DEF ThreadRec
  <2> HIDE DEF r2
  <2>5. /\ a \in KernelState /\ a.th = [x.th EXCEPT ![t] = r2] /\ a.mx = x.mx /\ a.wl = x.wl
        /\ a.ses = x.ses /\ a.rq = x.rq /\ Untouched(x, a)
    BY <2>3, ThreadPut
  <2> HIDE DEF a
  <2>6. q \in QueueList(ThreadsOf(c)) /\ c \in Cores /\ x.rq \in RqMap
    BY <2>1, RqOf, PushType, KernelFields
  <2>q. /\ x.rq[c] \in QueueList(ThreadsOf(c)) /\ t \in ThreadsOf(c)
        /\ Pushed(x.rq[c], x.th[t].current, t, q)
    BY <2>1, RqOf, PushIs
  <2> HIDE DEF q, c
  <2>7. v \in RqMap
    BY <2>6, RqPut
  <2> HIDE DEF v
  <2>8. b \in KernelState
    BY <2>5, <2>7, Put_rq
  <2>9. b.th = a.th /\ b.mx = a.mx /\ b.wl = a.wl /\ b.ses = a.ses /\ b.rq = v
    BY <2>5 DEF KernelState
  <2>10. Untouched(a, b)
    BY <2>5 DEF KernelState, Untouched
  <2> HIDE DEF b
  <2>11. /\ z \in KernelState /\ z.th = b.th /\ z.mx = b.mx /\ z.wl = b.wl /\ z.ses = b.ses
         /\ z.rq = b.rq /\ z.halt /\ Untouched(b, z)
    BY <2>8, RescheduleFrame
  <2> HIDE DEF z
  <2>12. Untouched(x, z)
    BY <2>5, <2>10, <2>11, UntouchedTransitive
  <2>13. z.th[t] = r2 /\ \A u \in Threads \ {t} : z.th[u] = x.th[u]
    BY <2>1, <2>5, <2>9, <2>11
  <2>14. x.th[t].status # "NotCreated" => Queued(x, z)
    <3> SUFFICES ASSUME x.th[t].status # "NotCreated" PROVE Queued(x, z)
      OBVIOUS
    <3>1. ThreadsOf(c) \subseteq Threads
      BY DEF ThreadsOf
    <3>2. Changed(x.th, z.th, c, t, "Ready", x.th[t].current)
      BY <2>4, <2>13, <3>1 DEF Changed
    <3>3. ASSUME QueueOK(x.th, c, x.rq[c]) PROVE QueueOK(z.th, c, q)
      <4>1. x.th[t].current \in Linked(x.rq[c])
        BY <2>q, <3>3 DEF QueueOK
      <4>2. x.th[t].status # "Ready"
        BY <1>5 DEF Resumable
      <4> QED BY <2>1, <2>q, <3>2, <3>3, <4>1, <4>2, ReadyQueue
    <3>4. z.rq = [x.rq EXCEPT ![c] = q]
      BY <2>9, <2>11 DEF v
    <3> QED BY <2>6, <2>13, <2>q, <3>3, <3>4, QueuePut
  <2> QED BY <1>5, <2>2, <2>4, <2>5, <2>9, <2>11, <2>12, <2>13, <2>14 DEF Resumed
<1> QED BY <1>1, <1>2, <1>3, <1>4, <1>5 DEF Resumable

LEMMA ResumedKeeps ==
    ASSUME NEW x, NEW d, Sound(x, d), NEW t \in Threads, NEW y, Resumed(x, y, t),
           Alive(x, t) \/ x.th[t].status = "Dead", x.th[t].req = NoSession
    PROVE  /\ Sound(y, d)
           /\ Sync(x, t) \/ ~Resumable(x, t) => \A a : Moved(x, y, a)
<1>1. x \in KernelState /\ y \in KernelState
  BY DEF Sound, Resumed
<1>2. \A u \in Threads : /\ y.th[u].req = x.th[u].req /\ y.th[u].waitObjs = x.th[u].waitObjs
                         /\ y.th[u].pending = x.th[u].pending /\ y.th[u].held = x.th[u].held
                         /\ y.th[u].nominal = x.th[u].nominal /\ y.th[u].current = x.th[u].current
  BY DEF Resumed
<1>3. \A u \in Threads : Alive(y, u) <=> Alive(x, u)
  BY DEF Resumed, Alive, Resumable
<1>4. ListsOK(y, NoThread, {})
  BY <1>2, ListsSame DEF Sound, Resumed
<1>5. MutexOK(y, d)
  BY <1>2, <1>3, MutexSame DEF Sound, Resumed
<1>6. PrioOK(y, {d})
  <2>1. \A u \in Threads : \A m \in x.th[u].held : y.mx[m].prio = x.mx[m].prio
    BY DEF Resumed
  <2>2. \A u \in Threads : Inherited(y, u) = Inherited(x, u)
    BY ONLY <1>2, <2>1, InheritedSame
  <2> QED BY <1>2, <1>3, <2>2 DEF Sound, PrioOK
<1>7. ThreadsOK(y, d)
  <2> SUFFICES ASSUME NEW u \in Threads
               PROVE  /\ y.th[u].waitObjs # <<>> => (u = d \/ Sync(y, u)) /\ y.th[u].cb # "arbiter"
                      /\ y.th[u].req # NoSession => y.th[u].status = "WaitIPC"
    BY DEF ThreadsOK
  <2>1. /\ x.th[u].waitObjs # <<>> => (u = d \/ Sync(x, u)) /\ x.th[u].cb # "arbiter"
        /\ x.th[u].req # NoSession => x.th[u].status = "WaitIPC"
    BY DEF Sound, ThreadsOK
  <2>2. CASE u = t /\ Resumable(x, t)
    BY <1>2, <2>2 DEF Resumable
  <2>3. CASE ~(u = t /\ Resumable(x, t))
    <3>1. y.th[u] = x.th[u]
      BY <2>3 DEF Resumed
    <3> QED BY <2>1, <3>1 DEF Sync
  <2> QED BY <2>2, <2>3
<1>8. SessionsOK(y)
  <2>1. \A s \in Sessions : Requesting(y, s) = Requesting(x, s)
    BY DEF Requesting, Resumed
  <2>2. NoSession \notin Sessions
    BY KernelAssumption
  <2>3. ASSUME NEW s \in Sessions, NEW u \in Requesting(x, s)
        PROVE  y.th[u].status = "WaitIPC" /\ y.th[u].req = s
    <3>1. x.th[u].status = "WaitIPC" /\ x.th[u].req = s
      BY DEF Sound, SessionsOK
    <3>2. u # t
      BY <2>2, <3>1
    <3>3. u \in Threads
      BY <1>1, SessionFields, ToSetType DEF Requesting, MaybeThread
    <3>4. y.th[u] = x.th[u]
      BY <3>2, <3>3 DEF Resumed
    <3> QED BY <3>1, <3>4
  <2>4. y.ses = x.ses
    BY DEF Resumed
  <2> QED BY <1>2, <2>1, <2>3, <2>4 DEF Sound, SessionsOK
<1>9. Sound(y, d)
  BY <1>1, <1>4, <1>5, <1>6, <1>7, <1>8 DEF Sound
<1>10. ASSUME Sync(x, t) \/ ~Resumable(x, t), NEW a PROVE Moved(x, y, a)
  <2>1. ThreadsMoved(x, y, a)
    <3> SUFFICES ASSUME NEW u \in Threads
                 PROVE  /\ y.th[u].status = x.th[u].status \/ (Sync(x, u) /\ y.th[u].status = "Ready")
                        /\ y.th[u].status = x.th[u].status => y.th[u].cb = x.th[u].cb
      BY <1>2 DEF ThreadsMoved
    <3>1. CASE u = t /\ Resumable(x, t)
      BY <1>10, <3>1 DEF Resumed, Resumable
    <3>2. CASE ~(u = t /\ Resumable(x, t))
      <4>1. y.th[u] = x.th[u]
        BY <3>2 DEF Resumed
      <4> QED BY <4>1
    <3> QED BY <3>1, <3>2
  <2>2. ObjectsMoved(x, y, a)
    BY DEF ObjectsMoved, Resumed
  <2>3. Queued(x, y)
    BY DEF Resumed, Alive
  <2> QED BY <2>1, <2>2, <2>3 DEF Moved, Resumed
<1> QED BY <1>9, <1>10


\* Acquiring for a thread that waits counts as waking it.
LEMMA MovedWeaken ==
    ASSUME NEW x, NEW y, NEW t \in Threads, Sync(x, t), Moved(x, y, t), NEW b
    PROVE  Moved(x, y, b)
  BY DEF Moved, ThreadsMoved, ObjectsMoved

LEMMA AssertedKeeps ==
    ASSUME NEW x, NEW d, Sound(x, d), NEW y, Asserted(x, y)
    PROVE  Sound(y, d) /\ SameWaits(x, y) /\ \A a : Moved(x, y, a)
  BY SoundSame DEF Asserted

LEMMA AcquireOne ==
    ASSUME NEW x, NEW o, NEW t
    PROVE  AcquireAll(x, <<o>>, t) = Acquire(x, o, t)
<1> DEFINE p == <<<<o>>, t, x, t>>
           f == Acquiring!Run(p, x, 1)
<1>1. AcquireAll(x, <<o>>, t) = Acquiring!Run(p, x, Len(<<o>>))[Len(<<o>>)]
  BY DEF AcquireAll, ForEach, Acquiring!Run, AcquireStep
<1>2. Len(<<o>>) = 1
  OBVIOUS
<1>3. p[1][1] = o /\ p[2] = t
  OBVIOUS
<1> HIDE DEF p
<1>4. f[0] = x /\ \A i \in 1 .. 1 : f[i] = AcquireStep(p, i, f[i - 1])
  BY Acquiring!RunDef
<1>5. f[1] = AcquireStep(p, 1, x)
  BY <1>4
<1> QED BY <1>1, <1>2, <1>3, <1>5 DEF AcquireStep

\* An exited thread is acquired without an effect.
LEMMA AcquireThread ==
    ASSUME NEW x \in KernelState, NEW o \in Threads, NEW t
    PROVE  Asserted(x, Acquire(x, o, t))
<1>1. AcquireObject(x, o, t) = x /\ o \notin Semaphores
  BY Classes DEF AcquireObject
<1>2. Acquire(x, o, t) = x \/ Acquire(x, o, t) = Failed(x, "ObjectUnavailable")
  BY <1>1 DEF Acquire, Assert_, Failed
<1>3. "ObjectUnavailable" \in Assertions
  BY DEF Assertions
<1> QED BY <1>2, <1>3, AssertFrame

\* d is being stopped; if it waits on o then o is a thread, itself.
Stopping(x, d, o) ==
    d \in Threads => x.th[d].status = "Dead" /\ (d \in ToSet(x.wl[o]) => o \in Threads)

LEMMA WakeThreadKeeps ==
    ASSUME NEW x, NEW d, Sound(x, d), NEW o \in WaitObject, NEW t \in ToSet(x.wl[o]),
           Stopping(x, d, o)
    PROVE  Sound(WakeThread(x, o, t), d) /\ Moved(x, WakeThread(x, o, t), NoThread)
<1> DEFINE objs == Granted(x, o, t)
           a == AcquireAll(x, objs, t)
           b == WakeUp(a, t, "Signal", o)
           c == LeaveWaitObjects(b, t)
           y == ResumeFromWait(c, t)
<1>1. x \in KernelState /\ t \in Threads /\ o \in ToSet(x.th[t].waitObjs)
  <2>1. x \in KernelState /\ ListsOK(x, NoThread, {})
    BY DEF Sound
  <2>2. t \in Threads
    BY <2>1, WlType
  <2> QED BY <2>1, <2>2, NotNoThread DEF ListsOK, WaitsFor
<1>2. WakeThread(x, o, t) = y
  BY <1>1, NotNoThread DEF WakeThread
<1>3. x.th[t].waitObjs # <<>>
  BY <1>1, ToSetEmpty
<1>4. (t = d \/ Sync(x, t)) /\ x.th[t].cb # "arbiter"
  BY <1>1, <1>3 DEF Sound, ThreadsOK
<1>5. t = d => x.th[t].status = "Dead" /\ o \in Threads
  BY <1>1 DEF Stopping
<1>6. x.th[t].req = NoSession
  BY <1>1, <1>4, <1>5, StatusIs DEF Sound, ThreadsOK, Sync
<1>7. Sound(a, d) /\ SameWaits(x, a) /\ Moved(x, a, NoThread)
  <2>1. CASE t = d
    <3>1. objs = <<o>>
      BY <1>5, <2>1 DEF Granted
    <3>2. Asserted(x, a)
      BY <1>1, <1>5, <2>1, <3>1, AcquireOne, AcquireThread
    <3> HIDE DEF a
    <3> QED BY <3>2, AssertedKeeps
  <2>2. CASE t # d
    <3>1. Sync(x, t) /\ Alive(x, t)
      BY <1>4, <2>2, StatusIs DEF Sync, Alive
    <3>2. objs \in Seq(WaitObject)
      BY <1>1, ThType, ThreadFields DEF Granted
    <3> HIDE DEF objs
    <3>3. Acquired(x, a, t, d)
      BY <1>1, <2>2, <3>1, <3>2, AcquireAllKeeps
    <3> HIDE DEF a
    <3> QED BY <1>1, <3>1, <3>3, MovedWeaken DEF Acquired
  <2> QED BY <2>1, <2>2
<1> HIDE DEF a
<1>8. /\ a \in KernelState /\ o \in ToSet(a.th[t].waitObjs) /\ a.th[t].cb # "arbiter"
      /\ a.th[t].status = x.th[t].status /\ a.th[t].req = NoSession
  BY <1>1, <1>4, <1>6, <1>7 DEF Sound, SameWaits
<1>9. Sound(b, d) /\ SameWaits(a, b) /\ Moved(a, b, NoThread)
  <2>1. /\ b \in KernelState /\ OnlyContexts(a, b) /\ Elsewhere(a, b)
        /\ b.arb = IF a.th[t].cb = "arbiter" THEN Among(a.arb, ToSet(a.arb) \ {t}) ELSE a.arb
    BY <1>1, <1>8, WakeUpFrame
  <2> HIDE DEF b
  <2>2. Untouched(a, b)
    BY <1>8, <2>1, ElsewhereIs
  <2> QED BY <1>7, <2>1, <2>2, ContextsKeep
<1> HIDE DEF b
<1>10. b.th[t].status = x.th[t].status /\ b.th[t].req = NoSession
  BY <1>1, <1>8, <1>9 DEF SameWaits
<1>11. Sound(c, d) /\ Left(b, c, t) /\ Moved(b, c, NoThread)
  BY <1>1, <1>9, LeaveKeeps
<1> HIDE DEF c
<1>12. c.th[t].status = x.th[t].status /\ c.th[t].req = NoSession
  BY <1>1, <1>10, <1>11 DEF Left
<1>13. Resumed(c, y, t)
  BY <1>1, <1>11, ResumeFrame DEF Sound
<1> HIDE DEF y
<1>14. /\ Alive(c, t) \/ c.th[t].status = "Dead"
       /\ Sync(c, t) \/ ~Resumable(c, t)
  BY <1>4, <1>5, <1>12, StatusIs DEF Alive, Sync, Resumable
<1>15. Sound(y, d) /\ Moved(c, y, NoThread)
  BY <1>1, <1>11, <1>12, <1>13, <1>14, ResumedKeeps
<1> QED BY <1>2, <1>7, <1>9, <1>11, <1>15, MovedTransitive

\* min_element returns one of the elements.
LEMMA FirstOfBestIs ==
    ASSUME NEW x \in KernelState, NEW s \in Seq(Threads), s # <<>>
    PROVE  FirstOfBest(x, s) \in ToSet(s)
<1> DEFINE n == Len(s)
           f == [i \in 1 .. n |-> x.th[s[i]].current]
<1>1. n \in Nat \ {0} /\ DOMAIN s = 1 .. n /\ \A i \in 1 .. n : s[i] \in Threads
  OBVIOUS
<1>2. \A i \in 1 .. n : f[i] \in Int
  BY <1>1, ThType, ThreadFields, PriorityNat
<1> HIDE DEF n
<1>3. PICK i \in 1 .. n : \A j \in 1 .. n : f[i] < f[j] \/ (f[i] = f[j] /\ i <= j)
  <2> HIDE DEF f
  <2> QED BY <1>1, <1>2, FirstLeast
<1> DEFINE P(l) == \A j \in DOMAIN s \ {l} :
                      LET p == x.th[s[l]].current
                          r == x.th[s[j]].current
                      IN p < r \/ (p = r /\ l < j)
<1>4. i \in DOMAIN s /\ P(i)
  BY <1>1, <1>3
<1>5. (CHOOSE l \in DOMAIN s : P(l)) \in DOMAIN s
  <2> HIDE DEF P
  <2> QED BY <1>4
<1> QED BY <1>5 DEF FirstOfBest, ToSet

LEMMA WakeOneKeeps ==
    ASSUME NEW x, NEW d, Sound(x, d), NEW o \in WaitObject, Stopping(x, d, o)
    PROVE  Sound(WakeOne(x, o), d) /\ Moved(x, WakeOne(x, o), NoThread)
<1> DEFINE a == Assert_(x, \A t \in ToSet(x.wl[o]) : x.th[t].status \in SynchStatus,
                        "InconsistentThreadStatuses")
           t == GetHighestPriorityReadyThread(x, o)
           R == {u \in ToSet(x.wl[o]) : CanWake(x, o, u)}
           ready == Among(x.wl[o], R)
<1>1. WakeOne(x, o) = WakeThread(a, o, t)
  BY DEF WakeOne
<1>2. a = x \/ a = Failed(x, "InconsistentThreadStatuses")
  BY DEF Assert_, Failed
<1>3. "InconsistentThreadStatuses" \in Assertions
  BY DEF Assertions
<1> HIDE DEF a
<1>4. x \in KernelState
  BY DEF Sound
<1>5. Asserted(x, a)
  BY <1>2, <1>3, <1>4, AssertFrame
<1>6. Sound(a, d) /\ Moved(x, a, NoThread) /\ a.wl = x.wl /\ a.th = x.th
  BY <1>5, AssertedKeeps DEF Asserted
<1>7. t = NoThread \/ t \in ToSet(x.wl[o])
  <2>1. t = IF ready = <<>> THEN NoThread ELSE FirstOfBest(x, ready)
    BY DEF GetHighestPriorityReadyThread
  <2> HIDE DEF t
  <2>2. x.wl[o] \in Seq(Threads)
    BY <1>4, WlType
  <2> HIDE DEF R
  <2>3. ready \in Seq(Threads) /\ ToSet(ready) \subseteq ToSet(x.wl[o])
    BY <2>2, AmongSet
  <2> HIDE DEF ready
  <2> QED BY <1>4, <2>1, <2>3, FirstOfBestIs
<1> HIDE DEF t
<1>8. CASE t = NoThread
  BY <1>1, <1>6, <1>8 DEF WakeThread
<1>9. CASE t \in ToSet(x.wl[o])
  <2>1. Stopping(a, d, o) /\ t \in ToSet(a.wl[o])
    BY <1>6, <1>9 DEF Stopping
  <2>2. Sound(WakeThread(a, o, t), d) /\ Moved(a, WakeThread(a, o, t), NoThread)
    BY <1>6, <2>1, WakeThreadKeeps
  <2> QED BY <1>1, <1>6, <2>2, MovedTransitive
<1> QED BY <1>7, <1>8, <1>9

WakeStep(p, i, x) == WakeOne(x, p[1])
WakeHolds(p, i, x) == Sound(x, p[2]) /\ Moved(p[3], x, NoThread)

Waking == INSTANCE Loop WITH Step <- WakeStep, Holds <- WakeHolds

LEMMA StoppingMoved ==
    ASSUME NEW x, NEW y, NEW d, NEW o \in WaitObject, Stopping(x, d, o), NEW a, Moved(x, y, a)
    PROVE  Stopping(y, d, o)
  BY StatusIs DEF Stopping, Moved, ThreadsMoved, ObjectsMoved, Sync

\* The waiters of o are woken.
LEMMA WakeupKeeps ==
    ASSUME NEW x, NEW d, Sound(x, d), NEW o \in WaitObject, Stopping(x, d, o)
    PROVE  /\ Sound(WakeupAllWaitingThreads(x, o), d)
           /\ Moved(x, WakeupAllWaitingThreads(x, o), NoThread)
<1> DEFINE p == <<o, d, x>>
           n == Cardinality(Threads)
           f == Waking!Run(p, x, n)
           S == IF o \in Events \cup Timers /\ ResetType[o] = "Pulse" THEN f[n].sig \ {o} ELSE f[n].sig
<1>1. WakeupAllWaitingThreads(x, o) = [f[n] EXCEPT !.sig = S]
  BY DEF WakeupAllWaitingThreads, Waking!Run, WakeStep
<1>2. n \in Nat
  BY KernelAssumption, FS_CardinalityType
<1>3. p[1] = o /\ p[2] = d /\ p[3] = x
  OBVIOUS
<1> HIDE DEF p, f, n
<1>4. WakeHolds(p, 0, x)
  BY <1>3, MovedItself DEF WakeHolds
<1>5. ASSUME NEW i \in 1 .. n, NEW y, WakeHolds(p, i - 1, y)
      PROVE  WakeHolds(p, i, WakeStep(p, i, y))
  <2>1. Sound(y, d) /\ Moved(x, y, NoThread)
    BY <1>3, <1>5 DEF WakeHolds
  <2>2. Stopping(y, d, o)
    BY <2>1, StoppingMoved
  <2>3. Sound(WakeOne(y, o), d) /\ Moved(y, WakeOne(y, o), NoThread)
    BY <2>1, <2>2, WakeOneKeeps
  <2> QED BY <1>3, <2>1, <2>3, MovedTransitive DEF WakeHolds, WakeStep
<1>6. \A i \in 0 .. n : WakeHolds(p, i, f[i])
  <2>1. \A i \in 1 .. n : \A y : WakeHolds(p, i - 1, y) => WakeHolds(p, i, WakeStep(p, i, y))
    BY <1>5
  <2> QED BY <1>2, <1>4, <2>1, Waking!LoopInvariant DEF f
<1>7. Sound(f[n], d) /\ Moved(x, f[n], NoThread)
  BY <1>2, <1>3, <1>6 DEF WakeHolds
<1>8. S \in SUBSET (Events \cup Timers)
  BY <1>7, KernelFields DEF Sound
<1> HIDE DEF S
<1>9. Sound([f[n] EXCEPT !.sig = S], d) /\ Moved(f[n], [f[n] EXCEPT !.sig = S], NoThread)
  BY <1>7, <1>8, SigKeeps
<1> QED BY <1>1, <1>7, <1>9, MovedTransitive

-----------------------------------------------------------------------------
(* The invariant.                                                          *)

\* The threads in the arbiter's list are those that wait for it, and the timeout of
\* such a wait has the callback that takes the thread off the list.
ArbOK(x) ==
    \A t \in Threads :
        /\ x.th[t].status = "WaitArb" <=> t \in ToSet(x.arb)
        /\ x.th[t].status = "WaitArb" /\ x.wake[t] > 0 => x.th[t].cb = "arbiter"

\* A ThreadWakeup event belongs to the wait that is going on or just ended.
WakeOK(x) ==
    \A t \in Threads :
        /\ x.wake[t] <= 1
        /\ x.wake[t] > 0 => x.th[t].status \in WaitStatus \cup {"Ready"} /\ x.th[t].req = NoSession

\* current_process, and what SetRunningCPU will make of it.
ProcessOf(x, c) == IF c = x.cpu THEN x.proc ELSE x.stored[c]

CoresOK(x) ==
    /\ \A c \in Cores : x.cur[c] # NoThread =>
          CoreOf[x.cur[c]] = c /\ ProcessOf(x, c) = ProcOf[x.cur[c]]
    /\ \A t \in Threads : x.th[t].status = "Running" => x.cur[CoreOf[t]] = t

ServersOf(x, p) == {s \in Sessions : x.ses[s].alive /\ x.ses[s].port = p}

PortsOK(x) ==
    /\ \A p \in Ports :
          /\ IsInjective(x.port[p].pending)
          /\ \A s \in ToSet(x.port[p].pending) :
                x.ses[s].port = p /\ x.ses[s].alive /\ ~x.ses[s].server
          /\ x.port[p].active = Cardinality(ServersOf(x, p)) /\ x.port[p].active <= MaxSessions
    /\ \A s \in Sessions : IF x.ses[s].alive THEN x.ses[s].port \in Ports ELSE ~x.ses[s].server

TimersOK(x) == \A e, f \in x.tev : e[1] = f[1] => e = f

Rest(x) == ArbOK(x) /\ WakeOK(x) /\ CoresOK(x) /\ PortsOK(x) /\ TimersOK(x)

\* d is the thread that is being stopped, if any.
Good(x, d) == Sound(x, d) /\ QueuesOK(x) /\ Rest(x)

\* Core c runs no thread that is not running.
Fresh(x, c) == x.cur[c] # NoThread => x.th[x.cur[c]].status = "Running"

\* Where RunLoop is.
LoopOK(x, l) ==
    /\ l.core \in Cores /\ l.phase \in {"top", "lag", "advance", "run", "solo", "end"}
    /\ l.phase = "lag" => /\ l.lag \subseteq Cores /\ l.lag # Cores /\ l.core \in l.lag
                          /\ x.cpu = l.core
                          /\ \A c \in l.lag : c < l.core => Fresh(x, c)
    /\ l.phase = "advance" => x.cpu = l.core /\ \A c \in Cores : c < l.core => Fresh(x, c)
    /\ l.phase = "run" => x.cpu = l.core /\ \A c \in Cores : c >= l.core => Fresh(x, c)
    /\ l.phase = "solo" => /\ Fresh(x, x.cpu) /\ Fresh(x, l.core)
                           /\ NumCores <= 2 => x.cpu = l.core

Inv(x, l) == Good(x, NoThread) /\ LoopOK(x, l) /\ ~x.halt

KInv == Inv(k, loop)

-----------------------------------------------------------------------------
(* Steps of handlers.                                                      *)

\* A handler leaves the cores alone, and makes threads other than t at most ready.
RunKept(x, y, t) ==
    /\ y.cpu = x.cpu /\ y.running = x.running /\ y.cur = x.cur
    /\ x.halt => y.halt
    /\ \A u \in Threads \ {t} :
          \/ y.th[u].status = x.th[u].status
          \/ y.th[u].status = "Ready" /\ x.th[u].status \notin {"Running", "Dead"}

LEMMA RunKeptTransitive ==
    ASSUME NEW x, NEW y, NEW z, NEW t, RunKept(x, y, t), RunKept(y, z, t)
    PROVE  RunKept(x, z, t)
  BY DEF RunKept

LEMMA RunKeptItself ==
    ASSUME NEW x, NEW t
    PROVE  RunKept(x, x, t)
  BY DEF RunKept

LEMMA RunKeptWeaken ==
    ASSUME NEW x, NEW y, RunKept(x, y, NoThread), NEW t
    PROVE  RunKept(x, y, t)
  BY NotNoThread DEF RunKept

LEMMA PortFields ==
    ASSUME NEW x \in KernelState
    PROVE  /\ x.port \in [Ports -> PortRec]
           /\ \A p \in Ports : /\ x.port[p] \in PortRec /\ x.port[p].pending \in Seq(Sessions)
                               /\ x.port[p].active \in Int
                               /\ ToSet(x.port[p].pending) \subseteq Sessions
<1>1. x.port \in [Ports -> PortRec]
  BY KernelFields DEF PortMap
<1>2. \A p \in Ports : x.port[p].pending \in Seq(Sessions) /\ x.port[p].active \in Int
  BY <1>1 DEF PortRec
<1> QED BY <1>1, <1>2, ToSetType

\* The endpoints of the sessions are as they were.
LEMMA PortsSame ==
    ASSUME NEW x \in KernelState, NEW y, PortsOK(x), y.port = x.port,
           \A s \in Sessions : /\ y.ses[s].server = x.ses[s].server
                               /\ y.ses[s].alive = x.ses[s].alive
                               /\ y.ses[s].port = x.ses[s].port
    PROVE  PortsOK(y)
<1>1. \A p \in Ports : ServersOf(y, p) = ServersOf(x, p)
  BY DEF ServersOf
<1>2. \A p \in Ports : ToSet(x.port[p].pending) \subseteq Sessions
  BY PortFields
<1> QED BY <1>1, <1>2 DEF PortsOK

LEMMA CurType ==
    ASSUME NEW x \in KernelState
    PROVE  x.cur \in [Cores -> MaybeThread] /\ \A c \in Cores : x.cur[c] # NoThread => x.cur[c] \in Threads
  BY KernelFields DEF MaybeThread

LEMMA GoodMoved ==
    ASSUME NEW x, NEW d, Good(x, d), NEW y, Sound(y, d), NEW a, Moved(x, y, a)
    PROVE  Good(y, d) /\ RunKept(x, y, NoThread)
<1>1. x \in KernelState /\ y \in KernelState /\ QueuesOK(x) /\ Rest(x)
  BY DEF Good, Sound
<1>2. Untouched(x, y) /\ Queued(x, y) /\ ThreadsMoved(x, y, a) /\ ObjectsMoved(x, y, a)
  BY DEF Moved
<1>3. \A t \in Threads :
         /\ y.th[t].status = x.th[t].status \/ (x.th[t].status \in SynchStatus /\ y.th[t].status = "Ready")
         /\ y.th[t].status = x.th[t].status => y.th[t].cb = x.th[t].cb
         /\ y.th[t].req = x.th[t].req
  BY <1>2 DEF ThreadsMoved, Sync
<1>4. ArbOK(y)
  BY <1>1, <1>2, <1>3, StatusIs DEF Rest, ArbOK, Untouched
<1>5. WakeOK(y)
  BY <1>1, <1>2, <1>3 DEF Rest, WakeOK, Untouched
<1>6. CoresOK(y)
  BY <1>1, <1>2, <1>3 DEF Rest, CoresOK, ProcessOf, Untouched
<1>7. PortsOK(y)
  BY <1>1, <1>2, PortsSame DEF Rest, Untouched, ObjectsMoved
<1>8. TimersOK(y)
  BY <1>1, <1>2 DEF Rest, TimersOK, Untouched
<1>9. RunKept(x, y, NoThread)
  BY <1>2, <1>3, StatusIs DEF RunKept, Untouched
<1>10. QueuesOK(y)
  BY <1>1, <1>2 DEF Queued
<1> QED BY <1>4, <1>5, <1>6, <1>7, <1>8, <1>9, <1>10 DEF Good, Rest

\* What the invariant speaks of is the same, but for the timers' events.
Plain(x, y) ==
    /\ y \in KernelState
    /\ y.th = x.th /\ y.wl = x.wl /\ y.mx = x.mx /\ y.ses = x.ses /\ y.rq = x.rq
    /\ y.arb = x.arb /\ y.wake = x.wake /\ y.cur = x.cur /\ y.cpu = x.cpu /\ y.running = x.running
    /\ y.proc = x.proc /\ y.stored = x.stored /\ y.port = x.port

LEMMA PlainKeeps ==
    ASSUME NEW x, NEW d, Good(x, d), NEW y, Plain(x, y), TimersOK(y)
    PROVE  Good(y, d) /\ ((x.halt => y.halt) => RunKept(x, y, NoThread))
<1>1. Sound(y, d)
  BY SoundSame DEF Good, Plain
<1>2. QueuesOK(y)
  BY DEF Good, QueuesOK, Plain
<1>3. ArbOK(y) /\ WakeOK(y) /\ CoresOK(y)
  BY DEF Good, Rest, Plain, ArbOK, WakeOK, CoresOK, ProcessOf
<1>4. PortsOK(y)
  <2>1. x \in KernelState /\ PortsOK(x) /\ y.port = x.port /\ y.ses = x.ses
    BY DEF Good, Sound, Rest, Plain
  <2> QED BY <2>1, PortsSame
<1>5. (x.halt => y.halt) => RunKept(x, y, NoThread)
  BY DEF RunKept, Plain
<1> QED BY <1>1, <1>2, <1>3, <1>4, <1>5 DEF Good, Rest

LEMMA RescheduleGood ==
    ASSUME NEW x, NEW d, Good(x, d)
    PROVE  /\ Good(PrepareReschedule(x), d) /\ RunKept(x, PrepareReschedule(x), NoThread)
           /\ PrepareReschedule(x).halt
<1> DEFINE y == PrepareReschedule(x)
<1>1. /\ y \in KernelState /\ y.th = x.th /\ y.mx = x.mx /\ y.wl = x.wl /\ y.ses = x.ses /\ y.rq = x.rq
      /\ y.halt /\ Untouched(x, y)
  BY RescheduleFrame DEF Good, Sound
<1> HIDE DEF y
<1>2. Sound(y, d) /\ Moved(x, y, NoThread)
  BY <1>1, SoundSame DEF Good
<1> QED BY <1>1, <1>2, GoodMoved DEF y

LEMMA AssertedGood ==
    ASSUME NEW x, NEW d, Good(x, d), NEW y, Asserted(x, y)
    PROVE  Good(y, d) /\ RunKept(x, y, NoThread)
  BY AssertedKeeps, GoodMoved DEF Good

LEMMA WakeupGood ==
    ASSUME NEW x, NEW d, Good(x, d), NEW o \in WaitObject, Stopping(x, d, o)
    PROVE  /\ Good(WakeupAllWaitingThreads(x, o), d)
           /\ Moved(x, WakeupAllWaitingThreads(x, o), NoThread)
           /\ RunKept(x, WakeupAllWaitingThreads(x, o), NoThread)
  BY WakeupKeeps, GoodMoved DEF Good

\* Nobody is being stopped.
LEMMA NobodyStops ==
    ASSUME NEW x, NEW o
    PROVE  Stopping(x, NoThread, o)
  BY NotNoThread DEF Stopping

LEMMA GoodSame ==
    ASSUME NEW x, NEW d, Good(x, d), NEW y, NEW e, Sound(y, e), Untouched(x, y), Queued(x, y),
           y.ses = x.ses,
           \A t \in Threads : /\ y.th[t].status = x.th[t].status /\ y.th[t].cb = x.th[t].cb
                              /\ y.th[t].req = x.th[t].req
    PROVE  Good(y, e) /\ RunKept(x, y, NoThread)
<1>1. ArbOK(y) /\ WakeOK(y) /\ CoresOK(y) /\ TimersOK(y)
  BY DEF Good, Rest, Untouched, ArbOK, WakeOK, CoresOK, ProcessOf, TimersOK
<1>2. PortsOK(y)
  <2>1. x \in KernelState /\ PortsOK(x) /\ y.port = x.port
    BY DEF Good, Sound, Rest, Untouched
  <2> QED BY <2>1, PortsSame
<1>3. QueuesOK(y)
  BY DEF Good, Queued
<1>4. RunKept(x, y, NoThread)
  BY DEF RunKept, Untouched
<1> QED BY <1>1, <1>2, <1>3, <1>4 DEF Good, Rest

-----------------------------------------------------------------------------
(* The scheduler: the queue of a core while PopNextReadyThread searches it. *)

\* QueueOK, but for the threads in O, which are out of the queue.
QueueBut(th, c, q, O) ==
    /\ Sorted(q) /\ Distinct(q)
    /\ \A u \in ThreadsOf(c) :
          /\ \A p \in Priority :
                u \in ToSet(q.data[p]) <=> u \notin O /\ th[u].status = "Ready" /\ th[u].current = p
          /\ th[u].status # "NotCreated" => th[u].current \in Linked(q)

LEMMA QueueButNobody ==
    ASSUME NEW th, NEW c, NEW q, NEW O, O \cap ThreadsOf(c) = {}
    PROVE  QueueBut(th, c, q, O) <=> QueueOK(th, c, q)
  BY DEF QueueBut, QueueOK

\* A thread is taken out.
LEMMA TakenOut ==
    ASSUME NEW c, NEW q \in QueueList(ThreadsOf(c)), NEW th, NEW O, QueueBut(th, c, q, O),
           NEW p \in Priority, NEW t \in ThreadsOf(c), t \in ToSet(q.data[p]), NEW r,
           Removed(q, p, t, r)
    PROVE  QueueBut(th, c, r, O \cup {t}) /\ th[t].status = "Ready" /\ t \notin O
<1>1. Sorted(r) /\ Linked(r) = Linked(q) /\ Distinct(r)
  BY LinksSame DEF Removed, QueueBut
<1>2. th[t].status = "Ready" /\ t \notin O /\ th[t].current = p
  BY DEF QueueBut
<1>3. ASSUME NEW u \in ThreadsOf(c), NEW l \in Priority
      PROVE  u \in ToSet(r.data[l]) <=>
                u \notin O \cup {t} /\ th[u].status = "Ready" /\ th[u].current = l
  <2>1. u \in ToSet(q.data[l]) <=> u \notin O /\ th[u].status = "Ready" /\ th[u].current = l
    BY DEF QueueBut
  <2>2. CASE l = p
    BY <2>1, <2>2 DEF Removed
  <2>3. CASE l # p
    <3>1. r.data[l] = q.data[l]
      BY <2>3 DEF Removed
    <3> QED BY <1>2, <2>1, <2>3, <3>1
  <2> QED BY <2>2, <2>3
<1> QED BY <1>1, <1>2, <1>3 DEF QueueBut

\* A thread goes back.
LEMMA PutBack ==
    ASSUME NEW c, NEW q \in QueueList(ThreadsOf(c)), NEW th, NEW O, QueueBut(th, c, q, O),
           NEW t \in ThreadsOf(c), t \in O, th[t].status = "Ready", th[t].current \in Priority,
           NEW r, Pushed(q, th[t].current, t, r)
    PROVE  QueueBut(th, c, r, O \ {t})
<1> DEFINE p == th[t].current
<1>1. t \notin ToSet(q.data[p])
  BY DEF QueueBut
<1>2. Sorted(r) /\ Linked(r) = Linked(q) /\ Distinct(r)
  BY <1>1, LinksSame DEF Pushed, QueueBut
<1>3. ASSUME NEW u \in ThreadsOf(c), NEW l \in Priority
      PROVE  u \in ToSet(r.data[l]) <=>
                u \notin O \ {t} /\ th[u].status = "Ready" /\ th[u].current = l
  <2>1. u \in ToSet(q.data[l]) <=> u \notin O /\ th[u].status = "Ready" /\ th[u].current = l
    BY DEF QueueBut
  <2>2. CASE l = p
    BY <2>1, <2>2 DEF Pushed
  <2>3. CASE l # p
    <3>1. r.data[l] = q.data[l]
      BY <2>3 DEF Pushed
    <3> QED BY <2>1, <2>3, <3>1
  <2> QED BY <2>2, <2>3
<1> QED BY <1>2, <1>3 DEF QueueBut

\* The thread that runs next is in no queue.
LEMMA SwitchedQueue ==
    ASSUME NEW c, NEW q \in QueueList(ThreadsOf(c)), NEW th, NEW n \in ThreadsOf(c), NEW O,
           O \subseteq {n}, QueueBut(th, c, q, O), NEW th2,
           Changed(th, th2, c, n, "Running", th[n].current), th[n].current \in Priority,
           th[n].status # "NotCreated", NEW r, Removed(q, th[n].current, n, r)
    PROVE  QueueOK(th2, c, r)
<1> DEFINE p == th[n].current
<1>1. Sorted(r) /\ Linked(r) = Linked(q) /\ Distinct(r)
  BY LinksSame DEF Removed, QueueBut
<1>2. ASSUME NEW u \in ThreadsOf(c), NEW l \in Priority
      PROVE  u \in ToSet(r.data[l]) <=> th2[u].status = "Ready" /\ th2[u].current = l
  <2>1. u \in ToSet(q.data[l]) <=> u \notin O /\ th[u].status = "Ready" /\ th[u].current = l
    BY DEF QueueBut
  <2>2. CASE l = p
    BY <2>1, <2>2 DEF Removed, Changed
  <2>3. CASE l # p
    <3>1. r.data[l] = q.data[l]
      BY <2>3 DEF Removed
    <3> QED BY <2>1, <2>3, <3>1 DEF Changed
  <2> QED BY <2>2, <2>3
<1>3. ASSUME NEW u \in ThreadsOf(c), th2[u].status # "NotCreated"
      PROVE  th2[u].current \in Linked(r)
  <2>1. th[u].current \in Linked(q)
    BY <1>3 DEF QueueBut, Changed
  <2> QED BY <1>1, <2>1 DEF Changed
<1> QED BY <1>1, <1>2, <1>3 DEF QueueOK

-----------------------------------------------------------------------------
(* PopNextReadyThread.                                                     *)

IsSearch(s) == {"q", "parked", "next", "done", "crash"} \subseteq DOMAIN s

\* t is the thread that could go on running.
SearchOK(th, c, t, s) ==
    /\ IsSearch(s)
    /\ s.q \in QueueList(ThreadsOf(c))
    /\ s.parked \in Seq(ThreadsOf(c)) /\ IsInjective(s.parked)
    /\ QueueBut(th, c, s.q, ToSet(s.parked) \cup {s.next})
    /\ \A u \in ToSet(s.parked) : th[u].status = "Ready"
    /\ ~s.done => s.next = NoThread
    /\ s.next \notin ToSet(s.parked)
    /\ s.next = t \/ s.next = NoThread \/ (s.next \in ThreadsOf(c) /\ th[s.next].status = "Ready")

\* The search starts from the thread that runs, if any.
Runs(th, c, t) == t # NoThread => t \in ThreadsOf(c) /\ th[t].status = "Running"

LEMMA PopOneIs ==
    ASSUME NEW x, NEW S, NEW q \in QueueList(S), NEW t
    PROVE  Popped(q, S, Pop(x, q, t))
<1> DEFINE stops == {i \in 0 .. NumPriorities : Path(q)[i] \in Priority /\ Path(q)[i] >= x.th[t].current}
           H1 == Hits(q, Path(q))
           H2 == {i \in Hits(q, Path(q)) : \A j \in stops : i < j}
           c1 == FALSE
           c2 == stops = {}
<1>1. H1 \subseteq Hits(q, Path(q)) /\ H2 \subseteq Hits(q, Path(q))
  OBVIOUS
<1>2. Pop(x, q, t) = IF t = NoThread THEN PopFirst(q, Path(q), H1, c1)
                     ELSE PopFirst(q, Path(q), H2, c2)
  BY DEF Pop, pop_first, pop_first_better
<1> HIDE DEF H1, H2, c1, c2
<1>3. Popped(q, S, PopFirst(q, Path(q), H1, c1)) /\ Popped(q, S, PopFirst(q, Path(q), H2, c2))
  BY <1>1, PopIs
<1> QED BY <1>2, <1>3

\* The levels that are searched for a thread to run instead of t.
LevelsFor(th, t) == IF t = NoThread THEN Priority ELSE {l \in Priority : l < th[t].current}

LEMMA PopOneIsBest ==
    ASSUME NEW x, NEW S, NEW q \in QueueList(S), Sorted(q), NEW t,
           t # NoThread => x.th[t].current \in Priority
    PROVE  PopsBest(q, LevelsFor(x.th, t), Pop(x, q, t))
<1>1. CASE t = NoThread
  BY <1>1, PopFirstIsBest DEF Pop, LevelsFor
<1>2. CASE t # NoThread
  <2> DEFINE p == x.th[t].current
  <2>1. p \in Priority
    BY <1>2
  <2>2. Pop(x, q, t) = pop_first_better(q, p) /\ LevelsFor(x.th, t) = {l \in Priority : l < p}
    BY <1>2 DEF Pop, LevelsFor
  <2> HIDE DEF p
  <2>3. PopsBest(q, {l \in Priority : l < p}, pop_first_better(q, p))
    BY <2>1, PopBetterIsBest
  <2> QED BY <2>2, <2>3
<1> QED BY <1>1, <1>2

LEMMA SearchGoesOn ==
    ASSUME NEW x, NEW c, NEW t, NEW s, SearchOK(x.th, c, t, s), Runs(x.th, c, t), ~s.done,
           NEW r, Popped(s.q, ThreadsOf(c), r), NoThread \notin ThreadsOf(c)
    PROVE  SearchOK(x.th, c, t, PopStep(x, t, s, r))
<1> DEFINE z == PopStep(x, t, s, r)
           O == ToSet(s.parked) \cup {s.next}
           T == ThreadsOf(c)
<1>1. /\ IsSearch(s) /\ s.q \in QueueList(T) /\ s.parked \in Seq(T) /\ IsInjective(s.parked)
      /\ QueueBut(x.th, c, s.q, O) /\ s.next = NoThread
      /\ \A u \in ToSet(s.parked) : x.th[u].status = "Ready"
  BY DEF SearchOK
<1>2. CASE ~r.found
  <2>1. z = [s EXCEPT !.done = TRUE, !.crash = r.crash, !.next = t]
    BY <1>2 DEF PopStep
  <2> HIDE DEF z
  <2>2. IsSearch(z) /\ z.q = s.q /\ z.parked = s.parked /\ z.next = t
    BY ONLY <1>1, <2>1 DEF IsSearch
  <2>3. z.done
    BY ONLY <1>1, <2>1, Zenon DEF IsSearch
  <2>4. QueueBut(x.th, c, s.q, ToSet(s.parked) \cup {t})
    <3> DEFINE N == ToSet(s.parked) \cup {t}
    <3>1. ASSUME NEW u \in T, x.th[u].status = "Ready"
          PROVE  u \in O <=> u \in N
      BY <1>1, <3>1 DEF Runs
    <3> HIDE DEF N, O
    <3>2. QueueBut(x.th, c, s.q, N)
      BY <1>1, <3>1 DEF QueueBut
    <3> QED BY <3>2 DEF N
  <2>5. t \notin ToSet(s.parked)
    <3>1. ToSet(s.parked) \subseteq T
      BY <1>1, ToSetType
    <3> QED BY <1>1, <3>1 DEF Runs
  <2> QED BY <1>1, <2>2, <2>3, <2>4, <2>5 DEF SearchOK, z
<1>3. CASE r.found
  <2>1. PICK p \in Priority : /\ r.thread \in T /\ r.thread \in ToSet(s.q.data[p])
                              /\ Distinct(s.q) => Removed(s.q, p, r.thread, r.q)
    BY <1>3 DEF Popped
  <2>2. Removed(s.q, p, r.thread, r.q) /\ r.q \in QueueList(T)
    BY <1>1, <2>1 DEF QueueBut, Popped
  <2> DEFINE n == r.thread
  <2> HIDE DEF n, O
  <2>3. n \in T /\ n \in ToSet(s.q.data[p]) /\ Removed(s.q, p, n, r.q)
    BY <2>1, <2>2 DEF n
  <2>4. QueueBut(x.th, c, r.q, O \cup {n}) /\ x.th[n].status = "Ready" /\ n \notin O
    BY <1>1, <2>3, TakenOut
  <2>5. CASE x.th[r.thread].canSchedule
    <3>1. z = [s EXCEPT !.done = TRUE, !.next = n, !.q = r.q]
      BY <1>3, <2>5 DEF PopStep, n
    <3> HIDE DEF z
    <3>2. IsSearch(z) /\ z.q = r.q /\ z.parked = s.parked /\ z.next = n
      BY ONLY <1>1, <3>1 DEF IsSearch
    <3>3. z.done
      BY ONLY <1>1, <3>1, Zenon DEF IsSearch
    <3>4. QueueBut(x.th, c, r.q, ToSet(s.parked) \cup {n})
      <4> DEFINE N == ToSet(s.parked) \cup {n}
                 N0 == O \cup {n}
      <4>1. \A u \in T : u \in N0 <=> u \in N
        BY <1>1 DEF O
      <4>2. QueueBut(x.th, c, r.q, N0)
        BY <2>4
      <4> HIDE DEF N, N0
      <4>3. QueueBut(x.th, c, r.q, N)
        BY <4>1, <4>2 DEF QueueBut
      <4> QED BY <4>3 DEF N
    <3>5. n \notin ToSet(s.parked)
      BY <2>4 DEF O
    <3> QED BY <1>1, <2>2, <2>3, <2>4, <3>2, <3>3, <3>4, <3>5 DEF SearchOK, z
  <2>6. CASE ~x.th[r.thread].canSchedule
    <3>1. z = [s EXCEPT !.q = r.q, !.parked = Append(s.parked, n)]
      BY <1>3, <2>6 DEF PopStep, n
    <3> HIDE DEF z
    <3>2. IsSearch(z) /\ z.q = r.q /\ z.parked = Append(s.parked, n) /\ z.next = NoThread
      BY ONLY <1>1, <3>1 DEF IsSearch
    <3>3. n \notin ToSet(s.parked)
      BY <2>4 DEF O
    <3>4. z.parked \in Seq(T) /\ IsInjective(z.parked)
      BY <1>1, <2>3, <3>2, <3>3, AppendNew
    <3>5. ToSet(z.parked) = ToSet(s.parked) \cup {n}
      BY <1>1, <2>3, <3>2, ToSetAppend
    <3>6. QueueBut(x.th, c, r.q, ToSet(z.parked) \cup {NoThread})
      <4> DEFINE N == ToSet(z.parked) \cup {NoThread}
                 N0 == O \cup {n}
      <4>1. \A u \in T : u \in N0 <=> u \in N
        BY <1>1, <3>5 DEF O
      <4>2. QueueBut(x.th, c, r.q, N0)
        BY <2>4
      <4> HIDE DEF N, N0
      <4>3. QueueBut(x.th, c, r.q, N)
        BY <4>1, <4>2 DEF QueueBut
      <4> QED BY <4>3 DEF N
    <3>7. NoThread \notin ToSet(z.parked)
      <4>1. ToSet(z.parked) \subseteq T
        BY <3>4, ToSetType
      <4> QED BY <4>1
    <3> QED BY <1>1, <2>2, <2>4, <3>2, <3>4, <3>5, <3>6, <3>7 DEF SearchOK, z
  <2> QED BY <2>5, <2>6
<1> QED BY <1>2, <1>3

\* A thread that the search may choose.
Eligible(th, c, u) == u \in ThreadsOf(c) /\ th[u].status = "Ready" /\ th[u].canSchedule

\* n is the best thread of core c to go on with, after t.
BestNext(th, c, t, n) ==
    /\ \A u \in ThreadsOf(c) :
          Eligible(th, c, u) => n # NoThread /\ th[n].current <= th[u].current
    /\ t # NoThread => n # NoThread /\ th[n].current <= th[t].current

\* After i iterations.
SearchBest(th, c, t, i, s) ==
    /\ \A u \in ToSet(s.parked) : ~th[u].canSchedule
    /\ ~s.done => Len(s.parked) = i
    /\ s.done => BestNext(th, c, t, s.next)

LEMMA SearchStaysBest ==
    ASSUME NEW x, NEW c, NEW t, NEW s, SearchOK(x.th, c, t, s), Runs(x.th, c, t), ~s.done,
           \A u \in ThreadsOf(c) : x.th[u].current \in Priority,
           NEW i \in Nat \ {0}, SearchBest(x.th, c, t, i - 1, s),
           NEW r, Popped(s.q, ThreadsOf(c), r), PopsBest(s.q, LevelsFor(x.th, t), r),
           NoThread \notin ThreadsOf(c)
    PROVE  SearchBest(x.th, c, t, i, PopStep(x, t, s, r))
<1> DEFINE z == PopStep(x, t, s, r)
           O == ToSet(s.parked) \cup {s.next}
           T == ThreadsOf(c)
           P == LevelsFor(x.th, t)
           L == P \cap Linked(s.q)
<1>1. /\ IsSearch(s) /\ s.q \in QueueList(T) /\ s.parked \in Seq(T)
      /\ QueueBut(x.th, c, s.q, O) /\ s.next = NoThread
  BY DEF SearchOK
<1>2. Len(s.parked) = i - 1 /\ \A u \in ToSet(s.parked) : ~x.th[u].canSchedule
  BY DEF SearchBest
<1>3. t # NoThread => t \in T /\ x.th[t].current \in Nat
  BY PriorityIs DEF Runs
<1>4. ASSUME NEW u \in T, Eligible(x.th, c, u)
      PROVE  /\ x.th[u].current \in Priority /\ x.th[u].current \in Linked(s.q)
             /\ s.q.data[x.th[u].current] # <<>>
  <2>1. u \notin O /\ x.th[u].status = "Ready" /\ x.th[u].current \in Priority
    BY <1>1, <1>2, <1>4 DEF Eligible
  <2>2. u \in ToSet(s.q.data[x.th[u].current]) /\ x.th[u].current \in Linked(s.q)
    <3> HIDE DEF O
    <3> QED BY <1>1, <2>1 DEF QueueBut
  <2> QED BY <2>1, <2>2 DEF ToSet
<1>5. \A u \in T : x.th[u].current \in Priority /\ x.th[u].current \in Int
  BY PriorityIs
<1>6. CASE ~r.found
  <2>1. z = [s EXCEPT !.done = TRUE, !.crash = r.crash, !.next = t]
    BY <1>6 DEF PopStep
  <2> HIDE DEF z
  <2>2. z.parked = s.parked /\ z.next = t /\ z.done
    BY ONLY <1>1, <2>1, Zenon DEF IsSearch
  <2>3. \A l \in L : s.q.data[l] = <<>>
    BY <1>6 DEF PopsBest
  <2>4. ASSUME NEW u \in T, Eligible(x.th, c, u)
        PROVE  t # NoThread /\ x.th[t].current <= x.th[u].current
    <3>1. x.th[u].current \notin P
      BY <1>4, <2>3, <2>4
    <3>2. t # NoThread /\ ~(x.th[u].current < x.th[t].current)
      BY <1>5, <3>1 DEF LevelsFor
    <3> QED BY <1>3, <1>5, <3>2
  <2>5. t # NoThread => x.th[t].current <= x.th[t].current
    BY <1>3
  <2>6. BestNext(x.th, c, t, z.next)
    BY <2>2, <2>4, <2>5 DEF BestNext
  <2> QED BY <1>2, <2>2, <2>6 DEF SearchBest, z
<1>7. CASE r.found
  <2> DEFINE n == r.thread
  <2>1. PICK p \in L : n \in ToSet(s.q.data[p]) /\ \A l \in L : s.q.data[l] # <<>> => p <= l
    BY <1>7 DEF PopsBest
  <2>2. p \in Priority /\ p \in Nat /\ p \in P
    BY <2>1, PriorityIs DEF LevelsFor
  <2>3. n \in T
    BY <1>7 DEF Popped
  <2> HIDE DEF n, O
  <2>4. x.th[n].current = p
    BY <1>1, <2>1, <2>2, <2>3 DEF QueueBut
  <2>5. CASE x.th[r.thread].canSchedule
    <3>1. z = [s EXCEPT !.done = TRUE, !.next = n, !.q = r.q]
      BY <1>7, <2>5 DEF PopStep, n
    <3> HIDE DEF z
    <3>2. z.parked = s.parked /\ z.next = n /\ z.done
      BY ONLY <1>1, <3>1, Zenon DEF IsSearch
    <3>3. t # NoThread => p < x.th[t].current
      BY <2>2 DEF LevelsFor
    <3>4. ASSUME NEW u \in T, Eligible(x.th, c, u) PROVE p <= x.th[u].current
      <4>1. CASE x.th[u].current \in P
        BY <1>4, <2>1, <3>4, <4>1
      <4>2. CASE x.th[u].current \notin P
        <5>1. t # NoThread /\ ~(x.th[u].current < x.th[t].current)
          BY <1>5, <4>2 DEF LevelsFor
        <5> QED BY <1>3, <1>5, <2>2, <3>3, <5>1
      <4> QED BY <4>1, <4>2
    <3>5. n # NoThread
      BY <2>3
    <3>6. t # NoThread => p <= x.th[t].current
      BY <1>3, <2>2, <3>3
    <3>7. BestNext(x.th, c, t, z.next)
      BY <2>4, <3>2, <3>4, <3>5, <3>6 DEF BestNext
    <3> QED BY <1>2, <3>2, <3>7 DEF SearchBest, z
  <2>6. CASE ~x.th[r.thread].canSchedule
    <3>1. z = [s EXCEPT !.q = r.q, !.parked = Append(s.parked, n)]
      BY <1>7, <2>6 DEF PopStep, n
    <3> HIDE DEF z
    <3>2. z.parked = Append(s.parked, n) /\ z.done = s.done
      BY ONLY <1>1, <3>1, Zenon DEF IsSearch
    <3>3. Len(z.parked) = i
      BY <1>1, <1>2, <2>3, <3>2
    <3>4. ToSet(z.parked) = ToSet(s.parked) \cup {n}
      BY <1>1, <2>3, <3>2, ToSetAppend
    <3>5. \A u \in ToSet(z.parked) : ~x.th[u].canSchedule
      BY <1>2, <2>6, <3>4 DEF n
    <3> QED BY <3>2, <3>3, <3>5 DEF SearchBest, z
  <2> QED BY <2>5, <2>6
<1> QED BY <1>6, <1>7

SearchStep(p, i, s) == IF s.done THEN s ELSE PopStep(p[1], p[2], s, Pop(p[1], s.q, p[2]))
SearchHolds(p, i, s) ==
    SearchOK(p[1].th, p[3], p[2], s) /\ SearchBest(p[1].th, p[3], p[2], i, s)

Searching == INSTANCE Loop WITH Step <- SearchStep, Holds <- SearchHolds

LEMMA CoreThreads ==
    ASSUME NEW c
    PROVE  NoThread \notin ThreadsOf(c) /\ ThreadsOf(c) \subseteq Threads
  BY NotNoThread DEF ThreadsOf

LEMMA RqType ==
    ASSUME NEW x \in KernelState, NEW c \in Cores
    PROVE  x.rq \in RqMap /\ x.rq[c] \in QueueList(ThreadsOf(c))
<1>1. x.rq \in RqMap
  BY KernelFields
<1> QED BY <1>1 DEF RqMap

LEMMA StillRunningIs ==
    ASSUME NEW x, Good(x, NoThread), NEW c \in Cores
    PROVE  /\ Runs(x.th, c, StillRunning(x, c))
           /\ StillRunning(x, c) = x.cur[c] \/ StillRunning(x, c) = NoThread
<1>1. x \in KernelState /\ CoresOK(x)
  BY DEF Good, Sound, Rest
<1>2. x.cur[c] # NoThread => x.cur[c] \in Threads /\ CoreOf[x.cur[c]] = c
  BY <1>1, CurType DEF CoresOK
<1> QED BY <1>2 DEF StillRunning, Runs, ThreadsOf

\* As many threads are parked as the core has, at most.
LEMMA FewParked ==
    ASSUME NEW T \in SUBSET Threads, NEW s \in Seq(T), IsInjective(s)
    PROVE  Len(s) <= Cardinality(Threads)
<1> DEFINE n == Len(s)
<1>1. n \in Nat /\ DOMAIN s = 1 .. n /\ s \in [1 .. n -> Threads]
  OBVIOUS
<1>2. s \in Injection(1 .. n, Threads)
  BY <1>1 DEF Injection, IsInjective
<1>3. IsFiniteSet(Threads)
  BY KernelAssumption
<1>4. Cardinality(1 .. n) <= Cardinality(Threads)
  BY <1>2, <1>3, FS_Injection
<1>5. Cardinality(1 .. n) = n
  BY <1>1, FS_Interval
<1> QED BY <1>4, <1>5

LEMMA SearchIs ==
    ASSUME NEW x, Good(x, NoThread), NEW c \in Cores
    PROVE  /\ SearchOK(x.th, c, StillRunning(x, c), PopNextReadyThread(x, c))
           /\ BestNext(x.th, c, StillRunning(x, c), PopNextReadyThread(x, c).next)
<1> DEFINE t == StillRunning(x, c)
           p == <<x, t, c>>
           n == Cardinality(Threads) + 1
           b == PopStart(x, c)
           f == Searching!Run(p, b, n)
<1>1. Runs(x.th, c, t)
  BY StillRunningIs
<1>2. PopNextReadyThread(x, c) = f[n]
  BY DEF PopNextReadyThread, Searching!Run, SearchStep
<1> HIDE DEF t
<1>3. p[1] = x /\ p[2] = t /\ p[3] = c
  OBVIOUS
<1>4. n \in Nat /\ Cardinality(Threads) \in Nat
  BY KernelAssumption, FS_CardinalityType
<1>5. /\ QueueOK(x.th, c, x.rq[c]) /\ x.rq[c] \in QueueList(ThreadsOf(c))
      /\ \A u \in ThreadsOf(c) : x.th[u].current \in Priority
  <2>1. x \in KernelState
    BY DEF Good, Sound
  <2>2. QueueOK(x.th, c, x.rq[c]) /\ x.rq[c] \in QueueList(ThreadsOf(c))
    BY <2>1, RqType DEF Good, QueuesOK
  <2>3. \A u \in ThreadsOf(c) : x.th[u].current \in Priority
    BY <2>1, KernelFields, ThreadFields, CoreThreads DEF ThMap
  <2> QED BY <2>2, <2>3
<1>6. SearchOK(x.th, c, t, b)
  <2>1. /\ IsSearch(b) /\ b.q = x.rq[c] /\ b.parked = <<>> /\ b.next = NoThread
    BY DEF PopStart, IsSearch
  <2>2. b.parked \in Seq(ThreadsOf(c)) /\ IsInjective(b.parked) /\ ToSet(b.parked) = {}
    BY <2>1 DEF IsInjective, ToSet
  <2> HIDE DEF b
  <2>3. QueueBut(x.th, c, b.q, ToSet(b.parked) \cup {b.next})
    <3> DEFINE O == ToSet(b.parked) \cup {b.next}
    <3>1. O \cap ThreadsOf(c) = {}
      BY <2>1, <2>2, CoreThreads
    <3> HIDE DEF O
    <3>2. QueueBut(x.th, c, b.q, O)
      BY <1>5, <2>1, <3>1, QueueButNobody
    <3> QED BY <3>2 DEF O
  <2> QED BY <1>5, <2>1, <2>2, <2>3 DEF SearchOK
<1>7. SearchBest(x.th, c, t, 0, b)
  <2>1. b.parked = <<>> /\ ~b.done
    BY DEF PopStart
  <2> QED BY <2>1 DEF SearchBest, ToSet
<1> HIDE DEF p, f, n, b
<1>8. SearchHolds(p, 0, b)
  BY <1>3, <1>6, <1>7 DEF SearchHolds
<1>9. ASSUME NEW i \in 1 .. n, NEW z, SearchHolds(p, i - 1, z)
      PROVE  SearchHolds(p, i, SearchStep(p, i, z))
  <2>1. SearchOK(x.th, c, t, z) /\ SearchBest(x.th, c, t, i - 1, z)
    BY <1>3, <1>9 DEF SearchHolds
  <2>2. CASE z.done
    <3>1. SearchStep(p, i, z) = z
      BY <2>2 DEF SearchStep
    <3>2. SearchBest(x.th, c, t, i, z)
      BY <2>1, <2>2 DEF SearchBest
    <3> QED BY <1>3, <2>1, <3>1, <3>2 DEF SearchHolds
  <2>3. CASE ~z.done
    <3> DEFINE r == Pop(x, z.q, t)
               y == PopStep(x, t, z, r)
    <3>1. z.q \in QueueList(ThreadsOf(c)) /\ Sorted(z.q)
      BY <2>1 DEF SearchOK, QueueBut
    <3>2. t # NoThread => x.th[t].current \in Priority
      BY <1>1, <1>5 DEF Runs
    <3>3. Popped(z.q, ThreadsOf(c), r) /\ PopsBest(z.q, LevelsFor(x.th, t), r)
      BY <3>1, <3>2, PopOneIs, PopOneIsBest
    <3>4. SearchStep(p, i, z) = y
      BY <1>3, <2>3 DEF SearchStep
    <3>5. i \in Nat \ {0}
      BY <1>4
    <3> HIDE DEF r
    <3>6. SearchOK(x.th, c, t, y)
      BY <1>1, <2>1, <2>3, <3>3, CoreThreads, SearchGoesOn
    <3>7. SearchBest(x.th, c, t, i, y)
      BY <1>1, <1>5, <2>1, <2>3, <3>3, <3>5, CoreThreads, SearchStaysBest
    <3> HIDE DEF y
    <3> QED BY <1>3, <3>4, <3>6, <3>7 DEF SearchHolds
  <2> QED BY <2>2, <2>3
<1>10. SearchHolds(p, n, f[n])
  <2>1. f = Searching!Run(p, b, n)
    BY DEF f
  <2> QED BY <1>4, <1>8, <1>9, <2>1, Searching!LoopInvariant
<1>11. SearchOK(x.th, c, t, f[n]) /\ SearchBest(x.th, c, t, n, f[n])
  BY <1>3, <1>10 DEF SearchHolds
<1>12. f[n].done
  <2>1. f[n].parked \in Seq(ThreadsOf(c)) /\ IsInjective(f[n].parked)
    BY <1>11 DEF SearchOK
  <2>2. Len(f[n].parked) <= Cardinality(Threads)
    BY <2>1, CoreThreads, FewParked
  <2>3. ~f[n].done => Len(f[n].parked) = n
    BY <1>11 DEF SearchBest
  <2> QED BY <1>4, <2>2, <2>3 DEF n
<1> QED BY <1>2, <1>11, <1>12 DEF SearchBest, t

-----------------------------------------------------------------------------
(* The parked threads go back.                                             *)

\* The items from i + 1 on, and e, are still out.
StillOut(list, e, i) == {list[j] : j \in (i + 1) .. Len(list)} \cup {e}

RefillStep(p, i, q) == push_back(q, p[1][p[2][i]].current, p[2][i])
RefillHolds(p, i, q) ==
    /\ q \in QueueList(ThreadsOf(p[3]))
    /\ QueueBut(p[1], p[3], q, StillOut(p[2], p[4], i))

Refilling == INSTANCE Loop WITH Step <- RefillStep, Holds <- RefillHolds

Refilled(th, s) ==
    ForEach(LAMBDA q, t : push_back(q, th[t].current, t), s.q, Reverse(s.parked))

LEMMA ReverseSet ==
    ASSUME NEW T, NEW s \in Seq(T)
    PROVE  /\ Reverse(s) \in Seq(T) /\ ToSet(Reverse(s)) = ToSet(s)
           /\ IsInjective(s) => IsInjective(Reverse(s))
<1> DEFINE list == Reverse(s)
           m == Len(s)
<1>1. m \in Nat /\ DOMAIN s = 1 .. m /\ \A i \in 1 .. m : s[i] \in T
  OBVIOUS
<1> HIDE DEF m
<1>2. list = [i \in 1 .. m |-> s[(m - i) + 1]]
  BY DEF Reverse, m
<1>3. \A i \in 1 .. m : (m - i) + 1 \in 1 .. m /\ (m - ((m - i) + 1)) + 1 = i
  BY <1>1
<1>4. list \in Seq(T)
  BY <1>1, <1>2, <1>3
<1>5. DOMAIN list = 1 .. m /\ \A i \in 1 .. m : list[i] = s[(m - i) + 1]
  BY <1>2
<1> HIDE DEF list
<1>6. \A i \in 1 .. m : list[(m - i) + 1] = s[i]
  BY ONLY <1>3, <1>5
<1>7. ToSet(list) = ToSet(s)
  <2>1. ASSUME NEW e PROVE e \in ToSet(list) <=> e \in ToSet(s)
    <3>1. (\E i \in 1 .. m : list[i] = e) <=> \E i \in 1 .. m : s[i] = e
      BY ONLY <1>3, <1>5, <1>6
    <3> QED BY ONLY <1>1, <1>5, <3>1 DEF ToSet
  <2>2. \A e : e \in ToSet(list) <=> e \in ToSet(s)
    BY <2>1
  <2>3. ToSet(list) \subseteq ToSet(s) /\ ToSet(s) \subseteq ToSet(list)
    BY ONLY <2>2
  <2> QED BY ONLY <2>3, Zenon
<1>8. ASSUME IsInjective(s) PROVE IsInjective(list)
  <2> SUFFICES ASSUME NEW i \in 1 .. m, NEW j \in 1 .. m, list[i] = list[j]
               PROVE  i = j
    BY <1>5 DEF IsInjective
  <2> DEFINE a == (m - i) + 1
             b == (m - j) + 1
  <2>1. a \in 1 .. m /\ b \in 1 .. m /\ s[a] = s[b]
    BY ONLY <1>3, <1>5, list[i] = list[j], i \in 1 .. m, j \in 1 .. m
  <2> HIDE DEF a, b
  <2>2. a = b
    BY ONLY <1>1, <1>8, <2>1 DEF IsInjective
  <2> QED BY ONLY <1>1, <2>2, i \in 1 .. m, j \in 1 .. m DEF a, b
<1> QED BY <1>4, <1>7, <1>8 DEF list

LEMMA StillOutIs ==
    ASSUME NEW T, NEW list \in Seq(T), IsInjective(list), NEW e
    PROVE  /\ StillOut(list, e, 0) = ToSet(list) \cup {e}
           /\ StillOut(list, e, Len(list)) = {e}
           /\ \A i \in 1 .. Len(list) :
                 /\ list[i] \in StillOut(list, e, i - 1)
                 /\ list[i] # e => StillOut(list, e, i - 1) \ {list[i]} = StillOut(list, e, i)
<1> DEFINE n == Len(list)
<1>1. n \in Nat /\ DOMAIN list = 1 .. n
  OBVIOUS
<1>2. \A i, u : u \in StillOut(list, e, i) <=> u = e \/ \E j \in (i + 1) .. n : list[j] = u
  BY DEF StillOut
<1> HIDE DEF n
<1>3. \A u : u \in ToSet(list) <=> \E j \in 1 .. n : list[j] = u
  BY ONLY <1>1 DEF ToSet
<1>4. StillOut(list, e, 0) = ToSet(list) \cup {e}
  <2>1. \A u : u \in StillOut(list, e, 0) <=> u \in ToSet(list) \cup {e}
    BY ONLY <1>2, <1>3
  <2> QED BY <2>1
<1>5. StillOut(list, e, n) = {e}
  <2>1. \A u : u \in StillOut(list, e, n) <=> u \in {e}
    BY ONLY <1>1, <1>2
  <2> QED BY <2>1
<1>6. ASSUME NEW i \in 1 .. n
      PROVE  /\ list[i] \in StillOut(list, e, i - 1)
             /\ list[i] # e => StillOut(list, e, i - 1) \ {list[i]} = StillOut(list, e, i)
  <2>1. i \in Int /\ n \in Int
    BY <1>1
  <2>2. \A j : j \in ((i - 1) + 1) .. n <=> j = i \/ j \in (i + 1) .. n
    BY <2>1
  <2>3. \A j \in (i + 1) .. n : j \in 1 .. n /\ j # i
    BY <2>1
  <2>4. \A j \in (i + 1) .. n : list[j] # list[i]
    BY ONLY <1>1, <2>3, IsInjective(list), i \in 1 .. n DEF IsInjective
  <2>5. \A u : u \in StillOut(list, e, i - 1) <=> u = list[i] \/ u \in StillOut(list, e, i)
    BY ONLY <1>2, <2>2
  <2>6. list[i] # e => list[i] \notin StillOut(list, e, i)
    BY ONLY <1>2, <2>4
  <2> QED BY <2>5, <2>6
<1> QED BY <1>4, <1>5, <1>6 DEF n

LEMMA RefilledIs ==
    ASSUME NEW th, NEW c, NEW t, NEW s, SearchOK(th, c, t, s),
           \A u \in ThreadsOf(c) : th[u].current \in Priority
    PROVE  /\ Refilled(th, s) \in QueueList(ThreadsOf(c))
           /\ QueueBut(th, c, Refilled(th, s), {s.next})
<1> DEFINE list == Reverse(s.parked)
           next == s.next
           b == s.q
           T == ThreadsOf(c)
           n == Len(list)
           p == <<th, list, c, next>>
           f == Refilling!Run(p, b, n)
<1>1. /\ s.parked \in Seq(T) /\ IsInjective(s.parked)
      /\ b \in QueueList(T) /\ QueueBut(th, c, b, ToSet(s.parked) \cup {next})
      /\ \A u \in ToSet(s.parked) : th[u].status = "Ready"
      /\ next \notin ToSet(s.parked)
  BY DEF SearchOK
<1> HIDE DEF T
<1>2. list \in Seq(T) /\ ToSet(list) = ToSet(s.parked) /\ IsInjective(list)
  BY <1>1, ReverseSet
<1>3. Refilled(th, s) = f[n]
  BY DEF Refilled, ForEach, Refilling!Run, RefillStep
<1> HIDE DEF list, b, next
<1>4. p[1] = th /\ p[2] = list /\ p[3] = c /\ p[4] = next
  OBVIOUS
<1>5. n \in Nat /\ \A i \in 1 .. n : list[i] \in T /\ list[i] \in ToSet(list)
  BY <1>2 DEF ToSet
<1> HIDE DEF p, f
<1>6. /\ StillOut(list, next, 0) = ToSet(list) \cup {next}
      /\ StillOut(list, next, n) = {next}
      /\ \A i \in 1 .. n :
            /\ list[i] \in StillOut(list, next, i - 1)
            /\ list[i] # next => StillOut(list, next, i - 1) \ {list[i]} = StillOut(list, next, i)
  BY <1>2, StillOutIs
<1> HIDE DEF n
<1>7. RefillHolds(p, 0, b)
  <2> DEFINE N == ToSet(s.parked) \cup {next}
  <2>0. N = StillOut(list, next, 0) /\ QueueBut(th, c, b, N)
    BY <1>1, <1>2, <1>6
  <2> HIDE DEF N
  <2>1. QueueBut(th, c, b, StillOut(list, next, 0))
    BY ONLY <2>0
  <2> QED BY <1>1, <1>4, <2>1 DEF RefillHolds, T
<1>8. ASSUME NEW i \in 1 .. n, NEW q, RefillHolds(p, i - 1, q)
      PROVE  RefillHolds(p, i, RefillStep(p, i, q))
  <2> DEFINE u == list[i]
             l == th[u].current
             r == push_back(q, l, u)
             O == StillOut(list, next, i - 1)
  <2>1. q \in QueueList(T) /\ QueueBut(th, c, q, O)
    BY <1>4, <1>8 DEF RefillHolds, T
  <2>2. u \in T /\ th[u].status = "Ready" /\ l \in Priority /\ u # next
    BY <1>1, <1>2, <1>5 DEF T
  <2>3. u \in O /\ O \ {u} = StillOut(list, next, i)
    BY <1>6, <2>2
  <2>5. RefillStep(p, i, q) = r
    BY <1>4 DEF RefillStep
  <2>6. r \in QueueList(T) /\ Pushed(q, l, u, r)
    <3> HIDE DEF l, u
    <3> QED BY <2>1, <2>2, PushIs, PushType
  <2> HIDE DEF r, O, u
  <2>7. QueueBut(th, c, r, O \ {u})
    BY <2>1, <2>2, <2>3, <2>6, PutBack DEF T
  <2>8. QueueBut(th, c, r, StillOut(list, next, i))
    BY ONLY <2>3, <2>7
  <2> QED BY <1>4, <2>5, <2>6, <2>8 DEF RefillHolds, T
<1>9. RefillHolds(p, n, f[n])
  <2>1. f = Refilling!Run(p, b, n)
    BY DEF f
  <2> QED BY <1>5, <1>7, <1>8, <2>1, Refilling!LoopInvariant
<1>10. f[n] \in QueueList(T) /\ QueueBut(th, c, f[n], StillOut(list, next, n))
  BY <1>4, <1>9 DEF RefillHolds, T
<1> QED BY <1>3, <1>6, <1>10 DEF next, T

=============================================================================
