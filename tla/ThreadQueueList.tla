-------------------------- MODULE ThreadQueueList --------------------------
(***************************************************************************)
(* Common::ThreadQueueList<T, N>: the ready queue of one emulated core.    *)
(* One deque per priority level; the levels that were ever used form a     *)
(* singly linked list (`first', `next_nonempty') that is searched from the *)
(* best (numerically smallest) level on.  A level enters the list only     *)
(* through prepare(), and never leaves it; push_front and push_back do not *)
(* link anything.                                                          *)
(*                                                                         *)
(* A queue list is a record [first, next, data].  Pointers are indices, as *)
(* ToIndex() saves them: -1 for the UnlinkedTag, -2 for nullptr.           *)
(***************************************************************************)
EXTENDS Integers, Sequences, SequencesExt

CONSTANT NumPriorities      \* ThreadPrioLowest + 1, the template's N

ASSUME NumPrioritiesAssumption == NumPriorities \in Nat \ {0}

Priority == 0 .. NumPriorities - 1

\* A loop over the list s, which applies op to the result so far and the next item.
ForEach(op(_, _), base, s) ==
    LET after[i \in 0 .. Len(s)] == IF i = 0 THEN base ELSE op(after[i - 1], s[i])
    IN after[Len(s)]

\* The items of s that are in S, in order.
Among(s, S) ==
    LET kept[i \in 0 .. Len(s)] ==
            IF i = 0 THEN <<>>
            ELSE IF s[i] \in S THEN Append(kept[i - 1], s[i]) ELSE kept[i - 1]
    IN kept[Len(s)]

UnlinkedTag == -1
NullPtr == -2

EmptyQueueList ==
    [first |-> NullPtr,
     next  |-> [p \in Priority |-> UnlinkedTag],
     data  |-> [p \in Priority |-> <<>>]]

Linked(q) == {p \in Priority : q.next[p] # UnlinkedTag}

-----------------------------------------------------------------------------
(* Linking a level into the list.                                          *)

LinkAfter(q, i, p) == [q EXCEPT !.next[p] = q.next[i], !.next[i] = p]

\* The nearest linked level above p gets p as its successor; if there is
\* none, p becomes the first level of the list.
link(q, p) ==
    LET better == {i \in Linked(q) : i < p}
    IN IF better = {}
       THEN [q EXCEPT !.next[p] = q.first, !.first = p]
       ELSE LinkAfter(q, Max(better), p)

prepare(q, p) == IF q.next[p] = UnlinkedTag THEN link(q, p) ELSE q

-----------------------------------------------------------------------------
(* The deques.                                                             *)

push_front(q, p, t) == [q EXCEPT !.data[p] = <<t>> \o @]

push_back(q, p, t) == [q EXCEPT !.data[p] = Append(@, t)]

remove(q, p, t) ==
    [q EXCEPT !.data[p] = Among(@, ToSet(@) \ {t})]

move(q, t, old, new) == push_back(prepare(remove(q, old, t), new), new, t)

-----------------------------------------------------------------------------
(* Searching: the loops start at `first' and follow next_nonempty.         *)

\* The level reached after i hops, NullPtr once the list is exhausted.
Path(q) ==
    LET hop[i \in 0 .. NumPriorities] ==
            IF i = 0 THEN q.first
            ELSE IF hop[i - 1] \in Priority THEN q.next[hop[i - 1]]
            ELSE NullPtr
    IN hop

\* Hops of the path at which the search finds a thread.
Hits(q, path) ==
    {i \in 0 .. NumPriorities : path[i] \in Priority /\ q.data[path[i]] # <<>>}

\* The head of level p's deque is taken.
PopAt(q, p) ==
    [found |-> TRUE, thread |-> Head(q.data[p]), crash |-> FALSE,
     q |-> [q EXCEPT !.data[p] = Tail(@)]]

\* The search finds a thread at the first of the hits.  Without one it returns
\* T(), having dereferenced nullptr on the way if crash.
PopFirst(q, path, hits, crash) ==
    IF hits = {} THEN [found |-> FALSE, crash |-> crash, q |-> q]
    ELSE PopAt(q, path[Min(hits)])

pop_first(q) ==
    LET path == Path(q) IN PopFirst(q, path, Hits(q, path), FALSE)

\* The loop ends at the first level that is not better than p.  It has no
\* test for nullptr, so a list with no level at p or below is run off its end.
pop_first_better(q, p) ==
    LET path == Path(q)
        stops == {i \in 0 .. NumPriorities : path[i] \in Priority /\ path[i] >= p}
    IN PopFirst(q, path, {i \in Hits(q, path) : \A j \in stops : i < j}, stops = {})

\* get_first() # nullptr
HasFirst(q) == Hits(q, Path(q)) # {}

=============================================================================
