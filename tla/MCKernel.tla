------------------------------ MODULE MCKernel ------------------------------
(***************************************************************************)
(* Instances of Kernel.tla for TLC: names for the objects, and the         *)
(* functions that a cfg cannot write.                                      *)
(***************************************************************************)
EXTENDS Kernel

\* Every thread on core 0; t3 on core 1; one thread per core.
OneCore == [t \in Threads |-> 0]
T3OnCore1 == [t \in Threads |-> IF t = "t3" THEN 1 ELSE 0]
SpreadCores == [t \in Threads |-> CASE t = "t1" -> 0 [] t = "t2" -> 1 [] t = "t3" -> 2]

OneProcess == [t \in Threads |-> "P"]
TwoProcesses == [t \in Threads |-> IF t = "t3" THEN "Q" ELSE "P"]

\* t1 is the best thread, t3 the worst.
Descending == [t \in MainThreads |-> CASE t = "t1" -> 0 [] t = "t2" -> 1 [] t = "t3" -> 2]
SamePrio == [t \in MainThreads |-> 1]

OneShotAll == [o \in Events \cup Timers |-> "OneShot"]

MixedReset == [o \in Events \cup Timers |-> IF o = "k1" THEN "Pulse" ELSE "OneShot"]

\* Lists of different objects for WaitSynchronizationN.
MixedLists == {<<"m1", "s1">>, <<"s1", "e1">>}

\* What a server listens to: its port, and the sessions it has accepted.
ServedLists == {<<"p1">>, <<"s1", "p1">>, <<"s1", "s2">>}

\* Nothing stops a guest from releasing a negative count; a signal with a negative
\* count resumes every waiter.
TakeOrGive == {-1, 1}

=============================================================================
