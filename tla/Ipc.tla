-------------------------------- MODULE Ipc --------------------------------
(***************************************************************************)
(* Interprocess communication: ports, sessions and their requests.  The    *)
(* operators are on the kernel state of WaitObjects.tla, like those of     *)
(* KernelObjects.tla.                                                      *)
(*                                                                         *)
(* The two endpoints of a session are closed independently.  The client's  *)
(* lives as long as its handle.  The ServerSession is also kept alive by   *)
(* the port that it has not been accepted from yet and by the threads that *)
(* wait on it: it is `alive' until Reap runs its destructor.               *)
(* The translation of a command buffer is taken to succeed: the code has   *)
(* no continuation for the case that it does not (an ASSERT).              *)
(***************************************************************************)
EXTENDS Scheduler

CONSTANT MaxSessions      \* a port's max_sessions

ASSUME MaxSessionsAssumption == MaxSessions \in Nat

NoPort == "none"
NoSession == "none"

ClosedSession ==
    [client |-> FALSE, server |-> FALSE, alive |-> FALSE, port |-> NoPort,
     pending |-> <<>>, handling |-> NoThread]

\* CreateSessionPair for a port: the server's handle does not exist yet.
NewSession(p) == [ClosedSession EXCEPT !.client = TRUE, !.alive = TRUE, !.port = p]

NewPort == [pending |-> <<>>, active |-> 0]

\* Sessions that do not exist, and that no thread still waits for an answer from.
Unused(k) ==
    {s \in Sessions : /\ k.ses[s] = ClosedSession
                      /\ \A t \in Threads : k.th[t].req # s}

\* ClientPort::Connect
Connect(k, p, s) ==
    IF k.port[p].active >= MaxSessions THEN k
    ELSE WakeupAllWaitingThreads(
            [k EXCEPT !.port[p].active = @ + 1, !.port[p].pending = Append(@, s),
                      !.ses[s] = NewSession(p)], p)

\* ServerPort::Accept; the last session that connected is accepted first.
Accept(k, p) ==
    IF k.port[p].pending = <<>> THEN k
    ELSE [k EXCEPT !.ses[Last(k.port[p].pending)].server = TRUE,
                   !.port[p].pending = Front(@)]

\* ServerSession::HandleSyncRequest without an HLE handler.
HandleSyncRequest(k, t, s) ==
    WakeupAllWaitingThreads(
        [k EXCEPT !.th[t].status = "WaitIPC", !.th[t].req = s,
                  !.ses[s].pending = Append(@, t)], s)

\* ClientSession::SendSyncRequest
SendSyncRequest(k, t, s) == IF k.ses[s].alive THEN HandleSyncRequest(k, t, s) ELSE k

\* HandleSyncRequest with an HLE handler, which has answered already: the thread
\* sleeps for the time that the request would have taken.
HandleHleRequest(k, t) ==
    WakeAfterDelay([k EXCEPT !.th[t].status = "WaitIPC"], t, "finite")

\* The reply of ReplyAndReceive.
Reply(k, s) ==
    LET t == k.ses[s].handling
        handled == [k EXCEPT !.ses[s].handling = NoThread]
    IN IF t = NoThread \/ ~k.ses[s].client THEN handled
       ELSE ResumeFromWait([handled EXCEPT !.th[t].req = NoSession], t)

-----------------------------------------------------------------------------
(* The destructors.                                                        *)

\* Faulty variant: the server's threads are not told.
CloseClientSilently(k, s) ==
    [k EXCEPT !.ses[s].client = FALSE, !.ses[s].pending = <<>>, !.ses[s].handling = NoThread]

\* ~ClientSession: requests that were not replied to are forgotten.
CloseClient(k, s) ==
    IF ~k.ses[s].alive THEN [k EXCEPT !.ses[s] = ClosedSession]
    ELSE WakeupAllWaitingThreads(
            [k EXCEPT !.ses[s].client = FALSE, !.ses[s].pending = <<>>,
                      !.ses[s].handling = NoThread], s)

CloseServer(k, s) == [k EXCEPT !.ses[s].server = FALSE]

\* Nothing refers to the ServerSession any more.
Unreferenced(k, s) ==
    /\ k.ses[s].alive /\ ~k.ses[s].server
    /\ s \notin ToSet(k.port[k.ses[s].port].pending)
    /\ k.wl[s] = <<>>

\* Faulty variant: the port is not told.
DestroyUntold(k, s) ==
    [k EXCEPT !.ses[s] = IF k.ses[s].client THEN [ClosedSession EXCEPT !.client = TRUE]
                         ELSE ClosedSession]

\* ~ServerSession, with ClientPort::ConnectionClosed.
DestroyServer(k, s) ==
    LET p == k.ses[s].port
        closed == Assert_(k, k.port[p].active > 0, "ActiveSessionsPositive")
    IN [closed EXCEPT !.port[p].active = @ - 1,
                      !.ses[s] = IF k.ses[s].client THEN [ClosedSession EXCEPT !.client = TRUE]
                                 ELSE ClosedSession]

Reap(k) ==
    ForEach(DestroyServer, k, SetToSeq({s \in Sessions : Unreferenced(k, s)}))

=============================================================================
