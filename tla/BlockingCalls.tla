---------------------------- MODULE BlockingCalls ----------------------------
(***************************************************************************)
(* One connected stream socket and the threads that meet in it: blocking   *)
(* and non-blocking recv() and send(), setOpt() and close() called by the  *)
(* application (close() by garbage collection too), and the rcv queue      *)
(* worker, which stores data, takes acknowledgements and learns that the   *)
(* connection is broken.                                                   *)
(*                                                                         *)
(* They synchronise with three locks (m_ConnectionLock, m_SendLock,        *)
(* m_RecvLock), the conditions m_SendBlockCond and m_RecvDataCond, plain   *)
(* flags, and the epoll events of the socket.  The mutexes of the two      *)
(* conditions make "test and wait" one step and are not modelled; a thread *)
(* holds m_RecvLock or m_SendLock while it waits, so that at most one      *)
(* waits for each condition.                                               *)
(*                                                                         *)
(* The contents and the protocol are left to UdtTransfer: here the two     *)
(* buffers are numbers of packets.                                         *)
(***************************************************************************)
EXTENDS Integers, FiniteSets

CONSTANTS
    Readers, Writers, Closers, Setters,   \* the threads that make each call
    Worker, NoThread,
    MaxRcvData,         \* bound: packets that wait to be read
    SndBufSize,         \* m_iSndBufSize, in packets
    Timed,              \* readers and writers that set a timeout
    Watched,            \* an epoll watches the socket
    OptionsDuringCalls  \* setOpt() is called while other calls may block

Callers == Readers \cup Writers \cup Closers \cup Setters
Threads == Callers \cup {Worker}
Locks == {"connection", "send", "recv"}

ASSUME ThreadsAssumption ==
    /\ Readers \cap (Writers \cup Closers \cup Setters) = {}
    /\ Writers \cap (Closers \cup Setters) = {}
    /\ Closers \cap Setters = {}
    /\ Worker \notin Callers /\ NoThread \notin Threads

ASSUME SizesAssumption ==
    /\ MaxRcvData \in Nat \ {0} /\ SndBufSize \in Nat \ {0}
    /\ Timed \subseteq Readers \cup Writers
    /\ Watched \in BOOLEAN /\ OptionsDuringCalls \in BOOLEAN

VARIABLES
    pc, lock,
    rcvDataSize,        \* CRcvBuffer::getRcvDataSize
    sndBufSize,         \* CSndBuffer::getCurrBufSize
    broken, closing, connected, opened,   \* m_bBroken ... m_bOpened
    expired,            \* broken by checkTimers rather than a shutdown
    peerHealth,         \* m_bPeerHealth
    synRecving, synSending,
    watched,            \* the socket is in the watch sets of an epoll
    reads, writes       \* and reported readable, writable

flagVars == <<broken, closing, connected, opened, expired>>
bufVars == <<rcvDataSize, sndBufSize>>
modeVars == <<synRecving, synSending>>
epollVars == <<watched, reads, writes>>
vars == <<pc, lock, flagVars, bufVars, peerHealth, modeVars, epollVars>>

Init ==
    /\ pc = [t \in Threads |-> "idle"]
    /\ lock = [l \in Locks |-> NoThread]
    /\ rcvDataSize = 0 /\ sndBufSize = 0
    /\ broken = FALSE /\ closing = FALSE /\ connected = TRUE /\ opened = TRUE
    /\ expired = FALSE
    /\ peerHealth = TRUE
    /\ synRecving \in BOOLEAN /\ synSending \in BOOLEAN
    /\ watched = Watched /\ reads = FALSE /\ writes = Watched

Goto(t, label) == pc' = [pc EXCEPT ![t] = label]

Acquire(t, l) == lock[l] = NoThread /\ lock' = [lock EXCEPT ![l] = t]
ReleaseAll(t) ==
    lock' = [l \in Locks |-> IF lock[l] = t THEN NoThread ELSE lock[l]]

Return(t) == Goto(t, "idle") /\ ReleaseAll(t)

Live == connected /\ ~broken /\ ~closing

\* The application may keep its options away from its other calls.
MayCall(t) ==
    OptionsDuringCalls \/ \A u \in (IF t \in Setters THEN Callers ELSE Setters) :
                              pc[u] = "idle"

\* pthread_cond_signal by t, which goes on: the thread that waits, if any, tests
\* its condition again.
Signal(t, label, waiting, woken) ==
    pc' = [u \in Threads |-> IF u = t THEN label
                             ELSE IF pc[u] = waiting THEN woken ELSE pc[u]]
-----------------------------------------------------------------------------
(* recv().                                                                 *)

RecvCall(t) ==
    /\ t \in Readers /\ pc[t] = "idle" /\ MayCall(t)
    /\ connected
    /\ (broken \/ closing) => rcvDataSize > 0
    /\ Goto(t, "recvLock")
    /\ UNCHANGED <<lock, flagVars, bufVars, peerHealth, modeVars, epollVars>>

RecvLock(t) ==
    /\ pc[t] = "recvLock"
    /\ Acquire(t, "recv")
    /\ Goto(t, "recv")
    /\ UNCHANGED <<flagVars, bufVars, peerHealth, modeVars, epollVars>>

RecvBlockedUntilData == rcvDataSize = 0
RecvBlocked == Live /\ rcvDataSize = 0

RecvWait(t) ==
    /\ pc[t] = "recv"
    /\ synRecving /\ RecvBlocked
    /\ Goto(t, "recvWait")
    /\ UNCHANGED <<lock, flagVars, bufVars, peerHealth, modeVars, epollVars>>

\* The timeout passes: the call finds nothing to read, and takes the read event
\* back as after reading everything.
RecvTimeUp(t) ==
    /\ t \in Timed /\ pc[t] = "recvWait"
    /\ Goto(t, IF RecvBlocked THEN "recvEvent" ELSE "recv")
    /\ UNCHANGED <<lock, flagVars, bufVars, peerHealth, modeVars, epollVars>>

\* Nothing to read: "would block", or the connection has ended.
RecvFail(t) ==
    /\ pc[t] = "recv"
    /\ ~synRecving \/ ~RecvBlocked
    /\ ~connected \/ rcvDataSize = 0
    /\ Return(t)
    /\ UNCHANGED <<flagVars, bufVars, peerHealth, modeVars, epollVars>>

RecvRead(t) ==
    /\ pc[t] = "recv"
    /\ connected
    /\ \E n \in 1 .. rcvDataSize :
          /\ rcvDataSize' = rcvDataSize - n
          /\ IF n = rcvDataSize THEN Goto(t, "recvEvent") /\ UNCHANGED lock
                                ELSE Return(t)
    /\ UNCHANGED <<flagVars, sndBufSize, peerHealth, modeVars, epollVars>>

\* "read is not available any more"
RecvEvent(t) ==
    /\ pc[t] = "recvEvent"
    /\ reads' = FALSE
    /\ Return(t)
    /\ UNCHANGED <<flagVars, bufVars, peerHealth, modeVars, watched, writes>>
-----------------------------------------------------------------------------
(* send().                                                                 *)

SendCall(t) ==
    /\ t \in Writers /\ pc[t] = "idle" /\ MayCall(t)
    /\ Live
    /\ Goto(t, "sendLock")
    /\ UNCHANGED <<lock, flagVars, bufVars, peerHealth, modeVars, epollVars>>

SendLock(t) ==
    /\ pc[t] = "sendLock"
    /\ Acquire(t, "send")
    /\ Goto(t, "send")
    /\ UNCHANGED <<flagVars, bufVars, peerHealth, modeVars, epollVars>>

Full == sndBufSize >= SndBufSize
SendBlockedWhileFull == Full /\ peerHealth
SendBlocked == Live /\ Full /\ peerHealth

SendWait(t) ==
    /\ pc[t] \in {"send", "sendWoken"}
    /\ synSending /\ SendBlocked
    /\ Goto(t, "sendWait")
    /\ UNCHANGED <<lock, flagVars, bufVars, peerHealth, modeVars, epollVars>>

\* The call throws an exception.  A peer error is reported by one call, and
\* only when that call found the buffer full.
SendFail(t) ==
    /\ \/ pc[t] = "send" /\ Full /\ ~(synSending /\ SendBlocked)
       \/ pc[t] = "sendWoken" /\ ~(Live /\ peerHealth)
    /\ peerHealth' = (peerHealth \/ (synSending /\ Live))
    /\ Return(t)
    /\ UNCHANGED <<flagVars, bufVars, modeVars, epollVars>>

SendTimeUp(t) ==
    /\ t \in Timed /\ pc[t] = "sendWait"
    /\ IF Full THEN Return(t) /\ peerHealth' = (peerHealth \/ Live)
               ELSE Goto(t, "sendWoken") /\ UNCHANGED <<lock, peerHealth>>
    /\ UNCHANGED <<flagVars, bufVars, modeVars, epollVars>>

\* addBuffer.  The flags are not tested again once the lock is held, unless
\* the call has waited.
SendAdd(t) ==
    /\ \/ pc[t] = "send"
       \/ pc[t] = "sendWoken" /\ Live /\ peerHealth
    /\ \E n \in 1 .. SndBufSize - sndBufSize :
          /\ sndBufSize' = sndBufSize + n
          /\ IF sndBufSize' = SndBufSize THEN Goto(t, "sendEvent") /\ UNCHANGED lock
                                         ELSE Return(t)
    /\ UNCHANGED <<flagVars, rcvDataSize, peerHealth, modeVars, epollVars>>

\* "write is not available any more", if it still is not.
SendEvent(t) ==
    /\ pc[t] = "sendEvent"
    /\ writes' = FALSE
    /\ Return(t)
    /\ UNCHANGED <<flagVars, bufVars, peerHealth, modeVars, watched, reads>>
-----------------------------------------------------------------------------
(* setOpt(), of UDT_RCVSYN and UDT_SNDSYN, takes all three locks.          *)

SetOptCall(t) ==
    /\ t \in Setters /\ pc[t] = "idle" /\ MayCall(t)
    /\ ~broken /\ ~closing
    /\ Goto(t, "setConnection")
    /\ UNCHANGED <<lock, flagVars, bufVars, peerHealth, modeVars, epollVars>>

SetOptLock(t) ==
    /\ \/ pc[t] = "setConnection" /\ Acquire(t, "connection") /\ Goto(t, "setSend")
       \/ pc[t] = "setSend" /\ Acquire(t, "send") /\ Goto(t, "setRecv")
       \/ pc[t] = "setRecv" /\ Acquire(t, "recv") /\ Goto(t, "set")
    /\ UNCHANGED <<flagVars, bufVars, peerHealth, modeVars, epollVars>>

SetOpt(t) ==
    /\ pc[t] = "set"
    /\ \/ synRecving' = ~synRecving /\ UNCHANGED synSending
       \/ synSending' = ~synSending /\ UNCHANGED synRecving
    /\ Return(t)
    /\ UNCHANGED <<flagVars, bufVars, peerHealth, epollVars>>
-----------------------------------------------------------------------------
(* releaseSynch(), called by the worker and by close().                    *)

AfterRelease(t) == IF t \in Closers THEN "disconnect"
                   ELSE IF expired THEN "brokenEvent" ELSE "idle"

ReleaseSend(t) ==
    /\ pc[t] = "releaseSend"
    /\ Signal(t, "passSend", "sendWait", "sendWoken")
    /\ UNCHANGED <<lock, flagVars, bufVars, peerHealth, modeVars, epollVars>>

PassSend(t) ==
    /\ pc[t] = "passSend"
    /\ lock["send"] = NoThread
    /\ Goto(t, "releaseRecv")
    /\ UNCHANGED <<lock, flagVars, bufVars, peerHealth, modeVars, epollVars>>

ReleaseRecvUnsignalled(t) ==
    /\ pc[t] = "releaseRecv"
    /\ Goto(t, "passRecv")
    /\ UNCHANGED <<lock, flagVars, bufVars, peerHealth, modeVars, epollVars>>

ReleaseRecv(t) ==
    /\ pc[t] = "releaseRecv"
    /\ Signal(t, "passRecv", "recvWait", "recv")
    /\ UNCHANGED <<lock, flagVars, bufVars, peerHealth, modeVars, epollVars>>

PassRecv(t) ==
    /\ pc[t] = "passRecv"
    /\ lock["recv"] = NoThread
    /\ Goto(t, AfterRelease(t))
    /\ UNCHANGED <<lock, flagVars, bufVars, peerHealth, modeVars, epollVars>>
-----------------------------------------------------------------------------
(* close().                                                                *)

CloseCall(t) ==
    /\ t \in Closers /\ pc[t] = "idle" /\ MayCall(t)
    /\ opened
    /\ Goto(t, "linger")
    /\ UNCHANGED <<lock, flagVars, bufVars, peerHealth, modeVars, epollVars>>

\* Data waits to be acknowledged: a socket that sends asynchronously is left
\* to garbage collection.
CloseLater(t) ==
    /\ pc[t] = "linger"
    /\ ~broken /\ connected /\ sndBufSize > 0 /\ ~synSending
    /\ Goto(t, "idle")
    /\ UNCHANGED <<lock, flagVars, bufVars, peerHealth, modeVars, epollVars>>

\* The linger is over, or there is none.  The socket leaves its epolls, and
\* stays in their sets of events.
CloseEvents(t) ==
    /\ pc[t] = "linger"
    /\ watched' = FALSE
    /\ Goto(t, "close")
    /\ UNCHANGED <<lock, flagVars, bufVars, peerHealth, modeVars, reads, writes>>

\* "Inform the threads handler to stop."
CloseFlag(t) ==
    /\ pc[t] = "close"
    /\ IF opened THEN closing' = TRUE /\ Goto(t, "closeConnection")
                 ELSE Goto(t, "idle") /\ UNCHANGED closing
    /\ UNCHANGED <<lock, broken, connected, opened, expired, bufVars, peerHealth,
                   modeVars, epollVars>>

CloseLock(t) ==
    /\ \/ pc[t] = "closeConnection" /\ Acquire(t, "connection") /\ Goto(t, "releaseSend")
       \/ pc[t] = "closeSend" /\ Acquire(t, "send") /\ Goto(t, "closeRecv")
       \/ pc[t] = "closeRecv" /\ Acquire(t, "recv") /\ Goto(t, "closed")
    /\ UNCHANGED <<flagVars, bufVars, peerHealth, modeVars, epollVars>>

Disconnect(t) ==
    /\ pc[t] = "disconnect"
    /\ connected' = FALSE
    /\ Goto(t, "closeSend")
    /\ UNCHANGED <<lock, broken, closing, opened, expired, bufVars, peerHealth,
                   modeVars, epollVars>>

Closed(t) ==
    /\ pc[t] = "closed"
    /\ opened' = FALSE
    /\ Return(t)
    /\ UNCHANGED <<broken, closing, connected, expired, bufVars, peerHealth,
                   modeVars, epollVars>>
-----------------------------------------------------------------------------
(* The rcv queue worker: it serves a live socket, and ends what it began.  *)

Serving == pc[Worker] = "idle" /\ Live

\* sendCtrl(2): more data can be read.
AckRcvData ==
    /\ Serving
    /\ \E n \in 1 .. MaxRcvData - rcvDataSize : rcvDataSize' = rcvDataSize + n
    /\ Goto(Worker, "dataSignal")
    /\ UNCHANGED <<lock, flagVars, sndBufSize, peerHealth, modeVars, epollVars>>

SignalData ==
    /\ pc[Worker] = "dataSignal"
    /\ IF synRecving THEN Signal(Worker, "dataEvent", "recvWait", "recv")
                     ELSE Goto(Worker, "dataEvent")
    /\ UNCHANGED <<lock, flagVars, bufVars, peerHealth, modeVars, epollVars>>

DataEvent ==
    /\ pc[Worker] = "dataEvent"
    /\ reads' = (reads \/ watched)
    /\ Goto(Worker, "idle")
    /\ UNCHANGED <<lock, flagVars, bufVars, peerHealth, modeVars, watched, writes>>

\* processCtrl(2): the peer has acknowledged data.
AckSndData ==
    /\ Serving
    /\ \E n \in 1 .. sndBufSize : sndBufSize' = sndBufSize - n
    /\ Goto(Worker, "spaceSignal")
    /\ UNCHANGED <<lock, flagVars, rcvDataSize, peerHealth, modeVars, epollVars>>

SignalSpace ==
    /\ pc[Worker] = "spaceSignal"
    /\ IF synSending THEN Signal(Worker, "spaceEvent", "sendWait", "sendWoken")
                     ELSE Goto(Worker, "spaceEvent")
    /\ UNCHANGED <<lock, flagVars, bufVars, peerHealth, modeVars, epollVars>>

SpaceEvent ==
    /\ pc[Worker] = "spaceEvent"
    /\ writes' = (writes \/ watched)
    /\ Goto(Worker, "idle")
    /\ UNCHANGED <<lock, flagVars, bufVars, peerHealth, modeVars, watched, reads>>

\* processCtrl(8): the peer's recvfile() has failed.
PeerError ==
    /\ Serving
    /\ peerHealth' = FALSE
    /\ UNCHANGED <<pc, lock, flagVars, bufVars, modeVars, epollVars>>

\* A shutdown from the peer, or no sign of it for too long.
Break(expires) ==
    /\ Serving
    /\ broken' = TRUE /\ closing' = TRUE /\ expired' = expires
    /\ Goto(Worker, "releaseSend")
    /\ UNCHANGED <<lock, connected, opened, bufVars, peerHealth, modeVars, epollVars>>

BrokenEvent ==
    /\ pc[Worker] = "brokenEvent"
    /\ reads' = (reads \/ watched) /\ writes' = (writes \/ watched)
    /\ Goto(Worker, "idle")
    /\ UNCHANGED <<lock, flagVars, bufVars, peerHealth, modeVars, watched>>
-----------------------------------------------------------------------------
RecvNext(t) == RecvLock(t) \/ RecvWait(t) \/ RecvFail(t) \/ RecvRead(t) \/ RecvEvent(t)
SendNext(t) == SendLock(t) \/ SendWait(t) \/ SendFail(t) \/ SendAdd(t) \/ SendEvent(t)
SetOptNext(t) == SetOptLock(t) \/ SetOpt(t)
ReleaseNext(t) == ReleaseSend(t) \/ PassSend(t) \/ ReleaseRecv(t) \/ PassRecv(t)
CloseNext(t) == \/ CloseLater(t) \/ CloseEvents(t) \/ CloseFlag(t) \/ CloseLock(t)
                \/ Disconnect(t) \/ Closed(t)
WorkerNext == SignalData \/ DataEvent \/ SignalSpace \/ SpaceEvent \/ BrokenEvent

ThreadNext(t) == \/ RecvNext(t) \/ SendNext(t) \/ SetOptNext(t) \/ ReleaseNext(t)
                 \/ CloseNext(t)
                 \/ t = Worker /\ WorkerNext

Next ==
    \/ \E t \in Threads :
           \/ RecvCall(t) \/ SendCall(t) \/ SetOptCall(t) \/ CloseCall(t)
           \/ RecvTimeUp(t) \/ SendTimeUp(t)
           \/ ThreadNext(t)
    \/ AckRcvData \/ AckSndData \/ PeerError \/ \E e \in BOOLEAN : Break(e)

Spec == Init /\ [][Next]_vars

\* A thread that is inside a call and not blocked goes on.  That calls are made,
\* timeouts pass, or anything arrives is not assumed.
FairSpec ==
    /\ Spec
    /\ \A t \in Readers : WF_vars(RecvNext(t))
    /\ \A t \in Writers : WF_vars(SendNext(t))
    /\ \A t \in Setters : WF_vars(SetOptNext(t))
    /\ \A t \in Closers : WF_vars(CloseNext(t) \/ ReleaseNext(t))
    /\ WF_vars(WorkerNext \/ ReleaseNext(Worker))
-----------------------------------------------------------------------------
ReleaseLabels == {"releaseSend", "passSend", "releaseRecv", "passRecv"}
ClosingLabels == ReleaseLabels \cup {"closeConnection", "disconnect", "closeSend",
                                     "closeRecv", "closed"}
RecvLabels == {"idle", "recvLock", "recv", "recvWait", "recvEvent"}
SendLabels == {"idle", "sendLock", "send", "sendWait", "sendWoken", "sendEvent"}
SetOptLabels == {"idle", "setConnection", "setSend", "setRecv", "set"}
CloseLabels == {"idle", "linger", "close"} \cup ClosingLabels
WorkerLabels == {"idle", "dataSignal", "dataEvent", "spaceSignal", "spaceEvent",
                 "brokenEvent"} \cup ReleaseLabels
Labels == RecvLabels \cup SendLabels \cup SetOptLabels \cup CloseLabels \cup WorkerLabels

TypeOK ==
    /\ pc \in [Threads -> Labels]
    /\ lock \in [Locks -> Threads \cup {NoThread}]
    /\ rcvDataSize \in 0 .. MaxRcvData
    /\ sndBufSize \in 0 .. SndBufSize
    /\ broken \in BOOLEAN /\ closing \in BOOLEAN /\ connected \in BOOLEAN
    /\ opened \in BOOLEAN /\ expired \in BOOLEAN /\ peerHealth \in BOOLEAN
    /\ synRecving \in BOOLEAN /\ synSending \in BOOLEAN
    /\ watched \in BOOLEAN /\ reads \in BOOLEAN /\ writes \in BOOLEAN

\* Which thread can be where, which locks it holds there, and what is known of
\* the modes and flags: with TypeOK and the three invariants below, inductive.
RolesKept ==
    /\ \A t \in Readers : pc[t] \in RecvLabels
    /\ \A t \in Writers : pc[t] \in SendLabels
    /\ \A t \in Setters : pc[t] \in SetOptLabels
    /\ \A t \in Closers : pc[t] \in CloseLabels
    /\ pc[Worker] \in WorkerLabels

LocksHeld ==
    \A t \in Threads :
        /\ pc[t] \in {"recv", "recvWait", "recvEvent", "set", "closed"}
               => lock["recv"] = t
        /\ pc[t] \in {"send", "sendWait", "sendWoken", "sendEvent", "setRecv", "set",
                      "closeRecv", "closed"}
               => lock["send"] = t

ModesKept ==
    \A t \in Threads : /\ pc[t] = "recvWait" => synRecving
                       /\ pc[t] = "sendWait" => synSending

ClosingKept ==
    /\ \A t \in Closers : pc[t] \in ClosingLabels => closing
    /\ broken \/ ~connected \/ ~opened => closing

\* A thread that has begun to break or close the connection comes to signal
\* both conditions.
WillRelease(t, labels) ==
    \/ t \in Closers /\ pc[t] = "closeConnection"
    \/ pc[t] \in labels

\* recv() tests flags that are set, and sizes that change, without the mutex of
\* its condition: when what it waits for has come true, a signal is on its way.
NoLostRecvWakeup ==
    (\E t \in Readers : pc[t] = "recvWait") /\ ~(Live /\ rcvDataSize = 0) =>
        \/ pc[Worker] = "dataSignal"
        \/ \E t \in Threads : WillRelease(t, {"releaseSend", "passSend", "releaseRecv"})

\* The same of send(), for room in the buffer and the end of the connection.
NoLostSendWakeup ==
    (\E t \in Writers : pc[t] = "sendWait") /\ ~(Live /\ Full) =>
        \/ pc[Worker] = "spaceSignal"
        \/ \E t \in Threads : WillRelease(t, {"releaseSend"})

\* close() ends ("CLOSED") only when no call waits inside the socket, nor will:
\* it may be deleted soon afterwards.
NobodyWaitsOnClosed ==
    ~opened => \A t \in Threads : pc[t] \notin {"recvWait", "sendWait"}

BlockingInv ==
    /\ TypeOK /\ RolesKept /\ LocksHeld /\ ModesKept /\ ClosingKept
    /\ NoLostRecvWakeup /\ NoLostSendWakeup /\ NobodyWaitsOnClosed

\* Once the connection is broken or being closed every call in progress comes
\* to its end, close() itself and the worker's handler included.
CallsEnd ==
    \A t \in Threads : (pc[t] # "idle" /\ closing) ~> pc[t] = "idle"

\* "Signal the sender and recver if they are waiting for data", of close() and
\* of a shutdown: a reader does not go on waiting.
ReadersReleased ==
    \A t \in Readers : (pc[t] = "recvWait" /\ closing) ~> pc[t] # "recvWait"

\* After a peer error "blocked sendfile/send should return immediately, giving
\* the app a chance to fix the issue".
PeerErrorReleases ==
    \A t \in Writers : (pc[t] = "sendWait" /\ ~peerHealth) ~> pc[t] # "sendWait"

\* Nobody is about to change the read event, and there is data: a watching
\* epoll reports the socket readable.
ReadinessKept ==
    /\ Live /\ watched /\ rcvDataSize > 0
    /\ pc[Worker] = "idle"
    /\ \A t \in Readers : pc[t] = "idle"
    => reads
=============================================================================
