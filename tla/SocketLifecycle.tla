---------------------------- MODULE SocketLifecycle ----------------------------
(***************************************************************************)
(* The sockets of one process (CUDTUnited): created and bound by the       *)
(* application, accepted from a listener's queue, closed by the            *)
(* application or broken by the peer, and deleted by garbage collection    *)
(* once nothing should point at them.                                      *)
(*                                                                         *)
(* Four threads meet here: the application, with one thread in accept()    *)
(* and one in close(); the rcv queue worker of the one port, which turns   *)
(* connection requests into sockets (CUDTUnited::newConnection, one step   *)
(* for each lock it takes) and keeps the list of sockets it serves; and    *)
(* the garbage collector.  Every step that holds                           *)
(* CUDTUnited::m_ControlLock is one action.                                *)
(*                                                                         *)
(* All sockets are bound to one reusable port, so that one multiplexer,    *)
(* named after the socket that created it, exists at a time.               *)
(***************************************************************************)
EXTENDS Integers, FiniteSets, Sequences, FiniteSetsExt

CONSTANTS
    MaxSockets,     \* bound: sockets created
    MaxCreated,     \* bound: the application creates none after so many
    Peers,          \* connection requests: peer address, peer ID and ISN
    Backlog,        \* m_uiBackLog
    NoSock, NoPeer,
    Modes,          \* values of <<m_bSynSending, m_bSynRecving>>
    AllocFails,     \* newConnection may run out of memory
    LateRequests    \* a request may arrive while its listener is deleted

SockId == 1 .. MaxSockets

ASSUME BoundsAssumption ==
    /\ MaxSockets \in Nat \ {0} /\ MaxCreated \in 0 .. MaxSockets
    /\ Modes \subseteq BOOLEAN \X BOOLEAN
    /\ Backlog \in Nat \ {0}
    /\ NoSock \notin SockId /\ NoPeer \notin Peers
    /\ AllocFails \in BOOLEAN /\ LateRequests \in BOOLEAN

VARIABLES
    running,        \* between startup() and cleanup()
    nextId,         \* CUDTUnited::m_SocketID, which counts down
    status,         \* m_Status, or "none" before and "deleted" after its life
    sockets, closedSockets,               \* m_Sockets, m_ClosedSockets
    opened, connected, broken, closing,   \* sockets with m_bOpened, ...
    lingering,      \* sockets with an m_ullLingerExpiration
    listenSocket, peer,   \* m_ListenSocket; m_PeerID, m_iISN and the address
    queued,         \* m_pQueuedSockets
    readable,       \* listeners with the epoll event UDT_EPOLL_IN
    muxOf, muxRef,  \* m_iMuxID; m_iRefCount of each multiplexer
    pListener, newEntry,  \* CRcvQueue::m_pListener, m_vNewEntry
    rcvList,        \* sockets on CRcvUList and in CHash
    onList,         \* CRNode::m_bOnList
    unsent,         \* sockets with something in the send buffer
    known,          \* sockets the application was given and that exist
    worker, accepter, closer,             \* where the three threads are
    synSending, synRecving

registryVars == <<nextId, status, sockets, closedSockets>>
flagVars == <<opened, connected, broken, closing>>
originVars == <<listenSocket, peer>>
muxVars == <<muxOf, muxRef>>
rcvQueueVars == <<pListener, newEntry, rcvList, onList>>
modeVars == <<running, synSending, synRecving>>
vars == <<registryVars, flagVars, lingering, originVars, queued, readable,
          muxVars, rcvQueueVars, unsent, known, worker, accepter, closer, modeVars>>

IdleWorker == [pc |-> "idle", ls |-> NoSock, peer |-> NoPeer, ns |-> NoSock]
IdleAccepter == [pc |-> "idle", ls |-> NoSock, got |-> NoSock]
IdleCloser == [pc |-> "idle", s |-> NoSock]

Init ==
    /\ running = TRUE /\ nextId = MaxSockets
    /\ status = [s \in SockId |-> "none"]
    /\ lingering = {}
    /\ listenSocket = [s \in SockId |-> NoSock]
    /\ peer = [s \in SockId |-> NoPeer]
    /\ queued = [s \in SockId |-> {}]
    /\ muxOf = [s \in SockId |-> NoSock]
    /\ muxRef = [s \in SockId |-> 0]
    /\ sockets = {} /\ closedSockets = {}
    /\ opened = {} /\ connected = {} /\ broken = {} /\ closing = {}
    /\ readable = {}
    /\ pListener = NoSock /\ newEntry = <<>> /\ rcvList = {} /\ onList = {}
    /\ unsent = {}
    /\ known = {}
    /\ worker = IdleWorker /\ accepter = IdleAccepter /\ closer = IdleCloser
    /\ \E m \in Modes : synSending = m[1] /\ synRecving = m[2]

Live(s) == s \in connected /\ s \notin broken /\ s \notin closing

\* CUDTUnited::locate(u)
Located(s) == s \in sockets /\ status[s] # "CLOSED"

\* Mutant: only connections that are not accepted yet are looked at.
LocatedByPeerInQueues(p) ==
    LET found == {s \in UNION {queued[l] : l \in SockId} : peer[s] = p} IN
    IF found = {} THEN NoSock ELSE Min(found)

\* CUDTUnited::locate(peer, id, isn): the sets of m_PeerRec are in order of the
\* IDs, which count down, so that the newest socket of a request comes first.
LocatedByPeer(p) ==
    LET found == {s \in sockets : peer[s] = p} IN
    IF found = {} THEN NoSock ELSE Min(found)

\* The multiplexer of the port, if there is one.
PortMux == {m \in SockId : muxRef[m] > 0}

\* Mutant: the socket is not counted.
JoinMuxUncounted(s, m) == muxOf' = [muxOf EXCEPT ![s] = m] /\ UNCHANGED muxRef

\* CUDTUnited::updateMux(): socket s uses multiplexer m.
JoinMux(s, m) ==
    /\ muxOf' = [muxOf EXCEPT ![s] = m]
    /\ muxRef' = [muxRef EXCEPT ![m] = @ + 1]

\* CUDT::close() stays in, or leaves early from, its linger loop.
Lingers(s) ==
    /\ s \in opened /\ s \in connected /\ s \notin broken /\ s \in unsent
    /\ s \notin lingering

\* The rest of CUDT::close(), for each of the sockets in S.
CloseUDT(S) ==
    /\ readable' = readable \ (S \cap opened)
    /\ pListener' = IF pListener \in S \cap opened THEN NoSock ELSE pListener
    /\ connected' = connected \ (S \cap opened)
    /\ opened' = opened \ S

SetStatus(S, st) == [s \in SockId |-> IF s \in S THEN st ELSE status[s]]
-----------------------------------------------------------------------------
(* Calls of the application.  bind() and listen() take CUDTSocket's own    *)
(* m_ControlLock, and so wait for a close() of the socket.                 *)

NewSocket ==
    /\ running /\ nextId > MaxSockets - MaxCreated
    /\ nextId' = nextId - 1
    /\ status' = [status EXCEPT ![nextId] = "INIT"]
    /\ sockets' = sockets \cup {nextId}
    /\ known' = known \cup {nextId}
    /\ UNCHANGED <<closedSockets, flagVars, lingering, originVars, queued,
                   readable, muxVars, rcvQueueVars, unsent, worker, accepter,
                   closer, modeVars>>

\* CUDT::open() and updateMux(s, addr): join the multiplexer of the port or
\* create it.
Bind(s) ==
    /\ s \in known /\ Located(s) /\ closer.s # s
    /\ status[s] = "INIT"
    /\ \E m \in IF PortMux = {} THEN {s} ELSE PortMux : JoinMux(s, m)
    /\ status' = [status EXCEPT ![s] = "OPENED"]
    /\ opened' = opened \cup {s}
    /\ onList' = onList \ {s}
    /\ UNCHANGED <<nextId, sockets, closedSockets, connected, broken, closing,
                   lingering, originVars, queued, readable, pListener, newEntry,
                   rcvList, unsent, known, worker, accepter, closer, modeVars>>

\* One socket listens on a port at a time (CRcvQueue::setListener).
Listen(s) ==
    /\ s \in known /\ Located(s) /\ closer.s # s
    /\ status[s] = "OPENED"
    /\ pListener = NoSock
    /\ pListener' = s
    /\ status' = [status EXCEPT ![s] = "LISTENING"]
    /\ UNCHANGED <<nextId, sockets, closedSockets, flagVars, lingering,
                   originVars, queued, readable, muxVars, newEntry, rcvList, onList,
                   unsent, known, worker, accepter, closer, modeVars>>

Send(s) ==
    /\ s \in known /\ Located(s) /\ Live(s)
    /\ unsent' = unsent \cup {s}
    /\ UNCHANGED <<registryVars, flagVars, lingering, originVars, queued, readable,
                   muxVars, rcvQueueVars, known, worker, accepter, closer, modeVars>>
-----------------------------------------------------------------------------
(* accept().  Testing the queue and waiting is one step, under             *)
(* m_AcceptLock.                                                           *)

AcceptCall(l) ==
    /\ accepter.pc = "idle"
    /\ l \in known /\ Located(l) /\ status[l] = "LISTENING"
    /\ accepter' = [accepter EXCEPT !.pc = "test", !.ls = l]
    /\ UNCHANGED <<registryVars, flagVars, lingering, originVars, queued, readable,
                   muxVars, rcvQueueVars, unsent, known, worker, closer, modeVars>>

\* Mutant: accept() does not look at m_bBroken.
AcceptClosedByStatus(l) == status[l] # "LISTENING"

\* m_bBroken, or what close() has made of the status.
AcceptClosed(l) == status[l] # "LISTENING" \/ l \in broken

\* Mutant: accept() always clears the event.
ClearReadableAnyway(l) == readable' = readable \ {l}

\* Without connections in the queue the listener is not readable.
ClearReadable(l) == readable' = IF queued'[l] = {} THEN readable \ {l} ELSE readable

AcceptTake ==
    LET l == accepter.ls IN
    /\ accepter.pc = "test"
    /\ ~AcceptClosed(l) /\ queued[l] # {}
    /\ accepter' = [accepter EXCEPT !.pc = "got", !.got = Min(queued[l])]
    /\ queued' = [queued EXCEPT ![l] = @ \ {Min(@)}]
    /\ ClearReadable(l)
    /\ UNCHANGED <<registryVars, flagVars, lingering, originVars, muxVars,
                   rcvQueueVars, unsent, known, worker, closer, modeVars>>

AcceptFail ==
    LET l == accepter.ls IN
    /\ accepter.pc = "test"
    /\ AcceptClosed(l) \/ (queued[l] = {} /\ ~synRecving)
    /\ accepter' = IdleAccepter
    /\ UNCHANGED queued /\ ClearReadable(l)
    /\ UNCHANGED <<registryVars, flagVars, lingering, originVars, muxVars,
                   rcvQueueVars, unsent, known, worker, closer, modeVars>>

AcceptWait ==
    LET l == accepter.ls IN
    /\ accepter.pc = "test"
    /\ ~AcceptClosed(l) /\ queued[l] = {} /\ synRecving
    /\ accepter' = [accepter EXCEPT !.pc = "waiting"]
    /\ UNCHANGED <<registryVars, flagVars, lingering, originVars, queued, readable,
                   muxVars, rcvQueueVars, unsent, known, worker, closer, modeVars>>

AcceptWoken ==
    /\ accepter.pc = "woken"
    /\ accepter' = [accepter EXCEPT !.pc = "test"]
    /\ UNCHANGED queued /\ ClearReadable(accepter.ls)
    /\ UNCHANGED <<registryVars, flagVars, lingering, originVars, muxVars,
                   rcvQueueVars, unsent, known, worker, closer, modeVars>>

AcceptReturn ==
    /\ accepter.pc = "got"
    /\ known' = known \cup {accepter.got}
    /\ accepter' = IdleAccepter
    /\ UNCHANGED <<registryVars, flagVars, lingering, originVars, queued, readable,
                   muxVars, rcvQueueVars, unsent, worker, closer, modeVars>>

\* m_AcceptCond is signalled for listener l.
WakeAccepter(l) ==
    accepter' = IF accepter.pc = "waiting" /\ accepter.ls = l
                THEN [accepter EXCEPT !.pc = "woken"] ELSE accepter
-----------------------------------------------------------------------------
(* CUDTUnited::close().                                                    *)

\* A listener is only marked; garbage collection closes it later.
CloseListener(s) ==
    /\ closer.pc = "idle"
    /\ s \in known /\ Located(s)
    /\ status[s] = "LISTENING" /\ s \notin broken
    /\ broken' = broken \cup {s}
    /\ closer' = [pc |-> "broadcast", s |-> s]
    /\ UNCHANGED <<nextId, status, sockets, closedSockets, opened, connected, closing,
                   lingering, originVars, queued, readable, muxVars, rcvQueueVars,
                   unsent, known, worker, accepter, modeVars>>

CloseBroadcast ==
    /\ closer.pc = "broadcast"
    /\ WakeAccepter(closer.s)
    /\ closer' = IdleCloser
    /\ UNCHANGED <<registryVars, flagVars, lingering, originVars, queued, readable,
                   muxVars, rcvQueueVars, unsent, known, worker, modeVars>>

\* CUDT::close() where unsent data keeps it: a blocking call waits, another one
\* leaves the socket to garbage collection.
CloseLingers(s) ==
    /\ closer.pc = "idle"
    /\ s \in known /\ Located(s) /\ status[s] # "LISTENING"
    /\ Lingers(s)
    /\ closer' = [pc |-> IF synSending THEN "linger" ELSE "unregister", s |-> s]
    /\ lingering' = IF synSending THEN lingering ELSE lingering \cup {s}
    /\ UNCHANGED <<registryVars, flagVars, originVars, queued, readable,
                   muxVars, rcvQueueVars, unsent, known, worker, accepter, modeVars>>

\* CUDT::close() without linger, or after it: the data has been sent, the
\* connection is broken or the time is up.
CloseConnection(s) ==
    /\ \/ /\ closer.pc = "idle"
          /\ s \in known /\ Located(s) /\ status[s] # "LISTENING"
          /\ ~Lingers(s)
       \/ closer.pc = "linger" /\ closer.s = s
    /\ CloseUDT({s})
    /\ closing' = closing \cup ({s} \cap opened)
    /\ closer' = [pc |-> "unregister", s |-> s]
    /\ UNCHANGED <<registryVars, broken, lingering, originVars, queued, muxVars,
                   newEntry, rcvList, onList, unsent, known, worker, accepter, modeVars>>

\* Under CUDTUnited::m_ControlLock: the socket may have been closed meanwhile.
CloseUnregister ==
    LET s == closer.s IN
    /\ closer.pc = "unregister"
    /\ IF Located(s)
       THEN /\ status' = [status EXCEPT ![s] = "CLOSED"]
                    /\ sockets' = sockets \ {s}
            /\ closedSockets' = closedSockets \cup {s}
       ELSE UNCHANGED <<status, sockets, closedSockets>>
    /\ closer' = IdleCloser
    /\ UNCHANGED <<nextId, flagVars, lingering, originVars, queued, readable, muxVars,
                   rcvQueueVars, unsent, known, worker, accepter, modeVars>>

\* cleanup(), called when no other call is in progress, ends garbageCollect(): it
\* closes every socket, and does not wait before it deletes them.
Cleanup ==
    /\ running
    /\ accepter.pc = "idle" /\ closer.pc = "idle"
    /\ LateRequests \/ worker.pc = "idle"
    /\ running' = FALSE
    /\ broken' = broken \cup sockets
    /\ CloseUDT(sockets)
    /\ closing' = closing \cup (sockets \cap opened)
    /\ status' = SetStatus(sockets, "CLOSED")
    /\ sockets' = {} /\ closedSockets' = closedSockets \cup sockets
    /\ queued' = [l \in SockId |-> {s \in queued[l] : s \notin sockets}]
    /\ UNCHANGED <<nextId, lingering, originVars, muxVars, newEntry, rcvList, onList,
                   unsent, known, worker, accepter, closer, synSending, synRecving>>
-----------------------------------------------------------------------------
(* Garbage collection: checkBrokenSockets(), with the removeSocket() of    *)
(* every socket it deletes, under CUDTUnited::m_ControlLock.  Time is left  *)
(* to the pass: it finds the time since m_TimeStamp passed for the sockets *)
(* in due, and the linger time for those in up.                            *)

\* The threads that have located a socket and are about to use it; one that waits
\* for m_AcceptCond may do so for ever.
InUse(s) ==
    \/ worker.pc \notin {"idle", "listen"} /\ s \in {worker.ls, worker.ns}
    \/ accepter.pc \notin {"idle", "waiting"} /\ s \in {accepter.ls, accepter.got}
    \/ closer.pc # "idle" /\ s = closer.s

\* Mutant: garbage collection does not wait for the worker's list.
RemovableByTime == {s \in closedSockets : ~running \/ ~InUse(s)}

\* Sockets that may be deleted, one second after they were closed: longer than any
\* thread needs between locating a socket and its last use of it, and closed sockets
\* are no longer located.  cleanup() does not wait.
Removable == {s \in closedSockets : s \notin onList /\ (~running \/ ~InUse(s))}

\* A listener is closed three seconds after it broke.
BrokenListeners == {s \in sockets \cap broken : status[s] = "LISTENING"}

\* Broken connections may be kept while they have unread data, for as many passes as
\* m_iBrokenCounter allows.
MayHaveUnread == {s \in sockets \cap broken : listenSocket[s] # NoSock}

ToBeClosed(unread, due) ==
    {s \in sockets \cap broken :
        IF s \in BrokenListeners THEN s \in due ELSE s \notin unread}

\* Closed sockets whose linger ends.
Lingered(tbc, up) ==
    {s \in lingering \cap (closedSockets \cup tbc) : s \notin unsent \/ s \in up}

\* Mutant: the queue of a deleted listener is forgotten.
OrphansForgotten(tbr, tbc) == {}

\* Sockets in the queues of deleted listeners.
Orphans(tbr, tbc) == (UNION {queued[l] : l \in tbr}) \ tbc

\* Mutant: the listener is only looked for among the open sockets.
DequeueFromOpen(l, S) ==
    {s \in queued[l] : ~(s \in S /\ listenSocket[s] = l /\ l \in sockets)}

\* Erased from the queue of their listener, if it still exists.
Dequeue(l, S) ==
    {s \in queued[l] : ~(s \in S /\ listenSocket[s] = l /\ l \in sockets \cup closedSockets)}

Collect(unread, due, up) ==
    LET tbc == ToBeClosed(unread, due)
        lingered == Lingered(tbc, up)
        tbr == (due \cap closedSockets) \ lingered
        orphans == Orphans(tbr, tbc)
        closed == {s \in tbr : synSending \/ ~Lingers(s)} \cup orphans
        Gone(v, none) == [s \in SockId |-> IF s \in tbr THEN none ELSE v[s]]
    IN
    /\ tbc \cup lingered \cup tbr # {}
    /\ LateRequests \/ worker.pc = "idle" \/ worker.ls \notin tbr
    /\ CloseUDT(closed)
    /\ broken' = (broken \cup orphans) \ tbr
    /\ closing' = (closing \cup lingered \cup (closed \cap opened)) \ tbr
    /\ lingering' = lingering \ (lingered \cup tbr)
    /\ status' = [s \in SockId |-> IF s \in tbr THEN "deleted"
                                   ELSE SetStatus(tbc \cup orphans, "CLOSED")[s]]
    /\ sockets' = sockets \ (tbc \cup orphans)
    /\ closedSockets' = (closedSockets \cup tbc \cup orphans) \ tbr
    /\ queued' = [l \in SockId |-> IF l \in tbr THEN {} ELSE Dequeue(l, tbc)]
    /\ muxRef' = [m \in SockId |-> muxRef[m] - Cardinality({s \in tbr : muxOf[s] = m})]
    /\ muxOf' = Gone(muxOf, NoSock)
    /\ listenSocket' = Gone(listenSocket, NoSock) /\ peer' = Gone(peer, NoPeer)
    /\ unsent' = unsent \ tbr /\ known' = known \ tbr
    /\ UNCHANGED <<nextId, newEntry, rcvList, onList, worker, accepter, closer,
                   modeVars>>

GarbageCollect ==
    \E unread \in SUBSET MayHaveUnread, due \in SUBSET (Removable \cup BrokenListeners),
       up \in SUBSET (lingering \cap unsent) :
        Collect(unread, due, up)
-----------------------------------------------------------------------------
(* The rcv queue worker.  It takes new entries first, then a packet, then  *)
(* looks for sockets to drop; a request keeps it until "idle" again.       *)

TakeNewEntry ==
    /\ worker.pc = "idle" /\ newEntry # <<>>
    /\ rcvList' = rcvList \cup {Head(newEntry)}
    /\ newEntry' = Tail(newEntry)
    /\ UNCHANGED <<registryVars, flagVars, lingering, originVars, queued, readable,
                   muxVars, pListener, onList, unsent, known, worker, accepter, closer,
                   modeVars>>

\* A connection request, the first or a repeated one, with a valid cookie:
\* CUDT::listen() of the listener is entered.  As a bound, none comes when all
\* sockets have been used.
Request(p) ==
    /\ worker.pc = "idle" /\ newEntry = <<>>
    /\ pListener # NoSock /\ nextId > 0
    /\ worker' = [pc |-> "listen", ls |-> pListener, peer |-> p, ns |-> NoSock]
    /\ UNCHANGED <<registryVars, flagVars, lingering, originVars, queued, readable,
                   muxVars, rcvQueueVars, unsent, known, accepter, closer, modeVars>>

\* newConnection(): a closed listener refuses.
LocateListener ==
    /\ worker.pc = "listen"
    /\ worker' = IF Located(worker.ls) THEN [worker EXCEPT !.pc = "peer"] ELSE IdleWorker
    /\ UNCHANGED <<registryVars, flagVars, lingering, originVars, queued, readable,
                   muxVars, rcvQueueVars, unsent, known, accepter, closer, modeVars>>

\* The request is repeated and its connection exists: answer again.
AnswerAgain ==
    LET old == LocatedByPeer(worker.peer) IN
    /\ worker.pc = "peer"
    /\ old # NoSock /\ old \notin broken
    /\ worker' = IdleWorker
    /\ UNCHANGED <<registryVars, flagVars, lingering, originVars, queued, readable,
                   muxVars, rcvQueueVars, unsent, known, accepter, closer, modeVars>>

\* Its connection is broken: leave that to garbage collection and go on.
ReplaceBroken ==
    LET old == LocatedByPeer(worker.peer) IN
    /\ worker.pc = "peer"
    /\ old # NoSock /\ old \in broken
    /\ status' = [status EXCEPT ![old] = "CLOSED"]
    /\ queued' = [queued EXCEPT ![worker.ls] = @ \ {old}]
    /\ worker' = [worker EXCEPT !.pc = "create"]
    /\ UNCHANGED <<nextId, sockets, closedSockets, flagVars, lingering, originVars,
                   readable, muxVars, rcvQueueVars, unsent, known, accepter, closer,
                   modeVars>>

NoOldConnection ==
    /\ worker.pc = "peer"
    /\ LocatedByPeer(worker.peer) = NoSock
    /\ worker' = [worker EXCEPT !.pc = "create"]
    /\ UNCHANGED <<registryVars, flagVars, lingering, originVars, queued, readable,
                   muxVars, rcvQueueVars, unsent, known, accepter, closer, modeVars>>

BacklogFull == Cardinality(queued[worker.ls]) >= Backlog

\* Refused with a full backlog, and, as a bound, when all sockets have been used.
Refuse ==
    /\ worker.pc = "create"
    /\ BacklogFull \/ nextId = 0
    /\ worker' = IdleWorker
    /\ UNCHANGED <<registryVars, flagVars, lingering, originVars, queued, readable,
                   muxVars, rcvQueueVars, unsent, known, accepter, closer, modeVars>>

\* The new socket has an ID and the multiplexer of the listener's port.
NewSocketOfPeer ==
    /\ worker.pc = "create"
    /\ ~BacklogFull
    /\ nextId > 0
    /\ nextId' = nextId - 1
    /\ listenSocket' = [listenSocket EXCEPT ![nextId] = worker.ls]
    /\ peer' = [peer EXCEPT ![nextId] = worker.peer]
    /\ \E m \in PortMux : JoinMux(nextId, m)

\* It is connected, and told so to the receive queue before it is registered.
Create ==
    /\ NewSocketOfPeer
    /\ opened' = opened \cup {nextId} /\ connected' = connected \cup {nextId}
    /\ onList' = onList \cup {nextId}
    /\ newEntry' = Append(newEntry, nextId)
    /\ status' = [status EXCEPT ![nextId] = "CONNECTED"]
    /\ worker' = [worker EXCEPT !.pc = "register", !.ns = nextId]
    /\ UNCHANGED <<sockets, closedSockets, broken, closing, lingering, queued,
                   readable, pListener, rcvList, unsent, known, accepter, closer,
                   modeVars>>

\* Out of memory in CUDT::connect(): the socket is closed but registered nowhere.
CreateFails ==
    /\ AllocFails
    /\ NewSocketOfPeer
    /\ closing' = closing \cup {nextId}
    /\ status' = [status EXCEPT ![nextId] = "CLOSED"]
    /\ worker' = IdleWorker
    /\ UNCHANGED <<sockets, closedSockets, opened, connected, broken, lingering, queued,
                   readable, rcvQueueVars, unsent, known, accepter, closer, modeVars>>

Register ==
    /\ worker.pc = "register"
    /\ sockets' = sockets \cup {worker.ns}
    /\ worker' = [worker EXCEPT !.pc = "queue"]
    /\ UNCHANGED <<nextId, status, closedSockets, flagVars, lingering, originVars,
                   queued, readable, muxVars, rcvQueueVars, unsent, known, accepter,
                   closer, modeVars>>

Enqueue ==
    /\ worker.pc = "queue"
    /\ queued' = [queued EXCEPT ![worker.ls] = @ \cup {worker.ns}]
    /\ worker' = [worker EXCEPT !.pc = "event"]
    /\ UNCHANGED <<registryVars, flagVars, lingering, originVars, readable, muxVars,
                   rcvQueueVars, unsent, known, accepter, closer, modeVars>>

\* A listener that CUDT::close() took out of every epoll gets no event.
Announce ==
    /\ worker.pc = "event"
    /\ readable' = readable \cup ({worker.ls} \cap opened)
    /\ worker' = [worker EXCEPT !.pc = "signal"]
    /\ UNCHANGED <<registryVars, flagVars, lingering, originVars, queued, muxVars,
                   rcvQueueVars, unsent, known, accepter, closer, modeVars>>

SignalAccept ==
    /\ worker.pc = "signal"
    /\ WakeAccepter(worker.ls)
    /\ worker' = IdleWorker
    /\ UNCHANGED <<registryVars, flagVars, lingering, originVars, queued, readable,
                   muxVars, rcvQueueVars, unsent, known, closer, modeVars>>

\* A shutdown arrives, or the peer has been silent for too long.
Break(s) ==
    /\ worker.pc = "idle" /\ newEntry = <<>>
    /\ s \in rcvList /\ Live(s)
    /\ broken' = broken \cup {s} /\ closing' = closing \cup {s}
    /\ UNCHANGED <<registryVars, opened, connected, lingering, originVars, queued, readable,
                   muxVars, rcvQueueVars, unsent, known, worker, accepter, closer,
                   modeVars>>

\* Everything sent is acknowledged.
Acknowledged(s) ==
    /\ worker.pc = "idle" /\ newEntry = <<>>
    /\ s \in rcvList /\ Live(s) /\ s \in unsent
    /\ unsent' = unsent \ {s}
    /\ UNCHANGED <<registryVars, flagVars, lingering, originVars, queued, readable,
                   muxVars, rcvQueueVars, known, worker, accepter, closer,
                   modeVars>>

\* Mutant: CRNode::m_bOnList stays set.
LeaveRcvListOnly(s) == rcvList' = rcvList \ {s} /\ UNCHANGED onList

\* CRcvUList::remove(), and CHash.
LeaveRcvList(s) == rcvList' = rcvList \ {s} /\ onList' = onList \ {s}

\* The timer check finds a socket that is no longer live.
Drop(s) ==
    /\ worker.pc = "idle" /\ newEntry = <<>>
    /\ s \in rcvList /\ ~Live(s)
    /\ LeaveRcvList(s)
    /\ UNCHANGED <<registryVars, flagVars, lingering, originVars, queued, readable,
                   muxVars, pListener, newEntry, unsent, known, worker, accepter, closer,
                   modeVars>>

-----------------------------------------------------------------------------
CallOn(s) ==
    \/ Bind(s) \/ Listen(s) \/ Send(s) \/ AcceptCall(s)
    \/ CloseListener(s) \/ CloseLingers(s) \/ CloseConnection(s)

AcceptStep == AcceptTake \/ AcceptFail \/ AcceptWait \/ AcceptWoken \/ AcceptReturn

CloseStep == CloseBroadcast \/ CloseUnregister

NewConnection ==
    \/ LocateListener \/ AnswerAgain \/ ReplaceBroken \/ NoOldConnection \/ Refuse
    \/ Create \/ CreateFails \/ Register \/ Enqueue \/ Announce \/ SignalAccept

WorkerOn(s) == Break(s) \/ Acknowledged(s) \/ Drop(s)

Next ==
    \/ NewSocket \/ AcceptStep \/ CloseStep \/ Cleanup
    \/ GarbageCollect
    \/ TakeNewEntry \/ NewConnection
    \/ \E p \in Peers : Request(p)
    \/ \E s \in SockId : CallOn(s) \/ WorkerOn(s)

Spec == Init /\ [][Next]_vars
-----------------------------------------------------------------------------
(* Properties.                                                             *)

Statuses ==
    {"none", "INIT", "OPENED", "LISTENING", "CONNECTED", "CLOSED", "deleted"}
SockOrNone == SockId \cup {NoSock}

\* The types of the variables.
TypeOK ==
    /\ running \in BOOLEAN /\ synSending \in BOOLEAN /\ synRecving \in BOOLEAN
    /\ nextId \in 0 .. MaxSockets
    /\ status \in [SockId -> Statuses]
    /\ listenSocket \in [SockId -> SockOrNone] /\ peer \in [SockId -> Peers \cup {NoPeer}]
    /\ queued \in [SockId -> SUBSET SockId]
    /\ muxOf \in [SockId -> SockOrNone] /\ muxRef \in [SockId -> Nat]
    /\ pListener \in SockOrNone /\ newEntry \in Seq(SockId)
    /\ \A S \in {sockets, closedSockets, opened, connected, broken, closing, readable,
                 rcvList, onList, unsent, lingering, known} : S \subseteq SockId
    /\ worker \in [pc : {"idle", "listen", "peer", "create", "register", "queue",
                         "event", "signal"},
                   ls : SockOrNone, peer : Peers \cup {NoPeer}, ns : SockOrNone]
    /\ accepter \in [pc : {"idle", "test", "waiting", "woken", "got"},
                     ls : SockOrNone, got : SockOrNone]
    /\ closer \in [pc : {"idle", "broadcast", "linger", "unregister"}, s : SockOrNone]

Deleted(s) == s \in SockId /\ status[s] = "deleted"

NewEntries == {newEntry[i] : i \in DOMAIN newEntry}

\* Nothing that a thread will follow points at a deleted socket: not the list and
\* hash table of the worker, its new entries and its listener, not the queue of a
\* listener, not a call that has located the socket, not even an accept() that has
\* waited since before its listener was closed.
NoDanglingSocket ==
    \A s \in SockId : Deleted(s) =>
        /\ s \notin rcvList \cup NewEntries \cup {pListener}
        /\ s \notin UNION {queued[l] : l \in SockId}
        /\ worker.pc # "idle" => s \notin {worker.ls, worker.ns}
        /\ accepter.pc # "idle" => s \notin {accepter.ls, accepter.got}
        /\ closer.pc # "idle" => s # closer.s

\* Every socket in the queue of a listener is in m_Sockets, where removeSocket looks
\* it up without a test, whoever else closes it or breaks it.
QueuedIsRegistered == \A l \in SockId : queued[l] \subseteq sockets

\* No connection is left that nobody can accept: one that the application does not
\* know waits in the queue of a listener that still exists, or is broken, or a step
\* of newConnection or accept() away from it.
NoOrphan ==
    \A s \in sockets \ (known \cup broken) :
        \/ \E l \in SockId : s \in queued[l] /\ ~Deleted(l)
        \/ worker.pc # "idle" /\ worker.ns = s
        \/ accepter.pc = "got" /\ accepter.got = s

\* Requests that are repeated while newConnection, close() and garbage collection
\* run do not make two connections of one.
OneConnectionPerRequest ==
    \A s, t \in sockets :
        (peer[s] # NoPeer /\ peer[s] = peer[t] /\ s \notin broken /\ t \notin broken)
            => s = t

\* A multiplexer counts the sockets that use it: it is destroyed when the last one
\* is deleted, and a socket never has one that was.
MuxCountsSockets ==
    /\ \A m \in SockId : muxRef[m] = Cardinality({s \in SockId : muxOf[s] = m})
    /\ opened \subseteq {s \in SockId : muxOf[s] # NoSock \/ Deleted(s)}

\* While connections wait in the queue of a listener, epoll reports it readable.
ReadableWhenQueued ==
    \A l \in opened :
        queued[l] # {} => l \in readable \/ (worker.pc = "event" /\ worker.ls = l)

\* A deleted socket has been closed: CUDT::close() has taken it off CSndUList, told the
\* peer, and waited for send and recv calls.
DeletedIsClosed ==
    \A s \in SockId : Deleted(s) => s \notin opened

\* What close() has left to garbage collection goes on being sent: while it is not
\* all sent, the linger time is not up and the peer does not break it, the connection
\* is neither deleted nor closed.
LingerHonoured ==
    [][\A s \in (lingering \cap unsent) \ (broken \cup broken') :
          status'[s] # "deleted" /\ s \in connected']_vars

\* Nothing keeps a closed socket from being deleted for ever: what the pass waits for
\* is a thread that still uses it, the end of its linger time, or the worker, which
\* has it as a new entry or has it on its list and will find it no longer live.
DeletionNotBlocked ==
    \A s \in closedSockets :
        \/ s \in Removable \ lingering
        \/ InUse(s)
        \/ s \in lingering
        \/ s \in NewEntries
        \/ s \in rcvList /\ ~Live(s)

\* An accept() that waits is woken, by a step that is under way, when there is a
\* connection to accept and when its listener is closed.
NoLostAcceptWakeup ==
    LET l == accepter.ls IN
    accepter.pc = "waiting" =>
        /\ queued[l] # {} => worker.pc \in {"event", "signal"} /\ worker.ls = l
        /\ AcceptClosed(l) => closer.pc = "broadcast" /\ closer.s = l

=============================================================================
