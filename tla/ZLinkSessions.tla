---------------------------- MODULE ZLinkSessions ----------------------------
(***************************************************************************)
(* How a ZLink host and its clients set up and close sessions.  A session  *)
(* is a TCP connection for control and two UDT connections, one for audio  *)
(* and one for video; the host knows it by the descriptor of the TCP       *)
(* socket.  All calls of the host's application go through _zlink_mutex,   *)
(* which ZLink_Host_Listen keeps while it waits for the client.            *)
(*                                                                         *)
(* A client is one ZLink_Client_Init .. ZLink_Client_DeInit of a process:  *)
(* it connects once.  UDT connections are named by the client and channel  *)
(* that made them.  UDT::accept returns the one with the smallest socket   *)
(* number, which is the newest.                                            *)
(***************************************************************************)
EXTENDS Naturals, FiniteSets, SequencesExt

CONSTANTS
    Thread,       \* threads of the host's application
    NoThread,
    Client,
    Unknown       \* clients whose name or password is wrong

ASSUME SessionsAssumption ==
    /\ NoThread \notin Thread /\ IsFiniteSet(Client) /\ Unknown \subseteq Client

VARIABLES
    lock,        \* the thread that holds _zlink_mutex
    pc,          \* where each thread is
    arg,         \* the session a thread works on: its own LinkSession
    isInit,      \* m_isInit
    server,      \* the listening sockets: closed, open, or open but lost
    listening,   \* UDT::listen has succeeded
    tcpQueue,    \* TCP connections not accepted, the oldest first
    udtQueue,    \* UDT connections not accepted, the newest last
    tcp,         \* the host's TCP connections by descriptor
    udt,         \* the host's open UDT connections, accepted or not
    sessions,    \* m_mapSessions: the two UDT connections by descriptor
    client,      \* where each client is
    request,     \* clients whose name and password are on their way
    reply,       \* what the host has sent to each client
    troubled     \* ghost: a client left half-way, or a thread keeps the lock

hostVars == <<isInit, server, listening, sessions>>
netVars == <<tcpQueue, udtQueue, tcp, udt>>
clientVars == <<client, request, reply>>
vars == <<lock, pc, arg, hostVars, netVars, clientVars, troubled>>

Channels == {"audio", "video"}
Fds == 1 .. Cardinality(Client)

\* socket(), accept(): the lowest descriptor that is free.
FreeFd == CHOOSE fd \in Fds \ DOMAIN tcp : \A g \in Fds \ DOMAIN tcp : fd <= g

\* LinkSession() of a call that has accepted nothing yet.
NoSession == [fd |-> 0, audio |-> <<>>, video |-> <<>>]

\* insert() of a map: an entry that is there already stays as it is.
Insert(f, x, v) == [y \in DOMAIN f \cup {x} |-> IF y \in DOMAIN f THEN f[y] ELSE v]
Without(f, x) == [y \in DOMAIN f \ {x} |-> f[y]]

Init ==
    /\ lock = NoThread
    /\ pc = [t \in Thread |-> "idle"] /\ arg = [t \in Thread |-> NoSession]
    /\ isInit = FALSE /\ server = "closed" /\ listening = FALSE
    /\ tcpQueue = <<>> /\ udtQueue = <<>> /\ tcp = <<>> /\ udt = {}
    /\ sessions = <<>>
    /\ client = [c \in Client |-> "off"]
    /\ request = {} /\ reply = [c \in Client |-> "none"]
    /\ troubled = FALSE

Goto(t, label) == pc' = [pc EXCEPT ![t] = label]

\* ZLINK_LOCK for the code at label, ZLINK_UNLOCK and the end of the call.
Lock(t, label) ==
    /\ lock = NoThread /\ lock' = t
    /\ Goto(t, label)
Return(t) ==
    /\ lock' = NoThread
    /\ Goto(t, "idle") /\ arg' = [arg EXCEPT ![t] = NoSession]
-----------------------------------------------------------------------------
(* ZLink_Host_Init and ZLink_Host_DeInit *)

\* m_isInit is tested before the lock is taken.
HostInit(t) ==
    /\ pc[t] = "idle" /\ ~isInit
    /\ Goto(t, "init")
    /\ UNCHANGED <<lock, arg, hostVars, netVars, clientVars, troubled>>

\* createTCPSocket binds the port, which it cannot while a socket still has it.
PortTaken == server # "closed"

\* createServerSocket: a second TCP socket fails, and its error replaces the
\* first one; a UDT socket that fails leaves nothing behind.
CreateServerSocketFails ==
    /\ server' = IF PortTaken THEN "lost" ELSE server
    /\ UNCHANGED <<listening, isInit, sessions>>

\* setServerListen does not report that UDT::listen has failed.
SetServerListen == listening' \in BOOLEAN

HostInitLocked(t) ==
    /\ pc[t] = "init" /\ lock = NoThread
    /\ Goto(t, "idle")
    /\ \/ CreateServerSocketFails
       \/ /\ ~PortTaken /\ server' = "open"
          /\ SetServerListen
          /\ isInit' = TRUE /\ sessions' = <<>>
    /\ UNCHANGED <<lock, arg, netVars, clientVars, troubled>>

HostDeInit(t) ==
    /\ pc[t] = "idle" /\ isInit
    /\ Goto(t, "deinit")
    /\ UNCHANGED <<lock, arg, hostVars, netVars, clientVars, troubled>>

\* closeServerSocket: with a listening socket goes what waits in its queue.
CloseServerSocket ==
    /\ server' = IF server = "open" THEN "closed" ELSE server
    /\ listening' = FALSE
    /\ tcpQueue' = IF server = "open" THEN <<>> ELSE tcpQueue
    /\ udtQueue' = <<>> /\ udt' = udt \ ToSet(udtQueue)

\* The first session is closed by ZLink_Session_Close, which takes the lock once
\* more.
HostDeInitLocked(t) ==
    /\ pc[t] = "deinit" /\ lock = NoThread
    /\ CloseServerSocket
    /\ IF sessions = <<>>
         THEN isInit' = FALSE /\ Goto(t, "idle") /\ UNCHANGED <<lock, troubled>>
         ELSE lock' = t /\ Goto(t, "stuck") /\ troubled' = TRUE /\ UNCHANGED isInit
    /\ UNCHANGED <<arg, sessions, tcp, clientVars>>
-----------------------------------------------------------------------------
(* ZLink_Host_Listen *)

HostListen(t) ==
    /\ pc[t] = "idle" /\ isInit
    /\ Goto(t, "listen")
    /\ UNCHANGED <<lock, arg, hostVars, netVars, clientVars, troubled>>

HostListenLocked(t) ==
    /\ pc[t] = "listen" /\ Lock(t, "tcp")
    /\ UNCHANGED <<arg, hostVars, netVars, clientVars, troubled>>

\* Mutant: no ZLINK_UNLOCK on the way out.
TcpAcceptFailsLocked(t) ==
    /\ pc[t] = "tcp"
    /\ server # "open" \/ tcpQueue = <<>>
    /\ Goto(t, "idle") /\ arg' = [arg EXCEPT ![t] = NoSession]
    /\ UNCHANGED <<lock, hostVars, netVars, clientVars, troubled>>

\* No connection in time, or no listening socket.
TcpAcceptFails(t) ==
    /\ pc[t] = "tcp"
    /\ server # "open" \/ tcpQueue = <<>>
    /\ Return(t)
    /\ UNCHANGED <<hostVars, netVars, clientVars, troubled>>

TcpAccept(t) ==
    /\ pc[t] = "tcp" /\ server = "open" /\ tcpQueue # <<>>
    /\ tcp' = Insert(tcp, FreeFd, Head(tcpQueue))
    /\ tcpQueue' = Tail(tcpQueue)
    /\ arg' = [arg EXCEPT ![t].fd = FreeFd]
    /\ Goto(t, "audio")
    /\ UNCHANGED <<lock, hostVars, udtQueue, udt, clientVars, troubled>>

\* UDT::accept waits without limit for any connection and takes the newest.
UdtAccept(t, channel, next) ==
    /\ pc[t] = channel /\ listening /\ udtQueue # <<>>
    /\ arg' = [arg EXCEPT ![t][channel] = Last(udtQueue)]
    /\ udtQueue' = Front(udtQueue)
    /\ Goto(t, next)
    /\ UNCHANGED <<lock, hostVars, tcpQueue, tcp, udt, clientVars, troubled>>

\* Mutant: the audio connection is forgotten.
RefuseLeaky(t) ==
    /\ tcp' = Without(tcp, arg[t].fd)
    /\ udt' = udt \ {arg[t].video}
    /\ Return(t)
    /\ UNCHANGED <<hostVars, tcpQueue, udtQueue, request, client>>

\* The call gives up: what it has accepted is closed (a UDT socket of 0 is not).
Refuse(t) ==
    /\ tcp' = Without(tcp, arg[t].fd)
    /\ udt' = udt \ {arg[t].audio, arg[t].video}
    /\ Return(t)
    /\ UNCHANGED <<hostVars, tcpQueue, udtQueue, request, client>>

UdtAcceptFails(t) ==
    /\ pc[t] \in Channels /\ ~listening
    /\ Refuse(t)
    /\ UNCHANGED <<reply, troubled>>

\* The client has not sent its name in two seconds, or is gone.
NoRequest(t) ==
    /\ pc[t] = "request" /\ tcp[arg[t].fd] \notin request
    /\ Refuse(t)
    /\ UNCHANGED <<reply, troubled>>

RefuseClient(t) ==
    /\ pc[t] = "request" /\ tcp[arg[t].fd] \in request \cap Unknown
    /\ reply' = [reply EXCEPT ![tcp[arg[t].fd]] = "ERROR"]
    /\ Refuse(t)
    /\ UNCHANGED troubled

AcceptClient(t) ==
    /\ pc[t] = "request" /\ tcp[arg[t].fd] \in request \ Unknown
    /\ reply' = [reply EXCEPT ![tcp[arg[t].fd]] = "OK"]
    /\ sessions' = Insert(sessions, arg[t].fd, [audio |-> arg[t].audio, video |-> arg[t].video])
    /\ Return(t)
    /\ UNCHANGED <<isInit, server, listening, netVars, client, request, troubled>>
-----------------------------------------------------------------------------
(* ZLink_Session_Close *)

\* The session is looked up before the lock is taken ...
SessionClose(t) ==
    /\ pc[t] = "idle" /\ isInit
    /\ \E fd \in DOMAIN sessions : arg' = [arg EXCEPT ![t].fd = fd]
    /\ Goto(t, "close")
    /\ UNCHANGED <<lock, hostVars, netVars, clientVars, troubled>>

\* ... and again afterwards; at() throws when it is not there any more.
SessionCloseLocked(t) ==
    LET fd == arg[t].fd IN
    /\ pc[t] = "close" /\ lock = NoThread
    /\ IF fd \in DOMAIN sessions
         THEN /\ sessions' = Without(sessions, fd)
              /\ tcp' = Without(tcp, fd)
              /\ udt' = udt \ {sessions[fd].audio, sessions[fd].video}
              /\ Return(t)
              /\ UNCHANGED troubled
         ELSE /\ lock' = t /\ Goto(t, "stuck") /\ troubled' = TRUE
              /\ UNCHANGED <<arg, sessions, tcp, udt>>
    /\ UNCHANGED <<isInit, server, listening, tcpQueue, udtQueue, clientVars>>
-----------------------------------------------------------------------------
(* ZLink_Client_Init, ZLink_Client_Connect and ZLink_Client_DeInit *)

Move(c, from, to) == client[c] = from /\ client' = [client EXCEPT ![c] = to]

\* The three sockets are there; what fails half-way leaves nothing behind.
ClientInit(c) ==
    /\ Move(c, "off", "new")
    /\ UNCHANGED <<lock, pc, arg, hostVars, netVars, request, reply, troubled>>

\* Initialised once more, it calls ZLink_Client_DeInit with its lock held: it
\* does nothing any more.  (After it has connected that makes no difference.)
ClientInitAgain(c) ==
    /\ Move(c, "new", "stuck")
    /\ UNCHANGED <<lock, pc, arg, hostVars, netVars, request, reply, troubled>>

TcpConnect(c) ==
    /\ server # "closed" /\ Move(c, "new", "audio")
    /\ tcpQueue' = Append(tcpQueue, c)
    /\ UNCHANGED <<lock, pc, arg, hostVars, udtQueue, tcp, udt, request, reply, troubled>>

TcpConnectFails(c) ==
    /\ server = "closed" /\ Move(c, "new", "failed")
    /\ UNCHANGED <<lock, pc, arg, hostVars, netVars, request, reply, troubled>>

\* udt_connect returns 0 whether or not UDT::connect succeeds.
UdtConnect(c, channel, next) ==
    /\ Move(c, channel, next)
    /\ \/ /\ listening
          /\ udtQueue' = Append(udtQueue, <<c, channel>>)
          /\ udt' = udt \cup {<<c, channel>>}
          /\ UNCHANGED troubled
       \/ troubled' = TRUE /\ UNCHANGED <<udtQueue, udt>>
    /\ UNCHANGED <<lock, pc, arg, hostVars, tcpQueue, tcp, request, reply>>

SendRequest(c) ==
    /\ Move(c, "send", "wait")
    /\ request' = request \cup {c}
    /\ UNCHANGED <<lock, pc, arg, hostVars, netVars, reply, troubled>>

\* Any answer will do.
Answered(c) ==
    /\ reply[c] # "none" /\ Move(c, "wait", "connected")
    /\ UNCHANGED <<lock, pc, arg, hostVars, netVars, request, reply, troubled>>

\* No answer in two seconds.
NotAnswered(c) ==
    /\ reply[c] = "none" /\ Move(c, "wait", "failed")
    /\ UNCHANGED <<lock, pc, arg, hostVars, netVars, request, reply, troubled>>

\* ZLink_Client_DeInit, or the end of the process.
Leave(c) ==
    /\ client[c] \notin {"off", "stuck", "gone"}
    /\ client' = [client EXCEPT ![c] = "gone"]
    /\ troubled' = (troubled \/ client[c] \in Channels \/ \E u \in ToSet(udtQueue) : u[1] = c)
    /\ UNCHANGED <<lock, pc, arg, hostVars, netVars, request, reply>>

\* The UDT connection of a client that has left breaks before it is accepted and
\* leaves the queue; a TCP connection would stay.
Forget(i) ==
    /\ client[udtQueue[i][1]] = "gone"
    /\ udt' = udt \ {udtQueue[i]}
    /\ udtQueue' = RemoveAt(udtQueue, i)
    /\ UNCHANGED <<lock, pc, arg, hostVars, tcpQueue, tcp, clientVars, troubled>>
-----------------------------------------------------------------------------
Listen(t) ==
    \/ TcpAccept(t) \/ TcpAcceptFails(t)
    \/ UdtAccept(t, "audio", "video") \/ UdtAccept(t, "video", "request")
    \/ UdtAcceptFails(t)
    \/ NoRequest(t) \/ RefuseClient(t) \/ AcceptClient(t)

Host(t) ==
    \/ HostInit(t) \/ HostInitLocked(t) \/ HostDeInit(t) \/ HostDeInitLocked(t)
    \/ HostListen(t) \/ HostListenLocked(t) \/ Listen(t)
    \/ SessionClose(t) \/ SessionCloseLocked(t)

Connect(c) ==
    \/ TcpConnect(c) \/ TcpConnectFails(c)
    \/ UdtConnect(c, "audio", "video") \/ UdtConnect(c, "video", "send")
    \/ SendRequest(c) \/ Answered(c) \/ NotAnswered(c)

Next ==
    \/ \E t \in Thread : Host(t)
    \/ \E c \in Client : ClientInit(c) \/ ClientInitAgain(c) \/ Connect(c) \/ Leave(c)
    \/ \E i \in DOMAIN udtQueue : Forget(i)

\* Calls with a time limit for the TCP connection go on, and so do clients.
Fairness ==
    /\ \A t \in Thread : WF_vars(Listen(t))
    /\ \A c \in Client : WF_vars(Connect(c))

Spec == Init /\ [][Next]_vars
FairSpec == Spec /\ Fairness
-----------------------------------------------------------------------------
Listening == {t \in Thread : pc[t] \in {"audio", "video", "request"}}

\* Where UDT connection u is: the channels of sessions and calls, places in the queue.
Holders(u) ==
    {h \in {"session"} \X (DOMAIN sessions) \X Channels : sessions[h[2]][h[3]] = u}
    \cup {h \in {"call"} \X Listening \X Channels : arg[h[2]][h[3]] = u}
    \cup {h \in {"queue"} \X (DOMAIN udtQueue) : udtQueue[h[2]] = u}

\* Every socket of the host that is open belongs to one session, or to the call
\* of ZLink_Host_Listen under way, or waits to be accepted, and to one only: no
\* error path leaks a socket, no descriptor used again meets a session that is
\* still in m_mapSessions (ZLink.cpp:180-210, 424-439).
SocketsHeld ==
    /\ DOMAIN tcp = DOMAIN sessions \cup {arg[t].fd : t \in Listening}
    /\ \A t \in Listening : arg[t].fd \notin DOMAIN sessions
    /\ \A u \in udt : \E h \in Holders(u) : Holders(u) = {h}
    /\ \A fd \in DOMAIN sessions : {sessions[fd].audio, sessions[fd].video} \subseteq udt

\* A host whose clients connect both their channels, and whose threads did not
\* lock themselves out, always gets _zlink_mutex back from ZLink_Host_Listen
\* and ZLink_Session_Close, whichever client sends which name when, and
\* although the calls take whatever UDT connection comes (ZLink.cpp:146-167).
LockReleased == []~troubled => (lock # NoThread ~> lock = NoThread)
-----------------------------------------------------------------------------
\* ZLink.cpp:146, 157, zlink_inner.h:39, 40: the audio channel of a session is
\* its client's audio connection, the video channel its video connection.
ChannelsMatch ==
    \A fd \in DOMAIN sessions :
        sessions[fd] = [audio |-> <<tcp[fd], "audio">>, video |-> <<tcp[fd], "video">>]

\* ZLink.h (ZLink_Client_Connect, "success" for 0): the host took the client.
ConnectedIsAccepted ==
    \A c \in Client : client[c] = "connected" => reply[c] = "OK"

\* ZLink.cpp:104, "close all sessions": Host_DeInit does.
DeInitClosesSessions ==
    \A t \in Thread : (pc[t] = "deinit" /\ lock = NoThread) ~> sessions = <<>>
=============================================================================
