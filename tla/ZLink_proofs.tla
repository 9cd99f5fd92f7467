---------------------------- MODULE ZLink_proofs ----------------------------
(***************************************************************************)
(* The two modules of the ZLink library.  First its sessions: no call of a *)
(* host leaks, shares or confuses their sockets, for any number of threads *)
(* and clients.                                                            *)
(*                                                                         *)
(* Then the frames on one of the channels: its two ends stay in step, and  *)
(* frame by frame it is a reliable stream, for all lengths of the parts,   *)
(* sizes of the buffers and numbers of frames: provided that the calls     *)
(* have no time limit and that the receiver's buffer takes every frame.    *)
(* The argument is about positions, (frame, cells of it that have gone by, *)
(* size of its data): the receiver is where the stream begins, each cell   *)
(* of it is where the one before it ended, and the sender is where the     *)
(* stream ends.                                                            *)
(***************************************************************************)
EXTENDS ZLinkSessions, ZLinkFrames, Integers, WellFoundedInduction, FiniteSetTheorems,
        SequenceTheorems, TLAPS

Connection == Client \X Channels
ThreadAt == {"idle", "init", "deinit", "listen", "tcp", "audio", "video", "request",
             "close", "stuck"}
ClientAt == {"off", "new", "audio", "video", "send", "wait", "connected", "failed",
             "stuck", "gone"}

TypeOK ==
    /\ pc \in [Thread -> ThreadAt]
    /\ arg \in [Thread -> [fd : Nat, audio : Connection \cup {<<>>},
                           video : Connection \cup {<<>>}]]
    /\ tcpQueue \in Seq(Client) /\ udtQueue \in Seq(Connection)
    /\ tcp \in [DOMAIN tcp -> Client] /\ DOMAIN tcp \subseteq Fds
    /\ sessions \in [DOMAIN sessions -> [audio : Connection, video : Connection]]
    /\ client \in [Client -> ClientAt]

\* The thread that waits for a client holds the lock, and what it has accepted
\* so far is in its session.
CallInv ==
    /\ \A t \in Thread : pc[t] \in {"tcp", "audio", "video", "request"} => lock = t
    /\ \A t \in Thread :
          /\ pc[t] \notin {"audio", "video", "request", "close", "stuck"} => arg[t] = NoSession
          /\ pc[t] \in {"audio", "video"} => arg[t].video = <<>>
          /\ pc[t] = "audio" => arg[t].audio = <<>>
          /\ pc[t] \in {"video", "request"} => arg[t].audio # <<>>
          /\ pc[t] = "request" => arg[t].video # <<>>

\* Sessions outlive the listening sockets only where Host_DeInit is stuck, so
\* that the next Host_Init forgets none.
ServerInv ==
    server = "closed" =>
        /\ Listening = {}
        /\ sessions = <<>> \/ (lock \in Thread /\ pc[lock] = "stuck")

Distinct(q) == \A j, k \in DOMAIN q : q[j] = q[k] => j = k

\* A client has one TCP connection at most, which waits or has a descriptor; the
\* descriptors in use are those of the sessions and of the call under way.
TcpInv ==
    /\ DOMAIN tcp = DOMAIN sessions \cup {arg[t].fd : t \in Listening}
    /\ \A t \in Listening : arg[t].fd \notin DOMAIN sessions
    /\ \A fd, gd \in DOMAIN tcp : tcp[fd] = tcp[gd] => fd = gd
    /\ Distinct(tcpQueue)
    /\ \A fd \in DOMAIN tcp : tcp[fd] \notin ToSet(tcpQueue)
    /\ \A fd \in DOMAIN tcp : client[tcp[fd]] \notin {"off", "new"}
    /\ \A c \in ToSet(tcpQueue) : client[c] \notin {"off", "new"}

\* Where the UDT connections are.
ChannelsOf(S) == UNION {{S[fd].audio, S[fd].video} : fd \in DOMAIN S}
InSessions == ChannelsOf(sessions)
InCalls == UNION {{arg[t].audio, arg[t].video} \ {<<>>} : t \in Listening}
InQueue == ToSet(udtQueue)

SessionsApart == \A fd, gd \in DOMAIN sessions : fd # gd =>
    {sessions[fd].audio, sessions[fd].video} \cap {sessions[gd].audio, sessions[gd].video} = {}

\* A connection is in one place, if the client has made it.
UdtInv ==
    /\ udt = InSessions \cup InCalls \cup InQueue
    /\ InSessions \cap InCalls = {} /\ InSessions \cap InQueue = {} /\ InCalls \cap InQueue = {}
    /\ \A fd \in DOMAIN sessions : sessions[fd].audio # sessions[fd].video
    /\ SessionsApart
    /\ \A t \in Listening : arg[t].audio = arg[t].video => arg[t].audio = <<>>
    /\ Distinct(udtQueue)
    /\ \A u \in udt : /\ client[u[1]] \notin {"off", "new", "audio", "stuck"}
                      /\ u[2] = "video" => client[u[1]] # "video"

SessionsInv == TypeOK /\ CallInv /\ ServerInv /\ TcpInv /\ UdtInv
-----------------------------------------------------------------------------
\* Before anything has happened there are no sockets.
LEMMA InitInv == Init => SessionsInv
<1> SUFFICES ASSUME Init PROVE SessionsInv
  OBVIOUS
<1>1. Listening = {}
  BY DEF Init, Listening
<1>2. TypeOK
  <2>1. /\ pc \in [Thread -> ThreadAt] /\ client \in [Client -> ClientAt]
        /\ arg \in [Thread -> [fd : Nat, audio : Connection \cup {<<>>},
                              video : Connection \cup {<<>>}]]
    <3>1. NoSession \in [fd : Nat, audio : Connection \cup {<<>>}, video : Connection \cup {<<>>}]
      BY DEF NoSession
    <3> QED
      BY <3>1 DEF Init, ThreadAt, ClientAt
  <2>2. tcpQueue \in Seq(Client) /\ udtQueue \in Seq(Connection)
    BY DEF Init
  <2>3. <<>> \in Seq({})
    OBVIOUS
  <2>4. tcp \in [DOMAIN tcp -> Client] /\ DOMAIN tcp = {}
    BY <2>3 DEF Init
  <2>5. sessions \in [DOMAIN sessions -> [audio : Connection, video : Connection]]
    BY DEF Init
  <2> QED
    BY <2>1, <2>2, <2>4, <2>5 DEF TypeOK
<1>3. CallInv /\ ServerInv
  BY <1>1 DEF Init, CallInv, ServerInv
<1>4. TcpInv
  BY <1>1 DEF Init, TcpInv, ToSet, Distinct
<1>5. UdtInv
  BY <1>1 DEF Init, UdtInv, SessionsApart, InSessions, ChannelsOf, InCalls, InQueue, ToSet, Distinct
<1> QED
  BY <1>2, <1>3, <1>4, <1>5 DEF SessionsInv

\* A set of numbers has a smallest one.
LEMMA SmallestNumber ==
    ASSUME NEW T \in SUBSET Nat, T # {}
    PROVE  \E n \in T : \A m \in T : n <= m
<1> DEFINE R == OpToRel(<, Nat)
<1>1. IsWellFoundedOn(R, Nat)
  BY NatLessThanWellFounded
<1> HIDE DEF R
<1>2. PICK n \in T : \A m \in T : ~(<<m, n>> \in R)
  BY <1>1, WFMin
<1>3. \A m \in T : ~(m < n)
  BY <1>2 DEF R, OpToRel
<1> QED
  BY <1>3

\* While a TCP connection waits there is a descriptor for it: the clients of the
\* others are different ones, so fewer than the descriptors.
LEMMA FreeFdFree ==
    ASSUME TypeOK, TcpInv, tcpQueue # <<>>
    PROVE  FreeFd \in Fds \ DOMAIN tcp
<1> DEFINE c == Head(tcpQueue)
           Others == Client \ {c}
<1>1. c \in Client /\ c = tcpQueue[1] /\ 1 \in DOMAIN tcpQueue
  BY DEF TypeOK
<1>2. IsFiniteSet(Client) /\ Cardinality(Client) \in Nat
  BY SessionsAssumption, FS_CardinalityType
<1>3. IsFiniteSet(Others) /\ Cardinality(Others) = Cardinality(Client) - 1
  BY <1>1, <1>2, FS_RemoveElement
<1>4. IsFiniteSet(Fds) /\ Cardinality(Fds) = Cardinality(Client)
  BY <1>2, FS_Interval DEF Fds
<1>5. Fds \ DOMAIN tcp # {}
  <2> SUFFICES ASSUME DOMAIN tcp = Fds PROVE FALSE
    BY DEF TypeOK
  <2>1. tcp \in [Fds -> Others]
    BY <1>1 DEF TypeOK, TcpInv, ToSet
  <2>2. Cardinality(Others) < Cardinality(Fds)
    BY <1>2, <1>3, <1>4
  <2>3. \E fd, gd \in Fds : fd # gd /\ tcp[fd] = tcp[gd]
    BY <1>3, <1>4, <2>1, <2>2, FS_PigeonHole
  <2> QED
    BY <2>3 DEF TcpInv
<1> DEFINE T == Fds \ DOMAIN tcp
<1>6. T \in SUBSET Nat /\ T # {}
  BY <1>2, <1>5 DEF Fds
<1> HIDE DEF T
<1>7. \E n \in T : \A m \in T : n <= m
  BY <1>6, SmallestNumber
<1> QED
  BY <1>7 DEF FreeFd, T
-----------------------------------------------------------------------------
\* The call under way, if there is one.
LEMMA OneCall ==
    ASSUME TypeOK, CallInv, NEW t \in Listening
    PROVE  /\ t \in Thread /\ lock = t /\ Listening = {t}
           /\ InCalls = {arg[t].audio, arg[t].video} \ {<<>>}
<1>1. t \in Thread /\ lock = t /\ Listening = {t}
  BY DEF Listening, CallInv
<1> DEFINE Mine(s) == {arg[s].audio, arg[s].video} \ {<<>>}
<1>2. InCalls = UNION {Mine(s) : s \in {t}}
  BY <1>1 DEF InCalls
<1> HIDE DEF Mine
<1>3. InCalls = Mine(t)
  BY <1>2
<1> QED
  BY <1>1, <1>3 DEF Mine

LEMMA FdsAreNumbers ==
    ASSUME TypeOK, TcpInv
    PROVE  Fds \subseteq Nat /\ DOMAIN sessions \subseteq Fds
<1>1. Cardinality(Client) \in Nat
  BY SessionsAssumption, FS_CardinalityType
<1> QED
  BY <1>1 DEF Fds, TypeOK, TcpInv

LEMMA NoCall ==
    ASSUME CallInv, lock = NoThread
    PROVE  Listening = {} /\ InCalls = {}
<1>1. Listening = {}
  BY SessionsAssumption DEF Listening, CallInv
<1> QED
  BY <1>1 DEF InCalls

\* A thread that does not listen, and goes where it does not, leaves all calls as
\* they are.
LEMMA SameCalls ==
    ASSUME TypeOK, NEW t \in Thread \ Listening, NEW l \in ThreadAt \ {"audio", "video", "request"},
           Goto(t, l),
           arg' = arg \/ (DOMAIN arg' = Thread /\ \A s \in Thread \ {t} : arg'[s] = arg[s])
    PROVE  /\ Listening' = Listening /\ InCalls' = InCalls
           /\ \A s \in Listening : arg'[s] = arg[s]
<1>1. /\ pc'[t] = l
      /\ \A s \in Thread \ {t} : pc'[s] = pc[s]
  BY DEF TypeOK, Goto
<1>2. Listening' = Listening
  BY <1>1 DEF Listening
<1>3. \A s \in Listening : arg'[s] = arg[s]
  BY DEF Listening
<1> QED
  BY <1>2, <1>3 DEF InCalls

\* What nobody touches keeps its part of the invariant.
LEMMA SameSockets ==
    ASSUME TcpInv, UdtInv, UNCHANGED <<netVars, client, sessions>>,
           Listening' = Listening, InCalls' = InCalls, \A s \in Listening : arg'[s] = arg[s]
    PROVE  TcpInv' /\ UdtInv'
<1>1. /\ {arg'[t].fd : t \in Listening} = {arg[t].fd : t \in Listening}
      /\ tcp' = tcp /\ tcpQueue' = tcpQueue /\ sessions' = sessions /\ client' = client
      /\ udt' = udt /\ udtQueue' = udtQueue
  BY DEF netVars
<1>2. TcpInv'
  BY <1>1 DEF TcpInv
<1>3. InSessions' = InSessions /\ InQueue' = InQueue
  BY <1>1 DEF InSessions, InQueue
<1>4. UdtInv'
  BY <1>1, <1>3 DEF UdtInv, SessionsApart
<1> QED
  BY <1>2, <1>4
-----------------------------------------------------------------------------
\* Calls before they have the lock, and tests that fail.
LEMMA QuietStep ==
    ASSUME SessionsInv, NEW t \in Thread,
           HostInit(t) \/ HostDeInit(t) \/ HostListen(t) \/ HostListenLocked(t)
           \/ TcpAcceptFails(t) \/ SessionClose(t)
    PROVE  SessionsInv'
<1> USE DEF SessionsInv
<1>1. /\ UNCHANGED <<netVars, client, sessions, server>>
      /\ t \notin Listening
  BY DEF HostInit, HostDeInit, HostListen, HostListenLocked, TcpAcceptFails, SessionClose,
         hostVars, clientVars, Listening
<1>2. PICK l \in {"init", "deinit", "listen", "tcp", "idle", "close"} : Goto(t, l)
  BY DEF HostInit, HostDeInit, HostListen, HostListenLocked, TcpAcceptFails, SessionClose,
         Return, Lock
<1>3. TypeOK'
  <2>1. arg' \in [Thread -> [fd : Nat, audio : Connection \cup {<<>>}, video : Connection \cup {<<>>}]]
    <3>1. CASE SessionClose(t)
      BY <3>1, FdsAreNumbers, ZenonT(60) DEF SessionClose, TypeOK
    <3>2. CASE TcpAcceptFails(t)
      BY <3>2 DEF TcpAcceptFails, Return, NoSession, TypeOK
    <3>3. CASE arg' = arg
      BY <3>3 DEF TypeOK
    <3> QED
      BY <3>1, <3>2, <3>3 DEF HostInit, HostDeInit, HostListen, HostListenLocked
  <2> QED
    BY <1>1, <1>2, <2>1 DEF TypeOK, Goto, ThreadAt, netVars
<1>4. arg' = arg \/ (DOMAIN arg' = Thread /\ \A s \in Thread \ {t} : arg'[s] = arg[s])
  BY DEF HostInit, HostDeInit, HostListen, HostListenLocked, TcpAcceptFails, SessionClose,
         Return, TypeOK
<1>5. /\ Listening' = Listening /\ InCalls' = InCalls
      /\ \A s \in Listening : arg'[s] = arg[s]
  BY <1>1, <1>2, <1>4, SameCalls DEF ThreadAt
<1>6. TcpInv' /\ UdtInv'
  BY <1>1, <1>5, SameSockets
<1>7. CallInv'
  BY <1>2, SessionsAssumption, ZenonT(60)
     DEF HostInit, HostDeInit, HostListen, HostListenLocked, TcpAcceptFails, SessionClose,
         Return, Lock, Goto, CallInv, TypeOK, NoSession
<1>8. ServerInv'
  <2>1. pc[t] # "stuck" /\ \A s \in Thread \ {t} : pc'[s] = pc[s]
    BY <1>2 DEF HostInit, HostDeInit, HostListen, HostListenLocked, TcpAcceptFails, SessionClose,
                Goto, TypeOK
  <2>2. CASE TcpAcceptFails(t)
    BY <1>1, <1>5, <2>1, <2>2 DEF TcpAcceptFails, ServerInv, CallInv
  <2>3. CASE HostListenLocked(t)
    BY <1>1, <1>5, <2>1, <2>3, SessionsAssumption DEF HostListenLocked, Lock, ServerInv
  <2>4. CASE lock' = lock
    BY <1>1, <1>5, <2>1, <2>4 DEF ServerInv
  <2> QED
    BY <2>2, <2>3, <2>4 DEF HostInit, HostDeInit, HostListen, SessionClose
<1> QED
  BY <1>3, <1>6, <1>7, <1>8
-----------------------------------------------------------------------------
\* ZLink_Host_Init clears m_mapSessions, which is empty then.
LEMMA HostInitStep ==
    ASSUME SessionsInv, NEW t \in Thread, HostInitLocked(t)
    PROVE  SessionsInv'
<1> USE DEF SessionsInv
<1>1. /\ t \notin Listening /\ lock = NoThread /\ Goto(t, "idle")
      /\ UNCHANGED <<lock, arg, netVars, clientVars>>
  BY DEF HostInitLocked, Listening
<1>2. /\ Listening' = Listening /\ InCalls' = InCalls
      /\ \A s \in Listening : arg'[s] = arg[s]
  BY <1>1, SameCalls DEF ThreadAt
<1>3. sessions' = sessions
  <2>1. CASE CreateServerSocketFails
    BY <2>1 DEF CreateServerSocketFails
  <2>2. CASE sessions' = <<>> /\ ~PortTaken
    BY <1>1, <2>2, SessionsAssumption DEF ServerInv, PortTaken
  <2> QED
    BY <2>1, <2>2 DEF HostInitLocked
<1>4. TypeOK'
  BY <1>1, <1>3 DEF TypeOK, Goto, ThreadAt, netVars, clientVars
<1>5. TcpInv' /\ UdtInv'
  BY <1>1, <1>2, <1>3, SameSockets DEF clientVars
<1>6. CallInv'
  BY <1>1 DEF HostInitLocked, Goto, CallInv, TypeOK
<1>7. ServerInv'
  <2>1. server' = "closed" => server = "closed"
    BY DEF HostInitLocked, CreateServerSocketFails
  <2> QED
    BY <1>1, <1>2, <1>3, <2>1, SessionsAssumption DEF ServerInv
<1> QED
  BY <1>4, <1>5, <1>6, <1>7

\* ZLink_Host_DeInit closes what waits in the queues of the listening sockets.
LEMMA HostDeInitStep ==
    ASSUME SessionsInv, NEW t \in Thread, HostDeInitLocked(t)
    PROVE  SessionsInv'
<1> USE DEF SessionsInv
<1>1. /\ t \notin Listening /\ lock = NoThread
      /\ UNCHANGED <<arg, sessions, tcp, clientVars>>
      /\ udtQueue' = <<>> /\ udt' = udt \ InQueue /\ tcpQueue' \in {<<>>, tcpQueue}
  BY DEF HostDeInitLocked, Listening, CloseServerSocket, InQueue
<1>2. PICK l \in {"idle", "stuck"} : Goto(t, l)
  BY DEF HostDeInitLocked
<1>3. /\ Listening' = Listening /\ InCalls' = InCalls
      /\ \A s \in Listening : arg'[s] = arg[s]
  BY <1>1, <1>2, SameCalls DEF ThreadAt
<1>4. TypeOK'
  <2>1. tcpQueue' \in Seq(Client) /\ udtQueue' \in Seq(Connection)
    <3>1. <<>> \in Seq(Client) /\ <<>> \in Seq(Connection)
      OBVIOUS
    <3> QED
      BY <1>1, <3>1 DEF TypeOK
  <2>2. pc' \in [Thread -> ThreadAt]
    BY <1>2 DEF TypeOK, Goto, ThreadAt
  <2> QED
    BY <1>1, <2>1, <2>2 DEF TypeOK, clientVars
<1>5. TcpInv'
  <2>1. {arg'[s].fd : s \in Listening} = {arg[s].fd : s \in Listening}
    BY <1>1
  <2> QED
    BY <1>1, <1>3, <2>1 DEF TcpInv, clientVars, ToSet, Distinct
<1>6. UdtInv'
  <2>1. InSessions' = InSessions /\ InQueue' = {} /\ Distinct(udtQueue')
    BY <1>1 DEF InSessions, InQueue, ToSet, Distinct
  <2> QED
    BY <1>1, <1>3, <2>1 DEF UdtInv, SessionsApart, clientVars
<1>7. CallInv'
  BY <1>1, <1>2, SessionsAssumption DEF HostDeInitLocked, Goto, CallInv, TypeOK, NoSession
<1>8. ServerInv'
  BY <1>1, <1>2, <1>3, NoCall DEF HostDeInitLocked, Goto, ServerInv, TypeOK
<1> QED
  BY <1>4, <1>5, <1>6, <1>7, <1>8
-----------------------------------------------------------------------------
\* Queues whose elements are different, one element less or more.
LEMMA OneLess ==
    ASSUME NEW S, NEW q \in Seq(S), NEW i \in 1 .. Len(q), NEW r \in Seq(S),
           Len(r) = Len(q) - 1,
           \A j \in 1 .. Len(r) : r[j] = IF j < i THEN q[j] ELSE q[j + 1],
           Distinct(q)
    PROVE  /\ ToSet(r) = ToSet(q) \ {q[i]}
           /\ Distinct(r)
<1>1. DOMAIN q = 1 .. Len(q) /\ DOMAIN r = 1 .. Len(r) /\ Len(q) \in Nat /\ Len(r) \in Nat
  OBVIOUS
<1>2. \A j \in DOMAIN r : j + 1 \in DOMAIN q /\ j \in DOMAIN q
  BY <1>1
<1>3. Distinct(r)
  BY <1>1, <1>2 DEF Distinct
<1>4. \A j \in DOMAIN r : r[j] \in ToSet(q) \ {q[i]}
  BY <1>1, <1>2 DEF Distinct, ToSet
<1>5. \A k \in DOMAIN q \ {i} : \E j \in DOMAIN r : r[j] = q[k]
  <2> SUFFICES ASSUME NEW k \in DOMAIN q \ {i} PROVE \E j \in DOMAIN r : r[j] = q[k]
    OBVIOUS
  <2>1. CASE k < i
    <3>1. k \in DOMAIN r /\ r[k] = q[k]
      BY <1>1, <2>1
    <3> QED
      BY <3>1
  <2>2. CASE k > i
    <3>1. k - 1 \in DOMAIN r /\ r[k - 1] = q[k]
      BY <1>1, <2>2
    <3> QED
      BY <3>1
  <2> QED
    BY <1>1, <2>1, <2>2
<1>6. ToSet(r) \subseteq ToSet(q) \ {q[i]}
  BY <1>4 DEF ToSet
<1>7. ToSet(q) \ {q[i]} \subseteq ToSet(r)
  <2> SUFFICES ASSUME NEW k \in DOMAIN q, q[k] # q[i] PROVE q[k] \in ToSet(r)
    BY DEF ToSet
  <2> QED
    BY <1>5 DEF ToSet
<1> QED
  BY <1>3, <1>6, <1>7

LEMMA OneMore ==
    ASSUME NEW S, NEW q \in Seq(S), NEW x \in S, x \notin ToSet(q),
           Distinct(q)
    PROVE  /\ Append(q, x) \in Seq(S)
           /\ ToSet(Append(q, x)) = ToSet(q) \cup {x}
           /\ Distinct(Append(q, x))
<1> DEFINE r == Append(q, x)
<1>1. /\ r \in Seq(S) /\ DOMAIN r = 1 .. Len(q) + 1 /\ DOMAIN q = 1 .. Len(q) /\ Len(q) \in Nat
      /\ r[Len(q) + 1] = x
      /\ \A j \in 1 .. Len(q) : r[j] = q[j]
  OBVIOUS
<1> HIDE DEF r
<1>2. DOMAIN r = DOMAIN q \cup {Len(q) + 1} /\ Len(q) + 1 \notin DOMAIN q
  BY <1>1
<1>3. ToSet(r) = ToSet(q) \cup {x}
  BY <1>1, <1>2 DEF ToSet
<1>4. Distinct(r)
  BY <1>1, <1>2 DEF Distinct, ToSet
<1> QED
  BY <1>1, <1>3, <1>4 DEF r

\* The queues after TcpAccept, UdtAccept and Forget.
LEMMA QueueTail ==
    ASSUME NEW S, NEW q \in Seq(S), q # <<>>, Distinct(q)
    PROVE  /\ Tail(q) \in Seq(S) /\ Head(q) = q[1] /\ 1 \in DOMAIN q
           /\ ToSet(Tail(q)) = ToSet(q) \ {q[1]}
           /\ Distinct(Tail(q))
<1>1. /\ Tail(q) \in Seq(S) /\ Len(Tail(q)) = Len(q) - 1
      /\ \A j \in 1 .. Len(Tail(q)) : Tail(q)[j] = q[j + 1]
  BY HeadTailProperties
<1>2. 1 \in 1 .. Len(q) /\ Head(q) = q[1] /\ DOMAIN q = 1 .. Len(q)
  OBVIOUS
<1> DEFINE r == Tail(q)
<1>3. /\ r \in Seq(S) /\ Len(r) = Len(q) - 1
      /\ \A j \in 1 .. Len(r) : r[j] = IF j < 1 THEN q[j] ELSE q[j + 1]
  BY <1>1
<1> HIDE DEF r
<1>4. /\ ToSet(r) = ToSet(q) \ {q[1]}
      /\ Distinct(r)
  BY <1>2, <1>3, OneLess
<1> QED
  BY <1>2, <1>3, <1>4 DEF r

LEMMA QueueFront ==
    ASSUME NEW S, NEW q \in Seq(S), q # <<>>, Distinct(q)
    PROVE  /\ Front(q) \in Seq(S) /\ Len(q) \in DOMAIN q
           /\ ToSet(Front(q)) = ToSet(q) \ {Last(q)}
           /\ Distinct(Front(q))
<1>1. Len(q) \in Nat /\ Len(q) \in 1 .. Len(q) /\ DOMAIN q = 1 .. Len(q)
  OBVIOUS
<1>2. /\ Front(q) \in Seq(S) /\ Len(Front(q)) = Len(q) - 1
      /\ \A j \in 1 .. Len(Front(q)) : Front(q)[j] = q[j]
  BY <1>1, SubSeqProperties, \A j \in 1 .. Len(q) : q[j] \in S DEF Front
<1> DEFINE r == Front(q)
<1>3. /\ r \in Seq(S) /\ Len(r) = Len(q) - 1
      /\ \A j \in 1 .. Len(r) : r[j] = IF j < Len(q) THEN q[j] ELSE q[j + 1]
  BY <1>1, <1>2
<1> HIDE DEF r
<1>4. /\ ToSet(r) = ToSet(q) \ {q[Len(q)]}
      /\ Distinct(r)
  BY <1>1, <1>3, OneLess
<1> QED
  BY <1>1, <1>3, <1>4 DEF Last, r

LEMMA QueueRemoveAt ==
    ASSUME NEW S, NEW q \in Seq(S), NEW i \in DOMAIN q,
           Distinct(q)
    PROVE  LET r == RemoveAt(q, i) IN
           /\ r \in Seq(S)
           /\ ToSet(r) = ToSet(q) \ {q[i]}
           /\ Distinct(r)
<1> DEFINE a == SubSeq(q, 1, i - 1)
           b == SubSeq(q, i + 1, Len(q))
           r == RemoveAt(q, i)
<1>1. i \in 1 .. Len(q) /\ Len(q) \in Nat /\ \A j \in 1 .. Len(q) : q[j] \in S
  OBVIOUS
<1>2. /\ a \in Seq(S) /\ Len(a) = i - 1
      /\ \A j \in 1 .. i - 1 : a[j] = q[j]
  BY <1>1, SubSeqProperties
<1>3. /\ b \in Seq(S) /\ Len(b) = Len(q) - i
      /\ \A j \in 1 .. Len(q) - i : b[j] = q[i + j]
  BY <1>1, SubSeqProperties
<1>4. r = a \o b
  BY DEF RemoveAt
<1> HIDE DEF a, b, r
<1>5. /\ r \in Seq(S) /\ Len(r) = Len(a) + Len(b)
      /\ \A j \in 1 .. Len(a) + Len(b) : r[j] = IF j <= Len(a) THEN a[j] ELSE b[j - Len(a)]
  BY <1>2, <1>3, <1>4, ConcatProperties
<1>6. /\ Len(r) = Len(q) - 1
      /\ \A j \in 1 .. Len(r) : r[j] = IF j < i THEN q[j] ELSE q[j + 1]
  <2>1. Len(a) + Len(b) = Len(q) - 1
    BY <1>1, <1>2, <1>3
  <2> SUFFICES ASSUME NEW j \in 1 .. Len(q) - 1
               PROVE  r[j] = IF j < i THEN q[j] ELSE q[j + 1]
    BY <1>5, <2>1
  <2>2. CASE j < i
    BY <1>1, <1>2, <1>5, <2>1, <2>2
  <2>3. CASE j >= i
    <3>1. r[j] = IF j <= Len(a) THEN a[j] ELSE b[j - Len(a)]
      BY <1>5, <2>1
    <3>2. r[j] = b[j - (i - 1)]
      BY <1>1, <1>2, <2>3, <3>1
    <3>3. j - (i - 1) \in 1 .. Len(q) - i /\ i + (j - (i - 1)) = j + 1
      BY <1>1, <2>3
    <3> QED
      BY <1>1, <1>3, <2>3, <3>2, <3>3, SMTT(30)
  <2> QED
    BY <1>1, <2>2, <2>3
<1>7. /\ ToSet(r) = ToSet(q) \ {q[i]}
      /\ Distinct(r)
  BY <1>1, <1>5, <1>6, OneLess
<1> QED
  BY <1>5, <1>7 DEF r
-----------------------------------------------------------------------------
\* What is in the two channels of something is a connection, not "none".
LEMMA NoneIsNoConnection == <<>> \notin Connection
BY DEF Connection

\* A step of the thread that has the lock: it has the only call.
LEMMA OwnCall ==
    ASSUME TypeOK, CallInv, NEW t \in Thread, lock = t, NEW l \in ThreadAt, Goto(t, l)
    PROVE  /\ l \in {"audio", "video", "request"} =>
                 Listening' = {t} /\ InCalls' = {arg'[t].audio, arg'[t].video} \ {<<>>}
           /\ l \notin {"audio", "video", "request"} => Listening' = {} /\ InCalls' = {}
           /\ pc[t] \notin {"audio", "video", "request"} => Listening = {} /\ InCalls = {}
<1>1. /\ pc'[t] = l
      /\ \A s \in Thread \ {t} : pc'[s] = pc[s] /\ pc[s] \notin {"audio", "video", "request"}
  BY DEF TypeOK, Goto, CallInv
<1> DEFINE Theirs(s) == {arg'[s].audio, arg'[s].video} \ {<<>>}
<1>2. InCalls' = UNION {Theirs(s) : s \in Listening'}
  BY DEF InCalls
<1> HIDE DEF Theirs
<1>3. ASSUME l \in {"audio", "video", "request"}
      PROVE  Listening' = {t} /\ InCalls' = Theirs(t)
  <2>1. Listening' = {t}
    BY <1>1, <1>3 DEF Listening
  <2> QED
    BY <1>2, <2>1
<1>4. ASSUME l \notin {"audio", "video", "request"}
      PROVE  Listening' = {} /\ InCalls' = {}
  <2>1. Listening' = {}
    BY <1>1, <1>4 DEF Listening
  <2> QED
    BY <1>2, <2>1
<1>5. ASSUME pc[t] \notin {"audio", "video", "request"}
      PROVE  Listening = {} /\ InCalls = {}
  <2>1. Listening = {}
    BY <1>1, <1>5 DEF Listening
  <2> QED
    BY <2>1 DEF InCalls
<1> QED
  BY <1>3, <1>4, <1>5 DEF Theirs

\* A new descriptor is nobody else's, and its client has none yet.
LEMMA TcpAcceptStep ==
    ASSUME SessionsInv, NEW t \in Thread, TcpAccept(t)
    PROVE  SessionsInv'
<1> USE DEF SessionsInv
<1>1. /\ pc[t] = "tcp" /\ lock = t /\ Goto(t, "audio") /\ server = "open" /\ tcpQueue # <<>>
      /\ UNCHANGED <<lock, hostVars, udtQueue, udt, clientVars>>
      /\ tcpQueue' = Tail(tcpQueue) /\ tcp' = Insert(tcp, FreeFd, Head(tcpQueue))
      /\ arg' = [arg EXCEPT ![t].fd = FreeFd] /\ arg[t] = NoSession
  BY DEF TcpAccept, CallInv
<1>2. FreeFd \in Fds \ DOMAIN tcp /\ FreeFd \in Nat
  BY <1>1, FreeFdFree, FdsAreNumbers
<1>3. /\ arg'[t] = [fd |-> FreeFd, audio |-> <<>>, video |-> <<>>]
      /\ \A s \in Thread \ {t} : arg'[s] = arg[s]
      /\ arg' \in [Thread -> [fd : Nat, audio : Connection \cup {<<>>},
                              video : Connection \cup {<<>>}]]
  BY <1>1, <1>2 DEF TypeOK, NoSession
<1>4. Listening = {} /\ InCalls = {} /\ Listening' = {t} /\ InCalls' = {}
  BY <1>1, <1>3, OwnCall DEF ThreadAt
<1> DEFINE c == Head(tcpQueue)
<1>5. /\ tcpQueue' \in Seq(Client) /\ c \in ToSet(tcpQueue) /\ c \in Client
      /\ ToSet(tcpQueue') = ToSet(tcpQueue) \ {c} /\ Distinct(tcpQueue')
  <2>1. tcpQueue \in Seq(Client) /\ Distinct(tcpQueue)
    BY DEF TypeOK, TcpInv
  <2>2. /\ tcpQueue' \in Seq(Client) /\ c = tcpQueue[1] /\ 1 \in DOMAIN tcpQueue
        /\ ToSet(tcpQueue') = ToSet(tcpQueue) \ {tcpQueue[1]} /\ Distinct(tcpQueue')
    BY <1>1, <2>1, QueueTail
  <2>3. c \in Client
    BY <2>1, <2>2
  <2>4. c \in ToSet(tcpQueue)
    BY <2>2 DEF ToSet
  <2> QED
    BY <2>2, <2>3, <2>4
<1> HIDE DEF c
<1>6. /\ DOMAIN tcp' = DOMAIN tcp \cup {FreeFd} /\ tcp'[FreeFd] = c
      /\ \A fd \in DOMAIN tcp : tcp'[fd] = tcp[fd]
      /\ tcp' \in [DOMAIN tcp' -> Client] /\ DOMAIN tcp' \subseteq Fds
  BY <1>1, <1>2, <1>5 DEF c, TypeOK, Insert
<1>7. TypeOK'
  BY <1>1, <1>3, <1>5, <1>6 DEF TypeOK, Goto, ThreadAt, hostVars, clientVars
<1>8. CallInv'
  BY <1>1, <1>3 DEF CallInv, Goto, TypeOK
<1>9. ServerInv'
  BY <1>1 DEF ServerInv, hostVars
<1>10. TcpInv'
  <2>1. DOMAIN tcp' = DOMAIN sessions' \cup {arg'[s].fd : s \in Listening'}
    <3>1. {arg'[s].fd : s \in Listening'} = {FreeFd} /\ {arg[s].fd : s \in Listening} = {}
      BY <1>3, <1>4
    <3> QED
      BY <1>1, <1>6, <3>1 DEF TcpInv, hostVars
  <2>2. \A s \in Listening' : arg'[s].fd \notin DOMAIN sessions'
    BY <1>1, <1>2, <1>3, <1>4 DEF TcpInv, hostVars
  <2>3. \A fd \in DOMAIN tcp : tcp[fd] # c
    BY <1>5 DEF TcpInv
  <2>4. \A fd, gd \in DOMAIN tcp' : tcp'[fd] = tcp'[gd] => fd = gd
    BY <1>6, <2>3 DEF TcpInv
  <2>5. \A fd \in DOMAIN tcp' : tcp'[fd] \notin ToSet(tcpQueue')
    BY <1>5, <1>6 DEF TcpInv
  <2>6. \A fd \in DOMAIN tcp' : client'[tcp'[fd]] \notin {"off", "new"}
    BY <1>1, <1>5, <1>6 DEF TcpInv, clientVars
  <2>7. \A d \in ToSet(tcpQueue') : client'[d] \notin {"off", "new"}
    BY <1>1, <1>5 DEF TcpInv, clientVars
  <2> QED
    BY <1>5, <2>1, <2>2, <2>4, <2>5, <2>6, <2>7 DEF TcpInv
<1>11. UdtInv'
  <2>1. InSessions' = InSessions /\ InQueue' = InQueue
    BY <1>1 DEF InSessions, InQueue, hostVars
  <2> QED
    BY <1>1, <1>3, <1>4, <2>1 DEF UdtInv, SessionsApart, hostVars, clientVars
<1> QED
  BY <1>7, <1>8, <1>9, <1>10, <1>11

\* The connection at the end of the queue is nowhere else.
LEMMA UdtAcceptStep ==
    ASSUME SessionsInv, NEW t \in Thread,
           UdtAccept(t, "audio", "video") \/ UdtAccept(t, "video", "request")
    PROVE  SessionsInv'
<1> USE DEF SessionsInv
<1> DEFINE c == Last(udtQueue)
<1>1. /\ pc[t] \in {"audio", "video"} /\ lock = t /\ t \in Listening
      /\ UNCHANGED <<lock, hostVars, tcpQueue, tcp, udt, clientVars>>
      /\ udtQueue # <<>> /\ udtQueue' = Front(udtQueue)
      /\ pc[t] = "audio" => Goto(t, "video") /\ arg' = [arg EXCEPT ![t].audio = c]
      /\ pc[t] = "video" => Goto(t, "request") /\ arg' = [arg EXCEPT ![t].video = c]
  BY DEF UdtAccept, CallInv, Listening
<1>2. /\ udtQueue' \in Seq(Connection) /\ c \in InQueue /\ c \in Connection
      /\ InQueue' = InQueue \ {c} /\ Distinct(udtQueue')
  <2>1. udtQueue \in Seq(Connection) /\ Distinct(udtQueue)
    BY DEF TypeOK, UdtInv, SessionsApart
  <2>2. /\ udtQueue' \in Seq(Connection) /\ Len(udtQueue) \in DOMAIN udtQueue
        /\ ToSet(udtQueue') = ToSet(udtQueue) \ {c} /\ Distinct(udtQueue')
    BY <1>1, <2>1, QueueFront
  <2>3. c \in Connection /\ c \in ToSet(udtQueue)
    BY <2>1, <2>2 DEF Last, ToSet
  <2> QED
    BY <2>2, <2>3 DEF InQueue
<1> HIDE DEF c
<1>3. /\ arg'[t].fd = arg[t].fd
      /\ pc[t] = "audio" => arg'[t].audio = c /\ arg'[t].video = <<>> /\ arg[t].audio = <<>>
      /\ pc[t] = "video" => arg'[t].audio = arg[t].audio /\ arg'[t].video = c
      /\ pc[t] = "video" => arg[t].audio # <<>>
      /\ arg[t].video = <<>>
      /\ \A s \in Thread \ {t} : arg'[s] = arg[s]
      /\ arg' \in [Thread -> [fd : Nat, audio : Connection \cup {<<>>},
                              video : Connection \cup {<<>>}]]
  <2>1. /\ pc[t] = "video" => arg[t].audio # <<>>
        /\ pc[t] = "audio" => arg[t].audio = <<>>
        /\ arg[t].video = <<>>
    BY <1>1 DEF CallInv, Listening
  <2>2. CASE pc[t] = "audio"
    BY <1>1, <1>2, <2>1, <2>2 DEF TypeOK, Listening
  <2>3. CASE pc[t] = "video"
    BY <1>1, <1>2, <2>1, <2>3 DEF TypeOK, Listening
  <2> QED
    BY <1>1, <2>2, <2>3
<1>4. Listening = {t} /\ InCalls = {arg[t].audio, arg[t].video} \ {<<>>}
  BY <1>1, OneCall
<1>5. Listening' = {t} /\ InCalls' = {arg'[t].audio, arg'[t].video} \ {<<>>}
  BY <1>1, OwnCall DEF ThreadAt
<1>6. InCalls' = InCalls \cup {c}
  BY <1>1, <1>2, <1>3, <1>4, <1>5, NoneIsNoConnection
<1>7. TypeOK'
  BY <1>1, <1>2, <1>3 DEF TypeOK, Goto, ThreadAt, hostVars, clientVars
<1>8. CallInv'
  <2>1. /\ \A s \in Thread \ {t} : pc'[s] = pc[s] /\ arg'[s] = arg[s]
        /\ pc'[t] = IF pc[t] = "audio" THEN "video" ELSE "request"
    BY <1>1, <1>3 DEF Goto, TypeOK, Listening
  <2>2. c # <<>>
    BY <1>2, NoneIsNoConnection
  <2> QED
    BY <1>1, <1>3, <2>1, <2>2 DEF CallInv
<1>9. ServerInv'
  BY <1>1, <1>4, <1>5 DEF ServerInv, hostVars
<1>10. TcpInv'
  <2>1. {arg'[s].fd : s \in Listening'} = {arg[s].fd : s \in Listening}
    BY <1>3, <1>4, <1>5
  <2>2. \A s \in Listening' : arg'[s].fd \notin DOMAIN sessions
    BY <1>3, <1>4, <1>5 DEF TcpInv
  <2> QED
    BY <1>1, <2>1, <2>2 DEF TcpInv, hostVars, clientVars
<1>11. UdtInv'
  <2>1. InSessions' = InSessions
    BY <1>1 DEF InSessions, hostVars
  <2>2. \A s \in Listening' : arg'[s].audio = arg'[s].video => arg'[s].audio = <<>>
    <3>1. pc[t] = "audio" => arg'[t].audio # arg'[t].video
      BY <1>2, <1>3, NoneIsNoConnection
    <3>2. pc[t] = "video" => arg[t].audio \in InCalls
      BY <1>3, <1>4
    <3>3. c \notin InCalls
      BY <1>2 DEF UdtInv, SessionsApart
    <3> QED
      BY <1>1, <1>3, <1>5, <3>1, <3>2, <3>3
  <2> QED
    BY <1>1, <1>2, <1>6, <2>1, <2>2 DEF UdtInv, SessionsApart, hostVars, clientVars
<1> QED
  BY <1>7, <1>8, <1>9, <1>10, <1>11

\* What a call that gives up has accepted, and nothing else, is closed.
LEMMA RefuseStep ==
    ASSUME SessionsInv, NEW t \in Listening, Refuse(t)
    PROVE  SessionsInv'
<1> USE DEF SessionsInv
<1> DEFINE fd == arg[t].fd
<1>1. /\ t \in Thread /\ lock = t /\ Listening = {t}
      /\ InCalls = {arg[t].audio, arg[t].video} \ {<<>>}
  BY OneCall
<1>2. /\ Goto(t, "idle") /\ arg' = [arg EXCEPT ![t] = NoSession] /\ lock' = NoThread
      /\ UNCHANGED <<hostVars, tcpQueue, udtQueue, client>>
      /\ tcp' = Without(tcp, fd) /\ udt' = udt \ {arg[t].audio, arg[t].video}
  BY DEF Refuse, Return
<1>3. Listening' = {} /\ InCalls' = {}
  BY <1>1, <1>2, OwnCall DEF ThreadAt
<1>4. /\ DOMAIN tcp' = DOMAIN tcp \ {fd}
      /\ \A gd \in DOMAIN tcp' : tcp'[gd] = tcp[gd]
      /\ tcp' \in [DOMAIN tcp' -> Client] /\ DOMAIN tcp' \subseteq Fds
  BY <1>2 DEF Without, TypeOK
<1>5. TypeOK'
  BY <1>1, <1>2, <1>4 DEF TypeOK, Goto, ThreadAt, hostVars, NoSession
<1>6. CallInv'
  <2>1. \A s \in Thread \ {t} : pc[s] \notin {"tcp", "audio", "video", "request"}
    BY <1>1 DEF CallInv
  <2> QED
    BY <1>1, <1>2, <2>1 DEF CallInv, Goto, TypeOK, NoSession
<1>7. ServerInv'
  BY <1>1, <1>2 DEF ServerInv, hostVars
<1>8. TcpInv'
  <2>1. {arg'[s].fd : s \in Listening'} = {} /\ {arg[s].fd : s \in Listening} = {fd}
    BY <1>1, <1>3
  <2>2. fd \notin DOMAIN sessions
    BY <1>1 DEF TcpInv
  <2>3. sessions' = sessions /\ tcpQueue' = tcpQueue /\ client' = client
    BY <1>2 DEF hostVars
  <2>4. DOMAIN tcp' = DOMAIN sessions'
    BY <1>4, <2>1, <2>2, <2>3 DEF TcpInv
  <2>5. DOMAIN tcp' = DOMAIN sessions' \cup {arg'[s].fd : s \in Listening'}
    BY <2>1, <2>4
  <2> QED
    BY <1>3, <1>4, <2>3, <2>5 DEF TcpInv
<1>9. UdtInv'
  <2>1. InSessions' = InSessions /\ InQueue' = InQueue
    BY <1>2 DEF InSessions, InQueue, hostVars
  <2>2. <<>> \notin InSessions \cup InQueue
    BY NoneIsNoConnection DEF TypeOK, InSessions, ChannelsOf, InQueue, ToSet
  <2>3. udt' = InSessions \cup InQueue
    BY <1>1, <1>2, <2>2 DEF UdtInv, SessionsApart
  <2> QED
    BY <1>2, <1>3, <2>1, <2>3 DEF UdtInv, SessionsApart, hostVars
<1> QED
  BY <1>5, <1>6, <1>7, <1>8, <1>9
-----------------------------------------------------------------------------
LEMMA ChannelsOfAre ==
    ASSUME NEW S
    PROVE  \A u : u \in ChannelsOf(S) <=>
                    \E fd \in DOMAIN S : u = S[fd].audio \/ u = S[fd].video
BY DEF ChannelsOf

\* m_mapSessions with one session more.
LEMMA OneSessionMore ==
    ASSUME NEW S, NEW fd, fd \notin DOMAIN S, NEW a, NEW v
    PROVE  ChannelsOf(Insert(S, fd, [audio |-> a, video |-> v])) = ChannelsOf(S) \cup {a, v}
<1> DEFINE T == Insert(S, fd, [audio |-> a, video |-> v])
<1>1. /\ DOMAIN T = DOMAIN S \cup {fd} /\ T[fd].audio = a /\ T[fd].video = v
      /\ \A gd \in DOMAIN S : T[gd] = S[gd]
  BY DEF Insert
<1> HIDE DEF T
<1>2. \A u : u \in ChannelsOf(T) <=> u \in ChannelsOf(S) \/ u \in {a, v}
  BY <1>1, ChannelsOfAre
<1> QED
  BY <1>2 DEF T

\* m_mapSessions with one session less.
LEMMA OneSessionLess ==
    ASSUME NEW S, NEW fd \in DOMAIN S,
           \A gd, hd \in DOMAIN S : gd # hd =>
               {S[gd].audio, S[gd].video} \cap {S[hd].audio, S[hd].video} = {}
    PROVE  ChannelsOf(Without(S, fd)) = ChannelsOf(S) \ {S[fd].audio, S[fd].video}
<1> DEFINE T == Without(S, fd)
<1>1. /\ DOMAIN T = DOMAIN S \ {fd}
      /\ \A gd \in DOMAIN T : T[gd] = S[gd]
  BY DEF Without
<1> HIDE DEF T
<1>2. ASSUME NEW u, u \in ChannelsOf(T)
      PROVE  u \in ChannelsOf(S) /\ u \notin {S[fd].audio, S[fd].video}
  <2>1. PICK gd \in DOMAIN T : u = T[gd].audio \/ u = T[gd].video
    BY <1>2, ChannelsOfAre
  <2>2. gd \in DOMAIN S /\ gd # fd /\ u \in {S[gd].audio, S[gd].video}
    BY <1>1, <2>1
  <2>3. u \in ChannelsOf(S)
    BY <2>2, ChannelsOfAre
  <2> QED
    BY <2>2, <2>3
<1>3. ASSUME NEW u \in ChannelsOf(S), u \notin {S[fd].audio, S[fd].video}
      PROVE  u \in ChannelsOf(T)
  BY <1>1, <1>3, ChannelsOfAre
<1> QED
  BY <1>2, <1>3 DEF T

\* The sockets of the call become those of a session.
LEMMA AcceptClientStep ==
    ASSUME SessionsInv, NEW t \in Thread, AcceptClient(t)
    PROVE  SessionsInv'
<1> USE DEF SessionsInv
<1> DEFINE fd == arg[t].fd
           a == arg[t].audio
           v == arg[t].video
<1>1. /\ pc[t] = "request" /\ t \in Listening
      /\ Goto(t, "idle") /\ arg' = [arg EXCEPT ![t] = NoSession] /\ lock' = NoThread
      /\ sessions' = Insert(sessions, fd, [audio |-> a, video |-> v])
      /\ UNCHANGED <<server, netVars, client>>
  BY DEF AcceptClient, Return, Listening
<1>2. /\ lock = t /\ Listening = {t} /\ InCalls = {a, v} \ {<<>>}
  BY <1>1, OneCall
<1>3. Listening' = {} /\ InCalls' = {}
  BY <1>1, <1>2, OwnCall DEF ThreadAt
<1>4. /\ a \in Connection /\ v \in Connection /\ a # v /\ InCalls = {a, v}
      /\ fd \in DOMAIN tcp \ DOMAIN sessions
  <2>1. a # <<>> /\ v # <<>> /\ a # v
    BY <1>1, <1>2 DEF CallInv, UdtInv, SessionsApart
  <2>2. a \in Connection /\ v \in Connection
    BY <2>1 DEF TypeOK
  <2>3. fd \in DOMAIN tcp \ DOMAIN sessions
    BY <1>1 DEF TcpInv
  <2> QED
    BY <1>2, <2>1, <2>2, <2>3
<1>5. /\ DOMAIN sessions' = DOMAIN sessions \cup {fd}
      /\ sessions'[fd] = [audio |-> a, video |-> v]
      /\ \A gd \in DOMAIN sessions : sessions'[gd] = sessions[gd]
      /\ sessions' \in [DOMAIN sessions' -> [audio : Connection, video : Connection]]
  BY <1>1, <1>4 DEF Insert, TypeOK
<1>6. InSessions' = InSessions \cup {a, v}
  BY <1>1, <1>4, OneSessionMore DEF InSessions
<1> HIDE DEF fd, a, v
<1>7. TypeOK'
  BY <1>1, <1>5 DEF TypeOK, Goto, ThreadAt, netVars, NoSession
<1>8. CallInv'
  <2>1. \A s \in Thread \ {t} : pc[s] \notin {"tcp", "audio", "video", "request"}
    BY <1>2 DEF CallInv
  <2> QED
    BY <1>1, <1>2, <2>1 DEF CallInv, Goto, TypeOK, NoSession
<1>9. ServerInv'
  BY <1>1, <1>2 DEF ServerInv
<1>10. TcpInv'
  <2>1. {arg'[s].fd : s \in Listening'} = {} /\ {arg[s].fd : s \in Listening} = {fd}
    BY <1>2, <1>3 DEF fd
  <2>2. DOMAIN tcp' = DOMAIN sessions' \cup {arg'[s].fd : s \in Listening'}
    BY <1>1, <1>5, <2>1 DEF TcpInv, netVars
  <2> QED
    BY <1>1, <1>3, <2>2 DEF TcpInv, netVars
<1>11. UdtInv'
  <2>1. InQueue' = InQueue /\ udt' = udt /\ udtQueue' = udtQueue
    BY <1>1 DEF InQueue, netVars
  <2>2. /\ udt' = InSessions' \cup InCalls' \cup InQueue'
        /\ InSessions' \cap InCalls' = {} /\ InSessions' \cap InQueue' = {}
        /\ InCalls' \cap InQueue' = {}
    BY <1>3, <1>4, <1>6, <2>1 DEF UdtInv, SessionsApart
  <2>3. \A gd \in DOMAIN sessions' : sessions'[gd].audio # sessions'[gd].video
    BY <1>4, <1>5 DEF UdtInv, SessionsApart
  <2>4. \A gd \in DOMAIN sessions : {sessions[gd].audio, sessions[gd].video} \cap {a, v} = {}
    <3>1. \A gd \in DOMAIN sessions : sessions[gd].audio \in InSessions
                                    /\ sessions[gd].video \in InSessions
      BY ChannelsOfAre DEF InSessions
    <3> QED
      BY <1>4, <3>1 DEF UdtInv, SessionsApart
  <2>5. \A gd, hd \in DOMAIN sessions' : gd # hd =>
          {sessions'[gd].audio, sessions'[gd].video} \cap {sessions'[hd].audio, sessions'[hd].video} = {}
    BY <1>5, <2>4 DEF UdtInv, SessionsApart
  <2> QED
    BY <1>1, <1>3, <2>1, <2>2, <2>3, <2>5 DEF UdtInv, SessionsApart
<1> QED
  BY <1>7, <1>8, <1>9, <1>10, <1>11

\* The sockets of the session that goes are closed, those of the others stay.
LEMMA SessionCloseStep ==
    ASSUME SessionsInv, NEW t \in Thread, SessionCloseLocked(t)
    PROVE  SessionsInv'
<1> USE DEF SessionsInv
<1> DEFINE fd == arg[t].fd
<1>1. /\ pc[t] = "close" /\ lock = NoThread /\ t \notin Listening
      /\ UNCHANGED <<server, tcpQueue, udtQueue, clientVars>>
  BY DEF SessionCloseLocked, Listening
<1>2. Listening = {} /\ InCalls = {}
  BY <1>1, NoCall
<1>3. CASE fd \in DOMAIN sessions
  <2>1. /\ sessions' = Without(sessions, fd) /\ tcp' = Without(tcp, fd)
        /\ udt' = udt \ {sessions[fd].audio, sessions[fd].video}
        /\ Goto(t, "idle") /\ arg' = [arg EXCEPT ![t] = NoSession] /\ lock' = NoThread
    BY <1>3 DEF SessionCloseLocked, Return
  <2>2. Listening' = {} /\ InCalls' = {}
    BY <1>1, <1>2, <2>1, SameCalls DEF ThreadAt, TypeOK
  <2>3. /\ DOMAIN tcp' = DOMAIN tcp \ {fd} /\ DOMAIN sessions' = DOMAIN sessions \ {fd}
        /\ \A gd \in DOMAIN tcp' : tcp'[gd] = tcp[gd]
        /\ \A gd \in DOMAIN sessions' : sessions'[gd] = sessions[gd]
    BY <2>1 DEF Without
  <2>4. /\ tcp' \in [DOMAIN tcp' -> Client] /\ DOMAIN tcp' \subseteq Fds
        /\ sessions' \in [DOMAIN sessions' -> [audio : Connection, video : Connection]]
    BY <2>1, <2>3 DEF Without, TypeOK
  <2>5. TypeOK'
    BY <1>1, <2>1, <2>4 DEF TypeOK, Goto, ThreadAt, clientVars, NoSession
  <2>6. CallInv'
    BY <1>1, <2>1, SessionsAssumption DEF CallInv, Goto, TypeOK, NoSession
  <2>7. ServerInv'
    <3>1. ~(lock \in Thread)
      BY <1>1, SessionsAssumption
    <3>2. server # "closed"
      BY <1>3, <3>1 DEF ServerInv
    <3> QED
      BY <1>1, <3>2 DEF ServerInv
  <2>8. TcpInv'
    <3>1. {arg'[s].fd : s \in Listening'} = {} /\ {arg[s].fd : s \in Listening} = {}
      BY <1>2, <2>2
    <3>2. DOMAIN tcp' = DOMAIN sessions' \cup {arg'[s].fd : s \in Listening'}
      BY <2>3, <3>1 DEF TcpInv
    <3> QED
      BY <1>1, <2>2, <2>3, <3>2 DEF TcpInv, clientVars
  <2>9. UdtInv'
    <3>1. InSessions' = InSessions \ {sessions[fd].audio, sessions[fd].video}
      BY <1>3, <2>1, OneSessionLess DEF InSessions, UdtInv, SessionsApart
    <3>2. {sessions[fd].audio, sessions[fd].video} \subseteq InSessions
      BY <1>3, ChannelsOfAre DEF InSessions
    <3>3. InQueue' = InQueue /\ udtQueue' = udtQueue /\ client' = client
      BY <1>1 DEF InQueue, clientVars
    <3>4. udt' = InSessions' \cup InQueue
      BY <1>2, <2>1, <3>1, <3>2 DEF UdtInv, SessionsApart
    <3>5. udt' \subseteq udt
      BY <2>1
    <3>6. InSessions' \cap InQueue = {}
      BY <3>1 DEF UdtInv, SessionsApart
    <3> QED
      BY <2>2, <2>3, <3>3, <3>4, <3>5, <3>6 DEF UdtInv, SessionsApart
  <2> QED
    BY <2>5, <2>6, <2>7, <2>8, <2>9
<1>4. CASE fd \notin DOMAIN sessions
  <2>1. lock' = t /\ Goto(t, "stuck") /\ UNCHANGED <<arg, sessions, tcp, udt>>
    BY <1>4 DEF SessionCloseLocked
  <2>2. /\ Listening' = Listening /\ InCalls' = InCalls
        /\ \A s \in Listening : arg'[s] = arg[s]
    BY <1>1, <2>1, SameCalls DEF ThreadAt
  <2>3. TypeOK'
    BY <1>1, <2>1 DEF TypeOK, Goto, ThreadAt, clientVars
  <2>4. TcpInv' /\ UdtInv'
    BY <1>1, <2>1, <2>2, SameSockets DEF netVars, clientVars
  <2>5. CallInv'
    BY <1>1, <2>1, SessionsAssumption DEF CallInv, Goto, TypeOK, NoSession
  <2>6. ServerInv'
    BY <1>1, <2>1, <2>2 DEF ServerInv, Goto, TypeOK
  <2> QED
    BY <2>3, <2>4, <2>5, <2>6
<1> QED
  BY <1>3, <1>4
-----------------------------------------------------------------------------
LEMMA UdtAreConnections ==
    ASSUME TypeOK, UdtInv
    PROVE  udt \subseteq Connection /\ \A u \in udt : u[1] \in Client
<1>1. InSessions \subseteq Connection
  <2>1. \A fd \in DOMAIN sessions : /\ sessions[fd].audio \in Connection
                                    /\ sessions[fd].video \in Connection
    BY DEF TypeOK
  <2> QED
    BY <2>1, ChannelsOfAre DEF InSessions
<1>2. InCalls \subseteq Connection
  BY DEF TypeOK, InCalls, Listening
<1>3. InQueue \subseteq Connection
  BY DEF TypeOK, InQueue, ToSet
<1>4. udt \subseteq Connection
  BY <1>1, <1>2, <1>3 DEF UdtInv, SessionsApart
<1> QED
  BY <1>4 DEF Connection

\* Steps of a client leave the calls and the sessions of the host alone.
LEMMA ClientStep ==
    ASSUME TypeOK, CallInv, ServerInv, NEW c \in Client, NEW to \in ClientAt,
           client' = [client EXCEPT ![c] = to],
           UNCHANGED <<lock, pc, arg, server, sessions, tcp>>,
           tcpQueue' \in Seq(Client), udtQueue' \in Seq(Connection)
    PROVE  /\ TypeOK' /\ CallInv' /\ ServerInv'
           /\ Listening' = Listening /\ InCalls' = InCalls /\ InSessions' = InSessions
           /\ {arg'[s].fd : s \in Listening'} = {arg[s].fd : s \in Listening}
<1>1. Listening' = Listening
  BY DEF Listening
<1> QED
  BY <1>1 DEF TypeOK, CallInv, ServerInv, InCalls, InSessions

\* A client that does not connect; one that leaves may have connections.
LEMMA ClientMove ==
    ASSUME SessionsInv, NEW c \in Client, NEW from \in ClientAt, NEW to \in ClientAt,
           Move(c, from, to), UNCHANGED <<lock, pc, arg, server, sessions, netVars>>,
           \/ from = "off" /\ to = "new"
           \/ from = "new" /\ to \in {"stuck", "failed"}
           \/ from # "off" /\ to \in {"wait", "connected", "failed", "gone"}
    PROVE  SessionsInv'
<1> USE DEF SessionsInv
<1>1. /\ client[c] = from /\ client' = [client EXCEPT ![c] = to]
      /\ tcpQueue' = tcpQueue /\ udtQueue' = udtQueue /\ tcp' = tcp /\ udt' = udt
      /\ sessions' = sessions
  BY DEF Move, netVars
<1>2. /\ TypeOK' /\ CallInv' /\ ServerInv'
      /\ Listening' = Listening /\ InCalls' = InCalls /\ InSessions' = InSessions
      /\ {arg'[s].fd : s \in Listening'} = {arg[s].fd : s \in Listening}
  BY <1>1, ClientStep DEF TypeOK
<1>3. \A d \in Client : client'[d] = IF d = c THEN to ELSE client[d]
  BY <1>1 DEF TypeOK
<1>4. TcpInv'
  <2>1. tcpQueue \in Seq(Client) /\ ToSet(tcpQueue) \subseteq Client
    BY DEF TypeOK, ToSet
  <2>2. \A fd \in DOMAIN tcp : client'[tcp[fd]] \notin {"off", "new"}
    BY <1>1, <1>3 DEF TypeOK, TcpInv
  <2>3. \A d \in ToSet(tcpQueue) : client'[d] \notin {"off", "new"}
    BY <1>1, <1>3, <2>1 DEF TcpInv
  <2> QED
    BY <1>1, <1>2, <2>2, <2>3 DEF TcpInv
<1>5. UdtInv'
  <2>2. \A u \in udt : u[1] \in Client
    BY UdtAreConnections
  <2>3. \A u \in udt : /\ client'[u[1]] \notin {"off", "new", "audio", "stuck"}
                       /\ u[2] = "video" => client'[u[1]] # "video"
    BY <1>1, <1>3, <2>2 DEF UdtInv, SessionsApart
  <2>4. InQueue' = InQueue
    BY <1>1 DEF InQueue
  <2> QED
    BY <1>1, <1>2, <2>3, <2>4 DEF UdtInv, SessionsApart
<1> QED
  BY <1>2, <1>4, <1>5

\* A client connects once.
LEMMA TcpConnectStep ==
    ASSUME SessionsInv, NEW c \in Client, TcpConnect(c)
    PROVE  SessionsInv'
<1> USE DEF SessionsInv
<1>1. /\ client[c] = "new" /\ client' = [client EXCEPT ![c] = "audio"]
      /\ tcpQueue' = Append(tcpQueue, c)
      /\ UNCHANGED <<lock, pc, arg, server, sessions, tcp, udtQueue, udt>>
  BY DEF TcpConnect, Move, hostVars
<1>2. c \notin ToSet(tcpQueue) /\ \A fd \in DOMAIN tcp : tcp[fd] # c
  BY <1>1 DEF TcpInv
<1>3. /\ tcpQueue' \in Seq(Client) /\ ToSet(tcpQueue') = ToSet(tcpQueue) \cup {c}
      /\ Distinct(tcpQueue')
  <2>1. tcpQueue \in Seq(Client) /\ Distinct(tcpQueue)
    BY DEF TypeOK, TcpInv
  <2> QED
    BY <1>1, <1>2, <2>1, OneMore
<1>4. /\ TypeOK' /\ CallInv' /\ ServerInv'
      /\ Listening' = Listening /\ InCalls' = InCalls /\ InSessions' = InSessions
      /\ {arg'[s].fd : s \in Listening'} = {arg[s].fd : s \in Listening}
  BY <1>1, <1>3, ClientStep DEF TypeOK, ClientAt
<1>5. \A d \in Client : client'[d] = IF d = c THEN "audio" ELSE client[d]
  BY <1>1 DEF TypeOK
<1>6. TcpInv'
  <2>1. ToSet(tcpQueue) \subseteq Client
    BY DEF TypeOK, ToSet
  <2>2. \A fd \in DOMAIN tcp : client'[tcp[fd]] \notin {"off", "new"}
    BY <1>2, <1>5 DEF TypeOK, TcpInv
  <2>3. \A d \in ToSet(tcpQueue') : client'[d] \notin {"off", "new"}
    BY <1>3, <1>5, <2>1 DEF TcpInv
  <2>4. \A fd \in DOMAIN tcp : tcp[fd] \notin ToSet(tcpQueue')
    BY <1>2, <1>3 DEF TcpInv
  <2> QED
    BY <1>1, <1>3, <1>4, <2>2, <2>3, <2>4 DEF TcpInv
<1>7. UdtInv'
  <2>1. \A u \in udt : u[1] \in Client /\ u[1] # c
    BY <1>1, UdtAreConnections DEF UdtInv, SessionsApart
  <2>2. InQueue' = InQueue
    BY <1>1 DEF InQueue
  <2> QED
    BY <1>1, <1>4, <1>5, <2>1, <2>2 DEF UdtInv, SessionsApart
<1> QED
  BY <1>4, <1>6, <1>7

\* A client makes each of its UDT connections once.
LEMMA UdtConnectStep ==
    ASSUME SessionsInv, NEW c \in Client,
           UdtConnect(c, "audio", "video") \/ UdtConnect(c, "video", "send")
    PROVE  SessionsInv'
<1> USE DEF SessionsInv
<1>1. PICK channel \in Channels :
         /\ client[c] = channel
         /\ client' = [client EXCEPT ![c] = IF channel = "audio" THEN "video" ELSE "send"]
         /\ \/ udtQueue' = Append(udtQueue, <<c, channel>>) /\ udt' = udt \cup {<<c, channel>>}
            \/ UNCHANGED <<udtQueue, udt>>
         /\ UNCHANGED <<lock, pc, arg, server, sessions, tcp, tcpQueue>>
  BY DEF UdtConnect, Move, hostVars, Channels
<1> DEFINE to == IF channel = "audio" THEN "video" ELSE "send"
           x == <<c, channel>>
<1>2. x \in Connection /\ x[1] = c /\ x[2] = channel
  BY DEF Connection
<1> HIDE DEF x
<1>3. x \notin udt
  BY <1>1, <1>2 DEF UdtInv, SessionsApart, Channels
<1>4. \A d \in Client : client'[d] = IF d = c THEN to ELSE client[d]
  BY <1>1 DEF TypeOK
<1>5. /\ udtQueue' \in Seq(Connection) /\ Distinct(udtQueue')
      /\ \/ InQueue' = InQueue /\ udt' = udt
         \/ InQueue' = InQueue \cup {x} /\ udt' = udt \cup {x}
  <2>1. udtQueue \in Seq(Connection) /\ Distinct(udtQueue)
    BY DEF TypeOK, UdtInv, SessionsApart
  <2>2. CASE UNCHANGED <<udtQueue, udt>>
    BY <2>1, <2>2 DEF InQueue
  <2>3. CASE udtQueue' = Append(udtQueue, x) /\ udt' = udt \cup {x}
    <3>1. x \notin ToSet(udtQueue)
      BY <1>3 DEF UdtInv, SessionsApart, InQueue
    <3>2. /\ Append(udtQueue, x) \in Seq(Connection) /\ Distinct(Append(udtQueue, x))
          /\ ToSet(Append(udtQueue, x)) = ToSet(udtQueue) \cup {x}
      BY <1>2, <2>1, <3>1, OneMore
    <3> QED
      BY <2>3, <3>2 DEF InQueue
  <2> QED
    BY <1>1, <2>2, <2>3 DEF x
<1>6. /\ TypeOK' /\ CallInv' /\ ServerInv'
      /\ Listening' = Listening /\ InCalls' = InCalls /\ InSessions' = InSessions
      /\ {arg'[s].fd : s \in Listening'} = {arg[s].fd : s \in Listening}
  <2>1. to \in ClientAt
    BY DEF ClientAt
  <2>2. tcpQueue' \in Seq(Client)
    BY <1>1 DEF TypeOK
  <2> QED
    BY <1>1, <1>5, <2>1, <2>2, ClientStep
<1>7. TcpInv'
  <2>1. ToSet(tcpQueue) \subseteq Client
    BY DEF TypeOK, ToSet
  <2>2. \A d \in Client : client[d] \notin {"off", "new"} => client'[d] \notin {"off", "new"}
    BY <1>4
  <2>3. \A fd \in DOMAIN tcp : client'[tcp[fd]] \notin {"off", "new"}
    BY <2>2 DEF TypeOK, TcpInv
  <2> QED
    BY <1>1, <1>6, <2>1, <2>2, <2>3 DEF TcpInv
<1>8. UdtInv'
  <2>1. /\ udt' = InSessions \cup InCalls \cup InQueue'
        /\ InSessions \cap InQueue' = {} /\ InCalls \cap InQueue' = {}
    BY <1>3, <1>5 DEF UdtInv, SessionsApart
  <2>2. \A u \in udt' : /\ client'[u[1]] \notin {"off", "new", "audio", "stuck"}
                        /\ u[2] = "video" => client'[u[1]] # "video"
    <3> SUFFICES ASSUME NEW u \in udt'
                 PROVE  /\ client'[u[1]] \notin {"off", "new", "audio", "stuck"}
                        /\ u[2] = "video" => client'[u[1]] # "video"
      OBVIOUS
    <3>1. CASE u = x
      BY <1>1, <1>2, <1>4, <3>1 DEF Channels
    <3>2. CASE u \in udt
      <4>1. u[1] \in Client
        BY <3>2, UdtAreConnections
      <4>2. /\ client[u[1]] \notin {"off", "new", "audio", "stuck"}
            /\ u[2] = "video" => client[u[1]] # "video"
        BY <3>2 DEF UdtInv, SessionsApart
      <4> QED
        BY <1>1, <1>4, <4>1, <4>2 DEF Channels
    <3> QED
      BY <1>5, <3>1, <3>2
  <2>3. /\ sessions' = sessions /\ arg' = arg /\ Distinct(udtQueue')
    BY <1>1, <1>5
  <2>4. /\ udt' = InSessions' \cup InCalls' \cup InQueue'
        /\ InSessions' \cap InCalls' = {} /\ InSessions' \cap InQueue' = {}
        /\ InCalls' \cap InQueue' = {}
    BY <1>6, <2>1 DEF UdtInv, SessionsApart
  <2>5. /\ \A fd \in DOMAIN sessions' : sessions'[fd].audio # sessions'[fd].video
        /\ \A t \in Listening' : arg'[t].audio = arg'[t].video => arg'[t].audio = <<>>
    BY <1>6, <2>3 DEF UdtInv, SessionsApart
  <2>6. SessionsApart'
    BY <2>3 DEF UdtInv, SessionsApart
  <2> QED
    BY <2>2, <2>3, <2>4, <2>5, <2>6 DEF UdtInv
<1> QED
  BY <1>6, <1>7, <1>8

\* A connection that broke is in the queue, so neither in a session nor in a call.
LEMMA ForgetStep ==
    ASSUME SessionsInv, NEW i \in DOMAIN udtQueue, Forget(i)
    PROVE  SessionsInv'
<1> USE DEF SessionsInv
<1>1. /\ udtQueue' = RemoveAt(udtQueue, i) /\ udt' = udt \ {udtQueue[i]}
      /\ UNCHANGED <<lock, pc, arg, server, sessions, tcp, tcpQueue, client>>
  BY DEF Forget, hostVars, clientVars
<1>2. /\ udtQueue' \in Seq(Connection) /\ Distinct(udtQueue')
      /\ InQueue' = InQueue \ {udtQueue[i]} /\ udtQueue[i] \in InQueue
  <2>1. udtQueue \in Seq(Connection) /\ Distinct(udtQueue)
    BY DEF TypeOK, UdtInv, SessionsApart
  <2>2. /\ udtQueue' \in Seq(Connection) /\ Distinct(udtQueue')
        /\ ToSet(udtQueue') = ToSet(udtQueue) \ {udtQueue[i]}
    BY <1>1, <2>1, QueueRemoveAt
  <2> QED
    BY <2>2 DEF InQueue, ToSet
<1>3. /\ Listening' = Listening /\ InSessions' = InSessions /\ InCalls' = InCalls
      /\ {arg'[s].fd : s \in Listening'} = {arg[s].fd : s \in Listening}
  <2>1. Listening' = Listening
    BY <1>1 DEF Listening
  <2> QED
    BY <1>1, <2>1 DEF InSessions, InCalls
<1>4. TypeOK' /\ CallInv' /\ ServerInv' /\ TcpInv'
  BY <1>1, <1>2, <1>3 DEF TypeOK, CallInv, ServerInv, TcpInv
<1>5. UdtInv'
  <2>1. /\ udt' = InSessions \cup InCalls \cup InQueue' /\ udt' \subseteq udt
        /\ InSessions \cap InQueue' = {} /\ InCalls \cap InQueue' = {}
    BY <1>1, <1>2 DEF UdtInv, SessionsApart
  <2> QED
    BY <1>1, <1>2, <1>3, <2>1 DEF UdtInv, SessionsApart
<1> QED
  BY <1>4, <1>5
-----------------------------------------------------------------------------
\* No step of a call, a client or the system breaks the invariant.
LEMMA StepInv == SessionsInv /\ [Next]_vars => SessionsInv'
<1> SUFFICES ASSUME SessionsInv, [Next]_vars PROVE SessionsInv'
  OBVIOUS
<1>1. ASSUME NEW t \in Thread, Host(t) PROVE SessionsInv'
  <2>1. CASE HostInit(t) \/ HostDeInit(t) \/ HostListen(t) \/ HostListenLocked(t)
             \/ TcpAcceptFails(t) \/ SessionClose(t)
    BY <2>1, QuietStep
  <2>2. CASE HostInitLocked(t)
    BY <2>2, HostInitStep
  <2>3. CASE HostDeInitLocked(t)
    BY <2>3, HostDeInitStep
  <2>4. CASE TcpAccept(t)
    BY <2>4, TcpAcceptStep
  <2>5. CASE UdtAccept(t, "audio", "video") \/ UdtAccept(t, "video", "request")
    BY <2>5, UdtAcceptStep
  <2>6. CASE UdtAcceptFails(t) \/ NoRequest(t) \/ RefuseClient(t)
    <3>1. t \in Listening /\ Refuse(t)
      BY <2>6 DEF UdtAcceptFails, NoRequest, RefuseClient, Listening, Channels
    <3> QED
      BY <3>1, RefuseStep
  <2>7. CASE AcceptClient(t)
    BY <2>7, AcceptClientStep
  <2>8. CASE SessionCloseLocked(t)
    BY <2>8, SessionCloseStep
  <2> QED
    BY <1>1, <2>1, <2>2, <2>3, <2>4, <2>5, <2>6, <2>7, <2>8 DEF Host, Listen
<1>2. ASSUME NEW c \in Client, ClientInit(c) \/ ClientInitAgain(c) \/ Connect(c) \/ Leave(c)
      PROVE  SessionsInv'
  <2> DEFINE Others == UNCHANGED <<lock, pc, arg, server, sessions, netVars>>
  <2>1. CASE ClientInit(c)
    <3>1. Move(c, "off", "new") /\ Others
      BY <2>1 DEF ClientInit, hostVars
    <3> QED
      BY <3>1, ClientMove DEF ClientAt
  <2>2. CASE ClientInitAgain(c)
    <3>1. Move(c, "new", "stuck") /\ Others
      BY <2>2 DEF ClientInitAgain, hostVars
    <3> QED
      BY <3>1, ClientMove DEF ClientAt
  <2>3. CASE TcpConnect(c)
    BY <2>3, TcpConnectStep
  <2>4. CASE TcpConnectFails(c)
    <3>1. Move(c, "new", "failed") /\ Others
      BY <2>4 DEF TcpConnectFails, hostVars
    <3> QED
      BY <3>1, ClientMove DEF ClientAt
  <2>5. CASE UdtConnect(c, "audio", "video") \/ UdtConnect(c, "video", "send")
    BY <2>5, UdtConnectStep
  <2>6. CASE SendRequest(c)
    <3>1. Move(c, "send", "wait") /\ Others
      BY <2>6 DEF SendRequest, hostVars
    <3> QED
      BY <3>1, ClientMove DEF ClientAt
  <2>7. CASE Answered(c)
    <3>1. Move(c, "wait", "connected") /\ Others
      BY <2>7 DEF Answered, hostVars
    <3> QED
      BY <3>1, ClientMove DEF ClientAt
  <2>8. CASE NotAnswered(c)
    <3>1. Move(c, "wait", "failed") /\ Others
      BY <2>8 DEF NotAnswered, hostVars
    <3> QED
      BY <3>1, ClientMove DEF ClientAt
  <2>9. CASE Leave(c)
    <3>1. client[c] \in ClientAt
      BY DEF SessionsInv, TypeOK
    <3>2. client[c] # "off" /\ Move(c, client[c], "gone") /\ Others
      BY <2>9 DEF Leave, Move, hostVars
    <3> QED
      BY <3>1, <3>2, ClientMove DEF ClientAt
  <2> QED
    BY <1>2, <2>1, <2>2, <2>3, <2>4, <2>5, <2>6, <2>7, <2>8, <2>9 DEF Connect
<1>3. ASSUME NEW i \in DOMAIN udtQueue, Forget(i) PROVE SessionsInv'
  BY <1>3, ForgetStep
<1>4. ASSUME UNCHANGED vars PROVE SessionsInv'
  <2>1. UNCHANGED <<lock, pc, arg, server, sessions, tcp, udt, tcpQueue, udtQueue, client>>
    BY <1>4 DEF vars, hostVars, netVars, clientVars
  <2>2. Listening' = Listening
    BY <2>1 DEF Listening
  <2>3. InSessions' = InSessions /\ InCalls' = InCalls /\ InQueue' = InQueue
    BY <2>1, <2>2 DEF InSessions, InCalls, InQueue
  <2> QED
    BY <2>1, <2>2, <2>3 DEF SessionsInv, TypeOK, CallInv, ServerInv, TcpInv, UdtInv, SessionsApart
<1> QED
  BY <1>1, <1>2, <1>3, <1>4 DEF Next

\* One connection, one place.
LEMMA InvHeld == SessionsInv => SocketsHeld
<1> SUFFICES ASSUME SessionsInv PROVE SocketsHeld
  OBVIOUS
<1> USE DEF SessionsInv
<1>1. \A fd \in DOMAIN sessions : /\ sessions[fd].audio \in InSessions
                                  /\ sessions[fd].video \in InSessions
  BY ChannelsOfAre DEF InSessions
<1>2. \A u \in udt : \E h \in Holders(u) : Holders(u) = {h}
  <2> SUFFICES ASSUME NEW u \in udt PROVE \E h \in Holders(u) : Holders(u) = {h}
    OBVIOUS
  <2> DEFINE InS == {h \in {"session"} \X (DOMAIN sessions) \X Channels : sessions[h[2]][h[3]] = u}
             InC == {h \in {"call"} \X Listening \X Channels : arg[h[2]][h[3]] = u}
             InQ == {h \in {"queue"} \X (DOMAIN udtQueue) : udtQueue[h[2]] = u}
  <2>1. u # <<>>
    BY UdtAreConnections, NoneIsNoConnection
  <2>2. InS # {} => u \in InSessions
    BY <1>1 DEF Channels
  <2>3. InC # {} => u \in InCalls
    BY <2>1 DEF InCalls, Channels
  <2>4. InQ # {} => u \in InQueue
    BY DEF InQueue, ToSet
  <2>5. CASE u \in InSessions
    <3>1. PICK fd \in DOMAIN sessions : u = sessions[fd].audio \/ u = sessions[fd].video
      BY <2>5, ChannelsOfAre DEF InSessions
    <3>2. PICK ch \in Channels : u = sessions[fd][ch]
      BY <3>1 DEF Channels
    <3>3. \A gd \in DOMAIN sessions, dh \in Channels :
             sessions[gd][dh] = u => gd = fd /\ dh = ch
      BY <3>2 DEF UdtInv, SessionsApart, Channels
    <3>4. InS = {<<"session", fd, ch>>}
      BY <3>2, <3>3
    <3>5. InC = {} /\ InQ = {}
      BY <2>3, <2>4, <2>5 DEF UdtInv, SessionsApart
    <3> QED
      BY <3>4, <3>5 DEF Holders
  <2>6. CASE u \in InCalls
    <3>1. PICK t \in Listening : u \in {arg[t].audio, arg[t].video}
      BY <2>6 DEF InCalls
    <3>2. PICK ch \in Channels : u = arg[t][ch]
      BY <3>1 DEF Channels
    <3>3. Listening = {t}
      BY OneCall
    <3>4. \A s \in Listening, dh \in Channels : arg[s][dh] = u => s = t /\ dh = ch
      BY <2>1, <3>2, <3>3 DEF UdtInv, SessionsApart, Channels
    <3>5. InC = {<<"call", t, ch>>}
      BY <3>2, <3>4
    <3>6. InS = {} /\ InQ = {}
      BY <2>2, <2>4, <2>6 DEF UdtInv
    <3> QED
      BY <3>5, <3>6 DEF Holders
  <2>7. CASE u \in InQueue
    <3>1. PICK i \in DOMAIN udtQueue : u = udtQueue[i]
      BY <2>7 DEF InQueue, ToSet
    <3>2. \A j \in DOMAIN udtQueue : udtQueue[j] = u => j = i
      BY <3>1 DEF UdtInv, SessionsApart, Distinct
    <3>3. InQ = {<<"queue", i>>}
      BY <3>1, <3>2
    <3>4. InS = {} /\ InC = {}
      BY <2>2, <2>3, <2>7 DEF UdtInv, SessionsApart
    <3> QED
      BY <3>3, <3>4 DEF Holders
  <2> QED
    BY <2>5, <2>6, <2>7 DEF UdtInv, SessionsApart
<1> QED
  BY <1>1, <1>2 DEF SocketsHeld, TcpInv, UdtInv, SessionsApart

\* Every open socket of a host belongs to one session, or to the call that waits
\* for a client, or waits to be accepted: no way through ZLink_Host_Listen and
\* ZLink_Session_Close leaks one or gives one to two, for any number of threads
\* and clients.
THEOREM Held == Spec => []SocketsHeld
<1>1. Init => SessionsInv
  BY InitInv
<1>2. SessionsInv /\ [Next]_vars => SessionsInv'
  BY StepInv
<1>3. SessionsInv => SocketsHeld
  BY InvHeld
<1> QED
  BY <1>1, <1>2, <1>3, PTL DEF Spec
-----------------------------------------------------------------------------
(* The frames of a channel.                                                *)

\* nTimeoutMs is 0, and nFrameDataMaxSize is no less than any frame's size.
Unlimited == Rounds = 0 /\ DataLens \subseteq 0 .. MaxDataLen

Parts == {"header", "info", "data"}
Cells == {c \in [frame : 1 .. NumFrames, part : Parts, at : Nat \ {0}, size : DataLens] :
             c.at <= PartLen(c.part, c.size)}

\* Cells of the frame before a part; up to and with a cell; in all.
Start(part) ==
    CASE part = "header" -> 0 [] part = "info" -> HeaderLen [] part = "data" -> HeaderLen + InfoLen
Off(c) == Start(c.part) + c.at
FrameLen(size) == HeaderLen + InfoLen + size

\* off cells of frame f, of size m, is the same position as p of frame g: they
\* are equal, or one is the end of a frame and the other where the next begins.
Same(f, off, m, g, p, n) ==
    \/ f = g /\ off = p /\ (off = 0 \/ m = n)
    \/ g = f + 1 /\ off = FrameLen(m) /\ p = 0
    \/ f = g + 1 /\ p = FrameLen(n) /\ off = 0

SentFrames == IF snd.part = "idle" THEN snd.frame - 1 ELSE snd.frame
SOff == IF snd.part = "idle" THEN 0 ELSE Start(snd.part) + snd.done

RFrame == Len(delivered) + 1
ROff == IF rcv.part = "idle" THEN 0 ELSE Start(rcv.part) + Len(rcv.got)
RSize == IF rcv.part = "header" /\ rcv.got # <<>> THEN rcv.got[1].size ELSE rcv.size

\* The records of the two calls.
SndRecs == [part : Parts \cup {"idle"}, frame : Nat \ {0}, size : Nat, done : Nat, rounds : Nat]
RcvRecs == [part : Parts \cup {"idle"}, got : Seq(Cells), rounds : Nat, size : Nat,
            info : Seq(Cells)]

SndOK ==
    /\ snd \in SndRecs
    /\ snd.part = "idle" => snd.frame <= NumFrames + 1 /\ snd.done = 0
    /\ snd.part # "idle" => /\ snd.frame <= NumFrames /\ snd.size \in DataLens
                            /\ snd.done <= SendLen

RcvOK ==
    /\ rcv \in RcvRecs
    /\ rcv.part = "idle" => rcv.got = <<>>
    /\ rcv.part # "idle" =>
          /\ Len(rcv.got) <= RecvLen
          /\ \A k \in 1 .. Len(rcv.got) : rcv.got[k] = Cell(RFrame, rcv.part, k, RSize)
    /\ rcv.part \in {"info", "data"} => rcv.size \in DataLens
    /\ rcv.part = "data" => rcv.info = [k \in 1 .. InfoLen |-> Cell(RFrame, "info", k, rcv.size)]
    /\ ROff > 0 => RFrame <= SentFrames

\* Cells of one frame follow each other, and a frame follows a frame.
Chain(s) ==
    /\ \A i \in 1 .. Len(s) : \A j \in i .. Len(s) :
          Off(s[i]) + (j - i) <= FrameLen(s[i].size) =>
             s[j].frame = s[i].frame /\ s[j].size = s[i].size /\ Off(s[j]) = Off(s[i]) + (j - i)
    /\ \A i \in 1 .. Len(s) - 1 :
          Off(s[i]) = FrameLen(s[i].size) => s[i + 1].frame = s[i].frame + 1 /\ Off(s[i + 1]) = 1

StreamOK ==
    /\ stream \in Seq(Cells)
    /\ \A i \in 1 .. Len(stream) : stream[i].frame <= SentFrames
    /\ Chain(stream)

\* Where the stream begins and where it ends.
EndsMeet ==
    /\ up # "closed" /\ stream # <<>> =>
          Same(RFrame, ROff, RSize, stream[1].frame, Off(stream[1]) - 1, stream[1].size)
    /\ up = "open" /\ stream # <<>> =>
          LET last == stream[Len(stream)] IN
          Same(last.frame, Off(last), last.size, snd.frame, SOff, snd.size)
    /\ up = "open" /\ stream = <<>> =>
          Same(RFrame, ROff, RSize, snd.frame, SOff, snd.size)

DeliveredOK == delivered \in Seq(Nat) /\ \A i \in 1 .. Len(delivered) : delivered[i] = i
UpOK == up \in {"open", "broken", "closed"}

IInv == SndOK /\ RcvOK /\ StreamOK /\ EndsMeet /\ DeliveredOK /\ UpOK
-----------------------------------------------------------------------------
(* Cells and positions. *)

\* Where the parts start and how long they are.
LEMMA Lens ==
    /\ NumFrames \in Nat /\ HeaderLen \in Nat /\ InfoLen \in Nat /\ HeaderLen > 0 /\ InfoLen > 0
    /\ DataLens \subseteq Nat /\ MaxDataLen \in Nat
    /\ Start("header") = 0 /\ Start("info") = HeaderLen /\ Start("data") = HeaderLen + InfoLen
    /\ \A m : PartLen("header", m) = HeaderLen /\ PartLen("info", m) = InfoLen
               /\ PartLen("data", m) = m
BY FramesAssumption DEF Start, PartLen

\* A part ends where the next one starts, the last one with the frame.
LEMMA PartEnds ==
    ASSUME NEW m \in Nat, NEW part \in Parts
    PROVE  /\ Start(part) \in Nat /\ PartLen(part, m) \in Nat /\ FrameLen(m) \in Nat
           /\ Start(part) + PartLen(part, m) <= FrameLen(m) /\ FrameLen(m) > 1
           /\ part # "data" => PartAfter[part] \in Parts /\ PartAfter[part] # "header"
                               /\ Start(PartAfter[part]) = Start(part) + PartLen(part, m)
           /\ part = "data" => Start(part) + PartLen(part, m) = FrameLen(m)
           /\ PartLen(part, m) = 0 => part = "data" /\ m = 0
<1>1. CASE part = "header"
  BY <1>1, Lens DEF FrameLen, PartAfter, Parts
<1>2. CASE part = "info"
  BY <1>2, Lens DEF FrameLen, PartAfter, Parts
<1>3. CASE part = "data"
  BY <1>3, Lens DEF FrameLen
<1> QED
  BY <1>1, <1>2, <1>3 DEF Parts

\* What a cell is made of, and that its position lies within its frame.
LEMMA CellFacts ==
    ASSUME NEW c \in Cells
    PROVE  /\ c.frame \in 1 .. NumFrames /\ c.part \in Parts /\ c.at \in Nat \ {0}
           /\ c.size \in DataLens /\ c.size \in Nat /\ c.at <= PartLen(c.part, c.size)
           /\ Off(c) = Start(c.part) + c.at
           /\ Off(c) \in Nat /\ Off(c) > 0 /\ Off(c) <= FrameLen(c.size)
           /\ FrameLen(c.size) \in Nat
<1>1. /\ c.frame \in 1 .. NumFrames /\ c.part \in Parts /\ c.at \in Nat \ {0}
      /\ c.size \in DataLens /\ c.size \in Nat /\ c.at <= PartLen(c.part, c.size)
  BY Lens DEF Cells
<1> QED
  BY <1>1, PartEnds DEF Off

\* The cell of a part of a frame, and its position.
LEMMA CellMade ==
    ASSUME NEW f \in 1 .. NumFrames, NEW part \in Parts, NEW m \in DataLens,
           NEW k \in Nat \ {0}, k <= PartLen(part, m)
    PROVE  /\ Cell(f, part, k, m) \in Cells
           /\ Cell(f, part, k, m).frame = f /\ Cell(f, part, k, m).size = m
           /\ Cell(f, part, k, m).part = part
           /\ Off(Cell(f, part, k, m)) = Start(part) + k
BY DEF Cell, Cells, Off

\* A cell is known by its position.
LEMMA CellAt ==
    ASSUME NEW c \in Cells, NEW part \in Parts, NEW k \in Nat \ {0},
           k <= PartLen(part, c.size), Off(c) = Start(part) + k
    PROVE  c = Cell(c.frame, part, k, c.size)
<1>1. c.part = part
  <2>1. /\ c.at \in Nat /\ c.at > 0 /\ c.at <= PartLen(c.part, c.size) /\ c.part \in Parts
        /\ c.size \in Nat /\ Start(c.part) + c.at = Start(part) + k
    BY CellFacts
  <2>2. CASE part = "header"
    BY <2>1, <2>2, Lens DEF Parts
  <2>3. CASE part = "info"
    BY <2>1, <2>3, Lens DEF Parts
  <2>4. CASE part = "data"
    BY <2>1, <2>4, Lens DEF Parts
  <2> QED
    BY <2>2, <2>3, <2>4 DEF Parts
<1>2. c.at = k
  <2>1. Start(part) \in Nat
    BY PartEnds
  <2> QED
    BY <1>1, <2>1, CellFacts
<1> QED
  BY <1>1, <1>2 DEF Cell, Cells

\* The end of a frame is where the next one begins.
LEMMA SameNext ==
    ASSUME NEW f \in Nat, NEW m \in Nat, NEW z, NEW g \in Nat, NEW p \in Nat, NEW n \in Nat
    PROVE  /\ Same(f, FrameLen(m), m, g, p, n) => Same(f + 1, 0, z, g, p, n)
           /\ Same(g, p, n, f, FrameLen(m), m) => Same(g, p, n, f + 1, 0, z)
<1>1. FrameLen(m) \in Nat /\ FrameLen(m) > 0
  BY Lens DEF FrameLen
<1> QED
  BY <1>1 DEF Same
-----------------------------------------------------------------------------
(* The stream. *)

\* The next cells of the sender's frame, and what they make the stream.
NewCells(f, part, d, m, n) == [k \in 1 .. n |-> Cell(f, part, d + k, m)]

\* Stream t is s with n cells more, of frame f behind its first o cells.
Adds(s, f, o, m, n, t) ==
    /\ t \in Seq(Cells) /\ Len(t) = Len(s) + n
    /\ \A i \in 1 .. Len(s) : t[i] = s[i]
    /\ \A j \in Len(s) + 1 .. Len(t) :
          t[j].frame = f /\ t[j].size = m /\ Off(t[j]) = o + (j - Len(s))

\* The next cells come behind the others, each at its position.
LEMMA NextCells ==
    ASSUME NEW s \in Seq(Cells), NEW f \in 1 .. NumFrames, NEW part \in Parts,
           NEW m \in DataLens, NEW d \in Nat, NEW n \in Nat, d + n <= PartLen(part, m),
           NEW o, o = Start(part) + d
    PROVE  Adds(s, f, o, m, n, s \o NewCells(f, part, d, m, n))
<1> DEFINE t == s \o NewCells(f, part, d, m, n)
           new == [k \in 1 .. n |-> Cell(f, part, d + k, m)]
<1>0. /\ m \in Nat /\ Len(s) \in Nat /\ Start(part) \in Nat /\ PartLen(part, m) \in Nat
  <2>1. m \in Nat
    BY Lens
  <2> QED
    BY <2>1, PartEnds
<1>1. ASSUME NEW k \in 1 .. n
      PROVE  d + k \in Nat \ {0} /\ d + k <= PartLen(part, m) /\ Cell(f, part, d + k, m) \in Cells
  <2>1. d + k \in Nat \ {0} /\ d + k <= PartLen(part, m)
    BY <1>0
  <2> QED
    BY <2>1, CellMade
<1>2. new \in Seq(Cells) /\ Len(new) = n /\ \A k \in 1 .. n : new[k] = Cell(f, part, d + k, m)
  <2>1. \A k \in 1 .. n : Cell(f, part, d + k, m) \in Cells
    BY <1>1
  <2> QED
    BY <2>1
<1>3. /\ t \in Seq(Cells) /\ Len(t) = Len(s) + n
      /\ \A i \in 1 .. Len(s) : t[i] = s[i]
      /\ \A k \in 1 .. n : t[Len(s) + k] = Cell(f, part, d + k, m)
  BY <1>2 DEF NewCells
<1> HIDE DEF new, t
<1>4. \A j \in Len(s) + 1 .. Len(t) :
         t[j].frame = f /\ t[j].size = m /\ Off(t[j]) = o + (j - Len(s))
  <2> SUFFICES ASSUME NEW j \in Len(s) + 1 .. Len(t)
               PROVE  t[j].frame = f /\ t[j].size = m
                      /\ Off(t[j]) = o + (j - Len(s))
    OBVIOUS
  <2>1. j - Len(s) \in 1 .. n /\ t[j] = Cell(f, part, d + (j - Len(s)), m)
    <3>1. j - Len(s) \in 1 .. n /\ Len(s) + (j - Len(s)) = j
      BY <1>3
    <3> QED
      BY <3>1, <1>3
  <2>2. d + (j - Len(s)) \in Nat \ {0} /\ d + (j - Len(s)) <= PartLen(part, m)
    BY <2>1, <1>1
  <2>3. /\ t[j].frame = f /\ t[j].size = m
        /\ Off(t[j]) = Start(part) + (d + (j - Len(s)))
    BY <2>1, <2>2, CellMade
  <2> QED
    BY <1>0, <2>1, <2>3, SMTT(30)
<1>5. Adds(s, f, o, m, n, t)
  BY <1>3, <1>4 DEF Adds
<1> QED
  BY <1>5 DEF t

\* They keep the stream in order.
LEMMA ChainGrows ==
    ASSUME NEW s \in Seq(Cells), Chain(s), NEW f \in Nat, NEW o \in Nat, NEW m \in Nat,
           NEW n \in Nat, o + n <= FrameLen(m),
           s # <<>> => Same(s[Len(s)].frame, Off(s[Len(s)]), s[Len(s)].size, f, o, m),
           NEW t, Adds(s, f, o, m, n, t)
    PROVE  Chain(t)
<1> /\ t \in Seq(Cells) /\ Len(t) = Len(s) + n
    /\ \A i \in 1 .. Len(s) : t[i] = s[i]
    /\ \A j \in Len(s) + 1 .. Len(t) :
          t[j].frame = f /\ t[j].size = m /\ Off(t[j]) = o + (j - Len(s))
  BY DEF Adds
<1>5. FrameLen(m) \in Nat /\ Len(s) \in Nat
  BY Lens DEF FrameLen
<1>6. \A i \in 1 .. Len(s) : Off(s[i]) \in Nat /\ FrameLen(s[i].size) \in Nat /\ Off(s[i]) > 0
  <2>1. \A i \in 1 .. Len(s) : s[i] \in Cells
    OBVIOUS
  <2> QED
    BY <2>1, CellFacts
<1>7. ASSUME NEW i \in 1 .. Len(t), NEW j \in i .. Len(t),
             Off(t[i]) + (j - i) <= FrameLen(t[i].size)
      PROVE  t[j].frame = t[i].frame /\ t[j].size = t[i].size /\ Off(t[j]) = Off(t[i]) + (j - i)
  <2>1. CASE j <= Len(s)
    <3>1. i \in 1 .. Len(s) /\ j \in i .. Len(s) /\ j \in 1 .. Len(s)
      BY <2>1, <1>5
    <3>2. t[i] = s[i] /\ t[j] = s[j]
      BY <3>1
    <3> QED
      BY <3>1, <3>2, <1>7 DEF Chain
  <2>2. CASE i > Len(s)
    <3>1. /\ i \in Len(s) + 1 .. Len(t) /\ j \in Len(s) + 1 .. Len(t)
          /\ (i - Len(s)) + (j - i) = j - Len(s)
      BY <2>2, <1>5
    <3>2. /\ t[i].frame = f /\ t[i].size = m /\ Off(t[i]) = o + (i - Len(s))
          /\ t[j].frame = f /\ t[j].size = m /\ Off(t[j]) = o + (j - Len(s))
      BY <3>1
    <3> QED
      BY <3>1, <3>2, <1>5, SMTT(30)
  <2>3. CASE i <= Len(s) /\ j > Len(s)
    <3> DEFINE L == Len(s)
    <3>1. /\ L \in i .. Len(s) /\ L \in 1 .. Len(s) /\ s # <<>> /\ i \in 1 .. Len(s)
          /\ t[i] = s[i] /\ L - i < j - i /\ (L - i) + (j - L) = j - i /\ L - i \in Nat
      <4>1. /\ i \in Nat /\ j \in Nat /\ L \in Nat /\ i > 0 /\ i <= L /\ L < j
        BY <2>3, <1>5
      <4>2. i \in 1 .. Len(s) /\ L \in i .. Len(s) /\ L \in 1 .. Len(s)
        BY <4>1
      <4>3. L - i < j - i /\ (L - i) + (j - L) = j - i /\ L - i \in Nat
        BY <4>1
      <4>4. s # <<>>
        BY <4>1
      <4> QED
        BY <4>2, <4>3, <4>4
    <3>2. /\ Off(s[i]) + (L - i) < FrameLen(s[i].size)
          /\ Off(s[i]) + (L - i) <= FrameLen(s[i].size)
      <4>1. /\ Off(s[i]) + (j - i) <= FrameLen(s[i].size)
            /\ Off(s[i]) \in Nat /\ FrameLen(s[i].size) \in Nat
        BY <3>1, <1>6, <1>7
      <4>2. L - i \in Nat /\ j - i \in Int /\ L - i < j - i
        BY <3>1
      <4>3. \A a, x \in Nat : \A p, q \in Int : a + q <= x /\ p < q => a + p < x /\ a + p <= x
        OBVIOUS
      <4> HIDE DEF L
      <4> QED
        BY <4>1, <4>2, <4>3, SMTT(30)
    <3>3. s[L].frame = s[i].frame /\ s[L].size = s[i].size /\ Off(s[L]) = Off(s[i]) + (L - i)
      BY <3>1, <3>2 DEF Chain
    <3>4. f = s[L].frame /\ m = s[L].size /\ Off(s[L]) = o
      <4>1. Off(s[L]) \in Nat /\ Off(s[L]) > 0 /\ Off(s[L]) < FrameLen(s[L].size)
        BY <3>1, <3>2, <3>3, <1>6
      <4> QED
        BY <3>1, <4>1 DEF Same
    <3>5. t[j].frame = f /\ t[j].size = m /\ Off(t[j]) = o + (j - Len(s))
      <4>1. j \in Len(s) + 1 .. Len(t)
        BY <2>3, <1>5
      <4> QED
        BY <4>1
    <3>6. Off(t[j]) = Off(s[i]) + (j - i)
      <4>1. Off(t[j]) = (Off(s[i]) + (L - i)) + (j - L) /\ Off(s[i]) \in Nat
        BY <3>1, <3>3, <3>4, <3>5, <1>6
      <4> QED
        BY <3>1, <4>1, <1>5
    <3> QED
      BY <3>1, <3>3, <3>4, <3>5, <3>6
  <2> QED
    BY <2>1, <2>2, <2>3
<1>8. ASSUME NEW i \in 1 .. Len(t) - 1, Off(t[i]) = FrameLen(t[i].size)
      PROVE  t[i + 1].frame = t[i].frame + 1 /\ Off(t[i + 1]) = 1
  <2>1. CASE i < Len(s)
    <3>1. /\ i \in 1 .. Len(s) - 1 /\ i \in 1 .. Len(s) /\ i + 1 \in 1 .. Len(s)
          /\ t[i] = s[i] /\ t[i + 1] = s[i + 1]
      BY <2>1, <1>5, SMTT(30)
    <3> QED
      BY <3>1, <1>8 DEF Chain
  <2>2. CASE i > Len(s)
    <3>1. i \in Len(s) + 1 .. Len(t) /\ i - Len(s) < n
      BY <2>2, <1>5
    <3>2. t[i].size = m /\ Off(t[i]) = o + (i - Len(s))
      BY <3>1
    <3> QED
      BY <3>1, <3>2, <1>5, <1>8
  <2>3. CASE i = Len(s)
    <3>1. s # <<>> /\ t[i] = s[Len(s)] /\ n > 0 /\ i + 1 \in Len(s) + 1 .. Len(t)
      BY <2>3
    <3>2. /\ t[i + 1].frame = f /\ Off(t[i + 1]) = o + ((i + 1) - Len(s))
          /\ (i + 1) - Len(s) = 1
      BY <2>3, <3>1, <1>5, SMTT(30)
    <3>3. /\ Same(t[i].frame, Off(t[i]), t[i].size, f, o, m)
          /\ Off(t[i]) \in Nat /\ Off(t[i]) > 0 /\ o < FrameLen(m)
      BY <2>3, <3>1, <1>5, <1>6
    <3> QED
      BY <3>2, <3>3, <1>5, <1>8 DEF Same
  <2> QED
    BY <2>1, <2>2, <2>3, <1>5
<1> QED
  BY <1>7, <1>8 DEF Chain

\* A part of the stream is in order.
LEMMA ChainShift ==
    ASSUME NEW s \in Seq(Cells), Chain(s), NEW d \in Nat,
           NEW t \in Seq(Cells), d + Len(t) <= Len(s), \A i \in 1 .. Len(t) : t[i] = s[i + d]
    PROVE  Chain(t)
<1>1. ASSUME NEW i \in 1 .. Len(t), NEW j \in i .. Len(t),
             Off(t[i]) + (j - i) <= FrameLen(t[i].size)
      PROVE  t[j].frame = t[i].frame /\ t[j].size = t[i].size /\ Off(t[j]) = Off(t[i]) + (j - i)
  <2>1. /\ i + d \in 1 .. Len(s) /\ j + d \in i + d .. Len(s) /\ (j + d) - (i + d) = j - i
        /\ j \in 1 .. Len(t)
    OBVIOUS
  <2>2. t[i] = s[i + d] /\ t[j] = s[j + d]
    BY <2>1
  <2> QED
    BY <1>1, <2>1, <2>2 DEF Chain
<1>2. ASSUME NEW i \in 1 .. Len(t) - 1, Off(t[i]) = FrameLen(t[i].size)
      PROVE  t[i + 1].frame = t[i].frame + 1 /\ Off(t[i + 1]) = 1
  <2>1. /\ i + d \in 1 .. Len(s) - 1 /\ (i + 1) + d = (i + d) + 1
        /\ i + 1 \in 1 .. Len(t) /\ i \in 1 .. Len(t)
    OBVIOUS
  <2>2. t[i] = s[i + d] /\ t[i + 1] = s[(i + d) + 1]
    BY <2>1
  <2> QED
    BY <1>2, <2>1, <2>2 DEF Chain
<1> QED
  BY <1>1, <1>2 DEF Chain

\* What UDT::recv leaves of the stream.
LEMMA ChainTail ==
    ASSUME NEW s \in Seq(Cells), Chain(s), NEW n \in 0 .. Len(s)
    PROVE  LET t == SubSeq(s, n + 1, Len(s)) IN
           /\ t \in Seq(Cells) /\ Chain(t) /\ Len(t) = Len(s) - n
           /\ \A i \in 1 .. Len(t) : t[i] = s[i + n]
<1> DEFINE t == SubSeq(s, n + 1, Len(s))
<1>1. /\ t \in Seq(Cells) /\ Len(t) = Len(s) - n /\ n + Len(t) <= Len(s) /\ n \in Nat
      /\ \A i \in 1 .. Len(t) : t[i] = s[i + n]
  BY SMTT(30)
<1> HIDE DEF t
<1>2. Chain(t)
  BY <1>1, ChainShift
<1> QED
  BY <1>1, <1>2 DEF t

\* What a broken connection leaves of it.
LEMMA ChainFront ==
    ASSUME NEW s \in Seq(Cells), Chain(s), NEW n \in 0 .. Len(s)
    PROVE  LET t == SubSeq(s, 1, n) IN
           /\ t \in Seq(Cells) /\ Chain(t) /\ Len(t) = n
           /\ \A i \in 1 .. Len(t) : t[i] = s[i]
<1> DEFINE t == SubSeq(s, 1, n)
<1>1. /\ t \in Seq(Cells) /\ Len(t) = n /\ 0 + Len(t) <= Len(s) /\ 0 \in Nat
      /\ \A i \in 1 .. Len(t) : t[i] = s[i] /\ i + 0 = i
  OBVIOUS
<1> HIDE DEF t
<1>2. \A i \in 1 .. Len(t) : t[i] = s[i + 0]
  BY <1>1
<1>3. Chain(t)
  BY <1>1, <1>2, ChainShift
<1> QED
  BY <1>1, <1>3 DEF t
-----------------------------------------------------------------------------
(* The sender. *)

\* The receiver's position.
LEMMA Receiver ==
    ASSUME RcvOK, DeliveredOK
    PROVE  /\ RFrame \in Nat /\ RFrame > 0 /\ ROff \in Nat /\ RSize \in Nat
           /\ rcv.part # "idle" =>
                 /\ rcv.part \in Parts /\ Start(rcv.part) \in Nat
                 /\ ROff = Start(rcv.part) + Len(rcv.got) /\ Len(rcv.got) \in Nat
                 /\ RecvLen = PartLen(rcv.part, RSize) /\ RecvLen \in Nat
                 /\ Start(rcv.part) + RecvLen <= FrameLen(RSize) /\ FrameLen(RSize) \in Nat
<1>1. /\ rcv.part \in Parts \cup {"idle"} /\ rcv.got \in Seq(Cells) /\ rcv.size \in Nat
      /\ Len(rcv.got) \in Nat /\ RFrame \in Nat /\ RFrame > 0
  BY DEF RcvOK, RcvRecs, DeliveredOK, RFrame
<1>2. RSize \in Nat
  <2>1. rcv.got # <<>> => rcv.got[1] \in Cells
    BY <1>1
  <2> QED
    BY <1>1, <2>1, CellFacts DEF RSize
<1>3. ASSUME rcv.part # "idle"
      PROVE  /\ rcv.part \in Parts /\ Start(rcv.part) \in Nat
             /\ RecvLen = PartLen(rcv.part, RSize) /\ RecvLen \in Nat
             /\ Start(rcv.part) + RecvLen <= FrameLen(RSize) /\ FrameLen(RSize) \in Nat
  <2>1. rcv.part \in Parts
    BY <1>1, <1>3
  <2>2. RecvLen = PartLen(rcv.part, RSize)
    BY Lens DEF RecvLen, RSize
  <2> QED
    BY <1>2, <2>1, <2>2, PartEnds
<1>4. ROff \in Nat /\ (rcv.part # "idle" => ROff = Start(rcv.part) + Len(rcv.got))
  BY <1>1, <1>3 DEF ROff
<1> QED
  BY <1>1, <1>2, <1>3, <1>4

\* After a call of UDT::send the sender is n cells further, or it has begun the
\* next frame where this one ends.
LEMMA SendMoves ==
    ASSUME Rounds = 0, SndOK, snd.part # "idle", NEW n \in 0 .. SendLen - snd.done,
           n > 0 \/ SendLen = 0, SendGoesOn(snd.done + n, snd.rounds + 1)
    PROVE  /\ SndOK' /\ SentFrames' = SentFrames
           /\ \/ /\ snd'.frame = snd.frame /\ snd'.size = snd.size /\ SOff' = SOff + n
                 /\ n > 0
              \/ /\ snd'.frame = snd.frame + 1 /\ SOff' = 0
                 /\ SOff + n = FrameLen(snd.size)
<1>0. /\ snd.part \in Parts /\ snd.size \in DataLens /\ snd.size \in Nat /\ snd.frame \in Nat \ {0}
      /\ snd.frame <= NumFrames /\ NumFrames \in Nat
      /\ SendLen = PartLen(snd.part, snd.size) /\ SendLen \in Nat /\ snd.done \in Nat
      /\ snd.done + n <= SendLen /\ n \in Nat /\ snd.rounds \in Nat
      /\ SOff = Start(snd.part) + snd.done /\ Start(snd.part) \in Nat
      /\ snd \in SndRecs
  <2>1. /\ snd.part \in Parts /\ snd.size \in DataLens /\ snd.size \in Nat
        /\ snd.done \in Nat /\ snd.rounds \in Nat /\ snd.done <= SendLen
        /\ snd.frame \in Nat \ {0} /\ snd.frame <= NumFrames
    BY Lens DEF SndOK, SndRecs
  <2> QED
    BY <2>1, PartEnds, Lens DEF SendLen, SOff, SndOK, SndRecs
<1>1. CASE snd.done + n # SendLen
  <2>1. snd' = [snd EXCEPT !.done = snd.done + n, !.rounds = snd.rounds + 1]
    BY <1>1 DEF SendGoesOn, Outcome
  <2>2. /\ snd'.part = snd.part /\ snd'.frame = snd.frame /\ snd'.size = snd.size
        /\ snd'.done = snd.done + n
        /\ snd' \in SndRecs
    <3>1. snd.done + n \in Nat /\ snd.rounds + 1 \in Nat
      BY <1>0
    <3> QED
      BY <1>0, <2>1, <3>1 DEF SndRecs
  <2>3. n > 0
    BY <1>0, <1>1
  <2> QED
    BY <1>0, <2>2, <2>3 DEF SndOK, SndRecs, SendLen, SOff, SentFrames
<1>2. CASE snd.done + n = SendLen /\ snd.part # "data"
  <2>1. snd' = [snd EXCEPT !.part = PartAfter[snd.part], !.done = 0, !.rounds = 0]
    BY <1>2 DEF SendGoesOn, Outcome
  <2>2. /\ PartAfter[snd.part] \in Parts /\ PartAfter[snd.part] # "idle"
        /\ Start(PartAfter[snd.part]) = Start(snd.part) + SendLen
        /\ PartLen(PartAfter[snd.part], snd.size) \in Nat
        /\ SendLen # 0
    <3>1. /\ PartAfter[snd.part] \in Parts
          /\ Start(PartAfter[snd.part]) = Start(snd.part) + SendLen
          /\ SendLen # 0
      BY <1>0, <1>2, PartEnds
    <3>2. PartLen(PartAfter[snd.part], snd.size) \in Nat
      BY <1>0, <3>1, PartEnds
    <3> QED
      BY <3>1, <3>2 DEF Parts
  <2>3. /\ snd'.part = PartAfter[snd.part] /\ snd'.frame = snd.frame /\ snd'.size = snd.size
        /\ snd'.done = 0
        /\ snd' \in SndRecs
    BY <1>0, <2>1, <2>2 DEF SndRecs
  <2>4. SOff' = SOff + n
    BY <1>0, <1>2, <2>2, <2>3 DEF SOff
  <2> QED
    BY <1>0, <1>2, <2>2, <2>3, <2>4 DEF SndOK, SndRecs, SendLen, SentFrames
<1>3. CASE snd.done + n = SendLen /\ snd.part = "data"
  <2>1. snd' = IdleSender(snd.frame + 1)
    BY <1>3 DEF SendGoesOn, Outcome
  <2>2. /\ snd'.part = "idle" /\ snd'.frame = snd.frame + 1 /\ snd'.done = 0
        /\ snd' \in SndRecs
    BY <1>0, <2>1 DEF IdleSender, SndRecs
  <2>3. SOff + n = FrameLen(snd.size)
    BY <1>0, <1>3, PartEnds
  <2> QED
    BY <1>0, <2>2, <2>3 DEF SndOK, SndRecs, SOff, SentFrames
<1> QED
  BY <1>1, <1>2, <1>3

\* What has been received, and what is on its way, does not depend on what the
\* sender does next.
LEMMA Older ==
    ASSUME RcvOK, StreamOK, SentFrames \in Nat, SentFrames' \in Nat, SentFrames <= SentFrames',
           UNCHANGED <<rcv, delivered>>
    PROVE  /\ RcvOK' /\ RFrame' = RFrame /\ ROff' = ROff /\ RSize' = RSize
           /\ UNCHANGED stream => StreamOK'
<1>1. /\ RFrame' = RFrame /\ ROff' = ROff /\ RSize' = RSize /\ RecvLen' = RecvLen
  BY DEF RFrame, ROff, RSize, RecvLen
<1>2. RFrame <= SentFrames => RFrame' <= SentFrames'
  BY <1>1 DEF RFrame, RcvOK, RcvRecs
<1>3. ASSUME UNCHANGED stream PROVE StreamOK'
  <2>1. \A i \in 1 .. Len(stream) : stream[i] \in Cells /\ stream[i].frame \in Nat
    BY CellFacts DEF StreamOK
  <2> QED
    BY <1>3, <2>1 DEF StreamOK
<1> QED
  BY <1>1, <1>2, <1>3 DEF RcvOK, RcvRecs

\* The sender's position.
LEMMA Sender ==
    ASSUME SndOK
    PROVE  /\ SentFrames \in Nat /\ SentFrames <= NumFrames
           /\ snd.frame \in Nat /\ SOff \in Nat /\ snd.size \in Nat
<1>1. /\ snd.part \in Parts \cup {"idle"} /\ snd.frame \in Nat /\ snd.size \in Nat
      /\ snd.done \in Nat
      /\ SentFrames \in Nat /\ SentFrames <= NumFrames
  BY Lens DEF SndOK, SndRecs, SentFrames
<1>2. snd.part \in Parts => Start(snd.part) \in Nat
  BY <1>1, PartEnds
<1> QED
  BY <1>1, <1>2 DEF SOff

\* UDT::send puts the next cells of the frame behind the others.
LEMMA SendStep ==
    ASSUME Rounds = 0, IInv, SendSome
    PROVE  IInv' /\ SentFrames' = SentFrames
<1>1. PICK n \in 0 .. SendLen - snd.done :
         /\ n > 0 \/ SendLen = 0
         /\ stream' = stream \o
                [k \in 1 .. n |-> Cell(snd.frame, snd.part, snd.done + k, snd.size)]
         /\ SendGoesOn(snd.done + n, snd.rounds + 1)
  BY DEF SendSome
<1> DEFINE f == snd.frame
           m == snd.size
<1>a. stream' = stream \o NewCells(f, snd.part, snd.done, m, n)
  BY <1>1 DEF NewCells
<1>2. /\ snd.part # "idle" /\ up = "open" /\ UNCHANGED <<rcv, delivered, up>>
      /\ SndOK /\ RcvOK /\ StreamOK /\ EndsMeet /\ DeliveredOK /\ UpOK
  BY DEF SendSome, IInv
<1>3. /\ SndOK' /\ SentFrames' = SentFrames
      /\ \/ /\ snd'.frame = f /\ snd'.size = m /\ SOff' = SOff + n
            /\ n > 0
         \/ /\ snd'.frame = f + 1 /\ SOff' = 0
            /\ SOff + n = FrameLen(m)
  BY <1>1, <1>2, SendMoves
<1>4. /\ f \in 1 .. NumFrames /\ f \in Nat /\ m \in DataLens /\ m \in Nat /\ snd.part \in Parts
      /\ snd.done \in Nat /\ n \in Nat /\ snd.done + n <= PartLen(snd.part, m)
      /\ Start(snd.part) \in Nat /\ SOff = Start(snd.part) + snd.done /\ SOff \in Nat
      /\ FrameLen(m) \in Nat /\ SOff + n <= FrameLen(m) /\ SentFrames = f /\ stream \in Seq(Cells)
  <2>1. /\ f \in 1 .. NumFrames /\ f \in Nat /\ m \in DataLens /\ m \in Nat /\ snd.part \in Parts
        /\ snd.done \in Nat /\ snd.done <= SendLen /\ SentFrames = f
        /\ SendLen = PartLen(snd.part, m)
        /\ SOff = Start(snd.part) + snd.done /\ stream \in Seq(Cells)
    BY <1>2, Lens DEF SndOK, SndRecs, SentFrames, SendLen, SOff, StreamOK
  <2>2. /\ Start(snd.part) \in Nat /\ PartLen(snd.part, m) \in Nat /\ FrameLen(m) \in Nat
        /\ Start(snd.part) + PartLen(snd.part, m) <= FrameLen(m)
    BY <2>1, PartEnds
  <2>3. n \in Nat /\ snd.done + n <= PartLen(snd.part, m)
    BY <1>1, <2>1, <2>2
  <2> HIDE DEF f, m
  <2>4. SOff \in Nat /\ SOff + n <= FrameLen(m)
    BY <2>1, <2>2, <2>3, SMTT(30)
  <2> QED
    BY <2>1, <2>2, <2>3, <2>4
<1> HIDE DEF f, m
<1>5. /\ stream' \in Seq(Cells) /\ Len(stream') = Len(stream) + n /\ Chain(stream')
      /\ \A i \in 1 .. Len(stream) : stream'[i] = stream[i]
      /\ \A j \in Len(stream) + 1 .. Len(stream') :
            /\ stream'[j].frame = f /\ stream'[j].size = m
            /\ Off(stream'[j]) = SOff + (j - Len(stream))
  <2>1. Adds(stream, f, SOff, m, n, stream')
    BY <1>a, <1>4, NextCells
  <2>2. stream # <<>> => Same(stream[Len(stream)].frame, Off(stream[Len(stream)]),
                              stream[Len(stream)].size, f, SOff, m)
    BY <1>2 DEF EndsMeet, f, m
  <2>3. Chain(stream)
    BY <1>2 DEF StreamOK
  <2>4. Chain(stream')
    BY <1>4, <2>1, <2>2, <2>3, ChainGrows
  <2> QED
    BY <2>1, <2>4 DEF Adds
<1>6. StreamOK'
  <2>3. \A i \in 1 .. Len(stream') : stream'[i].frame <= SentFrames'
    <3> SUFFICES ASSUME NEW i \in 1 .. Len(stream') PROVE stream'[i].frame <= SentFrames'
      OBVIOUS
    <3>1. CASE i <= Len(stream)
      BY <1>2, <1>3, <1>5, <3>1 DEF StreamOK
    <3>2. CASE i > Len(stream)
      <4>1. i \in Len(stream) + 1 .. Len(stream')
        BY <1>5, <3>2
      <4>2. stream'[i].frame = f
        BY <1>5, <4>1
      <4> QED
        BY <1>3, <1>4, <4>2
    <3> QED
      BY <3>1, <3>2
  <2> QED
    BY <1>5, <2>3 DEF StreamOK
<1>7. RcvOK' /\ RFrame' = RFrame /\ ROff' = ROff /\ RSize' = RSize
  <2>1. SentFrames \in Nat /\ SentFrames' \in Nat /\ SentFrames <= SentFrames'
    BY <1>2, <1>3, Sender
  <2> QED
    BY <1>2, <2>1, Older
<1>8. EndsMeet'
  <2>0. ASSUME NEW g \in Nat, NEW p \in Nat, NEW q \in Nat, Same(g, p, q, f, SOff, m), n = 0
        PROVE  Same(g, p, q, snd'.frame, SOff', snd'.size)
    <3>1. snd'.frame = f + 1 /\ SOff' = 0 /\ SOff = FrameLen(m)
      BY <1>3, <1>4, <2>0
    <3>2. Same(g, p, q, f, FrameLen(m), m)
      BY <2>0, <3>1
    <3>3. Same(g, p, q, f + 1, 0, snd'.size)
      BY <1>4, <3>2, SameNext
    <3> QED
      BY <3>1, <3>3
  <2>1. RFrame \in Nat /\ ROff \in Nat /\ RSize \in Nat
    BY <1>2, Receiver
  <2>2. ASSUME stream' # <<>>
        PROVE  Same(RFrame, ROff, RSize, stream'[1].frame, Off(stream'[1]) - 1, stream'[1].size)
    <3>1. CASE stream # <<>>
      <4>1. stream'[1] = stream[1]
        BY <1>4, <1>5, <3>1
      <4> QED
        BY <1>2, <3>1, <4>1 DEF EndsMeet
    <3>2. CASE stream = <<>>
      <4>1. Len(stream) = 0 /\ 1 \in Len(stream) + 1 .. Len(stream')
        BY <1>4, <1>5, <2>2, <3>2
      <4>2. /\ stream'[1].frame = f /\ stream'[1].size = m /\ Off(stream'[1]) - 1 = SOff
        BY <1>4, <1>5, <4>1
      <4> QED
        BY <1>2, <3>2, <4>2 DEF EndsMeet, f, m
    <3> QED
      BY <3>1, <3>2
  <2>3. ASSUME stream' # <<>>
        PROVE  Same(stream'[Len(stream')].frame, Off(stream'[Len(stream')]),
                    stream'[Len(stream')].size, snd'.frame, SOff', snd'.size)
    <3>1. CASE n = 0
      <4>1. stream # <<>> /\ Len(stream') = Len(stream) /\ Len(stream) \in 1 .. Len(stream)
        BY <1>4, <1>5, <2>3, <3>1
      <4>2. stream'[Len(stream')] = stream[Len(stream)] /\ stream[Len(stream)] \in Cells
        BY <1>4, <1>5, <4>1
      <4>3. Same(stream[Len(stream)].frame, Off(stream[Len(stream)]), stream[Len(stream)].size,
                 f, SOff, m)
        BY <1>2, <4>1 DEF EndsMeet, f, m
      <4>4. /\ stream[Len(stream)].frame \in Nat /\ Off(stream[Len(stream)]) \in Nat
            /\ stream[Len(stream)].size \in Nat
        BY <4>2, CellFacts
      <4> QED
        BY <2>0, <3>1, <4>2, <4>3, <4>4
    <3>2. CASE n > 0
      <4>1. Len(stream') \in Len(stream) + 1 .. Len(stream') /\ Len(stream') - Len(stream) = n
        BY <1>4, <1>5, <3>2
      <4>2. /\ stream'[Len(stream')].frame = f /\ stream'[Len(stream')].size = m
            /\ Off(stream'[Len(stream')]) = SOff + n
        BY <1>5, <4>1
      <4> QED
        BY <1>3, <4>2 DEF Same
    <3> QED
      BY <1>4, <3>1, <3>2
  <2>4. ASSUME stream' = <<>>
        PROVE  Same(RFrame, ROff, RSize, snd'.frame, SOff', snd'.size)
    <3>1. stream = <<>> /\ n = 0
      BY <1>4, <1>5, <2>4
    <3>2. Same(RFrame, ROff, RSize, f, SOff, m)
      BY <1>2, <3>1 DEF EndsMeet, f, m
    <3> QED
      BY <2>0, <2>1, <3>1, <3>2
  <2> QED
    BY <1>2, <1>7, <2>2, <2>3, <2>4 DEF EndsMeet
<1> QED
  BY <1>2, <1>3, <1>6, <1>7, <1>8 DEF IInv, DeliveredOK, UpOK
-----------------------------------------------------------------------------
(* The receiver. *)

\* The first cells of the part that is read, of a frame of size m.
Holds(cells, m) ==
    /\ cells \in Seq(Cells) /\ Len(cells) <= PartLen(rcv.part, m)
    /\ \A k \in 1 .. Len(cells) : cells[k] = Cell(RFrame, rcv.part, k, m)

\* The receiver has off cells of its frame, of size m, or it has returned the
\* frame and waits for the next one.
Moved(off, m) ==
    \/ RFrame' = RFrame /\ ROff' = off /\ RSize' = m
    \/ RFrame' = RFrame + 1 /\ ROff' = 0 /\ off = FrameLen(m)

\* A header that is one is found to be that.
LEMMA HeaderRead ==
    ASSUME NEW f \in 1 .. NumFrames, NEW m \in DataLens, NEW cells \in Seq(Cells),
           Len(cells) = HeaderLen, \A k \in 1 .. Len(cells) : cells[k] = Cell(f, "header", k, m)
    PROVE  Sizes(cells) = {m}
<1>1. cells = Header(f, m)
  <2>1. Header(f, m) \in [1 .. HeaderLen -> Cells]
    BY CellMade, Lens DEF Header, Parts
  <2>2. \A k \in 1 .. HeaderLen : Header(f, m)[k] = Cell(f, "header", k, m)
    BY DEF Header
  <2> QED
    BY <2>1, <2>2, Lens
<1>2. ASSUME NEW g \in 1 .. NumFrames, NEW n \in DataLens, cells = Header(g, n)
      PROVE  n = m
  <2>1. 1 \in 1 .. HeaderLen
    BY Lens
  <2>2. cells[1] = Cell(g, "header", 1, n) /\ cells[1] = Cell(f, "header", 1, m)
    BY <1>1, <1>2, <2>1 DEF Header
  <2> QED
    BY <2>2 DEF Cell
<1>3. {n \in DataLens : \E g \in 1 .. NumFrames : cells = Header(g, n)} = {m}
  BY <1>1, <1>2
<1> QED
  BY <1>3 DEF Sizes

\* Information and data of one frame are taken for that frame.
LEMMA FrameRead ==
    ASSUME NEW f \in 1 .. NumFrames, NEW m \in DataLens, NEW info, NEW cells \in Seq(Cells),
           info = [k \in 1 .. InfoLen |-> Cell(f, "info", k, m)],
           Len(cells) = m, \A k \in 1 .. Len(cells) : cells[k] = Cell(f, "data", k, m)
    PROVE  Joined(info, cells) = f
<1>1. cells = [k \in 1 .. m |-> Cell(f, "data", k, m)]
  <2>1. cells \in [1 .. m -> Cells]
    BY Lens
  <2> QED
    BY <2>1
<1>2. ASSUME NEW g \in 1 .. NumFrames, NEW n \in DataLens,
             info = [k \in 1 .. InfoLen |-> Cell(g, "info", k, n)]
      PROVE  g = f
  <2>1. 1 \in 1 .. InfoLen
    BY Lens
  <2>2. info[1] = Cell(g, "info", 1, n) /\ info[1] = Cell(f, "info", 1, m)
    BY <1>2, <2>1
  <2> QED
    BY <2>2 DEF Cell
<1> DEFINE frames == {g \in 1 .. NumFrames : \E n \in DataLens :
                          /\ info = [k \in 1 .. InfoLen |-> Cell(g, "info", k, n)]
                          /\ cells = [k \in 1 .. n |-> Cell(g, "data", k, n)]}
<1>3. f \in frames
  BY <1>1
<1>4. \A g \in frames : g = f
  BY <1>2
<1>5. Joined(info, cells) = IF frames = {} THEN Torn ELSE CHOOSE g \in frames : TRUE
  BY DEF Joined
<1> HIDE DEF frames
<1> QED
  BY <1>3, <1>4, <1>5

\* A part that is complete leads to the next one, or to the next frame.
LEMMA Ends ==
    ASSUME Unlimited, RcvOK, DeliveredOK, SentFrames \in Nat, SentFrames <= NumFrames,
           SentFrames' = SentFrames, rcv.part # "idle", NEW m \in DataLens,
           rcv.part # "header" => m = rcv.size, RFrame <= SentFrames,
           NEW cells, Holds(cells, m), Len(cells) = PartLen(rcv.part, m), EndPart(cells)
    PROVE  /\ RcvOK' /\ DeliveredOK' /\ Moved(Start(rcv.part) + Len(cells), m)
           /\ delivered' = delivered \/ delivered' = Append(delivered, RFrame)
<1>0. /\ rcv.part \in Parts /\ rcv \in RcvRecs /\ m \in Nat /\ m <= MaxDataLen
      /\ RFrame \in 1 .. NumFrames /\ RFrame \in Nat /\ cells \in Seq(Cells)
      /\ \A k \in 1 .. Len(cells) : cells[k] = Cell(RFrame, rcv.part, k, m)
      /\ IdleReceiver \in RcvRecs /\ NumFrames \in Nat
      /\ RFrame = Len(delivered) + 1 /\ delivered \in Seq(Nat)
      /\ Start("header") = 0 /\ Start("info") = HeaderLen /\ Start("data") = HeaderLen + InfoLen
      /\ HeaderLen \in Nat /\ HeaderLen > 0 /\ InfoLen \in Nat /\ InfoLen > 0
  <2>1. /\ rcv.part \in Parts /\ rcv \in RcvRecs /\ RFrame = Len(delivered) + 1
        /\ delivered \in Seq(Nat)
    BY DEF RcvOK, RcvRecs, DeliveredOK, RFrame
  <2>2. m \in Nat /\ m <= MaxDataLen
    BY Lens DEF Unlimited
  <2>3. RFrame \in 1 .. NumFrames /\ RFrame \in Nat
    BY Lens, Receiver, SMTT(30)
  <2>4. IdleReceiver \in RcvRecs
    BY DEF IdleReceiver, RcvRecs
  <2> QED
    BY <2>1, <2>2, <2>3, <2>4, Lens DEF Holds
<1>1. CASE rcv.part = "header"
  <2>1. Sizes(cells) = {m}
    BY <1>0, <1>1, HeaderRead, Lens
  <2>2. rcv' = [IdleReceiver EXCEPT !.part = "info", !.size = m] /\ UNCHANGED delivered
    <3>1. /\ Sizes(cells) # {} /\ UNCHANGED delivered
          /\ rcv' \in {IF n > MaxDataLen THEN IdleReceiver
                         ELSE [IdleReceiver EXCEPT !.part = "info", !.size = n] : n \in Sizes(cells)}
      BY <1>1, <2>1 DEF EndPart
    <3>2. PICK n \in Sizes(cells) :
             rcv' = IF n > MaxDataLen THEN IdleReceiver
                    ELSE [IdleReceiver EXCEPT !.part = "info", !.size = n]
      BY <3>1
    <3>3. n = m /\ ~(n > MaxDataLen)
      BY <1>0, <2>1, Lens
    <3> QED
      BY <3>1, <3>2, <3>3
  <2>3. /\ rcv'.part = "info" /\ rcv'.got = <<>> /\ rcv'.size = m
        /\ rcv' \in RcvRecs
    BY <1>0, <2>2 DEF IdleReceiver, RcvRecs, Parts
  <2>4. /\ RFrame' = RFrame /\ RSize' = m /\ Len(rcv'.got) = 0
        /\ ROff' = Start("info") + 0
    BY <2>2, <2>3 DEF RFrame, ROff, RSize
  <2>5. ROff' = Start(rcv.part) + Len(cells)
    BY <1>0, <1>1, <2>4, Lens
  <2>6. RcvOK'
    <3>1. RecvLen' = InfoLen
      BY <2>3, Lens DEF RecvLen
    <3> QED
      BY <1>0, <2>3, <2>4, <3>1 DEF RcvOK, RcvRecs
  <2> QED
    BY <2>2, <2>4, <2>5, <2>6 DEF DeliveredOK, Moved
<1>2. CASE rcv.part = "info"
  <2>1. /\ rcv' = [IdleReceiver EXCEPT !.part = "data", !.size = m, !.info = cells]
        /\ UNCHANGED delivered
    BY <1>2 DEF EndPart
  <2>2. /\ rcv'.part = "data" /\ rcv'.got = <<>> /\ rcv'.size = m /\ rcv'.info = cells
        /\ rcv' \in RcvRecs
    BY <1>0, <2>1 DEF IdleReceiver, RcvRecs, Parts
  <2>3. /\ RFrame' = RFrame /\ RSize' = m /\ Len(rcv'.got) = 0
        /\ ROff' = Start("data") + 0
    BY <2>1, <2>2 DEF RFrame, ROff, RSize
  <2>4. ROff' = Start(rcv.part) + Len(cells)
    BY <1>0, <1>2, <2>3, Lens
  <2>5. cells = [k \in 1 .. InfoLen |-> Cell(RFrame, "info", k, m)]
    <3>1. Len(cells) = InfoLen /\ cells \in [1 .. InfoLen -> Cells]
      BY <1>0, <1>2, Lens
    <3> QED
      BY <1>0, <1>2, <3>1
  <2>6. RcvOK'
    <3>1. RecvLen' = m
      BY <2>2, Lens DEF RecvLen
    <3> QED
      BY <1>0, <2>2, <2>3, <2>5, <3>1 DEF RcvOK, RcvRecs
  <2> QED
    BY <2>1, <2>3, <2>4, <2>6 DEF DeliveredOK, Moved
<1>3. CASE rcv.part = "data"
  <2>1. rcv.info = [k \in 1 .. InfoLen |-> Cell(RFrame, "info", k, m)] /\ Len(cells) = m
    BY <1>3, Lens DEF RcvOK, RcvRecs
  <2>2. Joined(rcv.info, cells) = RFrame
    BY <1>0, <1>3, <2>1, FrameRead, SMTT(30)
  <2>3. delivered' = Append(delivered, RFrame) /\ rcv' = IdleReceiver
    BY <1>3, <2>2 DEF EndPart
  <2>4. /\ rcv'.part = "idle" /\ rcv'.got = <<>> /\ rcv' \in RcvRecs
    BY <1>0, <2>3 DEF IdleReceiver
  <2>5. RFrame' = RFrame + 1 /\ ROff' = 0
    BY <1>0, <2>3, <2>4 DEF RFrame, ROff
  <2>6. Start(rcv.part) + Len(cells) = FrameLen(m)
    BY <1>0, <1>3, <2>1 DEF FrameLen
  <2>7. RcvOK'
    BY <2>4, <2>5 DEF RcvOK, RcvRecs
  <2>8. DeliveredOK'
    BY <1>0, <2>3 DEF DeliveredOK
  <2> QED
    BY <2>3, <2>5, <2>6, <2>7, <2>8 DEF Moved
<1> QED
  BY <1>0, <1>1, <1>2, <1>3 DEF Parts

\* After a call of UDT::recv the receiver has the cells it read.
LEMMA RecvMoves ==
    ASSUME Unlimited, RcvOK, DeliveredOK, SentFrames \in Nat, SentFrames <= NumFrames,
           SentFrames' = SentFrames, rcv.part # "idle", NEW m \in DataLens,
           rcv.part # "header" => m = rcv.size, RFrame <= SentFrames,
           NEW cells, Holds(cells, m), Len(cells) > 0 \/ RecvLen = 0,
           RecvGoesOn(cells, rcv.rounds + 1)
    PROVE  /\ RcvOK' /\ DeliveredOK' /\ Moved(Start(rcv.part) + Len(cells), m)
           /\ delivered' = delivered \/ delivered' = Append(delivered, RFrame)
<1>1. RecvLen = PartLen(rcv.part, m)
  BY Lens DEF RecvLen, RcvOK, RcvRecs, Parts
<1>2. CASE Len(cells) = RecvLen
  <2>1. EndPart(cells)
    BY <1>2 DEF RecvGoesOn, Outcome, Unlimited
  <2> QED
    BY <1>1, <1>2, <2>1, Ends
<1>3. CASE Len(cells) # RecvLen
  <2>1. rcv' = [rcv EXCEPT !.got = cells, !.rounds = rcv.rounds + 1] /\ UNCHANGED delivered
    <3>1. Outcome(Len(cells), rcv.rounds + 1, RecvLen) = "more"
      BY <1>3 DEF Outcome, Unlimited
    <3> QED
      BY <3>1 DEF RecvGoesOn
  <2>2. /\ rcv \in RcvRecs /\ rcv.part \in Parts /\ rcv.rounds + 1 \in Nat
        /\ cells \in Seq(Cells)
    BY DEF RcvOK, RcvRecs, Holds
  <2>3. /\ rcv'.part = rcv.part /\ rcv'.got = cells /\ rcv'.size = rcv.size
        /\ rcv'.info = rcv.info /\ rcv' \in RcvRecs
    BY <2>1, <2>2 DEF RcvRecs
  <2>4. Len(cells) \in Nat /\ Len(cells) > 0 /\ cells # <<>>
    <3>1. Len(cells) \in Nat /\ Len(cells) <= RecvLen
      BY <2>2, <1>1 DEF Holds
    <3>2. RecvLen \in Nat
      BY Receiver
    <3>3. Len(cells) > 0
      BY <1>3, <3>1, <3>2
    <3> QED
      BY <2>2, <3>1, <3>3
  <2>5. RFrame' = RFrame /\ ROff' = Start(rcv.part) + Len(cells) /\ RecvLen' = RecvLen
    BY <2>1, <2>2, <2>3 DEF RFrame, ROff, RecvLen, Parts
  <2>6. RSize' = m
    <3>1. CASE rcv.part = "header"
      <4>1. cells[1] = Cell(RFrame, rcv.part, 1, m)
        BY <2>4 DEF Holds
      <4> QED
        BY <2>3, <2>4, <3>1, <4>1 DEF RSize, Cell
    <3>2. CASE rcv.part # "header"
      BY <2>3, <3>2 DEF RSize
    <3> QED
      BY <3>1, <3>2
  <2>7. RcvOK'
    <3>1. \A k \in 1 .. Len(cells) : cells[k] = Cell(RFrame, rcv.part, k, m)
      BY DEF Holds
    <3>2. Len(cells) <= RecvLen
      BY <1>1 DEF Holds
    <3> QED
      BY <2>2, <2>3, <2>5, <2>6, <3>1, <3>2 DEF RcvOK, RcvRecs, Parts
  <2> QED
    BY <2>1, <2>5, <2>6, <2>7 DEF DeliveredOK, Moved
<1> QED
  BY <1>2, <1>3

\* Where the receiver has moved to is the position that its cells end at.
LEMMA MovedSame ==
    ASSUME NEW off \in Nat, NEW m \in Nat, Moved(off, m), RFrame \in Nat,
           NEW g \in Nat, NEW p \in Nat, NEW q \in Nat, Same(RFrame, off, m, g, p, q)
    PROVE  Same(RFrame', ROff', RSize', g, p, q)
<1>1. CASE RFrame' = RFrame /\ ROff' = off /\ RSize' = m
  BY <1>1
<1>2. CASE RFrame' = RFrame + 1 /\ ROff' = 0 /\ off = FrameLen(m)
  <2>1. Same(RFrame, FrameLen(m), m, g, p, q)
    BY <1>2
  <2>2. Same(RFrame + 1, 0, RSize', g, p, q)
    BY <2>1, SameNext
  <2> QED
    BY <1>2, <2>2
<1> QED
  BY <1>1, <1>2 DEF Moved

\* Two sequences joined.
LEMMA Joins ==
    ASSUME NEW S, NEW a \in Seq(S), NEW b \in Seq(S)
    PROVE  /\ a \o b \in Seq(S) /\ Len(a \o b) = Len(a) + Len(b)
           /\ \A k \in 1 .. Len(a) : (a \o b)[k] = a[k]
           /\ \A k \in 1 .. Len(b) : (a \o b)[Len(a) + k] = b[k]
OBVIOUS

\* The cells that UDT::recv takes are the next ones of the part that is read.
LEMMA Reads ==
    ASSUME IInv, rcv.part # "idle", up # "closed", NEW n \in 0 .. RecvLen - Len(rcv.got),
           n > 0 \/ RecvLen = 0, n <= Len(stream)
    PROVE  \E m \in DataLens :
              /\ rcv.part # "header" => m = rcv.size
              /\ RFrame <= SentFrames
              /\ Holds(rcv.got \o SubSeq(stream, 1, n), m)
              /\ Len(rcv.got \o SubSeq(stream, 1, n)) = Len(rcv.got) + n
              /\ n = 0 => m = RSize
              /\ n > 0 => /\ stream[n].frame = RFrame /\ stream[n].size = m
                          /\ Off(stream[n]) = ROff + n
<1> DEFINE cells == rcv.got \o SubSeq(stream, 1, n)
<1>0. /\ SndOK /\ RcvOK /\ StreamOK /\ EndsMeet /\ DeliveredOK
      /\ RFrame \in Nat /\ ROff \in Nat /\ RSize \in Nat
      /\ rcv.part \in Parts /\ Start(rcv.part) \in Nat
      /\ ROff = Start(rcv.part) + Len(rcv.got) /\ Len(rcv.got) \in Nat /\ rcv.got \in Seq(Cells)
      /\ RecvLen = PartLen(rcv.part, RSize) /\ RecvLen \in Nat
      /\ Start(rcv.part) + RecvLen <= FrameLen(RSize) /\ FrameLen(RSize) \in Nat
      /\ stream \in Seq(Cells) /\ Chain(stream)
      /\ SentFrames \in Nat
  BY Receiver, Sender DEF IInv, RcvOK, RcvRecs, StreamOK
<1>1. /\ n \in Nat /\ n + Len(rcv.got) <= RecvLen /\ Len(stream) \in Nat
  BY <1>0, SMTT(30)
<1>2. /\ cells \in Seq(Cells) /\ Len(cells) = Len(rcv.got) + n
      /\ \A k \in 1 .. Len(rcv.got) : cells[k] = rcv.got[k]
      /\ \A k \in 1 .. n : cells[Len(rcv.got) + k] = stream[k]
  <2> DEFINE part == SubSeq(stream, 1, n)
  <2>1. /\ part \in Seq(Cells) /\ Len(part) = n
        /\ \A k \in 1 .. n : part[k] = stream[k]
    BY <1>0, <1>1
  <2>2. rcv.got \in Seq(Cells)
    BY <1>0
  <2> HIDE DEF part
  <2>3. /\ rcv.got \o part \in Seq(Cells) /\ Len(rcv.got \o part) = Len(rcv.got) + Len(part)
        /\ \A k \in 1 .. Len(rcv.got) : (rcv.got \o part)[k] = rcv.got[k]
        /\ \A k \in 1 .. Len(part) : (rcv.got \o part)[Len(rcv.got) + k] = part[k]
    <3>1. part \in Seq(Cells)
      BY <2>1
    <3> DEFINE a == rcv.got
    <3>2. a \in Seq(Cells)
      BY <2>2
    <3> HIDE DEF a
    <3>3. /\ a \o part \in Seq(Cells) /\ Len(a \o part) = Len(a) + Len(part)
          /\ \A k \in 1 .. Len(a) : (a \o part)[k] = a[k]
          /\ \A k \in 1 .. Len(part) : (a \o part)[Len(a) + k] = part[k]
      BY <3>1, <3>2, Joins
    <3> QED
      BY <3>3 DEF a
  <2> QED
    BY <2>1, <2>3 DEF part
<1> HIDE DEF cells
<1>3. CASE n = 0
  <2>1. rcv.part = "data" /\ RSize = rcv.size /\ RSize \in DataLens
    <3>1. RecvLen = 0
      BY <1>3
    <3>2. rcv.part = "data"
      BY <1>0, <3>1, PartEnds
    <3> QED
      BY <1>0, <3>2 DEF RcvOK, RcvRecs, RSize
  <2>2. ROff > 0
    <3>1. Start("data") > 0 /\ Start("data") \in Nat
      BY Lens
    <3> QED
      BY <1>0, <2>1, <3>1
  <2>3. RFrame <= SentFrames
    BY <1>0, <2>2 DEF RcvOK, RcvRecs
  <2>4. Holds(cells, RSize)
    BY <1>0, <1>1, <1>2, <1>3 DEF Holds, RcvOK, RcvRecs
  <2> QED
    BY <1>2, <1>3, <2>1, <2>3, <2>4 DEF cells
<1>4. CASE n > 0
  <2> DEFINE c == stream[1]
             m == c.size
  <2>1. /\ stream # <<>> /\ 1 \in 1 .. Len(stream) /\ c \in Cells
    BY <1>0, <1>1, <1>4
  <2>2. /\ c.frame \in Nat /\ c.frame \in 1 .. NumFrames /\ Off(c) \in Nat /\ Off(c) > 0
        /\ m \in DataLens /\ m \in Nat
        /\ Off(c) <= FrameLen(m) /\ FrameLen(m) \in Nat
        /\ c.frame <= SentFrames
    <3>1. c.frame <= SentFrames
      BY <1>0, <2>1 DEF StreamOK
    <3>2. c \in Cells
      BY <2>1
    <3> HIDE DEF c
    <3> QED
      BY <3>1, <3>2, CellFacts
  <2>3. Same(RFrame, ROff, RSize, c.frame, Off(c) - 1, m)
    BY <1>0, <2>1 DEF EndsMeet
  <2> HIDE DEF c, m
  <2>4. ROff < FrameLen(RSize)
    BY <1>0, <1>1, <1>4, SMTT(30)
  <2>5. c.frame = RFrame /\ Off(c) = ROff + 1 /\ (ROff = 0 \/ RSize = m)
    <3>1. ROff \in Nat /\ FrameLen(RSize) \in Nat /\ RFrame \in Nat
      BY <1>0
    <3> QED
      BY <2>2, <2>3, <2>4, <3>1 DEF Same
  <2>6. /\ rcv.part # "header" => m = rcv.size
        /\ Len(rcv.got) > 0 => m = RSize
        /\ PartLen(rcv.part, m) = RecvLen
    <3>1. rcv.part # "header" => ROff > 0 /\ RSize = rcv.size
      BY <1>0, Lens, SMTT(30) DEF Parts, RSize
    <3>2. Len(rcv.got) > 0 => ROff > 0
      BY <1>0
    <3>3. rcv.part = "header" => PartLen(rcv.part, m) = PartLen(rcv.part, RSize)
      BY Lens
    <3>4. RecvLen = PartLen(rcv.part, RSize)
      BY <1>0
    <3>5. ROff > 0 => ROff # 0
      BY <1>0
    <3>6. ROff > 0 => RSize = m
      BY <2>5, <3>5
    <3> QED
      BY <3>1, <3>2, <3>3, <3>4, <3>6
  <2>7. Start(rcv.part) + RecvLen <= FrameLen(m)
    BY <1>0, <2>2, <2>6, PartEnds
  <2>8. ASSUME NEW k \in 1 .. n
        PROVE  /\ stream[k].frame = RFrame /\ stream[k].size = m /\ Off(stream[k]) = ROff + k
               /\ stream[k] = Cell(RFrame, rcv.part, Len(rcv.got) + k, m)
    <3>1. /\ k \in 1 .. Len(stream) /\ k \in Nat /\ stream[k] \in Cells
          /\ ROff + k <= FrameLen(m) /\ Len(rcv.got) + k \in Nat \ {0}
          /\ Len(rcv.got) + k <= RecvLen
          /\ Off(c) + (k - 1) = ROff + k
      <4>1. k \in Nat /\ k <= n /\ k > 0
        BY <1>1
      <4>2. /\ Len(rcv.got) \in Nat /\ Start(rcv.part) \in Nat /\ RecvLen \in Nat
            /\ ROff = Start(rcv.part) + Len(rcv.got)
        BY <1>0
      <4>3. Len(rcv.got) + k \in Nat \ {0} /\ Len(rcv.got) + k <= RecvLen
        BY <1>1, <4>1, <4>2
      <4>4. ROff + k <= FrameLen(m)
        BY <2>2, <2>7, <4>1, <4>2, <4>3, SMTT(30)
      <4>5. Off(c) + (k - 1) = ROff + k
        BY <2>5, <4>1, <4>2
      <4>6. k \in 1 .. Len(stream) /\ stream[k] \in Cells
        BY <1>0, <1>1, <4>1, SMTT(30)
      <4> QED
        BY <4>1, <4>3, <4>4, <4>5, <4>6
    <3>2. stream[k].frame = c.frame /\ stream[k].size = m /\ Off(stream[k]) = Off(c) + (k - 1)
      <4>1. Off(c) + (k - 1) <= FrameLen(m)
        BY <3>1
      <4> QED
        BY <1>0, <2>1, <3>1, <4>1 DEF Chain, c, m
    <3>3. Off(stream[k]) = Start(rcv.part) + (Len(rcv.got) + k)
      <4>1. /\ Len(rcv.got) \in Nat /\ Start(rcv.part) \in Nat
            /\ ROff = Start(rcv.part) + Len(rcv.got)
        BY <1>0
      <4> QED
        BY <3>1, <3>2, <4>1
    <3>4. stream[k] = Cell(stream[k].frame, rcv.part, Len(rcv.got) + k, stream[k].size)
      BY <1>0, <2>6, <3>1, <3>2, <3>3, CellAt
    <3> QED
      BY <2>5, <3>1, <3>2, <3>4
  <2>9. Holds(cells, m)
    <3> SUFFICES ASSUME NEW k \in 1 .. Len(cells)
                 PROVE  cells[k] = Cell(RFrame, rcv.part, k, m)
      BY <1>1, <1>2, <2>6 DEF Holds
    <3>1. CASE k <= Len(rcv.got)
      <4>1. k \in 1 .. Len(rcv.got) /\ Len(rcv.got) > 0
        BY <1>0, <1>2, <3>1
      <4>2. rcv.got[k] = Cell(RFrame, rcv.part, k, RSize)
        BY <1>0, <4>1 DEF RcvOK, RcvRecs
      <4> QED
        BY <1>2, <2>6, <4>1, <4>2
    <3>2. CASE k > Len(rcv.got)
      <4>1. PICK g : g = Len(rcv.got)
        OBVIOUS
      <4>2. g \in Nat /\ k \in 1 .. g + n /\ k > g /\ n \in Nat
        BY <1>0, <1>1, <1>2, <3>2, <4>1
      <4>3. k - g \in 1 .. n /\ g + (k - g) = k
        BY <4>2
      <4>4. k - Len(rcv.got) \in 1 .. n /\ Len(rcv.got) + (k - Len(rcv.got)) = k
        BY <4>1, <4>3
      <4> QED
        BY <1>2, <2>8, <4>4
    <3> QED
      BY <1>0, <1>2, <3>1, <3>2
  <2>10. n \in 1 .. n
    BY <1>1, <1>4
  <2>11. RFrame <= SentFrames
    BY <2>2, <2>5
  <2>12. /\ m \in DataLens /\ (rcv.part # "header" => m = rcv.size)
         /\ Len(cells) = Len(rcv.got) + n /\ n # 0
         /\ stream[n].frame = RFrame /\ stream[n].size = m /\ Off(stream[n]) = ROff + n
    <3>1. n # 0
      BY <1>4
    <3> QED
      BY <1>2, <2>2, <2>6, <2>8, <2>10, <3>1
  <2> HIDE DEF m
  <2>13. /\ rcv.part # "header" => m = rcv.size
         /\ RFrame <= SentFrames
         /\ Holds(cells, m)
         /\ Len(cells) = Len(rcv.got) + n
         /\ n = 0 => m = RSize
         /\ n > 0 => /\ stream[n].frame = RFrame /\ stream[n].size = m
                     /\ Off(stream[n]) = ROff + n
    BY <2>9, <2>11, <2>12
  <2>14. \E x \in DataLens :
            /\ rcv.part # "header" => x = rcv.size
            /\ RFrame <= SentFrames
            /\ Holds(cells, x)
            /\ Len(cells) = Len(rcv.got) + n
            /\ n = 0 => x = RSize
            /\ n > 0 => /\ stream[n].frame = RFrame /\ stream[n].size = x
                        /\ Off(stream[n]) = ROff + n
    BY <2>12, <2>13
  <2> QED
    BY <2>14 DEF cells
<1>5. n = 0 \/ n > 0
  BY <1>1
<1> QED
  BY <1>3, <1>4, <1>5, Zenon

\* UDT::recv: the receiver moves to where the cells it took end.
LEMMA RecvStep ==
    ASSUME Unlimited, IInv, RecvSome
    PROVE  /\ IInv' /\ UNCHANGED <<snd, up>>
           /\ \/ delivered' = delivered
              \/ delivered' = Append(delivered, RFrame) /\ RFrame <= SentFrames
<1>1. PICK n \in 0 .. RecvLen - Len(rcv.got) :
         /\ n > 0 \/ RecvLen = 0
         /\ n <= Len(stream)
         /\ stream' = SubSeq(stream, n + 1, Len(stream))
         /\ RecvGoesOn(rcv.got \o SubSeq(stream, 1, n), rcv.rounds + 1)
  BY DEF RecvSome
<1>2. /\ rcv.part # "idle" /\ up # "closed" /\ UNCHANGED <<snd, up>>
      /\ SndOK /\ RcvOK /\ StreamOK /\ EndsMeet /\ DeliveredOK /\ UpOK
      /\ SentFrames \in Nat /\ SentFrames <= NumFrames /\ SentFrames' = SentFrames
  BY Sender DEF RecvSome, IInv, SentFrames
<1>3. PICK m \in DataLens :
              /\ rcv.part # "header" => m = rcv.size
              /\ RFrame <= SentFrames
              /\ Holds(rcv.got \o SubSeq(stream, 1, n), m)
              /\ Len(rcv.got \o SubSeq(stream, 1, n)) = Len(rcv.got) + n
              /\ n = 0 => m = RSize
              /\ n > 0 => /\ stream[n].frame = RFrame /\ stream[n].size = m
                          /\ Off(stream[n]) = ROff + n
  BY <1>1, <1>2, Reads
<1>4. /\ RFrame \in Nat /\ ROff \in Nat /\ m \in Nat /\ RecvLen \in Nat /\ Len(rcv.got) \in Nat
      /\ ROff = Start(rcv.part) + Len(rcv.got) /\ Start(rcv.part) \in Nat
      /\ n \in Nat /\ n \in 0 .. Len(stream) /\ stream \in Seq(Cells) /\ Chain(stream)
      /\ Len(stream) \in Nat
  <2>1. /\ RFrame \in Nat /\ ROff \in Nat /\ RecvLen \in Nat /\ Len(rcv.got) \in Nat
        /\ ROff = Start(rcv.part) + Len(rcv.got) /\ Start(rcv.part) \in Nat
    BY <1>2, Receiver
  <2>2. m \in Nat /\ stream \in Seq(Cells) /\ Chain(stream)
    BY <1>2, Lens DEF StreamOK
  <2> QED
    BY <1>1, <2>1, <2>2
<1>5. /\ RcvOK' /\ DeliveredOK' /\ Moved(ROff + n, m)
      /\ delivered' = delivered \/ delivered' = Append(delivered, RFrame)
  <2> DEFINE cells == rcv.got \o SubSeq(stream, 1, n)
  <2>1. /\ Holds(cells, m) /\ Len(cells) = Len(rcv.got) + n /\ RecvGoesOn(cells, rcv.rounds + 1)
    BY <1>1, <1>3
  <2> HIDE DEF cells
  <2>2. Len(cells) > 0 \/ RecvLen = 0
    BY <1>1, <1>4, <2>1
  <2>3. /\ RcvOK' /\ DeliveredOK' /\ Moved(Start(rcv.part) + Len(cells), m)
        /\ delivered' = delivered \/ delivered' = Append(delivered, RFrame)
    BY <1>2, <1>3, <2>1, <2>2, RecvMoves
  <2>4. Start(rcv.part) + Len(cells) = ROff + n
    BY <1>4, <2>1
  <2> QED
    BY <2>3, <2>4
<1>6. /\ stream' \in Seq(Cells) /\ Chain(stream') /\ Len(stream') = Len(stream) - n
      /\ \A i \in 1 .. Len(stream') : stream'[i] = stream[i + n]
  BY <1>1, <1>4, ChainTail
<1>7. StreamOK'
  <2>1. \A i \in 1 .. Len(stream') : i + n \in 1 .. Len(stream)
    BY <1>4, <1>6
  <2> QED
    BY <1>2, <1>6, <2>1 DEF StreamOK
<1>8. EndsMeet'
  <2>1. ASSUME NEW g \in Nat, NEW p \in Nat, NEW q \in Nat, Same(RFrame, ROff + n, m, g, p, q)
        PROVE  Same(RFrame', ROff', RSize', g, p, q)
    <3>1. ROff + n \in Nat
      BY <1>4
    <3> QED
      BY <1>4, <1>5, <2>1, <3>1, MovedSame
  <2>2. ASSUME stream' # <<>>
        PROVE  Same(RFrame', ROff', RSize', stream'[1].frame, Off(stream'[1]) - 1, stream'[1].size)
    <3> DEFINE d == stream[n + 1]
    <3>1. /\ stream'[1] = d /\ n + 1 \in 1 .. Len(stream) /\ d \in Cells
          /\ stream # <<>>
      <4>1. 1 \in 1 .. Len(stream') /\ 1 + n = n + 1
        BY <1>4, <1>6, <2>2
      <4> QED
        BY <1>4, <1>6, <4>1
    <3>2. /\ d.frame \in Nat /\ Off(d) - 1 \in Nat /\ d.size \in Nat
      BY <3>1, CellFacts
    <3>3. Same(RFrame, ROff + n, m, d.frame, Off(d) - 1, d.size)
      <4>1. CASE n = 0
        BY <1>2, <1>3, <1>4, <3>1, <4>1 DEF EndsMeet
      <4>2. CASE n > 0
        <5> DEFINE c == stream[n]
        <5>1. /\ c \in Cells /\ n \in 1 .. Len(stream) - 1 /\ n \in 1 .. Len(stream)
              /\ n + 1 \in n .. Len(stream) /\ (n + 1) - n = 1
          BY <1>4, <3>1, <4>2
        <5>2. /\ c.frame = RFrame /\ c.size = m /\ Off(c) = ROff + n
          BY <1>3, <4>2
        <5>3. Off(c) \in Nat /\ Off(c) <= FrameLen(m) /\ FrameLen(m) \in Nat
          BY <5>1, <5>2, CellFacts
        <5>4. CASE Off(c) = FrameLen(m)
          <6>1. d.frame = RFrame + 1 /\ Off(d) = 1
            BY <1>4, <5>1, <5>2, <5>4 DEF Chain
          <6> QED
            BY <5>2, <5>4, <6>1 DEF Same
        <5>5. CASE Off(c) # FrameLen(m)
          <6>1. Off(c) + ((n + 1) - n) <= FrameLen(m)
            BY <5>1, <5>3, <5>5
          <6>2. d.frame = RFrame /\ d.size = m /\ Off(d) = Off(c) + ((n + 1) - n)
            BY <1>4, <5>1, <5>2, <6>1 DEF Chain
          <6>3. Off(d) - 1 = ROff + n
            BY <5>1, <5>2, <5>3, <6>2
          <6> QED
            BY <6>2, <6>3 DEF Same
        <5> QED
          BY <5>4, <5>5
      <4> QED
        BY <1>4, <4>1, <4>2
    <3> HIDE DEF d
    <3>4. Same(RFrame', ROff', RSize', d.frame, Off(d) - 1, d.size)
      BY <2>1, <3>2, <3>3
    <3> QED
      BY <3>1, <3>4
  <2>3. ASSUME stream' # <<>>, up = "open"
        PROVE  Same(stream'[Len(stream')].frame, Off(stream'[Len(stream')]),
                    stream'[Len(stream')].size, snd.frame, SOff, snd.size)
    <3>1. /\ stream # <<>> /\ Len(stream') \in 1 .. Len(stream') /\ Len(stream') + n = Len(stream)
      BY <1>4, <1>6, <2>3
    <3>2. stream'[Len(stream')] = stream[Len(stream)]
      BY <1>6, <3>1
    <3> QED
      BY <1>2, <2>3, <3>1, <3>2 DEF EndsMeet
  <2>4. ASSUME stream' = <<>>, up = "open"
        PROVE  Same(RFrame', ROff', RSize', snd.frame, SOff, snd.size)
    <3>1. Len(stream) = n
      BY <1>4, <1>6, <2>4
    <3>2. Same(RFrame, ROff + n, m, snd.frame, SOff, snd.size)
      <4>1. CASE n = 0
        BY <1>2, <1>3, <1>4, <2>4, <3>1, <4>1 DEF EndsMeet
      <4>2. CASE n > 0
        BY <1>2, <1>3, <1>4, <2>4, <3>1, <4>2 DEF EndsMeet
      <4> QED
        BY <1>4, <4>1, <4>2
    <3>3. snd.frame \in Nat /\ SOff \in Nat /\ snd.size \in Nat
      BY <1>2, Sender
    <3> QED
      BY <2>1, <3>2, <3>3
  <2> QED
    BY <1>2, <2>2, <2>3, <2>4 DEF EndsMeet, SOff
<1> QED
  BY <1>2, <1>3, <1>5, <1>7, <1>8 DEF IInv, SndOK, SndRecs, SendLen, UpOK
-----------------------------------------------------------------------------
(* The other actions. *)

\* The size of the frame's data says nothing about where the frame begins.
LEMMA SameStart ==
    ASSUME NEW f \in Nat, NEW m \in Nat, NEW n \in Nat,
           NEW g \in Nat, NEW p \in Nat, NEW q \in Nat
    PROVE  /\ Same(f, 0, m, g, p, q) => Same(f, 0, n, g, p, q)
           /\ Same(g, p, q, f, 0, m) => Same(g, p, q, f, 0, n)
<1>1. FrameLen(m) \in Nat /\ FrameLen(m) > 0
  BY Lens DEF FrameLen
<1> QED
  BY <1>1 DEF Same

\* A call of AvFrameDataSend begins.
LEMMA StartSendStep ==
    ASSUME IInv, StartSend
    PROVE  IInv' /\ SentFrames' = SentFrames + 1 /\ UNCHANGED <<delivered, up>>
<1>1. /\ SndOK /\ RcvOK /\ StreamOK /\ EndsMeet /\ DeliveredOK /\ UpOK
      /\ UNCHANGED <<stream, rcv, delivered, up>>
      /\ SentFrames \in Nat /\ snd.frame \in Nat /\ SOff \in Nat /\ snd.size \in Nat
      /\ RFrame \in Nat /\ ROff \in Nat /\ RSize \in Nat
  BY Sender, Receiver DEF IInv, StartSend
<1>2. PICK m \in DataLens : snd' = [snd EXCEPT !.part = "header", !.size = m]
  BY DEF StartSend
<1>3. /\ snd.part = "idle" /\ snd.frame <= NumFrames /\ m \in Nat /\ snd.done = 0
      /\ snd \in SndRecs
  BY <1>1, Lens DEF StartSend, SndOK, SndRecs
<1>4. /\ snd'.part = "header" /\ snd'.frame = snd.frame /\ snd'.size = m /\ snd'.done = 0
      /\ snd' \in SndRecs
  BY <1>2, <1>3 DEF SndRecs, Parts
<1>5. SndOK' /\ SOff = 0 /\ SOff' = 0 /\ SentFrames' = SentFrames + 1
  BY <1>1, <1>3, <1>4, Lens DEF SndOK, SOff, SentFrames, SendLen
<1>6. RcvOK' /\ RFrame' = RFrame /\ ROff' = ROff /\ RSize' = RSize /\ StreamOK'
  BY <1>1, <1>5, Older
<1>7. EndsMeet'
  <2>1. ASSUME stream # <<>>, up = "open"
        PROVE  Same(stream[Len(stream)].frame, Off(stream[Len(stream)]),
                    stream[Len(stream)].size, snd'.frame, SOff', snd'.size)
    <3> DEFINE c == stream[Len(stream)]
    <3>1. c \in Cells /\ Same(c.frame, Off(c), c.size, snd.frame, 0, snd.size)
      BY <1>1, <1>5, <2>1 DEF EndsMeet, StreamOK
    <3> HIDE DEF c
    <3>2. c.frame \in Nat /\ Off(c) \in Nat /\ c.size \in Nat
      BY <3>1, CellFacts
    <3>3. Same(c.frame, Off(c), c.size, snd.frame, 0, m)
      BY <1>1, <1>3, <3>1, <3>2, SameStart
    <3> QED
      BY <1>4, <1>5, <3>3 DEF c
  <2>2. ASSUME stream = <<>>, up = "open"
        PROVE  Same(RFrame, ROff, RSize, snd'.frame, SOff', snd'.size)
    <3>1. Same(RFrame, ROff, RSize, snd.frame, 0, snd.size)
      BY <1>1, <1>5, <2>2 DEF EndsMeet
    <3>2. Same(RFrame, ROff, RSize, snd.frame, 0, m)
      BY <1>1, <1>3, <3>1, SameStart
    <3> QED
      BY <1>4, <1>5, <3>2
  <2> QED
    BY <1>1, <1>6, <2>1, <2>2 DEF EndsMeet
<1> QED
  BY <1>1, <1>5, <1>6, <1>7 DEF IInv, DeliveredOK, UpOK

\* UDT::send fails, in a connection that is not open any more.
LEMMA SendFailsStep ==
    ASSUME IInv, SendFails
    PROVE  IInv' /\ SentFrames' = SentFrames /\ UNCHANGED <<delivered, up>>
<1>1. /\ SndOK /\ RcvOK /\ StreamOK /\ EndsMeet /\ DeliveredOK /\ UpOK
      /\ UNCHANGED <<stream, rcv, delivered, up>> /\ up # "open" /\ snd.part # "idle"
      /\ SentFrames \in Nat /\ SentFrames <= NumFrames
  BY Sender DEF IInv, SendFails
<1>2. /\ snd \in SndRecs /\ snd.part \in Parts /\ snd.frame \in Nat \ {0} /\ snd.size \in Nat
      /\ snd.frame <= NumFrames /\ snd.size \in DataLens /\ SentFrames = snd.frame
      /\ SendLen = PartLen(snd.part, snd.size)
  BY <1>1, Lens DEF SndOK, SndRecs, SentFrames, SendLen
<1>3. snd.part # "data" => SendLen # 0
  BY <1>2, PartEnds
<1>4. snd' = IdleSender(snd.frame + 1)
  BY <1>3 DEF SendFails
<1>5. /\ snd'.part = "idle" /\ snd'.frame = snd.frame + 1 /\ snd'.done = 0 /\ snd' \in SndRecs
  BY <1>2, <1>4 DEF IdleSender, SndRecs
<1>6. SndOK' /\ SentFrames' = SentFrames
  BY <1>2, <1>5, Lens DEF SndOK, SentFrames
<1>7. RcvOK' /\ RFrame' = RFrame /\ ROff' = ROff /\ RSize' = RSize /\ StreamOK'
  BY <1>1, <1>6, Older
<1>8. EndsMeet'
  BY <1>1, <1>7 DEF EndsMeet
<1> QED
  BY <1>1, <1>6, <1>7, <1>8 DEF IInv, DeliveredOK, UpOK

\* A call of AvFrameDataRecv begins.
LEMMA StartRecvStep ==
    ASSUME IInv, StartRecv
    PROVE  IInv' /\ UNCHANGED <<snd, delivered, up>>
<1>1. /\ SndOK /\ RcvOK /\ StreamOK /\ EndsMeet /\ DeliveredOK /\ UpOK
      /\ UNCHANGED <<stream, snd, delivered, up>> /\ rcv.part = "idle"
      /\ snd.frame \in Nat /\ SOff \in Nat /\ snd.size \in Nat
      /\ RFrame \in Nat /\ ROff \in Nat /\ RSize \in Nat
  BY Sender, Receiver DEF IInv, StartRecv
<1>2. /\ rcv'.part = "header" /\ rcv'.got = <<>> /\ rcv'.size = 0 /\ rcv' \in RcvRecs
  <2>1. IdleReceiver \in RcvRecs /\ IdleReceiver.got = <<>> /\ IdleReceiver.size = 0
    BY DEF IdleReceiver, RcvRecs
  <2> QED
    BY <2>1 DEF StartRecv, RcvRecs, Parts
<1>3. /\ ROff = 0 /\ RFrame' = RFrame /\ ROff' = 0 /\ RecvLen' = HeaderLen
      /\ SOff' = SOff /\ SentFrames' = SentFrames /\ SendLen' = SendLen
      /\ RSize' = 0
  BY <1>1, <1>2, Lens DEF ROff, RFrame, RecvLen, SOff, SentFrames, SendLen, RSize
<1>4. RcvOK'
  BY <1>2, <1>3, Lens DEF RcvOK, RcvRecs
<1>5. SndOK' /\ StreamOK'
  BY <1>1, <1>3 DEF SndOK, SndRecs, StreamOK
<1>6. EndsMeet'
  <2>1. ASSUME stream # <<>>, up # "closed"
        PROVE  Same(RFrame, 0, RSize', stream[1].frame, Off(stream[1]) - 1, stream[1].size)
    <3> DEFINE c == stream[1]
    <3>1. c \in Cells /\ Same(RFrame, 0, RSize, c.frame, Off(c) - 1, c.size)
      BY <1>1, <1>3, <2>1 DEF EndsMeet, StreamOK
    <3> HIDE DEF c
    <3>2. c.frame \in Nat /\ Off(c) - 1 \in Nat /\ c.size \in Nat
      BY <3>1, CellFacts
    <3>3. Same(RFrame, 0, RSize', c.frame, Off(c) - 1, c.size)
      BY <1>1, <1>3, <3>1, <3>2, SameStart, SMTT(30)
    <3> QED
      BY <3>3 DEF c
  <2>2. ASSUME stream = <<>>, up = "open"
        PROVE  Same(RFrame, 0, RSize', snd.frame, SOff, snd.size)
    <3>1. Same(RFrame, 0, RSize, snd.frame, SOff, snd.size)
      BY <1>1, <1>3, <2>2 DEF EndsMeet
    <3> QED
      BY <1>1, <1>3, <3>1, SameStart
  <2> QED
    BY <1>1, <1>3, <2>1, <2>2 DEF EndsMeet
<1> QED
  BY <1>1, <1>4, <1>5, <1>6 DEF IInv, DeliveredOK, UpOK

\* UDT::recv fails: nothing is on its way any more, or nobody will read it.
LEMMA RecvFailsStep ==
    ASSUME Unlimited, IInv, RecvFails
    PROVE  /\ IInv' /\ UNCHANGED <<snd, up>>
           /\ \/ delivered' = delivered
              \/ delivered' = Append(delivered, RFrame) /\ RFrame <= SentFrames
<1>1. /\ SndOK /\ RcvOK /\ StreamOK /\ EndsMeet /\ DeliveredOK /\ UpOK
      /\ UNCHANGED <<stream, snd, up>> /\ rcv.part # "idle"
      /\ up = "closed" \/ (up = "broken" /\ stream = <<>>)
      /\ SentFrames \in Nat /\ SentFrames <= NumFrames /\ SentFrames' = SentFrames
      /\ SendLen' = SendLen
  BY Sender DEF IInv, RecvFails, SentFrames, SendLen
<1>2. SndOK' /\ StreamOK' /\ EndsMeet' /\ UpOK'
  BY <1>1 DEF SndOK, StreamOK, EndsMeet, UpOK
<1>3. CASE RecvLen = 0 /\ up # "closed"
  <2>1. EndPart(<<>>)
    BY <1>3 DEF RecvFails
  <2>2. /\ rcv.part \in Parts /\ RecvLen = PartLen(rcv.part, RSize) /\ RSize \in Nat
        /\ ROff = Start(rcv.part) + Len(rcv.got) /\ Start(rcv.part) \in Nat
        /\ Len(rcv.got) \in Nat
    BY <1>1, Receiver
  <2>3. rcv.part = "data"
    BY <1>3, <2>2, PartEnds
  <2>4. rcv.size \in DataLens /\ PartLen(rcv.part, rcv.size) = 0
    BY <1>1, <1>3, <2>3 DEF RcvOK, RecvLen
  <2>5. RFrame <= SentFrames
    <3>1. Start("data") > 0
      BY Lens
    <3>2. ROff > 0
      BY <2>2, <2>3, <3>1
    <3> QED
      BY <1>1, <3>2 DEF RcvOK
  <2> DEFINE none == <<>>
  <2>6. Holds(none, rcv.size) /\ Len(none) = 0 /\ EndPart(none)
    BY <2>1, <2>4 DEF Holds
  <2> HIDE DEF none
  <2>7. /\ RcvOK' /\ DeliveredOK'
        /\ delivered' = delivered \/ delivered' = Append(delivered, RFrame)
    BY <1>1, <2>4, <2>5, <2>6, Ends
  <2> QED
    BY <1>1, <1>2, <2>5, <2>7 DEF IInv
<1>4. CASE ~(RecvLen = 0 /\ up # "closed")
  <2>1. rcv' = IdleReceiver /\ UNCHANGED delivered
    BY <1>4 DEF RecvFails
  <2>2. rcv'.part = "idle" /\ rcv'.got = <<>> /\ rcv' \in RcvRecs
    BY <2>1 DEF IdleReceiver, RcvRecs
  <2>3. RcvOK'
    BY <2>2 DEF RcvOK, ROff
  <2>4. DeliveredOK'
    BY <1>1, <2>1 DEF DeliveredOK
  <2> QED
    BY <1>1, <1>2, <2>1, <2>3, <2>4 DEF IInv
<1> QED
  BY <1>3, <1>4

\* The connection breaks, or the receiver closes it.
LEMMA StopStep ==
    ASSUME IInv, Break \/ CloseSession
    PROVE  IInv' /\ UNCHANGED <<snd, rcv, delivered>> /\ up' # "open"
<1>1. /\ SndOK /\ RcvOK /\ StreamOK /\ EndsMeet /\ DeliveredOK /\ UpOK
      /\ UNCHANGED <<snd, rcv, delivered>> /\ UpOK' /\ up' # "open"
      /\ SentFrames \in Nat
  BY Sender DEF IInv, Break, CloseSession, UpOK
<1>2. /\ RFrame' = RFrame /\ ROff' = ROff /\ RSize' = RSize /\ RecvLen' = RecvLen
      /\ SentFrames' = SentFrames /\ SendLen' = SendLen
  BY <1>1 DEF RFrame, ROff, RSize, RecvLen, SentFrames, SendLen
<1>3. SndOK' /\ RcvOK' /\ DeliveredOK'
  BY <1>1, <1>2 DEF SndOK, RcvOK, DeliveredOK
<1>4. CASE Break
  <2>1. PICK n \in 0 .. Len(stream) : stream' = SubSeq(stream, 1, n)
    BY <1>4 DEF Break
  <2>2. stream \in Seq(Cells) /\ Chain(stream) /\ up = "open" /\ up' = "broken"
    BY <1>1, <1>4 DEF StreamOK, Break
  <2>3. /\ stream' \in Seq(Cells) /\ Chain(stream') /\ Len(stream') = n
        /\ \A i \in 1 .. Len(stream') : stream'[i] = stream[i]
    BY <2>1, <2>2, ChainFront
  <2>4. StreamOK'
    BY <1>1, <1>2, <2>1, <2>2, <2>3 DEF StreamOK
  <2>5. stream' # <<>> => stream # <<>> /\ stream'[1] = stream[1]
    BY <2>2, <2>3
  <2>6. EndsMeet'
    BY <1>1, <1>2, <2>2, <2>5 DEF EndsMeet
  <2> QED
    BY <1>1, <1>3, <2>4, <2>6 DEF IInv
<1>5. CASE CloseSession
  <2>1. StreamOK' /\ EndsMeet'
    BY <1>1, <1>2, <1>5 DEF CloseSession, StreamOK, EndsMeet
  <2> QED
    BY <1>1, <1>3, <2>1 DEF IInv
<1> QED
  BY <1>4, <1>5
-----------------------------------------------------------------------------
(* The invariant and what follows from it. *)

\* The invariant holds when the session has been opened.
LEMMA FramesInitInv == FramesInit => IInv
<1> SUFFICES ASSUME FramesInit PROVE IInv
  OBVIOUS
<1>1. /\ stream = <<>> /\ snd = IdleSender(1) /\ rcv = IdleReceiver /\ delivered = <<>>
      /\ up = "open"
  BY DEF FramesInit
<1>2. /\ snd.part = "idle" /\ snd.frame = 1 /\ snd.done = 0 /\ snd \in SndRecs
      /\ rcv.part = "idle" /\ rcv.got = <<>> /\ rcv \in RcvRecs
  BY <1>1 DEF IdleSender, IdleReceiver, SndRecs, RcvRecs
<1>3. SndOK /\ RcvOK /\ DeliveredOK /\ UpOK
  BY <1>1, <1>2, Lens DEF SndOK, RcvOK, ROff, DeliveredOK, UpOK
<1>4. StreamOK
  BY <1>1 DEF StreamOK, Chain
<1>5. EndsMeet
  BY <1>1, <1>2 DEF EndsMeet, RFrame, ROff, SOff, Same
<1> QED
  BY <1>3, <1>4, <1>5 DEF IInv

\* Every step keeps the invariant and is one of the abstract stream or none.
LEMMA NextStep ==
    ASSUME Unlimited, IInv, [FramesNext]_frameVars
    PROVE  /\ IInv'
           /\ \/ SentFrames' = SentFrames + 1 /\ UNCHANGED <<delivered, up>>
              \/ /\ delivered' = Append(delivered, RFrame) /\ RFrame <= SentFrames
                 /\ SentFrames' = SentFrames /\ UNCHANGED up
              \/ SentFrames' = SentFrames /\ UNCHANGED delivered /\ up' # "open"
              \/ SentFrames' = SentFrames /\ UNCHANGED <<delivered, up>>
<1>0. UNCHANGED snd => SentFrames' = SentFrames
  BY DEF SentFrames
<1>1. CASE StartSend
  BY <1>1, StartSendStep
<1>2. CASE SendSome
  <2>1. IInv' /\ SentFrames' = SentFrames
    BY <1>2, SendStep DEF Unlimited
  <2> QED
    BY <1>2, <2>1 DEF SendSome
<1>3. CASE SendFails
  BY <1>3, SendFailsStep
<1>4. CASE StartRecv
  BY <1>0, <1>4, StartRecvStep
<1>5. CASE RecvSome
  BY <1>0, <1>5, RecvStep
<1>6. CASE RecvFails
  BY <1>0, <1>6, RecvFailsStep
<1>7. CASE Break \/ CloseSession
  BY <1>0, <1>7, StopStep
<1>8. CASE UNCHANGED frameVars
  <2>1. UNCHANGED <<stream, snd, rcv, delivered, up>>
    BY <1>8 DEF frameVars
  <2>2. IInv'
    BY <2>1 DEF IInv, SndOK, RcvOK, StreamOK, EndsMeet, DeliveredOK, UpOK, SentFrames, SOff, RFrame,
                ROff, RSize, SendLen, RecvLen
  <2> QED
    BY <1>0, <2>1, <2>2
<1> QED
  BY <1>1, <1>2, <1>3, <1>4, <1>5, <1>6, <1>7, <1>8 DEF FramesNext, AvFrameDataSend, AvFrameDataRecv

\* The invariant holds for ever.
LEMMA Invariance == ASSUME Unlimited PROVE FramesSpec => []IInv
<1>1. IInv /\ [FramesNext]_frameVars => IInv'
  BY NextStep
<1> QED
  BY <1>1, FramesInitInv, PTL DEF FramesSpec

\* Both ends stay in step: whenever a call of AvFrameDataRecv begins, the next
\* cell of an open channel is the first one of the header of the frame after
\* those already returned, whatever UDT::send and UDT::recv took at a time.
THEOREM InStepCorrect == ASSUME Unlimited PROVE FramesSpec => []InStep
<1>1. ASSUME IInv PROVE InStep
  <2>1. \A i \in 1 .. Len(delivered) : delivered[i] = i
    BY <1>1 DEF IInv, DeliveredOK
  <2>2. ASSUME up = "open", rcv.part = "idle", stream # <<>>
        PROVE  \E m \in DataLens : Head(stream) = Cell(Len(delivered) + 1, "header", 1, m)
    <3> DEFINE c == stream[1]
    <3>1. /\ c \in Cells /\ Head(stream) = c
          /\ Same(RFrame, 0, RSize, c.frame, Off(c) - 1, c.size)
          /\ RFrame \in Nat /\ RSize \in Nat /\ RFrame = Len(delivered) + 1
      BY <1>1, <2>2, Receiver DEF IInv, StreamOK, EndsMeet, ROff, RFrame
    <3> HIDE DEF c
    <3>2. /\ c.frame \in Nat /\ Off(c) \in Nat /\ Off(c) > 0 /\ c.size \in DataLens
          /\ Off(c) <= FrameLen(c.size) /\ FrameLen(c.size) \in Nat
      BY <3>1, CellFacts
    <3>3. FrameLen(RSize) > 0 /\ FrameLen(RSize) \in Nat
      BY <3>1, Lens DEF FrameLen
    <3>4. c.frame = RFrame /\ Off(c) = 1
      BY <3>1, <3>2, <3>3 DEF Same
    <3>5. c = Cell(c.frame, "header", 1, c.size)
      <4>1. /\ "header" \in Parts /\ 1 <= PartLen("header", c.size) /\ Off(c) = Start("header") + 1
        BY <3>4, Lens DEF Parts
      <4> QED
        BY <3>1, <4>1, CellAt
    <3> QED
      BY <3>1, <3>2, <3>4, <3>5
  <2> QED
    BY <2>1, <2>2 DEF InStep
<1> QED
  BY <1>1, Invariance, PTL

\* Frame by frame the channel implements the safe part of ReliableStream: each
\* step of either end, of the buffers between them or of the connection is a
\* frame sent, the next frame received, the end of the connection, or nothing.
THEOREM FrameStreamCorrect == ASSUME Unlimited PROVE FramesSpec => FrameStream
<1>1. FramesInit => Frames!Init
  BY DEF FramesInit, Frames!Init, IdleSender
<1>2. ASSUME IInv, [FramesNext]_frameVars PROVE [Frames!Next]_(Frames!streamVars)
  <2>1. /\ SentFrames \in Nat /\ RFrame = Len(delivered) + 1 /\ RFrame \in Nat
        /\ delivered \in Seq(Nat) /\ Len(delivered) \in Nat
        /\ \A i \in 1 .. Len(delivered) : delivered[i] = i
    BY <1>2, Sender DEF IInv, DeliveredOK, RFrame
  <2>2. CASE SentFrames' = SentFrames + 1 /\ UNCHANGED <<delivered, up>>
    <3>1. SentFrames' \in Nat /\ SentFrames' > SentFrames
      BY <2>1, <2>2
    <3>2. Frames!Send
      BY <2>2, <3>1 DEF Frames!Send, SentFrames
    <3> QED
      BY <3>2 DEF Frames!Next
  <2>3. CASE /\ delivered' = Append(delivered, RFrame) /\ RFrame <= SentFrames
             /\ SentFrames' = SentFrames /\ UNCHANGED up
    <3>1. RFrame \in (Len(delivered) + 1) .. SentFrames
      BY <2>1, <2>3
    <3>2. delivered' = [i \in 1 .. RFrame |-> i]
      <4>1. /\ delivered' \in [1 .. RFrame -> Nat]
            /\ \A i \in 1 .. RFrame : delivered'[i] = i
        <5>1. /\ delivered' \in Seq(Nat) /\ Len(delivered') = RFrame /\ delivered'[RFrame] = RFrame
              /\ \A i \in 1 .. Len(delivered) : delivered'[i] = delivered[i]
          BY <2>1, <2>3
        <5>2. \A i \in 1 .. RFrame : i = RFrame \/ i \in 1 .. Len(delivered)
          BY <2>1
        <5> QED
          BY <2>1, <5>1, <5>2, SMTT(30)
      <4> QED
        BY <4>1
    <3>3. Frames!Recv
      BY <2>3, <3>1, <3>2 DEF Frames!Recv, SentFrames
    <3> QED
      BY <3>3 DEF Frames!Next
  <2>4. CASE SentFrames' = SentFrames /\ UNCHANGED delivered /\ up' # "open"
    <3>1. Frames!Stop \/ UNCHANGED Frames!streamVars
      BY <2>4 DEF Frames!Stop, Frames!streamVars, SentFrames
    <3> QED
      BY <3>1 DEF Frames!Next
  <2>5. CASE SentFrames' = SentFrames /\ UNCHANGED <<delivered, up>>
    BY <2>5 DEF Frames!streamVars, SentFrames
  <2> QED
    BY <1>2, <2>2, <2>3, <2>4, <2>5, NextStep
<1> QED
  BY <1>1, <1>2, Invariance, PTL DEF FramesSpec, FrameStream, Frames!Spec
=============================================================================
