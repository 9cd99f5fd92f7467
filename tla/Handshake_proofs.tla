-------------------------- MODULE Handshake_proofs --------------------------
(***************************************************************************)
(* Two sockets that get connected agree on the connection, and a closed    *)
(* one is not left on the rendezvous queue, for any bounds, and whatever   *)
(* packets the network loses, repeats and delays.                          *)
(***************************************************************************)
EXTENDS Handshake, FiniteSetTheorems, SequenceTheorems, TLAPS

Statuses == {"OPENED", "CONNECTING", "CONNECTED", "CLOSED"}
CallAt == {"idle", "starting", "waiting", "closing", "closed"}
WorkerAt == {"idle", "post", "complete"}
Results == {"none", "pending", "ok", "timeout", "rejected", "insecure"}
Contents == Handshakes \cup {Data}
ReqTypes == {0, 1, -1}
Requests == [type : ReqTypes, cookie : Cookies]
Packets == [to : IDs, id : IDs, hs : Contents]
Sockets == [id : Nat, peer : IDs, isn : ISNs]

TypeOK ==
    /\ kind \in [End -> Kinds] /\ sync \in [End -> BOOLEAN]
    /\ app \in [End -> CallAt] /\ worker \in [End -> WorkerAt]
    /\ status \in [End -> Statuses]
    /\ connecting \subseteq End /\ connected \subseteq End /\ closing \subseteq End
    /\ attempt \in [End -> Nat] /\ expired \in [End -> Nat]
    /\ entries \in [End -> Seq(Nat \ {0})] /\ stored \in [End -> Seq(Contents)]
    /\ req \in [End -> Requests] /\ res \in [End -> Handshakes \cup {NoHs}]
    /\ result \in [End -> Results]
    /\ net \subseteq Packets
    /\ minute \in Nat \ {0}
    /\ served \subseteq Sockets /\ IsFiniteSet(served)

\* How far a socket's call of connect() and its worker may be from each other.
CallOK(e) ==
    /\ attempt[e] = 0 =>
          /\ e \notin connecting /\ e \notin connected /\ worker[e] = "idle"
          /\ app[e] = "idle" /\ entries[e] = <<>> /\ req[e].type = 0
    /\ kind[e] = "listener" => attempt[e] = 0
    /\ app[e] = "waiting" => sync[e]
    /\ app[e] = "starting" => e \notin connecting
    /\ app[e] \in {"starting", "waiting"} => worker[e] = "idle" /\ e \notin connected
    /\ worker[e] # "idle" => ~sync[e]
    /\ worker[e] = "post" => e \in connecting
    /\ e \in connected \/ worker[e] = "post" => res[e] # NoHs
    /\ e \in connected => e \notin connecting
    /\ ~sync[e] => attempt[e] = 0 \/ (attempt[e] = 1 /\ status[e] # "OPENED")
    /\ status[e] = "CLOSED" => app[e] = "closed"
CallInv == \A e \in End : CallOK(e)

\* Before its time to live has passed a socket has one entry at most, and only
\* while connect() is under way.
QueueOK(e) ==
    expired[e] = 0 /\ entries[e] # <<>> =>
        /\ Len(entries[e]) = 1
        /\ e \in connecting \/ app[e] = "starting"
        /\ app[e] \notin {"closing", "closed"} /\ worker[e] # "post"
QueueInv == \A e \in End : QueueOK(e)

\* A client that calls a listener: what it may have asked for, and what it may
\* have been told.
Calls(e) == kind[e] = "client" /\ kind[Peer(e)] = "listener"
Asked(e, id, isn) == id = e /\ isn \in {e} \X (1 .. attempt[e])
SocketFor(e, hs) == \E s \in served : s.peer = e /\ s.id = hs.id /\ s.isn = hs.isn
Told(e, hs) ==
    hs # Data => hs.type \in {1, 1002} \/ (hs.type = -1 /\ SocketFor(e, hs))

\* The listener's sockets are for requests of the client, and so are the packets
\* on their way to it; those on their way to the client tell of such sockets.
ServedOK(e) == Calls(e) => \A s \in served : Asked(e, s.peer, s.isn)
PacketOK(e, m) ==
    /\ m.to = Peer(e) /\ m.hs # Data => Asked(e, m.hs.id, m.hs.isn)
    /\ m.to = e => Told(e, m.hs)
NetOK(e) == Calls(e) => \A m \in net : PacketOK(e, m)
StoredOK(e) == Calls(e) => \A i \in DOMAIN stored[e] : Told(e, stored[e][i])
Settled(e) == e \in connected \/ worker[e] = "post"
ResOK(e) ==
    /\ Calls(e) /\ Settled(e)
    /\ result[e] \in {"pending", "ok"} /\ res[e].type # 1002
    => SocketFor(e, res[e]) /\ res[e].isn = ISN(e)
ClientOK(e) == ServedOK(e) /\ NetOK(e) /\ StoredOK(e) /\ ResOK(e)
ClientInv == \A e \in End : ClientOK(e)

\* Two rendezvous sockets in their first attempt.  Who answers with -1 has its
\* peer's request, and who sends -2, or data, has its answer.
Meet == \A e \in End : Rendezvous(e) /\ attempt[e] <= 1
BothAsked == \A e \in End : req[e].type = -1
FromPeer(e, hs) ==
    /\ hs # Data => /\ hs.id = Peer(e) /\ hs.isn = <<Peer(e), 1>>
                    /\ hs.type \in {0, -1, -2}
                    /\ hs.type = -1 => req[Peer(e)].type = -1
                    /\ hs.type = -2 => BothAsked
    /\ hs = Data => BothAsked
MeetOK(e) ==
    /\ \A m \in net : m.to = e => FromPeer(e, m.hs)
    /\ \A i \in DOMAIN stored[e] : FromPeer(e, stored[e][i])
    /\ res[e] # NoHs => res[e].id = Peer(e) /\ res[e].isn = <<Peer(e), 1>>
    /\ req[e].type # 1
    /\ Settled(e) => BothAsked
MeetInv == Meet => served = {} /\ \A e \in End : MeetOK(e)
-----------------------------------------------------------------------------
\* There are two hosts, each the other's peer.
LEMMA Peers ==
    ASSUME NEW e \in End
    PROVE  /\ Peer(e) \in End /\ Peer(e) # e /\ Peer(Peer(e)) = e
           /\ \A x \in End : x = e \/ x = Peer(e)
<1>0. IsFiniteSet(End) /\ Cardinality(End) = 2
  BY HandshakeAssumption
<1>1. IsFiniteSet(End \ {e}) /\ Cardinality(End \ {e}) = 1
  <2>1. IsFiniteSet(End \ {e}) /\ Cardinality(End \ {e}) = Cardinality(End) - 1
    BY <1>0, FS_RemoveElement
  <2> QED
    BY <1>0, <2>1
<1>2. PICK p : End \ {e} = {p}
  BY <1>1, FS_Singleton
<1> QED
  BY <1>2 DEF Peer

\* A step is one of these actions.
LEMMA Steps ==
    ASSUME [Next]_vars
    PROVE  \/ \E e \in End : Connect(e) \/ SetConnecting(e) \/ TakeResponse(e) \/ GiveUp(e)
                             \/ Close(e) \/ CloseManager(e)
           \/ \E e \in End : SetConnected(e) \/ ConnectComplete(e) \/ ExpireConnector(e)
                             \/ Repeat(e) \/ SendData(e) \/ PassTTL(e)
           \/ \E e \in End : \E m \in net : Store(e, m) \/ WorkerConnect(e, m)
                             \/ AnswerConnected(e, m) \/ GiveCookie(e, m) \/ AcceptRequest(e, m)
           \/ Accept \/ PassMinute \/ UNCHANGED vars
BY Zenon DEF Next, Application, Worker


\* A packet made of the right fields is one of all the packets there can be.
LEMMA Made ==
    ASSUME NEW to \in IDs, NEW id \in IDs, NEW type \in HsTypes, NEW isn \in ISNs,
           NEW hid \in IDs, NEW cookie \in Cookies
    PROVE  /\ HS(type, isn, hid, cookie) \in Handshakes
           /\ Packet(to, id, HS(type, isn, hid, cookie)) \in Packets
BY DEF HS, Packet, Packets, Contents, Handshakes

\* What every packet is made of.
LEMMA Parts ==
    /\ 0 \in ReqTypes /\ 1 \in ReqTypes /\ -1 \in ReqTypes /\ ReqTypes \subseteq HsTypes
    /\ -1 \in HsTypes /\ -2 \in HsTypes /\ 1002 \in HsTypes
    /\ NoCookie \in Cookies /\ Zero \in IDs
    /\ \A e \in End : e \in IDs /\ Peer(e) \in IDs /\ (TypeOK => ISN(e) \in ISNs)
BY Peers DEF NoCookie, Cookies, HsTypes, ReqTypes, Zero, IDs, ISN, ISNs, TypeOK

\* In the initial state.
LEMMA InitCall == Init => TypeOK /\ CallInv /\ QueueInv
<1> SUFFICES ASSUME Init PROVE TypeOK /\ CallInv /\ QueueInv
  OBVIOUS
<1>1. TypeOK
  BY HandshakeAssumption, FS_EmptySet DEF Init, TypeOK, Kinds, CallAt, WorkerAt, Statuses,
     Results, Requests, ReqTypes, Cookies, NoCookie
<1>2. CallInv
  BY DEF Init, CallInv, CallOK
<1>3. QueueInv
  BY DEF Init, QueueInv, QueueOK
<1> QED
  BY <1>1, <1>2, <1>3

\* What connect(response) keeps has its type.
LEMMA AnsweredTypes ==
    ASSUME TypeOK, NEW e \in End, NEW p \in Contents, Answered(e, p)
    PROVE  req' \in [End -> Requests] /\ res' \in [End -> Handshakes \cup {NoHs}]
<1>1. Parsed(e, p) => p \in Handshakes
  BY DEF Parsed, Contents
<1>2. res' \in [End -> Handshakes \cup {NoHs}]
  BY <1>1 DEF TypeOK, Answered
<1>3. CASE Continues(e, p)
  <2>1. NextRequest(e, p) \in Requests
    BY <1>1, <1>3, Parts DEF NextRequest, Continues, Parsed, Requests, Handshakes, TypeOK
  <2> QED
    BY <1>2, <1>3, <2>1 DEF TypeOK, Answered
<1> QED
  BY <1>2, <1>3 DEF TypeOK, Answered

\* Nor does the removal of an entry change what the queues are.
LEMMA RemovedTypes ==
    ASSUME TypeOK, NEW e \in End, RemoveConnector(e)
    PROVE  entries' \in [End -> Seq(Nat \ {0})] /\ stored' \in [End -> Seq(Contents)]
<1>1. entries[e] # <<>> => Tail(entries[e]) \in Seq(Nat \ {0})
  BY DEF TypeOK
<1> QED
  BY <1>1 DEF TypeOK, RemoveConnector

\* The types are kept by the application's steps.
LEMMA CallTypes ==
    ASSUME TypeOK, CallInv, NEW e \in End,
           Connect(e) \/ SetConnecting(e) \/ TakeResponse(e) \/ GiveUp(e) \/ Close(e)
           \/ CloseManager(e)
    PROVE  TypeOK'
<1>1. CASE Connect(e)
  <2>1. /\ attempt' \in [End -> Nat] /\ attempt'[e] = attempt[e] + 1
        /\ entries' \in [End -> Seq(Nat \ {0})]
    BY <1>1 DEF Connect, TypeOK
  <2>2. req' \in [End -> Requests]
    BY <1>1, Parts, ZenonT(30) DEF Connect, TypeOK, Requests
  <2>3. Request(e, req'[e], <<e, attempt'[e]>>, Zero) \in Packets
    <3>1. <<e, attempt'[e]>> \in ISNs
      BY <2>1 DEF ISNs
    <3>2. req'[e].cookie \in Cookies /\ req'[e].type \in HsTypes
      BY <2>2, Parts DEF Requests
    <3> QED
      BY <3>1, <3>2, Parts, Made DEF Request
  <2>4. net' \subseteq Packets
    BY <1>1, <2>3 DEF Connect, TypeOK, Send
  <2> QED
    BY <1>1, <2>1, <2>2, <2>4 DEF Connect, TypeOK, configVars, flagVars, listenerVars, CallAt, Statuses
<1>2. CASE SetConnecting(e)
  BY <1>2 DEF SetConnecting, TypeOK, configVars, attemptVars, queueVars, hsVars, listenerVars, CallAt, Results
<1>3. CASE TakeResponse(e)
  <2>1. stored[e] # <<>> /\ Head(stored[e]) \in Contents /\ Tail(stored[e]) \in Seq(Contents)
    BY <1>3 DEF TakeResponse, TypeOK
  <2>2. Answered(e, Head(stored[e]))
    BY <1>3 DEF TakeResponse
  <2>3. req' \in [End -> Requests] /\ res' \in [End -> Handshakes \cup {NoHs}]
    BY <2>1, <2>2, AnsweredTypes
  <2>4. /\ entries' \in [End -> Seq(Nat \ {0})] /\ stored' \in [End -> Seq(Contents)]
        /\ connecting' \subseteq End /\ connected' \subseteq End
    BY <1>3, <2>1, RemovedTypes, ZenonT(30) DEF TakeResponse, TypeOK
  <2>5. /\ app' \in [End -> CallAt] /\ status' \in [End -> Statuses] /\ result' \in [End -> Results]
    <3>1. \A r : Outcome(e, r) \in {"ok", "rejected", "insecure"}
      BY DEF Outcome
    <3>2. CASE Continues(e, Head(stored[e]))
      BY <1>3, <3>2 DEF TakeResponse, TypeOK
    <3>3. CASE ~Continues(e, Head(stored[e]))
      <4>1. \E o \in {"ok", "rejected", "insecure"}, new \in Statuses :
               /\ Return(e, o) /\ status' = [status EXCEPT ![e] = new]
        <5>1. Return(e, Outcome(e, res'[e])) /\ Outcome(e, res'[e]) \in {"ok", "rejected", "insecure"}
          BY <1>3, <3>1, <3>3 DEF TakeResponse
        <5>2. \E new \in Statuses : status' = [status EXCEPT ![e] = new]
          BY <1>3, <3>3 DEF TakeResponse, TypeOK, Statuses
        <5> QED
          BY <5>1, <5>2
      <4> QED
        BY <4>1 DEF TypeOK, Return, CallAt, Results
    <3> QED
      BY <3>2, <3>3
  <2> QED
    BY <1>3, <2>3, <2>4, <2>5 DEF TakeResponse, TypeOK, configVars, attemptVars, listenerVars
<1>4. CASE GiveUp(e)
  BY <1>4 DEF GiveUp, Return, TypeOK, configVars, flagVars, attemptVars, queueVars, hsVars, listenerVars, CallAt, Results, Statuses
<1>5. CASE Close(e)
  <2>1. entries' \in [End -> Seq(Nat \ {0})] /\ stored' \in [End -> Seq(Contents)]
    BY <1>5, RemovedTypes DEF Close, queueVars, TypeOK
  <2> QED
    BY <1>5, <2>1 DEF Close, TypeOK, configVars, attemptVars, hsVars, listenerVars, CallAt
<1>6. CASE CloseManager(e)
  BY <1>6 DEF CloseManager, TypeOK, configVars, flagVars, attemptVars, queueVars, hsVars, listenerVars, CallAt, Statuses
<1> QED
  BY <1>1, <1>2, <1>3, <1>4, <1>5, <1>6

\* ... by those of a socket's worker, and by the passing of time.
LEMMA SocketTypes ==
    ASSUME TypeOK, CallInv, NEW e \in End,
           SetConnected(e) \/ ConnectComplete(e) \/ ExpireConnector(e) \/ Repeat(e)
           \/ SendData(e) \/ PassTTL(e)
    PROVE  TypeOK'
<1> USE DEF configVars, flagVars, attemptVars, queueVars, hsVars, listenerVars
<1>1. CASE SetConnected(e)
  BY <1>1 DEF SetConnected, TypeOK, WorkerAt
<1>2. CASE ConnectComplete(e)
  BY <1>2 DEF ConnectComplete, TypeOK, WorkerAt, Statuses
<1>3. CASE ExpireConnector(e)
  BY <1>3 DEF ExpireConnector, TypeOK
<1>4. CASE Repeat(e)
  <2>1. /\ RepeatID(e) \in IDs /\ req[e].type \in HsTypes /\ req[e].cookie \in Cookies
    BY Parts DEF RepeatID, TypeOK, Requests, Handshakes
  <2>2. Request(e, req[e], ISN(e), RepeatID(e)) \in Packets
    BY <2>1, Parts, Made DEF Request
  <2>3. net' \subseteq Packets
    BY <1>4, <2>2 DEF Repeat, TypeOK, Send
  <2> QED
    BY <1>4, <2>3 DEF Repeat, TypeOK
<1>5. CASE SendData(e)
  <2>1. res[e].id \in IDs
    BY <1>5 DEF SendData, CallInv, CallOK, TypeOK, Handshakes, IDs
  <2>2. Packet(Peer(e), res[e].id, Data) \in Packets
    BY <2>1, Peers DEF Packet, Packets, Contents, IDs
  <2>3. net' \subseteq Packets
    BY <1>5, <2>2 DEF SendData, TypeOK, Send
  <2> QED
    BY <1>5, <2>3 DEF SendData, TypeOK
<1>6. CASE PassTTL(e)
  BY <1>6 DEF PassTTL, TypeOK
<1> QED
  BY <1>1, <1>2, <1>3, <1>4, <1>5, <1>6

\* ... by the arrival of a packet.
LEMMA PacketTypes ==
    ASSUME TypeOK, CallInv, NEW e \in End, NEW m \in net,
           Store(e, m) \/ WorkerConnect(e, m) \/ AnswerConnected(e, m) \/ GiveCookie(e, m)
           \/ AcceptRequest(e, m)
    PROVE  TypeOK'
<1> USE DEF configVars, flagVars, attemptVars, queueVars, hsVars, listenerVars
<1>0. /\ m.to \in IDs /\ m.id \in IDs /\ m.hs \in Contents
      /\ m.hs # Data => m.hs \in Handshakes /\ m.hs.id \in IDs
  BY DEF TypeOK, Packets, Contents, Handshakes, IDs
<1>1. CASE Store(e, m)
  <2>1. Append(stored[e], m.hs) \in Seq(Contents)
    BY <1>0 DEF TypeOK
  <2> QED
    BY <1>1, <2>1 DEF Store, TypeOK
<1>2. CASE WorkerConnect(e, m)
  <2>1. req' \in [End -> Requests] /\ res' \in [End -> Handshakes \cup {NoHs}]
    BY <1>0, <1>2, AnsweredTypes DEF WorkerConnect
  <2>2. /\ entries' \in [End -> Seq(Nat \ {0})] /\ stored' \in [End -> Seq(Contents)]
        /\ worker' \in [End -> WorkerAt]
    BY <1>2, RemovedTypes DEF WorkerConnect, TypeOK, WorkerAt
  <2> QED
    BY <1>2, <2>1, <2>2 DEF WorkerConnect, TypeOK
<1>3. CASE AnswerConnected(e, m)
  <2>1. res[e].id \in IDs
    BY <1>3 DEF AnswerConnected, CallInv, CallOK, TypeOK, Handshakes, IDs
  <2>2. \A type \in {-1, -2} : Packet(Peer(e), res[e].id, HS(type, ISN(e), e, NoCookie)) \in Packets
    BY <2>1, Parts, Made
  <2>3. net' \subseteq Packets
    BY <1>3, <2>2 DEF AnswerConnected, TypeOK, Send
  <2> QED
    BY <1>3, <2>3 DEF AnswerConnected, TypeOK
<1>4. CASE GiveCookie(e, m)
  <2>1. m.hs \in Handshakes /\ m.hs.id \in IDs
    BY <1>0, <1>4 DEF GiveCookie, ForListener
  <2>2. [m.hs EXCEPT !.cookie = Cookie(<<minute>>)] \in Handshakes
    <3>1. Cookie(<<minute>>) \in Cookies
      BY DEF Cookie, Cookies, TypeOK
    <3> QED
      BY <2>1, <3>1 DEF Handshakes
  <2>3. Packet(Peer(e), m.hs.id, [m.hs EXCEPT !.cookie = Cookie(<<minute>>)]) \in Packets
    BY <2>1, <2>2, Peers DEF Packet, Packets, Contents, IDs
  <2>4. net' \subseteq Packets
    BY <1>4, <2>3 DEF GiveCookie, Reply, TypeOK, Send
  <2> QED
    BY <1>4, <2>4 DEF GiveCookie, TypeOK
<1>5. CASE AcceptRequest(e, m)
  <2>1. m.hs \in Handshakes /\ m.hs.id \in IDs /\ m.hs.isn \in ISNs
    BY <1>0, <1>5 DEF AcceptRequest, ForListener, Handshakes
  <2>2. NewID \in Nat
    BY FS_CardinalityType DEF NewID, TypeOK
  <2>3. CASE served' = served \cup {[id |-> NewID, peer |-> m.hs.id, isn |-> m.hs.isn]}
             /\ Reply(e, m, HS(-1, m.hs.isn, NewID, NoCookie))
    <3>1. [id |-> NewID, peer |-> m.hs.id, isn |-> m.hs.isn] \in Sockets
      BY <2>1, <2>2 DEF Sockets
    <3>2. served' \subseteq Sockets
      BY <2>3, <3>1 DEF TypeOK
    <3>5. IsFiniteSet(served')
      <4>1. \A new : IsFiniteSet(served \cup {new})
        BY FS_AddElement DEF TypeOK
      <4> QED
        BY <2>3, <4>1, Zenon
    <3>3. Packet(Peer(e), m.hs.id, HS(-1, m.hs.isn, NewID, NoCookie)) \in Packets
      <4>1. NewID \in IDs
        BY <2>2 DEF IDs
      <4> QED
        BY <2>1, <4>1, Parts, Made
    <3>4. net' \subseteq Packets
      BY <2>3, <3>3 DEF Reply, TypeOK, Send
    <3> QED
      BY <1>5, <3>2, <3>4, <3>5 DEF AcceptRequest, TypeOK
  <2>4. ASSUME NEW s \in served, Reply(e, m, HS(-1, s.isn, s.id, NoCookie)), UNCHANGED served
        PROVE  TypeOK'
    <3>1. Packet(Peer(e), m.hs.id, HS(-1, s.isn, s.id, NoCookie)) \in Packets
      <4>1. s.id \in IDs /\ s.isn \in ISNs
        BY DEF TypeOK, Sockets, IDs
      <4> QED
        BY <2>1, <4>1, Parts, Made
    <3>2. net' \subseteq Packets
      BY <2>4, <3>1 DEF Reply, TypeOK, Send
    <3> QED
      BY <1>5, <2>4, <3>2 DEF AcceptRequest, TypeOK
  <2>5. CASE Reply(e, m, [m.hs EXCEPT !.type = 1002, !.cookie = NoCookie]) /\ UNCHANGED served
    <3>1. [m.hs EXCEPT !.type = 1002, !.cookie = NoCookie] \in Handshakes
      <4> DEFINE hs == m.hs
                 type == 1002
                 cookie == NoCookie
      <4>1. hs \in Handshakes /\ type \in HsTypes /\ cookie \in Cookies
        BY <2>1, Parts
      <4> HIDE DEF hs, type, cookie
      <4>2. [hs EXCEPT !.type = type, !.cookie = cookie] \in Handshakes
        BY <4>1 DEF Handshakes
      <4> QED
        BY <4>2 DEF hs, type, cookie
    <3>2. Packet(Peer(e), m.hs.id, [m.hs EXCEPT !.type = 1002, !.cookie = NoCookie]) \in Packets
      BY <2>1, <3>1, Peers DEF Packet, Packets, Contents, IDs
    <3>3. net' \subseteq Packets
      BY <2>5, <3>2 DEF Reply, TypeOK, Send
    <3> QED
      BY <1>5, <2>5, <3>3 DEF AcceptRequest, TypeOK
  <2> QED
    BY <1>5, <2>3, <2>4, <2>5 DEF AcceptRequest, SocketsFor
<1> QED
  BY <1>1, <1>2, <1>3, <1>4, <1>5

\* A step keeps the types.
LEMMA TypeStep == TypeOK /\ CallInv /\ [Next]_vars => TypeOK'
<1> SUFFICES ASSUME TypeOK, CallInv, [Next]_vars PROVE TypeOK'
  OBVIOUS
<1>1. CASE Accept
  <2>1. ASSUME NEW s \in served, Send(Packet(s.peer, s.peer, Data)) PROVE net' \subseteq Packets
    <3>1. Packet(s.peer, s.peer, Data) \in Packets
      BY DEF TypeOK, Sockets, Packet, Packets, Contents
    <3> QED
      BY <2>1, <3>1 DEF TypeOK, Send
  <2>2. net' \subseteq Packets
    BY <1>1, <2>1 DEF Accept, TypeOK
  <2> QED
    BY <1>1, <2>2 DEF Accept, TypeOK, configVars, flagVars, attemptVars, queueVars, hsVars
<1>2. CASE PassMinute
  BY <1>2 DEF PassMinute, TypeOK, configVars, flagVars, attemptVars, queueVars, hsVars
<1>3. CASE UNCHANGED vars
  BY <1>3 DEF vars, TypeOK, configVars, flagVars, attemptVars, queueVars, hsVars, listenerVars
<1> QED
  BY <1>1, <1>2, <1>3, Steps, CallTypes, SocketTypes, PacketTypes
-----------------------------------------------------------------------------
\* A step that leaves alone what CallInv and QueueInv are about keeps them.
LEMMA CallFrame ==
    ASSUME CallInv, QueueInv,
           UNCHANGED <<configVars, app, worker, status, flagVars, attempt, hsVars, entries>>,
           \A e \in End : expired'[e] = expired[e] \/ expired'[e] # 0
    PROVE  CallInv' /\ QueueInv'
BY DEF CallInv, CallOK, QueueInv, QueueOK, configVars, flagVars, hsVars

\* The tail of a sequence of one element is empty.
LEMMA TailOfOne ==
    ASSUME NEW S, NEW q \in Seq(S), Len(q) = 1
    PROVE  Tail(q) = <<>>
<1>1. Len(<<>>) = 0
  OBVIOUS
<1>2. q # <<>>
  BY <1>1
<1>3. Tail(q) \in Seq(S) /\ Len(Tail(q)) = 0
  BY <1>2, HeadTailProperties
<1> QED
  BY <1>3, EmptySeq

\* Of one entry, nothing is left by removeConnector().
LEMMA Removed ==
    ASSUME TypeOK, NEW e \in End, RemoveConnector(e)
    PROVE  /\ entries' \in [End -> Seq(Nat \ {0})]
           /\ \A x \in End : x # e => entries'[x] = entries[x]
           /\ entries[e] = <<>> \/ Len(entries[e]) = 1 => entries'[e] = <<>>
<1>1. \A q \in Seq(Nat \ {0}) : Len(q) = 1 => Tail(q) = <<>>
  BY TailOfOne
<1>2. entries[e] \in Seq(Nat \ {0})
  BY DEF TypeOK
<1> QED
  BY <1>1, <1>2, RemovedTypes DEF RemoveConnector, TypeOK

\* The application's steps keep CallInv ...
LEMMA CallCall ==
    ASSUME TypeOK, CallInv, NEW e \in End,
           Connect(e) \/ SetConnecting(e) \/ TakeResponse(e) \/ GiveUp(e) \/ Close(e)
           \/ CloseManager(e), NEW x \in End
    PROVE  CallOK(x)'
<1> CallOK(x) /\ CallOK(e)
  BY DEF CallInv
<1> USE DEF configVars, flagVars, attemptVars, queueVars, hsVars, listenerVars
<1>1. CASE Connect(e)
  BY <1>1 DEF Connect, CallOK, TypeOK
<1>2. CASE SetConnecting(e)
  BY <1>2 DEF SetConnecting, CallOK, TypeOK
<1>3. CASE TakeResponse(e)
  <2> DEFINE p == Head(stored[e])
  <2>1. /\ app[e] = "waiting" /\ attempt[e] # 0 /\ sync[e] /\ worker[e] = "idle" /\ e \notin connected
        /\ p \in Contents
    BY <1>3 DEF TakeResponse, CallOK, TypeOK
  <2>2. /\ UNCHANGED <<kind, sync, worker, attempt>>
        /\ app' = [app EXCEPT ![e] = "idle"] \/ UNCHANGED app
        /\ \A y \in End \ {e} : status'[y] = status[y] /\ entries'[y] = entries[y] /\ req'[y] = req[y]
                                /\ res'[y] = res[y]
        /\ status'[e] = status[e] \/ status'[e] # "CLOSED"
        /\ connecting' \subseteq connecting /\ connecting \ {e} \subseteq connecting'
        /\ connected \subseteq connected' /\ connected' \subseteq connected \cup {e}
    BY <1>3, SMTT(30) DEF TakeResponse, Return, Answered, RemoveConnector, TypeOK
  <2>3. e \in connected' => e \notin connecting' /\ res'[e] # NoHs /\ app'[e] = "idle"
    <3>1. CASE Completes(e, p)
      BY <1>3, <2>1, <3>1, PacketAssumption
         DEF TakeResponse, Return, Answered, Completes, Continues, Parsed, TypeOK, Contents
    <3> QED
      BY <1>3, <2>1, <3>1 DEF TakeResponse
  <2> HIDE DEF p
  <2> QED
    BY <2>1, <2>2, <2>3 DEF CallOK, TypeOK
<1>4. CASE GiveUp(e)
  BY <1>4 DEF GiveUp, Return, CallOK, TypeOK
<1>5. CASE Close(e)
  <2>1. \A y \in End \ {e} : entries'[y] = entries[y]
    BY <1>5 DEF Close, RemoveConnector, TypeOK
  <2> QED
    BY <1>5, <2>1 DEF Close, CallOK, TypeOK
<1>6. CASE CloseManager(e)
  BY <1>6 DEF CloseManager, CallOK, TypeOK
<1> QED
  BY <1>1, <1>2, <1>3, <1>4, <1>5, <1>6

\* ... and so do those of its worker.
LEMMA CallWorker ==
    ASSUME TypeOK, CallInv, NEW e \in End,
           \/ SetConnected(e) \/ ConnectComplete(e) \/ ExpireConnector(e)
           \/ \E m \in net : WorkerConnect(e, m),
           NEW x \in End
    PROVE  CallOK(x)'
<1> CallOK(x) /\ CallOK(e)
  BY DEF CallInv
<1> USE DEF configVars, flagVars, attemptVars, queueVars, hsVars, listenerVars
<1>1. CASE SetConnected(e)
  BY <1>1 DEF SetConnected, CallOK, TypeOK
<1>2. CASE ConnectComplete(e)
  BY <1>2 DEF ConnectComplete, CallOK, TypeOK
<1>3. CASE ExpireConnector(e)
  BY <1>3 DEF ExpireConnector, CallOK, TypeOK
<1>4. ASSUME NEW m \in net, WorkerConnect(e, m)
      PROVE  CallOK(x)'
  <2>1. m.hs \in Contents /\ entries[e] # <<>> /\ worker[e] = "idle" /\ ~sync[e] /\ attempt[e] # 0
    BY <1>4 DEF WorkerConnect, ForConnector, TypeOK, Packets, CallOK
  <2>2. \A y \in End \ {e} : entries'[y] = entries[y] /\ req'[y] = req[y]
                             /\ res'[y] = res[y] /\ worker'[y] = worker[y]
    BY <1>4 DEF WorkerConnect, Answered, RemoveConnector, TypeOK
  <2>3. e \notin connected \/ res'[e] = res[e]
    BY <1>4 DEF WorkerConnect, Answered, Parsed, CallOK
  <2>4. worker'[e] \in {"idle", "post"} /\ (worker'[e] = "post" => e \in connecting /\ res'[e] # NoHs)
    BY <1>4, <2>1, PacketAssumption
       DEF WorkerConnect, Answered, Completes, Parsed, TypeOK, Contents
  <2> QED
    <3>1. UNCHANGED <<kind, sync, app, status, connecting, connected, attempt>>
      BY <1>4 DEF WorkerConnect
    <3>2. CASE x = e
      BY <2>1, <2>3, <2>4, <3>1, <3>2 DEF CallOK
    <3> QED
      BY <2>2, <3>1, <3>2 DEF CallOK
<1> QED
  BY <1>1, <1>2, <1>3, <1>4

\* Both keep QueueInv.
LEMMA QueueSteps ==
    ASSUME TypeOK, CallInv, QueueInv, NEW e \in End,
           \/ Connect(e) \/ SetConnecting(e) \/ TakeResponse(e) \/ GiveUp(e) \/ Close(e)
           \/ CloseManager(e) \/ SetConnected(e) \/ ConnectComplete(e) \/ ExpireConnector(e)
           \/ \E m \in net : WorkerConnect(e, m),
           NEW x \in End
    PROVE  QueueOK(x)'
<1> QueueOK(x) /\ QueueOK(e) /\ CallOK(e)
  BY DEF CallInv, QueueInv
<1> USE DEF configVars, flagVars, attemptVars, queueVars, hsVars, listenerVars
<1>1. CASE Connect(e)
  <2>1. expired[e] = 0 => entries'[e] = Append(<<>>, attempt[e] + 1)
    BY <1>1 DEF Connect, QueueOK, TypeOK
  <2>2. expired[e] = 0 => Len(entries'[e]) = 1
    <3>1. \A n : Len(Append(<<>>, n)) = 1
      OBVIOUS
    <3> QED
      BY <2>1, <3>1
  <2> QED
    BY <1>1, <2>2 DEF Connect, CallOK, QueueOK, TypeOK
<1>2. CASE SetConnecting(e)
  BY <1>2 DEF SetConnecting, CallOK, QueueOK, TypeOK
<1>3. CASE TakeResponse(e)
  <2> DEFINE p == Head(stored[e])
  <2>1. /\ app[e] = "waiting" /\ worker[e] = "idle"
        /\ UNCHANGED <<worker, expired>>
        /\ app' = [app EXCEPT ![e] = "idle"] \/ UNCHANGED app
    BY <1>3 DEF TakeResponse, Return, CallOK
  <2>2. CASE Completes(e, p)
    <3>1. RemoveConnector(e) /\ connecting' = connecting \ {e}
      BY <1>3, <2>2 DEF TakeResponse
    <3> QED
      BY <2>1, <3>1, Removed DEF QueueOK, TypeOK
  <2>3. CASE ~Completes(e, p)
    <3>1. UNCHANGED <<entries, connecting>>
      BY <1>3, <2>3 DEF TakeResponse
    <3> QED
      BY <2>1, <3>1 DEF QueueOK, TypeOK
  <2> QED
    BY <2>2, <2>3
<1>4. CASE GiveUp(e)
  BY <1>4 DEF GiveUp, Return, QueueOK, TypeOK
<1>5. CASE Close(e)
  <2>1. CASE e \in connecting
    <3>1. RemoveConnector(e)
      BY <1>5, <2>1 DEF Close
    <3> QED
      BY <1>5, <3>1, Removed DEF Close, QueueOK, TypeOK
  <2>2. CASE e \notin connecting
    BY <1>5, <2>2 DEF Close, QueueOK, TypeOK
  <2> QED
    BY <2>1, <2>2
<1>6. CASE CloseManager(e)
  BY <1>6 DEF CloseManager, QueueOK, TypeOK
<1>7. CASE SetConnected(e)
  BY <1>7 DEF SetConnected, CallOK, QueueOK, TypeOK
<1>8. CASE ConnectComplete(e)
  BY <1>8 DEF ConnectComplete, QueueOK, TypeOK
<1>9. CASE ExpireConnector(e)
  BY <1>9 DEF ExpireConnector, CallOK, QueueOK, TypeOK
<1>10. ASSUME NEW m \in net, WorkerConnect(e, m)
       PROVE  QueueOK(x)'
  <2>1. CASE Completes(e, m.hs)
    <3>1. RemoveConnector(e) /\ worker' = [worker EXCEPT ![e] = "post"]
      BY <1>10, <2>1 DEF WorkerConnect
    <3> QED
      BY <1>10, <3>1, Removed DEF WorkerConnect, QueueOK, TypeOK
  <2>2. CASE ~Completes(e, m.hs)
    BY <1>10, <2>2 DEF WorkerConnect, QueueOK, TypeOK
  <2> QED
    BY <2>1, <2>2
<1> QED
  BY <1>1, <1>2, <1>3, <1>4, <1>5, <1>6, <1>7, <1>8, <1>9, <1>10

\* A step keeps CallInv and QueueInv.
LEMMA CallStep == TypeOK /\ CallInv /\ QueueInv /\ [Next]_vars => CallInv' /\ QueueInv'
<1> SUFFICES ASSUME TypeOK, CallInv, QueueInv, [Next]_vars PROVE CallInv' /\ QueueInv'
  OBVIOUS
<1>1. ASSUME NEW e \in End,
             Connect(e) \/ SetConnecting(e) \/ TakeResponse(e) \/ GiveUp(e) \/ Close(e)
             \/ CloseManager(e)
      PROVE  CallInv' /\ QueueInv'
  BY <1>1, CallCall, QueueSteps DEF CallInv, QueueInv
<1>2. ASSUME NEW e \in End,
             \/ SetConnected(e) \/ ConnectComplete(e) \/ ExpireConnector(e)
             \/ \E m \in net : WorkerConnect(e, m)
      PROVE  CallInv' /\ QueueInv'
  BY <1>2, CallWorker, QueueSteps DEF CallInv, QueueInv
<1> USE DEF configVars, flagVars, attemptVars, queueVars, hsVars, listenerVars
<1>3. ASSUME NEW e \in End,
             \/ Repeat(e) \/ SendData(e)
             \/ \E m \in net : Store(e, m) \/ AnswerConnected(e, m) \/ GiveCookie(e, m)
                               \/ AcceptRequest(e, m)
      PROVE  CallInv' /\ QueueInv'
  <2>1. UNCHANGED <<configVars, app, worker, status, flagVars, attemptVars, hsVars, entries>>
    BY <1>3, ZenonT(30) DEF Repeat, SendData, Store, AnswerConnected, GiveCookie, AcceptRequest
  <2> QED
    BY <2>1, CallFrame
<1>4. ASSUME NEW e \in End, PassTTL(e)
      PROVE  CallInv' /\ QueueInv'
  <2>1. UNCHANGED <<configVars, app, worker, status, flagVars, attempt, hsVars, entries>>
    BY <1>4 DEF PassTTL
  <2>2. \A y \in End : expired'[y] = expired[y] \/ expired'[y] # 0
    BY <1>4 DEF PassTTL, TypeOK
  <2> QED
    BY <2>1, <2>2, CallFrame
<1>5. CASE Accept \/ PassMinute \/ UNCHANGED vars
  <2>1. UNCHANGED <<configVars, app, worker, status, flagVars, attemptVars, hsVars, entries>>
    BY <1>5 DEF Accept, PassMinute, vars
  <2> QED
    BY <2>1, CallFrame
<1> QED
  BY <1>1, <1>2, <1>3, <1>4, <1>5, Steps

SocketInv == TypeOK /\ CallInv /\ QueueInv

\* The invariant of one socket's calls, and of the rendezvous queue, holds for ever.
LEMMA SocketCorrect == Spec => []SocketInv
<1>1. Init => SocketInv
  BY InitCall DEF SocketInv
<1>2. SocketInv /\ [Next]_vars => SocketInv'
  BY TypeStep, CallStep DEF SocketInv
<1> QED
  BY <1>1, <1>2, PTL DEF Spec

\* A closed socket is on the rendezvous queue only if one of its attempts has
\* run out of time: connect() that ends before, and close(), take the entry off.
THEOREM NoDanglingConnectorCorrect == Spec => []NoDanglingConnector
<1>1. SocketInv => NoDanglingConnector
  BY DEF SocketInv, TypeOK, CallInv, CallOK, QueueInv, QueueOK, NoDanglingConnector
<1> QED
  BY <1>1, SocketCorrect, PTL
-----------------------------------------------------------------------------
\* Nothing a client has been told stops being true, and no request is undone.
LEMMA Grows ==
    ASSUME SocketInv, [Next]_vars
    PROVE  /\ UNCHANGED configVars /\ served \subseteq served'
           /\ \A e \in End : attempt[e] \in Nat /\ attempt'[e] \in Nat /\ attempt[e] <= attempt'[e]
<1> USE DEF configVars, flagVars, attemptVars, queueVars, hsVars, listenerVars
<1>0. attempt \in [End -> Nat]
  BY DEF SocketInv, TypeOK
<1>1. ASSUME NEW e \in End, Connect(e)
      PROVE  UNCHANGED <<configVars, served>> /\ attempt' = [attempt EXCEPT ![e] = @ + 1]
  BY <1>1 DEF Connect
<1>2. ASSUME NEW e \in End, NEW m \in net, AcceptRequest(e, m)
      PROVE  UNCHANGED <<configVars, attempt>> /\ served \subseteq served'
  BY <1>2 DEF AcceptRequest
<1>3. CASE UNCHANGED <<configVars, attempt, served>>
  BY <1>0, <1>3
<1>4. ASSUME NEW e \in End,
             \/ SetConnecting(e) \/ TakeResponse(e) \/ GiveUp(e) \/ Close(e) \/ CloseManager(e)
             \/ SetConnected(e) \/ ConnectComplete(e) \/ ExpireConnector(e) \/ Repeat(e)
             \/ SendData(e) \/ PassTTL(e)
      PROVE  UNCHANGED <<configVars, attempt, served>>
  BY <1>4 DEF SetConnecting, TakeResponse, GiveUp, Close, CloseManager, SetConnected,
     ConnectComplete, ExpireConnector, Repeat, SendData, PassTTL
<1>5. ASSUME NEW e \in End, NEW m \in net,
             Store(e, m) \/ WorkerConnect(e, m) \/ AnswerConnected(e, m) \/ GiveCookie(e, m)
      PROVE  UNCHANGED <<configVars, attempt, served>>
  BY <1>5 DEF Store, WorkerConnect, AnswerConnected, GiveCookie
<1>6. CASE Accept \/ PassMinute \/ UNCHANGED vars
  BY <1>3, <1>6 DEF Accept, PassMinute, vars
<1>7. ASSUME NEW e \in End, UNCHANGED <<configVars, served>>, attempt' = [attempt EXCEPT ![e] = @ + 1]
      PROVE  \A x \in End : attempt[x] \in Nat /\ attempt'[x] \in Nat /\ attempt[x] <= attempt'[x]
  BY <1>0, <1>7
<1> QED
  BY <1>0, <1>1, <1>2, <1>3, <1>4, <1>5, <1>6, <1>7, Steps

\* So what is asked, told and kept of packets stays in order.
LEMMA Remains ==
    ASSUME SocketInv, [Next]_vars, NEW e \in End
    PROVE  /\ Calls(e)' = Calls(e)
           /\ \A id, isn : Asked(e, id, isn) => Asked(e, id, isn)'
           /\ \A hs : (SocketFor(e, hs) => SocketFor(e, hs)') /\ (Told(e, hs) => Told(e, hs)')
           /\ \A m : PacketOK(e, m) => PacketOK(e, m)'
<1>1. Calls(e)' = Calls(e)
  BY Grows DEF Calls, configVars
<1>2. \A id, isn : Asked(e, id, isn) => Asked(e, id, isn)'
  BY Grows DEF Asked
<1>3. \A hs : SocketFor(e, hs) => SocketFor(e, hs)'
  BY Grows DEF SocketFor
<1>4. \A hs : Told(e, hs) => Told(e, hs)'
  BY <1>3 DEF Told
<1> QED
  BY <1>1, <1>2, <1>3, <1>4 DEF PacketOK

\* Where a client calls a listener, the other host is the listener.
LEMMA Caller ==
    ASSUME CallInv, NEW e \in End, Calls(e), NEW x \in End
    PROVE  /\ kind[x] # "listener" => x = e
           /\ kind[x] = "listener" => x = Peer(e) /\ Peer(x) = e
           /\ attempt[x] # 0 \/ x \in connected \/ entries[x] # <<>> \/ app[x] # "idle" => x = e
           /\ ~Rendezvous(x)
BY Peers DEF Calls, CallInv, CallOK, Rendezvous

\* Sockets are made by AcceptRequest only.
LEMMA ServedSame ==
    ASSUME [Next]_vars
    PROVE  (\E x \in End : \E m \in net : AcceptRequest(x, m)) \/ UNCHANGED served
BY Steps, ZenonT(30) DEF Connect, SetConnecting, TakeResponse, GiveUp, Close, CloseManager, SetConnected,
   ConnectComplete, ExpireConnector, Repeat, SendData, PassTTL, Store, WorkerConnect,
   AnswerConnected, GiveCookie, Accept, PassMinute, vars, listenerVars

\* Sockets are made for requests of the client.
LEMMA ServedStep ==
    ASSUME SocketInv, ClientInv, [Next]_vars, NEW e \in End
    PROVE  ServedOK(e)'
<1> USE DEF configVars, flagVars, attemptVars, queueVars, hsVars, listenerVars
<1> SUFFICES ASSUME Calls(e) PROVE \A s \in served' : Asked(e, s.peer, s.isn)'
  BY Remains DEF ServedOK
<1>0. ServedOK(e) /\ NetOK(e)
  BY DEF ClientInv, ClientOK
<1>1. CASE UNCHANGED served
  BY <1>0, <1>1, Remains DEF ServedOK
<1>2. ASSUME NEW x \in End, NEW m \in net, AcceptRequest(x, m)
      PROVE  \A s \in served' : Asked(e, s.peer, s.isn)'
  <2>1. x = Peer(e) /\ m.to = x /\ m.hs # Data
    BY <1>2, Caller DEF AcceptRequest, ForListener, SocketInv
  <2>2. Asked(e, m.hs.id, m.hs.isn)
    BY <1>0, <2>1 DEF NetOK, PacketOK
  <2>3. \A s \in served' : s \in served \/ (s.peer = m.hs.id /\ s.isn = m.hs.isn)
    BY <1>2 DEF AcceptRequest
  <2> QED
    BY <1>0, <2>2, <2>3, Remains DEF ServedOK
<1> QED
  BY <1>1, <1>2, ServedSame

\* Packets are sent by the client, as requests, and by the listener, as answers.
LEMMA NetStep ==
    ASSUME SocketInv, ClientInv, [Next]_vars, NEW e \in End
    PROVE  NetOK(e)'
<1> USE DEF configVars, flagVars, attemptVars, queueVars, hsVars, listenerVars
<1> SUFFICES ASSUME Calls(e) PROVE \A m \in net' : PacketOK(e, m)'
  BY Remains DEF NetOK
<1>0. /\ ServedOK(e) /\ NetOK(e) /\ Calls(e)' /\ Peer(e) \in End /\ Peer(e) # e
      /\ TypeOK /\ CallInv /\ attempt \in [End -> Nat]
  BY Remains, Peers DEF ClientInv, ClientOK, SocketInv, TypeOK
<1>1. ASSUME NEW p, Send(p), PacketOK(e, p)' PROVE \A m \in net' : PacketOK(e, m)'
  BY <1>0, <1>1, Remains DEF Send, NetOK
<1>2. CASE UNCHANGED net
  BY <1>0, <1>2, Remains DEF NetOK
<1>3. ASSUME NEW id, NEW hs, Send(Packet(e, id, hs)), Told(e, hs)' PROVE \A m \in net' : PacketOK(e, m)'
  <2>1. PacketOK(e, Packet(e, id, hs))'
    BY <1>0, <1>3 DEF Packet, PacketOK
  <2> QED
    BY <1>1, <1>3, <2>1
<1>4. ASSUME NEW id, NEW hs, Send(Packet(Peer(e), id, hs)), hs.id = e, hs.isn = <<e, attempt'[e]>>,
              attempt'[e] # 0
       PROVE  \A m \in net' : PacketOK(e, m)'
  <2>1. attempt'[e] \in 1 .. attempt'[e]
    BY <1>4, Grows
  <2>2. PacketOK(e, Packet(Peer(e), id, hs))'
    BY <1>0, <1>4, <2>1 DEF Packet, PacketOK, Asked
  <2> QED
    BY <1>1, <1>4, <2>2
<1>5. ASSUME NEW x \in End, Connect(x) PROVE \A m \in net' : PacketOK(e, m)'
  <2>1. x = e
    BY <1>0, <1>5, Caller DEF Connect
  <2>2. attempt'[e] # 0 /\ Send(Request(e, req'[e], <<e, attempt'[e]>>, Zero))
    BY <1>0, <1>5, <2>1 DEF Connect
  <2> QED
    BY <1>4, <2>2 DEF Request, HS
<1>6. ASSUME NEW x \in End, Repeat(x) PROVE \A m \in net' : PacketOK(e, m)'
  <2>1. x = e
    BY <1>0, <1>6, Caller DEF Repeat
  <2>2. attempt'[e] # 0 /\ Send(Request(e, req[e], <<e, attempt'[e]>>, RepeatID(e)))
    BY <1>0, <1>6, <2>1 DEF Repeat, CallInv, CallOK, ISN
  <2> QED
    BY <1>4, <2>2 DEF Request, HS
<1>7. ASSUME NEW x \in End, NEW m \in net, AnswerConnected(x, m) PROVE \A n \in net' : PacketOK(e, n)'
  <2>1. x = e /\ ~Rendezvous(e)
    BY <1>0, <1>7, Caller DEF AnswerConnected
  <2>2. attempt'[e] # 0 /\ Send(Packet(Peer(e), res[e].id, HS(-1, <<e, attempt'[e]>>, e, NoCookie)))
    BY <1>0, <1>7, <2>1 DEF AnswerConnected, CallInv, CallOK, ISN
  <2> QED
    BY <1>4, <2>2 DEF HS
<1>8. ASSUME NEW x \in End, NEW m \in net, GiveCookie(x, m) PROVE \A n \in net' : PacketOK(e, n)'
  <2>1. x = Peer(e) /\ Peer(x) = e /\ m.hs.type = 1
    BY <1>0, <1>8, Caller DEF GiveCookie, ForListener
  <2>2. m.hs \in Handshakes
    BY <1>0, <1>8 DEF GiveCookie, ForListener, TypeOK, Packets, Contents
  <2>3. PICK hs : hs = [m.hs EXCEPT !.cookie = Cookie(<<minute>>)]
    OBVIOUS
  <2>4. hs.type = 1
    BY <2>1, <2>2, <2>3 DEF Handshakes
  <2>5. Told(e, hs)'
    BY <2>4 DEF Told
  <2> QED
    BY <1>8, <1>3, <2>1, <2>3, <2>5 DEF GiveCookie, Reply
<1>9. ASSUME NEW x \in End, NEW m \in net, AcceptRequest(x, m) PROVE \A n \in net' : PacketOK(e, n)'
  <2>1. x = Peer(e) /\ Peer(x) = e /\ m.to = Peer(e) /\ m.hs # Data
    BY <1>0, <1>9, Caller DEF AcceptRequest, ForListener
  <2>2. m.hs \in Handshakes /\ m.hs.id = e
    BY <1>0, <2>1 DEF TypeOK, Packets, Contents, NetOK, PacketOK, Asked
  <2>3. ASSUME NEW s \in served', s.peer = e, NEW hs, hs = HS(-1, s.isn, s.id, NoCookie), Reply(x, m, hs)
        PROVE  \A n \in net' : PacketOK(e, n)'
    <3>1. Told(e, hs)'
      BY <2>3 DEF Told, SocketFor, HS
    <3> QED
      BY <1>3, <2>1, <2>3, <3>1 DEF Reply
  <2>4. ASSUME NEW s \in SocketsFor(m.hs), Reply(x, m, HS(-1, s.isn, s.id, NoCookie))
        PROVE  \A n \in net' : PacketOK(e, n)'
    <3>1. s \in served' /\ s.peer = e
      BY <2>2, Grows DEF SocketsFor
    <3> QED
      BY <2>3, <2>4, <3>1
  <2>5. CASE /\ served' = served \cup {[id |-> NewID, peer |-> m.hs.id, isn |-> m.hs.isn]}
             /\ Reply(x, m, HS(-1, m.hs.isn, NewID, NoCookie))
    <3>1. PICK s : s = [id |-> NewID, peer |-> m.hs.id, isn |-> m.hs.isn]
      OBVIOUS
    <3>2. s \in served' /\ s.peer = e /\ s.id = NewID /\ s.isn = m.hs.isn
      BY <2>2, <2>5, <3>1
    <3> QED
      BY <2>3, <2>5, <3>2
  <2>6. CASE Reply(x, m, [m.hs EXCEPT !.type = 1002, !.cookie = NoCookie])
    <3>1. PICK hs : hs = [m.hs EXCEPT !.type = 1002, !.cookie = NoCookie]
      OBVIOUS
    <3>2. hs.type = 1002
      BY <2>2, <3>1 DEF Handshakes
    <3>3. Told(e, hs)'
      BY <3>2 DEF Told
    <3> QED
      BY <1>3, <2>1, <2>6, <3>1, <3>3 DEF Reply
  <2> QED
    BY <1>9, <2>4, <2>5, <2>6 DEF AcceptRequest
<1>10. CASE Accept
  <2>1. UNCHANGED net \/ \E s \in served : Send(Packet(s.peer, s.peer, Data))
    BY <1>10 DEF Accept
  <2>2. ASSUME NEW s \in served PROVE PacketOK(e, Packet(s.peer, s.peer, Data))'
    BY DEF Packet, PacketOK, Told
  <2> QED
    BY <1>1, <1>2, <2>1, <2>2
<1>11. ASSUME NEW x \in End PROVE ~SendData(x)
  BY <1>0, Caller DEF SendData
<1> QED
  <2>1. \/ \E x \in End : Connect(x) \/ Repeat(x) \/ SendData(x)
        \/ \E x \in End : \E m \in net : AnswerConnected(x, m) \/ GiveCookie(x, m) \/ AcceptRequest(x, m)
        \/ Accept \/ UNCHANGED net
    BY Steps DEF SetConnecting, TakeResponse, GiveUp, Close, CloseManager, SetConnected,
       ConnectComplete, ExpireConnector, PassTTL, Store, WorkerConnect, PassMinute, vars
  <2> QED
    BY <1>2, <1>5, <1>6, <1>7, <1>8, <1>9, <1>10, <1>11, <2>1

\* What a socket keeps of its packets is what it had, but for Store.
LEMMA StoredKept ==
    ASSUME TypeOK, [Next]_vars, NEW e \in End, NEW i \in DOMAIN stored'[e]
    PROVE  \/ \E j \in DOMAIN stored[e] : stored'[e][i] = stored[e][j]
           \/ \E m \in net : m.to = e /\ stored'[e][i] = m.hs
<1> USE DEF configVars, flagVars, attemptVars, queueVars, hsVars, listenerVars
<1> DEFINE Kept == \E j \in DOMAIN stored[e] : stored'[e][i] = stored[e][j]
<1>0. stored[e] \in Seq(Contents) /\ stored \in [End -> Seq(Contents)]
  BY DEF TypeOK
<1>1. CASE stored'[e] = stored[e]
  BY <1>1
<1>2. CASE stored'[e] = <<>>
  BY <1>2
<1>3. CASE stored[e] # <<>> /\ stored'[e] = Tail(stored[e])
  <2>1. i \in 1 .. Len(Tail(stored[e])) /\ Tail(stored[e])[i] = stored[e][i + 1]
    BY <1>0, <1>3, HeadTailProperties
  <2>2. i + 1 \in DOMAIN stored[e]
    BY <1>0, <1>3, <2>1, HeadTailProperties
  <2> QED
    BY <1>3, <2>1, <2>2
<1>4. ASSUME NEW m \in net, Store(e, m) PROVE Kept \/ (m.to = e /\ stored'[e][i] = m.hs)
  <2>1. m.to = e /\ m.hs \in Contents /\ stored'[e] = Append(stored[e], m.hs)
    BY <1>0, <1>4 DEF Store, ForConnector, TypeOK, Packets
  <2> QED
    BY <1>0, <2>1, AppendProperties
<1>5. ASSUME NEW x \in End, RemoveConnector(x) PROVE Kept
  BY <1>0, <1>1, <1>2, <1>5 DEF RemoveConnector
<1>6. ASSUME NEW x \in End, TakeResponse(x) PROVE Kept
  <2>1. RemoveConnector(x) \/ (stored[x] # <<>> /\ stored' = [stored EXCEPT ![x] = Tail(@)])
    BY <1>6 DEF TakeResponse
  <2> QED
    BY <1>0, <1>1, <1>3, <1>5, <2>1
<1>7. ASSUME NEW x \in End, Close(x) \/ \E m \in net : WorkerConnect(x, m) PROVE Kept
  <2>1. RemoveConnector(x) \/ UNCHANGED stored
    BY <1>7 DEF Close, WorkerConnect
  <2> QED
    BY <1>1, <1>5, <2>1
<1>8. ASSUME NEW x \in End, NEW m \in net, Store(x, m), x # e PROVE Kept
  BY <1>0, <1>1, <1>8 DEF Store
<1> QED
  <2>1. ASSUME NEW x \in End,
               \/ Connect(x) \/ SetConnecting(x) \/ GiveUp(x) \/ CloseManager(x) \/ SetConnected(x)
               \/ ConnectComplete(x) \/ ExpireConnector(x) \/ Repeat(x) \/ SendData(x) \/ PassTTL(x)
        PROVE  UNCHANGED stored
    BY <2>1 DEF Connect, SetConnecting, GiveUp, CloseManager, SetConnected, ConnectComplete,
       ExpireConnector, Repeat, SendData, PassTTL
  <2>2. ASSUME NEW x \in End, NEW m \in net,
               AnswerConnected(x, m) \/ GiveCookie(x, m) \/ AcceptRequest(x, m)
        PROVE  UNCHANGED stored
    BY <2>2 DEF AnswerConnected, GiveCookie, AcceptRequest
  <2>3. CASE Accept \/ PassMinute \/ UNCHANGED vars
    BY <1>1, <2>3 DEF Accept, PassMinute, vars
  <2> QED
    BY <1>1, <1>4, <1>6, <1>7, <1>8, <2>1, <2>2, <2>3, Steps

\* What is stored for a client has been told to it.
LEMMA StoredStep ==
    ASSUME SocketInv, ClientInv, [Next]_vars, NEW e \in End
    PROVE  StoredOK(e)'
<1> SUFFICES ASSUME Calls(e), NEW i \in DOMAIN stored'[e], NEW hs, hs = stored'[e][i]
             PROVE  Told(e, hs)'
  BY Remains DEF StoredOK
<1>1. NetOK(e) /\ StoredOK(e) /\ TypeOK
  BY DEF ClientInv, ClientOK, SocketInv
<1>2. Told(e, hs)
  BY <1>1, StoredKept DEF NetOK, StoredOK, PacketOK
<1> QED
  BY <1>2, Remains

\* What a settled client has of its peer is true.
LEMMA ResStep ==
    ASSUME SocketInv, ClientInv, [Next]_vars, NEW e \in End
    PROVE  ResOK(e)'
<1> USE DEF configVars, flagVars, attemptVars, queueVars, hsVars, listenerVars
<1> DEFINE Good == \E hs : res'[e] = hs /\ SocketFor(e, hs)' /\ hs.isn = <<e, attempt'[e]>>
<1> SUFFICES ASSUME Calls(e), Settled(e)', result'[e] \in {"pending", "ok"}, res'[e].type # 1002
             PROVE  Good
  BY Remains DEF ResOK, ISN
<1>0. /\ NetOK(e) /\ StoredOK(e) /\ ResOK(e) /\ ServedOK(e) /\ CallOK(e) /\ TypeOK
      /\ attempt[e] \in Nat /\ ~Rendezvous(e)
  BY Caller DEF ClientInv, ClientOK, SocketInv, CallInv, TypeOK, Calls, Rendezvous
<1>1. CASE Settled(e) /\ result[e] = result'[e] /\ res'[e] = res[e] /\ attempt'[e] = attempt[e]
  <2>1. PICK hs : hs = res[e]
    OBVIOUS
  <2>2. SocketFor(e, hs) /\ hs.isn = <<e, attempt[e]>>
    BY <1>0, <1>1, <2>1 DEF ResOK, ISN
  <2> QED
    BY <1>1, <2>1, <2>2, Remains
<1>2. ASSUME NEW hs, Told(e, hs), hs # Data, hs.type # 1, res'[e] = hs, hs.isn = <<e, attempt'[e]>>
      PROVE  Good
  BY <1>2, Remains DEF Told
<1>3. ASSUME NEW x \in End, Connect(x) PROVE Good
  <2>1. x # e
    BY <1>0, <1>3 DEF Connect, CallOK, Settled
  <2> QED
    BY <1>0, <1>1, <1>3, <2>1 DEF Connect, TypeOK, Settled
<1>4. ASSUME NEW x \in End, SetConnecting(x) PROVE Good
  <2>1. x # e
    BY <1>0, <1>4 DEF SetConnecting, CallOK, Settled
  <2> QED
    BY <1>0, <1>1, <1>4, <2>1 DEF SetConnecting, TypeOK, Settled
<1>5. ASSUME NEW x \in End, TakeResponse(x) PROVE Good
  <2>1. CASE x = e
    <3>1. e \notin connected /\ worker'[e] = "idle" /\ e \in connected'
      BY <1>0, <1>5, <2>1 DEF TakeResponse, CallOK, Settled
    <3>2. PICK hs : hs = Head(stored[e])
      OBVIOUS
    <3>3. Completes(e, hs) /\ ~Continues(e, hs) /\ stored[e] # <<>>
      BY <1>0, <1>5, <2>1, <3>1, <3>2 DEF TakeResponse, Completes, Continues
    <3>4. /\ result'[e] = Outcome(e, res'[e]) /\ Answered(e, hs)
          /\ attempt'[e] = attempt[e]
      BY <1>0, <1>5, <2>1, <3>2, <3>3 DEF TakeResponse, Return, TypeOK
    <3>5. hs # Data /\ hs.type # 1 /\ res'[e] = hs
      BY <1>0, <3>3, <3>4 DEF Completes, Answered, Parsed, TypeOK
    <3>6. hs.isn = <<e, attempt'[e]>>
      BY <1>0, <3>4, <3>5 DEF Outcome, ISN
    <3>7. Told(e, hs)
      <4>1. stored[e] \in Seq(Contents)
        BY <1>0 DEF TypeOK
      <4>2. 1 \in DOMAIN stored[e] /\ hs = stored[e][1]
        BY <3>2, <3>3, <4>1
      <4> QED
        BY <1>0, <4>2 DEF StoredOK
    <3> QED
      BY <1>2, <3>5, <3>6, <3>7
  <2>2. CASE x # e
    BY <1>0, <1>1, <1>5, <2>2 DEF TakeResponse, Answered, Return, TypeOK, Settled
  <2> QED
    BY <2>1, <2>2
<1>6. ASSUME NEW x \in End, GiveUp(x) PROVE Good
  <2>1. x # e
    BY <1>0, <1>6 DEF GiveUp, CallOK, Settled
  <2> QED
    BY <1>0, <1>1, <1>6, <2>1 DEF GiveUp, Return, TypeOK, Settled
<1>7. ASSUME NEW x \in End, SetConnected(x) PROVE Good
  BY <1>0, <1>1, <1>7 DEF SetConnected, TypeOK, Settled
<1>8. ASSUME NEW x \in End, NEW m \in net, WorkerConnect(x, m) PROVE Good
  <2>1. CASE x = e /\ Completes(e, m.hs)
    <3>1. m.hs # Data /\ m.hs.type # 1 /\ m.to = e /\ Answered(e, m.hs) /\ ~sync[e]
      BY <1>0, <1>8, <2>1 DEF WorkerConnect, ForConnector, Completes
    <3>2. Told(e, m.hs) /\ res'[e] = m.hs /\ attempt'[e] = attempt[e]
      BY <1>0, <1>8, <2>1, <3>1 DEF WorkerConnect, NetOK, PacketOK, Answered, Parsed, Completes, TypeOK
    <3>3. m.hs.type # 1002
      BY <3>2
    <3>4. SocketFor(e, m.hs) /\ m.hs.isn \in {e} \X (1 .. attempt[e])
      BY <1>0, <3>1, <3>2, <3>3 DEF Told, SocketFor, ServedOK, Asked
    <3>5. attempt[e] = 1
      BY <1>0, <3>1, <3>4 DEF CallOK
    <3>6. m.hs.isn = <<e, attempt'[e]>>
      BY <3>2, <3>4, <3>5
    <3> QED
      BY <1>2, <3>1, <3>2, <3>6
  <2>2. CASE x = e /\ ~Completes(e, m.hs)
    <3>1. worker[e] = "idle" /\ worker'[e] = "idle" /\ e \in connected
      BY <1>0, <1>8, <2>2 DEF WorkerConnect, ForConnector, Settled
    <3>2. res'[e] = res[e]
      BY <1>0, <1>8, <2>2, <3>1 DEF WorkerConnect, Answered, Parsed, CallOK
    <3> QED
      BY <1>1, <1>8, <3>1, <3>2 DEF WorkerConnect, Settled
  <2>3. CASE x # e
    BY <1>0, <1>1, <1>8, <2>3 DEF WorkerConnect, Answered, TypeOK, Settled
  <2> QED
    BY <2>1, <2>2, <2>3
<1>9. ASSUME NEW x \in End, ConnectComplete(x) PROVE Good
  BY <1>0, <1>1, <1>9 DEF ConnectComplete, TypeOK, Settled
<1>10. ASSUME NEW x \in End, Close(x) PROVE Good
  BY <1>0, <1>1, <1>10 DEF Close, TypeOK, Settled
<1> QED
  <2>0. CASE UNCHANGED <<connected, worker, result, res, attempt>>
    BY <1>1, <2>0 DEF Settled
  <2>1. ASSUME NEW x \in End,
               CloseManager(x) \/ ExpireConnector(x) \/ Repeat(x) \/ SendData(x) \/ PassTTL(x)
        PROVE  UNCHANGED <<connected, worker, result, res, attempt>>
    BY <2>1 DEF CloseManager, ExpireConnector, Repeat, SendData, PassTTL
  <2>2. ASSUME NEW x \in End, NEW m \in net,
               Store(x, m) \/ AnswerConnected(x, m) \/ GiveCookie(x, m) \/ AcceptRequest(x, m)
        PROVE  UNCHANGED <<connected, worker, result, res, attempt>>
    BY <2>2 DEF Store, AnswerConnected, GiveCookie, AcceptRequest
  <2>3. CASE Accept \/ PassMinute \/ UNCHANGED vars
    BY <2>0, <2>3 DEF Accept, PassMinute, vars
  <2> HIDE DEF Good
  <2> QED
    BY <1>3, <1>4, <1>5, <1>6, <1>7, <1>8, <1>9, <1>10, <2>0, <2>1, <2>2, <2>3, Steps

\* A client that is connected, and was neither refused nor left with an error,
\* sends to the socket that the listener has made for this very attempt.
THEOREM ClientAgreesCorrect == Spec => []ClientAgrees
<1>1. Init => ClientInv
  BY DEF Init, ClientInv, ClientOK, ServedOK, NetOK, StoredOK, ResOK, Settled
<1>2. SocketInv /\ ClientInv /\ [Next]_vars => ClientInv'
  BY ServedStep, NetStep, StoredStep, ResStep DEF ClientInv, ClientOK
<1>3. SocketInv /\ ClientInv => ClientAgrees
  <2> SUFFICES ASSUME SocketInv, ClientInv, NEW e \in connected,
                      kind[e] = "client", kind[Peer(e)] = "listener",
                      result[e] \in {"pending", "ok"}, res[e].type # 1002
               PROVE  \E s \in served : s.peer = e /\ s.id = res[e].id /\ s.isn = ISN(e)
                                        /\ s.isn = res[e].isn
    BY DEF ClientAgrees
  <2>1. e \in End
    BY DEF SocketInv, TypeOK
  <2>2. SocketFor(e, res[e]) /\ res[e].isn = ISN(e)
    BY <2>1 DEF ClientInv, ClientOK, ResOK, Calls, Settled
  <2> QED
    BY <2>2 DEF SocketFor
<1> QED
  BY <1>1, <1>2, <1>3, SocketCorrect, PTL DEF Spec
-----------------------------------------------------------------------------
\* In its first attempt a rendezvous socket asks once, and then only answers.
LEMMA ReqStep ==
    ASSUME SocketInv, MeetInv, [Next]_vars, Meet', NEW e \in End
    PROVE  req'[e].type # 1 /\ (req[e].type = -1 => req'[e].type = -1)
<1> USE DEF configVars, flagVars, attemptVars, queueVars, hsVars, listenerVars
<1>0. /\ TypeOK /\ CallOK(e) /\ Rendezvous(e) /\ attempt'[e] <= 1
      /\ attempt[e] \in Nat /\ req \in [End -> Requests]
      /\ Meet /\ req[e].type # 1
  <2>1. TypeOK /\ CallOK(e) /\ attempt[e] \in Nat /\ req \in [End -> Requests]
    BY DEF SocketInv, CallInv, TypeOK
  <2>2. Meet /\ Rendezvous(e) /\ attempt'[e] <= 1
    BY Grows DEF Meet, Rendezvous, configVars
  <2> QED
    BY <2>1, <2>2 DEF MeetInv, MeetOK
<1>1. CASE UNCHANGED req
  BY <1>0, <1>1
<1>2. ASSUME NEW x \in End, Connect(x) PROVE req'[e].type # 1 /\ (req[e].type = -1 => req'[e].type = -1)
  <2>1. CASE x = e
    <3>1. attempt[e] = 0 /\ req'[e].type = 0
      BY <1>0, <1>2, <2>1 DEF Connect, TypeOK, Requests
    <3> QED
      BY <1>0, <3>1 DEF CallOK
  <2>2. CASE x # e
    BY <1>0, <1>2, <2>2 DEF Connect
  <2> QED
    BY <2>1, <2>2
<1>3. ASSUME NEW x \in End, NEW p, Answered(x, p)
      PROVE  req'[e].type # 1 /\ (req[e].type = -1 => req'[e].type = -1)
  BY <1>0, <1>3 DEF Answered, NextRequest
<1>4. ASSUME NEW x \in End, TakeResponse(x) PROVE \E p : Answered(x, p)
  BY <1>4 DEF TakeResponse
<1>5. ASSUME NEW x \in End, NEW m \in net, WorkerConnect(x, m) PROVE \E p : Answered(x, p)
  BY <1>5 DEF WorkerConnect
<1>6. ASSUME NEW x \in End,
             \/ SetConnecting(x) \/ GiveUp(x) \/ Close(x) \/ CloseManager(x) \/ SetConnected(x)
             \/ ConnectComplete(x) \/ ExpireConnector(x) \/ Repeat(x) \/ SendData(x) \/ PassTTL(x)
      PROVE  UNCHANGED req
  BY <1>6 DEF SetConnecting, GiveUp, Close, CloseManager, SetConnected, ConnectComplete,
     ExpireConnector, Repeat, SendData, PassTTL
<1>7. ASSUME NEW x \in End, NEW m \in net,
             Store(x, m) \/ AnswerConnected(x, m) \/ GiveCookie(x, m) \/ AcceptRequest(x, m)
      PROVE  UNCHANGED req
  BY <1>7 DEF Store, AnswerConnected, GiveCookie, AcceptRequest
<1>8. CASE Accept \/ PassMinute \/ UNCHANGED vars
  BY <1>1, <1>8 DEF Accept, PassMinute, vars
<1> QED
  BY <1>1, <1>2, <1>3, <1>4, <1>5, <1>6, <1>7, <1>8, Steps

\* What came from the peer stays true.
LEMMA MeetRemains ==
    ASSUME SocketInv, MeetInv, [Next]_vars, Meet'
    PROVE  /\ Meet /\ served = {} /\ \A e \in End : MeetOK(e) /\ Rendezvous(e) /\ kind[e] # "listener"
           /\ \A e \in End : attempt'[e] <= 1 /\ attempt[e] <= 1
           /\ BothAsked => BothAsked'
           /\ \A e \in End : \A hs : FromPeer(e, hs) => FromPeer(e, hs)'
<1>1. Meet /\ \A e \in End : attempt'[e] <= 1 /\ attempt[e] <= 1
  BY Grows DEF Meet, Rendezvous, configVars
<1>2. served = {} /\ \A e \in End : MeetOK(e) /\ Rendezvous(e) /\ kind[e] # "listener"
  BY <1>1 DEF Meet, MeetInv, Rendezvous
<1>3. BothAsked => BothAsked'
  BY ReqStep DEF BothAsked
<1>4. \A e \in End : req[Peer(e)].type = -1 => req'[Peer(e)].type = -1
  BY ReqStep, Peers
<1> QED
  BY <1>1, <1>2, <1>3, <1>4 DEF FromPeer

\* Requests and answers say whom they are from, and how far the sender is.
LEMMA MeetNetStep ==
    ASSUME SocketInv, MeetInv, [Next]_vars, Meet', NEW e \in End, NEW m \in net', m.to = e
    PROVE  FromPeer(e, m.hs)'
<1> USE DEF configVars, flagVars, attemptVars, queueVars, hsVars, listenerVars
<1>0. TypeOK /\ CallInv /\ Peer(e) \in End /\ Peer(Peer(e)) = e
  BY Peers DEF SocketInv
<1>1. CASE m \in net
  BY <1>1, MeetRemains DEF MeetOK
<1>2. ASSUME NEW x \in End, NEW id, NEW r \in Requests, m = Request(x, r, <<x, 1>>, id),
             r.type = req'[x].type
      PROVE  FromPeer(e, m.hs)'
  <2>1. /\ m.to = Peer(x) /\ m.hs.type = r.type /\ m.hs.id = x /\ m.hs.isn = <<x, 1>>
        /\ x = Peer(e)
    BY <1>2, Peers DEF Request, Packet, HS
  <2>2. m.hs \in Handshakes
    <3>1. <<x, 1>> \in ISNs /\ r.type \in HsTypes /\ r.cookie \in Cookies
      BY <1>2, Parts DEF ISNs, Requests
    <3> QED
      BY <1>2, <3>1, Parts, Made, ZenonT(30) DEF Request, Packet
  <2>3. r.type \in {0, -1}
    BY <1>2, ReqStep DEF Requests, ReqTypes
  <2> QED
    BY <1>2, <2>1, <2>2, <2>3, PacketAssumption DEF FromPeer
<1>3. ASSUME NEW x \in End, Connect(x), m \notin net PROVE FromPeer(e, m.hs)'
  <2>1. attempt[x] \in Nat /\ attempt'[x] = attempt[x] + 1 /\ attempt'[x] <= 1 /\ attempt'[x] = 1
    BY <1>0, <1>3, MeetRemains, SMTT(30) DEF Connect, TypeOK
  <2>2. m = Request(x, req'[x], <<x, 1>>, Zero)
    BY <1>3, <2>1 DEF Connect, Send
  <2>3. req'[x] \in Requests
    BY <1>0, <1>3, TypeStep DEF TypeOK, SocketInv
  <2> QED
    BY <1>2, <2>2, <2>3
<1>4. ASSUME NEW x \in End, Repeat(x), m \notin net PROVE FromPeer(e, m.hs)'
  <2>1. attempt[x] \in Nat /\ attempt[x] # 0 /\ attempt[x] <= 1
    BY <1>0, <1>4, MeetRemains DEF Repeat, TypeOK, CallInv, CallOK
  <2>2. m = Request(x, req[x], <<x, 1>>, RepeatID(x)) /\ req'[x] = req[x]
    BY <1>4, <2>1 DEF Repeat, Send, ISN
  <2>3. req[x] \in Requests
    BY <1>0 DEF TypeOK
  <2> QED
    BY <1>2, <2>2, <2>3
<1>5. ASSUME NEW x \in End, NEW n \in net, AnswerConnected(x, n), m \notin net PROVE FromPeer(e, m.hs)'
  <2>1. attempt[x] \in Nat /\ attempt[x] # 0 /\ attempt[x] <= 1 /\ x \in connected
    BY <1>0, <1>5, MeetRemains DEF AnswerConnected, TypeOK, CallInv, CallOK
  <2>2. m = Packet(Peer(x), res[x].id, HS(-2, <<x, 1>>, x, NoCookie))
    BY <1>5, <2>1, MeetRemains DEF AnswerConnected, Send, ISN
  <2>3. /\ m.to = Peer(x) /\ m.hs.type = -2 /\ m.hs.id = x /\ m.hs.isn = <<x, 1>>
        /\ x = Peer(e)
    BY <2>2, Peers DEF Packet, HS
  <2>4. m.hs \in Handshakes
    <3>1. <<x, 1>> \in ISNs /\ res[x].id \in IDs
      BY <1>0, <2>1 DEF ISNs, TypeOK, Handshakes, CallInv, CallOK
    <3> QED
      BY <2>2, <3>1, Parts, Made DEF Packet
  <2>5. BothAsked'
    BY <2>1, MeetRemains DEF MeetOK, Settled
  <2> QED
    BY <2>3, <2>4, <2>5, PacketAssumption DEF FromPeer
<1>6. ASSUME NEW x \in End, SendData(x), m \notin net PROVE FromPeer(e, m.hs)'
  <2>1. m.hs = Data
    BY <1>6 DEF SendData, Send, Packet
  <2>2. BothAsked'
    BY <1>6, MeetRemains DEF SendData, MeetOK, Settled
  <2> QED
    BY <2>1, <2>2 DEF FromPeer
<1>7. ASSUME NEW x \in End, NEW n \in net PROVE ~GiveCookie(x, n) /\ ~AcceptRequest(x, n)
  BY MeetRemains DEF GiveCookie, AcceptRequest, ForListener
<1>8. ~Accept
  BY MeetRemains DEF Accept
<1> QED
  <2>1. ASSUME NEW x \in End,
               \/ SetConnecting(x) \/ TakeResponse(x) \/ GiveUp(x) \/ Close(x) \/ CloseManager(x)
               \/ SetConnected(x) \/ ConnectComplete(x) \/ ExpireConnector(x) \/ PassTTL(x)
        PROVE  UNCHANGED net
    BY <2>1 DEF SetConnecting, TakeResponse, GiveUp, Close, CloseManager, SetConnected,
       ConnectComplete, ExpireConnector, PassTTL
  <2>2. ASSUME NEW x \in End, NEW n \in net, Store(x, n) \/ WorkerConnect(x, n)
        PROVE  UNCHANGED net
    BY <2>2 DEF Store, WorkerConnect
  <2>3. CASE PassMinute \/ UNCHANGED vars
    BY <1>1, <2>3 DEF PassMinute, vars
  <2> QED
    BY <1>1, <1>3, <1>4, <1>5, <1>6, <1>7, <1>8, <2>1, <2>2, <2>3, Steps

\* Nor is anything stored that did not come from the peer.
LEMMA MeetStoredStep ==
    ASSUME SocketInv, MeetInv, [Next]_vars, Meet', NEW e \in End, NEW i \in DOMAIN stored'[e],
           NEW hs, hs = stored'[e][i]
    PROVE  FromPeer(e, hs)'
<1>1. FromPeer(e, hs)
  BY StoredKept, MeetRemains DEF MeetOK, SocketInv
<1> QED
  BY <1>1, MeetRemains

\* A packet from the peer completes the connection when both have asked.
LEMMA MeetAnswered ==
    ASSUME SocketInv, MeetInv, [Next]_vars, Meet', NEW e \in End, NEW p, Answered(e, p), FromPeer(e, p)
    PROVE  /\ \A x \in End : res'[x] # NoHs => res'[x].id = Peer(x) /\ res'[x].isn = <<Peer(x), 1>>
           /\ Completes(e, p) => BothAsked'
<1>1. TypeOK /\ req[e].type \in {0, -1} /\ Rendezvous(e) /\ res \in [End -> Handshakes \cup {NoHs}]
  BY MeetRemains DEF SocketInv, TypeOK, Requests, ReqTypes, MeetOK
<1>2. \A x \in End : res'[x] # NoHs => res'[x].id = Peer(x) /\ res'[x].isn = <<Peer(x), 1>>
  BY <1>1, MeetRemains DEF Answered, Parsed, FromPeer, MeetOK
<1>3. Completes(e, p) => BothAsked
  <2>1. CASE p = Data
    BY <2>1 DEF FromPeer
  <2>2. CASE p # Data /\ p.type = -2
    BY <2>2 DEF FromPeer
  <2>3. CASE p # Data /\ p.type = -1 /\ req[e].type = -1
    BY <2>3, Peers DEF FromPeer, BothAsked
  <2> QED
    BY <1>1, <2>1, <2>2, <2>3 DEF Completes, FromPeer
<1> QED
  BY <1>2, <1>3, MeetRemains

\* A settled socket knows its peer, and both have asked.
LEMMA MeetResStep ==
    ASSUME SocketInv, MeetInv, [Next]_vars, Meet', NEW e \in End
    PROVE  /\ res'[e] # NoHs => res'[e].id = Peer(e) /\ res'[e].isn = <<Peer(e), 1>>
           /\ Settled(e)' => BothAsked'
<1> USE DEF configVars, flagVars, attemptVars, queueVars, hsVars, listenerVars
<1> DEFINE Good == /\ res'[e] # NoHs => res'[e].id = Peer(e) /\ res'[e].isn = <<Peer(e), 1>>
                   /\ Settled(e)' => BothAsked'
<1> SUFFICES Good
  OBVIOUS
<1>0. TypeOK /\ CallInv
  BY DEF SocketInv
<1>1. CASE res' = res /\ (Settled(e)' => Settled(e))
  BY <1>1, MeetRemains DEF MeetOK
<1>2. ASSUME NEW x \in End, NEW p, Answered(x, p), FromPeer(x, p),
             Settled(e)' => Settled(e) \/ Completes(x, p)
      PROVE  Good
  BY <1>2, MeetAnswered, MeetRemains DEF MeetOK
<1>3. ASSUME NEW x \in End, TakeResponse(x) PROVE Good
  <2>1. PICK p : p = Head(stored[x]) /\ Answered(x, p)
    BY <1>3 DEF TakeResponse
  <2>2. FromPeer(x, p)
    <3>1. 1 \in DOMAIN stored[x] /\ p = stored[x][1]
      <4>1. stored[x] \in Seq(Contents) /\ stored[x] # <<>>
        BY <1>0, <1>3 DEF TypeOK, TakeResponse
      <4> QED
        BY <2>1, <4>1
    <3> QED
      BY <3>1, MeetRemains DEF MeetOK
  <2>3. Settled(e)' => Settled(e) \/ Completes(x, p)
    BY <1>3, <2>1 DEF TakeResponse, Settled
  <2> QED
    BY <1>2, <2>1, <2>2, <2>3
<1>4. ASSUME NEW x \in End, NEW m \in net, WorkerConnect(x, m) PROVE Good
  <2>1. Answered(x, m.hs) /\ FromPeer(x, m.hs)
    BY <1>4, MeetRemains DEF WorkerConnect, ForConnector, MeetOK
  <2>2. Settled(e)' => Settled(e) \/ Completes(x, m.hs)
    BY <1>4 DEF WorkerConnect, Settled
  <2> QED
    BY <1>2, <2>1, <2>2
<1>5. ASSUME NEW x \in End,
             \/ Connect(x) \/ SetConnecting(x) \/ GiveUp(x) \/ Close(x) \/ CloseManager(x)
             \/ SetConnected(x) \/ ConnectComplete(x) \/ ExpireConnector(x) \/ Repeat(x) \/ SendData(x)
             \/ PassTTL(x)
      PROVE  Good
  <2>1. res' = res
    BY <1>5 DEF Connect, SetConnecting, GiveUp, Close, CloseManager, SetConnected,
       ConnectComplete, ExpireConnector, Repeat, SendData, PassTTL
  <2>2. Settled(e)' => Settled(e)
    BY <1>0, <1>5 DEF Connect, SetConnecting, GiveUp, Close, CloseManager, SetConnected,
       ConnectComplete, ExpireConnector, Repeat, SendData, PassTTL, Settled, TypeOK
  <2> QED
    BY <1>1, <2>1, <2>2
<1>6. ASSUME NEW x \in End, NEW m \in net,
             Store(x, m) \/ AnswerConnected(x, m) \/ GiveCookie(x, m) \/ AcceptRequest(x, m)
      PROVE  UNCHANGED <<res, connected, worker>>
  BY <1>6 DEF Store, AnswerConnected, GiveCookie, AcceptRequest
<1>7. CASE Accept \/ PassMinute \/ UNCHANGED vars
  BY <1>1, <1>7 DEF Accept, PassMinute, vars, Settled
<1>8. CASE UNCHANGED <<res, connected, worker>>
  BY <1>1, <1>8 DEF Settled
<1> HIDE DEF Good
<1> QED
  BY <1>3, <1>4, <1>5, <1>6, <1>7, <1>8, Steps

\* Two rendezvous sockets that are both in their first attempt agree as soon as
\* one of them is connected.
THEOREM RendezvousAgreesCorrect == Spec => []RendezvousAgrees
<1>1. Init => MeetInv
  BY Peers DEF Init, MeetInv, MeetOK, Meet, Settled
<1>2. SocketInv /\ MeetInv /\ [Next]_vars => MeetInv'
  <2> SUFFICES ASSUME SocketInv, MeetInv, [Next]_vars, Meet'
               PROVE  served' = {} /\ \A e \in End : MeetOK(e)'
    BY DEF MeetInv
  <2>1. served' = {}
    <3>1. \A x \in End : \A m \in net : ~AcceptRequest(x, m)
      BY MeetRemains DEF AcceptRequest, ForListener
    <3> QED
      BY <3>1, MeetRemains, ServedSame
  <2>2. ASSUME NEW e \in End PROVE MeetOK(e)'
    BY MeetNetStep, MeetStoredStep, MeetResStep, ReqStep DEF MeetOK
  <2> QED
    BY <2>1, <2>2
<1>3. SocketInv /\ MeetInv => RendezvousAgrees
  <2> SUFFICES ASSUME SocketInv, MeetInv, NEW e \in connected,
                      Rendezvous(e), Rendezvous(Peer(e)), attempt = [x \in End |-> 1]
               PROVE  /\ res[e].id = Peer(e) /\ res[e].isn = ISN(Peer(e))
                      /\ req[e].type = -1 /\ req[Peer(e)].type = -1
    BY DEF RendezvousAgrees
  <2>1. e \in End /\ Peer(e) \in End /\ Meet
    <3>1. e \in End
      BY DEF SocketInv, TypeOK
    <3>2. \A x \in End : attempt[x] <= 1 /\ Rendezvous(x)
      BY <3>1, Peers
    <3> QED
      BY <3>1, <3>2, Peers DEF Meet
  <2>2. MeetOK(e) /\ res[e] # NoHs
    BY <2>1 DEF MeetInv, SocketInv, CallInv, CallOK
  <2> QED
    BY <2>1, <2>2 DEF MeetOK, Settled, BothAsked, ISN
<1> QED
  BY <1>1, <1>2, <1>3, SocketCorrect, PTL DEF Spec

\* Two sockets that get connected agree on the connection (ClientAgrees and
\* RendezvousAgrees), for any number of attempts, minutes and sockets.
THEOREM AgreementCorrect == Spec => []Agreement
BY ClientAgreesCorrect, RendezvousAgreesCorrect, PTL DEF Agreement
=============================================================================
