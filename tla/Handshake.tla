------------------------------- MODULE Handshake -------------------------------
(***************************************************************************)
(* How two UDT sockets get connected: a client and a listening socket,     *)
(* which answers with a cookie before it keeps any state, or two           *)
(* rendezvous sockets that connect to each other in three steps.  The      *)
(* network loses, repeats, delays and reorders packets.                    *)
(*                                                                         *)
(* A connecting socket is known to its receiving queue by the entries it   *)
(* registered.  With m_bSynRecving, connect() waits for the packets the    *)
(* queue's worker thread stores for it; without, it returns at once and    *)
(* the worker itself calls CUDT::connect(response), which takes no lock    *)
(* and so meets close() halfway.  The worker repeats requests and gives an *)
(* attempt up when the time to live of its entry has passed.               *)
(*                                                                         *)
(* What the listener does with a request beyond the reply, and when        *)
(* sockets are deleted, is the subject of module SocketLifecycle.          *)
(***************************************************************************)
EXTENDS Integers, FiniteSets, Sequences

CONSTANTS
    End,            \* the two hosts, each with one connecting or listening socket
    Pairs,          \* the kinds of sockets that may meet
    Bound,          \* bound, for a kind: calls of connect(), and minutes of the
                    \* listener's clock, each with a cookie of its own, together
    Backlog,        \* m_uiBackLog of the listener
    MaxStored,      \* bound of the packets stored for a socket (17 in the code)
    NoHs, Data      \* no handshake yet; any packet that is not a handshake

Kinds == {"client", "listener", "rendezvous"}

ASSUME HandshakeAssumption ==
    /\ IsFiniteSet(End) /\ Cardinality(End) = 2 /\ Pairs \subseteq [End -> Kinds]
    /\ Bound \in [Kinds -> Nat]
    /\ Backlog \in Nat \ {0} /\ MaxStored \in Nat \ {0}

VARIABLES
    kind, sync,     \* m_bRendezvous or m_bListening; m_bSynRecving
    compatible,     \* both sides have the same version and socket type
    app, worker,    \* where the application's and the worker's thread are
    status,         \* CUDTSocket::m_Status
    connecting, connected, closing,   \* sockets with m_bConnecting, ...
    attempt,        \* number of the last connect(): gives m_iISN
    expired,        \* attempts up to this one have outlived their TTL
    entries,        \* the socket's entries in CRendezvousQueue, by attempt
    stored,         \* CRcvQueue::m_mBuffer of the socket
    req, res,       \* m_ConnReq (type and cookie) and m_ConnRes
    result,         \* how the last connect() ended
    terminated,     \* hosts whose process called std::terminate
    net,            \* packets on their way
    minute,         \* the listener's clock
    served, backlog \* sockets of the listener; those not accepted yet

configVars == <<kind, sync, compatible>>
flagVars == <<connecting, connected, closing>>
attemptVars == <<attempt, expired>>
hsVars == <<req, res>>
queueVars == <<entries, stored>>
listenerVars == <<minute, served, backlog>>
vars == <<configVars, app, worker, status, flagVars, attemptVars, queueVars,
          hsVars, result, terminated, net, listenerVars>>

Peer(e) == CHOOSE p \in End : p # e
Rendezvous(e) == kind[e] = "rendezvous"
ISN(e) == <<e, attempt[e]>>
Zero == 0           \* ID 0, the destination of a request

\* CHandShake: the fields the two sides compare.
HS(type, isn, id, cookie) == [type |-> type, isn |-> isn, id |-> id, cookie |-> cookie]
Packet(to, id, hs) == [to |-> to, id |-> id, hs |-> hs]

\* Every handshake there can be: 1 is a first request, 0 one of a rendezvous
\* socket, -1 and -2 are answers, 1002 is the answer that turns a client away.
HsTypes == {0, 1, -1, -2, 1002}
ISNs == End \X Nat
IDs == End \cup Nat
Cookies == Seq(Nat)
Handshakes == [type : HsTypes, isn : ISNs, id : IDs, cookie : Cookies]
ASSUME PacketAssumption ==
    NoHs # Data /\ NoHs \notin Handshakes /\ Data \notin Handshakes

\* A packet is lost, or arrives, once or more and at any time from now on.
Send(p) == net' \in {net, net \cup {p}}

\* A cookie is the digest of a text: the address and the minutes in it.
NoCookie == <<>>
Cookie(minutes) == minutes

Init ==
    /\ kind \in Pairs
    /\ sync \in [End -> BOOLEAN]
    /\ \A e \in End : kind[e] = "listener" => sync[e]
    /\ compatible \in BOOLEAN /\ (~compatible => \E e \in End : kind[e] = "listener")
    /\ app = [e \in End |-> "idle"]
    /\ worker = [e \in End |-> "idle"]
    /\ status = [e \in End |-> "OPENED"]
    /\ connecting = {} /\ connected = {} /\ closing = {}
    /\ attempt = [e \in End |-> 0] /\ expired = [e \in End |-> 0]
    /\ entries = [e \in End |-> <<>>] /\ stored = [e \in End |-> <<>>]
    /\ req = [e \in End |-> [type |-> 0, cookie |-> NoCookie]]
    /\ res = [e \in End |-> NoHs]
    /\ result = [e \in End |-> "none"]
    /\ terminated = {} /\ net = {}
    /\ minute = 1 /\ served = {} /\ backlog = {}
-----------------------------------------------------------------------------
(* The connecting side. *)

\* The request a socket sends, and repeats, with the ID id for its destination.
\* Nobody reads the cookie of a first one.
Request(e, r, isn, id) ==
    Packet(Peer(e), id, HS(r.type, isn, e, IF r.type = 1 THEN NoCookie ELSE r.cookie))

\* A rendezvous socket addresses its peer as soon as it knows the peer's ID.
RepeatID(e) == IF Rendezvous(e) /\ res[e] # NoHs THEN res[e].id ELSE Zero

\* CUDT::connect() up to its first request, which may be answered before the
\* thread has set m_bConnecting.
Connect(e) ==
    /\ kind[e] # "listener" /\ app[e] = "idle" /\ status[e] = "OPENED"
    /\ e \notin connecting /\ e \notin connected
    /\ attempt[e] + minute < Bound[kind[e]]
    /\ attempt' = [attempt EXCEPT ![e] = @ + 1]
    /\ entries' = [entries EXCEPT ![e] = Append(@, attempt[e] + 1)]
    /\ req' = [req EXCEPT ![e].type = IF Rendezvous(e) THEN 0 ELSE 1]
    /\ Send(Request(e, req'[e], <<e, attempt'[e]>>, Zero))
    /\ status' = [status EXCEPT ![e] = "CONNECTING"]
    /\ app' = [app EXCEPT ![e] = "starting"]
    /\ UNCHANGED <<configVars, worker, flagVars, expired, stored, res, result,
                   terminated, listenerVars>>

SetConnecting(e) ==
    /\ app[e] = "starting"
    /\ connecting' = connecting \cup {e}
    /\ app' = [app EXCEPT ![e] = IF sync[e] THEN "waiting" ELSE "idle"]
    /\ result' = [result EXCEPT ![e] = "pending"]
    /\ UNCHANGED <<configVars, worker, status, connected, closing, attemptVars,
                   queueVars, hsVars, terminated, net, listenerVars>>

\* The last request again: from the loop of connect(), or from the worker, for
\* an entry whose TTL has not passed.
Repeat(e) ==
    /\ \/ app[e] = "waiting"
       \/ \E i \in DOMAIN entries[e] : entries[e][i] > expired[e]
    /\ Send(Request(e, req[e], ISN(e), RepeatID(e)))
    /\ UNCHANGED <<configVars, app, worker, status, flagVars, attemptVars,
                   queueVars, hsVars, result, terminated, listenerVars>>

\* CUDT::connect(response): -1 unless the socket is connecting; ...
Parsed(e, p) == e \in connecting /\ p # Data

\* ... 0 when the connection is set up, by a handshake or, in rendezvous, by any
\* packet of a peer that is connected already; ...
Completes(e, p) ==
    /\ e \in connecting
    /\ \/ ~Rendezvous(e) /\ p # Data /\ p.type # 1
       \/ /\ Rendezvous(e) /\ p # Data
          /\ p.type \notin {0, 1} /\ req[e].type # 0
       \/ /\ Rendezvous(e) /\ p = Data
          /\ res[e] # NoHs /\ res[e].type # -2

\* ... 1 when one more handshake is needed.
Continues(e, p) ==
    /\ Parsed(e, p)
    /\ IF Rendezvous(e) THEN p.type # 1 /\ 0 \in {p.type, req[e].type}
                        ELSE p.type = 1

NextRequest(e, p) ==
    [type |-> -1, cookie |-> IF Rendezvous(e) THEN req[e].cookie ELSE p.cookie]

\* What connect(response) keeps of packet p, in either thread.
Answered(e, p) ==
    /\ res' = IF Parsed(e, p) THEN [res EXCEPT ![e] = p] ELSE res
    /\ req' = IF Continues(e, p) THEN [req EXCEPT ![e] = NextRequest(e, p)] ELSE req

\* CRcvQueue::removeConnector(): the first entry of the socket.
RemoveConnector(e) ==
    /\ entries' = [entries EXCEPT ![e] = IF @ = <<>> THEN @ ELSE Tail(@)]
    /\ stored' = [stored EXCEPT ![e] = <<>>]

\* Mutant: no security check.
OutcomeUnchecked(e, r) == IF r # NoHs /\ r.type = 1002 THEN "rejected" ELSE "ok"

\* How connect() ends when connect(response) returned -1 or 0.
Outcome(e, r) ==
    IF r # NoHs /\ r.type = 1002 THEN "rejected"
    ELSE IF ~Rendezvous(e) /\ (r = NoHs \/ r.isn # ISN(e)) THEN "insecure"
    ELSE "ok"

\* connect() returns, or throws and lets the socket try again.
Return(e, outcome) ==
    /\ result' = [result EXCEPT ![e] = outcome]
    /\ app' = [app EXCEPT ![e] = "idle"]

\* The loop of connect() takes the earliest stored packet; every answer of
\* connect(response) but 1 ends it.
TakeResponse(e) ==
    /\ app[e] = "waiting" /\ stored[e] # <<>>
    /\ LET p == Head(stored[e])
           outcome == Outcome(e, res'[e])
       IN  /\ Answered(e, p)
           /\ IF Completes(e, p)
              THEN /\ RemoveConnector(e)
                   /\ connected' = connected \cup {e}
                   /\ connecting' = connecting \ {e}
              ELSE /\ stored' = [stored EXCEPT ![e] = Tail(@)]
                   /\ UNCHANGED <<entries, connected, connecting>>
           /\ IF Continues(e, p)
              THEN UNCHANGED <<app, status, result>>
              ELSE /\ Return(e, outcome)
                   /\ status' = [status EXCEPT ![e] =
                         IF outcome # "ok" THEN "OPENED"
                         ELSE IF Completes(e, p) THEN "CONNECTED" ELSE @]
    /\ UNCHANGED <<configVars, worker, closing, attemptVars, terminated, net,
                   listenerVars>>

\* connect() gives up after the TTL: the entry stays, and m_bConnecting too.
GiveUp(e) ==
    /\ app[e] = "waiting" /\ expired[e] = attempt[e]
    /\ Return(e, "timeout")
    /\ status' = [status EXCEPT ![e] = "OPENED"]
    /\ UNCHANGED <<configVars, worker, flagVars, attemptVars, queueVars, hsVars,
                   terminated, net, listenerVars>>

\* Mutant: a connecting socket is not taken off the rendezvous queue.
CloseKeepingEntry(e) ==
    /\ kind[e] # "listener" /\ app[e] = "idle" /\ e \notin closing
    /\ attempt[e] > 0
    /\ closing' = closing \cup {e}
    /\ connected' = connected \ {e}
    /\ app' = [app EXCEPT ![e] = "closing"]
    /\ UNCHANGED <<configVars, worker, status, connecting, attemptVars, hsVars,
                   result, terminated, net, queueVars, listenerVars>>

\* The application closes the socket: CUDT::close(), then CUDTUnited::close().
Close(e) ==
    /\ kind[e] # "listener" /\ app[e] = "idle" /\ e \notin closing
    /\ attempt[e] > 0
    /\ closing' = closing \cup {e}
    /\ IF e \in connecting THEN RemoveConnector(e) ELSE UNCHANGED queueVars
    /\ connected' = connected \ {e}
    /\ app' = [app EXCEPT ![e] = "closing"]
    /\ UNCHANGED <<configVars, worker, status, connecting, attemptVars, hsVars,
                   result, terminated, net, listenerVars>>

CloseManager(e) ==
    /\ app[e] = "closing"
    /\ status' = [status EXCEPT ![e] = "CLOSED"]
    /\ app' = [app EXCEPT ![e] = "closed"]
    /\ UNCHANGED <<configVars, worker, flagVars, attemptVars, queueVars, hsVars,
                   result, terminated, net, listenerVars>>
-----------------------------------------------------------------------------
(* The worker of a connecting socket's receiving queue. *)

\* A packet for e, as long as its receiving queue does not know e as connected.
ForConnector(e, m) ==
    /\ m \in net /\ m.to = e /\ m.id \in {Zero, e} /\ kind[e] # "listener"
    /\ worker[e] = "idle"
    /\ m.id = Zero \/ e \notin connected
    /\ entries[e] # <<>>

Store(e, m) ==
    /\ ForConnector(e, m) /\ sync[e]
    /\ Len(stored[e]) < MaxStored
    /\ stored' = [stored EXCEPT ![e] = Append(@, m.hs)]
    /\ UNCHANGED <<configVars, app, worker, status, flagVars, attemptVars, entries,
                   hsVars, result, terminated, net, listenerVars>>

\* connect(response) in the worker, up to the removal of the entry.
WorkerConnect(e, m) ==
    /\ ForConnector(e, m) /\ ~sync[e]
    /\ Answered(e, m.hs)
    /\ IF Completes(e, m.hs)
       THEN RemoveConnector(e) /\ worker' = [worker EXCEPT ![e] = "post"]
       ELSE UNCHANGED <<queueVars, worker>>
    /\ UNCHANGED <<configVars, app, status, flagVars, attemptVars, result,
                   terminated, net, listenerVars>>

SetConnected(e) ==
    /\ worker[e] = "post"
    /\ connecting' = connecting \ {e}
    /\ connected' = connected \cup {e}
    /\ worker' = [worker EXCEPT ![e] = "complete"]
    /\ UNCHANGED <<configVars, app, status, closing, attemptVars, queueVars,
                   hsVars, result, terminated, net, listenerVars>>

\* CUDTUnited::connect_complete() throws when the socket is closed, and
\* connect(response), declared throw(), lets nothing through.
ConnectComplete(e) ==
    /\ worker[e] = "complete"
    /\ worker' = [worker EXCEPT ![e] = "idle"]
    /\ IF status[e] = "CLOSED"
       THEN terminated' = terminated \cup {e} /\ UNCHANGED status
       ELSE status' = [status EXCEPT ![e] = "CONNECTED"] /\ UNCHANGED terminated
    /\ UNCHANGED <<configVars, app, flagVars, attemptVars, queueVars, hsVars,
                   result, net, listenerVars>>

\* updateConnStatus(): the TTL of one of the socket's entries has passed.
ExpireConnector(e) ==
    /\ worker[e] = "idle" /\ e \in connecting
    /\ \E i \in DOMAIN entries[e] : entries[e][i] <= expired[e]
    /\ connecting' = connecting \ {e}
    /\ UNCHANGED <<configVars, app, worker, status, connected, closing, attemptVars,
                   queueVars, hsVars, result, terminated, net, listenerVars>>

\* Mutant: a rendezvous socket does not answer either.
StillAskingPositive(e, hs) == hs.type > 0

\* processCtrl(), case 0: the peer of a connected socket still asks.
StillAsking(e, hs) == hs.type > 0 \/ (Rendezvous(e) /\ hs.type # -2)

AnswerConnected(e, m) ==
    /\ m \in net /\ m.to = e /\ m.id = e /\ worker[e] = "idle"
    /\ e \in connected /\ e \notin closing
    /\ m.hs # Data
    /\ StillAsking(e, m.hs)
    /\ LET type == IF Rendezvous(e) THEN -2 ELSE -1
       IN  Send(Packet(Peer(e), res[e].id, HS(type, ISN(e), e, NoCookie)))
    /\ UNCHANGED <<configVars, app, worker, status, flagVars, attemptVars, queueVars,
                   hsVars, result, terminated, listenerVars>>

\* Data, or a keep-alive, of a connected socket.
SendData(e) ==
    /\ Rendezvous(e) /\ e \in connected /\ e \notin closing
    /\ Send(Packet(Peer(e), res[e].id, Data))
    /\ UNCHANGED <<configVars, app, worker, status, flagVars, attemptVars, queueVars,
                   hsVars, result, terminated, listenerVars>>
-----------------------------------------------------------------------------
(* The listener, in its own worker: CUDT::listen(addr, packet). *)

ForListener(l, m) == m \in net /\ m.to = l /\ m.id = Zero /\ m.hs # Data /\ kind[l] = "listener"

Reply(l, m, hs) == Send(Packet(Peer(l), m.hs.id, hs))

\* A first request is answered with a cookie, and nothing is kept.
GiveCookie(l, m) ==
    /\ ForListener(l, m) /\ m.hs.type = 1
    /\ Reply(l, m, [m.hs EXCEPT !.cookie = Cookie(<<minute>>)])
    /\ UNCHANGED <<configVars, app, worker, status, flagVars, attemptVars, queueVars,
                   hsVars, result, terminated, listenerVars>>

\* The text for the cookie of the minute before is appended to the current one.
CookieMatches(c) == c \in {Cookie(<<minute>>), Cookie(<<minute, minute - 1>>)}

\* The socket newConnection() already has for this request.
SocketsFor(hs) == {s \in served : s.peer = hs.id /\ s.isn = hs.isn}

NewID == Cardinality(served) + 1

AcceptRequest(l, m) ==
    /\ ForListener(l, m) /\ m.hs.type # 1
    /\ CookieMatches(m.hs.cookie)
    /\ \/ /\ compatible
          /\ \E s \in SocketsFor(m.hs) :
                Reply(l, m, HS(-1, s.isn, s.id, NoCookie))
          /\ UNCHANGED <<served, backlog>>
       \/ /\ compatible /\ SocketsFor(m.hs) = {} /\ Cardinality(backlog) < Backlog
          /\ served' = served \cup {[id |-> NewID, peer |-> m.hs.id, isn |-> m.hs.isn]}
          /\ backlog' = backlog \cup {NewID}
          /\ Reply(l, m, HS(-1, m.hs.isn, NewID, NoCookie))
       \/ /\ ~compatible \/ (SocketsFor(m.hs) = {} /\ Cardinality(backlog) >= Backlog)
          /\ Reply(l, m, [m.hs EXCEPT !.type = 1002, !.cookie = NoCookie])
          /\ UNCHANGED <<served, backlog>>
    /\ UNCHANGED <<configVars, app, worker, status, flagVars, attemptVars, queueVars,
                   hsVars, result, terminated, minute>>

\* The application of the listener accepts, and may send at once.
Accept ==
    /\ \E i \in backlog, s \in served :
          /\ s.id = i /\ backlog' = backlog \ {i}
          /\ \/ UNCHANGED net
             \/ Send(Packet(s.peer, s.peer, Data))
    /\ UNCHANGED <<configVars, app, worker, status, flagVars, attemptVars, queueVars,
                   hsVars, result, terminated, minute, served>>
-----------------------------------------------------------------------------
(* Time and the network. *)

PassTTL(e) ==
    /\ expired[e] < attempt[e]
    /\ expired' = [expired EXCEPT ![e] = attempt[e]]
    /\ UNCHANGED <<configVars, app, worker, status, flagVars, attempt, queueVars,
                   hsVars, result, terminated, net, listenerVars>>

PassMinute ==
    /\ \E l \in End : /\ kind[l] = "listener"
                      /\ attempt[Peer(l)] + minute < Bound[kind[Peer(l)]]
    /\ minute' = minute + 1
    /\ UNCHANGED <<configVars, app, worker, status, flagVars, attemptVars, queueVars,
                   hsVars, result, terminated, net, served, backlog>>

Application(e) ==
    \/ Connect(e) \/ SetConnecting(e) \/ TakeResponse(e) \/ GiveUp(e)
    \/ Close(e) \/ CloseManager(e)

Worker(e) ==
    \/ SetConnected(e) \/ ConnectComplete(e) \/ ExpireConnector(e)
    \/ \E m \in net : Store(e, m) \/ WorkerConnect(e, m) \/ AnswerConnected(e, m)
                      \/ GiveCookie(e, m) \/ AcceptRequest(e, m)

Next ==
    \/ \E e \in End \ terminated : Application(e) \/ Worker(e) \/ Repeat(e) \/ SendData(e)
    \/ Accept \/ PassMinute
    \/ \E e \in End : PassTTL(e)

Spec == Init /\ [][Next]_vars

\* Threads run, and of the packets sent again and again one arrives; a socket
\* need not connect, be closed or run out of time.
Takes(e, type) ==
    \E m \in net : /\ m.hs # Data /\ m.hs.type = type
                   /\ \/ WorkerConnect(e, m) \/ GiveCookie(e, m)
                      \/ AcceptRequest(e, m) \/ AnswerConnected(e, m)

Fairness ==
    \A e \in End :
        /\ WF_vars(SetConnecting(e)) /\ WF_vars(SetConnected(e) \/ ConnectComplete(e))
        /\ WF_vars(Repeat(e))
        /\ \A type \in {0, 1, -1, -2} : WF_vars(Takes(e, type))

FairSpec == Spec /\ Fairness
-----------------------------------------------------------------------------
(* Properties. *)

\* What a connected client knows of its peer is true: the listener has made a
\* socket for this very attempt, and its ID is the one the client sends to.  A
\* client that connect() reported an error to is left out, and one that was
\* turned away (1002): connect(response) connects that one too, to nobody.
ClientAgrees ==
    \A e \in connected :
        /\ kind[e] = "client" /\ kind[Peer(e)] = "listener"
        /\ result[e] \in {"pending", "ok"} /\ res[e].type # 1002
        => \E s \in served : s.peer = e /\ s.id = res[e].id /\ s.isn = ISN(e) /\ s.isn = res[e].isn

\* Two rendezvous sockets that are both connected in their first attempt have
\* each other's ID and initial sequence number, whatever packets were lost, and
\* both sent their last request before either was connected.
RendezvousAgrees ==
    \A e \in connected :
        /\ Rendezvous(e) /\ Rendezvous(Peer(e))
        /\ attempt = [x \in End |-> 1]
        => /\ res[e].id = Peer(e) /\ res[e].isn = ISN(Peer(e))
           /\ req[e].type = -1 /\ req[Peer(e)].type = -1

Agreement == ClientAgrees /\ RendezvousAgrees

\* When connect() has returned without an error, the socket is connected.
SuccessMeansConnected ==
    \A e \in End : result[e] = "ok" /\ app[e] = "idle" => e \in connected

\* A closed socket is on the rendezvous queue only if one of its attempts has run
\* out of time: what else a connect() registered, its end or close() takes away.
\* (After the time to live updateConnStatus() leaves the entry where it is, and
\* close() does not look for it.)
NoDanglingConnector ==
    \A e \in End : status[e] = "CLOSED" /\ entries[e] # <<>> => expired[e] > 0

\* Nothing stands in the way of this connection.
Undisturbed ==
    /\ expired = [e \in End |-> 0] /\ closing = {} /\ minute = 1
    /\ compatible /\ \A e \in End : kind[e] = "listener" \/ ~sync[e]

\* Both sides asking, or one asking and one listening, get connected, whichever
\* requests and answers are lost on the way.
HandshakeCompletes ==
    /\ \A e \in End : kind[e] = "listener" \/ attempt[e] = 1
    /\ \A e \in End : Rendezvous(e) <=> Rendezvous(Peer(e))
    ~> (\A e \in End : kind[e] = "listener" \/ e \in connected) \/ ~Undisturbed
=============================================================================
