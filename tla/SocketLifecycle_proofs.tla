------------------------ MODULE SocketLifecycle_proofs ------------------------
(***************************************************************************)
(* What the threads that share the sockets of a process keep of them, for  *)
(* any number of sockets and requests.  Assumed is only that no connection *)
(* request arrives in cleanup() (LateRequests).                            *)
(***************************************************************************)
EXTENDS SocketLifecycle, WellFoundedInduction, FiniteSetTheorems, SequenceTheorems, TLAPS

Registered == sockets \cup closedSockets
Used == {s \in SockId : status[s] # "none"}
Accepted == {s \in SockId : peer[s] # NoPeer}
Fresh == {"register", "queue"}
WithSocket == Fresh \cup {"event", "signal"}

Workers ==
    [pc : {"idle", "listen", "peer", "create", "register", "queue", "event", "signal"},
     ls : SockOrNone, peer : Peers \cup {NoPeer}, ns : SockOrNone]
Accepters ==
    [pc : {"idle", "test", "waiting", "woken", "got"}, ls : SockOrNone, got : SockOrNone]
Closers == [pc : {"idle", "broadcast", "linger", "unregister"}, s : SockOrNone]

\* TypeOK, set by set.
Types ==
    /\ nextId \in 0 .. MaxSockets
    /\ status \in [SockId -> Statuses]
    /\ listenSocket \in [SockId -> SockOrNone] /\ peer \in [SockId -> Peers \cup {NoPeer}]
    /\ queued \in [SockId -> SUBSET SockId]
    /\ muxOf \in [SockId -> SockOrNone] /\ muxRef \in [SockId -> Nat]
    /\ pListener \in SockOrNone /\ newEntry \in Seq(SockId)
    /\ sockets \subseteq SockId /\ closedSockets \subseteq SockId /\ opened \subseteq SockId
    /\ connected \subseteq SockId /\ broken \subseteq SockId /\ closing \subseteq SockId
    /\ readable \subseteq SockId /\ rcvList \subseteq SockId /\ onList \subseteq SockId
    /\ unsent \subseteq SockId /\ lingering \subseteq SockId /\ known \subseteq SockId
    /\ worker \in Workers /\ accepter \in Accepters /\ closer \in Closers
Flagged == running \in BOOLEAN /\ synSending \in BOOLEAN /\ synRecving \in BOOLEAN

\* From its ID to its deletion: where a socket is registered at each status.
Life ==
    /\ sockets \cap closedSockets = {}
    /\ \A s \in SockId :
          /\ status[s] = "none" <=> s <= nextId
          /\ s \in sockets => status[s] \notin {"none", "deleted"}
          /\ s \in closedSockets => status[s] = "CLOSED"
          /\ status[s] \in {"INIT", "OPENED", "LISTENING"} => s \in sockets
    /\ known \subseteq Registered

\* What is said of a socket is said of one that exists, or did.
Flags ==
    /\ opened \cup connected \cup broken \cup closing \cup unsent \cup lingering \subseteq Used
    /\ \A s \in SockId : status[s] = "INIT" => s \notin opened
    /\ connected \subseteq opened
    /\ connected \subseteq {s \in SockId : s \in Accepted \/ Deleted(s)}

\* Sockets that are not bound yet, if they exist at all.
Unbound == {s \in SockId : status[s] \in {"none", "INIT"}}

\* Sockets of the application have no peer of their own, accepted ones have one, and
\* the listener they come from.
Origin ==
    \A s \in SockId :
        /\ peer[s] # NoPeer <=> listenSocket[s] # NoSock
        /\ listenSocket[s] \notin Unbound
        /\ status[s] \in {"none", "INIT", "OPENED", "LISTENING", "deleted"} => peer[s] = NoPeer

\* CRNode::m_bOnList says whether the worker has the socket on its list, or will.
OnListExact == onList = rcvList \cup NewEntries /\ onList \subseteq Accepted

Listener ==
    /\ pListener # NoSock => pListener \in Registered \cap opened /\ peer[pListener] = NoPeer
    /\ \A s \in SockId :
          status[s] = "OPENED" => s \in opened \/ (closer.pc = "unregister" /\ closer.s = s)

\* What newConnection() works on.
WorkerInv ==
    /\ worker.pc = "idle" => worker = IdleWorker
    /\ worker.pc # "idle" => worker.ls \in Registered \ Unbound
                             /\ peer[worker.ls] = NoPeer /\ worker.peer # NoPeer
    /\ worker.pc \notin WithSocket => worker.ns = NoSock
    /\ worker.pc \in WithSocket =>
          /\ worker.ns \in SockId /\ ~Deleted(worker.ns)
          /\ listenSocket[worker.ns] = worker.ls /\ peer[worker.ns] = worker.peer
    /\ worker.pc = "register" => worker.ns \notin Registered
    /\ worker.pc = "queue" => worker.ns \in sockets
    /\ worker.pc \in Fresh =>
          /\ worker.ns \notin known \cup broken /\ worker.ns # accepter.got
          /\ \A l \in SockId : worker.ns \notin queued[l]

\* What accept() and close() work on.
CallsInv ==
    /\ accepter.pc = "idle" => accepter = IdleAccepter
    /\ accepter.pc # "idle" => accepter.ls \in Registered
    /\ accepter.pc # "got" => accepter.got = NoSock
    /\ accepter.pc = "got" => accepter.got \in Registered
                              /\ \A l \in SockId : accepter.got \notin queued[l]
    /\ closer.pc = "idle" => closer = IdleCloser
    /\ closer.pc # "idle" => closer.s \in known
    /\ closer.pc \in {"linger", "unregister"} => status[closer.s] # "LISTENING"

\* After cleanup() nothing begins any more.
Stopped ==
    ~running => /\ sockets = {} /\ worker.pc \in {"idle", "listen"}
                /\ accepter.pc = "idle" /\ closer.pc = "idle"

\* A connection waits in the queue of its own listener, which exists.
Queues ==
    \A l \in SockId : \A s \in queued[l] :
        s \in sockets \ known /\ listenSocket[s] = l /\ l \in Registered

\* A connection that nobody can accept yet is in a queue or on its way there.
Orphanless ==
    \A s \in sockets \ (known \cup broken) :
        \/ \E l \in SockId : s \in queued[l]
        \/ worker.pc = "queue" /\ worker.ns = s
        \/ accepter.pc = "got" /\ accepter.got = s

\* Of the connections of one request all but the newest are broken, and all of them
\* when a new one is on its way.  IDs count down.
Requests ==
    /\ \A s, t \in sockets :
          peer[s] # NoPeer /\ peer[s] = peer[t] /\ s < t => t \in broken
    /\ worker.pc \in {"create", "register"} =>
          \A s \in sockets : peer[s] = worker.peer => s \in broken
    /\ worker.pc = "register" => \A s \in SockId : peer[s] # NoPeer => worker.ns <= s

\* Multiplexers count their sockets.
MuxInv ==
    /\ MuxCountsSockets
    /\ \A s \in SockId : status[s] \in {"none", "INIT", "deleted"} => muxOf[s] = NoSock

\* A closed socket that is still live lingers.
Lingering ==
    /\ \A s \in closedSockets : Live(s) => s \in lingering
    /\ closer.pc = "unregister" => (Live(closer.s) => closer.s \in lingering)

SharedInv ==
    /\ Types /\ Life /\ Flags /\ Origin /\ OnListExact /\ Listener
    /\ WorkerInv /\ CallsInv /\ Stopped /\ Queues /\ Orphanless /\ Requests /\ MuxInv
    /\ ReadableWhenQueued /\ NoLostAcceptWakeup /\ Lingering

\* A socket that lingers for garbage collection is no longer found by close(), and
\* as long as it is connected the worker serves it.  One that is closing is broken,
\* or no longer found.
Lingerers ==
    /\ \A s \in closing :
          Located(s) => s \in broken \/ (closer.pc = "unregister" /\ closer.s = s)
    /\ worker.pc = "register" => worker.ns \notin closing
    /\ \A s \in SockId : Live(s) => s \in onList \/ Deleted(s)
    /\ closer.pc = "linger" => closer.s \notin lingering
    /\ \A s \in lingering :
          /\ s \in known /\ (s \in broken \/ (Live(s) /\ s \in onList))
          /\ Located(s) => closer.pc = "unregister" /\ closer.s = s
-----------------------------------------------------------------------------
LEMMA TypesAre == Types /\ Flagged => TypeOK
BY DEF TypeOK, Types, Flagged, Workers, Accepters, Closers

\* Before anything has happened.
LEMMA InitShared == Init => SharedInv /\ Flagged /\ Lingerers
<1> SUFFICES ASSUME Init PROVE SharedInv /\ Flagged /\ Lingerers
  OBVIOUS
<1> USE BoundsAssumption
<1>1. Types /\ Flagged
  BY DEF Init, Types, Flagged, SockId, SockOrNone, Statuses, IdleWorker, IdleAccepter,
         IdleCloser, Workers, Accepters, Closers
<1>2. Life /\ Flags
  BY DEF Init, Life, Flags, SockId, Registered, Used, Accepted
<1>3. Origin /\ Listener
  BY DEF Init, Origin, Listener, Unbound, SockId
<1>4. OnListExact
  BY DEF Init, OnListExact, NewEntries
<1>5. WorkerInv /\ CallsInv /\ Stopped
  BY DEF Init, WorkerInv, CallsInv, Stopped, IdleWorker, IdleAccepter, IdleCloser, WithSocket, Fresh
<1>6. Queues /\ Orphanless /\ Requests /\ Lingering /\ Lingerers
  BY DEF Init, Queues, Orphanless, Requests, Lingering, Lingerers, Live, IdleWorker,
         IdleCloser
<1>7. MuxInv
  <2>1. \A m \in SockId : {s \in SockId : muxOf[s] = m} = {}
    BY BoundsAssumption DEF Init
  <2> QED
    BY <2>1, FS_EmptySet DEF Init, MuxInv, MuxCountsSockets
<1>8. ReadableWhenQueued /\ NoLostAcceptWakeup
  BY DEF Init, ReadableWhenQueued, NoLostAcceptWakeup, IdleAccepter
<1> QED
  BY <1>1, <1>2, <1>3, <1>4, <1>5, <1>6, <1>7, <1>8 DEF SharedInv
-----------------------------------------------------------------------------
\* A pass of garbage collection in terms of the sockets it closes (tbc), deletes
\* (tbr), and takes out of the queues of those it deletes.
Pass(tbc, tbr, orphans, closed, lingered) ==
    /\ tbc \subseteq sockets \cap broken
    /\ tbr \subseteq closedSockets \ onList
    /\ lingered \subseteq lingering /\ lingered \cap tbr = {}
    /\ orphans \subseteq {s \in sockets : listenSocket[s] \in tbr}
    /\ \A l \in tbr : queued[l] \subseteq orphans \cup tbc
    /\ closed \subseteq tbr \cup orphans /\ orphans \subseteq closed
    /\ \A s \in tbr \ closed : Lingers(s)
    /\ tbr \cap {worker.ns, accepter.ls, accepter.got, closer.s} = {}
    /\ worker.pc # "idle" => worker.ls \notin tbr
    /\ readable' = readable \ (closed \cap opened)
    /\ pListener' = IF pListener \in closed \cap opened THEN NoSock ELSE pListener
    /\ connected' = connected \ (closed \cap opened)
    /\ opened' = opened \ closed
    /\ broken' = (broken \cup orphans) \ tbr
    /\ closing' = (closing \cup lingered \cup (closed \cap opened)) \ tbr
    /\ lingering' = lingering \ (lingered \cup tbr)
    /\ sockets' = sockets \ (tbc \cup orphans)
    /\ closedSockets' = (closedSockets \cup tbc \cup orphans) \ tbr
    /\ unsent' = unsent \ tbr /\ known' = known \ tbr
    /\ status' = [s \in SockId |-> IF s \in tbr THEN "deleted"
                                   ELSE IF s \in tbc \cup orphans THEN "CLOSED" ELSE status[s]]
    /\ queued' = [s \in SockId |-> IF s \in tbr THEN {} ELSE Dequeue(s, tbc)]
    /\ muxOf' = [s \in SockId |-> IF s \in tbr THEN NoSock ELSE muxOf[s]]
    /\ listenSocket' = [s \in SockId |-> IF s \in tbr THEN NoSock ELSE listenSocket[s]]
    /\ peer' = [s \in SockId |-> IF s \in tbr THEN NoPeer ELSE peer[s]]
    /\ muxRef' = [s \in SockId |-> muxRef[s] - Cardinality({u \in tbr : muxOf[u] = s})]
    /\ UNCHANGED <<nextId, newEntry, rcvList, onList, worker, accepter, closer, modeVars>>

\* Nothing that a thread uses is deleted; after cleanup() none does.
LEMMA GarbageCollectIsPass ==
    ASSUME SharedInv, ~LateRequests, GarbageCollect
    PROVE  \E tbc, tbr, orphans, closed, lingered : Pass(tbc, tbr, orphans, closed, lingered)
<1>1. PICK unread \in SUBSET MayHaveUnread, due \in SUBSET (Removable \cup BrokenListeners),
           up \in SUBSET (lingering \cap unsent) : Collect(unread, due, up)
  BY DEF GarbageCollect
<1> DEFINE tbc == ToBeClosed(unread, due)
           lingered == Lingered(tbc, up)
           tbr == (due \cap closedSockets) \ lingered
           orphans == Orphans(tbr, tbc)
           closed == {s \in tbr : synSending \/ ~Lingers(s)} \cup orphans
<1>2. tbc \subseteq sockets \cap broken
  BY DEF ToBeClosed
<1>3. tbr \subseteq Removable
  BY DEF SharedInv, Life, BrokenListeners, Removable
<1>4. tbr \subseteq closedSockets \ onList /\ tbr \subseteq SockId
  BY <1>3 DEF Removable, SharedInv, Types
<1>5. orphans \subseteq {s \in sockets : listenSocket[s] \in tbr}
  BY <1>4 DEF Orphans, SharedInv, Queues
<1>6. \A l \in tbr : queued[l] \subseteq orphans \cup tbc
  <2> HIDE DEF tbr, tbc
  <2> DEFINE waiting == UNION {queued[l] : l \in tbr}
  <2>1. \A l \in tbr : queued[l] \subseteq waiting
    OBVIOUS
  <2>2. orphans = waiting \ tbc
    BY DEF Orphans
  <2> HIDE DEF orphans, waiting
  <2> QED
    BY <2>1, <2>2
<1>7. lingered \subseteq lingering
  BY DEF Lingered
<1>8. tbr \cap {worker.ns, accepter.ls, accepter.got, closer.s} = {}
      /\ (worker.pc # "idle" => worker.ls \notin tbr)
  <2>1. NoSock \notin tbr
    BY <1>4, BoundsAssumption
  <2>2. CASE ~running
    <3>1. worker.pc \in {"idle", "listen"} /\ accepter = IdleAccepter /\ closer = IdleCloser
      BY <2>2 DEF SharedInv, Stopped, CallsInv
    <3>2. worker.ns = NoSock
      BY <3>1 DEF SharedInv, WorkerInv, WithSocket, Fresh
    <3>3. worker.pc # "idle" => worker.ls \notin tbr
      BY <1>1 DEF Collect
    <3> QED
      BY <2>1, <3>1, <3>2, <3>3 DEF IdleAccepter, IdleCloser
  <2>3. CASE running
    <3>1. \A s \in tbr : ~InUse(s)
      BY <1>3, <2>3 DEF Removable
    <3>2. closer.s \notin tbr
      BY <2>1, <3>1 DEF InUse, SharedInv, CallsInv, IdleCloser
    <3>3. accepter.pc # "waiting" => accepter.ls \notin tbr /\ accepter.got \notin tbr
      BY <2>1, <3>1 DEF InUse, SharedInv, CallsInv, IdleAccepter
    <3>4. ASSUME accepter.pc = "waiting", accepter.ls \in tbr PROVE FALSE
      <4>1. status[accepter.ls] = "CLOSED"
        BY <1>4, <3>4 DEF SharedInv, Life
      <4>2. closer.s = accepter.ls
        BY <3>4, <4>1 DEF SharedInv, NoLostAcceptWakeup, AcceptClosed
      <4> QED
        BY <3>2, <3>4, <4>2
    <3>5. accepter.pc = "waiting" => accepter.got \notin tbr
      BY <2>1 DEF SharedInv, CallsInv
    <3>6. worker.ns \notin tbr
      BY <2>1, <3>1 DEF InUse, SharedInv, WorkerInv, WithSocket, Fresh
    <3>7. worker.pc # "idle" => worker.ls \notin tbr
      BY <1>1, <3>1 DEF InUse, Collect
    <3> QED
      BY <3>2, <3>3, <3>4, <3>5, <3>6, <3>7
  <2> QED
    BY <2>2, <2>3
<1>9. /\ CloseUDT(closed)
      /\ broken' = (broken \cup orphans) \ tbr
      /\ closing' = (closing \cup lingered \cup (closed \cap opened)) \ tbr
      /\ lingering' = lingering \ (lingered \cup tbr)
      /\ sockets' = sockets \ (tbc \cup orphans)
      /\ closedSockets' = (closedSockets \cup tbc \cup orphans) \ tbr
      /\ unsent' = unsent \ tbr /\ known' = known \ tbr
      /\ UNCHANGED <<nextId, newEntry, rcvList, onList, worker, accepter, closer, modeVars>>
  BY <1>1 DEF Collect
<1>10. /\ status' = [s \in SockId |-> IF s \in tbr THEN "deleted"
                                      ELSE IF s \in tbc \cup orphans THEN "CLOSED"
                                      ELSE status[s]]
       /\ queued' = [s \in SockId |-> IF s \in tbr THEN {} ELSE Dequeue(s, tbc)]
       /\ muxRef' = [s \in SockId |-> muxRef[s] - Cardinality({u \in tbr : muxOf[u] = s})]
       /\ muxOf' = [s \in SockId |-> IF s \in tbr THEN NoSock ELSE muxOf[s]]
       /\ listenSocket' = [s \in SockId |-> IF s \in tbr THEN NoSock ELSE listenSocket[s]]
       /\ peer' = [s \in SockId |-> IF s \in tbr THEN NoPeer ELSE peer[s]]
  BY <1>1 DEF Collect, SetStatus
<1>11. closed \subseteq tbr \cup orphans /\ orphans \subseteq closed
       /\ \A s \in tbr \ closed : Lingers(s)
  OBVIOUS
<1>12. lingered \cap tbr = {}
  OBVIOUS
<1> HIDE DEF tbc, lingered, tbr, orphans, closed
<1>13. Pass(tbc, tbr, orphans, closed, lingered)
  BY <1>2, <1>4, <1>5, <1>6, <1>7, <1>8, <1>9, <1>10, <1>11, <1>12
  DEF Pass, CloseUDT
<1> QED
  BY <1>13
-----------------------------------------------------------------------------
\* Some facts that several proofs use.

LEMMA MinOfSocks ==
    ASSUME NEW S \in SUBSET SockId, S # {}
    PROVE  Min(S) \in S /\ \A s \in S : Min(S) <= s
<1> DEFINE R == OpToRel(<, Nat)
<1>1. IsWellFoundedOn(R, Nat)
  BY NatLessThanWellFounded
<1>2. S \subseteq Nat
  BY BoundsAssumption DEF SockId
<1> HIDE DEF R
<1>3. PICK n \in S : \A m \in S : ~(<<m, n>> \in R)
  BY <1>1, <1>2, WFMin
<1>4. \A m \in S : ~(m < n)
  BY <1>2, <1>3 DEF R, OpToRel
<1>5. \E x \in S : \A y \in S : x <= y
  BY <1>2, <1>4
<1> QED
  BY <1>5 DEF Min

EntriesOf(q) == {q[i] : i \in DOMAIN q}

LEMMA EntriesOfAppend ==
    ASSUME NEW q \in Seq(SockId), NEW s \in SockId
    PROVE  EntriesOf(Append(q, s)) = EntriesOf(q) \cup {s}
<1> DEFINE r == Append(q, s)
<1>1. Len(q) \in Nat /\ DOMAIN q = 1 .. Len(q) /\ DOMAIN r = 1 .. Len(q) + 1
  OBVIOUS
<1>2. r[Len(q) + 1] = s /\ \A i \in DOMAIN q : r[i] = q[i]
  OBVIOUS
<1> HIDE DEF r
<1>3. DOMAIN r = DOMAIN q \cup {Len(q) + 1}
  BY <1>1
<1>4. EntriesOf(r) = EntriesOf(q) \cup {s}
  BY <1>2, <1>3 DEF EntriesOf
<1> QED
  BY <1>4 DEF r

LEMMA EntriesOfTail ==
    ASSUME NEW q \in Seq(SockId), q # <<>>
    PROVE  EntriesOf(q) = {Head(q)} \cup EntriesOf(Tail(q))
<1> DEFINE r == Tail(q)
<1>1. Len(q) \in Nat \ {0} /\ DOMAIN q = 1 .. Len(q) /\ DOMAIN r = 1 .. Len(q) - 1
  OBVIOUS
<1>2. Head(q) = q[1] /\ \A i \in DOMAIN r : r[i] = q[i + 1]
  OBVIOUS
<1> HIDE DEF r
<1>3. ASSUME NEW i \in DOMAIN q PROVE q[i] = Head(q) \/ \E j \in DOMAIN r : r[j] = q[i]
  <2>1. CASE i = 1
    BY <2>1, <1>2
  <2>2. CASE i # 1
    <3>1. i - 1 \in DOMAIN r /\ (i - 1) + 1 = i
      BY <1>1, <2>2
    <3> QED
      BY <1>2, <3>1
  <2> QED
    BY <2>1, <2>2
<1>4. 1 \in DOMAIN q /\ \A j \in DOMAIN r : j + 1 \in DOMAIN q
  BY <1>1
<1>5. EntriesOf(q) = {Head(q)} \cup EntriesOf(r)
  BY <1>2, <1>3, <1>4 DEF EntriesOf
<1> QED
  BY <1>5 DEF r

\* The socket that is created next is not in use anywhere.
LEMMA NextIsFresh ==
    ASSUME SharedInv, nextId > 0
    PROVE  /\ nextId \in SockId /\ nextId - 1 \in 0 .. MaxSockets
           /\ \A s \in SockId : s <= nextId <=> s <= nextId - 1 \/ s = nextId
           /\ status[nextId] = "none" /\ nextId \notin Registered /\ nextId \notin known
           /\ nextId \notin opened \cup connected \cup broken \cup closing \cup unsent
                            \cup lingering \cup onList
           /\ peer[nextId] = NoPeer /\ listenSocket[nextId] = NoSock
           /\ muxOf[nextId] = NoSock /\ queued[nextId] = {}
           /\ \A s \in SockId : listenSocket[s] # nextId /\ nextId \notin queued[s]
<1> USE BoundsAssumption DEF SharedInv
<1>1. nextId \in SockId /\ nextId - 1 \in 0 .. MaxSockets
      /\ \A s \in SockId : s <= nextId <=> s <= nextId - 1 \/ s = nextId
  BY DEF Types, SockId
<1>2. status[nextId] = "none" /\ nextId \notin Registered /\ nextId \notin known
  BY <1>1 DEF Life, SockId, Registered
<1>3. peer[nextId] = NoPeer /\ listenSocket[nextId] = NoSock /\ muxOf[nextId] = NoSock
      /\ \A s \in SockId : listenSocket[s] # nextId
  BY <1>1, <1>2 DEF Origin, MuxInv, Unbound
<1>4. nextId \notin opened \cup connected \cup broken \cup closing \cup unsent
                      \cup lingering \cup onList
  BY <1>2, <1>3 DEF Flags, Used, OnListExact, Accepted
<1>5. queued[nextId] = {} /\ \A s \in SockId : nextId \notin queued[s]
  BY <1>1, <1>2 DEF Queues, Registered, Types
<1> QED
  BY <1>1, <1>2, <1>3, <1>4, <1>5

\* The socket newConnection() makes is an accepted one.
LEMMA WorkersSocket ==
    ASSUME SharedInv, worker.pc \in WithSocket
    PROVE  /\ worker.ns \in SockId /\ worker.ls \in SockId
           /\ peer[worker.ns] # NoPeer /\ listenSocket[worker.ns] = worker.ls
           /\ status[worker.ns] \in {"CONNECTED", "CLOSED"}
<1> USE BoundsAssumption DEF SharedInv
<1>1. worker.pc # "idle" /\ worker.ns \in SockId /\ ~Deleted(worker.ns)
      /\ peer[worker.ns] = worker.peer /\ listenSocket[worker.ns] = worker.ls
  BY DEF WorkerInv, WithSocket, Fresh
<1>2. worker.ls \in SockId /\ worker.peer # NoPeer
  BY <1>1 DEF WorkerInv, Types, Registered
<1>3. status[worker.ns] \notin {"none", "INIT", "OPENED", "LISTENING", "deleted"}
  BY <1>1, <1>2 DEF Origin
<1>4. status[worker.ns] \in Statuses
  BY <1>1 DEF Types
<1> QED
  BY <1>1, <1>2, <1>3, <1>4 DEF Statuses

\* CUDTUnited::locate(peer, id, isn) finds the newest of the sockets of a request.
LEMMA LocatedFirst ==
    ASSUME SharedInv, NEW p
    PROVE  /\ LocatedByPeer(p) = NoSock => \A s \in sockets : peer[s] # p
           /\ LocatedByPeer(p) # NoSock =>
                 /\ LocatedByPeer(p) \in sockets /\ peer[LocatedByPeer(p)] = p
                 /\ \A s \in sockets : peer[s] = p => LocatedByPeer(p) <= s
<1> DEFINE found == {s \in sockets : peer[s] = p}
<1>1. found \subseteq SockId /\ NoSock \notin SockId
  BY BoundsAssumption DEF SharedInv, Types
<1>2. CASE found = {}
  BY <1>2 DEF LocatedByPeer
<1>3. CASE found # {}
  <2>1. Min(found) \in found /\ \A s \in found : Min(found) <= s
    BY <1>1, <1>3, MinOfSocks
  <2>2. LocatedByPeer(p) = Min(found)
    BY <1>3 DEF LocatedByPeer
  <2> HIDE DEF found
  <2>3. Min(found) # NoSock
    BY <1>1, <2>1
  <2> QED
    BY <2>1, <2>2, <2>3 DEF found
<1> QED
  BY <1>2, <1>3

\* What the last step of close() does.
LEMMA Unregistered ==
    ASSUME SharedInv, CloseUnregister
    PROVE  /\ closer.s \in SockId /\ closer.s \in known /\ closer' = IdleCloser
           /\ \/ UNCHANGED <<status, sockets, closedSockets>> /\ ~Located(closer.s)
              \/ /\ closer.s \in sockets /\ closer.s \notin closedSockets
                 /\ status[closer.s] \notin {"none", "LISTENING", "CLOSED", "deleted"}
                 /\ status' = [status EXCEPT ![closer.s] = "CLOSED"]
                 /\ sockets' = sockets \ {closer.s}
                 /\ closedSockets' = closedSockets \cup {closer.s}
<1> USE DEF SharedInv
<1>1. closer.s \in known /\ closer.s \in SockId /\ status[closer.s] # "LISTENING"
  BY DEF CloseUnregister, CallsInv, Types, Registered, Life
<1>2. CASE Located(closer.s)
  BY <1>1, <1>2 DEF CloseUnregister, Located, Life
<1>3. CASE ~Located(closer.s)
  BY <1>1, <1>3 DEF CloseUnregister
<1> QED
  BY <1>2, <1>3

\* What newConnection() does with the broken connection of a repeated request.
LEMMA Replaced ==
    ASSUME SharedInv, ReplaceBroken
    PROVE  \E old \in SockId :
              /\ old \in sockets /\ old \in broken /\ peer[old] = worker.peer
              /\ \A s \in sockets : peer[s] = worker.peer => old <= s
              /\ status' = [status EXCEPT ![old] = "CLOSED"]
              /\ queued' = [queued EXCEPT ![worker.ls] = @ \ {old}]
<1> DEFINE old == LocatedByPeer(worker.peer)
<1>1. /\ old \in sockets /\ peer[old] = worker.peer
      /\ \A s \in sockets : peer[s] = worker.peer => old <= s
  BY LocatedFirst DEF ReplaceBroken
<1>2. old \in SockId
  BY <1>1 DEF SharedInv, Types
<1> QED
  BY <1>1, <1>2 DEF ReplaceBroken

\* What accept() takes.
LEMMA Taken ==
    ASSUME SharedInv, AcceptTake
    PROVE  /\ accepter.ls \in SockId
           /\ \E s \in queued[accepter.ls] :
                 /\ s \in SockId
                 /\ accepter' = [accepter EXCEPT !.pc = "got", !.got = s]
                 /\ queued' = [queued EXCEPT ![accepter.ls] = @ \ {s}]
<1>1. accepter.ls \in SockId
  BY DEF SharedInv, AcceptTake, CallsInv, Types, Registered
<1>2. queued[accepter.ls] \in SUBSET SockId /\ queued[accepter.ls] # {}
  BY <1>1 DEF SharedInv, Types, AcceptTake
<1>3. Min(queued[accepter.ls]) \in queued[accepter.ls]
  BY <1>2, MinOfSocks
<1> QED
  BY <1>1, <1>2, <1>3 DEF AcceptTake, SharedInv, Types

\* The sockets that use multiplexer m, and a count r of them.
Users(f, m) == {s \in SockId : f[s] = m}
Counted(f, r) == \A m \in SockId : r[m] = Cardinality(Users(f, m))

LEMMA UsersFinite == \A f, m : IsFiniteSet(Users(f, m))
<1>1. IsFiniteSet(SockId)
  BY BoundsAssumption, FS_Interval DEF SockId
<1>2. \A f, m : Users(f, m) \in SUBSET SockId
  BY DEF Users
<1> QED
  BY <1>1, <1>2, FS_Subset

\* A socket that joins a multiplexer is counted.
LEMMA JoinCounts ==
    ASSUME NEW f \in [SockId -> SockOrNone], NEW r \in [SockId -> Nat], Counted(f, r),
           NEW s \in SockId, NEW m \in SockId, f[s] = NoSock
    PROVE  /\ Counted([f EXCEPT ![s] = m], [r EXCEPT ![m] = @ + 1])
           /\ [f EXCEPT ![s] = m] \in [SockId -> SockOrNone]
           /\ [r EXCEPT ![m] = @ + 1] \in [SockId -> Nat]
<1> DEFINE g == [f EXCEPT ![s] = m]
<1>1. g \in [SockId -> SockOrNone] /\ [r EXCEPT ![m] = @ + 1] \in [SockId -> Nat]
  BY DEF SockOrNone
<1>2. s \notin Users(f, m)
  BY BoundsAssumption DEF Users
<1>3. Users(g, m) = Users(f, m) \cup {s}
  BY DEF Users
<1>4. \A k \in SockId \ {m} : Users(g, k) = Users(f, k)
  BY BoundsAssumption DEF Users
<1>5. Cardinality(Users(g, m)) = Cardinality(Users(f, m)) + 1
  BY <1>2, <1>3, UsersFinite, FS_AddElement
<1> HIDE DEF g
<1>6. Counted(g, [r EXCEPT ![m] = @ + 1])
  BY <1>4, <1>5 DEF Counted
<1> QED
  BY <1>1, <1>6 DEF g

\* Sockets that are deleted are no longer counted.
LEMMA LeaveCounts ==
    ASSUME SharedInv, NEW tbc, NEW tbr, NEW orphans, NEW closed, NEW lingered,
           Pass(tbc, tbr, orphans, closed, lingered)
    PROVE  /\ Counted(muxOf', muxRef') /\ muxOf' \in [SockId -> SockOrNone]
           /\ muxRef' \in [SockId -> Nat]
<1>1. tbr \in SUBSET SockId /\ muxOf \in [SockId -> SockOrNone] /\ Counted(muxOf, muxRef)
  BY DEF Pass, SharedInv, Types, MuxInv, MuxCountsSockets, Counted, Users
<1>2. muxOf' = [s \in SockId |-> IF s \in tbr THEN NoSock ELSE muxOf[s]]
      /\ muxRef' = [s \in SockId |-> muxRef[s] - Cardinality({u \in tbr : muxOf[u] = s})]
  BY DEF Pass
<1>3. ASSUME NEW m \in SockId
      PROVE  muxRef'[m] = Cardinality(Users(muxOf', m)) /\ muxRef'[m] \in Nat
  <2>1. Users(muxOf', m) = Users(muxOf, m) \ tbr
    BY <1>2, BoundsAssumption DEF Users
  <2>2. {u \in tbr : muxOf[u] = m} = Users(muxOf, m) \cap tbr
    BY <1>1 DEF Users
  <2>3. IsFiniteSet(Users(muxOf, m)) /\ IsFiniteSet(Users(muxOf', m))
    BY UsersFinite
  <2>4. Cardinality(Users(muxOf', m))
            = Cardinality(Users(muxOf, m)) - Cardinality(Users(muxOf, m) \cap tbr)
    BY <2>1, <2>3, FS_Difference
  <2>5. Cardinality(Users(muxOf', m)) \in Nat
    BY <2>3, FS_CardinalityType
  <2>6. muxRef[m] = Cardinality(Users(muxOf, m))
    BY <1>1 DEF Counted
  <2>7. muxRef'[m] = muxRef[m] - Cardinality(Users(muxOf, m) \cap tbr)
    BY <1>2, <2>2
  <2> QED
    BY <2>4, <2>5, <2>6, <2>7
<1>4. muxOf' \in [SockId -> SockOrNone]
  BY <1>1, <1>2 DEF SockOrNone
<1>5. muxRef' \in [SockId -> Nat]
  BY <1>2, <1>3
<1> QED
  BY <1>3, <1>4, <1>5 DEF Counted

\* JoinMux(s, m) for the multiplexer of the port, or the one s creates.
LEMMA Joined ==
    ASSUME SharedInv, NEW s \in SockId, NEW m \in SockId, muxOf[s] = NoSock, JoinMux(s, m)
    PROVE  /\ Counted(muxOf', muxRef') /\ muxOf' \in [SockId -> SockOrNone]
           /\ muxRef' \in [SockId -> Nat] /\ muxOf' = [muxOf EXCEPT ![s] = m]
<1>1. muxOf \in [SockId -> SockOrNone] /\ muxRef \in [SockId -> Nat] /\ Counted(muxOf, muxRef)
  BY DEF SharedInv, Types, MuxInv, MuxCountsSockets, Counted, Users
<1> QED
  BY <1>1, JoinCounts DEF JoinMux
-----------------------------------------------------------------------------
\* Every step keeps the types.
LEMMA TypesStep ==
    ASSUME SharedInv, ~LateRequests, Next
    PROVE  Types'
<1> USE BoundsAssumption DEF SharedInv, registryVars, flagVars, originVars, muxVars,
      rcvQueueVars, modeVars
<1>1. CASE UNCHANGED <<vars>>
  BY <1>1 DEF Types, vars
<1>2. CASE NewSocket
  BY <1>2, NextIsFresh DEF NewSocket, Types, Statuses
<1>3. ASSUME NEW s \in SockId, Bind(s) PROVE Types'
  <2>1. PICK m \in IF PortMux = {} THEN {s} ELSE PortMux : JoinMux(s, m)
    BY <1>3 DEF Bind
  <2>2. m \in SockId /\ muxOf[s] = NoSock
    BY <1>3, <2>1 DEF Bind, PortMux, MuxInv
  <2>3. muxOf' \in [SockId -> SockOrNone] /\ muxRef' \in [SockId -> Nat]
    BY <2>1, <2>2, Joined
  <2> QED
    BY <1>3, <2>3 DEF Bind, Types, Statuses
<1>4. ASSUME NEW s \in SockId, Listen(s) PROVE Types'
  BY <1>4 DEF Listen, Types, Statuses, SockOrNone
<1>5. ASSUME NEW s \in SockId, Send(s) PROVE Types'
  BY <1>5 DEF Send, Types
<1>6. ASSUME NEW s \in SockId, AcceptCall(s) PROVE Types'
  BY <1>6 DEF AcceptCall, Types, Accepters, SockOrNone
<1>7. CASE AcceptTake
  <2>1. PICK g \in queued[accepter.ls] :
           /\ g \in SockId /\ accepter' = [accepter EXCEPT !.pc = "got", !.got = g]
           /\ queued' = [queued EXCEPT ![accepter.ls] = @ \ {g}]
    BY <1>7, Taken
  <2>2. accepter' \in Accepters /\ queued' \in [SockId -> SUBSET SockId]
    BY <2>1 DEF Types, SockOrNone, Accepters
  <2> QED
    BY <1>7, <2>2 DEF AcceptTake, ClearReadable, Types
<1>8. CASE AcceptFail
  BY <1>8 DEF AcceptFail, Types, Accepters, IdleAccepter, ClearReadable, SockOrNone
<1>9. CASE AcceptWait
  BY <1>9 DEF AcceptWait, Types, Accepters
<1>10. CASE AcceptWoken
  BY <1>10 DEF AcceptWoken, Types, Accepters, ClearReadable
<1>11. CASE AcceptReturn
  BY <1>11
  DEF AcceptReturn, Types, Accepters, IdleAccepter, CallsInv, Registered, SockOrNone
<1>12. ASSUME NEW s \in SockId, CloseListener(s) PROVE Types'
  BY <1>12 DEF CloseListener, Types, Closers, SockOrNone
<1>13. CASE CloseBroadcast
  BY <1>13
  DEF CloseBroadcast, Types, Accepters, Closers, WakeAccepter, IdleCloser, SockOrNone
<1>14. ASSUME NEW s \in SockId, CloseLingers(s) PROVE Types'
  BY <1>14 DEF CloseLingers, Types, Closers, SockOrNone
<1>15. ASSUME NEW s \in SockId, CloseConnection(s) PROVE Types'
  BY <1>15 DEF CloseConnection, Types, Closers, CloseUDT, SockOrNone
<1>16. CASE CloseUnregister
  <2>1. /\ status' \in [SockId -> Statuses]
        /\ sockets' \subseteq SockId /\ closedSockets' \subseteq SockId
    <3>1. CASE UNCHANGED <<status, sockets, closedSockets>>
      BY <3>1 DEF Types
    <3>2. CASE /\ closer.s \in SockId /\ status' = [status EXCEPT ![closer.s] = "CLOSED"]
               /\ sockets' = sockets \ {closer.s}
               /\ closedSockets' = closedSockets \cup {closer.s}
      BY <3>2 DEF Types, Statuses
    <3> QED
      BY <1>16, <3>1, <3>2, Unregistered
  <2>2. closer' \in Closers
    BY <1>16, Unregistered DEF IdleCloser, Closers, SockOrNone
  <2> QED
    BY <1>16, <2>1, <2>2 DEF CloseUnregister, Types
<1>17. CASE Cleanup
  BY <1>17 DEF Cleanup, Types, SetStatus, CloseUDT, Statuses, SockOrNone
<1>18. CASE GarbageCollect
  <2>1. PICK tbc, tbr, orphans, closed, lingered :
            Pass(tbc, tbr, orphans, closed, lingered)
    BY <1>18, GarbageCollectIsPass
  <2>2. /\ sockets' \subseteq sockets /\ opened' \subseteq opened
        /\ connected' \subseteq connected /\ broken' \subseteq broken \cup sockets
        /\ closedSockets' \subseteq closedSockets \cup sockets
        /\ closing' \subseteq closing \cup lingering \cup opened
        /\ readable' \subseteq readable /\ unsent' \subseteq unsent
        /\ lingering' \subseteq lingering /\ known' \subseteq known
        /\ pListener' \in {pListener, NoSock}
    BY <2>1 DEF Pass
  <2>3. UNCHANGED <<nextId, newEntry, rcvList, onList, worker, accepter, closer>>
    BY <2>1 DEF Pass
  <2>4. /\ status' \in [SockId -> Statuses] /\ listenSocket' \in [SockId -> SockOrNone]
        /\ peer' \in [SockId -> Peers \cup {NoPeer}]
    BY <2>1 DEF Pass, Types, Statuses, SockOrNone
  <2>5. queued' \in [SockId -> SUBSET SockId]
    BY <2>1 DEF Pass, Dequeue, Types
  <2>6. muxOf' \in [SockId -> SockOrNone] /\ muxRef' \in [SockId -> Nat]
    BY <2>1, LeaveCounts
  <2> QED
    BY <2>2, <2>3, <2>4, <2>5, <2>6 DEF Types, SockOrNone
<1>19. CASE TakeNewEntry
  BY <1>19 DEF TakeNewEntry, Types
<1>20. ASSUME NEW p \in Peers, Request(p) PROVE Types'
  <2>1. worker' \in Workers
    BY <1>20 DEF Request, Types, Workers, SockOrNone
  <2> QED
    BY <1>20, <2>1 DEF Request, Types
<1>21. CASE LocateListener
  <2>1. IdleWorker \in Workers
    BY DEF IdleWorker, SockOrNone, Workers
  <2>2. [worker EXCEPT !.pc = "peer"] \in Workers
    BY DEF Types, Workers
  <2>3. worker' \in Workers
    BY <1>21, <2>1, <2>2 DEF LocateListener
  <2> QED
    BY <1>21, <2>3 DEF LocateListener, Types
<1>22. CASE AnswerAgain
  BY <1>22 DEF AnswerAgain, Types, Workers, IdleWorker, SockOrNone
<1>23. CASE ReplaceBroken
  <2>1. status' \in [SockId -> Statuses] /\ queued' \in [SockId -> SUBSET SockId]
    <3>1. PICK old \in SockId : /\ status' = [status EXCEPT ![old] = "CLOSED"]
                                /\ queued' = [queued EXCEPT ![worker.ls] = @ \ {old}]
      BY <1>23, Replaced
    <3> QED
      BY <3>1 DEF Types, Statuses
  <2>2. worker' \in Workers
    BY <1>23 DEF ReplaceBroken, Types, Workers
  <2> QED
    BY <1>23, <2>1, <2>2 DEF ReplaceBroken, Types
<1>24. CASE NoOldConnection
  BY <1>24 DEF NoOldConnection, Types, Workers
<1>25. CASE Refuse
  BY <1>25 DEF Refuse, Types, Workers, IdleWorker, SockOrNone
<1>26. CASE Create
  <2>1. nextId \in SockId /\ nextId' \in 0 .. MaxSockets /\ muxOf[nextId] = NoSock
    BY <1>26, NextIsFresh DEF Create, NewSocketOfPeer
  <2>2. PICK m \in PortMux : JoinMux(nextId, m)
    BY <1>26 DEF Create, NewSocketOfPeer
  <2>3. muxOf' \in [SockId -> SockOrNone] /\ muxRef' \in [SockId -> Nat]
    BY <2>1, <2>2, Joined DEF PortMux
  <2>4. /\ status' \in [SockId -> Statuses] /\ listenSocket' \in [SockId -> SockOrNone]
        /\ peer' \in [SockId -> Peers \cup {NoPeer}]
    <3>1. worker.ls \in SockOrNone /\ worker.peer \in Peers \cup {NoPeer}
      BY DEF Types, Workers
    <3> QED
      BY <1>26, <3>1 DEF Create, NewSocketOfPeer, Types, Statuses
  <2>5. worker' \in Workers
    BY <1>26, <2>1 DEF Create, Types, SockOrNone, Workers
  <2>6. newEntry' \in Seq(SockId)
    BY <1>26, <2>1 DEF Create, Types
  <2> QED
    BY <1>26, <2>1, <2>3, <2>4, <2>5, <2>6 DEF Create, Types
<1>27. CASE CreateFails
  <2>1. nextId \in SockId /\ nextId' \in 0 .. MaxSockets /\ muxOf[nextId] = NoSock
    BY <1>27, NextIsFresh DEF CreateFails, NewSocketOfPeer
  <2>2. PICK m \in PortMux : JoinMux(nextId, m)
    BY <1>27 DEF CreateFails, NewSocketOfPeer
  <2>3. muxOf' \in [SockId -> SockOrNone] /\ muxRef' \in [SockId -> Nat]
    BY <2>1, <2>2, Joined DEF PortMux
  <2>4. /\ status' \in [SockId -> Statuses] /\ listenSocket' \in [SockId -> SockOrNone]
        /\ peer' \in [SockId -> Peers \cup {NoPeer}]
    <3>1. worker.ls \in SockOrNone /\ worker.peer \in Peers \cup {NoPeer}
      BY DEF Types, Workers
    <3> QED
      BY <1>27, <3>1 DEF CreateFails, NewSocketOfPeer, Types, Statuses
  <2>5. worker' \in Workers
    BY <1>27, <2>1 DEF CreateFails, IdleWorker, Types, SockOrNone, Workers
  <2>6. newEntry' \in Seq(SockId)
    BY <1>27, <2>1 DEF CreateFails, Types
  <2> QED
    BY <1>27, <2>1, <2>3, <2>4, <2>5, <2>6 DEF CreateFails, Types
<1>28. CASE Register
  <2>1. worker.ls \in SockId /\ worker.ns \in SockId
    BY <1>28, WorkersSocket DEF Register, WithSocket, Fresh
  <2>2. worker' \in Workers
    BY <1>28 DEF Register, Types, Workers
  <2> QED
    BY <1>28, <2>1, <2>2 DEF Register, Types
<1>29. CASE Enqueue
  <2>1. worker.ls \in SockId /\ worker.ns \in SockId
    BY <1>29, WorkersSocket DEF Enqueue, WithSocket, Fresh
  <2>2. worker' \in Workers
    BY <1>29 DEF Enqueue, Types, Workers
  <2> QED
    BY <1>29, <2>1, <2>2 DEF Enqueue, Types
<1>30. CASE Announce
  <2>1. worker.ls \in SockId
    BY <1>30, WorkersSocket DEF Announce, WithSocket
  <2>2. worker' \in Workers
    BY <1>30 DEF Announce, Types, Workers
  <2> QED
    BY <1>30, <2>1, <2>2 DEF Announce, Types
<1>31. CASE SignalAccept
  BY <1>31
  DEF SignalAccept, Types, Workers, Accepters, WakeAccepter, IdleWorker, SockOrNone
<1>32. ASSUME NEW s \in SockId, Break(s) PROVE Types'
  BY <1>32 DEF Break, Types
<1>33. ASSUME NEW s \in SockId, Acknowledged(s) PROVE Types'
  BY <1>33 DEF Acknowledged, Types
<1>34. ASSUME NEW s \in SockId, Drop(s) PROVE Types'
  BY <1>34 DEF Drop, Types, LeaveRcvList
<1> QED
  BY <1>1, <1>2, <1>3, <1>4, <1>5, <1>6, <1>7, <1>8, <1>9, <1>10, <1>11, <1>12, <1>13,
    <1>14, <1>15, <1>16, <1>17, <1>18, <1>19, <1>20, <1>21, <1>22, <1>23, <1>24, <1>25,
    <1>26, <1>27, <1>28, <1>29, <1>30, <1>31, <1>32, <1>33, <1>34
  DEF Next, CallOn, WorkerOn, AcceptStep, CloseStep, NewConnection

\* A socket goes from its ID over m_Sockets and m_ClosedSockets to its deletion.
LEMMA LifeStep ==
    ASSUME SharedInv, ~LateRequests, Next
    PROVE  Life'
<1> USE BoundsAssumption DEF SharedInv, registryVars, flagVars, originVars, muxVars,
      rcvQueueVars, modeVars
<1>1. CASE UNCHANGED <<nextId, status, sockets, closedSockets, known>>
  BY <1>1 DEF Life, Registered, Types
<1>2. CASE NewSocket
  BY <1>2, NextIsFresh DEF NewSocket, Life, Registered, Types
<1>3. ASSUME NEW s \in SockId, Bind(s) PROVE Life'
  BY <1>3 DEF Bind, Life, Registered, Types, Located
<1>4. ASSUME NEW s \in SockId, Listen(s) PROVE Life'
  BY <1>4 DEF Listen, Life, Registered, Types, Located
<1>5. CASE AcceptReturn
  BY <1>5 DEF AcceptReturn, Life, Registered, Types, CallsInv
<1>6. CASE CloseUnregister
  BY <1>6, Unregistered DEF CloseUnregister, Life, Registered, Types
<1>7. CASE Cleanup
  BY <1>7 DEF Cleanup, Life, Registered, Types, SetStatus
<1>8. CASE GarbageCollect
  <2>1. PICK tbc, tbr, orphans, closed, lingered :
            Pass(tbc, tbr, orphans, closed, lingered)
    BY <1>8, GarbageCollectIsPass
  <2>2. orphans \subseteq sockets /\ tbc \subseteq sockets /\ tbr \subseteq closedSockets
        /\ sockets' = sockets \ (tbc \cup orphans)
        /\ closedSockets' = (closedSockets \cup tbc \cup orphans) \ tbr
        /\ known' = known \ tbr /\ nextId' = nextId
    BY <2>1 DEF Pass
  <2>3. \A s \in SockId : status'[s] = IF s \in tbr THEN "deleted"
                                       ELSE IF s \in tbc \cup orphans THEN "CLOSED"
                                       ELSE status[s]
    BY <2>1 DEF Pass
  <2>4. known' \subseteq Registered' /\ sockets' \cap closedSockets' = {}
    BY <2>2 DEF Life, Registered
  <2> QED
    BY <2>2, <2>3, <2>4 DEF Life, Types
<1>9. CASE ReplaceBroken
  <2>1. PICK old \in sockets : old \in SockId /\ status' = [status EXCEPT ![old] = "CLOSED"]
    BY <1>9, Replaced
  <2>2. UNCHANGED <<nextId, sockets, closedSockets, known>>
    BY <1>9 DEF ReplaceBroken
  <2> QED
    BY <2>1, <2>2 DEF Life, Registered, Types
<1>10. CASE Create
  BY <1>10, NextIsFresh DEF Create, Life, Registered, Types, NewSocketOfPeer
<1>11. CASE CreateFails
  BY <1>11, NextIsFresh DEF CreateFails, Life, Registered, Types, NewSocketOfPeer
<1>12. CASE Register
  <2>1. worker.ns \in SockId /\ status[worker.ns] \in {"CONNECTED", "CLOSED"}
        /\ worker.ns \notin closedSockets
    BY <1>12, WorkersSocket DEF Register, WorkerInv, WithSocket, Fresh, Registered
  <2>2. sockets' = sockets \cup {worker.ns}
        /\ UNCHANGED <<nextId, status, closedSockets, known>>
    BY <1>12 DEF Register
  <2> QED
    BY <2>1, <2>2 DEF Life, Registered
<1> QED
  BY <1>1, <1>2, <1>3, <1>4, <1>5, <1>6, <1>7, <1>8, <1>9, <1>10, <1>11, <1>12
  DEF Next, CallOn, WorkerOn, AcceptStep, CloseStep, NewConnection, Send, AcceptCall,
    AcceptTake, AcceptFail, AcceptWait, AcceptWoken, CloseListener, CloseBroadcast,
    CloseLingers, CloseConnection, TakeNewEntry, Request, LocateListener, AnswerAgain,
    NoOldConnection, Refuse, Enqueue, Announce, SignalAccept, Break, Acknowledged, Drop

\* No step says anything of a socket that does not exist yet.
LEMMA FlagsStep ==
    ASSUME SharedInv, ~LateRequests, Next
    PROVE  Flags'
<1> USE BoundsAssumption DEF SharedInv, registryVars, flagVars, originVars, muxVars,
      rcvQueueVars, modeVars
<1>1. CASE UNCHANGED <<opened, connected, broken, closing, unsent, lingering, status,
  peer>>
  BY <1>1 DEF Flags, Used, Accepted, Deleted, Types, Life
<1>2. CASE NewSocket
  BY <1>2, NextIsFresh DEF NewSocket, Flags, Used, Accepted, Deleted, Types
<1>3. ASSUME NEW s \in SockId, Bind(s) PROVE Flags'
  BY <1>3 DEF Bind, Flags, Used, Accepted, Deleted, Types, Located, Life
<1>4. ASSUME NEW s \in SockId, Listen(s) PROVE Flags'
  BY <1>4 DEF Listen, Flags, Used, Accepted, Deleted, Types, Located
<1>5. ASSUME NEW s \in SockId, Send(s) PROVE Flags'
  BY <1>5 DEF Send, Flags, Used, Accepted, Deleted, Types, Located, Life
<1>6. ASSUME NEW s \in SockId, CloseListener(s) PROVE Flags'
  BY <1>6 DEF CloseListener, Flags, Used, Accepted, Deleted, Types, Life, Registered
<1>7. ASSUME NEW s \in SockId, CloseLingers(s) PROVE Flags'
  BY <1>7 DEF CloseLingers, Flags, Used, Accepted, Deleted, Types, Located, Life
<1>8. ASSUME NEW s \in SockId, CloseConnection(s) PROVE Flags'
  BY <1>8 DEF CloseConnection, Flags, Used, Accepted, Deleted, Types, CloseUDT
<1>9. CASE CloseUnregister
  BY <1>9, Unregistered DEF CloseUnregister, Flags, Used, Accepted, Deleted, Types
<1>10. CASE Cleanup
  BY <1>10 DEF Cleanup, Flags, Used, Accepted, Deleted, Types, SetStatus, CloseUDT, Life
<1>11. CASE GarbageCollect
  <2>1. PICK tbc, tbr, orphans, closed, lingered :
            Pass(tbc, tbr, orphans, closed, lingered)
    BY <1>11, GarbageCollectIsPass
  <2>2. /\ orphans \subseteq sockets /\ opened' = opened \ closed
        /\ connected' = connected \ (closed \cap opened)
        /\ broken' \subseteq broken \cup orphans /\ unsent' \subseteq unsent
        /\ closing' \subseteq closing \cup lingering \cup opened
        /\ lingering' \subseteq lingering
    BY <2>1 DEF Pass
  <2>3. /\ tbr \subseteq closedSockets /\ tbc \subseteq sockets
        /\ \A s \in SockId :
              /\ status'[s] = IF s \in tbr THEN "deleted"
                              ELSE IF s \in tbc \cup orphans THEN "CLOSED" ELSE status[s]
              /\ peer'[s] = IF s \in tbr THEN NoPeer ELSE peer[s]
    BY <2>1 DEF Pass
  <2>4. Used' = Used /\ Accepted' = Accepted \ tbr
    BY <2>2, <2>3 DEF Used, Accepted, Life, Types
  <2>5. connected' \subseteq {s \in SockId : s \in Accepted' \/ Deleted(s)'}
    BY <2>2, <2>3, <2>4 DEF Flags, Life, Deleted
  <2>6. opened' \cup connected' \cup broken' \cup closing' \cup unsent' \cup lingering'
            \subseteq Used'
    BY <2>2, <2>4 DEF Flags, Life, Used, Types
  <2>7. \A s \in SockId : status'[s] = "INIT" => s \notin opened'
    BY <2>2, <2>3 DEF Flags
  <2> QED
    BY <2>2, <2>5, <2>6, <2>7 DEF Flags
<1>12. CASE ReplaceBroken
  <2>1. PICK old \in SockId : /\ old \in sockets /\ status' = [status EXCEPT ![old] = "CLOSED"]
    BY <1>12, Replaced
  <2>2. UNCHANGED <<flagVars, unsent, lingering, peer>>
    BY <1>12 DEF ReplaceBroken
  <2>3. Used' = Used /\ Accepted' = Accepted /\ \A s \in SockId : Deleted(s) => Deleted(s)'
    BY <2>1, <2>2 DEF Used, Accepted, Deleted, Life, Types
  <2>4. \A s \in SockId : status'[s] = "INIT" => status[s] = "INIT"
    BY <2>1 DEF Types
  <2> QED
    BY <2>2, <2>3, <2>4 DEF Flags
<1>13. CASE Create
  <2>1. /\ nextId \in SockId /\ status' = [status EXCEPT ![nextId] = "CONNECTED"]
        /\ peer' = [peer EXCEPT ![nextId] = worker.peer] /\ worker.peer # NoPeer
        /\ opened' = opened \cup {nextId} /\ connected' = connected \cup {nextId}
        /\ UNCHANGED <<broken, closing, unsent, lingering>>
    BY <1>13, NextIsFresh DEF Create, NewSocketOfPeer, WorkerInv
  <2>2. Used' = Used \cup {nextId} /\ Accepted' = Accepted \cup {nextId}
    BY <2>1 DEF Used, Accepted, Types
  <2>3. \A s \in SockId : s # nextId => status'[s] = status[s]
    BY <2>1 DEF Types
  <2>4. status'[nextId] = "CONNECTED" /\ connected' \subseteq SockId
    BY <2>1 DEF Types
  <2>5. connected' \subseteq {s \in SockId : s \in Accepted' \/ Deleted(s)'}
    BY <2>1, <2>2, <2>3, <2>4 DEF Flags, Deleted
  <2> QED
    BY <2>1, <2>2, <2>3, <2>4, <2>5 DEF Flags
<1>14. CASE CreateFails
  BY <1>14, NextIsFresh
  DEF CreateFails, Flags, Used, Accepted, Deleted, Types, NewSocketOfPeer
<1>15. ASSUME NEW s \in SockId, Break(s) PROVE Flags'
  BY <1>15
  DEF Break, Flags, Used, Accepted, Deleted, Types, Life, OnListExact, Origin,
    NewEntries
<1>16. ASSUME NEW s \in SockId, Acknowledged(s) PROVE Flags'
  BY <1>16 DEF Acknowledged, Flags, Used, Accepted, Deleted, Types
<1> QED
  BY <1>1, <1>2, <1>3, <1>4, <1>5, <1>6, <1>7, <1>8, <1>9, <1>10, <1>11, <1>12, <1>13,
    <1>14, <1>15, <1>16
  DEF Next, CallOn, WorkerOn, AcceptStep, CloseStep, NewConnection, AcceptCall,
    AcceptTake, AcceptFail, AcceptWait, AcceptWoken, AcceptReturn, CloseBroadcast,
    TakeNewEntry, Request, LocateListener, AnswerAgain, NoOldConnection, Refuse,
    Register, Enqueue, Announce, SignalAccept, Drop

\* Who made a socket does not change while it exists.
LEMMA OriginStep ==
    ASSUME SharedInv, ~LateRequests, Next
    PROVE  Origin'
<1> USE BoundsAssumption DEF SharedInv, registryVars, flagVars, originVars, muxVars,
      rcvQueueVars, modeVars
<1>1. CASE UNCHANGED <<peer, listenSocket, status>>
  BY <1>1 DEF Origin, Unbound, Types
<1>2. CASE NewSocket
  BY <1>2, NextIsFresh DEF NewSocket, Origin, Unbound, Types
<1>3. ASSUME NEW s \in SockId, Bind(s) PROVE Origin'
  BY <1>3 DEF Bind, Origin, Unbound, Types, Located
<1>4. ASSUME NEW s \in SockId, Listen(s) PROVE Origin'
  BY <1>4 DEF Listen, Origin, Unbound, Types, Located
<1>5. CASE CloseUnregister
  BY <1>5, Unregistered DEF CloseUnregister, Origin, Unbound, Types
<1>6. CASE Cleanup
  BY <1>6 DEF Cleanup, Origin, Unbound, Types, SetStatus, Life
<1>7. CASE GarbageCollect
  <2>1. PICK tbc, tbr, orphans, closed, lingered :
            Pass(tbc, tbr, orphans, closed, lingered)
    BY <1>7, GarbageCollectIsPass
  <2>2. /\ tbr \subseteq closedSockets
        /\ \A s \in SockId :
              /\ status'[s] = IF s \in tbr THEN "deleted"
                              ELSE IF s \in tbc \cup orphans THEN "CLOSED" ELSE status[s]
              /\ listenSocket'[s] = IF s \in tbr THEN NoSock ELSE listenSocket[s]
              /\ peer'[s] = IF s \in tbr THEN NoPeer ELSE peer[s]
    BY <2>1 DEF Pass
  <2>3. Unbound' \subseteq Unbound /\ NoSock \notin Unbound'
    BY <2>2 DEF Unbound
  <2> QED
    BY <2>2, <2>3 DEF Origin, Unbound
<1>8. CASE ReplaceBroken
  BY <1>8, Replaced DEF ReplaceBroken, Origin, Unbound, Types
<1>9. CASE Create
  BY <1>9, NextIsFresh
  DEF Create, Origin, Unbound, Types, NewSocketOfPeer, WorkerInv, Registered
<1>10. CASE CreateFails
  BY <1>10, NextIsFresh
  DEF CreateFails, Origin, Unbound, Types, NewSocketOfPeer, WorkerInv, Registered
<1> QED
  BY <1>1, <1>2, <1>3, <1>4, <1>5, <1>6, <1>7, <1>8, <1>9, <1>10
  DEF Next, CallOn, WorkerOn, AcceptStep, CloseStep, NewConnection, Send, AcceptCall,
    AcceptTake, AcceptFail, AcceptWait, AcceptWoken, AcceptReturn, CloseListener,
    CloseBroadcast, CloseLingers, CloseConnection, TakeNewEntry, Request,
    LocateListener, AnswerAgain, NoOldConnection, Refuse, Register, Enqueue, Announce,
    SignalAccept, Break, Acknowledged, Drop

\* m_bOnList follows the worker's list and its new entries.
LEMMA OnListStep ==
    ASSUME SharedInv, ~LateRequests, Next
    PROVE  OnListExact'
<1> USE BoundsAssumption DEF SharedInv, registryVars, flagVars, originVars, muxVars,
      rcvQueueVars, modeVars
<1>1. CASE UNCHANGED <<onList, rcvList, newEntry, peer>>
  BY <1>1 DEF OnListExact, Accepted, NewEntries, Types
<1>2. ASSUME NEW s \in SockId, Bind(s) PROVE OnListExact'
  BY <1>2 DEF Bind, OnListExact, Accepted, NewEntries, Types, Origin
<1>3. CASE TakeNewEntry
  <2>1. EntriesOf(newEntry) = {Head(newEntry)} \cup EntriesOf(newEntry')
    BY <1>3, EntriesOfTail DEF TakeNewEntry, Types
  <2>2. rcvList' = rcvList \cup {Head(newEntry)} /\ UNCHANGED <<onList, peer>>
    BY <1>3 DEF TakeNewEntry
  <2>3. NewEntries = EntriesOf(newEntry) /\ NewEntries' = EntriesOf(newEntry')
    BY DEF NewEntries, EntriesOf
  <2> QED
    BY <2>1, <2>2, <2>3 DEF OnListExact, Accepted
<1>4. CASE Create
  <2>1. nextId \in SockId
    BY <1>4, NextIsFresh DEF Create, NewSocketOfPeer
  <2>2. EntriesOf(newEntry') = EntriesOf(newEntry) \cup {nextId}
    BY <1>4, <2>1, EntriesOfAppend DEF Create, Types
  <2>3. onList' = onList \cup {nextId} /\ rcvList' = rcvList
    BY <1>4 DEF Create
  <2>4. NewEntries = EntriesOf(newEntry) /\ NewEntries' = EntriesOf(newEntry')
    BY DEF NewEntries, EntriesOf
  <2>5. Accepted \cup {nextId} \subseteq Accepted'
    BY <1>4, <2>1 DEF Create, NewSocketOfPeer, Accepted, Types, WorkerInv
  <2> QED
    BY <2>2, <2>3, <2>4, <2>5 DEF OnListExact
<1>5. CASE CreateFails
  BY <1>5, NextIsFresh
  DEF CreateFails, OnListExact, Accepted, NewEntries, Types, NewSocketOfPeer
<1>6. ASSUME NEW s \in SockId, Drop(s) PROVE OnListExact'
  BY <1>6 DEF Drop, OnListExact, Accepted, NewEntries, Types, LeaveRcvList
<1>7. CASE GarbageCollect
  <2>1. PICK tbc, tbr, orphans, closed, lingered :
            Pass(tbc, tbr, orphans, closed, lingered)
    BY <1>7, GarbageCollectIsPass
  <2>2. /\ tbr \cap onList = {} /\ UNCHANGED <<onList, rcvList, newEntry>>
        /\ \A s \in SockId : peer'[s] = IF s \in tbr THEN NoPeer ELSE peer[s]
    BY <2>1 DEF Pass
  <2>3. onList \subseteq Accepted'
    BY <2>2 DEF OnListExact, Accepted
  <2> QED
    BY <2>2, <2>3 DEF OnListExact, NewEntries
<1> QED
  BY <1>1, <1>2, <1>3, <1>4, <1>5, <1>6, <1>7
  DEF Next, CallOn, WorkerOn, AcceptStep, CloseStep, NewConnection, NewSocket, Listen,
    Send, AcceptCall, AcceptTake, AcceptFail, AcceptWait, AcceptWoken, AcceptReturn,
    CloseListener, CloseBroadcast, CloseLingers, CloseConnection, CloseUnregister,
    Cleanup, Request, LocateListener, AnswerAgain, ReplaceBroken, NoOldConnection,
    Refuse, Register, Enqueue, Announce, SignalAccept, Break, Acknowledged

\* The receive queue's listener is open until CUDT::close() takes it out.
LEMMA ListenerStep ==
    ASSUME SharedInv, ~LateRequests, Next
    PROVE  Listener'
<1> USE BoundsAssumption DEF SharedInv, registryVars, flagVars, originVars, muxVars,
      rcvQueueVars, modeVars
<1>1. CASE UNCHANGED <<pListener, sockets, closedSockets, opened, status, peer, closer>>
  BY <1>1 DEF Listener, Registered, Types
<1>2. CASE NewSocket
  BY <1>2, NextIsFresh DEF NewSocket, Listener, Registered, Types
<1>3. ASSUME NEW s \in SockId, Bind(s) PROVE Listener'
  BY <1>3 DEF Bind, Listener, Registered, Types, Located, Life
<1>4. ASSUME NEW s \in SockId, Listen(s) PROVE Listener'
  BY <1>4 DEF Listen, Listener, Registered, Types, Located, Origin
<1>5. ASSUME NEW s \in SockId, CloseListener(s) PROVE Listener'
  BY <1>5 DEF CloseListener, Listener, Registered, Types, Closers
<1>6. CASE CloseBroadcast
  BY <1>6 DEF CloseBroadcast, Listener, Registered, Types, Closers, IdleCloser
<1>7. ASSUME NEW s \in SockId, CloseLingers(s) PROVE Listener'
  BY <1>7
  DEF CloseLingers, Listener, Registered, Types, Closers, Located, Flags, Accepted,
    Origin, Deleted
<1>8. ASSUME NEW s \in SockId, CloseConnection(s) PROVE Listener'
  BY <1>8 DEF CloseConnection, Listener, Registered, Types, Closers, CloseUDT, Located
<1>9. CASE CloseUnregister
  <2>1. Registered' = Registered /\ UNCHANGED <<pListener, opened, peer>>
    BY <1>9, Unregistered DEF CloseUnregister, Registered
  <2>2. ASSUME NEW s \in SockId, status'[s] = "OPENED" PROVE s \in opened
    <3>1. status[s] = "OPENED"
      BY <1>9, <2>2, Unregistered DEF Types
    <3>2. s # closer.s
      BY <1>9, <2>2, <3>1, Unregistered DEF Types, Located, Life
    <3> QED
      BY <3>1, <3>2 DEF Listener
  <2> QED
    BY <2>1, <2>2 DEF Listener
<1>10. CASE Cleanup
  BY <1>10 DEF Cleanup, Listener, Registered, Types, SetStatus, CloseUDT, Life
<1>11. CASE GarbageCollect
  <2>1. PICK tbc, tbr, orphans, closed, lingered :
            Pass(tbc, tbr, orphans, closed, lingered)
    BY <1>11, GarbageCollectIsPass
  <2>2. /\ tbr \subseteq closedSockets
        /\ \A s \in tbr \ closed : Lingers(s)
        /\ pListener' = IF pListener \in closed \cap opened THEN NoSock ELSE pListener
        /\ opened' = opened \ closed /\ closed \subseteq tbr \cup orphans
        /\ sockets' = sockets \ (tbc \cup orphans)
        /\ closedSockets' = (closedSockets \cup tbc \cup orphans) \ tbr /\ closer' = closer
    BY <2>1 DEF Pass
  <2>3. \A s \in SockId :
              /\ status'[s] = IF s \in tbr THEN "deleted"
                              ELSE IF s \in tbc \cup orphans THEN "CLOSED" ELSE status[s]
              /\ peer'[s] = IF s \in tbr THEN NoPeer ELSE peer[s]
    BY <2>1 DEF Pass
  <2>4. ASSUME pListener' # NoSock
        PROVE  pListener' \in Registered' \cap opened' /\ peer'[pListener'] = NoPeer
    <3>1. pListener' = pListener /\ pListener \in Registered \cap opened
          /\ pListener \notin closed /\ peer[pListener] = NoPeer
      BY <2>2, <2>4 DEF Listener
    <3>2. pListener \in SockId
      BY <3>1 DEF Types, Registered
    <3>3. pListener \notin tbr
      BY <2>2, <3>1, <3>2 DEF Lingers, Flags, Accepted, Deleted, Life, Registered
    <3> QED
      BY <2>2, <2>3, <3>1, <3>2, <3>3 DEF Registered
  <2>5. \A s \in SockId : status'[s] = "OPENED" =>
           s \in opened' \/ (closer'.pc = "unregister" /\ closer'.s = s)
    BY <2>2, <2>3 DEF Listener
  <2> QED
    BY <2>4, <2>5 DEF Listener
<1>12. CASE ReplaceBroken
  BY <1>12, Replaced DEF ReplaceBroken, Listener, Registered, Types
<1>13. CASE Create
  <2>1. /\ nextId \in SockId /\ status' = [status EXCEPT ![nextId] = "CONNECTED"]
        /\ peer' = [peer EXCEPT ![nextId] = worker.peer] /\ nextId \notin Registered
        /\ UNCHANGED <<pListener, sockets, closedSockets, closer>> /\ opened \subseteq opened'
    BY <1>13, NextIsFresh DEF Create, NewSocketOfPeer
  <2>2. pListener # NoSock => peer'[pListener] = peer[pListener]
    BY <2>1 DEF Listener, Types
  <2>3. \A s \in SockId : status'[s] = "OPENED" => status[s] = "OPENED"
    BY <2>1 DEF Types
  <2> QED
    BY <2>1, <2>2, <2>3 DEF Listener, Registered
<1>14. CASE CreateFails
  <2>1. /\ nextId \in SockId /\ status' = [status EXCEPT ![nextId] = "CLOSED"]
        /\ peer' = [peer EXCEPT ![nextId] = worker.peer] /\ nextId \notin Registered
        /\ UNCHANGED <<pListener, sockets, closedSockets, opened, closer>>
    BY <1>14, NextIsFresh DEF CreateFails, NewSocketOfPeer
  <2>2. pListener # NoSock => peer'[pListener] = peer[pListener]
    BY <2>1 DEF Listener, Types
  <2>3. \A s \in SockId : status'[s] = "OPENED" => status[s] = "OPENED"
    BY <2>1 DEF Types
  <2> QED
    BY <2>1, <2>2, <2>3 DEF Listener, Registered
<1>15. CASE Register
  BY <1>15 DEF Register, Listener, Registered, Types
<1> QED
  BY <1>1, <1>2, <1>3, <1>4, <1>5, <1>6, <1>7, <1>8, <1>9, <1>10, <1>11, <1>12, <1>13,
    <1>14, <1>15
  DEF Next, CallOn, WorkerOn, AcceptStep, CloseStep, NewConnection, Send, AcceptCall,
    AcceptTake, AcceptFail, AcceptWait, AcceptWoken, AcceptReturn, TakeNewEntry,
    Request, LocateListener, AnswerAgain, NoOldConnection, Refuse, Enqueue, Announce,
    SignalAccept, Break, Acknowledged, Drop

\* The sockets newConnection() works on stay where it found or put them.
LEMMA WorkerStep ==
    ASSUME SharedInv, ~LateRequests, Next
    PROVE  WorkerInv'
<1> USE BoundsAssumption DEF SharedInv, registryVars, flagVars, originVars, muxVars,
      rcvQueueVars, modeVars
<1>1. CASE UNCHANGED <<worker, sockets, closedSockets, status, peer, listenSocket,
  known, broken, queued, accepter>>
  BY <1>1 DEF WorkerInv, Registered, Unbound, Deleted, Types
<1>2. CASE NewSocket
  BY <1>2, NextIsFresh, WorkersSocket
  DEF NewSocket, WorkerInv, Registered, Unbound, Deleted, Types, WithSocket, Fresh
<1>3. ASSUME NEW s \in SockId, Bind(s) PROVE WorkerInv'
  BY <1>3
  DEF Bind, WorkerInv, Registered, Unbound, Deleted, Types, WithSocket, Fresh, Located,
    Life
<1>4. ASSUME NEW s \in SockId, Listen(s) PROVE WorkerInv'
  BY <1>4
  DEF Listen, WorkerInv, Registered, Unbound, Deleted, Types, WithSocket, Fresh, Located
<1>5. ASSUME NEW s \in SockId, AcceptCall(s) PROVE WorkerInv'
  BY <1>5, WorkersSocket
  DEF AcceptCall, WorkerInv, Registered, Unbound, Deleted, Types, Accepters, WithSocket,
    Fresh, Located, CallsInv, IdleAccepter
<1>6. CASE AcceptTake
  <2>1. PICK g \in queued[accepter.ls] :
           /\ g \in SockId /\ accepter' = [accepter EXCEPT !.pc = "got", !.got = g]
           /\ queued' = [queued EXCEPT ![accepter.ls] = @ \ {g}]
    BY <1>6, Taken
  <2>2. UNCHANGED <<worker, sockets, closedSockets, status, peer, listenSocket, known, broken>>
    BY <1>6 DEF AcceptTake
  <2>3. accepter'.got = g /\ \A l \in SockId : queued'[l] \subseteq queued[l]
    BY <2>1 DEF Types
  <2>4. worker.pc \in Fresh => worker.ns # g
    BY <1>6, Taken, <2>1 DEF WorkerInv
  <2> QED
    BY <2>2, <2>3, <2>4 DEF WorkerInv, Registered, Unbound, Deleted
<1>7. CASE AcceptFail
  BY <1>7
  DEF AcceptFail, WorkerInv, Registered, Unbound, Deleted, Types, Accepters,
    IdleAccepter, WithSocket, Fresh
<1>8. CASE AcceptWait
  BY <1>8
  DEF AcceptWait, WorkerInv, Registered, Unbound, Deleted, Types, Accepters, WithSocket,
    Fresh
<1>9. CASE AcceptWoken
  BY <1>9
  DEF AcceptWoken, WorkerInv, Registered, Unbound, Deleted, Types, Accepters,
    WithSocket, Fresh
<1>10. CASE AcceptReturn
  BY <1>10
  DEF AcceptReturn, WorkerInv, Registered, Unbound, Deleted, Types, Accepters,
    WithSocket, Fresh, IdleAccepter
<1>11. ASSUME NEW s \in SockId, CloseListener(s) PROVE WorkerInv'
  BY <1>11
  DEF CloseListener, WorkerInv, Registered, Unbound, Deleted, Types, WithSocket, Fresh
<1>12. CASE CloseBroadcast
  BY <1>12
  DEF CloseBroadcast, WorkerInv, Registered, Unbound, Deleted, Types, Accepters,
    WakeAccepter, WithSocket, Fresh
<1>13. CASE CloseUnregister
  BY <1>13, Unregistered
  DEF CloseUnregister, WorkerInv, Registered, Unbound, Deleted, Types, WithSocket, Fresh
<1>14. CASE Cleanup
  BY <1>14
  DEF Cleanup, WorkerInv, Registered, Unbound, Deleted, Types, IdleWorker, WithSocket,
    Fresh
<1>15. CASE GarbageCollect
  <2>1. PICK tbc, tbr, orphans, closed, lingered :
            Pass(tbc, tbr, orphans, closed, lingered)
    BY <1>15, GarbageCollectIsPass
  <2>2. /\ tbr \subseteq closedSockets /\ orphans \subseteq sockets /\ worker' = worker
        /\ accepter' = accepter
        /\ worker.ns \notin tbr /\ (worker.pc # "idle" => worker.ls \notin tbr)
        /\ tbc \subseteq sockets \cap broken
        /\ \A s \in orphans : listenSocket[s] \in tbr
        /\ sockets' = sockets \ (tbc \cup orphans) /\ known' = known \ tbr
        /\ closedSockets' = (closedSockets \cup tbc \cup orphans) \ tbr
        /\ broken' = (broken \cup orphans) \ tbr
    BY <2>1 DEF Pass
  <2>3. \A s \in SockId :
              /\ status'[s] = IF s \in tbr THEN "deleted"
                              ELSE IF s \in tbc \cup orphans THEN "CLOSED" ELSE status[s]
              /\ listenSocket'[s] = IF s \in tbr THEN NoSock ELSE listenSocket[s]
              /\ peer'[s] = IF s \in tbr THEN NoPeer ELSE peer[s]
              /\ queued'[s] = IF s \in tbr THEN {} ELSE Dequeue(s, tbc)
    BY <2>1 DEF Pass
  <2>4. worker.pc \in WithSocket => worker.ns \notin orphans
    BY <2>2, WorkersSocket DEF WorkerInv, WithSocket, Fresh
  <2>5. worker.pc # "idle" => worker'.ls \in Registered' \ Unbound'
                              /\ peer'[worker'.ls] = NoPeer /\ worker'.peer # NoPeer
    BY <2>2, <2>3 DEF WorkerInv, Registered, Unbound, Types
  <2>6. worker.pc \in WithSocket =>
          /\ worker'.ns \in SockId /\ status'[worker'.ns] # "deleted"
          /\ listenSocket'[worker'.ns] = worker'.ls /\ peer'[worker'.ns] = worker'.peer
    BY <2>2, <2>3 DEF WorkerInv, Deleted
  <2>7. worker.pc = "register" => worker'.ns \notin Registered'
    BY <2>2 DEF WorkerInv, Registered
  <2>8. worker.pc = "queue" => worker'.ns \in sockets'
    BY <2>2, <2>4 DEF WorkerInv, WithSocket, Fresh
  <2>9. \A l \in SockId : queued'[l] \subseteq queued[l]
    BY <2>3 DEF Dequeue
  <2>10. worker.pc \in Fresh =>
          /\ worker'.ns \notin known' \cup broken' /\ worker'.ns # accepter'.got
          /\ \A l \in SockId : worker'.ns \notin queued'[l]
    BY <2>2, <2>4, <2>9 DEF WorkerInv, WithSocket
  <2>11. (worker.pc = "idle" => worker' = IdleWorker)
         /\ (worker.pc \notin WithSocket => worker'.ns = NoSock)
    BY <2>2 DEF WorkerInv
  <2> QED
    BY <2>2, <2>5, <2>6, <2>7, <2>8, <2>10, <2>11 DEF WorkerInv, Deleted
<1>16. ASSUME NEW p \in Peers, Request(p) PROVE WorkerInv'
  BY <1>16
  DEF Request, WorkerInv, Registered, Unbound, Deleted, Types, Workers, Listener, Flags,
    Used, WithSocket, Fresh, IdleWorker
<1>17. CASE LocateListener
  BY <1>17
  DEF LocateListener, WorkerInv, Registered, Unbound, Deleted, Types, Workers,
    WithSocket, Fresh, IdleWorker
<1>18. CASE AnswerAgain
  BY <1>18
  DEF AnswerAgain, WorkerInv, Registered, Unbound, Deleted, Types, Workers, WithSocket,
    Fresh, IdleWorker
<1>19. CASE ReplaceBroken
  BY <1>19, Replaced
  DEF ReplaceBroken, WorkerInv, Registered, Unbound, Deleted, Types, Workers,
    WithSocket, Fresh
<1>20. CASE NoOldConnection
  BY <1>20
  DEF NoOldConnection, WorkerInv, Registered, Unbound, Deleted, Types, Workers,
    WithSocket, Fresh
<1>21. CASE Refuse
  BY <1>21
  DEF Refuse, WorkerInv, Registered, Unbound, Deleted, Types, Workers, WithSocket,
    Fresh, IdleWorker
<1>22. CASE Create
  <2>1. /\ worker.pc = "create" /\ UNCHANGED <<sockets, closedSockets, known, broken, queued>>
        /\ worker' = [worker EXCEPT !.pc = "register", !.ns = nextId] /\ accepter' = accepter
        /\ listenSocket' = [listenSocket EXCEPT ![nextId] = worker.ls]
        /\ peer' = [peer EXCEPT ![nextId] = worker.peer]
        /\ status' = [status EXCEPT ![nextId] = "CONNECTED"] /\ nextId > 0
    BY <1>22 DEF Create, NewSocketOfPeer
  <2>2. /\ worker'.pc = "register" /\ worker'.ns = nextId /\ worker'.ls = worker.ls
        /\ worker'.peer = worker.peer
    BY <2>1 DEF Types
  <2>3. nextId # worker.ls /\ worker.ls \in Registered \ Unbound
    BY <2>1, NextIsFresh DEF WorkerInv
  <2>4. worker'.ls \in Registered' \ Unbound' /\ peer'[worker'.ls] = NoPeer
        /\ worker'.peer # NoPeer
    BY <2>1, <2>2, <2>3 DEF WorkerInv, Registered, Unbound, Types
  <2>5. /\ worker'.ns \in SockId /\ status'[worker'.ns] # "deleted"
        /\ listenSocket'[worker'.ns] = worker'.ls /\ peer'[worker'.ns] = worker'.peer
    BY <2>1, <2>2, NextIsFresh DEF Deleted, Types
  <2>6. worker'.ns # accepter'.got
    BY <2>1, <2>2, NextIsFresh DEF CallsInv, Types
  <2>7. worker'.ns \notin Registered' /\ worker'.ns \notin known' \cup broken'
        /\ \A l \in SockId : worker'.ns \notin queued'[l]
    BY <2>1, <2>2, NextIsFresh DEF Registered
  <2> QED
    BY <2>2, <2>4, <2>5, <2>6, <2>7 DEF WorkerInv, WithSocket, Fresh, Deleted
<1>23. CASE CreateFails
  BY <1>23, NextIsFresh
  DEF CreateFails, WorkerInv, Registered, Unbound, Deleted, Types, Workers, WithSocket,
    Fresh, IdleWorker
<1>24. CASE Register
  BY <1>24
  DEF Register, WorkerInv, Registered, Unbound, Deleted, Types, Workers, WithSocket,
    Fresh
<1>25. CASE Enqueue
  BY <1>25
  DEF Enqueue, WorkerInv, Registered, Unbound, Deleted, Types, Workers, WithSocket,
    Fresh
<1>26. CASE Announce
  BY <1>26
  DEF Announce, WorkerInv, Registered, Unbound, Deleted, Types, Workers, WithSocket,
    Fresh
<1>27. CASE SignalAccept
  BY <1>27
  DEF SignalAccept, WorkerInv, Registered, Unbound, Deleted, Types, Workers, Accepters,
    IdleWorker, WithSocket, Fresh
<1>28. ASSUME NEW s \in SockId, Break(s) PROVE WorkerInv'
  BY <1>28 DEF Break, WorkerInv, Registered, Unbound, Deleted, Types, WithSocket, Fresh
<1> QED
  BY <1>1, <1>2, <1>3, <1>4, <1>5, <1>6, <1>7, <1>8, <1>9, <1>10, <1>11, <1>12, <1>13,
    <1>14, <1>15, <1>16, <1>17, <1>18, <1>19, <1>20, <1>21, <1>22, <1>23, <1>24, <1>25,
    <1>26, <1>27, <1>28
  DEF Next, CallOn, WorkerOn, AcceptStep, CloseStep, NewConnection, Send, CloseLingers,
    CloseConnection, TakeNewEntry, Acknowledged, Drop

\* The sockets accept() and close() work on are not deleted under them.
LEMMA CallsStep ==
    ASSUME SharedInv, ~LateRequests, Next
    PROVE  CallsInv'
<1> USE BoundsAssumption DEF SharedInv, registryVars, flagVars, originVars, muxVars,
      rcvQueueVars, modeVars
<1>1. CASE UNCHANGED <<accepter, closer, sockets, closedSockets, queued, known, status>>
  BY <1>1 DEF CallsInv, Registered, Types
<1>2. CASE NewSocket
  BY <1>2 DEF NewSocket, CallsInv, Registered, Types, Life
<1>3. ASSUME NEW s \in SockId, Bind(s) PROVE CallsInv'
  BY <1>3 DEF Bind, CallsInv, Registered, Types, Located
<1>4. ASSUME NEW s \in SockId, Listen(s) PROVE CallsInv'
  BY <1>4 DEF Listen, CallsInv, Registered, Types, Located
<1>5. ASSUME NEW s \in SockId, AcceptCall(s) PROVE CallsInv'
  BY <1>5 DEF AcceptCall, CallsInv, Registered, Types, Accepters, Located, IdleAccepter
<1>6. CASE AcceptTake
  <2>1. PICK g \in queued[accepter.ls] :
           /\ g \in SockId /\ accepter' = [accepter EXCEPT !.pc = "got", !.got = g]
           /\ queued' = [queued EXCEPT ![accepter.ls] = @ \ {g}]
    BY <1>6, Taken
  <2>2. UNCHANGED <<sockets, closedSockets, status, known, closer>>
    BY <1>6 DEF AcceptTake
  <2>3. /\ accepter.ls \in SockId /\ accepter.pc # "idle"
        /\ accepter'.pc = "got" /\ accepter'.ls = accepter.ls /\ accepter'.got = g
    BY <1>6, <2>1, Taken DEF AcceptTake, Types, Accepters
  <2>4. g \in sockets /\ listenSocket[g] = accepter.ls
    BY <2>1, <2>3 DEF Queues
  <2>5. \A l \in SockId : g \notin queued'[l]
    BY <2>1, <2>3, <2>4 DEF Queues, Types
  <2> QED
    BY <2>2, <2>3, <2>4, <2>5 DEF CallsInv, Registered
<1>7. CASE AcceptFail
  BY <1>7 DEF AcceptFail, CallsInv, Registered, Types, Accepters, IdleAccepter
<1>8. CASE AcceptWait
  BY <1>8 DEF AcceptWait, CallsInv, Registered, Types, Accepters
<1>9. CASE AcceptWoken
  BY <1>9 DEF AcceptWoken, CallsInv, Registered, Types, Accepters
<1>10. CASE AcceptReturn
  BY <1>10 DEF AcceptReturn, CallsInv, Registered, Types, Accepters, IdleAccepter
<1>11. ASSUME NEW s \in SockId, CloseListener(s) PROVE CallsInv'
  BY <1>11 DEF CloseListener, CallsInv, Registered, Types, Closers
<1>12. CASE CloseBroadcast
  BY <1>12
  DEF CloseBroadcast, CallsInv, Registered, Types, Accepters, Closers, WakeAccepter,
    IdleCloser
<1>13. ASSUME NEW s \in SockId, CloseLingers(s) PROVE CallsInv'
  BY <1>13 DEF CloseLingers, CallsInv, Registered, Types, Closers
<1>14. ASSUME NEW s \in SockId, CloseConnection(s) PROVE CallsInv'
  BY <1>14 DEF CloseConnection, CallsInv, Registered, Types, Closers, Located
<1>15. CASE CloseUnregister
  BY <1>15, Unregistered
  DEF CloseUnregister, CallsInv, Registered, Types, Closers, IdleCloser
<1>16. CASE Cleanup
  BY <1>16 DEF Cleanup, CallsInv, Registered, Types, SetStatus
<1>17. CASE GarbageCollect
  <2>1. PICK tbc, tbr, orphans, closed, lingered :
            Pass(tbc, tbr, orphans, closed, lingered)
    BY <1>17, GarbageCollectIsPass
  <2>2. /\ tbr \subseteq closedSockets /\ orphans \subseteq sockets
        /\ accepter.ls \notin tbr /\ accepter.got \notin tbr /\ closer.s \notin tbr
        /\ sockets' = sockets \ (tbc \cup orphans) /\ known' = known \ tbr
        /\ closedSockets' = (closedSockets \cup tbc \cup orphans) \ tbr
        /\ accepter' = accepter /\ closer' = closer
    BY <2>1 DEF Pass
  <2>3. \A s \in SockId :
              /\ status'[s] = IF s \in tbr THEN "deleted"
                              ELSE IF s \in tbc \cup orphans THEN "CLOSED" ELSE status[s]
              /\ queued'[s] = IF s \in tbr THEN {} ELSE Dequeue(s, tbc)
    BY <2>1 DEF Pass
  <2>4. \A l \in SockId : queued'[l] \subseteq queued[l]
    BY <2>3 DEF Dequeue
  <2>5. Registered \ tbr \subseteq Registered'
    BY <2>2 DEF Registered
  <2>6. closer.pc # "idle" => closer.s \in SockId
    BY DEF CallsInv, Life, Registered, Types
  <2>7. closer.pc \in {"linger", "unregister"} => status'[closer.s] # "LISTENING"
    BY <2>3, <2>6 DEF CallsInv
  <2> QED
    BY <2>2, <2>4, <2>5, <2>7 DEF CallsInv
<1>18. CASE ReplaceBroken
  BY <1>18, Replaced DEF ReplaceBroken, CallsInv, Registered, Types
<1>19. CASE Create
  BY <1>19, NextIsFresh DEF Create, CallsInv, Registered, Types, NewSocketOfPeer
<1>20. CASE CreateFails
  BY <1>20, NextIsFresh DEF CreateFails, CallsInv, Registered, Types, NewSocketOfPeer
<1>21. CASE Register
  BY <1>21 DEF Register, CallsInv, Registered, Types
<1>22. CASE Enqueue
  BY <1>22 DEF Enqueue, CallsInv, Registered, Types, WorkerInv, Fresh
<1>23. CASE SignalAccept
  BY <1>23 DEF SignalAccept, CallsInv, Registered, Types, Accepters, WakeAccepter
<1> QED
  BY <1>1, <1>2, <1>3, <1>4, <1>5, <1>6, <1>7, <1>8, <1>9, <1>10, <1>11, <1>12, <1>13,
    <1>14, <1>15, <1>16, <1>17, <1>18, <1>19, <1>20, <1>21, <1>22, <1>23
  DEF Next, CallOn, WorkerOn, AcceptStep, CloseStep, NewConnection, Send, TakeNewEntry,
    Request, LocateListener, AnswerAgain, NoOldConnection, Refuse, Announce, Break,
    Acknowledged, Drop

\* Nothing begins after cleanup().
LEMMA StoppedStep ==
    ASSUME SharedInv, ~LateRequests, Next
    PROVE  Stopped'
<1> USE BoundsAssumption DEF SharedInv, registryVars, flagVars, originVars, muxVars,
      rcvQueueVars, modeVars
<1>1. CASE UNCHANGED <<running, sockets, worker, accepter, closer>>
  BY <1>1 DEF Stopped, Types
<1>2. CASE NewSocket
  BY <1>2 DEF NewSocket, Stopped, Types
<1>3. ASSUME NEW s \in SockId, AcceptCall(s) PROVE Stopped'
  BY <1>3 DEF AcceptCall, Stopped, Types, Accepters, Located
<1>4. CASE AcceptTake
  BY <1>4 DEF AcceptTake, Stopped, Types, Accepters
<1>5. CASE AcceptFail
  BY <1>5 DEF AcceptFail, Stopped, Types, Accepters, IdleAccepter
<1>6. CASE AcceptWait
  BY <1>6 DEF AcceptWait, Stopped, Types, Accepters
<1>7. CASE AcceptWoken
  BY <1>7 DEF AcceptWoken, Stopped, Types, Accepters
<1>8. CASE AcceptReturn
  BY <1>8 DEF AcceptReturn, Stopped, Types, Accepters, IdleAccepter
<1>9. ASSUME NEW s \in SockId, CloseListener(s) PROVE Stopped'
  BY <1>9 DEF CloseListener, Stopped, Types, Closers, Located
<1>10. CASE CloseBroadcast
  BY <1>10
  DEF CloseBroadcast, Stopped, Types, Accepters, Closers, IdleCloser, WakeAccepter
<1>11. ASSUME NEW s \in SockId, CloseLingers(s) PROVE Stopped'
  BY <1>11 DEF CloseLingers, Stopped, Types, Closers, Located
<1>12. ASSUME NEW s \in SockId, CloseConnection(s) PROVE Stopped'
  BY <1>12 DEF CloseConnection, Stopped, Types, Closers, Located
<1>13. CASE CloseUnregister
  BY <1>13, Unregistered DEF CloseUnregister, Stopped, Types, Closers, IdleCloser
<1>14. CASE Cleanup
  BY <1>14 DEF Cleanup, Stopped, Types
<1>15. CASE GarbageCollect
  <2>1. PICK tbc, tbr, orphans, closed, lingered :
            Pass(tbc, tbr, orphans, closed, lingered)
    BY <1>15, GarbageCollectIsPass
  <2> QED
    BY <2>1 DEF Pass, Stopped, Types, Pass
<1>16. ASSUME NEW p \in Peers, Request(p) PROVE Stopped'
  BY <1>16 DEF Request, Stopped, Types, Workers
<1>17. CASE LocateListener
  BY <1>17 DEF LocateListener, Stopped, Types, Workers, Located, IdleWorker
<1>18. CASE AnswerAgain
  BY <1>18 DEF AnswerAgain, Stopped, Types, Workers
<1>19. CASE ReplaceBroken
  BY <1>19 DEF ReplaceBroken, Stopped, Types, Workers
<1>20. CASE NoOldConnection
  BY <1>20 DEF NoOldConnection, Stopped, Types, Workers
<1>21. CASE Refuse
  BY <1>21 DEF Refuse, Stopped, Types, Workers
<1>22. CASE Create
  BY <1>22 DEF Create, Stopped, Types, Workers, NewSocketOfPeer
<1>23. CASE CreateFails
  BY <1>23 DEF CreateFails, Stopped, Types, Workers, NewSocketOfPeer
<1>24. CASE Register
  BY <1>24 DEF Register, Stopped, Types, Workers
<1>25. CASE Enqueue
  BY <1>25 DEF Enqueue, Stopped, Types, Workers
<1>26. CASE Announce
  BY <1>26 DEF Announce, Stopped, Types, Workers
<1>27. CASE SignalAccept
  BY <1>27 DEF SignalAccept, Stopped, Types, Workers, Accepters
<1> QED
  BY <1>1, <1>2, <1>3, <1>4, <1>5, <1>6, <1>7, <1>8, <1>9, <1>10, <1>11, <1>12, <1>13,
    <1>14, <1>15, <1>16, <1>17, <1>18, <1>19, <1>20, <1>21, <1>22, <1>23, <1>24, <1>25,
    <1>26, <1>27
  DEF Next, CallOn, WorkerOn, AcceptStep, CloseStep, NewConnection, Bind, Listen, Send,
    TakeNewEntry, Break, Acknowledged, Drop

\* Only sockets in m_Sockets are in queues, and leave m_Sockets and queue together.
LEMMA QueuesStep ==
    ASSUME SharedInv, ~LateRequests, Next
    PROVE  Queues'
<1> USE BoundsAssumption DEF SharedInv, registryVars, flagVars, originVars, muxVars,
      rcvQueueVars, modeVars
<1>1. CASE UNCHANGED <<queued, sockets, closedSockets, known, listenSocket>>
  BY <1>1 DEF Queues, Registered, Types
<1>2. CASE NewSocket
  BY <1>2, NextIsFresh DEF NewSocket, Queues, Registered, Types
<1>3. CASE AcceptTake
  <2>1. PICK g \in queued[accepter.ls] :
           /\ g \in SockId /\ accepter' = [accepter EXCEPT !.pc = "got", !.got = g]
           /\ queued' = [queued EXCEPT ![accepter.ls] = @ \ {g}]
    BY <1>3, Taken
  <2>2. UNCHANGED <<sockets, closedSockets, known, listenSocket>>
    BY <1>3 DEF AcceptTake
  <2>3. \A l \in SockId : queued'[l] \subseteq queued[l]
    BY <2>1 DEF Types
  <2> QED
    BY <2>2, <2>3 DEF Queues, Registered
<1>4. CASE AcceptReturn
  BY <1>4 DEF AcceptReturn, Queues, Registered, Types, CallsInv
<1>5. CASE CloseUnregister
  BY <1>5, Unregistered DEF CloseUnregister, Queues, Registered, Types
<1>6. CASE Cleanup
  BY <1>6 DEF Cleanup, Queues, Registered, Types
<1>7. CASE GarbageCollect
  <2>1. PICK tbc, tbr, orphans, closed, lingered :
            Pass(tbc, tbr, orphans, closed, lingered)
    BY <1>7, GarbageCollectIsPass
  <2>2. /\ tbr \subseteq closedSockets /\ orphans \subseteq sockets /\ tbc \subseteq sockets
        /\ \A s \in orphans : listenSocket[s] \in tbr
        /\ \A l \in tbr : queued[l] \subseteq orphans \cup tbc
        /\ sockets' = sockets \ (tbc \cup orphans) /\ known' = known \ tbr
        /\ closedSockets' = (closedSockets \cup tbc \cup orphans) \ tbr
    BY <2>1 DEF Pass
  <2>3. \A s \in SockId :
              /\ queued'[s] = IF s \in tbr THEN {} ELSE Dequeue(s, tbc)
              /\ listenSocket'[s] = IF s \in tbr THEN NoSock ELSE listenSocket[s]
    BY <2>1 DEF Pass
  <2>4. ASSUME NEW l \in SockId, NEW s \in queued'[l]
        PROVE  s \in sockets' \ known' /\ listenSocket'[s] = l /\ l \in Registered'
    <3>1. l \notin tbr /\ s \in queued[l]
      BY <2>3, <2>4 DEF Dequeue
    <3>2. s \in sockets \ known /\ listenSocket[s] = l /\ l \in Registered
      BY <3>1 DEF Queues
    <3>3. s \notin tbc
      BY <2>3, <2>4, <3>1, <3>2 DEF Dequeue, Registered
    <3>4. s \notin tbr /\ s \in SockId
      BY <2>2, <3>2 DEF Life, Types
    <3>5. s \notin orphans
      BY <2>2, <3>1, <3>2
    <3> QED
      BY <2>2, <2>3, <3>1, <3>2, <3>3, <3>4, <3>5 DEF Registered
  <2> QED
    BY <2>4 DEF Queues
<1>8. CASE ReplaceBroken
  BY <1>8, Replaced DEF ReplaceBroken, Queues, Registered, Types
<1>9. CASE Create
  BY <1>9, NextIsFresh DEF Create, Queues, Registered, Types, NewSocketOfPeer
<1>10. CASE CreateFails
  BY <1>10, NextIsFresh DEF CreateFails, Queues, Registered, Types, NewSocketOfPeer
<1>11. CASE Register
  BY <1>11 DEF Register, Queues, Registered, Types, WorkerInv, Fresh, WithSocket
<1>12. CASE Enqueue
  BY <1>12 DEF Enqueue, Queues, Registered, Types, WorkerInv, Fresh, WithSocket
<1> QED
  BY <1>1, <1>2, <1>3, <1>4, <1>5, <1>6, <1>7, <1>8, <1>9, <1>10, <1>11, <1>12
  DEF Next, CallOn, WorkerOn, AcceptStep, CloseStep, NewConnection, Bind, Listen, Send,
    AcceptCall, AcceptFail, AcceptWait, AcceptWoken, CloseListener, CloseBroadcast,
    CloseLingers, CloseConnection, TakeNewEntry, Request, LocateListener, AnswerAgain,
    NoOldConnection, Refuse, Announce, SignalAccept, Break, Acknowledged, Drop

\* No step leaves a connection that nobody can accept.
LEMMA OrphansStep ==
    ASSUME SharedInv, ~LateRequests, Next
    PROVE  Orphanless'
<1> USE BoundsAssumption DEF SharedInv, registryVars, flagVars, originVars, muxVars,
      rcvQueueVars, modeVars
<1>1. CASE UNCHANGED <<sockets, known, broken, queued, worker, accepter>>
  BY <1>1 DEF Orphanless, Types
<1>2. CASE NewSocket
  BY <1>2 DEF NewSocket, Orphanless, Types
<1>3. ASSUME NEW s \in SockId, AcceptCall(s) PROVE Orphanless'
  BY <1>3 DEF AcceptCall, Orphanless, Types, Accepters
<1>4. CASE AcceptTake
  <2>1. PICK g \in queued[accepter.ls] :
           /\ g \in SockId /\ accepter' = [accepter EXCEPT !.pc = "got", !.got = g]
           /\ queued' = [queued EXCEPT ![accepter.ls] = @ \ {g}]
    BY <1>4, Taken
  <2>2. UNCHANGED <<sockets, known, broken, worker>>
    BY <1>4 DEF AcceptTake
  <2>3. accepter.pc = "test" /\ accepter'.pc = "got" /\ accepter'.got = g
    BY <1>4, <2>1 DEF AcceptTake, Types, Accepters
  <2>4. \A l, s \in SockId : s \in queued[l] => s \in queued'[l] \/ s = g
    BY <2>1 DEF Types
  <2> QED
    BY <2>2, <2>3, <2>4 DEF Orphanless, Types
<1>5. CASE AcceptFail
  BY <1>5 DEF AcceptFail, Orphanless, Types, Accepters
<1>6. CASE AcceptWait
  BY <1>6 DEF AcceptWait, Orphanless, Types, Accepters
<1>7. CASE AcceptWoken
  BY <1>7 DEF AcceptWoken, Orphanless, Types, Accepters
<1>8. CASE AcceptReturn
  BY <1>8 DEF AcceptReturn, Orphanless, Types, Accepters
<1>9. ASSUME NEW s \in SockId, CloseListener(s) PROVE Orphanless'
  BY <1>9 DEF CloseListener, Orphanless, Types
<1>10. CASE CloseBroadcast
  BY <1>10 DEF CloseBroadcast, Orphanless, Types, Accepters, WakeAccepter
<1>11. CASE CloseUnregister
  BY <1>11, Unregistered DEF CloseUnregister, Orphanless, Types
<1>12. CASE Cleanup
  BY <1>12 DEF Cleanup, Orphanless, Types
<1>13. CASE GarbageCollect
  <2>1. PICK tbc, tbr, orphans, closed, lingered :
            Pass(tbc, tbr, orphans, closed, lingered)
    BY <1>13, GarbageCollectIsPass
  <2>2. /\ tbr \subseteq closedSockets /\ tbc \subseteq broken
        /\ \A l \in tbr : queued[l] \subseteq orphans \cup tbc
        /\ sockets' = sockets \ (tbc \cup orphans) /\ known' = known \ tbr
        /\ broken' = (broken \cup orphans) \ tbr
        /\ worker' = worker /\ accepter' = accepter
        /\ \A s \in SockId : queued'[s] = IF s \in tbr THEN {} ELSE Dequeue(s, tbc)
    BY <2>1 DEF Pass
  <2>3. ASSUME NEW s \in sockets' \ (known' \cup broken')
        PROVE  \/ \E l \in SockId : s \in queued'[l]
               \/ worker.pc = "queue" /\ worker.ns = s
               \/ accepter.pc = "got" /\ accepter.got = s
    <3>1. s \in sockets \ (known \cup broken) /\ s \notin tbc \cup orphans
      BY <2>2, <2>3 DEF Life, Types
    <3>2. ASSUME NEW l \in SockId, s \in queued[l] PROVE s \in queued'[l]
      BY <2>2, <3>1, <3>2 DEF Dequeue
    <3> QED
      BY <3>1, <3>2 DEF Orphanless
  <2> QED
    BY <2>2, <2>3 DEF Orphanless
<1>14. ASSUME NEW p \in Peers, Request(p) PROVE Orphanless'
  BY <1>14 DEF Request, Orphanless, Types, Workers
<1>15. CASE LocateListener
  BY <1>15 DEF LocateListener, Orphanless, Types, Workers
<1>16. CASE AnswerAgain
  BY <1>16 DEF AnswerAgain, Orphanless, Types, Workers
<1>17. CASE ReplaceBroken
  BY <1>17, Replaced DEF ReplaceBroken, Orphanless, Types, Workers
<1>18. CASE NoOldConnection
  BY <1>18 DEF NoOldConnection, Orphanless, Types, Workers
<1>19. CASE Refuse
  BY <1>19 DEF Refuse, Orphanless, Types, Workers
<1>20. CASE Create
  BY <1>20 DEF Create, Orphanless, Types, Workers, NewSocketOfPeer
<1>21. CASE CreateFails
  BY <1>21 DEF CreateFails, Orphanless, Types, Workers, NewSocketOfPeer
<1>22. CASE Register
  BY <1>22 DEF Register, Orphanless, Types, Workers
<1>23. CASE Enqueue
  BY <1>23 DEF Enqueue, Orphanless, Types, Workers, WorkerInv, Registered
<1>24. CASE Announce
  BY <1>24 DEF Announce, Orphanless, Types, Workers
<1>25. CASE SignalAccept
  BY <1>25 DEF SignalAccept, Orphanless, Types, Workers, Accepters, WakeAccepter
<1>26. ASSUME NEW s \in SockId, Break(s) PROVE Orphanless'
  BY <1>26 DEF Break, Orphanless, Types
<1> QED
  BY <1>1, <1>2, <1>3, <1>4, <1>5, <1>6, <1>7, <1>8, <1>9, <1>10, <1>11, <1>12, <1>13,
    <1>14, <1>15, <1>16, <1>17, <1>18, <1>19, <1>20, <1>21, <1>22, <1>23, <1>24, <1>25,
    <1>26
  DEF Next, CallOn, WorkerOn, AcceptStep, CloseStep, NewConnection, Bind, Listen, Send,
    CloseLingers, CloseConnection, TakeNewEntry, Acknowledged, Drop

\* A new connection of a request comes only after the older ones broke.
LEMMA RequestsStep ==
    ASSUME SharedInv, ~LateRequests, Next
    PROVE  Requests'
<1> USE BoundsAssumption DEF SharedInv, registryVars, flagVars, originVars, muxVars,
      rcvQueueVars, modeVars
<1>1. CASE UNCHANGED <<sockets, peer, broken, worker>>
  BY <1>1 DEF Requests, Types
<1>2. CASE NewSocket
  <2>1. sockets' = sockets \cup {nextId} /\ peer[nextId] = NoPeer
        /\ UNCHANGED <<peer, broken, worker>>
    BY <1>2, NextIsFresh DEF NewSocket, Types
  <2>2. worker.pc # "idle" => worker.peer # NoPeer
    BY DEF WorkerInv
  <2> QED
    BY <2>1, <2>2 DEF Requests
<1>3. ASSUME NEW s \in SockId, CloseListener(s) PROVE Requests'
  BY <1>3 DEF CloseListener, Requests, Types
<1>4. CASE CloseUnregister
  BY <1>4, Unregistered DEF CloseUnregister, Requests, Types
<1>5. CASE Cleanup
  BY <1>5 DEF Cleanup, Requests, Types
<1>6. CASE GarbageCollect
  <2>1. PICK tbc, tbr, orphans, closed, lingered :
            Pass(tbc, tbr, orphans, closed, lingered)
    BY <1>6, GarbageCollectIsPass
  <2>2. /\ tbr \subseteq closedSockets /\ sockets' \subseteq sockets /\ worker' = worker
        /\ broken' = (broken \cup orphans) \ tbr
        /\ \A s \in SockId : peer'[s] = IF s \in tbr THEN NoPeer ELSE peer[s]
    BY <2>1 DEF Pass
  <2>3. \A s \in sockets' : peer'[s] = peer[s] /\ (s \in broken => s \in broken')
    BY <2>2 DEF Life, Types
  <2> QED
    BY <2>2, <2>3 DEF Requests
<1>7. ASSUME NEW p \in Peers, Request(p) PROVE Requests'
  BY <1>7 DEF Request, Requests, Types, Workers
<1>8. CASE LocateListener
  BY <1>8 DEF LocateListener, Requests, Types, Workers, IdleWorker
<1>9. CASE AnswerAgain
  BY <1>9 DEF AnswerAgain, Requests, Types, Workers, IdleWorker
<1>10. CASE ReplaceBroken
  <2>1. PICK old \in SockId : /\ old \in sockets /\ old \in broken /\ peer[old] = worker.peer
                              /\ \A s \in sockets : peer[s] = worker.peer => old <= s
    BY <1>10, Replaced
  <2>2. /\ UNCHANGED <<sockets, peer, broken>> /\ worker.pc = "peer"
        /\ worker'.pc = "create" /\ worker'.peer = worker.peer /\ worker.peer # NoPeer
    BY <1>10 DEF ReplaceBroken, Types, WorkerInv
  <2>3. ASSUME NEW s \in sockets, peer[s] = worker.peer PROVE s \in broken
    <3>1. s = old \/ old < s
      BY <2>1, <2>3 DEF Types, SockId
    <3> QED
      BY <2>1, <2>2, <2>3, <3>1 DEF Requests
  <2> QED
    BY <2>2, <2>3 DEF Requests
<1>11. CASE NoOldConnection
  BY <1>11, LocatedFirst DEF NoOldConnection, Requests, Types, Workers
<1>12. CASE Refuse
  BY <1>12 DEF Refuse, Requests, Types, Workers, IdleWorker
<1>13. CASE Create
  <2>1. /\ nextId \in SockId /\ nextId \notin sockets /\ UNCHANGED <<sockets, broken>>
        /\ \A s \in SockId : status[s] # "none" => nextId <= s
    BY <1>13, NextIsFresh DEF Create, NewSocketOfPeer, Registered, Life, SockId
  <2>2. /\ peer' = [peer EXCEPT ![nextId] = worker.peer] /\ worker.pc = "create"
        /\ worker'.pc = "register" /\ worker'.peer = worker.peer /\ worker'.ns = nextId
    BY <1>13 DEF Create, NewSocketOfPeer, Types
  <2>3. \A s \in sockets : peer'[s] = peer[s]
    BY <2>1, <2>2 DEF Types
  <2>4. \A s \in SockId : peer'[s] # NoPeer => nextId <= s
    BY <2>1, <2>2 DEF Types, Origin, SockId
  <2> QED
    BY <2>1, <2>2, <2>3, <2>4 DEF Requests
<1>14. CASE CreateFails
  <2>1. /\ nextId \in SockId /\ nextId \notin sockets /\ UNCHANGED <<sockets, broken>>
        /\ peer' = [peer EXCEPT ![nextId] = worker.peer] /\ worker' = IdleWorker
    BY <1>14, NextIsFresh DEF CreateFails, NewSocketOfPeer, Registered
  <2>2. \A s \in sockets : peer'[s] = peer[s]
    BY <2>1 DEF Types
  <2> QED
    BY <2>1, <2>2 DEF Requests, IdleWorker
<1>15. CASE Register
  <2>1. /\ sockets' = sockets \cup {worker.ns} /\ UNCHANGED <<peer, broken>>
        /\ worker.pc = "register" /\ worker'.pc = "queue"
    BY <1>15 DEF Register, Types
  <2>2. worker.ns \in SockId /\ peer[worker.ns] = worker.peer /\ worker.ns \notin sockets
    BY <2>1, WorkersSocket DEF WorkerInv, WithSocket, Fresh, Registered
  <2>3. ASSUME NEW s \in sockets', NEW u \in sockets', peer[s] # NoPeer, peer[s] = peer[u],
               s < u
        PROVE  u \in broken
    <3>1. worker.ns <= s /\ s \in SockId /\ u \in SockId
      BY <2>1, <2>2, <2>3 DEF Requests, Types
    <3>2. u # worker.ns /\ u \in sockets
      BY <2>1, <2>2, <2>3, <3>1 DEF SockId
    <3> QED
      BY <2>1, <2>2, <2>3, <3>2 DEF Requests
  <2> QED
    BY <2>1, <2>3 DEF Requests
<1>16. CASE Enqueue
  BY <1>16 DEF Enqueue, Requests, Types, Workers
<1>17. CASE Announce
  BY <1>17 DEF Announce, Requests, Types, Workers
<1>18. CASE SignalAccept
  BY <1>18 DEF SignalAccept, Requests, Types, Workers, IdleWorker
<1>19. ASSUME NEW s \in SockId, Break(s) PROVE Requests'
  BY <1>19 DEF Break, Requests, Types
<1> QED
  BY <1>1, <1>2, <1>3, <1>4, <1>5, <1>6, <1>7, <1>8, <1>9, <1>10, <1>11, <1>12, <1>13,
    <1>14, <1>15, <1>16, <1>17, <1>18, <1>19
  DEF Next, CallOn, WorkerOn, AcceptStep, CloseStep, NewConnection, Bind, Listen, Send,
    AcceptCall, AcceptTake, AcceptFail, AcceptWait, AcceptWoken, AcceptReturn,
    CloseBroadcast, CloseLingers, CloseConnection, TakeNewEntry, Acknowledged, Drop

\* Multiplexers are counted in every step.
LEMMA MuxStep ==
    ASSUME SharedInv, ~LateRequests, Next
    PROVE  MuxInv'
<1> USE BoundsAssumption DEF SharedInv, registryVars, flagVars, originVars, muxVars,
      rcvQueueVars, modeVars
<1>1. CASE UNCHANGED <<muxOf, muxRef, opened, status>>
  BY <1>1 DEF MuxInv, MuxCountsSockets, Deleted, Types
<1>2. CASE NewSocket
  <2>1. UNCHANGED muxVars /\ Counted(muxOf', muxRef')
    BY <1>2 DEF NewSocket, MuxInv, MuxCountsSockets, Counted, Users
  <2>2. opened' \subseteq {s \in SockId : muxOf'[s] # NoSock \/ Deleted(s)'}
    BY <1>2, <2>1, NextIsFresh DEF NewSocket, MuxInv, MuxCountsSockets, Deleted, Types
  <2>3. \A s \in SockId : status'[s] \in {"none", "INIT", "deleted"} => muxOf'[s] = NoSock
    BY <1>2, <2>1, NextIsFresh DEF NewSocket, MuxInv, Types
  <2> QED
    BY <2>1, <2>2, <2>3 DEF MuxInv, MuxCountsSockets, Counted, Users
<1>3. ASSUME NEW s \in SockId, Bind(s) PROVE MuxInv'
  <2>1. muxOf[s] = NoSock
    BY <1>3 DEF Bind, MuxInv
  <2>2. PICK m \in IF PortMux = {} THEN {s} ELSE PortMux : JoinMux(s, m)
    BY <1>3 DEF Bind
  <2>3. m \in SockId
    BY <2>2 DEF PortMux
  <2>4. Counted(muxOf', muxRef') /\ muxOf' = [muxOf EXCEPT ![s] = m]
    BY <2>1, <2>2, <2>3, Joined
  <2>5. opened' = opened \cup {s} /\ status' = [status EXCEPT ![s] = "OPENED"]
        /\ status[s] = "INIT"
    BY <1>3 DEF Bind
  <2>6. opened' \subseteq {u \in SockId : muxOf'[u] # NoSock \/ Deleted(u)'}
    BY <2>3, <2>4, <2>5 DEF MuxInv, MuxCountsSockets, Deleted, Types
  <2>7. \A u \in SockId : status'[u] \in {"none", "INIT", "deleted"} => muxOf'[u] = NoSock
    BY <2>4, <2>5 DEF MuxInv, Types
  <2> QED
    BY <2>1, <2>2, <2>3, <2>4, <2>5, <2>6, <2>7 DEF MuxInv, MuxCountsSockets, Counted, Users
<1>4. ASSUME NEW s \in SockId, Listen(s) PROVE MuxInv'
  <2>1. UNCHANGED muxVars /\ Counted(muxOf', muxRef')
    BY <1>4 DEF Listen, MuxInv, MuxCountsSockets, Counted, Users
  <2>2. opened' \subseteq {u \in SockId : muxOf'[u] # NoSock \/ Deleted(u)'}
    BY <1>4, <2>1 DEF Listen, MuxInv, MuxCountsSockets, Deleted, Types
  <2>3. \A u \in SockId : status'[u] \in {"none", "INIT", "deleted"} => muxOf'[u] = NoSock
    BY <1>4, <2>1 DEF Listen, MuxInv, Types
  <2> QED
    BY <2>1, <2>2, <2>3 DEF MuxInv, MuxCountsSockets, Counted, Users
<1>5. ASSUME NEW s \in SockId, CloseConnection(s) PROVE MuxInv'
  BY <1>5 DEF CloseConnection, MuxInv, MuxCountsSockets, Deleted, Types, CloseUDT
<1>6. CASE CloseUnregister
  BY <1>6, Unregistered DEF CloseUnregister, MuxInv, MuxCountsSockets, Deleted, Types
<1>7. CASE Cleanup
  BY <1>7 DEF Cleanup, MuxInv, MuxCountsSockets, Deleted, Types, SetStatus, CloseUDT
<1>8. CASE GarbageCollect
  <2>1. PICK tbc, tbr, orphans, closed, lingered :
            Pass(tbc, tbr, orphans, closed, lingered)
    BY <1>8, GarbageCollectIsPass
  <2>2. /\ tbr \subseteq closedSockets /\ opened' \subseteq opened
        /\ orphans \subseteq sockets /\ tbc \subseteq sockets
        /\ \A s \in SockId :
              /\ status'[s] = IF s \in tbr THEN "deleted"
                              ELSE IF s \in tbc \cup orphans THEN "CLOSED" ELSE status[s]
              /\ muxOf'[s] = IF s \in tbr THEN NoSock ELSE muxOf[s]
              /\ muxRef'[s] = muxRef[s] - Cardinality({u \in tbr : muxOf[u] = s})
    BY <2>1 DEF Pass
  <2>3. Counted(muxOf, muxRef) /\ tbr \in SUBSET SockId
    BY <2>2 DEF MuxInv, MuxCountsSockets, Counted, Users, Types
  <2>4. Counted(muxOf', muxRef') /\ muxOf' \in [SockId -> SockOrNone]
    BY <2>1, LeaveCounts
  <2>5. opened' \subseteq {u \in SockId : muxOf'[u] # NoSock \/ Deleted(u)'}
    BY <2>2, <2>3 DEF MuxInv, MuxCountsSockets, Deleted, Life
  <2>6. \A u \in SockId : status'[u] \in {"none", "INIT", "deleted"} => muxOf'[u] = NoSock
    BY <2>2 DEF MuxInv
  <2> QED
    BY <2>4, <2>5, <2>6 DEF MuxInv, MuxCountsSockets, Counted, Users
<1>9. CASE ReplaceBroken
  <2>1. UNCHANGED <<muxVars, opened>> /\ Counted(muxOf', muxRef')
    BY <1>9 DEF ReplaceBroken, MuxInv, MuxCountsSockets, Counted, Users
  <2>2. PICK old \in SockId : old \in sockets /\ status' = [status EXCEPT ![old] = "CLOSED"]
    BY <1>9, Replaced
  <2>3. opened' \subseteq {u \in SockId : muxOf'[u] # NoSock \/ Deleted(u)'}
    BY <2>1, <2>2 DEF MuxInv, MuxCountsSockets, Deleted, Life, Types
  <2>4. \A u \in SockId : status'[u] \in {"none", "INIT", "deleted"} => muxOf'[u] = NoSock
    BY <2>1, <2>2 DEF MuxInv, Types
  <2> QED
    BY <2>1, <2>2, <2>3, <2>4 DEF MuxInv, MuxCountsSockets, Counted, Users
<1>10. CASE Create
  <2>1. nextId \in SockId /\ muxOf[nextId] = NoSock /\ status[nextId] = "none"
    BY <1>10, NextIsFresh DEF Create, NewSocketOfPeer
  <2>2. PICK m \in PortMux : JoinMux(nextId, m)
    BY <1>10 DEF Create, NewSocketOfPeer
  <2>3. m \in SockId
    BY <2>2 DEF PortMux
  <2>4. Counted(muxOf', muxRef') /\ muxOf' = [muxOf EXCEPT ![nextId] = m]
    BY <2>1, <2>2, <2>3, Joined
  <2>5. opened' \subseteq opened \cup {nextId} /\ status' = [status EXCEPT ![nextId] = "CONNECTED"]
    BY <1>10 DEF Create
  <2>6. opened' \subseteq {u \in SockId : muxOf'[u] # NoSock \/ Deleted(u)'}
    BY <2>1, <2>3, <2>4, <2>5 DEF MuxInv, MuxCountsSockets, Deleted, Types
  <2>7. \A u \in SockId : status'[u] \in {"none", "INIT", "deleted"} => muxOf'[u] = NoSock
    BY <2>1, <2>4, <2>5 DEF MuxInv, Types
  <2> QED
    BY <2>1, <2>2, <2>3, <2>4, <2>5, <2>6, <2>7 DEF MuxInv, MuxCountsSockets, Counted, Users
<1>11. CASE CreateFails
  <2>1. nextId \in SockId /\ muxOf[nextId] = NoSock /\ status[nextId] = "none"
    BY <1>11, NextIsFresh DEF CreateFails, NewSocketOfPeer
  <2>2. PICK m \in PortMux : JoinMux(nextId, m)
    BY <1>11 DEF CreateFails, NewSocketOfPeer
  <2>3. m \in SockId
    BY <2>2 DEF PortMux
  <2>4. Counted(muxOf', muxRef') /\ muxOf' = [muxOf EXCEPT ![nextId] = m]
    BY <2>1, <2>2, <2>3, Joined
  <2>5. opened' \subseteq opened \cup {nextId} /\ status' = [status EXCEPT ![nextId] = "CLOSED"]
    BY <1>11 DEF CreateFails
  <2>6. opened' \subseteq {u \in SockId : muxOf'[u] # NoSock \/ Deleted(u)'}
    BY <2>1, <2>3, <2>4, <2>5 DEF MuxInv, MuxCountsSockets, Deleted, Types
  <2>7. \A u \in SockId : status'[u] \in {"none", "INIT", "deleted"} => muxOf'[u] = NoSock
    BY <2>1, <2>4, <2>5 DEF MuxInv, Types
  <2> QED
    BY <2>1, <2>2, <2>3, <2>4, <2>5, <2>6, <2>7 DEF MuxInv, MuxCountsSockets, Counted, Users
<1> QED
  BY <1>1, <1>2, <1>3, <1>4, <1>5, <1>6, <1>7, <1>8, <1>9, <1>10, <1>11
  DEF Next, CallOn, WorkerOn, AcceptStep, CloseStep, NewConnection, Send, AcceptCall,
    AcceptTake, AcceptFail, AcceptWait, AcceptWoken, AcceptReturn, CloseListener,
    CloseBroadcast, CloseLingers, TakeNewEntry, Request, LocateListener, AnswerAgain,
    NoOldConnection, Refuse, Register, Enqueue, Announce, SignalAccept, Break,
    Acknowledged, Drop

\* The event is set one step after a connection is queued, and cleared with an empty queue.
LEMMA ReadableStep ==
    ASSUME SharedInv, ~LateRequests, Next
    PROVE  ReadableWhenQueued'
<1> USE BoundsAssumption DEF SharedInv, registryVars, flagVars, originVars, muxVars,
      rcvQueueVars, modeVars
<1>1. CASE UNCHANGED <<opened, queued, readable, worker>>
  BY <1>1 DEF ReadableWhenQueued, Types
<1>2. ASSUME NEW s \in SockId, Bind(s) PROVE ReadableWhenQueued'
  BY <1>2 DEF Bind, ReadableWhenQueued, Types, Queues, Origin, Unbound, Located
<1>3. CASE AcceptTake
  BY <1>3, Taken DEF AcceptTake, ReadableWhenQueued, Types, ClearReadable
<1>4. CASE AcceptFail
  BY <1>4 DEF AcceptFail, ReadableWhenQueued, Types, ClearReadable
<1>5. CASE AcceptWoken
  BY <1>5 DEF AcceptWoken, ReadableWhenQueued, Types, ClearReadable
<1>6. ASSUME NEW s \in SockId, CloseConnection(s) PROVE ReadableWhenQueued'
  BY <1>6 DEF CloseConnection, ReadableWhenQueued, Types, CloseUDT
<1>7. CASE Cleanup
  BY <1>7 DEF Cleanup, ReadableWhenQueued, Types, CloseUDT
<1>8. CASE GarbageCollect
  <2>1. PICK tbc, tbr, orphans, closed, lingered :
            Pass(tbc, tbr, orphans, closed, lingered)
    BY <1>8, GarbageCollectIsPass
  <2>2. /\ opened' = opened \ closed /\ readable' = readable \ (closed \cap opened)
        /\ worker' = worker
        /\ \A s \in SockId : queued'[s] = IF s \in tbr THEN {} ELSE Dequeue(s, tbc)
    BY <2>1 DEF Pass
  <2>3. \A l \in SockId : queued'[l] \subseteq queued[l]
    BY <2>2 DEF Dequeue
  <2> QED
    BY <2>2, <2>3 DEF ReadableWhenQueued, Types
<1>9. ASSUME NEW p \in Peers, Request(p) PROVE ReadableWhenQueued'
  BY <1>9 DEF Request, ReadableWhenQueued, Types, Workers
<1>10. CASE LocateListener
  BY <1>10 DEF LocateListener, ReadableWhenQueued, Types, Workers, IdleWorker
<1>11. CASE AnswerAgain
  BY <1>11 DEF AnswerAgain, ReadableWhenQueued, Types, Workers, IdleWorker
<1>12. CASE ReplaceBroken
  BY <1>12, Replaced DEF ReplaceBroken, ReadableWhenQueued, Types, Workers
<1>13. CASE NoOldConnection
  BY <1>13 DEF NoOldConnection, ReadableWhenQueued, Types, Workers
<1>14. CASE Refuse
  BY <1>14 DEF Refuse, ReadableWhenQueued, Types, Workers, IdleWorker
<1>15. CASE Create
  BY <1>15, NextIsFresh DEF Create, ReadableWhenQueued, Types, Workers, NewSocketOfPeer
<1>16. CASE CreateFails
  BY <1>16, NextIsFresh
  DEF CreateFails, ReadableWhenQueued, Types, Workers, NewSocketOfPeer, IdleWorker
<1>17. CASE Register
  BY <1>17 DEF Register, ReadableWhenQueued, Types, Workers
<1>18. CASE Enqueue
  BY <1>18 DEF Enqueue, ReadableWhenQueued, Types, Workers, WorkerInv, Registered
<1>19. CASE Announce
  BY <1>19 DEF Announce, ReadableWhenQueued, Types, Workers
<1>20. CASE SignalAccept
  BY <1>20 DEF SignalAccept, ReadableWhenQueued, Types, Workers, IdleWorker
<1> QED
  BY <1>1, <1>2, <1>3, <1>4, <1>5, <1>6, <1>7, <1>8, <1>9, <1>10, <1>11, <1>12, <1>13,
    <1>14, <1>15, <1>16, <1>17, <1>18, <1>19, <1>20
  DEF Next, CallOn, WorkerOn, AcceptStep, CloseStep, NewConnection, NewSocket, Listen,
    Send, AcceptCall, AcceptWait, AcceptReturn, CloseListener, CloseBroadcast,
    CloseLingers, CloseUnregister, TakeNewEntry, Break, Acknowledged, Drop

\* accept() tests and waits in one step, and is signalled after each change.
LEMMA WakeupStep ==
    ASSUME SharedInv, ~LateRequests, Next
    PROVE  NoLostAcceptWakeup'
<1> USE BoundsAssumption DEF SharedInv, registryVars, flagVars, originVars, muxVars,
      rcvQueueVars, modeVars
<1>1. CASE UNCHANGED <<accepter, queued, worker, closer, status, broken>>
  BY <1>1 DEF NoLostAcceptWakeup, AcceptClosed, Types
<1>2. CASE NewSocket
  BY <1>2, NextIsFresh DEF NewSocket, NoLostAcceptWakeup, AcceptClosed, Types, CallsInv
<1>3. ASSUME NEW s \in SockId, Bind(s) PROVE NoLostAcceptWakeup'
  BY <1>3 DEF Bind, NoLostAcceptWakeup, AcceptClosed, Types, CallsInv
<1>4. ASSUME NEW s \in SockId, Listen(s) PROVE NoLostAcceptWakeup'
  BY <1>4 DEF Listen, NoLostAcceptWakeup, AcceptClosed, Types, CallsInv
<1>5. ASSUME NEW s \in SockId, AcceptCall(s) PROVE NoLostAcceptWakeup'
  BY <1>5 DEF AcceptCall, NoLostAcceptWakeup, AcceptClosed, Types, Accepters
<1>6. CASE AcceptTake
  BY <1>6, Taken DEF AcceptTake, NoLostAcceptWakeup, AcceptClosed, Types, Accepters
<1>7. CASE AcceptFail
  BY <1>7
  DEF AcceptFail, NoLostAcceptWakeup, AcceptClosed, Types, Accepters, IdleAccepter
<1>8. CASE AcceptWait
  BY <1>8 DEF AcceptWait, NoLostAcceptWakeup, AcceptClosed, Types, Accepters
<1>9. CASE AcceptWoken
  BY <1>9 DEF AcceptWoken, NoLostAcceptWakeup, AcceptClosed, Types, Accepters
<1>10. CASE AcceptReturn
  BY <1>10
  DEF AcceptReturn, NoLostAcceptWakeup, AcceptClosed, Types, Accepters, IdleAccepter
<1>11. ASSUME NEW s \in SockId, CloseListener(s) PROVE NoLostAcceptWakeup'
  BY <1>11 DEF CloseListener, NoLostAcceptWakeup, AcceptClosed, Types, Closers
<1>12. CASE CloseBroadcast
  BY <1>12
  DEF CloseBroadcast, NoLostAcceptWakeup, AcceptClosed, Types, Accepters, Closers,
    WakeAccepter
<1>13. ASSUME NEW s \in SockId, CloseLingers(s) PROVE NoLostAcceptWakeup'
  BY <1>13 DEF CloseLingers, NoLostAcceptWakeup, AcceptClosed, Types, Closers
<1>14. ASSUME NEW s \in SockId, CloseConnection(s) PROVE NoLostAcceptWakeup'
  BY <1>14 DEF CloseConnection, NoLostAcceptWakeup, AcceptClosed, Types, Closers
<1>15. CASE CloseUnregister
  <2>1. UNCHANGED <<accepter, queued, worker, broken>> /\ closer.pc = "unregister"
    BY <1>15 DEF CloseUnregister
  <2>2. accepter.pc = "waiting" => ~AcceptClosed(accepter.ls)
    BY <2>1 DEF NoLostAcceptWakeup
  <2>3. closer.s \in SockId /\ status[closer.s] # "LISTENING"
    BY <1>15, <2>1, Unregistered DEF CallsInv
  <2>4. \A s \in SockId : status[s] = "LISTENING" => status'[s] = "LISTENING"
    BY <1>15, <2>3, Unregistered DEF Types
  <2>5. accepter.pc = "waiting" => accepter.ls \in SockId
    BY DEF CallsInv, Registered, Types
  <2> QED
    BY <2>1, <2>2, <2>4, <2>5 DEF NoLostAcceptWakeup, AcceptClosed
<1>16. CASE Cleanup
  BY <1>16 DEF Cleanup, NoLostAcceptWakeup, AcceptClosed, Types
<1>17. CASE GarbageCollect
  <2>1. PICK tbc, tbr, orphans, closed, lingered :
            Pass(tbc, tbr, orphans, closed, lingered)
    BY <1>17, GarbageCollectIsPass
  <2>2. /\ accepter' = accepter /\ worker' = worker /\ closer' = closer
        /\ tbc \subseteq broken /\ broken' \subseteq broken \cup orphans
        /\ \A s \in orphans : s \in sockets /\ listenSocket[s] \in tbr
        /\ tbr \subseteq closedSockets /\ accepter.ls \notin tbr
        /\ \A s \in SockId :
              status'[s] = IF s \in tbr THEN "deleted"
                           ELSE IF s \in tbc \cup orphans THEN "CLOSED" ELSE status[s]
    BY <2>1 DEF Pass
  <2>3. \A l \in SockId : queued'[l] \subseteq queued[l]
    BY <2>1 DEF Pass, Dequeue
  <2> SUFFICES ASSUME accepter.pc = "waiting" PROVE NoLostAcceptWakeup'
    BY <2>2 DEF NoLostAcceptWakeup
  <2> DEFINE l == accepter.ls
  <2>4. l \in SockId
    BY DEF CallsInv, Registered, Types
  <2>5. AcceptClosed(l)' => AcceptClosed(l)
    <3>1. SUFFICES ASSUME status[l] = "LISTENING", l \notin broken
                   PROVE  status'[l] = "LISTENING" /\ l \notin broken'
      BY <2>2 DEF AcceptClosed
    <3>2. listenSocket[l] = NoSock
      BY <2>4, <3>1 DEF Origin
    <3>3. l \notin orphans
      BY <2>2, <3>2, BoundsAssumption DEF Types
    <3> QED
      BY <2>2, <2>4, <3>1, <3>3
  <2> QED
    BY <2>2, <2>3, <2>4, <2>5 DEF NoLostAcceptWakeup
<1>18. ASSUME NEW p \in Peers, Request(p) PROVE NoLostAcceptWakeup'
  BY <1>18 DEF Request, NoLostAcceptWakeup, AcceptClosed, Types, Workers
<1>19. CASE LocateListener
  BY <1>19 DEF LocateListener, NoLostAcceptWakeup, AcceptClosed, Types, Workers
<1>20. CASE AnswerAgain
  BY <1>20 DEF AnswerAgain, NoLostAcceptWakeup, AcceptClosed, Types, Workers
<1>21. CASE ReplaceBroken
  BY <1>21, Replaced
  DEF ReplaceBroken, NoLostAcceptWakeup, AcceptClosed, Types, Workers, CallsInv
<1>22. CASE NoOldConnection
  BY <1>22 DEF NoOldConnection, NoLostAcceptWakeup, AcceptClosed, Types, Workers
<1>23. CASE Refuse
  BY <1>23 DEF Refuse, NoLostAcceptWakeup, AcceptClosed, Types, Workers
<1>24. CASE Create
  BY <1>24, NextIsFresh
  DEF Create, NoLostAcceptWakeup, AcceptClosed, Types, Workers, NewSocketOfPeer,
    CallsInv
<1>25. CASE CreateFails
  BY <1>25, NextIsFresh
  DEF CreateFails, NoLostAcceptWakeup, AcceptClosed, Types, Workers, NewSocketOfPeer,
    CallsInv
<1>26. CASE Register
  BY <1>26 DEF Register, NoLostAcceptWakeup, AcceptClosed, Types, Workers
<1>27. CASE Enqueue
  BY <1>27 DEF Enqueue, NoLostAcceptWakeup, AcceptClosed, Types, Workers
<1>28. CASE Announce
  BY <1>28 DEF Announce, NoLostAcceptWakeup, AcceptClosed, Types, Workers
<1>29. CASE SignalAccept
  BY <1>29
  DEF SignalAccept, NoLostAcceptWakeup, AcceptClosed, Types, Workers, Accepters,
    WakeAccepter
<1>30. ASSUME NEW s \in SockId, Break(s) PROVE NoLostAcceptWakeup'
  BY <1>30
  DEF Break, NoLostAcceptWakeup, AcceptClosed, Types, OnListExact, NewEntries, Accepted,
    Origin, CallsInv
<1> QED
  BY <1>1, <1>2, <1>3, <1>4, <1>5, <1>6, <1>7, <1>8, <1>9, <1>10, <1>11, <1>12, <1>13,
    <1>14, <1>15, <1>16, <1>17, <1>18, <1>19, <1>20, <1>21, <1>22, <1>23, <1>24, <1>25,
    <1>26, <1>27, <1>28, <1>29, <1>30
  DEF Next, CallOn, WorkerOn, AcceptStep, CloseStep, NewConnection, Send, TakeNewEntry,
    Acknowledged, Drop

\* A socket that close() leaves open lingers.
LEMMA LingeringStep ==
    ASSUME SharedInv, ~LateRequests, Next
    PROVE  Lingering'
<1> USE BoundsAssumption DEF SharedInv, registryVars, flagVars, originVars, muxVars,
      rcvQueueVars, modeVars
<1>1. CASE UNCHANGED <<closedSockets, connected, broken, closing, lingering, closer>>
  BY <1>1 DEF Lingering, Live, Types
<1>2. ASSUME NEW s \in SockId, CloseListener(s) PROVE Lingering'
  BY <1>2 DEF CloseListener, Lingering, Live, Types, Closers
<1>3. CASE CloseBroadcast
  BY <1>3 DEF CloseBroadcast, Lingering, Live, Types, Closers, IdleCloser
<1>4. ASSUME NEW s \in SockId, CloseLingers(s) PROVE Lingering'
  BY <1>4 DEF CloseLingers, Lingering, Live, Types, Closers
<1>5. ASSUME NEW s \in SockId, CloseConnection(s) PROVE Lingering'
  BY <1>5 DEF CloseConnection, Lingering, Live, Types, Closers, CloseUDT, Flags
<1>6. CASE CloseUnregister
  BY <1>6, Unregistered DEF CloseUnregister, Lingering, Live, Types, Closers, IdleCloser
<1>7. CASE Cleanup
  BY <1>7 DEF Cleanup, Lingering, Live, Types, CloseUDT
<1>8. CASE GarbageCollect
  <2>1. PICK tbc, tbr, orphans, closed, lingered :
            Pass(tbc, tbr, orphans, closed, lingered)
    BY <1>8, GarbageCollectIsPass
  <2> QED
    BY <2>1 DEF Pass, Lingering, Live, Types
<1>9. CASE Create
  BY <1>9, NextIsFresh
  DEF Create, Lingering, Live, Types, NewSocketOfPeer, CallsInv, Life
<1>10. CASE CreateFails
  BY <1>10 DEF CreateFails, Lingering, Live, Types
<1>11. ASSUME NEW s \in SockId, Break(s) PROVE Lingering'
  BY <1>11 DEF Break, Lingering, Live, Types
<1> QED
  BY <1>1, <1>2, <1>3, <1>4, <1>5, <1>6, <1>7, <1>8, <1>9, <1>10, <1>11
  DEF Next, CallOn, WorkerOn, AcceptStep, CloseStep, NewConnection, NewSocket, Bind,
    Listen, Send, AcceptCall, AcceptTake, AcceptFail, AcceptWait, AcceptWoken,
    AcceptReturn, TakeNewEntry, Request, LocateListener, AnswerAgain, ReplaceBroken,
    NoOldConnection, Refuse, Register, Enqueue, Announce, SignalAccept, Acknowledged,
    Drop

\* A socket that lingers is left alone by all but its peer and its time.
LEMMA LingerersStep ==
    ASSUME SharedInv, Lingerers, ~LateRequests, Next
    PROVE  Lingerers'
<1> USE BoundsAssumption DEF SharedInv, registryVars, flagVars, originVars, muxVars,
      rcvQueueVars, modeVars
<1>1. CASE UNCHANGED <<connected, broken, closing, onList, lingering, closer, known,
  status, sockets, worker>>
  BY <1>1 DEF Lingerers, Live, Located, Deleted, Types
<1>2. CASE NewSocket
  BY <1>2, NextIsFresh DEF NewSocket, Lingerers, Live, Located, Deleted, Types
<1>3. ASSUME NEW s \in SockId, Bind(s) PROVE Lingerers'
  BY <1>3 DEF Bind, Lingerers, Live, Located, Deleted, Types, Flags
<1>4. ASSUME NEW s \in SockId, Listen(s) PROVE Lingerers'
  BY <1>4 DEF Listen, Lingerers, Live, Located, Deleted, Types
<1>5. CASE AcceptReturn
  BY <1>5 DEF AcceptReturn, Lingerers, Live, Located, Deleted, Types
<1>6. ASSUME NEW s \in SockId, CloseListener(s) PROVE Lingerers'
  BY <1>6 DEF CloseListener, Lingerers, Live, Located, Deleted, Types, Closers
<1>7. CASE CloseBroadcast
  BY <1>7
  DEF CloseBroadcast, Lingerers, Live, Located, Deleted, Types, Closers, WakeAccepter,
    IdleCloser
<1>8. ASSUME NEW s \in SockId, CloseLingers(s) PROVE Lingerers'
  BY <1>8
  DEF CloseLingers, Lingerers, Live, Located, Deleted, Types, Closers, Lingers, Life
<1>9. ASSUME NEW s \in SockId, CloseConnection(s) PROVE Lingerers'
  <2>1. /\ s \in known /\ s \notin lingering /\ closer.pc \in {"idle", "linger"}
        /\ closer' = [pc |-> "unregister", s |-> s]
        /\ closing' = closing \cup ({s} \cap opened) /\ connected' = connected \ ({s} \cap opened)
        /\ UNCHANGED <<status, sockets, broken, onList, lingering, known, worker>>
    BY <1>9 DEF CloseConnection, CloseUDT, Lingerers, CallsInv
  <2>2. worker.pc = "register" => worker.ns # s
    BY <2>1 DEF WorkerInv, Fresh
  <2>3. \A u \in SockId : u # s => (Live(u) <=> Live(u)')
    BY <2>1 DEF Live
  <2>4. Live(s)' => Live(s)
    BY <2>1 DEF Live
  <2> QED
    BY <2>1, <2>2, <2>3, <2>4 DEF Lingerers, Located, Deleted, Types
<1>10. CASE CloseUnregister
  BY <1>10, Unregistered
  DEF CloseUnregister, Lingerers, Live, Located, Deleted, Types, Closers, IdleCloser
<1>11. CASE Cleanup
  BY <1>11 DEF Cleanup, Lingerers, Live, Located, Deleted, Types, SetStatus, CloseUDT
<1>12. CASE GarbageCollect
  <2>1. PICK tbc, tbr, orphans, closed, lingered :
            Pass(tbc, tbr, orphans, closed, lingered)
    BY <1>12, GarbageCollectIsPass
  <2>2. /\ tbr \subseteq closedSockets \ onList /\ orphans \subseteq sockets
        /\ closed \subseteq tbr \cup orphans /\ tbc \subseteq sockets \cap broken
        /\ connected' = connected \ (closed \cap opened)
        /\ broken' = (broken \cup orphans) \ tbr
        /\ closing' = (closing \cup lingered \cup (closed \cap opened)) \ tbr
        /\ lingering' = lingering \ (lingered \cup tbr) /\ known' = known \ tbr
        /\ sockets' = sockets \ (tbc \cup orphans) /\ lingered \subseteq lingering
        /\ UNCHANGED <<onList, worker, closer>>
    BY <2>1 DEF Pass
  <2>3. \A s \in SockId : status'[s] = IF s \in tbr THEN "deleted"
                                       ELSE IF s \in tbc \cup orphans THEN "CLOSED"
                                       ELSE status[s]
    BY <2>1 DEF Pass
  <2>4. worker.pc = "register" => worker.ns \notin closing'
    <3>1. worker.pc = "register" => worker.ns \notin Registered \cup known
      BY DEF WorkerInv, Fresh
    <3>2. lingering \subseteq known
      BY DEF Lingerers
    <3> QED
      BY <2>2, <3>1, <3>2 DEF Lingerers, Registered
  <2>5. \A s \in SockId : Live(s)' => s \in onList' \/ Deleted(s)'
    <3>1. \A s \in SockId : Live(s)' => Live(s) \/ s \in tbr
      BY <2>2 DEF Live
    <3>2. \A s \in SockId : Deleted(s) \/ s \in tbr => Deleted(s)'
      BY <2>2, <2>3 DEF Deleted, Life
    <3> QED
      BY <2>2, <3>1, <3>2 DEF Lingerers
  <2>6. ASSUME NEW s \in lingering'
        PROVE  /\ s \in known' /\ (s \in broken' \/ (Live(s)' /\ s \in onList'))
               /\ Located(s)' => Located(s)
    <3>1. s \in lingering /\ s \in SockId /\ s \notin tbr \cup lingered
      BY <2>2 DEF Types
    <3>2. s \in broken' \/ Live(s)'
      BY <2>2, <3>1 DEF Lingerers, Live
    <3>3. Located(s)' => Located(s)
      BY <2>2, <2>3, <3>1 DEF Located
    <3> QED
      BY <2>2, <3>1, <3>2, <3>3 DEF Lingerers
  <2>7. ASSUME NEW s \in closing', Located(s)'
        PROVE  s \in broken' \/ (closer'.pc = "unregister" /\ closer'.s = s)
    <3>1. s \in SockId /\ Located(s) /\ s \notin tbr \cup orphans /\ s \notin closed
      BY <2>2, <2>3, <2>7 DEF Located, Types, Life
    <3>2. s \in closing \cup lingering
      BY <2>2, <2>7, <3>1
    <3> QED
      BY <2>2, <3>1, <3>2 DEF Lingerers
  <2>8. closer'.pc = "linger" => closer'.s \notin lingering'
    BY <2>2 DEF Lingerers
  <2> QED
    BY <2>2, <2>4, <2>5, <2>6, <2>7, <2>8 DEF Lingerers
<1>13. CASE ReplaceBroken
  BY <1>13, Replaced
  DEF ReplaceBroken, Lingerers, Live, Located, Deleted, Types, Workers
<1>14. CASE Create
  BY <1>14, NextIsFresh
  DEF Create, Lingerers, Live, Located, Deleted, Types, Workers, NewSocketOfPeer
<1>15. CASE CreateFails
  BY <1>15, NextIsFresh
  DEF CreateFails, Lingerers, Live, Located, Deleted, Types, Workers, NewSocketOfPeer,
    IdleWorker
<1>16. ASSUME NEW p \in Peers, Request(p) PROVE Lingerers'
  BY <1>16 DEF Request, Lingerers, Live, Located, Deleted, Types, Workers
<1>17. CASE LocateListener
  BY <1>17
  DEF LocateListener, Lingerers, Live, Located, Deleted, Types, Workers, IdleWorker
<1>18. CASE AnswerAgain
  BY <1>18
  DEF AnswerAgain, Lingerers, Live, Located, Deleted, Types, Workers, IdleWorker
<1>19. CASE NoOldConnection
  BY <1>19 DEF NoOldConnection, Lingerers, Live, Located, Deleted, Types, Workers
<1>20. CASE Refuse
  BY <1>20 DEF Refuse, Lingerers, Live, Located, Deleted, Types, Workers, IdleWorker
<1>21. CASE Enqueue
  BY <1>21 DEF Enqueue, Lingerers, Live, Located, Deleted, Types, Workers
<1>22. CASE Announce
  BY <1>22 DEF Announce, Lingerers, Live, Located, Deleted, Types, Workers
<1>23. CASE SignalAccept
  BY <1>23
  DEF SignalAccept, Lingerers, Live, Located, Deleted, Types, Workers, IdleWorker
<1>24. CASE Register
  BY <1>24
  DEF Register, Lingerers, Live, Located, Deleted, Types, Workers, WorkerInv, Fresh,
    WithSocket
<1>25. ASSUME NEW s \in SockId, Break(s) PROVE Lingerers'
  BY <1>25 DEF Break, Lingerers, Live, Located, Deleted, Types
<1>26. ASSUME NEW s \in SockId, Drop(s) PROVE Lingerers'
  BY <1>26 DEF Drop, Lingerers, Live, Located, Deleted, Types, LeaveRcvList
<1> QED
  BY <1>1, <1>2, <1>3, <1>4, <1>5, <1>6, <1>7, <1>8, <1>9, <1>10, <1>11, <1>12, <1>13,
    <1>14, <1>15, <1>16, <1>17, <1>18, <1>19, <1>20, <1>21, <1>22, <1>23, <1>24, <1>25,
    <1>26
  DEF Next, CallOn, WorkerOn, AcceptStep, CloseStep, NewConnection, Send, AcceptCall,
    AcceptTake, AcceptFail, AcceptWait, AcceptWoken, TakeNewEntry, Acknowledged
-----------------------------------------------------------------------------
\* All of it, in every step.
LEMMA SharedStep ==
    ASSUME SharedInv, Flagged, Lingerers, ~LateRequests, [Next]_vars
    PROVE  (SharedInv /\ Flagged /\ Lingerers)'
<1>1. CASE Next
  <2>1. SharedInv'
    BY <1>1, TypesStep, LifeStep, FlagsStep, OriginStep, OnListStep, ListenerStep, WorkerStep,
       CallsStep, StoppedStep, QueuesStep, OrphansStep, RequestsStep, MuxStep, ReadableStep,
       WakeupStep, LingeringStep DEF SharedInv
  <2>2. Flagged'
    <3>1. CASE GarbageCollect
      BY <3>1, GarbageCollectIsPass DEF Pass, modeVars, Flagged
    <3>2. CASE Cleanup
      BY <3>2 DEF Cleanup, Flagged
    <3>3. CASE ~GarbageCollect /\ ~Cleanup
      <4>1. CASE NewSocket \/ AcceptStep \/ CloseStep
        BY <4>1 DEF Flagged, AcceptStep, CloseStep, modeVars, NewSocket, AcceptTake, AcceptFail,
          AcceptWait, AcceptWoken, AcceptReturn, CloseBroadcast, CloseUnregister
      <4>2. CASE NewConnection
        BY <4>2 DEF Flagged, modeVars, NewConnection, LocateListener, AnswerAgain,
          ReplaceBroken, NoOldConnection, Refuse, Create, CreateFails, Register, Enqueue,
          Announce, SignalAccept
      <4>3. ASSUME NEW s \in SockId, CallOn(s) \/ WorkerOn(s) PROVE Flagged'
        BY <4>3 DEF Flagged, modeVars, CallOn, WorkerOn, Bind, Listen, Send, AcceptCall,
          CloseListener, CloseLingers, CloseConnection, Break, Acknowledged, Drop
      <4>4. CASE TakeNewEntry \/ \E p \in Peers : Request(p)
        BY <4>4 DEF Flagged, modeVars, TakeNewEntry, Request
      <4> QED
        BY <1>1, <3>3, <4>1, <4>2, <4>3, <4>4 DEF Next
    <3> QED
      BY <3>1, <3>2, <3>3
  <2>3. Lingerers'
    BY <1>1, LingerersStep
  <2> QED
    BY <2>1, <2>2, <2>3
<1>2. CASE UNCHANGED vars
  <2> USE <1>2 DEF vars, registryVars, flagVars, originVars, muxVars, rcvQueueVars, modeVars,
                   SharedInv
  <2>1. (Types /\ Life /\ Flags /\ Origin /\ Flagged /\ OnListExact /\ Listener)'
    BY DEF Types, Life, Flags, Origin, Flagged, OnListExact, Listener, Registered, Used,
           Accepted, Unbound, NewEntries, Deleted
  <2>2. (WorkerInv /\ CallsInv /\ Stopped /\ Queues /\ Orphanless /\ Requests)'
    BY DEF WorkerInv, CallsInv, Stopped, Queues, Orphanless, Requests, Registered, Unbound,
           Deleted
  <2>3. (MuxInv /\ ReadableWhenQueued /\ NoLostAcceptWakeup /\ Lingering /\ Lingerers)'
    BY DEF MuxInv, MuxCountsSockets, ReadableWhenQueued, NoLostAcceptWakeup, Lingering,
           Lingerers, Live, Deleted, AcceptClosed, Located
  <2> QED
    BY <2>1, <2>2, <2>3
<1> QED
  BY <1>1, <1>2

\* The inductive invariant holds whenever no request arrives in cleanup().
THEOREM SharedInductive ==
    ASSUME ~LateRequests PROVE Spec => [](SharedInv /\ Flagged /\ Lingerers)
<1>1. Init => SharedInv /\ Flagged /\ Lingerers
  BY InitShared
<1>2. SharedInv /\ Flagged /\ Lingerers /\ [Next]_vars => (SharedInv /\ Flagged /\ Lingerers)'
  BY SharedStep
<1> QED
  BY <1>1, <1>2, PTL DEF Spec

\* The types, for any number of sockets.
THEOREM TypeCorrect == ASSUME ~LateRequests PROVE Spec => []TypeOK
<1>1. SharedInv /\ Flagged /\ Lingerers => TypeOK
  BY TypesAre DEF SharedInv
<1> QED
  BY <1>1, SharedInductive, PTL

\* Whatever the application, the worker, close() and garbage collection do, none of them
\* follows a pointer to a socket that is deleted.
THEOREM NothingDangles == ASSUME ~LateRequests PROVE Spec => []NoDanglingSocket
<1>1. ASSUME SharedInv, NEW s \in SockId, Deleted(s)
      PROVE  /\ s \notin rcvList \cup NewEntries \cup {pListener}
             /\ s \notin UNION {queued[l] : l \in SockId}
             /\ worker.pc # "idle" => s \notin {worker.ls, worker.ns}
             /\ accepter.pc # "idle" => s \notin {accepter.ls, accepter.got}
             /\ closer.pc # "idle" => s # closer.s
  <2>1. s \notin Registered /\ s \notin known /\ peer[s] = NoPeer /\ s # NoSock
    BY <1>1, BoundsAssumption DEF SharedInv, Life, Origin, Deleted, Registered
  <2>2. s \notin rcvList \cup NewEntries
    BY <1>1, <2>1 DEF SharedInv, OnListExact, Accepted
  <2>3. s # pListener
    BY <1>1, <2>1 DEF SharedInv, Listener
  <2>4. s \notin UNION {queued[l] : l \in SockId}
    BY <1>1, <2>1 DEF SharedInv, Queues, Registered
  <2>5. worker.pc # "idle" => s \notin {worker.ls, worker.ns}
    BY <1>1, <2>1 DEF SharedInv, WorkerInv
  <2>6. accepter.pc # "idle" => s \notin {accepter.ls, accepter.got}
    BY <1>1, <2>1 DEF SharedInv, CallsInv
  <2>7. closer.pc # "idle" => s # closer.s
    BY <1>1, <2>1 DEF SharedInv, CallsInv
  <2> QED
    BY <2>2, <2>3, <2>4, <2>5, <2>6, <2>7
<1>2. SharedInv => NoDanglingSocket
  BY <1>1 DEF NoDanglingSocket
<1> QED
  BY <1>2, SharedInductive, PTL

\* removeSocket() finds every socket of a queue in m_Sockets.
THEOREM QueuesRegistered == ASSUME ~LateRequests PROVE Spec => []QueuedIsRegistered
<1>1. SharedInv => QueuedIsRegistered
  BY DEF SharedInv, Queues, QueuedIsRegistered
<1> QED
  BY <1>1, SharedInductive, PTL

\* Every connection that is neither broken nor accepted can still be accepted.
THEOREM NoneOrphaned == ASSUME ~LateRequests PROVE Spec => []NoOrphan
<1>1. SharedInv => \A l \in SockId : Deleted(l) => queued[l] = {}
  BY DEF SharedInv, Queues, Life, Deleted, Registered, Types
<1>2. SharedInv => NoOrphan
  BY <1>1 DEF SharedInv, Orphanless, NoOrphan
<1> QED
  BY <1>2, SharedInductive, PTL

\* However often a request is repeated, one connection comes of it.
THEOREM OneOfEach == ASSUME ~LateRequests PROVE Spec => []OneConnectionPerRequest
<1>1. ASSUME SharedInv, NEW s \in sockets, NEW t \in sockets, peer[s] # NoPeer,
             peer[s] = peer[t], s \notin broken, t \notin broken
      PROVE  s = t
  <2>1. s \in SockId /\ t \in SockId
    BY <1>1 DEF SharedInv, Types
  <2>2. ~(s < t) /\ ~(t < s)
    BY <1>1 DEF SharedInv, Requests
  <2> QED
    BY <2>1, <2>2 DEF SockId
<1>2. SharedInv => OneConnectionPerRequest
  BY <1>1 DEF OneConnectionPerRequest
<1> QED
  BY <1>2, SharedInductive, PTL

\* The reference counts of the multiplexers are exact.
THEOREM MuxExact == ASSUME ~LateRequests PROVE Spec => []MuxCountsSockets
<1>1. SharedInv => MuxCountsSockets
  BY DEF SharedInv, MuxInv
<1> QED
  BY <1>1, SharedInductive, PTL

\* epoll reports every listener with waiting connections.
THEOREM Announced == ASSUME ~LateRequests PROVE Spec => []ReadableWhenQueued
<1>1. SharedInv => ReadableWhenQueued
  BY DEF SharedInv
<1> QED
  BY <1>1, SharedInductive, PTL

\* No accept() waits for ever for a connection that is there, or on a closed listener.
THEOREM WakeupsKept == ASSUME ~LateRequests PROVE Spec => []NoLostAcceptWakeup
<1>1. SharedInv => NoLostAcceptWakeup
  BY DEF SharedInv
<1> QED
  BY <1>1, SharedInductive, PTL

\* Garbage collection always has something to wait for that ends.
THEOREM DeletionGoesOn == ASSUME ~LateRequests PROVE Spec => []DeletionNotBlocked
<1>1. ASSUME SharedInv, NEW s \in closedSockets
      PROVE  \/ s \in Removable \ lingering
             \/ InUse(s)
             \/ s \in lingering
             \/ s \in NewEntries
             \/ s \in rcvList /\ ~Live(s)
  <2>1. s \in onList => s \in rcvList \cup NewEntries
    BY <1>1 DEF SharedInv, OnListExact
  <2>2. Live(s) => s \in lingering
    BY <1>1 DEF SharedInv, Lingering, Types
  <2> QED
    BY <1>1, <2>1, <2>2 DEF Removable
<1>2. SharedInv => DeletionNotBlocked
  BY <1>1 DEF DeletionNotBlocked
<1> QED
  BY <1>2, SharedInductive, PTL

\* What lingers goes on being sent: only its peer, the end of the linger time or an empty
\* send buffer ends it.
THEOREM LingersOn == ASSUME ~LateRequests PROVE Spec => LingerHonoured
<1> DEFINE Kept == \A s \in (lingering \cap unsent) \ (broken \cup broken') :
                      status'[s] # "deleted" /\ s \in connected'
<1>1. ASSUME SharedInv, Lingerers, [Next]_vars,
             NEW s \in (lingering \cap unsent) \ (broken \cup broken')
      PROVE  status'[s] # "deleted" /\ s \in connected'
  <2>1. s \in SockId /\ s \in known /\ Live(s) /\ s \in onList /\ status[s] # "deleted"
    BY <1>1 DEF Lingerers, SharedInv, Types, Life, Registered
  <2>2. CASE UNCHANGED <<status, connected>>
    BY <2>1, <2>2 DEF Live
  <2>3. CASE GarbageCollect
    <3>1. PICK tbc, tbr, orphans, closed, lingered :
             Pass(tbc, tbr, orphans, closed, lingered)
      BY <1>1, <2>3, GarbageCollectIsPass
    <3> QED
      BY <1>1, <2>1, <3>1 DEF Pass, Live
  <2>4. CASE NewSocket \/ Create \/ CreateFails
    <3>1. nextId > 0
      BY <1>1, <2>4, BoundsAssumption
      DEF NewSocket, Create, CreateFails, NewSocketOfPeer, SharedInv, Types
    <3>2. s # nextId
      BY <1>1, <2>1, <3>1, NextIsFresh
    <3> QED
      BY <1>1, <2>1, <2>4, <3>2
      DEF NewSocket, Create, CreateFails, Live, SharedInv, Types, flagVars
  <2>5. ASSUME NEW t \in SockId, Bind(t) \/ Listen(t)
        PROVE  status'[s] # "deleted" /\ s \in connected'
    BY <1>1, <2>1, <2>5 DEF Bind, Listen, Live, SharedInv, Types, flagVars
  <2>6. ASSUME NEW t \in SockId, CloseConnection(t)
        PROVE  status'[s] # "deleted" /\ s \in connected'
    <3>1. s # t
      BY <1>1, <2>6 DEF CloseConnection, SharedInv, CallsInv, Lingerers
    <3> QED
      BY <2>1, <2>6, <3>1 DEF CloseConnection, CloseUDT, registryVars, Live
  <2>7. CASE CloseUnregister
    BY <1>1, <2>1, <2>7, Unregistered DEF CloseUnregister, flagVars, Live, SharedInv, Types
  <2>8. CASE Cleanup
    <3>1. s \notin sockets
      BY <1>1, <2>8 DEF Cleanup
    <3> QED
      BY <2>1, <2>8, <3>1 DEF Cleanup, CloseUDT, SetStatus, Live
  <2>9. CASE ReplaceBroken
    BY <1>1, <2>1, <2>9, Replaced DEF ReplaceBroken, flagVars, Live, SharedInv, Types
  <2>10. CASE UNCHANGED vars
    BY <2>2, <2>10 DEF vars, registryVars, flagVars
  <2>11. CASE AcceptStep \/ CloseBroadcast \/ TakeNewEntry \/ \E p \in Peers : Request(p)
    BY <2>2, <2>11
    DEF AcceptStep, AcceptTake, AcceptFail, AcceptWait, AcceptWoken, AcceptReturn,
        CloseBroadcast, TakeNewEntry, Request, registryVars, flagVars
  <2>12. CASE LocateListener \/ AnswerAgain \/ NoOldConnection \/ Refuse \/ Register
              \/ Enqueue \/ Announce \/ SignalAccept
    BY <2>2, <2>12
    DEF LocateListener, AnswerAgain, NoOldConnection, Refuse, Register, Enqueue, Announce,
        SignalAccept, registryVars, flagVars
  <2>13. ASSUME NEW t \in SockId,
                Send(t) \/ AcceptCall(t) \/ CloseListener(t) \/ CloseLingers(t) \/ WorkerOn(t)
         PROVE  status'[s] # "deleted" /\ s \in connected'
    BY <2>2, <2>13
    DEF Send, AcceptCall, CloseListener, CloseLingers, WorkerOn, Break, Acknowledged, Drop,
        registryVars, flagVars
  <2> QED
    BY <1>1, <2>3, <2>4, <2>5, <2>6, <2>7, <2>8, <2>9, <2>10, <2>11, <2>12, <2>13
    DEF Next, CallOn, CloseStep, NewConnection
<1>2. SharedInv /\ Lingerers /\ [Next]_vars => Kept
  BY <1>1
<1>3. SharedInv /\ Lingerers /\ [Next]_vars => [Kept]_vars
  BY <1>2
<1> QED
  BY <1>3, SharedInductive, PTL DEF Spec, LingerHonoured
===============================================================================
