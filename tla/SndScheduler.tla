------------------------------ MODULE SndScheduler ------------------------------
(***************************************************************************)
(* Which socket sends next: the sockets of one multiplexer with something  *)
(* to send are on the heap of CSndUList, ordered by the time each may send *)
(* its next packet.  The worker thread of CSndQueue sleeps until the time  *)
(* of the first one, takes it off, packs one packet and puts it back for   *)
(* the time after; it waits on a condition while the heap is empty.        *)
(* Meanwhile other threads put sockets on the heap (send(), an ACK), bring *)
(* them forward (a NAK, a timeout) and take them off (close()).            *)
(*                                                                         *)
(* Whoever holds m_ListLock works on the heap in steps, one for each turn  *)
(* of the loops of insert_() and remove_(), so that the worker's sleep and *)
(* the calls that need no list lock fall between them.  Times are counted  *)
(* from now on: a time is due when it is zero or less, and of the times in *)
(* the past only the order counts.  Places on the heap start from 1, not 0. *)
(***************************************************************************)
EXTENDS Integers, Sequences, FiniteSets

CONSTANTS
    Sock,
    NoSock,
    MaxInterval,    \* the longest m_ullInterval
    MaxThreads,     \* bound: threads at once between a change and its update()
    MaxCalls        \* bound: calls and drop requests that do not come of sending

ASSUME SchedulerAssumption ==
    /\ NoSock \notin Sock /\ IsFiniteSet(Sock)
    /\ MaxInterval \in Nat /\ MaxThreads \in Nat /\ MaxCalls \in Nat

\* The time stamp 1 of update(): earlier than any time of the clock.
AtOnce == -(Cardinality(Sock) + 1)

VARIABLES
    heap,       \* m_pHeap[0 .. m_iLastEntry]
    loc,        \* m_iHeapLoc of each socket, 0 for -1
    ts,         \* m_llTimeStamp of each socket
    op,         \* what the holder of m_ListLock is doing
    worker,     \* where the worker is, and the time it read
    sched,      \* CTimer::m_ullSchedTime
    broken,     \* sockets with m_bBroken
    closing,    \* sockets that close() has taken off the heap
    closed,     \* sockets without m_bConnected
    ready,      \* sockets with a packet to send, lost or within the window
    pending,    \* sockets whose update(u, false) is about to be called
    rushed,     \* sockets whose update(u) is about to be called
    dropped,    \* sockets that packed a drop request and left the heap
    calls

heapVars == <<heap, loc, ts>>
flagVars == <<broken, closing, closed>>
socketVars == <<flagVars, ready>>
callVars == <<pending, rushed, dropped, calls>>
vars == <<heapVars, op, worker, sched, socketVars, callVars>>

\* m_ListLock is free.
Free == [pc |-> "free", sock |-> NoSock, at |-> 0, then |-> "free"]

Init ==
    /\ heap = <<>> /\ loc = [s \in Sock |-> 0] /\ ts = [s \in Sock |-> AtOnce]
    /\ op = Free
    /\ worker = [pc |-> "check", ts |-> 0] /\ sched = 0
    /\ broken = {} /\ closing = {} /\ closed = {} /\ ready = {}
    /\ pending = {} /\ rushed = {} /\ dropped = {} /\ calls = 0

Connected == Sock \ (broken \cup closed)

Last == Len(heap)
Later(i, j) == ts[heap[i]] > ts[heap[j]]

Swap(i, j) == [heap EXCEPT ![i] = heap[j], ![j] = heap[i]]

WorkerAt(pc) == worker' = [pc |-> pc, ts |-> 0]
-----------------------------------------------------------------------------
(* The heap, under m_ListLock. *)

\* insert_(t, u): the last entry; then it rises.
StartInsert(u, t) ==
    /\ heap' = Append(heap, u)
    /\ ts' = [ts EXCEPT ![u] = t]
    /\ op' = [pc |-> "up", sock |-> u, at |-> Last + 1, then |-> "free"]
    /\ dropped' = dropped \ {u}
    /\ UNCHANGED loc

\* The socket above is later: the two change places.
Rise ==
    /\ op.pc = "up" /\ op.at > 1 /\ Later(op.at \div 2, op.at)
    /\ heap' = Swap(op.at \div 2, op.at)
    /\ loc' = [loc EXCEPT ![heap[op.at \div 2]] = op.at]
    /\ op' = [op EXCEPT !.at = @ \div 2]
    /\ UNCHANGED <<ts, worker, sched, socketVars, callVars>>

\* Mutant: the worker is not told of a first entry.
EndInsertNoSignal ==
    /\ op.pc = "up" /\ ~(op.at > 1 /\ Later(op.at \div 2, op.at))
    /\ loc' = [loc EXCEPT ![op.sock] = op.at]
    /\ sched' = IF op.at = 1 THEN 0 ELSE sched
    /\ op' = Free
    /\ UNCHANGED <<heap, ts, worker, socketVars, callVars>>

\* An earlier event interrupts the worker's sleep, a first one ends its wait.
EndInsert ==
    /\ op.pc = "up" /\ ~(op.at > 1 /\ Later(op.at \div 2, op.at))
    /\ loc' = [loc EXCEPT ![op.sock] = op.at]
    /\ sched' = IF op.at = 1 THEN 0 ELSE sched
    /\ IF Last = 1 /\ worker.pc = "waiting" THEN WorkerAt("check") ELSE UNCHANGED worker
    /\ op' = Free
    /\ UNCHANGED <<heap, ts, socketVars, callVars>>

\* remove_(u) of a listed socket: the last entry takes its place; then it sinks.
\* (Nobody reads the time of a socket that is not on the heap.)
StartRemove(u, then) ==
    /\ heap' = SubSeq([heap EXCEPT ![loc[u]] = heap[Last]], 1, Last - 1)
    /\ loc' = [loc EXCEPT ![heap[Last]] = loc[u]]
    /\ op' = [pc |-> "down", sock |-> u, at |-> loc[u], then |-> then]
    /\ ts' = [ts EXCEPT ![u] = AtOnce]

\* The earlier of the two entries below place q.
Below(q) == IF 2 * q + 1 <= Last /\ Later(2 * q, 2 * q + 1) THEN 2 * q + 1 ELSE 2 * q
Sinks(q) == 2 * q <= Last /\ Later(q, Below(q))

\* Mutant: the moved entry keeps the place it had.
SinkNoLoc ==
    /\ op.pc = "down" /\ Sinks(op.at)
    /\ heap' = Swap(op.at, Below(op.at))
    /\ op' = [op EXCEPT !.at = Below(op.at)]
    /\ UNCHANGED <<loc, ts, worker, sched, socketVars, callVars>>

Sink ==
    /\ op.pc = "down" /\ Sinks(op.at)
    /\ LET p == Below(op.at)
       IN  /\ heap' = Swap(op.at, p)
           /\ loc' = [loc EXCEPT ![heap[op.at]] = p, ![heap[p]] = op.at]
           /\ op' = [op EXCEPT !.at = p]
    /\ UNCHANGED <<ts, worker, sched, socketVars, callVars>>

EndRemove ==
    /\ op.pc = "down" /\ ~Sinks(op.at)
    /\ loc' = [loc EXCEPT ![op.sock] = 0]
    /\ sched' = IF Last = 1 THEN 0 ELSE sched
    /\ op' = IF op.then = "free" THEN Free ELSE [op EXCEPT !.pc = op.then]
    /\ UNCHANGED <<heap, ts, worker, socketVars, callVars>>

\* update(u) goes on with insert_(1, u).
InsertAgain ==
    /\ op.pc = "insert"
    /\ StartInsert(op.sock, AtOnce)
    /\ UNCHANGED <<worker, sched, socketVars, pending, rushed, calls>>
-----------------------------------------------------------------------------
(* The threads that send, receive and close. *)

MayCall == Cardinality(pending) + Cardinality(rushed) < MaxThreads

\* Mutant: the packet is there, and the heap left alone.
MakeReadyNoUpdate(u) ==
    /\ MayCall /\ u \in Connected \ (ready \cup pending)
    /\ ready' = ready \cup {u}
    /\ UNCHANGED <<heapVars, op, worker, sched, flagVars, callVars>>

\* send() has put data into the buffer, or an ACK has opened the window, and
\* calls update(u, false).
MakeReady(u) ==
    /\ MayCall /\ u \in Connected \ (ready \cup pending)
    /\ ready' = ready \cup {u} /\ pending' = pending \cup {u}
    /\ UNCHANGED <<heapVars, op, worker, sched, flagVars, rushed, dropped, calls>>

\* send() while the window is closed, or an ACK when there is nothing to send.
CallInVain(u) ==
    /\ MayCall /\ u \in Connected \ (ready \cup pending) /\ calls < MaxCalls
    /\ pending' = pending \cup {u} /\ calls' = calls + 1
    /\ UNCHANGED <<heapVars, op, worker, sched, socketVars, rushed, dropped>>

\* A NAK, or the EXP timer, finds packets to send again.
Lost(u) ==
    /\ MayCall /\ u \in Connected \ rushed /\ calls < MaxCalls
    /\ ready' = ready \cup {u}
    /\ rushed' = rushed \cup {u} /\ calls' = calls + 1
    /\ UNCHANGED <<heapVars, op, worker, sched, flagVars, pending, dropped>>

\* The EXP timer breaks the connection, and lets the worker find out.
Break(u) ==
    /\ MayCall /\ u \in Connected \ rushed /\ calls < MaxCalls
    /\ broken' = broken \cup {u}
    /\ rushed' = rushed \cup {u} /\ calls' = calls + 1
    /\ UNCHANGED <<heapVars, op, worker, sched, closing, closed, ready, pending, dropped>>

\* update(u, false)
Update(u) ==
    /\ op = Free /\ u \in pending
    /\ pending' = pending \ {u}
    /\ IF loc[u] > 0 THEN UNCHANGED <<heapVars, op, dropped>>
       ELSE StartInsert(u, AtOnce)
    /\ UNCHANGED <<worker, sched, socketVars, rushed, calls>>

\* update(u): the first on the heap stays there.
Reschedule(u) ==
    /\ op = Free /\ u \in rushed
    /\ rushed' = rushed \ {u}
    /\ \/ /\ loc[u] = 1
          /\ ts' = [ts EXCEPT ![u] = AtOnce] /\ sched' = 0
          /\ UNCHANGED <<heap, loc, op, dropped>>
       \/ loc[u] > 1 /\ StartRemove(u, "insert") /\ UNCHANGED <<sched, dropped>>
       \/ loc[u] = 0 /\ StartInsert(u, AtOnce) /\ UNCHANGED sched
    /\ UNCHANGED <<worker, socketVars, pending, calls>>

\* CUDT::close(): off the heap while m_bConnected is still true, ...
Remove(u) ==
    /\ op = Free /\ u \notin closing /\ calls < MaxCalls
    /\ closing' = closing \cup {u} /\ calls' = calls + 1
    /\ IF loc[u] > 0 THEN StartRemove(u, "free") /\ UNCHANGED sched
       ELSE sched' = (IF Last = 1 THEN 0 ELSE sched) /\ UNCHANGED <<heapVars, op>>
    /\ UNCHANGED <<worker, broken, closed, ready, pending, rushed, dropped>>

\* ... and disconnected later.
Disconnect(u) ==
    /\ u \in closing \ closed
    /\ closed' = closed \cup {u}
    /\ UNCHANGED <<heapVars, op, worker, sched, broken, closing, ready, callVars>>
-----------------------------------------------------------------------------
(* The worker of CSndQueue. *)

GetNextProcTime ==
    /\ worker.pc = "check" /\ op = Free
    /\ worker' = IF heap = <<>> THEN [pc |-> "empty", ts |-> 0]
                                ELSE [pc |-> "timed", ts |-> ts[heap[1]]]
    /\ UNCHANGED <<heapVars, op, sched, socketVars, callVars>>

\* Under m_WindowLock, but without m_ListLock.
WaitIfEmpty ==
    /\ worker.pc = "empty"
    /\ WorkerAt(IF heap = <<>> THEN "waiting" ELSE "check")
    /\ UNCHANGED <<heapVars, op, sched, socketVars, callVars>>

\* CTimer::sleepto(): what interrupt() wrote until now is overwritten.
SleepTo ==
    /\ worker.pc = "timed"
    /\ IF worker.ts > 0 THEN WorkerAt("sleeping") /\ sched' = worker.ts
                        ELSE WorkerAt("pop") /\ UNCHANGED sched
    /\ UNCHANGED <<heapVars, op, socketVars, callVars>>

Awake ==
    /\ worker.pc = "sleeping" /\ sched <= 0
    /\ WorkerAt("pop")
    /\ UNCHANGED <<heapVars, op, sched, socketVars, callVars>>

Pop ==
    /\ worker.pc = "pop" /\ op = Free
    /\ IF heap = <<>> \/ ts[heap[1]] > 0
       THEN WorkerAt("check") /\ UNCHANGED <<heapVars, op>>
       ELSE WorkerAt("packing") /\ StartRemove(heap[1], "pack")
    /\ UNCHANGED <<sched, socketVars, callVars>>

\* pop() goes on: nothing to pack, or a lost packet that an ACK takes out of the
\* buffer between getLostSeq() and m_AckLock (its update() is still to come), ...
PackNothing ==
    /\ op.pc = "pack" /\ ~(op.sock \in (Connected \cap ready) \ pending)
    /\ op' = Free /\ WorkerAt("check")
    /\ UNCHANGED <<heapVars, sched, socketVars, callVars>>

\* ... a request to drop an expired message, ...
PackDrop ==
    /\ op.pc = "pack" /\ op.sock \in Connected \cap ready
    /\ calls < MaxCalls /\ calls' = calls + 1
    /\ dropped' = dropped \cup {op.sock}
    /\ ready' \in {ready, ready \ {op.sock}}
    /\ op' = Free /\ WorkerAt("check")
    /\ UNCHANGED <<heapVars, sched, flagVars, pending, rushed>>

\* ... or a packet, which may be the last, or the last that the window lets out.
PackData ==
    /\ op.pc = "pack" /\ op.sock \in Connected \cap ready
    /\ \E t \in 0 .. MaxInterval : StartInsert(op.sock, t)
    /\ ready' \in {ready, ready \ {op.sock}}
    /\ WorkerAt("check")
    /\ UNCHANGED <<sched, flagVars, pending, rushed, calls>>
-----------------------------------------------------------------------------
(* Time, and the whole. *)

\* A time after a tick of the clock; those of the past are numbered from -1 down.
Sooner(t) ==
    IF t > 0 THEN t - 1
    ELSE IF t = AtOnce THEN t
    ELSE -Cardinality({ts[heap[i]] : i \in 1 .. Last} \cap (t .. 0))

\* (Between the steps on the heap nobody reads the clock but a sleeping worker.)
Tick ==
    /\ op = Free
    /\ ts' = [s \in Sock |-> IF \E i \in 1 .. Last : heap[i] = s THEN Sooner(ts[s]) ELSE ts[s]]
    /\ worker' = [worker EXCEPT !.ts = IF @ > 0 THEN @ - 1 ELSE @]
    /\ sched' = IF sched > 0 THEN sched - 1 ELSE sched
    /\ UNCHANGED <<heap, loc, op, socketVars, callVars>>

InList == Rise \/ EndInsert \/ Sink \/ EndRemove \/ InsertAgain
InWorker == GetNextProcTime \/ WaitIfEmpty \/ SleepTo \/ Awake \/ Pop
InPop == PackNothing \/ PackDrop \/ PackData
Caller(u) ==
    \/ MakeReady(u) \/ CallInVain(u) \/ Lost(u) \/ Break(u) \/ Remove(u) \/ Disconnect(u)
    \/ Update(u) \/ Reschedule(u)

Next == InList \/ InWorker \/ InPop \/ Tick \/ \E u \in Sock : Caller(u)

Spec == Init /\ [][Next]_vars

\* Threads run, whoever wants m_ListLock gets it in the end, and time passes.
Fairness ==
    /\ WF_vars(InList) /\ WF_vars(InPop)
    /\ SF_vars(InWorker)
    /\ SF_vars(Tick)

FairSpec == Spec /\ Fairness
-----------------------------------------------------------------------------
(* Properties. *)

TypeOK ==
    /\ heap \in Seq(Sock)
    /\ loc \in [Sock -> Nat] /\ ts \in [Sock -> Int]
    /\ op \in [pc : {"free", "up", "down", "insert", "pack"}, sock : Sock \cup {NoSock},
               at : Nat, then : {"free", "insert", "pack"}]
    /\ op.pc # "free" => op.sock \in Sock

\* While nobody is at work on the heap, m_iHeapLoc of every socket is its place,
\* or -1: the heap has no socket twice, and update() and remove() find the one
\* they mean.
HeapLocExact ==
    op = Free =>
        /\ \A i \in 1 .. Last : loc[heap[i]] = i
        /\ \A s \in Sock : loc[s] > 0 => loc[s] <= Last /\ heap[loc[s]] = s

\* A connected socket with a packet to send is on the heap, or a thread is about
\* to put it there.  (One that pop() took off after a drop request is left to wait
\* for its next ACK or timeout.)
NobodyStranded ==
    \A u \in Connected \cap ready :
        \/ loc[u] > 0 \/ op.sock = u
        \/ u \in pending \cup rushed \cup dropped \cup closing

\* Whoever is on the heap gets its turn, or is taken off: the worker is not left
\* waiting, or asleep, and a socket that is closed does not stay on the heap.
EverybodyServed == \A u \in Sock : loc[u] > 0 ~> loc[u] = 0
=============================================================================
