------------------------- MODULE BlockingCalls_proofs -------------------------
(***************************************************************************)
(* No wake-up is lost and no call waits on a closed socket, for any number *)
(* of threads and whichever calls overlap.                                 *)
(***************************************************************************)
EXTENDS BlockingCalls, TLAPS

\* Each thread makes one kind of call.
LEMMA Kinds ==
    /\ Worker \in Threads /\ NoThread \notin Threads
    /\ \A t \in Readers : t \in Threads /\ t \notin Writers \cup Setters \cup Closers \cup {Worker}
    /\ \A t \in Writers : t \in Threads /\ t \notin Readers \cup Setters \cup Closers \cup {Worker}
    /\ \A t \in Setters : t \in Threads /\ t \notin Readers \cup Writers \cup Closers \cup {Worker}
    /\ \A t \in Closers : t \in Threads /\ t \notin Readers \cup Writers \cup Setters \cup {Worker}
    /\ \A t \in Threads : t \in Readers \cup Writers \cup Setters \cup Closers \cup {Worker}
BY ThreadsAssumption DEF Threads, Callers

LEMMA InitInv == Init => BlockingInv
<1> SUFFICES ASSUME Init PROVE BlockingInv
  OBVIOUS
<1> USE Kinds, SizesAssumption DEF Init, Labels, RecvLabels, SendLabels, SetOptLabels,
     CloseLabels, WorkerLabels, ClosingLabels, ReleaseLabels
<1>1. TypeOK
  <2>1. pc \in [Threads -> Labels] /\ lock \in [Locks -> Threads \cup {NoThread}]
    OBVIOUS
  <2>2. rcvDataSize \in 0 .. MaxRcvData /\ sndBufSize \in 0 .. SndBufSize
    OBVIOUS
  <2>3. /\ broken \in BOOLEAN /\ closing \in BOOLEAN /\ connected \in BOOLEAN
        /\ opened \in BOOLEAN /\ expired \in BOOLEAN /\ peerHealth \in BOOLEAN
        /\ synRecving \in BOOLEAN /\ synSending \in BOOLEAN
        /\ watched \in BOOLEAN /\ reads \in BOOLEAN /\ writes \in BOOLEAN
    OBVIOUS
  <2> QED
    BY <2>1, <2>2, <2>3 DEF TypeOK
<1>2. RolesKept /\ LocksHeld /\ ModesKept /\ ClosingKept
  BY DEF RolesKept, LocksHeld, ModesKept, ClosingKept, ClosingLabels, ReleaseLabels
<1>3. NoLostRecvWakeup /\ NoLostSendWakeup /\ NobodyWaitsOnClosed
  BY DEF NoLostRecvWakeup, NoLostSendWakeup, NobodyWaitsOnClosed
<1> QED
  BY <1>1, <1>2, <1>3 DEF BlockingInv

LEMMA StepRecv ==
    ASSUME BlockingInv, NEW t \in Threads,
           RecvCall(t) \/ RecvTimeUp(t) \/ RecvNext(t)
    PROVE  BlockingInv'
<1> USE Kinds DEF BlockingInv, RecvCall, RecvLock, RecvWait, RecvTimeUp, RecvFail,
     RecvRead, RecvEvent, RecvNext, Goto, Acquire, ReleaseAll, Return, Signal, flagVars,
     bufVars, modeVars, epollVars, Labels, RecvLabels, SendLabels, SetOptLabels,
     CloseLabels, WorkerLabels, ClosingLabels, ReleaseLabels, Live, Full
<1>1. TypeOK'
  <2>1. pc' \in [Threads -> Labels]
    BY DEF TypeOK
  <2>2. lock' \in [Locks -> Threads \cup {NoThread}]
    BY DEF TypeOK, Locks
  <2>3. rcvDataSize' \in 0 .. MaxRcvData /\ sndBufSize' \in 0 .. SndBufSize
    BY SizesAssumption DEF TypeOK
  <2>4. /\ broken' \in BOOLEAN /\ closing' \in BOOLEAN /\ connected' \in BOOLEAN
        /\ opened' \in BOOLEAN /\ expired' \in BOOLEAN
    BY DEF TypeOK
  <2>5. /\ peerHealth' \in BOOLEAN /\ synRecving' \in BOOLEAN /\ synSending' \in BOOLEAN
        /\ watched' \in BOOLEAN /\ reads' \in BOOLEAN /\ writes' \in BOOLEAN
    BY DEF TypeOK
  <2> QED
    BY <2>1, <2>2, <2>3, <2>4, <2>5 DEF TypeOK
<1>2. RolesKept'
  BY DEF TypeOK, RolesKept
<1>3. LocksHeld'
  BY DEF TypeOK, RolesKept, LocksHeld, Locks
<1>4. ModesKept'
  BY DEF TypeOK, RolesKept, LocksHeld, ModesKept
<1>5. ClosingKept'
  BY DEF TypeOK, RolesKept, ClosingKept
<1>6. NoLostRecvWakeup'
  BY DEF TypeOK, RolesKept, LocksHeld, ModesKept, ClosingKept, NoLostRecvWakeup,
     WillRelease, RecvBlocked
<1>7. NoLostSendWakeup'
  BY DEF TypeOK, RolesKept, LocksHeld, ModesKept, ClosingKept, NoLostSendWakeup,
     WillRelease, SendBlocked
<1>8. NobodyWaitsOnClosed'
  BY DEF TypeOK, RolesKept, LocksHeld, ClosingKept, NobodyWaitsOnClosed, RecvBlocked,
     SendBlocked
<1> QED
  BY <1>1, <1>2, <1>3, <1>4, <1>5, <1>6, <1>7, <1>8

LEMMA StepSend ==
    ASSUME BlockingInv, NEW t \in Threads,
           SendCall(t) \/ SendTimeUp(t) \/ SendNext(t)
    PROVE  BlockingInv'
<1> USE Kinds DEF BlockingInv, SendCall, SendLock, SendWait, SendTimeUp, SendFail,
     SendAdd, SendEvent, SendNext, Goto, Acquire, ReleaseAll, Return, Signal, flagVars,
     bufVars, modeVars, epollVars, Labels, RecvLabels, SendLabels, SetOptLabels,
     CloseLabels, WorkerLabels, ClosingLabels, ReleaseLabels, Live, Full
<1>1. TypeOK'
  <2>1. pc' \in [Threads -> Labels]
    BY DEF TypeOK
  <2>2. lock' \in [Locks -> Threads \cup {NoThread}]
    BY DEF TypeOK, Locks
  <2>3. rcvDataSize' \in 0 .. MaxRcvData /\ sndBufSize' \in 0 .. SndBufSize
    BY SizesAssumption DEF TypeOK
  <2>4. /\ broken' \in BOOLEAN /\ closing' \in BOOLEAN /\ connected' \in BOOLEAN
        /\ opened' \in BOOLEAN /\ expired' \in BOOLEAN
    BY DEF TypeOK
  <2>5. /\ peerHealth' \in BOOLEAN /\ synRecving' \in BOOLEAN /\ synSending' \in BOOLEAN
        /\ watched' \in BOOLEAN /\ reads' \in BOOLEAN /\ writes' \in BOOLEAN
    BY DEF TypeOK
  <2> QED
    BY <2>1, <2>2, <2>3, <2>4, <2>5 DEF TypeOK
<1>2. RolesKept'
  BY DEF TypeOK, RolesKept
<1>3. LocksHeld'
  BY DEF TypeOK, RolesKept, LocksHeld, Locks
<1>4. ModesKept'
  BY DEF TypeOK, RolesKept, LocksHeld, ModesKept
<1>5. ClosingKept'
  BY DEF TypeOK, RolesKept, ClosingKept
<1>6. NoLostRecvWakeup'
  BY DEF TypeOK, RolesKept, LocksHeld, ModesKept, ClosingKept, NoLostRecvWakeup,
     WillRelease, RecvBlocked
<1>7. NoLostSendWakeup'
  BY DEF TypeOK, RolesKept, LocksHeld, ModesKept, ClosingKept, NoLostSendWakeup,
     WillRelease, SendBlocked
<1>8. NobodyWaitsOnClosed'
  BY DEF TypeOK, RolesKept, LocksHeld, ClosingKept, NobodyWaitsOnClosed, RecvBlocked,
     SendBlocked
<1> QED
  BY <1>1, <1>2, <1>3, <1>4, <1>5, <1>6, <1>7, <1>8

LEMMA StepSetOpt ==
    ASSUME BlockingInv, NEW t \in Threads, SetOptCall(t) \/ SetOptNext(t)
    PROVE  BlockingInv'
<1> USE Kinds DEF BlockingInv, SetOptCall, SetOptLock, SetOpt, SetOptNext, Goto,
     Acquire, ReleaseAll, Return, Signal, flagVars, bufVars, modeVars, epollVars,
     Labels, RecvLabels, SendLabels, SetOptLabels, CloseLabels, WorkerLabels,
     ClosingLabels, ReleaseLabels, Live, Full
<1>1. TypeOK'
  <2>1. pc' \in [Threads -> Labels]
    BY DEF TypeOK
  <2>2. lock' \in [Locks -> Threads \cup {NoThread}]
    BY DEF TypeOK, Locks
  <2>3. rcvDataSize' \in 0 .. MaxRcvData /\ sndBufSize' \in 0 .. SndBufSize
    BY SizesAssumption DEF TypeOK
  <2>4. /\ broken' \in BOOLEAN /\ closing' \in BOOLEAN /\ connected' \in BOOLEAN
        /\ opened' \in BOOLEAN /\ expired' \in BOOLEAN
    BY DEF TypeOK
  <2>5. /\ peerHealth' \in BOOLEAN /\ synRecving' \in BOOLEAN /\ synSending' \in BOOLEAN
        /\ watched' \in BOOLEAN /\ reads' \in BOOLEAN /\ writes' \in BOOLEAN
    BY DEF TypeOK
  <2> QED
    BY <2>1, <2>2, <2>3, <2>4, <2>5 DEF TypeOK
<1>2. RolesKept'
  BY DEF TypeOK, RolesKept
<1>3. LocksHeld'
  BY DEF TypeOK, RolesKept, LocksHeld, Locks
<1>4. ModesKept'
  BY DEF TypeOK, RolesKept, LocksHeld, ModesKept
<1>5. ClosingKept'
  BY DEF TypeOK, RolesKept, ClosingKept
<1>6. NoLostRecvWakeup'
  BY DEF TypeOK, RolesKept, LocksHeld, ModesKept, ClosingKept, NoLostRecvWakeup,
     WillRelease, RecvBlocked
<1>7. NoLostSendWakeup'
  BY DEF TypeOK, RolesKept, LocksHeld, ModesKept, ClosingKept, NoLostSendWakeup,
     WillRelease, SendBlocked
<1>8. NobodyWaitsOnClosed'
  BY DEF TypeOK, RolesKept, LocksHeld, ClosingKept, NobodyWaitsOnClosed, RecvBlocked,
     SendBlocked
<1> QED
  BY <1>1, <1>2, <1>3, <1>4, <1>5, <1>6, <1>7, <1>8

LEMMA StepRelease ==
    ASSUME BlockingInv, NEW t \in Threads, ReleaseNext(t)
    PROVE  BlockingInv'
<1> USE Kinds DEF BlockingInv, ReleaseSend, PassSend, ReleaseRecv, PassRecv,
     ReleaseNext, AfterRelease, Goto, Acquire, ReleaseAll, Return, Signal, flagVars,
     bufVars, modeVars, epollVars, Labels, RecvLabels, SendLabels, SetOptLabels,
     CloseLabels, WorkerLabels, ClosingLabels, ReleaseLabels, Live, Full
<1>1. TypeOK'
  <2>1. pc' \in [Threads -> Labels]
    BY DEF TypeOK
  <2>2. lock' \in [Locks -> Threads \cup {NoThread}]
    BY DEF TypeOK, Locks
  <2>3. rcvDataSize' \in 0 .. MaxRcvData /\ sndBufSize' \in 0 .. SndBufSize
    BY SizesAssumption DEF TypeOK
  <2>4. /\ broken' \in BOOLEAN /\ closing' \in BOOLEAN /\ connected' \in BOOLEAN
        /\ opened' \in BOOLEAN /\ expired' \in BOOLEAN
    BY DEF TypeOK
  <2>5. /\ peerHealth' \in BOOLEAN /\ synRecving' \in BOOLEAN /\ synSending' \in BOOLEAN
        /\ watched' \in BOOLEAN /\ reads' \in BOOLEAN /\ writes' \in BOOLEAN
    BY DEF TypeOK
  <2> QED
    BY <2>1, <2>2, <2>3, <2>4, <2>5 DEF TypeOK
<1>2. RolesKept'
  BY DEF TypeOK, RolesKept
<1>3. LocksHeld'
  BY DEF TypeOK, RolesKept, LocksHeld, Locks
<1>4. ModesKept'
  BY DEF TypeOK, RolesKept, LocksHeld, ModesKept
<1>5. ClosingKept'
  BY DEF TypeOK, RolesKept, ClosingKept
<1>6. NoLostRecvWakeup'
  BY DEF TypeOK, RolesKept, LocksHeld, ModesKept, ClosingKept, NoLostRecvWakeup,
     WillRelease, RecvBlocked
<1>7. NoLostSendWakeup'
  BY DEF TypeOK, RolesKept, LocksHeld, ModesKept, ClosingKept, NoLostSendWakeup,
     WillRelease, SendBlocked
<1>8. NobodyWaitsOnClosed'
  BY DEF TypeOK, RolesKept, LocksHeld, ClosingKept, NobodyWaitsOnClosed, RecvBlocked,
     SendBlocked
<1> QED
  BY <1>1, <1>2, <1>3, <1>4, <1>5, <1>6, <1>7, <1>8

LEMMA StepClose ==
    ASSUME BlockingInv, NEW t \in Threads, CloseCall(t) \/ CloseNext(t)
    PROVE  BlockingInv'
<1> USE Kinds DEF BlockingInv, CloseCall, CloseLater, CloseEvents, CloseFlag, CloseLock,
     Disconnect, Closed, CloseNext, Goto, Acquire, ReleaseAll, Return, Signal, flagVars,
     bufVars, modeVars, epollVars, Labels, RecvLabels, SendLabels, SetOptLabels,
     CloseLabels, WorkerLabels, ClosingLabels, ReleaseLabels, Live, Full
<1>1. TypeOK'
  <2>1. pc' \in [Threads -> Labels]
    BY DEF TypeOK
  <2>2. lock' \in [Locks -> Threads \cup {NoThread}]
    BY DEF TypeOK, Locks
  <2>3. rcvDataSize' \in 0 .. MaxRcvData /\ sndBufSize' \in 0 .. SndBufSize
    BY SizesAssumption DEF TypeOK
  <2>4. /\ broken' \in BOOLEAN /\ closing' \in BOOLEAN /\ connected' \in BOOLEAN
        /\ opened' \in BOOLEAN /\ expired' \in BOOLEAN
    BY DEF TypeOK
  <2>5. /\ peerHealth' \in BOOLEAN /\ synRecving' \in BOOLEAN /\ synSending' \in BOOLEAN
        /\ watched' \in BOOLEAN /\ reads' \in BOOLEAN /\ writes' \in BOOLEAN
    BY DEF TypeOK
  <2> QED
    BY <2>1, <2>2, <2>3, <2>4, <2>5 DEF TypeOK
<1>2. RolesKept'
  BY DEF TypeOK, RolesKept
<1>3. LocksHeld'
  BY DEF TypeOK, RolesKept, LocksHeld, Locks
<1>4. ModesKept'
  BY DEF TypeOK, RolesKept, LocksHeld, ModesKept
<1>5. ClosingKept'
  BY DEF TypeOK, RolesKept, ClosingKept
<1>6. NoLostRecvWakeup'
  BY DEF TypeOK, RolesKept, LocksHeld, ModesKept, ClosingKept, NoLostRecvWakeup,
     WillRelease, RecvBlocked
<1>7. NoLostSendWakeup'
  BY DEF TypeOK, RolesKept, LocksHeld, ModesKept, ClosingKept, NoLostSendWakeup,
     WillRelease, SendBlocked
<1>8. NobodyWaitsOnClosed'
  BY DEF TypeOK, RolesKept, LocksHeld, ClosingKept, NobodyWaitsOnClosed, RecvBlocked,
     SendBlocked
<1> QED
  BY <1>1, <1>2, <1>3, <1>4, <1>5, <1>6, <1>7, <1>8

LEMMA StepWorker ==
    ASSUME BlockingInv, AckRcvData \/ AckSndData \/ PeerError \/ WorkerNext
    PROVE  BlockingInv'
<1> USE Kinds DEF BlockingInv, AckRcvData, SignalData, DataEvent, AckSndData,
     SignalSpace, SpaceEvent, PeerError, BrokenEvent, WorkerNext, Serving, Goto,
     Acquire, ReleaseAll, Return, Signal, flagVars, bufVars, modeVars, epollVars,
     Labels, RecvLabels, SendLabels, SetOptLabels, CloseLabels, WorkerLabels,
     ClosingLabels, ReleaseLabels, Live, Full
<1>1. TypeOK'
  <2>1. pc' \in [Threads -> Labels]
    BY DEF TypeOK
  <2>2. lock' \in [Locks -> Threads \cup {NoThread}]
    BY DEF TypeOK, Locks
  <2>3. rcvDataSize' \in 0 .. MaxRcvData /\ sndBufSize' \in 0 .. SndBufSize
    BY SizesAssumption DEF TypeOK
  <2>4. /\ broken' \in BOOLEAN /\ closing' \in BOOLEAN /\ connected' \in BOOLEAN
        /\ opened' \in BOOLEAN /\ expired' \in BOOLEAN
    BY DEF TypeOK
  <2>5. /\ peerHealth' \in BOOLEAN /\ synRecving' \in BOOLEAN /\ synSending' \in BOOLEAN
        /\ watched' \in BOOLEAN /\ reads' \in BOOLEAN /\ writes' \in BOOLEAN
    BY DEF TypeOK
  <2> QED
    BY <2>1, <2>2, <2>3, <2>4, <2>5 DEF TypeOK
<1>2. RolesKept'
  BY DEF TypeOK, RolesKept
<1>3. LocksHeld'
  BY DEF TypeOK, RolesKept, LocksHeld, Locks
<1>4. ModesKept'
  BY DEF TypeOK, RolesKept, LocksHeld, ModesKept
<1>5. ClosingKept'
  BY DEF TypeOK, RolesKept, ClosingKept
<1>6. NoLostRecvWakeup'
  BY DEF TypeOK, RolesKept, LocksHeld, ModesKept, ClosingKept, NoLostRecvWakeup,
     WillRelease, RecvBlocked
<1>7. NoLostSendWakeup'
  BY DEF TypeOK, RolesKept, LocksHeld, ModesKept, ClosingKept, NoLostSendWakeup,
     WillRelease, SendBlocked
<1>8. NobodyWaitsOnClosed'
  BY DEF TypeOK, RolesKept, LocksHeld, ClosingKept, NobodyWaitsOnClosed, RecvBlocked,
     SendBlocked
<1> QED
  BY <1>1, <1>2, <1>3, <1>4, <1>5, <1>6, <1>7, <1>8

LEMMA StepBreak ==
    ASSUME BlockingInv, NEW e \in BOOLEAN, Break(e)
    PROVE  BlockingInv'
<1> USE Kinds DEF BlockingInv, Break, Serving, Goto, Acquire, ReleaseAll, Return,
     Signal, flagVars, bufVars, modeVars, epollVars, Labels, RecvLabels, SendLabels,
     SetOptLabels, CloseLabels, WorkerLabels, ClosingLabels, ReleaseLabels, Live, Full
<1>1. TypeOK'
  <2>1. pc' \in [Threads -> Labels]
    BY DEF TypeOK
  <2>2. lock' \in [Locks -> Threads \cup {NoThread}]
    BY DEF TypeOK, Locks
  <2>3. rcvDataSize' \in 0 .. MaxRcvData /\ sndBufSize' \in 0 .. SndBufSize
    BY SizesAssumption DEF TypeOK
  <2>4. /\ broken' \in BOOLEAN /\ closing' \in BOOLEAN /\ connected' \in BOOLEAN
        /\ opened' \in BOOLEAN /\ expired' \in BOOLEAN
    BY DEF TypeOK
  <2>5. /\ peerHealth' \in BOOLEAN /\ synRecving' \in BOOLEAN /\ synSending' \in BOOLEAN
        /\ watched' \in BOOLEAN /\ reads' \in BOOLEAN /\ writes' \in BOOLEAN
    BY DEF TypeOK
  <2> QED
    BY <2>1, <2>2, <2>3, <2>4, <2>5 DEF TypeOK
<1>2. RolesKept'
  BY DEF TypeOK, RolesKept
<1>3. LocksHeld'
  BY DEF TypeOK, RolesKept, LocksHeld, Locks
<1>4. ModesKept'
  BY DEF TypeOK, RolesKept, LocksHeld, ModesKept
<1>5. ClosingKept'
  BY DEF TypeOK, RolesKept, ClosingKept
<1>6. NoLostRecvWakeup'
  BY DEF TypeOK, RolesKept, LocksHeld, ModesKept, ClosingKept, NoLostRecvWakeup,
     WillRelease, RecvBlocked
<1>7. NoLostSendWakeup'
  BY DEF TypeOK, RolesKept, LocksHeld, ModesKept, ClosingKept, NoLostSendWakeup,
     WillRelease, SendBlocked
<1>8. NobodyWaitsOnClosed'
  BY DEF TypeOK, RolesKept, LocksHeld, ClosingKept, NobodyWaitsOnClosed, RecvBlocked,
     SendBlocked
<1> QED
  BY <1>1, <1>2, <1>3, <1>4, <1>5, <1>6, <1>7, <1>8

LEMMA StepInv == BlockingInv /\ [Next]_vars => BlockingInv'
<1> SUFFICES ASSUME BlockingInv, [Next]_vars PROVE BlockingInv'
  OBVIOUS
<1>1. ASSUME NEW t \in Threads,
             RecvCall(t) \/ SendCall(t) \/ SetOptCall(t) \/ CloseCall(t)
               \/ RecvTimeUp(t) \/ SendTimeUp(t) \/ ThreadNext(t)
      PROVE  BlockingInv'
  BY <1>1, StepRecv, StepSend, StepSetOpt, StepRelease, StepClose, StepWorker
     DEF ThreadNext
<1>2. CASE AckRcvData \/ AckSndData \/ PeerError
  BY <1>2, StepWorker
<1>3. CASE \E e \in BOOLEAN : Break(e)
  BY <1>3, StepBreak
<1>4. CASE UNCHANGED vars
  BY <1>4 DEF vars, flagVars, bufVars, modeVars, epollVars, BlockingInv, TypeOK, RolesKept,
     LocksHeld, ModesKept, ClosingKept, NoLostRecvWakeup, NoLostSendWakeup,
     NobodyWaitsOnClosed, WillRelease, Live, Full
<1> QED
  BY <1>1, <1>2, <1>3, <1>4 DEF Next

\* Roles, locks, modes and the three wait invariants hold together, always.
THEOREM BlockingInvariance == Spec => []BlockingInv
<1> QED
  BY InitInv, StepInv, PTL DEF Spec

\* Whatever recv() waits for, when it comes true a signal is on its way.
THEOREM RecvWakeup == Spec => []NoLostRecvWakeup
<1>1. BlockingInv => NoLostRecvWakeup
  BY DEF BlockingInv
<1> QED
  BY <1>1, BlockingInvariance, PTL

\* The same of send().
THEOREM SendWakeup == Spec => []NoLostSendWakeup
<1>1. BlockingInv => NoLostSendWakeup
  BY DEF BlockingInv
<1> QED
  BY <1>1, BlockingInvariance, PTL

\* A socket that close() has marked as not opened has no waiting caller.
THEOREM QuietWhenClosed == Spec => []NobodyWaitsOnClosed
<1>1. BlockingInv => NobodyWaitsOnClosed
  BY DEF BlockingInv
<1> QED
  BY <1>1, BlockingInvariance, PTL
=============================================================================
