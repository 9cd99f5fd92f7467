---------------------------- MODULE UdtTransfer -----------------------------
(***************************************************************************)
(* The data path of one connected pair of stream-mode CUDT objects         *)
(* (core.cpp): "snd" sends, "rcv" receives, over a UDP network that loses, *)
(* duplicates and reorders packets.                                        *)
(*                                                                         *)
(* Sequence numbers are logical (unbounded, ISN = 1); module SeqNo shows   *)
(* that CSeqNo's wrapped arithmetic agrees with them as long as compared   *)
(* numbers are less than half the space apart, which SeqSpan gives.        *)
(* The payload of a packet is its index in the application's stream, so    *)
(* DATA packets must carry their own sequence number.                      *)
(*                                                                         *)
(* Four threads take part: the sending application (send, close), the snd  *)
(* queue worker (CSndUList::pop with packData under m_ListLock), each      *)
(* side's rcv queue worker (processCtrl / processData / checkTimers), and  *)
(* the receiving application (recv).  Steps are split where another of     *)
(* these threads can come in between: send() moves m_pLastBlock before     *)
(* m_iCount, packData pops a lost packet before it takes m_AckLock, an ACK *)
(* moves m_iSndLastAck before it takes m_AckLock, and handlers reschedule  *)
(* the socket (CSndUList::update) after they have released it.             *)
(***************************************************************************)
EXTENDS Integers, Sequences, FiniteSets

CONSTANTS
    MaxPkts,            \* bound: packets the sending application hands over
    SndBufSize,         \* m_iSndBufSize, in packets
    RcvBufSize,         \* m_iRcvBufSize, slots of the receive ring
    FlightFlagSize,     \* m_iFlightFlagSize negotiated at connection setup
    CongestionWindows,  \* values the congestion controller may choose
    LiteAcks,           \* packets come fast enough for light ACKs
    Closers,            \* sides whose application may close its socket
    Expirers,           \* sides that may give a silent peer up
    NetModes            \* what the network does, see Consume and Lose

ASSUME SizesAssumption ==
    /\ MaxPkts \in Nat
    /\ SndBufSize \in Nat \ {0}
    /\ RcvBufSize \in Nat \ {0, 1}
    /\ FlightFlagSize \in Nat \ {0}

ASSUME LiteAcksAssumption == LiteAcks \in BOOLEAN

ASSUME CongestionWindowsAssumption ==
    CongestionWindows \subseteq Nat \ {0}

ISN == 1
None == 0              \* no packet: sequence numbers and slots start at ISN
NoMinFlowWindow == 0
MinFlowWindow == 2     \* the smallest window an ACK advertises
Seqs == ISN .. MaxPkts
Sides == {"snd", "rcv"}
Peer(side) == IF side = "snd" THEN "rcv" ELSE "snd"

VARIABLES
    \* CSndBuffer of the sender, as positions in the application's stream
    firstBlock, currBlock, lastBlock,
    count,              \* m_iCount, its number of blocks in use
    adding,             \* blocks linked by a send() that has not counted them
    \* sender side of CUDT
    sndCurrSeqNo, sndLastAck, sndLastDataAck, flowWindowSize,
    sndLossList,
    onSndUList,         \* the socket is in the heap of CSndUList
    lostSeq,            \* lost packet taken by the worker inside packData
    ackStage,           \* progress of the rcv worker inside a handler
    \* receiver side of CUDT
    rcvCurrSeqNo, rcvLastAck, rcvLastAckAck, rcvLossList,
    \* CRcvBuffer, as absolute positions
    unit, startPos, lastAckPos,
    delivered,          \* what recv() returned to the application so far
    \* both
    status,             \* m_bBroken, with what broke the connection
    closed,             \* the application has closed its socket
    net

blockVars == <<firstBlock, currBlock, lastBlock>>
countVars == <<count, adding>>
sndSeqVars == <<sndCurrSeqNo, sndLastAck, sndLastDataAck, flowWindowSize>>
taskVars == <<sndLossList, onSndUList, lostSeq, ackStage>>
sndVars == <<blockVars, countVars, sndSeqVars, taskVars>>
rcvSeqVars == <<rcvCurrSeqNo, rcvLastAck, rcvLastAckAck, rcvLossList>>
rcvBufVars == <<unit, startPos, lastAckPos, delivered>>
rcvVars == <<rcvSeqVars, rcvBufVars>>
connVars == <<status, closed>>
vars == <<sndVars, rcvVars, connVars, net>>

-----------------------------------------------------------------------------
(* The network: a set of packets in flight.  A packet that is sent may get *)
(* lost ("lose").  Receiving one takes it out ("deliver") or leaves a      *)
(* duplicate behind ("duplicate").  With "duplicate" alone every packet is *)
(* received any number of times, or never, in any order: the weakest       *)
(* network, and the smallest state space, for safety.                      *)

Message ==
         [type : {"DATA"}, seq : Seqs, data : Seqs]
    \cup [type : {"ACK"}, ack : Nat, win : Nat]
    \cup [type : {"LITE", "ACK2"}, ack : Nat]
    \cup [type : {"NAK"}, first : Nat, last : Nat]
    \cup [type : {"SHUTDOWN"}, to : Sides]

Send(out) == \E kept \in IF "lose" \in NetModes THEN {{}, out} ELSE {out} :
                 net' = net \cup kept

Consume(m, out) ==
    \E kept \in IF "lose" \in NetModes THEN {{}, out} ELSE {out} :
        \/ "deliver" \in NetModes /\ net' = (net \ {m}) \cup kept
        \/ "duplicate" \in NetModes /\ net' = net \cup kept
-----------------------------------------------------------------------------
Init ==
    /\ firstBlock = ISN /\ currBlock = ISN /\ lastBlock = ISN
    /\ count = 0 /\ adding = 0
    /\ sndCurrSeqNo = ISN - 1 /\ sndLastAck = ISN /\ sndLastDataAck = ISN
    /\ flowWindowSize = FlightFlagSize
    /\ sndLossList = {}
    /\ onSndUList = FALSE
    /\ lostSeq = None
    /\ ackStage = [pc |-> "idle", ack |-> None]
    /\ rcvCurrSeqNo = ISN - 1 /\ rcvLastAck = ISN /\ rcvLastAckAck = ISN
    /\ rcvLossList = {}
    /\ unit = [p \in Seqs |-> None]
    /\ startPos = ISN /\ lastAckPos = ISN
    /\ delivered = << >>
    /\ status = [s \in Sides |-> "up"]
    /\ closed = [s \in Sides |-> FALSE]
    /\ net = {}
-----------------------------------------------------------------------------
(* The applications.                                                       *)

RoomIgnoringCount == SndBufSize
Room == SndBufSize - count

\* send(), up to the point where the new blocks are linked (addBuffer).
SendLink ==
    /\ status["snd"] = "up" /\ ~closed["snd"]
    /\ adding = 0
    /\ count < SndBufSize
    /\ \E n \in 1 .. Room :
          /\ lastBlock + n <= MaxPkts + 1
          /\ lastBlock' = lastBlock + n
          /\ adding' = n
    /\ UNCHANGED <<firstBlock, currBlock, count, sndSeqVars, taskVars,
                   rcvVars, connVars, net>>

\* The rest of send(): count the blocks, put the socket on the snd list.
SendCount ==
    /\ adding > 0
    /\ lostSeq = None
    /\ count' = count + adding
    /\ adding' = 0
    /\ onSndUList' = TRUE
    /\ UNCHANGED <<blockVars, sndSeqVars, sndLossList, lostSeq, ackStage,
                   rcvVars, connVars, net>>

UnackedDataSize == rcvCurrSeqNo + 1 - startPos
RcvDataSize == lastAckPos - startPos

\* recv() reads acknowledged packets, from a broken connection too.
Recv ==
    /\ ~closed["rcv"]
    /\ \E n \in 1 .. RcvDataSize :
          /\ delivered' = [i \in 1 .. Len(delivered) + n |->
                              IF i <= Len(delivered) THEN delivered[i]
                              ELSE unit[startPos + i - Len(delivered) - 1]]
          /\ unit' = [p \in Seqs |-> IF p \in startPos .. startPos + n - 1
                                       THEN None ELSE unit[p]]
          /\ startPos' = startPos + n
    /\ UNCHANGED <<sndVars, rcvSeqVars, lastAckPos, connVars, net>>

\* close(), once its linger is over: the send buffer counts no blocks, or the
\* linger time has elapsed, or the connection is broken.  Another thread may be
\* between the halves of send().  The peer gets a shutdown, unless it has sent one
\* itself.
Close(side) ==
    /\ side \in Closers /\ ~closed[side]
    /\ closed' = [closed EXCEPT ![side] = TRUE]
    /\ IF side = "snd" THEN lostSeq = None /\ onSndUList' = FALSE
                       ELSE UNCHANGED onSndUList
    /\ Send(IF status[side] = "shutdown" THEN {}
            ELSE {[type |-> "SHUTDOWN", to |-> Peer(side)]})
    /\ UNCHANGED <<blockVars, countVars, sndSeqVars, sndLossList, lostSeq,
                   ackStage, rcvVars, status>>
-----------------------------------------------------------------------------
(* The snd queue worker: CSndUList::pop, holding m_ListLock.               *)

Active == status["snd"] = "up" /\ ~closed["snd"]

\* pop() removes a socket that is not connected any more.
PopBroken ==
    /\ onSndUList /\ lostSeq = None
    /\ ~Active
    /\ onSndUList' = FALSE
    /\ UNCHANGED <<blockVars, countVars, sndSeqVars, sndLossList, lostSeq,
                   ackStage, rcvVars, connVars, net>>

\* packData: retransmissions come first; the lost packet is taken off the
\* loss list before m_AckLock is acquired.
PopLost ==
    /\ onSndUList /\ lostSeq = None
    /\ Active
    /\ \E s \in sndLossList :
          /\ \A t \in sndLossList : s <= t
          /\ lostSeq' = s
          /\ sndLossList' = sndLossList \ {s}
    /\ onSndUList' = FALSE
    /\ UNCHANGED <<blockVars, countVars, sndSeqVars, ackStage, rcvVars,
                   connVars, net>>

LostOffsetFromSndLastAck == lostSeq - sndLastAck
LostOffset == lostSeq - sndLastDataAck

\* packData under m_AckLock: the block is found by its distance from the last
\* acknowledged one.  A packet acknowledged meanwhile ends the turn and leaves
\* the socket off the list.
Retransmit ==
    /\ lostSeq # None
    /\ IF LostOffset < 0
         THEN UNCHANGED <<net, onSndUList>>
         ELSE /\ Send({[type |-> "DATA", seq |-> lostSeq,
                        data |-> firstBlock + LostOffset]})
              /\ onSndUList' = TRUE
    /\ lostSeq' = None
    /\ UNCHANGED <<blockVars, countVars, sndSeqVars, sndLossList, ackStage,
                   rcvVars, connVars>>

WindowOpen(cwnd) ==
    (IF flowWindowSize < cwnd THEN flowWindowSize ELSE cwnd)
        >= (sndCurrSeqNo + 1) - sndLastAck + 1

\* packData with nothing to retransmit: the next new packet, or, when the
\* windows or the buffer do not allow one, the socket leaves the list.
PopNew ==
    /\ onSndUList /\ lostSeq = None
    /\ Active
    /\ sndLossList = {}
    /\ \E cwnd \in CongestionWindows :
          IF WindowOpen(cwnd) /\ currBlock # lastBlock
            THEN /\ sndCurrSeqNo' = sndCurrSeqNo + 1
                 /\ currBlock' = currBlock + 1
                 /\ Send({[type |-> "DATA", seq |-> sndCurrSeqNo + 1,
                           data |-> currBlock]})
                 /\ UNCHANGED onSndUList
            ELSE /\ onSndUList' = FALSE
                 /\ UNCHANGED <<sndCurrSeqNo, currBlock, net>>
    /\ UNCHANGED <<firstBlock, lastBlock, countVars, sndLastAck,
                   sndLastDataAck, flowWindowSize, sndLossList, lostSeq,
                   ackStage, rcvVars, connVars>>
-----------------------------------------------------------------------------
(* The rcv queue workers: what both sides do.                              *)

Idle == [pc |-> "idle", ack |-> None]

\* A worker serves only live sockets, and one packet at a time.
Serving(side) == /\ status[side] = "up" /\ ~closed[side]
                 /\ side = "snd" => ackStage = Idle

Break(side, why) == status' = [status EXCEPT ![side] = why]

\* The peer has closed.
ProcessShutdown(side, m) ==
    /\ Serving(side)
    /\ m = [type |-> "SHUTDOWN", to |-> side]
    /\ Consume(m, {})
    /\ Break(side, "shutdown")
    /\ UNCHANGED <<sndVars, rcvVars, closed>>

\* checkTimers: after a long enough silence of the peer the connection counts
\* as broken.  How long that is is left open: it may happen at any time.
Expire(side) ==
    /\ side \in Expirers
    /\ Serving(side)
    /\ Break(side, "expired")
    /\ UNCHANGED <<sndVars, rcvVars, closed, net>>
-----------------------------------------------------------------------------
(* The sender's rcv queue worker: processCtrl and checkTimers.             *)

ProcessLiteAck(m) ==
    /\ Serving("snd")
    /\ m.type = "LITE"
    /\ IF m.ack >= sndLastAck
         THEN /\ flowWindowSize' = flowWindowSize - (m.ack - sndLastAck)
              /\ sndLastAck' = m.ack
         ELSE UNCHANGED <<flowWindowSize, sndLastAck>>
    /\ Consume(m, {})
    /\ UNCHANGED <<blockVars, countVars, sndCurrSeqNo, sndLastDataAck,
                   taskVars, rcvVars, connVars>>

AckValidTooStrict(ack) == ack <= sndCurrSeqNo
AckValid(ack) == ack <= sndCurrSeqNo + 1

\* A full ACK, up to m_AckLock.  Whether it is answered by an ACK2 depends on
\* the time since the last one.
ProcessAck(m) ==
    /\ Serving("snd")
    /\ m.type = "ACK"
    /\ \E reply \in {{}, {[type |-> "ACK2", ack |-> m.ack]}} : Consume(m, reply)
    /\ IF ~AckValid(m.ack)
         THEN \* "this should not happen: attack or bug"
              /\ Break("snd", "protocol")
              /\ UNCHANGED <<flowWindowSize, sndLastAck, ackStage>>
         ELSE /\ IF m.ack >= sndLastAck
                   THEN /\ flowWindowSize' = m.win
                        /\ sndLastAck' = m.ack
                   ELSE UNCHANGED <<flowWindowSize, sndLastAck>>
              /\ ackStage' = [pc |-> "ackLock", ack |-> m.ack]
              /\ UNCHANGED status
    /\ UNCHANGED <<blockVars, countVars, sndCurrSeqNo, sndLastDataAck,
                   sndLossList, onSndUList, lostSeq, rcvVars, closed>>

\* The ACK under m_AckLock: release the acknowledged blocks.
AckSndBuffer ==
    /\ ackStage.pc = "ackLock"
    /\ LET ack == ackStage.ack
           offset == ack - sndLastDataAck IN
          IF offset <= 0
            THEN /\ ackStage' = Idle
                 /\ UNCHANGED <<firstBlock, count, sndLastDataAck, sndLossList>>
            ELSE /\ firstBlock' = firstBlock + offset
                 /\ count' = count - offset
                 /\ sndLastDataAck' = ack
                 /\ sndLossList' = {s \in sndLossList : s >= ack}
                 /\ ackStage' = [pc |-> "update", ack |-> None]
    /\ UNCHANGED <<currBlock, lastBlock, adding, sndCurrSeqNo, sndLastAck,
                   flowWindowSize, onSndUList, lostSeq, rcvVars, connVars, net>>

\* CSndUList::update at the end of a handler; waits for m_ListLock.
Reschedule ==
    /\ ackStage.pc = "update"
    /\ lostSeq = None
    /\ onSndUList' = TRUE
    /\ ackStage' = Idle
    /\ UNCHANGED <<blockVars, countVars, sndSeqVars, sndLossList, lostSeq,
                   rcvVars, connVars, net>>

Reported(m) == {s \in m.first .. m.last : s >= sndLastAck}

\* A loss report: what is still unacknowledged of it goes to the loss list.
ProcessNak(m) ==
    /\ Serving("snd")
    /\ m.type = "NAK"
    /\ Consume(m, {})
    /\ IF m.first > m.last \/ m.last > sndCurrSeqNo
         THEN \* "this should not happen: attack or bug"
              /\ Break("snd", "protocol")
              /\ UNCHANGED <<sndLossList, ackStage>>
         ELSE /\ sndLossList' = sndLossList \cup Reported(m)
              /\ ackStage' = [pc |-> "update", ack |-> None]
              /\ UNCHANGED status
    /\ UNCHANGED <<blockVars, countVars, sndSeqVars, onSndUList, lostSeq,
                   rcvVars, closed>>

\* checkTimers, EXP timer with unacknowledged data: everything after the last
\* acknowledgement counts as lost, unless some losses are known already.
ExpResend ==
    /\ Serving("snd")
    /\ count > 0
    /\ sndLossList' = IF sndCurrSeqNo + 1 # sndLastAck /\ sndLossList = {}
                        THEN sndLastAck .. sndCurrSeqNo ELSE sndLossList
    /\ ackStage' = [pc |-> "update", ack |-> None]
    /\ UNCHANGED <<blockVars, countVars, sndSeqVars, onSndUList, lostSeq,
                   rcvVars, connVars, net>>
-----------------------------------------------------------------------------
(* The receiver's rcv queue worker: processData, processCtrl, checkTimers. *)

AvailBufSize == RcvBufSize - RcvDataSize - 1

GapTooShort(seq) == (rcvCurrSeqNo + 1) .. (seq - 2)
Gap(seq) == (rcvCurrSeqNo + 1) .. (seq - 1)

\* processData: store the packet, report the gap it reveals.
ProcessData(m) ==
    /\ Serving("rcv")
    /\ m.type = "DATA"
    /\ LET offset == m.seq - rcvLastAck
           slot == lastAckPos + offset
           nak == [type |-> "NAK", first |-> rcvCurrSeqNo + 1, last |-> m.seq - 1]
       IN IF offset < 0 \/ offset >= AvailBufSize \/ unit[slot] # None
            THEN /\ Consume(m, {})
                 /\ UNCHANGED <<unit, rcvCurrSeqNo, rcvLossList>>
            ELSE /\ unit' = [unit EXCEPT ![slot] = m.data]
                 /\ IF m.seq > rcvCurrSeqNo
                      THEN /\ rcvCurrSeqNo' = m.seq
                           /\ rcvLossList' = rcvLossList \cup Gap(m.seq)
                      ELSE /\ rcvLossList' = rcvLossList \ {m.seq}
                           /\ UNCHANGED rcvCurrSeqNo
                 /\ Consume(m, IF m.seq > rcvCurrSeqNo + 1 THEN {nak} ELSE {})
    /\ UNCHANGED <<sndVars, rcvLastAck, rcvLastAckAck, startPos, lastAckPos,
                   delivered, connVars>>

IsNewestNo(ack) == ack = rcvCurrSeqNo + 1

\* The number an ACK carries: the first packet that is still missing.
IsAckNo(ack) ==
    IF rcvLossList = {} THEN ack = rcvCurrSeqNo + 1
    ELSE ack \in rcvLossList /\ \A s \in rcvLossList : ack <= s

\* The window an ACK advertises when n packets wait to be read: at least 2
\* "to break potential deadlock".
Window(n) == LET avail == RcvBufSize - n - 1
             IN  IF avail < MinFlowWindow THEN MinFlowWindow ELSE avail

AckDueOnce(ack) == ack # rcvLastAckAck /\ ack > rcvLastAck

\* An ACK for the same number is repeated (when enough time has passed) until
\* the peer has acknowledged it.
AckDue(ack) == ack # rcvLastAckAck /\ ack >= rcvLastAck

\* sendCtrl(2) on the ACK timer.
SendAck ==
    /\ Serving("rcv")
    /\ \E ack \in rcvLossList \cup {rcvCurrSeqNo + 1} :
          /\ IsAckNo(ack)
          /\ AckDue(ack)
          /\ rcvLastAck' = ack
          /\ lastAckPos' = lastAckPos + (ack - rcvLastAck)
          /\ Send(IF ack > rcvLastAckAck
                    THEN {[type |-> "ACK", ack |-> ack,
                           win |-> Window(lastAckPos' - startPos)]}
                    ELSE {})
    /\ UNCHANGED <<sndVars, rcvCurrSeqNo, rcvLastAckAck, rcvLossList, unit,
                   startPos, delivered, connVars>>

\* sendCtrl(2, .., 4): a light ACK between two full ones, only the number,
\* when many packets have come since the last one.
SendLiteAck ==
    /\ LiteAcks
    /\ Serving("rcv")
    /\ \E ack \in rcvLossList \cup {rcvCurrSeqNo + 1} :
          /\ IsAckNo(ack)
          /\ ack # rcvLastAckAck
          /\ Send({[type |-> "LITE", ack |-> ack]})
    /\ UNCHANGED <<sndVars, rcvVars, connVars>>

AckedByAck2(m) == m.ack

\* An ACK2.  It is ignored when the ACK it answers has left the ACK window, or
\* when the clock shows no round-trip time.
ProcessAck2(m) ==
    /\ Serving("rcv")
    /\ m.type = "ACK2"
    /\ Consume(m, {})
    /\ \/ /\ AckedByAck2(m) > rcvLastAckAck
          /\ rcvLastAckAck' = AckedByAck2(m)
       \/ UNCHANGED rcvLastAckAck
    /\ UNCHANGED <<sndVars, rcvCurrSeqNo, rcvLastAck, rcvLossList, rcvBufVars,
                   connVars>>
-----------------------------------------------------------------------------
AppNext == SendLink \/ SendCount \/ Recv \/ \E side \in Sides : Close(side)
SndWorkerNext == PopBroken \/ PopLost \/ Retransmit \/ PopNew
SndCtrlNext == \/ \E m \in net : ProcessLiteAck(m) \/ ProcessAck(m) \/ ProcessNak(m)
               \/ AckSndBuffer \/ Reschedule \/ ExpResend
RcvCtrlNext == \/ \E m \in net : ProcessData(m) \/ ProcessAck2(m)
               \/ SendAck \/ SendLiteAck
ConnNext == \E side \in Sides :
               \/ \E m \in net : ProcessShutdown(side, m)
               \/ Expire(side)

Next == AppNext \/ SndWorkerNext \/ SndCtrlNext \/ RcvCtrlNext \/ ConnNext

Spec == Init /\ [][Next]_vars
-----------------------------------------------------------------------------
(* Fairness.  Threads keep running (weak fairness of their steps), timers  *)
(* expire, the receiving application keeps reading.  A packet sent again   *)
(* and again gets through in the end (strong fairness of a transmission    *)
(* that is not lost, and of receiving what is in the network).  An ACK     *)
(* received again and again is answered by an ACK2 (its number equals      *)
(* m_iSndLastAck2), and an ACK2 received again and again finds its ACK in  *)
(* the window.  Nothing is assumed of light ACKs, NAKs and shutdowns, nor  *)
(* that send() is ever called.                                             *)

TransmitData(s) == /\ Retransmit \/ PopNew
                   /\ [type |-> "DATA", seq |-> s, data |-> s] \in net' \ net

ReceiveData(s) == \E m \in net : m.type = "DATA" /\ m.seq = s /\ ProcessData(m)

TransmitAck == SendAck /\ \E m \in net' \ net : m.type = "ACK"

AnswerAck == \E m \in net :
    /\ m.type = "ACK"
    /\ ProcessAck(m)
    /\ [type |-> "ACK2", ack |-> m.ack] \in net'

TakeAck2 == \E m \in net :
    /\ m.type = "ACK2"
    /\ ProcessAck2(m)
    /\ rcvLastAckAck' >= m.ack

ThreadFairness ==
    /\ WF_vars(SendCount) /\ WF_vars(Recv)
    /\ WF_vars(SndWorkerNext)
    /\ WF_vars(AckSndBuffer \/ Reschedule) /\ WF_vars(ExpResend)

NetFairness ==
    /\ \A s \in Seqs : SF_vars(TransmitData(s)) /\ WF_vars(ReceiveData(s))
    /\ SF_vars(TransmitAck) /\ SF_vars(AnswerAck) /\ SF_vars(TakeAck2)

FairSpec == Spec /\ ThreadFairness /\ NetFairness
-----------------------------------------------------------------------------
TypeOK ==
    /\ firstBlock \in Nat /\ currBlock \in Nat /\ lastBlock \in Nat
    /\ count \in Int /\ adding \in Nat
    /\ sndCurrSeqNo \in Nat /\ sndLastAck \in Nat /\ sndLastDataAck \in Nat
    /\ flowWindowSize \in Int
    /\ sndLossList \subseteq Seqs
    /\ onSndUList \in BOOLEAN
    /\ lostSeq \in Seqs \cup {None}
    /\ ackStage \in [pc : {"idle", "ackLock", "update"}, ack : Nat]
    /\ rcvCurrSeqNo \in Nat /\ rcvLastAck \in Nat /\ rcvLastAckAck \in Nat
    /\ rcvLossList \subseteq Seqs
    /\ unit \in [Seqs -> Seqs \cup {None}]
    /\ startPos \in Nat /\ lastAckPos \in Nat
    /\ delivered \in Seq(Seqs)
    /\ status \in [Sides -> {"up", "expired", "shutdown", "protocol"}]
    /\ closed \in [Sides -> BOOLEAN]
    /\ net \subseteq Message

-----------------------------------------------------------------------------
(* Where every number of the protocol can be.  Together with TypeOK these  *)
(* conjuncts are inductive; the properties below follow from them.         *)

SndInv ==
    /\ firstBlock = sndLastDataAck /\ currBlock = sndCurrSeqNo + 1
    /\ ISN <= firstBlock /\ firstBlock <= currBlock
    /\ currBlock <= lastBlock /\ lastBlock <= MaxPkts + 1
    /\ count + adding = lastBlock - firstBlock
    /\ lastBlock - firstBlock <= SndBufSize
    /\ sndLastDataAck <= sndLastAck /\ sndLastAck <= sndCurrSeqNo + 1
    /\ \A s \in sndLossList : sndLastDataAck <= s /\ s <= sndCurrSeqNo
    /\ lostSeq <= sndCurrSeqNo
    /\ ackStage.pc = "ackLock" => ackStage.ack <= sndLastAck

\* The receiver holds exactly what it received and the application has not
\* read yet, each packet in its own slot.
Held == (startPos .. rcvCurrSeqNo) \ rcvLossList

RcvInv ==
    /\ lastAckPos = rcvLastAck
    /\ ISN <= startPos /\ startPos <= lastAckPos
    /\ rcvLastAck <= rcvCurrSeqNo + 1
    /\ \A s \in rcvLossList : rcvLastAck <= s /\ s < rcvCurrSeqNo
    /\ \A p \in Seqs : unit[p] = IF p \in Held THEN p ELSE None
    /\ startPos = Len(delivered) + 1
    /\ \A i \in 1 .. Len(delivered) : delivered[i] = i
    /\ rcvCurrSeqNo <= startPos + RcvBufSize - 2

\* Nothing before ack is missing at the receiver.
Complete(ack) == ack <= rcvCurrSeqNo + 1 /\ \A s \in rcvLossList : ack <= s

\* The sender has taken ack over, or is about to under m_AckLock.
SenderHas(ack) == \/ ack <= sndLastDataAck
                  \/ ackStage.pc = "ackLock" /\ ack <= ackStage.ack

MsgInv(m) ==
    /\ m.type = "DATA" => m.data = m.seq /\ m.seq <= sndCurrSeqNo
    /\ m.type = "ACK" => ISN <= m.ack /\ m.ack <= rcvLastAck
    /\ m.type = "LITE" => ISN <= m.ack /\ Complete(m.ack)
    /\ m.type = "ACK2" => m.ack <= rcvLastAck /\ SenderHas(m.ack)
    /\ m.type = "NAK" => ISN <= m.first /\ m.first <= m.last /\ m.last <= rcvCurrSeqNo

LinkInv ==
    /\ rcvCurrSeqNo <= sndCurrSeqNo
    /\ Complete(sndLastAck)
    /\ sndLastDataAck <= rcvLastAck
    /\ ackStage.pc = "ackLock" => ackStage.ack <= rcvLastAck
    /\ rcvLastAckAck <= rcvLastAck
    /\ SenderHas(rcvLastAckAck)
    /\ \A m \in net : MsgInv(m)
    /\ \A side \in Sides : status[side] # "protocol"

IInv == TypeOK /\ SndInv /\ RcvInv /\ LinkInv
-----------------------------------------------------------------------------
(* Safety.                                                                 *)

\* recv() returns the packets of the stream in order, without gap, repetition
\* or mix-up, although blocks are found by distance from a moving first block
\* (CSndBuffer::readData, ackData) and slots by distance from m_iLastAckPos.
InOrderDelivery == \A i \in 1 .. Len(delivered) : delivered[i] = i

\* A block the sender has released after an ACK has been read by the peer's
\* application, or waits in the peer's buffer where recv() can reach it.
AckedIsHeld ==
    \A p \in ISN .. firstBlock - 1 :
        \/ p <= Len(delivered)
        \/ p \in startPos .. lastAckPos - 1 /\ unit[p] = p

\* processCtrl's "this should not happen: attack or bug" branches: whatever
\* the network reorders or repeats, an honest peer never triggers them.
NoFalseAttack == \A side \in Sides : status[side] # "protocol"

\* CRcvLossList holds exactly the packets that are missing between the last
\* acknowledged and the newest received one, so that ACKs and NAKs tell the
\* truth.
LossListExact ==
    rcvLossList = {p \in rcvLastAck .. rcvCurrSeqNo : unit[p] = None}

\* Everything the receiver stores fits in CRcvBuffer's ring next to the slot
\* that stays empty, however far the reader lags behind: positions never wrap
\* onto each other.
RingFits == \A p \in Seqs : unit[p] # None => p - startPos <= RcvBufSize - 2

\* CSndBuffer::readData follows offset links from m_pFirstBlock without a
\* check: what is (re)transmitted must be a block that has been sent and has
\* not been released, even if ACKs and NAKs arrive in any order.
RetransmitInBuffer ==
    \A s \in sndLossList : firstBlock <= s /\ s < currBlock

\* send() links blocks before it counts them and ACKs may come in between: the
\* counter and the list agree again once the call ends, and the list never
\* holds more than the send buffer size.
CountMatchesBlocks ==
    /\ adding = 0 => count = lastBlock - firstBlock
    /\ lastBlock - firstBlock <= SndBufSize

\* The receiver stops repeating an ACK (ack == m_iRcvLastAckAck) only when the
\* sender has that ACK, so a lost ACK is always repeated.
AckStopsWhenReceived == SenderHas(rcvLastAckAck)

\* All live sequence numbers are within one send buffer of each other: with a
\* buffer below half the number space CSeqNo's comparisons are right.
SeqSpan ==
    /\ sndCurrSeqNo + 1 - sndLastDataAck <= SndBufSize
    /\ {sndLastAck, rcvLastAck, rcvCurrSeqNo + 1}
           \subseteq sndLastDataAck .. sndCurrSeqNo + 1

\* close() with linger: when it found the send buffer empty, everything that
\* calls of send() have counted is delivered or can be read, shutdown or not;
\* only what a send() adds while the socket is being closed may be lost.
GracefulClose ==
    closed["snd"] /\ count <= 0 =>
        \A p \in ISN .. lastBlock - adding - 1 :
            \/ p <= Len(delivered)
            \/ p \in startPos .. lastAckPos - 1 /\ unit[p] = p
-----------------------------------------------------------------------------
Stopped == \E side \in Sides : status[side] # "up" \/ closed[side]

Stream == INSTANCE ReliableStream
              WITH sent <- lastBlock - 1, delivered <- delivered, stopped <- Stopped

\* The pair of sockets implements the reliable stream ...
StreamSpec == Stream!Spec

\* ... and delivers everything, in spite of losses, reordering, a full receive
\* buffer and ACKs that are not repeated for ever.
StreamFairSpec == Stream!FairSpec

\* Every sent packet is acknowledged in the end, so close() with linger and a
\* send() waiting for room do not wait for ever on a live connection.
Drains == []<>(firstBlock = lastBlock \/ Stopped)
=============================================================================
