----------------------------- MODULE MsgTransfer -----------------------------
(***************************************************************************)
(* Message mode (SOCK_DGRAM): sendmsg with a time to live and an order     *)
(* flag, the drop request of a message that is too old to be retransmitted *)
(* (core.cpp packData, processCtrl type 7), and the search for a readable  *)
(* message in the receive buffer (CRcvBuffer::readMsg, scanMsg), which may *)
(* take an unordered message out before the packets in front of it come.   *)
(*                                                                         *)
(* What module UdtTransfer already covers is coarser here: no windows, an  *)
(* ACK is sent and taken over in one step each, and a step of the reader   *)
(* is atomic with respect to the worker.  Positions and numbers start at   *)
(* 1; the positions of the receive ring are absolute (see RingFits there), *)
(* so that m_iLastAckPos is rcvLastAck.                                    *)
(***************************************************************************)
EXTENDS Integers, Sequences, FiniteSets

CONSTANTS
    Stream,       \* all packets the application sends, see StreamAssumption
    Unordered,    \* messages sent with inorder = false
    Mortal,       \* messages sent with a time to live
    RcvBufSize,   \* slots of the receive ring
    MaxNak        \* bound: the newest packet number a loss report may name

Blocks == 1 .. Len(Stream)
Msgs == {Stream[b].msg : b \in Blocks}

\* Messages are sent one after the other and numbered from 1; a packet knows
\* whether it is the first or the last one of its message (the boundary bits).
ASSUME StreamAssumption ==
    /\ Stream \in Seq([msg : Nat, first : BOOLEAN, last : BOOLEAN])
    /\ Stream # << >> => Stream[1].msg = 1
    /\ \A b \in Blocks : Stream[b].first <=>
          (b = 1 \/ Stream[b - 1].msg # Stream[b].msg)
    /\ \A b \in Blocks : Stream[b].last <=>
          (b = Len(Stream) \/ Stream[b + 1].msg # Stream[b].msg)
    /\ \A b \in Blocks : b > 1 =>
          Stream[b].msg = Stream[b - 1].msg + IF Stream[b].first THEN 1 ELSE 0
    /\ Unordered \subseteq Msgs /\ Mortal \subseteq Msgs
    /\ RcvBufSize \in Nat \ {0, 1}

VARIABLES
    firstBlock, currBlock, lastBlock,   \* CSndBuffer, as positions in Stream
    sndCurrSeqNo, sndLastDataAck, sndLossList,
    expired,                            \* messages whose time to live is over
    rcvCurrSeqNo, rcvLastAck, rcvLossList,
    unit, startPos, maxPos,             \* CRcvBuffer
    delivered,                          \* what recvmsg returned, packet by packet
    net

sndVars == <<firstBlock, currBlock, lastBlock, sndCurrSeqNo, sndLastDataAck,
             sndLossList, expired>>
rcvSeqVars == <<rcvCurrSeqNo, rcvLastAck, rcvLossList>>
rcvBufVars == <<unit, startPos, maxPos, delivered>>
rcvVars == <<rcvSeqVars, rcvBufVars>>
vars == <<sndVars, rcvVars, net>>

Positions == 1 .. Len(Stream) + RcvBufSize
NoUnit == [block |-> 0, flag |-> 0]

Init ==
    /\ firstBlock = 1 /\ currBlock = 1 /\ lastBlock = 1
    /\ sndCurrSeqNo = 0 /\ sndLastDataAck = 1 /\ sndLossList = {}
    /\ expired = {}
    /\ rcvCurrSeqNo = 0 /\ rcvLastAck = 1 /\ rcvLossList = {}
    /\ unit = [p \in Positions |-> NoUnit]
    /\ startPos = 1 /\ maxPos = 0
    /\ delivered = << >>
    /\ net = {}

Min(S) == CHOOSE x \in S : \A y \in S : x <= y
Max(S) == CHOOSE x \in S : \A y \in S : x >= y
-----------------------------------------------------------------------------
(* The sender.                                                             *)

LastBlockOf(m) == Max({b \in Blocks : Stream[b].msg = m})

\* sendmsg: the next message goes to the send buffer.
SendMsg ==
    /\ lastBlock \in Blocks
    /\ lastBlock' = LastBlockOf(Stream[lastBlock].msg) + 1
    /\ UNCHANGED <<firstBlock, currBlock, sndCurrSeqNo, sndLastDataAck,
                   sndLossList, expired, rcvVars, net>>

\* Time passes.
TtlOver ==
    /\ \E m \in Mortal \ expired : expired' = expired \cup {m}
    /\ UNCHANGED <<firstBlock, currBlock, lastBlock, sndCurrSeqNo,
                   sndLastDataAck, sndLossList, rcvVars, net>>

Data(seq, block) == [type |-> "DATA", seq |-> seq, block |-> block]

\* packData, nothing to retransmit: a new packet.  Its age is not looked at.
SendNew ==
    /\ sndLossList = {}
    /\ currBlock # lastBlock
    /\ sndCurrSeqNo' = sndCurrSeqNo + 1
    /\ currBlock' = currBlock + 1
    /\ net' = net \cup {Data(sndCurrSeqNo + 1, currBlock)}
    /\ UNCHANGED <<firstBlock, lastBlock, sndLastDataAck, sndLossList, expired,
                   rcvVars>>

\* The block of a packet that is to be retransmitted.
BlockOf(seq) == firstBlock + (seq - sndLastDataAck)

\* packData, the first lost packet, if it is not acknowledged meanwhile.
Retransmit ==
    /\ sndLossList # {}
    /\ LET seq == Min(sndLossList) IN
          /\ seq >= sndLastDataAck => Stream[BlockOf(seq)].msg \notin expired
          /\ sndLossList' = sndLossList \ {seq}
          /\ net' = IF seq < sndLastDataAck THEN net
                    ELSE net \cup {Data(seq, BlockOf(seq))}
    /\ UNCHANGED <<firstBlock, currBlock, lastBlock, sndCurrSeqNo,
                   sndLastDataAck, expired, rcvVars>>

\* packData, a lost packet whose message has expired: what is left of the
\* message is skipped, and the receiver is asked to drop it.
DropRequest ==
    /\ sndLossList # {}
    /\ LET seq == Min(sndLossList)
           msg == Stream[BlockOf(seq)].msg
           end == LastBlockOf(msg)
           msglen == end - BlockOf(seq) + 1
           last == seq + msglen
       IN /\ seq >= sndLastDataAck
          /\ msg \in expired
          /\ net' = net \cup {[type |-> "DROP", msg |-> msg, first |-> seq,
                               last |-> last]}
          /\ sndLossList' = {s \in sndLossList : s > last}
          /\ currBlock' = IF currBlock \in BlockOf(seq) + 1 .. end
                            THEN end + 1 ELSE currBlock
          /\ sndCurrSeqNo' = IF sndCurrSeqNo < last + 1 THEN last + 1
                                                        ELSE sndCurrSeqNo
    /\ UNCHANGED <<firstBlock, lastBlock, sndLastDataAck, expired, rcvVars>>

\* processCtrl, an ACK.
ProcessAck(m) ==
    /\ m.type = "ACK"
    /\ m.ack > sndLastDataAck
    /\ firstBlock' = firstBlock + (m.ack - sndLastDataAck)
    /\ sndLastDataAck' = m.ack
    /\ sndLossList' = {s \in sndLossList : s >= m.ack}
    /\ UNCHANGED <<currBlock, lastBlock, sndCurrSeqNo, expired, rcvVars, net>>

\* processCtrl, a loss report, or checkTimers with everything outstanding.
ProcessLoss ==
    /\ \E s \in sndLastDataAck .. sndCurrSeqNo :
          /\ s <= MaxNak
          /\ \/ [type |-> "NAK", seq |-> s] \in net
             \/ sndLossList = {} /\ s = sndLastDataAck
          /\ sndLossList' = sndLossList \cup {s}
    /\ UNCHANGED <<firstBlock, currBlock, lastBlock, sndCurrSeqNo,
                   sndLastDataAck, expired, rcvVars, net>>
-----------------------------------------------------------------------------
(* The receiver's worker.                                                  *)

AvailBufSize == RcvBufSize - (rcvLastAck - startPos) - 1

\* processData.
ProcessData(m) ==
    /\ m.type = "DATA"
    /\ m.seq >= rcvLastAck /\ m.seq - rcvLastAck < AvailBufSize
    /\ unit[m.seq] = NoUnit
    /\ unit' = [unit EXCEPT ![m.seq] = [block |-> m.block, flag |-> 1]]
    /\ maxPos' = Max({maxPos, m.seq - rcvLastAck})
    /\ IF m.seq > rcvCurrSeqNo
         THEN LET gap == rcvCurrSeqNo + 1 .. m.seq - 1 IN
              /\ rcvLossList' = rcvLossList \cup gap
              /\ rcvCurrSeqNo' = m.seq
              /\ net' = net \cup {[type |-> "NAK", seq |-> s] : s \in gap}
         ELSE /\ rcvLossList' = rcvLossList \ {m.seq}
              /\ UNCHANGED <<rcvCurrSeqNo, net>>
    /\ UNCHANGED <<sndVars, rcvLastAck, startPos, delivered>>

\* The ACK timer: everything before the first missing packet.
SendAck ==
    /\ LET ack == IF rcvLossList = {} THEN rcvCurrSeqNo + 1 ELSE Min(rcvLossList)
       IN /\ ack > rcvLastAck
          /\ rcvLastAck' = ack
          /\ maxPos' = Max({0, maxPos - (ack - rcvLastAck)})
          /\ net' = net \cup {[type |-> "ACK", ack |-> ack]}
    /\ UNCHANGED <<sndVars, rcvCurrSeqNo, rcvLossList, unit, startPos, delivered>>

\* dropMsg compares the bare message number with the whole header field, which
\* also holds the boundary and order bits.
DropMatches(u, msg) ==
    /\ u # NoUnit
    /\ LET b == Stream[u.block] IN
       b.msg = msg /\ msg \in Unordered /\ ~b.first /\ ~b.last

\* processCtrl, a drop request.
ProcessDrop(m) ==
    /\ m.type = "DROP"
    /\ unit' = [p \in Positions |->
                   IF p \in startPos .. rcvLastAck + maxPos - 1
                        /\ DropMatches(unit[p], m.msg)
                     THEN [unit[p] EXCEPT !.flag = 3] ELSE unit[p]]
    /\ rcvLossList' = rcvLossList \ (m.first .. m.last)
    /\ rcvCurrSeqNo' = IF m.first <= rcvCurrSeqNo + 1 /\ m.last > rcvCurrSeqNo
                         THEN m.last ELSE rcvCurrSeqNo
    /\ UNCHANGED <<sndVars, rcvLastAck, startPos, maxPos, delivered, net>>
-----------------------------------------------------------------------------
(* The receiving application: readMsg and scanMsg.                         *)

Readable(p) == unit[p] # NoUnit /\ unit[p].flag = 1
First(p) == Stream[unit[p].block].first
Last(p) == Stream[unit[p].block].last

\* The acknowledged packets from p on begin a message without a hole.
GoodStart(p) ==
    /\ Readable(p) /\ First(p)
    /\ \A q \in p .. rcvLastAck - 1 :
          (\A k \in p .. q - 1 : ~Last(k)) => Readable(q)

\* "skip all bad msgs at the beginning": where the search starts.
NoSkip == startPos
ScanStart == Min({p \in startPos .. rcvLastAck :
                     p = rcvLastAck \/ GoodStart(p)})

ScanEnd == rcvLastAck + maxPos

\* The first packet of the message that q belongs to, if no hole is between.
HeadsAcrossHoles(q) == {p \in ScanStart .. q : Readable(p) /\ First(p)}
Heads(q) == {p \in ScanStart .. q : (\A k \in p .. q : Readable(k)) /\ First(p)}

\* Messages not fully acknowledged may be read only if they are unordered.
MayOvertakeAnyway(q) == TRUE
MayOvertake(q) == q < rcvLastAck \/ Stream[unit[q].block].msg \in Unordered

\* The last packets of the messages that may be read.
Candidates ==
    {q \in ScanStart .. ScanEnd :
        Readable(q) /\ Last(q) /\ Heads(q) # {} /\ MayOvertake(q)}

\* m_iFlag of a packet that has been read before its turn.
StillGood == 1
PassedAck == 2

Empty == startPos = rcvLastAck /\ maxPos = 0

\* readMsg, nothing found: bad messages at the beginning are gone anyway.  (Of
\* a message larger than the buffer, nothing is returned either: the loop of
\* readMsg ends where it starts.)
ScanOnly ==
    /\ ~Empty
    /\ Candidates = {}
    /\ startPos # ScanStart
    /\ unit' = [p \in Positions |-> IF p < ScanStart THEN NoUnit ELSE unit[p]]
    /\ startPos' = ScanStart
    /\ UNCHANGED <<sndVars, rcvSeqVars, maxPos, delivered, net>>

\* readMsg returns the first message found.  If it is not fully acknowledged,
\* its packets are marked as read and freed by a later search.
ReadMsg ==
    /\ ~Empty
    /\ Candidates # {}
    /\ LET q == Min(Candidates)
           p == Max(Heads(q))
           passack == q >= rcvLastAck
       IN /\ delivered' = Append(delivered, [k \in 1 .. q - p + 1 |->
                                                unit[p + k - 1].block])
          /\ startPos' = IF passack THEN ScanStart ELSE q + 1
          /\ unit' = [k \in Positions |->
                         IF k < startPos' THEN NoUnit
                         ELSE IF passack /\ k \in p .. q
                           THEN [unit[k] EXCEPT !.flag = PassedAck] ELSE unit[k]]
    /\ UNCHANGED <<sndVars, rcvSeqVars, maxPos, net>>
-----------------------------------------------------------------------------
SndNext == SendMsg \/ TtlOver \/ SendNew \/ Retransmit \/ DropRequest \/ ProcessLoss
Next == \/ SndNext
        \/ \E m \in net : ProcessAck(m) \/ ProcessData(m) \/ ProcessDrop(m)
        \/ SendAck \/ ReadMsg \/ ScanOnly

Spec == Init /\ [][Next]_vars
-----------------------------------------------------------------------------
MsgOf(d) == Stream[d[1]].msg

\* recvmsg returns whole messages: all packets of one message, in order, and
\* nothing else, even if it was assembled from retransmissions in front of
\* which packets are still missing.
WholeMessages ==
    \A i \in 1 .. Len(delivered) :
        LET d == delivered[i] IN
        d = [k \in 1 .. Len(d) |-> Min({b \in Blocks : Stream[b].msg = MsgOf(d)})
                                   + k - 1]
        /\ d[Len(d)] = LastBlockOf(MsgOf(d))

\* No message is returned twice: neither when it was read ahead of others and
\* its packets are acknowledged later, nor when they arrive again.
AtMostOnce ==
    \A i, j \in 1 .. Len(delivered) :
        MsgOf(delivered[i]) = MsgOf(delivered[j]) => i = j

\* An ordered message is not returned before the messages in front of it,
\* except those that have expired.
OrderedInOrder ==
    \A i \in 1 .. Len(delivered) :
        LET m == MsgOf(delivered[i]) IN
        m \notin Unordered =>
            \A n \in 1 .. m - 1 : n \notin expired =>
                \E j \in 1 .. i - 1 : MsgOf(delivered[j]) = n

\* While every message is smaller than the receive buffer the reader can always
\* empty a full one: scanMsg() finds a message or skips bad packets.
FullBufferReadable ==
    AvailBufSize = 0 => Candidates # {} \/ ScanStart # startPos

\* "first / last sequence number of the message": a drop request is about the
\* packets of one message only, so that no packet of the next one counts as
\* received.
DropsOneMessage ==
    \A m \in net : m.type = "DROP" =>
        \A s \in m.first .. m.last : \A n \in net :
            n.type = "DATA" /\ n.seq = s => Stream[n.block].msg = m.msg
=============================================================================
