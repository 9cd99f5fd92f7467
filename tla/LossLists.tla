------------------------------ MODULE LossLists ------------------------------
(***************************************************************************)
(* The two loss lists at work, each driven by the calls that core.cpp      *)
(* makes of it, while the wrapped sequence numbers go round and round.     *)
(* The ghost variable lost is the set of numbers the list should hold; its *)
(* updates are those of module UdtTransfer.                                *)
(*                                                                         *)
(* The lists live in different sockets and share nothing, so a behaviour   *)
(* exercises one of them: the one of side.                                 *)
(***************************************************************************)
EXTENDS SndLossList, RcvLossList, FiniteSets

CONSTANTS
    FlowWindowSize,   \* of the sender: m_iFlowWindowSize at setup
    SndBufSize,       \* of the sender: blocks of its buffer, m_iSndBufSize
    PeerBufSize,      \* of the receiver: the same of its peer
    RcvSpan,          \* how far beyond the last ACK the receiver stores packets
    WrappedDrops      \* messages with the numbers .., MaxSeqNo, 0, .. are dropped

ASSUME LossListsAssumption ==
    /\ FlowWindowSize \in Nat \ {0} /\ SndListSize = 2 * FlowWindowSize
    /\ SndBufSize \in Nat \ {0}
    /\ RcvListSize \in Nat \ {0} /\ RcvSpan \in 1 .. RcvListSize
    /\ PeerBufSize \in Nat \ {0}
    /\ WrappedDrops \in BOOLEAN
    \* Windows and buffers are far below the threshold 0x3FFFFFFF of a comparison.
    /\ 3 * FlowWindowSize < SeqNoTH
    /\ PeerBufSize + RcvListSize < SeqNoTH /\ 2 * PeerBufSize + 1 < SeqNoTH

VARIABLES
    side,      \* whose list this behaviour is about
    list,      \* m_pSndLossList or m_pRcvLossList
    lost,      \* ghost: what the list should hold
    from,      \* m_iSndLastDataAck, or m_iRcvLastAck
    curr,      \* m_iSndCurrSeqNo or m_iRcvCurrSeqNo
    \* The sender's only:
    ack,       \* m_iSndLastAck
    window,    \* m_iFlowWindowSize; 0 stands for all that is less, too
    taking,    \* number of the full ACK that waits for m_AckLock, or Nil
    taken      \* number the worker has from the list, or Nil

sndVars == <<ack, window, taking, taken>>
vars == <<side, list, lost, from, curr, sndVars>>

\* The numbers from a up to b, b at most one before a.
SeqRange(a, b) ==
    IF a = IncSeq(b) THEN {} ELSE {IncSeqBy(a, d) : d \in 0 .. SeqLen(a, b) - 1}

Oldest(S) == CHOOSE s \in S : \A t \in S : SeqCmp(s, t) <= 0

Init ==
    /\ side \in {"snd", "rcv"}
    /\ list = IF side = "snd" THEN NewSndList ELSE NewRcvList
    /\ lost = {}
    /\ from = 0 /\ curr = MaxSeqNo
    /\ ack = 0 /\ window = FlowWindowSize
    /\ taking = Nil /\ taken = Nil
-----------------------------------------------------------------------------
(* The sender (processCtrl, checkTimers, packData).                        *)

\* What an ACK acknowledges up to: at most all that has been sent.
Acks(first) == SeqRange(first, curr) \cup {IncSeq(curr)}

\* A light ACK moves m_iSndLastAck and leaves the edge of the window alone.
WindowKept(seq) == window
WindowAfter(seq) ==
    IF window > SeqOff(ack, seq) THEN window - SeqOff(ack, seq) ELSE 0

TakeLiteAck ==
    /\ side = "snd"
    /\ taking = Nil
    /\ ack' \in Acks(ack)
    /\ window' = WindowAfter(ack')
    /\ UNCHANGED <<side, list, lost, from, curr, taking, taken>>

\* A full ACK opens the window, unless a later light one has been faster ...
TakeAck ==
    /\ side = "snd"
    /\ taking = Nil
    /\ \E seq \in Acks(from) :
          /\ taking' = seq
          /\ IF SeqCmp(seq, ack) >= 0
               THEN ack' = seq /\ window' = FlowWindowSize
               ELSE UNCHANGED <<ack, window>>
    /\ UNCHANGED <<side, list, lost, from, curr, taken>>

\* ... and clears the list when it gets m_AckLock; the worker may come between.
AckData ==
    /\ side = "snd"
    /\ taking # Nil
    /\ taking' = Nil
    /\ from' = taking
    /\ IF SeqOff(from, taking) > 0
         THEN /\ list' = SndRemove(list, DecSeq(taking))
              /\ lost' = lost \ SeqRange(from, DecSeq(taking))
         ELSE UNCHANGED <<list, lost>>
    /\ UNCHANGED <<side, curr, ack, window, taken>>

\* A loss report, or everything unacknowledged when the EXP timer runs out.
Report ==
    /\ side = "snd"
    /\ taking = Nil
    /\ \E a \in SeqRange(ack, curr) :
       \E b \in SeqRange(a, curr) :
          /\ list' = SndInsert(list, a, b)
          /\ lost' = lost \cup SeqRange(a, b)
    /\ UNCHANGED <<side, from, curr, sndVars>>

\* The worker found the list empty (a report may have come since) and sends a
\* new packet, as far as the flow window permits.
SendNew ==
    /\ side = "snd"
    /\ taken = Nil
    /\ window >= SeqLen(ack, IncSeq(curr))
    /\ curr' = IncSeq(curr)
    /\ UNCHANGED <<side, list, lost, from, sndVars>>

\* It takes the first lost packet for retransmission ...
TakeLost ==
    /\ side = "snd"
    /\ taken = Nil /\ list.length # 0
    /\ taken' = SndFirst(list)
    /\ list' = DropFirst(list)
    /\ lost' = lost \ {SndFirst(list)}
    /\ UNCHANGED <<side, from, curr, ack, window, taking>>

\* ... and under m_AckLock sends it, or finds it acknowledged meanwhile ...
Retransmit ==
    /\ side = "snd"
    /\ taken # Nil
    /\ taken' = Nil
    /\ UNCHANGED <<side, list, lost, from, curr, ack, window, taking>>

\* ... or finds it expired, with d blocks of its message.  Those packets, and
\* one more, count as sent from now on, whatever the flow window permits.
SkippedAnother(seq) ==
    IF SeqCmp(curr, IncSeq(seq)) < 0 THEN IncSeqBy(seq, 2) ELSE curr
Skipped(seq) == IF SeqCmp(curr, IncSeq(seq)) < 0 THEN IncSeq(seq) ELSE curr

DropExpired ==
    /\ side = "snd"
    /\ taken # Nil
    /\ SeqOff(from, taken) >= 0
    /\ \E d \in 1 .. SndBufSize :
          LET b == IncSeqBy(taken, d) IN
          /\ SeqOff(from, taken) + d <= SndBufSize
          /\ list' = SndRemove(list, b)
          /\ lost' = lost \ SeqRange(from, b)
          /\ curr' = Skipped(b)
    /\ taken' = Nil
    /\ UNCHANGED <<side, from, ack, window, taking>>
-----------------------------------------------------------------------------
(* The receiver (processData, processCtrl, sendCtrl).                      *)

\* Packets this far from the last ACK are stored.
InWindow(seq) == SeqOff(from, seq) \in 0 .. RcvSpan - 1

\* A packet beyond the newest one arrives; what it skips is missing.
ArriveNew ==
    /\ side = "rcv"
    /\ \E d \in 1 .. RcvSpan :
          LET seq == IncSeqBy(curr, d) IN
          /\ InWindow(seq)
          /\ curr' = seq
          /\ IF d > 1
               THEN /\ list' = RcvInsert(list, IncSeq(curr), DecSeq(seq))
                    /\ lost' = lost \cup SeqRange(IncSeq(curr), DecSeq(seq))
               ELSE UNCHANGED <<list, lost>>
    /\ UNCHANGED <<side, from, sndVars>>

\* A packet arrives that is not newer: most often a missing one, but after a
\* message has been dropped its slot is free though it is not missing.
ArriveOld ==
    /\ side = "rcv"
    /\ \E seq \in SeqRange(from, curr) :
          /\ InWindow(seq)
          /\ list' = RcvRemove(list, seq)
          /\ lost' = lost \ {seq}
    /\ UNCHANGED <<side, from, curr, sndVars>>

\* The sender has dropped a message: its packets are not missing any more.  It
\* may begin before the last ACK, or beyond all that has come, and end beyond
\* what could be stored.
DropMessage ==
    /\ side = "rcv"
    /\ \E d \in 1 .. PeerBufSize, a \in SeqNos :
          LET b == IncSeqBy(a, d) IN
          /\ SeqOff(from, a) \in - PeerBufSize .. PeerBufSize - d
          /\ a <= b \/ WrappedDrops
          /\ list' = RcvRemoveRange(list, a, b)
          /\ lost' = lost \ SeqRange(a, b)
          /\ curr' = IF SeqCmp(a, IncSeq(curr)) <= 0 /\ SeqCmp(b, curr) > 0
                       THEN b ELSE curr
    /\ UNCHANGED <<side, from, sndVars>>

\* An ACK is sent for everything before the first missing packet.
SendAck ==
    /\ side = "rcv"
    /\ from' = IF list.length = 0 THEN IncSeq(curr) ELSE RcvFirst(list)
    /\ UNCHANGED <<side, list, lost, curr, sndVars>>
-----------------------------------------------------------------------------
SndNext ==
    \/ TakeLiteAck \/ TakeAck \/ AckData \/ Report
    \/ SendNew \/ TakeLost \/ Retransmit \/ DropExpired
RcvNext == ArriveNew \/ ArriveOld \/ DropMessage \/ SendAck
Next == SndNext \/ RcvNext
Spec == Init /\ [][Next]_vars
-----------------------------------------------------------------------------
Ranges == IF list.length = 0 THEN {}
          ELSE IF side = "snd" THEN SndRanges(list)
          ELSE RcvRanges(list)

Contents == UNION {SeqRange(r[1], r[2]) : r \in Ranges}

\* Whatever is inserted, removed and taken, in any order and at any place of
\* the number space, the sender's list holds the lost packets and no others,
\* knows how many, and has the oldest first, which is retransmitted next.
SndListExact ==
    side = "snd" =>
        /\ Contents = lost /\ list.length = Cardinality(lost)
        /\ lost # {} => SndFirst(list) = Oldest(lost)

\* The same for the receiver's list: a packet that is forgotten would be
\* acknowledged although it is missing, one too many would stop the ACKs, which
\* acknowledge everything before its first packet.
RcvListExact ==
    side = "rcv" =>
        /\ Contents = lost /\ list.length = Cardinality(lost)
        /\ lost # {} => RcvFirst(list) = Oldest(lost)

\* Whatever may be reported lost has a slot of its own in the sender's array,
\* although light ACKs leave the list uncleared for a while and dropping a
\* message moves the newest number past the flow window.  (Between the halves of
\* an ACK nothing is reported.)
SndListFits ==
    side = "snd" /\ taking = Nil /\ list.length # 0 =>
        \A s \in SeqRange(from, curr) :
            Distance(0, SeqOff(list.data1[list.head], s)) < SndListSize
=============================================================================
