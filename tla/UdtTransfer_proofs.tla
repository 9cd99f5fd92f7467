-------------------------- MODULE UdtTransfer_proofs --------------------------
(***************************************************************************)
(* The safety properties of UdtTransfer, for every size of the buffers and *)
(* windows, every network and every number of packets.  IInv is inductive; *)
(* one lemma per action shows that the action preserves it.  The numbers   *)
(* of UdtTransfer do not wrap: that those of the code may is shown here    *)
(* too, of CSeqNo's operators and then of the numbers of a connection.     *)
(***************************************************************************)
EXTENDS UdtTransfer, SeqNo, WellFoundedInduction, TLAPS

-----------------------------------------------------------------------------
(* Messages and the network.                                               *)

LEMMA MessageFields ==
    ASSUME NEW m \in Message
    PROVE  /\ m.type = "DATA" => m.seq \in Seqs /\ m.data \in Seqs
           /\ m.type = "ACK" => m.ack \in Nat /\ m.win \in Nat
           /\ m.type = "LITE" => m.ack \in Nat
           /\ m.type = "ACK2" => m.ack \in Nat
           /\ m.type = "NAK" => m.first \in Nat /\ m.last \in Nat
BY DEF Message

LEMMA SendAdds ==
    ASSUME NEW out, Send(out)
    PROVE  net' \subseteq net \cup out
BY DEF Send

LEMMA ConsumeAdds ==
    ASSUME NEW m, NEW out, Consume(m, out)
    PROVE  net' \subseteq net \cup out
BY DEF Consume

\* What an action adds to the network decides whether the messages stay
\* correct, as long as the numbers they are compared with only grow.
LEMMA MsgInvPreserved ==
    ASSUME IInv, NEW m \in net,
           sndCurrSeqNo' \in Nat, sndCurrSeqNo <= sndCurrSeqNo',
           rcvLastAck' \in Nat, rcvLastAck <= rcvLastAck',
           rcvCurrSeqNo' \in Nat, rcvCurrSeqNo <= rcvCurrSeqNo',
           \A a \in Nat : Complete(a) => Complete(a)',
           \A a \in Nat : SenderHas(a) => SenderHas(a)'
    PROVE  MsgInv(m)'
<1>1. m \in Message /\ MsgInv(m)
  BY DEF IInv, TypeOK, LinkInv
<1>2. /\ sndCurrSeqNo \in Nat /\ rcvLastAck \in Nat /\ rcvCurrSeqNo \in Nat
  BY DEF IInv, TypeOK
<1> QED
  BY <1>1, <1>2, MessageFields DEF MsgInv, Seqs, ISN
-----------------------------------------------------------------------------
LEMMA InitIInv == Init => IInv
<1> SUFFICES ASSUME Init PROVE IInv
  OBVIOUS
<1> USE SizesAssumption DEF Init, ISN, None, Seqs, Sides
<1>1. TypeOK
  <2>1. delivered \in Seq(Seqs)
    OBVIOUS
  <2>2. /\ status \in [Sides -> {"up", "expired", "shutdown", "protocol"}]
        /\ closed \in [Sides -> BOOLEAN]
    OBVIOUS
  <2>3. ackStage \in [pc : {"idle", "ackLock", "update"}, ack : Nat]
    OBVIOUS
  <2>4. unit \in [Seqs -> Seqs \cup {None}]
    OBVIOUS
  <2>5. /\ sndLossList \subseteq Seqs /\ rcvLossList \subseteq Seqs
        /\ lostSeq \in Seqs \cup {None} /\ net \subseteq Message
    OBVIOUS
  <2>6. flowWindowSize \in Int
    OBVIOUS
  <2>8. onSndUList \in BOOLEAN
    OBVIOUS
  <2>7. /\ firstBlock \in Nat /\ currBlock \in Nat /\ lastBlock \in Nat
        /\ count \in Int /\ adding \in Nat
        /\ sndCurrSeqNo \in Nat /\ sndLastAck \in Nat /\ sndLastDataAck \in Nat
        /\ rcvCurrSeqNo \in Nat /\ rcvLastAck \in Nat /\ rcvLastAckAck \in Nat
        /\ startPos \in Nat /\ lastAckPos \in Nat
    OBVIOUS
  <2> QED
    BY <2>1, <2>2, <2>3, <2>4, <2>5, <2>6, <2>7, <2>8 DEF TypeOK
<1>2. SndInv
  BY DEF SndInv
<1>3. RcvInv
  BY DEF RcvInv, Held
<1>4. LinkInv
  BY DEF LinkInv, Complete, SenderHas
<1> QED
  BY <1>1, <1>2, <1>3, <1>4 DEF IInv
-----------------------------------------------------------------------------
(* Frame lemmas: what an action does not touch stays as it is.             *)

LEMMA RcvInvFrame ==
    ASSUME IInv, UNCHANGED rcvVars
    PROVE  RcvInv'
BY DEF IInv, RcvInv, Held, rcvVars, rcvSeqVars, rcvBufVars

LEMMA SndInvFrame ==
    ASSUME IInv, UNCHANGED <<sndVars, closed>>
    PROVE  SndInv'
BY DEF IInv, SndInv, sndVars, blockVars, countVars, sndSeqVars, taskVars

\* The parts of LinkInv that are not about messages, for actions of the sender
\* that leave its own position and the ACK in progress alone.
LEMMA LinkInvFrame ==
    ASSUME IInv, UNCHANGED rcvVars,
           UNCHANGED <<sndCurrSeqNo, sndLastAck, sndLastDataAck, ackStage>>,
           net' = net,
           \A side \in Sides : status'[side] # "protocol"
    PROVE  LinkInv'
<1>1. /\ rcvCurrSeqNo' <= sndCurrSeqNo' /\ Complete(sndLastAck)'
      /\ sndLastDataAck' <= rcvLastAck'
      /\ (ackStage.pc = "ackLock" => ackStage.ack <= rcvLastAck)'
      /\ rcvLastAckAck' <= rcvLastAck'
      /\ SenderHas(rcvLastAckAck)'
  BY DEF IInv, LinkInv, Complete, SenderHas, rcvVars, rcvSeqVars
<1>2. \A m \in net' : MsgInv(m)'
  BY DEF IInv, LinkInv, MsgInv, Complete, SenderHas, rcvVars, rcvSeqVars
<1> QED
  BY <1>1, <1>2 DEF LinkInv
-----------------------------------------------------------------------------
(* The actions of the applications and of the snd queue worker.            *)

LEMMA SendLinkStep == ASSUME IInv, SendLink PROVE IInv'
<1> USE DEF SendLink, rcvVars, rcvSeqVars, rcvBufVars, connVars, blockVars, countVars, sndSeqVars, taskVars, sndVars, IInv
<1>1. TypeOK'
  BY SizesAssumption DEF TypeOK
<1>2. SndInv'
  BY SizesAssumption DEF SndInv, TypeOK, Room
<1>3. RcvInv'
  BY RcvInvFrame
<1>4. LinkInv'
  BY LinkInvFrame DEF LinkInv
<1> QED
  BY <1>1, <1>2, <1>3, <1>4

LEMMA SendCountStep == ASSUME IInv, SendCount PROVE IInv'
<1> USE DEF SendCount, rcvVars, rcvSeqVars, rcvBufVars, connVars, blockVars, countVars, sndSeqVars, taskVars, sndVars, IInv
<1>1. TypeOK'
  BY DEF TypeOK
<1>2. SndInv'
  BY DEF SndInv, TypeOK
<1>3. RcvInv'
  BY RcvInvFrame
<1>4. LinkInv'
  BY LinkInvFrame DEF LinkInv
<1> QED
  BY <1>1, <1>2, <1>3, <1>4

LEMMA PopBrokenStep == ASSUME IInv, PopBroken PROVE IInv'
<1> USE DEF PopBroken, rcvVars, rcvSeqVars, rcvBufVars, connVars, blockVars, countVars, sndSeqVars, taskVars, sndVars, IInv
<1>1. TypeOK'
  BY DEF TypeOK
<1>2. SndInv'
  BY DEF SndInv, TypeOK
<1>3. RcvInv'
  BY RcvInvFrame
<1>4. LinkInv'
  BY LinkInvFrame DEF LinkInv
<1> QED
  BY <1>1, <1>2, <1>3, <1>4

LEMMA PopLostStep == ASSUME IInv, PopLost PROVE IInv'
<1> USE DEF PopLost, rcvVars, rcvSeqVars, rcvBufVars, connVars, blockVars, countVars, sndSeqVars, taskVars, sndVars, IInv
<1>1. TypeOK'
  BY DEF TypeOK
<1>2. SndInv'
  BY DEF SndInv, TypeOK
<1>3. RcvInv'
  BY RcvInvFrame
<1>4. LinkInv'
  BY LinkInvFrame DEF LinkInv
<1> QED
  BY <1>1, <1>2, <1>3, <1>4

LEMMA RescheduleStep == ASSUME IInv, Reschedule PROVE IInv'
<1> USE DEF Reschedule, Idle, rcvVars, rcvSeqVars, rcvBufVars, connVars, blockVars, countVars, sndSeqVars, taskVars, sndVars, IInv
<1>1. TypeOK'
  BY DEF TypeOK, None
<1>2. SndInv'
  BY DEF SndInv, TypeOK
<1>3. RcvInv'
  BY RcvInvFrame
<1>4. LinkInv'
  <2>1. \A a \in Nat : SenderHas(a) => SenderHas(a)'
    BY DEF SenderHas
  <2>2. \A m \in net' : MsgInv(m)'
    BY <2>1, MessageFields DEF LinkInv, MsgInv, Complete, TypeOK
  <2> QED
    BY <2>1, <2>2 DEF LinkInv, Complete, TypeOK
<1> QED
  BY <1>1, <1>2, <1>3, <1>4

LEMMA RetransmitStep == ASSUME IInv, Retransmit PROVE IInv'
<1> USE DEF Retransmit, rcvVars, rcvSeqVars, rcvBufVars, connVars, blockVars, countVars, sndSeqVars, taskVars, sndVars, IInv
<1> DEFINE data == [type |-> "DATA", seq |-> lostSeq,
                    data |-> firstBlock + LostOffset]
<1>0. net' \subseteq net \cup {data} /\ (net' = net \/ LostOffset >= 0)
  BY SendAdds DEF LostOffset, TypeOK, Seqs, ISN, None
<1>5. LostOffset >= 0 => data \in Message /\ data.data = data.seq
  BY DEF Message, LostOffset, SndInv, TypeOK, Seqs, None, ISN
<1>1. TypeOK'
  <2>1. net' \subseteq Message
    BY <1>0, <1>5 DEF TypeOK
  <2> QED
    BY <2>1 DEF TypeOK
<1>2. SndInv'
  BY DEF SndInv, TypeOK, None
<1>3. RcvInv'
  BY RcvInvFrame
<1>4. LinkInv'
  <2>1. \A m \in net : MsgInv(m)'
    BY DEF LinkInv, MsgInv, Complete, SenderHas
  <2>2. ASSUME NEW m, m = data, LostOffset >= 0 PROVE MsgInv(m)'
    BY <2>2, <1>5 DEF MsgInv, SndInv
  <2>3. \A m \in net' : MsgInv(m)'
    BY <2>1, <2>2, <1>0
  <2> QED
    BY <2>3 DEF LinkInv, Complete, SenderHas
<1> QED
  BY <1>1, <1>2, <1>3, <1>4

LEMMA PopNewStep == ASSUME IInv, PopNew PROVE IInv'
<1> USE DEF PopNew, rcvVars, rcvSeqVars, rcvBufVars, connVars, blockVars, countVars, sndSeqVars, taskVars, sndVars, IInv
<1> DEFINE data == [type |-> "DATA", seq |-> sndCurrSeqNo + 1, data |-> currBlock]
<1>0. CASE net' = net /\ UNCHANGED <<sndCurrSeqNo, currBlock>>
  <2>1. TypeOK'
    BY <1>0 DEF TypeOK
  <2>2. SndInv'
    BY <1>0 DEF SndInv
  <2>3. RcvInv'
    BY RcvInvFrame
  <2>4. LinkInv'
    BY <1>0, LinkInvFrame DEF LinkInv
  <2> QED
    BY <2>1, <2>2, <2>3, <2>4
<1>5. CASE /\ currBlock # lastBlock
           /\ sndCurrSeqNo' = sndCurrSeqNo + 1 /\ currBlock' = currBlock + 1
           /\ UNCHANGED onSndUList
           /\ Send({data})
  <2>0. net' \subseteq net \cup {data}
    BY <1>5, SendAdds
  <2>5. data \in Message /\ data.data = data.seq
    BY <1>5, SizesAssumption DEF Message, SndInv, TypeOK, Seqs, ISN
  <2>1. TypeOK'
    <3>1. net' \subseteq Message
      BY <2>0, <2>5 DEF TypeOK
    <3> QED
      BY <1>5, <3>1 DEF TypeOK
  <2>2. SndInv'
    BY <1>5 DEF SndInv, TypeOK, Seqs
  <2>3. RcvInv'
    BY RcvInvFrame
  <2>4. LinkInv'
    <3>1. \A m \in net : MsgInv(m)'
      <4>1. \A a \in Nat : Complete(a) => Complete(a)'
        BY DEF Complete
      <4>2. \A a \in Nat : SenderHas(a) => SenderHas(a)'
        BY DEF SenderHas
      <4> QED
        BY <1>5, <4>1, <4>2, MsgInvPreserved DEF TypeOK
    <3>2. ASSUME NEW m, m = data PROVE MsgInv(m)'
      BY <3>2, <1>5, <2>5 DEF MsgInv, TypeOK
    <3>3. \A m \in net' : MsgInv(m)'
      BY <3>1, <3>2, <2>0
    <3> QED
      BY <1>5, <3>3 DEF LinkInv, Complete, SenderHas, TypeOK
  <2> QED
    BY <2>1, <2>2, <2>3, <2>4
<1> QED
  BY <1>0, <1>5

LEMMA CloseStep == ASSUME IInv, NEW side \in Sides, Close(side) PROVE IInv'
<1> USE DEF Close, rcvVars, rcvSeqVars, rcvBufVars, connVars, blockVars, countVars, sndSeqVars, taskVars, sndVars, IInv
<1> DEFINE out == IF status[side] = "shutdown" THEN {}
                  ELSE {[type |-> "SHUTDOWN", to |-> Peer(side)]}
<1>0. net' \subseteq net \cup out
  BY SendAdds
<1>5. \A m \in out : m \in Message /\ m.type = "SHUTDOWN"
  BY DEF Message, Peer, Sides
<1>1. TypeOK'
  <2>1. net' \subseteq Message
    BY <1>0, <1>5 DEF TypeOK
  <2>2. onSndUList' \in BOOLEAN
    BY DEF TypeOK
  <2>3. closed' \in [Sides -> BOOLEAN]
    BY DEF TypeOK
  <2> QED
    BY <2>1, <2>2, <2>3 DEF TypeOK
<1>2. SndInv'
  BY DEF SndInv
<1>3. RcvInv'
  BY RcvInvFrame
<1>4. LinkInv'
  <2>1. \A m \in net : MsgInv(m)'
    BY DEF LinkInv, MsgInv, Complete, SenderHas
  <2>2. \A m \in out : MsgInv(m)'
    BY <1>5 DEF MsgInv
  <2>3. \A m \in net' : MsgInv(m)'
    BY <2>1, <2>2, <1>0
  <2> QED
    BY <2>3 DEF LinkInv, Complete, SenderHas
<1> QED
  BY <1>1, <1>2, <1>3, <1>4

LEMMA RecvStep == ASSUME IInv, Recv PROVE IInv'
<1> USE DEF Recv, rcvVars, rcvSeqVars, rcvBufVars, connVars, blockVars, countVars, sndSeqVars, taskVars, sndVars, IInv
<1> PICK n \in 1 .. RcvDataSize :
          /\ delivered' = [i \in 1 .. Len(delivered) + n |->
                              IF i <= Len(delivered) THEN delivered[i]
                              ELSE unit[startPos + i - Len(delivered) - 1]]
          /\ unit' = [p \in Seqs |-> IF p \in startPos .. startPos + n - 1
                                       THEN None ELSE unit[p]]
          /\ startPos' = startPos + n
  OBVIOUS
<1>0. n \in Nat /\ n >= 1 /\ startPos + n <= lastAckPos /\ Len(delivered) \in Nat
  BY DEF TypeOK, RcvDataSize
<1>5. \A p \in startPos .. startPos + n - 1 : p \in Seqs /\ p \in Held /\ unit[p] = p
  <2> TAKE p \in startPos .. startPos + n - 1
  <2>1. p \in Seqs /\ p <= rcvCurrSeqNo /\ p < rcvLastAck
    BY <1>0, SizesAssumption, SMTT(30) DEF RcvInv, SndInv, LinkInv, TypeOK, Seqs, ISN
  <2>2. p \in Held
    BY <2>1, <1>0 DEF RcvInv, TypeOK, Held, Seqs, ISN
  <2> QED
    BY <2>1, <2>2 DEF RcvInv
<1>6. \A i \in 1 .. Len(delivered) + n : delivered'[i] = i /\ i \in Seqs
  <2> TAKE i \in 1 .. Len(delivered) + n
  <2>1. CASE i <= Len(delivered)
    <3>1. delivered[i] = i /\ delivered'[i] = delivered[i]
      BY <2>1, <1>0 DEF RcvInv
    <3>2. delivered[i] \in Seqs
      BY <2>1, <1>0 DEF TypeOK
    <3> QED
      BY <3>1, <3>2
  <2>2. CASE i > Len(delivered)
    <3>1. startPos + i - Len(delivered) - 1 = i /\ i \in startPos .. startPos + n - 1
      BY <2>2, <1>0, SMTT(30) DEF RcvInv, TypeOK
    <3> QED
      BY <2>2, <1>0, <3>1, <1>5
  <2> QED
    BY <2>1, <2>2, <1>0
<1>7. delivered' \in Seq(Seqs) /\ Len(delivered') = Len(delivered) + n
  <2>1. delivered' = [i \in 1 .. Len(delivered) + n |-> i]
    BY <1>6
  <2>2. \A i \in 1 .. Len(delivered) + n : i \in Seqs
    BY <1>6
  <2> QED
    BY <2>1, <2>2, <1>0
<1>1. TypeOK'
  BY <1>0, <1>7 DEF TypeOK
<1>2. SndInv'
  BY SndInvFrame
<1>3. RcvInv'
  <2>1. \A p \in Seqs : unit'[p] = IF p \in Held' THEN p ELSE None
    <3> TAKE p \in Seqs
    <3>1. p \in Held' <=> p \in Held /\ p \notin startPos .. startPos + n - 1
      BY <1>0, SMTT(30) DEF Held, TypeOK, Seqs, ISN, RcvInv
    <3> QED
      BY <3>1, <1>0 DEF RcvInv, TypeOK
  <2>2. /\ startPos' <= lastAckPos' /\ startPos' = Len(delivered') + 1
        /\ ISN <= startPos'
    BY <1>0, <1>7 DEF RcvInv, TypeOK, ISN
  <2>3. rcvCurrSeqNo' <= startPos' + RcvBufSize - 2
    BY <1>0, SizesAssumption DEF RcvInv, TypeOK
  <2> QED
    BY <2>1, <2>2, <2>3, <1>6, <1>7 DEF RcvInv
<1>4. LinkInv'
  <2>1. \A m \in net : MsgInv(m)'
    BY DEF LinkInv, MsgInv, Complete, SenderHas
  <2> QED
    BY <2>1 DEF LinkInv, Complete, SenderHas
<1> QED
  BY <1>1, <1>2, <1>3, <1>4

-----------------------------------------------------------------------------
(* The rcv queue worker of the sender.                              *)

LEMMA ProcessShutdownStep ==
    ASSUME IInv, NEW side \in Sides, NEW m \in net, ProcessShutdown(side, m)
    PROVE  IInv'
<1> USE DEF ProcessShutdown, Break, rcvVars, rcvSeqVars, rcvBufVars, connVars, blockVars, countVars, sndSeqVars, taskVars, sndVars, IInv
<1>0. net' \subseteq net
  BY ConsumeAdds
<1>1. TypeOK'
  BY <1>0 DEF TypeOK
<1>2. SndInv'
  BY SndInvFrame
<1>3. RcvInv'
  BY RcvInvFrame
<1>4. LinkInv'
  <2>1. \A n \in net' : MsgInv(n)'
    BY <1>0 DEF LinkInv, MsgInv, Complete, SenderHas
  <2>2. \A s \in Sides : status'[s] # "protocol"
    BY DEF LinkInv, TypeOK
  <2> QED
    BY <2>1, <2>2 DEF LinkInv, Complete, SenderHas
<1> QED
  BY <1>1, <1>2, <1>3, <1>4

LEMMA ExpireStep == ASSUME IInv, NEW side \in Sides, Expire(side) PROVE IInv'
<1> USE DEF Expire, Break, rcvVars, rcvSeqVars, rcvBufVars, connVars, blockVars, countVars, sndSeqVars, taskVars, sndVars, IInv
<1>1. TypeOK'
  BY DEF TypeOK
<1>2. SndInv'
  BY SndInvFrame
<1>3. RcvInv'
  BY RcvInvFrame
<1>4. LinkInv'
  <2>1. \A s \in Sides : status'[s] # "protocol"
    BY DEF LinkInv, TypeOK
  <2> QED
    BY <2>1, LinkInvFrame
<1> QED
  BY <1>1, <1>2, <1>3, <1>4

LEMMA ProcessLiteAckStep ==
    ASSUME IInv, NEW m \in net, ProcessLiteAck(m) PROVE IInv'
<1> USE DEF ProcessLiteAck, rcvVars, rcvSeqVars, rcvBufVars, connVars, blockVars, countVars, sndSeqVars, taskVars, sndVars, IInv
<1>0. net' \subseteq net
  BY ConsumeAdds
<1>5. m.ack \in Nat /\ Complete(m.ack)
  BY MessageFields DEF LinkInv, MsgInv, TypeOK
<1>1. TypeOK'
  BY <1>0, <1>5 DEF TypeOK
<1>2. SndInv'
  <2>1. m.ack <= sndCurrSeqNo + 1
    BY <1>5 DEF Complete, LinkInv, TypeOK
  <2> QED
    BY <2>1, <1>5 DEF SndInv, TypeOK
<1>3. RcvInv'
  BY RcvInvFrame
<1>4. LinkInv'
  <2>1. \A n \in net' : MsgInv(n)'
    BY <1>0 DEF LinkInv, MsgInv, Complete, SenderHas
  <2> QED
    BY <2>1, <1>5 DEF LinkInv, Complete, SenderHas
<1> QED
  BY <1>1, <1>2, <1>3, <1>4

LEMMA ProcessAckStep == ASSUME IInv, NEW m \in net, ProcessAck(m) PROVE IInv'
<1> USE DEF ProcessAck, rcvVars, rcvSeqVars, rcvBufVars, connVars, blockVars, countVars, sndSeqVars, taskVars, sndVars, IInv
<1> DEFINE ack2 == [type |-> "ACK2", ack |-> m.ack]
<1>0. net' \subseteq net \cup {ack2}
  BY ConsumeAdds
<1>5. /\ m.ack \in Nat /\ m.win \in Nat /\ m.ack <= rcvLastAck /\ ISN <= m.ack
      /\ m.ack <= sndCurrSeqNo + 1
  BY MessageFields DEF LinkInv, RcvInv, MsgInv, TypeOK
<1>6. AckValid(m.ack)
  BY <1>5 DEF AckValid
<1>7. /\ ackStage' = [pc |-> "ackLock", ack |-> m.ack] /\ UNCHANGED status
      /\ m.ack <= sndLastAck' /\ sndLastAck' \in {sndLastAck, m.ack}
      /\ sndLastAck <= sndLastAck' /\ flowWindowSize' \in {m.win, flowWindowSize}
  BY <1>5, <1>6 DEF TypeOK
<1>1. TypeOK'
  <2>1. ack2 \in Message
    BY <1>5 DEF Message
  <2>2. net' \subseteq Message
    BY <2>1, <1>0 DEF TypeOK
  <2> QED
    BY <2>2, <1>5, <1>7 DEF TypeOK
<1>8. UNCHANGED <<firstBlock, currBlock, lastBlock, count, adding, sndCurrSeqNo,
                  sndLastDataAck, sndLossList, lostSeq, closed>>
  OBVIOUS
<1>2. SndInv'
  BY <1>5, <1>7, <1>8 DEF SndInv, TypeOK
<1>3. RcvInv'
  BY RcvInvFrame
<1>4. LinkInv'
  <2>0. SenderHas(m.ack)' /\ ackStage = Idle
    BY <1>5, <1>7 DEF SenderHas, Serving
  <2>1. \A a \in Nat : SenderHas(a) => SenderHas(a)'
    BY <2>0, <1>7 DEF SenderHas, Idle
  <2>2. ASSUME NEW n \in net PROVE MsgInv(n)'
    BY <2>1, MessageFields DEF LinkInv, MsgInv, Complete, TypeOK
  <2>3. ASSUME NEW n, n = ack2 PROVE MsgInv(n)'
    BY <2>3, <2>0, <1>5 DEF MsgInv
  <2>4. \A n \in net' : MsgInv(n)'
    BY <2>2, <2>3, <1>0
  <2>5. Complete(m.ack)
    BY <1>5, SMTT(30) DEF Complete, RcvInv, TypeOK, Seqs
  <2>6. Complete(sndLastAck)'
    BY <2>5, <1>7 DEF LinkInv, Complete
  <2> QED
    BY <2>1, <2>4, <2>6, <1>5, <1>7 DEF LinkInv, TypeOK
<1> QED
  BY <1>1, <1>2, <1>3, <1>4

LEMMA AckSndBufferStep == ASSUME IInv, AckSndBuffer PROVE IInv'
<1> USE DEF AckSndBuffer, Idle, rcvVars, rcvSeqVars, rcvBufVars, connVars, blockVars, countVars, sndSeqVars, taskVars, sndVars, IInv
<1>0. /\ ackStage.ack \in Nat /\ ackStage.ack <= sndLastAck /\ ackStage.ack <= rcvLastAck
  BY DEF SndInv, LinkInv, TypeOK
<1>1. TypeOK'
  BY <1>0, SMTT(30) DEF TypeOK, None, SndInv
<1>2. SndInv'
  <2>1. CASE ackStage.ack - sndLastDataAck <= 0
    BY <2>1 DEF SndInv
  <2>2. CASE ~(ackStage.ack - sndLastDataAck <= 0)
    <3>1. /\ firstBlock' = ackStage.ack /\ sndLastDataAck' = ackStage.ack
          /\ count' = count - (ackStage.ack - firstBlock)
          /\ firstBlock <= firstBlock'
      BY <2>2, <1>0 DEF SndInv, TypeOK
    <3>2. /\ count' + adding' = lastBlock' - firstBlock'
          /\ lastBlock' - firstBlock' <= SndBufSize
          /\ ISN <= firstBlock' /\ firstBlock' <= currBlock'
      <4>1. /\ count + adding = lastBlock - firstBlock
            /\ lastBlock - firstBlock <= SndBufSize /\ ISN <= firstBlock
            /\ currBlock = sndCurrSeqNo + 1 /\ sndLastAck <= sndCurrSeqNo + 1
        BY DEF SndInv
      <4>2. /\ count \in Int /\ adding \in Nat /\ lastBlock \in Nat
            /\ firstBlock \in Nat /\ sndCurrSeqNo \in Nat /\ sndLastAck \in Nat
            /\ adding' = adding /\ lastBlock' = lastBlock /\ currBlock' = currBlock
        BY DEF TypeOK
      <4> QED
        BY <4>1, <4>2, <3>1, <1>0, SizesAssumption DEF ISN
    <3>3. \A s \in sndLossList' : sndLastDataAck' <= s /\ s <= sndCurrSeqNo'
      BY <2>2, <3>1 DEF SndInv
    <3> QED
      BY <2>2, <3>1, <3>2, <3>3, <1>0 DEF SndInv
  <2> QED
    BY <2>1, <2>2
<1>3. RcvInv'
  BY RcvInvFrame
<1>4. LinkInv'
  <2>0. sndLastDataAck <= sndLastDataAck' /\ ackStage.ack <= sndLastDataAck'
    BY <1>0 DEF TypeOK
  <2>1. \A a \in Nat : SenderHas(a) => SenderHas(a)'
    BY <2>0, <1>0 DEF SenderHas, TypeOK
  <2>2. \A m \in net' : MsgInv(m)'
    BY <2>1, MessageFields DEF LinkInv, MsgInv, Complete, TypeOK
  <2> QED
    BY <2>1, <2>2, <1>0 DEF LinkInv, Complete, TypeOK
<1> QED
  BY <1>1, <1>2, <1>3, <1>4

LEMMA ProcessNakStep == ASSUME IInv, NEW m \in net, ProcessNak(m) PROVE IInv'
<1> USE DEF ProcessNak, Idle, rcvVars, rcvSeqVars, rcvBufVars, connVars, blockVars, countVars, sndSeqVars, taskVars, sndVars, IInv
<1>0. net' \subseteq net
  BY ConsumeAdds
<1>5. /\ m.first \in Nat /\ m.last \in Nat /\ ISN <= m.first
      /\ m.first <= m.last /\ m.last <= sndCurrSeqNo
  BY MessageFields DEF LinkInv, MsgInv, TypeOK, ISN
<1>8. ~(m.first > m.last \/ m.last > sndCurrSeqNo)
  BY <1>5 DEF TypeOK
<1>6. /\ sndLossList' = sndLossList \cup Reported(m) /\ UNCHANGED status
      /\ ackStage' = [pc |-> "update", ack |-> None] /\ ackStage.pc = "idle"
  BY <1>8 DEF Serving
<1>7. \A s \in Reported(m) : s \in Seqs /\ sndLastDataAck <= s /\ s <= sndCurrSeqNo
  BY <1>5, SizesAssumption DEF Reported, SndInv, TypeOK, Seqs, ISN
<1>1. TypeOK'
  BY <1>0, <1>6, <1>7 DEF TypeOK, None
<1>2. SndInv'
  BY <1>6, <1>7 DEF SndInv
<1>3. RcvInv'
  BY RcvInvFrame
<1>4. LinkInv'
  <2>1. \A a \in Nat : SenderHas(a) => SenderHas(a)'
    BY <1>6 DEF SenderHas
  <2>2. \A n \in net' : MsgInv(n)'
    BY <2>1, <1>0, MessageFields DEF LinkInv, MsgInv, Complete, TypeOK
  <2> QED
    BY <2>1, <2>2, <1>6 DEF LinkInv, Complete, TypeOK
<1> QED
  BY <1>1, <1>2, <1>3, <1>4

LEMMA ExpResendStep == ASSUME IInv, ExpResend PROVE IInv'
<1> USE DEF ExpResend, Idle, rcvVars, rcvSeqVars, rcvBufVars, connVars, blockVars, countVars, sndSeqVars, taskVars, sndVars, IInv
<1>6. ackStage' = [pc |-> "update", ack |-> None] /\ ackStage.pc = "idle"
  BY DEF Serving
<1>7. \A s \in sndLossList' : s \in Seqs /\ sndLastDataAck <= s /\ s <= sndCurrSeqNo
  BY SizesAssumption DEF SndInv, TypeOK, Seqs, ISN
<1>1. TypeOK'
  BY <1>6, <1>7 DEF TypeOK, None
<1>2. SndInv'
  BY <1>6, <1>7 DEF SndInv
<1>3. RcvInv'
  BY RcvInvFrame
<1>4. LinkInv'
  <2>1. \A a \in Nat : SenderHas(a) => SenderHas(a)'
    BY <1>6 DEF SenderHas
  <2>2. \A n \in net' : MsgInv(n)'
    BY <2>1, MessageFields DEF LinkInv, MsgInv, Complete, TypeOK
  <2> QED
    BY <2>1, <2>2, <1>6 DEF LinkInv, Complete, TypeOK
<1> QED
  BY <1>1, <1>2, <1>3, <1>4

-----------------------------------------------------------------------------
(* The rcv queue worker of the receiver.                             *)

\* The number of an ACK: everything before it has been received.
LEMMA AckNo ==
    ASSUME IInv, NEW ack \in rcvLossList \cup {rcvCurrSeqNo + 1}, IsAckNo(ack)
    PROVE  ack \in Nat /\ rcvLastAck <= ack /\ Complete(ack) /\ ISN <= ack
BY DEF IInv, TypeOK, RcvInv, IsAckNo, Complete, Seqs, ISN

LEMMA ProcessDataStep == ASSUME IInv, NEW m \in net, ProcessData(m) PROVE IInv'
<1> USE DEF ProcessData, rcvVars, rcvSeqVars, rcvBufVars, connVars, blockVars, countVars, sndSeqVars, taskVars, sndVars, IInv
<1> DEFINE offset == m.seq - rcvLastAck
           slot == lastAckPos + offset
           nak == [type |-> "NAK", first |-> rcvCurrSeqNo + 1, last |-> m.seq - 1]
<1>0. m.seq \in Seqs /\ m.data = m.seq /\ m.seq \in Nat /\ m.seq <= sndCurrSeqNo
  BY MessageFields DEF LinkInv, MsgInv, TypeOK, Seqs, ISN
<1>2. SndInv'
  BY SndInvFrame
<1>5. CASE UNCHANGED <<unit, rcvCurrSeqNo, rcvLossList>> /\ Consume(m, {})
  <2>0. net' \subseteq net
    BY <1>5, ConsumeAdds
  <2>1. TypeOK'
    BY <1>5, <2>0 DEF TypeOK
  <2>3. RcvInv'
    BY <1>5, RcvInvFrame
  <2>4. LinkInv'
    <3>1. \A n \in net' : MsgInv(n)'
      BY <1>5, <2>0 DEF LinkInv, MsgInv, Complete, SenderHas
    <3> QED
      BY <1>5, <3>1 DEF LinkInv, Complete, SenderHas
  <2> QED
    BY <1>2, <2>1, <2>3, <2>4
<1>6. CASE /\ ~(offset < 0 \/ offset >= AvailBufSize \/ unit[slot] # None)
           /\ unit' = [unit EXCEPT ![slot] = m.data]
           /\ IF m.seq > rcvCurrSeqNo
                THEN /\ rcvCurrSeqNo' = m.seq
                     /\ rcvLossList' = rcvLossList \cup Gap(m.seq)
                ELSE /\ rcvLossList' = rcvLossList \ {m.seq}
                     /\ UNCHANGED rcvCurrSeqNo
           /\ Consume(m, IF m.seq > rcvCurrSeqNo + 1 THEN {nak} ELSE {})
  <2>1. /\ slot = m.seq /\ rcvLastAck <= m.seq /\ startPos <= m.seq
        /\ m.seq <= startPos + RcvBufSize - 2
        /\ unit' = [unit EXCEPT ![m.seq] = m.seq]
    <3>1. /\ lastAckPos = rcvLastAck /\ startPos <= lastAckPos
          /\ lastAckPos \in Nat /\ startPos \in Nat
      BY DEF RcvInv, TypeOK
    <3>2. ~(offset < 0) /\ ~(offset >= RcvBufSize - (lastAckPos - startPos) - 1)
      BY <1>6 DEF AvailBufSize, RcvDataSize
    <3>3. slot = m.seq /\ rcvLastAck <= m.seq
      BY <3>1, <3>2, <1>0
    <3>4. m.seq <= startPos + RcvBufSize - 2
      BY <3>1, <3>2, <1>0, SizesAssumption
    <3>5. unit' = [unit EXCEPT ![m.seq] = m.seq]
      BY <3>3, <1>6, <1>0
    <3> QED
      BY <3>1, <3>3, <3>4, <3>5, <1>0
  <2>2. /\ rcvCurrSeqNo' \in Nat /\ rcvCurrSeqNo <= rcvCurrSeqNo' /\ m.seq <= rcvCurrSeqNo'
        /\ rcvCurrSeqNo' \in {rcvCurrSeqNo, m.seq}
    BY <1>6, <1>0 DEF TypeOK
  <2>3. \A s \in Gap(m.seq) : /\ s \in Seqs /\ rcvLastAck <= s
                              /\ rcvCurrSeqNo < s /\ s < m.seq
    BY <1>0, SizesAssumption, SMTT(30) DEF Gap, Seqs, ISN, TypeOK, RcvInv
  <2>4. \A s \in rcvLossList' : s \in Seqs /\ rcvLastAck <= s /\ s < rcvCurrSeqNo' /\ s # m.seq
    <3>1. CASE m.seq > rcvCurrSeqNo
      <4>1. \A s \in rcvLossList : s \in Nat /\ rcvLastAck <= s /\ s < rcvCurrSeqNo
        BY DEF RcvInv, TypeOK, Seqs, ISN
      <4>2. rcvLossList' = rcvLossList \cup Gap(m.seq) /\ rcvCurrSeqNo' = m.seq
        BY <3>1, <1>6
      <4> QED
        BY <4>1, <4>2, <3>1, <2>3, <1>0 DEF TypeOK
    <3>2. CASE ~(m.seq > rcvCurrSeqNo)
      BY <3>2, <1>6 DEF RcvInv, TypeOK
    <3> QED
      BY <3>1, <3>2
  <2>5. \A p \in Seqs : p \in Held' <=> p \in Held \/ p = m.seq
    <3> TAKE p \in Seqs
    <3>0. /\ \A s \in rcvLossList : s < rcvCurrSeqNo
          /\ rcvCurrSeqNo \in Nat /\ startPos \in Nat /\ p \in Nat
      BY DEF RcvInv, TypeOK, Seqs, ISN
    <3>1. CASE m.seq > rcvCurrSeqNo
      <4>1. /\ rcvLossList' = rcvLossList \cup ((rcvCurrSeqNo + 1) .. (m.seq - 1))
            /\ rcvCurrSeqNo' = m.seq
        BY <3>1, <1>6 DEF Gap
      <4>2. p \in Held' <=> /\ startPos <= p /\ p <= m.seq
                            /\ p \notin rcvLossList
                            /\ ~(rcvCurrSeqNo + 1 <= p /\ p <= m.seq - 1)
        BY <4>1, <3>0, <1>0 DEF Held
      <4>3. p \in Held <=> /\ startPos <= p /\ p <= rcvCurrSeqNo
                           /\ p \notin rcvLossList
        BY <3>0 DEF Held
      <4>4. m.seq \notin rcvLossList
        BY <3>0, <3>1, <1>0
      <4> QED
        BY <4>2, <4>3, <4>4, <3>0, <3>1, <2>1, <1>0
    <3>2. CASE ~(m.seq > rcvCurrSeqNo)
      <4>1. rcvLossList' = rcvLossList \ {m.seq} /\ rcvCurrSeqNo' = rcvCurrSeqNo
        BY <3>2, <1>6
      <4> QED
        BY <4>1, <3>0, <3>2, <2>1, <1>0 DEF Held
    <3> QED
      BY <3>1, <3>2
  <2>6. net' \subseteq net \cup (IF m.seq > rcvCurrSeqNo + 1 THEN {nak} ELSE {})
    BY <1>6, ConsumeAdds
  <2>7. TypeOK'
    <3>1. m.seq > rcvCurrSeqNo + 1 => nak \in Message
      BY <1>0 DEF Message, TypeOK
    <3>2. net' \subseteq Message
      BY <3>1, <2>6 DEF TypeOK
    <3>3. unit' \in [Seqs -> Seqs \cup {None}]
      BY <2>1, <1>0 DEF TypeOK
    <3> QED
      BY <3>2, <3>3, <2>2, <2>4 DEF TypeOK
  <2>8. RcvInv'
    <3>1. \A p \in Seqs : unit'[p] = IF p \in Held' THEN p ELSE None
      BY <2>1, <2>5, <1>0 DEF RcvInv, TypeOK
    <3>2. rcvCurrSeqNo' <= startPos' + RcvBufSize - 2
      BY <2>1, <2>2 DEF RcvInv
    <3>3. rcvLastAck' <= rcvCurrSeqNo' + 1
      <4>1. \A a, b, c \in Nat : a <= b + 1 /\ b <= c => a <= c + 1
        OBVIOUS
      <4> QED
        BY <4>1, <2>2 DEF RcvInv, TypeOK
    <3> QED
      BY <3>1, <3>2, <3>3, <2>4 DEF RcvInv
  <2>9. LinkInv'
    <3>1. \A a \in Nat : Complete(a) => Complete(a)'
      <4> TAKE a \in Nat
      <4>1. CASE m.seq > rcvCurrSeqNo
        <5>1. rcvLossList' = rcvLossList \cup Gap(m.seq) /\ rcvCurrSeqNo' = m.seq
          BY <4>1, <1>6
        <5>2. rcvCurrSeqNo \in Nat
          BY DEF TypeOK
        <5>3. \A s \in Gap(m.seq) : s \in Nat /\ rcvCurrSeqNo + 1 <= s
          BY <2>3, <5>2 DEF Seqs, ISN
        <5> QED
          BY <5>1, <5>2, <5>3, <4>1, <1>0 DEF Complete
      <4>2. CASE ~(m.seq > rcvCurrSeqNo)
        BY <4>2, <1>6 DEF Complete
      <4> QED
        BY <4>1, <4>2
    <3>2. \A a \in Nat : SenderHas(a) => SenderHas(a)'
      BY DEF SenderHas
    <3>3. ASSUME NEW n \in net PROVE MsgInv(n)'
      BY <3>1, <3>2, <2>2, MsgInvPreserved DEF TypeOK
    <3>4. ASSUME NEW n, n = nak, m.seq > rcvCurrSeqNo + 1 PROVE MsgInv(n)'
      BY <3>4, <1>0, <2>2 DEF MsgInv, TypeOK, ISN
    <3>5. \A n \in net' : MsgInv(n)'
      BY <3>3, <3>4, <2>6
    <3> QED
      BY <3>1, <3>2, <3>5, <2>2, <1>0 DEF LinkInv, TypeOK
  <2> QED
    BY <1>2, <2>7, <2>8, <2>9
<1> QED
  BY <1>5, <1>6

LEMMA SendAckStep == ASSUME IInv, SendAck PROVE IInv'
<1> USE DEF SendAck, rcvVars, rcvSeqVars, rcvBufVars, connVars, blockVars, countVars, sndSeqVars, taskVars, sndVars, IInv
<1> PICK ack \in rcvLossList \cup {rcvCurrSeqNo + 1} :
          /\ IsAckNo(ack)
          /\ AckDue(ack)
          /\ rcvLastAck' = ack
          /\ lastAckPos' = lastAckPos + (ack - rcvLastAck)
          /\ Send(IF ack > rcvLastAckAck
                    THEN {[type |-> "ACK", ack |-> ack,
                           win |-> Window(lastAckPos' - startPos)]}
                    ELSE {})
  OBVIOUS
<1>0. ack \in Nat /\ rcvLastAck <= ack /\ Complete(ack) /\ ISN <= ack
  BY AckNo
<1>5. lastAckPos' = ack /\ lastAckPos <= lastAckPos'
  BY <1>0 DEF RcvInv, TypeOK
<1> DEFINE win == Window(lastAckPos' - startPos)
           msg == [type |-> "ACK", ack |-> ack, win |-> win]
<1>6. win \in Nat
  BY <1>5, <1>0, SizesAssumption DEF Window, MinFlowWindow, TypeOK
<1>7. net' \subseteq net \cup {msg}
  BY SendAdds
<1>1. TypeOK'
  <2>1. msg \in Message
    BY <1>0, <1>6 DEF Message
  <2>2. net' \subseteq Message
    BY <2>1, <1>7 DEF TypeOK
  <2> QED
    BY <2>2, <1>0, <1>5 DEF TypeOK
<1>2. SndInv'
  BY SndInvFrame
<1>3. RcvInv'
  <2>1. Held' = Held
    BY DEF Held
  <2>2. \A s \in rcvLossList : ack <= s
    BY <1>0 DEF Complete
  <2>3. ack <= rcvCurrSeqNo + 1 /\ startPos <= ack
    BY <1>0 DEF Complete, RcvInv, TypeOK
  <2> QED
    BY <2>1, <2>2, <2>3, <1>5 DEF RcvInv
<1>4. LinkInv'
  <2>1. \A a \in Nat : Complete(a) => Complete(a)'
    BY DEF Complete
  <2>2. \A a \in Nat : SenderHas(a) => SenderHas(a)'
    BY DEF SenderHas
  <2>3. ASSUME NEW n \in net PROVE MsgInv(n)'
    BY <2>1, <2>2, <1>0, MsgInvPreserved DEF TypeOK
  <2>4. ASSUME NEW n, n = msg PROVE MsgInv(n)'
    BY <2>4, <1>0 DEF MsgInv
  <2>5. \A n \in net' : MsgInv(n)'
    BY <2>3, <2>4, <1>7
  <2>6. /\ sndLastDataAck <= ack /\ rcvLastAckAck <= ack
        /\ (ackStage.pc = "ackLock" => ackStage.ack <= ack)
    BY <1>0 DEF LinkInv, TypeOK
  <2> QED
    BY <2>1, <2>2, <2>5, <2>6 DEF LinkInv, TypeOK
<1> QED
  BY <1>1, <1>2, <1>3, <1>4

LEMMA SendLiteAckStep == ASSUME IInv, SendLiteAck PROVE IInv'
<1> USE DEF SendLiteAck, rcvVars, rcvSeqVars, rcvBufVars, connVars, blockVars, countVars, sndSeqVars, taskVars, sndVars, IInv
<1> PICK ack \in rcvLossList \cup {rcvCurrSeqNo + 1} :
          IsAckNo(ack) /\ Send({[type |-> "LITE", ack |-> ack]})
  OBVIOUS
<1> DEFINE msg == [type |-> "LITE", ack |-> ack]
<1>0. ack \in Nat /\ Complete(ack) /\ ISN <= ack
  BY AckNo
<1>7. net' \subseteq net \cup {msg}
  BY SendAdds
<1>1. TypeOK'
  <2>1. msg \in Message
    BY <1>0 DEF Message
  <2>2. net' \subseteq Message
    BY <2>1, <1>7 DEF TypeOK
  <2> QED
    BY <2>2 DEF TypeOK
<1>2. SndInv'
  BY SndInvFrame
<1>3. RcvInv'
  BY RcvInvFrame
<1>4. LinkInv'
  <2>1. ASSUME NEW n \in net PROVE MsgInv(n)'
    BY DEF LinkInv, MsgInv, Complete, SenderHas
  <2>2. ASSUME NEW n, n = msg PROVE MsgInv(n)'
    BY <2>2, <1>0 DEF MsgInv, Complete
  <2>3. \A n \in net' : MsgInv(n)'
    BY <2>1, <2>2, <1>7
  <2> QED
    BY <2>3 DEF LinkInv, Complete, SenderHas
<1> QED
  BY <1>1, <1>2, <1>3, <1>4

LEMMA ProcessAck2Step == ASSUME IInv, NEW m \in net, ProcessAck2(m) PROVE IInv'
<1> USE DEF ProcessAck2, AckedByAck2, rcvVars, rcvSeqVars, rcvBufVars, connVars, blockVars, countVars, sndSeqVars, taskVars, sndVars, IInv
<1>0. net' \subseteq net
  BY ConsumeAdds
<1>5. m.ack \in Nat /\ m.ack <= rcvLastAck /\ SenderHas(m.ack)
  BY MessageFields DEF LinkInv, MsgInv, TypeOK
<1>1. TypeOK'
  BY <1>0, <1>5 DEF TypeOK
<1>2. SndInv'
  BY SndInvFrame
<1>3. RcvInv'
  BY DEF RcvInv, Held
<1>4. LinkInv'
  <2>1. \A n \in net' : MsgInv(n)'
    BY <1>0 DEF LinkInv, MsgInv, Complete, SenderHas
  <2>2. rcvLastAckAck' <= rcvLastAck' /\ SenderHas(rcvLastAckAck)'
    BY <1>5 DEF LinkInv, SenderHas
  <2> QED
    BY <2>1, <2>2 DEF LinkInv, Complete
<1> QED
  BY <1>1, <1>2, <1>3, <1>4

-----------------------------------------------------------------------------
(* The invariant and what follows from it.                                *)

LEMMA IInvStep == IInv /\ [Next]_vars => IInv'
<1> SUFFICES ASSUME IInv, [Next]_vars PROVE IInv'
  OBVIOUS
<1>1. CASE UNCHANGED vars
  <2>1. TypeOK'
    BY <1>1 DEF IInv, TypeOK, vars, rcvVars, rcvSeqVars, rcvBufVars, connVars, blockVars, countVars, sndSeqVars, taskVars, sndVars
  <2>2. SndInv' /\ RcvInv'
    BY <1>1, SndInvFrame, RcvInvFrame DEF vars, connVars
  <2>3. LinkInv'
    BY <1>1 DEF IInv, LinkInv, MsgInv, Complete, SenderHas, vars, rcvVars, rcvSeqVars, rcvBufVars, connVars, blockVars, countVars, sndSeqVars, taskVars, sndVars
  <2> QED
    BY <2>1, <2>2, <2>3 DEF IInv
<1>2. CASE AppNext
  BY <1>2, SendLinkStep, SendCountStep, RecvStep, CloseStep DEF AppNext
<1>3. CASE SndWorkerNext
  BY <1>3, PopBrokenStep, PopLostStep, RetransmitStep, PopNewStep DEF SndWorkerNext
<1>4. CASE SndCtrlNext
  BY <1>4, ProcessLiteAckStep, ProcessAckStep, ProcessNakStep, AckSndBufferStep,
     RescheduleStep, ExpResendStep DEF SndCtrlNext
<1>5. CASE RcvCtrlNext
  BY <1>5, ProcessDataStep, ProcessAck2Step, SendAckStep, SendLiteAckStep
     DEF RcvCtrlNext
<1>6. CASE ConnNext
  BY <1>6, ProcessShutdownStep, ExpireStep DEF ConnNext
<1> QED
  BY <1>1, <1>2, <1>3, <1>4, <1>5, <1>6 DEF Next

\* Every number of the protocol stays in its place.
THEOREM Invariance == Spec => []IInv
<1> QED
  BY InitIInv, IInvStep, PTL DEF Spec

\* Type correctness.
THEOREM TypeCorrect == Spec => []TypeOK
<1>1. IInv => TypeOK
  BY DEF IInv
<1> QED
  BY <1>1, Invariance, PTL

\* recv() returns the stream of send(): in order, no gap, no repetition.
THEOREM InOrder == Spec => []InOrderDelivery
<1>1. IInv => InOrderDelivery
  BY DEF IInv, RcvInv, InOrderDelivery
<1> QED
  BY <1>1, Invariance, PTL

\* A block is released by the sender only when the receiver holds it, or its
\* application has read it.
THEOREM NoLossAfterAck == Spec => []AckedIsHeld
<1>1. IInv => AckedIsHeld
  <2> SUFFICES ASSUME IInv, NEW p \in ISN .. firstBlock - 1, ~(p <= Len(delivered))
               PROVE  p \in startPos .. lastAckPos - 1 /\ unit[p] = p
    BY DEF AckedIsHeld
  <2>1. p \in Nat /\ ISN <= p /\ p < rcvLastAck /\ startPos <= p
    BY DEF IInv, SndInv, RcvInv, LinkInv, TypeOK, ISN
  <2>2. p \in Seqs /\ p <= rcvCurrSeqNo
    BY <2>1, SizesAssumption DEF IInv, SndInv, RcvInv, LinkInv, TypeOK, Seqs, ISN
  <2>3. p \in Held
    BY <2>1, <2>2 DEF IInv, RcvInv, TypeOK, Held
  <2> QED
    BY <2>1, <2>2, <2>3 DEF IInv, RcvInv, TypeOK
<1> QED
  BY <1>1, Invariance, PTL

\* The "attack or bug" branches of processCtrl are unreachable between honest
\* peers.
THEOREM PeersTrusted == Spec => []NoFalseAttack
<1>1. IInv => NoFalseAttack
  BY DEF IInv, LinkInv, NoFalseAttack
<1> QED
  BY <1>1, Invariance, PTL

\* The receiver's loss list is exact.
THEOREM LossList == Spec => []LossListExact
<1>1. IInv => LossListExact
  <2> SUFFICES ASSUME IInv, NEW p
               PROVE  p \in rcvLossList <=> p \in rcvLastAck .. rcvCurrSeqNo /\ unit[p] = None
    BY DEF LossListExact
  <2>1. p \in rcvLastAck .. rcvCurrSeqNo => p \in Seqs /\ startPos <= p
    BY SizesAssumption DEF IInv, SndInv, RcvInv, LinkInv, TypeOK, Seqs, ISN
  <2>2. p \in rcvLossList => p \in rcvLastAck .. rcvCurrSeqNo
    BY DEF IInv, RcvInv, TypeOK, Seqs, ISN
  <2>3. p \in rcvLastAck .. rcvCurrSeqNo => (p \in Held <=> p \notin rcvLossList)
    BY <2>1 DEF IInv, TypeOK, Held
  <2>4. \A q \in Seqs : q # None
    BY DEF Seqs, ISN, None
  <2> QED
    BY <2>1, <2>2, <2>3, <2>4 DEF IInv, RcvInv
<1> QED
  BY <1>1, Invariance, PTL

\* The receive ring never wraps onto packets that have not been read.
THEOREM Ring == Spec => []RingFits
<1>1. IInv => RingFits
  <2> SUFFICES ASSUME IInv, NEW p \in Seqs, unit[p] # None
               PROVE  p - startPos <= RcvBufSize - 2
    BY DEF RingFits
  <2>1. p \in Held
    BY DEF IInv, RcvInv
  <2> QED
    BY <2>1, SizesAssumption DEF IInv, RcvInv, TypeOK, Held, Seqs, ISN
<1> QED
  BY <1>1, Invariance, PTL

\* Only blocks that are still in the send buffer are on the loss list.
THEOREM Retransmission == Spec => []RetransmitInBuffer
<1>1. IInv => RetransmitInBuffer
  BY DEF IInv, SndInv, TypeOK, RetransmitInBuffer, Seqs, ISN
<1> QED
  BY <1>1, Invariance, PTL

\* The block counter agrees with the list outside of send().
THEOREM BlockCount == Spec => []CountMatchesBlocks
<1>1. IInv => CountMatchesBlocks
  BY DEF IInv, SndInv, TypeOK, CountMatchesBlocks
<1> QED
  BY <1>1, Invariance, PTL

\* An ACK is repeated until the sender has it.
THEOREM AckRepeats == Spec => []AckStopsWhenReceived
<1>1. IInv => AckStopsWhenReceived
  BY DEF IInv, LinkInv, AckStopsWhenReceived
<1> QED
  BY <1>1, Invariance, PTL

\* Live sequence numbers stay within one send buffer of each other.
THEOREM Span == Spec => []SeqSpan
<1>1. IInv => SeqSpan
  <2> SUFFICES ASSUME IInv PROVE SeqSpan
    OBVIOUS
  <2>1. sndCurrSeqNo + 1 - sndLastDataAck <= SndBufSize
    BY SizesAssumption DEF IInv, SndInv, TypeOK
  <2>2. sndLastAck \in sndLastDataAck .. sndCurrSeqNo + 1
    BY DEF IInv, SndInv, TypeOK
  <2>3. rcvLastAck \in sndLastDataAck .. sndCurrSeqNo + 1
    BY DEF IInv, LinkInv, RcvInv, TypeOK
  <2>4. rcvCurrSeqNo + 1 \in sndLastDataAck .. sndCurrSeqNo + 1
    BY DEF IInv, LinkInv, RcvInv, TypeOK
  <2> QED
    BY <2>1, <2>2, <2>3, <2>4 DEF SeqSpan
<1> QED
  BY <1>1, Invariance, PTL

\* A close() that found the send buffer empty has lost nothing.
THEOREM Graceful == Spec => []GracefulClose
<1>1. IInv /\ AckedIsHeld => GracefulClose
  BY DEF IInv, SndInv, TypeOK, AckedIsHeld, GracefulClose
<1> QED
  BY <1>1, Invariance, NoLossAfterAck, PTL

-----------------------------------------------------------------------------
(* Sequence numbers on the wire.  CSeqNo's wrapped arithmetic is arithmetic *)
(* on positions, as long as the positions are less than m_iSeqNoTH apart.   *)
(* A position d packets after number a has the number IncSeqBy(a, d); the   *)
(* theorems say what the comparisons return for two such numbers, wherever  *)
(* the wrap falls.                                                          *)

\* incseq(seq, inc) stays in the number space.
LEMMA IncSeqByType ==
    ASSUME NEW a \in SeqNos, NEW d \in 0 .. MaxSeqNo
    PROVE  IncSeqBy(a, d) \in SeqNos
BY SeqNoAssumption DEF SeqNos, IncSeqBy

\* incseq by one is the increment, and decseq undoes it.
THEOREM IncDec ==
    ASSUME NEW a \in SeqNos, MaxSeqNo > 0
    PROVE  /\ IncSeq(a) \in SeqNos /\ DecSeq(a) \in SeqNos
           /\ IncSeq(a) = IncSeqBy(a, 1)
           /\ DecSeq(IncSeq(a)) = a /\ IncSeq(DecSeq(a)) = a
BY SeqNoAssumption DEF SeqNos, IncSeq, DecSeq, IncSeqBy

\* Two steps forward are one longer step: numbers name positions.
THEOREM IncIsAdditive ==
    ASSUME NEW a \in SeqNos, NEW d \in Nat, NEW e \in Nat, d + e <= MaxSeqNo
    PROVE  IncSeqBy(IncSeqBy(a, d), e) = IncSeqBy(a, d + e)
BY SeqNoAssumption DEF SeqNos, IncSeqBy

\* seqoff is the difference of positions, in both directions: what the buffers
\* and loss lists use to find a packet's slot.
THEOREM OffsetIsDifference ==
    ASSUME NEW a \in SeqNos, NEW d \in 0 .. SeqNoTH - 1
    PROVE  SeqOff(a, IncSeqBy(a, d)) = d /\ SeqOff(IncSeqBy(a, d), a) = -d
<1> DEFINE b == IncSeqBy(a, d)
<1>1. a \in Nat /\ a <= MaxSeqNo /\ d \in Nat /\ d < SeqNoTH
  BY SeqNoAssumption DEF SeqNos
<1>2. CASE MaxSeqNo - a >= d
  <2>1. b = a + d
    BY <1>2 DEF IncSeqBy
  <2> QED
    BY <2>1, <1>1, SeqNoAssumption DEF SeqOff, Distance
<1>3. CASE ~(MaxSeqNo - a >= d)
  <2>1. b = a + d - (MaxSeqNo + 1)
    BY <1>3, <1>1, SeqNoAssumption DEF IncSeqBy
  <2>2. b < a /\ a - b >= SeqNoTH
    BY <2>1, <1>1, SeqNoAssumption
  <2> QED
    BY <2>1, <2>2, <1>1, SeqNoAssumption DEF SeqOff, Distance
<1> QED
  BY <1>2, <1>3

\* seqcmp has the sign of the difference of positions: what every test for an
\* old, repeated or new packet, ACK or loss report relies on.
THEOREM CompareIsOrder ==
    ASSUME NEW a \in SeqNos, NEW d \in 1 .. SeqNoTH - 1
    PROVE  /\ SeqCmp(IncSeqBy(a, d), a) > 0
           /\ SeqCmp(a, IncSeqBy(a, d)) < 0
           /\ SeqCmp(a, a) = 0
<1> DEFINE b == IncSeqBy(a, d)
<1>1. a \in Nat /\ a <= MaxSeqNo /\ d \in Nat /\ 0 < d /\ d < SeqNoTH
  BY SeqNoAssumption DEF SeqNos
<1>2. SeqCmp(a, a) = 0
  BY <1>1, SeqNoAssumption DEF SeqCmp, Distance
<1>3. CASE MaxSeqNo - a >= d
  <2>1. b = a + d
    BY <1>3 DEF IncSeqBy
  <2> QED
    BY <1>2, <2>1, <1>1, SeqNoAssumption DEF SeqCmp, Distance
<1>4. CASE ~(MaxSeqNo - a >= d)
  <2>1. b = a + d - (MaxSeqNo + 1)
    BY <1>4, <1>1, SeqNoAssumption DEF IncSeqBy
  <2>2. b < a /\ a - b >= SeqNoTH
    BY <2>1, <1>1, SeqNoAssumption
  <2> QED
    BY <1>2, <2>1, <2>2, <1>1, SeqNoAssumption DEF SeqCmp, Distance
<1> QED
  BY <1>3, <1>4

\* seqlen counts the positions of a range, for any range: the flow window and
\* the lengths of the loss lists are computed with it.
THEOREM LengthIsCount ==
    ASSUME NEW a \in SeqNos, NEW d \in 0 .. MaxSeqNo
    PROVE  SeqLen(a, IncSeqBy(a, d)) = d + 1
BY SeqNoAssumption DEF SeqNos, SeqLen, IncSeqBy

\* The least element of a set of natural numbers.
LEMMA LeastOfNat ==
    ASSUME NEW S \in SUBSET Nat, S # {}
    PROVE  \E x \in S : \A y \in S : x <= y
<1> DEFINE R == OpToRel(<, Nat)
<1>1. IsWellFoundedOn(R, Nat)
  BY NatLessThanWellFounded
<1> HIDE DEF R
<1>2. PICK x \in S : \A y \in S : <<y, x>> \notin R
  BY <1>1, WFMin
<1>3. \A y \in S : ~(y < x)
  BY <1>2 DEF R, OpToRel
<1> QED
  BY <1>3

\* What incseq() gives to one packet after the other is what IncSeqBy gives d
\* packets on.
LEMMA WireIsIncSeqBy ==
    ASSUME NEW wire \in [Nat -> SeqNos], \A n \in Nat : wire[n + 1] = IncSeq(wire[n]),
           NEW a \in Nat, NEW d \in 0 .. MaxSeqNo
    PROVE  wire[a + d] = IncSeqBy(wire[a], d)
<1> DEFINE Bad == {k \in 0 .. MaxSeqNo : wire[a + k] # IncSeqBy(wire[a], k)}
<1> SUFFICES ASSUME Bad # {} PROVE FALSE
  OBVIOUS
<1>1. MaxSeqNo \in Nat /\ wire[a] \in 0 .. MaxSeqNo
  BY SeqNoAssumption DEF SeqNos
<1>2. PICK k \in Bad : \A j \in Bad : k <= j
  <2>1. Bad \in SUBSET Nat
    BY <1>1
  <2> QED
    BY <2>1, LeastOfNat
<1>3. k # 0
  <2>1. IncSeqBy(wire[a], 0) = wire[a]
    BY <1>1 DEF IncSeqBy
  <2> QED
    BY <2>1, <1>2
<1>4. k - 1 \in 0 .. MaxSeqNo /\ k - 1 \notin Bad
  BY <1>1, <1>2, <1>3
<1>5. wire[a + (k - 1)] = IncSeqBy(wire[a], k - 1)
  BY <1>4
<1>6. wire[a + k] = IncSeq(wire[a + (k - 1)])
  <2>1. a + (k - 1) \in Nat /\ (a + (k - 1)) + 1 = a + k
    BY <1>4
  <2> QED
    BY <2>1
<1>7. IncSeq(IncSeqBy(wire[a], k - 1)) = IncSeqBy(wire[a], k)
  <2>1. k \in 1 .. MaxSeqNo
    BY <1>1, <1>2, <1>3
  <2> QED
    BY <1>1, <2>1 DEF IncSeq, IncSeqBy
<1> QED
  BY <1>2, <1>5, <1>6, <1>7

\* The positions that either side compares with each other.
Live == {sndLastDataAck, sndLastAck, sndCurrSeqNo + 1, rcvLastAck, rcvCurrSeqNo + 1}
            \cup sndLossList \cup rcvLossList

\* The numbers of the connection may wrap as often as they like: given to the
\* packets one by one (incseq) from any first number on, with a send buffer
\* below m_iSeqNoTH, those that are compared are always in the order of their
\* positions, and their offsets are the differences.  So the unbounded numbers
\* of UdtTransfer stand for the code's.
THEOREM LiveNumbersCompare ==
    ASSUME NEW wire \in [Nat -> SeqNos], \A n \in Nat : wire[n + 1] = IncSeq(wire[n]),
           SndBufSize < SeqNoTH
    PROVE  Spec => [](\A p, q \in Live :
                          /\ SeqOff(wire[p], wire[q]) = q - p
                          /\ SeqCmp(wire[p], wire[q]) < 0 <=> p < q
                          /\ SeqCmp(wire[p], wire[q]) = 0 <=> p = q)
<1>1. ASSUME NEW p \in Nat, NEW q \in Nat, p <= q, q - p < SeqNoTH
      PROVE  /\ SeqOff(wire[p], wire[q]) = q - p /\ SeqOff(wire[q], wire[p]) = p - q
             /\ p < q => SeqCmp(wire[p], wire[q]) < 0 /\ SeqCmp(wire[q], wire[p]) > 0
             /\ SeqCmp(wire[p], wire[p]) = 0
  <2> DEFINE d == q - p
  <2>1. d \in 0 .. SeqNoTH - 1 /\ d \in 0 .. MaxSeqNo /\ p + d = q /\ -d = p - q
    BY <1>1, SeqNoAssumption
  <2>2. wire[p] \in SeqNos /\ wire[q] = IncSeqBy(wire[p], d)
    BY <2>1, WireIsIncSeqBy
  <2>3. SeqOff(wire[p], wire[q]) = d /\ SeqOff(wire[q], wire[p]) = -d
    BY <2>1, <2>2, OffsetIsDifference
  <2>4. SeqCmp(wire[p], wire[p]) = 0
    BY <2>2, SeqNoAssumption DEF SeqCmp, Distance, SeqNos
  <2>5. ASSUME p < q PROVE SeqCmp(wire[p], wire[q]) < 0 /\ SeqCmp(wire[q], wire[p]) > 0
    <3>1. d \in 1 .. SeqNoTH - 1
      BY <2>1, <2>5
    <3> QED
      BY <3>1, <2>2, CompareIsOrder
  <2> QED
    BY <2>1, <2>3, <2>4, <2>5
<1>2. IInv => \A p, q \in Live : p \in Nat /\ q \in Nat /\ q - p < SeqNoTH /\ p - q < SeqNoTH
  <2> SUFFICES ASSUME IInv, NEW p \in Live
               PROVE  p \in sndLastDataAck .. sndLastDataAck + SndBufSize /\ sndLastDataAck \in Nat
    BY SizesAssumption, SeqNoAssumption
  <2>1. /\ sndLastDataAck \in Nat /\ sndCurrSeqNo \in Nat /\ sndLastAck \in Nat
        /\ rcvLastAck \in Nat /\ rcvCurrSeqNo \in Nat
        /\ sndLossList \subseteq Nat /\ rcvLossList \subseteq Nat
    <3>1. Seqs \subseteq Nat
      BY DEF Seqs, ISN
    <3> QED
      BY <3>1 DEF IInv, TypeOK
  <2>2. sndCurrSeqNo + 1 <= sndLastDataAck + SndBufSize /\ SndBufSize \in Nat
    <3>1. /\ firstBlock = sndLastDataAck /\ currBlock = sndCurrSeqNo + 1
          /\ currBlock <= lastBlock /\ lastBlock - firstBlock <= SndBufSize
          /\ lastBlock \in Nat
      BY DEF IInv, SndInv, TypeOK
    <3> QED
      BY <2>1, <3>1, SizesAssumption
  <2>3. /\ sndLastDataAck <= sndLastAck /\ sndLastAck <= sndCurrSeqNo + 1
        /\ sndLastDataAck <= rcvLastAck /\ rcvLastAck <= rcvCurrSeqNo + 1
        /\ rcvCurrSeqNo <= sndCurrSeqNo
        /\ \A s \in sndLossList : sndLastDataAck <= s /\ s <= sndCurrSeqNo
        /\ \A s \in rcvLossList : rcvLastAck <= s /\ s < rcvCurrSeqNo
    BY DEF IInv, SndInv, RcvInv, LinkInv
  <2>4. p \in sndLastDataAck .. sndCurrSeqNo + 1
    BY <2>1, <2>3 DEF Live
  <2> QED
    BY <2>1, <2>2, <2>4
<1>3. IInv => \A p, q \in Live :
                /\ SeqOff(wire[p], wire[q]) = q - p
                /\ SeqCmp(wire[p], wire[q]) < 0 <=> p < q
                /\ SeqCmp(wire[p], wire[q]) = 0 <=> p = q
  <2> SUFFICES ASSUME IInv, NEW p \in Live, NEW q \in Live
               PROVE  /\ SeqOff(wire[p], wire[q]) = q - p
                      /\ SeqCmp(wire[p], wire[q]) < 0 <=> p < q
                      /\ SeqCmp(wire[p], wire[q]) = 0 <=> p = q
    OBVIOUS
  <2>1. p \in Nat /\ q \in Nat /\ q - p < SeqNoTH /\ p - q < SeqNoTH
    BY <1>2
  <2>2. wire[p] \in Int /\ wire[q] \in Int
    BY <2>1, SeqNoAssumption DEF SeqNos
  <2>3. CASE p <= q
    BY <1>1, <2>1, <2>2, <2>3 DEF SeqCmp
  <2>4. CASE q < p
    BY <1>1, <2>1, <2>2, <2>4 DEF SeqCmp
  <2> QED
    BY <2>1, <2>3, <2>4
<1> QED
  BY <1>3, Invariance, PTL
-----------------------------------------------------------------------------
(* Refinement: the connection implements a reliable stream.                *)

LEMMA InitStream == Init => Stream!Init
BY DEF Init, Stream!Init, Stopped, Sides, ISN

StreamFacts ==
    /\ lastBlock - 1 \in Nat
    /\ Len(delivered) \in Nat /\ Len(delivered) <= lastBlock - 1
    /\ delivered = [i \in 1 .. Len(delivered) |-> i]

\* What the abstract state is made of, under the invariant.
LEMMA StreamFactsHold == IInv => StreamFacts
<1> SUFFICES ASSUME IInv PROVE StreamFacts
  OBVIOUS
<1>1. lastBlock - 1 \in Nat
  BY DEF IInv, SndInv, TypeOK, ISN
<1>2. delivered \in Seq(Seqs)
  BY DEF IInv, TypeOK
<1>3. Len(delivered) \in Nat /\ DOMAIN delivered = 1 .. Len(delivered)
  BY <1>2
<1>4. delivered = [i \in DOMAIN delivered |-> delivered[i]]
  BY <1>2
<1>5. \A i \in 1 .. Len(delivered) : delivered[i] = i
  BY DEF IInv, RcvInv
<1>6. delivered = [i \in 1 .. Len(delivered) |-> i]
  BY <1>3, <1>4, <1>5
<1>7. Len(delivered) <= lastBlock - 1
  BY <1>3 DEF IInv, RcvInv, SndInv, LinkInv, TypeOK, ISN
<1> QED
  BY <1>1, <1>3, <1>6, <1>7 DEF StreamFacts

\* The same in the next state.
LEMMA StreamFactsHoldNext == IInv' => StreamFacts'
BY StreamFactsHold, PTL

\* A step of the connection is a step of the stream, or none.
LEMMA StepStream == IInv /\ IInv' /\ [Next]_vars => [Stream!Next]_(Stream!streamVars)
<1> SUFFICES ASSUME IInv, IInv', [Next]_vars
             PROVE  Stream!Next \/ UNCHANGED Stream!streamVars
  OBVIOUS
<1> USE DEF Stream!streamVars, rcvVars, rcvSeqVars, rcvBufVars, connVars, blockVars, countVars, sndSeqVars, taskVars, sndVars
<1>0. StreamFacts /\ StreamFacts'
  BY StreamFactsHold, StreamFactsHoldNext
<1>1. lastBlock - 1 \in Nat /\ lastBlock' - 1 \in Nat
  BY <1>0 DEF StreamFacts
<1>2. ASSUME UNCHANGED <<lastBlock, delivered>>,
             status' = status \/ \E side \in Sides, why \in {"expired", "shutdown", "protocol"} :
                                    Break(side, why),
             closed' = closed \/ \E side \in Sides : closed' = [closed EXCEPT ![side] = TRUE]
      PROVE  Stream!Next \/ UNCHANGED Stream!streamVars
  <2>1. Stopped => Stopped'
    BY <1>2 DEF Stopped, Break, IInv, TypeOK
  <2>2. Stopped \in BOOLEAN /\ Stopped' \in BOOLEAN
    BY DEF Stopped
  <2> QED
    BY <1>2, <2>1, <2>2 DEF Stream!Next, Stream!Stop
<1>3. CASE SendLink
  BY <1>3, <1>1 DEF SendLink, Stream!Next, Stream!Send, Stopped, IInv, TypeOK
<1>4. CASE Recv
  <2>1. delivered' = [i \in 1 .. Len(delivered') |-> i]
    BY <1>0 DEF StreamFacts
  <2>2. Len(delivered') > Len(delivered) /\ Len(delivered') \in Nat /\ Len(delivered) \in Nat
    BY <1>4, <1>0 DEF Recv, StreamFacts, RcvDataSize, IInv, RcvInv, TypeOK
  <2>3. lastBlock' = lastBlock /\ Stopped' = Stopped
    BY <1>4 DEF Recv, Stopped
  <2>4. Len(delivered') <= lastBlock - 1
    BY <1>0, <2>3 DEF StreamFacts
  <2>5. Len(delivered') \in (Len(delivered) + 1) .. (lastBlock - 1)
    BY <2>2, <2>4, <1>1
  <2>6. Stream!Recv
    BY <2>1, <2>3, <2>5 DEF Stream!Recv
  <2> QED
    BY <2>6 DEF Stream!Next
<1>5. CASE SendCount \/ \E side \in Sides : Close(side)
  BY <1>5, <1>2 DEF SendCount, Close
<1>6. CASE SndWorkerNext
  BY <1>6, <1>2 DEF SndWorkerNext, PopBroken, PopLost, Retransmit, PopNew
<1>7. CASE SndCtrlNext
  <2>1. CASE \E m \in net : ProcessAck(m) \/ ProcessNak(m)
    BY <2>1, <1>2 DEF ProcessAck, ProcessNak, Sides
  <2>2. CASE (\E m \in net : ProcessLiteAck(m)) \/ AckSndBuffer \/ Reschedule \/ ExpResend
    BY <2>2, <1>2 DEF ProcessLiteAck, AckSndBuffer, Reschedule, ExpResend
  <2> QED
    BY <1>7, <2>1, <2>2 DEF SndCtrlNext
<1>8. CASE RcvCtrlNext
  BY <1>8, <1>2 DEF RcvCtrlNext, ProcessData, ProcessAck2, SendAck, SendLiteAck
<1>9. CASE ConnNext
  BY <1>9, <1>2 DEF ConnNext, ProcessShutdown, Expire
<1>10. CASE UNCHANGED vars
  BY <1>10, <1>2 DEF vars
<1> QED
  BY <1>3, <1>4, <1>5, <1>6, <1>7, <1>8, <1>9, <1>10 DEF Next, AppNext

\* Whatever the network does, the two sockets behave as a reliable stream.
THEOREM Refinement == Spec => StreamSpec
<1> QED
  BY InitStream, StepStream, Invariance, PTL DEF Spec, StreamSpec, Stream!Spec
=============================================================================
