-------------------------- MODULE MsgTransfer_proofs --------------------------
(***************************************************************************)
(* Message mode for every stream of messages, ordered, unordered and with  *)
(* a time to live, every size of the receive ring and every network that   *)
(* loses, repeats and reorders: messages are read whole, at most once, in  *)
(* order where asked for, and a full buffer can be read, until the first   *)
(* drop request is sent.  From then on packet numbers and blocks no longer *)
(* correspond (core.cpp:2297), and the properties may fail.                *)
(***************************************************************************)
EXTENDS MsgTransfer, WellFoundedInduction, TLAPS

\* No drop request has been sent yet; messages may have expired.
Undropped == \A m \in net : m.type # "DROP"

\* A message that recvmsg() has returned.
Taken(m) == \E i \in 1 .. Len(delivered) : MsgOf(delivered[i]) = m

\* What the receiver holds.
Stored(p) == p \in startPos .. rcvCurrSeqNo /\ p \notin rcvLossList

TypeOK ==
    /\ firstBlock \in Nat /\ currBlock \in Nat /\ lastBlock \in Nat
    /\ sndCurrSeqNo \in Nat /\ sndLastDataAck \in Nat /\ sndLossList \subseteq Nat
    /\ rcvCurrSeqNo \in Nat /\ rcvLastAck \in Nat /\ rcvLossList \subseteq Nat
    /\ unit \in [Positions -> [block : Nat, flag : {0, 1, PassedAck}]]
    /\ startPos \in Nat /\ maxPos \in Nat
    /\ delivered \in Seq(Seq(Nat))

\* Block b is packet b.
SndOK ==
    /\ firstBlock = sndLastDataAck /\ currBlock = sndCurrSeqNo + 1
    /\ 1 <= firstBlock /\ firstBlock <= currBlock
    /\ currBlock <= lastBlock /\ lastBlock <= Len(Stream) + 1
    /\ \A s \in sndLossList : s <= sndCurrSeqNo

NetOK ==
    \A m \in net :
        /\ m.type = "DATA" => m.seq \in 1 .. sndCurrSeqNo /\ m.block = m.seq
        /\ m.type = "ACK" => m.ack \in Nat /\ m.ack <= rcvLastAck

RcvOK ==
    /\ 1 <= startPos /\ startPos <= rcvLastAck
    /\ rcvLastAck <= rcvCurrSeqNo + 1 /\ rcvCurrSeqNo <= sndCurrSeqNo
    /\ \A s \in rcvLossList : rcvLastAck <= s /\ s < rcvCurrSeqNo
    /\ rcvLastAck + maxPos <= Len(Stream) + 1

UnitOK ==
    \A p \in Positions :
        /\ Stored(p) <=> unit[p] # NoUnit
        /\ Stored(p) => unit[p].block = p /\ unit[p].flag \in {1, PassedAck}

\* The packets of a message that has been returned are gone, or marked, and no
\* others are.
TakenOK ==
    \A b \in Blocks : Taken(Stream[b].msg) <=> b < startPos \/ unit[b].flag = PassedAck

Inv == TypeOK /\ SndOK /\ NetOK /\ RcvOK /\ UnitOK /\ TakenOK

\* OrderedInOrder, of expired messages too.
InOrder ==
    \A i \in 1 .. Len(delivered) :
        MsgOf(delivered[i]) \notin Unordered =>
            \A n \in 1 .. MsgOf(delivered[i]) - 1 :
                \E j \in 1 .. i - 1 : MsgOf(delivered[j]) = n
-----------------------------------------------------------------------------
(* Numbers.                                                                *)

LEMMA MinOf ==
    ASSUME NEW S \in SUBSET Nat, S # {}
    PROVE  Min(S) \in S /\ \A s \in S : Min(S) <= s
<1> DEFINE R == OpToRel(<, Nat)
<1>1. IsWellFoundedOn(R, Nat)
  BY NatLessThanWellFounded
<1> HIDE DEF R
<1>2. PICK x \in S : \A y \in S : <<y, x>> \notin R
  BY <1>1, WFMin
<1>3. \A y \in S : ~(y < x)
  BY <1>2 DEF R, OpToRel
<1>4. \E z \in S : \A y \in S : z <= y
  BY <1>3
<1> QED
  BY <1>4 DEF Min

LEMMA MaxOf ==
    ASSUME NEW S \in SUBSET Nat, S # {}, NEW n \in Nat, \A s \in S : s <= n
    PROVE  Max(S) \in S /\ \A s \in S : s <= Max(S)
<1> DEFINE T == {n - s : s \in S}
<1>1. T \in SUBSET Nat /\ T # {}
  OBVIOUS
<1>2. Min(T) \in T /\ \A t \in T : Min(T) <= t
  BY <1>1, MinOf
<1>3. PICK x \in S : Min(T) = n - x
  BY <1>2
<1>4. \A s \in S : n - x <= n - s
  BY <1>2, <1>3
<1>5. \E z \in S : \A s \in S : s <= z
  BY <1>4
<1> QED
  BY <1>5 DEF Max
-----------------------------------------------------------------------------
(* The stream: its packets come message by message.                        *)

LEMMA StreamTypes ==
    /\ Len(Stream) \in Nat /\ Blocks = 1 .. Len(Stream) /\ Blocks \subseteq Nat
    /\ \A b \in Blocks : Stream[b].msg \in Nat /\ Stream[b].first \in BOOLEAN
                         /\ Stream[b].last \in BOOLEAN
    /\ RcvBufSize \in Nat /\ RcvBufSize >= 2
<1>1. Stream \in Seq([msg : Nat, first : BOOLEAN, last : BOOLEAN])
  BY StreamAssumption
<1>2. Len(Stream) \in Nat /\ Blocks = 1 .. Len(Stream) /\ Blocks \subseteq Nat
  BY <1>1 DEF Blocks
<1>3. ASSUME NEW b \in Blocks
      PROVE  Stream[b].msg \in Nat /\ Stream[b].first \in BOOLEAN /\ Stream[b].last \in BOOLEAN
  <2> DEFINE Packets == [msg : Nat, first : BOOLEAN, last : BOOLEAN]
  <2>1. Stream \in Seq(Packets)
    BY <1>1
  <2> HIDE DEF Packets
  <2>2. Stream[b] \in Packets
    BY <1>2, <2>1
  <2> QED
    BY <2>2 DEF Packets
<1>4. RcvBufSize \in Nat /\ RcvBufSize >= 2
  BY StreamAssumption
<1> QED
  BY <1>2, <1>3, <1>4

\* From one packet to the next.
LEMMA StreamSteps ==
    ASSUME NEW b \in Blocks
    PROVE  /\ b = 1 => Stream[b].first /\ Stream[b].msg = 1
           /\ b # 1 => /\ b - 1 \in Blocks
                       /\ Stream[b].first <=> Stream[b - 1].last
                       /\ Stream[b].first => Stream[b].msg = Stream[b - 1].msg + 1
                       /\ ~Stream[b].first => Stream[b].msg = Stream[b - 1].msg
           /\ b = Len(Stream) => Stream[b].last
<1>1. b = 1 => Stream[b].first /\ Stream[b].msg = 1
  BY StreamTypes, StreamAssumption
<1>2. ASSUME b # 1 PROVE /\ b - 1 \in Blocks
                         /\ Stream[b].first <=> Stream[b - 1].last
                         /\ Stream[b].first => Stream[b].msg = Stream[b - 1].msg + 1
                         /\ ~Stream[b].first => Stream[b].msg = Stream[b - 1].msg
  <2>1. b - 1 \in Blocks /\ (b - 1) + 1 = b /\ b - 1 # Len(Stream) /\ b > 1
    BY <1>2, StreamTypes
  <2>2. Stream[b].first <=> Stream[b - 1].msg # Stream[b].msg
    BY <1>2, StreamAssumption
  <2>3. Stream[b - 1].last <=> Stream[b].msg # Stream[b - 1].msg
    <3>1. Stream[b - 1].last <=> (b - 1 = Len(Stream) \/ Stream[(b - 1) + 1].msg # Stream[b - 1].msg)
      BY <2>1, StreamAssumption
    <3> QED
      BY <2>1, <3>1
  <2>4. Stream[b].msg = Stream[b - 1].msg + IF Stream[b].first THEN 1 ELSE 0
    BY <2>1, StreamAssumption
  <2> QED
    BY <2>1, <2>2, <2>3, <2>4, StreamTypes
<1>3. b = Len(Stream) => Stream[b].last
  BY StreamAssumption
<1> QED
  BY <1>1, <1>2, <1>3

LEMMA Monotone ==
    ASSUME NEW b \in Blocks, NEW c \in Blocks, b <= c
    PROVE  Stream[b].msg <= Stream[c].msg
<1> DEFINE Bad == {k \in Blocks : b <= k /\ ~(Stream[b].msg <= Stream[k].msg)}
<1> SUFFICES ASSUME Bad # {} PROVE FALSE
  OBVIOUS
<1>1. PICK k \in Bad : \A j \in Bad : k <= j
  BY MinOf, StreamTypes
<1>2. k # b /\ k # 1
  BY <1>1, StreamTypes
<1>3. k - 1 \in Blocks /\ b <= k - 1 /\ k - 1 \notin Bad
  BY <1>1, <1>2, StreamSteps, StreamTypes
<1>4. Stream[k].msg = Stream[k - 1].msg \/ Stream[k].msg = Stream[k - 1].msg + 1
  BY <1>1, <1>2, StreamSteps
<1> QED
  BY <1>1, <1>3, <1>4, StreamTypes, SMTT(30)

\* Messages are numbered without a gap.
LEMMA Numbered ==
    ASSUME NEW b \in Blocks, NEW n \in 1 .. Stream[b].msg
    PROVE  \E c \in 1 .. b : c \in Blocks /\ Stream[c].msg = n
<1> DEFINE T == {k \in Blocks : k <= b /\ Stream[k].msg >= n}
<1>1. b \in T /\ T \in SUBSET Nat /\ n \in Nat
  BY StreamTypes
<1>2. PICK k \in T : \A j \in T : k <= j
  BY <1>1, MinOf
<1>3. CASE k = 1
  BY <1>2, <1>3, StreamSteps, StreamTypes
<1>4. CASE k # 1
  <2>1. k - 1 \in Blocks /\ k - 1 \notin T /\ k - 1 <= b
    BY <1>2, <1>4, StreamSteps, StreamTypes
  <2>2. Stream[k - 1].msg < n /\ Stream[k - 1].msg \in Nat
    BY <1>1, <2>1, StreamTypes
  <2>3. Stream[k].msg = Stream[k - 1].msg \/ Stream[k].msg = Stream[k - 1].msg + 1
    BY <1>2, <1>4, StreamSteps
  <2>4. Stream[k].msg = n
    BY <1>1, <1>2, <2>2, <2>3
  <2> QED
    BY <1>2, <2>4, StreamTypes
<1> QED
  BY <1>3, <1>4

\* Packets are of one message if none but the first one begins one.
LEMMA SameMessage ==
    ASSUME NEW p \in Blocks, NEW q \in Blocks, \A k \in p + 1 .. q : ~Stream[k].first
    PROVE  \A k \in p .. q : k \in Blocks /\ Stream[k].msg = Stream[p].msg
<1> DEFINE Bad == {k \in Blocks : p <= k /\ k <= q /\ Stream[k].msg # Stream[p].msg}
<1>0. \A k \in p .. q : k \in Blocks
  BY StreamTypes
<1> SUFFICES ASSUME Bad # {} PROVE FALSE
  BY <1>0
<1>1. PICK k \in Bad : \A j \in Bad : k <= j
  BY MinOf, StreamTypes
<1>2. k # p /\ k # 1
  BY <1>1, StreamTypes
<1>3. k - 1 \in Blocks /\ p <= k - 1 /\ k - 1 <= q /\ k - 1 \notin Bad /\ k \in p + 1 .. q
  BY <1>1, <1>2, StreamSteps, StreamTypes
<1>4. Stream[k].msg = Stream[k - 1].msg
  BY <1>1, <1>2, <1>3, StreamSteps
<1> QED
  BY <1>1, <1>3, <1>4

\* Where a message begins and ends.
LEMMA FirstIsLeast ==
    ASSUME NEW p \in Blocks, Stream[p].first, NEW b \in Blocks, Stream[b].msg = Stream[p].msg
    PROVE  p <= b
<1> SUFFICES ASSUME b < p PROVE FALSE
  BY StreamTypes
<1>1. p - 1 \in Blocks /\ b <= p - 1 /\ Stream[p].msg = Stream[p - 1].msg + 1
  BY StreamSteps, StreamTypes
<1> QED
  BY <1>1, Monotone, StreamTypes

LEMMA LastIsGreatest ==
    ASSUME NEW q \in Blocks, Stream[q].last, NEW b \in Blocks, Stream[b].msg = Stream[q].msg
    PROVE  b <= q
<1> SUFFICES ASSUME q < b PROVE FALSE
  BY StreamTypes
<1>1. q + 1 \in Blocks /\ q + 1 <= b /\ (q + 1) - 1 = q /\ q + 1 # 1
  BY StreamTypes
<1>2. Stream[q + 1].msg = Stream[q].msg + 1
  BY <1>1, StreamSteps
<1> QED
  BY <1>1, <1>2, Monotone, StreamTypes

LEMMA Begins ==
    ASSUME NEW b \in Blocks
    PROVE  \E f \in Blocks : /\ f <= b /\ Stream[f].first /\ Stream[f].msg = Stream[b].msg
                             /\ \A k \in f .. b : k \in Blocks /\ Stream[k].msg = Stream[b].msg
<1> DEFINE T == {k \in Blocks : Stream[k].msg = Stream[b].msg}
<1>1. b \in T /\ T \in SUBSET Nat
  BY StreamTypes
<1>2. PICK f \in T : \A j \in T : f <= j
  BY <1>1, MinOf
<1>3. Stream[f].first
  <2> SUFFICES ASSUME ~Stream[f].first PROVE FALSE
    OBVIOUS
  <2>1. f - 1 \in T
    BY <1>2, StreamSteps
  <2> QED
    BY <1>2, <2>1, StreamTypes
<1>4. \A k \in f .. b : k \in Blocks /\ Stream[k].msg = Stream[b].msg
  <2> SUFFICES ASSUME NEW k \in f .. b PROVE k \in Blocks /\ Stream[k].msg = Stream[b].msg
    OBVIOUS
  <2>1. k \in Blocks /\ f <= k /\ k <= b
    BY StreamTypes
  <2>2. Stream[f].msg <= Stream[k].msg /\ Stream[k].msg <= Stream[b].msg
    BY <2>1, <1>2, Monotone
  <2> QED
    BY <2>1, <2>2, <1>2, StreamTypes
<1> QED
  BY <1>1, <1>2, <1>3, <1>4

LEMMA Ends ==
    ASSUME NEW b \in Blocks
    PROVE  \E e \in Blocks : /\ b <= e /\ Stream[e].last /\ Stream[e].msg = Stream[b].msg
                             /\ \A k \in b .. e : k \in Blocks /\ Stream[k].msg = Stream[b].msg
<1> DEFINE T == {k \in Blocks : b <= k /\ Stream[k].last}
<1>1. Len(Stream) \in T /\ T \in SUBSET Nat
  BY StreamTypes, StreamSteps
<1>2. PICK e \in T : \A j \in T : e <= j
  BY <1>1, MinOf
<1>3. \A k \in b + 1 .. e : ~Stream[k].first
  <2> SUFFICES ASSUME NEW k \in b + 1 .. e, Stream[k].first PROVE FALSE
    OBVIOUS
  <2>1. k \in Blocks /\ k # 1 /\ k - 1 \in Blocks /\ Stream[k - 1].last
    BY StreamSteps, StreamTypes
  <2>2. k - 1 \in T
    BY <2>1, StreamTypes
  <2> QED
    BY <1>2, <2>2, StreamTypes
<1>4. \A k \in b .. e : k \in Blocks /\ Stream[k].msg = Stream[b].msg
  BY <1>2, <1>3, SameMessage
<1> QED
  BY <1>2, <1>4, StreamTypes
-----------------------------------------------------------------------------
(* The receive buffer and the search for a message.                        *)

LEMMA Ring ==
    ASSUME Inv
    PROVE  /\ Positions = 1 .. Len(Stream) + RcvBufSize /\ Blocks \subseteq Positions
           /\ startPos .. rcvLastAck + maxPos \subseteq Positions
           /\ rcvCurrSeqNo <= Len(Stream)
<1>1. Positions = 1 .. Len(Stream) + RcvBufSize /\ Blocks \subseteq Positions
  BY StreamTypes DEF Positions
<1>2. /\ startPos \in Nat /\ rcvLastAck \in Nat /\ maxPos \in Nat /\ sndCurrSeqNo \in Nat
      /\ rcvCurrSeqNo \in Nat /\ currBlock \in Nat /\ lastBlock \in Nat
      /\ 1 <= startPos /\ rcvLastAck + maxPos <= Len(Stream) + 1
      /\ rcvCurrSeqNo <= sndCurrSeqNo
      /\ currBlock = sndCurrSeqNo + 1 /\ currBlock <= lastBlock /\ lastBlock <= Len(Stream) + 1
  BY DEF Inv, TypeOK, RcvOK, SndOK
<1> QED
  BY <1>1, <1>2, StreamTypes

LEMMA Slots ==
    ASSUME Inv, NEW p \in Positions
    PROVE  /\ Stored(p) => p \in Blocks /\ startPos <= p /\ unit[p].block = p
           /\ Readable(p) <=> Stored(p) /\ unit[p].flag = 1
           /\ Stored(p) /\ unit[p].flag # 1 => unit[p].flag = PassedAck
           /\ unit[p].flag = PassedAck => Stored(p) /\ ~Readable(p)
           /\ Stored(p) => (First(p) <=> Stream[p].first) /\ (Last(p) <=> Stream[p].last)
<1>1. /\ Stored(p) <=> unit[p] # NoUnit
      /\ Stored(p) => unit[p].block = p /\ unit[p].flag \in {1, PassedAck}
  BY DEF Inv, UnitOK
<1>2. NoUnit.flag = 0 /\ PassedAck = 2
  BY DEF NoUnit, PassedAck
<1>3. Stored(p) => p \in Blocks /\ startPos <= p
  BY Ring, StreamTypes DEF Stored, Inv, TypeOK, RcvOK
<1>4. unit[p].flag = PassedAck => unit[p] # NoUnit
  BY <1>2
<1>5. Readable(p) <=> Stored(p) /\ unit[p].flag = 1
  BY <1>1 DEF Readable
<1>6. Stored(p) => (First(p) <=> Stream[p].first) /\ (Last(p) <=> Stream[p].last)
  BY <1>1, <1>3, StreamTypes DEF First, Last
<1> QED
  BY <1>1, <1>2, <1>3, <1>4, <1>5, <1>6

\* There is no hole in what has been acknowledged.
LEMMA Acked ==
    ASSUME Inv, NEW p \in startPos .. rcvLastAck - 1
    PROVE  Stored(p) /\ p \in Positions /\ p \in Blocks
<1>1. /\ startPos \in Nat /\ rcvLastAck \in Nat /\ maxPos \in Nat /\ rcvCurrSeqNo \in Nat
      /\ rcvLastAck <= rcvCurrSeqNo + 1 /\ rcvLossList \subseteq Nat
      /\ \A s \in rcvLossList : rcvLastAck <= s
  BY DEF Inv, TypeOK, RcvOK
<1>2. Stored(p)
  BY <1>1 DEF Stored
<1>3. p \in Positions
  BY <1>1, Ring
<1> QED
  BY <1>2, <1>3, Slots

\* An acknowledged packet of a message that has not been returned is found: its
\* message begins where the search may start.
LEMMA Findable ==
    ASSUME Inv, NEW b \in startPos .. rcvLastAck - 1, ~Taken(Stream[b].msg)
    PROVE  \E f \in startPos .. b : GoodStart(f)
<1>0. startPos \in Nat /\ rcvLastAck \in Nat /\ b \in Blocks
  BY Acked DEF Inv, TypeOK
<1>1. \A k \in Blocks : Stream[k].msg = Stream[b].msg => startPos <= k /\ unit[k].flag # PassedAck
  BY <1>0, StreamTypes DEF Inv, TakenOK
<1>2. PICK f \in Blocks : f <= b /\ Stream[f].first /\ Stream[f].msg = Stream[b].msg
  BY <1>0, Begins
<1>3. f \in startPos .. rcvLastAck - 1 /\ f \in startPos .. b
  BY <1>0, <1>1, <1>2, StreamTypes
<1>4. Readable(f) /\ First(f)
  BY <1>1, <1>2, <1>3, Acked, Slots
<1>5. ASSUME NEW q \in f .. rcvLastAck - 1, \A k \in f .. q - 1 : ~Last(k)
      PROVE  Readable(q)
  <2>1. q \in startPos .. rcvLastAck - 1
    BY <1>0, <1>3
  <2>2. ASSUME NEW k \in f + 1 .. q PROVE ~Stream[k].first
    <3>1. k - 1 \in f .. q - 1 /\ k - 1 \in startPos .. rcvLastAck - 1 /\ k \in startPos .. rcvLastAck - 1 /\ k # 1
      BY <1>0, <1>3, <2>1, <1>2, StreamTypes
    <3>2. ~Stream[k - 1].last
      BY <3>1, <1>5, Acked, Slots
    <3> QED
      BY <3>1, <3>2, Acked, StreamSteps
  <2>3. q \in Blocks /\ f <= q
    BY <2>1, <1>3, Acked
  <2>4. Stream[q].msg = Stream[f].msg
    <3>1. \A k \in f .. q : k \in Blocks /\ Stream[k].msg = Stream[f].msg
      BY <2>2, <2>3, SameMessage
    <3> QED
      BY <2>3, <3>1, StreamTypes
  <2> QED
    BY <2>1, <2>3, <2>4, <1>1, <1>2, Acked, Slots
<1>6. GoodStart(f)
  BY <1>4, <1>5 DEF GoodStart
<1> QED
  BY <1>3, <1>6

\* Where the search starts, and that it leaves out only what has been returned.
LEMMA ScanFacts ==
    ASSUME Inv
    PROVE  /\ ScanStart \in startPos .. rcvLastAck
           /\ ScanStart # rcvLastAck => GoodStart(ScanStart)
           /\ \A b \in startPos .. ScanStart - 1 : b \in Blocks /\ Taken(Stream[b].msg)
<1> DEFINE S == {p \in startPos .. rcvLastAck : p = rcvLastAck \/ GoodStart(p)}
<1>1. startPos \in Nat /\ rcvLastAck \in Nat /\ startPos <= rcvLastAck
  BY DEF Inv, TypeOK, RcvOK
<1>2. S \in SUBSET Nat /\ rcvLastAck \in S
  BY <1>1
<1>3. Min(S) \in S /\ \A s \in S : Min(S) <= s
  BY <1>2, MinOf
<1>4. ScanStart = Min(S)
  BY DEF ScanStart
<1> HIDE DEF S
<1>5. ScanStart \in S /\ \A s \in S : ScanStart <= s
  BY <1>3, <1>4
<1>6. ASSUME NEW b \in startPos .. ScanStart - 1 PROVE b \in Blocks /\ Taken(Stream[b].msg)
  <2>1. b \in startPos .. rcvLastAck - 1
    BY <1>1, <1>5 DEF S
  <2>2. ASSUME ~Taken(Stream[b].msg) PROVE FALSE
    <3>1. PICK f \in startPos .. b : GoodStart(f)
      BY <2>1, <2>2, Findable
    <3>2. f \in S
      BY <1>1, <2>1, <3>1 DEF S
    <3> QED
      BY <1>1, <1>5, <3>1, <3>2 DEF S
  <2> QED
    BY <2>1, <2>2, Acked
<1> QED
  BY <1>5, <1>6 DEF S

\* The message that ReadMsg returns: packets p to q.
Read(p, q) ==
    /\ p \in Blocks /\ q \in Blocks /\ ScanStart <= p /\ p <= q
    /\ Stream[p].first /\ Stream[q].last
    /\ \A k \in p .. q : /\ k \in Blocks /\ k \in Positions /\ Stream[k].msg = Stream[p].msg
                        /\ Stored(k) /\ unit[k].flag = 1
    /\ q < rcvLastAck => p = ScanStart
    /\ q >= rcvLastAck => Stream[p].msg \in Unordered

LEMMA CandidateFacts ==
    ASSUME Inv, NEW q \in Candidates
    PROVE  /\ q \in Nat /\ q \in Positions /\ q \in Blocks /\ ScanStart <= q /\ Stored(q)
           /\ q <= rcvLastAck + maxPos
           /\ Stream[q].last /\ Heads(q) # {} /\ MayOvertake(q)
<1>1. q \in ScanStart .. ScanEnd /\ Readable(q) /\ Last(q) /\ Heads(q) # {} /\ MayOvertake(q)
  BY DEF Candidates
<1>2. /\ ScanStart \in startPos .. rcvLastAck /\ startPos \in Nat /\ rcvLastAck \in Nat
      /\ maxPos \in Nat /\ ScanEnd = rcvLastAck + maxPos
  BY ScanFacts DEF Inv, TypeOK, ScanEnd
<1>3. /\ q \in startPos .. rcvLastAck + maxPos /\ q \in Nat /\ ScanStart <= q
      /\ q <= rcvLastAck + maxPos
  BY <1>1, <1>2
<1>4. q \in Positions
  BY <1>3, Ring
<1> QED
  BY <1>1, <1>3, <1>4, Slots

\* The messages at the beginning of the search is found, if it is acknowledged.
LEMMA StartIsCandidate ==
    ASSUME Inv, ScanStart < rcvLastAck,
           NEW e \in Blocks, ScanStart <= e, e < rcvLastAck, Stream[e].last,
           \A k \in ScanStart .. e : k \in Blocks /\ Stream[k].msg = Stream[e].msg
    PROVE  e \in Candidates
<1> DEFINE s == ScanStart
<1>1. /\ s \in startPos .. rcvLastAck /\ startPos \in Nat /\ rcvLastAck \in Nat /\ maxPos \in Nat
      /\ GoodStart(s)
  BY ScanFacts DEF Inv, TypeOK
<1> HIDE DEF s
<1>2. \A k \in s .. e : k \in startPos .. rcvLastAck - 1
  BY <1>1, StreamTypes
<1>3. \A k \in s .. e - 1 : ~Last(k)
  <2> SUFFICES ASSUME NEW k \in s .. e - 1, Last(k) PROVE FALSE
    OBVIOUS
  <2>1. k \in s .. e /\ k \in startPos .. rcvLastAck - 1 /\ k < e
    BY <1>1, <1>2, StreamTypes
  <2>2. k \in Blocks /\ Stream[k].last /\ Stream[k].msg = Stream[e].msg
    BY <2>1, Acked, Slots DEF s
  <2>3. e <= k
    BY <2>2, LastIsGreatest
  <2> QED
    BY <2>1, <2>2, <2>3, StreamTypes
<1>4. \A k \in s .. e : Readable(k)
  <2> SUFFICES ASSUME NEW k \in s .. e PROVE Readable(k)
    OBVIOUS
  <2>1. k \in s .. rcvLastAck - 1 /\ \A j \in s .. k - 1 : ~Last(j)
    BY <1>1, <1>2, <1>3, StreamTypes
  <2> QED
    BY <1>1, <2>1 DEF GoodStart
<1>5. s \in Nat /\ s <= e /\ e \in Nat /\ e < rcvLastAck
  BY <1>1, StreamTypes DEF s
<1>6. s \in Heads(e)
  BY <1>1, <1>4, <1>5 DEF Heads, GoodStart, s
<1>7. Readable(e) /\ Last(e)
  BY <1>2, <1>4, <1>5, Acked, Slots
<1>8. e \in ScanStart .. ScanEnd
  BY <1>1, <1>5 DEF ScanEnd, s
<1> QED
  BY <1>5, <1>6, <1>7, <1>8 DEF Candidates, MayOvertake

LEMMA ReadFacts ==
    ASSUME Inv, Candidates # {}
    PROVE  Read(Max(Heads(Min(Candidates))), Min(Candidates))
<1>1. Candidates \in SUBSET Nat
  BY CandidateFacts
<1>2. PICK q : q = Min(Candidates)
  OBVIOUS
<1>3. q \in Candidates /\ \A c \in Candidates : q <= c
  BY <1>1, <1>2, MinOf
<1>4. /\ q \in Nat /\ q \in Positions /\ q \in Blocks /\ ScanStart <= q /\ Stored(q)
      /\ q <= rcvLastAck + maxPos
      /\ Stream[q].last /\ Heads(q) # {} /\ MayOvertake(q)
  BY <1>3, CandidateFacts
<1>5. /\ ScanStart \in startPos .. rcvLastAck /\ startPos \in Nat /\ rcvLastAck \in Nat
      /\ maxPos \in Nat /\ ScanStart \in Nat /\ 1 <= startPos
      /\ ScanStart # rcvLastAck => GoodStart(ScanStart)
  BY ScanFacts DEF Inv, TypeOK, RcvOK
<1>6. PICK p : p = Max(Heads(q))
  OBVIOUS
<1>7. p \in Heads(q) /\ \A h \in Heads(q) : h <= p
  <2>1. Heads(q) \in SUBSET Nat /\ \A h \in Heads(q) : h <= q
    BY <1>4, <1>5 DEF Heads
  <2> QED
    BY <1>4, <1>6, <2>1, MaxOf
<1>8. p \in ScanStart .. q /\ First(p) /\ \A k \in p .. q : Readable(k)
  BY <1>7 DEF Heads
<1>9. \A k \in ScanStart .. q : k \in Positions
  <2>1. ScanStart .. q \subseteq startPos .. rcvLastAck + maxPos
    BY <1>4, <1>5
  <2> QED
    BY <2>1, Ring
<1>10. \A k \in p .. q : k \in ScanStart .. q /\ k \in Positions /\ Stored(k) /\ unit[k].flag = 1 /\ k \in Blocks
  <2>1. \A k \in p .. q : k \in ScanStart .. q
    BY <1>4, <1>5, <1>8
  <2> QED
    BY <1>8, <1>9, <2>1, Slots
<1>11. p \in Nat /\ p <= q /\ ScanStart <= p /\ p \in p .. q /\ p \in Blocks /\ Stream[p].first
  <2>1. p \in Nat /\ p <= q /\ ScanStart <= p /\ p \in p .. q
    BY <1>4, <1>5, <1>8
  <2> QED
    BY <1>8, <1>10, <2>1, Slots
<1>12. \A k \in p .. q : k \in Blocks /\ Stream[k].msg = Stream[p].msg
  <2>1. ASSUME NEW k \in p + 1 .. q, Stream[k].first PROVE FALSE
    <3>1. k \in p .. q /\ p < k /\ k \in Nat
      BY <1>4, <1>11
    <3>2. First(k)
      BY <1>10, <2>1, <3>1, Slots
    <3>3. \A j \in k .. q : Readable(j)
      BY <1>8, <1>11, <3>1
    <3>4. k \in Heads(q)
      BY <1>10, <3>1, <3>2, <3>3 DEF Heads
    <3> QED
      BY <1>7, <1>11, <3>1, <3>4
  <2>2. \A k \in p + 1 .. q : ~Stream[k].first
    BY <2>1
  <2> QED
    BY <1>4, <1>11, <2>2, SameMessage
<1>13. ASSUME q < rcvLastAck PROVE p = ScanStart
  <2> DEFINE s == ScanStart
  <2>1. s \in startPos .. rcvLastAck - 1 /\ s < rcvLastAck /\ GoodStart(s)
    BY <1>4, <1>5, <1>13
  <2>2. s \in Blocks /\ Stream[s].first
    BY <2>1, Acked, Slots DEF GoodStart
  <2>3. PICK e \in Blocks : /\ s <= e /\ Stream[e].last /\ Stream[e].msg = Stream[s].msg
                            /\ \A k \in s .. e : k \in Blocks /\ Stream[k].msg = Stream[s].msg
    BY <2>2, Ends
  <2>4. q <= e
    <3>1. CASE e < rcvLastAck
      <4>1. e \in Candidates
        BY <2>1, <2>3, <3>1, StartIsCandidate
      <4> QED
        BY <1>3, <4>1
    <3>2. CASE ~(e < rcvLastAck)
      BY <1>4, <1>5, <1>13, <3>2, StreamTypes
    <3> QED
      BY <3>1, <3>2
  <2>5. Stream[p].msg = Stream[s].msg
    <3>1. p \in s .. e
      BY <1>4, <1>5, <1>11, <2>4, StreamTypes
    <3> QED
      BY <2>3, <3>1
  <2>6. p <= s
    BY <1>11, <2>2, <2>5, FirstIsLeast
  <2> QED
    BY <1>5, <1>11, <2>6
<1>14. ASSUME q >= rcvLastAck PROVE Stream[p].msg \in Unordered
  <2>1. ~(q < rcvLastAck)
    BY <1>4, <1>5, <1>14
  <2>2. Stream[unit[q].block].msg \in Unordered
    BY <1>4, <2>1 DEF MayOvertake
  <2>3. unit[q].block = q /\ q \in p .. q
    BY <1>4, <1>11, Slots
  <2> QED
    BY <1>12, <2>2, <2>3
<1>15. Read(p, q)
  BY <1>4, <1>10, <1>11, <1>12, <1>13, <1>14 DEF Read
<1> QED
  BY <1>2, <1>6, <1>15
-----------------------------------------------------------------------------
(* The sender's steps.                                                     *)

LEMMA InitInv == Init => Inv /\ WholeMessages /\ AtMostOnce /\ InOrder
<1> SUFFICES ASSUME Init PROVE Inv /\ WholeMessages /\ AtMostOnce /\ InOrder
  OBVIOUS
<1> USE DEF Init
<1>1. TypeOK
  BY DEF TypeOK, NoUnit
<1>2. SndOK /\ NetOK /\ RcvOK
  BY StreamTypes DEF SndOK, NetOK, RcvOK
<1>3. UnitOK
  BY DEF UnitOK, Stored
<1>4. TakenOK
  <2>1. \A n : ~Taken(n)
    BY DEF Taken
  <2>2. \A b \in Blocks : ~(b < startPos) /\ unit[b].flag # PassedAck
    <3>1. Blocks \subseteq Positions
      BY StreamTypes DEF Positions
    <3> QED
      BY <3>1, StreamTypes DEF NoUnit, PassedAck
  <2> QED
    BY <2>1, <2>2 DEF TakenOK
<1>5. WholeMessages /\ AtMostOnce /\ InOrder
  BY DEF WholeMessages, AtMostOnce, InOrder
<1> QED
  BY <1>1, <1>2, <1>3, <1>4, <1>5 DEF Inv

\* The receiver is not concerned, as long as new packets are what they say.
LEMMA SndKeeps ==
    ASSUME Inv, UNCHANGED rcvVars, SndOK',
           firstBlock' \in Nat, currBlock' \in Nat, lastBlock' \in Nat, sndLastDataAck' \in Nat,
           sndLossList' \subseteq Nat, sndCurrSeqNo' \in Nat, sndCurrSeqNo <= sndCurrSeqNo',
           \A m \in net' : m \in net \/ (m.type = "DATA" /\ m.seq \in 1 .. sndCurrSeqNo' /\ m.block = m.seq)
    PROVE  Inv'
<1> USE DEF rcvVars, rcvSeqVars, rcvBufVars
<1>1. TypeOK'
  BY DEF Inv, TypeOK
<1>2. NetOK'
  BY DEF Inv, NetOK, TypeOK
<1>3. RcvOK'
  BY DEF Inv, RcvOK, TypeOK
<1>4. UnitOK'
  BY DEF Inv, UnitOK, Stored
<1>5. TakenOK'
  BY DEF Inv, TakenOK, Taken
<1> QED
  BY <1>1, <1>2, <1>3, <1>4, <1>5 DEF Inv

LEMMA LastBlockFacts ==
    ASSUME NEW b \in Blocks
    PROVE  /\ LastBlockOf(Stream[b].msg) \in Blocks /\ b <= LastBlockOf(Stream[b].msg)
           /\ Stream[b].last => LastBlockOf(Stream[b].msg) = b
<1> DEFINE S == {c \in Blocks : Stream[c].msg = Stream[b].msg}
<1>1. S \in SUBSET Nat /\ b \in S /\ \A c \in S : c <= Len(Stream)
  BY StreamTypes
<1>2. Max(S) \in S /\ \A c \in S : c <= Max(S)
  BY <1>1, MaxOf, StreamTypes
<1>3. Max(S) \in Blocks /\ Stream[Max(S)].msg = Stream[b].msg /\ b <= Max(S)
  BY <1>1, <1>2
<1>4. Stream[b].last => Max(S) = b
  BY <1>3, LastIsGreatest, StreamTypes
<1>5. LastBlockOf(Stream[b].msg) = Max(S)
  BY DEF LastBlockOf
<1> QED
  BY <1>3, <1>4, <1>5

LEMMA SenderStep ==
    ASSUME Inv, SndNext, Undropped'
    PROVE  Inv'
<1>0. TypeOK /\ SndOK /\ NetOK /\ RcvOK
  BY DEF Inv
<1>1. CASE SendMsg
  <2>1. lastBlock \in Blocks /\ lastBlock' = LastBlockOf(Stream[lastBlock].msg) + 1
    BY <1>1 DEF SendMsg
  <2>2. lastBlock' \in Nat /\ lastBlock <= lastBlock' /\ lastBlock' <= Len(Stream) + 1
    BY <2>1, LastBlockFacts, StreamTypes
  <2>3. SndOK'
    BY <1>0, <1>1, <2>2 DEF SendMsg, SndOK, TypeOK
  <2> QED
    BY <1>0, <1>1, <2>2, <2>3, SndKeeps DEF SendMsg, TypeOK
<1>2. CASE TtlOver
  <2>1. SndOK'
    BY <1>0, <1>2 DEF TtlOver, SndOK
  <2> QED
    BY <1>0, <1>2, <2>1, SndKeeps DEF TtlOver, TypeOK
<1>3. CASE SendNew
  <2>1. SndOK'
    BY <1>0, <1>3 DEF SendNew, SndOK, TypeOK
  <2>2. \A m \in net' : m \in net \/ m = Data(sndCurrSeqNo + 1, currBlock)
    BY <1>3 DEF SendNew
  <2>3. \A m \in net' : m \in net \/ (m.type = "DATA" /\ m.seq \in 1 .. sndCurrSeqNo' /\ m.block = m.seq)
    BY <1>0, <1>3, <2>2 DEF SendNew, SndOK, TypeOK, Data
  <2> QED
    BY <1>0, <1>3, <2>1, <2>3, SndKeeps DEF SendNew, TypeOK
<1>4. CASE Retransmit
  <2> DEFINE seq == Min(sndLossList)
  <2>1. seq \in sndLossList /\ seq \in Nat /\ seq <= sndCurrSeqNo
    BY <1>0, <1>4, MinOf DEF Retransmit, TypeOK, SndOK
  <2>2. SndOK'
    BY <1>0, <1>4 DEF Retransmit, SndOK
  <2>3. net' = IF seq < sndLastDataAck THEN net ELSE net \cup {Data(seq, BlockOf(seq))}
    BY <1>4 DEF Retransmit
  <2>4. \A m \in net' : m \in net \/ (m.type = "DATA" /\ m.seq \in 1 .. sndCurrSeqNo' /\ m.block = m.seq)
    <3> HIDE DEF seq
    <3>1. CASE seq < sndLastDataAck
      BY <2>3, <3>1
    <3>2. CASE ~(seq < sndLastDataAck)
      <4>1. BlockOf(seq) = seq /\ seq \in 1 .. sndCurrSeqNo /\ sndCurrSeqNo' = sndCurrSeqNo
        BY <1>0, <1>4, <2>1, <3>2 DEF Retransmit, SndOK, TypeOK, BlockOf
      <4>2. \A m \in net' : m \in net \/ m = Data(seq, seq)
        BY <2>3, <3>2, <4>1
      <4> QED
        BY <4>1, <4>2 DEF Data
    <3> QED
      BY <3>1, <3>2
  <2> HIDE DEF seq
  <2>5. sndLossList' \subseteq Nat
    BY <1>0, <1>4 DEF Retransmit, TypeOK
  <2>6. UNCHANGED <<firstBlock, currBlock, lastBlock, sndCurrSeqNo, sndLastDataAck, rcvVars>>
    BY <1>4 DEF Retransmit
  <2> QED
    BY <1>0, <2>2, <2>4, <2>5, <2>6, SndKeeps DEF TypeOK
<1>5. CASE DropRequest
  <2>1. PICK n, a, z : [type |-> "DROP", msg |-> n, first |-> a, last |-> z] \in net'
    BY <1>5 DEF DropRequest
  <2>2. [type |-> "DROP", msg |-> n, first |-> a, last |-> z].type = "DROP"
    OBVIOUS
  <2> QED
    BY <2>1, <2>2 DEF Undropped
<1>6. CASE ProcessLoss
  <2>1. PICK s \in sndLastDataAck .. sndCurrSeqNo : sndLossList' = sndLossList \cup {s}
    BY <1>6 DEF ProcessLoss
  <2>2. s \in Nat /\ s <= sndCurrSeqNo
    BY <1>0 DEF TypeOK
  <2>3. SndOK' /\ sndLossList' \subseteq Nat
    BY <1>0, <1>6, <2>1, <2>2 DEF ProcessLoss, SndOK, TypeOK
  <2> QED
    BY <1>0, <1>6, <2>3, SndKeeps DEF ProcessLoss, TypeOK
<1> QED
  BY <1>1, <1>2, <1>3, <1>4, <1>5, <1>6 DEF SndNext

LEMMA ProcessAckStep ==
    ASSUME Inv, NEW m \in net, ProcessAck(m)
    PROVE  Inv'
<1>0. TypeOK /\ SndOK /\ NetOK /\ RcvOK
  BY DEF Inv
<1>1. m.ack \in Nat /\ m.ack <= currBlock /\ m.ack > sndLastDataAck
  BY <1>0 DEF ProcessAck, NetOK, RcvOK, SndOK, TypeOK
<1>2. /\ firstBlock' = m.ack /\ sndLastDataAck' = m.ack /\ sndLossList' \subseteq sndLossList
      /\ UNCHANGED <<currBlock, lastBlock, sndCurrSeqNo, rcvVars, net>>
  <2>1. firstBlock + (m.ack - sndLastDataAck) = m.ack
    BY <1>0, <1>1 DEF SndOK, TypeOK
  <2> QED
    BY <2>1 DEF ProcessAck
<1>3. SndOK'
  <2>1. 1 <= firstBlock' /\ firstBlock' <= currBlock'
    BY <1>0, <1>1, <1>2 DEF SndOK, TypeOK
  <2> QED
    BY <1>0, <1>2, <2>1 DEF SndOK
<1> QED
  BY <1>0, <1>1, <1>2, <1>3, SndKeeps DEF TypeOK
-----------------------------------------------------------------------------
(* The receiver's steps.                                                   *)

LEMMA MaxPair ==
    ASSUME NEW a \in Int, NEW b \in Int
    PROVE  Max({a, b}) = IF a >= b THEN a ELSE b
<1>1. PICK x \in {a, b} : x = (IF a >= b THEN a ELSE b) /\ \A y \in {a, b} : x >= y
  OBVIOUS
<1>2. \A z \in {a, b} : (\A y \in {a, b} : z >= y) => z = x
  BY <1>1
<1>3. Max({a, b}) \in {a, b} /\ \A y \in {a, b} : Max({a, b}) >= y
  BY <1>1 DEF Max
<1> QED
  BY <1>1, <1>2, <1>3

LEMMA ProcessDataStep ==
    ASSUME Inv, NEW m \in net, ProcessData(m)
    PROVE  Inv'
<1>0. TypeOK /\ SndOK /\ NetOK /\ RcvOK /\ UnitOK /\ TakenOK
  BY DEF Inv
<1> DEFINE seq == m.seq
           gap == rcvCurrSeqNo + 1 .. seq - 1
<1>1. /\ seq \in 1 .. sndCurrSeqNo /\ m.block = seq /\ seq >= rcvLastAck /\ unit[seq] = NoUnit
      /\ unit' = [unit EXCEPT ![seq] = [block |-> m.block, flag |-> 1]]
      /\ maxPos' = Max({maxPos, seq - rcvLastAck})
      /\ UNCHANGED <<sndVars, rcvLastAck, startPos, delivered>>
  BY <1>0 DEF ProcessData, NetOK
<1>2. \/ /\ seq > rcvCurrSeqNo /\ rcvLossList' = rcvLossList \cup gap /\ rcvCurrSeqNo' = seq
         /\ net' = net \cup {[type |-> "NAK", seq |-> s] : s \in gap}
      \/ /\ ~(seq > rcvCurrSeqNo) /\ rcvLossList' = rcvLossList \ {seq}
         /\ UNCHANGED <<rcvCurrSeqNo, net>>
  BY DEF ProcessData
<1> HIDE DEF seq
<1>3. /\ sndCurrSeqNo \in Nat /\ rcvCurrSeqNo \in Nat /\ rcvLastAck \in Nat /\ startPos \in Nat
      /\ maxPos \in Nat /\ seq \in Nat /\ seq <= sndCurrSeqNo /\ sndCurrSeqNo <= Len(Stream)
      /\ startPos <= rcvLastAck /\ 1 <= startPos /\ rcvLossList \subseteq Nat
      /\ rcvCurrSeqNo <= sndCurrSeqNo /\ rcvLastAck <= rcvCurrSeqNo + 1
      /\ Len(Stream) \in Nat /\ seq >= rcvLastAck
  BY <1>0, <1>1, StreamTypes DEF TypeOK, SndOK, RcvOK
<1>4. seq \in Positions /\ seq \in Blocks
  BY <1>1, <1>3, StreamTypes DEF Positions
<1>5. maxPos' \in Nat /\ rcvLastAck + maxPos' <= Len(Stream) + 1
  <2>1. maxPos' = IF maxPos >= seq - rcvLastAck THEN maxPos ELSE seq - rcvLastAck
    BY <1>1, <1>3, MaxPair
  <2> QED
    BY <1>0, <1>3, <2>1 DEF RcvOK
<1>6. /\ rcvCurrSeqNo' \in Nat /\ rcvLossList' \subseteq Nat
      /\ rcvCurrSeqNo <= rcvCurrSeqNo' /\ rcvCurrSeqNo' <= sndCurrSeqNo
      /\ \A s \in rcvLossList' : rcvLastAck <= s /\ s < rcvCurrSeqNo'
  <2>1. CASE seq > rcvCurrSeqNo
    <3>1. rcvLossList' = rcvLossList \cup gap /\ rcvCurrSeqNo' = seq
      BY <1>2, <2>1
    <3>2. \A s \in gap : s \in Nat /\ rcvLastAck <= s /\ s < seq
      BY <1>3
    <3> QED
      BY <1>0, <1>3, <2>1, <3>1, <3>2 DEF RcvOK
  <2>2. CASE ~(seq > rcvCurrSeqNo)
    <3>1. rcvLossList' = rcvLossList \ {seq} /\ rcvCurrSeqNo' = rcvCurrSeqNo
      BY <1>2, <2>2
    <3>2. \A s \in rcvLossList : rcvLastAck <= s /\ s < rcvCurrSeqNo
      BY <1>0 DEF RcvOK
    <3>3. rcvLossList' \subseteq Nat /\ \A s \in rcvLossList' : rcvLastAck <= s /\ s < rcvCurrSeqNo'
      BY <1>3, <3>1, <3>2
    <3>4. rcvCurrSeqNo' \in Nat /\ rcvCurrSeqNo <= rcvCurrSeqNo' /\ rcvCurrSeqNo' <= sndCurrSeqNo
      BY <1>3, <3>1
    <3> QED
      BY <3>3, <3>4
  <2> QED
    BY <2>1, <2>2
<1>7. TypeOK'
  <2>1. [block |-> m.block, flag |-> 1] \in [block : Nat, flag : {0, 1, PassedAck}]
    BY <1>1, <1>3
  <2>2. unit' \in [Positions -> [block : Nat, flag : {0, 1, PassedAck}]]
    BY <1>0, <1>1, <2>1 DEF TypeOK
  <2>3. UNCHANGED <<firstBlock, currBlock, lastBlock, sndCurrSeqNo, sndLastDataAck, sndLossList,
                    rcvLastAck, startPos, delivered>>
    BY <1>1 DEF sndVars
  <2> QED
    BY <1>0, <1>5, <1>6, <2>2, <2>3 DEF TypeOK
<1>8. SndOK'
  BY <1>0, <1>1 DEF SndOK, sndVars
<1>9. NetOK'
  <2>1. \A n \in net' : n \in net \/ n.type = "NAK"
    BY <1>2
  <2> QED
    BY <1>0, <1>1, <2>1 DEF NetOK, sndVars
<1>10. RcvOK'
  <2>1. UNCHANGED <<sndCurrSeqNo, rcvLastAck, startPos>>
    BY <1>1 DEF sndVars
  <2>2. rcvLastAck <= rcvCurrSeqNo' + 1
    <3>1. /\ rcvLastAck \in Nat /\ rcvCurrSeqNo \in Nat /\ rcvCurrSeqNo' \in Nat
          /\ rcvLastAck <= rcvCurrSeqNo + 1
      BY <1>3, <1>6
    <3>2. rcvCurrSeqNo <= rcvCurrSeqNo'
      BY <1>6
    <3>3. \A a, b, c \in Nat : a <= b + 1 /\ b <= c => a <= c + 1
      OBVIOUS
    <3> QED
      BY <3>1, <3>2, <3>3
  <2> QED
    BY <1>0, <1>5, <1>6, <2>1, <2>2 DEF RcvOK
<1>11. unit'[seq] = [block |-> seq, flag |-> 1] /\ \A p \in Positions : p # seq => unit'[p] = unit[p]
  BY <1>0, <1>1, <1>4 DEF TypeOK
<1>12. UnitOK'
  <2> SUFFICES ASSUME NEW p \in Positions
               PROVE  /\ Stored(p)' <=> unit'[p] # NoUnit
                      /\ Stored(p)' => unit'[p].block = p /\ unit'[p].flag \in {1, PassedAck}
    BY DEF UnitOK
  <2>0. p \in Nat
    BY StreamTypes DEF Positions
  <2>1. CASE p = seq
    <3>1. Stored(p)'
      <4>1. CASE seq > rcvCurrSeqNo
        <5>1. rcvLossList' = rcvLossList \cup gap /\ rcvCurrSeqNo' = seq
          BY <1>2, <4>1
        <5>2. seq \notin gap /\ seq \notin rcvLossList
          BY <1>0, <1>3, <4>1 DEF RcvOK, TypeOK
        <5> QED
          BY <1>1, <1>3, <2>1, <5>1, <5>2 DEF Stored
      <4>2. CASE ~(seq > rcvCurrSeqNo)
        BY <1>1, <1>2, <1>3, <2>1, <4>2 DEF Stored
      <4> QED
        BY <4>1, <4>2
    <3> QED
      BY <1>11, <2>1, <3>1 DEF NoUnit
  <2>2. CASE p # seq
    <3>1. Stored(p)' <=> Stored(p)
      <4>1. CASE seq > rcvCurrSeqNo
        <5>1. rcvLossList' = rcvLossList \cup gap /\ rcvCurrSeqNo' = seq
          BY <1>2, <4>1
        <5>2. p <= seq /\ p \notin gap <=> p <= rcvCurrSeqNo
          BY <1>3, <2>0, <2>2, <4>1
        <5>3. p > rcvCurrSeqNo => p \notin rcvLossList
          BY <1>0, <1>3, <2>0 DEF RcvOK
        <5> QED
          BY <1>1, <1>3, <2>0, <5>1, <5>2, <5>3 DEF Stored
      <4>2. CASE ~(seq > rcvCurrSeqNo)
        BY <1>1, <1>2, <2>2, <4>2 DEF Stored
      <4> QED
        BY <4>1, <4>2
    <3> QED
      BY <1>0, <1>11, <2>2, <3>1 DEF UnitOK
  <2> QED
    BY <2>1, <2>2
<1>13. TakenOK'
  <2>1. \A b \in Blocks : unit'[b].flag = PassedAck <=> unit[b].flag = PassedAck
    <3>1. Blocks \subseteq Positions
      BY StreamTypes DEF Positions
    <3> QED
      BY <1>1, <1>11, <3>1 DEF NoUnit, PassedAck
  <2>2. \A n : Taken(n)' <=> Taken(n)
    BY <1>1 DEF Taken
  <2> QED
    BY <1>0, <1>1, <2>1, <2>2 DEF TakenOK
<1> QED
  BY <1>7, <1>8, <1>9, <1>10, <1>12, <1>13 DEF Inv

LEMMA SendAckStep ==
    ASSUME Inv, SendAck
    PROVE  Inv'
<1>0. TypeOK /\ SndOK /\ NetOK /\ RcvOK /\ UnitOK /\ TakenOK
  BY DEF Inv
<1> DEFINE ack == IF rcvLossList = {} THEN rcvCurrSeqNo + 1 ELSE Min(rcvLossList)
<1>1. /\ ack > rcvLastAck /\ rcvLastAck' = ack
      /\ maxPos' = Max({0, maxPos - (ack - rcvLastAck)})
      /\ net' = net \cup {[type |-> "ACK", ack |-> ack]}
      /\ UNCHANGED <<sndVars, rcvCurrSeqNo, rcvLossList, unit, startPos, delivered>>
  BY DEF SendAck
<1>2. ack \in Nat /\ ack <= rcvCurrSeqNo + 1 /\ \A s \in rcvLossList : ack <= s
  <2>1. CASE rcvLossList = {}
    BY <1>0, <2>1 DEF TypeOK
  <2>2. CASE rcvLossList # {}
    <3>1. ack \in rcvLossList /\ \A s \in rcvLossList : ack <= s
      BY <1>0, <2>2, MinOf DEF TypeOK
    <3> HIDE DEF ack
    <3>2. ack \in Nat /\ rcvCurrSeqNo \in Nat /\ ack < rcvCurrSeqNo
      BY <1>0, <3>1 DEF TypeOK, RcvOK
    <3> QED
      BY <3>1, <3>2
  <2> QED
    BY <2>1, <2>2
<1> HIDE DEF ack
<1>3. /\ rcvCurrSeqNo \in Nat /\ rcvLastAck \in Nat /\ maxPos \in Nat /\ startPos \in Nat
      /\ rcvCurrSeqNo <= Len(Stream) /\ Len(Stream) \in Nat
  BY <1>0, Ring, StreamTypes DEF TypeOK
<1>4. maxPos' \in Nat /\ ack + maxPos' <= Len(Stream) + 1
  <2>1. maxPos' = IF 0 >= maxPos - (ack - rcvLastAck) THEN 0 ELSE maxPos - (ack - rcvLastAck)
    BY <1>1, <1>2, <1>3, MaxPair
  <2> QED
    BY <1>0, <1>2, <1>3, <2>1 DEF RcvOK
<1>5. TypeOK' /\ SndOK'
  BY <1>0, <1>1, <1>2, <1>4 DEF TypeOK, SndOK, sndVars
<1>6. NetOK'
  <2>1. \A n \in net' : n \in net \/ (n.type = "ACK" /\ n.ack = ack)
    <3>1. \A n \in net' : n \in net \/ n = [type |-> "ACK", ack |-> ack]
      BY <1>1
    <3> QED
      BY <3>1
  <2>2. \A n \in net : n.type = "ACK" => n.ack \in Nat /\ n.ack <= ack
    BY <1>0, <1>1, <1>2, <1>3 DEF NetOK
  <2> QED
    BY <1>0, <1>1, <1>2, <2>1, <2>2 DEF NetOK, sndVars
<1>7. RcvOK'
  BY <1>0, <1>1, <1>2, <1>3, <1>4 DEF RcvOK, sndVars
<1>8. UnitOK' /\ TakenOK'
  BY <1>0, <1>1 DEF UnitOK, TakenOK, Stored, Taken
<1> QED
  BY <1>5, <1>6, <1>7, <1>8 DEF Inv

LEMMA ScanOnlyStep ==
    ASSUME Inv, ScanOnly
    PROVE  Inv'
<1>0. TypeOK /\ SndOK /\ NetOK /\ RcvOK /\ UnitOK /\ TakenOK
  BY DEF Inv
<1> DEFINE s == ScanStart
<1>1. /\ s \in startPos .. rcvLastAck
      /\ \A b \in startPos .. s - 1 : b \in Blocks /\ Taken(Stream[b].msg)
  BY ScanFacts
<1>2. /\ unit' = [p \in Positions |-> IF p < s THEN NoUnit ELSE unit[p]]
      /\ startPos' = s
      /\ UNCHANGED <<sndVars, rcvSeqVars, maxPos, delivered, net>>
  BY DEF ScanOnly
<1> HIDE DEF s
<1>3. s \in Nat /\ startPos \in Nat /\ rcvLastAck \in Nat /\ startPos <= s /\ s <= rcvLastAck
  BY <1>0, <1>1 DEF TypeOK
<1>4. TypeOK'
  <2>1. unit' \in [Positions -> [block : Nat, flag : {0, 1, PassedAck}]]
    BY <1>0, <1>2 DEF TypeOK, NoUnit
  <2> QED
    BY <1>0, <1>2, <1>3, <2>1 DEF TypeOK, sndVars, rcvSeqVars
<1>5. SndOK' /\ NetOK'
  BY <1>0, <1>2 DEF SndOK, NetOK, sndVars, rcvSeqVars
<1>6. RcvOK'
  BY <1>0, <1>2, <1>3 DEF RcvOK, sndVars, rcvSeqVars
<1>7. \A p \in Positions : /\ p \in Nat
                           /\ p < s => unit'[p] = NoUnit /\ ~Stored(p)'
                           /\ ~(p < s) => unit'[p] = unit[p] /\ (Stored(p)' <=> Stored(p))
  <2> SUFFICES ASSUME NEW p \in Positions
               PROVE  /\ p \in Nat
                      /\ p < s => unit'[p] = NoUnit /\ ~Stored(p)'
                      /\ ~(p < s) => unit'[p] = unit[p] /\ (Stored(p)' <=> Stored(p))
    OBVIOUS
  <2>1. p \in Nat /\ rcvCurrSeqNo \in Nat
    BY <1>0, StreamTypes DEF Positions, TypeOK
  <2>2. Stored(p)' <=> p \in s .. rcvCurrSeqNo /\ p \notin rcvLossList
    BY <1>2 DEF Stored, rcvSeqVars
  <2> QED
    BY <1>2, <1>3, <2>1, <2>2 DEF Stored
<1>8. UnitOK'
  BY <1>0, <1>7 DEF UnitOK
<1>9. TakenOK'
  <2> SUFFICES ASSUME NEW b \in Blocks
               PROVE  Taken(Stream[b].msg)' <=> b < startPos' \/ unit'[b].flag = PassedAck
    BY DEF TakenOK
  <2>1. Taken(Stream[b].msg)' <=> Taken(Stream[b].msg)
    BY <1>2 DEF Taken
  <2>2. b \in Positions /\ b \in Nat
    BY StreamTypes DEF Positions
  <2>3. Taken(Stream[b].msg) <=> b < startPos \/ unit[b].flag = PassedAck
    BY <1>0 DEF TakenOK
  <2>4. b < s => Taken(Stream[b].msg)
    BY <1>1, <1>3, <2>2, <2>3
  <2> QED
    BY <1>2, <1>3, <1>7, <2>1, <2>2, <2>3, <2>4
<1> QED
  BY <1>4, <1>5, <1>6, <1>8, <1>9 DEF Inv

-----------------------------------------------------------------------------
(* ReadMsg.                                                                *)

\* recvmsg() returns packets p to q.
Delivers(p, q) ==
    /\ Read(p, q)
    /\ delivered' = Append(delivered, [k \in 1 .. q - p + 1 |-> p + k - 1])
    /\ startPos' = IF q >= rcvLastAck THEN ScanStart ELSE q + 1
    /\ unit' = [k \in Positions |->
                   IF k < startPos' THEN NoUnit
                   ELSE IF q >= rcvLastAck /\ k \in p .. q
                     THEN [unit[k] EXCEPT !.flag = PassedAck] ELSE unit[k]]
    /\ UNCHANGED <<sndVars, rcvSeqVars, maxPos, net>>

LEMMA ReadDelivers ==
    ASSUME Inv, ReadMsg
    PROVE  \E p, q : Delivers(p, q)
<1> DEFINE q == Min(Candidates)
           p == Max(Heads(q))
<1>1. Read(p, q)
  BY ReadFacts DEF ReadMsg
<1>2. /\ delivered' = Append(delivered, [k \in 1 .. q - p + 1 |-> unit[p + k - 1].block])
      /\ startPos' = IF q >= rcvLastAck THEN ScanStart ELSE q + 1
      /\ unit' = [k \in Positions |->
                     IF k < startPos' THEN NoUnit
                     ELSE IF q >= rcvLastAck /\ k \in p .. q
                       THEN [unit[k] EXCEPT !.flag = PassedAck] ELSE unit[k]]
      /\ UNCHANGED <<sndVars, rcvSeqVars, maxPos, net>>
  BY DEF ReadMsg
<1> HIDE DEF q, p
<1>3. [k \in 1 .. q - p + 1 |-> unit[p + k - 1].block] = [k \in 1 .. q - p + 1 |-> p + k - 1]
  <2>1. p \in Nat /\ q \in Nat
    BY <1>1, StreamTypes DEF Read
  <2>2. ASSUME NEW k \in 1 .. q - p + 1 PROVE unit[p + k - 1].block = p + k - 1
    <3>1. p + k - 1 \in p .. q
      BY <2>1
    <3>2. p + k - 1 \in Positions /\ Stored(p + k - 1)
      BY <1>1, <3>1 DEF Read
    <3> QED
      BY <3>2, Slots
  <2> QED
    BY <2>2
<1> QED
  BY <1>1, <1>2, <1>3 DEF Delivers

\* Its message was not returned before, and is now.
LEMMA DeliversTaken ==
    ASSUME Inv, NEW p, NEW q, Delivers(p, q)
    PROVE  /\ Len(delivered) \in Nat /\ Len(delivered') = Len(delivered) + 1
           /\ \A i \in 1 .. Len(delivered) : delivered'[i] = delivered[i]
           /\ delivered'[Len(delivered) + 1] = [k \in 1 .. q - p + 1 |-> p + k - 1]
           /\ p \in Nat /\ q \in Nat /\ p <= q
           /\ MsgOf(delivered'[Len(delivered) + 1]) = Stream[p].msg
           /\ ~Taken(Stream[p].msg)
           /\ \A n : Taken(n)' <=> Taken(n) \/ n = Stream[p].msg
           /\ delivered' \in Seq(Seq(Nat))
<1> DEFINE d == [k \in 1 .. q - p + 1 |-> p + k - 1]
<1>1. p \in Nat /\ q \in Nat /\ p <= q /\ p \in Blocks /\ p \in p .. q /\ unit[p].flag = 1 /\ ScanStart <= p
  BY StreamTypes DEF Delivers, Read
<1>2. delivered \in Seq(Seq(Nat))
  BY DEF Inv, TypeOK
<1>3. d \in Seq(Nat) /\ d[1] = p
  BY <1>1
<1> HIDE DEF d
<1>4. delivered' = Append(delivered, d)
  BY DEF Delivers, d
<1>5. /\ Len(delivered) \in Nat /\ Len(delivered') = Len(delivered) + 1
      /\ \A i \in 1 .. Len(delivered) : delivered'[i] = delivered[i]
      /\ delivered'[Len(delivered) + 1] = d
      /\ delivered' \in Seq(Seq(Nat))
  BY <1>2, <1>3, <1>4
<1>6. MsgOf(delivered'[Len(delivered) + 1]) = Stream[p].msg
  BY <1>3, <1>5 DEF MsgOf
<1>7. ~Taken(Stream[p].msg)
  <2>1. startPos \in Nat /\ ScanStart \in startPos .. rcvLastAck
    BY ScanFacts DEF Inv, TypeOK
  <2>2. ~(p < startPos) /\ unit[p].flag # PassedAck
    BY <1>1, <2>1 DEF PassedAck
  <2> QED
    BY <1>1, <2>2 DEF Inv, TakenOK
<1>8. ASSUME NEW n PROVE Taken(n)' <=> Taken(n) \/ n = Stream[p].msg
  <2>1. Taken(n)' <=> \E i \in 1 .. Len(delivered) + 1 : MsgOf(delivered'[i]) = n
    BY <1>5 DEF Taken, MsgOf
  <2>2. \A i \in 1 .. Len(delivered) + 1 : i \in 1 .. Len(delivered) \/ i = Len(delivered) + 1
    BY <1>5
  <2>3. \A i \in 1 .. Len(delivered) : i \in 1 .. Len(delivered) + 1 /\ MsgOf(delivered'[i]) = MsgOf(delivered[i])
    BY <1>5
  <2>4. Len(delivered) + 1 \in 1 .. Len(delivered) + 1
    BY <1>5
  <2> QED
    BY <1>6, <2>1, <2>2, <2>3, <2>4 DEF Taken
<1> QED
  BY <1>1, <1>5, <1>6, <1>7, <1>8 DEF d

LEMMA ReadMsgStep ==
    ASSUME Inv, NEW p, NEW q, Delivers(p, q)
    PROVE  Inv'
<1>0. TypeOK /\ SndOK /\ NetOK /\ RcvOK /\ UnitOK /\ TakenOK
  BY DEF Inv
<1> DEFINE s == ScanStart
           passack == q >= rcvLastAck
<1>1. /\ s \in startPos .. rcvLastAck
      /\ \A b \in startPos .. s - 1 : b \in Blocks /\ Taken(Stream[b].msg)
  BY ScanFacts
<1>2. /\ p \in Blocks /\ q \in Blocks /\ s <= p /\ p <= q
      /\ Stream[p].first /\ Stream[q].last
      /\ \A k \in p .. q : /\ k \in Blocks /\ k \in Positions /\ Stream[k].msg = Stream[p].msg
                          /\ Stored(k) /\ unit[k].flag = 1
      /\ ~passack => p = s
  BY StreamTypes, SMTT(30) DEF Delivers, Read, Inv, TypeOK
<1>3. /\ startPos' = IF passack THEN s ELSE q + 1
      /\ unit' = [k \in Positions |->
                     IF k < startPos' THEN NoUnit
                     ELSE IF passack /\ k \in p .. q
                       THEN [unit[k] EXCEPT !.flag = PassedAck] ELSE unit[k]]
      /\ UNCHANGED <<sndVars, rcvSeqVars, maxPos, net>>
  BY DEF Delivers
<1> HIDE DEF s
<1>4. /\ s \in Nat /\ startPos \in Nat /\ rcvLastAck \in Nat /\ startPos <= s /\ s <= rcvLastAck
      /\ p \in Nat /\ q \in Nat
  BY <1>0, <1>1, <1>2, StreamTypes DEF TypeOK
<1>5. startPos' \in Nat /\ startPos <= startPos' /\ s <= startPos' /\ startPos' <= rcvLastAck
  BY <1>2, <1>3, <1>4
<1>6. \A k \in Positions :
         /\ k \in Nat
         /\ k < startPos' => unit'[k] = NoUnit /\ ~Stored(k)'
         /\ ~(k < startPos') =>
               /\ Stored(k)' <=> Stored(k)
               /\ IF passack /\ k \in p .. q THEN unit'[k] = [unit[k] EXCEPT !.flag = PassedAck]
                                             ELSE unit'[k] = unit[k]
  <2> SUFFICES ASSUME NEW k \in Positions
               PROVE  /\ k \in Nat
                      /\ k < startPos' => unit'[k] = NoUnit /\ ~Stored(k)'
                      /\ ~(k < startPos') =>
                            /\ Stored(k)' <=> Stored(k)
                            /\ IF passack /\ k \in p .. q
                                 THEN unit'[k] = [unit[k] EXCEPT !.flag = PassedAck]
                                 ELSE unit'[k] = unit[k]
    OBVIOUS
  <2>1. k \in Nat /\ rcvCurrSeqNo \in Nat
    BY <1>0, StreamTypes DEF Positions, TypeOK
  <2>2. Stored(k)' <=> k \in startPos' .. rcvCurrSeqNo /\ k \notin rcvLossList
    BY <1>3 DEF Stored, rcvSeqVars
  <2>3. k < startPos' => ~Stored(k)'
    BY <1>5, <2>1, <2>2
  <2>4. ~(k < startPos') => (Stored(k)' <=> Stored(k))
    BY <1>4, <1>5, <2>1, <2>2 DEF Stored
  <2> QED
    BY <1>3, <2>1, <2>3, <2>4
<1> HIDE DEF passack
<1>7. \A k \in Positions : unit[k] \in [block : Nat, flag : {0, 1, PassedAck}]
  BY <1>0 DEF TypeOK
<1>8. unit' \in [Positions -> [block : Nat, flag : {0, 1, PassedAck}]]
  <2>1. ASSUME NEW k \in Positions PROVE unit'[k] \in [block : Nat, flag : {0, 1, PassedAck}]
    <3>1. NoUnit \in [block : Nat, flag : {0, 1, PassedAck}]
      BY DEF NoUnit
    <3>2. [unit[k] EXCEPT !.flag = PassedAck] \in [block : Nat, flag : {0, 1, PassedAck}]
      BY <1>7
    <3> QED
      BY <1>6, <1>7, <3>1, <3>2
  <2>2. unit' = [k \in Positions |-> unit'[k]]
    BY <1>3
  <2> QED
    BY <2>1, <2>2
<1>9. TypeOK'
  <2>1. delivered' \in Seq(Seq(Nat))
    BY DeliversTaken
  <2> QED
    BY <1>0, <1>3, <1>5, <1>8, <2>1 DEF TypeOK, sndVars, rcvSeqVars
<1>10. SndOK' /\ NetOK'
  BY <1>0, <1>3 DEF SndOK, NetOK, sndVars, rcvSeqVars
<1>11. RcvOK'
  <2>1. 1 <= startPos'
    BY <1>0, <1>4, <1>5 DEF RcvOK
  <2> QED
    BY <1>0, <1>3, <1>5, <2>1 DEF RcvOK, sndVars, rcvSeqVars
<1>12. UnitOK'
  <2> SUFFICES ASSUME NEW k \in Positions
               PROVE  /\ Stored(k)' <=> unit'[k] # NoUnit
                      /\ Stored(k)' => unit'[k].block = k /\ unit'[k].flag \in {1, PassedAck}
    BY DEF UnitOK
  <2>1. CASE k < startPos'
    BY <1>6, <2>1
  <2>2. CASE ~(k < startPos') /\ ~(passack /\ k \in p .. q)
    <3>1. unit'[k] = unit[k] /\ (Stored(k)' <=> Stored(k))
      BY <1>6, <2>2
    <3> QED
      BY <1>0, <3>1 DEF UnitOK
  <2>3. CASE ~(k < startPos') /\ passack /\ k \in p .. q
    <3>1. unit'[k] = [unit[k] EXCEPT !.flag = PassedAck] /\ Stored(k)'
      BY <1>2, <1>6, <2>3
    <3>2. unit[k].block = k
      BY <1>2, <2>3, Slots
    <3>3. unit'[k].block = k /\ unit'[k].flag = PassedAck
      BY <1>7, <3>1, <3>2
    <3> QED
      BY <3>1, <3>3 DEF NoUnit, PassedAck
  <2> QED
    BY <2>1, <2>2, <2>3
<1>13. TakenOK'
  <2> SUFFICES ASSUME NEW b \in Blocks
               PROVE  Taken(Stream[b].msg)' <=> b < startPos' \/ unit'[b].flag = PassedAck
    BY DEF TakenOK
  <2>1. b \in Positions /\ b \in Nat
    BY StreamTypes DEF Positions
  <2>2. Taken(Stream[b].msg) <=> b < startPos \/ unit[b].flag = PassedAck
    BY <1>0 DEF TakenOK
  <2>3. Taken(Stream[b].msg)' <=> Taken(Stream[b].msg) \/ Stream[b].msg = Stream[p].msg
    BY DeliversTaken
  <2>4. Stream[b].msg = Stream[p].msg <=> b \in p .. q
    <3>1. ASSUME Stream[b].msg = Stream[p].msg PROVE b \in p .. q
      <4>1. q \in p .. q
        BY <1>2, <1>4
      <4>2. Stream[q].msg = Stream[b].msg
        BY <1>2, <3>1, <4>1
      <4>3. p <= b /\ b <= q
        BY <1>2, <3>1, <4>2, FirstIsLeast, LastIsGreatest
      <4> QED
        BY <1>4, <2>1, <4>3
    <3> QED
      BY <1>2, <3>1
  <2>5. b < s => Taken(Stream[b].msg)
    BY <1>1, <1>4, <2>1, <2>2
  <2>6. b < startPos' => b < s \/ b \in p .. q
    BY <1>2, <1>3, <1>4, <2>1
  <2>7. b \in p .. q => b < startPos' \/ passack
    BY <1>3, <1>4, <2>1
  <2>8. ~(b < startPos') => ~(b < startPos)
    BY <1>4, <1>5, <2>1
  <2>9. unit[b] \in [block : Nat, flag : {0, 1, PassedAck}]
    BY <1>7, <2>1
  <2>10. ~(b < startPos') => (unit'[b].flag = PassedAck <=> unit[b].flag = PassedAck \/ b \in p .. q)
    <3>1. CASE ~(b < startPos') /\ passack /\ b \in p .. q
      BY <1>6, <2>1, <2>9, <3>1
    <3>2. CASE ~(b < startPos') /\ ~(passack /\ b \in p .. q)
      BY <1>6, <2>1, <2>7, <3>2
    <3> QED
      BY <3>1, <3>2
  <2> QED
    BY <2>2, <2>3, <2>4, <2>5, <2>6, <2>8, <2>10
<1> QED
  BY <1>9, <1>10, <1>11, <1>12, <1>13 DEF Inv

\* The message is whole, new, and in order if it is ordered.
LEMMA ReadMsgProperties ==
    ASSUME Inv, NEW p, NEW q, Delivers(p, q), WholeMessages, AtMostOnce, InOrder
    PROVE  WholeMessages' /\ AtMostOnce' /\ InOrder'
<1> DEFINE n == Len(delivered)
<1>1. /\ n \in Nat /\ Len(delivered') = n + 1
      /\ \A i \in 1 .. n : delivered'[i] = delivered[i]
      /\ delivered'[n + 1] = [k \in 1 .. q - p + 1 |-> p + k - 1]
      /\ p \in Nat /\ q \in Nat /\ p <= q
      /\ MsgOf(delivered'[n + 1]) = Stream[p].msg
      /\ ~Taken(Stream[p].msg)
  BY DeliversTaken
<1>2. /\ p \in Blocks /\ q \in Blocks /\ ScanStart <= p
      /\ Stream[p].first /\ Stream[q].last
      /\ \A k \in p .. q : Stream[k].msg = Stream[p].msg
      /\ q < rcvLastAck => p = ScanStart
      /\ q >= rcvLastAck => Stream[p].msg \in Unordered
  BY DEF Delivers, Read
<1>3. \A i \in 1 .. n + 1 : i \in 1 .. n \/ i = n + 1
  BY <1>1
<1>4. \A i \in 1 .. n : MsgOf(delivered'[i]) = MsgOf(delivered[i])
  BY <1>1
<1>5. \A i \in 1 .. n : MsgOf(delivered[i]) # Stream[p].msg
  BY <1>1 DEF Taken
<1> HIDE DEF n
<1>6. WholeMessages'
  <2> DEFINE Whole(d) == /\ d = [k \in 1 .. Len(d) |->
                                    Min({b \in Blocks : Stream[b].msg = MsgOf(d)}) + k - 1]
                         /\ d[Len(d)] = LastBlockOf(MsgOf(d))
             e == delivered'[n + 1]
             S == {b \in Blocks : Stream[b].msg = Stream[p].msg}
  <2>1. Min(S) = p
    <3>1. S \in SUBSET Nat /\ p \in S
      BY <1>2, StreamTypes
    <3>2. Min(S) \in S /\ Min(S) <= p
      BY <3>1, MinOf
    <3>3. p <= Min(S)
      BY <1>2, <3>2, FirstIsLeast
    <3> QED
      BY <1>1, <3>1, <3>2, <3>3
  <2>2. e = [k \in 1 .. q - p + 1 |-> p + k - 1] /\ MsgOf(e) = Stream[p].msg
    BY <1>1
  <2> HIDE DEF e
  <2>3. Len(e) = q - p + 1 /\ e[q - p + 1] = q
    BY <1>1, <2>2
  <2>4. LastBlockOf(Stream[p].msg) = q
    <3>1. q \in p .. q
      BY <1>1
    <3>2. Stream[q].msg = Stream[p].msg
      BY <1>2, <3>1
    <3> QED
      BY <1>2, <3>2, LastBlockFacts
  <2>5. Whole(e)
    BY <2>1, <2>2, <2>3, <2>4
  <2>6. \A i \in 1 .. n : Whole(delivered[i])
    BY DEF WholeMessages, n
  <2> HIDE DEF Whole
  <2>7. \A i \in 1 .. n + 1 : Whole(delivered'[i])
    BY <1>1, <1>3, <2>5, <2>6 DEF e
  <2> QED
    BY <1>1, <2>7 DEF WholeMessages, Whole, MsgOf
<1>7. AtMostOnce'
  <2> SUFFICES ASSUME NEW i \in 1 .. n + 1, NEW j \in 1 .. n + 1,
                      MsgOf(delivered'[i]) = MsgOf(delivered'[j])
               PROVE  i = j
    BY <1>1 DEF AtMostOnce, MsgOf
  <2>1. CASE i \in 1 .. n /\ j \in 1 .. n
    <3>1. MsgOf(delivered[i]) = MsgOf(delivered[j])
      BY <1>4, <2>1
    <3> QED
      BY <2>1, <3>1 DEF AtMostOnce, n
  <2>2. CASE i \in 1 .. n /\ j = n + 1
    BY <1>1, <1>4, <1>5, <2>2
  <2>3. CASE i = n + 1 /\ j \in 1 .. n
    BY <1>1, <1>4, <1>5, <2>3
  <2> QED
    BY <1>3, <2>1, <2>2, <2>3
<1>8. InOrder'
  <2> SUFFICES ASSUME NEW i \in 1 .. n + 1, MsgOf(delivered'[i]) \notin Unordered,
                      NEW k \in 1 .. MsgOf(delivered'[i]) - 1
               PROVE  \E j \in 1 .. i - 1 : MsgOf(delivered'[j]) = k
    BY <1>1 DEF InOrder, MsgOf
  <2>1. CASE i \in 1 .. n
    <3>1. PICK j \in 1 .. i - 1 : MsgOf(delivered[j]) = k
      BY <1>4, <2>1 DEF InOrder, n
    <3>2. j \in 1 .. n
      BY <1>1, <2>1
    <3> QED
      BY <1>4, <3>1, <3>2
  <2>2. CASE i = n + 1
    <3>1. MsgOf(delivered'[i]) = Stream[p].msg /\ Stream[p].msg \notin Unordered
      BY <1>1, <2>2
    <3>2. p = ScanStart
      BY <1>1, <1>2, <3>1 DEF Inv, TypeOK
    <3>3. Stream[p].msg \in Nat /\ k \in 1 .. Stream[p].msg /\ k # Stream[p].msg
      BY <1>2, <3>1, StreamTypes
    <3>4. PICK c \in 1 .. p : c \in Blocks /\ Stream[c].msg = k
      BY <1>2, <3>3, Numbered
    <3>5. c # p /\ c \in Nat /\ c < p
      BY <1>1, <3>3, <3>4
    <3>6. Taken(Stream[c].msg)
      <4>1. CASE c < startPos
        BY <3>4, <4>1 DEF Inv, TakenOK
      <4>2. CASE ~(c < startPos)
        <5>1. c \in startPos .. ScanStart - 1
          BY <1>1, <3>2, <3>5, <4>2 DEF Inv, TypeOK
        <5> QED
          BY <5>1, ScanFacts
      <4> QED
        BY <4>1, <4>2
    <3>7. PICK j \in 1 .. n : MsgOf(delivered[j]) = k
      BY <3>4, <3>6 DEF Taken, n
    <3>8. j \in 1 .. i - 1
      BY <1>1, <2>2
    <3> QED
      BY <1>4, <3>7, <3>8
  <2> QED
    BY <1>3, <2>1, <2>2
<1> QED
  BY <1>6, <1>7, <1>8
-----------------------------------------------------------------------------
(* All steps.                                                              *)

\* Nothing is taken back that was sent.
LEMMA NetGrows == [Next]_vars => net \subseteq net'
<1> SUFFICES ASSUME [Next]_vars PROVE net \subseteq net'
  OBVIOUS
<1>1. CASE SndNext
  <2>1. SendMsg \/ TtlOver \/ ProcessLoss => net' = net
    BY DEF SendMsg, TtlOver, ProcessLoss
  <2>2. SendNew => net \subseteq net'
    BY DEF SendNew
  <2>3. Retransmit => net \subseteq net'
    BY DEF Retransmit
  <2>4. DropRequest => net \subseteq net'
    BY DEF DropRequest
  <2> QED
    BY <1>1, <2>1, <2>2, <2>3, <2>4 DEF SndNext
<1>2. ASSUME NEW m \in net, ProcessAck(m) \/ ProcessData(m) \/ ProcessDrop(m)
      PROVE  net \subseteq net'
  <2>1. ProcessAck(m) \/ ProcessDrop(m) => net' = net
    BY DEF ProcessAck, ProcessDrop
  <2>2. ProcessData(m) => net \subseteq net'
    BY DEF ProcessData
  <2> QED
    BY <1>2, <2>1, <2>2
<1>3. CASE SendAck
  BY <1>3 DEF SendAck
<1>4. CASE ReadMsg \/ ScanOnly
  BY <1>4 DEF ReadMsg, ScanOnly
<1>5. CASE UNCHANGED vars
  BY <1>5 DEF vars
<1> QED
  BY <1>1, <1>2, <1>3, <1>4, <1>5 DEF Next

\* Only ReadMsg returns a message.
LEMMA OthersKeep ==
    ASSUME UNCHANGED delivered, WholeMessages, AtMostOnce, InOrder
    PROVE  WholeMessages' /\ AtMostOnce' /\ InOrder'
<1>1. WholeMessages'
  BY DEF WholeMessages, MsgOf
<1>2. AtMostOnce'
  BY DEF AtMostOnce, MsgOf
<1>3. InOrder'
  BY DEF InOrder, MsgOf
<1> QED
  BY <1>1, <1>2, <1>3

Safe == Inv /\ WholeMessages /\ AtMostOnce /\ InOrder

LEMMA NextStep ==
    ASSUME Safe, [Next]_vars, Undropped'
    PROVE  Safe'
<1>0. Inv /\ WholeMessages /\ AtMostOnce /\ InOrder
  BY DEF Safe
<1>1. ASSUME Inv', UNCHANGED delivered PROVE Safe'
  BY <1>0, <1>1, OthersKeep DEF Safe
<1>2. CASE SndNext
  <2>1. UNCHANGED delivered
    BY <1>2 DEF SndNext, SendMsg, TtlOver, SendNew, Retransmit, DropRequest, ProcessLoss,
                rcvVars, rcvBufVars
  <2> QED
    BY <1>0, <1>1, <1>2, <2>1, SenderStep
<1>3. ASSUME NEW m \in net, ProcessAck(m) PROVE Safe'
  <2>1. UNCHANGED delivered
    BY <1>3 DEF ProcessAck, rcvVars, rcvBufVars
  <2> QED
    BY <1>0, <1>1, <1>3, <2>1, ProcessAckStep
<1>4. ASSUME NEW m \in net, ProcessData(m) PROVE Safe'
  <2>1. UNCHANGED delivered
    BY <1>4 DEF ProcessData
  <2> QED
    BY <1>0, <1>1, <1>4, <2>1, ProcessDataStep
<1>5. ASSUME NEW m \in net, ProcessDrop(m) PROVE Safe'
  <2>1. m.type = "DROP" /\ m \in net'
    BY <1>5 DEF ProcessDrop
  <2> QED
    BY <2>1 DEF Undropped
<1>6. CASE SendAck
  <2>1. UNCHANGED delivered
    BY <1>6 DEF SendAck
  <2> QED
    BY <1>0, <1>1, <1>6, <2>1, SendAckStep
<1>7. CASE ReadMsg
  <2>1. PICK p, q : Delivers(p, q)
    BY <1>0, <1>7, ReadDelivers
  <2>2. Inv'
    BY <1>0, <2>1, ReadMsgStep
  <2>3. WholeMessages' /\ AtMostOnce' /\ InOrder'
    BY <1>0, <2>1, ReadMsgProperties
  <2> QED
    BY <2>2, <2>3 DEF Safe
<1>8. CASE ScanOnly
  <2>1. UNCHANGED delivered
    BY <1>8 DEF ScanOnly
  <2> QED
    BY <1>0, <1>1, <1>8, <2>1, ScanOnlyStep
<1>9. CASE UNCHANGED vars
  <2>1. Inv'
    BY <1>0, <1>9 DEF vars, sndVars, rcvVars, rcvSeqVars, rcvBufVars, Inv, TypeOK, SndOK, NetOK,
                      RcvOK, UnitOK, TakenOK, Stored, Taken, MsgOf
  <2> QED
    BY <1>1, <1>9, <2>1 DEF vars, rcvVars, rcvBufVars
<1> QED
  BY <1>2, <1>3, <1>4, <1>5, <1>6, <1>7, <1>8, <1>9 DEF Next

LEMMA Invariance == Spec => [](Undropped => Safe)
<1>1. Init => (Undropped => Safe)
  BY InitInv DEF Safe
<1>2. (Undropped => Safe) /\ [Next]_vars => (Undropped => Safe)'
  <2> SUFFICES ASSUME Undropped => Safe, [Next]_vars, Undropped' PROVE Safe'
    OBVIOUS
  <2>1. Undropped
    BY NetGrows DEF Undropped
  <2> QED
    BY <2>1, NextStep
<1> QED
  BY <1>1, <1>2, PTL DEF Spec

\* recvmsg() returns whole messages, whatever was lost, repeated or reordered,
\* until a drop request is sent (readMsg, scanMsg).
THEOREM MessagesWhole == Spec => [](Undropped => WholeMessages)
<1>1. Safe => WholeMessages
  BY DEF Safe
<1> QED
  BY <1>1, Invariance, PTL

\* recvmsg() returns no message twice, not even one that was read before the
\* packets in front of it had come, until a drop request is sent.
THEOREM MessagesOnce == Spec => [](Undropped => AtMostOnce)
<1>1. Safe => AtMostOnce
  BY DEF Safe
<1> QED
  BY <1>1, Invariance, PTL

\* recvmsg() returns an ordered message after all the messages before it, until
\* a drop request is sent.
THEOREM MessagesInOrder == Spec => [](Undropped => OrderedInOrder)
<1>1. Safe => OrderedInOrder
  <2> SUFFICES ASSUME InOrder PROVE OrderedInOrder
    BY DEF Safe
  <2> QED
    BY DEF InOrder, OrderedInOrder
<1> QED
  BY <1>1, Invariance, PTL

\* Every message has fewer packets than the receive buffer has slots.  sendmsg()
\* refuses only those that do not fit its own buffer (core.cpp:1224), so that
\* this is up to the applications.
MessagesFit ==
    \A b, c \in Blocks : Stream[b].msg = Stream[c].msg => c - b + 1 < RcvBufSize

LEMMA FullMeansReadable ==
    ASSUME Inv, MessagesFit
    PROVE  FullBufferReadable
<1> SUFFICES ASSUME AvailBufSize = 0, ScanStart = startPos PROVE Candidates # {}
  BY DEF FullBufferReadable
<1>1. startPos \in Nat /\ rcvLastAck \in Nat /\ RcvBufSize \in Nat /\ RcvBufSize >= 2
  BY StreamTypes DEF Inv, TypeOK
<1>2. rcvLastAck = startPos + RcvBufSize - 1
  BY <1>1 DEF AvailBufSize
<1>3. ScanStart < rcvLastAck /\ startPos \in startPos .. rcvLastAck - 1
  BY <1>1, <1>2
<1>4. startPos \in Blocks
  BY <1>3, Acked
<1>5. PICK e \in Blocks :
         /\ startPos <= e /\ Stream[e].last /\ Stream[e].msg = Stream[startPos].msg
         /\ \A k \in startPos .. e : k \in Blocks /\ Stream[k].msg = Stream[startPos].msg
  BY <1>4, Ends
<1>6. e < rcvLastAck
  <2>1. e - startPos + 1 < RcvBufSize
    BY <1>4, <1>5 DEF MessagesFit
  <2> QED
    BY <1>1, <1>2, <2>1, StreamTypes
<1>7. e \in Candidates
  BY <1>3, <1>5, <1>6, StartIsCandidate
<1> QED
  BY <1>7

\* A receiver with a full buffer has a message to return or something to skip,
\* until a drop request is sent, if messages fit into the buffer: the sender is
\* not blocked for ever by a window that nobody can empty.
THEOREM FullIsReadable ==
    ASSUME MessagesFit
    PROVE  Spec => [](Undropped => FullBufferReadable)
<1>1. Safe => FullBufferReadable
  BY FullMeansReadable DEF Safe
<1> QED
  BY <1>1, Invariance, PTL
-----------------------------------------------------------------------------
(* Without a time to live there are no drop requests.                      *)

LEMMA NeverDropped ==
    ASSUME Mortal = {}
    PROVE  Spec => []Undropped
<1> DEFINE Alive == expired = {} /\ Undropped
<1>1. Init => Alive
  BY DEF Init, Undropped
<1>2. Alive /\ [Next]_vars => Alive'
  <2> SUFFICES ASSUME expired = {}, Undropped, [Next]_vars PROVE expired' = {} /\ Undropped'
    OBVIOUS
  <2>1. CASE SndNext
    <3>1. CASE SendMsg \/ SendNew \/ ProcessLoss
      BY <3>1 DEF SendMsg, SendNew, ProcessLoss, Undropped, Data
    <3>2. CASE TtlOver
      BY <3>2 DEF TtlOver
    <3>3. CASE Retransmit
      <4>1. expired' = {}
        BY <3>3 DEF Retransmit
      <4>2. \A m \in net' : m \in net \/ m.type = "DATA"
        BY <3>3 DEF Retransmit, Data
      <4> QED
        BY <4>1, <4>2 DEF Undropped
    <3>4. CASE DropRequest
      BY <3>4 DEF DropRequest
    <3> QED
      BY <2>1, <3>1, <3>2, <3>3, <3>4 DEF SndNext
  <2>2. ASSUME NEW m \in net, ProcessAck(m) \/ ProcessData(m) \/ ProcessDrop(m)
        PROVE  expired' = {} /\ Undropped'
    <3>1. CASE ProcessAck(m)
      BY <3>1 DEF ProcessAck, Undropped
    <3>2. CASE ProcessData(m)
      <4>1. expired' = {}
        BY <3>2 DEF ProcessData, sndVars
      <4>2. \A n \in net' : n \in net \/ n.type = "NAK"
        BY <3>2 DEF ProcessData
      <4> QED
        BY <4>1, <4>2 DEF Undropped
    <3>3. CASE ProcessDrop(m)
      BY <3>3 DEF ProcessDrop, Undropped
    <3> QED
      BY <2>2, <3>1, <3>2, <3>3
  <2>3. CASE SendAck
    <3>1. \A n \in net' : n \in net \/ n.type = "ACK"
      BY <2>3 DEF SendAck
    <3> QED
      BY <2>3, <3>1 DEF SendAck, sndVars, Undropped
  <2>4. CASE ReadMsg \/ ScanOnly \/ UNCHANGED vars
    BY <2>4 DEF ReadMsg, ScanOnly, vars, sndVars, Undropped
  <2> QED
    BY <2>1, <2>2, <2>3, <2>4 DEF Next
<1>3. Alive => Undropped
  OBVIOUS
<1> QED
  BY <1>1, <1>2, <1>3, PTL DEF Spec

\* A program that sends no message with a time to live gets its messages whole,
\* once and in order where asked for, without any condition.
THEOREM ImmortalMessages ==
    ASSUME Mortal = {}
    PROVE  Spec => [](WholeMessages /\ AtMostOnce /\ OrderedInOrder)
<1> QED
  BY NeverDropped, MessagesWhole, MessagesOnce, MessagesInOrder, PTL
=============================================================================
