----------------------------- MODULE ZLinkFrames -----------------------------
(***************************************************************************)
(* Audio and video frames over one UDT channel of a ZLink session: the     *)
(* sender writes a header with the sizes, the frame information and the    *)
(* frame data, each by calls of UDT::send until all of it is handed over   *)
(* (udt_send_all); the receiver reads the header, checks the sizes against *)
(* its buffers and reads information and data in the same way.  There is   *)
(* nothing else to find the beginning of a frame by, so both ends have to  *)
(* stay in step for ever.                                                  *)
(*                                                                         *)
(* The connection below is the one that module ReliableStream promises:    *)
(* bytes (here: cells) arrive complete and in order.  How many of them one *)
(* UDT::send or UDT::recv takes is up to the buffers.                      *)
(***************************************************************************)
EXTENDS Naturals, Sequences

CONSTANTS
    NumFrames,      \* bound: frames sent
    HeaderLen,      \* cells of a header; its first one holds the mark HLKJ
    InfoLen,        \* cells of the frame information
    DataLens,       \* cells of the frame data
    MaxDataLen,     \* the receiver's nFrameDataMaxSize
    Capacity,       \* cells the channel holds: send buffer, network, receive buffer
    Rounds          \* calls until nTimeoutMs is up, at 10 ms each; 0: no time limit

ASSUME FramesAssumption ==
    /\ NumFrames \in Nat /\ HeaderLen \in Nat \ {0} /\ InfoLen \in Nat \ {0}
    /\ DataLens \subseteq Nat /\ DataLens # {} /\ MaxDataLen \in Nat
    /\ Capacity \in Nat \ {0} /\ Rounds \in Nat

VARIABLES
    stream,      \* cells on their way, the oldest first
    snd,         \* the sender's call: part of the frame, cells handed over, rounds
    rcv,         \* the receiver's call: part of the frame, cells read, rounds
    delivered,   \* frames that AvFrameDataRecv has returned
    up           \* the connection: open, broken by the other end, closed here

frameVars == <<stream, snd, rcv, delivered, up>>

\* Cell number at of a part of frame number frame, whose data has size cells.
Cell(frame, part, at, size) == [frame |-> frame, part |-> part, at |-> at, size |-> size]
IdleSender(frame) == [part |-> "idle", frame |-> frame, size |-> 0, done |-> 0, rounds |-> 0]
IdleReceiver ==
    [part |-> "idle", got |-> <<>>, rounds |-> 0, size |-> 0, info |-> <<>>]

\* What a receiver holds that took no frame for another: all of it one frame's.
Torn == 0
Joined(info, data) ==
    LET frames == {f \in 1 .. NumFrames : \E m \in DataLens :
                      /\ info = [k \in 1 .. InfoLen |-> Cell(f, "info", k, m)]
                      /\ data = [k \in 1 .. m |-> Cell(f, "data", k, m)]}
    IN  IF frames = {} THEN Torn ELSE CHOOSE f \in frames : TRUE

FramesInit ==
    /\ stream = <<>>
    /\ snd = IdleSender(1) /\ rcv = IdleReceiver
    /\ delivered = <<>>
    /\ up = "open"

\* Parts follow each other: header, information, data.
PartAfter == [header |-> "info", info |-> "data", data |-> "idle"]
PartLen(part, size) ==
    CASE part = "header" -> HeaderLen [] part = "info" -> InfoLen [] part = "data" -> size

\* Mutant: a call that moved less than asked for is taken to be done.
OutcomeOneCall(done, rounds, len) ==
    IF Rounds > 0 /\ rounds >= Rounds THEN "timeout" ELSE "all"

\* udt_send_all and udt_recv_all after one more call: the time limit is looked
\* at first, even if nothing is left to do.
Outcome(done, rounds, len) ==
    IF Rounds > 0 /\ rounds >= Rounds THEN "timeout"
    ELSE IF done = len THEN "all" ELSE "more"
-----------------------------------------------------------------------------
(* AvFrameDataSend *)

StartSend ==
    /\ snd.part = "idle" /\ snd.frame <= NumFrames
    /\ \E m \in DataLens : snd' = [snd EXCEPT !.part = "header", !.size = m]
    /\ UNCHANGED <<stream, rcv, delivered, up>>

SendLen == PartLen(snd.part, snd.size)

\* The next part, or the frame has been handed over.
SendGoesOn(done, rounds) ==
    LET result == Outcome(done, rounds, SendLen) IN
    snd' = CASE result = "more" -> [snd EXCEPT !.done = done, !.rounds = rounds]
             [] result = "all" /\ snd.part # "data" ->
                    [snd EXCEPT !.part = PartAfter[@], !.done = 0, !.rounds = 0]
             [] OTHER -> IdleSender(snd.frame + 1)

\* UDT::send takes as much as there is room for.
SendSome ==
    /\ snd.part # "idle" /\ up = "open"
    /\ \E n \in 0 .. SendLen - snd.done :
          /\ n > 0 \/ SendLen = 0
          /\ Len(stream) + n <= Capacity
          /\ stream' = stream \o
                 [k \in 1 .. n |-> Cell(snd.frame, snd.part, snd.done + k, snd.size)]
          /\ SendGoesOn(snd.done + n, snd.rounds + 1)
    /\ UNCHANGED <<rcv, delivered, up>>

\* UDT::send fails: the call fails, unless there was nothing to send.
SendFails ==
    /\ snd.part # "idle" /\ up # "open"
    /\ snd' = IF snd.part # "data" /\ SendLen = 0
                THEN [snd EXCEPT !.part = PartAfter[@]] ELSE IdleSender(snd.frame + 1)
    /\ UNCHANGED <<stream, rcv, delivered, up>>
-----------------------------------------------------------------------------
(* AvFrameDataRecv *)

StartRecv ==
    /\ rcv.part = "idle"
    /\ rcv' = [IdleReceiver EXCEPT !.part = "header"]
    /\ UNCHANGED <<stream, snd, delivered, up>>

Header(frame, size) == [k \in 1 .. HeaderLen |-> Cell(frame, "header", k, size)]

\* avHeaderRecv: the sizes the cells are taken to hold.  Without the mark there
\* are none; a mark elsewhere is found too, and any digits follow it.
Sizes(cells) ==
    LET whole == {m \in DataLens : \E f \in 1 .. NumFrames : cells = Header(f, m)} IN
    IF whole # {} THEN whole
    ELSE IF \E k \in 1 .. Len(cells) : cells[k].part = "header" /\ cells[k].at = 1
           THEN 0 .. MaxDataLen ELSE {}

\* A part is complete: check the header, keep the information, or return a frame.
EndPart(cells) ==
    CASE rcv.part = "header" ->
            /\ rcv' \in IF Sizes(cells) = {} THEN {IdleReceiver} ELSE
                   {IF m > MaxDataLen THEN IdleReceiver
                    ELSE [IdleReceiver EXCEPT !.part = "info", !.size = m] : m \in Sizes(cells)}
            /\ UNCHANGED delivered
      [] rcv.part = "info" ->
            /\ rcv' = [IdleReceiver EXCEPT !.part = "data", !.size = rcv.size,
                                           !.info = cells]
            /\ UNCHANGED delivered
      [] rcv.part = "data" ->
            /\ delivered' = Append(delivered, Joined(rcv.info, cells))
            /\ rcv' = IdleReceiver

RecvLen == PartLen(rcv.part, rcv.size)

RecvGoesOn(cells, rounds) ==
    LET result == Outcome(Len(cells), rounds, RecvLen) IN
    CASE result = "more" ->
            /\ rcv' = [rcv EXCEPT !.got = cells, !.rounds = rounds]
            /\ UNCHANGED delivered
      [] result = "all" -> EndPart(cells)
      [] result = "timeout" -> rcv' = IdleReceiver /\ UNCHANGED delivered

\* UDT::recv takes what has arrived; of a broken connection, what is left.
RecvSome ==
    /\ rcv.part # "idle" /\ up # "closed"
    /\ \E n \in 0 .. RecvLen - Len(rcv.got) :
          /\ n > 0 \/ (RecvLen = 0 /\ (up = "open" \/ stream # <<>>))
          /\ n <= Len(stream)
          /\ stream' = SubSeq(stream, n + 1, Len(stream))
          /\ RecvGoesOn(rcv.got \o SubSeq(stream, 1, n), rcv.rounds + 1)
    /\ UNCHANGED <<snd, up>>

\* Mutant: what has been read of the data is returned.
RecvFailsShort ==
    /\ rcv.part # "idle"
    /\ up = "closed" \/ (up = "broken" /\ stream = <<>>)
    /\ IF rcv.part = "data"
         THEN EndPart(rcv.got) ELSE rcv' = IdleReceiver /\ UNCHANGED delivered
    /\ UNCHANGED <<stream, snd, up>>

\* UDT::recv fails: the call fails, unless there was nothing to receive.
RecvFails ==
    /\ rcv.part # "idle"
    /\ up = "closed" \/ (up = "broken" /\ stream = <<>>)
    /\ IF RecvLen = 0 /\ up # "closed"
         THEN EndPart(<<>>) ELSE rcv' = IdleReceiver /\ UNCHANGED delivered
    /\ UNCHANGED <<stream, snd, up>>
-----------------------------------------------------------------------------
\* The connection breaks, or the other end closes it; cells may be lost with it.
Break ==
    /\ up = "open" /\ up' = "broken"
    /\ \E n \in 0 .. Len(stream) : stream' = SubSeq(stream, 1, n)
    /\ UNCHANGED <<snd, rcv, delivered>>

\* ZLink_Session_Close at the receiver: what is left cannot be read any more.
CloseSession ==
    /\ up # "closed" /\ up' = "closed"
    /\ UNCHANGED <<stream, snd, rcv, delivered>>

AvFrameDataSend == StartSend \/ SendSome \/ SendFails
AvFrameDataRecv == StartRecv \/ RecvSome \/ RecvFails

FramesNext == AvFrameDataSend \/ AvFrameDataRecv \/ Break \/ CloseSession

\* A thread sends frames and another one receives them as long as they come.
FramesFairness == WF_frameVars(SendSome \/ SendFails) /\ WF_frameVars(AvFrameDataRecv)

FramesSpec == FramesInit /\ [][FramesNext]_frameVars
FairFramesSpec == FramesSpec /\ FramesFairness
-----------------------------------------------------------------------------
\* As long as the channel is open, a call of AvFrameDataRecv begins with the
\* header of the frame after those already received (zlink_inner.cpp:109).
InStep ==
    /\ \A i \in 1 .. Len(delivered) : delivered[i] = i
    /\ up = "open" /\ rcv.part = "idle" /\ stream # <<>> =>
          \E m \in DataLens : Head(stream) = Cell(Len(delivered) + 1, "header", 1, m)

Frames ==
    INSTANCE ReliableStream
        WITH sent <- IF snd.part = "idle" THEN snd.frame - 1 ELSE snd.frame,
             delivered <- delivered, stopped <- up # "open"

\* Frame by frame, the channel is a reliable stream too: the frames come whole,
\* once and in order, whatever a call of UDT::send or UDT::recv takes at a time
\* (zlink_inner.cpp:20, 54).
FrameStream == Frames!Spec

\* As long as the connection lasts, every frame that AvFrameDataSend has begun
\* arrives, be it larger than all the buffers.
FramesArrive == Frames!Progress
=============================================================================
