---------------------------- MODULE MCMsgTransfer ----------------------------
(***************************************************************************)
(* Streams of a few messages for module MsgTransfer.                       *)
(***************************************************************************)
EXTENDS MsgTransfer

Packet(msg, first, last) == [msg |-> msg, first |-> first, last |-> last]

Solo(msg) == <<Packet(msg, TRUE, TRUE)>>
Pair(msg) == <<Packet(msg, TRUE, FALSE), Packet(msg, FALSE, TRUE)>>

\* Messages of one and of two packets.
MixedStream == Solo(1) \o Pair(2) \o Solo(3)

\* A message with a time to live, in front of one without.
MortalFirst == Solo(1) \o Pair(2)
=============================================================================
