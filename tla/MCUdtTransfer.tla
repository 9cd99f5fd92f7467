---------------------------- MODULE MCUdtTransfer ----------------------------
(***************************************************************************)
(* Instances of UdtTransfer for TLC.  The sizes are the smallest at which  *)
(* the interesting cases happen: a send buffer and a flight window that    *)
(* fill up, a receive ring that fills up and closes the flow window, gaps  *)
(* of one and of two packets, and ACKs and NAKs that are overtaken.        *)
(***************************************************************************)
EXTENDS UdtTransfer

NoSides == {}

\* Every packet may be received again and again, late, or never.
DuplicatingNet == {"duplicate"}

\* A packet is received once, late, or lost when it is sent.
LosingNet == {"deliver", "lose"}
=============================================================================
