--------------------------- MODULE ReliableStream ---------------------------
(***************************************************************************)
(* What a connected pair of stream-mode UDT sockets promises to its two    *)
(* applications: UDT::send appends to a stream (here: of packets, numbered *)
(* in the order they were handed over), UDT::recv takes the next ones from *)
(* the front, each exactly once and in order.  Either end may stop for     *)
(* good (broken or closed); what has been sent before may then stay        *)
(* undelivered.                                                            *)
(***************************************************************************)
EXTENDS Naturals, Sequences

VARIABLES
    sent,        \* number of packets the sending application handed over
    delivered,   \* the packets the receiving application has read
    stopped      \* one of the two ends gave the connection up

streamVars == <<sent, delivered, stopped>>

Init == /\ sent = 0
        /\ delivered = << >>
        /\ stopped = FALSE

\* send(): any amount of data is appended to the stream.
Send == /\ sent' \in Nat
        /\ sent' > sent
        /\ UNCHANGED <<delivered, stopped>>

\* recv(): the application gets packets that follow those it already has.
Recv == \E n \in (Len(delivered) + 1) .. sent :
            /\ delivered' = [i \in 1 .. n |-> i]
            /\ UNCHANGED <<sent, stopped>>

\* close(), a shutdown from the peer, or a connection that has expired.
Stop == /\ ~stopped
        /\ stopped' = TRUE
        /\ UNCHANGED <<sent, delivered>>

Next == Send \/ Recv \/ Stop

Spec == Init /\ [][Next]_streamVars

\* As long as neither end stops, what was sent gets delivered.
Progress == []<>(Len(delivered) = sent \/ stopped)

FairSpec == Spec /\ Progress
=============================================================================
