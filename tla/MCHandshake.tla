------------------------------ MODULE MCHandshake ------------------------------
EXTENDS Handshake, TLC

CONSTANTS a, b

\* A client and a listener, two rendezvous sockets, or one side of each.
AllPairs == {[e \in End |-> IF e = a THEN k[1] ELSE k[2]] :
                k \in {<<"client", "listener">>, <<"rendezvous", "rendezvous">>,
                       <<"client", "rendezvous">>}}
\* A client and a listener only.
ClientListener == {[e \in End |-> IF e = a THEN "client" ELSE "listener"]}

\* Two attempts of a client, or one and two minutes; one of a rendezvous socket.
Bounds == [k \in Kinds |-> IF k = "client" THEN 3 ELSE 2]
=============================================================================
