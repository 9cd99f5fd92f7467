\* A client and a listener, two rendezvous sockets, one of each; the program may
\* stop, and the bounds stop it.
CONSTANTS
    a = a
    b = b
    End = {a, b}
    Pairs <- AllPairs
    Bound <- Bounds
    Backlog = 1
    MaxStored = 1
    NoHs = NoHs
    Data = Data
SPECIFICATION FairSpec
CHECK_DEADLOCK FALSE
INVARIANTS
    Agreement
    NoDanglingConnector
PROPERTIES
    HandshakeCompletes
