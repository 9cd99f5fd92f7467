\* Two sockets of the application and connections of two requests, at most three
\* sockets in all; the program may stop, and the bounds stop it.
CONSTANTS
    MaxSockets = 3
    MaxCreated = 2
    Modes <- BothModes
    Peers = {p1, p2}
    Backlog = 1
    NoSock = NoSock
    NoPeer = NoPeer
    AllocFails = TRUE
    LateRequests = FALSE
SYMMETRY PeerSymmetry
SPECIFICATION Spec
CHECK_DEADLOCK FALSE
INVARIANTS
    NoDanglingSocket
    QueuedIsRegistered
    NoOrphan
    OneConnectionPerRequest
    MuxCountsSockets
    ReadableWhenQueued
    DeletionNotBlocked
    NoLostAcceptWakeup
PROPERTIES
    LingerHonoured
