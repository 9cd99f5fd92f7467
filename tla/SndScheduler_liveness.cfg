\* Two sockets, one of which may try to keep the other one from its turn.
CONSTANTS
    Sock = {s1, s2}
    NoSock = NoSock
    MaxInterval = 1
    MaxThreads = 1
    MaxCalls = 2
SPECIFICATION FairSpec
PROPERTIES
    EverybodyServed
