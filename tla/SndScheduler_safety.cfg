\* Three sockets: the first, the last, and one that moves between.  Two other
\* threads, and two calls that no packet makes necessary.
CONSTANTS
    Sock = {s1, s2, s3}
    NoSock = NoSock
    MaxInterval = 1
    MaxThreads = 2
    MaxCalls = 2
SPECIFICATION Spec
SYMMETRY Interchangeable
INVARIANTS
    HeapLocExact
    NobodyStranded
