\* Two threads of the host, two clients, one of them with a wrong name.  The host
\* may wait for ever in UDT::accept, and a thread with its own lock.
CONSTANTS
    Thread = {t1, t2}
    NoThread = NoThread
    Client = {c1, c2}
    Unknown = {c2}
CHECK_DEADLOCK FALSE
SPECIFICATION FairSpec
INVARIANTS
    SocketsHeld
PROPERTIES
    LockReleased
