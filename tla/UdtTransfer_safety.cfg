\* Data transfer over a network that duplicates and reorders at will, until an
\* application closes its end or the sender gives a silent peer up.  Three
\* packets are more than the send buffer takes at once.
SPECIFICATION Spec
CONSTANTS
    MaxPkts = 3
    SndBufSize = 2
    RcvBufSize = 3
    FlightFlagSize = 2
    CongestionWindows = {1, 2}
    LiteAcks = TRUE
    Closers <- Sides
    Expirers = {"snd"}
    NetModes <- DuplicatingNet
INVARIANTS
    IInv
    InOrderDelivery
    AckedIsHeld
    NoFalseAttack
    SeqSpan
    GracefulClose
PROPERTY
    StreamSpec
\* Both ends stop in the end.
CHECK_DEADLOCK FALSE
