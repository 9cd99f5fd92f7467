\* The network loses, delays and reorders, but not for ever; one unread packet
\* fills the receive buffer, so that the advertised window closes.
SPECIFICATION FairSpec
CONSTANTS
    MaxPkts = 2
    SndBufSize = 2
    RcvBufSize = 2
    FlightFlagSize = 2
    CongestionWindows = {2}
    LiteAcks = TRUE
    Closers <- NoSides
    Expirers <- NoSides
    NetModes <- LosingNet
PROPERTIES
    StreamFairSpec
    Drains
\* The application may have sent everything it wants to send.
CHECK_DEADLOCK FALSE
