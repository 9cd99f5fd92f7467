\* Numbers wrap several times around the small sequence number space.
SPECIFICATION Spec
CONSTANTS
    MaxSeqNo = 27
    SeqNoTH = 14
    SndListSize = 4
    FlowWindowSize = 2
    SndBufSize = 2
    PeerBufSize = 6
    RcvListSize = 6
    RcvSpan = 5
    WrappedDrops = FALSE
INVARIANTS
    SndListExact
    RcvListExact
    
