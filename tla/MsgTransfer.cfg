SPECIFICATION Spec
CONSTANTS
    Stream <- MixedStream
    Unordered = {2}
    Mortal = {3}
    RcvBufSize = 5
    MaxNak = 4
INVARIANTS
    WholeMessages
    AtMostOnce
    OrderedInOrder
    FullBufferReadable
CHECK_DEADLOCK FALSE
