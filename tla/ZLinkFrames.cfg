\* Frames of six cells and of three through a channel of four, without a time
\* limit.
CONSTANTS
    NumFrames = 3
    HeaderLen = 2
    InfoLen = 1
    DataLens = {0, 3}
    MaxDataLen = 3
    Capacity = 4
    Rounds = 0
SPECIFICATION FairFramesSpec
INVARIANTS
    InStep
PROPERTIES
    FrameStream
    FramesArrive
