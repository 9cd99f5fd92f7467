\* Options are set while no other call is in progress.  No epoll watches.
SPECIFICATION FairSpec
CONSTANTS
    Readers = {reader}
    Writers = {writer}
    Closers = {closer}
    Setters = {setter}
    Worker = worker
    NoThread = nobody
    MaxRcvData = 1
    SndBufSize = 1
    Timed = {reader, writer}
    Watched = FALSE
    OptionsDuringCalls = FALSE
INVARIANTS
    NoLostRecvWakeup
    NoLostSendWakeup
    NobodyWaitsOnClosed
PROPERTY
    CallsEnd
\* All calls may have returned on a closed socket.
CHECK_DEADLOCK FALSE
