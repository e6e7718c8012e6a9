SPECIFICATION FairSpec
CONSTANTS
    c1 = c1
    c2 = c2
    Clients = {c1, c2}
    Configs <- BothDisplays
    QueueCapacity = 2
    AsksStreaming = FALSE
    MaxConnects = 2
    MaxFrames = 2
    MaxAsks = 1
    MaxOther = 1
INVARIANT AcksAreOwed
PROPERTY DataAcked
PROPERTY KeyFrameForClient
PROPERTY StreamReleased
\* Clients need not come.
CHECK_DEADLOCK FALSE
