SPECIFICATION FairSpec
CONSTANTS
    Configs <- SomeConfigs
    Channels <- OneChannel
    RingCapacity = 2
    UplinkCapacity = 1
    MaxCalls = 2
    MaxSessions = 2
INVARIANT DataInOrder
INVARIANT AudioOfCall
\* A phone need not call, a car need not come back.
CHECK_DEADLOCK FALSE
PROPERTY MediaStops
PROPERTY MicFollows
PROPERTY AudioFlows
