SPECIFICATION FairSpec
CONSTANTS
    c1 = c1
    c2 = c2
    Clients = {c1, c2}
    Kinds = {"sensor"}
    Configs <- EvConfigs
    Free = Free
    Io = Io
    Exiter = Exiter
    QueueCapacity = 2
    LoggerCapacity = 2
    MaxSessions = 1
    MaxRequests = 1
    MaxFaults = 1
PROPERTY TeardownEnds
CHECK_DEADLOCK FALSE
