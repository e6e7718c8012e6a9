SPECIFICATION Spec
CONSTANTS
    c1 = c1
    c2 = c2
    Clients = {c1, c2}
    Kinds = {"sensor", "input", "key", "disconnect"}
    Configs <- SomeConfigs
    Free = Free
    Io = Io
    Exiter = Exiter
    QueueCapacity = 1
    LoggerCapacity = 2
    MaxSessions = 2
    MaxRequests = 2
    MaxFaults = 1
INVARIANT TypeOK
INVARIANT OwnChannel
INVARIANT LoggerEndsWithSession
PROPERTY ExitAfterTeardown
SYMMETRY Symmetry
\* The program ends by a signal, and two handlers may lock each other out.
CHECK_DEADLOCK FALSE
