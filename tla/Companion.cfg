SPECIFICATION FairSpec
CONSTANTS
    custom = custom
    browser = browser
    Topics = {custom}
    Sockets = {browser}
    Routes = {"inject"}
    SyncRoutes = {"get"}
    QueueCapacity = 1
    BusCapacity = 1
    Chunks = 2
    MaxSessions = 2
    MaxEvents = 2
    MaxCalls = 1
    MaxRewrites = 1
    MaxInputs = 5
INVARIANT OwnSession
INVARIANT QuietUnsubscribed
INVARIANT ResultsAreKnown
INVARIANT HeardOnce
PROPERTY HeardInTheEnd
CHECK_DEADLOCK FALSE
