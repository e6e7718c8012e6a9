SPECIFICATION FairSpec
CONSTANTS
    t1 = t1
    t2 = t2
    Tasks = {t1, t2}
    WifiConfigured = TRUE
    Configs <- WirelessConfigs
    MaxFaults = 1
    MaxRequests = 2
INVARIANT TypeOK
INVARIANT NoMutualWait
INVARIANT ProfileHasTask
PROPERTY Recovers
PROPERTY HandsOver
PROPERTY LastRequestServed
