SPECIFICATION Spec
CONSTANTS
    t1 = t1
    t2 = t2
    Tasks = {t1, t2}
    WifiConfigured = TRUE
    Configs <- StopConfigs
    MaxFaults = 1
    MaxRequests = 1
PROPERTY StopEndsItsOwnSession
