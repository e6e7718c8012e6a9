SPECIFICATION Spec
CONSTANTS
    t1 = t1
    t2 = t2
    Tasks = {t1, t2}
    WifiConfigured = TRUE
    Configs <- VariedConfigs
    MaxFaults = 1
    MaxRequests = 1
PROPERTY StopPreventsDialling
SYMMETRY Symmetry
\* A handshake that finds every task slot taken is cut off by the bound Tasks;
\* switching the transport, or unplugging, may leave both loops waiting.
CHECK_DEADLOCK FALSE
