SPECIFICATION FairSpec
CONSTANTS
    Paths <- TwoPaths
    Proxies = {"proxy"}
    Handlers = {"web"}
    Values = {"chosen"}
    Loops = {"modify", "create", "destroy"}
    Asks = {"modify", "create", "destroy"}
    MaxEngines = 8
    MaxEdits = 1
    MaxCalls = 2
INVARIANT NoOrphan
INVARIANT RegistryFollowsFiles
PROPERTY CallsEnd
PROPERTY ReloadsEnd
\* Everything may have ended.
CHECK_DEADLOCK FALSE
