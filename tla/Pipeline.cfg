SPECIFICATION PipelineFairSpec
CONSTANTS
    QueueCapacity = 1
    Modes <- BothModes
    MaxPackets = 5
    MaxInjected = 1
PROPERTY Carries
PROPERTY PacketsMove
PROPERTY BlockEnds
\* The ends may have nothing more to say, and a session ends.
CHECK_DEADLOCK FALSE
