SPECIFICATION FairSpec
CONSTANTS
    c1 = c1
    Clients = {c1}
    Kinds = {"video", "audio"}
    Capacity = 2
    MaxParts = 2
    MaxStreams = 2
    MaxPictures = 4
PROPERTY InOrder
PROPERTY Whole
PROPERTY ShowsKeys
\* The phone may have nothing more to send.
CHECK_DEADLOCK FALSE
