SPECIFICATION FairSpec
CONSTANTS
    browser = browser
    phone = phone
    Browsers = {browser}
    Phones = {phone}
    Usable = {1}
    Unusable = {2}
    Edits = {"mitm", "alias"}
    MaxInputs = 3
    MaxCrashes = 1
INVARIANT TypeOK
INVARIANT FileAgrees
INVARIANT ServedOnce
PROPERTY EntryKeepsOthers
PROPERTY SessionsComeUp
CHECK_DEADLOCK FALSE
