SPECIFICATION FairSpec
CONSTANTS
    s1 = s1
    s2 = s2
    s3 = s3
    None = None
    Servers = {s1, s2, s3}
    JoinURL <- Chain
    Modes = {TRUE, FALSE}
    Tears = FALSE
    MaxCrashes = 1
INVARIANT Agreement
PROPERTY AllUp
CHECK_DEADLOCK FALSE
