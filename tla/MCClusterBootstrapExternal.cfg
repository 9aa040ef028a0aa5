SPECIFICATION Spec
CONSTANTS
    s1 = s1
    s2 = s2
    s3 = s3
    None = None
    Servers = {s1, s2, s3}
    JoinURL <- NoJoin
    Modes = {FALSE}
    Tears = TRUE
    MaxCrashes = 2
SYMMETRY Symmetric
INVARIANT Agreement
INVARIANT StampSound
INVARIANT LeafTrusted
CHECK_DEADLOCK FALSE
