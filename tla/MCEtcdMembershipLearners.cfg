SPECIFICATION Spec
CONSTANTS
    s1 = s1
    s2 = s2
    s3 = s3
    None = None
    Servers = {s1, s2, s3}
    First = s1
    InSync = 1
    MaxStall = 1
    MaxIDs = 4
    MaxNames = 2
    MaxCrashes = 1
    MaxDeletes = 0
    MaxElections = 0
SYMMETRY Symmetric
PROPERTY KeepsQuorum
PROPERTY GraceKept
CHECK_DEADLOCK FALSE
