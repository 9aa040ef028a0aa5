SPECIFICATION Spec
CONSTANTS
    s1 = s1
    s2 = s2
    s3 = s3
    None = None
    Servers = {s1, s2, s3}
    First = s1
    InSync = 1
    MaxStall = 1
    MaxIDs = 3
    MaxNames = 1
    MaxCrashes = 1
    MaxDeletes = 0
    MaxElections = 1
SYMMETRY Symmetric
PROPERTY EvictsLearners
CHECK_DEADLOCK FALSE
