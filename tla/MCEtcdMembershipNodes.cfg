SPECIFICATION FairSpec
CONSTANTS
    s1 = s1
    s2 = s2
    s3 = s3
    None = None
    Servers = {s1, s2}
    First = s1
    InSync = 1
    MaxStall = 1
    MaxIDs = 5
    MaxNames = 2
    MaxCrashes = 1
    MaxDeletes = 2
    MaxElections = 0
INVARIANT VotersHaveData
PROPERTY LeavesOnRequest
PROPERTY JoinCompletes
CHECK_DEADLOCK FALSE
