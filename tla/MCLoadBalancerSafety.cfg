SPECIFICATION Spec
SYMMETRY Symmetric

CONSTANTS
    s1 = s1
    s2 = s2
    s3 = s3
    u1 = u1
    u2 = u2
    d1 = d1
    d2 = d2
    Servers = {s1, s2}
    Empty = Empty
    Torn = Torn
    URLs <- TwoURLs
    parseURL <- TwoHosts
    Dialers = {d1, d2}
    Healthy = {}
    EarlierLists = {}
    MaxUpdates = 1
    MaxCrashes = 1
INVARIANTS
    ListConsistent
    ConfigFollowsServers
PROPERTY
    AllServersFailed
