SPECIFICATION FairSpec
CONSTANTS
    s1 = s1
    s2 = s2
    s3 = s3
    u1 = u1
    u2 = u2
    d1 = d1
    d2 = d2
    Servers = {s1, s2}
    Empty = Empty
    Torn = Torn
    URLs <- OneURL
    parseURL <- OneHost
    Dialers = {d1, d2}
    Healthy = {s2}
    EarlierLists = {{s1, s2}}
    MaxUpdates = 0
    MaxCrashes = 0
PROPERTIES
    DialReturns
    HealthyServerReached
