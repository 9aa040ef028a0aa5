SPECIFICATION DiskSpec
CHECK_DEADLOCK FALSE
CONSTANTS
    Chosen <- MCChosen
    Configs <- MCConfigs
    MaxStarts = 4
    MaxFaults = 2
    Jobs = {j1, j2}
    Retentions = {1, 2}
    MaxTime = 5
    MaxRestarts = 2
    Procs = {p1, p2}
    Versions = {v1, v2}
    Entries = {k3s, links}
    None = None
    UnpackStarts = 3
    UnpackFaults = 1
INVARIANTS
    LeavesUsable
    HandedTokensWork
    DataKept
    ResetOnce
    RunsWhole
PROPERTIES
    Kept
    NewestKept
    FilesComeUp
    Extracts
