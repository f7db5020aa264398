SPECIFICATION FairSpec
CONSTANTS
    d1 = d1
    d2 = d2
    a1 = a1
    a2 = a2
    Devices = {d1, d2}
    Remotes = {a1}
    MaxSessions = 1
    MaxTokens = 2
    Unpairable = {d1}
    TTL = 1
    Grace = 1
    SaveMayFail = FALSE
INVARIANT TypeOK
INVARIANT SingleUse
INVARIANT DiskFollowsState
PROPERTY PolicySpec
PROPERTY ServiceSpec
PROPERTY ClosedIsHandled
