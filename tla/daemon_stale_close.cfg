SPECIFICATION Spec
CONSTANTS
    d1 = d1
    d2 = d2
    a1 = a1
    a2 = a2
    Devices = {d1}
    Remotes = {a1}
    MaxSessions = 2
    MaxTokens = 0
    Unpairable = {d1}
    TTL = 1
    Grace = 0
    SaveMayFail = FALSE
INVARIANT ConnectedHaveHandles
