SPECIFICATION ClientsFairSpec
CONSTANTS
    Devices = {d1, d2}
    MaxTokens = 2
    TTL = 1
    Tuis = {u1, u2}
    Clis = {c1}
    MaxInbox = 1
INVARIANT ClientsTypeOK
INVARIANT PromptIsCurrent
PROPERTY FirstAnswerCounts
PROPERTY RefreshIsHarmless
PROPERTY DeadCodeGoes
