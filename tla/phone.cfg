SPECIFICATION FairSpec
CONSTANTS
    h1 = h1
    h2 = h2
    Hosts = {h1}
    MaxPairs = 2
    MaxConns = 3
    MaxAttempt = 2
    MaxEvents = 3
INVARIANT TypeOK
INVARIANT TokenOnce
INVARIANT OneAtATime
INVARIANT SlotIsLive
INVARIANT StatusIsTrue
PROPERTY KeepsDialing
