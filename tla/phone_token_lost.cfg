SPECIFICATION Spec
CONSTANTS
    h1 = h1
    h2 = h2
    Hosts = {h1}
    MaxPairs = 1
    MaxConns = 2
    MaxAttempt = 2
    MaxEvents = 3
INVARIANT TokenUntilConnected
