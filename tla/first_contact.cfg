SPECIFICATION Spec
CONSTANTS
    Procs = {1, 2}
    MaxIds = 2
    Ips = {1}
    Ephemeral = {3, 4}
INVARIANT TypeOK
INVARIANT IdentityIsStable
INVARIANT StillReachable
INVARIANT DecodeIsRight
