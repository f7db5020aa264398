SPECIFICATION FairSpec
CONSTANTS
    K = 2
    Delay = 2
    MaxClips = 1
    Horizon = 10
INVARIANT TypeOK
INVARIANT NothingIgnored
INVARIANT DeadPeerNoticed
PROPERTY NoFalseTimeout
PROPERTY HandshakeCompletes
