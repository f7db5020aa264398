SPECIFICATION Spec
CONSTANTS
    Header = 2
    Body = 1
    Window = 3
    Claims = {0, 2}
    Patience = 1
    MaxCommands = 1
INVARIANT OwnFramesFit
CHECK_DEADLOCK FALSE
