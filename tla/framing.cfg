SPECIFICATION FairSpec
CONSTANTS
    Header = 2
    Body = 1
    Window = 3
    Claims = {0, 2}
    Patience = 1
    MaxCommands = 1
INVARIANT TypeOK
INVARIANT OnlyCutsGarble
PROPERTY WritesEnd
PROPERTY LostPlaceIsNoticed
CHECK_DEADLOCK FALSE
