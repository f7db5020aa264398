SPECIFICATION FairSpec
CONSTANTS
    d1 = d1
    d2 = d2
    None = None
    Devices = {d1, d2}
    Namings <- MCNamings
    MaxTyped = 1
INVARIANT TypeOK
PROPERTY UnpairsTheRow
PROPERTY NoGuess
PROPERTY RowsConverge
