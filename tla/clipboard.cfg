SPECIFICATION Spec
CONSTANTS
    p1 = p1
    p2 = p2
    t1 = t1
    t2 = t2
    None = None
    Odd = Odd
    Phones = {p1, p2}
    Texts = {t1, t2}
    MaxCopies = 3
    MaxSends = 2
INVARIANT TypeOK
INVARIANT NoEchoUnlessCrossed
INVARIANT PhonesAgree
INVARIANT SelectionIsShared
SYMMETRY PhonesAndTexts
