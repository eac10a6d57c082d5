SPECIFICATION Spec
CONSTANTS
    Devices = {d1, d2}
    Users = {u1, u2}
    NoUser = NoUser
    Keys = {1, 2}
    Fields <- MCFields
    NoDoc = NoDoc
    None = None
    Taps = {t1, t2}
SYMMETRY Symmetry
INVARIANTS
    TypeOK
    NoLineTwice
    StrayOnlyFirst
    SecondBasketOnlyByOverlap
    ToldAfterArrival
PROPERTIES
    LostOnlyByOverlap
