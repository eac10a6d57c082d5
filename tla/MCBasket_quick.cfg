SPECIFICATION TwoQuickTaps
CONSTANTS
    Devices = {d1}
    Users = {u1}
    NoUser = NoUser
    Keys = {1, 2, 3}
    Fields <- MCFields
    NoDoc = NoDoc
    None = None
    Taps = {t1, t2, t3}
INVARIANTS
    AddedIsInBasket
