SPECIFICATION FairSpec
CONSTANTS
    Devices = {phone}
    Users = {u1, u2}
    NoUser = NoUser
    Keys <- MCKeys
    Fields <- MCFields
    NoDoc = NoDoc
    None = None
    Items = {i1, i2}
    Phone = phone
    Registered = {u1, u2}
    MaxUnder = 2
    MaxSheets = 2
INVARIANTS
    RowsAreBasket
    LinesAccounted
    NeverTraps
    OnlyOwnDocuments
    PaidFromOwnBasket
    RecordedAsPaid
PROPERTIES
    PaidIsRecorded
