SPECIFICATION AnySpec
CONSTANTS
    Devices = {phone}
    Users = {u1, u2}
    NoUser = NoUser
    Keys <- MCKeys
    Fields <- MCFields
    NoDoc = NoDoc
    None = None
    Items = {i1}
    Phone = phone
    Registered = {u1}
    MaxUnder = 1
    MaxSheets = 2
    MaxBreaks = 2
    MaxPending = 2
INVARIANTS
    TypeOK
    UnpaidOnlyFromDropped
PROPERTIES
    HistoryLostOnlyByOverlap
