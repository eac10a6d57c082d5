SPECIFICATION FairSpec
CONSTANTS
    Devices = {d1, d2}
    Users = {u1, u2}
    NoUser = NoUser
    Keys = {u1, u2}
    Fields <- MCFields
    NoDoc = NoDoc
    None = None
    Names = {Blank, name}
    Blank = Blank
    MaxTries = 3
    MaxSaves = 2
INVARIANTS
    RecordIsDocument
PROPERTIES
    BlankOnlyForNew
    LoginEndsWithRecord
