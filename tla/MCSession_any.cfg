SPECIFICATION Spec
CONSTANTS
    Devices = {d1}
    Users = {u1, u2}
    NoUser = NoUser
    Keys = {u1, u2}
    Fields <- MCFields
    NoDoc = NoDoc
    None = None
    Names = {Blank, name}
    Blank = Blank
    MaxTries = 2
    MaxSaves = 2
SYMMETRY Symmetry
INVARIANTS
    TypeOK
    DocumentIsOwn
PROPERTIES
    OnBoardLostOnlyToBlank
