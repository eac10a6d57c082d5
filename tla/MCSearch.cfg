SPECIFICATION SearchFairSpec
CONSTANTS
    Calls = {c1, c2}
    NoCall = NoCall
    MaxIds = 3
    Cells = {k1, k2}
    Bare = {2}
    NoPicture = NoPicture
CHECK_DEADLOCK FALSE
INVARIANTS
    TypeOK
    AllAtOnce
    ResultsOfLast
    SpinnerGoesAway
    CellShowsItsItem
PROPERTIES
    SearchEnds
