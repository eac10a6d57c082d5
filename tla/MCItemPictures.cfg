SPECIFICATION LookSpec
CONSTANTS
    p1 = p1
    p2 = p2
    p3 = p3
    Offers <- MCOffers
    MaxPresses = 2
    MaxVisits = 2
    MaxResolving = 1
INVARIANTS
    TypeOK
    LinksWhole
    OneItemPerVisit
    PressAccounted
    ShownAsChosen
