\* Three vehicles, two slots for AI traffic, two players with one vehicle id.
SPECIFICATION FairSpec
CONSTANTS
    g1 = g1
    g2 = g2
    g3 = g3
    p1 = p1
    p2 = p2
    None = None
    GameIds = {g1, g2, g3}
    WideIds = {g3}
    Players = {p1, p2}
    Vids = {0}
    Svids = {200, 201}
CHECK_DEADLOCK FALSE
INVARIANTS
    TypeOK
    SvidsDistinct
    CopiesRemembered
PROPERTIES
    SvidStable
    
