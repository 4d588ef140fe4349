\* Two players who send updates of one vehicle.
SPECIFICATION FairSpec
CONSTANTS
    a = a
    b = b
    Clients = {a, b}
    Vids = {0}
CHECK_DEADLOCK FALSE
PROPERTIES
    UpdatesReachOthers
