\* Two clients that come, spawn, delete and go in any order.  Five requests are
\* what it takes to give two vehicles of a player the same id and delete it.
SPECIFICATION Spec
CONSTANTS
    c1 = c1
    c2 = c2
    Clients = {c1, c2}
    VehicleLimit = 2
    VidRange = 2
    MaxRequests = 5
SYMMETRY Symmetry
CHECK_DEADLOCK FALSE
INVARIANTS
    TypeOK
    
    
    
