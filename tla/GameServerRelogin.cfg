\* A connection may log in twice, and the ids wrap.
SPECIFICATION Spec
CONSTANTS
    t1 = t1
    t2 = t2
    NoThread = NoThread
    IoThreads = {t1, t2}
    Admins = {}
    MaxSessions = 2
    PidMax = 3
    MaxPlayers = 2
    MaxInserts = 2
    Requests = {"bridge", "login"}
    VetoPossible = FALSE
    LuaKicks = FALSE
    Relock = "reenter"
SYMMETRY Symmetry
CHECK_DEADLOCK FALSE
INVARIANTS
    CapacityOvershootBounded
    UniqueIds
    LeaveOncePerLogin
