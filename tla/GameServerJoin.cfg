\* READY on one thread while a failed write closes the session on another.
SPECIFICATION Spec
CONSTANTS
    t1 = t1
    t2 = t2
    NoThread = NoThread
    IoThreads = {t1, t2}
    Admins = {}
    MaxSessions = 1
    PidMax = 3
    MaxPlayers = 3
    MaxInserts = 1
    Requests = {"login", "ready"}
    VetoPossible = FALSE
    LuaKicks = FALSE
    Relock = "hang"
CHECK_DEADLOCK FALSE
INVARIANT
    JoinOnlyInSession
