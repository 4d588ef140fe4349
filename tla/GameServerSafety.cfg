\* Two io threads and the console, two connections, every kind of request.
SPECIFICATION Spec
CONSTANTS
    t1 = t1
    t2 = t2
    con = con
    NoThread = NoThread
    IoThreads = {t1, t2}
    Admins = {con}
    MaxSessions = 2
    PidMax = 3
    MaxPlayers = 1
    MaxInserts = 1
    Requests = {"bad_json", "no_name", "wrong_password", "bridge_mismatch", "bridge", "login", "ready", "chat", "claim"}
    VetoPossible = TRUE
    LuaKicks = TRUE
    Relock = "reenter"
SYMMETRY Symmetry
CHECK_DEADLOCK FALSE
INVARIANTS
    TypeOK
    SerialHandlers
    MappedPlayerExists
    LiveSessionReachable
    NoGhostPlayer
    LeaveOncePerLogin
