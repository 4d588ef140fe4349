\* The Linux build: std::mutex waits for itself.
SPECIFICATION FairSpec
CONSTANTS
    t1 = t1
    t2 = t2
    con = con
    NoThread = NoThread
    IoThreads = {t1, t2}
    Admins = {con}
    MaxSessions = 1
    PidMax = 3
    MaxPlayers = 3
    MaxInserts = 1
    Requests = {"login"}
    VetoPossible = FALSE
    LuaKicks = FALSE
    Relock = "hang"
CHECK_DEADLOCK FALSE
PROPERTY
    KickDisconnects
