\* No call of TCPServer::disconnect: no password, no veto, never full, no kick.
SPECIFICATION FairSpec
CONSTANTS
    t1 = t1
    t2 = t2
    NoThread = NoThread
    IoThreads = {t1, t2}
    Admins = {}
    MaxSessions = 2
    PidMax = 3
    MaxPlayers = 3
    MaxInserts = 1
    Requests = {"login", "ready"}
    VetoPossible = FALSE
    LuaKicks = FALSE
    Relock = "hang"
CHECK_DEADLOCK FALSE
PROPERTIES
    HandlersReturn
    DisconnectCleansUp
