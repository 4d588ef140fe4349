\* Two launchers, two users, one token cache and one connect file; and a server that
\* sends every kind of frame.
SPECIFICATION Spec
CONSTANTS
    l1 = l1
    l2 = l2
    u1 = u1
    u2 = u2
    n1 = n1
    b1 = b1
    Nobody = Nobody
    Launchers = {l1, l2}
    Users = {u1, u2}
    NovaServers = {n1}
    BeamServers = {b1}
    TTL = 1
    MaxTime = 2
    Packets = {"auth_ok", "auth_no", "info"}
    NoPacket = "none"
    BadFrame = "bad"
    MaxWire = 2
CHECK_DEADLOCK FALSE
INVARIANTS
    TypeOK
    KeyBelongsToUser
    
    GameJoinsSelected
    LossReportedOnce
PROPERTIES
    ClientDeliversInOrder
    DisconnectReturns
    ClientLossReported
