\* A server that uses every kind of packet, split or whole, and may close.
SPECIFICATION FairSpec
CONSTANTS
    Codes = {"MAP", "AUTH_PLAYER", "AUTH_KICK", "CHAT", "WAIT", "PING"}
    MaxWire = 2
CHECK_DEADLOCK FALSE
INVARIANTS
    TypeOK
    DisconnectReasons
    MapKnownWhenConnected
PROPERTIES
    DeliversInOrder
    DisconnectCompletes
    LossReported
