---------------------------- MODULE VehicleRelay ----------------------------
(***************************************************************************)
(* The way of a vehicle's state through the server: the UDP receive loop   *)
(* (UDPServer, onUDPPacket), the table of VehicleSync and the thread that  *)
(* broadcasts it.  An endpoint is the client that sends from it.  The      *)
(* network delivers every datagram; UDP may do worse.                      *)
(***************************************************************************)
EXTENDS Naturals, FiniteSets

CONSTANTS Clients, Vids

VARIABLES
    online,         \* players that are logged in
    m_player_to_ep, \* players with a known endpoint; m_ep_to_player is its inverse
    m_authority,    \* the players that may speak for AI traffic
    m_entries,      \* VehicleSync: <<owner, vehicle_id>> of the known states
    dirty,          \* those that changed since they were last broadcast
    toServer,       \* datagrams the server has not received
    toClient,       \* datagrams the clients have not received
    sent,           \* history: clients that sent an update of their own vehicle
    shown,          \* history: <<c, p>> when c was given an update of p
    pongs           \* history: clients whose ping was answered

vars == <<online, m_player_to_ep, m_authority, m_entries, dirty, toServer,
          toClient, sent, shown, pongs>>

Datagrams == [type : {"PING"}, from : Clients]
               \cup [type : {"VEHICLE_UPDATE"}, from : Clients, vid : Vids, ai : BOOLEAN]

\* The server fills m_player_to_ep in mapPlayer, which nothing calls.
Init ==
    /\ online = Clients /\ m_player_to_ep = {} /\ m_authority \in SUBSET Clients
    /\ m_entries = {} /\ dirty = {}
    /\ toServer = {} /\ toClient = {}
    /\ sent = {} /\ shown = {} /\ pongs = {}

\* A client pings or sends the state of its vehicle, or of AI traffic when it
\* is the authority.
ClientSends(c) ==
    /\ c \in online
    /\ \E d \in Datagrams :
         /\ d.from = c
         /\ d.type = "VEHICLE_UPDATE" /\ d.ai => c \in m_authority
         /\ toServer' = toServer \cup {d}
         /\ sent' = IF d.type = "VEHICLE_UPDATE" /\ ~d.ai THEN sent \cup {c} ELSE sent
    /\ UNCHANGED <<online, m_player_to_ep, m_authority, m_entries, dirty, toClient,
                   shown, pongs>>

\* UDPServer::sendAll
ToAll(owner) == {[type |-> "VEHICLE_UPDATE", to |-> c, owner |-> owner] :
                   c \in m_player_to_ep \ {owner}}

\* handleVehicleUpdate and findOrCreate
OnVehicleUpdate(d) ==
    /\ m_entries' = m_entries \cup {<<d.from, d.vid>>}
    /\ dirty' = dirty \cup {<<d.from, d.vid>>}

\* One datagram is received at a time: startRecv is called again after it.
OnUDPPacket(d) ==
    /\ toServer' = toServer \ {d}
    /\ IF d.type = "PING"
       THEN /\ toClient' = toClient \cup {[type |-> "PONG", to |-> d.from]}
            /\ UNCHANGED <<m_entries, dirty>>
       ELSE IF d.from \notin m_player_to_ep
       THEN UNCHANGED <<toClient, m_entries, dirty>>
       ELSE IF d.from \in m_authority /\ d.ai
       THEN toClient' = toClient \cup ToAll(d.from) /\ UNCHANGED <<m_entries, dirty>>
       ELSE OnVehicleUpdate(d) /\ UNCHANGED toClient
    /\ UNCHANGED <<online, m_player_to_ep, m_authority, sent, shown, pongs>>

\* One round of vehicleSyncLoop.
BroadcastAll ==
    /\ toClient' = toClient \cup UNION {ToAll(e[1]) : e \in dirty}
    /\ dirty' = {}
    /\ UNCHANGED <<online, m_player_to_ep, m_authority, m_entries, toServer, sent,
                   shown, pongs>>

\* onDisconnect: VehicleSync::onPlayerDisconnect and UDPServer::unmapPlayer
Disconnect(c) ==
    /\ c \in online
    /\ online' = online \ {c}
    /\ m_player_to_ep' = m_player_to_ep \ {c}
    /\ m_entries' = {e \in m_entries : e[1] # c} /\ dirty' = {e \in dirty : e[1] # c}
    /\ UNCHANGED <<m_authority, toServer, toClient, sent, shown, pongs>>

\* VehicleSync::onVehicleDelete
VehicleDelete(c, vid) ==
    /\ c \in online
    /\ m_entries' = m_entries \ {<<c, vid>>} /\ dirty' = dirty \ {<<c, vid>>}
    /\ UNCHANGED <<online, m_player_to_ep, m_authority, toServer, toClient, sent,
                   shown, pongs>>

ClientReceives(d) ==
    /\ toClient' = toClient \ {d}
    /\ IF d.type = "PONG" THEN pongs' = pongs \cup {d.to} /\ UNCHANGED shown
                          ELSE shown' = shown \cup {<<d.to, d.owner>>} /\ UNCHANGED pongs
    /\ UNCHANGED <<online, m_player_to_ep, m_authority, m_entries, dirty, toServer, sent>>

Next ==
    \/ \E c \in Clients :
         ClientSends(c) \/ Disconnect(c) \/ \E vid \in Vids : VehicleDelete(c, vid)
    \/ \E d \in toServer : OnUDPPacket(d)
    \/ BroadcastAll
    \/ \E d \in toClient : ClientReceives(d)

\* Every datagram is handled, the broadcast thread keeps going, and clients
\* send at 30 Hz.
Fairness ==
    /\ \A c \in Clients : WF_vars(ClientSends(c))
    /\ \A d \in Datagrams : WF_vars(d \in toServer /\ OnUDPPacket(d))
    /\ WF_vars(BroadcastAll)
    /\ WF_vars(\E d \in toClient : ClientReceives(d))

FairSpec == Init /\ [][Next]_vars /\ Fairness

\* What the header of VehicleSync promises: the state a player sends is given
\* to every other player, while both stay.
UpdatesReachOthers ==
    \A c, d \in Clients :
      c # d => (c \in sent ~> <<d, c>> \in shown \/ {c, d} \cap online # {c, d})

=============================================================================
