------------------------------ MODULE Vehicles ------------------------------
(***************************************************************************)
(* The vehicles of the players: the server's list per player, the packets  *)
(* that announce every change, and the copies that each client keeps.      *)
(*                                                                         *)
(* The server handles the packets of one session one after another, those  *)
(* of different sessions in parallel.  It changes the list of a player     *)
(* first and announces the change with TCPServer::sendAll in a later step. *)
(* A client applies the announcements in the order of its connection.      *)
(* Logging in is GameServer's subject; here a player is the client that    *)
(* logged in, and logs in once.                                            *)
(***************************************************************************)
EXTENDS Naturals, Sequences, FiniteSets, Functions

CONSTANTS
    Clients,
    VehicleLimit, \* vehicle_limit_per_player
    VidRange,     \* vehicle ids are uint8_t: 256 of them
    MaxRequests   \* BOUND on the requests the clients make, all together

ASSUME VehiclesAssumption ==
    /\ VehicleLimit \in Nat \ {0} /\ VidRange \in Nat \ {0} /\ MaxRequests \in Nat

Vids == 0 .. VidRange - 1
Keys == Clients \X Vids

VARIABLES
    sess,      \* the session of a client, and how far its end has been handled
    players,   \* m_players
    vehicles,  \* Player::vehicles, by vehicle_id
    pc, arg,   \* where the handler of a session's packet stands, its vehicle_id
    wire,      \* packets on their way to a client
    mirror,    \* remote_vehicles of a client: the keys <<player, vehicle_id>>
    requests,  \* requests made so far
    announced, \* history: players that announced a vehicle
    missed,    \* history: <<c, p>> when c connected after p had announced one
    shadowed,  \* history: keys that another player's VEHICLE_DELETE named
    overtaken  \* history: players erased while a handler of theirs was at work

sessVars == <<sess, players, overtaken>>
handlerVars == <<pc, arg, requests>>
historyVars == <<announced, missed, shadowed>>
vars == <<sessVars, vehicles, handlerVars, wire, mirror, historyVars>>

Init ==
    /\ sess = [c \in Clients |-> "none"] /\ players = {}
    /\ vehicles = [c \in Clients |-> <<>>]
    /\ pc = [c \in Clients |-> "idle"] /\ arg = [c \in Clients |-> 0]
    /\ wire = [c \in Clients |-> <<>>] /\ mirror = [c \in Clients |-> {}]
    /\ requests = 0
    /\ announced = {} /\ missed = {} /\ shadowed = {} /\ overtaken = {}

\* MUTANT: sendAll without m_sessions_mutex: in some sessions the packet comes
\* before the one that was sent last.
UnorderedSendAll(pkt) ==
    \E hasty \in SUBSET Clients :
      wire' = [c \in Clients |->
                 IF sess[c] # "open" THEN wire[c]
                 ELSE IF c \in hasty /\ wire[c] # <<>>
                      THEN SubSeq(wire[c], 1, Len(wire[c]) - 1)
                             \o <<pkt, wire[c][Len(wire[c])]>>
                      ELSE Append(wire[c], pkt)]

\* m_sessions_mutex is held for the whole loop.
SendAll(pkt) ==
    wire' = [c \in Clients |-> IF sess[c] = "open" THEN Append(wire[c], pkt) ELSE wire[c]]

-----------------------------------------------------------------------------
(* Sessions.                                                               *)

Accept(c) ==
    /\ sess[c] = "none"
    /\ sess' = [sess EXCEPT ![c] = "open"]
    /\ missed' = missed \cup {<<c, p>> : p \in announced}
    /\ UNCHANGED <<players, overtaken, vehicles, handlerVars, wire, mirror, announced, shadowed>>

\* The outcome of handleAuth for a client that is let in.
Login(c) ==
    /\ sess[c] = "open" /\ pc[c] = "idle" /\ c \notin players
    /\ players' = players \cup {c}
    /\ UNCHANGED <<sess, overtaken, vehicles, handlerVars, wire, mirror, historyVars>>

\* TCPSession::close after a failed read, or after a failed write, which does
\* not wait for the handler; onSessionClose takes the session out of m_sessions.
Close(c) ==
    /\ sess[c] = "open"
    /\ sess' = [sess EXCEPT ![c] = "closed"]
    /\ wire' = [wire EXCEPT ![c] = <<>>]
    /\ UNCHANGED <<players, overtaken, vehicles, handlerVars, mirror, historyVars>>

\* onDisconnect, step one: the session no longer names a player.  Nobody
\* logged in: that was all.
Unmap(c) ==
    /\ sess[c] = "closed"
    /\ sess' = [sess EXCEPT ![c] = IF c \in players THEN "unmapped" ELSE "left"]
    /\ UNCHANGED <<players, overtaken, vehicles, handlerVars, wire, mirror, historyVars>>

\* Step two: the player and its vehicles go.
Drop(c) ==
    /\ sess[c] = "unmapped"
    /\ sess' = [sess EXCEPT ![c] = "dropped"]
    /\ players' = players \ {c}
    /\ vehicles' = [vehicles EXCEPT ![c] = <<>>]
    /\ overtaken' = IF pc[c] = "idle" THEN overtaken ELSE overtaken \cup {c}
    /\ UNCHANGED <<handlerVars, wire, mirror, historyVars>>

\* Step three: broadcastPlayerLeave.
Leave(c) ==
    /\ sess[c] = "dropped"
    /\ SendAll([type |-> "PLAYER_LEAVE", player |-> c])
    /\ sess' = [sess EXCEPT ![c] = "left"]
    /\ UNCHANGED <<players, overtaken, vehicles, handlerVars, mirror, historyVars>>

-----------------------------------------------------------------------------
(* The handlers of vehicle packets.                                        *)

\* onTCPPacket looks up the player of the session, the handler its record.  A
\* read that ended before the session was closed is still handled.
Begin(c, step, vid) ==
    /\ pc[c] = "idle" /\ requests < MaxRequests
    /\ sess[c] \in {"open", "closed"} /\ c \in players
    /\ requests' = requests + 1
    /\ pc' = [pc EXCEPT ![c] = step] /\ arg' = [arg EXCEPT ![c] = vid]
    /\ UNCHANGED <<sessVars, vehicles, wire, mirror, historyVars>>

BeginSpawn(c) == Begin(c, "spawn", 0)

\* The client sends the game's id of the vehicle, whatever it is.
BeginDelete(c) == \E vid \in Vids : Begin(c, "delete", vid)

\* MUTANT: one vehicle more than the limit.
HasRoomForOneMore(c) == Len(vehicles[c]) <= VehicleLimit

HasRoom(c) == Len(vehicles[c]) < VehicleLimit

\* handleVehicleSpawn: the new vehicle_id is the number of vehicles.
Spawn(c) ==
    /\ pc[c] = "spawn" /\ c \in players
    /\ IF HasRoom(c)
       THEN LET vid == Len(vehicles[c]) % VidRange IN
            /\ vehicles' = [vehicles EXCEPT ![c] = Append(@, vid)]
            /\ arg' = [arg EXCEPT ![c] = vid]
            /\ pc' = [pc EXCEPT ![c] = "spawned"]
       ELSE pc' = [pc EXCEPT ![c] = "idle"] /\ UNCHANGED <<vehicles, arg>>
    /\ UNCHANGED <<sessVars, requests, wire, mirror, historyVars>>

\* The record was freed between the lookup and its use: the size that is read
\* can be anything.  (That the process fails instead ends every behaviour.)
UseFreedPlayer(c) ==
    /\ pc[c] \in {"spawn", "delete"} /\ c \notin players
    /\ \/ pc' = [pc EXCEPT ![c] = "idle"] /\ UNCHANGED arg
       \/ \E vid \in Vids :
            /\ pc[c] = "spawn"
            /\ pc' = [pc EXCEPT ![c] = "spawned"] /\ arg' = [arg EXCEPT ![c] = vid]
       \/ pc[c] = "delete" /\ pc' = [pc EXCEPT ![c] = "deleted"] /\ UNCHANGED arg
    /\ UNCHANGED <<sessVars, vehicles, requests, wire, mirror, historyVars>>

AnnounceSpawn(c) ==
    /\ pc[c] = "spawned"
    /\ SendAll([type |-> "VEHICLE_SPAWN", player |-> c, vid |-> arg[c]])
    /\ pc' = [pc EXCEPT ![c] = "idle"]
    /\ announced' = announced \cup {c}
    /\ shadowed' = shadowed \ {<<c, arg[c]>>}
    /\ UNCHANGED <<sessVars, vehicles, arg, requests, mirror, missed>>

\* MUTANT: only the first vehicle with the id goes.
WithoutFirst(s, vid) ==
    IF \E i \in DOMAIN s : s[i] = vid
    THEN LET i == CHOOSE i \in DOMAIN s : s[i] = vid /\ \A j \in 1 .. i - 1 : s[j] # vid
         IN  SubSeq(s, 1, i - 1) \o SubSeq(s, i + 1, Len(s))
    ELSE s

\* The positions in s of vehicles with other ids.
Others(s, vid) == {i \in DOMAIN s : s[i] # vid}

\* How many of them come before position i.
OthersBefore(s, vid, i) == Cardinality({j \in Others(s, vid) : j < i})

\* std::remove_if takes every vehicle with the id out: the n-th of the others
\* moves to place n.
Without(s, vid) ==
    [n \in 1 .. Cardinality(Others(s, vid)) |->
       s[CHOOSE i \in Others(s, vid) : OthersBefore(s, vid, i) = n - 1]]

\* handleVehicleDelete: also for an id the player does not have.
Delete(c) ==
    /\ pc[c] = "delete" /\ c \in players
    /\ vehicles' = [vehicles EXCEPT ![c] = Without(@, arg[c])]
    /\ pc' = [pc EXCEPT ![c] = "deleted"]
    /\ UNCHANGED <<sessVars, arg, requests, wire, mirror, historyVars>>

\* The packet names the vehicle_id only.
AnnounceDelete(c) ==
    /\ pc[c] = "deleted"
    /\ SendAll([type |-> "VEHICLE_DELETE", vid |-> arg[c]])
    /\ pc' = [pc EXCEPT ![c] = "idle"]
    /\ shadowed' = shadowed \cup {<<p, arg[c]>> : p \in Clients \ {c}}
    /\ UNCHANGED <<sessVars, vehicles, arg, requests, mirror, announced, missed>>

-----------------------------------------------------------------------------
(* The client: handlePacket of the game's extension and vehicle_sync.      *)

OnRemoteVehicleSpawn(m, p, vid) == m \cup {<<p, vid>>}

\* Every player's vehicle of that id is removed.
OnRemoteVehicleDelete(m, vid) == {k \in m : k[2] # vid}

\* MUTANT: the vehicles of a player who left stay.
KeepsVehicles(m, p) == m

OnPlayerLeave(m, p) == {k \in m : k[1] # p}

HandlePacket(m, pkt) ==
    CASE pkt.type = "VEHICLE_SPAWN"  -> OnRemoteVehicleSpawn(m, pkt.player, pkt.vid)
      [] pkt.type = "VEHICLE_DELETE" -> OnRemoteVehicleDelete(m, pkt.vid)
      [] pkt.type = "PLAYER_LEAVE"   -> OnPlayerLeave(m, pkt.player)

Receive(c) ==
    /\ wire[c] # <<>>
    /\ mirror' = [mirror EXCEPT ![c] = HandlePacket(@, Head(wire[c]))]
    /\ wire' = [wire EXCEPT ![c] = Tail(@)]
    /\ UNCHANGED <<sessVars, vehicles, handlerVars, historyVars>>

Next ==
    \E c \in Clients :
      \/ Accept(c) \/ Login(c) \/ Close(c) \/ Unmap(c) \/ Drop(c) \/ Leave(c)
      \/ BeginSpawn(c) \/ Spawn(c) \/ AnnounceSpawn(c) \/ UseFreedPlayer(c)
      \/ BeginDelete(c) \/ Delete(c) \/ AnnounceDelete(c)
      \/ Receive(c)

Spec == Init /\ [][Next]_vars

-----------------------------------------------------------------------------
(* Properties.                                                             *)

Packets ==
    [type : {"VEHICLE_SPAWN"}, player : Clients, vid : Vids]
      \cup [type : {"VEHICLE_DELETE"}, vid : Vids]
      \cup [type : {"PLAYER_LEAVE"}, player : Clients]

\* The values of the variables; nobody has more vehicles than the limit allows,
\* however requests, disconnects and announcements interleave.
TypeOK ==
    /\ sess \in [Clients -> {"none", "open", "closed", "unmapped", "dropped", "left"}]
    /\ players \subseteq Clients
    /\ DOMAIN vehicles = Clients
    /\ \A c \in Clients : vehicles[c] \in Seq(Vids) /\ Len(vehicles[c]) <= VehicleLimit
    /\ pc \in [Clients -> {"idle", "spawn", "spawned", "delete", "deleted"}]
    /\ arg \in [Clients -> Vids]
    /\ DOMAIN wire = Clients /\ \A c \in Clients : wire[c] \in Seq(Packets)
    /\ mirror \in [Clients -> SUBSET Keys]
    /\ requests \in 0 .. MaxRequests
    /\ announced \subseteq Clients /\ missed \subseteq Clients \X Clients
    /\ shadowed \subseteq Keys /\ overtaken \subseteq Clients

\* The vehicle ids of p that c has a vehicle for.
Shown(c, p) == {k[2] : k \in {k \in mirror[c] : k[1] = p}}

\* c is connected, has been since before p had a vehicle, and is up to date.
Settled(c, p) == sess[c] = "open" /\ <<c, p>> \notin missed /\ wire[c] = <<>>

\* handleVehicleSpawn and handleVehicleDelete announce what they did to the
\* list, in that order: a client that is up to date shows exactly the vehicles
\* the server has for a player, except those that another player's
\* VEHICLE_DELETE took with it.
MirrorsFollow ==
    \A c, p \in Clients :
      Settled(c, p) /\ p \in players /\ pc[p] = "idle" =>
        Shown(c, p) \ {v \in Vids : <<p, v>> \in shadowed}
          = Range(vehicles[p]) \ {v \in Vids : <<p, v>> \in shadowed}

\* sendAll gives every session the same order of packets: two clients that are
\* up to date show the same vehicles, whatever the handlers did in between.
MirrorsAgree ==
    \A c, d, p \in Clients :
      Settled(c, p) /\ Settled(d, p) => Shown(c, p) = Shown(d, p)

\* PLAYER_LEAVE is the last word about a player: a client that is up to date
\* shows no vehicle of a player who left, unless onDisconnect overtook a
\* handler of that player.
NoGhostVehicles ==
    \A c, p \in Clients :
      sess[p] = "left" /\ p \notin overtaken /\ sess[c] = "open" /\ wire[c] = <<>> =>
        Shown(c, p) = {}

=============================================================================
