------------------------------- MODULE GameMod -------------------------------
(***************************************************************************)
(* The extension that runs inside the game of one player: main.lua,        *)
(* vehicle_sync.lua and ai_authority.lua.                                  *)
(*                                                                         *)
(* The game calls the extension on one thread: a hook when a local vehicle *)
(* appears or is destroyed, and onUpdate every frame, which polls both     *)
(* sockets and handles what has arrived.  The packets of the server come   *)
(* in any order.  A packet of a poll is a step of its own.                 *)
(*                                                                         *)
(* The game engine is external: it picks ids, may refuse to spawn, moves   *)
(* AI traffic in and out, and calls the hooks for local vehicles only, as  *)
(* their names in the code say.  It may use the id of a vehicle that is    *)
(* gone again.                                                             *)
(***************************************************************************)
EXTENDS Naturals, FiniteSets

CONSTANTS
    GameIds,  \* the engine's vehicle ids
    WideIds,  \* those that do not fit the byte string.char writes
    Players,
    Vids,     \* vehicle ids of players
    Svids,    \* vehicle ids of AI traffic: 200 .. MAX_SVID
    None

ASSUME GameModAssumption ==
    /\ IsFiniteSet(GameIds) /\ WideIds \subseteq GameIds
    /\ Vids \subseteq Nat /\ Svids \subseteq Nat /\ IsFiniteSet(Svids)
    /\ Vids \cap Svids = {} /\ None \notin Nat \cup GameIds

VARIABLES
    socket,          \* "none", "open", "dead" (connect failed), "closed"
    connected,
    world,           \* what the engine shows under an id: see Kinds
    player_vids,     \* vehicles that must not be sent as AI traffic
    remote_vehicles, \* <<player, vehicle id>> -> game id
    ai_vehicles,     \* server's id of AI traffic -> game id
    active,          \* this client drives the AI traffic
    vid_map,         \* game id -> server's id of AI traffic
    orphans          \* history: copies whose key was given to another one

modVars == <<socket, connected>>
copyVars == <<remote_vehicles, ai_vehicles, orphans>>
authorityVars == <<active, vid_map>>
vars == <<modVars, world, player_vids, copyVars, authorityVars>>

\* An "early" vehicle is the player's own, from before the login; a "copy" is
\* one the extension spawned; "ai" is traffic of this game.
Kinds == {"none", "own", "early", "copy", "ai"}
Live == {g \in GameIds : world[g] # "none"}
Keys == Players \X Vids

Init ==
    /\ socket = "none" /\ connected = FALSE
    /\ world = [g \in GameIds |-> "none"] /\ player_vids = {}
    /\ remote_vehicles = [k \in Keys |-> None]
    /\ ai_vehicles = [s \in Svids |-> None]
    /\ active = FALSE /\ vid_map = [g \in GameIds |-> None]
    /\ orphans = {}

-----------------------------------------------------------------------------
(* The extension comes and goes.                                           *)

\* onExtensionLoaded: without a connect file nothing happens at all.
Load ==
    /\ socket = "none"
    /\ socket' \in {"open", "dead"}
    /\ UNCHANGED <<connected, world, player_vids, copyVars, authorityVars>>

Unload ==
    /\ socket \in {"open", "dead"}
    /\ socket' = "closed" /\ connected' = FALSE
    /\ UNCHANGED <<world, player_vids, copyVars, authorityVars>>

-----------------------------------------------------------------------------
(* Hooks of the engine.                                                    *)

OnVehicleSpawned(g) ==
    /\ socket # "closed" /\ g \notin Live
    /\ world' = [world EXCEPT ![g] = IF connected THEN "own" ELSE "early"]
    /\ player_vids' = IF connected THEN player_vids \cup {g} ELSE player_vids
    /\ UNCHANGED <<modVars, copyVars, authorityVars>>

\* string.char fails for a wide id, and the rest of the hook with it.
OnVehicleDestroyed(g) ==
    /\ socket # "closed" /\ world[g] \in {"own", "early"}
    /\ world' = [world EXCEPT ![g] = "none"]
    /\ player_vids' = IF connected /\ g \notin WideIds THEN player_vids \ {g}
                                                      ELSE player_vids
    /\ UNCHANGED <<modVars, copyVars, authorityVars>>

\* The engine's traffic: no hook of the extension is called.
Traffic(g) ==
    /\ \/ g \notin Live /\ active /\ world' = [world EXCEPT ![g] = "ai"]
       \/ world[g] = "ai" /\ world' = [world EXCEPT ![g] = "none"]
    /\ UNCHANGED <<modVars, player_vids, copyVars, authorityVars>>

-----------------------------------------------------------------------------
(* handlePacket.                                                           *)

\* AUTH_RESPONSE that says ok
AuthResponse ==
    /\ socket = "open"
    /\ connected' = TRUE
    /\ UNCHANGED <<socket, world, player_vids, copyVars, authorityVars>>

\* VEHICLE_SPAWN; the engine may refuse, and then nothing changes.
OnRemoteVehicleSpawn(k) ==
    /\ socket = "open"
    /\ \E g \in GameIds \ Live :
         /\ world' = [world EXCEPT ![g] = "copy"]
         /\ remote_vehicles' = [remote_vehicles EXCEPT ![k] = g]
    /\ orphans' = orphans \cup ({remote_vehicles[k]} \ {None})
    /\ UNCHANGED <<modVars, player_vids, ai_vehicles, authorityVars>>

\* MUTANT: the vehicles are forgotten and stay on the map.
LeavesOnMap(gone) == world

RemoveVehicles(gone) == [g \in GameIds |-> IF g \in gone THEN "none" ELSE world[g]]

\* MUTANT: the vehicles are removed and still remembered.
ForgetsNothing(keys) == remote_vehicles

Forget(keys) == [k \in Keys |-> IF k \in keys THEN None ELSE remote_vehicles[k]]

\* VEHICLE_DELETE: the vehicle id of every player, or of AI traffic
OnRemoteVehicleDelete(vid) ==
    LET keys == {k \in Keys : k[2] = vid}
        ais  == Svids \cap {vid}
    IN  /\ socket = "open"
        /\ world' = RemoveVehicles({remote_vehicles[k] : k \in keys}
                                     \cup {ai_vehicles[s] : s \in ais})
        /\ remote_vehicles' = Forget(keys)
        /\ ai_vehicles' = [s \in Svids |-> IF s \in ais THEN None ELSE ai_vehicles[s]]
        /\ UNCHANGED <<modVars, player_vids, orphans, authorityVars>>

\* PLAYER_LEAVE
OnPlayerLeave(p) ==
    LET keys == {k \in Keys : k[1] = p}
    IN  /\ socket = "open"
        /\ world' = RemoveVehicles({remote_vehicles[k] : k \in keys})
        /\ remote_vehicles' = Forget(keys)
        /\ UNCHANGED <<modVars, player_vids, ai_vehicles, orphans, authorityVars>>

\* VEHICLE_UPDATE of AI traffic: its first one spawns the copy.  Any other
\* update only moves a vehicle.
OnAIVehicleUpdate(s) ==
    /\ socket = "open" /\ ai_vehicles[s] = None
    /\ \E g \in GameIds \ Live :
         /\ world' = [world EXCEPT ![g] = "copy"]
         /\ ai_vehicles' = [ai_vehicles EXCEPT ![s] = g]
    /\ UNCHANGED <<modVars, player_vids, remote_vehicles, orphans, authorityVars>>

\* deactivate()
Deactivate ==
    /\ active' = FALSE
    /\ vid_map' = IF active THEN [g \in GameIds |-> None] ELSE vid_map

Kick ==
    /\ socket = "open"
    /\ connected' = FALSE /\ Deactivate
    /\ UNCHANGED <<socket, world, player_vids, copyVars>>

AuthorityRevoke ==
    /\ socket = "open"
    /\ Deactivate
    /\ UNCHANGED <<modVars, world, player_vids, copyVars>>

\* MUTANT: a second grant starts over.
StartsOver == active' = TRUE /\ vid_map' = [g \in GameIds |-> None]

\* activate()
Activate ==
    /\ active' = TRUE
    /\ vid_map' = IF active THEN vid_map ELSE [g \in GameIds |-> None]

AuthorityGrant ==
    /\ socket = "open"
    /\ Activate
    /\ UNCHANGED <<modVars, world, player_vids, copyVars>>

-----------------------------------------------------------------------------
(* ai_authority.onUpdate: the states of the AI traffic are sent.           *)

Used == {vid_map[g] : g \in GameIds} \ {None}

\* MUTANT: slots are handed out from the first one again.
FreeFromStart == Svids

Free == Svids \ Used

\* Vehicles get the lowest free slot, one after another in the order in which
\* the engine lists them, until there is none: a vehicle without one is skipped.
Allocations(todo) ==
    {f \in [todo -> Free \cup {None}] :
       LET taken == {f[g] : g \in todo} \ {None} IN
       /\ \A g, h \in todo : g # h /\ f[g] # None => f[g] # f[h]
       /\ (\E g \in todo : f[g] = None) => taken = Free
       /\ \A s \in taken, r \in Free : r < s => r \in taken}

\* MUTANT: the mappings of vehicles that are gone stay.
KeepsStale(g) == TRUE

StillExists(g) == g \in Live

OnUpdate ==
    /\ socket # "none" /\ connected /\ active
    /\ LET todo == {g \in Live \ player_vids : vid_map[g] = None} IN
       \E f \in Allocations(todo) :
         vid_map' = [g \in GameIds |-> IF g \in todo THEN f[g]
                                       ELSE IF StillExists(g) THEN vid_map[g] ELSE None]
    /\ UNCHANGED <<modVars, world, player_vids, copyVars, active>>

Next ==
    \/ Load \/ Unload
    \/ \E g \in GameIds : OnVehicleSpawned(g) \/ OnVehicleDestroyed(g) \/ Traffic(g)
    \/ \E k \in Keys : OnRemoteVehicleSpawn(k)
    \/ \E vid \in Vids \cup Svids : OnRemoteVehicleDelete(vid)
    \/ \E p \in Players : OnPlayerLeave(p)
    \/ \E s \in Svids : OnAIVehicleUpdate(s)
    \/ AuthResponse \/ Kick \/ AuthorityGrant \/ AuthorityRevoke
    \/ OnUpdate

Spec == Init /\ [][Next]_vars

\* The game calls onUpdate every frame.
FairSpec == Spec /\ WF_vars(OnUpdate)

-----------------------------------------------------------------------------
(* Properties.                                                             *)

\* The values of the variables; what the extension remembers of its copies are
\* vehicles it spawned and that are still there.
TypeOK ==
    /\ socket \in {"none", "open", "dead", "closed"} /\ connected \in BOOLEAN
    /\ world \in [GameIds -> Kinds] /\ player_vids \subseteq GameIds
    /\ remote_vehicles \in [Keys -> GameIds \cup {None}]
    /\ ai_vehicles \in [Svids -> GameIds \cup {None}]
    /\ active \in BOOLEAN /\ vid_map \in [GameIds -> Svids \cup {None}]
    /\ orphans \subseteq GameIds
    /\ connected => socket = "open"
    /\ \A k \in Keys : remote_vehicles[k] # None => world[remote_vehicles[k]] = "copy"
    /\ \A s \in Svids : ai_vehicles[s] # None => world[ai_vehicles[s]] = "copy"

\* allocSVID: two vehicles never share a server's id, whatever was spawned and
\* removed in between.
SvidsDistinct ==
    \A g, h \in GameIds : g # h /\ vid_map[g] # None => vid_map[g] # vid_map[h]

\* The other clients know traffic by its server's id: while this client stays
\* the authority, a vehicle that is there keeps its id.
SvidStable ==
    [][\A g \in Live \cap Live' :
         active /\ active' /\ vid_map[g] # None => vid_map'[g] = vid_map[g]]_vars

\* Copies do not pile up: one that is on the map is remembered, so that a
\* VEHICLE_DELETE or PLAYER_LEAVE removes it, unless the server used its key
\* for another vehicle.
CopiesRemembered ==
    \A g \in GameIds :
      world[g] = "copy" =>
        \/ \E k \in Keys : remote_vehicles[k] = g
        \/ \E s \in Svids : ai_vehicles[s] = g
        \/ g \in orphans

\* onUpdate cleans up after itself: once the map settles, every vehicle that is
\* not the player's has a server's id, if there are as many as vehicles.
TrafficServed ==
    <>[][FALSE]_<<world, player_vids, active, connected>> =>
      <>[](connected /\ active /\ Cardinality(Live) <= Cardinality(Svids)
             => \A g \in Live \ player_vids : vid_map[g] # None)

=============================================================================
