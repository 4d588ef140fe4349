---------------------------- MODULE GameModProofs ----------------------------
(***************************************************************************)
(* Theorems about the extension in the game, for every number of players,  *)
(* vehicles and slots for AI traffic, whatever order the packets come in.  *)
(***************************************************************************)
EXTENDS GameMod, TLAPS

-----------------------------------------------------------------------------
(* The inductive invariant.                                                *)

\* No vehicle is remembered twice: then removing one forgets all there is to it.
CopiesDistinct ==
    /\ \A j, k \in Keys :
         remote_vehicles[j] # None /\ remote_vehicles[j] = remote_vehicles[k] => j = k
    /\ \A r, s \in Svids : ai_vehicles[r] # None /\ ai_vehicles[r] = ai_vehicles[s] => r = s
    /\ \A k \in Keys, s \in Svids : remote_vehicles[k] # None => remote_vehicles[k] # ai_vehicles[s]

Inv == TypeOK /\ CopiesDistinct /\ CopiesRemembered /\ SvidsDistinct

\* What only the copies and the world are about, and what only the traffic is.
CopiesInv == TypeOK /\ CopiesDistinct /\ CopiesRemembered

\* An empty map, an empty table.
LEMMA InvInit == Init => Inv
  BY GameModAssumption
  DEF Init, Inv, TypeOK, CopiesDistinct, CopiesRemembered, SvidsDistinct, Kinds, Keys

-----------------------------------------------------------------------------
(* The copies.                                                             *)

\* A vehicle that is not on the map is not remembered either.
LEMMA NewIsUnknown ==
    ASSUME TypeOK, NEW g \in GameIds \ Live
    PROVE  /\ \A k \in Keys : remote_vehicles[k] # g
           /\ \A s \in Svids : ai_vehicles[s] # g
  BY GameModAssumption DEF TypeOK, Live

\* A copy of another player's vehicle: its id was free.
LEMMA CopiesSpawn ==
    ASSUME CopiesInv, NEW k \in Keys, OnRemoteVehicleSpawn(k)
    PROVE  CopiesInv'
<1> USE DEF CopiesInv, modVars, authorityVars
<1>1. PICK g \in GameIds \ Live :
        /\ world' = [world EXCEPT ![g] = "copy"]
        /\ remote_vehicles' = [remote_vehicles EXCEPT ![k] = g]
  BY DEF OnRemoteVehicleSpawn
<1>2. /\ g # None /\ world[g] = "none"
      /\ \A j \in Keys : remote_vehicles[j] # g
      /\ \A s \in Svids : ai_vehicles[s] # g
  BY GameModAssumption, NewIsUnknown DEF Live
<1>3. TypeOK'
  BY <1>1, <1>2 DEF OnRemoteVehicleSpawn, TypeOK, Kinds
<1>4. CopiesDistinct'
  BY <1>1, <1>2 DEF OnRemoteVehicleSpawn, TypeOK, CopiesDistinct
<1>5. CopiesRemembered'
  <2> SUFFICES ASSUME NEW h \in GameIds, world'[h] = "copy"
               PROVE  \/ \E j \in Keys : remote_vehicles'[j] = h
                      \/ \E s \in Svids : ai_vehicles'[s] = h
                      \/ h \in orphans'
    BY DEF CopiesRemembered
  <2>1. CASE h = g
    BY <1>1, <2>1 DEF TypeOK
  <2>2. CASE h # g /\ remote_vehicles[k] = h
    BY <2>2, GameModAssumption DEF OnRemoteVehicleSpawn
  <2>3. CASE h # g /\ remote_vehicles[k] # h
    <3>1. world[h] = "copy"
      BY <1>1, <2>3 DEF TypeOK
    <3> QED
      BY <1>1, <2>3, <3>1 DEF OnRemoteVehicleSpawn, TypeOK, CopiesRemembered
  <2> QED
    BY <2>1, <2>2, <2>3
<1> QED
  BY <1>3, <1>4, <1>5

\* The first update of AI traffic makes a copy of it.
LEMMA CopiesUpdate ==
    ASSUME CopiesInv, NEW s \in Svids, OnAIVehicleUpdate(s)
    PROVE  CopiesInv'
<1> USE DEF CopiesInv, modVars, authorityVars
<1>1. PICK g \in GameIds \ Live :
        /\ world' = [world EXCEPT ![g] = "copy"]
        /\ ai_vehicles' = [ai_vehicles EXCEPT ![s] = g]
  BY DEF OnAIVehicleUpdate
<1>2. /\ g # None /\ world[g] = "none"
      /\ \A k \in Keys : remote_vehicles[k] # g
      /\ \A r \in Svids : ai_vehicles[r] # g
  BY GameModAssumption, NewIsUnknown DEF Live
<1>3. TypeOK'
  BY <1>1, <1>2 DEF OnAIVehicleUpdate, TypeOK, Kinds
<1>4. CopiesDistinct'
  BY <1>1, <1>2 DEF OnAIVehicleUpdate, TypeOK, CopiesDistinct
<1>5. CopiesRemembered'
  <2> SUFFICES ASSUME NEW h \in GameIds, world'[h] = "copy"
               PROVE  \/ \E j \in Keys : remote_vehicles'[j] = h
                      \/ \E r \in Svids : ai_vehicles'[r] = h
                      \/ h \in orphans'
    BY DEF CopiesRemembered
  <2>1. CASE h = g
    BY <1>1, <2>1 DEF TypeOK
  <2>2. CASE h # g
    <3>1. world[h] = "copy" /\ ai_vehicles[s] # h
      BY <1>1, <2>2, GameModAssumption DEF OnAIVehicleUpdate, TypeOK
    <3> QED
      BY <1>1, <2>2, <3>1 DEF OnAIVehicleUpdate, TypeOK, CopiesRemembered
  <2> QED
    BY <2>1, <2>2
<1> QED
  BY <1>3, <1>4, <1>5

\* Removing the vehicles of some keys and of some AI traffic, and forgetting both.
LEMMA CopiesRemove ==
    ASSUME CopiesInv, NEW keys \in SUBSET Keys, NEW ais \in SUBSET Svids,
           world' = RemoveVehicles({remote_vehicles[k] : k \in keys} \cup {ai_vehicles[s] : s \in ais}),
           remote_vehicles' = Forget(keys),
           ai_vehicles' = [s \in Svids |-> IF s \in ais THEN None ELSE ai_vehicles[s]],
           UNCHANGED <<modVars, player_vids, orphans, authorityVars>>
    PROVE  CopiesInv'
<1> USE DEF CopiesInv, modVars, authorityVars, RemoveVehicles, Forget
<1>1. /\ \A k \in Keys : remote_vehicles'[k] = IF k \in keys THEN None ELSE remote_vehicles[k]
      /\ \A s \in Svids : ai_vehicles'[s] = IF s \in ais THEN None ELSE ai_vehicles[s]
  OBVIOUS
<1>2. \A g \in GameIds :
        world'[g] = IF (\E k \in keys : g = remote_vehicles[k]) \/ (\E s \in ais : g = ai_vehicles[s])
                    THEN "none" ELSE world[g]
  OBVIOUS
<1>3. /\ \A k \in Keys : remote_vehicles'[k] # None => world'[remote_vehicles'[k]] = "copy"
      /\ \A s \in Svids : ai_vehicles'[s] # None => world'[ai_vehicles'[s]] = "copy"
  BY <1>1, <1>2 DEF TypeOK, CopiesDistinct
<1>4. TypeOK'
  BY <1>3 DEF TypeOK, Kinds
<1>5. CopiesDistinct'
  BY <1>1 DEF CopiesDistinct
<1>6. CopiesRemembered'
  BY <1>1, <1>2 DEF CopiesRemembered
<1> QED
  BY <1>4, <1>5, <1>6

\* VEHICLE_DELETE and PLAYER_LEAVE remove what they forget.
LEMMA CopiesDelete ==
    ASSUME CopiesInv, NEW vid, OnRemoteVehicleDelete(vid)
    PROVE  CopiesInv'
<1> DEFINE keys == {k \in Keys : k[2] = vid}
           ais == Svids \cap {vid}
<1>1. /\ keys \in SUBSET Keys /\ ais \in SUBSET Svids
      /\ world' = RemoveVehicles({remote_vehicles[k] : k \in keys} \cup {ai_vehicles[s] : s \in ais})
      /\ remote_vehicles' = Forget(keys)
      /\ ai_vehicles' = [s \in Svids |-> IF s \in ais THEN None ELSE ai_vehicles[s]]
      /\ UNCHANGED <<modVars, player_vids, orphans, authorityVars>>
  BY Zenon DEF OnRemoteVehicleDelete
<1> HIDE DEF keys, ais
<1> QED
  BY <1>1, CopiesRemove

LEMMA CopiesLeave ==
    ASSUME CopiesInv, NEW p \in Players, OnPlayerLeave(p)
    PROVE  CopiesInv'
<1> DEFINE keys == {k \in Keys : k[1] = p}
           ais == {}
<1>1. /\ keys \in SUBSET Keys
      /\ world' = RemoveVehicles({remote_vehicles[k] : k \in keys})
      /\ remote_vehicles' = Forget(keys)
      /\ UNCHANGED <<modVars, player_vids, ai_vehicles, orphans, authorityVars>>
  BY Zenon DEF OnPlayerLeave
<1>2. /\ ais \in SUBSET Svids
      /\ {ai_vehicles[s] : s \in ais} = {}
      /\ ai_vehicles' = [s \in Svids |-> IF s \in ais THEN None ELSE ai_vehicles[s]]
  BY <1>1 DEF CopiesInv, TypeOK
<1> HIDE DEF keys, ais
<1>3. world' = RemoveVehicles({remote_vehicles[k] : k \in keys} \cup {ai_vehicles[s] : s \in ais})
  BY <1>1, <1>2 DEF RemoveVehicles
<1> QED
  BY <1>1, <1>2, <1>3, CopiesRemove

\* The player's own vehicles and the engine's traffic are no copies.
LEMMA CopiesWorld ==
    ASSUME CopiesInv, NEW g \in GameIds,
           OnVehicleSpawned(g) \/ OnVehicleDestroyed(g) \/ Traffic(g)
    PROVE  CopiesInv'
<1> USE DEF CopiesInv, modVars, copyVars, authorityVars
<1>1. /\ world[g] # "copy"
      /\ \E kind \in Kinds \ {"copy"} : world' = [world EXCEPT ![g] = kind]
      /\ UNCHANGED <<modVars, copyVars, authorityVars>>
      /\ player_vids' \subseteq player_vids \cup {g}
  BY DEF OnVehicleSpawned, OnVehicleDestroyed, Traffic, Live, Kinds
<1>2. TypeOK'
  BY <1>1 DEF TypeOK, Kinds
<1>3. CopiesDistinct' /\ CopiesRemembered'
  BY <1>1 DEF TypeOK, CopiesDistinct, CopiesRemembered
<1> QED
  BY <1>2, <1>3

\* Every other step leaves the copies and the map alone.
LEMMA CopiesNext == ASSUME CopiesInv, [Next]_vars PROVE CopiesInv'
<1>1. CASE UNCHANGED <<world, copyVars>> /\ TypeOK'
  BY <1>1 DEF CopiesInv, CopiesDistinct, CopiesRemembered, copyVars
<1> USE DEF CopiesInv, modVars, copyVars, authorityVars
<1>2. CASE Load \/ Unload \/ AuthResponse
  BY <1>1, <1>2 DEF Load, Unload, AuthResponse, TypeOK
<1>3. CASE Kick \/ AuthorityGrant \/ AuthorityRevoke
  BY <1>1, <1>3 DEF Kick, AuthorityGrant, AuthorityRevoke, Activate, Deactivate, TypeOK
<1>4. CASE OnUpdate
  <2>1. vid_map' \in [GameIds -> Svids \cup {None}]
    BY <1>4 DEF OnUpdate, Allocations, Free, TypeOK
  <2> QED
    BY <1>1, <1>4, <2>1 DEF OnUpdate, TypeOK
<1>5. CASE UNCHANGED vars
  BY <1>1, <1>5 DEF TypeOK, vars
<1> QED
  BY <1>2, <1>3, <1>4, <1>5, CopiesSpawn, CopiesUpdate, CopiesDelete, CopiesLeave, CopiesWorld DEF Next

-----------------------------------------------------------------------------
(* The traffic.                                                            *)

\* One onUpdate gives out slots nobody uses, each of them once.
LEMMA UpdateKeepsDistinct ==
    ASSUME TypeOK, SvidsDistinct, OnUpdate
    PROVE  SvidsDistinct'
<1> DEFINE todo == {g \in Live \ player_vids : vid_map[g] = None}
<1>1. PICK f \in Allocations(todo) :
        vid_map' = [g \in GameIds |-> IF g \in todo THEN f[g]
                                      ELSE IF StillExists(g) THEN vid_map[g] ELSE None]
  BY DEF OnUpdate
<1>2. /\ f \in [todo -> Free \cup {None}]
      /\ \A g, h \in todo : g # h /\ f[g] # None => f[g] # f[h]
  BY DEF Allocations
<1> HIDE DEF todo
<1>3. \A g \in GameIds : g \notin todo => vid_map'[g] \in {vid_map[g], None}
  BY <1>1
<1>4. \A g \in GameIds : g \in todo => vid_map'[g] = f[g]
  BY <1>1
<1>5. \A g \in todo, h \in GameIds : f[g] # None => f[g] # vid_map[h]
  BY <1>2 DEF Free, Used
<1> QED
  BY <1>2, <1>3, <1>4, <1>5 DEF SvidsDistinct

\* The table changes in onUpdate, and is emptied when the authority comes or goes.
LEMMA SvidsNext == ASSUME TypeOK, SvidsDistinct, [Next]_vars PROVE SvidsDistinct'
<1>1. CASE vid_map' = vid_map \/ vid_map' = [g \in GameIds |-> None]
  BY <1>1 DEF SvidsDistinct
<1>2. CASE OnUpdate
  BY <1>2, UpdateKeepsDistinct
<1>3. CASE Kick \/ AuthorityGrant \/ AuthorityRevoke
  BY <1>1, <1>3 DEF Kick, AuthorityGrant, AuthorityRevoke, Activate, Deactivate
<1>4. CASE ~OnUpdate /\ ~Kick /\ ~AuthorityGrant /\ ~AuthorityRevoke
  <2>1. UNCHANGED vid_map
    BY <1>4
    DEF Next, vars, authorityVars, Load, Unload, OnVehicleSpawned, OnVehicleDestroyed, Traffic,
        OnRemoteVehicleSpawn, OnRemoteVehicleDelete, OnPlayerLeave, OnAIVehicleUpdate, AuthResponse
  <2> QED
    BY <1>1, <2>1
<1> QED
  BY <1>2, <1>3, <1>4

\* While this client is the authority, no step takes the id of a vehicle that stays.
LEMMA SvidKept ==
    ASSUME [Next]_vars, NEW g \in Live \cap Live', active, active', vid_map[g] # None
    PROVE  vid_map'[g] = vid_map[g]
<1>1. g \in GameIds
  BY DEF Live
<1>2. CASE OnUpdate
  BY <1>1, <1>2 DEF OnUpdate, StillExists
<1>3. CASE ~OnUpdate
  BY <1>3
  DEF Next, vars, authorityVars, Load, Unload, OnVehicleSpawned, OnVehicleDestroyed, Traffic,
      OnRemoteVehicleSpawn, OnRemoteVehicleDelete, OnPlayerLeave, OnAIVehicleUpdate, AuthResponse,
      Kick, AuthorityGrant, AuthorityRevoke, Activate, Deactivate
<1> QED
  BY <1>2, <1>3

-----------------------------------------------------------------------------
(* The theorems.                                                           *)

LEMMA Invariance == Spec => []Inv
<1>1. Inv /\ [Next]_vars => Inv'
  BY CopiesNext, SvidsNext DEF Inv, CopiesInv
<1> QED
  BY <1>1, InvInit, PTL DEF Spec

\* The extension's tables are well typed, and whatever it remembers of its copies
\* is on the map.
THEOREM TypeCorrect == Spec => []TypeOK
<1>1. Inv => TypeOK
  BY DEF Inv
<1> QED
  BY <1>1, Invariance, PTL

\* allocSVID never gives one id to two vehicles, whatever is spawned and removed
\* between two calls of onUpdate.
THEOREM SvidsAreDistinct == Spec => []SvidsDistinct
<1>1. Inv => SvidsDistinct
  BY DEF Inv
<1> QED
  BY <1>1, Invariance, PTL

\* Every copy on the map can be removed, but for those whose key the server used
\* for another vehicle.
THEOREM CopiesAreRemembered == Spec => []CopiesRemembered
<1>1. Inv => CopiesRemembered
  BY DEF Inv
<1> QED
  BY <1>1, Invariance, PTL

\* onUpdate, a second AUTHORITY_GRANT and every packet leave the ids of the traffic
\* that is still there as they are.
THEOREM SvidsAreStable == Spec => SvidStable
<1>1. [Next]_vars =>
        [\A g \in Live \cap Live' :
           active /\ active' /\ vid_map[g] # None => vid_map'[g] = vid_map[g]]_vars
  BY SvidKept
<1> QED
  BY <1>1, PTL DEF Spec, SvidStable

=============================================================================
