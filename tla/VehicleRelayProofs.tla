------------------------- MODULE VehicleRelayProofs -------------------------
(***************************************************************************)
(* How far the missing call of mapPlayer reaches, for every set of clients *)
(* and vehicle ids: the run finds one update that is not relayed, here it  *)
(* is shown that none ever is.                                             *)
(***************************************************************************)
EXTENDS VehicleRelay, TLAPS

\* Nobody was given an update, none is on the way, and the table whose changes
\* vehicleSyncLoop broadcasts stays empty.
NothingRelayed ==
    /\ shown = {} /\ m_entries = {} /\ dirty = {}
    /\ \A d \in toClient : d.type = "PONG"

Inv == NothingRelayed /\ m_player_to_ep = {}

\* The answer to a ping.
LEMMA PongIsNoUpdate == \A c : [type |-> "PONG", to |-> c].type = "PONG"
  OBVIOUS

LEMMA InvNext == Inv /\ [Next]_vars => Inv'
<1> SUFFICES ASSUME Inv, [Next]_vars PROVE Inv'
  OBVIOUS
<1> USE DEF Inv, NothingRelayed
<1>1. ASSUME NEW c \in Clients, ClientSends(c) PROVE Inv'
  BY <1>1 DEF ClientSends
<1>2. ASSUME NEW c \in Clients, Disconnect(c) PROVE Inv'
  BY <1>2 DEF Disconnect
<1>3. ASSUME NEW c \in Clients, NEW vid \in Vids, VehicleDelete(c, vid) PROVE Inv'
  BY <1>3 DEF VehicleDelete
<1>4. ASSUME NEW d \in toServer, OnUDPPacket(d) PROVE Inv'
  <2>1. UNCHANGED <<shown, m_entries, dirty, m_player_to_ep>>
    BY <1>4 DEF OnUDPPacket
  <2>2. toClient' \subseteq toClient \cup {[type |-> "PONG", to |-> d.from]}
    BY <1>4 DEF OnUDPPacket
  <2> QED
    BY <2>1, <2>2, PongIsNoUpdate
<1>5. CASE BroadcastAll
  <2>1. toClient' = toClient
    BY <1>5 DEF BroadcastAll
  <2> QED
    BY <1>5, <2>1 DEF BroadcastAll
<1>6. ASSUME NEW d \in toClient, ClientReceives(d) PROVE Inv'
  BY <1>6 DEF ClientReceives
<1>7. CASE UNCHANGED vars
  BY <1>7 DEF vars
<1> QED
  BY <1>1, <1>2, <1>3, <1>4, <1>5, <1>6, <1>7 DEF Next

\* onUDPPacket drops every VEHICLE_UPDATE, of every client, at every time:
\* UDPServer knows no endpoint, so that neither VehicleSync nor the relaying of AI
\* traffic ever has anything to send, and no other player is ever shown anything.
THEOREM NothingIsRelayed == FairSpec => []NothingRelayed
<1>1. Init => Inv
  BY DEF Init, Inv, NothingRelayed
<1>2. Inv => NothingRelayed
  BY DEF Inv
<1> QED
  BY <1>1, <1>2, InvNext, PTL DEF FairSpec

=============================================================================
