--------------------------- MODULE VehiclesProofs ---------------------------
(***************************************************************************)
(* Theorems about Vehicles: the values of its variables, that clients who  *)
(* are up to date agree, that they show what the server's lists hold, and  *)
(* that they show nothing of a player who left.                            *)
(*                                                                         *)
(* All of it is about what a client will show once it has read the packets *)
(* on their way to it, which the packet sent last decides.                 *)
(***************************************************************************)
EXTENDS Vehicles, TLAPS, FiniteSetTheorems, WellFoundedInduction

-----------------------------------------------------------------------------
(* What Without returns.  Least elements of sets of numbers stand in for   *)
(* induction.                                                              *)

LEMMA LeastElement ==
  ASSUME NEW T \in SUBSET Nat, T # {}
  PROVE  \E m \in T : \A k \in T : m <= k
<1> DEFINE R == {ss \in Nat \X Nat : ss[1] < ss[2]}
<1>1. IsWellFoundedOn(R, Nat)
  BY NatLessThanWellFounded DEF OpToRel
<1>2. \A i, j \in Nat : i < j => <<i, j>> \in R
  OBVIOUS
<1> HIDE DEF R
<1>3. PICK m \in T : \A k \in T : <<k, m>> \notin R
  BY <1>1, WFMin
<1>4. \A k \in T : ~(k < m)
  BY <1>2, <1>3
<1>5. \A k \in T : m <= k
  BY <1>4
<1> QED  BY <1>5

LEMMA OthersFinite ==
  ASSUME NEW S, NEW s \in Seq(S), NEW v
  PROVE  /\ Others(s, v) \subseteq 1 .. Len(s)
         /\ IsFiniteSet(Others(s, v))
         /\ Cardinality(Others(s, v)) \in Nat
         /\ Cardinality(Others(s, v)) <= Len(s)
<1>1. Others(s, v) \subseteq 1 .. Len(s)
  BY DEF Others
<1>2. IsFiniteSet(1 .. Len(s)) /\ Cardinality(1 .. Len(s)) = Len(s)
  <2>1. Len(s) \in Nat
    OBVIOUS
  <2> QED  BY <2>1, FS_Interval
<1> QED  BY <1>1, <1>2, FS_Subset, FS_CardinalityType

LEMMA OthersBeforeType ==
  ASSUME NEW S, NEW s \in Seq(S), NEW v, NEW i \in Nat
  PROVE  /\ IsFiniteSet({j \in Others(s, v) : j < i})
         /\ OthersBefore(s, v, i) \in Nat
BY OthersFinite, FS_Subset, FS_CardinalityType DEF OthersBefore

\* One more position, at most one more vehicle.
LEMMA OthersBeforeNext ==
  ASSUME NEW S, NEW s \in Seq(S), NEW v, NEW i \in Nat
  PROVE  OthersBefore(s, v, i + 1) =
           IF i \in Others(s, v) THEN OthersBefore(s, v, i) + 1 ELSE OthersBefore(s, v, i)
<1> DEFINE B(n) == {j \in Others(s, v) : j < n}
<1>1. Others(s, v) \subseteq Nat
  BY OthersFinite
<1>2. CASE i \in Others(s, v)
  <2>1. B(i + 1) = B(i) \cup {i} /\ i \notin B(i)
    BY <1>1, <1>2
  <2>2. IsFiniteSet(B(i))
    BY OthersBeforeType
  <2>3. Cardinality(B(i + 1)) = Cardinality(B(i)) + 1
    BY <2>1, <2>2, FS_AddElement
  <2> QED  BY <1>2, <2>3 DEF OthersBefore
<1>3. CASE i \notin Others(s, v)
  <2>1. B(i + 1) = B(i)
    BY <1>1, <1>3
  <2> QED  BY <1>3, <2>1 DEF OthersBefore
<1> QED  BY <1>2, <1>3

LEMMA OthersBeforeGrows ==
  ASSUME NEW S, NEW s \in Seq(S), NEW v, NEW i \in Others(s, v), NEW j \in Others(s, v), i < j
  PROVE  OthersBefore(s, v, i) < OthersBefore(s, v, j)
<1> DEFINE B(n) == {k \in Others(s, v) : k < n}
<1>1. i \in Nat /\ j \in Nat /\ Others(s, v) \subseteq Nat
  BY OthersFinite
<1>2. B(i + 1) \subseteq B(j)
  BY <1>1
<1>3. OthersBefore(s, v, i + 1) <= OthersBefore(s, v, j)
  <2>1. IsFiniteSet(B(j))
    BY <1>1, OthersBeforeType
  <2> QED  BY <1>2, <2>1, FS_Subset DEF OthersBefore
<1>4. OthersBefore(s, v, i + 1) = OthersBefore(s, v, i) + 1
  BY <1>1, OthersBeforeNext
<1>5. OthersBefore(s, v, i) \in Nat /\ OthersBefore(s, v, j) \in Nat
  BY <1>1, OthersBeforeType
<1> QED  BY <1>3, <1>4, <1>5

\* There is an n-th of the others, and it is one of them.
LEMMA NthOther ==
  ASSUME NEW S, NEW s \in Seq(S), NEW v, NEW n \in 1 .. Cardinality(Others(s, v))
  PROVE  \E i \in Others(s, v) : OthersBefore(s, v, i) = n - 1
<1> DEFINE T == {m \in Nat : OthersBefore(s, v, m) >= n}
<1>1. Len(s) + 1 \in T
  <2>1. {j \in Others(s, v) : j < Len(s) + 1} = Others(s, v)
    BY OthersFinite
  <2>2. OthersBefore(s, v, Len(s) + 1) = Cardinality(Others(s, v))
    BY <2>1 DEF OthersBefore
  <2>3. Cardinality(Others(s, v)) \in Nat
    BY OthersFinite
  <2> QED  BY <2>2, <2>3
<1>2. PICK m \in T : \A k \in T : m <= k
  <2> HIDE DEF T
  <2>1. T \in SUBSET Nat
    BY DEF T
  <2> QED  BY <1>1, <2>1, LeastElement
<1>3. n \in Nat /\ n >= 1
  BY OthersFinite
<1>4. m # 0
  <2>1. {j \in Others(s, v) : j < 0} = {}
    BY OthersFinite
  <2>2. OthersBefore(s, v, 0) = 0
    BY <2>1, FS_EmptySet DEF OthersBefore
  <2> QED  BY <1>2, <1>3, <2>2
<1>5. m - 1 \in Nat /\ ~(OthersBefore(s, v, m - 1) >= n)
  BY <1>2, <1>4
<1>6. OthersBefore(s, v, m - 1) \in Nat
  BY <1>5, OthersBeforeType
<1>7. OthersBefore(s, v, m) =
        IF m - 1 \in Others(s, v) THEN OthersBefore(s, v, m - 1) + 1
                                  ELSE OthersBefore(s, v, m - 1)
  BY <1>2, <1>5, OthersBeforeNext
<1> QED  BY <1>2, <1>3, <1>5, <1>6, <1>7

\* push_back adds one vehicle.
LEMMA RangeAppend ==
  ASSUME NEW S, NEW s \in Seq(S), NEW v
  PROVE  Range(Append(s, v)) = Range(s) \cup {v}
<1> DEFINE a == Append(s, v)
<1>1. /\ DOMAIN a = 1 .. Len(s) + 1 /\ DOMAIN s = 1 .. Len(s) /\ Len(s) \in Nat
      /\ a[Len(s) + 1] = v /\ \A i \in 1 .. Len(s) : a[i] = s[i]
  OBVIOUS
<1> HIDE DEF a
<1>2. Range(a) = Range(s) \cup {v}
  BY <1>1 DEF Range
<1> QED  BY <1>2 DEF a

\* remove_if: no vehicle with the id stays, every other one does, and there
\* are not more of them than before.
LEMMA WithoutWorks ==
  ASSUME NEW S, NEW s \in Seq(S), NEW v
  PROVE  /\ Without(s, v) \in Seq(S)
         /\ Len(Without(s, v)) <= Len(s)
         /\ Range(Without(s, v)) = Range(s) \ {v}
<1> DEFINE N == Cardinality(Others(s, v))
           at(n) == CHOOSE i \in Others(s, v) : OthersBefore(s, v, i) = n - 1
<1>1. \A n \in 1 .. N : at(n) \in Others(s, v) /\ OthersBefore(s, v, at(n)) = n - 1
  BY NthOther
<1>2. Without(s, v) = [n \in 1 .. N |-> s[at(n)]]
  BY DEF Without
<1>3. N \in Nat /\ N <= Len(s) /\ Others(s, v) \subseteq 1 .. Len(s)
  BY OthersFinite
<1>4. \A i \in Others(s, v) : i \in DOMAIN s /\ s[i] \in S /\ s[i] # v
  BY DEF Others
<1>5. \A i \in Others(s, v) : \E n \in 1 .. N : at(n) = i
  <2> SUFFICES ASSUME NEW i \in Others(s, v)
               PROVE  \E n \in 1 .. N : at(n) = i
    OBVIOUS
  <2> DEFINE n == OthersBefore(s, v, i) + 1
  <2>1. i \in Nat
    BY <1>3
  <2>2. OthersBefore(s, v, i) \in Nat
    BY <2>1, OthersBeforeType
  <2>3. n <= N
    <3>1. OthersBefore(s, v, i + 1) <= N
      BY <2>1, OthersFinite, FS_Subset DEF OthersBefore
    <3> QED  BY <2>1, <3>1, OthersBeforeNext
  <2>4. n \in 1 .. N
    BY <1>3, <2>2, <2>3
  <2>5. at(n) \in Others(s, v) /\ OthersBefore(s, v, at(n)) = OthersBefore(s, v, i)
    BY <1>1, <2>2, <2>4
  <2>6. ~(at(n) < i) /\ ~(i < at(n))
    BY <1>3, <2>2, <2>5, OthersBeforeGrows
  <2>7. at(n) = i
    BY <1>3, <2>1, <2>5, <2>6
  <2> QED  BY <2>4, <2>7
<1> HIDE DEF at, N
<1>6. Without(s, v) \in Seq(S) /\ Len(Without(s, v)) = N
  BY <1>1, <1>2, <1>3, <1>4
<1>7. Range(Without(s, v)) = {s[i] : i \in Others(s, v)}
  BY <1>1, <1>2, <1>5 DEF Range
<1>8. {s[i] : i \in Others(s, v)} = Range(s) \ {v}
  BY DEF Others, Range
<1> QED  BY <1>3, <1>6, <1>7, <1>8

-----------------------------------------------------------------------------
(* What a client will show.                                                *)

Creates(pkt, k) ==
    pkt.type = "VEHICLE_SPAWN" /\ pkt.player = k[1] /\ pkt.vid = k[2]

Removes(pkt, k) ==
    \/ pkt.type = "VEHICLE_DELETE" /\ pkt.vid = k[2]
    \/ pkt.type = "PLAYER_LEAVE" /\ pkt.player = k[1]

\* No packet after the i-th of w removes k.
Survives(w, i, k) == \A j \in DOMAIN w : j > i => ~Removes(w[j], k)

\* A client that shows m shows k when it has read w.
Ends(w, m, k) ==
    \/ k \in m /\ Survives(w, 0, k)
    \/ \E i \in DOMAIN w : Creates(w[i], k) /\ Survives(w, i, k)

WillShow(c, k) == Ends(wire[c], mirror[c], k)

LEMMA CreatesOrRemoves ==
  ASSUME NEW pkt \in Packets, NEW k \in Keys
  PROVE  /\ pkt.type \in {"VEHICLE_SPAWN", "VEHICLE_DELETE", "PLAYER_LEAVE"}
         /\ Creates(pkt, k) => ~Removes(pkt, k)
BY DEF Packets, Creates, Removes

LEMMA SurvivesAppend ==
  ASSUME NEW w \in Seq(Packets), NEW pkt \in Packets, NEW k, NEW i \in 0 .. Len(w)
  PROVE  Survives(Append(w, pkt), i, k) <=> Survives(w, i, k) /\ ~Removes(pkt, k)
<1> DEFINE a == Append(w, pkt)
<1>1. /\ Len(w) \in Nat /\ DOMAIN w = 1 .. Len(w) /\ DOMAIN a = 1 .. Len(w) + 1
      /\ a[Len(w) + 1] = pkt /\ \A j \in 1 .. Len(w) : a[j] = w[j]
  OBVIOUS
<1> HIDE DEF a
<1>2. Survives(a, i, k) <=> Survives(w, i, k) /\ ~Removes(pkt, k)
  <2>1. Survives(a, i, k) <=> \A j \in 1 .. Len(w) + 1 : j > i => ~Removes(a[j], k)
    BY <1>1 DEF Survives
  <2>2. Survives(w, i, k) <=> \A j \in 1 .. Len(w) : j > i => ~Removes(w[j], k)
    BY <1>1 DEF Survives
  <2> QED  BY <1>1, <2>1, <2>2
<1> QED  BY <1>2 DEF a

\* The packet sent last decides.
LEMMA EndsAppend ==
  ASSUME NEW w \in Seq(Packets), NEW pkt \in Packets, NEW m, NEW k \in Keys
  PROVE  Ends(Append(w, pkt), m, k) <=> Creates(pkt, k) \/ (Ends(w, m, k) /\ ~Removes(pkt, k))
<1> DEFINE a == Append(w, pkt)
           n == Len(w) + 1
<1>1. /\ Len(w) \in Nat /\ DOMAIN w = 1 .. Len(w) /\ DOMAIN a = 1 .. n
      /\ a[n] = pkt /\ \A j \in 1 .. Len(w) : a[j] = w[j]
  OBVIOUS
<1>2. \A i \in 0 .. Len(w) : Survives(a, i, k) <=> Survives(w, i, k) /\ ~Removes(pkt, k)
  BY SurvivesAppend
<1>3. Survives(a, n, k)
  BY <1>1 DEF Survives
<1> HIDE DEF a
<1>4. (\E i \in DOMAIN a : Creates(a[i], k) /\ Survives(a, i, k))
        <=> \/ Creates(pkt, k)
            \/ \E i \in DOMAIN w : Creates(w[i], k) /\ Survives(w, i, k) /\ ~Removes(pkt, k)
  <2>1. \A i \in DOMAIN a : i \in DOMAIN w \/ i = n
    BY <1>1
  <2>2. \A i \in DOMAIN w : i \in DOMAIN a /\ i \in 0 .. Len(w) /\ a[i] = w[i]
    BY <1>1
  <2>3. n \in DOMAIN a
    BY <1>1
  <2> QED  BY <1>1, <1>2, <1>3, <2>1, <2>2, <2>3, Zenon
<1>5. Survives(a, 0, k) <=> Survives(w, 0, k) /\ ~Removes(pkt, k)
  BY <1>1, <1>2
<1>6. Ends(a, m, k) <=> Creates(pkt, k) \/ (Ends(w, m, k) /\ ~Removes(pkt, k))
  BY <1>4, <1>5, Zenon DEF Ends
<1> QED  BY <1>6 DEF a

LEMMA SurvivesTail ==
  ASSUME NEW w \in Seq(Packets), w # <<>>, NEW k, NEW i \in 0 .. Len(w) - 1
  PROVE  Survives(Tail(w), i, k) <=> Survives(w, i + 1, k)
<1> DEFINE t == Tail(w)
<1>1. /\ Len(w) \in Nat /\ DOMAIN w = 1 .. Len(w) /\ DOMAIN t = 1 .. Len(w) - 1
      /\ \A j \in 1 .. Len(w) - 1 : t[j] = w[j + 1]
  OBVIOUS
<1> HIDE DEF t
<1>2. ASSUME Survives(t, i, k)  PROVE Survives(w, i + 1, k)
  <2> SUFFICES ASSUME NEW j \in DOMAIN w, j > i + 1  PROVE ~Removes(w[j], k)
    BY DEF Survives
  <2>1. j - 1 \in DOMAIN t /\ j - 1 > i /\ t[j - 1] = w[j]
    BY <1>1
  <2> QED  BY <1>2, <2>1 DEF Survives
<1>3. ASSUME Survives(w, i + 1, k)  PROVE Survives(t, i, k)
  <2> SUFFICES ASSUME NEW j \in DOMAIN t, j > i  PROVE ~Removes(t[j], k)
    BY DEF Survives
  <2>1. j + 1 \in DOMAIN w /\ j + 1 > i + 1 /\ t[j] = w[j + 1]
    BY <1>1
  <2> QED  BY <1>3, <2>1 DEF Survives
<1> QED  BY <1>2, <1>3 DEF t

LEMMA HandlePacketWorks ==
  ASSUME NEW pkt \in Packets, NEW m \in SUBSET Keys
  PROVE  /\ HandlePacket(m, pkt) \in SUBSET Keys
         /\ \A k \in Keys :
              k \in HandlePacket(m, pkt) <=> Creates(pkt, k) \/ (k \in m /\ ~Removes(pkt, k))
<1>1. \A k \in Keys : k = <<k[1], k[2]>>
  BY DEF Keys
<1>2. CASE pkt.type = "VEHICLE_SPAWN"
  <2>1. pkt.player \in Clients /\ pkt.vid \in Vids
    BY <1>2 DEF Packets
  <2>2. HandlePacket(m, pkt) = m \cup {<<pkt.player, pkt.vid>>}
    BY <1>2 DEF HandlePacket, OnRemoteVehicleSpawn
  <2> QED  BY <1>1, <1>2, <2>1, <2>2 DEF Keys, Creates, Removes
<1>3. CASE pkt.type = "VEHICLE_DELETE"
  <2>2. HandlePacket(m, pkt) = {x \in m : x[2] # pkt.vid}
    BY <1>3 DEF HandlePacket, OnRemoteVehicleDelete
  <2> QED  BY <1>3, <2>2 DEF Creates, Removes
<1>4. CASE pkt.type = "PLAYER_LEAVE"
  <2>2. HandlePacket(m, pkt) = {x \in m : x[1] # pkt.player}
    BY <1>4 DEF HandlePacket, OnPlayerLeave
  <2> QED  BY <1>4, <2>2 DEF Creates, Removes
<1> QED  BY <1>2, <1>3, <1>4 DEF Packets

\* Reading a packet changes nothing about what will be shown.
LEMMA EndsTail ==
  ASSUME NEW w \in Seq(Packets), w # <<>>, NEW m \in SUBSET Keys, NEW k \in Keys
  PROVE  Ends(Tail(w), HandlePacket(m, Head(w)), k) <=> Ends(w, m, k)
<1> DEFINE t == Tail(w)
           h == Head(w)
           n == HandlePacket(m, h)
<1>1. /\ Len(w) \in Nat /\ Len(w) >= 1
      /\ DOMAIN w = 1 .. Len(w) /\ DOMAIN t = 1 .. Len(w) - 1
      /\ h = w[1] /\ h \in Packets
      /\ \A j \in 1 .. Len(w) - 1 : t[j] = w[j + 1]
  OBVIOUS
<1>2. \A i \in 0 .. Len(w) - 1 : Survives(t, i, k) <=> Survives(w, i + 1, k)
  BY SurvivesTail
<1>3. k \in n <=> Creates(h, k) \/ (k \in m /\ ~Removes(h, k))
  BY <1>1, HandlePacketWorks
<1> HIDE DEF t, h, n
<1>4. Survives(w, 0, k) <=> Survives(w, 1, k) /\ ~Removes(h, k)
  <2>1. \A j \in DOMAIN w : j > 0 <=> j = 1 \/ j > 1
    BY <1>1
  <2>2. 1 \in DOMAIN w
    BY <1>1
  <2> QED  BY <1>1, <2>1, <2>2 DEF Survives
<1>5. Survives(t, 0, k) <=> Survives(w, 1, k)
  BY <1>1, <1>2
<1>6. (\E i \in DOMAIN w : Creates(w[i], k) /\ Survives(w, i, k))
        <=> \/ Creates(h, k) /\ Survives(w, 1, k)
            \/ \E i \in DOMAIN t : Creates(t[i], k) /\ Survives(t, i, k)
  <2>1. ASSUME NEW i \in DOMAIN w, Creates(w[i], k), Survives(w, i, k), i # 1
        PROVE  \E j \in DOMAIN t : Creates(t[j], k) /\ Survives(t, j, k)
    <3>1. i - 1 \in DOMAIN t /\ t[i - 1] = w[i]
      BY <1>1, <2>1
    <3>2. Survives(t, i - 1, k)
      <4>1. i - 1 \in 0 .. Len(w) - 1 /\ (i - 1) + 1 = i
        BY <1>1, <2>1
      <4> QED  BY <1>2, <2>1, <4>1
    <3> QED  BY <2>1, <3>1, <3>2
  <2>2. ASSUME NEW i \in DOMAIN t, Creates(t[i], k), Survives(t, i, k)
        PROVE  \E j \in DOMAIN w : Creates(w[j], k) /\ Survives(w, j, k)
    <3>1. i + 1 \in DOMAIN w /\ t[i] = w[i + 1] /\ i \in 0 .. Len(w) - 1
      BY <1>1, <2>2
    <3> QED  BY <1>2, <2>2, <3>1
  <2>3. 1 \in DOMAIN w
    BY <1>1
  <2> QED  BY <1>1, <2>1, <2>2, <2>3
<1>7. Ends(t, n, k) <=> Ends(w, m, k)
  BY <1>3, <1>4, <1>5, <1>6 DEF Ends
<1> QED  BY <1>7 DEF t, h, n

LEMMA EndsRead ==
  ASSUME NEW m, NEW k
  PROVE  Ends(<<>>, m, k) <=> k \in m
BY DEF Ends, Survives

-----------------------------------------------------------------------------
(* The inductive invariant.                                                *)

\* What the state of a session says about the rest.
SessionInv ==
    \A c \in Clients :
      /\ sess[c] = "none" => mirror[c] = {}
      /\ sess[c] # "open" => wire[c] = <<>>
      /\ sess[c] \in {"none", "dropped", "left"} => c \notin players
      /\ sess[c] = "unmapped" => c \in players
      /\ c \notin players => vehicles[c] = <<>>
      /\ sess[c] \in {"none", "open", "closed"} /\ c \notin players =>
           pc[c] = "idle" /\ c \notin announced
      /\ sess[c] \in {"dropped", "left"} /\ c \notin overtaken => pc[c] = "idle"

\* The list holds the vehicle being announced, and not the one being deleted;
\* before the first announcement it holds nothing else.
ListInv ==
    \A p \in players :
      /\ pc[p] = "spawned" => arg[p] \in Range(vehicles[p])
      /\ pc[p] = "deleted" => arg[p] \notin Range(vehicles[p])
      /\ p \notin announced =>
           \A v \in Range(vehicles[p]) : pc[p] = "spawned" /\ v = arg[p]

\* The vehicles of a player who announced none are nowhere.
AnnouncedInv ==
    \A c \in Clients, k \in Keys :
      sess[c] = "open" /\ WillShow(c, k) => k[1] \in announced

AgreeInv ==
    \A c, d \in Clients, k \in Keys :
      /\ sess[c] = "open" /\ <<c, k[1]>> \notin missed
      /\ sess[d] = "open" /\ <<d, k[1]>> \notin missed
      => (WillShow(c, k) <=> WillShow(d, k))

GoneInv ==
    \A c, p \in Clients, v \in Vids :
      sess[p] = "left" /\ p \notin overtaken /\ sess[c] = "open" =>
        ~WillShow(c, <<p, v>>)

\* The key is not the one the handler of p has still to announce.
Announced(p, v) == pc[p] \in {"spawned", "deleted"} => v # arg[p]

FollowInv ==
    \A c \in Clients, p \in players, v \in Vids :
      /\ sess[c] = "open" /\ <<c, p>> \notin missed
      /\ <<p, v>> \notin shadowed /\ Announced(p, v)
      => (WillShow(c, <<p, v>>) <=> v \in Range(vehicles[p]))

Inv == TypeOK /\ SessionInv /\ ListInv /\ AnnouncedInv /\ AgreeInv /\ GoneInv /\ FollowInv

-----------------------------------------------------------------------------
(* The values of the variables.                                            *)

LEMMA TypeInit == Init => TypeOK
BY VehiclesAssumption DEF Init, TypeOK, Vids

LEMMA SendAllWire ==
  ASSUME TypeOK, NEW pkt \in Packets, SendAll(pkt)
  PROVE  /\ DOMAIN wire' = Clients
         /\ \A c \in Clients :
              /\ wire'[c] \in Seq(Packets)
              /\ wire'[c] = IF sess[c] = "open" THEN Append(wire[c], pkt) ELSE wire[c]
BY DEF TypeOK, SendAll

LEMMA ReceiveOne ==
  ASSUME TypeOK, NEW c \in Clients, Receive(c)
  PROVE  /\ DOMAIN wire' = Clients
         /\ \A d \in Clients : wire'[d] \in Seq(Packets)
         /\ mirror' \in [Clients -> SUBSET Keys]
<1>1. wire[c] \in Seq(Packets) /\ wire[c] # <<>> /\ mirror[c] \in SUBSET Keys
  BY DEF Receive, TypeOK
<1>2. Head(wire[c]) \in Packets /\ Tail(wire[c]) \in Seq(Packets)
  BY <1>1
<1>3. HandlePacket(mirror[c], Head(wire[c])) \in SUBSET Keys
  BY <1>1, <1>2, HandlePacketWorks
<1> QED  BY <1>2, <1>3 DEF Receive, TypeOK

LEMMA TypeNext == TypeOK /\ [Next]_vars => TypeOK'
<1> SUFFICES ASSUME TypeOK, [Next]_vars  PROVE TypeOK'
  OBVIOUS
<1> USE VehiclesAssumption
<1>1. ASSUME NEW c \in Clients, Accept(c)  PROVE TypeOK'
  BY <1>1 DEF Accept, TypeOK, handlerVars
<1>2. ASSUME NEW c \in Clients, Login(c)  PROVE TypeOK'
  BY <1>2 DEF Login, TypeOK, handlerVars, historyVars
<1>3. ASSUME NEW c \in Clients, Close(c)  PROVE TypeOK'
  BY <1>3 DEF Close, TypeOK, handlerVars, historyVars
<1>4. ASSUME NEW c \in Clients, Unmap(c)  PROVE TypeOK'
  BY <1>4 DEF Unmap, TypeOK, handlerVars, historyVars
<1>5. ASSUME NEW c \in Clients, Drop(c)  PROVE TypeOK'
  BY <1>5 DEF Drop, TypeOK, handlerVars, historyVars
<1>6. ASSUME NEW c \in Clients, Leave(c)  PROVE TypeOK'
  <2>1. [type |-> "PLAYER_LEAVE", player |-> c] \in Packets
    BY DEF Packets
  <2>2. DOMAIN wire' = Clients /\ \A d \in Clients : wire'[d] \in Seq(Packets)
    BY <1>6, <2>1, SendAllWire DEF Leave
  <2> QED  BY <1>6, <2>2 DEF Leave, TypeOK, handlerVars, historyVars
<1>7. ASSUME NEW c \in Clients, BeginSpawn(c) \/ BeginDelete(c)  PROVE TypeOK'
  <2>1. 0 \in Vids
    BY DEF Vids
  <2>2. PICK step \in {"spawn", "delete"}, vid \in Vids : Begin(c, step, vid)
    BY <1>7, <2>1 DEF BeginSpawn, BeginDelete
  <2>3. requests' \in 0 .. MaxRequests
    BY <2>2 DEF Begin, TypeOK
  <2> QED  BY <2>2, <2>3 DEF Begin, TypeOK, sessVars, historyVars
<1>8. ASSUME NEW c \in Clients, Spawn(c)  PROVE TypeOK'
  <2>1. CASE HasRoom(c)
    <3> DEFINE vid == Len(vehicles[c]) % VidRange
    <3>1. vid \in Vids
      BY DEF TypeOK, Vids
    <3>2. vehicles' = [vehicles EXCEPT ![c] = Append(@, vid)] /\ arg' = [arg EXCEPT ![c] = vid]
          /\ pc' = [pc EXCEPT ![c] = "spawned"]
      BY <1>8, <2>1 DEF Spawn
    <3> HIDE DEF vid
    <3>3. DOMAIN vehicles' = Clients
          /\ \A d \in Clients : vehicles'[d] \in Seq(Vids) /\ Len(vehicles'[d]) <= VehicleLimit
      BY <2>1, <3>1, <3>2 DEF TypeOK, HasRoom
    <3> QED  BY <1>8, <3>1, <3>2, <3>3 DEF Spawn, TypeOK, sessVars, historyVars
  <2>2. CASE ~HasRoom(c)
    BY <1>8, <2>2 DEF Spawn, TypeOK, sessVars, historyVars
  <2> QED  BY <2>1, <2>2
<1>9. ASSUME NEW c \in Clients, AnnounceSpawn(c)  PROVE TypeOK'
  <2>1. [type |-> "VEHICLE_SPAWN", player |-> c, vid |-> arg[c]] \in Packets
    BY DEF Packets, TypeOK
  <2>2. DOMAIN wire' = Clients /\ \A d \in Clients : wire'[d] \in Seq(Packets)
    BY <1>9, <2>1, SendAllWire DEF AnnounceSpawn
  <2> QED  BY <1>9, <2>2 DEF AnnounceSpawn, TypeOK, sessVars
<1>10. ASSUME NEW c \in Clients, UseFreedPlayer(c)  PROVE TypeOK'
  <2>1. pc' \in [Clients -> {"idle", "spawn", "spawned", "delete", "deleted"}]
    BY <1>10 DEF UseFreedPlayer, TypeOK
  <2>2. arg' \in [Clients -> Vids]
    BY <1>10 DEF UseFreedPlayer, TypeOK
  <2> QED  BY <1>10, <2>1, <2>2 DEF UseFreedPlayer, TypeOK, sessVars, historyVars
<1>11. ASSUME NEW c \in Clients, Delete(c)  PROVE TypeOK'
  <2>1. vehicles[c] \in Seq(Vids) /\ Len(vehicles[c]) <= VehicleLimit
    BY DEF TypeOK
  <2>2. Without(vehicles[c], arg[c]) \in Seq(Vids)
        /\ Len(Without(vehicles[c], arg[c])) <= VehicleLimit
    BY <2>1, WithoutWorks
  <2>3. DOMAIN vehicles' = Clients
        /\ \A d \in Clients : vehicles'[d] \in Seq(Vids) /\ Len(vehicles'[d]) <= VehicleLimit
    BY <1>11, <2>2 DEF Delete, TypeOK
  <2> QED  BY <1>11, <2>3 DEF Delete, TypeOK, sessVars, historyVars
<1>12. ASSUME NEW c \in Clients, AnnounceDelete(c)  PROVE TypeOK'
  <2>1. [type |-> "VEHICLE_DELETE", vid |-> arg[c]] \in Packets
    BY DEF Packets, TypeOK
  <2>2. DOMAIN wire' = Clients /\ \A d \in Clients : wire'[d] \in Seq(Packets)
    BY <1>12, <2>1, SendAllWire DEF AnnounceDelete
  <2>3. shadowed' \subseteq Keys
    BY <1>12 DEF AnnounceDelete, TypeOK, Keys
  <2> QED  BY <1>12, <2>2, <2>3 DEF AnnounceDelete, TypeOK, sessVars
<1>13. ASSUME NEW c \in Clients, Receive(c)  PROVE TypeOK'
  <2>1. DOMAIN wire' = Clients /\ (\A d \in Clients : wire'[d] \in Seq(Packets))
        /\ mirror' \in [Clients -> SUBSET Keys]
    BY <1>13, ReceiveOne
  <2> QED  BY <1>13, <2>1 DEF Receive, TypeOK, sessVars, handlerVars, historyVars
<1>14. CASE UNCHANGED vars
  BY <1>14 DEF vars, sessVars, handlerVars, historyVars, TypeOK
<1> QED
  BY <1>1, <1>2, <1>3, <1>4, <1>5, <1>6, <1>7, <1>8, <1>9, <1>10, <1>11, <1>12, <1>13, <1>14 DEF Next

\* The values of the variables in every behaviour; nobody gets more vehicles
\* than handleVehicleSpawn's limit, however the requests, the announcements and
\* onDisconnect interleave.
THEOREM TypeCorrect == Spec => []TypeOK
BY TypeInit, TypeNext, PTL DEF Spec

-----------------------------------------------------------------------------
(* How the steps change what clients will show.                            *)

LEMMA WillShowSent ==
  ASSUME TypeOK, NEW pkt \in Packets, SendAll(pkt), UNCHANGED mirror
  PROVE  \A c \in Clients, k \in Keys :
           sess[c] = "open" =>
             (WillShow(c, k)' <=> Creates(pkt, k) \/ (WillShow(c, k) /\ ~Removes(pkt, k)))
<1> SUFFICES ASSUME NEW c \in Clients, NEW k \in Keys, sess[c] = "open"
             PROVE  WillShow(c, k)' <=> Creates(pkt, k) \/ (WillShow(c, k) /\ ~Removes(pkt, k))
  OBVIOUS
<1>1. wire[c] \in Seq(Packets) /\ wire'[c] = Append(wire[c], pkt)
  BY SendAllWire DEF TypeOK
<1> QED  BY <1>1, EndsAppend DEF WillShow

LEMMA WillShowRead ==
  ASSUME TypeOK, NEW d \in Clients, Receive(d)
  PROVE  \A c \in Clients, k \in Keys : WillShow(c, k)' <=> WillShow(c, k)
<1> SUFFICES ASSUME NEW c \in Clients, NEW k \in Keys
             PROVE  WillShow(c, k)' <=> WillShow(c, k)
  OBVIOUS
<1>1. CASE c = d
  <2>1. wire[c] \in Seq(Packets) /\ wire[c] # <<>> /\ mirror[c] \in SUBSET Keys
    BY <1>1 DEF Receive, TypeOK
  <2>2. wire'[c] = Tail(wire[c]) /\ mirror'[c] = HandlePacket(mirror[c], Head(wire[c]))
    BY <1>1 DEF Receive, TypeOK
  <2> QED  BY <2>1, <2>2, EndsTail DEF WillShow
<1>2. CASE c # d
  BY <1>2 DEF Receive, TypeOK, WillShow
<1> QED  BY <1>1, <1>2

\* The packets of the three announcements, and what they do to a key.
Announcement(pkt, c) ==
    \/ Leave(c) /\ pkt = [type |-> "PLAYER_LEAVE", player |-> c]
    \/ AnnounceSpawn(c) /\ pkt = [type |-> "VEHICLE_SPAWN", player |-> c, vid |-> arg[c]]
    \/ AnnounceDelete(c) /\ pkt = [type |-> "VEHICLE_DELETE", vid |-> arg[c]]

LEMMA AnnouncementSent ==
  ASSUME TypeOK, NEW c \in Clients, NEW pkt, Announcement(pkt, c)
  PROVE  pkt \in Packets /\ SendAll(pkt) /\ UNCHANGED mirror
BY DEF Announcement, Leave, AnnounceSpawn, AnnounceDelete, Packets, TypeOK

\* A session that opens shows nothing.
LEMMA NewSessionShowsNothing ==
  ASSUME TypeOK, SessionInv, Next, NEW c \in Clients, sess'[c] = "open", sess[c] # "open"
  PROVE  Accept(c) /\ \A k \in Keys : ~WillShow(c, k)'
<1>1. Accept(c)
  BY DEF Next, Accept, Login, Close, Unmap, Drop, Leave, BeginSpawn, BeginDelete, Begin, Spawn,
         AnnounceSpawn, UseFreedPlayer, Delete, AnnounceDelete, Receive, sessVars, TypeOK
<1>2. wire'[c] = <<>> /\ mirror'[c] = {}
  BY <1>1 DEF Accept, SessionInv
<1> QED  BY <1>1, <1>2, EndsRead DEF WillShow

\* The sessions that stay open will show what they would have shown, but for
\* what is announced now, which all of them are told.
LEMMA WillShowNext ==
  ASSUME TypeOK, Next
  PROVE  \/ \A c \in Clients, k \in Keys :
              sess[c] = "open" /\ sess'[c] = "open" => (WillShow(c, k)' <=> WillShow(c, k))
         \/ \E d \in Clients : \E pkt \in Packets :
              /\ Announcement(pkt, d)
              /\ \A c \in Clients, k \in Keys :
                   sess[c] = "open" =>
                     (WillShow(c, k)' <=> Creates(pkt, k) \/ (WillShow(c, k) /\ ~Removes(pkt, k)))
<1> DEFINE Same == \A c \in Clients, k \in Keys :
                      sess[c] = "open" /\ sess'[c] = "open" =>
                        (WillShow(c, k)' <=> WillShow(c, k))
<1>1. ASSUME NEW d \in Clients, Close(d)  PROVE Same
  <2>1. \A c \in Clients : sess'[c] = "open" => c # d
    BY <1>1 DEF Close, TypeOK
  <2> QED  BY <1>1, <2>1 DEF Close, TypeOK, WillShow
<1>2. ASSUME NEW d \in Clients, Receive(d)  PROVE Same
  BY <1>2, WillShowRead
<1>3. ASSUME NEW d \in Clients, Accept(d) \/ Login(d) \/ Unmap(d) \/ Drop(d)
               \/ BeginSpawn(d) \/ Spawn(d) \/ UseFreedPlayer(d) \/ BeginDelete(d) \/ Delete(d)
      PROVE  Same
  <2>1. UNCHANGED <<wire, mirror>>
    BY <1>3 DEF Accept, Login, Unmap, Drop, BeginSpawn, BeginDelete, Begin, Spawn,
                UseFreedPlayer, Delete
  <2> QED  BY <2>1 DEF WillShow
<1>4. ASSUME NEW d \in Clients, Leave(d) \/ AnnounceSpawn(d) \/ AnnounceDelete(d)
      PROVE  \E pkt \in Packets :
               /\ Announcement(pkt, d)
               /\ \A c \in Clients, k \in Keys :
                    sess[c] = "open" =>
                      (WillShow(c, k)' <=> Creates(pkt, k) \/ (WillShow(c, k) /\ ~Removes(pkt, k)))
  <2>1. PICK pkt : Announcement(pkt, d)
    BY <1>4 DEF Announcement
  <2>2. pkt \in Packets /\ SendAll(pkt) /\ UNCHANGED mirror
    BY <2>1, AnnouncementSent
  <2> QED  BY <2>1, <2>2, WillShowSent
<1> HIDE DEF Same
<1>5. Same \/ \E d \in Clients : Leave(d) \/ AnnounceSpawn(d) \/ AnnounceDelete(d)
  BY <1>1, <1>2, <1>3 DEF Next
<1> QED  BY <1>4, <1>5 DEF Same

-----------------------------------------------------------------------------
(* Every step keeps the invariant, one part after another.                 *)

LEMMA InvInit == Init => Inv
<1> SUFFICES ASSUME Init  PROVE Inv
  OBVIOUS
<1>1. \A c \in Clients : sess[c] = "none"
  BY DEF Init
<1>2. TypeOK
  BY TypeInit
<1>3. SessionInv
  BY DEF Init, SessionInv
<1>4. players = {}
  BY DEF Init
<1> QED  BY <1>1, <1>2, <1>3, <1>4 DEF Inv, ListInv, AnnouncedInv, AgreeInv, GoneInv, FollowInv

LEMMA SessionNext == TypeOK /\ SessionInv /\ Next => SessionInv'
<1> SUFFICES ASSUME TypeOK, SessionInv, Next  PROVE SessionInv'
  OBVIOUS
<1>1. ASSUME NEW c \in Clients, Accept(c)  PROVE SessionInv'
  BY <1>1 DEF Accept, SessionInv, TypeOK, handlerVars
<1>2. ASSUME NEW c \in Clients, Login(c)  PROVE SessionInv'
  BY <1>2 DEF Login, SessionInv, TypeOK, handlerVars, historyVars
<1>3. ASSUME NEW c \in Clients, Close(c)  PROVE SessionInv'
  BY <1>3 DEF Close, SessionInv, TypeOK, handlerVars, historyVars
<1>4. ASSUME NEW c \in Clients, Unmap(c)  PROVE SessionInv'
  BY <1>4 DEF Unmap, SessionInv, TypeOK, handlerVars, historyVars
<1>5. ASSUME NEW c \in Clients, Drop(c)  PROVE SessionInv'
  BY <1>5 DEF Drop, SessionInv, TypeOK, handlerVars, historyVars
<1>6. ASSUME NEW c \in Clients, NEW pkt \in Packets, Announcement(pkt, c)  PROVE SessionInv'
  <2>1. \A d \in Clients : sess[d] # "open" => wire'[d] = wire[d]
    BY <1>6, AnnouncementSent, SendAllWire
  <2>2. CASE Leave(c)
    BY <2>1, <2>2 DEF Leave, SessionInv, TypeOK, handlerVars, historyVars
  <2>3. CASE AnnounceSpawn(c)
    BY <2>1, <2>3 DEF AnnounceSpawn, SessionInv, TypeOK, sessVars
  <2>4. CASE AnnounceDelete(c)
    BY <2>1, <2>4 DEF AnnounceDelete, SessionInv, TypeOK, sessVars
  <2> QED  BY <1>6, <2>2, <2>3, <2>4 DEF Announcement
<1>7. ASSUME NEW c \in Clients, NEW step, NEW vid, Begin(c, step, vid)  PROVE SessionInv'
  BY <1>7 DEF Begin, SessionInv, TypeOK, sessVars, historyVars
<1>8. ASSUME NEW c \in Clients, Spawn(c)  PROVE SessionInv'
  <2>1. \A d \in Clients : d # c => vehicles'[d] = vehicles[d] /\ pc'[d] = pc[d]
    BY <1>8 DEF Spawn, TypeOK
  <2> QED  BY <1>8, <2>1 DEF Spawn, SessionInv, TypeOK, sessVars, historyVars
<1>9. ASSUME NEW c \in Clients, UseFreedPlayer(c)  PROVE SessionInv'
  <2>1. \A d \in Clients : d # c => pc'[d] = pc[d]
    BY <1>9 DEF UseFreedPlayer, TypeOK
  <2> QED  BY <1>9, <2>1 DEF UseFreedPlayer, SessionInv, sessVars, historyVars
<1>10. ASSUME NEW c \in Clients, Delete(c)  PROVE SessionInv'
  <2>1. \A d \in Clients : d # c => vehicles'[d] = vehicles[d] /\ pc'[d] = pc[d]
    BY <1>10 DEF Delete, TypeOK
  <2> QED  BY <1>10, <2>1 DEF Delete, SessionInv, TypeOK, sessVars, historyVars
<1>11. ASSUME NEW c \in Clients, Receive(c)  PROVE SessionInv'
  <2>1. \A d \in Clients : d # c => wire'[d] = wire[d] /\ mirror'[d] = mirror[d]
    BY <1>11 DEF Receive, TypeOK
  <2>2. wire[c] # <<>>
    BY <1>11 DEF Receive
  <2> QED  BY <1>11, <2>1, <2>2 DEF Receive, SessionInv, sessVars, handlerVars, historyVars
<1>12. ASSUME NEW c \in Clients, Leave(c) \/ AnnounceSpawn(c) \/ AnnounceDelete(c)
       PROVE  \E pkt \in Packets : Announcement(pkt, c)
  <2>1. PICK pkt : Announcement(pkt, c)
    BY <1>12 DEF Announcement
  <2> QED  BY <2>1, AnnouncementSent
<1> QED
  BY <1>1, <1>2, <1>3, <1>4, <1>5, <1>6, <1>7, <1>8, <1>9, <1>10, <1>11, <1>12
     DEF Next, BeginSpawn, BeginDelete

LEMMA ListNext == TypeOK /\ SessionInv /\ ListInv /\ Next => ListInv'
<1> SUFFICES ASSUME TypeOK, SessionInv, ListInv, Next  PROVE ListInv'
  OBVIOUS
<1>1. ASSUME NEW c \in Clients, Accept(c) \/ Close(c) \/ Unmap(c) \/ Leave(c) \/ Receive(c)
      PROVE  ListInv'
  BY <1>1 DEF Accept, Close, Unmap, Leave, Receive, ListInv, sessVars, handlerVars, historyVars
<1>2. ASSUME NEW c \in Clients, Login(c)  PROVE ListInv'
  <2>1. c \notin players /\ pc[c] = "idle" /\ vehicles[c] = <<>>
    BY <1>2 DEF Login, SessionInv
  <2>2. Range(vehicles[c]) = {}
    BY <2>1 DEF Range
  <2> QED  BY <1>2, <2>1, <2>2 DEF Login, ListInv, handlerVars, historyVars
<1>3. ASSUME NEW c \in Clients, Drop(c)  PROVE ListInv'
  BY <1>3 DEF Drop, ListInv, TypeOK, handlerVars, historyVars
<1>4. ASSUME NEW c \in Clients, NEW step \in {"spawn", "delete"}, NEW vid, Begin(c, step, vid)
      PROVE  ListInv'
  BY <1>4 DEF Begin, ListInv, TypeOK, sessVars, historyVars
<1>5. ASSUME NEW c \in Clients, Spawn(c)  PROVE ListInv'
  <2>1. \A d \in Clients : d # c =>
          vehicles'[d] = vehicles[d] /\ pc'[d] = pc[d] /\ arg'[d] = arg[d]
    BY <1>5 DEF Spawn, TypeOK
  <2>2. CASE HasRoom(c)
    <3> DEFINE vid == Len(vehicles[c]) % VidRange
    <3>1. vehicles'[c] = Append(vehicles[c], vid) /\ arg'[c] = vid /\ pc'[c] = "spawned"
      BY <1>5, <2>2 DEF Spawn, TypeOK
    <3> HIDE DEF vid
    <3>2. Range(Append(vehicles[c], vid)) = Range(vehicles[c]) \cup {vid}
      BY RangeAppend DEF TypeOK
    <3>3. c \notin announced => Range(vehicles[c]) = {}
      BY <1>5 DEF Spawn, ListInv
    <3>4. players' = players /\ announced' = announced
      BY <1>5 DEF Spawn, sessVars, historyVars
    <3>5. Range(vehicles'[c]) = Range(vehicles[c]) \cup {arg'[c]}
      BY <3>1, <3>2
    <3> QED  BY <2>1, <3>1, <3>3, <3>4, <3>5 DEF ListInv, TypeOK
  <2>3. CASE ~HasRoom(c)
    BY <1>5, <2>3 DEF Spawn, ListInv, TypeOK, sessVars, historyVars
  <2> QED  BY <2>2, <2>3
<1>6. ASSUME NEW c \in Clients, UseFreedPlayer(c)  PROVE ListInv'
  <2>1. \A d \in Clients : d # c => pc'[d] = pc[d] /\ arg'[d] = arg[d]
    BY <1>6 DEF UseFreedPlayer, TypeOK
  <2> QED  BY <1>6, <2>1 DEF UseFreedPlayer, ListInv, TypeOK, sessVars, historyVars
<1>7. ASSUME NEW c \in Clients, AnnounceSpawn(c)  PROVE ListInv'
  BY <1>7 DEF AnnounceSpawn, ListInv, TypeOK, sessVars
<1>8. ASSUME NEW c \in Clients, Delete(c)  PROVE ListInv'
  <2>1. \A d \in Clients : d # c => vehicles'[d] = vehicles[d] /\ pc'[d] = pc[d]
    BY <1>8 DEF Delete, TypeOK
  <2>2. Range(vehicles'[c]) = Range(vehicles[c]) \ {arg[c]} /\ pc'[c] = "deleted"
    BY <1>8, WithoutWorks DEF Delete, TypeOK
  <2>3. c \notin announced => Range(vehicles[c]) = {}
    BY <1>8 DEF Delete, ListInv
  <2> QED  BY <1>8, <2>1, <2>2, <2>3 DEF Delete, ListInv, TypeOK, sessVars, historyVars
<1>9. ASSUME NEW c \in Clients, AnnounceDelete(c)  PROVE ListInv'
  BY <1>9 DEF AnnounceDelete, ListInv, TypeOK, sessVars
<1> QED
  BY <1>1, <1>2, <1>3, <1>4, <1>5, <1>6, <1>7, <1>8, <1>9 DEF Next, BeginSpawn, BeginDelete

LEMMA AnnouncedGrows ==
  ASSUME Next
  PROVE  announced \subseteq announced' /\ overtaken \subseteq overtaken' /\ missed \subseteq missed'
BY DEF Next, Accept, Login, Close, Unmap, Drop, Leave, BeginSpawn, BeginDelete, Begin, Spawn,
       AnnounceSpawn, UseFreedPlayer, Delete, AnnounceDelete, Receive, sessVars, historyVars

LEMMA AnnouncedNext == TypeOK /\ SessionInv /\ AnnouncedInv /\ Next => AnnouncedInv'
<1> SUFFICES ASSUME TypeOK, SessionInv, AnnouncedInv, Next,
                    NEW c \in Clients, NEW k \in Keys, sess'[c] = "open", WillShow(c, k)'
             PROVE  k[1] \in announced'
  BY DEF AnnouncedInv
<1>1. sess[c] = "open"
  BY NewSessionShowsNothing
<1>2. CASE WillShow(c, k)
  BY <1>1, <1>2, AnnouncedGrows DEF AnnouncedInv
<1>3. ASSUME NEW d \in Clients, NEW pkt \in Packets, Announcement(pkt, d), Creates(pkt, k)
      PROVE  k[1] \in announced'
  BY <1>3 DEF Announcement, Creates, AnnounceSpawn
<1> QED  BY <1>1, <1>2, <1>3, WillShowNext

LEMMA AgreeNext == TypeOK /\ SessionInv /\ AnnouncedInv' /\ AgreeInv /\ Next => AgreeInv'
<1> SUFFICES ASSUME TypeOK, SessionInv, AnnouncedInv', AgreeInv, Next,
                    NEW c \in Clients, NEW d \in Clients, NEW k \in Keys,
                    sess'[c] = "open", <<c, k[1]>> \notin missed',
                    sess'[d] = "open", <<d, k[1]>> \notin missed'
             PROVE  WillShow(c, k)' <=> WillShow(d, k)'
  BY DEF AgreeInv
<1>1. ASSUME NEW e \in Clients, Accept(e), <<e, k[1]>> \notin missed'
      PROVE  k[1] \notin announced'
  BY <1>1 DEF Accept, TypeOK
<1>2. CASE sess[c] # "open" \/ sess[d] # "open"
  <2>1. k[1] \notin announced'
    BY <1>1, <1>2, NewSessionShowsNothing
  <2> QED  BY <2>1 DEF AnnouncedInv
<1>3. CASE sess[c] = "open" /\ sess[d] = "open"
  <2>1. WillShow(c, k) <=> WillShow(d, k)
    BY <1>3, AnnouncedGrows DEF AgreeInv
  <2> QED  BY <1>3, <2>1, WillShowNext
<1> QED  BY <1>2, <1>3

LEMMA GoneNext == TypeOK /\ SessionInv /\ AnnouncedInv' /\ GoneInv /\ Next => GoneInv'
<1> SUFFICES ASSUME TypeOK, SessionInv, AnnouncedInv', GoneInv, Next,
                    NEW c \in Clients, NEW p \in Clients, NEW v \in Vids,
                    sess'[p] = "left", p \notin overtaken', sess'[c] = "open"
             PROVE  ~WillShow(c, <<p, v>>)'
  BY DEF GoneInv
<1> DEFINE k == <<p, v>>
<1>1. k \in Keys /\ k[1] = p /\ k[2] = v
  BY DEF Keys
<1> HIDE DEF k
<1>2. p \notin overtaken
  BY AnnouncedGrows
<1>3. CASE sess[c] # "open"
  BY <1>1, <1>3, NewSessionShowsNothing DEF k
<1>4. CASE sess[c] = "open" /\ sess[p] = "left"
  <2>1. ~WillShow(c, k)
    BY <1>2, <1>4 DEF GoneInv, k
  <2>2. pc[p] = "idle"
    BY <1>2, <1>4 DEF SessionInv
  <2>3. ASSUME NEW d \in Clients, NEW pkt \in Packets, Announcement(pkt, d)
        PROVE  ~Creates(pkt, k)
    BY <1>1, <2>2, <2>3 DEF Announcement, Creates, AnnounceSpawn
  <2> QED  BY <1>1, <1>4, <2>1, <2>3, WillShowNext DEF k
<1>5. CASE sess[c] = "open" /\ sess[p] # "left" /\ Leave(p)
  <2> DEFINE pkt == [type |-> "PLAYER_LEAVE", player |-> p]
  <2>1. Announcement(pkt, p)
    BY <1>5 DEF Announcement
  <2>2. pkt \in Packets /\ SendAll(pkt) /\ UNCHANGED mirror
    BY <2>1, AnnouncementSent
  <2>3. ~Creates(pkt, k) /\ Removes(pkt, k)
    BY <1>1 DEF Creates, Removes
  <2> HIDE DEF pkt
  <2> QED  BY <1>1, <1>5, <2>2, <2>3, WillShowSent DEF k
<1>6. CASE sess[p] # "left" /\ ~Leave(p)
  <2>1. Unmap(p) /\ p \notin players
    BY <1>6 DEF Next, Accept, Login, Close, Unmap, Drop, Leave, BeginSpawn, BeginDelete, Begin,
         Spawn, AnnounceSpawn, UseFreedPlayer, Delete, AnnounceDelete, Receive, sessVars, TypeOK
  <2>2. p \notin announced'
    BY <2>1 DEF Unmap, SessionInv, historyVars
  <2> QED  BY <1>1, <2>2 DEF AnnouncedInv, k
<1> QED  BY <1>3, <1>4, <1>5, <1>6

LEMMA OneAnnouncement ==
  ASSUME TypeOK, NEW d \in Clients
  PROVE  /\ Leave(d) => ~AnnounceSpawn(d) /\ ~AnnounceDelete(d)
         /\ AnnounceSpawn(d) => ~AnnounceDelete(d)
<1>1. Leave(d) => sess'[d] # sess[d]
  BY DEF Leave, TypeOK
<1>2. AnnounceSpawn(d) \/ AnnounceDelete(d) => sess' = sess
  BY DEF AnnounceSpawn, AnnounceDelete, sessVars
<1>3. AnnounceSpawn(d) => ~AnnounceDelete(d)
  BY DEF AnnounceSpawn, AnnounceDelete
<1> QED  BY <1>1, <1>2, <1>3

\* The keys that an announcement concerns.
LEMMA AnnouncementNames ==
  ASSUME TypeOK, NEW d \in Clients, NEW pkt \in Packets, Announcement(pkt, d),
         NEW p \in Clients, NEW v \in Vids
  PROVE  /\ Creates(pkt, <<p, v>>) <=> AnnounceSpawn(d) /\ p = d /\ v = arg[d]
         /\ Removes(pkt, <<p, v>>) <=> \/ AnnounceDelete(d) /\ v = arg[d]
                                       \/ Leave(d) /\ p = d
BY OneAnnouncement DEF Announcement, Creates, Removes

LEMMA FollowNext ==
  TypeOK /\ SessionInv /\ ListInv /\ AnnouncedInv /\ FollowInv /\ Next => FollowInv'
<1> SUFFICES ASSUME TypeOK, SessionInv, ListInv, AnnouncedInv, FollowInv, Next,
                    NEW c \in Clients, NEW p \in players', NEW v \in Vids,
                    sess'[c] = "open", <<c, p>> \notin missed', <<p, v>> \notin shadowed',
                    Announced(p, v)'
             PROVE  WillShow(c, <<p, v>>)' <=> v \in Range(vehicles'[p])
  BY DEF FollowInv
<1> DEFINE k == <<p, v>>
<1>1. players' \subseteq Clients /\ p \in Clients
  BY TypeNext DEF TypeOK
<1>2. k \in Keys /\ k[1] = p /\ k[2] = v
  BY <1>1 DEF Keys
<1> HIDE DEF k
<1>3. CASE sess[c] # "open"
  <2>1. Accept(c) /\ ~WillShow(c, k)'
    BY <1>2, <1>3, NewSessionShowsNothing
  <2>2. p \in players /\ p \notin announced /\ Announced(p, v)
    BY <1>1, <2>1 DEF Accept, TypeOK, Announced, handlerVars
  <2>3. v \notin Range(vehicles[p])
    BY <2>2 DEF ListInv, Announced
  <2> QED  BY <2>1, <2>3 DEF Accept, k
<1>4. CASE sess[c] = "open" /\ p \notin players
  <2>1. Login(p)
    BY <1>1, <1>4 DEF Next, Accept, Login, Close, Unmap, Drop, Leave, BeginSpawn, BeginDelete,
         Begin, Spawn, AnnounceSpawn, UseFreedPlayer, Delete, AnnounceDelete, Receive, sessVars
  <2>2. vehicles[p] = <<>> /\ p \notin announced
    BY <1>1, <2>1 DEF Login, SessionInv
  <2>3. Range(vehicles'[p]) = {}
    BY <2>1, <2>2 DEF Login, Range
  <2>4. ~WillShow(c, k)'
    BY <1>2, <1>4, <2>1, <2>2 DEF Login, AnnouncedInv, WillShow
  <2> QED  BY <2>3, <2>4 DEF k
<1>5. CASE sess[c] = "open" /\ p \in players
  <2>1. <<c, p>> \notin missed
    BY AnnouncedGrows
  <2>2. <<p, v>> \notin shadowed /\ Announced(p, v) =>
          (WillShow(c, k) <=> v \in Range(vehicles[p]))
    BY <1>5, <2>1 DEF FollowInv, k
  <2>3. ASSUME NEW d \in Clients, Leave(d) \/ AnnounceSpawn(d) \/ AnnounceDelete(d)
        PROVE  WillShow(c, k)' <=>
                 \/ AnnounceSpawn(d) /\ p = d /\ v = arg[d]
                 \/ WillShow(c, k) /\ ~(AnnounceDelete(d) /\ v = arg[d]) /\ ~(Leave(d) /\ p = d)
    <3>1. PICK pkt : Announcement(pkt, d)
      BY <2>3 DEF Announcement
    <3>2. pkt \in Packets /\ SendAll(pkt) /\ UNCHANGED mirror
      BY <3>1, AnnouncementSent
    <3>3. WillShow(c, k)' <=> Creates(pkt, k) \/ (WillShow(c, k) /\ ~Removes(pkt, k))
      BY <1>2, <1>5, <3>2, WillShowSent
    <3> QED  BY <1>1, <3>1, <3>2, <3>3, AnnouncementNames DEF k
  <2>4. ASSUME NEW d \in Clients, Leave(d)  PROVE WillShow(c, k)' <=> v \in Range(vehicles'[p])
    <3>1. p # d
      BY <1>5, <2>4 DEF Leave, SessionInv
    <3>2. UNCHANGED <<shadowed, vehicles, pc, arg>>
      BY <2>4 DEF Leave, handlerVars, historyVars
    <3>3. ~AnnounceSpawn(d) /\ ~AnnounceDelete(d)
      BY <2>4, OneAnnouncement
    <3>4. <<p, v>> \notin shadowed /\ Announced(p, v)
      BY <3>2 DEF Announced
    <3> QED  BY <2>2, <2>3, <2>4, <3>1, <3>2, <3>3, <3>4
  <2>5. ASSUME NEW d \in Clients, AnnounceSpawn(d)
        PROVE  WillShow(c, k)' <=> v \in Range(vehicles'[p])
    <3>1. UNCHANGED vehicles /\ ~Leave(d) /\ ~AnnounceDelete(d) /\ pc[d] = "spawned"
      BY <2>5, OneAnnouncement DEF AnnounceSpawn
    <3>2. CASE p = d /\ v = arg[d]
      BY <1>5, <2>3, <2>5, <3>1, <3>2 DEF ListInv
    <3>3. CASE ~(p = d /\ v = arg[d])
      <4>1. <<p, v>> \notin shadowed /\ Announced(p, v)
        BY <1>1, <2>5, <3>3 DEF AnnounceSpawn, Announced, TypeOK
      <4> QED  BY <2>2, <2>3, <2>5, <3>1, <3>3, <4>1
    <3> QED  BY <3>2, <3>3
  <2>6. ASSUME NEW d \in Clients, AnnounceDelete(d)
        PROVE  WillShow(c, k)' <=> v \in Range(vehicles'[p])
    <3>1. UNCHANGED vehicles /\ ~Leave(d) /\ ~AnnounceSpawn(d) /\ pc[d] = "deleted"
      BY <2>6, OneAnnouncement DEF AnnounceDelete
    <3>2. CASE v = arg[d]
      <4>1. p = d
        BY <1>1, <2>6, <3>2 DEF AnnounceDelete
      <4> QED  BY <1>5, <2>3, <2>6, <3>1, <3>2, <4>1 DEF ListInv
    <3>3. CASE v # arg[d]
      <4>1. <<p, v>> \notin shadowed /\ Announced(p, v)
        BY <1>1, <2>6, <3>3 DEF AnnounceDelete, Announced, TypeOK
      <4> QED  BY <2>2, <2>3, <2>6, <3>1, <3>3, <4>1
    <3> QED  BY <3>2, <3>3
  <2>7. ASSUME NEW d \in Clients, Spawn(d)  PROVE WillShow(c, k)' <=> v \in Range(vehicles'[p])
    <3>1. UNCHANGED <<wire, mirror, shadowed>>
      BY <2>7 DEF Spawn, historyVars
    <3>2. CASE p = d /\ HasRoom(d)
      <4> DEFINE vid == Len(vehicles[d]) % VidRange
      <4>1. vehicles'[p] = Append(vehicles[p], vid) /\ arg'[p] = vid /\ pc'[p] = "spawned"
        BY <2>7, <3>2 DEF Spawn, TypeOK
      <4> HIDE DEF vid
      <4>2. Range(vehicles'[p]) = Range(vehicles[p]) \cup {vid}
        BY <1>1, <4>1, RangeAppend DEF TypeOK
      <4>3. v # vid /\ Announced(p, v)
        BY <2>7, <3>2, <4>1 DEF Announced, Spawn
      <4> QED  BY <2>2, <3>1, <4>2, <4>3 DEF WillShow
    <3>3. CASE ~(p = d /\ HasRoom(d))
      <4>1. vehicles'[p] = vehicles[p]
        BY <1>1, <2>7, <3>3 DEF Spawn, TypeOK
      <4>2. Announced(p, v)
        BY <1>1, <2>7, <3>3 DEF Spawn, TypeOK, Announced
      <4> QED  BY <2>2, <3>1, <4>1, <4>2 DEF WillShow
    <3> QED  BY <3>2, <3>3
  <2>8. ASSUME NEW d \in Clients, Delete(d)  PROVE WillShow(c, k)' <=> v \in Range(vehicles'[p])
    <3>1. UNCHANGED <<wire, mirror, shadowed>>
      BY <2>8 DEF Delete, historyVars
    <3>2. CASE p = d
      <4>1. Range(vehicles'[p]) = Range(vehicles[p]) \ {arg[p]}
        BY <2>8, <3>2, WithoutWorks DEF Delete, TypeOK
      <4>2. v # arg[p] /\ Announced(p, v)
        BY <2>8, <3>2 DEF Announced, Delete, TypeOK
      <4> QED  BY <2>2, <3>1, <4>1, <4>2 DEF WillShow
    <3>3. CASE p # d
      <4>1. vehicles'[p] = vehicles[p] /\ Announced(p, v)
        BY <1>1, <2>8, <3>3 DEF Delete, TypeOK, Announced
      <4> QED  BY <2>2, <3>1, <4>1 DEF WillShow
    <3> QED  BY <3>2, <3>3
  <2>9. ASSUME NEW d \in Clients, Drop(d)  PROVE WillShow(c, k)' <=> v \in Range(vehicles'[p])
    <3>1. p # d
      BY <2>9 DEF Drop
    <3>2. vehicles'[p] = vehicles[p] /\ UNCHANGED <<wire, mirror, pc, arg, shadowed>>
      BY <1>1, <2>9, <3>1 DEF Drop, TypeOK, handlerVars, historyVars
    <3> QED  BY <2>2, <3>2 DEF WillShow, Announced
  <2>10. ASSUME NEW d \in Clients, UseFreedPlayer(d)
         PROVE  WillShow(c, k)' <=> v \in Range(vehicles'[p])
    <3>1. pc'[p] = pc[p] /\ arg'[p] = arg[p]
      BY <1>1, <1>5, <2>10 DEF UseFreedPlayer, TypeOK
    <3>2. UNCHANGED <<wire, mirror, vehicles, shadowed>>
      BY <2>10 DEF UseFreedPlayer, historyVars
    <3> QED  BY <2>2, <3>1, <3>2 DEF WillShow, Announced
  <2>11. ASSUME NEW d \in Clients, NEW step \in {"spawn", "delete"}, NEW vid, Begin(d, step, vid)
         PROVE  WillShow(c, k)' <=> v \in Range(vehicles'[p])
    <3>1. Announced(p, v)
      BY <1>1, <2>11 DEF Begin, TypeOK, Announced
    <3>2. UNCHANGED <<wire, mirror, vehicles, shadowed>>
      BY <2>11 DEF Begin, historyVars
    <3> QED  BY <2>2, <3>1, <3>2 DEF WillShow
  <2>12. ASSUME NEW d \in Clients, Close(d)  PROVE WillShow(c, k)' <=> v \in Range(vehicles'[p])
    <3>1. c # d
      BY <2>12 DEF Close, TypeOK
    <3>2. wire'[c] = wire[c] /\ UNCHANGED <<mirror, vehicles, pc, arg, shadowed>>
      BY <2>12, <3>1 DEF Close, TypeOK, handlerVars, historyVars
    <3> QED  BY <2>2, <3>2 DEF WillShow, Announced
  <2>13. ASSUME NEW d \in Clients, Receive(d)  PROVE WillShow(c, k)' <=> v \in Range(vehicles'[p])
    <3>1. UNCHANGED <<vehicles, pc, arg, shadowed>>
      BY <2>13 DEF Receive, handlerVars, historyVars
    <3> QED  BY <1>2, <2>2, <2>13, <3>1, WillShowRead DEF Announced
  <2>14. ASSUME NEW d \in Clients, Accept(d) \/ Login(d) \/ Unmap(d)
         PROVE  WillShow(c, k)' <=> v \in Range(vehicles'[p])
    <3>1. UNCHANGED <<wire, mirror, vehicles, pc, arg, shadowed>>
      BY <2>14 DEF Accept, Login, Unmap, handlerVars, historyVars
    <3> QED  BY <2>2, <3>1 DEF WillShow, Announced
  <2>15. WillShow(c, k)' <=> v \in Range(vehicles'[p])
    BY <2>4, <2>5, <2>6, <2>7, <2>8, <2>9, <2>10, <2>11, <2>12, <2>13, <2>14
       DEF Next, BeginSpawn, BeginDelete
  <2> QED  BY <2>15 DEF k
<1> QED  BY <1>3, <1>4, <1>5

-----------------------------------------------------------------------------
(* The theorems.                                                           *)

LEMMA InvNext == Inv /\ [Next]_vars => Inv'
<1>1. Inv /\ Next => Inv'
  BY TypeNext, SessionNext, ListNext, AnnouncedNext, AgreeNext, GoneNext, FollowNext DEF Inv
<1>2. Inv /\ UNCHANGED vars => Inv'
  BY DEF vars, sessVars, handlerVars, historyVars, Inv, TypeOK, SessionInv, ListInv,
         AnnouncedInv, AgreeInv, GoneInv, FollowInv, Announced, WillShow
<1> QED  BY <1>1, <1>2

LEMMA VehiclesInvariant == Spec => []Inv
BY InvInit, InvNext, PTL DEF Spec

\* With nothing on the way, what a client shows is what it will show.
LEMMA ShownIsWillShow ==
  ASSUME TypeOK, NEW c \in Clients, NEW p, wire[c] = <<>>
  PROVE  /\ Shown(c, p) \subseteq Vids
         /\ \A v : v \in Shown(c, p) <=> WillShow(c, <<p, v>>)
<1>1. mirror[c] \subseteq Keys
  BY DEF TypeOK
<1>2. \A v : WillShow(c, <<p, v>>) <=> <<p, v>> \in mirror[c]
  BY EndsRead DEF WillShow
<1>3. \A x \in mirror[c] : x = <<x[1], x[2]>> /\ x[2] \in Vids
  BY <1>1 DEF Keys
<1>4. \A v : v \in Shown(c, p) <=> <<p, v>> \in mirror[c]
  BY <1>3 DEF Shown
<1>5. Shown(c, p) \subseteq Vids
  BY <1>3 DEF Shown
<1> QED  BY <1>2, <1>4, <1>5

\* sendAll holds m_sessions_mutex for its whole loop: whatever the handlers and
\* onDisconnect do, two clients that are up to date show the same vehicles.
THEOREM ClientsAgree == Spec => []MirrorsAgree
<1>1. Inv => MirrorsAgree
  <2> SUFFICES ASSUME Inv, NEW c \in Clients, NEW d \in Clients, NEW p \in Clients,
                      Settled(c, p), Settled(d, p)
               PROVE  Shown(c, p) = Shown(d, p)
    BY DEF MirrorsAgree
  <2>1. \A v \in Vids : WillShow(c, <<p, v>>) <=> WillShow(d, <<p, v>>)
    <3>1. \A v \in Vids : <<p, v>> \in Keys /\ <<p, v>>[1] = p
      BY DEF Keys
    <3> QED  BY <3>1 DEF Inv, AgreeInv, Settled
  <2>2. Shown(c, p) \subseteq Vids /\ \A v : v \in Shown(c, p) <=> WillShow(c, <<p, v>>)
    BY ShownIsWillShow DEF Inv, Settled
  <2>3. Shown(d, p) \subseteq Vids /\ \A v : v \in Shown(d, p) <=> WillShow(d, <<p, v>>)
    BY ShownIsWillShow DEF Inv, Settled
  <2> QED  BY <2>1, <2>2, <2>3
<1> QED  BY <1>1, VehiclesInvariant, PTL

\* onDisconnect announces the leave after it erased the player: a client that is
\* up to date shows no vehicle of a player who left, unless a handler of the
\* player was still at work when the player was erased.
THEOREM NoGhosts == Spec => []NoGhostVehicles
<1>1. Inv => NoGhostVehicles
  <2> SUFFICES ASSUME Inv, NEW c \in Clients, NEW p \in Clients, sess[p] = "left",
                      p \notin overtaken, sess[c] = "open", wire[c] = <<>>, NEW v \in Vids
               PROVE  ~WillShow(c, <<p, v>>)
    BY ShownIsWillShow DEF Inv, NoGhostVehicles
  <2> QED  BY DEF Inv, GoneInv
<1> QED  BY <1>1, VehiclesInvariant, PTL

\* handleVehicleSpawn and handleVehicleDelete announce each change of the list
\* before the session's next packet is handled: a client that is up to date
\* shows the vehicles the server has, but for those that another player's
\* VEHICLE_DELETE named.
THEOREM ClientsFollow == Spec => []MirrorsFollow
<1>1. Inv => MirrorsFollow
  <2> SUFFICES ASSUME Inv, NEW c \in Clients, NEW p \in Clients, Settled(c, p), p \in players,
                      pc[p] = "idle", NEW v \in Vids, <<p, v>> \notin shadowed
               PROVE  WillShow(c, <<p, v>>) <=> v \in Range(vehicles[p])
    <3>1. ASSUME NEW c \in Clients, NEW p \in Clients, Inv, Settled(c, p)
          PROVE  /\ Shown(c, p) \subseteq Vids /\ Range(vehicles[p]) \subseteq Vids
                 /\ \A v : v \in Shown(c, p) <=> WillShow(c, <<p, v>>)
      <4>1. Range(vehicles[p]) \subseteq Vids
        BY <3>1 DEF Inv, TypeOK, Range
      <4> QED  BY <3>1, <4>1, ShownIsWillShow DEF Inv, Settled
    <3> QED  BY <3>1 DEF MirrorsFollow
  <2> QED  BY DEF Inv, FollowInv, Settled, Announced
<1> QED  BY <1>1, VehiclesInvariant, PTL

=============================================================================
