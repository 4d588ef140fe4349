-------------------------- MODULE GameServerProofs --------------------------
(***************************************************************************)
(* Proofs about GameServer for any number of threads, connections and      *)
(* players, and for both behaviours of a mutex locked twice.               *)
(***************************************************************************)
EXTENDS GameServer, FiniteSetTheorems, TLAPS

USE DEF netVars

\* Labels only a packet handler reaches, and labels of a close in progress.
PacketLabels ==
    {"reply", "reject", "count", "alloc_check", "alloc_load", "alloc_store",
     "insert", "veto", "info", "bridge_ok", "ready", "join", "directed",
     "directed_send", "chat", "chat_lua"}
CloseLabels == {"kick_send", "disconnect", "erase", "unmap", "drop", "leave"}

\* The part of the state that Return and Continue touch: its types, what the
\* locals of a thread hold where it stands, and one handler per session.
ThreadsOK ==
    /\ reading \subseteq Sids
    /\ m_sessions_mutex \in Threads \cup {NoThread}
    /\ m_players_mutex \in Threads \cup {NoThread}
    /\ pc \in [Threads -> Labels]
    /\ sid \in [Threads -> Sids \cup {NoSid}]
    /\ vic \in [Threads -> Sids \cup {NoSid}]
    /\ pid \in [Threads -> Pids]
    /\ role \in [Threads -> Roles]
    /\ \A t \in Threads : pc[t] \in PacketLabels =>
          t \in IoThreads /\ sid[t] \in Sids /\ vic[t] \in Sids
    /\ \A t \in Threads : pc[t] \in CloseLabels => vic[t] \in Sids
    /\ SerialHandlers

\* The rest of the state.
StoreOK ==
    /\ m_next_session_id \in 1..(MaxSessions + 1)
    /\ peers \subseteq Sids /\ open \subseteq Sids /\ writing \subseteq Sids
    /\ m_sessions \subseteq Sids
    /\ m_session_to_player \in [Sids -> Pids]
    /\ m_players \in [Pids -> Player \cup {NoPlayer}]
    /\ m_next_player_id \in Pids
    /\ inserts \in [Sids -> Nat]
    /\ leaves \in [Sids -> Nat]
    /\ exact \in BOOLEAN
    \* a connection not accepted yet has no read and no handler
    /\ \A c \in Sids : c >= m_next_session_id =>
          c \notin reading /\ \A t \in Threads : sid[t] # c

Inv1 == ThreadsOK /\ StoreOK

LEMMA Constants ==
    /\ NoSid \notin Sids /\ NoPid \in Pids /\ 1 \in Pids /\ 0 \in Pids
    /\ \A p \in Pids : NextId(p) \in Pids
    /\ "idle" \in Labels /\ "player" \in Roles
    /\ PacketLabels \subseteq Labels /\ CloseLabels \subseteq Labels
    /\ "idle" \notin PacketLabels /\ "idle" \notin CloseLabels
    /\ Sids \subseteq Nat /\ Pids \subseteq Nat
  BY BoundsAssumption
  DEF Sids, NoSid, Pids, NoPid, NextId, Labels, Roles, PacketLabels, CloseLabels

LEMMA InitOK == Init => Inv1
  <1> SUFFICES ASSUME Init PROVE Inv1
    OBVIOUS
  <1>1. ThreadsOK
    BY Constants, BoundsAssumption DEF Init, ThreadsOK, SerialHandlers
  <1>2. StoreOK
    BY Constants, BoundsAssumption DEF Init, StoreOK, Sids
  <1> QED BY <1>1, <1>2 DEF Inv1

LEMMA ReturnOK ==
    ASSUME ThreadsOK, NEW t \in Threads, Return(t) PROVE ThreadsOK'
  <1> USE Constants DEF Return, ThreadsOK, Goto
  <1>1. /\ pc' \in [Threads -> Labels]
        /\ sid' \in [Threads -> Sids \cup {NoSid}]
        /\ vic' \in [Threads -> Sids \cup {NoSid}]
        /\ pid' \in [Threads -> Pids]
        /\ role' \in [Threads -> Roles]
    OBVIOUS
  <1>2. /\ m_sessions_mutex' \in Threads \cup {NoThread}
        /\ m_players_mutex' \in Threads \cup {NoThread}
        /\ reading' \subseteq Sids
    BY DEF Unlocked, ReArmed
  <1>3. \A u \in Threads : /\ u # t => pc'[u] = pc[u] /\ sid'[u] = sid[u] /\ vic'[u] = vic[u]
                           /\ u = t => pc'[u] = "idle" /\ sid'[u] = NoSid
    OBVIOUS
  <1>4. SerialHandlers'
    BY <1>3, <1>2 DEF SerialHandlers, ReArmed
  <1> QED BY <1>1, <1>2, <1>3, <1>4

LEMMA ContinueOK ==
    ASSUME ThreadsOK, NEW t \in Threads, NEW l \in Labels, Continue(t, l),
           l \in PacketLabels => pc[t] \in PacketLabels,
           l \in CloseLabels => vic[t] \in Sids
    PROVE  ThreadsOK'
  BY DEF ThreadsOK, Continue, Goto, localVars, lockVars, SerialHandlers

\* A step of a handler that only moves its own thread on, and writes.
LEMMA SendOK ==
    ASSUME Inv1, NEW t \in Threads, ThreadsOK', Continue(t, pc'[t]) \/ Return(t),
           Send(Sids) \/ UNCHANGED writing \/ (\E c \in Sids \cup {NoSid} : Send({c})),
           UNCHANGED <<m_next_session_id, peers, open, m_sessions, mapVars,
                       m_next_player_id, ghostVars>>
    PROVE  Inv1'
  <1>1. writing' \subseteq Sids
    BY DEF Inv1, StoreOK, Send
  <1>2. \A c \in Sids : c >= m_next_session_id =>
          c \notin reading' /\ \A u \in Threads : sid'[u] # c
    BY Constants DEF Inv1, StoreOK, ThreadsOK, Continue, Return, ReArmed, localVars
  <1> QED BY <1>1, <1>2 DEF Inv1, StoreOK, mapVars, ghostVars

\* Actions that keep both maps and go on in the same handler.
LEMMA PassOnOK ==
    ASSUME Inv1, NEW t \in Threads,
           \/ AuthReject(t) \/ CountPlayers(t) \/ AuthOk(t) \/ BridgeOk(t)
           \/ BroadcastPlayerJoin(t) \/ ChatCommand(t) \/ KickSend(t)
    PROVE  Inv1'
  <1> USE DEF At, PacketLabels, CloseLabels, Labels
  <1>1. PICK l \in Labels : /\ Continue(t, l)
                            /\ l \in PacketLabels => pc[t] \in PacketLabels
                            /\ l \in CloseLabels => pc[t] \in PacketLabels \cup CloseLabels
    <2> DEFINE Goes(l) == /\ Continue(t, l)
                          /\ l \in PacketLabels => pc[t] \in PacketLabels
                          /\ l \in CloseLabels => pc[t] \in PacketLabels \cup CloseLabels
    <2>1. CASE AuthReject(t) \/ KickSend(t)
      <3>1. Goes("disconnect")
        BY <2>1 DEF AuthReject, KickSend
      <3> QED BY <3>1
    <2>2. CASE CountPlayers(t)
      <3>1. Goes("reject") \/ Goes("alloc_check")
        BY <2>2 DEF CountPlayers
      <3> QED BY <3>1
    <2>3. CASE AuthOk(t)
      <3>1. Goes("info")
        BY <2>3 DEF AuthOk
      <3> QED BY <3>1
    <2>4. CASE BridgeOk(t) \/ BroadcastPlayerJoin(t) \/ ChatCommand(t)
      <3>1. Goes("directed")
        BY <2>4 DEF BridgeOk, BroadcastPlayerJoin, ChatCommand
      <3> QED BY <3>1
    <2> QED BY <2>1, <2>2, <2>3, <2>4
  <1>2. vic[t] \in Sids \/ l \notin CloseLabels
    BY <1>1 DEF Inv1, ThreadsOK
  <1>3. ThreadsOK'
    BY <1>1, <1>2, ContinueOK DEF Inv1
  <1>4. Continue(t, pc'[t])
    BY <1>1 DEF Continue, Goto, Inv1, ThreadsOK
  <1>5. /\ Send(Sids) \/ UNCHANGED writing \/ (\E c \in Sids \cup {NoSid} : Send({c}))
        /\ UNCHANGED <<m_next_session_id, peers, open, m_sessions, mapVars,
                        m_next_player_id, ghostVars>>
    BY DEF AuthReject, CountPlayers, AuthOk, BridgeOk, BroadcastPlayerJoin, ChatCommand, KickSend,
           Inv1, ThreadsOK
  <1> QED BY <1>3, <1>4, <1>5, SendOK

\* Actions that keep both maps and end the handler.
LEMMA ReturnsOK ==
    ASSUME Inv1, NEW t \in Threads,
           \/ AuthReply(t) \/ SendServerInfo(t) \/ DirectedSend(t) \/ ChatBroadcast(t)
    PROVE  Inv1'
  <1>1. Return(t)
    BY DEF AuthReply, SendServerInfo, DirectedSend, ChatBroadcast
  <1>2. ThreadsOK'
    BY <1>1, ReturnOK DEF Inv1
  <1>3. /\ Send(Sids) \/ UNCHANGED writing \/ (\E c \in Sids \cup {NoSid} : Send({c}))
        /\ UNCHANGED <<m_next_session_id, peers, open, m_sessions, mapVars,
                        m_next_player_id, ghostVars>>
    BY DEF AuthReply, SendServerInfo, DirectedSend, ChatBroadcast, SessionsOf, Inv1, ThreadsOK
  <1> QED BY <1>1, <1>2, <1>3, SendOK

LEMMA GetPlayerOK ==
    ASSUME Inv1, NEW t \in Threads, Ready(t) \/ Chat(t) PROVE Inv1'
  <1> USE DEF At, PacketLabels, CloseLabels, Labels, GetPlayer
  <1>1. Continue(t, "join") \/ Continue(t, "chat_lua") \/ Return(t)
    BY DEF Ready, Chat
  <1>2. ThreadsOK'
    BY <1>1, ReturnOK, ContinueOK DEF Inv1, Ready, Chat
  <1>3. Continue(t, pc'[t]) \/ Return(t)
    BY <1>1 DEF Continue, Goto, Inv1, ThreadsOK
  <1>4. UNCHANGED <<m_next_session_id, peers, open, m_sessions, mapVars,
                    m_next_player_id, ghostVars, writing>>
    BY DEF Ready, Chat
  <1> QED BY <1>2, <1>3, <1>4, SendOK

\* The login's steps.
LEMMA AllocOK ==
    ASSUME Inv1, NEW t \in Threads, AllocCheck(t) \/ AllocLoad(t) \/ AllocStore(t) PROVE Inv1'
  <1> USE DEF At, PacketLabels, CloseLabels, Labels
  <1>1. ThreadsOK'
    <2>1. CASE AllocCheck(t) \/ AllocStore(t)
      <3>1. pc[t] \in PacketLabels /\ (Continue(t, "alloc_load") \/ Continue(t, "insert"))
        BY <2>1 DEF AllocCheck, AllocStore
      <3> QED BY <3>1, ContinueOK DEF Inv1
    <2>2. CASE AllocLoad(t)
      BY <2>2 DEF AllocLoad, Inv1, StoreOK, ThreadsOK, Goto, lockVars, tcpVars, SerialHandlers
    <2> QED BY <2>1, <2>2
  <1>2. m_next_player_id' \in Pids
    <2>1. m_next_player_id \in Pids /\ pid[t] \in Pids
      BY DEF Inv1, StoreOK, ThreadsOK
    <2> QED BY <2>1, Constants DEF AllocCheck, AllocLoad, AllocStore
  <1>3. exact' \in BOOLEAN
    BY DEF AllocCheck, AllocLoad, AllocStore, Inv1, StoreOK, ghostVars
  <1>4. UNCHANGED <<m_next_session_id, peers, open, writing, m_sessions, mapVars, inserts, leaves,
                    reading, sid>>
    BY DEF AllocCheck, AllocLoad, AllocStore, Continue, localVars, tcpVars, ghostVars
  <1> QED BY <1>1, <1>2, <1>3, <1>4 DEF Inv1, StoreOK, mapVars

LEMMA InsertOK ==
    ASSUME Inv1, NEW t \in Threads, Insert(t) PROVE Inv1'
  <1> USE DEF At, PacketLabels, CloseLabels, Labels
  <1>1. ThreadsOK'
    BY ContinueOK DEF Inv1, Insert
  <1>2. /\ sid[t] \in Sids /\ role[t] \in Roles /\ pid[t] \in Pids
        /\ [sid |-> sid[t], role |-> role[t]] \in Player
    BY DEF Inv1, ThreadsOK, Insert, Player
  <1>3. /\ m_session_to_player' \in [Sids -> Pids]
        /\ m_players' \in [Pids -> Player \cup {NoPlayer}]
        /\ inserts' \in [Sids -> Nat]
    BY <1>2 DEF Inv1, StoreOK, Insert
  <1>4. UNCHANGED <<m_next_session_id, peers, open, writing, m_sessions, m_next_player_id,
                    leaves, exact, reading, sid>>
    BY DEF Insert, Continue, localVars
  <1> QED BY <1>1, <1>3, <1>4 DEF Inv1, StoreOK

LEMMA VetoOK ==
    ASSUME Inv1, NEW t \in Threads, Veto(t) PROVE Inv1'
  <1> USE DEF At, PacketLabels, CloseLabels, Labels
  <1>1. ThreadsOK'
    BY ContinueOK DEF Inv1, Veto
  <1>2. /\ m_session_to_player' \in [Sids -> Pids]
        /\ m_players' \in [Pids -> Player \cup {NoPlayer}]
    BY Constants DEF Inv1, StoreOK, Veto, VetoErases
  <1>3. UNCHANGED <<m_next_session_id, peers, open, writing, m_sessions, m_next_player_id,
                    inserts, leaves, exact, reading, sid>>
    BY DEF Veto, Continue, localVars, ghostVars
  <1> QED BY <1>1, <1>2, <1>3 DEF Inv1, StoreOK

\* Locking m_players_mutex for a message or a kick.
LEMMA LockOK ==
    ASSUME Inv1, NEW t \in Threads,
           DirectedLock(t) \/ \E p \in Pids : ChatKick(t, p) \/ Kick(t, p)
    PROVE  Inv1'
  <1> USE DEF At, Goto, PacketLabels, CloseLabels, Labels, localVars, tcpVars
  <1>1. UNCHANGED <<tcpVars, mapVars, m_next_player_id, m_sessions_mutex, sid, pid, role, ghostVars>>
    BY DEF DirectedLock, ChatKick, Kick, KickLock
  <1>2. m_players_mutex' = t
    BY DEF DirectedLock, ChatKick, Kick, KickLock
  <1>3. \/ pc[t] = "directed" /\ pc' = [pc EXCEPT ![t] = "directed_send"] /\ vic' = vic
        \/ /\ pc' = [pc EXCEPT ![t] = "kick_send"]
           /\ \E c \in Sids : vic' = [vic EXCEPT ![t] = c]
    BY DEF DirectedLock, ChatKick, Kick, KickLock, SessionsOf
  <1>4. ThreadsOK'
    BY <1>1, <1>2, <1>3 DEF Inv1, ThreadsOK, SerialHandlers
  <1> QED BY <1>1, <1>4 DEF Inv1, StoreOK, mapVars, ghostVars

\* The steps of a close.
LEMMA CloseOK ==
    ASSUME Inv1, NEW t \in Threads,
           Erase(t) \/ DropPlayer(t) \/ BroadcastPlayerLeave(t)
    PROVE  Inv1'
  <1> USE DEF At, PacketLabels, CloseLabels, Labels
  <1>1. ThreadsOK'
    <2>1. CASE Erase(t) \/ DropPlayer(t)
      <3>1. vic[t] \in Sids
        BY <2>1 DEF Inv1, ThreadsOK, Erase, DropPlayer
      <3> QED BY <2>1, <3>1, ContinueOK DEF Inv1, Erase, DropPlayer
    <2>2. CASE BroadcastPlayerLeave(t)
      BY <2>2, ReturnOK DEF Inv1, BroadcastPlayerLeave
    <2> QED BY <2>1, <2>2
  <1>2. /\ m_sessions' \subseteq Sids /\ writing' \subseteq Sids
        /\ m_players' \in [Pids -> Player \cup {NoPlayer}]
        /\ leaves' \in [Sids -> Nat]
    BY DEF Inv1, StoreOK, Erase, DropPlayer, BroadcastPlayerLeave, ForgetsSession, Send, mapVars, ghostVars
  <1>3. UNCHANGED <<m_next_session_id, peers, open, m_session_to_player, m_next_player_id,
                    inserts, exact>>
    BY DEF Erase, DropPlayer, BroadcastPlayerLeave, mapVars, ghostVars
  <1>4. \A c \in Sids : c >= m_next_session_id =>
          c \notin reading' /\ \A u \in Threads : sid'[u] # c
    BY Constants DEF Inv1, StoreOK, ThreadsOK, Erase, DropPlayer, BroadcastPlayerLeave,
       Continue, Return, ReArmed, localVars
  <1> QED BY <1>1, <1>2, <1>3, <1>4 DEF Inv1, StoreOK

LEMMA UnmapOK ==
    ASSUME Inv1, NEW t \in Threads, Unmap(t) PROVE Inv1'
  <1> USE DEF At, PacketLabels, CloseLabels, Labels
  <1>1. vic[t] \in Sids
    BY DEF Inv1, ThreadsOK, Unmap
  <1>2. ThreadsOK'
    <2>1. CASE Return(t)
      BY <2>1, ReturnOK DEF Inv1
    <2>2. CASE ~Return(t)
      <3>1. /\ pid' = [pid EXCEPT ![t] = m_session_to_player[vic[t]]]
            /\ pc' = [pc EXCEPT ![t] = "drop"]
            /\ UNCHANGED <<reading, sid, vic, role, lockVars>>
        BY <2>2 DEF Unmap, Goto
      <3>2. m_session_to_player[vic[t]] \in Pids
        BY <1>1 DEF Inv1, StoreOK
      <3> QED BY <1>1, <3>1, <3>2 DEF Inv1, ThreadsOK, SerialHandlers, lockVars
    <2> QED BY <2>1, <2>2
  <1>3. m_session_to_player' \in [Sids -> Pids]
    BY Constants DEF Inv1, StoreOK, Unmap, TakeMapping
  <1>4. UNCHANGED <<m_next_session_id, peers, open, writing, m_sessions, m_players, m_next_player_id,
                    inserts, leaves, exact>>
    BY DEF Unmap, ghostVars
  <1>5. \A c \in Sids : c >= m_next_session_id =>
          c \notin reading' /\ \A u \in Threads : sid'[u] # c
    BY Constants DEF Inv1, StoreOK, ThreadsOK, Unmap, Return, ReArmed
  <1> QED BY <1>2, <1>3, <1>4, <1>5 DEF Inv1, StoreOK

LEMMA DisconnectOK ==
    ASSUME Inv1, NEW t \in Threads, Disconnect(t) PROVE Inv1'
  <1> USE DEF At, PacketLabels, CloseLabels, Labels
  <1>1. ThreadsOK'
    <2>1. CASE Return(t)
      BY <2>1, ReturnOK DEF Inv1
    <2>2. CASE ~Return(t)
      <3>1. /\ m_sessions_mutex' = t
            /\ pc' = [pc EXCEPT ![t] = "erase"]
            /\ vic' = [vic EXCEPT ![t] = vic[t]]
            /\ UNCHANGED <<reading, sid, pid, role, m_players_mutex>>
        BY <2>2 DEF Disconnect, CloseSocket, Goto
      <3> QED BY <3>1 DEF Inv1, ThreadsOK, SerialHandlers, Disconnect
    <2> QED BY <2>1, <2>2
  <1>2. open' \subseteq Sids
    BY DEF Inv1, StoreOK, Disconnect, CloseSocket
  <1>3. UNCHANGED <<m_next_session_id, peers, writing, m_sessions, mapVars, m_next_player_id,
                    ghostVars>>
    BY DEF Disconnect
  <1>4. \A c \in Sids : c >= m_next_session_id =>
          c \notin reading' /\ \A u \in Threads : sid'[u] # c
    BY Constants DEF Inv1, StoreOK, ThreadsOK, Disconnect, Return, ReArmed
  <1> QED BY <1>1, <1>2, <1>3, <1>4 DEF Inv1, StoreOK, mapVars, ghostVars

\* The network's steps.
LEMMA NetworkOK ==
    ASSUME Inv1, Accept \/ \E c \in Sids : PeerCloses(c) \/ WriteDone(c) PROVE Inv1'
  <1>1. CASE Accept
    <2>1. m_next_session_id \in Sids
      BY <1>1, BoundsAssumption DEF Accept, Inv1, StoreOK, Sids
    <2>2. ThreadsOK'
      BY <1>1, <2>1, Constants DEF Accept, Inv1, StoreOK, ThreadsOK, SerialHandlers, lockVars, localVars
    <2>3. StoreOK'
      BY <1>1, <2>1, BoundsAssumption DEF Accept, Inv1, StoreOK, ThreadsOK, Sids, mapVars, ghostVars, localVars
    <2> QED BY <2>2, <2>3 DEF Inv1
  <1>2. ASSUME NEW c \in Sids, PeerCloses(c) \/ WriteDone(c) PROVE Inv1'
    BY <1>2 DEF PeerCloses, WriteDone, Inv1, StoreOK, ThreadsOK, SerialHandlers, mapVars, ghostVars,
       lockVars, localVars
  <1> QED BY <1>1, <1>2

LEMMA ErrorOK ==
    ASSUME Inv1, NEW t \in IoThreads, NEW c \in Sids, ReadError(t, c) \/ BadLength(t, c) \/ WriteError(t, c)
    PROVE  Inv1'
  <1> USE DEF At, PacketLabels, CloseLabels, Labels
  <1>1. /\ pc' = [pc EXCEPT ![t] = "erase"] /\ vic' = [vic EXCEPT ![t] = c]
        /\ reading' \subseteq reading /\ writing' \subseteq writing /\ open' \subseteq open
        /\ UNCHANGED <<m_next_session_id, peers, m_sessions, mapVars, m_next_player_id, lockVars,
                        sid, pid, role, ghostVars>>
    BY DEF ReadError, BadLength, EndRead, WriteError, CloseSocket, Goto
  <1>2. ThreadsOK'
    BY <1>1 DEF Inv1, ThreadsOK, SerialHandlers, lockVars, Threads
  <1>3. StoreOK'
    BY <1>1 DEF Inv1, StoreOK, mapVars, ghostVars
  <1> QED BY <1>2, <1>3 DEF Inv1

LEMMA ReceiveOK ==
    ASSUME Inv1, NEW t \in IoThreads, NEW c \in Sids, NEW r \in Requests, Receive(t, c, r)
    PROVE  Inv1'
  <1>1. Entry(r) \in PacketLabels
    BY SwitchesAssumption DEF Entry, AllRequests, PacketLabels
  <1>2. c \in reading
    BY DEF Receive
  <1>3. ThreadsOK'
    <2>1. Entry(r) \notin CloseLabels
      BY <1>1 DEF PacketLabels, CloseLabels
    <2> QED
      BY <1>1, <1>2, <2>1, Constants
      DEF Inv1, StoreOK, ThreadsOK, SerialHandlers, Receive, ConsumesRead, Goto, Threads, lockVars, Roles
  <1>4. StoreOK'
    BY <1>2 DEF Inv1, StoreOK, ThreadsOK, Receive, ConsumesRead, mapVars, ghostVars, Threads
  <1> QED BY <1>3, <1>4 DEF Inv1

LEMMA NextOK == Inv1 /\ [Next]_vars => Inv1'
  <1> SUFFICES ASSUME Inv1, [Next]_vars PROVE Inv1'
    OBVIOUS
  <1>1. CASE Accept \/ \E c \in Sids : PeerCloses(c) \/ WriteDone(c)
    BY <1>1, NetworkOK
  <1>2. CASE \E t \in IoThreads : PickUp(t)
    BY <1>2, ErrorOK, ReceiveOK DEF PickUp
  <1>3. CASE \E t \in Admins, p \in Pids : Kick(t, p)
    BY <1>3, LockOK DEF Threads
  <1>4. ASSUME NEW t \in Threads, Step(t) PROVE Inv1'
    BY <1>4, PassOnOK, ReturnsOK, GetPlayerOK, AllocOK, InsertOK, VetoOK, LockOK, CloseOK,
       UnmapOK, DisconnectOK DEF Step
  <1>5. CASE UNCHANGED vars
    BY <1>5 DEF vars, tcpVars, mapVars, lockVars, localVars, ghostVars, Inv1, ThreadsOK, StoreOK,
       SerialHandlers
  <1> QED BY <1>1, <1>2, <1>3, <1>4, <1>5 DEF Next

\* Every state of the server is well typed: in particular each handler label
\* is reached with the session and player it needs.
THEOREM TypeCorrect == Spec => []TypeOK
  <1>1. Inv1 => TypeOK
    BY DEF Inv1, ThreadsOK, StoreOK, TypeOK
  <1> QED BY <1>1, InitOK, NextOK, PTL DEF Spec

\* For any number of threads and sessions: packets of one session are handled
\* one at a time.
THEOREM HandlersAreSerial == Spec => []SerialHandlers
  <1>1. Inv1 => SerialHandlers
    BY DEF Inv1, ThreadsOK
  <1> QED BY <1>1, InitOK, NextOK, PTL DEF Spec

-----------------------------------------------------------------------------
(* The player limit.  The invariant is inductive because it counts the      *)
(* threads between the test and the insert together with the players.       *)

AllocLabels == {"alloc_check", "alloc_load", "alloc_store", "insert"}

LEMMA CountsAreNumbers ==
    ASSUME Inv1
    PROVE  /\ IsFiniteSet(HumanPlayers) /\ IsFiniteSet(Online) /\ IsFiniteSet(Admitted)
           /\ IsFiniteSet(IoThreads) /\ Admitted \subseteq IoThreads
           /\ Cardinality(HumanPlayers) \in Nat /\ Cardinality(Online) \in Nat
           /\ Cardinality(Admitted) \in Nat /\ Cardinality(IoThreads) \in Nat
           /\ Cardinality(HumanPlayers) <= Cardinality(Online)
           /\ Cardinality(Admitted) <= Cardinality(IoThreads)
  <1>1. IsFiniteSet(Pids)
    BY FS_Interval, BoundsAssumption DEF Pids
  <1>2. IsFiniteSet(Online)
    BY <1>1, FS_Subset DEF Online
  <1>3. HumanPlayers \subseteq Online
    BY DEF HumanPlayers
  <1>4. Admitted \subseteq IoThreads
    BY DEF Inv1, ThreadsOK, Admitted, PacketLabels
  <1>5. IsFiniteSet(IoThreads)
    BY ThreadsAssumption
  <1>6. IsFiniteSet(HumanPlayers) /\ Cardinality(HumanPlayers) <= Cardinality(Online)
    BY <1>2, <1>3, FS_Subset
  <1>7. IsFiniteSet(Admitted) /\ Cardinality(Admitted) <= Cardinality(IoThreads)
    BY <1>4, <1>5, FS_Subset
  <1> QED BY <1>2, <1>4, <1>5, <1>6, <1>7, FS_CardinalityType

\* Fewer players and fewer admitted threads keep the bound.
LEMMA FewerKeepsBound ==
    ASSUME Inv1, Inv1', CapacityOvershootBounded,
           HumanPlayers' \subseteq HumanPlayers, Admitted' \subseteq Admitted
    PROVE  CapacityOvershootBounded'
  <1>1. /\ Cardinality(HumanPlayers)' <= Cardinality(HumanPlayers)
        /\ Cardinality(Admitted)' <= Cardinality(Admitted)
    BY CountsAreNumbers, FS_Subset
  <1>2. /\ Cardinality(HumanPlayers) \in Nat /\ Cardinality(Admitted) \in Nat
        /\ Cardinality(HumanPlayers)' \in Nat /\ Cardinality(Admitted)' \in Nat
        /\ Cardinality(IoThreads) \in Nat
    BY CountsAreNumbers, FS_CardinalityType, FS_Subset
  <1> QED BY <1>1, <1>2, BoundsAssumption DEF CapacityOvershootBounded

LEMMA CountKeepsBound ==
    ASSUME Inv1, Inv1', CapacityOvershootBounded, NEW t \in Threads, CountPlayers(t)
    PROVE  CapacityOvershootBounded'
  <1>1. HumanPlayers' = HumanPlayers
    BY DEF CountPlayers, HumanPlayers, Online, mapVars
  <1>2. CASE ServerFull
    <2>1. pc' = [pc EXCEPT ![t] = "reject"] /\ role' = role
      BY <1>2 DEF CountPlayers, Continue, Goto, localVars
    <2>2. Admitted' \subseteq Admitted
      BY <2>1 DEF Admitted, Inv1, ThreadsOK
    <2> QED BY <1>1, <2>2, FewerKeepsBound
  <1>3. CASE ~ServerFull
    <2>1. Cardinality(HumanPlayers)' < MaxPlayers
      BY <1>1, <1>3, CountsAreNumbers, BoundsAssumption DEF ServerFull
    <2>2. Admitted' \subseteq IoThreads
      BY DEF Inv1, ThreadsOK, Admitted, PacketLabels
    <2>3. Cardinality(Admitted)' <= Cardinality(IoThreads) /\ Cardinality(Admitted)' \in Nat
      BY <2>2, ThreadsAssumption, FS_Subset, FS_CardinalityType
    <2>4. Cardinality(HumanPlayers)' \in Nat /\ Cardinality(IoThreads) \in Nat
      BY <1>1, CountsAreNumbers
    <2> QED BY <2>1, <2>3, <2>4, BoundsAssumption DEF CapacityOvershootBounded
  <1> QED BY <1>2, <1>3

LEMMA InsertKeepsBound ==
    ASSUME Inv1, Inv1', CapacityOvershootBounded, NEW t \in Threads, Insert(t)
    PROVE  CapacityOvershootBounded'
  <1>1. /\ pc[t] = "insert" /\ role' = role
        /\ pc' = [pc EXCEPT ![t] = IF role[t] = "bridge" THEN "bridge_ok" ELSE "veto"]
        /\ m_players' = [m_players EXCEPT ![pid[t]] = [sid |-> sid[t], role |-> role[t]]]
    BY DEF Insert, At, Continue, Goto, localVars
  <1>2. Admitted' \subseteq Admitted \ {t}
    BY <1>1 DEF Admitted, Inv1, ThreadsOK
  <1>3. HumanPlayers' \subseteq HumanPlayers \cup {pid[t]}
    BY <1>1 DEF HumanPlayers, Online, Inv1, StoreOK
  <1>4. CASE role[t] = "player"
    <2>1. t \in Admitted
      BY <1>1, <1>4 DEF Admitted
    <2>2. Cardinality(HumanPlayers)' <= Cardinality(HumanPlayers) + 1
      <3>1. /\ IsFiniteSet(HumanPlayers \cup {pid[t]})
            /\ Cardinality(HumanPlayers \cup {pid[t]}) <= Cardinality(HumanPlayers) + 1
        <4>1. IsFiniteSet(HumanPlayers) /\ Cardinality(HumanPlayers) \in Nat
          BY CountsAreNumbers
        <4>2. /\ IsFiniteSet(HumanPlayers \cup {pid[t]})
              /\ \/ Cardinality(HumanPlayers \cup {pid[t]}) = Cardinality(HumanPlayers)
                 \/ Cardinality(HumanPlayers \cup {pid[t]}) = Cardinality(HumanPlayers) + 1
          BY <4>1, FS_AddElement
        <4> QED BY <4>1, <4>2
      <3>2. /\ IsFiniteSet(HumanPlayers')
            /\ Cardinality(HumanPlayers') <= Cardinality(HumanPlayers \cup {pid[t]})
        BY <1>3, <3>1, FS_Subset
      <3>3. /\ Cardinality(HumanPlayers') \in Nat /\ Cardinality(HumanPlayers) \in Nat
            /\ Cardinality(HumanPlayers \cup {pid[t]}) \in Nat
        BY <3>1, <3>2, CountsAreNumbers, FS_CardinalityType
      <3> QED BY <3>1, <3>2, <3>3
    <2>3. Cardinality(Admitted)' <= Cardinality(Admitted) - 1
      <3>1. /\ IsFiniteSet(Admitted \ {t})
            /\ Cardinality(Admitted \ {t}) = Cardinality(Admitted) - 1
        BY <2>1, CountsAreNumbers, FS_RemoveElement
      <3> QED BY <1>2, <3>1, FS_Subset
    <2>4. /\ Cardinality(HumanPlayers)' \in Nat /\ Cardinality(Admitted)' \in Nat
      <3>1. IsFiniteSet(HumanPlayers') /\ IsFiniteSet(Admitted')
        BY <1>2, <1>3, CountsAreNumbers, FS_Subset, FS_AddElement, FS_RemoveElement
      <3> QED BY <3>1, FS_CardinalityType
    <2> QED BY <2>2, <2>3, <2>4, CountsAreNumbers, BoundsAssumption DEF CapacityOvershootBounded
  <1>5. CASE role[t] = "bridge"
    <2>1. HumanPlayers' \subseteq HumanPlayers
      BY <1>1, <1>5 DEF HumanPlayers, Online, Inv1, StoreOK, ThreadsOK
    <2> QED BY <1>2, <2>1, FewerKeepsBound
  <1>6. role[t] \in {"player", "bridge"}
    BY DEF Inv1, ThreadsOK, Roles
  <1> QED BY <1>4, <1>5, <1>6

\* A step that moves thread t, to a label where it is not newly admitted, and
\* adds no player.
LEMMA MovingKeepsBound ==
    ASSUME Inv1, Inv1', CapacityOvershootBounded, NEW t \in Threads, NEW l,
           pc' = [pc EXCEPT ![t] = l],
           l \notin AllocLabels \/ (pc[t] \in AllocLabels /\ role' = role),
           \A u \in Threads : u # t => role'[u] = role[u],
           HumanPlayers' \subseteq HumanPlayers
    PROVE  CapacityOvershootBounded'
  <1>1. Admitted' \subseteq Admitted
    BY DEF Admitted, AllocLabels, Inv1, ThreadsOK
  <1> QED BY <1>1, FewerKeepsBound

LEMMA EraseKeepsBound ==
    ASSUME NEW p, m_players' = [m_players EXCEPT ![p] = NoPlayer], Inv1
    PROVE  HumanPlayers' \subseteq HumanPlayers
  BY DEF HumanPlayers, Online, NoPlayer, Inv1, StoreOK

LEMMA SamePlayers == ASSUME m_players' = m_players PROVE HumanPlayers' \subseteq HumanPlayers
  BY DEF HumanPlayers, Online

LEMMA StepKeepsBound ==
    ASSUME Inv1, Inv1', CapacityOvershootBounded, NEW t \in Threads, Step(t)
    PROVE  CapacityOvershootBounded'
  <1> DEFINE Moves(l) == /\ pc' = [pc EXCEPT ![t] = l]
                         /\ \A u \in Threads : u # t => role'[u] = role[u]
                         /\ HumanPlayers' \subseteq HumanPlayers
  <1> USE DEF AllocLabels
  <1>1. ASSUME Return(t), HumanPlayers' \subseteq HumanPlayers PROVE CapacityOvershootBounded'
    <2>1. Moves("idle")
      BY <1>1 DEF Return, Goto, Inv1, ThreadsOK
    <2> QED BY <2>1, MovingKeepsBound
  <1>2. ASSUME NEW l, l \notin AllocLabels \/ pc[t] \in AllocLabels, Continue(t, l),
               HumanPlayers' \subseteq HumanPlayers
        PROVE  CapacityOvershootBounded'
    <2>1. Moves(l) /\ role' = role
      BY <1>2 DEF Continue, Goto, localVars
    <2> QED BY <1>2, <2>1, MovingKeepsBound
  <1>3. CASE CountPlayers(t)
    BY <1>3, CountKeepsBound
  <1>4. CASE Insert(t)
    BY <1>4, InsertKeepsBound
  <1>5. CASE AuthReply(t) \/ SendServerInfo(t) \/ DirectedSend(t) \/ ChatBroadcast(t)
             \/ BroadcastPlayerLeave(t)
    <2>1. Return(t) /\ m_players' = m_players
      BY <1>5 DEF AuthReply, SendServerInfo, DirectedSend, ChatBroadcast, BroadcastPlayerLeave, mapVars
    <2> QED BY <2>1, <1>1, SamePlayers
  <1>6. CASE AuthReject(t) \/ AuthOk(t) \/ BridgeOk(t) \/ BroadcastPlayerJoin(t)
             \/ ChatCommand(t) \/ KickSend(t) \/ Erase(t)
    <2>1. /\ \/ Continue(t, "disconnect") \/ Continue(t, "info") \/ Continue(t, "directed")
             \/ Continue(t, "unmap")
          /\ m_players' = m_players
      BY <1>6 DEF AuthReject, AuthOk, BridgeOk, BroadcastPlayerJoin, ChatCommand, KickSend, Erase, mapVars
    <2> QED BY <2>1, <1>2, SamePlayers
  <1>7. CASE AllocCheck(t) \/ AllocStore(t)
    <2>1. /\ pc[t] \in AllocLabels
          /\ Continue(t, "alloc_load") \/ Continue(t, "insert")
          /\ m_players' = m_players
      BY <1>7 DEF AllocCheck, AllocStore, At, mapVars
    <2> QED BY <2>1, <1>2, SamePlayers
  <1>8. CASE AllocLoad(t)
    <2>1. Moves("alloc_store") /\ pc[t] \in AllocLabels /\ role' = role
      BY <1>8, SamePlayers DEF AllocLoad, At, Goto, mapVars
    <2> QED BY <2>1, MovingKeepsBound
  <1>9. CASE Veto(t) \/ DropPlayer(t)
    <2>1. /\ Continue(t, "reject") \/ Continue(t, "leave")
          /\ m_players' = [m_players EXCEPT ![pid[t]] = NoPlayer]
      BY <1>9 DEF Veto, DropPlayer, VetoErases
    <2>2. HumanPlayers' \subseteq HumanPlayers
      BY <2>1, EraseKeepsBound
    <2> QED BY <2>1, <2>2, <1>2
  <1>10. CASE Ready(t) \/ Chat(t)
    <2>1. /\ Continue(t, "join") \/ Continue(t, "chat_lua") \/ Return(t)
          /\ m_players' = m_players
      BY <1>10 DEF Ready, Chat, GetPlayer, mapVars
    <2> QED BY <2>1, <1>1, <1>2, SamePlayers
  <1>11. CASE DirectedLock(t) \/ \E p \in Pids : ChatKick(t, p)
    <2>1. Moves("directed_send") \/ Moves("kick_send")
      BY <1>11, SamePlayers DEF DirectedLock, ChatKick, KickLock, Goto, mapVars, localVars
    <2> QED BY <2>1, MovingKeepsBound
  <1>12. CASE Disconnect(t)
    <2>1. m_players' = m_players /\ (Return(t) \/ Moves("erase"))
      BY <1>12, SamePlayers DEF Disconnect, CloseSocket, Goto, mapVars
    <2> QED BY <2>1, <1>1, MovingKeepsBound, SamePlayers
  <1>13. CASE Unmap(t)
    <2>1. m_players' = m_players /\ (Return(t) \/ Moves("drop"))
      BY <1>13, SamePlayers DEF Unmap, Goto
    <2> QED BY <2>1, <1>1, MovingKeepsBound, SamePlayers
  <1> QED BY <1>3, <1>4, <1>5, <1>6, <1>7, <1>8, <1>9, <1>10, <1>11, <1>12, <1>13 DEF Step

LEMMA PickUpKeepsBound ==
    ASSUME Inv1, Inv1', CapacityOvershootBounded,
           \/ \E t \in IoThreads : PickUp(t)
           \/ \E t \in Admins, p \in Pids : Kick(t, p)
    PROVE  CapacityOvershootBounded'
  <1>1. m_players' = m_players
    BY DEF PickUp, ReadError, BadLength, EndRead, WriteError, Receive, Kick, KickLock, mapVars
  <1>2. PICK t \in Threads : PickUp(t) \/ \E p \in Pids : Kick(t, p)
    BY DEF Threads
  <1>3. \A u \in Threads : u # t => role'[u] = role[u]
    BY <1>2 DEF PickUp, ReadError, BadLength, EndRead, WriteError, Receive, Kick, KickLock, Inv1, ThreadsOK
  <1>4. CASE pc' = [pc EXCEPT ![t] = "erase"] \/ pc' = [pc EXCEPT ![t] = "kick_send"]
    BY <1>1, <1>3, <1>4, MovingKeepsBound, SamePlayers DEF AllocLabels
  <1>5. CASE \E c \in Sids, r \in Requests : Receive(t, c, r)
    <2>1. PICK c \in Sids, r \in Requests : Receive(t, c, r)
      BY <1>5
    <2>2. Admitted' \subseteq Admitted
      <3>1. role'[t] = "player" => r # "bridge"
        BY <2>1 DEF Receive, Inv1, ThreadsOK
      <3>2. r # "bridge" => Entry(r) \notin AllocLabels
        BY SwitchesAssumption DEF AllRequests, Entry, AllocLabels
      <3>3. pc' = [pc EXCEPT ![t] = Entry(r)]
        BY <2>1 DEF Receive, Goto
      <3> QED BY <1>3, <3>1, <3>2, <3>3 DEF Admitted, AllocLabels, Inv1, ThreadsOK
    <2> QED BY <2>2, <1>1, SamePlayers, FewerKeepsBound
  <1> QED
    BY <1>2, <1>4, <1>5 DEF PickUp, ReadError, BadLength, EndRead, WriteError, CloseSocket, Kick, KickLock, Goto

\* For any number of io threads, any limit and any number of connections, the
\* unguarded time between handleAuth's count and its insert lets in fewer
\* players than there are io threads beyond max_players - 1.
THEOREM LimitOvershootBounded == Spec => []CapacityOvershootBounded
  <1>1. Init => CapacityOvershootBounded
    <2> SUFFICES ASSUME Init PROVE CapacityOvershootBounded
      OBVIOUS
    <2>1. HumanPlayers = {} /\ Admitted = {}
      BY DEF Init, HumanPlayers, Online, Admitted
    <2>2. Cardinality(IoThreads) \in Nat /\ Cardinality(IoThreads) # 0
      BY ThreadsAssumption, FS_CardinalityType, FS_EmptySet
    <2> QED BY <2>1, <2>2, FS_EmptySet, BoundsAssumption DEF CapacityOvershootBounded
  <1>2. Inv1 /\ Inv1' /\ CapacityOvershootBounded /\ [Next]_vars => CapacityOvershootBounded'
    <2> SUFFICES ASSUME Inv1, Inv1', CapacityOvershootBounded, [Next]_vars
                 PROVE  CapacityOvershootBounded'
      OBVIOUS
    <2>1. CASE Accept \/ \E c \in Sids : PeerCloses(c) \/ WriteDone(c)
      BY <2>1 DEF Accept, PeerCloses, WriteDone, mapVars, localVars, CapacityOvershootBounded,
         HumanPlayers, Online, Admitted
    <2>2. CASE UNCHANGED vars
      BY <2>2 DEF vars, mapVars, localVars, CapacityOvershootBounded, HumanPlayers, Online, Admitted
    <2> QED BY <2>1, <2>2, StepKeepsBound, PickUpKeepsBound DEF Next
  <1> QED BY <1>1, <1>2, InitOK, NextOK, PTL DEF Spec

-----------------------------------------------------------------------------
(* Player ids and the two maps.  UniqueIds and MappedPlayerExists need each *)
(* other: an id is fresh because every id in the maps, or in the hands of a *)
(* thread that will still erase it, lies below m_next_player_id and differs *)
(* from the ids about to be inserted.                                       *)

\* Threads that will still touch m_players[pid[t]].
Touching(t) == pc[t] \in {"veto", "drop"}

IdFacts ==
    /\ m_next_player_id \in 1..PidMax
    /\ \A p \in Online : p \in 1..(m_next_player_id - 1)
    /\ \A t \in Threads : Allocating(t) => m_next_player_id < PidMax
    /\ \A t, u \in Threads : Allocating(t) /\ Allocating(u) => t = u
    /\ \A t \in Threads : pc[t] = "alloc_store" => pid[t] = m_next_player_id
    /\ \A t \in Threads : pc[t] = "insert" =>
          pid[t] \in 1..(m_next_player_id - 1) /\ pid[t] \notin Online
    /\ \A t, u \in Threads : pc[t] = "insert" /\ pc[u] = "insert" /\ pid[t] = pid[u] => t = u
    /\ \A t \in Threads : Touching(t) => pid[t] \in 1..(m_next_player_id - 1)
    /\ \A t, u \in Threads : Touching(t) /\ pc[u] = "insert" => pid[t] # pid[u]

MapFacts ==
    /\ \A c \in Sids : m_session_to_player[c] # NoPid =>
          /\ m_session_to_player[c] \in Online
          /\ m_players[m_session_to_player[c]].sid = c
    /\ \A t \in Threads : pc[t] = "veto" /\ pid[t] \in Online =>
          m_players[pid[t]].sid = sid[t]
    /\ \A t \in Threads : pc[t] = "drop" => \A c \in Sids : m_session_to_player[c] # pid[t]

Inv2 == exact => IdFacts /\ MapFacts

LEMMA Inv2Init == Init => Inv2
  BY BoundsAssumption DEF Init, Inv2, IdFacts, MapFacts, Online, Allocating, Touching, Sids, Pids

\* A step that moves thread t to a label of no consequence for ids.
LEMMA MovingKeepsIds ==
    ASSUME Inv1, Inv1', Inv2, NEW t \in Threads, NEW l,
           l \notin {"alloc_load", "alloc_store", "insert", "veto", "drop"},
           pc' = [pc EXCEPT ![t] = l],
           \A u \in Threads : u # t => pid'[u] = pid[u] /\ sid'[u] = sid[u],
           UNCHANGED <<m_players, m_session_to_player, m_next_player_id, exact>>
    PROVE  Inv2'
  <1> SUFFICES ASSUME exact PROVE IdFacts' /\ MapFacts'
    BY DEF Inv2
  <1> USE DEF Inv1, ThreadsOK
  <1>1. IdFacts /\ MapFacts
    BY DEF Inv2
  <1>2. Online' = Online
    BY DEF Online
  <1>3. \A u \in Threads : \/ u # t /\ pc'[u] = pc[u] /\ pid'[u] = pid[u] /\ sid'[u] = sid[u]
                           \/ u = t /\ pc'[u] = l
    OBVIOUS
  <1>4. IdFacts'
    BY <1>1, <1>2, <1>3 DEF IdFacts, Allocating, Touching
  <1>5. MapFacts'
    BY <1>1, <1>2, <1>3 DEF MapFacts
  <1> QED BY <1>4, <1>5

LEMMA AllocCheckKeepsIds ==
    ASSUME Inv1, Inv1', Inv2, NEW t \in Threads, AllocCheck(t) PROVE Inv2'
  <1> SUFFICES ASSUME exact' PROVE IdFacts' /\ MapFacts'
    BY DEF Inv2
  <1>1. /\ IdFacts /\ MapFacts /\ m_next_player_id # PidMax
        /\ \A u \in Threads : ~Allocating(u)
        /\ pc' = [pc EXCEPT ![t] = "alloc_load"]
        /\ UNCHANGED <<m_players, m_session_to_player, m_next_player_id, pid, sid>>
    BY DEF AllocCheck, Inv2, Continue, Goto, localVars, mapVars
  <1>2. Online' = Online
    BY <1>1 DEF Online
  <1>3. \A u \in Threads : \/ u # t /\ pc'[u] = pc[u]
                           \/ u = t /\ pc'[u] = "alloc_load"
    BY <1>1 DEF Inv1, ThreadsOK
  <1>4. m_next_player_id < PidMax
    BY <1>1, BoundsAssumption DEF IdFacts
  <1>5. IdFacts'
    BY <1>1, <1>2, <1>3, <1>4 DEF IdFacts, Allocating, Touching
  <1>6. MapFacts'
    BY <1>1, <1>2, <1>3 DEF MapFacts
  <1> QED BY <1>5, <1>6

LEMMA AllocLoadKeepsIds ==
    ASSUME Inv1, Inv1', Inv2, NEW t \in Threads, AllocLoad(t) PROVE Inv2'
  <1> SUFFICES ASSUME exact' PROVE IdFacts' /\ MapFacts'
    BY DEF Inv2
  <1>1. /\ IdFacts /\ MapFacts
        /\ pc[t] = "alloc_load"
        /\ pc' = [pc EXCEPT ![t] = "alloc_store"]
        /\ pid' = [pid EXCEPT ![t] = m_next_player_id]
        /\ UNCHANGED <<m_players, m_session_to_player, m_next_player_id, sid>>
    BY DEF AllocLoad, At, Inv2, Goto, mapVars, ghostVars
  <1>2. Online' = Online
    BY <1>1 DEF Online
  <1>3. \A u \in Threads : \/ u # t /\ pc'[u] = pc[u] /\ pid'[u] = pid[u]
                           \/ u = t /\ pc'[u] = "alloc_store" /\ pid'[u] = m_next_player_id
    BY <1>1 DEF Inv1, ThreadsOK
  <1>4. IdFacts'
    BY <1>1, <1>2, <1>3 DEF IdFacts, Allocating, Touching
  <1>5. MapFacts'
    BY <1>1, <1>2, <1>3 DEF MapFacts
  <1> QED BY <1>4, <1>5

LEMMA AllocStoreKeepsIds ==
    ASSUME Inv1, Inv1', Inv2, NEW t \in Threads, AllocStore(t) PROVE Inv2'
  <1> SUFFICES ASSUME exact' PROVE IdFacts' /\ MapFacts'
    BY DEF Inv2
  <1>1. /\ IdFacts /\ MapFacts
        /\ pc[t] = "alloc_store"
        /\ pc' = [pc EXCEPT ![t] = "insert"]
        /\ m_next_player_id' = NextId(pid[t])
        /\ UNCHANGED <<m_players, m_session_to_player, pid, sid>>
    BY DEF AllocStore, At, Inv2, Continue, Goto, mapVars, localVars, ghostVars
  <1>2. Online' = Online
    BY <1>1 DEF Online
  <1>3. /\ pid[t] = m_next_player_id /\ m_next_player_id \in 1..(PidMax - 1)
        /\ \A u \in Threads : u # t => ~Allocating(u)
    BY <1>1, BoundsAssumption DEF IdFacts, Allocating
  <1>4. m_next_player_id' = m_next_player_id + 1
    BY <1>1, <1>3, BoundsAssumption DEF NextId
  <1>5. \A u \in Threads : \/ u # t /\ pc'[u] = pc[u]
                           \/ u = t /\ pc'[u] = "insert"
    BY <1>1 DEF Inv1, ThreadsOK
  <1>6. IdFacts'
    BY <1>1, <1>2, <1>3, <1>4, <1>5, BoundsAssumption DEF IdFacts, Allocating, Touching
  <1>7. MapFacts'
    BY <1>1, <1>2, <1>5 DEF MapFacts
  <1> QED BY <1>6, <1>7

LEMMA InsertKeepsIds ==
    ASSUME Inv1, Inv1', Inv2, NEW t \in Threads, Insert(t) PROVE Inv2'
  <1> SUFFICES ASSUME exact' PROVE IdFacts' /\ MapFacts'
    BY DEF Inv2
  <1>1. /\ IdFacts /\ MapFacts
        /\ pc[t] = "insert"
        /\ UNCHANGED <<m_next_player_id, pid, sid>>
        /\ m_session_to_player' = [m_session_to_player EXCEPT ![sid[t]] = pid[t]]
        /\ m_players' = [m_players EXCEPT ![pid[t]] = [sid |-> sid[t], role |-> role[t]]]
    BY DEF Insert, At, Inv2, Continue, Goto, localVars
  <1>2. /\ sid[t] \in Sids /\ pid[t] \in Pids /\ pid[t] \notin Online
        /\ pid[t] \in 1..(m_next_player_id - 1)
    BY <1>1 DEF Inv1, ThreadsOK, PacketLabels, IdFacts
  <1>3. [sid |-> sid[t], role |-> role[t]] # NoPlayer
    BY <1>2, Constants DEF NoPlayer
  <1>4. /\ Online' = Online \cup {pid[t]}
        /\ \A p \in Online : m_players'[p] = m_players[p]
        /\ m_players'[pid[t]].sid = sid[t]
    BY <1>1, <1>2, <1>3 DEF Online, Inv1, StoreOK
  <1>5. \A u \in Threads : \/ u # t /\ pc'[u] = pc[u]
                           \/ u = t /\ pc'[u] \in {"veto", "bridge_ok"}
    BY DEF Inv1, ThreadsOK, Insert, Continue, Goto
  <1>6. IdFacts'
    BY <1>1, <1>2, <1>4, <1>5 DEF IdFacts, Allocating, Touching
  <1>7. MapFacts'
    <2>1. \A c \in Sids : m_session_to_player'[c] # NoPid =>
            /\ m_session_to_player'[c] \in Online'
            /\ m_players'[m_session_to_player'[c]].sid = c
      BY <1>1, <1>2, <1>4 DEF MapFacts, Inv1, StoreOK
    <2>2. \A u \in Threads : pc'[u] = "veto" /\ pid[u] \in Online' =>
            m_players'[pid[u]].sid = sid[u]
      BY <1>1, <1>2, <1>4, <1>5 DEF MapFacts, IdFacts, Touching
    <2>3. \A u \in Threads : pc'[u] = "drop" => \A c \in Sids : m_session_to_player'[c] # pid[u]
      BY <1>1, <1>2, <1>5 DEF MapFacts, IdFacts, Touching, Inv1, StoreOK
    <2> QED BY <1>1, <2>1, <2>2, <2>3 DEF MapFacts
  <1> QED BY <1>6, <1>7

LEMMA VetoKeepsIds ==
    ASSUME Inv1, Inv1', Inv2, NEW t \in Threads, Veto(t) PROVE Inv2'
  <1> SUFFICES ASSUME exact' PROVE IdFacts' /\ MapFacts'
    BY DEF Inv2
  <1>1. /\ IdFacts /\ MapFacts
        /\ pc[t] = "veto"
        /\ pc' = [pc EXCEPT ![t] = "reject"]
        /\ UNCHANGED <<m_next_player_id, pid, sid>>
        /\ m_session_to_player' = [m_session_to_player EXCEPT ![sid[t]] = NoPid]
        /\ m_players' = [m_players EXCEPT ![pid[t]] = NoPlayer]
    BY DEF Veto, VetoErases, At, Inv2, Continue, Goto, localVars, ghostVars
  <1>2. sid[t] \in Sids /\ pid[t] \in Pids
    BY <1>1 DEF Inv1, ThreadsOK, PacketLabels
  <1>3. /\ Online' = Online \ {pid[t]}
        /\ \A p \in Online' : m_players'[p] = m_players[p]
    BY <1>1, <1>2 DEF Online, Inv1, StoreOK
  <1>4. \A u \in Threads : \/ u # t /\ pc'[u] = pc[u]
                           \/ u = t /\ pc'[u] = "reject"
    BY <1>1 DEF Inv1, ThreadsOK
  <1>5. IdFacts'
    BY <1>1, <1>3, <1>4 DEF IdFacts, Allocating, Touching
  <1>6. \A c \in Sids : m_session_to_player[c] # NoPid /\ m_session_to_player[c] = pid[t] => c = sid[t]
    BY <1>1 DEF MapFacts
  <1>7. MapFacts'
    <2>1. \A c \in Sids : m_session_to_player'[c] # NoPid =>
            /\ c # sid[t] /\ m_session_to_player'[c] = m_session_to_player[c]
            /\ m_session_to_player[c] \in Online'
      BY <1>1, <1>3, <1>6, <1>2, Constants DEF MapFacts, Inv1, StoreOK
    <2>2. \A u \in Threads : pc'[u] = "drop" => \A c \in Sids : m_session_to_player'[c] # pid[u]
      <3> SUFFICES ASSUME NEW u \in Threads, pc'[u] = "drop", NEW c \in Sids
                   PROVE  m_session_to_player'[c] # pid[u]
        OBVIOUS
      <3>1. pc[u] = "drop" /\ pid[u] # NoPid
        BY <1>1, <1>4, BoundsAssumption DEF IdFacts, Touching, NoPid
      <3> QED BY <1>1, <3>1 DEF MapFacts, Inv1, StoreOK
    <2> QED BY <1>1, <1>3, <1>4, <2>1, <2>2 DEF MapFacts
  <1> QED BY <1>5, <1>7

\* onDisconnect takes the mapping: no other session has that player.
LEMMA UnmapKeepsIds ==
    ASSUME Inv1, Inv1', Inv2, NEW t \in Threads, Unmap(t), ~Return(t) PROVE Inv2'
  <1> SUFFICES ASSUME exact' PROVE IdFacts' /\ MapFacts'
    BY DEF Inv2
  <1> DEFINE p == m_session_to_player[vic[t]]
  <1>1. /\ IdFacts /\ MapFacts /\ p # NoPid
        /\ pc[t] = "unmap"
        /\ pc' = [pc EXCEPT ![t] = "drop"]
        /\ pid' = [pid EXCEPT ![t] = p]
        /\ UNCHANGED <<m_next_player_id, sid, m_players>>
        /\ m_session_to_player' = [m_session_to_player EXCEPT ![vic[t]] = NoPid]
    BY DEF Unmap, TakeMapping, At, Inv2, Goto, ghostVars
  <1>2. vic[t] \in Sids
    BY <1>1 DEF Inv1, ThreadsOK, CloseLabels
  <1>3. p \in Online /\ m_players[p].sid = vic[t]
    BY <1>1, <1>2 DEF MapFacts
  <1>4. Online' = Online
    BY <1>1 DEF Online
  <1>5. \A u \in Threads : \/ u # t /\ pc'[u] = pc[u] /\ pid'[u] = pid[u]
                           \/ u = t /\ pc'[u] = "drop" /\ pid'[u] = p
    BY <1>1 DEF Inv1, ThreadsOK
  <1> HIDE DEF p
  <1>6. IdFacts'
    BY <1>1, <1>3, <1>4, <1>5 DEF IdFacts, Allocating, Touching
  <1>7. \A c \in Sids : /\ c # vic[t] => m_session_to_player'[c] = m_session_to_player[c]
                        /\ c = vic[t] => m_session_to_player'[c] = NoPid
    BY <1>1, <1>2 DEF Inv1, StoreOK
  <1>8. MapFacts'
    <2>1. \A u \in Threads : pc'[u] = "drop" => \A c \in Sids : m_session_to_player'[c] # pid'[u]
      <3> SUFFICES ASSUME NEW u \in Threads, pc'[u] = "drop", NEW c \in Sids
                   PROVE  m_session_to_player'[c] # pid'[u]
        OBVIOUS
      <3>1. pid'[u] # NoPid
        BY <1>1, <1>5, BoundsAssumption DEF IdFacts, Touching, NoPid
      <3>2. CASE u = t
        BY <1>1, <1>3, <1>5, <1>7, <3>1, <3>2 DEF MapFacts
      <3>3. CASE u # t
        BY <1>1, <1>5, <1>7, <3>1, <3>3 DEF MapFacts
      <3> QED BY <3>2, <3>3
    <2> QED BY <1>1, <1>4, <1>5, <1>7, <2>1 DEF MapFacts
  <1> QED BY <1>6, <1>8

LEMMA DropKeepsIds ==
    ASSUME Inv1, Inv1', Inv2, NEW t \in Threads, DropPlayer(t) PROVE Inv2'
  <1> SUFFICES ASSUME exact' PROVE IdFacts' /\ MapFacts'
    BY DEF Inv2
  <1>1. /\ IdFacts /\ MapFacts
        /\ pc[t] = "drop"
        /\ pc' = [pc EXCEPT ![t] = "leave"]
        /\ UNCHANGED <<m_next_player_id, pid, sid, m_session_to_player>>
        /\ m_players' = [m_players EXCEPT ![pid[t]] = NoPlayer]
    BY DEF DropPlayer, At, Inv2, Continue, Goto, localVars, ghostVars
  <1>2. /\ Online' = Online \ {pid[t]}
        /\ \A q \in Online' : m_players'[q] = m_players[q]
    BY <1>1 DEF Online, Inv1, StoreOK, ThreadsOK
  <1>3. \A u \in Threads : \/ u # t /\ pc'[u] = pc[u]
                           \/ u = t /\ pc'[u] = "leave"
    BY <1>1 DEF Inv1, ThreadsOK
  <1>4. IdFacts'
    BY <1>1, <1>2, <1>3 DEF IdFacts, Allocating, Touching
  <1>5. MapFacts'
    BY <1>1, <1>2, <1>3 DEF MapFacts
  <1> QED BY <1>4, <1>5

LEMMA StepKeepsIds ==
    ASSUME Inv1, Inv1', Inv2, NEW t \in Threads, Step(t) PROVE Inv2'
  <1> DEFINE Same == UNCHANGED <<m_players, m_session_to_player, m_next_player_id, exact>>
  <1>1. ASSUME Return(t), Same PROVE Inv2'
    <2>1. /\ pc' = [pc EXCEPT ![t] = "idle"]
          /\ \A u \in Threads : u # t => pid'[u] = pid[u] /\ sid'[u] = sid[u]
      BY <1>1 DEF Return, Goto, Inv1, ThreadsOK
    <2> QED BY <1>1, <2>1, MovingKeepsIds
  <1>2. ASSUME NEW l, l \notin {"alloc_load", "alloc_store", "insert", "veto", "drop"},
               Continue(t, l), Same
        PROVE  Inv2'
    <2>1. pc' = [pc EXCEPT ![t] = l] /\ UNCHANGED <<pid, sid>>
      BY <1>2 DEF Continue, Goto, localVars
    <2> QED BY <1>2, <2>1, MovingKeepsIds
  <1>3. CASE AllocCheck(t) \/ AllocLoad(t) \/ AllocStore(t) \/ Insert(t) \/ Veto(t) \/ DropPlayer(t)
    BY <1>3, AllocCheckKeepsIds, AllocLoadKeepsIds, AllocStoreKeepsIds, InsertKeepsIds,
       VetoKeepsIds, DropKeepsIds
  <1>4. CASE AuthReply(t) \/ SendServerInfo(t) \/ DirectedSend(t) \/ ChatBroadcast(t)
             \/ BroadcastPlayerLeave(t)
    <2>1. Return(t) /\ Same
      BY <1>4 DEF AuthReply, SendServerInfo, DirectedSend, ChatBroadcast, BroadcastPlayerLeave,
         mapVars, ghostVars
    <2> QED BY <2>1, <1>1
  <1>5. CASE \/ AuthReject(t) \/ AuthOk(t) \/ BridgeOk(t) \/ BroadcastPlayerJoin(t)
             \/ ChatCommand(t) \/ KickSend(t) \/ Erase(t) \/ CountPlayers(t)
    <2>1. /\ \/ Continue(t, "disconnect") \/ Continue(t, "info") \/ Continue(t, "directed")
             \/ Continue(t, "unmap") \/ Continue(t, "reject") \/ Continue(t, "alloc_check")
          /\ Same
      BY <1>5 DEF AuthReject, AuthOk, BridgeOk, BroadcastPlayerJoin, ChatCommand, KickSend, Erase,
         CountPlayers, mapVars, ghostVars
    <2> QED BY <2>1, <1>2
  <1>6. CASE Ready(t) \/ Chat(t)
    <2>1. /\ Continue(t, "join") \/ Continue(t, "chat_lua") \/ Return(t)
          /\ Same
      BY <1>6 DEF Ready, Chat, GetPlayer, mapVars, ghostVars
    <2> QED BY <2>1, <1>1, <1>2
  <1>7. CASE DirectedLock(t) \/ \E p \in Pids : ChatKick(t, p)
    <2>1. /\ pc' = [pc EXCEPT ![t] = "directed_send"] \/ pc' = [pc EXCEPT ![t] = "kick_send"]
          /\ UNCHANGED <<pid, sid>> /\ Same
      BY <1>7 DEF DirectedLock, ChatKick, KickLock, Goto, mapVars, localVars, ghostVars
    <2> QED BY <2>1, MovingKeepsIds
  <1>8. CASE Disconnect(t)
    <2>1. /\ Same
          /\ Return(t) \/ (pc' = [pc EXCEPT ![t] = "erase"] /\ UNCHANGED <<pid, sid>>)
      BY <1>8 DEF Disconnect, CloseSocket, Goto, mapVars, ghostVars
    <2> QED BY <2>1, <1>1, MovingKeepsIds
  <1>9. CASE Unmap(t)
    <2>1. CASE Return(t)
      <3>1. CASE m_session_to_player[vic[t]] = NoPid
        BY <1>9, <2>1, <3>1, <1>1 DEF Unmap, ghostVars
      <3>2. CASE m_session_to_player[vic[t]] # NoPid
        BY <1>9, <2>1, <3>2 DEF Unmap, Return, Goto, Inv1, ThreadsOK
      <3> QED BY <3>1, <3>2
    <2> QED BY <1>9, <2>1, UnmapKeepsIds
  <1> QED BY <1>3, <1>4, <1>5, <1>6, <1>7, <1>8, <1>9 DEF Step

LEMMA NextKeepsIds == Inv1 /\ Inv1' /\ Inv2 /\ [Next]_vars => Inv2'
  <1> SUFFICES ASSUME Inv1, Inv1', Inv2, [Next]_vars PROVE Inv2'
    OBVIOUS
  <1>1. CASE Accept \/ (\E c \in Sids : PeerCloses(c) \/ WriteDone(c)) \/ UNCHANGED vars
    <2>1. UNCHANGED <<m_players, m_session_to_player, m_next_player_id, exact, pc, pid, sid>>
      BY <1>1 DEF Accept, PeerCloses, WriteDone, vars, mapVars, localVars, ghostVars
    <2> QED BY <2>1 DEF Inv2, IdFacts, MapFacts, Online, Allocating, Touching
  <1>2. CASE \E t \in IoThreads : PickUp(t)
    <2>1. PICK t \in IoThreads : PickUp(t)
      BY <1>2
    <2>2. /\ UNCHANGED <<m_players, m_session_to_player, m_next_player_id, exact>>
          /\ \A u \in Threads : u # t => pid'[u] = pid[u] /\ sid'[u] = sid[u]
      BY <2>1 DEF PickUp, ReadError, BadLength, EndRead, WriteError, Receive, mapVars, ghostVars, Inv1, ThreadsOK
    <2>3. PICK l : /\ pc' = [pc EXCEPT ![t] = l]
                   /\ l \notin {"alloc_load", "alloc_store", "insert", "veto", "drop"}
      <3>1. CASE \E c \in Sids : ReadError(t, c) \/ BadLength(t, c) \/ WriteError(t, c)
        BY <3>1 DEF ReadError, BadLength, EndRead, WriteError, CloseSocket, Goto
      <3>2. ASSUME NEW c \in Sids, NEW r \in Requests, Receive(t, c, r)
            PROVE  /\ pc' = [pc EXCEPT ![t] = Entry(r)]
                   /\ Entry(r) \notin {"alloc_load", "alloc_store", "insert", "veto", "drop"}
        BY <3>2, SwitchesAssumption DEF Receive, Goto, Entry, AllRequests
      <3> QED BY <2>1, <3>1, <3>2 DEF PickUp
    <2> QED BY <2>2, <2>3, MovingKeepsIds DEF Threads
  <1>3. CASE \E t \in Admins, p \in Pids : Kick(t, p)
    <2>1. PICK t \in Admins, p \in Pids : Kick(t, p)
      BY <1>3
    <2>2. /\ pc' = [pc EXCEPT ![t] = "kick_send"] /\ UNCHANGED <<pid, sid>>
          /\ UNCHANGED <<m_players, m_session_to_player, m_next_player_id, exact>>
      BY <2>1 DEF Kick, KickLock, Goto, mapVars, ghostVars
    <2> QED BY <2>2, MovingKeepsIds DEF Threads
  <1> QED BY <1>1, <1>2, <1>3, StepKeepsIds DEF Next

LEMMA Inv2Holds == Spec => []Inv2
  BY InitOK, NextOK, Inv2Init, NextKeepsIds, PTL DEF Spec

\* Ids are distinct and never reserved until two allocations overlap or the
\* counter wraps, for every number of threads and every width of the id.
THEOREM IdsAreUnique == Spec => []UniqueIds
  <1>1. Inv1 /\ Inv2 => UniqueIds
    <2> SUFFICES ASSUME Inv1, Inv2, exact PROVE UniqueIds
      BY DEF UniqueIds
    <2>1. IdFacts
      BY DEF Inv2
    <2>2. \A p \in 1..(m_next_player_id - 1) : p \in 1..(PidMax - 1)
      BY <2>1, BoundsAssumption DEF IdFacts
    <2> QED BY <2>1, <2>2 DEF IdFacts, UniqueIds, At
  <1> QED BY <1>1, InitOK, NextOK, Inv2Holds, PTL DEF Spec

\* The session map never points at a missing or foreign player, whatever
\* closes, vetoes and logins interleave, while the ids are exact.
THEOREM MappingIsSound == Spec => []MappedPlayerExists
  <1>1. Inv2 => MappedPlayerExists
    BY DEF Inv2, MapFacts, MappedPlayerExists
  <1> QED BY <1>1, Inv2Holds, PTL

-----------------------------------------------------------------------------
(* Who takes a session's entry out of the map, and what becomes of its     *)
(* player: the leaves, the reachable sessions, the ghosts.                 *)

\* Threads that took the entry of session c and have not announced the leave.
Leaving(c) == {t \in Threads : pc[t] \in {"drop", "leave"} /\ vic[t] = c}

Mapped(c) == m_session_to_player[c] # NoPid

\* Every leave, every thread about to announce one, and the entry that is
\* there use up one login each.
Budget(c) == leaves[c] + Cardinality(Leaving(c)) + (IF Mapped(c) THEN 1 ELSE 0)

BudgetInv == \A c \in Sids : Budget(c) <= inserts[c]

\* Nothing is known of a connection not accepted yet; a packet handler closes
\* nothing but its own session; onSessionClose forgets before it unmaps.
OriginInv ==
    /\ \A c \in Sids : c >= m_next_session_id =>
         /\ c \notin m_sessions /\ c \notin writing
         /\ inserts[c] = 0 /\ ~Mapped(c)
         /\ \A t \in Threads : vic[t] # c
    /\ \A t \in Threads : pc[t] = "idle" => sid[t] = NoSid
    /\ \A t \in Threads : pc[t] \in PacketLabels => vic[t] = sid[t]
    /\ \A t \in Threads : pc[t] = "unmap" => vic[t] \notin m_sessions

\* The handler of a session that was refused is on its way to close it.
Refused(c) ==
    \E t \in Threads : sid[t] = c /\ vic[t] = c /\ pc[t] \in {"reject", "disconnect", "erase"}

ReachInv ==
    \A c \in m_sessions : inserts[c] > 0 => Mapped(c) \/ Refused(c)

\* Somebody will still take the entry of session c out.
Watched(c) ==
    \/ c \in m_sessions \/ c \in reading
    \/ \E t \in Threads : sid[t] = c \/ (vic[t] = c /\ pc[t] \in {"erase", "unmap"})

WatchedInv == \A c \in Sids : Mapped(c) => Watched(c)

\* The player is the session's, or a thread is about to erase it.
Owned(p, c) ==
    \/ m_session_to_player[c] = p
    \/ \E t \in Threads : pc[t] = "drop" /\ pid[t] = p /\ vic[t] = c

\* A session that logged in once has one player, which is owned; a veto is
\* about that one.
OwnerInv ==
    \A c \in Sids : inserts[c] <= 1 =>
      /\ inserts[c] = 0 => \A p \in Online : m_players[p].sid # c
      /\ \A p \in Online : m_players[p].sid = c => Owned(p, c)
      /\ \A t \in Threads : pc[t] = "veto" /\ sid[t] = c =>
           \A p \in Online : m_players[p].sid = c => p = pid[t]

Inv3 ==
    /\ BudgetInv /\ OriginInv /\ WatchedInv
    /\ exact => ReachInv /\ OwnerInv

\* A step that none of the above speaks about ...
Kept ==
    /\ UNCHANGED <<mapVars, inserts, leaves, m_sessions, m_next_session_id>>
    /\ exact' => exact

\* ... and ends the handler,
QuietReturn(t) ==
    /\ Kept /\ Return(t)
    /\ pc[t] \notin {"reject", "erase", "drop", "leave"}
    /\ pc[t] = "disconnect" => vic[t] \notin m_sessions
    /\ pc[t] = "unmap" => ~Mapped(vic[t])

\* ... or goes on, perhaps with a session to kick.
QuietMove(t, l) ==
    /\ Kept /\ Goto(t, l) /\ UNCHANGED <<reading, sid>>
    /\ pc[t] \notin {"erase", "unmap", "drop", "leave"}
    /\ l \notin {"idle", "veto", "unmap", "drop", "leave"}
    /\ l \in PacketLabels => pc[t] \in PacketLabels /\ UNCHANGED vic
    /\ pc[t] \in {"reject", "disconnect"} => l \in {"disconnect", "erase"} /\ UNCHANGED vic
    /\ \/ UNCHANGED vic
       \/ \E c \in Sids : Mapped(c) /\ vic' = [vic EXCEPT ![t] = c]

\* The steps that remain.
Special(t) ==
    \/ Insert(t) \/ Veto(t) \/ Erase(t) \/ (Unmap(t) /\ Mapped(vic[t]))
    \/ DropPlayer(t) \/ BroadcastPlayerLeave(t)

\* The other threads stay where they are.
OnlyMoves(t) ==
    \A u \in Threads : u # t =>
      pc'[u] = pc[u] /\ sid'[u] = sid[u] /\ vic'[u] = vic[u] /\ pid'[u] = pid[u]

LEMMA ReturnMovesOne ==
    ASSUME Inv1, NEW t \in Threads, Return(t) PROVE OnlyMoves(t)
  BY DEF Return, Goto, Inv1, ThreadsOK, OnlyMoves

LEMMA ContinueMovesOne ==
    ASSUME Inv1, NEW t \in Threads, NEW l, Continue(t, l) PROVE OnlyMoves(t)
  BY DEF Continue, Goto, localVars, Inv1, ThreadsOK, OnlyMoves

LEMMA SendReaches ==
    ASSUME NEW S, Send(S) PROVE writing' \subseteq writing \cup m_sessions
  BY DEF Send

LEMMA StepKinds ==
    ASSUME Inv1, NEW t \in Threads, Step(t)
    PROVE  /\ OnlyMoves(t)
           /\ writing' \subseteq writing \cup m_sessions
           /\ QuietReturn(t) \/ (\E l \in Labels : QuietMove(t, l)) \/ Special(t)
  <1> DEFINE Goal == /\ OnlyMoves(t)
                     /\ writing' \subseteq writing \cup m_sessions
                     /\ QuietReturn(t) \/ (\E l \in Labels : QuietMove(t, l)) \/ Special(t)
  <1> USE DEF At
  <1>1. CASE AuthReply(t) \/ SendServerInfo(t) \/ DirectedSend(t) \/ ChatBroadcast(t)
    <2>1. QuietReturn(t)
      BY <1>1 DEF AuthReply, SendServerInfo, DirectedSend, ChatBroadcast, QuietReturn, Kept,
         mapVars, ghostVars
    <2>2. writing' \subseteq writing \cup m_sessions
      BY <1>1, SendReaches DEF AuthReply, SendServerInfo, DirectedSend, ChatBroadcast
    <2> QED BY <2>1, <2>2, ReturnMovesOne DEF QuietReturn
  <1>2. ASSUME NEW l \in Labels, Continue(t, l), Kept,
               pc[t] \notin {"erase", "unmap", "drop", "leave"},
               l \notin {"idle", "veto", "unmap", "drop", "leave"},
               l \in PacketLabels => pc[t] \in PacketLabels,
               pc[t] \in {"reject", "disconnect"} => l \in {"disconnect", "erase"}
        PROVE  QuietMove(t, l)
    BY <1>2 DEF Continue, QuietMove, localVars
  <1>3. CASE \/ AuthReject(t) \/ AuthOk(t) \/ BridgeOk(t) \/ BroadcastPlayerJoin(t)
             \/ ChatCommand(t) \/ KickSend(t)
    <2>1. PICK l \in {"disconnect", "info", "directed"} :
             Continue(t, l) /\ (l # "disconnect" => pc[t] \in {"veto", "bridge_ok", "join", "chat_lua"})
      BY <1>3 DEF AuthReject, AuthOk, BridgeOk, BroadcastPlayerJoin, ChatCommand, KickSend
    <2>2. /\ Kept /\ pc[t] \in {"reject", "veto", "bridge_ok", "join", "chat_lua", "kick_send"}
          /\ writing' \subseteq writing \cup m_sessions
      BY <1>3, SendReaches DEF AuthReject, AuthOk, BridgeOk, BroadcastPlayerJoin, ChatCommand,
         KickSend, Kept, mapVars, ghostVars
    <2>3. l \in Labels /\ QuietMove(t, l)
      BY <2>1, <2>2, <1>2 DEF Labels, PacketLabels
    <2> QED BY <2>1, <2>2, <2>3, ContinueMovesOne
  <1>4. CASE CountPlayers(t) \/ AllocCheck(t) \/ AllocStore(t)
    <2>1. PICK l \in {"reject", "alloc_check", "alloc_load", "insert"} : Continue(t, l)
      BY <1>4 DEF CountPlayers, AllocCheck, AllocStore
    <2>2. Kept /\ pc[t] \in {"count", "alloc_check", "alloc_store"} /\ writing' = writing
      <3>1. exact' => exact
        BY <1>4, Zenon DEF CountPlayers, AllocCheck, AllocStore, ghostVars
      <3> QED BY <1>4, <3>1 DEF CountPlayers, AllocCheck, AllocStore, Kept, mapVars, ghostVars
    <2>3. l \in Labels /\ QuietMove(t, l)
      BY <2>1, <2>2, <1>2 DEF Labels, PacketLabels
    <2> QED BY <2>1, <2>2, <2>3, ContinueMovesOne
  <1>5. CASE AllocLoad(t)
    <2>1. OnlyMoves(t)
      BY <1>5 DEF AllocLoad, Goto, OnlyMoves, Inv1, ThreadsOK
    <2>2. QuietMove(t, "alloc_store") /\ "alloc_store" \in Labels
      BY <1>5 DEF AllocLoad, QuietMove, Kept, tcpVars, ghostVars, PacketLabels, Labels
    <2> QED BY <1>5, <2>1, <2>2 DEF AllocLoad, tcpVars
  <1>6. CASE Ready(t) \/ Chat(t)
    <2>1. CASE Return(t)
      <3>1. QuietReturn(t) /\ writing' = writing
        BY <1>6, <2>1 DEF Ready, Chat, GetPlayer, QuietReturn, Kept, ghostVars
      <3> QED BY <2>1, <3>1, ReturnMovesOne
    <2>2. CASE ~Return(t)
      <3>1. PICK l \in {"join", "chat_lua"} : Continue(t, l)
        BY <1>6, <2>2 DEF Ready, Chat, GetPlayer
      <3>2. Kept /\ pc[t] \in {"ready", "chat"} /\ writing' = writing
        BY <1>6 DEF Ready, Chat, GetPlayer, Kept, ghostVars
      <3>3. l \in Labels /\ QuietMove(t, l)
        BY <3>1, <3>2, <1>2 DEF Labels, PacketLabels
      <3> QED BY <3>1, <3>2, <3>3, ContinueMovesOne
    <2> QED BY <2>1, <2>2
  <1>7. CASE DirectedLock(t)
    <2>1. OnlyMoves(t)
      BY <1>7 DEF DirectedLock, Goto, localVars, OnlyMoves, Inv1, ThreadsOK
    <2>2. QuietMove(t, "directed_send") /\ "directed_send" \in Labels
      BY <1>7 DEF DirectedLock, QuietMove, Kept, tcpVars, ghostVars, localVars, PacketLabels, Labels
    <2> QED BY <1>7, <2>1, <2>2 DEF DirectedLock, tcpVars
  <1>8. CASE \E p \in Pids : ChatKick(t, p)
    <2>1. OnlyMoves(t)
      BY <1>8 DEF ChatKick, KickLock, Goto, OnlyMoves, Inv1, ThreadsOK
    <2>2. QuietMove(t, "kick_send") /\ "kick_send" \in Labels
      <3>1. \E c \in Sids : Mapped(c) /\ vic' = [vic EXCEPT ![t] = c]
        BY <1>8 DEF ChatKick, KickLock, SessionsOf, Mapped
      <3>2. Kept /\ Goto(t, "kick_send") /\ UNCHANGED <<reading, sid, pid>> /\ pc[t] = "chat_lua"
        BY <1>8 DEF ChatKick, KickLock, Kept, tcpVars, ghostVars
      <3> QED BY <3>1, <3>2 DEF QuietMove, PacketLabels, Labels
    <2> QED BY <1>8, <2>1, <2>2 DEF ChatKick, KickLock, tcpVars
  <1>9. CASE Disconnect(t)
    <2>1. CASE vic[t] \in m_sessions
      <3>1. OnlyMoves(t)
        BY <1>9, <2>1 DEF Disconnect, CloseSocket, Goto, OnlyMoves, Inv1, ThreadsOK
      <3>2. QuietMove(t, "erase") /\ "erase" \in Labels
        BY <1>9, <2>1 DEF Disconnect, CloseSocket, QuietMove, Kept, ghostVars, PacketLabels, Labels,
           Inv1, ThreadsOK
      <3> QED BY <1>9, <3>1, <3>2 DEF Disconnect
    <2>2. CASE vic[t] \notin m_sessions
      <3>1. QuietReturn(t)
        BY <1>9, <2>2 DEF Disconnect, QuietReturn, Kept, ghostVars
      <3> QED BY <1>9, <3>1, ReturnMovesOne DEF Disconnect, QuietReturn
    <2> QED BY <2>1, <2>2
  <1>10. CASE Unmap(t)
    <2>1. CASE Mapped(vic[t])
      <3>1. OnlyMoves(t)
        BY <1>10, <2>1 DEF Unmap, Mapped, Goto, OnlyMoves, Inv1, ThreadsOK
      <3> QED BY <1>10, <2>1, <3>1 DEF Unmap, Special
    <2>2. CASE ~Mapped(vic[t])
      <3>1. QuietReturn(t)
        BY <1>10, <2>2 DEF Unmap, Mapped, QuietReturn, Kept, mapVars, ghostVars
      <3> QED BY <1>10, <3>1, ReturnMovesOne DEF Unmap, QuietReturn
    <2> QED BY <2>1, <2>2
  <1>11. CASE Insert(t) \/ Veto(t) \/ Erase(t) \/ DropPlayer(t)
    <2>1. OnlyMoves(t)
      BY <1>11, ContinueMovesOne DEF Insert, Veto, Erase, DropPlayer
    <2>2. writing' = writing
      BY <1>11 DEF Insert, Veto, Erase, DropPlayer
    <2> QED BY <1>11, <2>1, <2>2 DEF Special
  <1>12. CASE BroadcastPlayerLeave(t)
    BY <1>12, ReturnMovesOne, SendReaches DEF BroadcastPlayerLeave, Special
  <1> QED
    BY <1>1, <1>3, <1>4, <1>5, <1>6, <1>7, <1>8, <1>9, <1>10, <1>11, <1>12 DEF Step

\* An idle io thread takes up the end of a read or a write of session c, or a
\* packet of it.
TakesUp(t, c) ==
    /\ Kept /\ pc[t] = "idle" /\ writing' \subseteq writing
    /\ vic' = [vic EXCEPT ![t] = c]
    /\ \/ /\ c \in reading \cup writing
          /\ Goto(t, "erase") /\ UNCHANGED sid
          /\ reading \ {c} \subseteq reading' /\ reading' \subseteq reading
       \/ /\ c \in reading /\ sid' = [sid EXCEPT ![t] = c] /\ reading' = reading \ {c}
          /\ \E l \in PacketLabels \ {"veto"} : Goto(t, l)

LEMMA PickUpKinds ==
    ASSUME Inv1, NEW t \in Threads, PickUp(t)
    PROVE  OnlyMoves(t) /\ \E c \in Sids : TakesUp(t, c)
  <1>1. OnlyMoves(t)
    BY DEF PickUp, ReadError, BadLength, EndRead, WriteError, Receive, CloseSocket, Goto,
       OnlyMoves, Inv1, ThreadsOK
  <1>2. ASSUME NEW c \in Sids, ReadError(t, c) \/ BadLength(t, c) \/ WriteError(t, c)
        PROVE  TakesUp(t, c)
    BY <1>2 DEF ReadError, BadLength, EndRead, WriteError, CloseSocket, At, TakesUp, Kept,
       mapVars, ghostVars
  <1>3. ASSUME NEW c \in Sids, NEW r \in Requests, Receive(t, c, r) PROVE TakesUp(t, c)
    <2>1. Entry(r) \in PacketLabels \ {"veto"}
      BY SwitchesAssumption DEF Entry, AllRequests, PacketLabels
    <2> QED BY <1>3, <2>1 DEF Receive, ConsumesRead, At, TakesUp, Kept, mapVars, ghostVars
  <1> QED BY <1>1, <1>2, <1>3 DEF PickUp

LEMMA KickKinds ==
    ASSUME Inv1, NEW t \in Threads, NEW p \in Pids, Kick(t, p)
    PROVE  OnlyMoves(t) /\ writing' = writing /\ QuietMove(t, "kick_send")
  <1>1. OnlyMoves(t) /\ writing' = writing
    BY DEF Kick, KickLock, Goto, OnlyMoves, Inv1, ThreadsOK, tcpVars
  <1>2. \E c \in Sids : Mapped(c) /\ vic' = [vic EXCEPT ![t] = c]
    BY DEF Kick, KickLock, SessionsOf, Mapped
  <1>3. Kept /\ Goto(t, "kick_send") /\ UNCHANGED <<reading, sid, pid>> /\ pc[t] = "idle"
    BY DEF Kick, KickLock, Kept, At, tcpVars, ghostVars
  <1> QED BY <1>1, <1>2, <1>3 DEF QuietMove, PacketLabels

\* What can happen to the maps, the sessions and the threads, in one step.
LEMMA Kinds ==
    ASSUME Inv1, Next
    PROVE  \/ Accept
           \/ /\ Kept /\ writing' \subseteq writing
              /\ UNCHANGED <<pc, sid, vic, pid, reading>>
           \/ \E t \in Threads :
                /\ OnlyMoves(t)
                /\ writing' \subseteq writing \cup m_sessions
                /\ \/ \E c \in Sids : TakesUp(t, c)
                   \/ QuietReturn(t)
                   \/ \E l \in Labels : QuietMove(t, l)
                   \/ Special(t)
  <1>1. CASE \E c \in Sids : PeerCloses(c) \/ WriteDone(c)
    BY <1>1 DEF PeerCloses, WriteDone, Kept, mapVars, ghostVars, localVars
  <1>2. ASSUME NEW t \in IoThreads, PickUp(t)
        PROVE  /\ t \in Threads /\ OnlyMoves(t)
               /\ writing' \subseteq writing \cup m_sessions
               /\ \E c \in Sids : TakesUp(t, c)
    BY <1>2, PickUpKinds DEF Threads, TakesUp
  <1>3. ASSUME NEW t \in Admins, NEW p \in Pids, Kick(t, p)
        PROVE  /\ t \in Threads /\ OnlyMoves(t)
               /\ writing' \subseteq writing \cup m_sessions
               /\ \E l \in Labels : QuietMove(t, l)
    <2>1. t \in Threads /\ "kick_send" \in Labels
      BY DEF Threads, Labels
    <2> QED BY <1>3, <2>1, KickKinds
  <1> QED BY <1>1, <1>2, <1>3, StepKinds DEF Next

\* The parts of the invariant, one after another.

LEMMA LeavingFinite ==
    ASSUME NEW c
    PROVE  IsFiniteSet(Leaving(c)) /\ Cardinality(Leaving(c)) \in Nat
  <1>1. IsFiniteSet(Threads)
    BY ThreadsAssumption, FS_Union DEF Threads
  <1>2. Leaving(c) \subseteq Threads
    BY DEF Leaving
  <1> QED BY <1>1, <1>2, FS_Subset, FS_CardinalityType

\* Where only t moves, only t can begin or end to leave.
LEMMA LeavingMoves ==
    ASSUME NEW t \in Threads, OnlyMoves(t), NEW c
    PROVE  LET leaves1 == pc[t] \in {"drop", "leave"} /\ vic[t] = c
               leaves2 == pc'[t] \in {"drop", "leave"} /\ vic'[t] = c
           IN  /\ (leaves1 <=> leaves2) => Leaving(c)' = Leaving(c)
               /\ leaves2 /\ ~leaves1 => Leaving(c)' = Leaving(c) \cup {t} /\ t \notin Leaving(c)
               /\ leaves1 /\ ~leaves2 => Leaving(c)' = Leaving(c) \ {t} /\ t \in Leaving(c)
  BY DEF OnlyMoves, Leaving

LEMMA BudgetNext == Inv1 /\ BudgetInv /\ Next => BudgetInv'
  <1> SUFFICES ASSUME Inv1, BudgetInv, Next, NEW c \in Sids
               PROVE  Budget(c)' <= inserts'[c]
    BY DEF BudgetInv
  <1>1. /\ Budget(c) <= inserts[c]
        /\ leaves[c] \in Nat /\ inserts[c] \in Nat /\ Cardinality(Leaving(c)) \in Nat
    BY LeavingFinite DEF BudgetInv, Inv1, StoreOK
  <1>2. ASSUME UNCHANGED <<m_session_to_player, inserts, leaves>>, Leaving(c)' = Leaving(c)
        PROVE  Budget(c)' <= inserts'[c]
    BY <1>1, <1>2 DEF Mapped, Budget
  <1>3. CASE Accept \/ (Kept /\ UNCHANGED <<pc, sid, vic, pid, reading>>)
    <2>1. UNCHANGED <<m_session_to_player, inserts, leaves, pc, vic>>
      BY <1>3 DEF Accept, Kept, mapVars, ghostVars, localVars
    <2>2. Leaving(c)' = Leaving(c)
      BY <2>1 DEF Leaving
    <2> QED BY <1>2, <2>1, <2>2
  <1>4. ASSUME NEW t \in Threads, OnlyMoves(t),
               \/ \E d \in Sids : TakesUp(t, d)
               \/ QuietReturn(t)
               \/ \E l \in Labels : QuietMove(t, l)
        PROVE  Budget(c)' <= inserts'[c]
    <2>1. UNCHANGED <<m_session_to_player, inserts, leaves>>
      BY <1>4 DEF TakesUp, QuietReturn, QuietMove, Kept, mapVars
    <2>2. pc[t] \notin {"drop", "leave"}
      BY <1>4 DEF TakesUp, QuietReturn, QuietMove
    <2>3. pc'[t] \notin {"drop", "leave"}
      BY <1>4 DEF TakesUp, QuietReturn, Return, QuietMove, Goto, PacketLabels, Inv1, ThreadsOK
    <2> QED BY <1>2, <1>4, <2>1, <2>2, <2>3, LeavingMoves
  <1>5. ASSUME NEW t \in Threads, OnlyMoves(t), Insert(t) \/ Veto(t) \/ Erase(t) \/ DropPlayer(t)
        PROVE  Budget(c)' <= inserts'[c]
    <2>1. Leaving(c)' = Leaving(c)
      <3>1. vic'[t] = vic[t] /\ (pc'[t] \in {"drop", "leave"} <=> pc[t] \in {"drop", "leave"})
        BY <1>5 DEF Insert, Veto, Erase, DropPlayer, Continue, Goto, At, localVars, Inv1, ThreadsOK
      <3> QED BY <1>5, <3>1, LeavingMoves
    <2>2. CASE Insert(t)
      <3>1. leaves' = leaves /\ inserts'[c] \in Nat
        BY <1>1, <2>2 DEF Insert, Inv1, StoreOK
      <3>2. \/ inserts'[c] = inserts[c] + 1
            \/ inserts'[c] = inserts[c] /\ m_session_to_player'[c] = m_session_to_player[c]
        BY <2>2 DEF Insert, Inv1, StoreOK
      <3> QED BY <1>1, <2>1, <3>1, <3>2 DEF Mapped, Budget
    <2>3. CASE Veto(t)
      <3>1. UNCHANGED <<leaves, inserts>>
        BY <2>3 DEF Veto, ghostVars
      <3>2. m_session_to_player'[c] \in {NoPid, m_session_to_player[c]}
        BY <2>3 DEF Veto, VetoErases, Inv1, StoreOK
      <3> QED BY <1>1, <2>1, <3>1, <3>2 DEF Mapped, Budget
    <2>4. CASE Erase(t) \/ DropPlayer(t)
      BY <1>2, <2>1, <2>4 DEF Erase, DropPlayer, mapVars, ghostVars
    <2> QED BY <1>5, <2>2, <2>3, <2>4
  <1>6. ASSUME NEW t \in Threads, OnlyMoves(t), Unmap(t), Mapped(vic[t])
        PROVE  Budget(c)' <= inserts'[c]
    <2>1. /\ pc[t] = "unmap" /\ pc'[t] = "drop" /\ vic'[t] = vic[t]
          /\ UNCHANGED <<leaves, inserts>>
          /\ m_session_to_player' = [m_session_to_player EXCEPT ![vic[t]] = NoPid]
      BY <1>6 DEF Unmap, TakeMapping, Mapped, At, Goto, ghostVars, Inv1, ThreadsOK
    <2>2. CASE c = vic[t]
      <3>1. Leaving(c)' = Leaving(c) \cup {t} /\ t \notin Leaving(c)
        BY <1>6, <2>1, <2>2, LeavingMoves
      <3>2. Cardinality(Leaving(c)') = Cardinality(Leaving(c)) + 1
        BY <3>1, LeavingFinite, FS_AddElement
      <3>3. ~Mapped(c)' /\ Mapped(c)
        BY <1>6, <2>1, <2>2 DEF Mapped, Inv1, StoreOK
      <3> QED BY <1>1, <2>1, <3>2, <3>3 DEF Budget
    <2>3. CASE c # vic[t]
      <3>1. Leaving(c)' = Leaving(c)
        BY <1>6, <2>1, <2>3, LeavingMoves
      <3>2. m_session_to_player'[c] = m_session_to_player[c]
        BY <2>1, <2>3 DEF Inv1, StoreOK
      <3> QED BY <1>1, <2>1, <3>1, <3>2 DEF Mapped, Budget
    <2> QED BY <2>2, <2>3
  <1>7. ASSUME NEW t \in Threads, OnlyMoves(t), BroadcastPlayerLeave(t)
        PROVE  Budget(c)' <= inserts'[c]
    <2>1. /\ pc[t] = "leave" /\ pc'[t] = "idle"
          /\ leaves' = [leaves EXCEPT ![vic[t]] = @ + 1]
          /\ UNCHANGED <<inserts, m_session_to_player>>
      BY <1>7 DEF BroadcastPlayerLeave, Return, At, Goto, mapVars, Inv1, ThreadsOK
    <2>2. CASE c = vic[t]
      <3>1. Leaving(c)' = Leaving(c) \ {t} /\ t \in Leaving(c)
        BY <1>7, <2>1, <2>2, LeavingMoves
      <3>2. Cardinality(Leaving(c)') = Cardinality(Leaving(c)) - 1
        BY <3>1, LeavingFinite, FS_RemoveElement
      <3>3. leaves'[c] = leaves[c] + 1
        BY <2>1, <2>2 DEF Inv1, StoreOK
      <3> QED BY <1>1, <2>1, <3>2, <3>3 DEF Mapped, Budget
    <2>3. CASE c # vic[t]
      <3>1. Leaving(c)' = Leaving(c)
        BY <1>7, <2>1, <2>3, LeavingMoves
      <3>2. leaves'[c] = leaves[c]
        BY <2>1, <2>3 DEF Inv1, StoreOK
      <3> QED BY <1>1, <2>1, <3>1, <3>2 DEF Mapped, Budget
    <2> QED BY <2>2, <2>3
  <1> QED BY <1>3, <1>4, <1>5, <1>6, <1>7, Kinds DEF Special

LEMMA OriginNext == Inv1 /\ OriginInv /\ Next => OriginInv'
  <1> SUFFICES ASSUME Inv1, OriginInv, Next PROVE OriginInv'
    OBVIOUS
  <1> USE DEF Mapped
  <1>1. CASE Accept
    <2>1. /\ m_next_session_id \in Sids /\ m_next_session_id \in Nat
          /\ m_next_session_id' = m_next_session_id + 1
          /\ m_sessions' = m_sessions \cup {m_next_session_id}
          /\ UNCHANGED <<writing, inserts, m_session_to_player, pc, sid, vic>>
      BY <1>1, BoundsAssumption DEF Accept, mapVars, localVars, ghostVars, Inv1, StoreOK, Sids
    <2>2. \A c \in Sids : c >= m_next_session_id' =>
            c >= m_next_session_id /\ c # m_next_session_id
      BY <2>1, BoundsAssumption DEF Sids
    <2>3. \A t \in Threads : vic[t] # m_next_session_id
      BY <2>1 DEF OriginInv
    <2> QED BY <2>1, <2>2, <2>3 DEF OriginInv
  <1>2. CASE Kept /\ writing' \subseteq writing /\ UNCHANGED <<pc, sid, vic, pid, reading>>
    BY <1>2 DEF OriginInv, Kept, mapVars
  <1>3. ASSUME NEW t \in Threads, OnlyMoves(t), writing' \subseteq writing \cup m_sessions,
               NEW d \in Sids, TakesUp(t, d)
        PROVE  OriginInv'
    <2>1. /\ UNCHANGED <<m_session_to_player, inserts, m_sessions, m_next_session_id>>
          /\ writing' \subseteq writing /\ vic'[t] = d /\ d \in reading \cup writing
      BY <1>3 DEF TakesUp, Kept, mapVars, Inv1, ThreadsOK
    <2>2. d < m_next_session_id
      BY <2>1, BoundsAssumption DEF OriginInv, Inv1, StoreOK, Sids
    <2>3. \/ pc'[t] = "erase"
          \/ pc'[t] \in PacketLabels /\ sid'[t] = d
      BY <1>3 DEF TakesUp, Goto, Inv1, ThreadsOK
    <2>4. \A u \in Threads : vic'[u] = vic[u] \/ vic'[u] = d
      BY <1>3, <2>1 DEF OnlyMoves
    <2>5. \A c \in Sids : c >= m_next_session_id =>
            \A u \in Threads : vic[u] # c /\ c # d
      <3>1. \A c \in Sids : c >= m_next_session_id => c # d
        BY <2>2, BoundsAssumption DEF Inv1, StoreOK, Sids
      <3> QED BY <3>1 DEF OriginInv
    <2>6. \A c \in Sids : c >= m_next_session_id' =>
            /\ c \notin m_sessions' /\ c \notin writing'
            /\ inserts'[c] = 0 /\ ~Mapped(c)'
            /\ \A u \in Threads : vic'[u] # c
      BY <2>1, <2>4, <2>5 DEF OriginInv
    <2>7. /\ pc'[t] \notin {"idle", "unmap"}
          /\ pc'[t] \in PacketLabels => vic'[t] = sid'[t]
      BY <2>1, <2>3 DEF PacketLabels
    <2>8. \A u \in Threads : /\ pc'[u] = "idle" => sid'[u] = NoSid
                             /\ pc'[u] \in PacketLabels => vic'[u] = sid'[u]
                             /\ pc'[u] = "unmap" => vic'[u] \notin m_sessions'
      BY <1>3, <2>1, <2>7 DEF OriginInv, OnlyMoves
    <2> QED BY <2>6, <2>8 DEF OriginInv
  <1>4. ASSUME NEW t \in Threads, OnlyMoves(t), writing' \subseteq writing \cup m_sessions,
               QuietReturn(t)
        PROVE  OriginInv'
    <2>1. /\ UNCHANGED <<m_session_to_player, inserts, m_sessions, m_next_session_id>>
          /\ pc'[t] = "idle" /\ sid'[t] = NoSid /\ vic'[t] = NoSid
      BY <1>4 DEF QuietReturn, Return, Goto, Kept, mapVars, Inv1, ThreadsOK
    <2> QED BY <1>4, <2>1, Constants DEF OriginInv, OnlyMoves
  <1>5. ASSUME NEW t \in Threads, OnlyMoves(t), writing' \subseteq writing \cup m_sessions,
               NEW l \in Labels, QuietMove(t, l)
        PROVE  OriginInv'
    <2>1. /\ UNCHANGED <<m_session_to_player, inserts, m_sessions, m_next_session_id, sid>>
          /\ pc'[t] = l /\ l \notin {"idle", "unmap"}
          /\ l \in PacketLabels => pc[t] \in PacketLabels /\ vic'[t] = vic[t]
          /\ vic'[t] = vic[t] \/ (vic'[t] \in Sids /\ Mapped(vic'[t]))
      BY <1>5 DEF QuietMove, Goto, Kept, mapVars, Inv1, ThreadsOK
    <2> QED BY <1>5, <2>1 DEF OriginInv, OnlyMoves
  <1>6. ASSUME NEW t \in Threads, OnlyMoves(t), Insert(t) \/ Veto(t)
        PROVE  OriginInv'
    <2>1. sid[t] \in Sids /\ ~(sid[t] >= m_next_session_id)
      BY <1>6 DEF Insert, Veto, At, PacketLabels, Inv1, ThreadsOK, StoreOK
    <2>2. /\ UNCHANGED <<m_sessions, m_next_session_id, writing, sid, vic>>
          /\ pc[t] \in PacketLabels /\ pc'[t] \in PacketLabels
          /\ \A c \in Sids : c # sid[t] =>
               inserts'[c] = inserts[c] /\ m_session_to_player'[c] = m_session_to_player[c]
      BY <1>6 DEF Insert, Veto, VetoErases, At, Continue, Goto, PacketLabels, localVars, ghostVars,
         Inv1, ThreadsOK, StoreOK
    <2> QED BY <1>6, <2>1, <2>2 DEF OriginInv, OnlyMoves, PacketLabels
  <1>7. ASSUME NEW t \in Threads, OnlyMoves(t), Erase(t)
        PROVE  OriginInv'
    <2>1. /\ UNCHANGED <<m_next_session_id, writing, sid, vic, m_session_to_player, inserts>>
          /\ m_sessions' = m_sessions \ {vic[t]}
          /\ pc'[t] = "unmap"
      BY <1>7 DEF Erase, ForgetsSession, Continue, Goto, localVars, mapVars, ghostVars, Inv1, ThreadsOK
    <2> QED BY <1>7, <2>1 DEF OriginInv, OnlyMoves, PacketLabels
  <1>8. ASSUME NEW t \in Threads, OnlyMoves(t), Unmap(t), Mapped(vic[t])
        PROVE  OriginInv'
    <2>1. /\ UNCHANGED <<m_next_session_id, writing, sid, vic, inserts, m_sessions>>
          /\ pc'[t] = "drop"
          /\ \A c \in Sids : m_session_to_player'[c] \in {NoPid, m_session_to_player[c]}
      BY <1>8 DEF Unmap, TakeMapping, Goto, ghostVars, Inv1, ThreadsOK, StoreOK
    <2> QED BY <1>8, <2>1 DEF OriginInv, OnlyMoves, PacketLabels
  <1>9. ASSUME NEW t \in Threads, OnlyMoves(t), DropPlayer(t)
        PROVE  OriginInv'
    <2>1. /\ UNCHANGED <<m_next_session_id, writing, sid, vic, inserts, m_sessions,
                         m_session_to_player>>
          /\ pc'[t] = "leave"
      BY <1>9 DEF DropPlayer, Continue, Goto, localVars, ghostVars, Inv1, ThreadsOK
    <2> QED BY <1>9, <2>1 DEF OriginInv, OnlyMoves, PacketLabels
  <1>10. ASSUME NEW t \in Threads, OnlyMoves(t), writing' \subseteq writing \cup m_sessions,
                BroadcastPlayerLeave(t)
         PROVE  OriginInv'
    <2>1. /\ UNCHANGED <<m_next_session_id, inserts, m_sessions, m_session_to_player>>
          /\ pc'[t] = "idle" /\ sid'[t] = NoSid /\ vic'[t] = NoSid
      BY <1>10 DEF BroadcastPlayerLeave, Return, Goto, mapVars, Inv1, ThreadsOK
    <2> QED BY <1>10, <2>1, Constants DEF OriginInv, OnlyMoves
  <1> QED
    BY <1>1, <1>2, <1>3, <1>4, <1>5, <1>6, <1>7, <1>8, <1>9, <1>10, Kinds DEF Special

\* The entry of a session stays until somebody takes it, and somebody will.
LEMMA WatchedNext == Inv1 /\ OriginInv /\ WatchedInv /\ Next => WatchedInv'
  <1> SUFFICES ASSUME Inv1, OriginInv, WatchedInv, Next, NEW c \in Sids, Mapped(c)'
               PROVE  Watched(c)'
    BY DEF WatchedInv
  <1>1. CASE Accept
    <2>1. /\ UNCHANGED <<m_session_to_player, pc, sid, vic>>
          /\ m_sessions \subseteq m_sessions' /\ reading \subseteq reading'
      BY <1>1 DEF Accept, mapVars, localVars
    <2> QED BY <2>1 DEF WatchedInv, Watched, Mapped
  <1>2. CASE Kept /\ UNCHANGED <<pc, sid, vic, pid, reading>>
    BY <1>2 DEF WatchedInv, Watched, Mapped, Kept, mapVars
  <1>3. ASSUME NEW t \in Threads, OnlyMoves(t), NEW d \in Sids, TakesUp(t, d)
        PROVE  Watched(c)'
    <2>1. UNCHANGED <<m_session_to_player, m_sessions>> /\ Watched(c)
      BY <1>3 DEF TakesUp, Kept, mapVars, WatchedInv, Mapped
    <2>2. sid[t] = NoSid /\ c # NoSid /\ pc[t] = "idle"
      BY <1>3, Constants DEF TakesUp, OriginInv
    <2>3. CASE c \in m_sessions
      BY <2>1, <2>3 DEF Watched
    <2>4. CASE c \in reading
      <3>1. CASE c # d
        BY <1>3, <2>4, <3>1 DEF TakesUp, Watched
      <3>2. CASE c = d
        <4>1. vic'[t] = c /\ (pc'[t] = "erase" \/ sid'[t] = c)
          BY <1>3, <3>2 DEF TakesUp, Goto, Inv1, ThreadsOK
        <4> QED BY <4>1 DEF Watched
      <3> QED BY <3>1, <3>2
    <2>5. ASSUME NEW u \in Threads, sid[u] = c \/ (vic[u] = c /\ pc[u] \in {"erase", "unmap"})
          PROVE  Watched(c)'
      <3>1. u # t
        BY <2>2, <2>5
      <3> QED BY <1>3, <2>5, <3>1 DEF OnlyMoves, Watched
    <2> QED BY <2>1, <2>3, <2>4, <2>5 DEF Watched
  <1>4. ASSUME NEW t \in Threads, OnlyMoves(t), Return(t), UNCHANGED <<m_session_to_player, m_sessions>>,
               pc[t] \in {"erase", "unmap"} => ~Mapped(vic[t])
        PROVE  Watched(c)'
    <2>1. Watched(c) /\ Mapped(c)
      BY <1>4 DEF WatchedInv, Mapped
    <2>2. reading' = IF sid[t] = NoSid THEN reading ELSE reading \cup {sid[t]}
      BY <1>4 DEF Return, ReArmed
    <2>3. CASE sid[t] = c
      BY <2>2, <2>3, Constants DEF Watched
    <2>4. CASE c \in m_sessions \/ c \in reading
      BY <1>4, <2>2, <2>4 DEF Watched
    <2>5. ASSUME NEW u \in Threads, u # t,
                 sid[u] = c \/ (vic[u] = c /\ pc[u] \in {"erase", "unmap"})
          PROVE  Watched(c)'
      BY <1>4, <2>5 DEF OnlyMoves, Watched
    <2> QED BY <1>4, <2>1, <2>3, <2>4, <2>5 DEF Watched
  <1>5. ASSUME NEW t \in Threads, OnlyMoves(t), UNCHANGED <<sid, reading, m_sessions>>,
               Mapped(c), pc[t] \notin {"erase", "unmap"}
        PROVE  Watched(c)'
    <2>1. Watched(c)
      BY <1>5 DEF WatchedInv
    <2> QED BY <1>5, <2>1 DEF Watched, OnlyMoves
  <1>6. ASSUME NEW t \in Threads, OnlyMoves(t), NEW l \in Labels, QuietMove(t, l)
        PROVE  Watched(c)'
    BY <1>5, <1>6 DEF QuietMove, Kept, mapVars, Mapped
  <1>7. ASSUME NEW t \in Threads, OnlyMoves(t), Insert(t) \/ Veto(t)
        PROVE  Watched(c)'
    <2>1. UNCHANGED <<sid, reading, m_sessions>> /\ pc[t] \in {"insert", "veto"}
      BY <1>7 DEF Insert, Veto, Continue, At, localVars
    <2>2. CASE c = sid[t]
      BY <2>1, <2>2 DEF Watched
    <2>3. CASE c # sid[t]
      <3>1. Mapped(c)
        BY <1>7, <2>3 DEF Insert, Veto, VetoErases, Mapped, Inv1, StoreOK
      <3> QED BY <1>5, <1>7, <2>1, <3>1
    <2> QED BY <2>2, <2>3
  <1>8. ASSUME NEW t \in Threads, OnlyMoves(t), Erase(t)
        PROVE  Watched(c)'
    <2>1. /\ UNCHANGED <<m_session_to_player, sid, vic, reading>>
          /\ m_sessions' = m_sessions \ {vic[t]} /\ pc'[t] = "unmap" /\ pc[t] = "erase"
      BY <1>8 DEF Erase, ForgetsSession, Continue, Goto, At, localVars, mapVars, Inv1, ThreadsOK
    <2>2. Watched(c)
      BY <2>1 DEF WatchedInv, Mapped
    <2> QED BY <1>8, <2>1, <2>2 DEF Watched, OnlyMoves
  <1>9. ASSUME NEW t \in Threads, OnlyMoves(t), Unmap(t), Mapped(vic[t])
        PROVE  Watched(c)'
    <2>1. /\ UNCHANGED <<m_sessions, sid, vic, reading>>
          /\ m_session_to_player' = [m_session_to_player EXCEPT ![vic[t]] = NoPid]
      BY <1>9 DEF Unmap, TakeMapping, Mapped
    <2>2. c # vic[t] /\ Mapped(c)
      BY <2>1 DEF Mapped, Inv1, StoreOK
    <2>3. Watched(c)
      BY <2>2 DEF WatchedInv
    <2> QED BY <1>9, <2>1, <2>2, <2>3 DEF Watched, OnlyMoves
  <1>10. ASSUME NEW t \in Threads, OnlyMoves(t), DropPlayer(t)
         PROVE  Watched(c)'
    BY <1>5, <1>10 DEF DropPlayer, Continue, At, localVars, Mapped
  <1>11. ASSUME NEW t \in Threads, OnlyMoves(t), QuietReturn(t) \/ BroadcastPlayerLeave(t)
         PROVE  Watched(c)'
    BY <1>4, <1>11 DEF QuietReturn, Kept, BroadcastPlayerLeave, At, mapVars
  <1> QED
    BY <1>1, <1>2, <1>3, <1>6, <1>7, <1>8, <1>9, <1>10, <1>11, Kinds DEF Special

\* A session that TCPServer knows and that logged in is mapped or refused.
LEMMA ReachNext ==
    ASSUME Inv1, OriginInv, Inv2, exact, ReachInv, Next PROVE ReachInv'
  <1> SUFFICES ASSUME NEW c \in Sids, c \in m_sessions', inserts'[c] > 0
               PROVE  Mapped(c)' \/ Refused(c)'
    <2>1. m_sessions' \subseteq Sids
      BY NextOK DEF Inv1, StoreOK
    <2> QED BY <2>1 DEF ReachInv
  <1>1. CASE Accept
    <2>1. /\ UNCHANGED <<m_session_to_player, inserts, pc, sid, vic>>
          /\ m_sessions' = m_sessions \cup {m_next_session_id}
      BY <1>1 DEF Accept, mapVars, localVars, ghostVars
    <2>2. c \in m_sessions
      BY <2>1, BoundsAssumption DEF OriginInv, Inv1, StoreOK, Sids
    <2> QED BY <2>1, <2>2 DEF ReachInv, Refused, Mapped
  <1>2. CASE Kept /\ UNCHANGED <<pc, sid, vic, pid, reading>>
    BY <1>2 DEF ReachInv, Refused, Mapped, Kept, mapVars
  <1>3. ASSUME NEW t \in Threads, OnlyMoves(t), c \in m_sessions,
               UNCHANGED <<m_session_to_player, inserts>>,
               sid[t] = c /\ vic[t] = c /\ pc[t] \in {"reject", "disconnect", "erase"} =>
                 sid'[t] = c /\ vic'[t] = c /\ pc'[t] \in {"reject", "disconnect", "erase"}
        PROVE  Mapped(c)' \/ Refused(c)'
    <2>1. Mapped(c) \/ Refused(c)
      BY <1>3 DEF ReachInv
    <2> QED BY <1>3, <2>1 DEF Mapped, Refused, OnlyMoves
  <1>4. ASSUME NEW t \in Threads, OnlyMoves(t),
               \/ \E d \in Sids : TakesUp(t, d)
               \/ QuietReturn(t)
               \/ \E l \in Labels : QuietMove(t, l)
        PROVE  Mapped(c)' \/ Refused(c)'
    <2>1. UNCHANGED <<m_session_to_player, inserts>> /\ c \in m_sessions
      BY <1>4 DEF TakesUp, QuietReturn, QuietMove, Kept, mapVars
    <2>2. CASE (\E d \in Sids : TakesUp(t, d)) \/ QuietReturn(t)
      BY <1>3, <1>4, <2>1, <2>2 DEF TakesUp, QuietReturn
    <2>3. ASSUME NEW l \in Labels, QuietMove(t, l)
          PROVE  Mapped(c)' \/ Refused(c)'
      <3>1. pc'[t] = l /\ sid' = sid
        BY <2>3 DEF QuietMove, Goto, Inv1, ThreadsOK
      <3> QED BY <1>3, <1>4, <2>1, <2>3, <3>1 DEF QuietMove
    <2> QED BY <1>4, <2>2, <2>3
  <1>5. ASSUME NEW t \in Threads, OnlyMoves(t), Insert(t) \/ Veto(t)
        PROVE  Mapped(c)' \/ Refused(c)'
    <2>1. /\ UNCHANGED <<m_sessions, sid, vic>> /\ pc[t] \in {"insert", "veto"}
          /\ sid[t] \in Sids /\ vic[t] = sid[t]
      BY <1>5 DEF Insert, Veto, Continue, At, localVars, PacketLabels, OriginInv, Inv1, ThreadsOK
    <2>2. CASE c # sid[t]
      <3>1. m_session_to_player'[c] = m_session_to_player[c] /\ inserts'[c] = inserts[c]
        BY <1>5, <2>1, <2>2 DEF Insert, Veto, VetoErases, ghostVars, Inv1, StoreOK
      <3>2. Mapped(c) \/ Refused(c)
        BY <2>1, <3>1 DEF ReachInv
      <3> QED BY <1>5, <2>1, <3>1, <3>2 DEF Mapped, Refused, OnlyMoves
    <2>3. CASE c = sid[t] /\ Insert(t)
      <3>1. m_session_to_player'[c] = pid[t]
        BY <2>1, <2>3 DEF Insert, Inv1, StoreOK
      <3>2. pid[t] # NoPid
        BY <2>3, BoundsAssumption DEF Insert, At, Inv2, IdFacts, NoPid
      <3> QED BY <3>1, <3>2 DEF Mapped
    <2>4. CASE c = sid[t] /\ Veto(t)
      <3>1. pc'[t] = "reject"
        BY <2>4 DEF Veto, Continue, Goto, Inv1, ThreadsOK
      <3> QED BY <2>1, <2>4, <3>1 DEF Refused
    <2> QED BY <1>5, <2>2, <2>3, <2>4
  <1>6. ASSUME NEW t \in Threads, OnlyMoves(t), Erase(t)
        PROVE  Mapped(c)' \/ Refused(c)'
    BY <1>3, <1>6 DEF Erase, ForgetsSession, mapVars, ghostVars
  <1>7. ASSUME NEW t \in Threads, OnlyMoves(t), Unmap(t), Mapped(vic[t])
        PROVE  Mapped(c)' \/ Refused(c)'
    <2>1. /\ UNCHANGED <<inserts, m_sessions>> /\ pc[t] = "unmap"
          /\ m_session_to_player' = [m_session_to_player EXCEPT ![vic[t]] = NoPid]
      BY <1>7 DEF Unmap, TakeMapping, Mapped, At, ghostVars
    <2>2. m_session_to_player'[c] = m_session_to_player[c]
      BY <2>1 DEF OriginInv, Inv1, StoreOK
    <2>3. Mapped(c) \/ Refused(c)
      BY <2>1 DEF ReachInv
    <2> QED BY <1>7, <2>1, <2>2, <2>3 DEF Mapped, Refused, OnlyMoves
  <1>8. ASSUME NEW t \in Threads, OnlyMoves(t), DropPlayer(t) \/ BroadcastPlayerLeave(t)
        PROVE  Mapped(c)' \/ Refused(c)'
    BY <1>3, <1>8 DEF DropPlayer, BroadcastPlayerLeave, At, ghostVars, mapVars
  <1> QED BY <1>1, <1>2, <1>4, <1>5, <1>6, <1>7, <1>8, Kinds DEF Special

\* A player is erased by the thread that took its session's entry.
LEMMA OwnerNext ==
    ASSUME Inv1, Inv2, exact, OwnerInv, Next PROVE OwnerInv'
  <1> DEFINE Of(p, c) == p \in Online /\ m_players[p].sid = c
             OfNext(p, c) == p \in Online' /\ m_players'[p].sid = c
  <1>0. \A c \in Sids : inserts[c] <= 1 =>
          /\ inserts[c] = 0 => \A p : ~Of(p, c)
          /\ \A p : Of(p, c) => Owned(p, c)
          /\ \A t \in Threads : pc[t] = "veto" /\ sid[t] = c => \A p : Of(p, c) => p = pid[t]
    BY DEF OwnerInv
  <1> SUFFICES ASSUME NEW c \in Sids, inserts'[c] <= 1
               PROVE  /\ inserts'[c] = 0 => \A p : ~OfNext(p, c)
                      /\ \A p : OfNext(p, c) => Owned(p, c)'
                      /\ \A t \in Threads : pc'[t] = "veto" /\ sid'[t] = c =>
                           \A p : OfNext(p, c) => p = pid'[t]
    BY DEF OwnerInv
  <1> DEFINE Goal == /\ inserts'[c] = 0 => \A p : ~OfNext(p, c)
                     /\ \A p : OfNext(p, c) => Owned(p, c)'
                     /\ \A t \in Threads : pc'[t] = "veto" /\ sid'[t] = c =>
                          \A p : OfNext(p, c) => p = pid'[t]
  <1>1. ASSUME NEW t \in Threads, OnlyMoves(t), UNCHANGED <<m_session_to_player, inserts>>,
               \A p : OfNext(p, c) => Of(p, c) /\ (pc[t] = "drop" => p # pid[t]),
               pc'[t] # "veto"
        PROVE  Goal
    <2>1. \A p : OfNext(p, c) => Owned(p, c)
      BY <1>0, <1>1
    <2>2. \A p : OfNext(p, c) => Owned(p, c)'
      BY <1>1, <2>1 DEF Owned, OnlyMoves
    <2>3. \A u \in Threads : pc'[u] = "veto" /\ sid'[u] = c => \A p : OfNext(p, c) => p = pid'[u]
      BY <1>0, <1>1 DEF OnlyMoves
    <2> QED BY <1>0, <1>1, <2>2, <2>3
  <1>2. CASE Accept \/ (Kept /\ UNCHANGED <<pc, sid, vic, pid, reading>>)
    <2>1. UNCHANGED <<m_session_to_player, m_players, inserts, pc, sid, vic, pid>>
      BY <1>2 DEF Accept, Kept, mapVars, localVars, ghostVars
    <2> QED BY <1>0, <2>1 DEF Owned, Online
  <1>3. ASSUME NEW t \in Threads, OnlyMoves(t),
               \/ \E d \in Sids : TakesUp(t, d)
               \/ QuietReturn(t)
               \/ \E l \in Labels : QuietMove(t, l)
        PROVE  Goal
    <2>1. UNCHANGED <<m_session_to_player, m_players, inserts>> /\ pc[t] # "drop"
      BY <1>3 DEF TakesUp, QuietReturn, QuietMove, Kept, mapVars
    <2>2. pc'[t] # "veto"
      BY <1>3 DEF TakesUp, QuietReturn, Return, QuietMove, Goto, Inv1, ThreadsOK
    <2> QED BY <1>1, <1>3, <2>1, <2>2 DEF Online
  <1>4. ASSUME NEW t \in Threads, OnlyMoves(t), Erase(t) \/ BroadcastPlayerLeave(t)
        PROVE  Goal
    <2>1. UNCHANGED <<m_session_to_player, m_players, inserts>> /\ pc[t] # "drop"
      BY <1>4 DEF Erase, BroadcastPlayerLeave, At, mapVars, ghostVars
    <2>2. pc'[t] # "veto"
      BY <1>4 DEF Erase, BroadcastPlayerLeave, Continue, Return, Goto, Inv1, ThreadsOK
    <2> QED BY <1>1, <1>4, <2>1, <2>2 DEF Online
  <1>5. ASSUME NEW t \in Threads, OnlyMoves(t), DropPlayer(t)
        PROVE  Goal
    <2>1. /\ UNCHANGED <<m_session_to_player, inserts>> /\ pc'[t] # "veto"
          /\ m_players' = [m_players EXCEPT ![pid[t]] = NoPlayer]
      BY <1>5 DEF DropPlayer, Continue, Goto, ghostVars, Inv1, ThreadsOK
    <2>2. \A p : OfNext(p, c) => Of(p, c) /\ p # pid[t]
      BY <2>1 DEF Online, Inv1, StoreOK
    <2> QED BY <1>1, <1>5, <2>1, <2>2
  <1>6. ASSUME NEW t \in Threads, OnlyMoves(t), Unmap(t), Mapped(vic[t])
        PROVE  Goal
    <2>1. /\ UNCHANGED <<m_players, inserts, sid, vic>> /\ pc[t] = "unmap" /\ pc'[t] = "drop"
          /\ pid'[t] = m_session_to_player[vic[t]]
          /\ m_session_to_player' = [m_session_to_player EXCEPT ![vic[t]] = NoPid]
      BY <1>6 DEF Unmap, TakeMapping, Mapped, At, Goto, ghostVars, Inv1, ThreadsOK
    <2>2. \A p : OfNext(p, c) => Of(p, c) /\ Owned(p, c)
      BY <1>0, <2>1 DEF Online
    <2>3. ASSUME NEW p, Owned(p, c) PROVE Owned(p, c)'
      <3>1. CASE c = vic[t] /\ m_session_to_player[c] = p
        BY <2>1, <3>1 DEF Owned
      <3>2. CASE c # vic[t] /\ m_session_to_player[c] = p
        BY <2>1, <3>2 DEF Owned, Inv1, StoreOK
      <3>3. ASSUME NEW u \in Threads, pc[u] = "drop", pid[u] = p, vic[u] = c
            PROVE  Owned(p, c)'
        BY <1>6, <2>1, <3>3 DEF Owned, OnlyMoves
      <3> QED BY <2>3, <3>1, <3>2, <3>3 DEF Owned
    <2>4. \A u \in Threads : pc'[u] = "veto" /\ sid'[u] = c => \A p : OfNext(p, c) => p = pid'[u]
      BY <1>0, <1>6, <2>1, <2>2 DEF OnlyMoves
    <2> QED BY <1>0, <2>1, <2>2, <2>3, <2>4
  <1>7. ASSUME NEW t \in Threads, OnlyMoves(t), Veto(t)
        PROVE  Goal
    <2>1. /\ UNCHANGED <<inserts, sid, vic, pid>> /\ pc[t] = "veto" /\ pc'[t] = "reject"
          /\ m_players' = [m_players EXCEPT ![pid[t]] = NoPlayer]
          /\ m_session_to_player' = [m_session_to_player EXCEPT ![sid[t]] = NoPid]
      BY <1>7 DEF Veto, VetoErases, At, Continue, Goto, localVars, ghostVars, Inv1, ThreadsOK
    <2>2. \A p : OfNext(p, c) => Of(p, c) /\ p # pid[t]
      BY <2>1 DEF Online, Inv1, StoreOK
    <2>3. \A p : OfNext(p, c) => Owned(p, c) /\ c # sid[t]
      BY <1>0, <2>1, <2>2
    <2>4. \A p : OfNext(p, c) => Owned(p, c)'
      <3>1. c # sid[t] => m_session_to_player'[c] = m_session_to_player[c]
        BY <2>1 DEF Inv1, StoreOK
      <3> QED BY <1>7, <2>1, <2>3, <3>1 DEF Owned, OnlyMoves
    <2>5. \A u \in Threads : pc'[u] = "veto" /\ sid'[u] = c => \A p : OfNext(p, c) => p = pid'[u]
      BY <1>0, <1>7, <2>1, <2>2 DEF OnlyMoves
    <2> QED BY <1>0, <2>1, <2>2, <2>4, <2>5
  <1>8. ASSUME NEW t \in Threads, OnlyMoves(t), Insert(t)
        PROVE  Goal
    <2>1. /\ UNCHANGED <<sid, vic, pid>> /\ pc[t] = "insert" /\ sid[t] \in Sids /\ pid[t] \in Pids
          /\ inserts' = [inserts EXCEPT ![sid[t]] = @ + 1]
          /\ m_players' = [m_players EXCEPT ![pid[t]] = [sid |-> sid[t], role |-> role[t]]]
          /\ m_session_to_player' = [m_session_to_player EXCEPT ![sid[t]] = pid[t]]
      BY <1>8 DEF Insert, At, Continue, localVars, PacketLabels, Inv1, ThreadsOK
    <2>2. \A p : OfNext(p, c) => \/ p # pid[t] /\ Of(p, c)
                                 \/ p = pid[t] /\ c = sid[t]
      BY <2>1 DEF Online, Inv1, StoreOK
    <2>3. CASE c = sid[t]
      <3>1. inserts[c] = 0 /\ inserts'[c] = 1
        BY <2>1, <2>3 DEF Inv1, StoreOK
      <3>2. \A p : OfNext(p, c) => p = pid[t]
        BY <1>0, <2>2, <3>1
      <3>3. m_session_to_player'[c] = pid[t]
        BY <2>1, <2>3 DEF Inv1, StoreOK
      <3>4. \A u \in Threads : u # t => sid[u] # c
        BY <2>1, <2>3, Constants DEF Inv1, ThreadsOK, SerialHandlers
      <3> QED BY <2>1, <3>1, <3>2, <3>3, <3>4 DEF Owned
    <2>4. CASE c # sid[t]
      <3>1. inserts'[c] = inserts[c] /\ m_session_to_player'[c] = m_session_to_player[c]
        BY <2>1, <2>4 DEF Inv1, StoreOK
      <3>2. \A p : OfNext(p, c) => Of(p, c) /\ Owned(p, c)
        BY <1>0, <2>2, <2>4, <3>1
      <3>3. \A p : OfNext(p, c) => Owned(p, c)'
        BY <1>8, <2>1, <3>1, <3>2 DEF Owned, OnlyMoves
      <3>4. \A u \in Threads : pc'[u] = "veto" /\ sid'[u] = c => \A p : OfNext(p, c) => p = pid'[u]
        BY <1>0, <1>8, <2>1, <2>4, <3>1, <3>2 DEF OnlyMoves
      <3> QED BY <1>0, <3>1, <3>2, <3>3, <3>4
    <2> QED BY <2>3, <2>4
  <1> QED BY <1>2, <1>3, <1>4, <1>5, <1>6, <1>7, <1>8, Kinds DEF Special

LEMMA ExactNext == Inv1 /\ Next => (exact' => exact)
  <1> SUFFICES ASSUME Inv1, Next PROVE exact' => exact
    OBVIOUS
  <1>1. Accept => exact' = exact
    BY DEF Accept, ghostVars
  <1>2. Kept => (exact' => exact)
    BY Zenon DEF Kept
  <1>3. \A t \in Threads : Special(t) => exact' = exact
    BY DEF Special, Insert, Veto, Erase, Unmap, DropPlayer, BroadcastPlayerLeave, ghostVars
  <1> QED BY <1>1, <1>2, <1>3, Kinds, Zenon DEF TakesUp, QuietReturn, QuietMove

LEMMA Inv3Init == Init => Inv3
  <1> SUFFICES ASSUME Init PROVE Inv3
    OBVIOUS
  <1>1. BudgetInv
    <2>1. \A c : Leaving(c) = {}
      BY DEF Init, Leaving
    <2>2. \A c : Cardinality(Leaving(c)) = 0
      BY <2>1, FS_EmptySet
    <2> QED BY <2>2 DEF Init, BudgetInv, Budget, Mapped
  <1>2. OriginInv
    BY Constants DEF Init, OriginInv, Mapped
  <1>3. WatchedInv /\ ReachInv
    BY DEF Init, WatchedInv, ReachInv, Mapped
  <1>4. OwnerInv
    BY DEF Init, OwnerInv, Online
  <1> QED BY <1>1, <1>2, <1>3, <1>4 DEF Inv3

LEMMA Inv3Next == Inv1 /\ Inv2 /\ Inv3 /\ [Next]_vars => Inv3'
  <1> SUFFICES ASSUME Inv1, Inv2, Inv3, [Next]_vars PROVE Inv3'
    OBVIOUS
  <1>1. CASE Next
    <2>1. BudgetInv' /\ OriginInv' /\ WatchedInv'
      BY <1>1, BudgetNext, OriginNext, WatchedNext DEF Inv3
    <2>2. ASSUME exact' PROVE ReachInv' /\ OwnerInv'
      <3>1. exact
        BY <1>1, <2>2, ExactNext, Zenon
      <3>2. ReachInv /\ OwnerInv /\ OriginInv
        BY <3>1 DEF Inv3
      <3> QED BY <1>1, <3>1, <3>2, ReachNext, OwnerNext
    <2> QED BY <2>1, <2>2 DEF Inv3
  <1>2. CASE UNCHANGED vars
    <2>1. UNCHANGED <<m_next_session_id, m_sessions, reading, writing, mapVars, pc, sid, vic, pid,
                      inserts, leaves, exact>>
      BY <1>2 DEF vars, tcpVars, localVars, ghostVars
    <2>2. \A c : Leaving(c)' = Leaving(c)
      BY <2>1 DEF Leaving
    <2>3. BudgetInv'
      BY <2>1, <2>2 DEF Inv3, BudgetInv, Budget, Mapped, mapVars
    <2>4. OriginInv' /\ WatchedInv'
      BY <2>1 DEF Inv3, OriginInv, WatchedInv, Watched, Mapped, mapVars
    <2>5. (exact => ReachInv /\ OwnerInv)'
      BY <2>1 DEF Inv3, ReachInv, Refused, OwnerInv, Owned, Online, Mapped, mapVars
    <2> QED BY <2>3, <2>4, <2>5 DEF Inv3
  <1> QED BY <1>1, <1>2

LEMMA Inv3Holds == Spec => [](Inv1 /\ Inv2 /\ Inv3)
  BY InitOK, NextOK, Inv2Init, NextKeepsIds, Inv3Init, Inv3Next, PTL DEF Spec

\* However many failed reads, failed writes and kicks close a session at the
\* same time, onDisconnect announces at most one leave for each login: the
\* entry of m_session_to_player it takes out is the licence to announce one.
\* This needs no exact ids.
THEOREM LeavesAreBounded == Spec => []LeaveOncePerLogin
  <1>1. Inv1 /\ Inv3 => LeaveOncePerLogin
    <2> SUFFICES ASSUME Inv1, Inv3, NEW c \in Sids PROVE leaves[c] <= inserts[c]
      BY DEF LeaveOncePerLogin
    <2>1. Budget(c) <= inserts[c] /\ leaves[c] \in Nat /\ inserts[c] \in Nat
      BY DEF Inv3, BudgetInv, Inv1, StoreOK
    <2>2. Cardinality(Leaving(c)) \in Nat
      BY LeavingFinite
    <2> QED BY <2>1, <2>2 DEF Budget
  <1> QED BY <1>1, Inv3Holds, PTL

\* A session TCPServer still knows keeps the player that handleAuth gave it,
\* unless it is being refused: onSessionClose forgets the session before
\* onDisconnect takes the entry.
THEOREM SessionsStayReachable == Spec => []LiveSessionReachable
  <1>1. Inv3 => LiveSessionReachable
    <2> SUFFICES ASSUME Inv3, exact, NEW c \in m_sessions, inserts[c] > 0, ~Refusing(c)
                 PROVE  m_session_to_player[c] # NoPid
      BY DEF LiveSessionReachable
    <2>1. Mapped(c) \/ Refused(c)
      BY DEF Inv3, ReachInv
    <2> QED BY <2>1 DEF Mapped, Refused, Refusing
  <1> QED BY <1>1, Inv3Holds, PTL

\* A connection that logged in at most once and about which nothing goes on any
\* more has no player left in m_players: the read that readPayload's handler
\* re-arms fails on the closed socket, and runs onDisconnect once more.
THEOREM NoGhostsRemain == Spec => []NoGhostPlayer
  <1>1. Inv2 /\ Inv3 => NoGhostPlayer
    <2> SUFFICES ASSUME Inv2, Inv3, exact, NEW c \in Sids, Settled(c), inserts[c] <= 1,
                        NEW p \in Online, m_players[p].sid = c
                 PROVE  FALSE
      BY DEF NoGhostPlayer
    <2>1. Owned(p, c)
      BY DEF Inv3, OwnerInv
    <2>2. \A t \in Threads : sid[t] # c /\ vic[t] # c
      BY DEF Settled
    <2>3. m_session_to_player[c] = p
      BY <2>1, <2>2 DEF Owned
    <2>4. p # NoPid
      BY BoundsAssumption DEF Inv2, IdFacts, NoPid
    <2>5. Watched(c)
      BY <2>3, <2>4 DEF Inv3, WatchedInv, Mapped
    <2> QED BY <2>2, <2>5 DEF Watched, Settled
  <1> QED BY <1>1, Inv3Holds, PTL


=============================================================================
