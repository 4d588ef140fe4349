----------------------------- MODULE GameServer -----------------------------
(***************************************************************************)
(* TCP sessions and the player registry of the dedicated server.           *)
(*                                                                         *)
(* The server runs one asio io_context on several threads, so completion   *)
(* handlers of different operations run in parallel; a console thread and  *)
(* Lua plugins call into the same objects.  The shared state is            *)
(*   TCPServer   m_sessions           (guarded by m_sessions_mutex)        *)
(*   GameServer  m_session_to_player, m_players  (m_players_mutex)         *)
(*               m_next_player_id     (guarded by nothing)                 *)
(*                                                                         *)
(* A thread is a program counter with the locals its handler keeps.  One   *)
(* action is the code between two points at which another thread can       *)
(* observe it: a critical section is one action, guarded by its mutex      *)
(* being free.  A mutex is a variable only because it is HELD ACROSS       *)
(* actions: by kickPlayer and the directed sends (m_players_mutex while    *)
(* they ask for m_sessions_mutex) and by TCPServer::disconnect             *)
(* (m_sessions_mutex while close() runs every callback).                   *)
(***************************************************************************)
EXTENDS Naturals, FiniteSets

CONSTANTS
    IoThreads,   \* threads in m_ioc.run(): max(2, hardware_concurrency)
    Admins,      \* threads that run Console::dispatch
    NoThread,    \* "nobody owns the mutex"
    MaxSessions, \* BOUND on the connections accepted in a behaviour
    PidMax,      \* 0xFFFF: the largest uint16_t and the "no player" sentinel
    MaxPlayers,  \* m_cfg.max_players
    MaxInserts,  \* BOUND on the successful logins of one connection
    Requests,    \* the packets clients send: a subset of AllRequests
    VetoPossible,\* some plugin's onPlayerAuth may return a reason
    LuaKicks,    \* some plugin's onChatMessage may call MP.KickPlayer
    Relock       \* what locking a std::mutex one already owns does

Threads == IoThreads \cup Admins
Sids    == 1..MaxSessions
NoSid   == 0
Pids    == 0..PidMax
NoPid   == PidMax
Roles   == {"player", "bridge"}
Player  == [sid : Sids, role : Roles]
NoPlayer == [sid |-> NoSid, role |-> "none"]

AllRequests ==
    {"bad_json", "no_name", "wrong_password", "bridge_mismatch", "bridge",
     "login", "ready", "chat", "claim"}

\* Where a thread can stand between two actions.
Labels ==
    {"idle", "reply", "reject", "count", "alloc_check", "alloc_load",
     "alloc_store", "insert", "veto", "info", "bridge_ok", "ready", "join",
     "directed", "directed_send", "chat", "chat_lua", "kick_send",
     "disconnect", "erase", "unmap", "drop", "leave"}

ASSUME ThreadsAssumption ==
    /\ IsFiniteSet(IoThreads) /\ IsFiniteSet(Admins)
    /\ IoThreads # {}
    /\ IoThreads \cap Admins = {} /\ NoThread \notin Threads
ASSUME BoundsAssumption ==
    /\ MaxSessions \in Nat /\ MaxInserts \in Nat /\ MaxPlayers \in Nat
    /\ PidMax \in Nat /\ PidMax >= 2
ASSUME SwitchesAssumption ==
    /\ Requests \subseteq AllRequests
    /\ VetoPossible \in BOOLEAN /\ LuaKicks \in BOOLEAN
    /\ Relock \in {"hang", "reenter"}

VARIABLES
    m_next_session_id,   \* the next connection's session id
    peers,               \* sessions whose remote end is still there
    open,                \* sessions whose socket this side has not closed
    reading,             \* sessions with an async_read outstanding
    writing,             \* sessions with an async_write outstanding
    m_sessions,          \* the sessions TCPServer knows
    m_session_to_player, \* session -> player id, NoPid when absent
    m_players,           \* player id -> Player, NoPlayer when absent
    m_next_player_id,
    m_sessions_mutex, m_players_mutex,  \* owner, or NoThread
    pc,   \* thread -> label
    sid,  \* thread -> session whose packet it handles, NoSid if none
    vic,  \* thread -> session it closes (its own, or the kicked one)
    pid,  \* thread -> player id its handler works on
    role, \* thread -> role of the player it is logging in
    \* History, read by no action:
    inserts, \* session -> players inserted for it
    leaves,  \* session -> PLAYER_LEAVE broadcasts for it
    exact    \* no two id allocations overlapped, and the ids did not wrap

netVars   == <<m_next_session_id, peers, open, m_sessions>>
tcpVars   == <<netVars, reading, writing>>
mapVars   == <<m_session_to_player, m_players>>
lockVars  == <<m_sessions_mutex, m_players_mutex>>
localVars == <<sid, vic, pid, role>>
ghostVars == <<inserts, leaves, exact>>
vars == <<tcpVars, mapVars, m_next_player_id, lockVars, pc, localVars, ghostVars>>

Online == {p \in Pids : m_players[p] # NoPlayer}

Init ==
    /\ m_next_session_id = 1
    /\ peers = {} /\ open = {} /\ reading = {} /\ writing = {}
    /\ m_sessions = {}
    /\ m_session_to_player = [c \in Sids |-> NoPid]
    /\ m_players = [p \in Pids |-> NoPlayer]
    /\ m_next_player_id = 1
    /\ m_sessions_mutex = NoThread /\ m_players_mutex = NoThread
    /\ pc = [t \in Threads |-> "idle"]
    /\ sid = [t \in Threads |-> NoSid]
    /\ vic = [t \in Threads |-> NoSid]
    /\ pid = [t \in Threads |-> NoPid]
    /\ role = [t \in Threads |-> "player"]
    /\ inserts = [c \in Sids |-> 0]
    /\ leaves = [c \in Sids |-> 0]
    /\ exact = TRUE

-----------------------------------------------------------------------------
(* Vocabulary of the actions.                                              *)

\* std::lock_guard lk(m) succeeds for t.  Locking a mutex one owns is
\* undefined: glibc's std::mutex waits for itself for ever, another library may
\* let the owner lock it again.  Relock says which build runs.
CanLock(m, t) == m = NoThread \/ (m = t /\ Relock = "reenter")

At(t, l)   == pc[t] = l
Goto(t, l) == pc' = [pc EXCEPT ![t] = l]

\* TCPSession::send on the sessions of S that are registered: an async_write
\* is outstanding on each.  Several outstanding writes count as one.
Send(S) == writing' = writing \cup (S \cap m_sessions)

\* MUTANT: a mutex locked by hand and not unlocked.
StaysLocked(m, t) == m

\* Mutex m after the lock_guards of t are destroyed.
Unlocked(m, t) == IF m = t THEN NoThread ELSE m

\* MUTANT: every handler re-arms, also one that handled no packet.
ReArmedAlways(t) == reading \cup {sid[t]}

\* MUTANT: no read is started on a closed socket.
ReArmedIfOpen(t) == IF sid[t] \in open THEN reading \cup {sid[t]} ELSE reading

\* The outstanding reads after readPayload's handler called readLen().
ReArmed(t) == IF sid[t] = NoSid THEN reading ELSE reading \cup {sid[t]}

\* The handler of t returns: its lock_guards unlock, and a packet handler is
\* followed by readLen(), whether or not the socket is still open.
Return(t) ==
    /\ Goto(t, "idle")
    /\ reading' = ReArmed(t)
    /\ sid' = [sid EXCEPT ![t] = NoSid]
    /\ vic' = [vic EXCEPT ![t] = NoSid]
    /\ pid' = [pid EXCEPT ![t] = NoPid]
    /\ role' = [role EXCEPT ![t] = "player"]
    /\ m_sessions_mutex' = Unlocked(m_sessions_mutex, t)
    /\ m_players_mutex' = Unlocked(m_players_mutex, t)

\* No thread-local variable, mutex or read changes: the handler goes on.
Continue(t, l) ==
    /\ Goto(t, l)
    /\ UNCHANGED <<reading, localVars, lockVars>>

\* TCPSession::close up to its callback: the socket is closed.
CloseSocket(t, c) ==
    /\ open' = open \ {c}
    /\ vic' = [vic EXCEPT ![t] = c]
    /\ Goto(t, "erase")

-----------------------------------------------------------------------------
(* The network side: connections, the remote ends, completed operations.   *)

\* An io thread is there to run a completion handler.
SomeThreadIdle == \E t \in IoThreads : At(t, "idle")

\* startAccept's handler: register the session and start reading.
Accept ==
    /\ m_next_session_id <= MaxSessions
    /\ SomeThreadIdle
    /\ m_sessions_mutex = NoThread
    /\ LET c == m_next_session_id IN
         /\ peers' = peers \cup {c}
         /\ open' = open \cup {c}
         /\ m_sessions' = m_sessions \cup {c}
         /\ reading' = reading \cup {c}
    /\ m_next_session_id' = m_next_session_id + 1
    /\ UNCHANGED <<writing, mapVars, m_next_player_id, lockVars, pc, localVars,
                   ghostVars>>

\* The remote end goes away, by closing or by a failing network.
PeerCloses(c) ==
    /\ c \in peers
    /\ peers' = peers \ {c}
    /\ UNCHANGED <<m_next_session_id, open, reading, writing, m_sessions, mapVars,
                   m_next_player_id, lockVars, pc, localVars, ghostVars>>

Broken(c) == c \notin peers \/ c \notin open

\* async_write completed: nothing to do.
WriteDone(c) ==
    /\ c \in writing /\ c \in open /\ SomeThreadIdle
    /\ writing' = writing \ {c}
    /\ UNCHANGED <<netVars, reading, mapVars, m_next_player_id, lockVars, pc,
                   localVars, ghostVars>>

\* A read ends without a packet: its handler calls close().
EndRead(t, c) ==
    /\ At(t, "idle") /\ c \in reading
    /\ reading' = reading \ {c}
    /\ CloseSocket(t, c)
    /\ UNCHANGED <<m_next_session_id, peers, writing, m_sessions, mapVars,
                   m_next_player_id, lockVars, sid, pid, role, ghostVars>>

\* async_read failed.
ReadError(t, c) == Broken(c) /\ EndRead(t, c)

\* readLen got a frame length of 0 or above 4 MiB.
BadLength(t, c) == c \in open /\ EndRead(t, c)

\* async_write failed.
WriteError(t, c) ==
    /\ At(t, "idle") /\ c \in writing /\ Broken(c)
    /\ writing' = writing \ {c}
    /\ CloseSocket(t, c)
    /\ UNCHANGED <<m_next_session_id, peers, reading, m_sessions, mapVars,
                   m_next_player_id, lockVars, sid, pid, role, ghostVars>>

\* Where onTCPPacket's switch leads.
Entry(r) ==
    CASE r \in {"bad_json", "no_name"}               -> "reply"
      [] r \in {"wrong_password", "bridge_mismatch"} -> "reject"
      [] r = "login"  -> "count"
      [] r = "bridge" -> "alloc_check"
      [] r = "ready"  -> "ready"
      [] r = "chat"   -> "chat"
      [] r = "claim"  -> "directed"

LoginRequests == {"login", "bridge"}
PlayerRequests == {"ready", "chat", "claim"}

\* MUTANT: the next read is started before the packet is handled.
ReadsAhead(c) == UNCHANGED reading

\* The completed read is not outstanding while its packet is handled.
ConsumesRead(c) == reading' = reading \ {c}

\* readPayload's handler: a packet arrived.  onTCPPacket looks the session's
\* player up under m_players_mutex and dispatches; a packet that needs a player
\* and finds none is dropped, which changes nothing.  A claim is decided by
\* AIAuthority and answered, accepted or not, by one message to the player.
Receive(t, c, r) ==
    /\ At(t, "idle") /\ c \in reading /\ c \in open
    /\ m_players_mutex = NoThread
    /\ r \in PlayerRequests => m_session_to_player[c] # NoPid
    /\ r \in LoginRequests => inserts[c] < MaxInserts
    /\ ConsumesRead(c)
    /\ sid' = [sid EXCEPT ![t] = c]
    /\ vic' = [vic EXCEPT ![t] = c]
    /\ pid' = [pid EXCEPT ![t] = m_session_to_player[c]]
    /\ role' = [role EXCEPT ![t] = IF r = "bridge" THEN "bridge" ELSE "player"]
    /\ Goto(t, Entry(r))
    /\ UNCHANGED <<netVars, writing, mapVars, m_next_player_id, lockVars, ghostVars>>

-----------------------------------------------------------------------------
(* handleAuth.                                                             *)

\* The request is refused but the connection stays ("Invalid JSON",
\* "Username required").
AuthReply(t) ==
    /\ At(t, "reply") /\ CanLock(m_sessions_mutex, t)
    /\ Send({sid[t]})
    /\ Return(t)
    /\ UNCHANGED <<netVars, mapVars, m_next_player_id, ghostVars>>

\* The request is refused and disconnect() follows (bad token or password,
\* full, vetoed).
AuthReject(t) ==
    /\ At(t, "reject") /\ CanLock(m_sessions_mutex, t)
    /\ Send({sid[t]})
    /\ Continue(t, "disconnect")
    /\ UNCHANGED <<netVars, mapVars, m_next_player_id, ghostVars>>

\* MUTANT: off by one.
ServerOverfull == Cardinality(Online) > MaxPlayers

ServerFull == Cardinality(Online) >= MaxPlayers

\* if (playerCount() >= m_cfg.max_players): the mutex is released again
\* before the player is inserted.
CountPlayers(t) ==
    /\ At(t, "count") /\ CanLock(m_players_mutex, t)
    /\ Continue(t, IF ServerFull THEN "reject" ELSE "alloc_check")
    /\ UNCHANGED <<netVars, writing, mapVars, m_next_player_id, ghostVars>>

\* allocPlayerID holds no mutex: its test, its load and its store of
\* m_next_player_id are separate accesses.
Allocating(t) == pc[t] \in {"alloc_load", "alloc_store"}

AllocCheck(t) ==
    /\ At(t, "alloc_check")
    /\ m_next_player_id' = IF m_next_player_id = PidMax THEN 1 ELSE m_next_player_id
    /\ exact' = (exact /\ m_next_player_id # PidMax
                       /\ \A u \in Threads : ~Allocating(u))
    /\ Continue(t, "alloc_load")
    /\ UNCHANGED <<netVars, writing, mapVars, inserts, leaves>>

AllocLoad(t) ==
    /\ At(t, "alloc_load")
    /\ pid' = [pid EXCEPT ![t] = m_next_player_id]
    /\ Goto(t, "alloc_store")
    /\ UNCHANGED <<tcpVars, mapVars, m_next_player_id, lockVars, sid, vic, role,
                   ghostVars>>

\* MUTANT: the increment is lost.
SameId(p) == p

\* m_next_player_id++ on a uint16_t.
NextId(p) == (p + 1) % (PidMax + 1)

AllocStore(t) ==
    /\ At(t, "alloc_store")
    /\ m_next_player_id' = NextId(pid[t])
    /\ Continue(t, "insert")
    /\ UNCHANGED <<netVars, writing, mapVars, ghostVars>>

\* getRemoteIP takes and releases m_sessions_mutex first; then both maps are
\* written under m_players_mutex.  Nothing asks whether the session still
\* exists, is already mapped, or whether the id is in use.
Insert(t) ==
    /\ At(t, "insert")
    /\ CanLock(m_sessions_mutex, t) /\ CanLock(m_players_mutex, t)
    /\ m_session_to_player' = [m_session_to_player EXCEPT ![sid[t]] = pid[t]]
    /\ m_players' = [m_players EXCEPT ![pid[t]] = [sid |-> sid[t], role |-> role[t]]]
    /\ inserts' = [inserts EXCEPT ![sid[t]] = @ + 1]
    /\ Continue(t, IF role[t] = "bridge" THEN "bridge_ok" ELSE "veto")
    /\ UNCHANGED <<netVars, writing, m_next_player_id, leaves, exact>>

\* MUTANT: the veto forgets the session's entry.
VetoErasesPlayerOnly(t) ==
    /\ m_players' = [m_players EXCEPT ![pid[t]] = NoPlayer]
    /\ UNCHANGED m_session_to_player

\* onPlayerAuth returned a reason: both entries are erased again.
VetoErases(t) ==
    /\ m_players' = [m_players EXCEPT ![pid[t]] = NoPlayer]
    /\ m_session_to_player' = [m_session_to_player EXCEPT ![sid[t]] = NoPid]

Veto(t) ==
    /\ At(t, "veto") /\ VetoPossible /\ CanLock(m_players_mutex, t)
    /\ VetoErases(t)
    /\ Continue(t, "reject")
    /\ UNCHANGED <<netVars, writing, m_next_player_id, ghostVars>>

\* onPlayerAuth returned nothing: AUTH_RESPONSE ok, then sendServerInfo, which
\* counts the players under m_players_mutex first.
AuthOk(t) ==
    /\ At(t, "veto") /\ CanLock(m_sessions_mutex, t)
    /\ Send({sid[t]})
    /\ Continue(t, "info")
    /\ UNCHANGED <<netVars, mapVars, m_next_player_id, ghostVars>>

SendServerInfo(t) ==
    /\ At(t, "info")
    /\ CanLock(m_players_mutex, t) /\ CanLock(m_sessions_mutex, t)
    /\ Send({sid[t]})
    /\ Return(t)
    /\ UNCHANGED <<netVars, mapVars, m_next_player_id, ghostVars>>

\* The bridge is answered and AIAuthority::onHeadlessConnect grants it the
\* authority, a message to the player.
BridgeOk(t) ==
    /\ At(t, "bridge_ok") /\ CanLock(m_sessions_mutex, t)
    /\ Send({sid[t]})
    /\ Continue(t, "directed")
    /\ UNCHANGED <<netVars, mapVars, m_next_player_id, ghostVars>>

-----------------------------------------------------------------------------
(* handleReady, handleChat and the messages to one player.                 *)

\* Player* p = getPlayer(pid): the pointer outlives the mutex.
GetPlayer(t, found) ==
    /\ CanLock(m_players_mutex, t)
    /\ IF pid[t] \in Online THEN Continue(t, found) ELSE Return(t)
    /\ UNCHANGED <<netVars, writing, mapVars, m_next_player_id, ghostVars>>

Ready(t) == At(t, "ready") /\ GetPlayer(t, "join")

\* p->state = READY (nobody reads it), PLAYER_JOIN to everyone, onPlayerJoin,
\* then the welcome message.
BroadcastPlayerJoin(t) ==
    /\ At(t, "join") /\ CanLock(m_sessions_mutex, t)
    /\ Send(Sids)
    /\ Continue(t, "directed")
    /\ UNCHANGED <<netVars, mapVars, m_next_player_id, ghostVars>>

\* sendChat(pid, ...), grantAuthority: m_players_mutex is locked ...
DirectedLock(t) ==
    /\ At(t, "directed") /\ m_players_mutex = NoThread
    /\ m_players_mutex' = t
    /\ Goto(t, "directed_send")
    /\ UNCHANGED <<tcpVars, mapVars, m_next_player_id, m_sessions_mutex, localVars,
                   ghostVars>>

SessionsOf(p) == {c \in Sids : m_session_to_player[c] = p /\ p # NoPid}

\* ... and kept while m_tcp->send locks m_sessions_mutex, for the first
\* session found with that player.
DirectedSend(t) ==
    /\ At(t, "directed_send")
    /\ \/ /\ SessionsOf(pid[t]) = {}
          /\ UNCHANGED writing
       \/ /\ CanLock(m_sessions_mutex, t)
          /\ \E c \in SessionsOf(pid[t]) : Send({c})
    /\ Return(t)
    /\ UNCHANGED <<netVars, mapVars, m_next_player_id, ghostVars>>

Chat(t) == At(t, "chat") /\ GetPlayer(t, "chat_lua")

\* onChatMessage let the message through: it goes to everyone.
ChatBroadcast(t) ==
    /\ At(t, "chat_lua") /\ CanLock(m_sessions_mutex, t)
    /\ Send(Sids)
    /\ Return(t)
    /\ UNCHANGED <<netVars, mapVars, m_next_player_id, ghostVars>>

\* A chat command answered the player and returned "blocked".
ChatCommand(t) ==
    /\ At(t, "chat_lua")
    /\ Continue(t, "directed")
    /\ UNCHANGED <<netVars, writing, mapVars, m_next_player_id, ghostVars>>

-----------------------------------------------------------------------------
(* kickPlayer and TCPServer::disconnect.                                   *)

\* m_players_mutex is locked for the whole of kickPlayer; nothing happens if
\* no session has the player.
KickLock(t, p) ==
    /\ m_players_mutex = NoThread
    /\ \E c \in SessionsOf(p) :
         /\ m_players_mutex' = t
         /\ vic' = [vic EXCEPT ![t] = c]
         /\ Goto(t, "kick_send")
    /\ UNCHANGED <<tcpVars, mapVars, m_next_player_id, m_sessions_mutex, sid, pid,
                   role, ghostVars>>

\* The console's kick and ban commands (a ban only sets a flag that nothing
\* reads before it kicks).
Kick(t, p) == t \in Admins /\ At(t, "idle") /\ KickLock(t, p)

\* MP.KickPlayer from a plugin's onChatMessage, on the io thread that runs it.
\* The message is then reported as handled.
ChatKick(t, p) == At(t, "chat_lua") /\ LuaKicks /\ KickLock(t, p)

KickSend(t) ==
    /\ At(t, "kick_send") /\ CanLock(m_sessions_mutex, t)
    /\ Send({vic[t]})
    /\ Continue(t, "disconnect")
    /\ UNCHANGED <<netVars, mapVars, m_next_player_id, ghostVars>>

\* TCPServer::disconnect: close() runs with m_sessions_mutex locked.
Disconnect(t) ==
    /\ At(t, "disconnect") /\ m_sessions_mutex = NoThread
    /\ IF vic[t] \in m_sessions
       THEN /\ m_sessions_mutex' = t
            /\ CloseSocket(t, vic[t])
            /\ UNCHANGED <<reading, sid, pid, role, m_players_mutex>>
       ELSE Return(t) /\ UNCHANGED open
    /\ UNCHANGED <<m_next_session_id, peers, writing, m_sessions, mapVars,
                   m_next_player_id, ghostVars>>

-----------------------------------------------------------------------------
(* TCPServer::onSessionClose and GameServer::onDisconnect.                 *)

\* MUTANT: the closed session stays registered.
ForgetsNothing(t) == UNCHANGED m_sessions

ForgetsSession(t) == m_sessions' = m_sessions \ {vic[t]}

\* onSessionClose: m_sessions.erase(id), then m_disc_cb.
Erase(t) ==
    /\ At(t, "erase") /\ CanLock(m_sessions_mutex, t)
    /\ ForgetsSession(t)
    /\ Continue(t, "unmap")
    /\ UNCHANGED <<m_next_session_id, peers, open, writing, mapVars,
                   m_next_player_id, ghostVars>>

\* MUTANT: the session's entry is read and not erased.
KeepMapping(t) == UNCHANGED m_session_to_player

\* The session's entry is looked up and erased in one critical section.
TakeMapping(t) ==
    m_session_to_player' = [m_session_to_player EXCEPT ![vic[t]] = NoPid]

Unmap(t) ==
    /\ At(t, "unmap") /\ CanLock(m_players_mutex, t)
    /\ IF m_session_to_player[vic[t]] = NoPid
       THEN Return(t) /\ UNCHANGED m_session_to_player
       ELSE /\ TakeMapping(t)
            /\ pid' = [pid EXCEPT ![t] = m_session_to_player[vic[t]]]
            /\ Goto(t, "drop")
            /\ UNCHANGED <<reading, sid, vic, role, lockVars>>
    /\ UNCHANGED <<netVars, writing, m_players, m_next_player_id, ghostVars>>

\* A second critical section erases the player.
DropPlayer(t) ==
    /\ At(t, "drop") /\ CanLock(m_players_mutex, t)
    /\ m_players' = [m_players EXCEPT ![pid[t]] = NoPlayer]
    /\ Continue(t, "leave")
    /\ UNCHANGED <<netVars, writing, m_session_to_player, m_next_player_id, ghostVars>>

\* PLAYER_LEAVE to everyone, onPlayerDisconnect, AIAuthority told.
BroadcastPlayerLeave(t) ==
    /\ At(t, "leave") /\ CanLock(m_sessions_mutex, t)
    /\ Send(Sids)
    /\ leaves' = [leaves EXCEPT ![vic[t]] = @ + 1]
    /\ Return(t)
    /\ UNCHANGED <<netVars, mapVars, m_next_player_id, inserts, exact>>

-----------------------------------------------------------------------------
\* One step of the handler t is running.
Step(t) ==
    \/ AuthReply(t) \/ AuthReject(t) \/ CountPlayers(t)
    \/ AllocCheck(t) \/ AllocLoad(t) \/ AllocStore(t) \/ Insert(t)
    \/ Veto(t) \/ AuthOk(t) \/ SendServerInfo(t) \/ BridgeOk(t)
    \/ Ready(t) \/ BroadcastPlayerJoin(t)
    \/ DirectedLock(t) \/ DirectedSend(t)
    \/ Chat(t) \/ ChatBroadcast(t) \/ ChatCommand(t)
    \/ \E p \in Pids : ChatKick(t, p)
    \/ KickSend(t) \/ Disconnect(t)
    \/ Erase(t) \/ Unmap(t) \/ DropPlayer(t) \/ BroadcastPlayerLeave(t)

\* An idle io thread takes the next completed operation.
PickUp(t) ==
    \E c \in Sids :
       \/ ReadError(t, c) \/ BadLength(t, c) \/ WriteError(t, c)
       \/ \E r \in Requests : Receive(t, c, r)

Next ==
    \/ Accept
    \/ \E c \in Sids : PeerCloses(c) \/ WriteDone(c)
    \/ \E t \in IoThreads : PickUp(t)
    \/ \E t \in Admins, p \in Pids : Kick(t, p)
    \/ \E t \in Threads : Step(t)

Spec == Init /\ [][Next]_vars

\* Fairness.  Step: a thread inside a handler is scheduled, and one that waits
\* for a mutex which is released again and again gets it eventually (SF).
\* ReadError, WriteError: io_context queues completed operations in order, so a
\* failed one is not overtaken for ever by those of other sessions (SF).  Clients, the
\* console and successful writes owe nothing.
Fairness ==
    /\ \A t \in Threads : SF_vars(Step(t))
    /\ \A c \in Sids : SF_vars(\E t \in IoThreads : ReadError(t, c) \/ WriteError(t, c))

FairSpec == Spec /\ Fairness

-----------------------------------------------------------------------------
(* What the server promises.                                               *)

\* The type invariant: the shape of the registry, the locks and the threads.
TypeOK ==
    /\ m_next_session_id \in 1..(MaxSessions + 1)
    /\ peers \subseteq Sids /\ open \subseteq Sids
    /\ reading \subseteq Sids /\ writing \subseteq Sids
    /\ m_sessions \subseteq Sids
    /\ m_session_to_player \in [Sids -> Pids]
    /\ m_players \in [Pids -> Player \cup {NoPlayer}]
    /\ m_next_player_id \in Pids
    /\ m_sessions_mutex \in Threads \cup {NoThread}
    /\ m_players_mutex \in Threads \cup {NoThread}
    /\ pc \in [Threads -> Labels]
    /\ sid \in [Threads -> Sids \cup {NoSid}]
    /\ vic \in [Threads -> Sids \cup {NoSid}]
    /\ pid \in [Threads -> Pids]
    /\ role \in [Threads -> Roles]
    /\ inserts \in [Sids -> Nat]
    /\ leaves \in [Sids -> Nat]
    /\ exact \in BOOLEAN

\* onTCPPacket never runs twice at a time for one session, and no read is
\* outstanding while it runs: readPayload re-arms only after the handler.
\* handleAuth relies on it between its count, its insert and its reply.
SerialHandlers ==
    /\ \A t, u \in Threads : t # u /\ sid[t] # NoSid => sid[t] # sid[u]
    /\ \A t \in Threads : sid[t] \notin reading

HumanPlayers == {p \in Online : m_players[p].role = "player"}

\* Threads that passed the max_players test and have not inserted yet.
Admitted == {t \in Threads :
               /\ role[t] = "player"
               /\ pc[t] \in {"alloc_check", "alloc_load", "alloc_store", "insert"}}

\* handleAuth tests playerCount() and inserts later: the limit can be passed,
\* but by fewer players than there are io threads.
CapacityOvershootBounded ==
    Cardinality(HumanPlayers) + Cardinality(Admitted)
        < MaxPlayers + Cardinality(IoThreads)

\* allocPlayerID gives no id twice and no reserved id (0 is the server, 0xFFFF
\* nobody) as long as no two allocations overlap and the counter has not
\* wrapped: the data race and the wrap are the only sources of clashes.
UniqueIds ==
    exact =>
      /\ Online \subseteq 1..(PidMax - 1)
      /\ \A t \in Threads : At(t, "insert") =>
           /\ pid[t] \in (1..(PidMax - 1)) \ Online
           /\ \A u \in Threads : u # t /\ At(u, "insert") => pid[u] # pid[t]

\* The two maps agree although onDisconnect erases from them in two critical
\* sections and handleAuth's veto undoes an insert: a mapped session's player
\* exists and belongs to that session.
MappedPlayerExists ==
    exact => \A c \in Sids : m_session_to_player[c] # NoPid =>
               m_players[m_session_to_player[c]].sid = c

Refusing(c) == \E t \in Threads : sid[t] = c /\ pc[t] \in {"reject", "disconnect", "erase"}

\* A session that logged in keeps its player while TCPServer still knows the
\* session, whichever threads close it meanwhile, unless it is being refused:
\* onSessionClose forgets the session before it tells GameServer.
LiveSessionReachable ==
    exact => \A c \in m_sessions :
               inserts[c] > 0 /\ ~Refusing(c) => m_session_to_player[c] # NoPid

\* Nothing is going on any more for session c.
Settled(c) ==
    /\ c < m_next_session_id /\ c \notin m_sessions /\ c \notin reading
    /\ \A t \in Threads : sid[t] # c /\ vic[t] # c

\* A connection that closed while its login was in progress leaves no player
\* behind, even when onDisconnect ran before handleAuth's insert: the read that
\* is re-armed on the closed socket fails and runs onDisconnect again.
NoGhostPlayer ==
    exact => \A c \in Sids : Settled(c) /\ inserts[c] <= 1 =>
               \A p \in Online : m_players[p].sid # c

\* close() may run several times for a session (failed read, failed write,
\* kick), yet PLAYER_LEAVE is broadcast at most once per login.
LeaveOncePerLogin == \A c \in Sids : leaves[c] <= inserts[c]

\* Every handler that starts returns.
HandlersReturn == \A t \in IoThreads : ~At(t, "idle") ~> At(t, "idle")

\* When a client goes away its session is forgotten and its player removed.
DisconnectCleansUp ==
    \A c \in Sids :
        c < m_next_session_id /\ c \notin peers
            ~> c \notin m_sessions /\ \A p \in Online : m_players[p].sid # c

\* MP.KickPlayer's promise: a kick that found its player ends with the player's
\* session unmapped.
KickDisconnects ==
    \A t \in Admins, c \in Sids :
        At(t, "kick_send") /\ vic[t] = c ~> m_session_to_player[c] = NoPid

\* onPlayerJoin's promise: it is called, and PLAYER_JOIN broadcast, for a
\* player that is in session.
JoinOnlyInSession == \A t \in Threads : At(t, "join") => pid[t] \in Online

=============================================================================
