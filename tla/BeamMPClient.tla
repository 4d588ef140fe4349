---------------------------- MODULE BeamMPClient ----------------------------
(***************************************************************************)
(* The BeamMP compatibility client of the launcher, as runBeamMP uses it.  *)
(*                                                                         *)
(* The main thread connects, waits for Enter, disconnects and destroys the *)
(* client.  A second thread runs readLoop: it reads frames, puts split     *)
(* packets together again, answers the handshake and reports through       *)
(* callbacks.  The two share m_connected (atomic) and the socket.  A third *)
(* thread runs an io_context without work and ends at once; it still has   *)
(* to be joined.                                                           *)
(*                                                                         *)
(* A packet is a sequence of tokens, its code first.  A frame carries a    *)
(* code and data; CODE_SPLIT and CODE_SPLIT_FINISH frames carry pieces of  *)
(* a packet's token sequence.                                              *)
(***************************************************************************)
EXTENDS Naturals, Sequences, SequencesExt

CONSTANTS
    Codes,   \* the packet codes the server uses
    MaxWire  \* BOUND on the frames in flight

\* Player ids are decimal: "7" is one, "overflow" starts with a digit and does
\* not fit an int, "no" is a refusal.
AllPackets ==
    {<<"MAP", "gridmap">>, <<"AUTH_PLAYER", "7">>, <<"AUTH_PLAYER", "overflow">>,
     <<"AUTH_PLAYER", "no">>, <<"AUTH_PLAYER">>, <<"AUTH_KICK", "why">>,
     <<"CHAT", "hi">>, <<"WAIT">>, <<"PING">>}
Packets == {p \in AllPackets : p[1] \in Codes}

ASSUME BoundAssumption == MaxWire \in Nat \ {0}

VARIABLES
    main,        \* where the main thread stands
    reader,      \* where the read thread stands, "none" before connect()
    m_connected,
    sock,        \* our end of the socket is open
    threads,     \* m_threads holds threads that were not joined
    m_split_buf,
    m_map_name, m_player_id,
    pkt,         \* the packet handlePacket works on
    connReports, \* what m_connect_cb was told
    discReports, \* the reasons m_disconnect_cb was given, in order
    serverUp,    \* the server's end of the connection is open
    keySent,     \* the server has our key
    wire,        \* frames in flight to the client
    cur, rest,   \* the packet the server is splitting, its unsent tokens
    queue        \* history: packets wholly on the wire, not handled yet

clientVars == <<m_split_buf, m_map_name, m_player_id, pkt>>
reportVars == <<connReports, discReports>>
serverVars == <<serverUp, wire, cur, rest, queue>>
vars == <<main, reader, m_connected, sock, threads, clientVars, reportVars,
          keySent, serverVars>>

Init ==
    /\ main = "connect" /\ reader = "none"
    /\ m_connected = FALSE /\ sock = FALSE /\ threads = FALSE
    /\ m_split_buf = <<>> /\ m_map_name = "" /\ m_player_id = 0 /\ pkt = <<>>
    /\ connReports = {} /\ discReports = <<>>
    /\ serverUp = FALSE /\ keySent = FALSE
    /\ wire = <<>> /\ cur = <<>> /\ rest = <<>> /\ queue = <<>>

\* The process still runs.
Alive == main \notin {"exited", "terminated"}

-----------------------------------------------------------------------------
(* The main thread: runBeamMP.                                             *)

\* connect(): the state of an earlier connection is reset, both threads start.
Connect ==
    /\ main = "connect"
    /\ m_split_buf' = <<>> /\ m_map_name' = "" /\ m_player_id' = 0
    /\ sock' = TRUE /\ serverUp' = TRUE /\ m_connected' = TRUE
    /\ threads' = TRUE /\ reader' = "loop"
    /\ main' = "prompt"
    /\ UNCHANGED <<pkt, reportVars, keySent, wire, cur, rest, queue>>

ConnectFails ==
    /\ main = "connect"
    /\ connReports' = connReports \cup {"failed"}
    /\ main' = "prompt"
    /\ UNCHANGED <<reader, m_connected, sock, threads, clientVars, discReports,
                   keySent, serverVars>>

\* Enter was pressed: disconnect() begins with m_connected.exchange(false) and
\* returns at once when it was false already.
Disconnect ==
    /\ main = "prompt"
    /\ m_connected' = FALSE
    /\ main' = IF m_connected THEN "close" ELSE "destroy"
    /\ UNCHANGED <<reader, sock, threads, clientVars, reportVars, keySent, serverVars>>

\* MUTANT: the socket stays open.
LeavesSocketOpen == UNCHANGED sock

ShutsSocket == sock' = FALSE

CloseSocket ==
    /\ main = "close"
    /\ ShutsSocket
    /\ main' = "join"
    /\ UNCHANGED <<reader, m_connected, threads, clientVars, reportVars, keySent,
                   serverVars>>

Join ==
    /\ main = "join" /\ reader = "done"
    /\ threads' = FALSE
    /\ main' = "report"
    /\ UNCHANGED <<reader, m_connected, sock, clientVars, reportVars, keySent,
                   serverVars>>

ReportDisconnected ==
    /\ main = "report"
    /\ discReports' = Append(discReports, "disconnected")
    /\ main' = "destroy"
    /\ UNCHANGED <<reader, m_connected, sock, threads, clientVars, connReports,
                   keySent, serverVars>>

\* ~BeamMPClient: disconnect() returns at once; a std::thread that is destroyed
\* without having been joined calls std::terminate.
Destroy ==
    /\ main = "destroy"
    /\ main' = IF threads THEN "terminated" ELSE "exited"
    /\ UNCHANGED <<reader, m_connected, sock, threads, clientVars, reportVars,
                   keySent, serverVars>>

MainStep == CloseSocket \/ Join \/ ReportDisconnected \/ Destroy

-----------------------------------------------------------------------------
(* The read thread: readLoop and handlePacket.                             *)

\* while (m_connected)
LoopTest ==
    /\ reader = "loop" /\ Alive
    /\ reader' = IF m_connected THEN "read" ELSE "ended"
    /\ UNCHANGED <<main, m_connected, sock, threads, clientVars, reportVars,
                   keySent, serverVars>>

\* asio::read failed: the socket is closed, or the server closed its end.  A
\* connection that was reset loses what has not been read yet.
ReadFails ==
    /\ reader = "read" /\ Alive
    /\ ~sock \/ ~serverUp
    /\ reader' = "ended"
    /\ UNCHANGED <<main, m_connected, sock, threads, clientVars, reportVars,
                   keySent, serverVars>>

\* MUTANT: the buffer is not cleared after a packet was put together.
KeepsFragments(buf) == buf

\* m_split_buf after CODE_SPLIT_FINISH completed the packet buf.
ClearedSplit(buf) == <<>>

\* handlePacket(p) is called.
Handle(p) ==
    /\ pkt' = p
    /\ queue' = Tail(queue)
    /\ reader' = "handle"

\* A frame was read.  Its size has three bytes, so that the test against 50 MB is
\* never true.
ReadFrame ==
    /\ reader = "read" /\ Alive /\ sock /\ wire # <<>>
    /\ wire' = Tail(wire)
    /\ LET f == Head(wire)
           buf == m_split_buf \o f.data
       IN \/ /\ f.code = "SPLIT"
             /\ m_split_buf' = buf
             /\ reader' = "loop"
             /\ UNCHANGED <<pkt, queue>>
          \/ /\ f.code = "SPLIT_FINISH"
             /\ m_split_buf' = ClearedSplit(buf)
             /\ IF buf = <<>> THEN reader' = "loop" /\ UNCHANGED <<pkt, queue>>
                              ELSE Handle(buf)
          \/ /\ f.code \notin {"SPLIT", "SPLIT_FINISH"}
             /\ Handle(<<f.code>> \o f.data)
             /\ UNCHANGED m_split_buf
    /\ UNCHANGED <<main, m_connected, sock, threads, m_map_name, m_player_id,
                   reportVars, keySent, serverUp, cur, rest>>

\* send(): nothing when not connected; a failed write ends the connection.
Send(key) ==
    \/ ~m_connected /\ UNCHANGED <<m_connected, keySent>>
    \/ m_connected /\ sock /\ keySent' = (keySent \/ key) /\ UNCHANGED m_connected
    \/ m_connected /\ ~serverUp /\ m_connected' = FALSE /\ UNCHANGED keySent

Handling(codes) ==
    /\ reader = "handle" /\ Alive /\ pkt[1] \in codes
    /\ UNCHANGED <<main, sock, threads, m_split_buf, pkt, serverVars>>

\* MUTANT: the map's name is not kept.
DropsMap == UNCHANGED m_map_name

StoresMap == m_map_name' = pkt[2]

\* The server names its map: the key is the answer.
HandleMap ==
    /\ Handling({"MAP"})
    /\ StoresMap
    /\ Send(TRUE)
    /\ reader' = "loop"
    /\ UNCHANGED <<m_player_id, reportVars>>

\* A player id: CODE_READY is sent, success is reported.  An id that does not
\* fit an int throws and is swallowed; anything else is a refusal.
HandleAuth ==
    /\ Handling({"AUTH_PLAYER"})
    /\ reader' = "loop"
    /\ \/ /\ pkt = <<"AUTH_PLAYER", "7">>
          /\ m_player_id' = 7
          /\ Send(FALSE)
          /\ connReports' = connReports \cup {"ok"}
       \/ /\ pkt = <<"AUTH_PLAYER", "overflow">>
          /\ UNCHANGED <<m_player_id, m_connected, keySent, connReports>>
       \/ /\ pkt \in {<<"AUTH_PLAYER", "no">>, <<"AUTH_PLAYER">>}
          /\ connReports' = connReports \cup {"failed"}
          /\ UNCHANGED <<m_player_id, m_connected, keySent>>
    /\ UNCHANGED <<m_map_name, discReports>>

\* MUTANT: a kick is reported and the loop goes on.
StaysConnected == UNCHANGED m_connected

GivesUp == m_connected' = FALSE

HandleKick ==
    /\ Handling({"AUTH_KICK"})
    /\ GivesUp
    /\ reader' = "kicked"
    /\ UNCHANGED <<m_map_name, m_player_id, keySent, reportVars>>

ReportKicked ==
    /\ reader = "kicked" /\ Alive
    /\ discReports' = Append(discReports, "kicked")
    /\ reader' = "loop"
    /\ UNCHANGED <<main, m_connected, sock, threads, clientVars, connReports,
                   keySent, serverVars>>

\* CODE_WAIT is acknowledged, CODE_PING answered.
HandleRequest ==
    /\ Handling({"WAIT", "PING"})
    /\ Send(FALSE)
    /\ reader' = "loop"
    /\ UNCHANGED <<m_map_name, m_player_id, reportVars>>

\* Chat, transforms, spawns, deletes, server info and unknown codes: parsed,
\* passed to a callback that only prints, or ignored.
HandleNotice ==
    /\ Handling({"CHAT"})
    /\ reader' = "loop"
    /\ UNCHANGED <<m_map_name, m_player_id, m_connected, keySent, reportVars>>

\* After the loop.
EndLoop ==
    /\ reader = "ended" /\ Alive
    /\ m_connected' = FALSE
    /\ reader' = "report"
    /\ UNCHANGED <<main, sock, threads, clientVars, reportVars, keySent, serverVars>>

\* MUTANT: the loop ends silently.
NoClosedReport == UNCHANGED discReports

ClosedReport == discReports' = Append(discReports, "closed")

ReportClosed ==
    /\ reader = "report" /\ Alive
    /\ ClosedReport
    /\ reader' = "done"
    /\ UNCHANGED <<main, m_connected, sock, threads, clientVars, connReports,
                   keySent, serverVars>>

ReaderStep ==
    \/ LoopTest \/ ReadFails \/ ReadFrame
    \/ HandleMap \/ HandleAuth \/ HandleKick \/ ReportKicked
    \/ HandleRequest \/ HandleNotice \/ EndLoop \/ ReportClosed

-----------------------------------------------------------------------------
(* The BeamMP server.  It answers the key, and only the key, with a player  *)
(* id or a refusal; it may split any packet, anywhere.                      *)

ServerSends(frames) ==
    /\ Alive /\ serverUp /\ Len(wire) < MaxWire
    /\ wire' = wire \o frames
    /\ UNCHANGED <<main, reader, m_connected, sock, threads, clientVars, reportVars,
                   keySent, serverUp>>

MaySend(p) == p[1] = "AUTH_PLAYER" => keySent

SendWhole(p) ==
    /\ cur = <<>> /\ MaySend(p)
    /\ ServerSends(<<[code |-> p[1], data |-> Tail(p)]>>)
    /\ queue' = Append(queue, p)
    /\ UNCHANGED <<cur, rest>>

\* The first piece of a packet, or the next one.
SendPiece(p, n) ==
    /\ \/ cur = <<>> /\ MaySend(p) /\ rest' = SubSeq(p, n + 1, Len(p))
       \/ cur = p /\ rest' = SubSeq(rest, n + 1, Len(rest))
    /\ LET from == IF cur = <<>> THEN p ELSE rest
       IN /\ n <= Len(from)
          /\ ServerSends(<<[code |-> "SPLIT", data |-> SubSeq(from, 1, n)]>>)
    /\ cur' = p
    /\ UNCHANGED queue

SendLastPiece ==
    /\ cur # <<>>
    /\ ServerSends(<<[code |-> "SPLIT_FINISH", data |-> rest]>>)
    /\ queue' = Append(queue, cur)
    /\ cur' = <<>> /\ rest' = <<>>

ServerCloses ==
    /\ Alive /\ serverUp /\ serverUp' = FALSE
    /\ UNCHANGED <<main, reader, m_connected, sock, threads, clientVars, reportVars,
                   keySent, wire, cur, rest, queue>>

ServerStep ==
    \/ \E p \in Packets : SendWhole(p) \/ \E n \in 1..2 : SendPiece(p, n)
    \/ SendLastPiece \/ ServerCloses

-----------------------------------------------------------------------------
Next == Connect \/ ConnectFails \/ Disconnect \/ MainStep \/ ReaderStep \/ ServerStep

Spec == Init /\ [][Next]_vars

\* Both threads are scheduled.  Nobody has to press Enter, and the server owes
\* nothing.
FairSpec == Spec /\ WF_vars(MainStep) /\ WF_vars(ReaderStep)

-----------------------------------------------------------------------------
\* The type invariant: labels, flags and the shape of the buffers.
TypeOK ==
    /\ main \in {"connect", "prompt", "close", "join", "report", "destroy",
                 "exited", "terminated"}
    /\ reader \in {"none", "loop", "read", "handle", "kicked", "ended", "report",
                   "done"}
    /\ {m_connected, sock, threads, serverUp, keySent} \subseteq BOOLEAN
    /\ m_map_name \in {"", "gridmap"} /\ m_player_id \in {0, 7}
    /\ connReports \subseteq {"ok", "failed"}
    /\ m_split_buf \in {<<>>} \cup UNION {{SubSeq(p, 1, n) : n \in 1..Len(p)} : p \in Packets}
    /\ pkt \in Packets \cup {<<>>} /\ cur \in Packets \cup {<<>>}
    /\ Len(wire) <= MaxWire

Channel == INSTANCE PacketChannel WITH
    NoPacket <- <<>>,
    got <- pkt,
    up <- Alive /\ reader \notin {"ended", "report", "done"}

\* However the server splits its packets, readLoop hands every packet over
\* whole, once and in order, goes on while the connection lasts and stops after
\* it: the client implements the packet channel.
DeliversInOrder == Channel!Spec

\* Kick, end of the loop and disconnect() each report at most once and in that
\* order, whichever thread gets there first: a kick ends the loop, the loop's end
\* is always reported, and disconnect() reports only after the join.
DisconnectReasons ==
    discReports \in {<<>>, <<"kicked">>, <<"closed">>, <<"kicked", "closed">>,
                     <<"closed", "disconnected">>,
                     <<"kicked", "closed", "disconnected">>}

\* When runBeamMP's callback is told of success it prints the map's name: the
\* handshake has stored it by then.
MapKnownWhenConnected == "ok" \in connReports => m_map_name # ""

\* A disconnect() that found the client connected gets its threads joined and
\* the program ends normally.
DisconnectCompletes == main = "close" ~> main = "exited"

\* When the server goes away the user is told so, unless the program ends first.
LossReported ==
    reader # "none" /\ ~serverUp ~> "closed" \in Range(discReports) \/ ~Alive

\* BeamMPClient can be used like NetworkClient, whose disconnect() always joins:
\* leaving runBeamMP never ends in std::terminate.
LeavesCleanly == main # "terminated"

=============================================================================
