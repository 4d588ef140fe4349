---------------------------- MODULE NetworkClient ----------------------------
(***************************************************************************)
(* The launcher's own connection to a NovaMP server: NetworkClient, as     *)
(* runNovaMP uses it.                                                      *)
(*                                                                         *)
(* The main thread connects, waits for Enter and disconnects.  One thread  *)
(* runs the io_context: the handlers of the connect, of the chain of TCP   *)
(* reads and of the UDP reads, one at a time.                              *)
(***************************************************************************)
EXTENDS Naturals, Sequences

CONSTANTS
    Packets,   \* what a server sends, "auth_ok" among it
    NoPacket,
    BadFrame,  \* a frame whose length is 0, more than 4 MB or less than a header
    MaxWire    \* BOUND on the frames in flight

ASSUME NetworkClientAssumption ==
    /\ MaxWire \in Nat \ {0} /\ NoPacket \notin Packets /\ BadFrame \notin Packets

VARIABLES
    main,        \* where the main thread stands
    io,          \* the io thread: "none", "run", "done"
    chain,       \* the TCP operation that is outstanding: "none", "connect", "len", "payload"
    udp,         \* the UDP reads were started
    m_connected,
    sock,        \* our end of the TCP connection: "closed", "connecting", "open"
    stopped,     \* m_ioc.stop() was called
    serverUp, wire, \* the server's end, and what it has sent
    pkt,         \* the packet m_pkt_cb was given last
    connReports, discReports \* history: calls of m_conn_cb and m_disc_cb

reportVars == <<connReports, discReports>>
serverVars == <<serverUp, wire>>
clientVars == <<main, io, chain, udp, m_connected, sock, stopped, serverVars, pkt, reportVars>>

ClientInit ==
    /\ main = "connect" /\ io = "none" /\ chain = "none" /\ udp = FALSE
    /\ m_connected = FALSE /\ sock = "closed" /\ stopped = FALSE
    /\ serverUp = FALSE /\ wire = <<>> /\ pkt = NoPacket
    /\ connReports = {} /\ discReports = 0

Alive == main \notin {"exited", "terminated"}

-----------------------------------------------------------------------------
(* The main thread.                                                        *)

\* connect(): resolve() throws for an unknown host, and nothing catches it.
Connect ==
    /\ main = "connect"
    /\ \/ main' = "prompt" /\ io' = "run" /\ sock' = "connecting" /\ chain' = "connect"
       \/ main' = "terminated" /\ UNCHANGED <<io, sock, chain>>
    /\ UNCHANGED <<udp, m_connected, stopped, serverVars, pkt, reportVars>>

\* Enter: disconnect() runs whether or not there is a connection.
Disconnect ==
    /\ main = "prompt"
    /\ m_connected' = FALSE
    /\ main' = "close"
    /\ UNCHANGED <<io, chain, udp, sock, stopped, serverVars, pkt, reportVars>>

CloseSockets ==
    /\ main = "close"
    /\ sock' = "closed"
    /\ main' = "stop"
    /\ UNCHANGED <<io, chain, udp, m_connected, stopped, serverVars, pkt, reportVars>>

\* MUTANT: m_ioc.stop() is forgotten; the UDP reads go on.
KeepsRunning == UNCHANGED stopped

StopsIoc == stopped' = TRUE

StopIoc ==
    /\ main = "stop"
    /\ StopsIoc
    /\ main' = "join"
    /\ UNCHANGED <<io, chain, udp, m_connected, sock, serverVars, pkt, reportVars>>

\* The destructor's disconnect() finds nothing left to join.
JoinAndDestroy ==
    /\ main = "join" /\ io = "done"
    /\ m_connected' = FALSE
    /\ main' = "exited"
    /\ UNCHANGED <<io, chain, udp, sock, stopped, serverVars, pkt, reportVars>>

MainStep == CloseSockets \/ StopIoc \/ JoinAndDestroy

-----------------------------------------------------------------------------
(* The io thread.                                                          *)

Running == io = "run" /\ Alive /\ ~stopped

\* The handler of async_connect: AUTH_REQUEST goes out, both reads start.
Connected ==
    /\ Running /\ chain = "connect" /\ sock = "connecting"
    /\ sock' = "open" /\ serverUp' = TRUE
    /\ chain' = "len" /\ udp' = TRUE
    /\ UNCHANGED <<main, io, m_connected, stopped, wire, pkt, reportVars>>

\* Refused, timed out, or aborted by disconnect().
ConnectFails ==
    /\ Running /\ chain = "connect"
    /\ sock' = "closed" /\ chain' = "none"
    /\ connReports' = connReports \cup {"failed"}
    /\ UNCHANGED <<main, io, udp, m_connected, stopped, serverVars, pkt, discReports>>

\* The connect succeeded, but its handler finds the socket closed or the peer gone:
\* set_option() and remote_endpoint() throw, and nothing catches it.
ConnectThrows ==
    /\ Running /\ chain = "connect"
    /\ main' = "terminated"
    /\ UNCHANGED <<io, chain, udp, m_connected, sock, stopped, serverVars, pkt, reportVars>>

\* MUTANT: the handler goes on after the error.
ReadsOn == UNCHANGED chain

EndsChain == chain' = "none"

\* MUTANT: m_disc_cb is not called.
EndsSilently == UNCHANGED discReports

ReportsLoss == discReports' = discReports + 1

\* The connection ended, at this end or at the other; what was not read of one
\* that was reset is lost.
ReadFails ==
    /\ Running /\ chain \in {"len", "payload"} /\ (~serverUp \/ sock = "closed")
    /\ ReportsLoss
    /\ EndsChain
    /\ UNCHANGED <<main, io, udp, m_connected, sock, stopped, serverVars, pkt, connReports>>

\* tcpReadLen; a length that cannot be makes disconnect() join the io thread
\* from itself, which throws, as parseHeader() does for a frame without a header.
ReadLen ==
    /\ Running /\ chain = "len" /\ sock = "open" /\ wire # <<>>
    /\ IF Head(wire) = BadFrame
       THEN main' = "terminated" /\ UNCHANGED chain
       ELSE chain' = "payload" /\ UNCHANGED main
    /\ UNCHANGED <<io, udp, m_connected, sock, stopped, serverVars, pkt, reportVars>>

\* onPacket
OnPacket(p) ==
    /\ pkt' = p
    /\ m_connected' = (m_connected \/ p = "auth_ok")
    /\ connReports' = CASE p = "auth_ok" -> connReports \cup {"ok"}
                        [] p = "auth_no" -> connReports \cup {"failed"}
                        [] OTHER -> connReports

\* MUTANT: the payload is handed over again with the next read.
KeepsPayload == UNCHANGED wire

TakesPayload == wire' = Tail(wire)

ReadPayload ==
    /\ Running /\ chain = "payload" /\ sock = "open"
    /\ OnPacket(Head(wire))
    /\ TakesPayload
    /\ chain' = "len"
    /\ UNCHANGED <<main, io, udp, sock, stopped, serverUp, discReports>>

\* run() returns after stop(), or when no handler is left; a UDP read is always
\* followed by another one.
IoEnds ==
    /\ io = "run" /\ Alive
    /\ stopped \/ (chain = "none" /\ ~udp)
    /\ io' = "done"
    /\ UNCHANGED <<main, chain, udp, m_connected, sock, stopped, serverVars, pkt, reportVars>>

IoStep ==
    \/ Connected \/ ConnectFails \/ ConnectThrows
    \/ ReadFails \/ ReadLen \/ ReadPayload \/ IoEnds

-----------------------------------------------------------------------------
(* The server.                                                             *)

ServerSends(f) ==
    /\ Alive /\ serverUp /\ Len(wire) < MaxWire
    /\ wire' = Append(wire, f)
    /\ UNCHANGED <<main, io, chain, udp, m_connected, sock, stopped, serverUp, pkt, reportVars>>

ServerCloses ==
    /\ Alive /\ serverUp /\ serverUp' = FALSE
    /\ UNCHANGED <<main, io, chain, udp, m_connected, sock, stopped, wire, pkt, reportVars>>

ClientNext ==
    \/ Connect \/ Disconnect \/ MainStep \/ IoStep
    \/ \E f \in Packets \cup {BadFrame} : ServerSends(f)
    \/ ServerCloses

\* Both threads are scheduled; nobody has to press Enter.
ClientFairness == WF_clientVars(MainStep) /\ WF_clientVars(IoStep)

-----------------------------------------------------------------------------
(* Properties.                                                             *)

\* The values of the variables; a packet is only handed over while it is read.
ClientTypeOK ==
    /\ main \in {"connect", "prompt", "close", "stop", "join", "exited", "terminated"}
    /\ io \in {"none", "run", "done"} /\ chain \in {"none", "connect", "len", "payload"}
    /\ {udp, m_connected, stopped, serverUp} \subseteq BOOLEAN
    /\ sock \in {"closed", "connecting", "open"}
    /\ wire \in Seq(Packets \cup {BadFrame}) /\ Len(wire) <= MaxWire
    /\ pkt \in Packets \cup {NoPacket}
    /\ connReports \subseteq {"ok", "failed"} /\ discReports \in Nat
    /\ chain = "payload" => wire # <<>>

Channel == INSTANCE PacketChannel WITH
    Packets <- Packets \cup {BadFrame},
    queue <- wire,
    got <- pkt,
    up <- Alive /\ ~stopped /\ (chain # "none" \/ discReports = 0)

\* The two reads of a frame follow each other in one chain: every packet is
\* handed over whole, once and in order, and none after the connection ended.
ClientDeliversInOrder == Channel!Spec

\* Whoever ends the connection, and however often, it is reported once at most.
LossReportedOnce == discReports <= 1

\* disconnect() comes back: the io thread ends although UDP reads never do.
DisconnectReturns == main = "close" ~> main \in {"exited", "terminated"}

\* When the server goes away the user is told, unless the program ends first.
ClientLossReported ==
    sock = "open" /\ ~serverUp ~> discReports > 0 \/ main # "prompt"

=============================================================================
