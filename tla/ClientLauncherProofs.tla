------------------------ MODULE ClientLauncherProofs ------------------------
(***************************************************************************)
(* Theorems about the connection half of the launcher, for every set of    *)
(* packets and every bound on the frames in flight.                        *)
(***************************************************************************)
EXTENDS LoginProofs

-----------------------------------------------------------------------------
(* The inductive invariant.                                                *)

\* The wire holds frames, and while a payload is read the first one is its packet.
WireInv ==
    /\ wire \in Seq(Packets \cup {BadFrame})
    /\ chain = "payload" => wire # <<>> /\ Head(wire) \in Packets

\* A loss is reported by the chain of reads as it ends, and nothing starts another
\* chain: connect() is called once, before the connection is stopped.
ReportInv ==
    /\ discReports \in {0, 1}
    /\ chain # "none" => discReports = 0
    /\ main = "connect" => chain = "none" /\ discReports = 0 /\ ~stopped
    /\ main = "join" => stopped

ClientInv == WireInv /\ ReportInv

\* The first of several frames is a frame, and stays the first when more come.
LEMMA HeadIsFrame == ASSUME NEW S, NEW s \in Seq(S), s # <<>> PROVE Head(s) \in S
  OBVIOUS

LEMMA HeadStays ==
    ASSUME NEW S, NEW s \in Seq(S), s # <<>>, NEW e \in S
    PROVE  Append(s, e) # <<>> /\ Head(Append(s, e)) = Head(s)
  OBVIOUS

\* No connection, no read and no report at the start.
LEMMA ClientInvInit == Init => ClientInv
  BY DEF Init, ClientInit, ClientInv, WireInv, ReportInv

\* Every step of the main thread, of a handler and of the server keeps it.
LEMMA ClientInvNext == ClientInv /\ [Next]_vars => ClientInv'
<1> SUFFICES ASSUME ClientInv, [Next]_vars PROVE ClientInv'
  OBVIOUS
<1> USE DEF ClientInv, WireInv, ReportInv
<1>1. CASE Connect
  BY <1>1 DEF Connect, reportVars, serverVars
<1>2. CASE Disconnect
  BY <1>2 DEF Disconnect, reportVars, serverVars
<1>3. CASE MainStep
  BY <1>3 DEF MainStep, CloseSockets, StopIoc, StopsIoc, JoinAndDestroy, reportVars, serverVars
<1>4. CASE IoStep
  <2>1. CASE Connected
    BY <2>1 DEF Connected, Running, reportVars
  <2>2. CASE ConnectFails
    BY <2>2 DEF ConnectFails, Running, serverVars
  <2>3. CASE ConnectThrows
    BY <2>3 DEF ConnectThrows, Running, reportVars, serverVars
  <2>4. CASE ReadFails
    BY <2>4 DEF ReadFails, Running, ReportsLoss, EndsChain, serverVars
  <2>5. CASE ReadLen
    BY <2>5, HeadIsFrame DEF ReadLen, Running, reportVars, serverVars
  <2>6. CASE ReadPayload
    BY <2>6 DEF ReadPayload, Running, OnPacket, TakesPayload
  <2>7. CASE IoEnds
    BY <2>7 DEF IoEnds, reportVars, serverVars
  <2> QED
    BY <1>4, <2>1, <2>2, <2>3, <2>4, <2>5, <2>6, <2>7 DEF IoStep
<1>5. CASE \E f \in Packets \cup {BadFrame} : ServerSends(f)
  BY <1>5, HeadStays DEF ServerSends, reportVars
<1>6. CASE ServerCloses
  BY <1>6 DEF ServerCloses, reportVars
<1>7. CASE UNCHANGED clientVars
  BY <1>7 DEF clientVars, reportVars, serverVars
<1> QED
  BY <1>1, <1>2, <1>3, <1>4, <1>5, <1>6, <1>7 DEF Next, ClientNext, vars

\* The invariant holds in every reachable state of the launcher.
THEOREM ClientInvariant == Spec => []ClientInv
  BY ClientInvInit, ClientInvNext, PTL DEF Spec

-----------------------------------------------------------------------------
(* What follows from it.                                                   *)

\* m_disc_cb is called once at most, although a disconnect() of our own, the
\* server's end of the connection and both reads of a frame can each fail.
THEOREM LossIsReportedOnce == Spec => []LossReportedOnce
<1>1. ClientInv => LossReportedOnce
  BY DEF ClientInv, ReportInv, LossReportedOnce
<1> QED
  BY <1>1, ClientInvariant, PTL

\* The values of the connection's variables.
LEMMA ClientTypeNext == ClientInv /\ ClientTypeOK /\ [Next]_vars => ClientTypeOK'
<1> SUFFICES ASSUME ClientInv, ClientTypeOK, [Next]_vars PROVE ClientTypeOK'
  OBVIOUS
<1>1. WireInv' /\ discReports' \in Nat
  BY ClientInvNext DEF ClientInv, ReportInv
<1> USE NetworkClientAssumption DEF ClientTypeOK, serverVars, reportVars
<1>2. CASE Connect \/ Disconnect \/ MainStep
  BY <1>2 DEF Connect, Disconnect, MainStep, CloseSockets, StopIoc, StopsIoc, JoinAndDestroy
<1>3. CASE Connected \/ ConnectFails \/ ConnectThrows
  BY <1>3 DEF Connected, ConnectFails, ConnectThrows
<1>4. CASE ReadFails \/ ReadLen \/ IoEnds
  BY <1>1, <1>4 DEF ReadFails, EndsChain, ReadLen, IoEnds, WireInv
<1>5. CASE ReadPayload
  <2>1. pkt' \in Packets /\ Len(wire') <= MaxWire
    BY <1>5 DEF ReadPayload, OnPacket, TakesPayload, ClientInv, WireInv
  <2>2. connReports' \subseteq {"ok", "failed"}
    BY <1>5, Zenon DEF ReadPayload, OnPacket
  <2> QED
    BY <1>1, <1>5, <2>1, <2>2 DEF ReadPayload, OnPacket, WireInv
<1>6. CASE \E f \in Packets \cup {BadFrame} : ServerSends(f)
  BY <1>1, <1>6 DEF ServerSends, WireInv
<1>7. CASE ServerCloses
  BY <1>7 DEF ServerCloses
<1>8. CASE UNCHANGED clientVars
  BY <1>8 DEF clientVars
<1> QED
  BY <1>2, <1>3, <1>4, <1>5, <1>6, <1>7, <1>8 DEF Next, ClientNext, IoStep, vars

\* Both halves of the launcher are well typed, and who has a BeamMP server to
\* join has a key.
THEOREM TypeCorrect == Spec => []TypeOK
<1>1. Init => ClientTypeOK
  <2> SUFFICES ASSUME ClientInit PROVE ClientTypeOK
    BY DEF Init
  <2>1. {udp, m_connected, stopped, serverUp} \subseteq BOOLEAN
    BY DEF ClientInit
  <2>2. wire \in Seq(Packets \cup {BadFrame}) /\ Len(wire) <= MaxWire
    BY NetworkClientAssumption DEF ClientInit
  <2> QED
    BY <2>1, <2>2 DEF ClientInit, ClientTypeOK
<1>2. LoginInv /\ ClientTypeOK => TypeOK
  BY DEF LoginInv, TypeOK
<1> QED
  BY <1>1, <1>2, ClientTypeNext, ClientInvariant, LoginInvariant, PTL DEF Spec

\* The reads and disconnect() start as a connection that delivers.
LEMMA ChannelInit == Init => Channel!Init
  BY DEF Init, ClientInit, Channel!Init, Alive

\* Every step delivers the oldest packet, appends one, goes down or stutters.
LEMMA ChannelNext == ClientInv /\ [Next]_vars => [Channel!Next]_Channel!vars
<1> SUFFICES ASSUME ClientInv, [Next]_vars PROVE [Channel!Next]_Channel!vars
  OBVIOUS
<1> USE DEF ClientInv, WireInv, ReportInv, Channel!vars
<1>1. CASE Connect
  BY <1>1 DEF Connect, reportVars, serverVars, Alive, Channel!Next, Channel!GoDown
<1>2. CASE Disconnect
  BY <1>2 DEF Disconnect, reportVars, serverVars, Alive
<1>3. CASE CloseSockets
  BY <1>3 DEF CloseSockets, reportVars, serverVars, Alive
<1>4. CASE StopIoc
  BY <1>4 DEF StopIoc, StopsIoc, reportVars, serverVars, Alive, Channel!Next, Channel!GoDown
<1>5. CASE JoinAndDestroy
  BY <1>5 DEF JoinAndDestroy, reportVars, serverVars, Alive
<1>6. CASE Connected
  BY <1>6 DEF Connected, Running, reportVars, Alive
<1>7. CASE ConnectFails
  BY <1>7 DEF ConnectFails, Running, serverVars, Alive
<1>8. CASE ConnectThrows
  BY <1>8 DEF ConnectThrows, Running, reportVars, serverVars, Alive, Channel!Next, Channel!GoDown
<1>9. CASE ReadFails
  BY <1>9 DEF ReadFails, Running, ReportsLoss, EndsChain, serverVars, Alive, Channel!Next, Channel!GoDown
<1>10. CASE ReadLen
  BY <1>10 DEF ReadLen, Running, reportVars, serverVars, Alive, Channel!Next, Channel!GoDown
<1>11. CASE ReadPayload
  BY <1>11 DEF ReadPayload, Running, OnPacket, TakesPayload, Alive, Channel!Next, Channel!Deliver
<1>12. CASE IoEnds
  BY <1>12 DEF IoEnds, reportVars, serverVars, Alive
<1>13. CASE \E f \in Packets \cup {BadFrame} : ServerSends(f)
  BY <1>13 DEF ServerSends, reportVars, Alive, Channel!Next, Channel!Send
<1>14. CASE ServerCloses
  BY <1>14 DEF ServerCloses, reportVars, Alive
<1>15. CASE UNCHANGED clientVars
  BY <1>15 DEF clientVars, reportVars, serverVars, Alive
<1> QED
  BY <1>1, <1>2, <1>3, <1>4, <1>5, <1>6, <1>7, <1>8, <1>9, <1>10, <1>11, <1>12, <1>13,
     <1>14, <1>15 DEF Next, ClientNext, MainStep, IoStep, vars

\* The launcher's connection implements PacketChannel, its fairness aside: every
\* packet is handed over whole, once and in order, and none after the end.
THEOREM ClientImplementsChannel == Spec => Channel!Init /\ [][Channel!Next]_Channel!vars
  BY ChannelInit, ChannelNext, ClientInvariant, PTL DEF Spec

=============================================================================
